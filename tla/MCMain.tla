------------------------------- MODULE MCMain -------------------------------
(***************************************************************************)
(* main, and two parts it calls that share no state with it and so run one *)
(* at a time here: the decoders of dump_histo and execMips, and the        *)
(* checksum of --hash.                                                     *)
(*                                                                         *)
(* main: int32_t of four bits, words of eight; every shape of cache with   *)
(* one predictor, and every predictor with one shape.  Checksums of four   *)
(* bits over bytes of two; the generator is x^4 + x + 1.                   *)
(***************************************************************************)
EXTENDS Main, MCDecoder, Crc

Defaults ==
    [bad |-> FALSE, help |-> FALSE, file |-> TRUE, bpred_impl |-> "", bhr_len |-> 4,
     lg_pht_sz |-> 3, lg_c_pht_sz |-> 3, assoc |-> -1, sets |-> 4, line_len |-> 2]

Shapes ==
    {[Defaults EXCEPT !.assoc = a, !.sets = s, !.line_len = l] :
        a \in -1 .. 4, s \in {-8} \cup 0 .. 4, l \in {-8} \cup 0 .. 4}

Predictors ==
    {[Defaults EXCEPT !.bpred_impl = i, !.lg_pht_sz = p, !.lg_c_pht_sz = k] :
        i \in {"", "unknown", "gshare", "gtagged", "uberhistory", "bimodal", "tage"},
        p \in 2 .. 4, k \in 2 .. 4}

Refused ==
    {[Defaults EXCEPT !.bad = TRUE], [Defaults EXCEPT !.help = TRUE], [Defaults EXCEPT !.file = FALSE]}

MCOptionSets == Shapes \cup Predictors \cup Refused
MCPoly == {2, 3}

VARIABLE part       \* what runs: "main", "decoders", "checksum"

MainIdle ==
    /\ opts = Defaults /\ masks = FALSE /\ writable = TRUE
    /\ stmt = 1 /\ live = {} /\ bhr_len = 0 /\ L1D = NoCache /\ listing = "none" /\ outcome = "running"
DecodersIdle ==
    /\ isMipsEL = FALSE /\ pc = 0
    /\ inst = [op |-> 0, rs |-> 0, rt |-> 0, rd |-> 0, sa |-> 0, funct |-> 0]
    /\ ran = NotYet /\ handed = inst /\ shown = NotYet
ChecksumIdle == buf = << >> /\ read = 0 /\ crc = AllOnes

MCInit ==
    \/ part = "main" /\ MainInit /\ DecodersIdle /\ ChecksumIdle
    \/ part = "decoders" /\ DecodeInit /\ MainIdle /\ ChecksumIdle
    \/ part = "checksum" /\ CrcInit /\ MainIdle /\ DecodersIdle

MCNext ==
    /\ UNCHANGED part
    /\ \/ part = "main" /\ MainNext /\ UNCHANGED <<decodeVars, crcVars>>
       \/ part = "decoders" /\ DecodeNext /\ UNCHANGED <<mainVars, crcVars>>
       \/ part = "checksum" /\ CrcNext /\ UNCHANGED <<mainVars, decodeVars>>

MCSpec == MCInit /\ [][MCNext]_<<mainVars, decodeVars, crcVars, part>>
=============================================================================
