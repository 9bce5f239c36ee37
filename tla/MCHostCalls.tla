---------------------------- MODULE MCHostCalls ----------------------------
(***************************************************************************)
(* HostCalls with one name in two directories, two descriptors above the   *)
(* streams, files of two bytes, and at most two words of arguments.        *)
(***************************************************************************)
EXTENDS HostCalls

\* Each access, each flag alone and as programs combine them, and the flags no
\* property tells apart.
MCFlags ==
    {{0} \cup more : more \in {{}, {3}, {9}, {10}, {3, 9}, {9, 10}, {9, 11}}}
        \cup {{}, {9}, {10}, {1}, {1, 3, 9}, {1, 9, 10}, {0, 9, 13, 14, 15}}
MCOffsets == {-1, 1}
MCExisting == {<<"/", "f">> :> <<1>>}
MCModes ==
    {[el |-> FALSE, clock |-> TRUE, args |-> <<" ">>],
     [el |-> FALSE, clock |-> FALSE, args |-> <<" ", "a", " ", "b">>],
     [el |-> TRUE, clock |-> TRUE, args |-> <<"a", " ", "b", " ", " ", "c">>]}
=============================================================================
