---------------------------- MODULE MCPredictors ----------------------------
(***************************************************************************)
(* The five predictors, of which main creates one: tage, or one of the     *)
(* four of Predictors.                                                     *)
(*                                                                         *)
(* tage: words of four bits; a history of two of them, as 256 bits are     *)
(* four of the program's; tables of two entries; two addresses of the same *)
(* index with different tags, and one with tag 0, the tag of the cleared   *)
(* entries.                                                                *)
(*                                                                         *)
(* The others: words of eight bits instead of 64, so that a few outcomes   *)
(* reach both folds of gshare's history; two branches, whose addresses     *)
(* differ in the bits of the small tables and in the number of digits of   *)
(* uberhistory's key.                                                      *)
(***************************************************************************)
EXTENDS Tage

MCTableLengths == <<8, 2, 0>>

VARIABLES
    bpred,      \* "tage" or "table": which of the two main has created
    class, history, tables, step, branch, idx, guess, outcome,     \* of Predictors
    branches, mispredicts, mispredict_map, before, jumps

tableVars == <<class, history, tables, step, branch, idx, guess, outcome,
               branches, mispredicts, mispredict_map, before, jumps>>

P == INSTANCE Predictors WITH
        Addr <- {1, 4}, Impls <- {"gshare", "gtagged", "uberhistory", "bimodal"},
        WordBits <- 8, BhrLen <- 3, LgPht <- 2, LgCPht <- 1, PcShift <- 0, LgInsn <- 0,
        LgDigit <- 2, MaxBranches <- 4, MaxJumps <- 2,
        impl <- class, bhr <- history, phase <- step, addr <- branch, bp <- guess,
        taken <- outcome, n_branches <- branches, n_mispredicts <- mispredicts,
        seen <- before, n_jumps <- jumps

(* These values are among those that the theorems about Predictors take.   *)
ASSUME TablesAssumption == P!PredictorsAssumption

MCInit ==
    /\ TageInit /\ P!PdInit
    /\ bpred \in {"tage", "table"} /\ (bpred = "tage" => class = "gshare")

TageStep == bpred = "tage" /\ TageNext /\ UNCHANGED <<bpred, tableVars>>
TableStep == bpred = "table" /\ P!PdNext /\ UNCHANGED <<bpred, tageVars>>

MCSpec == MCInit /\ [][TageStep \/ TableStep]_<<bpred, tageVars, tableVars>>

(* Each predictor of Predictors is the abstract one it promises to be      *)
(* (branch_predictor.cc, predict and update around the shift of the        *)
(* history in profileMips.cc:346-398).                                     *)
ImplementsPredictor == P!ImplementsPredictor
=============================================================================
