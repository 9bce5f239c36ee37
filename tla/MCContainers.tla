---------------------------- MODULE MCContainers ----------------------------
(***************************************************************************)
(* The bit vector of the branch history and the caches with their lists:   *)
(* they share no state, so one of them runs at a time.                     *)
(*                                                                         *)
(* The vector: three words of three bits, the last of them used in part.   *)
(* The cache: two sets, or one, and lines of which five share a set, one   *)
(* more than its ways, so that hits meet the head, the middle and the tail *)
(* of a full list and misses evict.                                        *)
(***************************************************************************)
EXTENDS SimBitvec, SimCache

VARIABLE part       \* what runs: "vector", "cache"

MCInit ==
    /\ part \in {"vector", "cache"}
    /\ BvInit
    /\ CacheInit /\ (part = "vector" => impl = "direct")

MCNext ==
    /\ UNCHANGED part
    /\ \/ part = "vector" /\ BvNext /\ UNCHANGED cacheVars
       \/ part = "cache" /\ NextNoListFlush /\ UNCHANGED bvVars

MCSpec == MCInit /\ [][MCNext]_<<bvVars, cacheVars, part>>
=============================================================================
