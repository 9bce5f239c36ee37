------------------------------ MODULE LruCache ------------------------------
(***************************************************************************)
(* The cache that simCache.cc simulates, as it is defined: each set holds  *)
(* the tags accessed last, at most ways of them, the newest first.  A tag  *)
(* that is there hits and becomes the newest; one that is not misses and   *)
(* replaces the oldest when the set is full; a flush empties every set.    *)
(***************************************************************************)
EXTENDS Integers, Sequences, SequencesExt

CONSTANTS Lines         \* line addresses

VARIABLES
    shape,              \* number of sets, ways of each, are depths counted?
    content,            \* the tags of each set, newest first
    count,              \* accesses by outcome and operation
    depth               \* hits by distance from the newest

lruVars == <<shape, content, count, depth>>

LruInit ==
    /\ shape \in [sets : Nat \ {0}, ways : Nat \ {0}, depths : BOOLEAN]
    /\ content = [w \in 0 .. shape.sets - 1 |-> << >>]
    /\ count = [o \in {"hit", "miss"} \X {"READ", "WRITE"} |-> 0]
    /\ depth = [d \in 0 .. shape.ways - 1 |-> 0]

(* Where a tag that is there is, from the newest on.                       *)
Place(tags, t) == CHOOSE p \in 1 .. Len(tags) : tags[p] = t

Touch(line, o) ==
    LET w == line % shape.sets
        t == line \div shape.sets
        tags == content[w]
        hit == Contains(tags, t)
        kept == IF hit THEN RemoveAt(tags, Place(tags, t))
                ELSE SubSeq(tags, 1, IF Len(tags) = shape.ways THEN Len(tags) - 1 ELSE Len(tags))
    IN /\ content' = [content EXCEPT ![w] = <<t>> \o kept]
       /\ count' = [count EXCEPT ![<<IF hit THEN "hit" ELSE "miss", o>>] = @ + 1]
       /\ depth' = IF hit /\ shape.depths
                     THEN [depth EXCEPT ![Place(tags, t) - 1] = @ + 1]
                     ELSE depth
       /\ UNCHANGED shape

LruFlush ==
    /\ content' = [w \in DOMAIN content |-> << >>]
    /\ UNCHANGED <<shape, count, depth>>

LruNext == (\E line \in Lines, o \in {"READ", "WRITE"} : Touch(line, o)) \/ LruFlush

LruSpec == LruInit /\ [][LruNext]_lruVars
=============================================================================
