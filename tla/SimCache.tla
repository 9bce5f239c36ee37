------------------------------ MODULE SimCache ------------------------------
(***************************************************************************)
(* The data cache (simCache.cc): one object, direct mapped, fully or set   *)
(* associative, that the interpreter's loads and stores access and every   *)
(* monitor call flushes (profileMips.cc:690).  Addresses count lines: the  *)
(* offset in a line plays no part, nor does num_bytes, which no access     *)
(* looks at.                                                               *)
(***************************************************************************)
EXTENDS MyList, FiniteSets

CONSTANTS
    Impls,          \* the classes main may create
    NumSets,        \* --sets
    Assoc,          \* --assoc
    Lines,          \* addresses of lines
    Garbage,        \* what the pool's memory may hold to begin with
    MaxAccesses,    \* bound: accesses made
    MaxWrites       \* bound: writes among them

(* The constructor exits on any other shape (simCache.cc:50-53); main      *)
(* creates a class of lists for more than one way only (main.cc:227-235),  *)
(* which their pop_back needs.                                             *)
PowersOfTwo(n) == {2^k : k \in 0 .. n}

ASSUME ShapeAssumption ==
    /\ NumSets \in Nat \ {0} /\ NumSets \in PowersOfTwo(NumSets)
    /\ Assoc \in Nat \ {0} /\ Assoc \in PowersOfTwo(Assoc) /\ Assoc <= PoolCells
    /\ Impls \subseteq {"direct", "full", "set"}
    /\ Impls \cap {"full", "set"} # {} => Assoc > 1
    /\ Lines \subseteq Nat /\ MaxAccesses \in Nat

VARIABLES
    impl,               \* the class of *globals::L1D
    sets,               \* setAssocCache::sets, fullAssocCache::entries as set 0
    tags, valid,        \* directMappedCache's
    hits, misses, rw_hits, rw_misses,
    hitdepth,           \* fullAssocCache::hitdepth
    status              \* "ok", or the fault of the list it ended in

cacheVars == <<impl, sets, tags, valid, hits, misses, rw_hits, rw_misses, hitdepth, status>>

opType == {"READ", "WRITE"}

(* main.cc:224-235 gives the fully associative cache one set and the       *)
(* direct mapped one way.                                                  *)
SetCount == IF impl = "full" THEN 1 ELSE NumSets
Ways == IF impl = "direct" THEN 1 ELSE Assoc

(* index(addr, l, t)                                                       *)
SetIndex(line) == line % SetCount
Tag(line) == line \div SetCount

CacheInit ==
    /\ impl \in Impls
    /\ \E g \in Garbage : sets = [w \in 0 .. SetCount - 1 |-> EmptyList(g)]
    /\ tags = [w \in 0 .. SetCount - 1 |-> 0]
    /\ valid = [w \in 0 .. SetCount - 1 |-> FALSE]
    /\ hits = 0 /\ misses = 0
    /\ rw_hits = [o \in opType |-> 0] /\ rw_misses = [o \in opType |-> 0]
    /\ hitdepth = [d \in 0 .. Assoc - 1 |-> 0]
    /\ status = "ok"

CountHit(o) ==
    /\ hits' = hits + 1 /\ rw_hits' = [rw_hits EXCEPT ![o] = @ + 1]
    /\ UNCHANGED <<misses, rw_misses>>

CountMiss(o) ==
    /\ misses' = misses + 1 /\ rw_misses' = [rw_misses EXCEPT ![o] = @ + 1]
    /\ UNCHANGED <<hits, rw_hits>>

Ready(o) ==
    /\ status = "ok" /\ hits + misses < MaxAccesses
    /\ o = "WRITE" => rw_hits[o] + rw_misses[o] < MaxWrites

DirectAccess(line, o) ==
    LET w == SetIndex(line)
        t == Tag(line)
    IN /\ Ready(o) /\ impl = "direct"
       /\ IF tags[w] = t /\ valid[w]
            THEN CountHit(o) /\ UNCHANGED <<tags, valid>>
            ELSE /\ CountMiss(o)
                 /\ valid' = [valid EXCEPT ![w] = TRUE]
                 /\ tags' = [tags EXCEPT ![w] = t]
       /\ UNCHANGED <<impl, sets, hitdepth, status>>

(* Variant for the mutants: a hit leaves the entry in its place (FIFO).    *)
MovedNowhere(l, it) == l

(* The list of a set after a hit on the entry that find returned.          *)
Moved(l, it) == MoveToHead(l, it.ptr)

(* The list after a miss: a full set evicts its oldest tag first.          *)
Inserted(l, t) == PushFront(IF l.cnt = Ways THEN PopBack(l) ELSE l, t)

(* cacheset::access and fullAssocCache::access.                            *)
ListAccess(line, o) ==
    LET w == SetIndex(line)
        l == sets[w]
        it == Find(l, Tag(line))
        hit == it.ptr # Null
    IN /\ Ready(o) /\ impl \in {"full", "set"}
       /\ ~it.hangs
       /\ IF hit THEN CountHit(o) ELSE CountMiss(o)
       /\ sets' = [sets EXCEPT ![w] = IF hit THEN Moved(l, it) ELSE Inserted(l, Tag(line))]
       /\ hitdepth' = IF hit /\ impl = "full" THEN [hitdepth EXCEPT ![it.dist] = @ + 1] ELSE hitdepth
       /\ status' = IF sets'[w].fault = "none" THEN "ok" ELSE sets'[w].fault
       /\ UNCHANGED <<impl, tags, valid>>

(* find runs in a circle.                                                  *)
ListHangs(line) ==
    /\ Ready("READ") /\ impl \in {"full", "set"}
    /\ Find(sets[SetIndex(line)], Tag(line)).hangs
    /\ status' = "hang"
    /\ UNCHANGED <<impl, sets, tags, valid, hits, misses, rw_hits, rw_misses, hitdepth>>

DirectFlush ==
    /\ status = "ok" /\ impl = "direct"
    /\ valid' = [w \in DOMAIN valid |-> FALSE]
    /\ UNCHANGED <<impl, sets, tags, hits, misses, rw_hits, rw_misses, hitdepth, status>>

ListFlush ==
    /\ status = "ok" /\ impl \in {"full", "set"}
    /\ sets' = [w \in DOMAIN sets |-> ClearList(sets[w])]
    /\ status' = IF \E w \in DOMAIN sets : sets'[w].fault # "none" THEN "hang" ELSE "ok"
    /\ UNCHANGED <<impl, tags, valid, hits, misses, rw_hits, rw_misses, hitdepth>>

Access == \E line \in Lines, o \in opType : DirectAccess(line, o) \/ ListAccess(line, o)

(* Everything but the flush of the list classes: what AccessReturns says   *)
(* of it is not true, and nothing holds after it.                          *)
NextNoListFlush == Access \/ DirectFlush

Next == Access \/ DirectFlush \/ ListFlush \/ \E line \in Lines : ListHangs(line)

SpecNoListFlush == CacheInit /\ [][NextNoListFlush]_cacheVars

Spec == CacheInit /\ [][Next]_cacheVars

-----------------------------------------------------------------------------
CacheTypeOK ==
    /\ status \in {"ok", "hang", "segv"}
    /\ hits + misses <= MaxAccesses
    /\ \A w \in 0 .. SetCount - 1 :
          /\ sets[w].next \in [Cells -> Cells \cup {Null}]
          /\ sets[w].prev \in [Cells -> Cells \cup {Null}]
          /\ {sets[w].head, sets[w].tail, sets[w].free} \subseteq Cells \cup {Null}
          /\ sets[w].cnt \in 0 .. Ways
    /\ tags \in [0 .. SetCount - 1 -> Nat] /\ valid \in [0 .. SetCount - 1 -> BOOLEAN]
    /\ hitdepth \in [0 .. Assoc - 1 -> Nat]

(* Whatever is hit, missed and evicted, each set's list stays one list     *)
(* forwards and backwards, and neither leaks a cell nor frees one twice.   *)
ListsIntact == CacheTypeOK /\ \A w \in DOMAIN sets : Intact(sets[w])

(* What the abstract cache sees of the state: of each set the tags, ...    *)
Shape == [sets |-> SetCount, ways |-> Ways, depths |-> impl = "full"]
Shown == [w \in 0 .. SetCount - 1 |->
            IF impl = "direct" THEN IF valid[w] THEN <<tags[w]>> ELSE << >>
            ELSE Contents(sets[w])]

(* ... and the counters.                                                   *)
Counted == [k \in {"hit", "miss"} \X opType |->
              IF k[1] = "hit" THEN rw_hits[k[2]] ELSE rw_misses[k[2]]]
Depths == [d \in 0 .. Ways - 1 |-> hitdepth[d]]

LRU == INSTANCE LruCache WITH
        shape <- Shape, content <- Shown, count <- Counted, depth <- Depths

(* The three classes simulate an LRU cache of their shape: the same hits,  *)
(* misses and depths, access by access.                                    *)
ImplementsLru == LRU!LruSpec

(* Option --assoc, "cache associativity" (main.cc:134), and flush(): a     *)
(* simulated cache answers every access, after a monitor call too.         *)
AccessReturns == status # "hang"
=============================================================================
