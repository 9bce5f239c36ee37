------------------------------- MODULE MyList -------------------------------
(***************************************************************************)
(* mylist (mylist.hh): a doubly linked list whose entries live in a        *)
(* boost::object_pool of its own.  A value of the class is a record; the   *)
(* entries are the cells of the pool, ordered by their address.  The pool  *)
(* keeps its free cells in an ordered list that is threaded through the    *)
(* first word of each cell, and the first word of an entry is next: a      *)
(* pointer to a freed entry sees the pool's links.                         *)
(*                                                                         *)
(* fault is "hang" once a loop of the class does not end and "segv" once a *)
(* null pointer is followed; nothing happens after either.                 *)
(***************************************************************************)
EXTENDS Integers, Sequences

CONSTANTS PoolCells     \* cells of the pool's block (32 in boost)

ASSUME PoolCellsAssumption == PoolCells \in Nat \ {0}

Null == 0
Cells == 1 .. PoolCells

(* data of a cell that was never an entry is whatever the memory held.     *)
EmptyList(garbage) ==
    [cnt |-> 0, head |-> Null, tail |-> Null, fault |-> "none",
     next |-> [c \in Cells |-> IF c = PoolCells THEN Null ELSE c + 1],
     prev |-> [c \in Cells |-> Null],
     data |-> [c \in Cells |-> garbage],
     free |-> 1]

(* The k-th cell from p on, Null past the end.                             *)
Walk(l, p) ==
    LET at[k \in 0 .. PoolCells] ==
          IF k = 0 THEN p
          ELSE LET q == at[k - 1] IN IF q = Null THEN Null ELSE l.next[q]
    IN at

(* The first k whose cell is as wanted; PoolCells + 1 if the loop goes on. *)
FirstStep(at, Wanted(_)) ==
    LET found == {k \in 0 .. PoolCells : Wanted(at[k])}
    IN IF found = {} THEN PoolCells + 1 ELSE CHOOSE k \in found : \A j \in found : k <= j

-----------------------------------------------------------------------------
(* The pool: construct takes the first free cell, ...                      *)
Construct(l, v) ==
    LET e == l.free IN
    [l EXCEPT !.free = l.next[e], !.next[e] = Null, !.prev[e] = Null, !.data[e] = v]

(* ... free puts a cell back in its place.                                 *)
Release(l, c) ==
    LET at == Walk(l, l.free)
        k == FirstStep(at, LAMBDA f : f = Null \/ l.next[f] = Null \/ l.next[f] > c)
    IN IF l.free = Null \/ l.free > c
         THEN [l EXCEPT !.next[c] = l.free, !.free = c]
       ELSE IF k > PoolCells THEN [l EXCEPT !.fault = "hang"]
       ELSE [l EXCEPT !.next[c] = l.next[at[k]], !.next[at[k]] = c]

-----------------------------------------------------------------------------
(* entry::unlink()                                                         *)
Unlink(l, p) ==
    [l EXCEPT !.prev = IF l.next[p] = Null THEN @ ELSE [@ EXCEPT ![l.next[p]] = l.prev[p]],
              !.next = IF l.prev[p] = Null THEN @ ELSE [@ EXCEPT ![l.prev[p]] = l.next[p]]]

(* The list counts as empty when head and tail are null, not when cnt is 0. *)
PushFront(l, v) ==
    LET e == l.free
        a == [Construct(l, v) EXCEPT !.cnt = @ + 1, !.head = e]
    IN IF l.head = Null /\ l.tail = Null
         THEN [a EXCEPT !.tail = e]
         ELSE [a EXCEPT !.prev[l.head] = e, !.next[e] = l.head]

(* head is not touched, even if the last entry goes.                       *)
PopBack(l) ==
    IF l.tail = Null THEN l
    ELSE LET u == Unlink(l, l.tail)
         IN [Release(u, l.tail) EXCEPT !.tail = u.prev[l.tail], !.cnt = @ - 1]

(* while(cnt) pop_back(), which frees nothing if tail is null.             *)
ClearList(l) ==
    LET after[k \in 0 .. l.cnt] == IF k = 0 THEN l ELSE PopBack(after[k - 1])
        done == after[l.cnt]
    IN IF done.cnt = 0 THEN done ELSE [done EXCEPT !.fault = "hang"]

(* find(v) from p = head: the entry and its distance, or end().            *)
Find(l, v) ==
    LET at == Walk(l, l.head)
        k == FirstStep(at, LAMBDA p : p = Null \/ l.data[p] = v)
    IN [ptr |-> IF k > PoolCells THEN Null ELSE at[k], dist |-> k, hangs |-> k > PoolCells]

(* Variant for the mutants: tail stays on the entry that moves.            *)
MoveToHeadSkipsTail(l, p) ==
    IF l.cnt <= 1 THEN l
    ELSE LET u == Unlink(l, p)
             h == IF p = l.head THEN u.next[p] ELSE l.head
         IN IF h = Null THEN [l EXCEPT !.fault = "segv"]
            ELSE [u EXCEPT !.prev = [@ EXCEPT ![p] = Null, ![h] = p], !.next[p] = h, !.head = p]

(* The entry becomes the head; an only entry stays where it is.            *)
MoveToHead(l, p) ==
    IF l.cnt <= 1 THEN l
    ELSE LET u == Unlink(l, p)
             h == IF p = l.head THEN u.next[p] ELSE l.head
             t == IF p = l.tail THEN u.prev[p] ELSE l.tail
         IN IF h = Null THEN [l EXCEPT !.fault = "segv"]
            ELSE [u EXCEPT !.prev = [@ EXCEPT ![p] = Null, ![h] = p], !.next[p] = h,
                           !.head = p, !.tail = t]

-----------------------------------------------------------------------------
(* What a user of the class sees: the data from head on.                   *)
Contents(l) == LET at == Walk(l, l.head) IN [k \in 1 .. l.cnt |-> l.data[at[k - 1]]]

(* head, next, prev, tail and cnt describe one list; its cells and the     *)
(* pool's free ones are all the cells there are, none of them in both.     *)
Intact(l) ==
    LET used == Walk(l, l.head)
        free == Walk(l, l.free)
        InUse == {used[k] : k \in 0 .. l.cnt - 1}
    IN /\ l.cnt \in 0 .. PoolCells
       /\ used[l.cnt] = Null
       /\ l.tail = IF l.cnt = 0 THEN Null ELSE used[l.cnt - 1]
       /\ \A k \in 0 .. l.cnt - 1 :
             used[k] # Null /\ l.prev[used[k]] = IF k = 0 THEN Null ELSE used[k - 1]
       /\ free[PoolCells - l.cnt] = Null
       /\ {free[k] : k \in 0 .. PoolCells - l.cnt - 1} = Cells \ InUse
=============================================================================
