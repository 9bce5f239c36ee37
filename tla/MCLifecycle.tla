---------------------------- MODULE MCLifecycle ----------------------------
(***************************************************************************)
(* Lifecycle on a memory of fourteen words in pages of two, the vectors at *)
(* the last six, and hosts with pages of two or four words.                *)
(***************************************************************************)
EXTENDS Lifecycle

Segment(vaddr, memsz, offset, filesz) ==
    [load |-> TRUE, vaddr |-> vaddr, memsz |-> memsz, offset |-> offset, filesz |-> filesz]
Note == [load |-> FALSE, vaddr |-> 6, memsz |-> 2, offset |-> 0, filesz |-> 2]
Code(exec, addr, size) == [exec |-> exec, addr |-> addr, size |-> size]

Word(kind, n, el) == [kind |-> kind, n |-> n, le |-> el]
File(el) == <<Word("branch", 1, el), Word("regimm", 1, el), Word("return", 0, el), Word("regimm", 17, el),
              Word("datum", 2, el), Word("datum", 3, el)>>
Data(el) == [k \in 0 .. 5 |-> File(el)[k + 1]]

Elf(el, segments, sections) ==
    [class |-> 32, machine |-> 8, le |-> el, entry |-> 0, data |-> Data(el),
     segments |-> segments, sections |-> sections]

\* Code of five words with data behind it, and zeroes for the rest.
Plain(el) ==
    Elf(el, <<Segment(0, 5, 0, 5), Note, Segment(5, 2, 5, 1)>>,
        <<Code(TRUE, 0, 5), Code(FALSE, 5, 2)>>)
\* Segments that overlap, out of order, one of them all zeroes.
Overlapping(el) ==
    Elf(el, <<Segment(2, 4, 0, 3), Segment(0, 3, 2, 2), Segment(6, 0, 0, 0), Segment(5, 3, 0, 0)>>,
        <<Code(TRUE, 2, 4), Code(TRUE, 5, 2)>>)
\* A segment of code where the vectors go.
OverVectors(el) == Elf(el, <<Segment(6, 6, 0, 6)>>, <<Code(TRUE, 6, 6)>>)

MCElfs ==
    UNION {{Plain(el), Overlapping(el), OverVectors(el)} : el \in BOOLEAN}
        \cup {[Plain(FALSE) EXCEPT !.class = 64], [Plain(TRUE) EXCEPT !.machine = 3]}
=============================================================================
