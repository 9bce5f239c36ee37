------------------------- MODULE TwobitCounterArray -------------------------
(***************************************************************************)
(* twobit_counter_array (counter2b.hh): saturating two-bit counters, four  *)
(* of them packed in the bit fields of a byte, and a valid bit for each    *)
(* counter that was ever trained.  A value of the class is a record, its   *)
(* methods are operators on it.                                            *)
(***************************************************************************)
EXTENDS Integers

Fields == {"x", "y", "z", "w"}

(* switch(idx & 3)                                                         *)
FieldOf(idx) == CASE idx % 4 = 0 -> "x" [] idx % 4 = 1 -> "y"
                  [] idx % 4 = 2 -> "z" [] OTHER -> "w"

Elems(n) == 0 .. (n + 3) \div 4 - 1

(* Every counter starts weakly not taken.                                  *)
NewCounters(n) ==
    [n_entries |-> n,
     arr |-> [e \in Elems(n) |-> [f \in Fields |-> 1]],
     valid |-> {}]

GetValue(t, idx) == t.arr[idx \div 4][FieldOf(idx)]

(* Variant for the mutants: the counter does not stop at 3.                *)
SaturateBelow(v, incr) == IF incr THEN v + 1 ELSE IF v = 0 THEN v ELSE v - 1

(* One step towards the outcome, stopping at 0 and 3.                      *)
Saturate(v, incr) == IF incr THEN IF v > 2 THEN v ELSE v + 1
                             ELSE IF v = 0 THEN v ELSE v - 1

UpdateCounter(t, idx, incr) ==
    [t EXCEPT !.valid = @ \cup {idx},
              !.arr[idx \div 4][FieldOf(idx)] = Saturate(GetValue(t, idx), incr)]

CountersTypeOK(t, n) ==
    /\ t.n_entries = n
    /\ t.arr \in [Elems(n) -> [Fields -> 0 .. 3]]
    /\ t.valid \subseteq 0 .. n - 1

(* The counters as the predictors see them.                                *)
Values(t) == [idx \in 0 .. t.n_entries - 1 |-> GetValue(t, idx)]
=============================================================================
