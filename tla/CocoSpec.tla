------------------------------- MODULE CocoSpec -------------------------------
(***************************************************************************)
(* What the Concurrency Coordinator promises, without linked lists: per    *)
(* slot, the requests that are active on it in the order they arrived, and *)
(* the value on the node.  After every Tune and Untune the node holds the  *)
(* value chosen among the active requests of the highest priority by the   *)
(* resource policy (CocoTable.h, the policy and priority paragraphs):      *)
(*   InstantApply   - the latest request,                                  *)
(*   LazyApply      - the earliest request (first in, first out),          *)
(*   HigherIsBetter - the highest value,                                   *)
(*   LowerIsBetter  - the lowest value,                                    *)
(* and the default captured at init when no request is active.             *)
(***************************************************************************)
EXTENDS Naturals, Sequences

CONSTANTS Slots, NumPriorities, Policy, Low, High, Default, Requests

VARIABLES pending, written

Priorities == 1..NumPriorities

Clamp(v, s) == IF v < Low[s] THEN Low[s] ELSE IF v > High[s] THEN High[s] ELSE v

\* Positions in an arrival sequence of the entries of its highest priority.
TopIndices(seq) ==
    LET best == {e.priority : e \in {seq[i] : i \in DOMAIN seq}}
        top  == CHOOSE p \in best : \A o \in best : p <= o
    IN  {i \in DOMAIN seq : seq[i].priority = top}

PolicyWinner(seq, s) ==
    LET I == TopIndices(seq)
    IN  CASE Policy[s] = "InstantApply"   -> seq[CHOOSE i \in I : \A j \in I : i >= j].value
          [] Policy[s] = "LazyApply"      -> seq[CHOOSE i \in I : \A j \in I : i <= j].value
          [] Policy[s] = "HigherIsBetter" ->
                 CHOOSE v \in {seq[i].value : i \in I} : \A j \in I : v >= seq[j].value
          [] Policy[s] = "LowerIsBetter"  ->
                 CHOOSE v \in {seq[i].value : i \in I} : \A j \in I : v <= seq[j].value

Chosen(pend) ==
    [s \in Slots |-> IF pend[s] = <<>> THEN Default[s] ELSE PolicyWinner(pend[s], s)]

Init ==
    /\ pending = [s \in Slots |-> <<>>]
    /\ written = Default

Tune(r) ==
    /\ pending' = [s \in Slots |->
                     IF s \in DOMAIN r.res
                     THEN Append(pending[s], [handle |-> r.handle, priority |-> r.priority,
                                              value |-> Clamp(r.res[s], s)])
                     ELSE pending[s]]
    /\ written' = Chosen(pending')

Untune(h) ==
    /\ pending' = [s \in Slots |-> SelectSeq(pending[s], LAMBDA e : e.handle # h)]
    /\ written' = Chosen(pending')

Handles == {r.handle : r \in Requests}

Next == (\E r \in Requests : Tune(r)) \/ (\E h \in Handles : Untune(h))

Spec == Init /\ [][Next]_<<pending, written>>

=============================================================================
