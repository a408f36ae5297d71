------------------------------ MODULE CocoTable ------------------------------
(***************************************************************************)
(* The Concurrency Coordinator (class CocoTable, src/unnamed/part_000).    *)
(*                                                                         *)
(* For every resource sub-target ("slot": one row of the primary index of  *)
(* mCocoTable) and every priority level there is one doubly linked list of *)
(* CocoNodes, modelled as a sequence whose first element is the list head. *)
(* mCurrentlyAppliedPriority records, per slot, the priority whose head    *)
(* owns the value on the node; "written" is the value the applier or the   *)
(* tear callback last wrote to the node.  The timer service is reduced to  *)
(* the set of handles whose expiry timer is running.                       *)
(*                                                                         *)
(* A request is a record [handle, priority, res] where res maps the slots  *)
(* the request tunes to the requested values; a triple whose sub-index has *)
(* no physical target is skipped by the code and simply absent from res.   *)
(* The consumer thread is the only caller, so each operation is one step.  *)
(***************************************************************************)
EXTENDS Naturals, Sequences, SequencesExt

CONSTANTS
    Slots,          \* resource sub-targets (primary index x sub-target)
    NumPriorities,  \* number of priority levels; level 1 is the highest
    Policy,         \* [Slots -> Policies]: mPolicy of the slot's resource
    Low,            \* [Slots -> Int]: mLowThreshold
    High,           \* [Slots -> Int]: mHighThreshold
    Default         \* [Slots -> Int]: value captured at init, restored on tear

Policies == {"InstantApply", "HigherIsBetter", "LowerIsBetter", "LazyApply"}

Priorities == 1..NumPriorities

\* mCurrentlyAppliedPriority of a slot on which no request is active: it
\* ranks below every real priority level.
NoPriority == NumPriorities + 1

ASSUME /\ NumPriorities \in Nat \ {0}
       /\ Policy \in [Slots -> Policies]
       /\ \A s \in Slots : Low[s] <= Default[s] /\ Default[s] <= High[s]

VARIABLES
    coco,             \* coco[s][p]: the CocoNode list of slot s, priority p
    appliedPriority,  \* mCurrentlyAppliedPriority
    written,          \* value currently on each slot's node
    timers            \* handles whose expiry timer is running

cocoVars == <<coco, appliedPriority, written, timers>>

Init ==
    /\ coco = [s \in Slots |-> [p \in Priorities |-> <<>>]]
    /\ appliedPriority = [s \in Slots |-> NoPriority]
    /\ written = Default
    /\ timers = {}

-----------------------------------------------------------------------------
(* Placement of a new node in its list, by the resource policy.            *)

\* Mutant: the value is only clamped from below.
ClampLowOnly(v, s) == IF v < Low[s] THEN Low[s] ELSE v

Clamp(v, s) == IF v < Low[s] THEN Low[s] ELSE IF v > High[s] THEN High[s] ELSE v

\* Index at which the node goes: before the first node it must precede, or
\* at the end.  Equal values keep insertion order (older node nearer the head).
FirstOrEnd(list, Test(_)) ==
    LET i == SelectInSeq(list, Test) IN IF i = 0 THEN Len(list) + 1 ELSE i

\* Mutant: an InstantApply node is appended like a LazyApply one.
InsertPositionInstantAtTail(list, v, s) ==
    CASE Policy[s] \in {"InstantApply", "LazyApply"} -> Len(list) + 1
      [] Policy[s] = "HigherIsBetter" -> FirstOrEnd(list, LAMBDA m : m.value < v)
      [] Policy[s] = "LowerIsBetter"  -> FirstOrEnd(list, LAMBDA m : m.value > v)

\* Mutant: LowerIsBetter keeps its list in the HigherIsBetter order.
InsertPositionLowerAsHigher(list, v, s) ==
    CASE Policy[s] = "InstantApply"   -> 1
      [] Policy[s] = "LazyApply"      -> Len(list) + 1
      [] Policy[s] \in {"HigherIsBetter", "LowerIsBetter"} ->
             FirstOrEnd(list, LAMBDA m : m.value < v)

InsertPosition(list, v, s) ==
    CASE Policy[s] = "InstantApply"   -> 1
      [] Policy[s] = "LazyApply"      -> Len(list) + 1
      [] Policy[s] = "HigherIsBetter" -> FirstOrEnd(list, LAMBDA m : m.value < v)
      [] Policy[s] = "LowerIsBetter"  -> FirstOrEnd(list, LAMBDA m : m.value > v)

-----------------------------------------------------------------------------
(* insertRequest: a timer is started for the request, a CocoNode with the  *)
(* clamped value is placed in each (slot, priority) list, and applyAction  *)
(* writes the value when the node became the head and its priority is at   *)
(* least the applied one.                                                  *)

NodeValue(r, s) == Clamp(r.res[s], s)

Position(r, s) == InsertPosition(coco[s][r.priority], NodeValue(r, s), s)

\* Mutant: applyAction runs for a new head whatever its priority.
AppliesIgnoringPriority(r, s) ==
    /\ s \in DOMAIN r.res
    /\ Position(r, s) = 1

Applies(r, s) ==
    /\ s \in DOMAIN r.res
    /\ Position(r, s) = 1
    /\ r.priority <= appliedPriority[s]

insertInCocoTable(r, s) ==
    InsertAt(coco[s][r.priority], Position(r, s),
             [handle |-> r.handle, value |-> NodeValue(r, s)])

InsertRequest(r) ==
    /\ coco' = [s \in Slots |->
                  IF s \in DOMAIN r.res
                  THEN [coco[s] EXCEPT ![r.priority] = insertInCocoTable(r, s)]
                  ELSE coco[s]]
    /\ appliedPriority' = [s \in Slots |->
                  IF Applies(r, s) THEN r.priority ELSE appliedPriority[s]]
    /\ written' = [s \in Slots |->
                  IF Applies(r, s) THEN NodeValue(r, s) ELSE written[s]]
    /\ timers' = timers \cup {r.handle}

-----------------------------------------------------------------------------
(* removeRequest: the request's timer is killed and each of its CocoNodes  *)
(* unlinked.  When the node was the head of the applied priority, the new  *)
(* head of that list, or else the head of the first non-empty lower        *)
(* priority, is applied; when every list is empty the tear callback        *)
(* restores the default.                                                   *)

HasNode(h, s, p) == \E i \in 1..Len(coco[s][p]) : coco[s][p][i].handle = h

NodePriorities(h, s) == {p \in Priorities : HasNode(h, s, p)}

\* Mutant: only a node at the head of its list is unlinked.
deleteNodeHeadOnly(h, s) ==
    [p \in Priorities |-> IF coco[s][p] # <<>> /\ Head(coco[s][p]).handle = h
                          THEN Tail(coco[s][p]) ELSE coco[s][p]]

deleteNode(h, s) ==
    [p \in Priorities |-> RemoveFirstMatch(coco[s][p], LAMBDA m : m.handle = h)]

\* The removed node owned the value written to slot s.
OwnedNode(h, s) ==
    LET p == appliedPriority[s]
    IN  p \in Priorities /\ coco[s][p] # <<>> /\ Head(coco[s][p]).handle = h

\* Scan from priority p downwards for the first non-empty list.
NextApplied(lists, p) ==
    LET nonEmpty == {q \in p..NumPriorities : lists[q] # <<>>}
    IN  IF nonEmpty = {} THEN NoPriority
        ELSE CHOOSE q \in nonEmpty : \A o \in nonEmpty : q <= o

removeAction(lists, s) ==
    LET q == NextApplied(lists, appliedPriority[s])
    IN  IF q = NoPriority THEN <<NoPriority, Default[s]>>
                          ELSE <<q, Head(lists[q]).value>>

RemoveRequest(h) ==
    LET after(s) == deleteNode(h, s)
    IN  /\ coco' = [s \in Slots |-> after(s)]
        /\ appliedPriority' = [s \in Slots |->
                  IF OwnedNode(h, s) THEN removeAction(after(s), s)[1]
                                     ELSE appliedPriority[s]]
        /\ written' = [s \in Slots |->
                  IF OwnedNode(h, s) THEN removeAction(after(s), s)[2]
                                     ELSE written[s]]
        /\ timers' = timers \ {h}

-----------------------------------------------------------------------------
(* updateRequest (Retune): kill the timer of a request still in the table  *)
(* and start it again with the new duration.  For a request that is no     *)
(* longer in the table nothing changes.                                    *)

InTable(h) == \E s \in Slots : NodePriorities(h, s) # {}

\* Mutant: the old timer is killed and the new one never started.
UpdateRequestNoRestart(h) ==
    /\ InTable(h)
    /\ timers' = timers \ {h}
    /\ UNCHANGED <<coco, appliedPriority, written>>

UpdateRequest(h) ==
    /\ InTable(h)
    /\ timers' = timers \cup {h}
    /\ UNCHANGED <<coco, appliedPriority, written>>

-----------------------------------------------------------------------------

CocoTypeOK ==
    /\ coco \in [Slots -> [Priorities -> Seq([handle : Nat, value : Int])]]
    /\ appliedPriority \in [Slots -> Priorities \cup {NoPriority}]
    /\ written \in [Slots -> Int]
    /\ \A s \in Slots : written[s] \in Low[s]..High[s]
    /\ timers \subseteq Nat

\* Spec section 8, invariant 1: on every slot the value on the node is the
\* head of the highest non-empty priority list, or the captured default when
\* every list is empty; mCurrentlyAppliedPriority names that list.  Breaking
\* it takes an insert and a removal of interleaved requests of different
\* priorities (the scan in removeAction, the >= test in applyAction).
AppliedIsHighestHead ==
    \A s \in Slots :
        LET q == NextApplied(coco[s], 1)
        IN  /\ appliedPriority[s] = q
            /\ written[s] = IF q = NoPriority THEN Default[s]
                            ELSE Head(coco[s][q]).value

=============================================================================
