---------------------------- MODULE MC_CocoTable ----------------------------
(***************************************************************************)
(* Model of the consumer thread driving the CocoTable alone: Tune requests *)
(* with fresh, increasing handles, Untune and Retune of any handle ever    *)
(* issued (an Untune of a handle already removed is the no-op of spec 7).  *)
(* "arrivals" is a history variable: per slot, the active requests in the  *)
(* order they were inserted, used only to map the table to CocoSpec.      *)
(***************************************************************************)
EXTENDS CocoTable, TLC, FiniteSets

CONSTANTS s1, s2,     \* two slots, of resources with different policies
          MaxHandle,  \* number of Tune requests the consumer receives
          Values      \* requested values (some outside [Low, High])

VARIABLES nextHandle, issued, arrivals

mcVars == <<cocoVars, nextHandle, issued, arrivals>>

MCSlots == {s1, s2}
MCPolicyHigherInstant == (s1 :> "HigherIsBetter") @@ (s2 :> "InstantApply")
MCPolicyLowerLazy == (s1 :> "LowerIsBetter") @@ (s2 :> "LazyApply")
MCLow == [s \in MCSlots |-> 0]
MCHigh == [s \in MCSlots |-> 2]
MCDefault == [s \in MCSlots |-> 0]

ResChoices == UNION {[D -> Values] : D \in SUBSET Slots \ {{}}}
RequestsOf(h) == [handle : {h}, priority : Priorities, res : ResChoices]
AllRequests == UNION {RequestsOf(h) : h \in 1..MaxHandle}

MCInit ==
    /\ Init
    /\ nextHandle = 1
    /\ issued = {}
    /\ arrivals = [s \in Slots |-> <<>>]

Tune ==
    /\ nextHandle <= MaxHandle
    /\ \E r \in RequestsOf(nextHandle) :
          /\ InsertRequest(r)
          /\ issued' = issued \cup {r}
          /\ arrivals' = [s \in Slots |->
                IF s \in DOMAIN r.res
                THEN Append(arrivals[s], [handle |-> r.handle, priority |-> r.priority,
                                          value |-> Clamp(r.res[s], s)])
                ELSE arrivals[s]]
    /\ nextHandle' = nextHandle + 1

Untune ==
    /\ \E r \in issued :
          /\ RemoveRequest(r.handle)
          /\ arrivals' = [s \in Slots |-> SelectSeq(arrivals[s], LAMBDA e : e.handle # r.handle)]
    /\ UNCHANGED <<nextHandle, issued>>

Retune ==
    /\ \E r \in issued : UpdateRequest(r.handle)
    /\ UNCHANGED <<nextHandle, issued, arrivals>>

MCNext == Tune \/ Untune \/ Retune

MCSpec == MCInit /\ [][MCNext]_mcVars

TypeOK ==
    /\ CocoTypeOK
    /\ nextHandle \in 1..MaxHandle + 1
    /\ issued \subseteq AllRequests

\* Spec section 3 (CocoNode) and section 8 invariant 2: a request that is in
\* the table has exactly one CocoNode in the (slot, priority) list of every
\* slot it tunes and none anywhere else; after its Untune it has none.
NodesLinkedOnce ==
    \A r \in issued :
        LET count(s, p) == Len(SelectSeq(coco[s][p], LAMBDA m : m.handle = r.handle))
        IN  \/ \A s \in Slots, p \in Priorities : count(s, p) = 0
            \/ \A s \in Slots, p \in Priorities :
                   count(s, p) = IF s \in DOMAIN r.res /\ p = r.priority THEN 1 ELSE 0

Abs == INSTANCE CocoSpec WITH pending <- arrivals, Requests <- AllRequests

\* The coordinator implements CocoSpec: after every Tune and Untune the value
\* on each node is the one the policy picks among the highest-priority
\* active requests, so the list order kept by insertInCocoTable and the
\* take-over in removeAction agree with the policy.
CocoRefinement == Abs!Spec

=============================================================================
