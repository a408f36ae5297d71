------------------------- MODULE MC_RequestPipeline -------------------------
(***************************************************************************)
(* Constants of RequestPipeline for TLC: one HigherIsBetter slot,  *)
(* two priority levels and one or two client threads.                      *)
(***************************************************************************)
EXTENDS RequestPipeline, TLC

CONSTANTS s1, c1, c2

MCSlots == {s1}
MCPolicy == s1 :> "HigherIsBetter"
MCLow == [s \in MCSlots |-> 0]
MCHigh == [s \in MCSlots |-> 2]
MCDefault == [s \in MCSlots |-> 0]

=============================================================================
