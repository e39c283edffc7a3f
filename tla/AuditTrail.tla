----------------------------- MODULE AuditTrail -----------------------------
(***************************************************************************)
(* What an acknowledged audit log promises: events are recorded once, in   *)
(* an order that is never rewritten, and a caller is told so only of a     *)
(* recorded event.                                                         *)
(***************************************************************************)
EXTENDS Sequences, SequencesExt

CONSTANT Event
VARIABLES trail,   \* the recorded events, oldest first
          told     \* the events whose caller was told they are recorded

Init == trail = <<>> /\ told = {}

Record(e) ==
  /\ e \notin ToSet(trail)
  /\ trail' = Append(trail, e)
  /\ UNCHANGED told

Tell(e) ==
  /\ e \in ToSet(trail)
  /\ told' = told \cup {e}
  /\ UNCHANGED trail

Next == \E e \in Event : Record(e) \/ Tell(e)

Spec == Init /\ [][Next]_<<trail, told>>
=============================================================================
