----------------------------- MODULE EventLife ------------------------------
(***************************************************************************)
(* What the dispatching of the HLT supervisor promises about each event,   *)
(* without threads, queues, strands or links: events are taken in order;   *)
(* an event is held by at most one DCM session at a time; a session only   *)
(* gets an event from the scheduler, and gives it back to it; only the     *)
(* session that holds an event clears it; nothing happens to an event that *)
(* has been cleared or given up.                                           *)
(***************************************************************************)
EXTENDS Integers

CONSTANTS MaxEvents, Sessions, NoSession

VARIABLES phase,   \* what is happening to an event
          holder   \* the session that has sent it to its DCM

lifeVars == <<phase, holder>>

Phases == {"source", "scheduler", "session", "cleared", "gone"}

Init ==
  /\ phase = [e \in 1..MaxEvents |-> "source"]
  /\ holder = [e \in 1..MaxEvents |-> NoSession]

Take(e) ==
  /\ phase[e] = "source"
  /\ \A d \in 1..(e - 1) : phase[d] # "source"
  /\ phase' = [phase EXCEPT ![e] = "scheduler"]
  /\ UNCHANGED holder

Assign(e, s) ==
  /\ phase[e] = "scheduler"
  /\ phase' = [phase EXCEPT ![e] = "session"]
  /\ holder' = [holder EXCEPT ![e] = s]

Reclaim(e) ==
  /\ phase[e] = "session"
  /\ phase' = [phase EXCEPT ![e] = "scheduler"]
  /\ holder' = [holder EXCEPT ![e] = NoSession]

Clear(e) ==
  /\ phase[e] = "session"
  /\ phase' = [phase EXCEPT ![e] = "cleared"]
  /\ holder' = [holder EXCEPT ![e] = NoSession]

GiveUp(dropped) ==
  /\ \A e \in dropped : phase[e] = "scheduler"
  /\ phase' = [e \in 1..MaxEvents |-> IF e \in dropped THEN "gone" ELSE phase[e]]
  /\ UNCHANGED holder

Next ==
  \/ \E e \in 1..MaxEvents : \/ Take(e) \/ Reclaim(e) \/ Clear(e)
                             \/ \E s \in Sessions : Assign(e, s)
  \/ \E dropped \in SUBSET (1..MaxEvents) : GiveUp(dropped)

Spec == Init /\ [][Next]_lifeVars
=============================================================================
