----------------------------- MODULE BuildLife ------------------------------
(***************************************************************************)
(* What the RoI builder promises about the event of each L1 ID, without    *)
(* threads, fragments, pages or clocks: its first fragment begins it; it   *)
(* is queued once, for the L1 thread, or kept unused for ever; the L1      *)
(* thread gets the queued events in the order of the queue, one at a time, *)
(* and returns each before it takes the next; only an event that has been  *)
(* returned, or was never begun, is begun; nothing happens after the end.  *)
(***************************************************************************)
EXTENDS Integers, Sequences

CONSTANT Ids

VARIABLES
  stage,     \* what is happening to the event of an L1 ID
  queue,     \* the events that wait for the L1 thread
  returned,  \* the events it has returned, in order
  open       \* the builder has not been destroyed

buildVars == <<stage, queue, returned, open>>

Stages == {"absent", "building", "queued", "taken", "kept"}

Init ==
  /\ stage = [id \in Ids |-> "absent"]
  /\ queue = <<>> /\ returned = <<>>
  /\ open = TRUE

Become(id, from, to) == stage[id] = from /\ stage' = [stage EXCEPT ![id] = to]

Begin(id) ==
  /\ open
  /\ Become(id, "absent", "building")
  /\ UNCHANGED <<queue, returned, open>>

(* Complete, or timed out for the first time.                              *)
Queue(id) ==
  /\ open
  /\ Become(id, "building", "queued")
  /\ queue' = Append(queue, id)
  /\ UNCHANGED <<returned, open>>

(* Dropped, or made of late fragments.                                     *)
Keep(id) ==
  /\ open
  /\ Become(id, "building", "kept")
  /\ UNCHANGED <<queue, returned, open>>

Take ==
  /\ open /\ queue # <<>>
  /\ \A id \in Ids : stage[id] # "taken"
  /\ Become(Head(queue), "queued", "taken")
  /\ queue' = Tail(queue)
  /\ UNCHANGED <<returned, open>>

Return(id) ==
  /\ open
  /\ Become(id, "taken", "absent")
  /\ returned' = Append(returned, id)
  /\ UNCHANGED <<queue, open>>

Close ==
  /\ open /\ open' = FALSE
  /\ \A id \in Ids : stage[id] # "taken"
  /\ stage' = [id \in Ids |-> "absent"] /\ queue' = <<>>
  /\ UNCHANGED returned

Next ==
  \/ \E id \in Ids : Begin(id) \/ Queue(id) \/ Keep(id) \/ Return(id)
  \/ Take \/ Close

Spec == Init /\ [][Next]_buildVars
=============================================================================
