------------------------------ MODULE ROSClear ------------------------------
(***************************************************************************)
(* Grouping and sending of the clear requests.  The strands of the DCM     *)
(* sessions call add_event, run control calls connect, prepareForRun and   *)
(* flush; a spin mutex protects the group, the sequence number and the     *)
(* sends.  UnicastROSClear sends a group to one TCP session per ROS, one   *)
(* after the other; MulticastROSClear sends one datagram.                  *)
(*                                                                         *)
(* What happens between taking and releasing the mutex is one step as long *)
(* as no message leaves; every asyncSend is a step of its own.             *)
(***************************************************************************)
EXTENDS Integers, Sequences, FiniteSets, SequencesExt

CONSTANTS
  Strands,     \* threads that call add_event
  RC,          \* the run-control thread
  NoThread,    \* the mutex is free
  ROSes,       \* the read-out systems
  Threshold,   \* ClearGrouping
  MaxIds,      \* event IDs that are cleared (bound)
  MaxFlushes,  \* calls of flush (bound)
  MaxRuns      \* calls of prepareForRun (bound)

ASSUME ClearAssumption ==
  /\ RC \notin Strands /\ NoThread \notin Strands \cup {RC}
  /\ IsFiniteSet(ROSes)
  /\ Threshold \in Nat /\ MaxIds \in Nat
  /\ MaxFlushes \in Nat /\ MaxRuns \in Nat

Threads == Strands \cup {RC}

VARIABLES
  mutex,      \* the thread inside m_mutex, or NoThread
  event_ids,  \* m_event_ids
  sequence,   \* m_sequence
  multicast,  \* which implementation configure has chosen
  connected,  \* connect has returned
  sending,    \* the threads inside do_flush
  batch,      \* the message a thread in do_flush sends
  pending,    \* the ROSes it has not yet sent it to
  added,      \* calls of add_event so far; the IDs are 1..added
  flushes,    \* calls of flush so far
  run,        \* calls of prepareForRun so far
  up,         \* ROSes whose link has not failed
  received    \* messages that reach each ROS, in order

vars == <<mutex, event_ids, sequence, multicast, connected, sending, batch,
          pending, added, flushes, run, up, received>>

Batches == [run : Nat, sequence : Nat, ids : Seq(Nat)]
NoBatch == [run |-> 0, sequence |-> 0, ids |-> <<>>]

Init ==
  /\ mutex = NoThread
  /\ event_ids = <<>>
  /\ sequence = 0
  /\ multicast \in BOOLEAN
  /\ connected = FALSE
  /\ sending = {}
  /\ batch = [t \in Threads |-> NoBatch]
  /\ pending = [t \in Threads |-> {}]
  /\ added = 0
  /\ flushes = 0
  /\ run = 0
  /\ up = ROSes
  /\ received = [r \in ROSes |-> <<>>]

-----------------------------------------------------------------------------
MutTakeBatch(t, ids) ==        \* an empty group takes no sequence number
  /\ batch' = [batch EXCEPT ![t] =
                 [run |-> run, sequence |-> sequence, ids |-> ids]]
  /\ pending' = [pending EXCEPT ![t] = ROSes]
  /\ sending' = sending \cup {t}
  /\ sequence' = IF ids = <<>> THEN sequence ELSE sequence + 1
  /\ event_ids' = <<>>

MutTakeBatchNoSwap(t, ids) ==  \* sends a copy and keeps the group
  /\ batch' = [batch EXCEPT ![t] =
                 [run |-> run, sequence |-> sequence, ids |-> ids]]
  /\ pending' = [pending EXCEPT ![t] = ROSes]
  /\ sending' = sending \cup {t}
  /\ sequence' = sequence + 1
  /\ event_ids' = ids

(* The group is swapped out and takes the next sequence number.            *)
TakeBatch(t, ids) ==
  /\ batch' = [batch EXCEPT ![t] =
                 [run |-> run, sequence |-> sequence, ids |-> ids]]
  /\ pending' = [pending EXCEPT ![t] = ROSes]
  /\ sending' = sending \cup {t}
  /\ sequence' = sequence + 1
  /\ event_ids' = <<>>

MutHold(t) == UNCHANGED mutex  \* do_flush is called after the mutex is released

(* The scoped lock lasts until do_flush has returned.                      *)
Hold(t) == mutex' = t

GroupFull(ids) == Len(ids) >= Threshold

(* Called by a session that has erased the event from its list, so only    *)
(* in a run, and once per event.                                           *)
add_event(t) ==
  LET ids == Append(event_ids, added + 1) IN
  /\ mutex = NoThread /\ t \notin sending
  /\ run > 0
  /\ added < MaxIds
  /\ added' = added + 1
  /\ \/ /\ GroupFull(ids)
        /\ TakeBatch(t, ids)
        /\ Hold(t)
     \/ /\ ~GroupFull(ids)
        /\ event_ids' = ids
        /\ UNCHANGED <<mutex, batch, pending, sending, sequence>>
  /\ UNCHANGED <<multicast, connected, flushes, run, up, received>>

(* stopRecording and the destructor; sends also an empty group.            *)
flush(t) ==
  /\ mutex = NoThread /\ t \notin sending
  /\ run > 0
  /\ flushes < MaxFlushes
  /\ flushes' = flushes + 1
  /\ TakeBatch(t, event_ids)
  /\ Hold(t)
  /\ UNCHANGED <<multicast, connected, added, run, up, received>>

(* The sequence starts again; the group stays: IDs added since the last    *)
(* flush go out in the new run.                                            *)
prepareForRun(t) ==
  /\ mutex = NoThread /\ t \notin sending
  /\ connected
  /\ run < MaxRuns
  /\ run' = run + 1
  /\ sequence' = 0
  /\ UNCHANGED <<mutex, event_ids, multicast, connected, sending, batch,
                 pending, added, flushes, up, received>>

(* Returns when the session to every ROS is open.                          *)
connect ==
  /\ ~connected
  /\ connected' = TRUE
  /\ UNCHANGED <<mutex, event_ids, sequence, multicast, sending, batch,
                 pending, added, flushes, run, up, received>>

-----------------------------------------------------------------------------
(* One iteration of UnicastROSClear::do_flush.  On a link that has failed  *)
(* onSendError logs the error and nothing else happens.                    *)
SendUnicast(t) ==
  /\ t \in sending /\ ~multicast
  /\ \E r \in pending[t] :
       /\ pending' = [pending EXCEPT ![t] = @ \ {r}]
       /\ received' = IF r \in up
                      THEN [received EXCEPT ![r] = Append(@, batch[t])]
                      ELSE received
  /\ UNCHANGED <<mutex, event_ids, sequence, multicast, connected, sending,
                 batch, added, flushes, run, up>>

(* MulticastROSClear::do_flush: one datagram, which any ROS may miss.      *)
SendMulticast(t) ==
  /\ t \in sending /\ multicast
  /\ pending[t] # {}
  /\ pending' = [pending EXCEPT ![t] = {}]
  /\ \E got \in SUBSET up :
       received' = [r \in ROSes |-> IF r \in got
                                    THEN Append(received[r], batch[t])
                                    ELSE received[r]]
  /\ UNCHANGED <<mutex, event_ids, sequence, multicast, connected, sending,
                 batch, added, flushes, run, up>>

Unlock(t) ==
  /\ t \in sending
  /\ pending[t] = {}
  /\ sending' = sending \ {t}
  /\ batch' = [batch EXCEPT ![t] = NoBatch]
  /\ mutex' = NoThread
  /\ UNCHANGED <<event_ids, sequence, multicast, connected, pending, added,
                 flushes, run, up, received>>

(* The link to a ROS fails for good. *)
LinkFails(r) ==
  /\ r \in up
  /\ up' = up \ {r}
  /\ UNCHANGED <<mutex, event_ids, sequence, multicast, connected, sending,
                 batch, pending, added, flushes, run, received>>

Next ==
  \/ connect
  \/ \E t \in Strands : add_event(t)
  \/ flush(RC) \/ prepareForRun(RC)
  \/ \E t \in Threads : SendUnicast(t) \/ SendMulticast(t) \/ Unlock(t)
  \/ \E r \in ROSes : LinkFails(r)

Spec == Init /\ [][Next]_vars

-----------------------------------------------------------------------------
(* Properties.                                                             *)

(* Types; a thread is inside do_flush only while it has the mutex.         *)
TypeOK ==
  /\ mutex \in Threads \cup {NoThread}
  /\ event_ids \in Seq(Nat)
  /\ sequence \in Nat
  /\ multicast \in BOOLEAN
  /\ connected \in BOOLEAN
  /\ sending = IF mutex = NoThread THEN {} ELSE {mutex}
  /\ batch \in [Threads -> Batches]
  /\ pending \in [Threads -> SUBSET ROSes]
  /\ added \in 0..MaxIds
  /\ flushes \in 0..MaxFlushes
  /\ run \in 0..MaxRuns
  /\ up \in SUBSET ROSes
  /\ received \in [ROSes -> Seq(Batches)]

(* Every ROS with a TCP session receives every cleared event once, in the  *)
(* order in which the sessions reported them: what it has received, what   *)
(* is being sent to it and what is still in the group are all there is,    *)
(* through any number of runs, flushes and concurrent calls.               *)
IdsOf(messages) == FlattenSeq([i \in DOMAIN messages |-> messages[i].ids])

OnTheWay(r) ==
  LET senders == {t \in sending : r \in pending[t]}
  IN  IF senders = {} THEN <<>> ELSE batch[CHOOSE t \in senders : TRUE].ids

ClearedOnceInOrder ==
  ~multicast =>
    \A r \in up : IdsOf(received[r]) \o OnTheWay(r) \o event_ids
                    = [i \in 1..added |-> i]

(* prepareForRun starts the numbers again.  Of the messages of one run a   *)
(* ROS with a TCP session sees the numbers 0, 1, 2, ... without a gap, up  *)
(* to the moment its link fails, whoever sends them.                       *)
ContiguousSequence ==
  ~multicast =>
    \A r \in ROSes : \A i \in DOMAIN received[r] :
      received[r][i].sequence =
        Cardinality({j \in 1..(i - 1) : received[r][j].run = received[r][i].run})

(* Also with multicast, where datagrams are lost: the runs follow each     *)
(* other and the numbers of a run only grow.  A lost message shows as a    *)
(* gap when a later one of the same run arrives; the last ones of a run    *)
(* may be lost unseen.                                                     *)
SequenceGrows ==
  \A r \in ROSes : \A i, j \in DOMAIN received[r] : i < j =>
    LET a == received[r][i]
        b == received[r][j]
    IN  a.run < b.run \/ (a.run = b.run /\ a.sequence < b.sequence)

(* Together: within a run a number counts the messages before it, and no   *)
(* message of a run overtakes another or comes after the next run's.  The  *)
(* numbers begin again at 0 in each run (testROS goes on with those of the *)
(* last one and logs the first number of a new run as unexpected).         *)
SequenceNumbers == ContiguousSequence /\ SequenceGrows
=============================================================================
