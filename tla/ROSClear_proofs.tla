--------------------------- MODULE ROSClear_proofs ---------------------------
(***************************************************************************)
(* Proofs about ROSClear, for any number of threads, read-out systems,     *)
(* events, flushes and runs and any grouping: types, the sequence numbers  *)
(* that a read-out system sees, and the IDs that it gets.                  *)
(***************************************************************************)
EXTENDS ROSClear, Lists, FiniteSetTheorems, TLAPS

(* What TakeBatch, called with the mutex free, leaves behind.              *)
LEMMA TakenBatch ==
  ASSUME TypeOK, NEW t \in Threads, NEW ids \in Seq(Nat),
         mutex = NoThread, TakeBatch(t, ids), Hold(t)
  PROVE  /\ sending' = {t} /\ mutex' = t
         /\ batch' \in [Threads -> Batches] /\ pending' \in [Threads -> SUBSET ROSes]
         /\ batch'[t] = [run |-> run, sequence |-> sequence, ids |-> ids]
         /\ pending'[t] = ROSes
         /\ \A u \in Threads \ {t} : batch'[u] = batch[u] /\ pending'[u] = pending[u]
         /\ sequence' = sequence + 1 /\ event_ids' = <<>>
<1>1. sending = {}
  BY DEF TypeOK
<1>2. run \in Nat /\ sequence \in Nat
  BY ClearAssumption DEF TypeOK
<1>3. [run |-> run, sequence |-> sequence, ids |-> ids] \in Batches
  BY <1>2 DEF Batches
<1>4. QED
  BY <1>1, <1>3 DEF TakeBatch, Hold, TypeOK

(* The mutex is the thread's in do_flush.                                  *)
LEMMA OneSender ==
  ASSUME TypeOK, NEW t \in sending
  PROVE  t \in Threads /\ mutex = t /\ sending = {t} /\ t # NoThread
BY ClearAssumption DEF TypeOK, Threads

(* The types at the start.                                                 *)
LEMMA TypeInit == Init => TypeOK
<1> SUFFICES ASSUME Init PROVE TypeOK
  OBVIOUS
<1>1. NoBatch \in Batches
  BY DEF NoBatch, Batches
<1>2. batch \in [Threads -> Batches] /\ received \in [ROSes -> Seq(Batches)]
  BY <1>1 DEF Init
<1>3. sending = IF mutex = NoThread THEN {} ELSE {mutex}
  BY DEF Init
<1>4. multicast \in BOOLEAN /\ connected \in BOOLEAN
  BY DEF Init
<1>5. /\ mutex \in Threads \cup {NoThread} /\ event_ids \in Seq(Nat)
      /\ sequence \in Nat /\ pending \in [Threads -> SUBSET ROSes]
      /\ up \in SUBSET ROSes
  BY DEF Init
<1>6. added \in 0..MaxIds /\ flushes \in 0..MaxFlushes /\ run \in 0..MaxRuns
  BY ClearAssumption DEF Init
<1>7. QED
  BY <1>2, <1>3, <1>4, <1>5, <1>6 DEF TypeOK

(* Every step keeps the types.                                             *)
LEMMA TypeStep ==
  ASSUME TypeOK, [Next]_vars
  PROVE  TypeOK'
<1> USE ClearAssumption
<1>1. CASE connect
  BY <1>1 DEF connect, TypeOK
<1>2. ASSUME NEW t \in Strands, add_event(t) PROVE TypeOK'
  <2>1. Append(event_ids, added + 1) \in Seq(Nat) /\ t \in Threads
    BY DEF TypeOK, Threads
  <2>2. added' \in 0..MaxIds /\ UNCHANGED <<multicast, connected, flushes, run, up, received>>
    BY <1>2 DEF add_event, TypeOK
  <2>3. mutex = NoThread
    BY <1>2 DEF add_event
  <2>4. CASE TakeBatch(t, Append(event_ids, added + 1)) /\ Hold(t)
    <3>1. /\ sending' = {mutex'} /\ mutex' \in Threads
          /\ batch' \in [Threads -> Batches]
          /\ pending' \in [Threads -> SUBSET ROSes]
          /\ sequence' = sequence + 1 /\ event_ids' = <<>>
      BY <2>1, <2>3, <2>4, TakenBatch
    <3>2. QED
      BY <2>2, <3>1 DEF TypeOK, Threads
  <2>5. CASE /\ event_ids' = Append(event_ids, added + 1)
             /\ UNCHANGED <<mutex, batch, pending, sending, sequence>>
    BY <2>1, <2>2, <2>5 DEF TypeOK
  <2>6. QED
    BY <1>2, <2>4, <2>5 DEF add_event
<1>3. CASE flush(RC)
  <2>1. event_ids \in Seq(Nat) /\ RC \in Threads /\ mutex = NoThread
    BY <1>3 DEF TypeOK, Threads, flush
  <2>2. flushes' \in 0..MaxFlushes /\ UNCHANGED <<multicast, connected, added, run, up, received>>
    BY <1>3 DEF flush, TypeOK
  <2>3. /\ sending' = {mutex'} /\ mutex' \in Threads
        /\ batch' \in [Threads -> Batches]
        /\ pending' \in [Threads -> SUBSET ROSes]
        /\ sequence' = sequence + 1 /\ event_ids' = <<>>
    BY <1>3, <2>1, TakenBatch DEF flush
  <2>4. QED
    BY <2>2, <2>3 DEF TypeOK, Threads
<1>4. CASE prepareForRun(RC)
  BY <1>4 DEF prepareForRun, TypeOK
<1>5. ASSUME NEW t \in Threads, SendUnicast(t) PROVE TypeOK'
  BY <1>5 DEF SendUnicast, TypeOK
<1>6. ASSUME NEW t \in Threads, SendMulticast(t) PROVE TypeOK'
  BY <1>6 DEF SendMulticast, TypeOK
<1>7. ASSUME NEW t \in Threads, Unlock(t) PROVE TypeOK'
  <2>1. sending' = {} /\ mutex' = NoThread
    BY <1>7, OneSender DEF Unlock
  <2>2. NoBatch \in Batches
    BY DEF NoBatch, Batches
  <2>3. QED
    BY <1>7, <2>1, <2>2 DEF Unlock, TypeOK
<1>8. ASSUME NEW r \in ROSes, LinkFails(r) PROVE TypeOK'
  BY <1>8 DEF LinkFails, TypeOK
<1>9. CASE UNCHANGED vars
  BY <1>9 DEF vars, TypeOK
<1>10. QED
  BY <1>1, <1>2, <1>3, <1>4, <1>5, <1>6, <1>7, <1>8, <1>9 DEF Next

(* The clear requests keep their types, and a thread is in do_flush only   *)
(* with the mutex, whoever calls add_event, flush and prepareForRun.       *)
THEOREM TypeCorrect == Spec => []TypeOK
BY TypeInit, TypeStep, PTL DEF Spec

-----------------------------------------------------------------------------
(* The steps, by what they do to the messages.                             *)

(* A thread swaps the group out: add_event or flush.                       *)
Takes(t) ==
  /\ sending = {} /\ sending' = {t}
  /\ batch'[t].run = run /\ batch'[t].sequence = sequence
  /\ \/ batch'[t].ids = event_ids /\ added' = added
     \/ batch'[t].ids = Append(event_ids, added + 1) /\ added' = added + 1
  /\ pending'[t] = ROSes
  /\ \A u \in Threads \ {t} : batch'[u] = batch[u] /\ pending'[u] = pending[u]
  /\ sequence' = sequence + 1 /\ event_ids' = <<>>
  /\ UNCHANGED <<multicast, run, up, received>>

(* It sends its message to some of the ROSes that have not yet got it.     *)
Delivers(t) ==
  /\ t \in sending
  /\ pending'[t] \subseteq pending[t]
  /\ multicast => pending'[t] = {}
  /\ \A u \in Threads \ {t} : pending'[u] = pending[u]
  /\ \A r \in ROSes :
       \/ received'[r] = received[r]
       \/ /\ received'[r] = Append(received[r], batch[t])
          /\ r \in pending[t] /\ r \notin pending'[t]
  /\ ~multicast =>
       \A r \in ROSes :
         received'[r] = IF r \in up /\ r \in pending[t] /\ r \notin pending'[t]
                        THEN Append(received[r], batch[t]) ELSE received[r]
  /\ UNCHANGED <<event_ids, sequence, multicast, sending, batch, added, run, up>>

(* A call of add_event that does not fill the group, and steps that no     *)
(* message is concerned in.                                                *)
Quiet ==
  /\ \/ UNCHANGED <<event_ids, added>>
     \/ /\ event_ids' = Append(event_ids, added + 1) /\ added' = added + 1
        /\ Len(event_ids') < Threshold
  /\ up' \subseteq up
  /\ UNCHANGED <<sequence, multicast, sending, batch, pending, run, received>>

(* With multicast a message is pending for all ROSes or for none.          *)
PendingInv ==
  /\ \A t \in Threads : t \notin sending => pending[t] = {}
  /\ multicast => \A t \in Threads : pending[t] \in {{}, ROSes}

(* Every step is one of these, an Unlock or the start of a run.            *)
LEMMA Steps ==
  ASSUME TypeOK, PendingInv, [Next]_vars
  PROVE  \/ \E t \in Threads : Takes(t) \/ Delivers(t) \/ Unlock(t)
         \/ prepareForRun(RC) \/ Quiet
<1>1. CASE connect
  BY <1>1 DEF connect, Quiet
<1>2. ASSUME NEW t \in Strands, add_event(t) PROVE Takes(t) \/ Quiet
  <2> DEFINE ids == Append(event_ids, added + 1)
  <2>1. ids \in Seq(Nat) /\ t \in Threads /\ Len(ids) \in Nat
    BY ClearAssumption DEF TypeOK, Threads
  <2>2. /\ sending = {} /\ mutex = NoThread /\ added' = added + 1
        /\ UNCHANGED <<multicast, run, up, received>>
    BY <1>2 DEF add_event, TypeOK
  <2>3. CASE TakeBatch(t, ids) /\ Hold(t)
    <3> HIDE DEF ids
    <3>1. /\ sending' = {t} /\ pending'[t] = ROSes
          /\ batch'[t] = [run |-> run, sequence |-> sequence, ids |-> ids]
          /\ \A u \in Threads \ {t} : batch'[u] = batch[u] /\ pending'[u] = pending[u]
          /\ sequence' = sequence + 1 /\ event_ids' = <<>>
      BY <2>1, <2>2, <2>3, TakenBatch
    <3>2. batch'[t].run = run /\ batch'[t].sequence = sequence /\ batch'[t].ids = ids
      BY <3>1
    <3>3. QED
      BY <2>2, <3>1, <3>2 DEF Takes, ids
  <2>4. CASE /\ ~GroupFull(ids) /\ event_ids' = ids
             /\ UNCHANGED <<mutex, batch, pending, sending, sequence>>
    BY <2>1, <2>2, <2>4, ClearAssumption DEF Quiet, GroupFull
  <2>5. QED
    BY <1>2, <2>3, <2>4 DEF add_event
<1>3. CASE flush(RC)
  <2>1. event_ids \in Seq(Nat) /\ RC \in Threads
    BY DEF TypeOK, Threads
  <2>2. /\ sending = {} /\ mutex = NoThread
        /\ UNCHANGED <<multicast, added, run, up, received>>
    BY <1>3 DEF flush, TypeOK
  <2>3. /\ sending' = {RC} /\ pending'[RC] = ROSes
        /\ batch'[RC] = [run |-> run, sequence |-> sequence, ids |-> event_ids]
        /\ \A u \in Threads \ {RC} : batch'[u] = batch[u] /\ pending'[u] = pending[u]
        /\ sequence' = sequence + 1 /\ event_ids' = <<>>
    BY <1>3, <2>1, <2>2, TakenBatch DEF flush
  <2>4. QED
    BY <2>1, <2>2, <2>3 DEF Takes
<1>4. ASSUME NEW t \in Threads, SendUnicast(t) PROVE Delivers(t)
  <2>1. PICK r \in pending[t] :
          /\ pending' = [pending EXCEPT ![t] = @ \ {r}]
          /\ received' = IF r \in up
                         THEN [received EXCEPT ![r] = Append(@, batch[t])]
                         ELSE received
    BY <1>4 DEF SendUnicast
  <2>2. /\ pending'[t] = pending[t] \ {r}
        /\ \A u \in Threads \ {t} : pending'[u] = pending[u]
    BY <2>1 DEF TypeOK
  <2>3. \A q \in ROSes :
          \/ received'[q] = received[q]
          \/ q = r /\ received'[q] = Append(received[q], batch[t])
    BY <2>1 DEF TypeOK
  <2>4. /\ t \in sending /\ ~multicast
        /\ UNCHANGED <<event_ids, sequence, multicast, sending, batch, added, run, up>>
    BY <1>4 DEF SendUnicast
  <2>5. \A q \in ROSes :
          received'[q] = IF q \in up /\ q \in pending[t] /\ q \notin pending'[t]
                         THEN Append(received[q], batch[t]) ELSE received[q]
    BY <2>1, <2>2 DEF TypeOK
  <2>6. QED
    BY <2>1, <2>2, <2>3, <2>4, <2>5 DEF Delivers
<1>5. ASSUME NEW t \in Threads, SendMulticast(t) PROVE Delivers(t)
  <2>1. pending[t] = ROSes
    BY <1>5 DEF SendMulticast, PendingInv
  <2>2. pending'[t] = {} /\ \A u \in Threads \ {t} : pending'[u] = pending[u]
    BY <1>5 DEF SendMulticast, TypeOK
  <2>3. \A q \in ROSes : \/ received'[q] = received[q]
                         \/ received'[q] = Append(received[q], batch[t])
    BY <1>5 DEF SendMulticast
  <2>4. /\ t \in sending /\ multicast
        /\ UNCHANGED <<event_ids, sequence, multicast, sending, batch, added, run, up>>
    BY <1>5 DEF SendMulticast
  <2>5. QED
    BY <2>1, <2>2, <2>3, <2>4 DEF Delivers
<1>6. ASSUME NEW r \in ROSes, LinkFails(r) PROVE Quiet
  BY <1>6 DEF LinkFails, Quiet
<1>7. CASE UNCHANGED vars
  BY <1>7 DEF vars, Quiet
<1>8. QED
  BY <1>1, <1>2, <1>3, <1>4, <1>5, <1>6, <1>7 DEF Next, Threads

(* PendingInv holds when no group has been taken.                          *)
LEMMA PendingInit == Init => PendingInv
BY DEF Init, PendingInv

(* Every step preserves PendingInv.                                        *)
LEMMA PendingStep ==
  ASSUME TypeOK, PendingInv, [Next]_vars
  PROVE  PendingInv'
<1>1. ASSUME NEW t \in Threads, Takes(t) PROVE PendingInv'
  BY <1>1 DEF Takes, PendingInv
<1>2. ASSUME NEW t \in Threads, Delivers(t) PROVE PendingInv'
  BY <1>2 DEF Delivers, PendingInv
<1>3. ASSUME NEW t \in Threads, Unlock(t) PROVE PendingInv'
  BY <1>3 DEF Unlock, PendingInv
<1>4. CASE prepareForRun(RC)
  BY <1>4 DEF prepareForRun, PendingInv
<1>5. CASE Quiet
  BY <1>5 DEF Quiet, PendingInv
<1>6. QED
  BY <1>1, <1>2, <1>3, <1>4, <1>5, Steps

-----------------------------------------------------------------------------
(* Unlock and prepareForRun touch no message but the one that is finished. *)
LEMMA UnlockLeaves ==
  ASSUME TypeOK, NEW t \in Threads, Unlock(t)
  PROVE  /\ UNCHANGED <<event_ids, sequence, multicast, added, run, up, received>>
         /\ sending' = {} /\ pending' = pending
         /\ \A u \in Threads : batch'[u] = batch[u] \/ batch'[u] = NoBatch
BY OneSender DEF Unlock, TypeOK

-----------------------------------------------------------------------------
(* The sequence numbers.                                                   *)

(* Message m is of an earlier run than n, or of that run and numbered      *)
(* below s.                                                                *)
Earlier(m, n, s) == m.run < n \/ (m.run = n /\ m.sequence < s)

(* A message that is being sent has the number just below m_sequence, and  *)
(* what a ROS has received is earlier than what it will receive.           *)
GrowInv ==
  /\ \A t \in sending : batch[t].run = run /\ batch[t].sequence + 1 = sequence
  /\ \A r \in ROSes : \A i \in DOMAIN received[r] :
       Earlier(received[r][i], run, sequence)
  /\ \A t \in sending : \A r \in pending[t] : \A i \in DOMAIN received[r] :
       Earlier(received[r][i], run, batch[t].sequence)
  /\ SequenceGrows

(* The messages of a list come each after the one before.                  *)
Grows(list) == \A i, j \in DOMAIN list :
                 i < j => Earlier(list[i], list[j].run, list[j].sequence)

(* SequenceGrows, list by list.                                            *)
LEMMA GrowsIs == SequenceGrows <=> \A r \in ROSes : Grows(received[r])
BY DEF SequenceGrows, Grows, Earlier

(* A list to which a later message is appended.                            *)
LEMMA AppendGrows ==
  ASSUME NEW list \in Seq(Batches), NEW m \in Batches, Grows(list),
         \A i \in DOMAIN list : Earlier(list[i], m.run, m.sequence)
  PROVE  Grows(Append(list, m))
<1> DEFINE l == Append(list, m)
<1>1. /\ DOMAIN l = 1..(Len(list) + 1) /\ DOMAIN list = 1..Len(list)
      /\ Len(list) \in Nat
      /\ \A i \in DOMAIN list : l[i] = list[i]
      /\ l[Len(list) + 1] = m
  OBVIOUS
<1> HIDE DEF l
<1>2. SUFFICES ASSUME NEW i \in DOMAIN l, NEW j \in DOMAIN l, i < j
               PROVE  Earlier(l[i], l[j].run, l[j].sequence)
  BY DEF Grows, l
<1>3. i \in DOMAIN list
  BY <1>1, <1>2
<1>4. CASE j \in DOMAIN list
  BY <1>1, <1>2, <1>3, <1>4 DEF Grows
<1>5. CASE j = Len(list) + 1
  BY <1>1, <1>3, <1>5
<1>6. QED
  BY <1>1, <1>4, <1>5

(* GrowInv holds when nothing has been sent.                               *)
LEMMA GrowInit == Init => GrowInv
BY DEF Init, GrowInv, SequenceGrows

(* The words of a message.                                                 *)
LEMMA Fields ==
  ASSUME TypeOK
  PROVE  /\ \A t \in Threads : batch[t] \in Batches /\ batch[t].run \in Nat
                               /\ batch[t].sequence \in Nat
         /\ \A r \in ROSes : received[r] \in Seq(Batches)
         /\ \A r \in ROSes : \A i \in DOMAIN received[r] :
              received[r][i].run \in Nat /\ received[r][i].sequence \in Nat
         /\ run \in Nat /\ sequence \in Nat
<1>1. \A b \in Batches : b.run \in Nat /\ b.sequence \in Nat
  BY DEF Batches
<1>2. \A r \in ROSes : received[r] \in Seq(Batches)
  BY DEF TypeOK
<1>3. \A r \in ROSes : \A i \in DOMAIN received[r] : received[r][i] \in Batches
  BY <1>2
<1>4. \A t \in Threads : batch[t] \in Batches
  BY DEF TypeOK
<1>5. run \in Nat /\ sequence \in Nat
  BY ClearAssumption DEF TypeOK
<1>6. QED
  BY <1>1, <1>2, <1>3, <1>4, <1>5

(* Every step preserves GrowInv.                                           *)
LEMMA GrowStep ==
  ASSUME TypeOK, PendingInv, GrowInv, [Next]_vars
  PROVE  GrowInv'
<1> USE Fields
<1>1. ASSUME NEW t \in Threads, Takes(t) PROVE GrowInv'
  BY <1>1 DEF Takes, GrowInv, Earlier, SequenceGrows
<1>2. ASSUME NEW t \in Threads, Delivers(t) PROVE GrowInv'
  <2>1. /\ t \in sending /\ sending = {t}
        /\ UNCHANGED <<sequence, sending, batch, run>>
    BY <1>2, OneSender DEF Delivers
  <2>2. batch[t].run = run /\ batch[t].sequence + 1 = sequence
    BY <2>1 DEF GrowInv
  <2>3. ASSUME NEW r \in ROSes, received'[r] = Append(received[r], batch[t]),
               r \in pending[t]
        PROVE  /\ Grows(received'[r])
               /\ \A i \in DOMAIN received'[r] : Earlier(received'[r][i], run, sequence)
    <3>1. \A i \in DOMAIN received[r] :
            Earlier(received[r][i], batch[t].run, batch[t].sequence)
      BY <2>1, <2>2, <2>3 DEF GrowInv
    <3>2. Grows(received'[r])
      BY <2>3, <3>1, AppendGrows, GrowsIs DEF GrowInv
    <3>3. ASSUME NEW i \in DOMAIN received'[r]
          PROVE  Earlier(received'[r][i], run, sequence)
      <4>1. \/ i \in DOMAIN received[r] /\ received'[r][i] = received[r][i]
            \/ received'[r][i] = batch[t]
        BY <2>3
      <4>2. Earlier(batch[t], run, sequence)
        BY <2>2 DEF Earlier
      <4>3. QED
        BY <4>1, <4>2 DEF GrowInv
    <3>4. QED
      BY <3>2, <3>3
  <2>4. \A r \in ROSes : /\ Grows(received'[r])
                         /\ \A i \in DOMAIN received'[r] :
                              Earlier(received'[r][i], run, sequence)
    BY <1>2, <2>3, GrowsIs DEF Delivers, GrowInv
  <2>5. \A r \in pending'[t] : r \in ROSes /\ r \in pending[t] /\ received'[r] = received[r]
    BY <1>2 DEF Delivers, TypeOK
  <2>6. SequenceGrows'
    BY <2>4 DEF SequenceGrows, Grows, Earlier
  <2>7. QED
    BY <2>1, <2>4, <2>5, <2>6 DEF GrowInv
<1>3. ASSUME NEW t \in Threads, Unlock(t) PROVE GrowInv'
  <2>1. sending' = {} /\ UNCHANGED <<run, sequence, received>>
    BY <1>3, UnlockLeaves
  <2>2. \A r \in ROSes : Grows(received'[r])
    <3>1. \A r \in ROSes : Grows(received[r])
      BY GrowsIs DEF GrowInv
    <3>2. QED
      BY <2>1, <3>1
  <2>3. SequenceGrows'
    BY <2>2 DEF SequenceGrows, Grows, Earlier
  <2>4. QED
    BY <2>1, <2>3 DEF GrowInv, Earlier
<1>4. CASE prepareForRun(RC)
  <2>1. sending = {} /\ run' = run + 1 /\ UNCHANGED <<sending, received>>
    BY <1>4 DEF prepareForRun, TypeOK
  <2>2. \A r \in ROSes : \A i \in DOMAIN received[r] : received[r][i].run < run + 1
    BY DEF GrowInv, Earlier
  <2>3. QED
    BY <2>1, <2>2 DEF GrowInv, Earlier, SequenceGrows
<1>5. CASE Quiet
  BY <1>5 DEF Quiet, GrowInv, SequenceGrows
<1>6. QED
  BY <1>1, <1>2, <1>3, <1>4, <1>5, Steps

(* The sequence numbers that a ROS sees only grow in a run, with either    *)
(* implementation: also when the numbering starts again while a message of *)
(* the last run could still be under way, which the mutex excludes.        *)
THEOREM NumbersGrow == Spec => []SequenceGrows
<1>1. Init => TypeOK /\ PendingInv /\ GrowInv
  BY TypeInit, PendingInit, GrowInit
<1>2. TypeOK /\ PendingInv /\ GrowInv /\ [Next]_vars
        => (TypeOK /\ PendingInv /\ GrowInv)'
  BY TypeStep, PendingStep, GrowStep
<1>3. GrowInv => SequenceGrows
  BY DEF GrowInv
<1>4. QED
  BY <1>1, <1>2, <1>3, PTL DEF Spec

-----------------------------------------------------------------------------
(* No number is left out on a TCP session.                                 *)

(* How many of the first n messages of a list are of a run.                *)
OfRun(list, n, k) == {j \in 1..n : list[j].run = k}
Count(list, k) == Cardinality(OfRun(list, Len(list), k))

(* The number of messages of this run that a ROS has received is the       *)
(* number of the message that is pending for it, or else of the next.      *)
CountInv ==
  ~multicast =>
    /\ \A t \in sending : \A r \in up \cap pending[t] :
         Count(received[r], run) = batch[t].sequence
    /\ \A r \in up : (\A t \in sending : r \notin pending[t]) =>
         Count(received[r], run) = sequence
    /\ ContiguousSequence

(* One list without a gap.                                                 *)
Contiguous(list) ==
  \A i \in DOMAIN list :
    list[i].sequence = Cardinality(OfRun(list, i - 1, list[i].run))

(* ContiguousSequence, list by list.                                       *)
LEMMA ContiguousIs ==
  ContiguousSequence <=> (~multicast => \A r \in ROSes : Contiguous(received[r]))
BY DEF ContiguousSequence, Contiguous, OfRun

(* A list to which the next message of a run is appended.                  *)
LEMMA AppendContiguous ==
  ASSUME NEW list \in Seq(Batches), NEW m \in Batches, Contiguous(list),
         Count(list, m.run) = m.sequence
  PROVE  /\ Contiguous(Append(list, m))
         /\ Count(Append(list, m), m.run) = m.sequence + 1
<1> DEFINE l == Append(list, m)
           n == Len(list)
<1>1. /\ n \in Nat /\ DOMAIN l = 1..(n + 1) /\ DOMAIN list = 1..n /\ Len(l) = n + 1
      /\ \A i \in 1..n : l[i] = list[i]
      /\ l[n + 1] = m
  OBVIOUS
<1> HIDE DEF l, n
<1>2. \A q : \A k \in 0..n : OfRun(l, k, q) = OfRun(list, k, q)
  BY <1>1 DEF OfRun
<1>3. Cardinality(OfRun(list, n, m.run)) = m.sequence
  BY DEF Count, n
<1>4. Contiguous(l)
  <2>1. SUFFICES ASSUME NEW i \in 1..(n + 1)
                 PROVE  l[i].sequence = Cardinality(OfRun(l, i - 1, l[i].run))
    BY <1>1 DEF Contiguous
  <2>2. CASE i \in 1..n
    <3>1. list[i].sequence = Cardinality(OfRun(list, i - 1, list[i].run))
      BY <1>1, <2>2 DEF Contiguous
    <3>2. i - 1 \in 0..n
      BY <1>1, <2>2
    <3>3. QED
      BY <1>1, <1>2, <2>2, <3>1, <3>2
  <2>3. CASE i = n + 1
    <3>1. i - 1 = n /\ n \in 0..n
      BY <1>1, <2>3
    <3>2. QED
      BY <1>1, <1>2, <1>3, <2>3, <3>1
  <2>4. QED
    BY <1>1, <2>2, <2>3
<1>5. Count(l, m.run) = m.sequence + 1
  <2> DEFINE S == OfRun(list, n, m.run)
  <2>1. OfRun(l, n + 1, m.run) = S \cup {n + 1}
    BY <1>1 DEF OfRun
  <2>2. n + 1 \notin S /\ S \subseteq 1..n
    BY <1>1 DEF OfRun
  <2>3. IsFiniteSet(S)
    <3>1. IsFiniteSet(1..n)
      BY <1>1, FS_Interval
    <3>2. QED
      BY <2>2, <3>1, FS_Subset
  <2>4. Cardinality(S \cup {n + 1}) = Cardinality(S) + 1
    BY <2>2, <2>3, FS_AddElement
  <2>5. QED
    BY <1>1, <1>3, <2>1, <2>4 DEF Count
<1>6. QED
  BY <1>4, <1>5 DEF l

(* CountInv holds when nothing has been sent.                              *)
LEMMA CountInit == Init => CountInv
<1> SUFFICES ASSUME Init PROVE CountInv
  OBVIOUS
<1>1. \A r \in ROSes : Len(received[r]) = 0 /\ DOMAIN received[r] = {}
  BY DEF Init
<1>2. sending = {} /\ sequence = 0 /\ up = ROSes
  BY DEF Init
<1>3. \A r \in ROSes : OfRun(received[r], Len(received[r]), run) = {}
  BY <1>1 DEF OfRun
<1>4. \A r \in ROSes : Count(received[r], run) = 0
  BY <1>3, FS_EmptySet DEF Count
<1>5. QED
  BY <1>1, <1>2, <1>4 DEF CountInv, ContiguousSequence

(* Every step preserves CountInv.                                          *)
LEMMA CountStep ==
  ASSUME TypeOK, PendingInv, GrowInv, CountInv, [Next]_vars
  PROVE  CountInv'
<1> USE Fields
<1>0. up \subseteq ROSes
  BY DEF TypeOK
<1>1. ASSUME NEW t \in Threads, Takes(t), ~multicast PROVE CountInv'
  <2>1. /\ sending = {} /\ sending' = {t} /\ pending'[t] = ROSes
        /\ batch'[t].sequence = sequence
        /\ UNCHANGED <<multicast, run, up, received>>
    BY <1>1 DEF Takes
  <2>2. \A r \in up : Count(received[r], run) = sequence
    BY <1>1, <2>1 DEF CountInv
  <2>3. ContiguousSequence'
    <3>1. ContiguousSequence /\ multicast' = multicast /\ received' = received
      BY <1>1, <2>1 DEF CountInv
    <3>2. QED
      BY <3>1 DEF ContiguousSequence
  <2>4. QED
    BY <1>0, <2>1, <2>2, <2>3 DEF CountInv
<1>2. ASSUME NEW t \in Threads, Delivers(t), ~multicast PROVE CountInv'
  <2>1. /\ t \in sending /\ sending = {t} /\ batch[t] \in Batches
        /\ UNCHANGED <<sequence, sending, batch, run, up, multicast>>
    BY <1>2, OneSender DEF Delivers
  <2>2. batch[t].run = run /\ batch[t].sequence + 1 = sequence
    BY <2>1 DEF GrowInv
  <2>3. \A r \in ROSes : Contiguous(received[r])
    BY <1>2, ContiguousIs DEF CountInv
  <2>4. ASSUME NEW r \in up, r \in pending[t], r \notin pending'[t]
        PROVE  Contiguous(received'[r]) /\ Count(received'[r], run) = sequence
    <3>1. Count(received[r], batch[t].run) = batch[t].sequence
      BY <1>2, <2>1, <2>2, <2>4 DEF CountInv
    <3>2. received'[r] = Append(received[r], batch[t])
      BY <1>0, <1>2, <2>4 DEF Delivers
    <3>3. QED
      BY <1>0, <2>1, <2>2, <2>3, <3>1, <3>2, AppendContiguous
  <2>5. ASSUME NEW r \in ROSes, ~(r \in up /\ r \in pending[t] /\ r \notin pending'[t])
        PROVE  received'[r] = received[r]
    BY <1>2, <2>5 DEF Delivers
  <2>6. ContiguousSequence'
    <3>1. \A r \in ROSes : Contiguous(received'[r])
      BY <2>3, <2>4, <2>5
    <3>2. QED
      BY <3>1 DEF ContiguousSequence, Contiguous, OfRun
  <2>7. pending'[t] \subseteq pending[t]
    BY <1>2 DEF Delivers
  <2>8. ASSUME NEW r \in up, r \in pending'[t]
        PROVE  Count(received'[r], run) = batch[t].sequence
    BY <1>0, <1>2, <2>1, <2>5, <2>7, <2>8 DEF CountInv
  <2>9. ASSUME NEW r \in up, r \notin pending'[t]
        PROVE  Count(received'[r], run) = sequence
    <3>1. CASE r \in pending[t]
      BY <2>4, <2>9, <3>1
    <3>2. CASE r \notin pending[t]
      BY <1>0, <1>2, <2>1, <2>5, <3>2 DEF CountInv
    <3>3. QED
      BY <3>1, <3>2
  <2>10. QED
    BY <2>1, <2>6, <2>8, <2>9 DEF CountInv
<1>3. ASSUME NEW t \in Threads, Unlock(t), ~multicast PROVE CountInv'
  <2>1. sending = {t} /\ pending[t] = {}
    BY <1>3, OneSender DEF Unlock
  <2>2. sending' = {} /\ UNCHANGED <<sequence, multicast, run, up, received>>
    BY <1>3, UnlockLeaves
  <2>3. \A r \in up : Count(received[r], run) = sequence
    BY <1>3, <2>1 DEF CountInv
  <2>4. ContiguousSequence'
    BY <1>3, <2>2 DEF CountInv, ContiguousSequence
  <2>5. QED
    BY <2>2, <2>3, <2>4 DEF CountInv
<1>4. CASE prepareForRun(RC)
  <2>1. /\ sending = {} /\ run' = run + 1 /\ sequence' = 0
        /\ UNCHANGED <<sending, received, up, multicast>>
    BY <1>4 DEF prepareForRun, TypeOK
  <2>2. \A r \in ROSes : \A i \in DOMAIN received[r] : received[r][i].run # run + 1
    BY DEF GrowInv, Earlier
  <2>3. \A r \in ROSes : OfRun(received[r], Len(received[r]), run + 1) = {}
    BY <2>2 DEF OfRun
  <2>4. \A r \in ROSes : Count(received[r], run + 1) = 0
    BY <2>3, FS_EmptySet DEF Count
  <2>5. QED
    BY <1>0, <2>1, <2>4 DEF CountInv, ContiguousSequence
<1>5. CASE Quiet
  BY <1>5 DEF Quiet, CountInv, ContiguousSequence
<1>6. ASSUME NEW t \in Threads, Takes(t) \/ Delivers(t) \/ Unlock(t), multicast
      PROVE  CountInv'
  BY <1>6, UnlockLeaves DEF Takes, Delivers, CountInv
<1>7. QED
  BY <1>1, <1>2, <1>3, <1>4, <1>5, <1>6, Steps

(* Of the messages of one run a ROS with a TCP session sees the numbers    *)
(* 0, 1, 2, ..., whatever calls add_event and flush and whichever other    *)
(* links fail.                                                             *)
THEOREM NumbersContiguous == Spec => []ContiguousSequence
<1>1. Init => TypeOK /\ PendingInv /\ GrowInv /\ CountInv
  BY TypeInit, PendingInit, GrowInit, CountInit
<1>2. TypeOK /\ PendingInv /\ GrowInv /\ CountInv /\ [Next]_vars
        => (TypeOK /\ PendingInv /\ GrowInv /\ CountInv)'
  BY TypeStep, PendingStep, GrowStep, CountStep
<1>3. CountInv => ContiguousSequence
  BY DEF CountInv, ContiguousSequence
<1>4. QED
  BY <1>1, <1>2, <1>3, PTL DEF Spec

(* Both together: what a ROS gets of a run is in order and, with a TCP     *)
(* session, without a gap; the next run starts the numbers again.          *)
THEOREM NumbersInOrder == Spec => []SequenceNumbers
<1>1. ContiguousSequence /\ SequenceGrows => SequenceNumbers
  BY DEF SequenceNumbers
<1>2. QED
  BY <1>1, NumbersGrow, NumbersContiguous, PTL

-----------------------------------------------------------------------------
(* Every event is cleared once and in order.                               *)

(* The IDs of a list of messages, when one more is received.               *)
LEMMA IdsOfAppend ==
  ASSUME NEW list \in Seq(Batches), NEW m \in Batches
  PROVE  /\ IdsOf(list) \in Seq(Nat) /\ m.ids \in Seq(Nat)
         /\ IdsOf(Append(list, m)) = IdsOf(list) \o m.ids
<1> DEFINE l == Append(list, m)
           n == Len(list)
           g == [i \in DOMAIN list |-> list[i].ids]
           h == [i \in DOMAIN l |-> l[i].ids]
<1>1. \A b \in Batches : b.ids \in Seq(Nat)
  BY DEF Batches
<1>2. /\ n \in Nat /\ DOMAIN list = 1..n /\ DOMAIN l = 1..(n + 1)
      /\ \A i \in 1..n : list[i] \in Batches /\ l[i] = list[i]
      /\ l[n + 1] = m
  OBVIOUS
<1>3. g \in Seq(Seq(Nat)) /\ Len(g) = n
  <2>1. g \in [1..n -> Seq(Nat)]
    BY <1>1, <1>2
  <2>2. QED
    BY <1>2, <2>1
<1>4. h = Append(g, m.ids)
  <2>1. DOMAIN h = 1..(n + 1) /\ DOMAIN Append(g, m.ids) = 1..(n + 1)
    BY <1>2, <1>3
  <2>2. \A i \in 1..n : h[i] = g[i] /\ Append(g, m.ids)[i] = g[i]
    BY <1>2, <1>3
  <2>3. h[n + 1] = m.ids /\ Append(g, m.ids)[n + 1] = m.ids
    BY <1>2, <1>3
  <2>4. \A i \in 1..(n + 1) : h[i] = Append(g, m.ids)[i]
    BY <1>2, <2>2, <2>3
  <2>5. h = [i \in 1..(n + 1) |-> h[i]]
    BY <1>2
  <2>6. Append(g, m.ids) = [i \in 1..(n + 1) |-> Append(g, m.ids)[i]]
    BY <1>3
  <2>7. QED
    BY <2>4, <2>5, <2>6
<1>5. IdsOf(list) = FlattenSeq(g) /\ IdsOf(l) = FlattenSeq(h)
  BY DEF IdsOf
<1> HIDE DEF g, h
<1>6. m.ids \in Seq(Nat)
  BY <1>1
<1>7. FlattenSeq(Append(g, m.ids)) = FlattenSeq(g) \o m.ids
  BY <1>3, <1>6, FlattenAppend, Zenon
<1>8. FlattenSeq(g) \in Seq(Nat)
  BY <1>3, FlattenType, Zenon
<1>9. QED
  BY <1>4, <1>5, <1>6, <1>7, <1>8, Zenon

(* Facts about lists of IDs.                                               *)
Upto(n) == [i \in 1..n |-> i]

(* The next number after 1, ..., n.                                        *)
LEMMA UptoNext ==
  ASSUME NEW n \in Nat
  PROVE  Append(Upto(n), n + 1) = Upto(n + 1)
<1>1. Upto(n) \in Seq(Nat) /\ Len(Upto(n)) = n
  BY DEF Upto
<1>2. QED
  BY <1>1 DEF Upto

(* One more ID after those up to n.                                        *)
LEMMA OneMore ==
  ASSUME NEW n \in Nat, NEW a \in Seq(Nat), NEW b \in Seq(Nat), a \o b = Upto(n)
  PROVE  a \o Append(b, n + 1) = Upto(n + 1)
<1>1. n + 1 \in Nat
  OBVIOUS
<1>2. a \o Append(b, n + 1) = Append(a \o b, n + 1)
  BY <1>1, CatAppend
<1>3. QED
  BY <1>2, UptoNext, Zenon

(* What is on the way to r when the threads in S have to send messages b   *)
(* to the ROSes p.                                                         *)
IdsFrom(senders, b) ==
  IF senders = {} THEN <<>> ELSE b[CHOOSE t \in senders : TRUE].ids

OnWay(S, p, b, r) == IdsFrom({t \in S : r \in p[t]}, b)

(* What is on the way from no thread, and from one.                        *)
LEMMA OnWayIs ==
  ASSUME NEW p, NEW b, NEW r
  PROVE  /\ OnWay({}, p, b, r) = <<>>
         /\ \A t : OnWay({t}, p, b, r) = IF r \in p[t] THEN b[t].ids ELSE <<>>
<1>1. OnWay({}, p, b, r) = <<>>
  BY DEF OnWay, IdsFrom
<1>2. ASSUME NEW t
      PROVE  OnWay({t}, p, b, r) = IF r \in p[t] THEN b[t].ids ELSE <<>>
  <2>1. CASE r \in p[t]
    <3>1. {u \in {t} : r \in p[u]} = {t}
      BY <2>1
    <3>2. (CHOOSE u \in {t} : TRUE) = t
      OBVIOUS
    <3>3. OnWay({t}, p, b, r) = b[CHOOSE u \in {t} : TRUE].ids
      <4>1. {t} # {}
        OBVIOUS
      <4>2. OnWay({t}, p, b, r) = IF {t} = {} THEN <<>> ELSE b[CHOOSE u \in {t} : TRUE].ids
        BY <3>1 DEF OnWay, IdsFrom
      <4>3. QED
        BY <4>1, <4>2, Zenon
    <3>4. b[CHOOSE u \in {t} : TRUE].ids = b[t].ids
      BY <3>2, Zenon
    <3>5. QED
      BY <2>1, <3>3, <3>4, Zenon
  <2>2. CASE r \notin p[t]
    <3>1. {u \in {t} : r \in p[u]} = {}
      BY <2>2
    <3>2. QED
      BY <2>2, <3>1, Zenon DEF OnWay, IdsFrom
  <2>3. QED
    BY <2>1, <2>2
<1>3. QED
  BY <1>1, <1>2

(* One read-out system has or will get the IDs up to n.                    *)
Ordered(list, way, ids, n) == IdsOf(list) \o way \o ids = Upto(n)

(* ClearedOnceInOrder with its operators by their arguments.               *)
LEMMA OrderedIs ==
  /\ ClearedOnceInOrder <=>
       (~multicast => \A r \in up :
          Ordered(received[r], OnWay(sending, pending, batch, r), event_ids, added))
  /\ ClearedOnceInOrder' <=>
       (~multicast' => \A r \in up' :
          Ordered(received'[r], OnWay(sending', pending', batch', r), event_ids', added'))
BY DEF ClearedOnceInOrder, OnTheWay, OnWay, IdsFrom, Ordered, Upto, IdsOf

(* Nothing is cleared at the start.                                        *)
LEMMA OrderInit == Init => ClearedOnceInOrder
<1> SUFFICES ASSUME Init PROVE ClearedOnceInOrder
  OBVIOUS
<1>1. sending = {} /\ event_ids = <<>> /\ added = 0 /\ up = ROSes
      /\ received = [r \in ROSes |-> <<>>]
  BY DEF Init
<1>2. IdsOf(<<>>) = <<>>
  <2>1. [i \in DOMAIN <<>> |-> <<>>[i].ids] = <<>>
    OBVIOUS
  <2>2. FlattenSeq(<<>>) = <<>>
    BY DEF FlattenSeq
  <2>3. QED
    BY <2>1, <2>2 DEF IdsOf
<1>3. Upto(0) = <<>>
  BY DEF Upto
<1>4. \A r \in up : OnWay(sending, pending, batch, r) = <<>>
  BY <1>1, OnWayIs
<1>5. \A r \in up : Ordered(received[r], <<>>, event_ids, added)
  <2>1. <<>> \o <<>> = <<>>
    OBVIOUS
  <2>2. \A r \in up : received[r] = <<>>
    BY <1>1
  <2>3. <<>> \o <<>> \o <<>> = <<>>
    BY <2>1
  <2>4. QED
    BY <1>1, <1>2, <1>3, <2>2, <2>3, Zenon DEF Ordered
<1>6. QED
  BY <1>4, <1>5, OrderedIs

(* Every step keeps the order.                                             *)
LEMMA OrderStep ==
  ASSUME TypeOK, TypeOK', PendingInv, ClearedOnceInOrder, [Next]_vars
  PROVE  ClearedOnceInOrder'
<1>0. /\ up \subseteq ROSes /\ added \in Nat /\ event_ids \in Seq(Nat)
      /\ \A r \in ROSes : received[r] \in Seq(Batches) /\ IdsOf(received[r]) \in Seq(Nat)
      /\ \A t \in Threads : batch[t] \in Batches /\ batch[t].ids \in Seq(Nat)
  <2>1. /\ up \subseteq ROSes /\ added \in Nat /\ event_ids \in Seq(Nat)
        /\ \A r \in ROSes : received[r] \in Seq(Batches)
        /\ \A t \in Threads : batch[t] \in Batches
    BY ClearAssumption DEF TypeOK
  <2>2. \A t \in Threads : batch[t].ids \in Seq(Nat)
    BY <2>1 DEF Batches
  <2>3. NoBatch \in Batches
    BY DEF NoBatch, Batches
  <2>4. \A r \in ROSes : IdsOf(received[r]) \in Seq(Nat)
    BY <2>1, <2>3, IdsOfAppend
  <2>5. QED
    BY <2>1, <2>2, <2>4
<1>1. ASSUME ~multicast, NEW r \in up
      PROVE  Ordered(received[r], OnWay(sending, pending, batch, r), event_ids, added)
  BY <1>1, OrderedIs
<1>2. ASSUME NEW t \in Threads, Takes(t), ~multicast PROVE ClearedOnceInOrder'
  <2>1. /\ sending = {} /\ sending' = {t} /\ pending'[t] = ROSes /\ event_ids' = <<>>
        /\ UNCHANGED <<multicast, up, received>>
        /\ \/ batch'[t].ids = event_ids /\ added' = added
           \/ batch'[t].ids = Append(event_ids, added + 1) /\ added' = added + 1
    BY <1>2 DEF Takes
  <2>2. ASSUME NEW r \in up
        PROVE  Ordered(received[r], batch'[t].ids, <<>>, added')
    <3> DEFINE ids == IdsOf(received[r])
    <3>1. ids \in Seq(Nat) /\ event_ids \in Seq(Nat)
      BY <1>0
    <3>2. ids \o event_ids = Upto(added)
      <4>1. Ordered(received[r], <<>>, event_ids, added)
        BY <1>1, <1>2, <2>1, OnWayIs, Zenon
      <4>2. ids \o <<>> = ids
        BY <3>1, CatEmpty, Zenon
      <4>3. QED
        BY <4>1, <4>2, Zenon DEF Ordered
    <3> HIDE DEF ids
    <3>3. ids \o Append(event_ids, added + 1) = Upto(added + 1)
      BY <1>0, <3>1, <3>2, OneMore, Zenon
    <3>4. batch'[t].ids \in Seq(Nat)
      <4>1. Append(event_ids, added + 1) \in Seq(Nat)
        BY <1>0
      <4>2. QED
        BY <2>1, <3>1, <4>1, Zenon
    <3>4a. ids \o batch'[t].ids = Upto(added')
      BY <2>1, <3>2, <3>3, Zenon
    <3>5. ids \o batch'[t].ids \o <<>> = Upto(added')
      <4>1. ids \o batch'[t].ids \in Seq(Nat)
        BY <3>1, <3>4, CatType, Zenon
      <4>2. QED
        BY <3>4a, <4>1, CatEmpty, Zenon
    <3>6. QED
      BY <3>5 DEF Ordered, ids
  <2>3. \A r \in up : OnWay(sending', pending', batch', r) = batch'[t].ids
    BY <1>0, <2>1, OnWayIs
  <2>4. QED
    BY <2>1, <2>2, <2>3, OrderedIs
<1>3. ASSUME NEW t \in Threads, Delivers(t), ~multicast PROVE ClearedOnceInOrder'
  <2>1. /\ sending = {t} /\ pending'[t] \subseteq pending[t]
        /\ UNCHANGED <<event_ids, multicast, sending, batch, added, up>>
        /\ \A r \in ROSes :
             received'[r] = IF r \in up /\ r \in pending[t] /\ r \notin pending'[t]
                            THEN Append(received[r], batch[t]) ELSE received[r]
    BY <1>3, OneSender DEF Delivers
  <2>2. ASSUME NEW r \in up
        PROVE  Ordered(received'[r], OnWay({t}, pending', batch, r), event_ids, added)
    <3>1. /\ OnWay({t}, pending, batch, r) = IF r \in pending[t] THEN batch[t].ids ELSE <<>>
          /\ OnWay({t}, pending', batch, r) = IF r \in pending'[t] THEN batch[t].ids ELSE <<>>
      BY OnWayIs
    <3>2. Ordered(received[r], OnWay({t}, pending, batch, r), event_ids, added)
      BY <1>1, <1>3, <2>1
    <3>3. CASE r \in pending[t] /\ r \notin pending'[t]
      <4>1. received'[r] = Append(received[r], batch[t])
        BY <1>0, <2>1, <3>3
      <4>2. IdsOf(received'[r]) = IdsOf(received[r]) \o batch[t].ids
        BY <1>0, <4>1, IdsOfAppend
      <4>3. IdsOf(received[r]) \o batch[t].ids \in Seq(Nat)
        <5>1. IdsOf(received[r]) \in Seq(Nat) /\ batch[t].ids \in Seq(Nat)
          BY <1>0
        <5>2. QED
          BY <5>1, CatType, Zenon
      <4>4. IdsOf(received'[r]) \o <<>> = IdsOf(received[r]) \o batch[t].ids
        BY <4>2, <4>3, CatEmpty, Zenon
      <4>5. OnWay({t}, pending, batch, r) = batch[t].ids
            /\ OnWay({t}, pending', batch, r) = <<>>
        BY <3>1, <3>3
      <4>6. QED
        BY <3>2, <4>4, <4>5 DEF Ordered
    <3>4. CASE ~(r \in pending[t] /\ r \notin pending'[t])
      <4>1. received'[r] = received[r]
        BY <1>0, <2>1, <3>4
      <4>2. OnWay({t}, pending, batch, r) = OnWay({t}, pending', batch, r)
        BY <2>1, <3>1, <3>4
      <4>3. QED
        BY <3>2, <4>1, <4>2
    <3>5. QED
      BY <3>3, <3>4
  <2>3. QED
    BY <2>1, <2>2, OrderedIs
<1>4. ASSUME NEW t \in Threads, Unlock(t), ~multicast PROVE ClearedOnceInOrder'
  <2>1. sending = {t} /\ pending[t] = {}
    BY <1>4, OneSender DEF Unlock
  <2>2. sending' = {} /\ UNCHANGED <<event_ids, multicast, added, up, received>>
    BY <1>4, UnlockLeaves
  <2>3. \A r \in up : /\ OnWay(sending, pending, batch, r) = <<>>
                      /\ OnWay(sending', pending', batch', r) = <<>>
    BY <2>1, <2>2, OnWayIs
  <2>4. QED
    BY <1>1, <1>4, <2>2, <2>3, OrderedIs
<1>5. CASE prepareForRun(RC)
  <2>1. UNCHANGED <<event_ids, multicast, sending, batch, pending, added, up, received>>
    BY <1>5 DEF prepareForRun
  <2>2. QED
    BY <1>1, <2>1, OrderedIs
<1>6. CASE Quiet /\ ~multicast
  <2>1. /\ up' \subseteq up /\ UNCHANGED <<multicast, sending, batch, pending, received>>
        /\ \/ UNCHANGED <<event_ids, added>>
           \/ event_ids' = Append(event_ids, added + 1) /\ added' = added + 1
    BY <1>6 DEF Quiet
  <2>2. ASSUME NEW r \in up
        PROVE  Ordered(received[r], OnWay(sending, pending, batch, r), event_ids', added')
    <3> DEFINE way == OnWay(sending, pending, batch, r)
    <3>1. way \in Seq(Nat)
      <4>1. CASE sending = {}
        <5>1. <<>> \in Seq(Nat)
          OBVIOUS
        <5>2. way = <<>>
          BY <4>1, OnWayIs, Zenon
        <5>3. QED
          BY <5>1, <5>2, Zenon
      <4>2. ASSUME NEW t \in sending PROVE way \in Seq(Nat)
        <5>1. sending = {t} /\ t \in Threads
          BY <4>2, OneSender
        <5>2. way = IF r \in pending[t] THEN batch[t].ids ELSE <<>>
          BY <5>1, OnWayIs
        <5>3. <<>> \in Seq(Nat) /\ batch[t].ids \in Seq(Nat)
          BY <1>0, <5>1
        <5>4. QED
          BY <5>2, <5>3, Zenon
      <4>3. QED
        BY <4>1, <4>2
    <3>2. Ordered(received[r], way, event_ids, added)
      BY <1>1, <1>6
    <3> DEFINE ids == IdsOf(received[r]) \o way
    <3>3. ids \in Seq(Nat)
      <4>1. IdsOf(received[r]) \in Seq(Nat)
        BY <1>0
      <4>2. QED
        BY <3>1, <4>1, CatType, Zenon
    <3>4. ids \o event_ids = Upto(added)
      BY <3>2 DEF Ordered
    <3> HIDE DEF ids
    <3>5. ids \o event_ids' = Upto(added')
      <4>1. ids \o Append(event_ids, added + 1) = Upto(added + 1)
        BY <1>0, <3>3, <3>4, OneMore, Zenon
      <4>2. QED
        BY <2>1, <3>4, <4>1, Zenon
    <3>6. QED
      BY <3>5 DEF Ordered, ids
  <2>3. QED
    BY <2>1, <2>2, OrderedIs
<1>7. CASE multicast
  <2>1. multicast' = multicast
    BY Steps, UnlockLeaves DEF Takes, Delivers, Quiet, prepareForRun
  <2>2. QED
    BY <1>7, <2>1 DEF ClearedOnceInOrder
<1>8. QED
  BY <1>2, <1>3, <1>4, <1>5, <1>6, <1>7, Steps

(* A ROS with a TCP session gets every clear once and in the order of      *)
(* add_event: what it has received, what is being sent to it and what is   *)
(* still in the group are all there is, for any grouping and however the   *)
(* strands, flushes and new runs interleave.                               *)
THEOREM ClearsInOrder == Spec => []ClearedOnceInOrder
<1>1. Init => TypeOK /\ PendingInv /\ ClearedOnceInOrder
  BY TypeInit, PendingInit, OrderInit
<1>2. TypeOK /\ PendingInv /\ ClearedOnceInOrder /\ [Next]_vars
        => (TypeOK /\ PendingInv /\ ClearedOnceInOrder)'
  BY TypeStep, PendingStep, OrderStep
<1>3. QED
  BY <1>1, <1>2, PTL DEF Spec
=============================================================================
