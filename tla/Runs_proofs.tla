----------------------------- MODULE Runs_proofs -----------------------------
(***************************************************************************)
(* Proofs about Runs, for any number of runs, events, cores, crashes and   *)
(* connections and any gap: the L1 thread lives only inside a run, the     *)
(* global IDs of a run are not repeated by a restart, the types, what an   *)
(* earlier run may leave to a later one, and how many cores are announced. *)
(***************************************************************************)
EXTENDS Runs, FiniteSetTheorems, SequenceTheorems, TLAPS

Places == {"off", "idle", "get", "push", "pop", "popNew", "stop", "join"}

(* The first conjunct types the program counters. The others say when a    *)
(* thread can be where it is: run control is inside stopDC only in         *)
(* "stopping", and it joins only after it has told the L1 thread to leave. *)
PhaseInv ==
  /\ pc \in [Threads -> Places]
  /\ fsm = "running" => pc[RC] = "idle"
  /\ pc[RC] = "join" => ~m_running
  /\ QuietOutsideRun

(* No global ID of this run is as large as n. *)
Below(n) == \A i \in DOMAIN issued : issued[i] < n

IDTypes ==
  /\ record \in Int /\ m_global_id \in Nat /\ Recent_Global_ID \in Nat
  /\ issued \in Seq(Nat) /\ unpublished \in Nat

(* When a run goes on the application is in it, or has been restarted and  *)
(* is on its way back to it.                                               *)
RunInv ==
  /\ fsm \in {"running", "stopping", "stopped"} => ongoing
  /\ ongoing /\ fsm = "none" => m_restarted

(* The next global ID is above all that were given out in this run, and so *)
(* is the one that a restart would compute from the published record, as   *)
(* long as that record is of an event.                                     *)
IDInv ==
  /\ counting => m_global_id = Recent_Global_ID + 1
  /\ unpublished < Gap
  /\ current /\ counting /\ fsm # "none" => m_global_id = record + 1 + unpublished
  /\ ~stale /\ ongoing /\ fsm # "none" => Below(m_global_id)
  /\ ~stale /\ ongoing /\ current => Below(record + Gap)
  /\ GlobalIDsUnique

Inv == PhaseInv /\ IDTypes /\ RunInv /\ IDInv

-----------------------------------------------------------------------------
(* The actions of the partition, the sessions and the DCM that neither     *)
(* thread takes part in change nothing the invariant speaks of, except     *)
(* that the DCM's disconnection re-assigns events.                         *)
Bystander == \/ RunHandle \/ OnSendError \/ onReceive \/ Expire
             \/ DcmConnect \/ DcmPrepareForRun \/ DcmStep \/ DcmStop \/ DcmJoin
             \/ DcmDisconnect

(* They leave the threads, the run and the IDs as they are.               *)
LEMMA BystandersLeave ==
  ASSUME Bystander
  PROVE  UNCHANGED <<partitionVars, record, fsm, m_restarted, threadVars,
                     idVars, recordVars>>
<1>1. CASE RunHandle \/ OnSendError \/ onReceive \/ Expire
  BY <1>1 DEF RunHandle, OnSendError, onReceive, Expire
<1>2. CASE DcmConnect \/ DcmPrepareForRun \/ DcmStop \/ DcmJoin \/ DcmDisconnect
  BY <1>2 DEF DcmConnect, DcmPrepareForRun, DcmStop, DcmJoin, DcmDisconnect
<1>3. CASE DcmTake \/ DcmAnswer \/ DcmBuilt
  BY <1>3 DEF DcmTake, DcmAnswer, DcmBuilt
<1>4. QED
  BY <1>1, <1>2, <1>3 DEF Bystander, DcmStep

(* The step of the L1 thread or of run control that leaves the IDs alone.  *)
ThreadStep == \/ LeaveThread \/ StopRunning \/ Join
              \/ \E t \in Threads : PushEvents(t) \/ PopCore(t)

(* The steps, by what they do to the invariant.                            *)
LEMMA NextCases ==
  ASSUME [Next]_vars
  PROVE  \/ Transition \/ GetResult \/ ThreadStep \/ Publish \/ Crash
         \/ Bystander \/ UNCHANGED vars
BY DEF Next, StopStep, L1Step, ThreadStep, Bystander, Threads

-----------------------------------------------------------------------------
(* Where the threads are.                                                  *)

(* Idle is what pc is when each thread is where it rests.                  *)
LEMMA IdleIs ==
  /\ Idle \in [Threads -> Places]
  /\ Idle[L1] = "off" /\ Idle[RC] = "idle"
  /\ \A p \in [Threads -> Places] :
       p = Idle <=> p[L1] = "off" /\ p[RC] = "idle"
<1>1. Idle \in [Threads -> Places] /\ Idle[L1] = "off" /\ Idle[RC] = "idle"
  BY DEF Idle, Threads, L1, RC, Places
<1>2. ASSUME NEW p \in [Threads -> Places], p[L1] = "off", p[RC] = "idle"
      PROVE  p = Idle
  <2>1. \A t \in Threads : p[t] = Idle[t]
    BY <1>1, <1>2 DEF Threads
  <2>2. QED
    BY <1>1, <2>1
<1>3. QED
  BY <1>1, <1>2

(* Where the threads start.                                                *)
LEMMA PhaseInit == Init => PhaseInv
<1> SUFFICES ASSUME Init PROVE PhaseInv
  OBVIOUS
<1>1. pc = Idle /\ pc \in [Threads -> Places]
  BY IdleIs DEF Init
<1>2. pc[RC] = "idle"
  BY <1>1 DEF Idle, Threads, L1, RC
<1>3. QED
  BY <1>1, <1>2 DEF Init, PhaseInv, QuietOutsideRun

(* Every step preserves PhaseInv.                                          *)
LEMMA PhaseStep ==
  ASSUME PhaseInv, [Next]_vars
  PROVE  PhaseInv'
<1> USE IdleIs DEF PhaseInv, QuietOutsideRun, threadVars
<1> USE DEF Threads, L1, RC, Places
<1>1. CASE prepareForRun
  BY <1>1 DEF prepareForRun
<1>2. CASE stopDC
  BY <1>2 DEF stopDC
<1>3. CASE configure \/ connect \/ stopRecording \/ disconnect \/ unconfigure
  BY <1>3 DEF configure, connect, stopRecording, disconnect, unconfigure
<1>4. CASE GetResult
  BY <1>4 DEF GetResult
<1>5. CASE LeaveThread
  BY <1>5 DEF LeaveThread
<1>6. CASE StopRunning
  BY <1>6 DEF StopRunning
<1>7. CASE Join
  BY <1>7 DEF Join
<1>8. ASSUME NEW t \in Threads, PushEvents(t) PROVE PhaseInv'
  BY <1>8 DEF PushEvents
<1>9. ASSUME NEW t \in Threads, PopCore(t) PROVE PhaseInv'
  BY <1>9 DEF PopCore
<1>10. CASE Publish
  BY <1>10 DEF Publish
<1>11. CASE Crash
  BY <1>11 DEF Crash
<1>12. CASE Bystander
  BY <1>12, BystandersLeave
<1>13. CASE UNCHANGED vars
  BY <1>13 DEF vars
<1>14. QED
  BY <1>1, <1>2, <1>3, <1>4, <1>5, <1>6, <1>7, <1>8, <1>9, <1>10, <1>11,
     <1>12, <1>13, NextCases DEF Transition, ThreadStep

(* The scheduler is only reset, and the source only prepared, when no      *)
(* thread uses them: for any number of runs and of crashes, wherever the   *)
(* threads were.                                                           *)
THEOREM ThreadsInsideRun == Spec => []QuietOutsideRun
<1>1. PhaseInv => QuietOutsideRun
  BY DEF PhaseInv
<1>2. QED
  BY <1>1, PhaseInit, PhaseStep, PTL DEF Spec

-----------------------------------------------------------------------------
(* The global IDs.                                                         *)

(* The IDs at the start. *)
LEMMA IDInit == Init => IDTypes /\ RunInv /\ IDInv
<1> SUFFICES ASSUME Init PROVE IDTypes /\ RunInv /\ IDInv
  OBVIOUS
<1>1. issued = <<>> /\ DOMAIN issued = {} /\ issued \in Seq(Nat)
  BY DEF Init
<1>2. IDTypes
  BY <1>1 DEF Init, IDTypes
<1>3. GlobalIDsUnique
  BY <1>1 DEF GlobalIDsUnique, IsInjective
<1>4. RunInv /\ IDInv
  BY <1>3, RunsAssumption DEF Init, RunInv, IDInv
<1>5. QED
  BY <1>2, <1>4

(* Every step preserves IDTypes.                                           *)
LEMMA IDTypesStep ==
  ASSUME PhaseInv, IDTypes, [Next]_vars
  PROVE  IDTypes'
<1> USE RunsAssumption DEF IDTypes, recordVars, idVars, partitionVars
<1>1. CASE configure
  BY <1>1 DEF configure, reset, InitialID
<1>2. CASE prepareForRun
  <2>1. UNCHANGED <<record, m_global_id, Recent_Global_ID, unpublished>>
    BY <1>2 DEF prepareForRun
  <2>2. issued' = issued \/ issued' = <<>>
    BY <1>2, Zenon DEF prepareForRun
  <2>3. issued' \in Seq(Nat)
    <3>1. CASE issued' = <<>>
      BY <3>1
    <3>2. CASE issued' = issued
      BY <3>2
    <3>3. QED
      BY <2>2, <3>1, <3>2
  <2>4. QED
    BY <2>1, <2>3
<1>3. CASE connect \/ stopDC \/ disconnect \/ unconfigure
  BY <1>3 DEF connect, stopDC, disconnect, unconfigure
<1>4. CASE stopRecording
  BY <1>4 DEF stopRecording, reset
<1>5. CASE GetResult
  BY <1>5 DEF GetResult
<1>6. CASE ThreadStep
  BY <1>6 DEF ThreadStep, LeaveThread, StopRunning, Join, PushEvents, PopCore
<1>7. CASE Publish
  BY <1>7 DEF Publish
<1>8. CASE Crash
  BY <1>8 DEF Crash
<1>9. CASE Bystander
  BY <1>9, BystandersLeave
<1>10. CASE UNCHANGED vars
  BY <1>10 DEF vars
<1>11. QED
  BY <1>1, <1>2, <1>3, <1>4, <1>5, <1>6, <1>7, <1>8, <1>9, <1>10, NextCases
     DEF Transition

(* Every step preserves RunInv: a run only ends with the application out   *)
(* of it, and only a crash takes the application out of a run.             *)
LEMMA RunStep ==
  ASSUME PhaseInv, IDTypes, RunInv, [Next]_vars
  PROVE  RunInv'
<1> USE DEF RunInv, IDTypes, recordVars, idVars, partitionVars
<1>1. CASE prepareForRun
  BY <1>1 DEF prepareForRun
<1>2. CASE configure \/ connect \/ disconnect \/ unconfigure \/ stopRecording
  BY <1>2 DEF configure, connect, disconnect, unconfigure, stopRecording
<1>3. CASE stopDC
  BY <1>3 DEF stopDC
<1>4. CASE GetResult
  BY <1>4 DEF GetResult
<1>5. CASE Join
  BY <1>5 DEF Join, PhaseInv, QuietOutsideRun, Idle, Threads, L1, RC
<1>6. CASE LeaveThread \/ StopRunning \/ \E t \in Threads : PushEvents(t) \/ PopCore(t)
  BY <1>6 DEF LeaveThread, StopRunning, PushEvents, PopCore
<1>7. CASE Publish
  BY <1>7 DEF Publish
<1>8. CASE Crash
  BY <1>8 DEF Crash
<1>9. CASE Bystander
  BY <1>9, BystandersLeave
<1>10. CASE UNCHANGED vars
  BY <1>10 DEF vars
<1>11. QED
  BY <1>1, <1>2, <1>3, <1>4, <1>5, <1>6, <1>7, <1>8, <1>9, <1>10, NextCases
     DEF Transition, ThreadStep

(* Every step preserves IDInv.                                             *)
LEMMA IDStep ==
  ASSUME Inv, [Next]_vars
  PROVE  IDInv'
<1> USE RunsAssumption
    DEF Inv, IDTypes, RunInv, IDInv, Below, GlobalIDsUnique, IsInjective,
        recordVars, idVars, partitionVars
<1>1. CASE configure
  <2>1. /\ m_global_id' = InitialID
        /\ UNCHANGED <<record, m_restarted, ongoing, issued, unpublished, current>>
    BY <1>1 DEF configure, reset
  <2>2. ~counting' /\ fsm = "none" /\ fsm' = "configured"
    BY <1>1 DEF configure
  <2>3. ~stale' => ~stale /\ (m_restarted => issued = <<>> \/ current)
    BY <1>1, Zenon DEF configure
  <2>4. ASSUME ~stale', ongoing PROVE Below(m_global_id')
    <3>1. InitialID = record + Gap
      BY <2>2, <2>4 DEF InitialID
    <3>2. CASE issued = <<>>
      BY <3>2
    <3>3. CASE current
      BY <2>1, <2>3, <2>4, <3>1, <3>3
    <3>4. QED
      BY <2>2, <2>3, <2>4, <3>2, <3>3
  <2>5. QED
    BY <2>1, <2>2, <2>3, <2>4
<1>2. CASE prepareForRun
  BY <1>2 DEF prepareForRun
<1>3. CASE connect \/ stopDC \/ disconnect \/ unconfigure
  <2>1. UNCHANGED <<record, m_global_id, Recent_Global_ID, issued, counting,
                    unpublished, current, stale, ongoing>>
    BY <1>3 DEF connect, stopDC, disconnect, unconfigure
  <2>2. fsm' # "none" => fsm # "none"
    BY <1>3 DEF connect, stopDC, disconnect, unconfigure
  <2>3. QED
    BY <2>1, <2>2
<1>4. CASE stopRecording
  BY <1>4 DEF stopRecording, reset
<1>5. CASE GetResult
  <2>1. fsm \in {"running", "stopping"} /\ ongoing
    BY <1>5 DEF GetResult, PhaseInv, QuietOutsideRun
  <2>2. /\ DOMAIN issued' = 1..(Len(issued) + 1) /\ DOMAIN issued = 1..Len(issued)
        /\ \A i \in DOMAIN issued : issued'[i] = issued[i]
        /\ issued'[Len(issued) + 1] = m_global_id
        /\ Len(issued) \in Nat
    BY <1>5 DEF GetResult
  <2>3. /\ m_global_id' = m_global_id + 1 /\ Recent_Global_ID' = m_global_id
        /\ unpublished' = unpublished + 1 /\ unpublished + 1 < Gap
        /\ UNCHANGED <<record, fsm, ongoing, stale>>
    BY <1>5 DEF GetResult
  <2>4. counting' /\ (current' => current /\ counting)
    BY <1>5, Zenon DEF GetResult
  <2>5. ~stale => Below(m_global_id)
    BY <2>1
  <2>6. ASSUME ~stale, NEW i \in DOMAIN issued'
        PROVE  issued'[i] \in Nat /\ issued'[i] < m_global_id'
    <3>1. CASE i \in DOMAIN issued
      <4>1. issued[i] \in Nat /\ issued[i] < m_global_id
        BY <2>5, <2>6, <3>1
      <4>2. QED
        BY <2>2, <2>3, <3>1, <4>1
    <3>2. CASE i = Len(issued) + 1
      BY <2>2, <2>3, <3>2
    <3>3. QED
      BY <2>2, <3>1, <3>2
  <2>7. GlobalIDsUnique'
    <3>1. SUFFICES ASSUME ~stale,
                          NEW a \in DOMAIN issued', NEW b \in DOMAIN issued',
                          issued'[a] = issued'[b]
                   PROVE  a = b
      BY <2>3
    <3>2. IsInjective(issued) /\ Below(m_global_id)
      BY <2>5, <3>1
    <3>3. CASE a \in DOMAIN issued /\ b \in DOMAIN issued
      BY <2>2, <3>1, <3>2, <3>3
    <3>4. CASE a = Len(issued) + 1 /\ b \in DOMAIN issued
      BY <2>2, <3>1, <3>2, <3>4
    <3>5. CASE b = Len(issued) + 1 /\ a \in DOMAIN issued
      BY <2>2, <3>1, <3>2, <3>5
    <3>6. QED
      BY <2>2, <3>3, <3>4, <3>5
  <2>8. current' => m_global_id' = record' + 1 + unpublished'
    <3>1. current /\ counting => m_global_id = record + 1 + unpublished
      BY <2>1
    <3>2. record \in Int /\ unpublished \in Nat
      OBVIOUS
    <3>3. (record + 1 + unpublished) + 1 = record + 1 + (unpublished + 1)
      BY <3>2
    <3>4. QED
      BY <2>3, <2>4, <3>1, <3>3
  <2>9. ~stale /\ current' => Below(record + Gap)'
    BY <2>3, <2>6, <2>8
  <2>10. QED
    BY <2>1, <2>3, <2>4, <2>6, <2>7, <2>8, <2>9
<1>6. CASE ThreadStep
  <2>1. /\ UNCHANGED <<partitionVars, record, idVars, recordVars>>
        /\ fsm' = "none" => fsm = "none"
        /\ fsm = "none" => fsm' = "none"
    BY <1>6 DEF ThreadStep, LeaveThread, StopRunning, Join, PushEvents, PopCore,
                PhaseInv, QuietOutsideRun, Idle, Threads, L1, RC
  <2>2. QED
    BY <2>1
<1>7. CASE Publish
  BY <1>7 DEF Publish
<1>8. CASE Crash
  BY <1>8 DEF Crash
<1>9. CASE Bystander
  BY <1>9, BystandersLeave
<1>10. CASE UNCHANGED vars
  BY <1>10 DEF vars
<1>11. QED
  BY <1>1, <1>2, <1>3, <1>4, <1>5, <1>6, <1>7, <1>8, <1>9, <1>10, NextCases
     DEF Transition

(* The global IDs of a run never repeat, however often the supervisor dies *)
(* and wherever, as long as every restart finds the ID of an event of the  *)
(* life before; for any gap that is larger than what can be unpublished.   *)
THEOREM GlobalIDsNeverRepeat == Spec => []GlobalIDsUnique
<1>1. Init => Inv
  BY PhaseInit, IDInit DEF Inv
<1>2. Inv /\ [Next]_vars => Inv'
  BY PhaseStep, IDTypesStep, RunStep, IDStep DEF Inv
<1>3. Inv => GlobalIDsUnique
  BY DEF Inv, IDInv
<1>4. QED
  BY <1>1, <1>2, <1>3, PTL DEF Spec

-----------------------------------------------------------------------------
(* Queues: what erasing, taking, appending and joining leave in them.      *)

(* Erasing position k, as onReceive does with m_events.                    *)
LEMMA RemoveAtFacts ==
  ASSUME NEW S, NEW q \in Seq(S), NEW k \in DOMAIN q
  PROVE  /\ RemoveAt(q, k) \in Seq(S)
         /\ Len(RemoveAt(q, k)) = Len(q) - 1
         /\ ToSet(RemoveAt(q, k)) \subseteq ToSet(q)
<1> DEFINE a == SubSeq(q, 1, k - 1)
           b == SubSeq(q, k + 1, Len(q))
<1>0. k \in 1..Len(q) /\ Len(q) \in Nat /\ DOMAIN q = 1..Len(q)
  OBVIOUS
<1>1. /\ a \in Seq(S) /\ Len(a) = k - 1
      /\ \A j \in 1..(k - 1) : a[j] = q[j]
  BY <1>0, SubSeqProperties
<1>2. /\ b \in Seq(S) /\ Len(b) = Len(q) - k
      /\ \A j \in 1..(Len(q) - k) : b[j] = q[k + j]
  <2>1. CASE k < Len(q)
    BY <1>0, <2>1, SubSeqProperties, SMTT(60)
  <2>2. CASE k = Len(q)
    BY <1>0, <2>2, SubSeqEmpty
  <2>3. QED
    BY <1>0, <2>1, <2>2
<1>3. RemoveAt(q, k) = a \o b
  BY DEF RemoveAt
<1> HIDE DEF a, b
<1>4. /\ a \o b \in Seq(S) /\ Len(a \o b) = Len(q) - 1
  <2>1. a \o b \in Seq(S) /\ Len(a \o b) = Len(a) + Len(b)
    BY <1>1, <1>2, ConcatProperties
  <2>2. QED
    BY <1>0, <1>1, <1>2, <2>1
<1>5. ToSet(a \o b) \subseteq ToSet(a) \cup ToSet(b)
  <2>1. \A i \in 1..(Len(a) + Len(b)) :
          (a \o b)[i] = IF i <= Len(a) THEN a[i] ELSE b[i - Len(a)]
    BY <1>1, <1>2, ConcatProperties
  <2>2. QED
    BY <1>0, <1>1, <1>2, <1>4, <2>1 DEF ToSet
<1>6. ToSet(a) \subseteq ToSet(q)
  BY <1>0, <1>1 DEF ToSet
<1>7. ToSet(b) \subseteq ToSet(q)
  <2>1. \A j \in 1..(Len(q) - k) : k + j \in 1..Len(q)
    BY <1>0
  <2>2. DOMAIN b = 1..(Len(q) - k)
    BY <1>2
  <2>3. QED
    BY <1>0, <1>2, <2>1, <2>2 DEF ToSet
<1>8. QED
  BY <1>3, <1>4, <1>5, <1>6, <1>7

(* Taking the head.                                                        *)
LEMMA TailFacts ==
  ASSUME NEW S, NEW q \in Seq(S), q # <<>>
  PROVE  /\ Tail(q) \in Seq(S) /\ Head(q) \in S /\ Head(q) \in ToSet(q)
         /\ Len(Tail(q)) = Len(q) - 1
         /\ \A i \in 1..(Len(q) - 1) : Tail(q)[i] = q[i + 1]
         /\ ToSet(Tail(q)) \subseteq ToSet(q)
<1>1. /\ Len(q) \in Nat \ {0} /\ DOMAIN q = 1..Len(q) /\ Head(q) = q[1]
      /\ Tail(q) \in Seq(S) /\ Len(Tail(q)) = Len(q) - 1
      /\ \A i \in 1..(Len(q) - 1) : Tail(q)[i] = q[i + 1]
  OBVIOUS
<1>2. DOMAIN Tail(q) = 1..(Len(q) - 1)
  BY <1>1
<1>3. q[1] \in S /\ q[1] \in ToSet(q)
  BY <1>1 DEF ToSet
<1>4. \A i \in 1..(Len(q) - 1) : i + 1 \in 1..Len(q)
  BY <1>1
<1>5. ToSet(Tail(q)) \subseteq ToSet(q)
  BY <1>1, <1>2, <1>4 DEF ToSet
<1>6. QED
  BY <1>1, <1>3, <1>5

(* Appending and joining.                                                  *)
LEMMA AppendFacts ==
  ASSUME NEW S, NEW q \in Seq(S), NEW x \in S
  PROVE  /\ Append(q, x) \in Seq(S) /\ Len(Append(q, x)) = Len(q) + 1
         /\ ToSet(Append(q, x)) = ToSet(q) \cup {x}
<1>1. /\ Len(q) \in Nat /\ DOMAIN q = 1..Len(q) /\ Append(q, x) \in Seq(S)
      /\ Len(Append(q, x)) = Len(q) + 1 /\ DOMAIN Append(q, x) = 1..(Len(q) + 1)
      /\ \A i \in 1..Len(q) : Append(q, x)[i] = q[i]
      /\ Append(q, x)[Len(q) + 1] = x
  OBVIOUS
<1>2. 1..(Len(q) + 1) = 1..Len(q) \cup {Len(q) + 1}
  BY <1>1
<1>3. QED
  BY <1>1, <1>2 DEF ToSet

(* What is on two lists put together.                                      *)
LEMMA ConcatFacts ==
  ASSUME NEW S, NEW q \in Seq(S), NEW r \in Seq(S)
  PROVE  q \o r \in Seq(S) /\ ToSet(q \o r) = ToSet(q) \cup ToSet(r)
<1>1. /\ Len(q) \in Nat /\ Len(r) \in Nat /\ DOMAIN q = 1..Len(q) /\ DOMAIN r = 1..Len(r)
      /\ q \o r \in Seq(S) /\ DOMAIN (q \o r) = 1..(Len(q) + Len(r))
      /\ \A i \in 1..(Len(q) + Len(r)) :
           (q \o r)[i] = IF i <= Len(q) THEN q[i] ELSE r[i - Len(q)]
  OBVIOUS
<1>2. \A i \in 1..Len(r) : i + Len(q) \in 1..(Len(q) + Len(r)) /\ (q \o r)[i + Len(q)] = r[i]
  BY <1>1
<1>3. \A i \in 1..Len(q) : i \in 1..(Len(q) + Len(r)) /\ (q \o r)[i] = q[i]
  BY <1>1
<1>4. ToSet(q) \subseteq ToSet(q \o r)
  BY <1>1, <1>3, Zenon DEF ToSet
<1>7. ToSet(r) \subseteq ToSet(q \o r)
  BY <1>1, <1>2, Zenon DEF ToSet
<1>5. ToSet(q \o r) \subseteq ToSet(q) \cup ToSet(r)
  BY <1>1 DEF ToSet
<1>6. QED
  BY <1>1, <1>4, <1>5, <1>7

(* The empty queue.                                                        *)
LEMMA EmptyFacts == \A S : <<>> \in Seq(S) /\ ToSet(<<>>) = {} /\ Len(<<>>) = 0
BY DEF ToSet

(* The same element n times.                                               *)
Repeat(x, n) == [i \in 1..n |-> x]

(* A list of n times the same.                                             *)
LEMMA RepeatFacts ==
  ASSUME NEW S, NEW x \in S, NEW n \in Nat
  PROVE  /\ Repeat(x, n) \in Seq(S) /\ Len(Repeat(x, n)) = n
         /\ ToSet(Repeat(x, n)) \subseteq {x}
BY DEF ToSet, Repeat

(* What a queue holds is of the type of the queue.                         *)
LEMMA ElementFacts == \A S : \A q \in Seq(S) : ToSet(q) \subseteq S
BY DEF ToSet

(* The bounds, one by one.                                                 *)
LEMMA Bounds ==
  /\ MaxRuns \in Nat /\ MaxEvents \in Nat /\ MaxExpiries \in Nat
  /\ MaxSessions \in Nat /\ MaxCrashes \in Nat
BY RunsAssumption

-----------------------------------------------------------------------------
(* Types, in four groups.                                                  *)

NumberTypes ==
  /\ run \in 0..MaxRuns /\ ongoing \in BOOLEAN /\ record \in Int
  /\ fsm \in {"none", "configured", "connected", "running", "stopping",
              "stopped"}
  /\ m_restarted \in BOOLEAN /\ m_running \in BOOLEAN
  /\ taken \in 0..MaxEvents
  /\ m_global_id \in Nat /\ Recent_Global_ID \in Nat
  /\ expiries \in 0..MaxExpiries
  /\ crashes \in 0..MaxCrashes

(* The L1 thread is inside schedule_event only with an event of this run.  *)
ThreadTypes ==
  /\ pc[L1] \in {"off", "get", "push", "pop", "popNew"}
  /\ pc[RC] \in {"idle", "push", "pop", "stop", "join"}
  /\ hand \in [Threads -> Events \cup {NoEvent}]
  /\ \A t \in Threads : hand[t] # NoEvent <=> pc[t] \in {"pop", "popNew"}
  /\ pc[L1] \in {"push", "pop", "popNew"} => taken # 0
  /\ ongoing => run # 0

(* A free core is of a session that was opened, a DCM that is not          *)
(* connected has nothing, and one that is not in a run has no thread.      *)
QueueTypes ==
  /\ m_free_cores \in Seq(1..MaxSessions)
  /\ m_reassigned_events \in Seq(Events)
  /\ session \in 0..MaxSessions /\ sessions \in 0..MaxSessions
  /\ m_events \in Seq(Events) /\ posted \in Seq(Events) /\ stray \in Seq(Events)
  /\ dcm \in {"down", "connected", "running", "stopping", "stopped"}
  /\ (session = 0) <=> (dcm = "down")
  /\ m_assigned_l1ids \in Seq(Events) /\ updates \in Seq(Update)
  /\ session = 0 => posted = <<>> /\ m_assigned_l1ids = <<>> /\ updates = <<>>
  /\ session <= sessions
  /\ \A s \in ToSet(m_free_cores) : s <= sessions

(* The threads of the DCM are not more than its cores.                     *)
WorkerTypes ==
  /\ waiting \in Nat /\ building \in Nat /\ working \in Seq(Events)
  /\ waiting + Len(working) + building <= Cores
  /\ dcm \notin {"running", "stopping"} =>
       waiting = 0 /\ working = <<>> /\ building = 0

TypeInv == /\ PhaseInv /\ IDTypes /\ RunInv
           /\ NumberTypes /\ ThreadTypes /\ QueueTypes /\ WorkerTypes

(* This is TypeOK.                                                         *)
LEMMA TypeOKIs == TypeInv => TypeOK
<1> SUFFICES ASSUME TypeInv PROVE TypeOK
  OBVIOUS
<1>1. waiting \in 0..Cores /\ building \in 0..Cores
  <2>1. Len(working) \in Nat /\ Cores \in Nat
    BY RunsAssumption DEF TypeInv, WorkerTypes
  <2>2. QED
    BY <2>1 DEF TypeInv, WorkerTypes
<1>2. QED
  BY <1>1 DEF TypeInv, NumberTypes, ThreadTypes, QueueTypes, WorkerTypes, TypeOK

(* The types at the start.                                                 *)
LEMMA TypeInit == Init => TypeInv
<1> SUFFICES ASSUME Init PROVE TypeInv
  OBVIOUS
<1>1. NumberTypes
  <2>1. record \in Int /\ m_global_id \in Nat /\ Recent_Global_ID \in Nat
    BY IDInit DEF IDTypes
  <2>2. run = 0 /\ taken = 0 /\ expiries = 0 /\ crashes = 0
    BY DEF Init
  <2>3. /\ ongoing \in BOOLEAN /\ m_restarted \in BOOLEAN /\ m_running \in BOOLEAN
        /\ fsm = "none"
    BY DEF Init
  <2>4. QED
    BY <2>1, <2>2, <2>3, Bounds DEF NumberTypes
<1>2. ThreadTypes
  BY IdleIs DEF Init, ThreadTypes, Idle, Threads, L1, RC
<1>3. QueueTypes
  BY Bounds, EmptyFacts DEF Init, QueueTypes
<1>4. WorkerTypes
  BY RunsAssumption, EmptyFacts DEF Init, WorkerTypes
<1>5. QED
  BY <1>1, <1>2, <1>3, <1>4, PhaseInit, IDInit DEF TypeInv

(* Every step preserves NumberTypes.                                       *)
LEMMA NumberStep ==
  ASSUME TypeInv, [Next]_vars
  PROVE  NumberTypes'
<1> USE Bounds
    DEF TypeInv, NumberTypes, partitionVars, threadVars, idVars, boundVars
<1>1. IDTypes'
  BY IDTypesStep
<1>2. CASE configure \/ connect \/ stopDC \/ disconnect \/ unconfigure
  BY <1>1, <1>2 DEF IDTypes, configure, connect, stopDC, disconnect, unconfigure
<1>3. CASE prepareForRun
  <2>1. run' \in 0..MaxRuns /\ taken' \in 0..MaxEvents
    <3>1. CASE run' = run /\ taken' = taken
      BY <3>1
    <3>2. CASE run < MaxRuns /\ run' = run + 1 /\ taken' = 0
      BY <3>2
    <3>3. QED
      BY <1>3, <3>1, <3>2 DEF prepareForRun
  <2>2. UNCHANGED <<m_restarted, expiries, crashes>> /\ ongoing' = TRUE
        /\ fsm' = "running" /\ m_running' = TRUE
    BY <1>3 DEF prepareForRun
  <2>3. QED
    BY <1>1, <2>1, <2>2 DEF IDTypes
<1>10. CASE stopRecording
  BY <1>1, <1>10 DEF IDTypes, stopRecording
<1>4. CASE GetResult
  BY <1>1, <1>4 DEF IDTypes, GetResult
<1>5. CASE ThreadStep
  BY <1>1, <1>5 DEF IDTypes, ThreadStep, LeaveThread, StopRunning, Join, PushEvents, PopCore
<1>6. CASE Publish
  BY <1>1, <1>6 DEF IDTypes, Publish
<1>11. CASE Crash
  <2>1. /\ crashes < MaxCrashes /\ crashes' = crashes + 1
        /\ UNCHANGED <<run, ongoing, taken, expiries>>
        /\ fsm' = "none" /\ m_restarted' \in BOOLEAN /\ m_running' \in BOOLEAN
    BY <1>11 DEF Crash
  <2>2. QED
    BY <1>1, <2>1 DEF IDTypes
<1>7. CASE Bystander
  <2>1. UNCHANGED <<expiries, crashes>> \/ Expire
    BY <1>7 DEF Bystander, RunHandle, OnSendError, onReceive, DcmConnect,
                DcmPrepareForRun, DcmStep, DcmTake, DcmAnswer, DcmBuilt, DcmStop,
                DcmJoin, DcmDisconnect
  <2>2. expiries' \in 0..MaxExpiries /\ crashes' \in 0..MaxCrashes
    BY <2>1 DEF Expire
  <2>3. QED
    BY <1>7, <2>2, BystandersLeave
<1>8. CASE UNCHANGED vars
  BY <1>8 DEF vars
<1>9. QED
  BY <1>2, <1>3, <1>4, <1>5, <1>6, <1>7, <1>8, <1>10, <1>11, NextCases DEF Transition

(* Every step preserves ThreadTypes.                                       *)
LEMMA ThreadTypesStep ==
  ASSUME TypeInv, [Next]_vars
  PROVE  ThreadTypes'
<1> USE DEF TypeInv, ThreadTypes, partitionVars, threadVars, Threads, L1, RC
<1>0. pc \in [Threads -> Places]
  BY DEF PhaseInv
<1>1. CASE configure \/ connect \/ disconnect \/ unconfigure
  BY <1>1 DEF configure, connect, disconnect, unconfigure
<1>2. CASE prepareForRun
  <2>1. pc = Idle /\ pc' = [pc EXCEPT !["l1"] = "get"] /\ hand' = hand
    BY <1>2 DEF prepareForRun, PhaseInv, QuietOutsideRun
  <2>2. run' # 0
    BY <1>2, RunsAssumption DEF prepareForRun, NumberTypes
  <2>3. QED
    BY <1>0, <2>1, <2>2, IdleIs
<1>3. CASE stopDC
  <2>1. pc["rc"] = "idle" /\ pc' = [pc EXCEPT !["rc"] = "push"]
        /\ UNCHANGED <<hand, taken, run, ongoing>>
    BY <1>3 DEF stopDC, PhaseInv
  <2>2. QED
    BY <1>0, <2>1
<1>4. CASE stopRecording
  BY <1>4 DEF stopRecording
<1>5. CASE GetResult
  BY <1>0, <1>5 DEF GetResult, NumberTypes
<1>6. CASE LeaveThread \/ StopRunning \/ Join
  BY <1>0, <1>6 DEF LeaveThread, StopRunning, Join
<1>7. ASSUME NEW t \in Threads, PushEvents(t) PROVE ThreadTypes'
  <2>1. UNCHANGED <<run, ongoing, taken>>
    BY <1>7 DEF PushEvents
  <2>2. CASE m_reassigned_events # <<>>
    <3>1. Head(m_reassigned_events) \in Events
      BY <2>2, TailFacts DEF QueueTypes
    <3>2. NoEvent \notin Events
      BY DEF NoEvent, Events
    <3>3. /\ hand' = [hand EXCEPT ![t] = Head(m_reassigned_events)]
          /\ pc' = [pc EXCEPT ![t] = "pop"] /\ pc[t] = "push"
      BY <1>7, <2>2 DEF PushEvents
    <3>4. QED
      BY <1>0, <2>1, <3>1, <3>2, <3>3
  <2>3. CASE m_reassigned_events = <<>> /\ t = "l1"
    <3>1. /\ hand' = [hand EXCEPT !["l1"] = [run |-> run, id |-> taken]]
          /\ pc' = [pc EXCEPT !["l1"] = "popNew"] /\ pc["l1"] = "push"
      BY <1>7, <2>3 DEF PushEvents
    <3>2. fsm \in {"running", "stopping"} /\ ongoing
      BY <1>7, <2>3 DEF PushEvents, PhaseInv, QuietOutsideRun, RunInv, NumberTypes, Idle
    <3>3. run \in 1..MaxRuns /\ taken \in 1..MaxEvents
      BY <3>1, <3>2, RunsAssumption DEF NumberTypes
    <3>4. [run |-> run, id |-> taken] \in Events /\ [run |-> run, id |-> taken] # NoEvent
      BY <3>3 DEF Events, NoEvent
    <3>5. QED
      BY <1>0, <2>1, <3>1, <3>3, <3>4
  <2>4. CASE m_reassigned_events = <<>> /\ t = "rc"
    <3>1. /\ hand' = [hand EXCEPT !["rc"] = NoEvent]
          /\ pc' = [pc EXCEPT !["rc"] = "stop"] /\ pc["rc"] = "push"
      BY <1>7, <2>4 DEF PushEvents
    <3>2. QED
      BY <1>0, <2>1, <3>1
  <2>5. QED
    BY <2>2, <2>3, <2>4
<1>8. ASSUME NEW t \in Threads, PopCore(t) PROVE ThreadTypes'
  BY <1>0, <1>8 DEF PopCore
<1>9. CASE Publish
  BY <1>9 DEF Publish
<1>10. CASE Crash
  BY <1>10, IdleIs DEF Crash
<1>11. CASE Bystander
  BY <1>11, BystandersLeave
<1>12. CASE UNCHANGED vars
  BY <1>12 DEF vars
<1>13. QED
  BY <1>1, <1>2, <1>3, <1>4, <1>5, <1>6, <1>7, <1>8, <1>9, <1>10, <1>11, <1>12,
     NextCases DEF Transition, ThreadStep

(* The cores that onReceive adds.                                          *)
LEMMA CoresAdded ==
  ASSUME TypeInv, updates # <<>>, RequestEvents(Head(updates))
  PROVE  /\ Head(updates) \in Update /\ session \in 1..MaxSessions
         /\ \E r \in Seq(1..MaxSessions) :
              /\ m_free_cores' = m_free_cores \o r
              /\ Len(r) = Head(updates).request /\ ToSet(r) \subseteq {session}
         /\ m_free_cores' \in Seq(1..MaxSessions)
         /\ \A s \in ToSet(m_free_cores') : s <= sessions
<1> USE DEF TypeInv, QueueTypes
<1>1. Head(updates) \in Update /\ session \in 1..MaxSessions
  BY TailFacts
<1>2. Head(updates).request \in Nat
  BY <1>1, RunsAssumption DEF Update
<1> DEFINE r == Repeat(session, Head(updates).request)
           n == Len(m_free_cores)
<1>3. /\ r \in Seq(1..MaxSessions) /\ Len(r) = Head(updates).request
      /\ ToSet(r) \subseteq {session}
  BY <1>1, <1>2, RepeatFacts
<1>4. m_free_cores' = m_free_cores \o r
  BY DEF RequestEvents, Repeat
<1> HIDE DEF r
<1>6. /\ m_free_cores' \in Seq(1..MaxSessions)
      /\ ToSet(m_free_cores') = ToSet(m_free_cores) \cup ToSet(r)
  BY <1>3, <1>4, ConcatFacts
<1>7. \A s \in ToSet(m_free_cores') : s <= sessions
  BY <1>3, <1>6
<1>8. QED
  BY <1>1, <1>3, <1>4, <1>6, <1>7

(* What the DCM's threads do when they answer.                             *)
LEMMA AnswerIs ==
  ASSUME TypeInv, DcmAnswer
  PROVE  \E i \in DOMAIN working :
           /\ working' = RemoveAt(working, i)
           /\ \/ /\ waiting' \in {waiting, waiting + 1} /\ building' = building
                 /\ updates' = Append(updates, [event |-> working[i], request |-> 1])
              \/ /\ waiting' = waiting /\ building' = building + 1
                 /\ updates' = Append(updates, [event |-> working[i], request |-> 0])
           /\ working[i] \in Events /\ working[i] \in ToSet(working)
           /\ [event |-> working[i], request |-> 1] \in Update
           /\ [event |-> working[i], request |-> 0] \in Update
<1>1. PICK i \in DOMAIN working :
        /\ working' = RemoveAt(working, i)
        /\ \/ /\ updates' = Append(updates, [event |-> working[i], request |-> 1])
              /\ Continue
              /\ UNCHANGED building
           \/ /\ updates' = Append(updates, [event |-> working[i], request |-> 0])
              /\ building' = building + 1
              /\ UNCHANGED waiting
  BY DEF DcmAnswer
<1>2. working[i] \in ToSet(working) /\ working[i] \in Events
  BY ElementFacts DEF TypeInv, WorkerTypes, ToSet
<1>3. /\ [event |-> working[i], request |-> 1] \in Update
      /\ [event |-> working[i], request |-> 0] \in Update
  BY <1>2, RunsAssumption DEF Update
<1>4. QED
  BY <1>1, <1>2, <1>3 DEF Continue

(* A core that is free once more.                                          *)
LEMMA BuiltIs ==
  ASSUME DcmBuilt
  PROVE  /\ updates' = Append(updates, [event |-> NoEvent, request |-> 1])
         /\ [event |-> NoEvent, request |-> 1] \in Update
BY RunsAssumption DEF DcmBuilt, Update

(* The DCM has threads only in a run, or while it stops.                   *)
LEMMA BusyIs ==
  ASSUME TypeInv, DcmTake \/ DcmAnswer \/ DcmBuilt
  PROVE  dcm \in {"running", "stopping"}
<1>1. CASE DcmTake
  BY <1>1 DEF DcmTake, TypeInv, QueueTypes, WorkerTypes
<1>2. CASE DcmAnswer
  <2>1. PICK i \in DOMAIN working : TRUE
    BY <1>2 DEF DcmAnswer
  <2>2. working # <<>>
    BY <2>1
  <2>3. QED
    BY <2>2 DEF TypeInv, QueueTypes, WorkerTypes
<1>3. CASE DcmBuilt
  BY <1>3 DEF DcmBuilt, TypeInv, QueueTypes, WorkerTypes
<1>4. QED
  BY <1>1, <1>2, <1>3

(* Every step preserves QueueTypes.                                        *)
LEMMA QueueStep ==
  ASSUME TypeInv, [Next]_vars
  PROVE  QueueTypes'
<1> USE DEF TypeInv, QueueTypes, queueVars, sessionVars, dcmVars
<1>1. CASE configure \/ stopRecording
  <2>1. /\ m_free_cores' = <<>> /\ m_reassigned_events' = <<>>
        /\ UNCHANGED <<session, sessions, m_events, posted, stray,
                       m_assigned_l1ids, updates>>
        /\ dcm' = dcm \/ (dcm = "stopped" /\ dcm' = "connected")
    BY <1>1 DEF configure, stopRecording, reset
  <2>2. QED
    BY <2>1, EmptyFacts
<1>2. CASE connect \/ prepareForRun \/ stopDC \/ disconnect
  BY <1>2 DEF connect, prepareForRun, stopDC, disconnect
<1>3. CASE unconfigure \/ Crash
  <2>1. /\ m_free_cores' = <<>> /\ m_reassigned_events' = <<>> /\ m_events' = <<>>
        /\ posted' = <<>> /\ stray' = <<>> /\ m_assigned_l1ids' = <<>>
        /\ session' = 0 /\ dcm' = "down" /\ updates' = <<>>
        /\ sessions' = sessions
    BY <1>3 DEF unconfigure, Crash, NoConnection, DcmGone
  <2>2. QED
    BY <2>1, Bounds, EmptyFacts
<1>4. CASE GetResult \/ LeaveThread \/ StopRunning \/ Join \/ Publish
  BY <1>4 DEF GetResult, LeaveThread, StopRunning, Join, Publish
<1>5. ASSUME NEW t \in Threads, PushEvents(t) PROVE QueueTypes'
  <2>1. m_reassigned_events' \in Seq(Events)
    <3>1. CASE m_reassigned_events # <<>>
      <4>1. Tail(m_reassigned_events) \in Seq(Events)
        BY <3>1, TailFacts
      <4>2. m_reassigned_events' = Tail(m_reassigned_events)
        BY <1>5, <3>1 DEF PushEvents
      <4>3. QED
        BY <4>1, <4>2
    <3>2. CASE m_reassigned_events = <<>>
      BY <1>5, <3>2 DEF PushEvents
    <3>3. QED
      BY <3>1, <3>2
  <2>2. QED
    BY <1>5, <2>1 DEF PushEvents
<1>6. ASSUME NEW t \in Threads, PopCore(t) PROVE QueueTypes'
  <2>1. /\ m_free_cores' = Tail(m_free_cores) /\ m_free_cores # <<>>
        /\ UNCHANGED <<m_reassigned_events, session, sessions, m_events, stray,
                       dcm, m_assigned_l1ids, updates>>
    BY <1>6 DEF PopCore
  <2>2. /\ m_free_cores' \in Seq(1..MaxSessions) /\ Head(m_free_cores) # 0
        /\ ToSet(m_free_cores') \subseteq ToSet(m_free_cores)
    <3>1. /\ Tail(m_free_cores) \in Seq(1..MaxSessions) /\ Head(m_free_cores) \in 1..MaxSessions
          /\ ToSet(Tail(m_free_cores)) \subseteq ToSet(m_free_cores)
      BY <2>1, TailFacts
    <3>2. QED
      BY <2>1, <3>1
  <2>3. \A s \in ToSet(m_free_cores') : s <= sessions
    BY <2>1, <2>2
  <2>4. hand[t] \in Events
    BY <1>6 DEF PopCore, ThreadTypes
  <2>5. posted' \in Seq(Events) /\ (session = 0 => posted' = <<>>)
    <3>1. Append(posted, hand[t]) \in Seq(Events)
      BY <2>4, AppendFacts
    <3>2. \/ posted' = posted
          \/ Head(m_free_cores) = session /\ posted' = Append(posted, hand[t])
      BY <1>6 DEF PopCore
    <3>3. QED
      BY <2>2, <3>1, <3>2
  <2>6. QED
    BY <2>1, <2>2, <2>3, <2>5
<1>7. CASE RunHandle
  <2>1. /\ posted # <<>> /\ posted' = Tail(posted)
        /\ m_events' = Append(m_events, Head(posted))
        /\ m_assigned_l1ids' = Append(m_assigned_l1ids, Head(posted))
        /\ UNCHANGED <<m_free_cores, m_reassigned_events, session, sessions, stray,
                       dcm, updates>>
    BY <1>7 DEF RunHandle
  <2>2. posted' \in Seq(Events) /\ Head(posted) \in Events
    BY <2>1, TailFacts
  <2>3. m_events' \in Seq(Events) /\ m_assigned_l1ids' \in Seq(Events)
    BY <2>1, <2>2, AppendFacts
  <2>4. QED
    BY <2>1, <2>2, <2>3
<1>8. CASE OnSendError
  <2>1. /\ stray # <<>> /\ stray' = Tail(stray)
        /\ m_reassigned_events' = Append(m_reassigned_events, Head(stray))
        /\ UNCHANGED <<m_free_cores, session, sessions, m_events, posted, dcm,
                       m_assigned_l1ids, updates>>
    BY <1>8 DEF OnSendError
  <2>2. stray' \in Seq(Events) /\ m_reassigned_events' \in Seq(Events)
    BY <2>1, TailFacts, AppendFacts
  <2>3. QED
    BY <2>1, <2>2
<1>9. CASE onReceive
  <2>1. /\ updates # <<>> /\ RequestEvents(Head(updates)) /\ updates' = Tail(updates)
        /\ UNCHANGED <<m_reassigned_events, session, sessions, posted, stray, dcm,
                       m_assigned_l1ids>>
        /\ m_events' = m_events \/ \E i \in DOMAIN m_events : m_events' = RemoveAt(m_events, i)
    BY <1>9 DEF onReceive
  <2>2. m_events' \in Seq(Events)
    BY <2>1, RemoveAtFacts
  <2>3. updates' \in Seq(Update)
    BY <2>1, TailFacts
  <2>4. QED
    BY <2>1, <2>2, <2>3, CoresAdded
<1>10. CASE Expire
  <2>1. /\ m_events # <<>>
        /\ m_reassigned_events' = Append(m_reassigned_events, Head(m_events))
        /\ m_events' = Tail(m_events)
        /\ UNCHANGED <<m_free_cores, session, sessions, posted, stray, dcm,
                       m_assigned_l1ids, updates>>
    BY <1>10 DEF Expire
  <2>2. m_events' \in Seq(Events) /\ m_reassigned_events' \in Seq(Events)
    BY <2>1, TailFacts, AppendFacts
  <2>3. QED
    BY <2>1, <2>2
<1>11. CASE DcmConnect
  <2>1. /\ sessions < MaxSessions /\ sessions' = sessions + 1 /\ session' = sessions + 1
        /\ dcm' = "connected"
        /\ UNCHANGED <<m_free_cores, m_reassigned_events, m_events, posted, stray,
                       m_assigned_l1ids, updates>>
    BY <1>11 DEF DcmConnect
  <2>2. \A s \in ToSet(m_free_cores') : s \in Nat /\ s <= sessions
    <3>1. \A s \in ToSet(m_free_cores) : s \in 1..MaxSessions
      BY ElementFacts
    <3>2. QED
      BY <2>1, <3>1
  <2>3. QED
    BY <2>1, <2>2, Bounds
<1>12. CASE DcmPrepareForRun
  <2>1. [event |-> NoEvent, request |-> Cores] \in Update
    BY RunsAssumption DEF Update
  <2>2. /\ updates' = Append(updates, [event |-> NoEvent, request |-> Cores])
        /\ dcm = "connected" /\ dcm' = "running"
        /\ UNCHANGED <<m_free_cores, m_reassigned_events, session, sessions, m_events,
                       posted, stray, m_assigned_l1ids>>
    BY <1>12 DEF DcmPrepareForRun
  <2>3. updates' \in Seq(Update)
    BY <2>1, <2>2, AppendFacts
  <2>4. QED
    BY <2>2, <2>3
<1>13. CASE DcmTake
  <2>1. /\ m_assigned_l1ids # <<>> /\ m_assigned_l1ids' = Tail(m_assigned_l1ids)
        /\ UNCHANGED <<m_free_cores, m_reassigned_events, session, sessions, m_events,
                       posted, stray, dcm, updates>>
    BY <1>13 DEF DcmTake
  <2>2. m_assigned_l1ids' \in Seq(Events)
    BY <2>1, TailFacts
  <2>3. QED
    BY <2>1, <2>2
<1>14. CASE DcmAnswer \/ DcmBuilt
  <2>1. \E u \in Update : updates' = Append(updates, u)
    BY <1>14, AnswerIs, BuiltIs
  <2>2. dcm \in {"running", "stopping"}
    BY <1>14, BusyIs
  <2>3. UNCHANGED <<m_free_cores, m_reassigned_events, session, sessions, m_events,
                    posted, stray, dcm, m_assigned_l1ids>>
    BY <1>14 DEF DcmAnswer, DcmBuilt
  <2>4. updates' \in Seq(Update)
    BY <2>1, AppendFacts
  <2>5. QED
    BY <2>2, <2>3, <2>4
<1>15. CASE DcmStop \/ DcmJoin
  BY <1>15 DEF DcmStop, DcmJoin
<1>16. CASE DcmDisconnect
  <2>1. m_reassigned_events' \in Seq(Events) /\ stray' \in Seq(Events)
    BY <1>16, ConcatFacts DEF DcmDisconnect
  <2>2. QED
    BY <1>16, <2>1, Bounds, EmptyFacts DEF DcmDisconnect, NoConnection, DcmGone
<1>17. CASE UNCHANGED vars
  BY <1>17 DEF vars
<1>18. QED
  BY <1>1, <1>2, <1>3, <1>4, <1>5, <1>6, <1>7, <1>8, <1>9, <1>10, <1>11, <1>12,
     <1>13, <1>14, <1>15, <1>16, <1>17, NextCases
     DEF Transition, ThreadStep, Bystander, DcmStep

(* Every step preserves WorkerTypes.                                       *)
LEMMA WorkerStep ==
  ASSUME TypeInv, [Next]_vars
  PROVE  WorkerTypes'
<1> USE RunsAssumption DEF TypeInv, WorkerTypes, dcmVars, workerVars
<1>0. /\ Len(working) \in Nat /\ Cores \in Nat
      /\ waiting \in Nat /\ building \in Nat
      /\ waiting + Len(working) + building <= Cores
  OBVIOUS
<1>1. CASE \/ Transition /\ ~stopRecording /\ ~unconfigure
           \/ GetResult \/ ThreadStep \/ Publish \/ UNCHANGED vars
           \/ RunHandle \/ OnSendError \/ onReceive \/ Expire
  <2>1. UNCHANGED <<dcm, waiting, working, building>>
    <3>1. CASE Transition /\ ~stopRecording /\ ~unconfigure
      BY <3>1 DEF Transition, configure, connect, prepareForRun, stopDC, disconnect
    <3>2. CASE GetResult \/ ThreadStep \/ Publish \/ UNCHANGED vars
      BY <3>2 DEF GetResult, ThreadStep, LeaveThread, StopRunning, Join, PushEvents,
                  PopCore, Publish, vars
    <3>3. CASE RunHandle \/ OnSendError \/ onReceive \/ Expire
      BY <3>3 DEF RunHandle, OnSendError, onReceive, Expire
    <3>4. QED
      BY <1>1, <3>1, <3>2, <3>3
  <2>2. QED
    BY <2>1
<1>2. CASE stopRecording
  <2>1. /\ UNCHANGED <<waiting, working, building>>
        /\ dcm \notin {"running", "stopping"}
    BY <1>2 DEF stopRecording
  <2>2. QED
    BY <2>1
<1>3. CASE unconfigure \/ Crash \/ DcmDisconnect
  <2>1. waiting' = 0 /\ working' = <<>> /\ building' = 0
    BY <1>3 DEF unconfigure, Crash, DcmDisconnect, NoConnection, DcmGone
  <2>2. QED
    BY <1>0, <2>1, EmptyFacts
<1>4. CASE DcmConnect
  <2>1. UNCHANGED <<waiting, working, building>> /\ dcm = "down"
    BY <1>4 DEF DcmConnect
  <2>2. QED
    BY <2>1
<1>5. CASE DcmPrepareForRun
  <2>1. /\ UNCHANGED <<working, building>> /\ waiting' = Cores
        /\ dcm = "connected" /\ dcm' = "running"
    BY <1>5 DEF DcmPrepareForRun
  <2>2. Len(working) = 0 /\ building = 0
    BY <2>1
  <2>3. QED
    BY <1>0, <2>1, <2>2
<1>6. CASE DcmTake
  <2>1. /\ waiting > 0 /\ waiting' = waiting - 1 /\ m_assigned_l1ids # <<>>
        /\ working' = Append(working, Head(m_assigned_l1ids))
        /\ UNCHANGED <<dcm, building>>
    BY <1>6 DEF DcmTake
  <2>2. Head(m_assigned_l1ids) \in Events
    BY <2>1, TailFacts DEF QueueTypes
  <2>3. working' \in Seq(Events) /\ Len(working') = Len(working) + 1
    BY <2>1, <2>2, AppendFacts
  <2>4. dcm \in {"running", "stopping"}
    BY <2>1, BusyIs
  <2>5. QED
    BY <1>0, <2>1, <2>3, <2>4
<1>7. CASE DcmAnswer
  <2>1. PICK i \in DOMAIN working :
          /\ working' = RemoveAt(working, i)
          /\ \/ waiting' \in {waiting, waiting + 1} /\ building' = building
             \/ waiting' = waiting /\ building' = building + 1
    BY <1>7, AnswerIs
  <2>2. working' \in Seq(Events) /\ Len(working') = Len(working) - 1
    BY <2>1, RemoveAtFacts
  <2>3. dcm \in {"running", "stopping"} /\ dcm' = dcm
    BY <1>7, BusyIs DEF DcmAnswer
  <2>4. /\ waiting' \in Nat /\ building' \in Nat
        /\ waiting' + (Len(working) - 1) + building' <= Cores
    <3> HIDE DEF TypeInv, WorkerTypes
    <3>1. CASE waiting' = waiting /\ building' = building
      BY <1>0, <3>1
    <3>2. CASE waiting' = waiting + 1 /\ building' = building
      BY <1>0, <3>2
    <3>3. CASE waiting' = waiting /\ building' = building + 1
      BY <1>0, <3>3
    <3>4. \/ waiting' = waiting /\ building' = building
          \/ waiting' = waiting + 1 /\ building' = building
          \/ waiting' = waiting /\ building' = building + 1
      BY <2>1
    <3>5. QED
      BY <3>1, <3>2, <3>3, <3>4
  <2>5. QED
    BY <2>2, <2>3, <2>4
<1>8. CASE DcmBuilt
  <2>1. /\ building > 0 /\ building' = building - 1 /\ working' = working
        /\ waiting' \in {waiting, waiting + 1} /\ dcm' = dcm
    BY <1>8 DEF DcmBuilt, Continue
  <2>2. dcm \in {"running", "stopping"}
    BY <2>1, BusyIs
  <2>3. QED
    BY <1>0, <2>1, <2>2
<1>9. CASE DcmStop
  <2>1. /\ UNCHANGED <<working, building>> /\ waiting' \in 0..waiting
        /\ dcm' = "stopping"
    BY <1>9 DEF DcmStop
  <2>2. QED
    BY <1>0, <2>1
<1>10. CASE DcmJoin
  <2>1. /\ UNCHANGED <<waiting, working, building>>
        /\ waiting = 0 /\ working = <<>> /\ building = 0
    BY <1>10 DEF DcmJoin
  <2>2. QED
    BY <2>1
<1>11. QED
  BY <1>1, <1>2, <1>3, <1>4, <1>5, <1>6, <1>7, <1>8, <1>9, <1>10, NextCases
     DEF Transition, Bystander, DcmStep

(* Every step preserves TypeInv.                                           *)
LEMMA TypeStep == TypeInv /\ [Next]_vars => TypeInv'
<1> SUFFICES ASSUME TypeInv, [Next]_vars PROVE TypeInv'
  OBVIOUS
<1>1. PhaseInv' /\ IDTypes' /\ RunInv'
  BY PhaseStep, IDTypesStep, RunStep DEF TypeInv
<1>2. QED
  BY <1>1, NumberStep, ThreadTypesStep, QueueStep, WorkerStep DEF TypeInv

(* Free cores are always of a session that was opened, the L1 thread only  *)
(* schedules events of the run, and only a connected DCM has work, through *)
(* any transitions, reconnections and crashes.                             *)
THEOREM TypeCorrect == Spec => []TypeOK
BY TypeInit, TypeStep, TypeOKIs, PTL DEF Spec

-----------------------------------------------------------------------------
(* What one run leaves to the next.                                        *)

Left(e) == e \in leftover \cup {NoEvent}

(* Between runs only what was left over is anywhere.                       *)
LeftInv == RunsSeparate /\ (~ongoing => \A e \in Abroad : Left(e))

(* Where events are.                                                       *)
abroadVars == <<m_reassigned_events, m_events, posted, stray, m_assigned_l1ids,
                working, updates, hand>>

(* Nothing is anywhere at the start.                                       *)
LEMMA LeftInit == Init => LeftInv
<1> SUFFICES ASSUME Init PROVE LeftInv
  OBVIOUS
<1>1. \A e \in Abroad : e = NoEvent
  BY EmptyFacts DEF Abroad, Init, Reported
<1>2. mixed = {}
  BY DEF Init
<1>3. QED
  BY <1>1, <1>2 DEF LeftInv, RunsSeparate, Left

(* A step that brings nothing new and keeps the run.                       *)
LEMMA LeftKeep ==
  ASSUME LeftInv, UNCHANGED <<run, mixed>>, leftover \subseteq leftover',
         ongoing' = ongoing \/ \A e \in Abroad' : Left(e)',
         \A e \in Abroad' : e \in Abroad \/ Left(e)' \/ (ongoing /\ e.run = run)
  PROVE  LeftInv'
<1>1. \A e : Left(e) => Left(e)'
  BY DEF Left
<1>2. \A e \in Abroad : e.run = run \/ Left(e)
  BY DEF LeftInv, RunsSeparate, Left
<1>3. \A e \in Abroad' : e.run = run' \/ Left(e)'
  BY <1>1, <1>2
<1>4. \A m \in mixed' : leftover' \cap {m[1], m[2]} # {}
  BY DEF LeftInv, RunsSeparate
<1>5. ~ongoing' => \A e \in Abroad' : Left(e)'
  BY <1>1 DEF LeftInv
<1>6. RunsSeparate'
  BY <1>3, <1>4 DEF RunsSeparate, Left
<1>7. QED
  BY <1>5, <1>6 DEF LeftInv

(* A step that moves events from one place to another.                     *)
LEMMA LeftMoves ==
  ASSUME LeftInv, UNCHANGED <<run, ongoing, mixed, leftover>>,
         \A e \in Abroad' : e \in Abroad \/ e = NoEvent
  PROVE  LeftInv'
<1>1. \A e \in Abroad' : e \in Abroad \/ Left(e)'
  BY DEF Left
<1>2. QED
  BY <1>1, LeftKeep

(* What is reported, by what updates is.                                   *)
LEMMA ReportedIs ==
  /\ Reported = {u.event : u \in ToSet(updates)}
  /\ Reported' = {u.event : u \in ToSet(updates')}
BY DEF Reported, ToSet

(* An update more reports an event more.                                   *)
LEMMA ReportedMore ==
  ASSUME QueueTypes, NEW u \in Update, updates' = Append(updates, u)
  PROVE  Reported' = Reported \cup {u.event}
<1>1. ToSet(updates') = ToSet(updates) \cup {u}
  BY AppendFacts DEF QueueTypes
<1>2. QED
  BY <1>1, ReportedIs

(* Every step of the DCM's threads preserves LeftInv.                      *)
LEMMA LeftDcmStep ==
  ASSUME TypeInv, LeftInv, DcmStep
  PROVE  LeftInv'
<1>0. QueueTypes /\ WorkerTypes
  BY DEF TypeInv
<1>1. CASE DcmTake
  <2>1. /\ UNCHANGED <<run, ongoing, mixed, leftover, m_reassigned_events, m_events,
                       posted, stray, updates, hand>>
        /\ m_assigned_l1ids # <<>> /\ m_assigned_l1ids' = Tail(m_assigned_l1ids)
        /\ working' = Append(working, Head(m_assigned_l1ids))
    BY <1>1 DEF DcmTake, partitionVars, mixVars, queueVars, sessionVars, threadVars
  <2>2. /\ ToSet(m_assigned_l1ids') \subseteq ToSet(m_assigned_l1ids)
        /\ Head(m_assigned_l1ids) \in ToSet(m_assigned_l1ids)
        /\ Head(m_assigned_l1ids) \in Events
    BY <1>0, <2>1, TailFacts DEF QueueTypes
  <2>3. ToSet(working') = ToSet(working) \cup {Head(m_assigned_l1ids)}
    BY <1>0, <2>1, <2>2, AppendFacts DEF WorkerTypes
  <2>4. Reported' = Reported
    BY <2>1 DEF Reported
  <2>5. Abroad' \subseteq Abroad
    BY <2>1, <2>2, <2>3, <2>4 DEF Abroad
  <2>6. QED
    BY <2>1, <2>5, LeftMoves
<1>2. CASE DcmAnswer
  <2>1. PICK i \in DOMAIN working, n \in {0, 1} :
          /\ working' = RemoveAt(working, i)
          /\ working[i] \in ToSet(working)
          /\ [event |-> working[i], request |-> n] \in Update
          /\ updates' = Append(updates, [event |-> working[i], request |-> n])
    BY <1>2, AnswerIs
  <2>2. UNCHANGED <<run, ongoing, mixed, leftover, m_reassigned_events, m_events,
                    posted, stray, m_assigned_l1ids, hand>>
    BY <1>2 DEF DcmAnswer, partitionVars, mixVars, queueVars, sessionVars, threadVars
  <2>3. ToSet(working') \subseteq ToSet(working)
    BY <1>0, <2>1, RemoveAtFacts DEF WorkerTypes
  <2>4. Reported' = Reported \cup {working[i]}
    BY <1>0, <2>1, ReportedMore
  <2>5. Abroad' \subseteq Abroad
    BY <2>1, <2>2, <2>3, <2>4 DEF Abroad
  <2>6. QED
    BY <2>2, <2>5, LeftMoves
<1>3. CASE DcmBuilt
  <2>1. UNCHANGED <<run, ongoing, mixed, leftover, m_reassigned_events, m_events,
                    posted, stray, m_assigned_l1ids, working, hand>>
    BY <1>3 DEF DcmBuilt, partitionVars, mixVars, queueVars, sessionVars, threadVars
  <2>2. Reported' = Reported \cup {NoEvent}
    BY <1>0, <1>3, BuiltIs, ReportedMore
  <2>3. \A e \in Abroad' : e \in Abroad \/ e = NoEvent
    BY <2>1, <2>2 DEF Abroad
  <2>4. QED
    BY <2>1, <2>3, LeftMoves
<1>4. QED
  BY <1>1, <1>2, <1>3 DEF DcmStep

(* Every step of the sessions preserves LeftInv.                           *)
LEMMA LeftSessionStep ==
  ASSUME TypeInv, LeftInv,
         RunHandle \/ OnSendError \/ onReceive \/ Expire \/ DcmDisconnect
  PROVE  LeftInv'
<1> USE DEF partitionVars, threadVars, queueVars, sessionVars, dcmVars, mixVars
<1>0. QueueTypes
  BY DEF TypeInv
<1>1. CASE RunHandle
  <2>1. /\ UNCHANGED <<run, ongoing, mixed, leftover, m_reassigned_events, stray,
                       working, updates, hand>>
        /\ posted # <<>> /\ posted' = Tail(posted)
        /\ m_events' = Append(m_events, Head(posted))
        /\ m_assigned_l1ids' = Append(m_assigned_l1ids, Head(posted))
    BY <1>1 DEF RunHandle, workerVars
  <2>2. /\ ToSet(posted') \subseteq ToSet(posted)
        /\ Head(posted) \in ToSet(posted) /\ Head(posted) \in Events
    BY <1>0, <2>1, TailFacts DEF QueueTypes
  <2>3. /\ ToSet(m_events') = ToSet(m_events) \cup {Head(posted)}
        /\ ToSet(m_assigned_l1ids') = ToSet(m_assigned_l1ids) \cup {Head(posted)}
    BY <1>0, <2>1, <2>2, AppendFacts DEF QueueTypes
  <2>4. Reported' = Reported
    BY <2>1 DEF Reported
  <2>5. Abroad' \subseteq Abroad
    BY <2>1, <2>2, <2>3, <2>4 DEF Abroad
  <2>6. QED
    BY <2>1, <2>5, LeftMoves
<1>2. CASE OnSendError
  <2>1. /\ UNCHANGED <<run, ongoing, mixed, leftover, m_events, posted,
                       m_assigned_l1ids, working, updates, hand>>
        /\ stray # <<>> /\ stray' = Tail(stray)
        /\ m_reassigned_events' = Append(m_reassigned_events, Head(stray))
    BY <1>2 DEF OnSendError, workerVars
  <2>2. /\ ToSet(stray') \subseteq ToSet(stray) /\ Head(stray) \in ToSet(stray)
        /\ ToSet(m_reassigned_events') = ToSet(m_reassigned_events) \cup {Head(stray)}
    BY <1>0, <2>1, TailFacts, AppendFacts DEF QueueTypes
  <2>3. Reported' = Reported
    BY <2>1 DEF Reported
  <2>4. Abroad' \subseteq Abroad
    BY <2>1, <2>2, <2>3 DEF Abroad
  <2>5. QED
    BY <2>1, <2>4, LeftMoves
<1>3. CASE Expire
  <2>1. /\ UNCHANGED <<run, ongoing, mixed, leftover, posted, stray,
                       m_assigned_l1ids, working, updates, hand>>
        /\ m_events # <<>> /\ m_events' = Tail(m_events)
        /\ m_reassigned_events' = Append(m_reassigned_events, Head(m_events))
    BY <1>3 DEF Expire, workerVars
  <2>2. /\ ToSet(m_events') \subseteq ToSet(m_events) /\ Head(m_events) \in ToSet(m_events)
        /\ ToSet(m_reassigned_events') = ToSet(m_reassigned_events) \cup {Head(m_events)}
    BY <1>0, <2>1, TailFacts, AppendFacts DEF QueueTypes
  <2>3. Reported' = Reported
    BY <2>1 DEF Reported
  <2>4. Abroad' \subseteq Abroad
    BY <2>1, <2>2, <2>3 DEF Abroad
  <2>5. QED
    BY <2>1, <2>4, LeftMoves
<1>4. CASE DcmDisconnect
  <2>1. /\ UNCHANGED <<run, ongoing, mixed, leftover, hand>>
        /\ m_reassigned_events' = m_reassigned_events \o m_events
        /\ stray' = stray \o posted /\ m_events' = <<>> /\ posted' = <<>>
        /\ m_assigned_l1ids' = <<>> /\ working' = <<>> /\ updates' = <<>>
    BY <1>4 DEF DcmDisconnect, NoConnection, DcmGone
  <2>2. /\ ToSet(m_reassigned_events') = ToSet(m_reassigned_events) \cup ToSet(m_events)
        /\ ToSet(stray') = ToSet(stray) \cup ToSet(posted)
    BY <1>0, <2>1, ConcatFacts DEF QueueTypes
  <2>3. Reported' = {}
    BY <2>1 DEF Reported
  <2>4. Abroad' \subseteq Abroad
    BY <2>1, <2>2, <2>3, EmptyFacts DEF Abroad
  <2>5. QED
    BY <2>1, <2>4, LeftMoves
<1>5. CASE onReceive
  <2> DEFINE u == Head(updates)
  <2>1. /\ updates # <<>> /\ updates' = Tail(updates)
        /\ UNCHANGED <<run, ongoing, leftover, m_reassigned_events, posted, stray,
                       m_assigned_l1ids, working, hand>>
        /\ \/ UNCHANGED <<m_events, mixed>>
           \/ \E i \in DOMAIN m_events :
                /\ m_events[i].id = u.event.id
                /\ m_events' = RemoveAt(m_events, i)
                /\ mixed' = mixed \cup ({<<u.event, m_events[i]>>} \ {<<u.event, u.event>>})
    BY <1>5 DEF onReceive, workerVars
  <2>2. u \in Update /\ u \in ToSet(updates) /\ ToSet(updates') \subseteq ToSet(updates)
    BY <1>0, <2>1, TailFacts DEF QueueTypes
  <2>3. Reported' \subseteq Reported /\ u.event \in Reported
    BY <1>0, <2>2, ReportedIs
  <2> HIDE DEF u
  <2>4. ToSet(m_events') \subseteq ToSet(m_events)
    BY <1>0, <2>1, RemoveAtFacts DEF QueueTypes
  <2>5. Abroad' \subseteq Abroad
    BY <2>1, <2>3, <2>4 DEF Abroad
  <2>6. ASSUME NEW i \in DOMAIN m_events, m_events[i].id = u.event.id, m_events[i] # u.event
        PROVE  leftover \cap {u.event, m_events[i]} # {}
    <3>1. m_events[i] \in Events /\ u.event \in Events \cup {NoEvent}
      BY <1>0, <2>2 DEF QueueTypes, Update
    <3>2. u.event \in Events
      BY <2>6, <3>1, Bounds DEF Events, NoEvent
    <3>3. m_events[i].run # u.event.run
      BY <2>6, <3>1, <3>2 DEF Events
    <3>4. m_events[i] # NoEvent /\ u.event # NoEvent
      BY <3>1, <3>2 DEF Events, NoEvent
    <3>5. m_events[i] \in Abroad /\ u.event \in Abroad
      BY <2>3 DEF Abroad, ToSet
    <3>6. QED
      BY <3>3, <3>4, <3>5 DEF LeftInv, RunsSeparate
  <2>7. \A m \in mixed' : m \in mixed \/ leftover \cap {m[1], m[2]} # {}
    BY <2>1, <2>6
  <2>8. RunsSeparate'
    BY <2>1, <2>5, <2>7 DEF LeftInv, RunsSeparate
  <2>9. QED
    BY <2>1, <2>5, <2>8 DEF LeftInv, Left
<1>6. QED
  BY <1>1, <1>2, <1>3, <1>4, <1>5

(* Every step preserves LeftInv.                                           *)
LEMMA LeftStep ==
  ASSUME TypeInv, LeftInv, [Next]_vars
  PROVE  LeftInv'
<1> USE DEF partitionVars, threadVars, queueVars, sessionVars, dcmVars, mixVars
<1>0. QueueTypes /\ ThreadTypes
  BY DEF TypeInv
<1>1. CASE configure \/ connect \/ disconnect \/ unconfigure \/ Crash
  <2>1. /\ UNCHANGED <<run, ongoing, mixed, leftover>>
        /\ m_reassigned_events' = m_reassigned_events \/ m_reassigned_events' = <<>>
        /\ \/ UNCHANGED <<m_events, posted, stray, m_assigned_l1ids, working, updates>>
           \/ /\ m_events' = <<>> /\ posted' = <<>> /\ stray' = <<>>
              /\ m_assigned_l1ids' = <<>> /\ working' = <<>> /\ updates' = <<>>
        /\ hand' = hand \/ hand' = [t \in Threads |-> NoEvent]
    <3>1. CASE configure \/ connect \/ disconnect
      BY <3>1 DEF configure, reset, connect, disconnect, workerVars
    <3>2. CASE unconfigure \/ Crash
      BY <3>2 DEF unconfigure, Crash, NoConnection, DcmGone
    <3>3. QED
      BY <1>1, <3>1, <3>2
  <2>2. Reported' \subseteq Reported
    BY <2>1 DEF Reported
  <2>3. \A t \in Threads : hand'[t] = hand[t] \/ hand'[t] = NoEvent
    BY <2>1
  <2>4. \A e \in Abroad' : e \in Abroad \/ e = NoEvent
    BY <2>1, <2>2, <2>3, EmptyFacts DEF Abroad
  <2>5. QED
    BY <2>1, <2>4, LeftMoves
<1>2. CASE prepareForRun
  <2>1. UNCHANGED <<leftover, mixed, abroadVars>> /\ ongoing'
    BY <1>2 DEF prepareForRun, abroadVars, workerVars
  <2>2. Abroad' = Abroad
    BY <2>1 DEF Abroad, Reported, abroadVars
  <2>3. CASE ongoing /\ run' = run
    BY <2>1, <2>2, <2>3 DEF LeftInv, RunsSeparate
  <2>4. CASE ~ongoing
    BY <2>1, <2>2, <2>4 DEF LeftInv, RunsSeparate, Left
  <2>5. QED
    BY <1>2, <2>3, <2>4 DEF prepareForRun
<1>3. CASE \/ stopDC \/ StopRunning \/ Join \/ GetResult \/ LeaveThread \/ Publish
           \/ DcmConnect \/ DcmStop \/ DcmJoin \/ UNCHANGED vars
  <2>1. UNCHANGED <<run, ongoing, leftover, mixed, abroadVars>>
    <3>1. CASE stopDC \/ StopRunning \/ Join \/ GetResult \/ LeaveThread \/ Publish
      BY <3>1 DEF stopDC, StopRunning, Join, GetResult, LeaveThread, Publish, abroadVars,
                  workerVars
    <3>2. CASE DcmConnect \/ DcmStop \/ DcmJoin \/ UNCHANGED vars
      BY <3>2 DEF DcmConnect, DcmStop, DcmJoin, vars, abroadVars, workerVars
    <3>3. QED
      BY <1>3, <3>1, <3>2
  <2>2. Abroad' = Abroad
    BY <2>1 DEF Abroad, Reported, abroadVars
  <2>3. QED
    BY <2>1, <2>2, LeftMoves
<1>4. CASE stopRecording
  <2>1. /\ fsm = "stopped" /\ dcm \notin {"running", "stopping"}
        /\ m_reassigned_events' = <<>>
        /\ leftover' = leftover \cup ToSet(m_events) \cup ToSet(posted) \cup ToSet(stray)
                                \cup ToSet(m_assigned_l1ids) \cup Reported
        /\ UNCHANGED <<run, mixed, m_events, posted, stray, m_assigned_l1ids, working,
                       updates, hand, pc>>
    BY <1>4 DEF stopRecording, reset, workerVars
  <2>2. working' = <<>> /\ pc = Idle
    BY <2>1 DEF TypeInv, WorkerTypes, PhaseInv, QuietOutsideRun
  <2>3. \A t \in Threads : hand'[t] = NoEvent
    BY <1>0, <2>1, <2>2, IdleIs DEF ThreadTypes, Threads, L1, RC
  <2>4. Reported' = Reported
    BY <2>1 DEF Reported
  <2>5. \A e \in Abroad' : Left(e)'
    BY <2>1, <2>2, <2>3, <2>4, EmptyFacts DEF Abroad, Left
  <2>6. QED
    BY <2>1, <2>5, LeftKeep
<1>5. ASSUME NEW t \in Threads, PushEvents(t) PROVE LeftInv'
  <2>1. /\ UNCHANGED <<run, ongoing, fsm, leftover, mixed, m_events, posted, stray,
                       m_assigned_l1ids, working, updates>>
        /\ pc[t] = "push"
    BY <1>5 DEF PushEvents, workerVars
  <2>2. Reported' = Reported
    BY <2>1 DEF Reported
  <2>3. /\ ToSet(m_reassigned_events') \subseteq ToSet(m_reassigned_events)
        /\ \A u \in Threads : \/ hand'[u] = hand[u] \/ hand'[u] = NoEvent
                              \/ hand'[u] \in ToSet(m_reassigned_events)
                              \/ hand'[u].run = run
    <3>1. CASE m_reassigned_events # <<>>
      <4>1. /\ hand' = [hand EXCEPT ![t] = Head(m_reassigned_events)]
            /\ m_reassigned_events' = Tail(m_reassigned_events)
        BY <1>5, <3>1 DEF PushEvents
      <4>2. /\ Head(m_reassigned_events) \in ToSet(m_reassigned_events)
            /\ ToSet(Tail(m_reassigned_events)) \subseteq ToSet(m_reassigned_events)
        BY <1>0, <3>1, TailFacts DEF QueueTypes
      <4>3. QED
        BY <1>0, <4>1, <4>2 DEF ThreadTypes
    <3>2. CASE m_reassigned_events = <<>>
      <4>1. /\ m_reassigned_events' = m_reassigned_events
            /\ \/ hand' = [hand EXCEPT ![t] = [run |-> run, id |-> taken]]
               \/ hand' = [hand EXCEPT ![t] = NoEvent]
        BY <1>5, <3>2 DEF PushEvents
      <4>2. QED
        BY <1>0, <4>1 DEF ThreadTypes
    <3>3. QED
      BY <3>1, <3>2
  <2>4. ongoing
    BY <2>1, IdleIs DEF TypeInv, PhaseInv, QuietOutsideRun, RunInv, NumberTypes,
                        Threads, L1, RC
  <2>5. \A e \in Abroad' : e \in Abroad \/ Left(e)' \/ (ongoing /\ e.run = run)
    BY <2>1, <2>2, <2>3, <2>4 DEF Abroad, Left
  <2>6. QED
    BY <2>1, <2>5, LeftKeep
<1>6. ASSUME NEW t \in Threads, PopCore(t) PROVE LeftInv'
  <2>1. /\ UNCHANGED <<run, ongoing, leftover, mixed, m_reassigned_events, m_events, stray,
                       m_assigned_l1ids, working, updates>>
        /\ pc[t] \in {"pop", "popNew"}
        /\ hand' = [hand EXCEPT ![t] = NoEvent]
    BY <1>6 DEF PopCore, workerVars
  <2>2. Reported' = Reported
    BY <2>1 DEF Reported
  <2>3. hand[t] \in Events
    BY <1>0, <2>1 DEF ThreadTypes
  <2>4. ToSet(posted') \subseteq ToSet(posted) \cup {hand[t]}
    <3>1. ToSet(Append(posted, hand[t])) = ToSet(posted) \cup {hand[t]}
      BY <1>0, <2>3, AppendFacts DEF QueueTypes
    <3>2. posted' = posted \/ posted' = Append(posted, hand[t])
      BY <1>6 DEF PopCore
    <3>3. QED
      BY <3>1, <3>2
  <2>5. \A u \in Threads : hand'[u] = hand[u] \/ hand'[u] = NoEvent
    BY <1>0, <2>1 DEF ThreadTypes
  <2>6. \A e \in Abroad' : e \in Abroad \/ e = NoEvent
    BY <2>1, <2>2, <2>4, <2>5 DEF Abroad
  <2>7. QED
    BY <2>1, <2>6, LeftMoves
<1>7. CASE RunHandle \/ OnSendError \/ onReceive \/ Expire \/ DcmDisconnect
  BY <1>7, LeftSessionStep
<1>8. CASE DcmStep
  BY <1>8, LeftDcmStep
<1>9. CASE DcmPrepareForRun
  <2>1. /\ UNCHANGED <<run, ongoing, leftover, mixed, m_reassigned_events, m_events,
                       posted, stray, m_assigned_l1ids, working, hand>>
        /\ updates' = Append(updates, [event |-> NoEvent, request |-> Cores])
    BY <1>9 DEF DcmPrepareForRun
  <2>2. [event |-> NoEvent, request |-> Cores] \in Update
    BY RunsAssumption DEF Update
  <2>3. Reported' = Reported \cup {NoEvent}
    BY <1>0, <2>1, <2>2, ReportedMore
  <2>4. \A e \in Abroad' : e \in Abroad \/ e = NoEvent
    BY <2>1, <2>3 DEF Abroad
  <2>5. QED
    BY <2>1, <2>4, LeftMoves
<1>10. QED
  BY <1>1, <1>2, <1>3, <1>4, <1>5, <1>6, <1>7, <1>8, <1>9, NextCases
     DEF Transition, ThreadStep, Bystander

(* An event of an earlier run is with the scheduler, a session or a DCM,   *)
(* and is taken for another, only if a reset found it with a session, with *)
(* the DCM or in an update on its way: for any number of cores, runs,      *)
(* time-outs, reconnections and crashes, and any order of the DCM's stop   *)
(* and the supervisor's.                                                   *)
THEOREM RunsStaySeparate == Spec => []RunsSeparate
<1>1. Init => TypeInv /\ LeftInv
  BY TypeInit, LeftInit
<1>2. TypeInv /\ LeftInv /\ [Next]_vars => (TypeInv /\ LeftInv)'
  BY TypeStep, LeftStep
<1>3. LeftInv => RunsSeparate
  BY DEF LeftInv
<1>4. QED
  BY <1>1, <1>2, <1>3, PTL DEF Spec

-----------------------------------------------------------------------------
(* Counting.                                                               *)

Count(q, s) == Cardinality({i \in DOMAIN q : q[i] = s})
Wanted(q)   == {x \in (DOMAIN q) \X (1..Cores) : x[2] <= q[x[1]].request}

(* How often s is in a queue, and in one with more or less in it.          *)
LEMMA CountType ==
  ASSUME NEW S, NEW q \in Seq(S), NEW s
  PROVE  /\ IsFiniteSet({i \in DOMAIN q : q[i] = s}) /\ Count(q, s) \in Nat
         /\ s \notin ToSet(q) => Count(q, s) = 0
<1>1. IsFiniteSet(1..Len(q)) /\ {i \in DOMAIN q : q[i] = s} \in SUBSET (1..Len(q))
  BY FS_Interval
<1>2. s \notin ToSet(q) => {i \in DOMAIN q : q[i] = s} = {}
  BY DEF ToSet
<1>3. QED
  BY <1>1, <1>2, FS_Subset, FS_CardinalityType, FS_EmptySet DEF Count

(* Taking the head takes one occurrence of it.                             *)
LEMMA CountTail ==
  ASSUME NEW S, NEW q \in Seq(S), q # <<>>, NEW s
  PROVE  Count(Tail(q), s) = Count(q, s) - (IF Head(q) = s THEN 1 ELSE 0)
<1> DEFINE E == {i \in DOMAIN q : q[i] = s}
           A == E \ {1}
           B == {i \in DOMAIN Tail(q) : Tail(q)[i] = s}
           f == [i \in A |-> i - 1]
<1>1. /\ 1 \in 1..Len(q) /\ Head(q) = q[1] /\ DOMAIN q = 1..Len(q)
      /\ Len(q) \in Nat
      /\ Len(Tail(q)) = Len(q) - 1 /\ Tail(q) \in Seq(S)
      /\ DOMAIN Tail(q) = 1..(Len(q) - 1)
      /\ \A j \in 1..(Len(q) - 1) : Tail(q)[j] = q[j + 1]
  BY HeadTailProperties
<1>2. \A i \in A : i - 1 \in B
  BY <1>1
<1>3. \A j \in B : j + 1 \in A /\ j = (j + 1) - 1
  BY <1>1
<1>4. \A i, j \in A : i - 1 = j - 1 => i = j
  BY <1>1
<1>5. 1 \in E <=> Head(q) = s
  BY <1>1
<1>6. IsFiniteSet(E)
  BY CountType
<1>7. f \in Bijection(A, B)
  <2> HIDE DEF A, B
  <2>1. f \in [A -> B] /\ \A i \in A : f[i] = i - 1
    BY <1>2
  <2>2. \A i, j \in A : f[i] = f[j] => i = j
    BY <1>4, <2>1
  <2>3. \A j \in B : \E i \in A : f[i] = j
    BY <1>3, <2>1
  <2> HIDE DEF f
  <2>4. f \in Injection(A, B)
    BY <2>1, <2>2 DEF Injection, IsInjective
  <2>5. f \in Surjection(A, B)
    BY <2>1, <2>3 DEF Surjection
  <2>6. QED
    BY <2>4, <2>5 DEF Bijection
<1> HIDE DEF E, B, f
<1>8. /\ IsFiniteSet(A)
      /\ Cardinality(A) = Cardinality(E) - (IF Head(q) = s THEN 1 ELSE 0)
  <2>1. Cardinality(E) - 0 = Cardinality(E)
    BY <1>6, FS_CardinalityType
  <2>2. QED
    BY <1>5, <1>6, <2>1, FS_RemoveElement
<1>9. Cardinality(B) = Cardinality(A)
  BY <1>7, <1>8, FS_Bijection DEF ExistsBijection
<1>10. QED
  BY <1>8, <1>9 DEF Count, B, E

(* A list adds at most as many occurrences as it is long.                  *)
LEMMA CountConcat ==
  ASSUME NEW S, NEW q \in Seq(S), NEW r \in Seq(S), NEW s
  PROVE  Count(q \o r, s) <= Count(q, s) + Len(r)
<1> DEFINE E == {i \in DOMAIN q : q[i] = s}
           R == (Len(q) + 1)..(Len(q) + Len(r))
           C == {i \in DOMAIN (q \o r) : (q \o r)[i] = s}
<1>1. /\ Len(q) \in Nat /\ Len(r) \in Nat /\ DOMAIN q = 1..Len(q)
      /\ DOMAIN (q \o r) = 1..(Len(q) + Len(r))
      /\ \A i \in 1..Len(q) : (q \o r)[i] = q[i]
  BY ConcatProperties
<1>2. C \subseteq E \cup R
  BY <1>1
<1>3. IsFiniteSet(E) /\ IsFiniteSet(R) /\ Cardinality(R) = Len(r)
  <2>1. IsFiniteSet(E)
    BY CountType
  <2>2. IsFiniteSet(R) /\ Cardinality(R) = Len(r)
    <3> DEFINE a == Len(q) + 1
               b == Len(q) + Len(r)
    <3>1. /\ a \in Int /\ b \in Int
          /\ (IF a > b THEN 0 ELSE b - a + 1) = Len(r)
      BY <1>1
    <3> HIDE DEF a, b
    <3>2. IsFiniteSet(a..b) /\ Cardinality(a..b) = IF a > b THEN 0 ELSE b - a + 1
      BY <3>1, FS_Interval
    <3>3. QED
      BY <3>1, <3>2 DEF a, b
  <2>3. QED
    BY <2>1, <2>2
<1>8. Count(q \o r, s) = Cardinality(C) /\ Count(q, s) = Cardinality(E)
  BY DEF Count
<1> HIDE DEF E, R, C
<1>4. /\ IsFiniteSet(E \cup R)
      /\ Cardinality(E \cup R) = Cardinality(E) + Cardinality(R) - Cardinality(E \cap R)
  BY <1>3, FS_Union
<1>5. /\ Cardinality(C) <= Cardinality(E \cup R) /\ Cardinality(E \cap R) \in Nat
      /\ Cardinality(C) \in Nat
  <2>1. E \cap R \in SUBSET E /\ C \in SUBSET (E \cup R)
    BY <1>2
  <2>2. QED
    BY <1>3, <1>4, <2>1, FS_Subset, FS_CardinalityType
<1>6. Cardinality(E) \in Nat
  BY <1>3, FS_CardinalityType
<1>7. QED
  BY <1>1, <1>3, <1>4, <1>5, <1>6, <1>8

(* The cores that the updates of a queue request, one pair for each.       *)
LEMMA WantedFinite ==
  ASSUME NEW q \in Seq(Update)
  PROVE  IsFiniteSet(Wanted(q)) /\ Cardinality(Wanted(q)) \in Nat
<1>1. IsFiniteSet(1..Len(q)) /\ IsFiniteSet(1..Cores)
  BY RunsAssumption, FS_Interval
<1>2. IsFiniteSet((1..Len(q)) \X (1..Cores))
  BY <1>1, FS_Product
<1>3. Wanted(q) \in SUBSET ((1..Len(q)) \X (1..Cores))
  BY DEF Wanted
<1>4. QED
  BY <1>2, <1>3, FS_Subset, FS_CardinalityType

(* The pairs of the n-th update: as many as the cores it requests.         *)
LEMMA ColumnFacts ==
  ASSUME NEW n \in Nat, NEW k \in Nat
  PROVE  IsFiniteSet({n} \X (1..k)) /\ Cardinality({n} \X (1..k)) = k
<1>1. IsFiniteSet(1..k) /\ Cardinality(1..k) = k
  BY FS_Interval
<1>2. IsFiniteSet({n}) /\ Cardinality({n}) = 1
  BY FS_Singleton
<1>3. /\ IsFiniteSet({n} \X (1..k))
      /\ Cardinality({n} \X (1..k)) = Cardinality({n}) * Cardinality(1..k)
  BY <1>1, <1>2, FS_Product
<1>4. QED
  BY <1>1, <1>2, <1>3

(* An update that joins the queue asks for the cores it asks for, and for  *)
(* no others.                                                              *)
LEMMA WantedAppend ==
  ASSUME NEW q \in Seq(Update), NEW u \in Update
  PROVE  Cardinality(Wanted(Append(q, u))) <= Cardinality(Wanted(q)) + u.request
<1> DEFINE W == Wanted(q)
           N == {Len(q) + 1} \X (1..u.request)
           V == Wanted(Append(q, u))
<1>1. /\ Len(q) \in Nat /\ DOMAIN q = 1..Len(q) /\ u.request \in Nat
      /\ DOMAIN Append(q, u) = 1..(Len(q) + 1)
      /\ \A i \in 1..Len(q) : Append(q, u)[i] = q[i]
      /\ Append(q, u)[Len(q) + 1] = u
  BY RunsAssumption, AppendProperties DEF Update
<1>2. ASSUME NEW i \in 1..(Len(q) + 1), NEW k \in 1..Cores, <<i, k>> \in V
      PROVE  <<i, k>> \in W \cup N
  <2>1. k <= Append(q, u)[i].request
    BY <1>2 DEF Wanted
  <2>2. CASE i \in 1..Len(q)
    BY <1>1, <2>1, <2>2 DEF Wanted
  <2>3. CASE i = Len(q) + 1
    BY <1>1, <2>1, <2>3
  <2>4. QED
    BY <1>1, <2>2, <2>3
<1>3. V \subseteq (1..(Len(q) + 1)) \X (1..Cores)
  BY <1>1 DEF Wanted
<1>4. IsFiniteSet(W) /\ IsFiniteSet(N) /\ Cardinality(N) = u.request
  <2>1. IsFiniteSet(W)
    BY WantedFinite
  <2>2. IsFiniteSet(N) /\ Cardinality(N) = u.request
    <3>1. Len(q) + 1 \in Nat
      BY <1>1
    <3>2. QED
      BY <1>1, <3>1, ColumnFacts
  <2>3. QED
    BY <2>1, <2>2
<1> HIDE DEF W, N, V
<1>5. V \in SUBSET (W \cup N)
  BY <1>2, <1>3
<1>6. /\ IsFiniteSet(W \cup N)
      /\ Cardinality(W \cup N) = Cardinality(W) + Cardinality(N) - Cardinality(W \cap N)
  BY <1>4, FS_Union
<1>7. /\ Cardinality(V) <= Cardinality(W \cup N) /\ Cardinality(V) \in Nat
      /\ Cardinality(W \cap N) \in Nat /\ Cardinality(W) \in Nat
  <2>1. W \cap N \in SUBSET W
    OBVIOUS
  <2>2. QED
    BY <1>4, <1>5, <1>6, <2>1, FS_Subset, FS_CardinalityType
<1>8. QED
  BY <1>1, <1>4, <1>6, <1>7 DEF W, V

(* An update that is handled takes its requests with it.                   *)
LEMMA WantedTail ==
  ASSUME NEW q \in Seq(Update), q # <<>>
  PROVE  /\ Head(q).request \in Nat
         /\ Cardinality(Wanted(Tail(q))) = Cardinality(Wanted(q)) - Head(q).request
<1> DEFINE W == Wanted(q)
           N == {1} \X (1..Head(q).request)
           A == W \ N
           B == Wanted(Tail(q))
           f == [x \in A |-> <<x[1] - 1, x[2]>>]
<1>1. /\ 1 \in 1..Len(q) /\ Head(q) = q[1] /\ DOMAIN q = 1..Len(q)
      /\ Len(q) \in Nat
      /\ DOMAIN Tail(q) = 1..(Len(q) - 1) /\ Tail(q) \in Seq(Update)
      /\ \A j \in 1..(Len(q) - 1) : Tail(q)[j] = q[j + 1]
  BY HeadTailProperties
<1>2. Head(q) \in Update /\ Head(q).request \in 0..Cores /\ Cores \in Nat
  <2>1. Head(q) \in Update
    BY TailFacts
  <2>2. QED
    BY <2>1, RunsAssumption DEF Update
<1>3. N \subseteq W
  BY <1>1, <1>2 DEF Wanted
<1>4. IsFiniteSet(W) /\ IsFiniteSet(N) /\ Cardinality(N) = Head(q).request
  <2>1. Head(q).request \in Nat
    BY <1>2
  <2>2. QED
    BY <2>1, WantedFinite, ColumnFacts
<1>5. \A i, k : <<i, k>> \in A <=> /\ i \in 2..Len(q) /\ k \in 1..Cores
                                   /\ k <= q[i].request
  <2>1. \A i, k : <<i, k>> \in W <=> /\ i \in 1..Len(q) /\ k \in 1..Cores
                                     /\ k <= q[i].request
    BY <1>1 DEF Wanted
  <2>2. \A k : <<1, k>> \in W => <<1, k>> \in N
    BY <1>1, <1>2, <2>1
  <2>3. \A i, k : <<i, k>> \in N => i = 1
    OBVIOUS
  <2>4. 1..Len(q) = {1} \cup 2..Len(q) /\ 1 \notin 2..Len(q)
    BY <1>1
  <2> HIDE DEF W, N
  <2>5. QED
    BY <2>1, <2>2, <2>3, <2>4
<1>6. \A i, k : <<i, k>> \in B <=> /\ i \in 1..(Len(q) - 1) /\ k \in 1..Cores
                                   /\ k <= q[i + 1].request
  BY <1>1 DEF Wanted
<1>7. /\ \A x \in A : \E i \in 2..Len(q), k \in 1..Cores : x = <<i, k>>
      /\ \A x \in B : \E i \in 1..(Len(q) - 1), k \in 1..Cores : x = <<i, k>>
  <2>1. A \subseteq Nat \X Nat /\ B \subseteq Nat \X Nat
    BY <1>1, <1>2 DEF Wanted
  <2> HIDE DEF A, B
  <2>2. QED
    BY <1>5, <1>6, <2>1
<1>8. f \in Bijection(A, B)
  <2> HIDE DEF A, B
  <2>1. \A x \in A : f[x] = <<x[1] - 1, x[2]>>
    OBVIOUS
  <2>2. \A i, k : <<i, k>> \in A => f[<<i, k>>] = <<i - 1, k>>
    BY <2>1
  <2>3. ASSUME NEW x \in A PROVE f[x] \in B
    <3>1. PICK i \in 2..Len(q), k \in 1..Cores : x = <<i, k>>
      BY <1>7
    <3>2. f[x] = <<i - 1, k>> /\ i - 1 \in 1..(Len(q) - 1) /\ (i - 1) + 1 = i
      BY <1>1, <2>2, <3>1
    <3>3. QED
      BY <1>5, <1>6, <3>1, <3>2
  <2>4. f \in [A -> B]
    BY <2>3
  <2> HIDE DEF f
  <2>5. ASSUME NEW x \in A, NEW y \in A, f[x] = f[y] PROVE x = y
    <3>1. PICK i \in 2..Len(q), k \in 1..Cores : x = <<i, k>>
      BY <1>7
    <3>2. PICK j \in 2..Len(q), l \in 1..Cores : y = <<j, l>>
      BY <1>7
    <3>3. i - 1 = j - 1 /\ k = l
      BY <2>2, <2>5, <3>1, <3>2
    <3>4. i = j
      BY <1>1, <3>3
    <3>5. QED
      BY <3>1, <3>2, <3>3, <3>4
  <2>6. ASSUME NEW y \in B PROVE \E x \in A : f[x] = y
    <3>1. PICK i \in 1..(Len(q) - 1), k \in 1..Cores : y = <<i, k>>
      BY <1>7
    <3>2. i + 1 \in 2..Len(q) /\ (i + 1) - 1 = i
      BY <1>1
    <3>3. <<i + 1, k>> \in A
      BY <1>5, <1>6, <3>1, <3>2
    <3>4. QED
      BY <2>2, <3>1, <3>2, <3>3
  <2>7. f \in Injection(A, B)
    BY <2>4, <2>5 DEF Injection, IsInjective
  <2>8. f \in Surjection(A, B)
    BY <2>4, <2>6 DEF Surjection
  <2>9. QED
    BY <2>7, <2>8 DEF Bijection
<1>9. IsFiniteSet(A) /\ Cardinality(A) = Cardinality(W) - Cardinality(W \cap N)
  BY <1>4, FS_Difference
<1>10. W \cap N = N
  BY <1>3
<1> HIDE DEF A, B, f, W, N
<1>11. Cardinality(B) = Cardinality(A)
  BY <1>8, <1>9, FS_Bijection DEF ExistsBijection
<1>12. Cardinality(B) = Cardinality(W) - Head(q).request
  BY <1>4, <1>9, <1>10, <1>11
<1>13. QED
  BY <1>2, <1>12 DEF W, B

-----------------------------------------------------------------------------
(* Cores.  Away from a run, what the DCM is owed comes only from what the  *)
(* last reset forgot.                                                      *)

Owed == Count(m_free_cores, session) + Cardinality(Wanted(updates)) + Held

Allowed == (IF dcm \in {"running", "stopping", "stopped"} THEN Cores ELSE 0) + late

CoreInv == late \in Nat /\ Owed <= Allowed

(* The counts are numbers.                                                 *)
LEMMA OwedTypes ==
  ASSUME QueueTypes, WorkerTypes
  PROVE  /\ Count(m_free_cores, session) \in Nat
         /\ Cardinality(Wanted(updates)) \in Nat
         /\ Len(posted) \in Nat /\ Len(m_assigned_l1ids) \in Nat
         /\ Len(working) \in Nat /\ building \in Nat
         /\ Held \in Nat /\ Owed \in Nat /\ Cores \in Nat
<1>1. Count(m_free_cores, session) \in Nat
  BY CountType DEF QueueTypes
<1>2. Cardinality(Wanted(updates)) \in Nat
  BY WantedFinite DEF QueueTypes
<1>3. /\ Len(posted) \in Nat /\ Len(m_assigned_l1ids) \in Nat
      /\ Len(working) \in Nat /\ building \in Nat /\ Cores \in Nat
  <2>1. /\ posted \in Seq(Events) /\ m_assigned_l1ids \in Seq(Events)
        /\ working \in Seq(Events) /\ building \in Nat
    BY DEF QueueTypes, WorkerTypes
  <2>2. QED
    BY <2>1, RunsAssumption
<1>4. Held \in Nat
  BY <1>3 DEF Held
<1>5. QED
  BY <1>1, <1>2, <1>3, <1>4 DEF Owed

(* And so they are after a step.                                           *)
LEMMA OwedTypesNext ==
  ASSUME QueueTypes', WorkerTypes'
  PROVE  /\ Count(m_free_cores', session') \in Nat
         /\ Cardinality(Wanted(updates')) \in Nat
         /\ Held' \in Nat /\ Owed' \in Nat
<1>1. Count(m_free_cores', session') \in Nat
  BY CountType DEF QueueTypes
<1>2. Cardinality(Wanted(updates')) \in Nat
  BY WantedFinite DEF QueueTypes
<1>3. /\ Len(posted') \in Nat /\ Len(m_assigned_l1ids') \in Nat
      /\ Len(working') \in Nat /\ building' \in Nat
  <2>1. /\ posted' \in Seq(Events) /\ m_assigned_l1ids' \in Seq(Events)
        /\ working' \in Seq(Events) /\ building' \in Nat
    BY DEF QueueTypes, WorkerTypes
  <2>2. QED
    BY <2>1
<1>4. Held' \in Nat
  BY <1>3 DEF Held
<1>5. QED
  BY <1>1, <1>2, <1>4 DEF Owed

(* Nothing is owed where there is no queue.                                *)
LEMMA NothingOwed ==
  /\ \A s : Count(<<>>, s) = 0
  /\ Cardinality(Wanted(<<>>)) = 0
<1>1. \A s : Count(<<>>, s) = 0
  <2>1. \A s : {i \in DOMAIN <<>> : <<>>[i] = s} = {}
    OBVIOUS
  <2>2. QED
    BY <2>1, FS_EmptySet DEF Count
<1>2. Wanted(<<>>) = {}
  BY DEF Wanted
<1>3. QED
  BY <1>1, <1>2, FS_EmptySet

(* This is CoresAnnouncedOnce.                                             *)
LEMMA CoresAnnouncedOnceIs ==
  QueueTypes /\ WorkerTypes /\ CoreInv => CoresAnnouncedOnce
<1> SUFFICES ASSUME QueueTypes, WorkerTypes, CoreInv PROVE CoresAnnouncedOnce
  OBVIOUS
<1>1. Cardinality(FreeCores) = Count(m_free_cores, session)
  BY DEF FreeCores, Count
<1>2. Requested = Cardinality(Wanted(updates))
  BY DEF Requested, Requests, Wanted
<1>3. Allowed <= Cores + late
  BY OwedTypes DEF Allowed, CoreInv
<1>4. Allowed \in Nat
  BY OwedTypes DEF Allowed, CoreInv
<1>5. QED
  BY <1>1, <1>2, <1>3, <1>4, OwedTypes DEF CoresAnnouncedOnce, CoreInv, Owed

(* Nothing is owed at the start.                                           *)
LEMMA CoreInit == Init => CoreInv
<1> SUFFICES ASSUME Init PROVE CoreInv
  OBVIOUS
<1>1. /\ m_free_cores = <<>> /\ updates = <<>> /\ late = 0 /\ dcm = "down"
      /\ posted = <<>> /\ m_assigned_l1ids = <<>> /\ working = <<>> /\ building = 0
  BY DEF Init
<1>2. Owed = 0
  BY <1>1, NothingOwed, EmptyFacts DEF Owed, Held
<1>3. QED
  BY <1>1, <1>2 DEF CoreInv, Allowed

(* A step that owes no more and allows no less.                            *)
LEMMA CoreKeep ==
  ASSUME QueueTypes, WorkerTypes, QueueTypes', WorkerTypes', CoreInv, late' = late,
         Owed' <= Owed,
         dcm' = dcm \/ dcm' \in {"running", "stopping", "stopped"} \/ dcm = "down"
  PROVE  CoreInv'
<1>1. Allowed \in Nat /\ Allowed' \in Nat /\ Allowed <= Allowed'
  BY OwedTypes DEF Allowed, CoreInv
<1>2. Owed \in Nat /\ Owed' \in Nat
  BY OwedTypes, OwedTypesNext
<1>3. QED
  BY <1>1, <1>2 DEF CoreInv

(* Nobody is owed anything once the DCM is gone.                           *)
LEMMA GoneCores ==
  ASSUME QueueTypes', WorkerTypes', session' = 0, posted' = <<>>,
         DcmGone, late' = 0
  PROVE  CoreInv'
<1>1. /\ updates' = <<>> /\ m_assigned_l1ids' = <<>> /\ working' = <<>>
      /\ building' = 0
  BY DEF DcmGone
<1>2. 0 \notin ToSet(m_free_cores')
  <2>1. ToSet(m_free_cores') \subseteq 1..MaxSessions
    BY ElementFacts DEF QueueTypes
  <2>2. QED
    BY <2>1
<1>3. Count(m_free_cores', session') = 0
  BY <1>2, CountType DEF QueueTypes
<1>4. Owed' = 0
  BY <1>1, <1>3, NothingOwed, EmptyFacts DEF Owed, Held
<1>5. QED
  BY <1>4, RunsAssumption DEF CoreInv, Allowed

(* A step that only moves tokens from one count to another.                *)
LEMMA TokensMove ==
  ASSUME QueueTypes, WorkerTypes, QueueTypes', WorkerTypes', CoreInv,
         UNCHANGED <<late, dcm>>, NEW f \in Nat, NEW w \in Nat, NEW h \in Nat,
         f = Count(m_free_cores', session'), w = Cardinality(Wanted(updates')),
         h = Held',
         f + w + h <= Count(m_free_cores, session) + Cardinality(Wanted(updates)) + Held
  PROVE  CoreInv'
<1>1. Owed' = f + w + h
  BY DEF Owed
<1>2. Owed' <= Owed
  BY <1>1 DEF Owed
<1>3. QED
  BY <1>2, CoreKeep

(* The steps of the DCM's threads preserve CoreInv.                        *)
LEMMA CoreDcmStep ==
  ASSUME TypeInv, TypeInv', CoreInv, DcmStep
  PROVE  CoreInv'
<1> USE DEF queueVars, sessionVars, mixVars
<1>0. QueueTypes /\ QueueTypes' /\ WorkerTypes /\ WorkerTypes'
  BY DEF TypeInv
<1>1. UNCHANGED <<m_free_cores, session, posted, late, dcm>>
  BY DEF DcmStep, DcmTake, DcmAnswer, DcmBuilt
<1> DEFINE f == Count(m_free_cores, session)
           w == Cardinality(Wanted(updates))
<1>2. f \in Nat /\ w \in Nat /\ Count(m_free_cores', session') = f
  BY <1>0, <1>1, OwedTypes
<1>3. CASE DcmTake
  <2>1. /\ m_assigned_l1ids # <<>> /\ m_assigned_l1ids' = Tail(m_assigned_l1ids)
        /\ working' = Append(working, Head(m_assigned_l1ids))
        /\ UNCHANGED <<building, updates>>
    BY <1>3 DEF DcmTake
  <2>2. /\ Len(m_assigned_l1ids') = Len(m_assigned_l1ids) - 1
        /\ Head(m_assigned_l1ids) \in Events
    BY <1>0, <2>1, TailFacts DEF QueueTypes
  <2>3. Len(working') = Len(working) + 1
    BY <1>0, <2>1, <2>2, AppendFacts DEF WorkerTypes
  <2>4. Held' = Held
    BY <1>0, <1>1, <2>1, <2>2, <2>3, OwedTypes DEF Held
  <2>5. Owed' = Owed
    BY <1>1, <2>1, <2>4 DEF Owed
  <2>6. Owed' <= Owed
    BY <1>0, <2>5, OwedTypes
  <2>7. QED
    BY <1>0, <1>1, <2>6, CoreKeep
<1>4. CASE DcmAnswer
  <2>1. PICK i \in DOMAIN working, n \in {0, 1} :
          /\ working' = RemoveAt(working, i)
          /\ building' = building + (1 - n)
          /\ [event |-> working[i], request |-> n] \in Update
          /\ updates' = Append(updates, [event |-> working[i], request |-> n])
    <3>1. PICK i \in DOMAIN working :
            /\ working' = RemoveAt(working, i)
            /\ \/ /\ building' = building
                  /\ updates' = Append(updates, [event |-> working[i], request |-> 1])
               \/ /\ building' = building + 1
                  /\ updates' = Append(updates, [event |-> working[i], request |-> 0])
            /\ [event |-> working[i], request |-> 1] \in Update
            /\ [event |-> working[i], request |-> 0] \in Update
      BY <1>4, AnswerIs
    <3>2. building + (1 - 1) = building /\ building + (1 - 0) = building + 1
      BY <1>0, OwedTypes
    <3>3. QED
      BY <3>1, <3>2
  <2>2. m_assigned_l1ids' = m_assigned_l1ids
    BY <1>4 DEF DcmAnswer
  <2>3. Len(working') = Len(working) - 1
    BY <1>0, <2>1, RemoveAtFacts DEF WorkerTypes
  <2>4. Cardinality(Wanted(updates')) <= w + n
    BY <1>0, <2>1, WantedAppend DEF QueueTypes
  <2>5. Held' = Held - n
    <3>1. Held' = Len(posted) + Len(m_assigned_l1ids) + (Len(working) - 1)
                    + (building + (1 - n))
      BY <1>1, <2>1, <2>2, <2>3 DEF Held
    <3>2. /\ Len(posted) \in Nat /\ Len(m_assigned_l1ids) \in Nat
          /\ Len(working) \in Nat /\ building \in Nat
      BY <1>0, OwedTypes
    <3>3. QED
      BY <3>1, <3>2 DEF Held
  <2>6. Cardinality(Wanted(updates')) \in Nat /\ Held' \in Nat /\ Held \in Nat
    BY <1>0, OwedTypes, OwedTypesNext
  <2>7. f + Cardinality(Wanted(updates')) + Held' <= f + w + Held
    BY <1>2, <2>4, <2>5, <2>6
  <2>8. QED
    BY <1>0, <1>1, <1>2, <2>6, <2>7, TokensMove
<1>5. CASE DcmBuilt
  <2>1. /\ building' = building - 1
        /\ UNCHANGED <<m_assigned_l1ids, working>>
    BY <1>5 DEF DcmBuilt
  <2>2. Cardinality(Wanted(updates')) <= w + 1
    BY <1>0, <1>5, BuiltIs, WantedAppend DEF QueueTypes
  <2>3. Held' = Held - 1
    BY <1>0, <1>1, <2>1, OwedTypes DEF Held
  <2>4. Cardinality(Wanted(updates')) \in Nat /\ Held' \in Nat /\ Held \in Nat
    BY <1>0, OwedTypes, OwedTypesNext
  <2>5. f + Cardinality(Wanted(updates')) + Held' <= f + w + Held
    BY <1>2, <2>2, <2>3, <2>4
  <2>6. QED
    BY <1>0, <1>1, <1>2, <2>4, <2>5, TokensMove
<1>6. QED
  BY <1>3, <1>4, <1>5 DEF DcmStep

(* Every step preserves CoreInv.                                           *)
LEMMA CoreStep ==
  ASSUME TypeInv, CoreInv, [Next]_vars
  PROVE  CoreInv'
<1> USE DEF partitionVars, threadVars, queueVars, sessionVars, dcmVars, workerVars, mixVars
<1>0. QueueTypes /\ QueueTypes' /\ WorkerTypes /\ WorkerTypes' /\ ThreadTypes
  BY TypeStep DEF TypeInv
<1> DEFINE tokenVars == <<m_free_cores, session, updates, posted, m_assigned_l1ids,
                          working, building>>
<1>1. ASSUME UNCHANGED tokenVars PROVE Owed' <= Owed
  <2>1. Owed' = Owed
    BY <1>1 DEF Owed, Held
  <2>2. QED
    BY <1>0, <2>1, OwedTypes
<1>2. CASE \/ connect \/ prepareForRun \/ stopDC \/ disconnect \/ GetResult \/ LeaveThread
           \/ StopRunning \/ Join \/ Publish \/ OnSendError \/ Expire \/ UNCHANGED vars
           \/ \E t \in Threads : PushEvents(t)
  <2>1. UNCHANGED <<tokenVars, late, dcm>>
    <3>1. CASE connect \/ prepareForRun \/ stopDC \/ disconnect \/ GetResult \/ LeaveThread
      BY <3>1 DEF connect, prepareForRun, stopDC, disconnect, GetResult, LeaveThread
    <3>2. CASE \/ StopRunning \/ Join \/ Publish \/ OnSendError \/ Expire \/ UNCHANGED vars
               \/ \E t \in Threads : PushEvents(t)
      BY <3>2 DEF StopRunning, Join, Publish, OnSendError, Expire, vars, PushEvents
    <3>3. QED
      BY <1>2, <3>1, <3>2
  <2>2. QED
    BY <1>0, <1>1, <2>1, CoreKeep
<1>3. CASE DcmStop \/ DcmJoin
  <2>1. UNCHANGED <<tokenVars, late>> /\ dcm' \in {"stopping", "stopped"}
    BY <1>3 DEF DcmStop, DcmJoin
  <2>2. QED
    BY <1>0, <1>1, <2>1, CoreKeep
<1>4. CASE configure
  <2>1. /\ m_free_cores' = <<>>
        /\ UNCHANGED <<session, updates, posted, m_assigned_l1ids, working, building,
                       late, dcm>>
    BY <1>4 DEF configure, reset
  <2>2. Held' = Held
    BY <2>1 DEF Held
  <2>3. Owed' <= Owed
    BY <1>0, <2>1, <2>2, NothingOwed, OwedTypes DEF Owed
  <2>4. QED
    BY <1>0, <2>1, <2>3, CoreKeep
<1>5. CASE stopRecording
  <2>1. /\ m_free_cores' = <<>> /\ dcm' \notin {"running", "stopping", "stopped"}
        /\ UNCHANGED <<session, updates, posted, m_assigned_l1ids, working, building>>
        /\ late' = Requested + Held
    BY <1>0, <1>5 DEF stopRecording, reset, QueueTypes
  <2>2. Held' = Held
    BY <2>1 DEF Held
  <2>3. Owed' = Cardinality(Wanted(updates)) + Held
    BY <1>0, <2>1, <2>2, NothingOwed, OwedTypes DEF Owed
  <2>4. Requested = Cardinality(Wanted(updates))
    BY DEF Requested, Requests, Wanted
  <2>5. late' \in Nat /\ Owed' <= late'
    BY <1>0, <2>1, <2>3, <2>4, OwedTypes
  <2>6. Allowed' = late'
    BY <2>1, <2>5 DEF Allowed
  <2>7. QED
    BY <2>5, <2>6 DEF CoreInv
<1>6. CASE unconfigure \/ Crash \/ DcmDisconnect
  <2>1. session' = 0 /\ posted' = <<>> /\ DcmGone /\ late' = 0
    BY <1>6 DEF unconfigure, Crash, DcmDisconnect, NoConnection
  <2>2. QED
    BY <1>0, <2>1, GoneCores
<1>7. ASSUME NEW t \in Threads, PopCore(t) PROVE CoreInv'
  <2> DEFINE k == IF Head(m_free_cores) = session THEN 1 ELSE 0
  <2>1. /\ m_free_cores # <<>> /\ m_free_cores' = Tail(m_free_cores)
        /\ UNCHANGED <<session, updates, m_assigned_l1ids, working, building, late, dcm>>
        /\ \/ Head(m_free_cores) # session /\ posted' = posted
           \/ Head(m_free_cores) = session /\ posted' = Append(posted, hand[t])
    BY <1>7 DEF PopCore
  <2>2. hand[t] \in Events
    BY <1>0, <1>7 DEF PopCore, ThreadTypes
  <2>3. Len(posted') = Len(posted) + k
    <3>1. CASE Head(m_free_cores) = session
      BY <1>0, <2>1, <2>2, <3>1, AppendFacts DEF QueueTypes
    <3>2. CASE Head(m_free_cores) # session
      BY <1>0, <2>1, <3>2, OwedTypes
    <3>3. QED
      BY <3>1, <3>2
  <2>4. Count(m_free_cores', session') = Count(m_free_cores, session) - k
    BY <1>0, <2>1, CountTail DEF QueueTypes
  <2>5. k \in Nat
    OBVIOUS
  <2> HIDE DEF k
  <2>6. Held' = Held + k
    BY <1>0, <2>1, <2>3, <2>5, OwedTypes DEF Held
  <2>7. Owed' <= Owed
    BY <1>0, <2>1, <2>4, <2>5, <2>6, OwedTypes DEF Owed
  <2>8. QED
    BY <1>0, <2>1, <2>7, CoreKeep
<1>8. CASE RunHandle
  <2>1. /\ posted # <<>> /\ posted' = Tail(posted)
        /\ m_assigned_l1ids' = Append(m_assigned_l1ids, Head(posted))
        /\ UNCHANGED <<m_free_cores, session, updates, working, building, late, dcm>>
    BY <1>8 DEF RunHandle
  <2>2. Len(posted') = Len(posted) - 1 /\ Head(posted) \in Events
    BY <1>0, <2>1, TailFacts DEF QueueTypes
  <2>3. Len(m_assigned_l1ids') = Len(m_assigned_l1ids) + 1
    BY <1>0, <2>1, <2>2, AppendFacts DEF QueueTypes
  <2>4. Held' = Held
    BY <1>0, <2>1, <2>2, <2>3, OwedTypes DEF Held
  <2>5. Owed' = Owed
    BY <2>1, <2>4 DEF Owed
  <2>6. Owed' <= Owed
    BY <1>0, <2>5, OwedTypes
  <2>7. QED
    BY <1>0, <2>1, <2>6, CoreKeep
<1>9. CASE onReceive
  <2>1. /\ updates # <<>> /\ updates' = Tail(updates) /\ RequestEvents(Head(updates))
        /\ UNCHANGED <<session, posted, m_assigned_l1ids, working, building, late, dcm>>
    BY <1>9 DEF onReceive
  <2>2. PICK r \in Seq(1..MaxSessions) :
          m_free_cores' = m_free_cores \o r /\ Len(r) = Head(updates).request
    BY <2>1, CoresAdded
  <2>3. Count(m_free_cores', session') <= Count(m_free_cores, session) + Len(r)
    BY <1>0, <2>1, <2>2, CountConcat DEF QueueTypes
  <2>4. /\ Head(updates).request \in Nat
        /\ Cardinality(Wanted(updates')) = Cardinality(Wanted(updates)) - Head(updates).request
    BY <1>0, <2>1, WantedTail DEF QueueTypes
  <2>5. Held' = Held
    BY <2>1 DEF Held
  <2>6. Owed' <= Owed
    <3>1. Count(m_free_cores', session') \in Nat
      BY <1>0, OwedTypesNext
    <3>2. /\ Count(m_free_cores, session) \in Nat
          /\ Cardinality(Wanted(updates)) \in Nat /\ Held \in Nat
      BY <1>0, OwedTypes
    <3>3. Len(r) = Head(updates).request
      BY <2>2
    <3>4. Count(m_free_cores', session') + Cardinality(Wanted(updates')) + Held'
            <= Count(m_free_cores, session) + Cardinality(Wanted(updates)) + Held
      BY <2>3, <2>4, <2>5, <3>1, <3>2, <3>3
    <3>5. QED
      BY <3>4 DEF Owed
  <2>7. QED
    BY <1>0, <2>1, <2>6, CoreKeep
<1>10. CASE DcmConnect
  <2>1. /\ session' = sessions + 1 /\ dcm = "down"
        /\ UNCHANGED <<m_free_cores, updates, posted, m_assigned_l1ids, working, building,
                       late>>
    BY <1>10 DEF DcmConnect
  <2>2. session' \notin ToSet(m_free_cores)
    BY <1>0, <2>1 DEF QueueTypes
  <2>3. Count(m_free_cores', session') = 0
    BY <1>0, <2>1, <2>2, CountType DEF QueueTypes
  <2>4. Held' = Held
    BY <2>1 DEF Held
  <2>5. Owed' <= Owed
    BY <1>0, <2>1, <2>3, <2>4, OwedTypes DEF Owed
  <2>6. QED
    BY <1>0, <2>1, <2>5, CoreKeep
<1>11. CASE DcmPrepareForRun
  <2>1. /\ updates' = Append(updates, [event |-> NoEvent, request |-> Cores])
        /\ dcm = "connected" /\ dcm' = "running"
        /\ UNCHANGED <<m_free_cores, session, posted, m_assigned_l1ids, working, building,
                       late>>
    BY <1>11 DEF DcmPrepareForRun
  <2>2. [event |-> NoEvent, request |-> Cores] \in Update
    BY RunsAssumption DEF Update
  <2>3. Cardinality(Wanted(updates')) <= Cardinality(Wanted(updates)) + Cores
    BY <1>0, <2>1, <2>2, WantedAppend DEF QueueTypes
  <2>4. Held' = Held
    BY <2>1 DEF Held
  <2>5. Owed' <= Owed + Cores
    <3>1. Cardinality(Wanted(updates')) \in Nat
      BY <1>0, OwedTypesNext
    <3>2. QED
      BY <1>0, <2>1, <2>3, <2>4, <3>1, OwedTypes DEF Owed
  <2>6. Allowed = late /\ Allowed' = Cores + late
    BY <1>0, <2>1, OwedTypes DEF Allowed, CoreInv
  <2>7. Owed' \in Nat
    BY <1>0, OwedTypesNext
  <2>8. QED
    BY <1>0, <2>1, <2>5, <2>6, <2>7, OwedTypes DEF CoreInv
<1>12. CASE DcmStep
  BY <1>12, TypeStep, CoreDcmStep
<1>13. QED
  BY <1>2, <1>3, <1>4, <1>5, <1>6, <1>7, <1>8, <1>9, <1>10, <1>11, <1>12, NextCases
     DEF Transition, ThreadStep, Bystander

(* The DCM is never owed more events than it has cores, but for what the   *)
(* last reset forgot: for any number of cores, runs, events, reconnections *)
(* and crashes, and any order of the DCM's stop and the supervisor's.      *)
THEOREM CoresNeverAnnouncedTwice == Spec => []CoresAnnouncedOnce
<1>1. Init => TypeInv /\ CoreInv
  BY TypeInit, CoreInit
<1>2. TypeInv /\ CoreInv /\ [Next]_vars => (TypeInv /\ CoreInv)'
  BY TypeStep, CoreStep
<1>3. TypeInv /\ CoreInv => CoresAnnouncedOnce
  BY CoresAnnouncedOnceIs DEF TypeInv
<1>4. QED
  BY <1>1, <1>2, <1>3, PTL DEF Spec
=============================================================================
