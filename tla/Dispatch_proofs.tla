-------------------------- MODULE Dispatch_proofs ---------------------------
(***************************************************************************)
(* Proofs about Dispatch, for any number of sessions, cores, events,       *)
(* failures and timeouts.  Three inductive invariants, each resting on the *)
(* one before: TypeOK; SingleOwner, which ties the history variable owner  *)
(* to the containers of the code; and SentOnceOK, which adds to            *)
(* ProcessedOnceClearedOnce that an event sent and not yet re-assigned is  *)
(* still with the session that sent it.                                    *)
(*                                                                         *)
(* About the sessions: one in error keeps no event for good, and no DCM is *)
(* given more events than it has cores.  About the life of an event:       *)
(* Dispatch implements EventLife, and no step touches an event that has    *)
(* been cleared; both rest on the list of the moves an event can make      *)
(* (Moves), which follows from SingleOwner.                                *)
(***************************************************************************)
EXTENDS Dispatch, SequenceTheorems, FiniteSetTheorems, TLAPS

(* The first element of a queue and what is left of it. *)
LEMMA TailType ==
  ASSUME NEW S, NEW q \in Seq(S), q # <<>>
  PROVE  Tail(q) \in Seq(S) /\ Head(q) \in S
OBVIOUS

(* Erasing position k of a list, as onReceive does with m_events. *)
LEMMA RemoveAtFacts ==
  ASSUME NEW S, NEW q \in Seq(S), NEW k \in 1..Len(q)
  PROVE  /\ RemoveAt(q, k) \in Seq(S)
         /\ Len(RemoveAt(q, k)) = Len(q) - 1
         /\ \A j \in 1..(Len(q) - 1) :
              RemoveAt(q, k)[j] = IF j < k THEN q[j] ELSE q[j + 1]
<1> DEFINE a == SubSeq(q, 1, k - 1)
           b == SubSeq(q, k + 1, Len(q))
<1>1. /\ a \in Seq(S) /\ Len(a) = k - 1
      /\ \A j \in 1..(k - 1) : a[j] = q[j]
  BY SubSeqProperties
<1>2. /\ b \in Seq(S) /\ Len(b) = Len(q) - k
      /\ \A j \in 1..(Len(q) - k) : b[j] = q[k + j]
  <2>1. CASE k < Len(q)
    BY <2>1, SubSeqProperties
  <2>2. CASE k = Len(q)
    BY <2>2, SubSeqEmpty
  <2>3. QED
    BY <2>1, <2>2
<1>3. RemoveAt(q, k) = a \o b
  BY DEF RemoveAt
<1> HIDE DEF a, b
<1>4. /\ a \o b \in Seq(S) /\ Len(a \o b) = Len(q) - 1
  <2>1. a \o b \in Seq(S) /\ Len(a \o b) = Len(a) + Len(b)
    BY <1>1, <1>2, ConcatProperties
  <2>2. QED
    BY <1>1, <1>2, <2>1
<1>5. ASSUME NEW j \in 1..(Len(q) - 1)
      PROVE  (a \o b)[j] = IF j < k THEN q[j] ELSE q[j + 1]
  <2>1. CASE j < k
    BY <2>1, <1>1, <1>2, ConcatProperties
  <2>2. CASE ~(j < k)
    <3>1. (a \o b)[j] = b[j - (k - 1)]
      BY <2>2, <1>1, <1>2, ConcatProperties
    <3>2. b[j - (k - 1)] = q[k + (j - (k - 1))]
      BY <2>2, <1>2
    <3>3. k + (j - (k - 1)) = j + 1
      OBVIOUS
    <3>4. QED
      BY <2>2, <3>1, <3>2, <3>3
  <2>3. QED
    BY <2>1, <2>2
<1>6. QED
  BY <1>3, <1>4, <1>5

-----------------------------------------------------------------------------
(* Type correctness, one lemma for each group of variables. *)

(* TypeOK holds when the program starts. *)
LEMMA TypeInit == Init => TypeOK
BY ConstantsAssumption
   DEF Init, TypeOK, ThreadsOK, SchedulerOK, SessionsOK, Threads, L1, RC, PCs,
       Scheduling, NoEvent, Events, Places, AtSource

(* Only the steps of the two threads change the variables of the threads. *)
LEMMA StrandsLeaveThreads ==
  ASSUME NEW s \in Sessions,
         \/ StrandStep(s) \/ OnOpen(s) \/ OnOpenError(s) \/ Break(s)
  PROVE  UNCHANGED threadVars
BY DEF StrandStep, OnOpen, OnOpenError, Break, RunUndecodable, RunHandle,
       OnReceiveRequest, OnReceiveFinished, PushFreeCore, Expire,
       OnReceiveError, OnSendError, Unload, OnClose, OnCloseError

(* Where the L1 and the run-control thread are, and what they hold in their *)
(* hands there, through every step.                                        *)
LEMMA ThreadsStep ==
  ASSUME TypeOK, [Next]_vars
  PROVE  ThreadsOK'
<1> USE ConstantsAssumption
    DEF TypeOK, ThreadsOK, Goto, Threads, L1, RC, PCs, Scheduling
<1>1. CASE L1Loop
  BY <1>1 DEF L1Loop
<1>2. CASE GetResult
  BY <1>2 DEF GetResult
<1>3. CASE NoResult
  BY <1>3 DEF NoResult
<1>4. ASSUME NEW t \in Threads, TryPopReassigned(t) PROVE ThreadsOK'
  <2>1. Head(reassigned_events) \in Events
    BY <1>4, TailType DEF TryPopReassigned, SchedulerOK
  <2>2. Head(reassigned_events) # NoEvent
    BY <2>1 DEF Events, NoEvent
  <2>3. QED
    BY <1>4, <2>1, <2>2 DEF TryPopReassigned
<1>5. ASSUME NEW t \in Threads, PushEventsDone(t) PROVE ThreadsOK'
  BY <1>5 DEF PushEventsDone
<1>6. ASSUME NEW t \in Threads, PopCore(t) PROVE ThreadsOK'
  BY <1>6 DEF PopCore, SchedulerOK
<1>7. ASSUME NEW t \in Threads, AfterOffer(t), pc[t] \in {"pushHandle", "handle"},
             UNCHANGED <<running, taken>>
      PROVE  ThreadsOK'
  BY <1>7 DEF AfterOffer, NoEvent
<1>8. ASSUME NEW t \in Threads, Accept(t) \/ Refuse(t) PROVE ThreadsOK'
  BY <1>7, <1>8 DEF Accept, Refuse
<1>9. CASE StopDC
  BY <1>9 DEF StopDC
<1>10. CASE StopRunning
  BY <1>10 DEF StopRunning
<1>11. CASE JoinL1
  BY <1>11 DEF JoinL1
<1>12. CASE StopRecording
  BY <1>12 DEF StopRecording
<1>13. CASE UNCHANGED threadVars
  BY <1>13 DEF threadVars
<1>14. CASE UNCHANGED vars
  BY <1>13, <1>14 DEF vars, threadVars
<1>15. QED
  BY <1>1, <1>2, <1>3, <1>4, <1>5, <1>6, <1>8, <1>9, <1>10, <1>11, <1>12,
     <1>13, <1>14, StrandsLeaveThreads
     DEF Next, L1Step, RCStep, ThreadStep

(* A thread that calls handle_event has an event and a session for it. *)
LEMMA OfferedIsEvent ==
  ASSUME TypeOK, NEW t \in Threads, pc[t] \in {"pushHandle", "handle"}
  PROVE  Offered(t) \in Events /\ core[t] \in Sessions
BY ConstantsAssumption
   DEF TypeOK, ThreadsOK, Offered, Events, NoEvent, Threads, L1, RC, PCs, Scheduling

(* The places an owner can be are Places. *)
LEMMA PlacesHold ==
  /\ {AtSource, Queued, Cleared, Lost, Undecoded, Discarded} \subseteq Places
  /\ \A t \in Threads : InHand(t) \in Places
  /\ \A s \in Sessions : OnStrand(s) \in Places /\ Listed(s) \in Places
BY DEF Places

(* reassign_event keeps the types of what it changes. *)
LEMMA ReassignType ==
  ASSUME TypeOK, NEW s \in Sessions, ReassignFirst(s)
  PROVE  /\ reassigned_events' \in Seq(Events)
         /\ owner' \in [Events -> Places]
         /\ resends' \in [Events -> Nat]
         /\ events' \in [Sessions -> Seq(Events)]
<1>1. events[s] \in Seq(Events) /\ events[s] # <<>>
  BY DEF TypeOK, SessionsOK, ReassignFirst
<1>2. Head(events[s]) \in Events /\ Tail(events[s]) \in Seq(Events)
  BY <1>1, TailType
<1>3. reassigned_events' \in Seq(Events)
  BY <1>2 DEF TypeOK, SchedulerOK, ReassignFirst
<1>4. resends' \in [Events -> Nat]
  <2> DEFINE e == Head(events[s])
  <2>1. e \in Events
    BY <1>2
  <2>2. resends' = [resends EXCEPT ![e] = resends[e] + 1]
    BY DEF ReassignFirst
  <2>3. resends \in [Events -> Nat]
    BY DEF TypeOK, SchedulerOK
  <2> HIDE DEF e
  <2>4. QED
    BY <2>1, <2>2, <2>3
<1>5. owner' \in [Events -> Places]
  BY <1>2, PlacesHold DEF TypeOK, SchedulerOK, ReassignFirst
<1>6. events' \in [Sessions -> Seq(Events)]
  BY <1>2 DEF TypeOK, SessionsOK, ReassignFirst
<1>7. QED
  BY <1>3, <1>4, <1>5, <1>6

(* The types of the scheduler and of the data of the events, through every *)
(* step.                                                                   *)
LEMMA SchedulerStep ==
  ASSUME TypeOK, [Next]_vars
  PROVE  SchedulerOK'
<1> USE DEF TypeOK, SchedulerOK
<1>1. CASE L1Loop \/ NoResult \/ StopDC \/ StopRunning \/ JoinL1
  BY <1>1 DEF L1Loop, NoResult, StopDC, StopRunning, JoinL1, historyVars
<1>2. CASE GetResult
  BY <1>2, PlacesHold DEF GetResult, historyVars, Threads
<1>3. CASE StopRecording
  BY <1>3, PlacesHold DEF StopRecording, historyVars
<1>4. ASSUME NEW t \in Threads, TryPopReassigned(t) PROVE SchedulerOK'
  BY <1>4, PlacesHold, TailType DEF TryPopReassigned, historyVars
<1>5. ASSUME NEW t \in Threads, PushEventsDone(t) PROVE SchedulerOK'
  BY <1>5 DEF PushEventsDone, historyVars
<1>6. ASSUME NEW t \in Threads, PopCore(t) PROVE SchedulerOK'
  BY <1>6, TailType DEF PopCore, historyVars
<1>7. ASSUME NEW t \in Threads, Accept(t) PROVE SchedulerOK'
  BY <1>7, PlacesHold, OfferedIsEvent DEF Accept, historyVars
<1>8. ASSUME NEW t \in Threads, Refuse(t) PROVE SchedulerOK'
  BY <1>8, PlacesHold DEF Refuse, historyVars
<1>9. ASSUME NEW s \in Sessions,
             \/ OnOpen(s) \/ OnReceiveRequest(s) \/ OnReceiveError(s)
             \/ OnSendError(s) \/ OnClose(s) \/ OnOpenError(s)
             \/ OnCloseError(s) \/ Break(s)
      PROVE  SchedulerOK'
  BY <1>9 DEF OnOpen, OnReceiveRequest, OnReceiveError, OnSendError, OnClose,
              OnOpenError, OnCloseError, Break, historyVars
<1>10. ASSUME NEW s \in Sessions, RunUndecodable(s) PROVE SchedulerOK'
  BY <1>10, PlacesHold DEF RunUndecodable, historyVars
<1>11. ASSUME NEW s \in Sessions, RunHandle(s) PROVE SchedulerOK'
  <2>1. UNCHANGED <<free_cores, reassigned_events, ProcessedEvents, resends, clears>>
    BY <1>11 DEF RunHandle
  <2>2. owner' \in [Events -> Places]
    BY <1>11, PlacesHold DEF RunHandle
  <2>3. process_sends' \in [Events -> Nat]
    <3> DEFINE e == Head(posted[s])
    <3>1. e \in Events
      BY <1>11, TailType DEF RunHandle, SessionsOK
    <3>2. process_sends' = [process_sends EXCEPT ![e] =
                              IF resends[e] = 0 THEN @ + 1 ELSE @]
      BY <1>11 DEF RunHandle
    <3> HIDE DEF e
    <3>3. QED
      BY <3>1, <3>2
  <2>4. QED
    BY <2>1, <2>2, <2>3
<1>12. ASSUME NEW s \in Sessions, OnReceiveFinished(s) PROVE SchedulerOK'
  <2>1. UNCHANGED <<free_cores, reassigned_events, resends, process_sends>>
    BY <1>12 DEF OnReceiveFinished
  <2>2. ProcessedEvents' \in Nat
    BY <1>12 DEF OnReceiveFinished
  <2>3. PICK e \in Events : FindAndClear(s, e)
    BY <1>12 DEF OnReceiveFinished, SessionsOK
  <2>4. owner' \in [Events -> Places]
    BY <2>3, PlacesHold DEF FindAndClear
  <2>5. clears' \in [Events -> Nat]
    <3>1. \/ clears' = [clears EXCEPT ![e] = clears[e] + 1]
          \/ UNCHANGED clears
      BY <2>3 DEF FindAndClear
    <3>2. QED
      BY <3>1
  <2>6. QED
    BY <2>1, <2>2, <2>4, <2>5
<1>13. ASSUME NEW s \in Sessions, PushFreeCore(s) PROVE SchedulerOK'
  BY <1>13 DEF PushFreeCore, historyVars
<1>14. ASSUME NEW s \in Sessions, Expire(s) \/ Unload(s) PROVE SchedulerOK'
  <2>1. UNCHANGED <<free_cores, ProcessedEvents, clears, process_sends>>
    BY <1>14 DEF Expire, Unload, historyVars
  <2>2. ReassignFirst(s)
    BY <1>14 DEF Expire, Unload
  <2>3. /\ reassigned_events' \in Seq(Events)
        /\ owner' \in [Events -> Places]
        /\ resends' \in [Events -> Nat]
    BY <2>2, ReassignType
  <2>4. QED
    BY <2>1, <2>3
<1>15. CASE UNCHANGED vars
  BY <1>15 DEF vars
<1>16. QED
  BY <1>1, <1>2, <1>3, <1>4, <1>5, <1>6, <1>7, <1>8, <1>9, <1>10, <1>11,
     <1>12, <1>13, <1>14, <1>15
     DEF Next, L1Step, RCStep, ThreadStep, StrandStep, Threads

(* What an event that a DCM reports does to the session it came from. *)
LEMMA FindAndClearType ==
  ASSUME TypeOK, NEW s \in Sessions, NEW e, FindAndClear(s, e)
  PROVE  events' \in [Sessions -> Seq(Events)]
<1>1. events[s] \in Seq(Events) /\ events \in [Sessions -> Seq(Events)]
  BY DEF TypeOK, SessionsOK
<1>2. ASSUME NEW i \in DOMAIN events[s],
             events' = [events EXCEPT ![s] = RemoveAt(events[s], i)]
      PROVE  events' \in [Sessions -> Seq(Events)]
  <2>1. i \in 1..Len(events[s])
    BY <1>1
  <2>2. RemoveAt(events[s], i) \in Seq(Events)
    BY <1>1, <2>1, RemoveAtFacts
  <2>3. QED
    BY <1>1, <1>2, <2>2
<1>3. QED
  BY <1>1, <1>2 DEF FindAndClear

(* The types of the sessions and of the DCMs, through every step. *)
LEMMA SessionsStep ==
  ASSUME TypeOK, [Next]_vars
  PROVE  SessionsOK'
<1> USE DEF TypeOK, SessionsOK
<1>1. CASE \/ L1Loop \/ GetResult \/ NoResult
           \/ StopDC \/ StopRunning \/ JoinL1 \/ StopRecording
  BY <1>1 DEF L1Loop, GetResult, NoResult, StopDC, StopRunning, JoinL1,
              StopRecording, strandVars, dcmVars
<1>2. ASSUME NEW t \in Threads,
             \/ TryPopReassigned(t) \/ PushEventsDone(t) \/ PopCore(t)
             \/ Refuse(t)
      PROVE  SessionsOK'
  BY <1>2 DEF TryPopReassigned, PushEventsDone, PopCore, Refuse, strandVars,
              dcmVars
<1>3. ASSUME NEW t \in Threads, Accept(t) PROVE SessionsOK'
  <2>1. Offered(t) \in Events /\ core[t] \in Sessions
    BY <1>3, OfferedIsEvent DEF Accept
  <2>2. posted' = [posted EXCEPT ![core[t]] = Append(@, Offered(t))]
    BY <1>3 DEF Accept
  <2>3. posted' \in [Sessions -> Seq(Events)]
    BY <2>1, <2>2
  <2>4. UNCHANGED <<strandVars, events, requests, dcmVars>>
    BY <1>3 DEF Accept
  <2>5. QED
    BY <2>3, <2>4 DEF strandVars, dcmVars
<1>4. ASSUME NEW s \in Sessions, OnOpen(s) PROVE SessionsOK'
  BY <1>4 DEF OnOpen, dcmVars
<1>5. ASSUME NEW s \in Sessions, RunUndecodable(s) PROVE SessionsOK'
  BY <1>5, TailType DEF RunUndecodable, strandVars, dcmVars
<1>6. ASSUME NEW s \in Sessions, RunHandle(s) PROVE SessionsOK'
  <2> DEFINE e == Head(posted[s])
  <2>1. e \in Events /\ Tail(posted[s]) \in Seq(Events)
    BY <1>6, TailType DEF RunHandle
  <2>2. UNCHANGED <<link, in_error, timer_on, receiving, unloading, requests,
                    idle, breaks>>
    BY <1>6 DEF RunHandle
  <2>3. /\ posted' = [posted EXCEPT ![s] = Tail(@)]
        /\ events' = [events EXCEPT ![s] = Append(@, e)]
        /\ AsyncSend(s, e)
    BY <1>6 DEF RunHandle
  <2> HIDE DEF e
  <2>4. resends[e] \in Nat
    BY <2>1 DEF SchedulerOK
  <2>5. work' \in [Sessions -> SUBSET (Events \X Nat)]
    <3> DEFINE m == <<e, resends[e]>>
    <3>1. m \in Events \X Nat
      BY <2>1, <2>4
    <3>2. \/ work' = [work EXCEPT ![s] = @ \cup {m}]
          \/ UNCHANGED work
      BY <2>3 DEF AsyncSend
    <3> HIDE DEF m
    <3>3. CASE work' = [work EXCEPT ![s] = work[s] \cup {m}]
      <4>1. work[s] \cup {m} \in SUBSET (Events \X Nat)
        BY <3>1
      <4>2. QED
        BY <3>3, <4>1
    <3>4. QED
      BY <3>2, <3>3
  <2>6. failed_sends' \in [Sessions -> Nat]
    BY <2>3 DEF AsyncSend
  <2>7. posted' \in [Sessions -> Seq(Events)] /\ events' \in [Sessions -> Seq(Events)]
    BY <2>1, <2>3
  <2>8. QED
    BY <2>2, <2>5, <2>6, <2>7
<1>7. ASSUME NEW s \in Sessions, OnReceiveRequest(s) PROVE SessionsOK'
  BY <1>7 DEF OnReceiveRequest, strandVars
<1>8. ASSUME NEW s \in Sessions, OnReceiveFinished(s) PROVE SessionsOK'
  <2>1. UNCHANGED <<link, in_error, posted, timer_on, receiving, failed_sends,
                    unloading, breaks>>
    BY <1>8 DEF OnReceiveFinished, strandVars
  <2>2. PICK m \in work[s], n \in 0..(idle[s] + 1) :
          /\ work' = [work EXCEPT ![s] = @ \ {m}]
          /\ idle' = [idle EXCEPT ![s] = @ + 1 - n]
          /\ requests' = [requests EXCEPT ![s] = n]
          /\ FindAndClear(s, m[1])
    BY <1>8 DEF OnReceiveFinished
  <2>3. events' \in [Sessions -> Seq(Events)]
    BY <2>2, FindAndClearType
  <2>4. work' \in [Sessions -> SUBSET (Events \X Nat)]
    BY <2>2
  <2>5. idle' \in [Sessions -> Nat] /\ requests' \in [Sessions -> Nat]
    BY <2>2
  <2>6. QED
    BY <2>1, <2>3, <2>4, <2>5
<1>9. ASSUME NEW s \in Sessions, PushFreeCore(s) PROVE SessionsOK'
  BY <1>9 DEF PushFreeCore, strandVars, dcmVars
<1>10. ASSUME NEW s \in Sessions, Expire(s) PROVE SessionsOK'
  <2>1. UNCHANGED <<strandVars, posted, requests, dcmVars>> /\ ReassignFirst(s)
    BY <1>10 DEF Expire
  <2>2. events' \in [Sessions -> Seq(Events)]
    BY <2>1, ReassignType
  <2>3. QED
    BY <2>1, <2>2 DEF strandVars, dcmVars
<1>11. ASSUME NEW s \in Sessions, OnReceiveError(s) PROVE SessionsOK'
  BY <1>11 DEF OnReceiveError, Fail, dcmVars
<1>12. ASSUME NEW s \in Sessions, OnSendError(s) PROVE SessionsOK'
  BY <1>12 DEF OnSendError, Fail, dcmVars
<1>13. ASSUME NEW s \in Sessions, Unload(s) PROVE SessionsOK'
  <2>1. /\ UNCHANGED <<link, in_error, posted, timer_on, receiving,
                       failed_sends, requests, dcmVars>>
        /\ unloading' = [unloading EXCEPT ![s] = Tail(events[s]) # <<>>]
        /\ ReassignFirst(s)
    BY <1>13 DEF Unload
  <2>2. events' \in [Sessions -> Seq(Events)]
    BY <2>1, ReassignType
  <2>3. QED
    BY <2>1, <2>2 DEF dcmVars
<1>14. ASSUME NEW s \in Sessions, OnClose(s) PROVE SessionsOK'
  <2>1. PICK fires \in BOOLEAN : timer_on' = [timer_on EXCEPT ![s] = fires]
    BY <1>14 DEF OnClose
  <2>2. link' = [link EXCEPT ![s] = "closed"]
    BY <1>14 DEF OnClose
  <2>3. UNCHANGED <<in_error, posted, events, receiving, failed_sends,
                    unloading, requests, work, idle, breaks>>
    BY <1>14 DEF OnClose, dcmVars
  <2>4. QED
    BY <2>1, <2>2, <2>3
<1>15. ASSUME NEW s \in Sessions, OnOpenError(s) \/ Break(s) PROVE SessionsOK'
  <2>1. breaks' \in 0..MaxBreaks
    BY <1>15, ConstantsAssumption DEF OnOpenError, Break
  <2>2. /\ link' \in [Sessions -> {"new", "open", "broken", "closing", "closed"}]
        /\ in_error' \in [Sessions -> BOOLEAN]
    BY <1>15 DEF OnOpenError, Break
  <2>3. UNCHANGED <<posted, events, timer_on, receiving, failed_sends,
                    unloading, requests, work, idle>>
    BY <1>15 DEF OnOpenError, Break
  <2>4. QED
    BY <2>1, <2>2, <2>3
<1>16. ASSUME NEW s \in Sessions, OnCloseError(s) PROVE SessionsOK'
  BY <1>16 DEF OnCloseError, dcmVars
<1>17. CASE UNCHANGED vars
  BY <1>17 DEF vars
<1>18. QED
  BY <1>1, <1>2, <1>3, <1>4, <1>5, <1>6, <1>7, <1>8, <1>9, <1>10, <1>11,
     <1>12, <1>13, <1>14, <1>15, <1>16, <1>17
     DEF Next, L1Step, RCStep, ThreadStep, StrandStep, Threads

(* The variables of the threads, the scheduler and the sessions keep their *)
(* types, whatever the number of sessions, cores, events and failures.     *)
THEOREM TypeCorrect == Spec => []TypeOK
<1>1. TypeOK /\ [Next]_vars => TypeOK'
  BY ThreadsStep, SchedulerStep, SessionsStep DEF TypeOK
<1>2. QED
  BY TypeInit, <1>1, PTL DEF Spec

-----------------------------------------------------------------------------
(* Every event is in exactly one place.  First, what appending to a queue  *)
(* and removing from it do to IsAt, the relation of a queue to the events  *)
(* whose owner it is.                                                      *)

(* No two places are the same. *)
LEMMA PlacesDiffer ==
  /\ Queued # AtSource
  /\ \A p \in {Cleared, Lost, Undecoded, Discarded} : p # AtSource /\ p # Queued
  /\ \A t \in Threads :
       InHand(t) \notin {AtSource, Queued, Cleared, Lost, Undecoded, Discarded}
  /\ \A s \in Sessions :
       /\ OnStrand(s) \notin {AtSource, Queued, Cleared, Lost, Undecoded, Discarded}
       /\ Listed(s) \notin {AtSource, Queued, Cleared, Lost, Undecoded, Discarded}
  /\ \A t \in Threads, s \in Sessions :
       InHand(t) # OnStrand(s) /\ InHand(t) # Listed(s)
  /\ \A t, u \in Threads : InHand(t) = InHand(u) => t = u
  /\ \A r, s \in Sessions :
       /\ OnStrand(r) # Listed(s)
       /\ OnStrand(r) = OnStrand(s) => r = s
       /\ Listed(r) = Listed(s) => r = s
BY DEF AtSource, InHand, OnStrand, Listed, Queued, Cleared, Lost, Undecoded,
       Discarded

(* An event that comes from another place and goes to another place does   *)
(* not concern the queue.                                                  *)
LEMMA IsAtOther ==
  ASSUME NEW own \in [Events -> Places], NEW q \in Seq(Events), NEW p, NEW r,
         NEW e \in Events, IsAt(own, q, p), own[e] # p, r # p
  PROVE  IsAt([own EXCEPT ![e] = r], q, p)
BY DEF IsAt

(* The last event of a queue is the one that was appended to it. *)
LEMMA IsAtAppend ==
  ASSUME NEW own \in [Events -> Places], NEW q \in Seq(Events), NEW p,
         NEW e \in Events, IsAt(own, q, p), own[e] # p
  PROVE  IsAt([own EXCEPT ![e] = p], Append(q, e), p)
<1>1. ~Contains(q, e) /\ IsInjective(q)
  BY DEF IsAt
<1>2. /\ Append(q, e) \in Seq(Events) /\ Len(Append(q, e)) = Len(q) + 1
      /\ \A i \in 1..Len(q) : Append(q, e)[i] = q[i]
      /\ Append(q, e)[Len(q) + 1] = e
  BY AppendProperties
<1>3. IsInjective(Append(q, e))
  BY <1>1, <1>2 DEF IsInjective, Contains
<1>4. \A x \in Events : Contains(Append(q, e), x) <=> Contains(q, x) \/ x = e
  BY <1>2 DEF Contains
<1>5. QED
  BY <1>3, <1>4 DEF IsAt

(* Taking the event at position k out of a queue leaves the others. *)
LEMMA IsAtRemove ==
  ASSUME NEW own \in [Events -> Places], NEW q \in Seq(Events), NEW p, NEW r,
         NEW k \in 1..Len(q), IsAt(own, q, p), r # p
  PROVE  /\ own[q[k]] = p
         /\ IsAt([own EXCEPT ![q[k]] = r], RemoveAt(q, k), p)
<1> DEFINE w == RemoveAt(q, k)
<1>1. q[k] \in Events /\ Contains(q, q[k])
  BY DEF Contains
<1>2. /\ w \in Seq(Events) /\ Len(w) = Len(q) - 1
      /\ \A j \in 1..(Len(q) - 1) : w[j] = IF j < k THEN q[j] ELSE q[j + 1]
  BY RemoveAtFacts
<1> HIDE DEF w
<1>3. ASSUME NEW i \in 1..Len(q), NEW j \in 1..Len(q), q[i] = q[j] PROVE i = j
  BY <1>3 DEF IsAt, IsInjective
<1> DEFINE at(j) == IF j < k THEN j ELSE j + 1
<1>4. \A j \in 1..(Len(q) - 1) : at(j) \in 1..Len(q) /\ at(j) # k /\ w[j] = q[at(j)]
  BY <1>2
<1>5. \A i, j \in 1..(Len(q) - 1) : at(i) = at(j) => i = j
  OBVIOUS
<1> HIDE DEF at
<1>6. IsInjective(w)
  <2>1. ASSUME NEW i \in 1..(Len(q) - 1), NEW j \in 1..(Len(q) - 1), w[i] = w[j]
        PROVE  i = j
    BY <1>3, <1>4, <1>5, <2>1
  <2>2. DOMAIN w = 1..(Len(q) - 1)
    BY <1>2
  <2>3. QED
    BY <2>1, <2>2 DEF IsInjective
<1>7. ASSUME NEW x \in Events PROVE Contains(w, x) <=> Contains(q, x) /\ x # q[k]
  <2>1. ASSUME Contains(w, x) PROVE Contains(q, x) /\ x # q[k]
    <3>1. PICK j \in 1..(Len(q) - 1) : w[j] = x
      BY <1>2, <2>1 DEF Contains
    <3>2. QED
      BY <1>3, <1>4, <3>1 DEF Contains
  <2>2. ASSUME Contains(q, x), x # q[k] PROVE Contains(w, x)
    <3>1. PICK i \in 1..Len(q) : q[i] = x
      BY <2>2 DEF Contains
    <3>2. CASE i < k
      <4>1. i \in 1..(Len(q) - 1) /\ w[i] = x
        BY <1>2, <3>1, <3>2
      <4>2. QED
        BY <1>2, <4>1 DEF Contains
    <3>3. CASE i > k
      <4>1. i - 1 \in 1..(Len(q) - 1) /\ ~(i - 1 < k)
        BY <3>3
      <4>2. w[i - 1] = x
        BY <1>2, <3>1, <4>1
      <4>3. QED
        BY <1>2, <4>1, <4>2 DEF Contains
    <3>4. QED
      BY <2>2, <3>1, <3>2, <3>3
  <2>3. QED
    BY <2>1, <2>2
<1>8. QED
  BY <1>1, <1>6, <1>7 DEF IsAt, w

(* So does taking the first event out. *)
LEMMA IsAtTail ==
  ASSUME NEW own \in [Events -> Places], NEW q \in Seq(Events), q # <<>>,
         NEW p, NEW r, IsAt(own, q, p), r # p
  PROVE  /\ Head(q) \in Events /\ own[Head(q)] = p
         /\ IsAt([own EXCEPT ![Head(q)] = r], Tail(q), p)
<1>1. 1 \in 1..Len(q) /\ Head(q) = q[1] /\ q[1] \in Events
  OBVIOUS
<1>2. Tail(q) = RemoveAt(q, 1)
  <2>1. /\ RemoveAt(q, 1) \in Seq(Events) /\ Len(RemoveAt(q, 1)) = Len(q) - 1
        /\ \A j \in 1..(Len(q) - 1) : RemoveAt(q, 1)[j] = q[j + 1]
    BY <1>1, RemoveAtFacts
  <2>2. /\ Tail(q) \in Seq(Events) /\ Len(Tail(q)) = Len(q) - 1
        /\ \A j \in 1..(Len(q) - 1) : Tail(q)[j] = q[j + 1]
    BY HeadTailProperties
  <2>3. QED
    BY <2>1, <2>2, SeqEqual
<1>3. /\ own[q[1]] = p
      /\ IsAt([own EXCEPT ![q[1]] = r], RemoveAt(q, 1), p)
  BY <1>1, IsAtRemove
<1>4. QED
  BY <1>1, <1>2, <1>3

-----------------------------------------------------------------------------
(* What a step preserves that moves one event, or none. *)

(* When the program starts, all events are at the source. *)
LEMMA SingleOwnerInit == Init => SingleOwner
<1> SUFFICES ASSUME Init PROVE SingleOwner
  OBVIOUS
<1>1. AtSourceOK
  BY DEF Init, AtSourceOK, Events
<1>2. InHandsOK
  <2>1. \A t \in Threads, e \in Events : owner[e] # InHand(t)
    BY PlacesDiffer DEF Init
  <2>2. \A t \in Threads, e \in Events : ~HasInHand(t, e)
    BY DEF Init, HasInHand, Threads, Scheduling, NoEvent, Events
  <2>3. pc[L1] \notin Scheduling
    BY DEF Init, Threads, Scheduling
  <2>4. QED
    BY <2>1, <2>2, <2>3 DEF InHandsOK
<1>3. ASSUME NEW p, p # AtSource PROVE IsAt(owner, <<>>, p)
  <2>1. IsInjective(<<>>) /\ \A e \in Events : ~Contains(<<>>, e)
    BY DEF IsInjective, Contains
  <2>2. \A e \in Events : owner[e] # p
    BY <1>3 DEF Init
  <2>3. QED
    BY <2>1, <2>2 DEF IsAt
<1>4. QueueOK /\ StrandsOK /\ ListsOK
  BY <1>3, PlacesDiffer DEF Init, QueueOK, StrandsOK, ListsOK
<1>5. QED
  BY <1>1, <1>2, <1>4 DEF SingleOwner

(* A step that moves no event. *)
LEMMA NothingMoved ==
  ASSUME SingleOwner,
         UNCHANGED <<owner, taken, hand, reassigned_events, posted, events>>,
         pc'[L1] \in Scheduling <=> pc[L1] \in Scheduling
  PROVE  SingleOwner'
BY DEF SingleOwner, AtSourceOK, InHandsOK, HasInHand, QueueOK, StrandsOK,
       ListsOK, IsAt

(* The queues that an event neither leaves nor enters. *)
LEMMA OtherQueues ==
  ASSUME TypeOK, SingleOwner, NEW e \in Events, NEW r,
         owner' = [owner EXCEPT ![e] = r]
  PROVE  /\ owner[e] # Queued /\ r # Queued =>
              IsAt(owner', reassigned_events, Queued)
         /\ \A s \in Sessions :
              /\ owner[e] # OnStrand(s) /\ r # OnStrand(s) =>
                   IsAt(owner', posted[s], OnStrand(s))
              /\ owner[e] # Listed(s) /\ r # Listed(s) =>
                   IsAt(owner', events[s], Listed(s))
<1>1. /\ owner \in [Events -> Places] /\ reassigned_events \in Seq(Events)
      /\ \A s \in Sessions : posted[s] \in Seq(Events) /\ events[s] \in Seq(Events)
  BY DEF TypeOK, SchedulerOK, SessionsOK
<1>2. /\ IsAt(owner, reassigned_events, Queued)
      /\ \A s \in Sessions : /\ IsAt(owner, posted[s], OnStrand(s))
                             /\ IsAt(owner, events[s], Listed(s))
  BY DEF SingleOwner, QueueOK, StrandsOK, ListsOK
<1>3. QED
  BY <1>1, <1>2, IsAtOther

(* The places that no thread is involved in. *)
OffThreads(p) == p # AtSource /\ \A t \in Threads : p # InHand(t)

(* The queue, the strands, the lists and the ends of an event are such     *)
(* places.                                                                 *)
LEMMA OffThreadsPlaces ==
  /\ \A p \in {Queued, Cleared, Lost, Undecoded, Discarded} : OffThreads(p)
  /\ \A s \in Sessions : OffThreads(OnStrand(s)) /\ OffThreads(Listed(s))
BY PlacesDiffer DEF OffThreads

(* The threads do not notice an event that moves between such places. *)
LEMMA OtherThreads ==
  ASSUME TypeOK, SingleOwner, NEW e \in Events, NEW r,
         owner' = [owner EXCEPT ![e] = r], UNCHANGED threadVars,
         OffThreads(owner[e]), OffThreads(r)
  PROVE  AtSourceOK' /\ InHandsOK'
<1>1. owner \in [Events -> Places] /\ UNCHANGED <<pc, taken, hand>>
  BY DEF TypeOK, SchedulerOK, threadVars
<1>2. AtSourceOK'
  BY <1>1 DEF SingleOwner, AtSourceOK, OffThreads
<1>3. InHandsOK'
  BY <1>1 DEF SingleOwner, InHandsOK, HasInHand, OffThreads
<1>4. QED
  BY <1>2, <1>3

(* The event a thread offers to a session is in its hand. *)
LEMMA OfferedInHand ==
  ASSUME TypeOK, SingleOwner, NEW t \in Threads,
         pc[t] \in {"pushHandle", "handle"}
  PROVE  owner[Offered(t)] = InHand(t)
<1>1. Offered(t) \in Events
  BY OfferedIsEvent
<1>2. HasInHand(t, Offered(t))
  BY DEF TypeOK, ThreadsOK, HasInHand, Offered, Threads, L1, RC, PCs, Scheduling
<1>3. QED
  BY <1>1, <1>2 DEF SingleOwner, InHandsOK

(* After it has been offered, the event is in no hand. *)
LEMMA AfterOfferHands ==
  ASSUME TypeOK, SingleOwner, NEW t \in Threads,
         pc[t] \in {"pushHandle", "handle"}, AfterOffer(t), UNCHANGED taken,
         NEW r, owner' = [owner EXCEPT ![Offered(t)] = r],
         r # AtSource, \A u \in Threads : r # InHand(u)
  PROVE  AtSourceOK' /\ InHandsOK'
<1>1. Offered(t) \in Events /\ owner[Offered(t)] = InHand(t)
  BY OfferedIsEvent, OfferedInHand
<1>2. owner \in [Events -> Places]
  BY DEF TypeOK, SchedulerOK
<1>3. AtSourceOK'
  BY <1>1, <1>2, PlacesDiffer DEF SingleOwner, AtSourceOK
<1>4. /\ hand' = [hand EXCEPT ![t] = NoEvent]
      /\ pc' = [pc EXCEPT ![t] = IF pc[t] = "handle" THEN "idle" ELSE "push"]
      /\ pc \in [Threads -> PCs(L1) \cup PCs(RC)]
      /\ hand \in [Threads -> Events \cup {NoEvent}]
      /\ \A u \in Threads : hand[u] # NoEvent <=> pc[u] \in {"pushPop", "pushHandle"}
      /\ pc[t] = "handle" => t = L1
  BY DEF AfterOffer, Goto, TypeOK, ThreadsOK, PCs, Threads, L1, RC
<1>5. NoEvent \notin Events
  BY DEF NoEvent, Events
<1>6. ASSUME NEW u \in Threads, NEW x \in Events
      PROVE  owner'[x] = InHand(u) <=> HasInHand(u, x)'
  <2>1. CASE u = t
    <3>1. owner[x] = InHand(t) <=> HasInHand(t, x)
      BY DEF SingleOwner, InHandsOK
    <3>2. CASE pc[t] = "handle"
      BY <1>1, <1>2, <1>4, <1>5, <2>1, <3>1, <3>2
         DEF HasInHand, Offered, Scheduling
    <3>3. CASE pc[t] = "pushHandle"
      BY <1>1, <1>2, <1>4, <1>5, <2>1, <3>1, <3>3
         DEF HasInHand, Offered, Scheduling, SingleOwner, InHandsOK
    <3>4. QED
      BY <3>2, <3>3
  <2>2. CASE u # t
    <3>1. owner'[x] = InHand(u) <=> owner[x] = InHand(u)
      BY <1>1, <1>2, <2>2, PlacesDiffer
    <3>2. HasInHand(u, x)' <=> HasInHand(u, x)
      BY <1>4, <2>2 DEF HasInHand
    <3>3. QED
      BY <3>1, <3>2 DEF SingleOwner, InHandsOK
  <2>3. QED
    BY <2>1, <2>2
<1>7. pc'[L1] \in Scheduling => hand'[L1] # taken'
  <2>1. CASE t = L1
    BY <1>4, <2>1 DEF Scheduling, TypeOK, ThreadsOK, NoEvent
  <2>2. CASE t # L1
    BY <1>4, <2>2 DEF SingleOwner, InHandsOK
  <2>3. QED
    BY <2>1, <2>2
<1>8. QED
  BY <1>3, <1>6, <1>7 DEF InHandsOK

-----------------------------------------------------------------------------
(* The steps that move events, one lemma each. *)

(* getResult gives the next event to the L1 thread. *)
LEMMA GetResultOwner ==
  ASSUME TypeOK, SingleOwner, GetResult
  PROVE  SingleOwner'
<1> DEFINE e == taken + 1
<1>1. /\ e \in Events /\ owner[e] = AtSource
      /\ owner' = [owner EXCEPT ![e] = InHand(L1)]
      /\ owner \in [Events -> Places] /\ taken \in Nat /\ taken' = e
      /\ UNCHANGED <<hand, reassigned_events, posted, events>>
      /\ pc' = [pc EXCEPT ![L1] = "push"] /\ pc[L1] = "get"
      /\ pc \in [Threads -> PCs(L1) \cup PCs(RC)] /\ hand[L1] = NoEvent
  <2>1. /\ taken \in Nat /\ e \in Events /\ pc[L1] = "get" /\ L1 \in Threads
    BY ConstantsAssumption DEF GetResult, TypeOK, ThreadsOK, Events, Threads
  <2>2. owner[e] = AtSource
    BY <2>1 DEF SingleOwner, AtSourceOK
  <2>3. hand[L1] = NoEvent
    BY <2>1 DEF TypeOK, ThreadsOK
  <2>4. QED
    BY <2>1, <2>2, <2>3 DEF GetResult, Goto, TypeOK, ThreadsOK, SchedulerOK
<1>2. L1 \in Threads /\ taken = e - 1 /\ e # NoEvent
  BY <1>1 DEF Threads, NoEvent
<1> HIDE DEF e
<1>3. \A x \in Events : x \in Int
  BY DEF Events
<1>4. AtSourceOK'
  BY <1>1, <1>2, <1>3, PlacesDiffer DEF SingleOwner, AtSourceOK, Events
<1>5. ASSUME NEW t \in Threads, NEW x \in Events
      PROVE  owner'[x] = InHand(t) <=> HasInHand(t, x)'
  <2>1. owner[x] = InHand(t) <=> HasInHand(t, x)
    BY DEF SingleOwner, InHandsOK
  <2>2. CASE x = e
    <3>1. hand[t] # x
      BY <1>1, <2>1, <2>2, PlacesDiffer DEF HasInHand
    <3>2. QED
      BY <1>1, <1>2, <2>2, <3>1, PlacesDiffer DEF HasInHand, Scheduling
  <2>3. CASE x # e
    BY <1>1, <1>2, <2>1, <2>3 DEF HasInHand, Scheduling
  <2>4. QED
    BY <2>2, <2>3
<1>6. hand'[L1] # taken'
  BY <1>1, <1>2
<1>7. QueueOK' /\ StrandsOK' /\ ListsOK'
  BY <1>1, <1>2, OtherQueues, PlacesDiffer DEF QueueOK, StrandsOK, ListsOK
<1>8. QED
  BY <1>4, <1>5, <1>6, <1>7 DEF SingleOwner, InHandsOK

(* push_events takes the first event of the queue in its hand. *)
LEMMA TryPopReassignedOwner ==
  ASSUME TypeOK, SingleOwner, NEW t \in Threads, TryPopReassigned(t)
  PROVE  SingleOwner'
<1> DEFINE e == Head(reassigned_events)
<1>1. /\ reassigned_events \in Seq(Events) /\ reassigned_events # <<>>
      /\ owner \in [Events -> Places]
      /\ owner' = [owner EXCEPT ![e] = InHand(t)]
      /\ UNCHANGED <<taken, posted, events>>
      /\ hand' = [hand EXCEPT ![t] = e]
      /\ hand \in [Threads -> Events \cup {NoEvent}] /\ hand[t] = NoEvent
      /\ pc' = [pc EXCEPT ![t] = "pushPop"] /\ pc[t] = "push"
      /\ pc \in [Threads -> PCs(L1) \cup PCs(RC)]
      /\ reassigned_events' = Tail(reassigned_events)
  BY DEF TryPopReassigned, Goto, TypeOK, ThreadsOK, SchedulerOK
<1>2. /\ e \in Events /\ owner[e] = Queued
      /\ QueueOK'
  BY <1>1, IsAtTail, PlacesDiffer DEF SingleOwner, QueueOK
<1> HIDE DEF e
<1>3. NoEvent \notin Events
  BY DEF NoEvent, Events
<1>4. AtSourceOK'
  BY <1>1, <1>2, PlacesDiffer DEF SingleOwner, AtSourceOK
<1>5. ASSUME NEW u \in Threads, NEW x \in Events
      PROVE  owner'[x] = InHand(u) <=> HasInHand(u, x)'
  <2>1. owner[x] = InHand(u) <=> HasInHand(u, x)
    BY DEF SingleOwner, InHandsOK
  <2>2. pc'[L1] \in Scheduling <=> pc[L1] \in Scheduling
    BY <1>1 DEF Scheduling
  <2>3. CASE x = e
    <3>1. ~HasInHand(u, x)
      BY <1>2, <2>1, <2>3, PlacesDiffer
    <3>2. HasInHand(u, x)' <=> u = t
      BY <1>1, <2>2, <2>3, <3>1 DEF HasInHand
    <3>3. owner'[x] = InHand(u) <=> u = t
      BY <1>1, <1>2, <2>3, PlacesDiffer
    <3>4. QED
      BY <3>2, <3>3
  <2>4. CASE x # e
    BY <1>1, <1>3, <2>1, <2>2, <2>4 DEF HasInHand
  <2>5. QED
    BY <2>3, <2>4
<1>6. pc'[L1] \in Scheduling => hand'[L1] # taken'
  <2>1. CASE t = L1
    <3>1. HasInHand(L1, taken) /\ L1 \in Threads /\ taken \in Events
      BY <1>1, <2>1 DEF HasInHand, Scheduling, TypeOK, ThreadsOK, Threads, Events
    <3>2. owner[taken] = InHand(L1)
      BY <3>1 DEF SingleOwner, InHandsOK
    <3>3. QED
      BY <1>1, <1>2, <2>1, <3>1, <3>2, PlacesDiffer
  <2>2. CASE t # L1
    BY <1>1, <2>2 DEF SingleOwner, InHandsOK
  <2>3. QED
    BY <2>1, <2>2
<1>7. StrandsOK' /\ ListsOK'
  BY <1>1, <1>2, OtherQueues, PlacesDiffer DEF StrandsOK, ListsOK
<1>8. QED
  BY <1>2, <1>4, <1>5, <1>6, <1>7 DEF SingleOwner, InHandsOK

(* handle_event moves the event from the thread's hand to the strand. *)
LEMMA AcceptOwner ==
  ASSUME TypeOK, SingleOwner, NEW t \in Threads, Accept(t)
  PROVE  SingleOwner'
<1> DEFINE e == Offered(t)
           s == core[t]
<1>1. /\ e \in Events /\ s \in Sessions /\ owner[e] = InHand(t)
  BY OfferedIsEvent, OfferedInHand DEF Accept
<1>2. /\ owner' = [owner EXCEPT ![e] = OnStrand(s)]
      /\ posted' = [posted EXCEPT ![s] = Append(posted[s], e)]
      /\ UNCHANGED <<reassigned_events, events>>
      /\ owner \in [Events -> Places]
      /\ posted \in [Sessions -> Seq(Events)]
  BY DEF Accept, TypeOK, SchedulerOK, SessionsOK
<1>3. AtSourceOK' /\ InHandsOK'
  <2>1. OnStrand(s) # AtSource /\ \A u \in Threads : OnStrand(s) # InHand(u)
    BY <1>1, PlacesDiffer
  <2>2. /\ pc[t] \in {"pushHandle", "handle"} /\ AfterOffer(t)
        /\ UNCHANGED taken
    BY DEF Accept
  <2>3. QED
    BY <1>2, <2>1, <2>2, AfterOfferHands
<1> HIDE DEF e, s
<1>4. QueueOK' /\ ListsOK'
  BY <1>1, <1>2, OtherQueues, PlacesDiffer DEF QueueOK, ListsOK
<1>5. ASSUME NEW z \in Sessions PROVE IsAt(owner', posted'[z], OnStrand(z))
  <2>1. CASE z = s
    <3>1. IsAt(owner, posted[s], OnStrand(s)) /\ owner[e] # OnStrand(s)
      BY <1>1, PlacesDiffer DEF SingleOwner, StrandsOK
    <3>2. posted[s] \in Seq(Events)
      BY <1>1, <1>2
    <3>3. IsAt([owner EXCEPT ![e] = OnStrand(s)], Append(posted[s], e), OnStrand(s))
      BY <1>1, <1>2, <3>1, <3>2, IsAtAppend
    <3>4. QED
      BY <1>1, <1>2, <2>1, <3>3
  <2>2. CASE z # s
    BY <1>1, <1>2, <2>2, OtherQueues, PlacesDiffer
  <2>3. QED
    BY <2>1, <2>2
<1>6. QED
  BY <1>3, <1>4, <1>5 DEF SingleOwner, StrandsOK

(* An event that a session in error refuses is in no queue any more. *)
LEMMA RefuseOwner ==
  ASSUME TypeOK, SingleOwner, NEW t \in Threads, Refuse(t)
  PROVE  SingleOwner'
<1> DEFINE e == Offered(t)
<1>1. e \in Events /\ owner[e] = InHand(t)
  BY OfferedIsEvent, OfferedInHand DEF Refuse
<1>2. /\ owner' = [owner EXCEPT ![e] = Lost]
      /\ UNCHANGED <<reassigned_events, posted, events>>
  BY DEF Refuse
<1>3. AtSourceOK' /\ InHandsOK'
  BY <1>2, AfterOfferHands, PlacesDiffer DEF Refuse
<1> HIDE DEF e
<1>4. QueueOK' /\ StrandsOK' /\ ListsOK'
  BY <1>1, <1>2, OtherQueues, PlacesDiffer DEF QueueOK, StrandsOK, ListsOK
<1>5. QED
  BY <1>3, <1>4 DEF SingleOwner

(* So is one whose data cannot be converted. *)
LEMMA RunUndecodableOwner ==
  ASSUME TypeOK, SingleOwner, NEW s \in Sessions, RunUndecodable(s)
  PROVE  SingleOwner'
<1> DEFINE e == Head(posted[s])
<1>1. /\ posted[s] \in Seq(Events) /\ posted[s] # <<>>
      /\ posted \in [Sessions -> Seq(Events)] /\ owner \in [Events -> Places]
      /\ posted' = [posted EXCEPT ![s] = Tail(posted[s])]
      /\ owner' = [owner EXCEPT ![e] = Undecoded]
      /\ UNCHANGED <<threadVars, reassigned_events, events>>
  BY DEF RunUndecodable, TypeOK, SessionsOK, SchedulerOK
<1>2. /\ e \in Events /\ owner[e] = OnStrand(s)
      /\ IsAt(owner', Tail(posted[s]), OnStrand(s))
  <2>1. IsAt(owner, posted[s], OnStrand(s)) /\ Undecoded # OnStrand(s)
    BY PlacesDiffer DEF SingleOwner, StrandsOK
  <2>2. QED
    BY <1>1, <2>1, IsAtTail
<1> HIDE DEF e
<1>3. AtSourceOK' /\ InHandsOK'
  <2>1. OffThreads(owner[e]) /\ OffThreads(Undecoded)
    BY <1>2, OffThreadsPlaces
  <2>2. QED
    BY <1>1, <1>2, <2>1, OtherThreads
<1>4. QueueOK' /\ ListsOK'
  BY <1>1, <1>2, OtherQueues, PlacesDiffer DEF QueueOK, ListsOK
<1>5. ASSUME NEW z \in Sessions PROVE IsAt(owner', posted'[z], OnStrand(z))
  <2>1. CASE z = s
    BY <1>1, <1>2, <2>1
  <2>2. CASE z # s
    BY <1>1, <1>2, <2>2, OtherQueues, PlacesDiffer
  <2>3. QED
    BY <2>1, <2>2
<1>6. QED
  BY <1>3, <1>4, <1>5 DEF SingleOwner, StrandsOK

(* The posted send moves the event from the strand to m_events. *)
LEMMA RunHandleOwner ==
  ASSUME TypeOK, SingleOwner, NEW s \in Sessions, RunHandle(s)
  PROVE  SingleOwner'
<1> DEFINE e == Head(posted[s])
<1>1. /\ posted[s] \in Seq(Events) /\ posted[s] # <<>>
      /\ posted \in [Sessions -> Seq(Events)] /\ owner \in [Events -> Places]
      /\ events \in [Sessions -> Seq(Events)]
      /\ posted' = [posted EXCEPT ![s] = Tail(posted[s])]
      /\ events' = [events EXCEPT ![s] = Append(events[s], e)]
      /\ owner' = [owner EXCEPT ![e] = Listed(s)]
      /\ UNCHANGED <<threadVars, reassigned_events>>
  BY DEF RunHandle, TypeOK, SessionsOK, SchedulerOK
<1>2. /\ e \in Events /\ owner[e] = OnStrand(s)
      /\ IsAt(owner', Tail(posted[s]), OnStrand(s))
  BY <1>1, IsAtTail, PlacesDiffer DEF SingleOwner, StrandsOK
<1>3. IsAt(owner', Append(events[s], e), Listed(s))
  <2>1. IsAt(owner, events[s], Listed(s)) /\ owner[e] # Listed(s)
    BY <1>2, PlacesDiffer DEF SingleOwner, ListsOK
  <2>2. events[s] \in Seq(Events)
    BY <1>1
  <2> HIDE DEF e
  <2>3. IsAt([owner EXCEPT ![e] = Listed(s)], Append(events[s], e), Listed(s))
    BY <1>1, <1>2, <2>1, <2>2, IsAtAppend
  <2>4. QED
    BY <1>1, <2>3
<1> HIDE DEF e
<1>4. AtSourceOK' /\ InHandsOK'
  <2>1. OffThreads(owner[e]) /\ OffThreads(owner'[e])
    BY <1>1, <1>2, OffThreadsPlaces
  <2>2. QED
    BY <1>1, <1>2, <2>1, OtherThreads
<1>5. QueueOK'
  BY <1>1, <1>2, OtherQueues, PlacesDiffer DEF QueueOK
<1>6. ASSUME NEW z \in Sessions
      PROVE  IsAt(owner', posted'[z], OnStrand(z)) /\ IsAt(owner', events'[z], Listed(z))
  <2>1. CASE z = s
    BY <1>1, <1>2, <1>3, <2>1
  <2>2. CASE z # s
    BY <1>1, <1>2, <2>2, OtherQueues, PlacesDiffer
  <2>3. QED
    BY <2>1, <2>2
<1>7. QED
  BY <1>4, <1>5, <1>6 DEF SingleOwner, StrandsOK, ListsOK

(* A report of the DCM takes the event out of m_events, or does nothing. *)
LEMMA FindAndClearOwner ==
  ASSUME TypeOK, SingleOwner, NEW s \in Sessions, NEW e \in Events,
         FindAndClear(s, e), UNCHANGED <<threadVars, reassigned_events, posted>>
  PROVE  SingleOwner'
<1>1. CASE UNCHANGED <<events, owner, clears>>
  BY <1>1, NothingMoved DEF threadVars
<1>2. ASSUME NEW k \in DOMAIN events[s], events[s][k] = e,
             events' = [events EXCEPT ![s] = RemoveAt(events[s], k)],
             owner' = [owner EXCEPT ![e] = Cleared]
      PROVE  SingleOwner'
  <2>1. /\ events \in [Sessions -> Seq(Events)] /\ events[s] \in Seq(Events)
        /\ owner \in [Events -> Places] /\ k \in 1..Len(events[s])
    <3>1. /\ events \in [Sessions -> Seq(Events)] /\ events[s] \in Seq(Events)
          /\ owner \in [Events -> Places]
      BY DEF TypeOK, SessionsOK, SchedulerOK
    <3>2. k \in 1..Len(events[s])
      BY <3>1
    <3>3. QED
      BY <3>1, <3>2
  <2>2. /\ owner[e] = Listed(s)
        /\ IsAt(owner', RemoveAt(events[s], k), Listed(s))
    <3>1. IsAt(owner, events[s], Listed(s)) /\ Cleared # Listed(s)
      BY PlacesDiffer DEF SingleOwner, ListsOK
    <3>2. /\ owner[events[s][k]] = Listed(s)
          /\ IsAt([owner EXCEPT ![events[s][k]] = Cleared],
                  RemoveAt(events[s], k), Listed(s))
      BY <2>1, <3>1, IsAtRemove
    <3>3. QED
      BY <1>2, <3>2
  <2>3. AtSourceOK' /\ InHandsOK'
    <3>1. OffThreads(owner[e]) /\ OffThreads(Cleared)
      BY <2>2, OffThreadsPlaces
    <3>2. QED
      BY <1>2, <3>1, OtherThreads
  <2>4. QueueOK' /\ StrandsOK'
    BY <1>2, <2>2, OtherQueues, PlacesDiffer DEF QueueOK, StrandsOK
  <2>5. ASSUME NEW z \in Sessions PROVE IsAt(owner', events'[z], Listed(z))
    <3>1. CASE z = s
      BY <1>2, <2>1, <2>2, <3>1
    <3>2. CASE z # s
      BY <1>2, <2>1, <2>2, <3>2, OtherQueues, PlacesDiffer
    <3>3. QED
      BY <3>1, <3>2
  <2>6. QED
    BY <2>3, <2>4, <2>5 DEF SingleOwner, ListsOK
<1>3. QED
  BY <1>1, <1>2 DEF FindAndClear

(* reassign_event moves the first event of m_events to the queue. *)
LEMMA ReassignOwner ==
  ASSUME TypeOK, SingleOwner, NEW s \in Sessions, ReassignFirst(s),
         UNCHANGED <<threadVars, posted>>
  PROVE  SingleOwner'
<1> DEFINE e == Head(events[s])
<1>1. /\ events[s] \in Seq(Events) /\ events[s] # <<>>
      /\ events \in [Sessions -> Seq(Events)] /\ owner \in [Events -> Places]
      /\ reassigned_events \in Seq(Events)
      /\ events' = [events EXCEPT ![s] = Tail(events[s])]
      /\ reassigned_events' = Append(reassigned_events, e)
      /\ owner' = [owner EXCEPT ![e] = Queued]
  BY DEF ReassignFirst, TypeOK, SessionsOK, SchedulerOK
<1>2. /\ e \in Events /\ owner[e] = Listed(s)
      /\ IsAt(owner', Tail(events[s]), Listed(s))
  <2>1. IsAt(owner, events[s], Listed(s)) /\ Queued # Listed(s)
    BY PlacesDiffer DEF SingleOwner, ListsOK
  <2>2. QED
    BY <1>1, <2>1, IsAtTail
<1> HIDE DEF e
<1>3. AtSourceOK' /\ InHandsOK'
  <2>1. OffThreads(owner[e]) /\ OffThreads(owner'[e])
    BY <1>1, <1>2, OffThreadsPlaces
  <2>2. QED
    BY <1>1, <1>2, <2>1, OtherThreads
<1>4. QueueOK'
  <2>1. IsAt(owner, reassigned_events, Queued) /\ owner[e] # Queued
    BY <1>2, PlacesDiffer DEF SingleOwner, QueueOK
  <2>2. IsAt([owner EXCEPT ![e] = Queued], Append(reassigned_events, e), Queued)
    BY <1>1, <1>2, <2>1, IsAtAppend
  <2>3. QED
    BY <1>1, <2>2 DEF QueueOK
<1>5. StrandsOK'
  BY <1>1, <1>2, OtherQueues, PlacesDiffer DEF StrandsOK
<1>6. ASSUME NEW z \in Sessions PROVE IsAt(owner', events'[z], Listed(z))
  <2>1. CASE z = s
    BY <1>1, <1>2, <2>1
  <2>2. CASE z # s
    BY <1>1, <1>2, <2>2, OtherQueues, PlacesDiffer
  <2>3. QED
    BY <2>1, <2>2
<1>7. QED
  BY <1>3, <1>4, <1>5, <1>6 DEF SingleOwner, ListsOK

(* reset empties the queue. *)
LEMMA StopRecordingOwner ==
  ASSUME TypeOK, SingleOwner, StopRecording
  PROVE  SingleOwner'
<1>1. /\ pc' = [pc EXCEPT ![RC] = "reset"] /\ reassigned_events' = <<>>
      /\ owner' = [e \in Events |-> IF owner[e] = Queued THEN Discarded ELSE owner[e]]
      /\ UNCHANGED <<taken, hand, posted, events>>
      /\ pc'[L1] = pc[L1]
  BY DEF StopRecording, Goto, TypeOK, ThreadsOK, Threads, L1, RC
<1>2. ASSUME NEW p, p # Queued, p # Discarded, NEW e \in Events
      PROVE  owner'[e] = p <=> owner[e] = p
  BY <1>1, <1>2
<1>3. AtSourceOK'
  BY <1>1, <1>2, PlacesDiffer DEF SingleOwner, AtSourceOK
<1>4. InHandsOK'
  BY <1>1, <1>2, PlacesDiffer DEF SingleOwner, InHandsOK, HasInHand
<1>5. QueueOK'
  <2>1. \A e \in Events : owner'[e] # Queued
    BY <1>1, PlacesDiffer
  <2>2. IsInjective(<<>>) /\ \A e \in Events : ~Contains(<<>>, e)
    BY DEF IsInjective, Contains
  <2>3. QED
    BY <1>1, <2>1, <2>2 DEF QueueOK, IsAt
<1>6. StrandsOK' /\ ListsOK'
  BY <1>1, <1>2, PlacesDiffer DEF SingleOwner, StrandsOK, ListsOK, IsAt
<1>7. QED
  BY <1>3, <1>4, <1>5, <1>6 DEF SingleOwner

(* No step puts an event in two places or in none. *)
LEMMA SingleOwnerStep ==
  ASSUME TypeOK, SingleOwner, [Next]_vars
  PROVE  SingleOwner'
<1>1. CASE L1Loop \/ NoResult \/ StopDC \/ StopRunning \/ JoinL1
  <2>1. pc'[L1] \in Scheduling <=> pc[L1] \in Scheduling
    BY <1>1 DEF L1Loop, NoResult, StopDC, StopRunning, JoinL1, Goto, TypeOK,
                ThreadsOK, Threads, L1, RC, Scheduling
  <2>2. UNCHANGED <<owner, taken, hand, reassigned_events, posted, events>>
    BY <1>1 DEF L1Loop, NoResult, StopDC, StopRunning, JoinL1
  <2>3. QED
    BY <2>1, <2>2, NothingMoved
<1>2. CASE GetResult
  BY <1>2, GetResultOwner
<1>3. ASSUME NEW t \in Threads, TryPopReassigned(t) PROVE SingleOwner'
  BY <1>3, TryPopReassignedOwner
<1>4. ASSUME NEW t \in Threads, PushEventsDone(t) \/ PopCore(t) PROVE SingleOwner'
  <2>1. pc'[L1] \in Scheduling <=> pc[L1] \in Scheduling
    BY <1>4 DEF PushEventsDone, PopCore, Goto, TypeOK, ThreadsOK, Threads, L1,
                RC, Scheduling
  <2>2. UNCHANGED <<owner, taken, hand, reassigned_events, posted, events>>
    BY <1>4 DEF PushEventsDone, PopCore
  <2>3. QED
    BY <2>1, <2>2, NothingMoved
<1>5. ASSUME NEW t \in Threads, Accept(t) PROVE SingleOwner'
  BY <1>5, AcceptOwner
<1>6. ASSUME NEW t \in Threads, Refuse(t) PROVE SingleOwner'
  BY <1>6, RefuseOwner
<1>7. CASE StopRecording
  BY <1>7, StopRecordingOwner
<1>8. ASSUME NEW s \in Sessions,
             \/ OnOpen(s) \/ OnReceiveRequest(s) \/ PushFreeCore(s)
             \/ OnReceiveError(s) \/ OnSendError(s) \/ OnClose(s)
             \/ OnOpenError(s) \/ OnCloseError(s) \/ Break(s)
      PROVE  SingleOwner'
  <2>1. UNCHANGED <<threadVars, owner, reassigned_events, posted, events>>
    BY <1>8 DEF OnOpen, OnReceiveRequest, PushFreeCore, OnReceiveError,
                OnSendError, OnClose, OnOpenError, OnCloseError, Break
  <2>2. QED
    BY <2>1, NothingMoved DEF threadVars
<1>9. ASSUME NEW s \in Sessions, RunUndecodable(s) PROVE SingleOwner'
  BY <1>9, RunUndecodableOwner
<1>10. ASSUME NEW s \in Sessions, RunHandle(s) PROVE SingleOwner'
  BY <1>10, RunHandleOwner
<1>11. ASSUME NEW s \in Sessions, OnReceiveFinished(s) PROVE SingleOwner'
  <2>1. PICK e \in Events : FindAndClear(s, e)
    BY <1>11 DEF OnReceiveFinished, TypeOK, SessionsOK
  <2>2. UNCHANGED <<threadVars, reassigned_events, posted>>
    BY <1>11 DEF OnReceiveFinished
  <2>3. QED
    BY <2>1, <2>2, FindAndClearOwner
<1>12. ASSUME NEW s \in Sessions, Expire(s) \/ Unload(s) PROVE SingleOwner'
  <2>1. ReassignFirst(s) /\ UNCHANGED <<threadVars, posted>>
    BY <1>12 DEF Expire, Unload
  <2>2. QED
    BY <2>1, ReassignOwner
<1>13. CASE UNCHANGED vars
  BY <1>13, NothingMoved DEF vars
<1>14. QED
  BY <1>1, <1>2, <1>3, <1>4, <1>5, <1>6, <1>7, <1>8, <1>9, <1>10, <1>11,
     <1>12, <1>13
     DEF Next, L1Step, RCStep, ThreadStep, StrandStep, Threads

(* Whatever the interleaving of the two threads, the strands and the       *)
(* failures of links, an event that the source delivered is in exactly one *)
(* of the hands of schedule_event and push_events, a strand's posted       *)
(* sends, an m_events list, m_reassigned_events, or is finished.           *)
THEOREM OneOwner == Spec => []SingleOwner
<1>1. TypeOK /\ SingleOwner /\ [Next]_vars => SingleOwner'
  BY SingleOwnerStep
<1>2. QED
  BY SingleOwnerInit, TypeCorrect, <1>1, PTL DEF Spec

-----------------------------------------------------------------------------
(* One ProcessMessage and one clear for each event.  The inductive         *)
(* invariant adds where an event can be that was sent and never            *)
(* re-assigned: it has not left the session that sent it.                  *)

SentOnce(e) ==
  /\ process_sends[e] <= 1
  /\ clears[e] = (IF owner[e] = Cleared THEN 1 ELSE 0)
  /\ resends[e] = 0 /\ process_sends[e] = 1 =>
       owner[e] \in {Cleared} \cup {Listed(s) : s \in Sessions}

SentOnceOK == \A e \in Events : SentOnce(e)

(* A move of an event from a thread, the source or a strand to anywhere    *)
(* but the list of cleared events.                                         *)
LEMMA SentOnceMove ==
  ASSUME TypeOK, SentOnceOK, NEW e \in Events, NEW r,
         owner' = [owner EXCEPT ![e] = r], r # Cleared,
         owner[e] \notin {Cleared} \cup {Listed(s) : s \in Sessions},
         UNCHANGED <<resends, clears, process_sends>>
  PROVE  SentOnceOK'
BY DEF SentOnceOK, SentOnce, TypeOK, SchedulerOK

(* The other places are not lists of sessions, nor the cleared events. *)
LEMMA NotListed ==
  /\ \A p \in {AtSource, Queued, Cleared, Lost, Undecoded, Discarded} :
       p \notin {Listed(s) : s \in Sessions}
  /\ \A t \in Threads : InHand(t) \notin {Cleared} \cup {Listed(s) : s \in Sessions}
  /\ \A r \in Sessions : OnStrand(r) \notin {Cleared} \cup {Listed(s) : s \in Sessions}
BY PlacesDiffer

(* An event that is cleared is at no other of the fixed places. *)
LEMMA ClearedDiffers == Cleared \notin {AtSource, Queued, Lost, Undecoded, Discarded}
BY DEF AtSource, Queued, Cleared, Lost, Undecoded, Discarded

(* The first event of a queue is there. *)
LEMMA IsAtHead ==
  ASSUME NEW own, NEW q \in Seq(Events), q # <<>>, NEW p, IsAt(own, q, p)
  PROVE  Head(q) \in Events /\ own[Head(q)] = p
<1>1. 1 \in 1..Len(q) /\ Head(q) = q[1] /\ q[1] \in Events
  OBVIOUS
<1>2. QED
  BY <1>1 DEF IsAt, Contains

(* No step sends a second ProcessMessage or a second clear for an event. *)
LEMMA SentOnceStep ==
  ASSUME TypeOK, SingleOwner, SentOnceOK, [Next]_vars
  PROVE  SentOnceOK'
<1>1. ASSUME UNCHANGED <<owner, resends, clears, process_sends>> PROVE SentOnceOK'
  BY <1>1 DEF SentOnceOK, SentOnce
<1>2. CASE \/ L1Loop \/ NoResult \/ StopDC \/ StopRunning \/ JoinL1
           \/ UNCHANGED vars
  BY <1>1, <1>2 DEF L1Loop, NoResult, StopDC, StopRunning, JoinL1, vars,
                    historyVars
<1>3. CASE GetResult
  <2>1. taken + 1 \in Events /\ owner[taken + 1] = AtSource
    BY <1>3, ConstantsAssumption
       DEF GetResult, SingleOwner, AtSourceOK, TypeOK, ThreadsOK, Events
  <2>2. owner' = [owner EXCEPT ![taken + 1] = InHand(L1)] /\ InHand(L1) # Cleared
    BY <1>3, NotListed DEF GetResult, Threads
  <2>3. UNCHANGED <<resends, clears, process_sends>>
    BY <1>3 DEF GetResult, historyVars
  <2>4. QED
    BY <2>1, <2>2, <2>3, SentOnceMove, NotListed, ClearedDiffers
<1>4. ASSUME NEW t \in Threads, TryPopReassigned(t) PROVE SentOnceOK'
  <2> DEFINE e == Head(reassigned_events)
  <2>1. e \in Events /\ owner[e] = Queued
    BY <1>4, IsAtHead
       DEF TryPopReassigned, SingleOwner, QueueOK, TypeOK, SchedulerOK
  <2>2. owner' = [owner EXCEPT ![e] = InHand(t)] /\ InHand(t) # Cleared
    BY <1>4, NotListed DEF TryPopReassigned
  <2>3. UNCHANGED <<resends, clears, process_sends>>
    BY <1>4 DEF TryPopReassigned, historyVars
  <2> HIDE DEF e
  <2>4. QED
    BY <2>1, <2>2, <2>3, SentOnceMove, NotListed, ClearedDiffers
<1>5. ASSUME NEW t \in Threads, PushEventsDone(t) \/ PopCore(t) PROVE SentOnceOK'
  BY <1>1, <1>5 DEF PushEventsDone, PopCore, historyVars
<1>6. ASSUME NEW t \in Threads, Accept(t) \/ Refuse(t) PROVE SentOnceOK'
  <2> DEFINE e == Offered(t)
  <2>1. e \in Events /\ owner[e] = InHand(t)
    BY <1>6, OfferedIsEvent, OfferedInHand DEF Accept, Refuse
  <2>2. PICK r : owner' = [owner EXCEPT ![e] = r] /\ r # Cleared
    <3>1. CASE Accept(t)
      BY <3>1, OfferedIsEvent, NotListed DEF Accept
    <3>2. CASE Refuse(t)
      BY <3>2, ClearedDiffers DEF Refuse
    <3>3. QED
      BY <1>6, <3>1, <3>2
  <2>3. UNCHANGED <<resends, clears, process_sends>>
    BY <1>6 DEF Accept, Refuse, historyVars
  <2> HIDE DEF e
  <2>4. QED
    BY <2>1, <2>2, <2>3, SentOnceMove, NotListed
<1>7. CASE StopRecording
  <2>1. /\ owner' = [e \in Events |-> IF owner[e] = Queued THEN Discarded ELSE owner[e]]
        /\ UNCHANGED <<resends, clears, process_sends>>
    BY <1>7 DEF StopRecording, historyVars
  <2>2. QED
    BY <2>1, NotListed, ClearedDiffers DEF SentOnceOK, SentOnce
<1>8. ASSUME NEW s \in Sessions,
             \/ OnOpen(s) \/ OnReceiveRequest(s) \/ PushFreeCore(s)
             \/ OnReceiveError(s) \/ OnSendError(s) \/ OnClose(s)
             \/ OnOpenError(s) \/ OnCloseError(s) \/ Break(s)
      PROVE  SentOnceOK'
  BY <1>1, <1>8 DEF OnOpen, OnReceiveRequest, PushFreeCore, OnReceiveError,
                    OnSendError, OnClose, OnOpenError, OnCloseError, Break,
                    historyVars
<1>9. ASSUME NEW s \in Sessions, RunUndecodable(s) PROVE SentOnceOK'
  <2> DEFINE e == Head(posted[s])
  <2>1. e \in Events /\ owner[e] = OnStrand(s)
    BY <1>9, IsAtHead DEF RunUndecodable, SingleOwner, StrandsOK, TypeOK, SessionsOK
  <2>2. /\ owner' = [owner EXCEPT ![e] = Undecoded] /\ Undecoded # Cleared
        /\ UNCHANGED <<resends, clears, process_sends>>
    BY <1>9, ClearedDiffers DEF RunUndecodable, historyVars
  <2> HIDE DEF e
  <2>3. QED
    BY <2>1, <2>2, SentOnceMove, NotListed
<1>10. ASSUME NEW s \in Sessions, RunHandle(s) PROVE SentOnceOK'
  <2>1. PICK e \in Events : e = Head(posted[s]) /\ owner[e] = OnStrand(s)
    BY <1>10, IsAtHead DEF RunHandle, SingleOwner, StrandsOK, TypeOK, SessionsOK
  <2>2. /\ owner' = [owner EXCEPT ![e] = Listed(s)]
        /\ process_sends' = [process_sends EXCEPT ![e] =
                               IF resends[e] = 0 THEN process_sends[e] + 1
                                                 ELSE process_sends[e]]
        /\ UNCHANGED <<resends, clears>>
    BY <1>10, <2>1 DEF RunHandle
  <2>3. /\ owner \in [Events -> Places] /\ process_sends \in [Events -> Nat]
        /\ resends \in [Events -> Nat]
    BY DEF TypeOK, SchedulerOK
  <2>4. ASSUME NEW x \in Events, x # e PROVE SentOnce(x)'
    BY <2>2, <2>3, <2>4 DEF SentOnceOK, SentOnce
  <2>5. resends[e] = 0 => process_sends[e] = 0
    BY <2>1, <2>3, NotListed DEF SentOnceOK, SentOnce
  <2>6. /\ process_sends'[e] <= 1
        /\ clears'[e] = 0 /\ owner'[e] = Listed(s)
    BY <2>1, <2>2, <2>3, <2>5, NotListed DEF SentOnceOK, SentOnce
  <2>7. SentOnce(e)'
    BY <2>6, PlacesDiffer DEF SentOnce
  <2>8. QED
    BY <2>4, <2>7 DEF SentOnceOK
<1>11. ASSUME NEW s \in Sessions, OnReceiveFinished(s) PROVE SentOnceOK'
  <2>1. PICK e \in Events : FindAndClear(s, e)
    BY <1>11 DEF OnReceiveFinished, TypeOK, SessionsOK
  <2>2. UNCHANGED <<resends, process_sends>>
    BY <1>11 DEF OnReceiveFinished
  <2>3. CASE UNCHANGED <<events, owner, clears>>
    BY <1>1, <2>2, <2>3
  <2>4. CASE \E k \in DOMAIN events[s] :
               /\ events[s][k] = e
               /\ owner' = [owner EXCEPT ![e] = Cleared]
               /\ clears' = [clears EXCEPT ![e] = clears[e] + 1]
    <3>1. Contains(events[s], e)
      BY <2>4 DEF Contains, TypeOK, SessionsOK
    <3>2. owner[e] = Listed(s)
      BY <3>1 DEF SingleOwner, ListsOK, IsAt
    <3>3. owner \in [Events -> Places] /\ clears \in [Events -> Nat]
      BY DEF TypeOK, SchedulerOK
    <3>4. clears[e] = 0
      BY <3>2, PlacesDiffer DEF SentOnceOK, SentOnce
    <3>5. QED
      BY <2>2, <2>4, <3>2, <3>3, <3>4 DEF SentOnceOK, SentOnce
  <2>5. QED
    BY <2>1, <2>3, <2>4 DEF FindAndClear
<1>12. ASSUME NEW s \in Sessions, Expire(s) \/ Unload(s) PROVE SentOnceOK'
  <2> DEFINE e == Head(events[s])
  <2>1. e \in Events /\ owner[e] = Listed(s)
    BY <1>12, IsAtHead DEF Expire, Unload, ReassignFirst, SingleOwner, ListsOK,
                           TypeOK, SessionsOK
  <2>2. /\ owner' = [owner EXCEPT ![e] = Queued]
        /\ resends' = [resends EXCEPT ![e] = resends[e] + 1]
        /\ UNCHANGED <<clears, process_sends>>
    BY <1>12 DEF Expire, Unload, ReassignFirst, historyVars
  <2>3. owner \in [Events -> Places] /\ resends \in [Events -> Nat]
    BY DEF TypeOK, SchedulerOK
  <2> HIDE DEF e
  <2>4. owner[e] # Cleared /\ Queued # Cleared
    BY <2>1, PlacesDiffer, ClearedDiffers
  <2>5. QED
    BY <2>1, <2>2, <2>3, <2>4 DEF SentOnceOK, SentOnce
<1>13. QED
  BY <1>2, <1>3, <1>4, <1>5, <1>6, <1>7, <1>8, <1>9, <1>10, <1>11, <1>12
     DEF Next, L1Step, RCStep, ThreadStep, StrandStep, Threads

(* However often an event times out or loses its DCM, handle_event sends   *)
(* at most one ProcessMessage for it and ROSClear::add_event is called for *)
(* it once, by the session that had it, and never for any other event.     *)
THEOREM ProcessedAndClearedOnce == Spec => []ProcessedOnceClearedOnce
<1>1. Init => SentOnceOK
  BY ClearedDiffers DEF Init, SentOnceOK, SentOnce
<1>2. TypeOK /\ SingleOwner /\ SentOnceOK /\ [Next]_vars => SentOnceOK'
  BY SentOnceStep
<1>3. SentOnceOK => ProcessedOnceClearedOnce
  BY DEF SentOnceOK, SentOnce, ProcessedOnceClearedOnce
<1>4. QED
  BY TypeCorrect, OneOwner, <1>1, <1>2, <1>3, PTL DEF Spec

-----------------------------------------------------------------------------
(* The sessions.                                                           *)

-----------------------------------------------------------------------------
(* NoStranded is not inductive: it has to be known that a session that     *)
(* fails to open has not been given anything, that one whose link works or *)
(* fails unnoticed still waits for a message (whose error handler is then  *)
(* to come), and that one that closes is in error.                         *)

Unopened(s) ==
  /\ ~receiving[s] /\ requests[s] = 0
  /\ ~Contains(free_cores, s) /\ \A t \in Threads : core[t] # s
  /\ posted[s] = <<>> /\ events[s] = <<>>

LinkOK(s) ==
  /\ link[s] = "new" => Unopened(s)
  /\ link[s] \in {"open", "broken"} => receiving[s]
  /\ link[s] = "closing" => in_error[s]

Stranded(s) ==
  /\ in_error[s] /\ events[s] # <<>>
  /\ ~unloading[s] /\ ~receiving[s] /\ failed_sends[s] = 0

LinkInv == \A s \in Sessions : LinkOK(s) /\ ~Stranded(s)

(* Nothing has been given to anybody when the program starts. *)
LEMMA LinkInit == Init => LinkInv
BY ConstantsAssumption
   DEF Init, LinkInv, LinkOK, Unopened, Stranded, Contains, Threads

(* What is in a queue after its first element is taken was in it before. *)
LEMMA TailContains ==
  ASSUME NEW S, NEW q \in Seq(S), q # <<>>
  PROVE  /\ Contains(q, Head(q))
         /\ \A x : Contains(Tail(q), x) => Contains(q, x)
<1>1. /\ 1 \in 1..Len(q) /\ Head(q) = q[1]
      /\ Len(Tail(q)) = Len(q) - 1 /\ Tail(q) \in Seq(S)
      /\ \A j \in 1..(Len(q) - 1) : Tail(q)[j] = q[j + 1] /\ j + 1 \in 1..Len(q)
  BY HeadTailProperties
<1>2. QED
  BY <1>1 DEF Contains

(* What is in a queue after something was appended to it. *)
LEMMA AppendContains ==
  ASSUME NEW S, NEW q \in Seq(S), NEW e \in S
  PROVE  \A x : Contains(Append(q, e), x) <=> Contains(q, x) \/ x = e
<1>1. /\ Append(q, e) \in Seq(S) /\ Len(Append(q, e)) = Len(q) + 1
      /\ \A i \in 1..Len(q) : Append(q, e)[i] = q[i]
      /\ Append(q, e)[Len(q) + 1] = e
  BY AppendProperties
<1>2. QED
  BY <1>1 DEF Contains

(* A step after which a session has less, that does not stop its handlers. *)
LEMMA LinkKeep ==
  ASSUME NEW s \in Sessions, LinkOK(s), ~Stranded(s),
         UNCHANGED <<link[s], in_error[s], receiving[s], failed_sends[s],
                     unloading[s]>>,
         events'[s] = events[s] \/ events[s] # <<>>,
         posted'[s] = posted[s] \/ link[s] # "new",
         requests'[s] = requests[s] \/ link[s] # "new",
         Contains(free_cores, s)' => Contains(free_cores, s) \/ link[s] # "new",
         \A t \in Threads : core'[t] = s => \/ core[t] = s \/ link[s] # "new"
                                            \/ Contains(free_cores, s)
  PROVE  LinkOK(s)' /\ ~Stranded(s)'
BY DEF LinkOK, Stranded, Unopened

(* The steps of the two threads. *)
LEMMA LinkThreads ==
  ASSUME TypeOK, LinkInv, L1Step \/ RCStep
  PROVE  LinkInv'
<1> SUFFICES ASSUME NEW s \in Sessions PROVE LinkOK(s)' /\ ~Stranded(s)'
  BY DEF LinkInv
<1>0. /\ LinkOK(s) /\ ~Stranded(s) /\ free_cores \in Seq(Sessions)
      /\ core \in [Threads -> Sessions \cup {NoSession}]
      /\ NoSession \notin Sessions
  BY ConstantsAssumption DEF LinkInv, TypeOK, SchedulerOK, ThreadsOK
<1>1. CASE L1Loop \/ GetResult \/ NoResult \/ StopDC \/ StopRunning \/ JoinL1
  BY <1>0, <1>1, LinkKeep DEF L1Loop, GetResult, NoResult, StopDC, StopRunning, JoinL1,
                       strandVars
<1>2. ASSUME NEW t \in Threads, TryPopReassigned(t) \/ PushEventsDone(t)
      PROVE  LinkOK(s)' /\ ~Stranded(s)'
  BY <1>0, <1>2, LinkKeep DEF TryPopReassigned, PushEventsDone, strandVars
<1>3. ASSUME NEW t \in Threads, PopCore(t) PROVE LinkOK(s)' /\ ~Stranded(s)'
  <2>1. /\ core' = [core EXCEPT ![t] = Head(free_cores)]
        /\ free_cores' = Tail(free_cores) /\ free_cores # <<>>
        /\ UNCHANGED <<strandVars, posted, events, requests>>
    BY <1>3 DEF PopCore
  <2>2. Contains(free_cores, s)' => Contains(free_cores, s)
    BY <1>0, <2>1, TailContains DEF Contains
  <2>3. \A u \in Threads : core'[u] = s => core[u] = s \/ Contains(free_cores, s)
    BY <1>0, <2>1, TailContains
  <2>4. QED
    BY <1>0, <2>1, <2>2, <2>3, LinkKeep DEF strandVars
<1>4. ASSUME NEW t \in Threads, Accept(t) PROVE LinkOK(s)' /\ ~Stranded(s)'
  <2>1. core[t] \in Sessions
    BY <1>4, OfferedIsEvent DEF Accept
  <2>2. /\ posted' = [posted EXCEPT ![core[t]] = Append(@, Offered(t))]
        /\ core' = [core EXCEPT ![t] = NoSession]
        /\ UNCHANGED <<free_cores, strandVars, events, requests>>
    BY <1>4 DEF Accept, AfterOffer
  <2>3. posted \in [Sessions -> Seq(Events)]
    BY DEF TypeOK, SessionsOK
  <2>4. posted'[s] = posted[s] \/ link[s] # "new"
    BY <1>0, <2>1, <2>2, <2>3 DEF LinkOK, Unopened
  <2>5. QED
    BY <1>0, <2>2, <2>4, LinkKeep DEF strandVars
<1>5. ASSUME NEW t \in Threads, Refuse(t) PROVE LinkOK(s)' /\ ~Stranded(s)'
  BY <1>0, <1>5, LinkKeep DEF Refuse, AfterOffer, strandVars
<1>6. CASE StopRecording
  BY <1>0, <1>6, LinkKeep DEF StopRecording, strandVars, Contains
<1>7. QED
  BY <1>1, <1>2, <1>3, <1>4, <1>5, <1>6
     DEF L1Step, RCStep, ThreadStep, Threads

(* The steps of one strand and of its connection. *)
LEMMA LinkStrand ==
  ASSUME TypeOK, LinkInv, NEW r \in Sessions,
         StrandStep(r) \/ OnOpen(r) \/ OnOpenError(r) \/ Break(r)
  PROVE  LinkInv'
<1> SUFFICES ASSUME NEW s \in Sessions PROVE LinkOK(s)' /\ ~Stranded(s)'
  BY DEF LinkInv
<1> USE DEF TypeOK, SessionsOK
<1>0. /\ LinkOK(s) /\ ~Stranded(s) /\ free_cores \in Seq(Sessions)
      /\ UNCHANGED threadVars
  BY StrandsLeaveThreads DEF LinkInv, SchedulerOK
<1>1. CASE RunUndecodable(r)
  BY <1>0, <1>1, LinkKeep DEF RunUndecodable, strandVars, threadVars, LinkOK, Unopened
<1>2. CASE RunHandle(r)
  <2>1. /\ UNCHANGED <<link, in_error, receiving, unloading, requests, free_cores>>
        /\ posted' = [posted EXCEPT ![r] = Tail(@)] /\ posted[r] # <<>>
        /\ events' = [events EXCEPT ![r] = Append(@, Head(posted[r]))]
    BY <1>2 DEF RunHandle
  <2>2. CASE s # r
    <3>1. failed_sends'[s] = failed_sends[s]
      BY <1>2, <2>2 DEF RunHandle, AsyncSend
    <3>2. QED
      BY <1>0, <2>1, <2>2, <3>1, LinkKeep DEF threadVars
  <2>3. CASE s = r
    <3>1. link[s] # "new"
      BY <1>0, <2>1, <2>3 DEF LinkOK, Unopened
    <3>2. receiving[s] \/ failed_sends'[s] > 0
      BY <1>0, <1>2, <2>3, <3>1 DEF RunHandle, AsyncSend, LinkOK
    <3>3. QED
      BY <1>0, <2>1, <2>3, <3>1, <3>2 DEF LinkOK, Stranded
  <2>4. QED
    BY <2>2, <2>3
<1>3. CASE OnReceiveRequest(r)
  BY <1>0, <1>3, LinkKeep DEF OnReceiveRequest, strandVars, threadVars
<1>4. CASE OnReceiveFinished(r)
  <2>1. /\ UNCHANGED <<threadVars, free_cores, strandVars, posted>>
        /\ link[r] = "open"
    BY <1>4 DEF OnReceiveFinished
  <2>2. PICK m \in work[r], n \in 0..(idle[r] + 1) :
          /\ requests' = [requests EXCEPT ![r] = n]
          /\ FindAndClear(r, m[1])
    BY <1>4 DEF OnReceiveFinished
  <2>3. events'[s] = events[s] \/ events[s] # <<>>
    BY <2>2 DEF FindAndClear
  <2>4. requests'[s] = requests[s] \/ link[s] # "new"
    BY <2>1, <2>2
  <2>5. QED
    BY <1>0, <2>1, <2>3, <2>4, LinkKeep DEF strandVars, threadVars
<1>5. CASE PushFreeCore(r)
  <2>1. /\ free_cores' = Append(free_cores, r) /\ requests[r] > 0
        /\ requests' = [requests EXCEPT ![r] = @ - 1]
        /\ UNCHANGED <<threadVars, strandVars, posted, events>>
    BY <1>5 DEF PushFreeCore
  <2>2. link[r] # "new"
    BY <2>1 DEF LinkInv, LinkOK, Unopened
  <2>3. Contains(free_cores, s)' => Contains(free_cores, s) \/ link[s] # "new"
    <3>1. Contains(Append(free_cores, r), s) <=> Contains(free_cores, s) \/ s = r
      BY <1>0, AppendContains
    <3>2. CASE s = r
      BY <2>2, <3>2
    <3>3. CASE s # r
      BY <2>1, <3>1, <3>3 DEF Contains
    <3>4. QED
      BY <3>2, <3>3
  <2>4. QED
    BY <1>0, <2>1, <2>2, <2>3, LinkKeep DEF strandVars, threadVars
<1>6. CASE Expire(r)
  BY <1>0, <1>6, LinkKeep DEF Expire, ReassignFirst, strandVars, threadVars
<1>7. CASE OnReceiveError(r) \/ OnSendError(r)
  BY <1>0, <1>7 DEF OnReceiveError, OnSendError, Fail, threadVars, LinkOK, Unopened,
                    Stranded, Contains
<1>8. CASE Unload(r)
  BY <1>0, <1>8 DEF Unload, ReassignFirst, threadVars, LinkOK, Unopened, Stranded,
                    Contains
<1>9. CASE OnClose(r) \/ OnCloseError(r)
  BY <1>0, <1>9 DEF OnClose, OnCloseError, LinkOK, Unopened, Stranded, threadVars,
                    Contains
<1>10. CASE OnOpen(r) \/ OnOpenError(r) \/ Break(r)
  BY <1>0, <1>10 DEF OnOpen, OnOpenError, Break, LinkOK, Unopened, Stranded,
                     threadVars, Contains
<1>11. QED
  BY <1>1, <1>2, <1>3, <1>4, <1>5, <1>6, <1>7, <1>8, <1>9, <1>10 DEF StrandStep

(* Whatever fails and in whatever order the threads, the strands and the   *)
(* network act, an event on m_events of a session whose m_in_error is set  *)
(* is still handed back: onReceiveError or onSendError of that session is  *)
(* running or to come.                                                     *)
THEOREM NoEventStranded == Spec => []NoStranded
<1>1. TypeOK /\ LinkInv /\ [Next]_vars => LinkInv'
  <2>1. CASE UNCHANGED vars
    BY <2>1 DEF vars, LinkInv, LinkOK, Unopened, Stranded, Contains
  <2>2. QED
    BY <2>1, LinkThreads, LinkStrand DEF Next
<1>2. TypeOK /\ LinkInv => NoStranded
  BY DEF LinkInv, Stranded, NoStranded, TypeOK, SessionsOK
<1>3. QED
  BY TypeCorrect, LinkInit, <1>1, <1>2, PTL DEF Spec

-----------------------------------------------------------------------------
(* NoOvercommit.  The cores of a DCM move from idle to requests, to        *)
(* m_free_cores, to the hand of a thread, to the strand and to the         *)
(* messages that are not answered; first, how the counts change.           *)

Entries(q, s) == {i \in DOMAIN q : q[i] = s}
PoppedBy(c, s) == {t \in Threads : c[t] = s}

(* A queue has finitely many entries of a session. *)
LEMMA EntriesFinite ==
  ASSUME NEW q \in Seq(Sessions), NEW s
  PROVE  IsFiniteSet(Entries(q, s)) /\ Cardinality(Entries(q, s)) \in Nat
<1>1. IsFiniteSet(1..Len(q)) /\ Entries(q, s) \in SUBSET (1..Len(q))
  BY FS_Interval DEF Entries
<1>2. QED
  BY <1>1, FS_Subset, FS_CardinalityType

(* m_free_cores.push. *)
LEMMA EntriesAppend ==
  ASSUME NEW q \in Seq(Sessions), NEW r \in Sessions, NEW s \in Sessions
  PROVE  Cardinality(Entries(Append(q, r), s)) =
           Cardinality(Entries(q, s)) + (IF r = s THEN 1 ELSE 0)
<1>1. /\ Append(q, r) \in Seq(Sessions) /\ Len(Append(q, r)) = Len(q) + 1
      /\ \A i \in 1..Len(q) : Append(q, r)[i] = q[i]
      /\ Append(q, r)[Len(q) + 1] = r
  BY AppendProperties
<1>2. CASE r = s
  <2>1. Entries(Append(q, r), s) = Entries(q, s) \cup {Len(q) + 1}
    BY <1>1, <1>2 DEF Entries
  <2>2. Len(q) + 1 \notin Entries(q, s)
    BY DEF Entries
  <2>3. QED
    BY <1>2, <2>1, <2>2, EntriesFinite, FS_AddElement
<1>3. CASE r # s
  <2>1. Entries(Append(q, r), s) = Entries(q, s)
    BY <1>1, <1>3 DEF Entries
  <2>2. QED
    BY <1>3, <2>1, EntriesFinite
<1>4. QED
  BY <1>2, <1>3

(* m_free_cores.pop. *)
LEMMA EntriesTail ==
  ASSUME NEW q \in Seq(Sessions), q # <<>>, NEW s \in Sessions
  PROVE  Cardinality(Entries(Tail(q), s)) =
           Cardinality(Entries(q, s)) - (IF Head(q) = s THEN 1 ELSE 0)
<1> DEFINE A == Entries(q, s) \ {1}
           B == Entries(Tail(q), s)
           f == [i \in A |-> i - 1]
<1>1. /\ 1 \in 1..Len(q) /\ Head(q) = q[1] /\ DOMAIN q = 1..Len(q)
      /\ Len(Tail(q)) = Len(q) - 1 /\ Tail(q) \in Seq(Sessions)
      /\ DOMAIN Tail(q) = 1..(Len(q) - 1)
      /\ \A j \in 1..(Len(q) - 1) : Tail(q)[j] = q[j + 1]
  BY HeadTailProperties
<1>2. \A i \in A : i - 1 \in B
  BY <1>1 DEF Entries
<1>3. \A j \in B : j + 1 \in A /\ j = (j + 1) - 1
  BY <1>1 DEF Entries
<1>4. \A i, j \in A : i - 1 = j - 1 => i = j
  BY <1>1 DEF Entries
<1>5. f \in Bijection(A, B)
  <2> HIDE DEF A, B
  <2>1. f \in [A -> B] /\ \A i \in A : f[i] = i - 1
    BY <1>2
  <2>2. \A i, j \in A : f[i] = f[j] => i = j
    BY <1>4, <2>1
  <2>3. \A j \in B : \E i \in A : f[i] = j
    BY <1>3, <2>1
  <2> HIDE DEF f
  <2>4. f \in Injection(A, B)
    BY <2>1, <2>2 DEF Injection, IsInjective
  <2>5. f \in Surjection(A, B)
    BY <2>1, <2>3 DEF Surjection
  <2>6. QED
    BY <2>4, <2>5 DEF Bijection
<1>6. /\ IsFiniteSet(A)
      /\ Cardinality(A) = Cardinality(Entries(q, s)) - (IF Head(q) = s THEN 1 ELSE 0)
  <2>1. 1 \in Entries(q, s) <=> Head(q) = s
    BY <1>1 DEF Entries
  <2>2. QED
    BY <2>1, EntriesFinite, FS_RemoveElement
<1>7. Cardinality(B) = Cardinality(A)
  BY <1>5, <1>6, FS_Bijection DEF ExistsBijection
<1>8. QED
  BY <1>6, <1>7

(* Finitely many threads hold a core of a session. *)
LEMMA PoppedFinite ==
  ASSUME NEW c, NEW s
  PROVE  IsFiniteSet(PoppedBy(c, s)) /\ Cardinality(PoppedBy(c, s)) \in Nat
<1>1. IsFiniteSet(Threads)
  <2>1. IsFiniteSet({L1}) /\ Threads = {L1} \cup {RC}
    BY FS_Singleton DEF Threads
  <2> HIDE DEF Threads
  <2>2. QED
    BY <2>1, FS_AddElement
<1>2. PoppedBy(c, s) \in SUBSET Threads
  BY DEF PoppedBy
<1>3. QED
  BY <1>1, <1>2, FS_Subset, FS_CardinalityType

(* A thread takes or gives away a core. *)
LEMMA PoppedSet ==
  ASSUME NEW c, NEW d, NEW t \in Threads, NEW s,
         \A u \in Threads : u # t => d[u] = c[u]
  PROVE  /\ c[t] # s /\ d[t] = s =>
              Cardinality(PoppedBy(d, s)) = Cardinality(PoppedBy(c, s)) + 1
         /\ c[t] = s /\ d[t] # s =>
              Cardinality(PoppedBy(d, s)) = Cardinality(PoppedBy(c, s)) - 1
         /\ c[t] # s /\ d[t] # s =>
              Cardinality(PoppedBy(d, s)) = Cardinality(PoppedBy(c, s))
<1> DEFINE A == PoppedBy(c, s)
           B == PoppedBy(d, s)
<1>1. IsFiniteSet(A) /\ (t \in A <=> c[t] = s)
  BY PoppedFinite DEF PoppedBy
<1>2. B = IF d[t] = s THEN A \cup {t} ELSE A \ {t}
  BY DEF PoppedBy
<1> HIDE DEF A, B
<1>3. Cardinality(A \cup {t}) = IF t \in A THEN Cardinality(A)
                                           ELSE Cardinality(A) + 1
  BY <1>1, FS_AddElement
<1>4. Cardinality(A \ {t}) = IF t \in A THEN Cardinality(A) - 1
                                        ELSE Cardinality(A)
  BY <1>1, FS_RemoveElement
<1>5. /\ c[t] # s /\ d[t] = s => Cardinality(B) = Cardinality(A) + 1
      /\ c[t] = s /\ d[t] # s => Cardinality(B) = Cardinality(A) - 1
      /\ c[t] # s /\ d[t] # s => Cardinality(B) = Cardinality(A)
  BY <1>1, <1>2, <1>3, <1>4
<1>6. QED
  BY <1>5 DEF A, B

(* The cores of s that are idle or about to be announced, in m_free_cores, *)
(* popped, and given an event that is not answered.                        *)
Offer(s)      == idle[s] + requests[s]
Waiting(q, s) == Cardinality(Entries(q, s))
Popped(c, s)  == Cardinality(PoppedBy(c, s))
Sent(s)       == Len(posted[s]) + Cardinality(work[s])

Spoken(s) == Offer(s) + Waiting(free_cores, s) + Popped(core, s) + Sent(s)

CoreInv == \A s \in Sessions : IsFiniteSet(work[s]) /\ Spoken(s) <= Cores

(* All the numbers that Spoken adds are numbers, and stay within Cores. *)
LEMMA Counts ==
  ASSUME TypeOK, CoreInv, NEW s \in Sessions
  PROVE  /\ Offer(s) \in Nat /\ Waiting(free_cores, s) \in Nat
         /\ Popped(core, s) \in Nat /\ Sent(s) \in Nat
         /\ Offer(s) + Waiting(free_cores, s) + Popped(core, s) + Sent(s) <= Cores
         /\ Cores \in Nat
<1>1. Waiting(free_cores, s) \in Nat
  BY EntriesFinite DEF TypeOK, SchedulerOK, Waiting
<1>2. Popped(core, s) \in Nat
  BY PoppedFinite DEF Popped
<1>3. Offer(s) \in Nat
  BY DEF TypeOK, SessionsOK, Offer
<1>4. Sent(s) \in Nat
  <2>1. Cardinality(work[s]) \in Nat
    BY FS_CardinalityType DEF CoreInv
  <2>2. posted[s] \in Seq(Events)
    BY DEF TypeOK, SessionsOK
  <2>3. QED
    BY <2>1, <2>2 DEF Sent
<1>5. QED
  BY <1>1, <1>2, <1>3, <1>4, ConstantsAssumption DEF CoreInv, Spoken

(* A step that does not concern the cores of a session. *)
LEMMA CoreKeep ==
  ASSUME CoreInv,
         UNCHANGED <<idle, requests, free_cores, core, posted, work>>
  PROVE  CoreInv'
BY DEF CoreInv, Spoken, Offer, Sent

(* The steps of the two threads. *)
LEMMA CoreThreads ==
  ASSUME TypeOK, CoreInv, L1Step \/ RCStep
  PROVE  CoreInv'
<1> USE DEF Spoken
<1>1. CASE L1Loop \/ GetResult \/ NoResult \/ StopDC \/ StopRunning \/ JoinL1
  BY <1>1, CoreKeep DEF L1Loop, GetResult, NoResult, StopDC, StopRunning, JoinL1,
                        dcmVars
<1>2. ASSUME NEW t \in Threads, TryPopReassigned(t) \/ PushEventsDone(t)
      PROVE  CoreInv'
  BY <1>2, CoreKeep DEF TryPopReassigned, PushEventsDone, dcmVars
<1>3. UNCHANGED <<idle, requests, work>>
  BY DEF L1Step, RCStep, ThreadStep, L1Loop, GetResult, NoResult, StopDC, StopRunning,
         JoinL1, StopRecording, TryPopReassigned, PushEventsDone, PopCore, Accept,
         Refuse, dcmVars
<1>4. ASSUME NEW s \in Sessions
      PROVE  (IsFiniteSet(work[s]))' /\ Offer(s)' = Offer(s)
  BY <1>3 DEF CoreInv, Offer
<1>5. ASSUME NEW s \in Sessions, NEW t \in Threads, PopCore(t)
      PROVE  (Spoken(s) <= Cores)'
  <2>1. /\ core' = [core EXCEPT ![t] = Head(free_cores)]
        /\ free_cores' = Tail(free_cores) /\ free_cores # <<>>
        /\ posted' = posted
    BY <1>5 DEF PopCore
  <2>2. /\ core \in [Threads -> Sessions \cup {NoSession}] /\ core[t] = NoSession
        /\ NoSession # s /\ free_cores \in Seq(Sessions)
        /\ Head(free_cores) \in Sessions
    BY <1>5, ConstantsAssumption, TailType
       DEF PopCore, TypeOK, ThreadsOK, SchedulerOK
  <2>3. Waiting(free_cores, s)' =
          Waiting(free_cores, s) - (IF Head(free_cores) = s THEN 1 ELSE 0)
    BY <2>1, <2>2, EntriesTail DEF Waiting
  <2>4. Popped(core, s)' = Popped(core, s) + (IF Head(free_cores) = s THEN 1 ELSE 0)
    <3>1. /\ \A u \in Threads : u # t => core'[u] = core[u]
          /\ core'[t] = Head(free_cores) /\ core[t] # s
      BY <2>1, <2>2
    <3>2. Popped(core, s) \in Nat
      BY PoppedFinite DEF Popped
    <3>3. QED
      BY <3>1, <3>2, PoppedSet DEF Popped
  <2>5. Sent(s)' = Sent(s)
    BY <1>3, <2>1 DEF Sent
  <2>6. QED
    BY <1>4, <2>3, <2>4, <2>5, Counts
<1>6. ASSUME NEW s \in Sessions, NEW t \in Threads, Accept(t) \/ Refuse(t)
      PROVE  (Spoken(s) <= Cores)'
  <2>1. /\ Offered(t) \in Events /\ core[t] \in Sessions
        /\ core \in [Threads -> Sessions \cup {NoSession}] /\ NoSession # s
    BY <1>6, OfferedIsEvent, ConstantsAssumption DEF Accept, Refuse, TypeOK, ThreadsOK
  <2>2. /\ core' = [core EXCEPT ![t] = NoSession]
        /\ free_cores' = free_cores
        /\ \/ posted' = [posted EXCEPT ![core[t]] = Append(@, Offered(t))]
           \/ posted' = posted
    BY <1>6 DEF Accept, Refuse, AfterOffer
  <2>3. Popped(core, s)' = Popped(core, s) - (IF core[t] = s THEN 1 ELSE 0)
    <3>1. /\ \A u \in Threads : u # t => core'[u] = core[u]
          /\ core'[t] # s
      BY <2>1, <2>2
    <3>2. Popped(core, s) \in Nat
      BY PoppedFinite DEF Popped
    <3>3. core[t] = s => Cardinality(PoppedBy(core', s)) = Cardinality(PoppedBy(core, s)) - 1
      BY <3>1, PoppedSet
    <3>4. core[t] # s => Cardinality(PoppedBy(core', s)) = Cardinality(PoppedBy(core, s))
      <4>1. core[t] # s => PoppedBy(core', s) = PoppedBy(core, s)
        BY <3>1 DEF PoppedBy
      <4>2. QED
        BY <4>1
    <3>5. QED
      BY <3>2, <3>3, <3>4 DEF Popped
  <2>4. Sent(s)' \in Int /\ Sent(s)' <= Sent(s) + (IF core[t] = s THEN 1 ELSE 0)
    <3>1. posted \in [Sessions -> Seq(Events)] /\ Cardinality(work[s]) \in Nat
      BY FS_CardinalityType DEF TypeOK, SessionsOK, CoreInv
    <3>2. /\ Len(posted'[s]) \in Nat /\ Len(posted[s]) \in Nat
          /\ Len(posted'[s]) <= Len(posted[s]) + (IF core[t] = s THEN 1 ELSE 0)
      BY <2>1, <2>2, <3>1, AppendProperties
    <3>3. QED
      BY <1>3, <3>1, <3>2 DEF Sent
  <2>5. Waiting(free_cores, s)' = Waiting(free_cores, s)
    BY <2>2
  <2>6. QED
    BY <1>4, <2>3, <2>4, <2>5, Counts
<1>7. ASSUME NEW s \in Sessions, StopRecording
      PROVE  (Spoken(s) <= Cores)'
  <2>1. free_cores' = <<>> /\ UNCHANGED <<core, posted>>
    BY <1>7 DEF StopRecording
  <2>2. Entries(<<>>, s) = {} /\ Cardinality({}) = 0
    BY FS_EmptySet DEF Entries
  <2>3. Waiting(free_cores, s)' = 0
    BY <2>1, <2>2 DEF Waiting
  <2>4. Popped(core, s)' = Popped(core, s) /\ Sent(s)' = Sent(s)
    BY <1>3, <2>1 DEF Sent
  <2>5. QED
    BY <1>4, <2>3, <2>4, Counts
<1>8. QED
  BY <1>1, <1>2, <1>4, <1>5, <1>6, <1>7
     DEF CoreInv, L1Step, RCStep, ThreadStep, Threads

(* The steps of one strand and of its connection. *)
LEMMA CoreStrand ==
  ASSUME TypeOK, CoreInv, NEW r \in Sessions,
         StrandStep(r) \/ OnOpen(r) \/ OnOpenError(r) \/ Break(r)
  PROVE  CoreInv'
<1> USE DEF Spoken
<1>1. CASE \/ Expire(r) \/ OnReceiveError(r) \/ OnSendError(r) \/ Unload(r)
           \/ OnClose(r) \/ OnCloseError(r) \/ OnOpen(r) \/ OnOpenError(r)
           \/ Break(r)
  BY <1>1, CoreKeep
     DEF Expire, OnReceiveError, OnSendError, Unload, OnClose, OnCloseError,
         OnOpen, OnOpenError, Break, threadVars, dcmVars
<1>2. ASSUME NEW s \in Sessions PROVE Popped(core, s)' = Popped(core, s)
  BY StrandsLeaveThreads DEF threadVars
<1>3. /\ posted \in [Sessions -> Seq(Events)] /\ idle \in [Sessions -> Nat]
      /\ requests \in [Sessions -> Nat] /\ free_cores \in Seq(Sessions)
      /\ work \in [Sessions -> SUBSET (Events \X Nat)]
  BY DEF TypeOK, SessionsOK, SchedulerOK
<1>4. ASSUME NEW s \in Sessions
      PROVE  IsFiniteSet(work[s]) /\ Cardinality(work[s]) \in Nat
  BY FS_CardinalityType DEF CoreInv
<1>5. ASSUME NEW s \in Sessions, RunUndecodable(r) \/ RunHandle(r)
      PROVE  IsFiniteSet(work[s])' /\ (Spoken(s) <= Cores)'
  <2>1. /\ posted[r] # <<>> /\ posted' = [posted EXCEPT ![r] = Tail(@)]
        /\ UNCHANGED <<idle, requests, free_cores>>
    BY <1>5 DEF RunUndecodable, RunHandle, dcmVars
  <2>2. PICK m : \/ work' = [work EXCEPT ![r] = @ \cup {m}]
                 \/ work' = work
    BY <1>5 DEF RunUndecodable, RunHandle, AsyncSend, dcmVars
  <2>3. CASE r # s
    <3>1. work'[s] = work[s] /\ posted'[s] = posted[s]
      BY <1>3, <2>1, <2>2, <2>3
    <3>2. Sent(s)' = Sent(s) /\ Offer(s)' = Offer(s)
      BY <2>1, <3>1 DEF Sent, Offer
    <3>3. QED
      BY <1>2, <1>4, <2>1, <3>1, <3>2, Counts
  <2>4. CASE r = s
    <3>1. /\ Len(posted'[s]) = Len(posted[s]) - 1
          /\ Len(posted[s]) \in Nat /\ Len(posted'[s]) \in Nat
      BY <1>3, <2>1, <2>4, HeadTailProperties
    <3>2. work'[s] = work[s] \/ work'[s] = work[s] \cup {m}
      BY <1>3, <2>2, <2>4
    <3>3. /\ IsFiniteSet(work[s] \cup {m})
          /\ Cardinality(work[s] \cup {m}) \in Nat
          /\ Cardinality(work[s] \cup {m}) <= Cardinality(work[s]) + 1
      <4> DEFINE W == work[s]
      <4>1. IsFiniteSet(W) /\ Cardinality(W) \in Nat
        BY <1>4
      <4> HIDE DEF W
      <4>2. /\ IsFiniteSet(W \cup {m}) /\ Cardinality(W \cup {m}) \in Nat
            /\ Cardinality(W \cup {m}) <= Cardinality(W) + 1
        BY <4>1, FS_AddElement
      <4>3. QED
        BY <4>2 DEF W
    <3>4. /\ IsFiniteSet(work'[s]) /\ Cardinality(work'[s]) \in Nat
          /\ Cardinality(work'[s]) <= Cardinality(work[s]) + 1
      <4>1. CASE work'[s] = work[s]
        BY <1>4, <4>1
      <4>2. CASE work'[s] = work[s] \cup {m}
        BY <3>3, <4>2, Zenon
      <4>3. QED
        BY <3>2, <4>1, <4>2
    <3>5. Sent(s)' \in Int /\ Sent(s)' <= Sent(s)
      BY <1>4, <3>1, <3>4 DEF Sent
    <3>6. Offer(s)' = Offer(s) /\ Waiting(free_cores, s)' = Waiting(free_cores, s)
      BY <2>1 DEF Offer
    <3>7. QED
      BY <1>2, <3>4, <3>5, <3>6, Counts
  <2>5. QED
    BY <2>3, <2>4
<1>6. ASSUME OnReceiveRequest(r) \/ OnReceiveFinished(r)
      PROVE  /\ UNCHANGED <<free_cores, posted>> /\ requests[r] = 0
             /\ \E n \in Nat, left \in Nat, w \in SUBSET work[r] :
                  /\ idle' = [idle EXCEPT ![r] = left]
                  /\ requests' = [requests EXCEPT ![r] = n]
                  /\ work' = [work EXCEPT ![r] = w]
                  /\ \/ w = work[r] /\ left + n = idle[r]
                     \/ left + n = idle[r] + 1 /\ \E m \in work[r] : w = work[r] \ {m}
  <2>1. UNCHANGED <<free_cores, posted>> /\ requests[r] = 0
    BY <1>6 DEF OnReceiveRequest, OnReceiveFinished, StrandFree
  <2>2. CASE OnReceiveRequest(r)
    <3>1. PICK n \in 1..idle[r] : /\ idle' = [idle EXCEPT ![r] = idle[r] - n]
                                  /\ requests' = [requests EXCEPT ![r] = n]
      BY <2>2 DEF OnReceiveRequest
    <3>2. work' = [work EXCEPT ![r] = work[r]]
      BY <1>3, <2>2 DEF OnReceiveRequest
    <3>3. n \in Nat /\ idle[r] - n \in Nat /\ (idle[r] - n) + n = idle[r]
      BY <1>3
    <3>4. QED
      BY <2>1, <3>1, <3>2, <3>3
  <2>3. CASE OnReceiveFinished(r)
    <3>1. PICK m \in work[r], n \in 0..(idle[r] + 1) :
            /\ work' = [work EXCEPT ![r] = work[r] \ {m}]
            /\ idle' = [idle EXCEPT ![r] = idle[r] + 1 - n]
            /\ requests' = [requests EXCEPT ![r] = n]
      BY <2>3 DEF OnReceiveFinished
    <3>2. n \in Nat /\ idle[r] + 1 - n \in Nat /\ (idle[r] + 1 - n) + n = idle[r] + 1
      BY <1>3
    <3>3. QED
      BY <2>1, <3>1, <3>2
  <2>4. QED
    BY <1>6, <2>2, <2>3
<1>7. ASSUME NEW s \in Sessions, OnReceiveRequest(r) \/ OnReceiveFinished(r)
      PROVE  IsFiniteSet(work[s])' /\ (Spoken(s) <= Cores)'
  <2>1. UNCHANGED <<free_cores, posted>> /\ requests[r] = 0
    BY <1>6, <1>7
  <2>2. PICK n \in Nat, left \in Nat, w \in SUBSET work[r] :
          /\ idle' = [idle EXCEPT ![r] = left]
          /\ requests' = [requests EXCEPT ![r] = n]
          /\ work' = [work EXCEPT ![r] = w]
          /\ \/ w = work[r] /\ left + n = idle[r]
             \/ left + n = idle[r] + 1 /\ \E m \in work[r] : w = work[r] \ {m}
    BY <1>6, <1>7
  <2>3. CASE r # s
    <3>1. /\ work'[s] = work[s] /\ posted'[s] = posted[s]
          /\ idle'[s] = idle[s] /\ requests'[s] = requests[s]
      BY <1>3, <2>1, <2>2, <2>3
    <3>2. Sent(s)' = Sent(s) /\ Offer(s)' = Offer(s)
      BY <3>1 DEF Sent, Offer
    <3>3. QED
      BY <1>2, <1>4, <2>1, <3>1, <3>2, Counts
  <2>4. CASE r = s
    <3>1. idle'[s] = left /\ requests'[s] = n /\ work'[s] = w /\ posted'[s] = posted[s]
      BY <1>3, <2>1, <2>2, <2>4
    <3>2. Offer(s)' = left + n /\ Offer(s) = idle[s] /\ idle[s] \in Nat
      BY <1>3, <2>1, <2>4, <3>1 DEF Offer
    <3>3. Len(posted[s]) \in Nat
      BY <1>3
    <3>4. CASE w = work[s] /\ left + n = idle[s]
      <4>1. Offer(s)' = Offer(s) /\ Sent(s)' = Sent(s)
        BY <3>1, <3>2, <3>4 DEF Sent
      <4>2. QED
        BY <1>2, <1>4, <2>1, <3>1, <3>4, <4>1, Counts
    <3>5. CASE left + n = idle[s] + 1 /\ \E m \in work[s] : w = work[s] \ {m}
      <4>1. PICK m \in work[s] : w = work[s] \ {m}
        BY <3>5
      <4>2. IsFiniteSet(w) /\ Cardinality(w) = Cardinality(work[s]) - 1
        BY <1>4, <4>1, FS_RemoveElement
      <4>3. Offer(s)' = Offer(s) + 1
        BY <3>2, <3>5
      <4>4. Sent(s)' = Sent(s) - 1
        BY <1>4, <3>1, <3>3, <4>2 DEF Sent
      <4>5. QED
        BY <1>2, <2>1, <3>1, <4>2, <4>3, <4>4, Counts
    <3>6. QED
      BY <2>2, <2>4, <3>4, <3>5
  <2>5. QED
    BY <2>3, <2>4
<1>8. ASSUME NEW s \in Sessions, PushFreeCore(r)
      PROVE  IsFiniteSet(work[s])' /\ (Spoken(s) <= Cores)'
  <2>1. /\ requests[r] > 0 /\ requests' = [requests EXCEPT ![r] = requests[r] - 1]
        /\ free_cores' = Append(free_cores, r) /\ UNCHANGED <<idle, posted, work>>
    BY <1>8 DEF PushFreeCore, dcmVars
  <2>2. Waiting(free_cores, s)' = Waiting(free_cores, s) + (IF r = s THEN 1 ELSE 0)
    BY <1>3, <2>1, EntriesAppend DEF Waiting
  <2>3. Offer(s)' = Offer(s) - (IF r = s THEN 1 ELSE 0)
    BY <1>3, <2>1 DEF Offer
  <2>4. Sent(s)' = Sent(s)
    BY <2>1 DEF Sent
  <2>5. CASE r = s
    BY <1>2, <1>4, <2>1, <2>2, <2>3, <2>4, <2>5, Counts
  <2>6. CASE r # s
    BY <1>2, <1>4, <2>1, <2>2, <2>3, <2>4, <2>6, Counts
  <2>7. QED
    BY <2>5, <2>6
<1>9. QED
  BY <1>1, <1>5, <1>7, <1>8 DEF CoreInv, StrandStep

(* request_events pushes as many free cores as a DCM offered, and every    *)
(* core is taken once, whatever events expire, are re-assigned or are      *)
(* refused: the entries of m_free_cores, the cores popped by the threads,  *)
(* the sends on the strand and the messages without an answer are never    *)
(* more than the cores of the DCM.                                         *)
THEOREM NeverOvercommitted == Spec => []NoOvercommit
<1>1. Init => CoreInv
  <2>1. ASSUME Init, NEW s \in Sessions
        PROVE  IsFiniteSet(work[s]) /\ Spoken(s) <= Cores
    <3>1. Entries(free_cores, s) = {} /\ PoppedBy(core, s) = {}
      BY <2>1, ConstantsAssumption DEF Init, Entries, PoppedBy
    <3>2. Cardinality({}) = 0 /\ IsFiniteSet({}) /\ Len(<<>>) = 0
      BY FS_EmptySet
    <3>3. Waiting(free_cores, s) = 0 /\ Popped(core, s) = 0
      BY <3>1, <3>2 DEF Waiting, Popped
    <3>4. Offer(s) = Cores /\ Sent(s) = 0
      BY <2>1, <3>2, ConstantsAssumption DEF Init, Offer, Sent
    <3>5. QED
      BY <2>1, <3>2, <3>3, <3>4, ConstantsAssumption DEF Init, Spoken
  <2>2. QED
    BY <2>1 DEF CoreInv
<1>2. TypeOK /\ CoreInv /\ [Next]_vars => CoreInv'
  <2>1. CASE UNCHANGED vars
    BY <2>1, CoreKeep DEF vars
  <2>2. QED
    BY <2>1, CoreThreads, CoreStrand DEF Next
<1>3. TypeOK /\ CoreInv => NoOvercommit
  <2>1. ASSUME TypeOK, CoreInv, NEW s \in Sessions
        PROVE  idle[s] + requests[s] + Cardinality(FreeCoresOf(s))
                 + Cardinality(PoppedCores(s)) + Len(posted[s]) + Cardinality(work[s])
                 <= Cores
    <3>1. /\ Cardinality(FreeCoresOf(s)) = Waiting(free_cores, s)
          /\ Cardinality(PoppedCores(s)) = Popped(core, s)
      BY DEF Waiting, Popped, Entries, PoppedBy, FreeCoresOf, PoppedCores
    <3>2. /\ idle[s] + requests[s] = Offer(s)
          /\ Len(posted[s]) + Cardinality(work[s]) = Sent(s)
      BY DEF Offer, Sent
    <3>3. Len(posted[s]) \in Nat /\ Cardinality(work[s]) \in Nat
      BY <2>1, FS_CardinalityType DEF TypeOK, SessionsOK, CoreInv
    <3>4. QED
      BY <2>1, <3>1, <3>2, <3>3, Counts
  <2>2. QED
    BY <2>1 DEF NoOvercommit
<1>4. QED
  BY TypeCorrect, <1>1, <1>2, <1>3, PTL DEF Spec

-----------------------------------------------------------------------------
(* The life of an event.                                                   *)

(* The move of event e from one place to another. *)
Move(e, from, to) == owner[e] = from /\ owner' = [owner EXCEPT ![e] = to]

Deliver == \E e \in Events : /\ Move(e, AtSource, InHand(L1))
                             /\ \A d \in Events : d < e => owner[d] # AtSource
Retry   == \E e \in Events, t \in Threads : Move(e, Queued, InHand(t))
HandOver == \E e \in Events, t \in Threads, s \in Sessions :
             Move(e, InHand(t), OnStrand(s))
Drop    == \E e \in Events : \/ \E t \in Threads : Move(e, InHand(t), Lost)
                             \/ \E s \in Sessions : Move(e, OnStrand(s), Undecoded)
Send    == \E e \in Events, s \in Sessions : Move(e, OnStrand(s), Listed(s))
Finish  == \E e \in Events, s \in Sessions : Move(e, Listed(s), Cleared)
GiveBack == \E e \in Events, s \in Sessions : Move(e, Listed(s), Queued)
Discard == owner' = [e \in Events |-> IF owner[e] = Queued THEN Discarded
                                                           ELSE owner[e]]

Moved == \/ UNCHANGED owner
         \/ Deliver \/ Retry \/ HandOver \/ Drop \/ Send \/ Finish \/ GiveBack
         \/ Discard

(* These are all the moves of an event. *)
LEMMA Moves ==
  ASSUME TypeOK, SingleOwner, [Next]_vars
  PROVE  Moved
<1> USE DEF Moved, Move
<1>1. CASE \/ L1Loop \/ NoResult \/ StopDC \/ StopRunning \/ JoinL1
           \/ UNCHANGED vars
  BY <1>1 DEF L1Loop, NoResult, StopDC, StopRunning, JoinL1, vars
<1>2. CASE GetResult
  <2>1. /\ taken + 1 \in Events /\ owner' = [owner EXCEPT ![taken + 1] = InHand(L1)]
        /\ taken \in Nat
    BY <1>2, ConstantsAssumption DEF GetResult, TypeOK, ThreadsOK, Events
  <2>2. \A d \in Events : owner[d] = AtSource <=> d > taken
    BY DEF SingleOwner, AtSourceOK
  <2>3. owner[taken + 1] = AtSource
    BY <2>1, <2>2
  <2>4. \A d \in Events : d < taken + 1 => owner[d] # AtSource
    BY <2>1, <2>2 DEF Events
  <2>5. QED
    BY <2>1, <2>3, <2>4 DEF Deliver
<1>3. ASSUME NEW t \in Threads, TryPopReassigned(t) PROVE Moved
  <2> DEFINE e == Head(reassigned_events)
  <2>1. e \in Events /\ owner[e] = Queued
    BY <1>3, IsAtHead
       DEF TryPopReassigned, SingleOwner, QueueOK, TypeOK, SchedulerOK
  <2>2. owner' = [owner EXCEPT ![e] = InHand(t)]
    BY <1>3 DEF TryPopReassigned
  <2> HIDE DEF e
  <2>3. QED
    BY <2>1, <2>2 DEF Retry
<1>4. ASSUME NEW t \in Threads, PushEventsDone(t) \/ PopCore(t) PROVE Moved
  BY <1>4 DEF PushEventsDone, PopCore
<1>5. ASSUME NEW t \in Threads, Accept(t) PROVE Moved
  <2>1. Offered(t) \in Events /\ owner[Offered(t)] = InHand(t) /\ core[t] \in Sessions
    BY <1>5, OfferedIsEvent, OfferedInHand DEF Accept
  <2>2. owner' = [owner EXCEPT ![Offered(t)] = OnStrand(core[t])]
    BY <1>5 DEF Accept
  <2>3. QED
    BY <2>1, <2>2 DEF HandOver
<1>6. ASSUME NEW t \in Threads, Refuse(t) PROVE Moved
  <2>1. Offered(t) \in Events /\ owner[Offered(t)] = InHand(t)
    BY <1>6, OfferedIsEvent, OfferedInHand DEF Refuse
  <2>2. owner' = [owner EXCEPT ![Offered(t)] = Lost]
    BY <1>6 DEF Refuse
  <2>3. QED
    BY <2>1, <2>2 DEF Drop
<1>7. CASE StopRecording
  BY <1>7 DEF StopRecording, Discard
<1>8. ASSUME NEW s \in Sessions,
             \/ OnOpen(s) \/ OnReceiveRequest(s) \/ PushFreeCore(s)
             \/ OnReceiveError(s) \/ OnSendError(s) \/ OnClose(s)
             \/ OnOpenError(s) \/ OnCloseError(s) \/ Break(s)
      PROVE  Moved
  BY <1>8 DEF OnOpen, OnReceiveRequest, PushFreeCore, OnReceiveError,
              OnSendError, OnClose, OnOpenError, OnCloseError, Break
<1>9. ASSUME NEW s \in Sessions, RunUndecodable(s) \/ RunHandle(s) PROVE Moved
  <2> DEFINE e == Head(posted[s])
  <2>1. e \in Events /\ owner[e] = OnStrand(s)
    BY <1>9, IsAtHead DEF RunUndecodable, RunHandle, SingleOwner, StrandsOK, TypeOK,
                          SessionsOK
  <2>2. \/ owner' = [owner EXCEPT ![e] = Undecoded]
        \/ owner' = [owner EXCEPT ![e] = Listed(s)]
    BY <1>9 DEF RunUndecodable, RunHandle
  <2> HIDE DEF e
  <2>3. QED
    BY <2>1, <2>2 DEF Drop, Send
<1>10. ASSUME NEW s \in Sessions, OnReceiveFinished(s) PROVE Moved
  <2>1. PICK e \in Events : FindAndClear(s, e)
    BY <1>10 DEF OnReceiveFinished, TypeOK, SessionsOK
  <2>2. CASE UNCHANGED owner
    BY <2>2
  <2>3. CASE /\ \E k \in DOMAIN events[s] : events[s][k] = e
             /\ owner' = [owner EXCEPT ![e] = Cleared]
    <3>1. Contains(events[s], e)
      BY <2>3 DEF Contains, TypeOK, SessionsOK
    <3>2. owner[e] = Listed(s)
      BY <3>1 DEF SingleOwner, ListsOK, IsAt
    <3>3. QED
      BY <2>3, <3>2 DEF Finish
  <2>4. QED
    BY <2>1, <2>2, <2>3 DEF FindAndClear
<1>11. ASSUME NEW s \in Sessions, Expire(s) \/ Unload(s) PROVE Moved
  <2> DEFINE e == Head(events[s])
  <2>1. e \in Events /\ owner[e] = Listed(s)
    BY <1>11, IsAtHead DEF Expire, Unload, ReassignFirst, SingleOwner, ListsOK,
                           TypeOK, SessionsOK
  <2>2. owner' = [owner EXCEPT ![e] = Queued]
    BY <1>11 DEF Expire, Unload, ReassignFirst
  <2> HIDE DEF e
  <2>3. QED
    BY <2>1, <2>2 DEF GiveBack
<1>12. QED
  BY <1>1, <1>2, <1>3, <1>4, <1>5, <1>6, <1>7, <1>8, <1>9, <1>10, <1>11
     DEF Next, L1Step, RCStep, ThreadStep, StrandStep, Threads

-----------------------------------------------------------------------------
(* ClearIsFinal. *)

(* No event leaves the place of the cleared ones. *)
LEMMA ClearedStays ==
  ASSUME TypeOK, Moved, NEW e \in Events, owner[e] = Cleared
  PROVE  owner'[e] = owner[e]
BY PlacesDiffer, ClearedDiffers
   DEF Moved, Deliver, Retry, HandOver, Drop, Send, Finish, GiveBack, Discard, Move,
       TypeOK, SchedulerOK, Threads

(* Only the handler of handle_event sends, and it sends the event that is  *)
(* first on the strand.                                                    *)
LEMMA SendsPosted ==
  ASSUME TypeOK, SingleOwner, [Next]_vars, NEW s \in Sessions, NEW m,
         m \in work'[s], m \notin work[s]
  PROVE  \E e \in Events : e = m[1] /\ owner[e] = OnStrand(s)
<1>1. work \in [Sessions -> SUBSET (Events \X Nat)] /\ work' # work
  BY DEF TypeOK, SessionsOK
<1>2. ASSUME NEW r \in Sessions, RunHandle(r)
      PROVE  \E e \in Events : e = m[1] /\ owner[e] = OnStrand(s)
  <2> DEFINE e == Head(posted[r])
  <2>1. e \in Events /\ owner[e] = OnStrand(r)
    BY <1>2, IsAtHead DEF RunHandle, SingleOwner, StrandsOK, TypeOK, SessionsOK
  <2>2. \/ work' = [work EXCEPT ![r] = @ \cup {<<e, resends[e]>>}]
        \/ work' = work
    BY <1>2 DEF RunHandle, AsyncSend
  <2> HIDE DEF e
  <2>3. r = s /\ m = <<e, resends[e]>>
    BY <1>1, <2>2
  <2>4. QED
    BY <2>1, <2>3
<1>3. ASSUME NEW r \in Sessions, OnReceiveFinished(r) PROVE FALSE
  BY <1>1, <1>3 DEF OnReceiveFinished
<1>4. ASSUME NEW r \in Sessions,
             \/ OnOpen(r) \/ OnReceiveRequest(r) \/ PushFreeCore(r)
             \/ OnReceiveError(r) \/ OnSendError(r) \/ OnClose(r)
             \/ OnOpenError(r) \/ OnCloseError(r) \/ Break(r)
             \/ RunUndecodable(r) \/ Expire(r) \/ Unload(r)
      PROVE  FALSE
  BY <1>1, <1>4
     DEF OnOpen, OnReceiveRequest, PushFreeCore, OnReceiveError, OnSendError,
         OnClose, OnOpenError, OnCloseError, Break, RunUndecodable, Expire,
         Unload, dcmVars
<1>5. ASSUME NEW t \in Threads, ThreadStep(t) PROVE FALSE
  BY <1>1, <1>5 DEF ThreadStep, TryPopReassigned, PushEventsDone, PopCore, Accept,
                    Refuse, dcmVars
<1>6. CASE \/ L1Loop \/ GetResult \/ NoResult \/ StopDC \/ StopRunning \/ JoinL1
           \/ StopRecording \/ UNCHANGED vars
  BY <1>1, <1>6 DEF L1Loop, GetResult, NoResult, StopDC, StopRunning, JoinL1,
                    StopRecording, vars, dcmVars
<1>7. QED
  BY <1>2, <1>3, <1>4, <1>5, <1>6 DEF Next, L1Step, RCStep, StrandStep, Threads

(* After ROSClear::add_event was called for an event no step gives it to   *)
(* anybody and no message about it is sent, whichever session re-assigned  *)
(* it before and whatever DCM still reports it.                            *)
THEOREM NothingAfterClear == Spec => ClearIsFinal
<1> DEFINE Step == \A e \in Events : clears[e] > 0 =>
                     /\ owner'[e] = owner[e]
                     /\ \A s \in Sessions, n \in 0..resends[e] :
                          <<e, n>> \in work'[s] => <<e, n>> \in work[s]
<1>1. Init => SentOnceOK
  BY ClearedDiffers DEF Init, SentOnceOK, SentOnce
<1>2. TypeOK /\ SingleOwner /\ SentOnceOK /\ [Next]_vars => SentOnceOK'
  BY SentOnceStep
<1>3. TypeOK /\ SingleOwner /\ SentOnceOK /\ [Next]_vars => Step
  <2> SUFFICES ASSUME TypeOK, SingleOwner, SentOnceOK, [Next]_vars,
                      NEW e \in Events, clears[e] > 0
               PROVE  /\ owner'[e] = owner[e]
                      /\ \A s \in Sessions, n \in 0..resends[e] :
                           <<e, n>> \in work'[s] => <<e, n>> \in work[s]
    OBVIOUS
  <2>1. owner[e] = Cleared
    BY DEF SentOnceOK, SentOnce
  <2>2. owner'[e] = owner[e]
    BY <2>1, Moves, ClearedStays
  <2>3. ASSUME NEW s \in Sessions, NEW n \in 0..resends[e],
               <<e, n>> \in work'[s], <<e, n>> \notin work[s]
        PROVE  FALSE
    <3>1. owner[e] = OnStrand(s)
      BY <2>3, SendsPosted
    <3>2. QED
      BY <2>1, <3>1, PlacesDiffer
  <2>4. QED
    BY <2>2, <2>3
<1>4. TypeOK /\ SingleOwner /\ SentOnceOK /\ [Next]_vars => [Step]_vars
  BY <1>3
<1> HIDE DEF Step
<1>5. Spec => [][Step]_vars
  BY TypeCorrect, OneOwner, <1>1, <1>2, <1>4, PTL DEF Spec
<1>6. QED
  BY <1>5 DEF ClearIsFinal, Step

-----------------------------------------------------------------------------
(* Dispatch implements EventLife.  The refinement mapping reads the phase  *)
(* and the holder of an event off the containers of the code; Mapped says  *)
(* that they are those of the event's place, so that a step of EventLife   *)
(* answers to each of the moves.                                           *)

SessionPlaces == {Listed(s) : s \in Sessions}

PhaseAt(p) == IF p = AtSource THEN "source"
              ELSE IF p = Cleared THEN "cleared"
              ELSE IF p \in SessionPlaces THEN "session"
              ELSE IF p \in {Lost, Undecoded, Discarded} THEN "gone"
              ELSE "scheduler"

HolderAt(p) == IF p \in SessionPlaces THEN p[2] ELSE NoSession

Mapped == \A e \in Events : /\ PhaseOf(e) = PhaseAt(owner[e])
                            /\ HolderOf(e) = HolderAt(owner[e])

(* What the containers say of an event is what its place says. *)
LEMMA MappingHolds ==
  ASSUME TypeOK, SingleOwner, SentOnceOK
  PROVE  Mapped
<1> SUFFICES ASSUME NEW e \in Events
             PROVE  /\ PhaseOf(e) = PhaseAt(owner[e])
                    /\ HolderOf(e) = HolderAt(owner[e])
  BY DEF Mapped
<1>1. owner[e] = AtSource <=> e > taken
  BY DEF SingleOwner, AtSourceOK
<1>2. owner[e] = Cleared <=> clears[e] > 0
  BY DEF SentOnceOK, SentOnce
<1>3. \A s \in Sessions : owner[e] = Listed(s) <=> Contains(events[s], e)
  BY DEF SingleOwner, ListsOK, IsAt
<1>4. Holders(e) # {} <=> owner[e] \in SessionPlaces
  BY <1>3 DEF Holders, SessionPlaces
<1>5. Cleared # AtSource /\ AtSource \notin SessionPlaces /\ Cleared \notin SessionPlaces
  BY PlacesDiffer DEF SessionPlaces
<1>6. PhaseOf(e) = PhaseAt(owner[e])
  BY <1>1, <1>2, <1>4, <1>5 DEF PhaseOf, PhaseAt
<1>7. HolderOf(e) = HolderAt(owner[e])
  <2>1. CASE owner[e] \in SessionPlaces
    <3>1. PICK s \in Sessions : owner[e] = Listed(s)
      BY <2>1 DEF SessionPlaces
    <3>2. PhaseOf(e) = "session"
      BY <1>5, <1>6, <2>1 DEF PhaseAt
    <3>3. Holders(e) = {s}
      BY <1>3, <3>1, PlacesDiffer DEF Holders
    <3>4. HolderOf(e) = s
      BY <3>2, <3>3 DEF HolderOf
    <3>5. HolderAt(owner[e]) = s
      BY <2>1, <3>1 DEF HolderAt, Listed
    <3>6. QED
      BY <3>4, <3>5
  <2>2. CASE owner[e] \notin SessionPlaces
    <3>1. PhaseOf(e) # "session"
      BY <1>6, <2>2 DEF PhaseAt
    <3>2. QED
      BY <2>2, <3>1 DEF HolderOf, HolderAt
  <2>3. QED
    BY <2>1, <2>2
<1>8. QED
  BY <1>6, <1>7

(* The phase and the holder that go with each place. *)
LEMMA PlacePhases ==
  /\ PhaseAt(AtSource) = "source" /\ HolderAt(AtSource) = NoSession
  /\ PhaseAt(Queued) = "scheduler" /\ HolderAt(Queued) = NoSession
  /\ PhaseAt(Cleared) = "cleared" /\ HolderAt(Cleared) = NoSession
  /\ \A p \in {Lost, Undecoded, Discarded} :
       PhaseAt(p) = "gone" /\ HolderAt(p) = NoSession
  /\ \A t \in Threads :
       PhaseAt(InHand(t)) = "scheduler" /\ HolderAt(InHand(t)) = NoSession
  /\ \A s \in Sessions :
       /\ PhaseAt(OnStrand(s)) = "scheduler" /\ HolderAt(OnStrand(s)) = NoSession
       /\ PhaseAt(Listed(s)) = "session" /\ HolderAt(Listed(s)) = s
  /\ \A p : PhaseAt(p) = "source" => p = AtSource
<1>1. /\ AtSource \notin SessionPlaces /\ Queued \notin SessionPlaces
      /\ Cleared \notin SessionPlaces
      /\ \A p \in {Lost, Undecoded, Discarded} : p \notin SessionPlaces
      /\ \A t \in Threads : InHand(t) \notin SessionPlaces
      /\ \A s \in Sessions : OnStrand(s) \notin SessionPlaces
      /\ \A s \in Sessions : Listed(s) \in SessionPlaces /\ Listed(s)[2] = s
  BY DEF SessionPlaces, AtSource, Queued, Cleared, Lost, Undecoded, Discarded,
         InHand, OnStrand, Listed
<1>2. Cleared # AtSource /\ Queued \notin {AtSource, Cleared, Lost, Undecoded, Discarded}
  BY PlacesDiffer
<1>3. \A p \in {Lost, Undecoded, Discarded} : p # AtSource /\ p # Cleared
  BY PlacesDiffer, ClearedDiffers
<1>4. QED
  BY <1>1, <1>2, <1>3, PlacesDiffer DEF PhaseAt, HolderAt

(* The phases and holders of all events, as EventLife has them. *)
PhaseMap  == [e \in Events |-> PhaseAt(owner[e])]
HolderMap == [e \in Events |-> HolderAt(owner[e])]

(* The move of one event changes its phase and its holder only. *)
LEMMA MapMove ==
  ASSUME TypeOK, NEW e \in Events, NEW p, NEW r, Move(e, p, r)
  PROVE  /\ PhaseMap[e] = PhaseAt(p)
         /\ PhaseMap' = [PhaseMap EXCEPT ![e] = PhaseAt(r)]
         /\ HolderMap' = [HolderMap EXCEPT ![e] = HolderAt(r)]
         /\ PhaseAt(p) = PhaseAt(r) => PhaseMap' = PhaseMap
         /\ HolderAt(p) = HolderAt(r) => HolderMap' = HolderMap
BY DEF PhaseMap, HolderMap, Move, TypeOK, SchedulerOK

(* To every move corresponds a step of EventLife, or none. *)
LEMMA LifeStep ==
  ASSUME TypeOK, Mapped, Mapped', Moved
  PROVE  [Life!Next]_(Life!lifeVars)
<1> DEFINE ph == [e \in Events |-> PhaseOf(e)]
           ho == [e \in Events |-> HolderOf(e)]
<1>1. ph = PhaseMap /\ ho = HolderMap
  BY DEF Mapped, PhaseMap, HolderMap
<1>2. ph' = PhaseMap' /\ ho' = HolderMap'
  BY DEF Mapped, PhaseMap, HolderMap
<1> HIDE DEF ph, ho
<1>3. ASSUME \/ UNCHANGED <<ph, ho>>
             \/ \E e \in Events :
                  \/ /\ ph[e] = "source"
                     /\ \A d \in 1..(e - 1) : ph[d] # "source"
                     /\ ph' = [ph EXCEPT ![e] = "scheduler"] /\ ho' = ho
                  \/ /\ ph[e] = "session" /\ ph' = [ph EXCEPT ![e] = "scheduler"]
                     /\ ho' = [ho EXCEPT ![e] = NoSession]
                  \/ /\ ph[e] = "session" /\ ph' = [ph EXCEPT ![e] = "cleared"]
                     /\ ho' = [ho EXCEPT ![e] = NoSession]
                  \/ /\ ph[e] = "scheduler" /\ ph' = [ph EXCEPT ![e] = "session"]
                     /\ \E s \in Sessions : ho' = [ho EXCEPT ![e] = s]
             \/ \E dropped \in SUBSET Events :
                  /\ \A e \in dropped : ph[e] = "scheduler"
                  /\ ph' = [e \in Events |-> IF e \in dropped THEN "gone" ELSE ph[e]]
                  /\ ho' = ho
      PROVE  [Life!Next]_(Life!lifeVars)
  BY <1>3 DEF ph, ho, Life!Next, Life!lifeVars, Life!Take, Life!Reclaim,
              Life!Clear, Life!Assign, Life!GiveUp, Events
<1>4. CASE UNCHANGED owner
  BY <1>1, <1>2, <1>3, <1>4 DEF PhaseMap, HolderMap
<1>5. CASE Deliver
  <2>1. PICK e \in Events : /\ Move(e, AtSource, InHand(L1))
                            /\ \A d \in Events : d < e => owner[d] # AtSource
    BY <1>5 DEF Deliver
  <2>2. \A d \in 1..(e - 1) : d \in Events /\ PhaseMap[d] # "source"
    <3>1. \A d \in 1..(e - 1) : d \in Events /\ d < e
      BY ConstantsAssumption DEF Events
    <3>2. \A d \in Events : d < e => PhaseAt(owner[d]) # "source"
      BY <2>1, PlacePhases
    <3>3. \A d \in Events : PhaseMap[d] = PhaseAt(owner[d])
      BY DEF PhaseMap
    <3>4. QED
      BY <3>1, <3>2, <3>3
  <2>3. /\ PhaseMap[e] = "source" /\ PhaseMap' = [PhaseMap EXCEPT ![e] = "scheduler"]
        /\ HolderMap' = HolderMap
    BY <2>1, MapMove, PlacePhases DEF Threads
  <2>4. QED
    BY <1>1, <1>2, <1>3, <2>2, <2>3
<1>6. CASE Retry \/ HandOver
  BY <1>1, <1>2, <1>3, <1>6, MapMove, PlacePhases DEF Retry, HandOver
<1>7. CASE Drop
  <2>1. PICK e \in Events : \/ \E t \in Threads : Move(e, InHand(t), Lost)
                            \/ \E s \in Sessions : Move(e, OnStrand(s), Undecoded)
    BY <1>7 DEF Drop
  <2>2. /\ PhaseMap[e] = "scheduler" /\ PhaseMap' = [PhaseMap EXCEPT ![e] = "gone"]
        /\ HolderMap' = HolderMap
    BY <2>1, MapMove, PlacePhases
  <2>3. PhaseMap' = [x \in Events |-> IF x \in {e} THEN "gone" ELSE PhaseMap[x]]
    BY <2>2 DEF PhaseMap
  <2>4. QED
    BY <1>1, <1>2, <1>3, <2>2, <2>3
<1>8. CASE Send
  BY <1>1, <1>2, <1>3, <1>8, MapMove, PlacePhases DEF Send
<1>9. CASE Finish
  BY <1>1, <1>2, <1>3, <1>9, MapMove, PlacePhases DEF Finish
<1>10. CASE GiveBack
  BY <1>1, <1>2, <1>3, <1>10, MapMove, PlacePhases DEF GiveBack
<1>11. CASE Discard
  <2> DEFINE dropped == {e \in Events : owner[e] = Queued}
  <2>1. /\ \A e \in dropped : PhaseMap[e] = "scheduler"
        /\ PhaseMap' = [e \in Events |-> IF e \in dropped THEN "gone" ELSE PhaseMap[e]]
        /\ HolderMap' = HolderMap
    BY <1>11, PlacePhases DEF Discard, PhaseMap, HolderMap
  <2>2. dropped \in SUBSET Events
    OBVIOUS
  <2> HIDE DEF dropped
  <2>3. QED
    BY <1>1, <1>2, <1>3, <2>1, <2>2
<1>12. QED
  BY <1>4, <1>5, <1>6, <1>7, <1>8, <1>9, <1>10, <1>11 DEF Moved

(* The threads, queues, strands and failures of the code do to an event    *)
(* nothing but what EventLife allows: it is taken in order, is with one    *)
(* session at a time, gets from one session to another only through the    *)
(* scheduler, and is cleared only by the session that has it.              *)
THEOREM DispatchImplementsEventLife == Spec => ImplementsEventLife
<1>1. Init => SentOnceOK
  BY ClearedDiffers DEF Init, SentOnceOK, SentOnce
<1>2. TypeOK /\ SingleOwner /\ SentOnceOK /\ [Next]_vars => SentOnceOK'
  BY SentOnceStep
<1>3. TypeOK /\ SingleOwner /\ SentOnceOK => Mapped
  BY MappingHolds
<1>4. Init => Life!Init
  <2> SUFFICES ASSUME Init PROVE Life!Init
    OBVIOUS
  <2>1. TypeOK /\ SingleOwner /\ SentOnceOK
    BY TypeInit, SingleOwnerInit, <1>1
  <2>2. \A e \in Events : PhaseOf(e) = "source" /\ HolderOf(e) = NoSession
    BY <2>1, MappingHolds, PlacePhases DEF Mapped, Init
  <2>3. QED
    BY <2>2 DEF Life!Init, Events
<1>5. TypeOK /\ SingleOwner /\ Mapped /\ Mapped' /\ [Next]_vars
        => [Life!Next]_(Life!lifeVars)
  BY Moves, LifeStep
<1>6. QED
  BY TypeCorrect, OneOwner, <1>1, <1>2, <1>3, <1>4, <1>5, PTL
     DEF Spec, ImplementsEventLife, Life!Spec
=============================================================================
