------------------------------ MODULE Dispatch ------------------------------
(***************************************************************************)
(* The event scheduler and the DCM sessions of the HLT supervisor.         *)
(*                                                                         *)
(* An L1 thread takes events from the trigger source and gives each to a   *)
(* free core of some DCM (EventScheduler::schedule_event).  Every DCM has  *)
(* a session whose handlers run one at a time on the session's strand: it  *)
(* sends the event, keeps it on m_events until the DCM answers, and hands  *)
(* it back to the scheduler (reassign_event) when it expires or the link   *)
(* fails.  The run-control thread drains the re-assigned events at the end *)
(* of a run (stopDC) and then clears the scheduler (stopRecording).        *)
(*                                                                         *)
(* The message library, the network and the DCMs are external.             *)
(***************************************************************************)
EXTENDS Integers, Sequences, FiniteSets, SequencesExt

CONSTANTS
  Sessions,     \* the DCM sessions, one per DCM
  NoSession,    \* no session: the value of an empty weak_ptr
  MaxEvents,    \* events the source delivers (bound)
  RunLimit,     \* m_max_events under a master trigger; 0 for no limit
  Cores,        \* cores of each DCM
  Undecodable,  \* events whose ROD data create_rob_data rejects
  MaxResends,   \* an event expires at most this often (bound)
  MaxBreaks     \* links that fail (bound)

Events  == 1..MaxEvents
NoEvent == 0
L1      == "l1"
RC      == "rc"
Threads == {L1, RC}

ASSUME ConstantsAssumption ==
  /\ NoSession \notin Sessions
  /\ MaxEvents \in Nat
  /\ RunLimit \in Nat
  /\ Cores \in Nat
  /\ Undecodable \subseteq Events
  /\ MaxResends \in Nat
  /\ MaxBreaks \in Nat

VARIABLES
  \* The two threads.
  pc,                  \* where each thread is
  running,             \* Activity::m_running
  taken,               \* events taken so far; also the event schedule_event has
  hand,                \* the event push_events holds, per thread
  core,                \* the session popped from m_free_cores, per thread
  \* EventScheduler.
  free_cores,          \* m_free_cores
  reassigned_events,   \* m_reassigned_events
  ProcessedEvents,     \* the statistics counter
  \* DCMSession, per session.
  link,                \* state of the connection
  in_error,            \* m_in_error
  posted,              \* events whose send is posted to the strand, not yet run
  events,              \* m_events
  timer_on,            \* the deadline timer will fire again
  receiving,           \* an asyncReceive is outstanding
  failed_sends,        \* sends whose onSendError is still to be called
  unloading,           \* an error handler is handing m_events back
  requests,            \* free cores request_events still has to push
  \* LVL1Result, per event.
  resends,             \* calls of reassign_event; m_reassigned is resends > 0
  \* The DCMs.
  work,                \* messages <<event, resends>> a DCM has not answered
  idle,                \* cores of a DCM that it has not announced
  breaks,              \* links that have failed
  \* History.
  owner,               \* who is responsible for an event
  clears,              \* calls of ROSClear::add_event per event
  process_sends        \* ProcessMessages (not BuildMessages) sent per event

threadVars  == <<pc, running, taken, hand, core>>
strandVars  == <<link, in_error, timer_on, receiving, failed_sends, unloading>>
dcmVars     == <<work, idle, breaks>>
historyVars == <<clears, process_sends>>
vars == <<pc, running, taken, hand, core, free_cores, reassigned_events,
          ProcessedEvents, link, in_error, posted, events, timer_on, receiving,
          failed_sends, unloading, requests, resends, work, idle, breaks,
          owner, clears, process_sends>>

-----------------------------------------------------------------------------
(* Where an event can be.                                                  *)

AtSource    == <<"source", NoSession>>
InHand(t)   == <<"hand", t>>
OnStrand(s) == <<"strand", s>>
Listed(s)   == <<"session", s>>
Queued      == <<"reassign", NoSession>>
Cleared     == <<"cleared", NoSession>>
Lost        == <<"lost", NoSession>>         \* refused by a session in error
Undecoded   == <<"undecoded", NoSession>>    \* dropped: no valid LVL1 ID
Discarded   == <<"discarded", NoSession>>    \* in the queue at reset

Places == {AtSource, Queued, Cleared, Lost, Undecoded, Discarded}
          \cup {InHand(t) : t \in Threads}
          \cup {OnStrand(s) : s \in Sessions}
          \cup {Listed(s) : s \in Sessions}

-----------------------------------------------------------------------------
Init ==
  /\ pc = [t \in Threads |-> "idle"]
  /\ running = TRUE
  /\ taken = 0
  /\ hand = [t \in Threads |-> NoEvent]
  /\ core = [t \in Threads |-> NoSession]
  /\ free_cores = <<>>
  /\ reassigned_events = <<>>
  /\ ProcessedEvents = 0
  /\ link = [s \in Sessions |-> "new"]
  /\ in_error = [s \in Sessions |-> FALSE]
  /\ posted = [s \in Sessions |-> <<>>]
  /\ events = [s \in Sessions |-> <<>>]
  /\ timer_on = [s \in Sessions |-> TRUE]
  /\ receiving = [s \in Sessions |-> FALSE]
  /\ failed_sends = [s \in Sessions |-> 0]
  /\ unloading = [s \in Sessions |-> FALSE]
  /\ requests = [s \in Sessions |-> 0]
  /\ resends = [e \in Events |-> 0]
  /\ work = [s \in Sessions |-> {}]
  /\ idle = [s \in Sessions |-> Cores]
  /\ breaks = 0
  /\ owner = [e \in Events |-> AtSource]
  /\ clears = [e \in Events |-> 0]
  /\ process_sends = [e \in Events |-> 0]

-----------------------------------------------------------------------------
(* The L1 thread: Activity::l1_thread and EventScheduler::schedule_event.  *)

Goto(t, to) == pc' = [pc EXCEPT ![t] = to]

L1Loop ==                      \* m_max_events reached?  then while(m_running)
  /\ pc[L1] = "idle"
  /\ running' = (running /\ ~(RunLimit > 0 /\ taken = RunLimit))
  /\ Goto(L1, IF running' THEN "get" ELSE "done")
  /\ UNCHANGED <<taken, hand, core, free_cores, reassigned_events,
                 ProcessedEvents, strandVars, posted, events, requests,
                 resends, dcmVars, owner, historyVars>>

GetResult ==                   \* a result: schedule_event counts it, then push_events
  /\ pc[L1] = "get"
  /\ taken < MaxEvents
  /\ taken' = taken + 1
  /\ owner' = [owner EXCEPT ![taken + 1] = InHand(L1)]
  /\ Goto(L1, "push")
  /\ UNCHANGED <<running, hand, core, free_cores, reassigned_events,
                 ProcessedEvents, strandVars, posted, events, requests,
                 resends, dcmVars, historyVars>>

NoResult ==                    \* getResult returned nothing
  /\ pc[L1] = "get"
  /\ Goto(L1, "idle")
  /\ UNCHANGED <<running, taken, hand, core, free_cores, reassigned_events,
                 ProcessedEvents, strandVars, posted, events, requests,
                 resends, dcmVars, owner, historyVars>>

(* EventScheduler::push_events, run by the L1 thread inside schedule_event *)
(* and by the run-control thread inside stopDC.                            *)
TryPopReassigned(t) ==
  /\ pc[t] = "push"
  /\ reassigned_events # <<>>
  /\ hand' = [hand EXCEPT ![t] = Head(reassigned_events)]
  /\ reassigned_events' = Tail(reassigned_events)
  /\ owner' = [owner EXCEPT ![Head(reassigned_events)] = InHand(t)]
  /\ Goto(t, "pushPop")
  /\ UNCHANGED <<running, taken, core, free_cores, ProcessedEvents, strandVars,
                 posted, events, requests, resends, dcmVars, historyVars>>

PushEventsDone(t) ==
  /\ pc[t] = "push"
  /\ reassigned_events = <<>>
  /\ Goto(t, IF t = L1 THEN "pop" ELSE "stop")
  /\ UNCHANGED <<running, taken, hand, core, free_cores, reassigned_events,
                 ProcessedEvents, strandVars, posted, events, requests,
                 resends, dcmVars, owner, historyVars>>

(* m_free_cores.pop(dcm), which blocks while there is no free core.  The   *)
(* weak_ptr always locks: HLTSVServer keeps every session it accepted.     *)
PopCore(t) ==
  /\ pc[t] \in {"pushPop", "pop"}
  /\ free_cores # <<>>
  /\ core' = [core EXCEPT ![t] = Head(free_cores)]
  /\ free_cores' = Tail(free_cores)
  /\ Goto(t, IF pc[t] = "pop" THEN "handle" ELSE "pushHandle")
  /\ UNCHANGED <<running, taken, hand, reassigned_events, ProcessedEvents,
                 strandVars, posted, events, requests, resends, dcmVars,
                 owner, historyVars>>

Offered(t) == IF pc[t] = "handle" THEN taken ELSE hand[t]

MutAfterOffer(t) ==            \* keeps the popped core for the next event
  /\ hand' = [hand EXCEPT ![t] = NoEvent]
  /\ Goto(t, IF pc[t] = "handle" THEN "idle" ELSE "push")
  /\ UNCHANGED core

AfterOffer(t) ==
  /\ hand' = [hand EXCEPT ![t] = NoEvent]
  /\ core' = [core EXCEPT ![t] = NoSession]
  /\ Goto(t, IF pc[t] = "handle" THEN "idle" ELSE "push")

(* DCMSession::handle_event on a session that is not in error: the send is *)
(* posted to the strand.  m_in_error is a plain bool; a read that misses a *)
(* concurrent write is this action taken just before the write.            *)
Accept(t) ==
  /\ pc[t] \in {"pushHandle", "handle"}
  /\ ~in_error[core[t]]
  /\ posted' = [posted EXCEPT ![core[t]] = Append(@, Offered(t))]
  /\ owner' = [owner EXCEPT ![Offered(t)] = OnStrand(core[t])]
  /\ AfterOffer(t)
  /\ UNCHANGED <<running, taken, free_cores, reassigned_events,
                 ProcessedEvents, strandVars, events, requests, resends,
                 dcmVars, historyVars>>

(* handle_event returned false.  The `continue' evaluates the condition of *)
(* the do-while, and real_dcm is set: the loop ends and drops the event.   *)
Refuse(t) ==
  /\ pc[t] \in {"pushHandle", "handle"}
  /\ in_error[core[t]]
  /\ owner' = [owner EXCEPT ![Offered(t)] = Lost]
  /\ AfterOffer(t)
  /\ UNCHANGED <<running, taken, free_cores, reassigned_events,
                 ProcessedEvents, strandVars, posted, events, requests,
                 resends, dcmVars, historyVars>>

-----------------------------------------------------------------------------
(* A DCM session.  The handlers run on the strand, one at a time; a strand *)
(* inside the loop of an error handler or of request_events starts no      *)
(* other.                                                                  *)

StrandFree(s) == ~unloading[s] /\ requests[s] = 0

OnOpen(s) ==
  /\ link[s] = "new"
  /\ link' = [link EXCEPT ![s] = "open"]
  /\ receiving' = [receiving EXCEPT ![s] = TRUE]
  /\ UNCHANGED <<threadVars, free_cores, reassigned_events, ProcessedEvents,
                 in_error, posted, events, timer_on, failed_sends, unloading,
                 requests, resends, dcmVars, owner, historyVars>>

(* The lambda of handle_event, for an event that cannot be converted.      *)
RunUndecodable(s) ==
  /\ StrandFree(s)
  /\ posted[s] # <<>>
  /\ Head(posted[s]) \in Undecodable
  /\ posted' = [posted EXCEPT ![s] = Tail(@)]
  /\ owner' = [owner EXCEPT ![Head(posted[s])] = Undecoded]
  /\ UNCHANGED <<threadVars, free_cores, reassigned_events, ProcessedEvents,
                 strandVars, events, requests, resends, dcmVars, historyVars>>

(* asyncSend of the message about event e: delivered to a DCM that is      *)
(* there; on a link that is down or closing it fails later on the strand;  *)
(* while nobody has noticed a failure yet it may also vanish.              *)
AsyncSend(s, e) ==
  \/ /\ link[s] = "open"
     /\ work' = [work EXCEPT ![s] = @ \cup {<<e, resends[e]>>}]
     /\ UNCHANGED failed_sends
  \/ /\ link[s] = "broken"
     /\ UNCHANGED <<work, failed_sends>>
  \/ /\ link[s] # "open"
     /\ failed_sends' = [failed_sends EXCEPT ![s] = @ + 1]
     /\ UNCHANGED work

(* The lambda of handle_event: a ProcessMessage the first time, a          *)
(* BuildMessage for a re-assigned event; the event joins m_events.         *)
RunHandle(s) ==
  LET e == Head(posted[s]) IN
  /\ StrandFree(s)
  /\ posted[s] # <<>>
  /\ e \notin Undecodable
  /\ posted' = [posted EXCEPT ![s] = Tail(@)]
  /\ AsyncSend(s, e)
  /\ process_sends' = [process_sends EXCEPT ![e] =
                         IF resends[e] = 0 THEN @ + 1 ELSE @]
  /\ events' = [events EXCEPT ![s] = Append(@, e)]
  /\ owner' = [owner EXCEPT ![e] = Listed(s)]
  /\ UNCHANGED <<threadVars, free_cores, reassigned_events, ProcessedEvents,
                 link, in_error, timer_on, receiving, unloading, requests,
                 resends, idle, breaks, clears>>

(* onReceive of an update that requests n cores and reports no event: the  *)
(* announcement of a DCM, or a core that is free again after the event it  *)
(* built was reported.                                                     *)
OnReceiveRequest(s) ==
  /\ StrandFree(s)
  /\ receiving[s] /\ link[s] = "open"
  /\ \E n \in 1..idle[s] :
       /\ idle' = [idle EXCEPT ![s] = @ - n]
       /\ requests' = [requests EXCEPT ![s] = n]
  /\ UNCHANGED <<threadVars, free_cores, reassigned_events, ProcessedEvents,
                 strandVars, posted, events, resends, work, breaks, owner,
                 historyVars>>

MutClearUnknown(s, e) ==       \* clears without looking the event up
  /\ events' = [events EXCEPT ![s] = SelectSeq(@, LAMBDA x : x # e)]
  /\ owner' = [owner EXCEPT ![e] = Cleared]
  /\ clears' = [clears EXCEPT ![e] = @ + 1]

MutClearKeeps(s, e) ==         \* forgets to erase the event
  \/ /\ Contains(events[s], e)
     /\ owner' = [owner EXCEPT ![e] = Cleared]
     /\ clears' = [clears EXCEPT ![e] = @ + 1]
     /\ UNCHANGED events
  \/ /\ ~Contains(events[s], e)
     /\ UNCHANGED <<events, owner, clears>>

(* An event that a DCM reports leaves m_events and is cleared if it is     *)
(* there; if not, its ID is only logged.                                   *)
FindAndClear(s, e) ==
  \/ \E i \in DOMAIN events[s] :
       /\ events[s][i] = e
       /\ events' = [events EXCEPT ![s] = RemoveAt(@, i)]
       /\ owner' = [owner EXCEPT ![e] = Cleared]
       /\ clears' = [clears EXCEPT ![e] = @ + 1]
  \/ /\ ~Contains(events[s], e)
     /\ UNCHANGED <<events, owner, clears>>

(* onReceive of an update that reports message m as finished and requests  *)
(* n cores.  The event counts as finished whether it was found or not.  A  *)
(* report of several events is several of these, all but the last with     *)
(* n = 0.                                                                  *)
OnReceiveFinished(s) ==
  /\ StrandFree(s)
  /\ receiving[s] /\ link[s] = "open"
  /\ \E m \in work[s], n \in 0..(idle[s] + 1) :
       /\ work' = [work EXCEPT ![s] = @ \ {m}]
       /\ idle' = [idle EXCEPT ![s] = @ + 1 - n]
       /\ requests' = [requests EXCEPT ![s] = n]
       /\ FindAndClear(s, m[1])
  /\ ProcessedEvents' = ProcessedEvents + 1
  /\ UNCHANGED <<threadVars, free_cores, reassigned_events, strandVars, posted,
                 resends, breaks, process_sends>>

(* One iteration of the loop of request_events.                            *)
PushFreeCore(s) ==
  /\ requests[s] > 0
  /\ free_cores' = Append(free_cores, s)
  /\ requests' = [requests EXCEPT ![s] = @ - 1]
  /\ UNCHANGED <<threadVars, reassigned_events, ProcessedEvents, strandVars,
                 posted, events, resends, dcmVars, owner, historyVars>>

MutReassignKeeps(s) ==         \* forgets to erase the event
  LET e == Head(events[s]) IN
  /\ events[s] # <<>>
  /\ resends' = [resends EXCEPT ![e] = @ + 1]
  /\ reassigned_events' = Append(reassigned_events, e)
  /\ owner' = [owner EXCEPT ![e] = Queued]
  /\ UNCHANGED events

MutReassignUnmarked(s) ==      \* forgets set_reassigned
  LET e == Head(events[s]) IN
  /\ events[s] # <<>>
  /\ events' = [events EXCEPT ![s] = Tail(@)]
  /\ reassigned_events' = Append(reassigned_events, e)
  /\ owner' = [owner EXCEPT ![e] = Queued]
  /\ UNCHANGED resends

(* EventScheduler::reassign_event for the first event of m_events.         *)
ReassignFirst(s) ==
  LET e == Head(events[s]) IN
  /\ events[s] # <<>>
  /\ events' = [events EXCEPT ![s] = Tail(@)]
  /\ resends' = [resends EXCEPT ![e] = @ + 1]
  /\ reassigned_events' = Append(reassigned_events, e)
  /\ owner' = [owner EXCEPT ![e] = Queued]

MutExpire(s) ==                \* gives the core of the expired event away again
  /\ StrandFree(s)
  /\ timer_on[s]
  /\ events[s] # <<>>
  /\ resends[Head(events[s])] < MaxResends
  /\ ReassignFirst(s)
  /\ free_cores' = Append(free_cores, s)
  /\ UNCHANGED <<threadVars, ProcessedEvents, strandVars, posted, requests,
                 dcmVars, historyVars>>

(* One iteration of check_timeouts: only the head of the list can expire,  *)
(* the loop stops at the first event that has not.                         *)
Expire(s) ==
  /\ StrandFree(s)
  /\ timer_on[s]
  /\ events[s] # <<>>
  /\ resends[Head(events[s])] < MaxResends
  /\ ReassignFirst(s)
  /\ UNCHANGED <<threadVars, free_cores, ProcessedEvents, strandVars, posted,
                 requests, dcmVars, historyVars>>

MutFail(s) ==                  \* forgets to hand m_events back
  /\ in_error' = [in_error EXCEPT ![s] = TRUE]
  /\ link' = [link EXCEPT ![s] = IF @ = "closed" THEN @ ELSE "closing"]
  /\ UNCHANGED unloading

(* What onReceiveError and onSendError do before they reassign the list.   *)
Fail(s) ==
  /\ in_error' = [in_error EXCEPT ![s] = TRUE]
  /\ link' = [link EXCEPT ![s] = IF @ = "closed" THEN @ ELSE "closing"]
  /\ unloading' = [unloading EXCEPT ![s] = events[s] # <<>>]

OnReceiveError(s) ==
  /\ StrandFree(s)
  /\ receiving[s] /\ link[s] # "open"
  /\ receiving' = [receiving EXCEPT ![s] = FALSE]
  /\ Fail(s)
  /\ UNCHANGED <<threadVars, free_cores, reassigned_events, ProcessedEvents,
                 posted, events, timer_on, failed_sends, requests, resends,
                 dcmVars, owner, historyVars>>

OnSendError(s) ==
  /\ StrandFree(s)
  /\ failed_sends[s] > 0
  /\ failed_sends' = [failed_sends EXCEPT ![s] = @ - 1]
  /\ Fail(s)
  /\ UNCHANGED <<threadVars, free_cores, reassigned_events, ProcessedEvents,
                 posted, events, timer_on, receiving, requests, resends,
                 dcmVars, owner, historyVars>>

(* One iteration of their loop; after the last the list is cleared.        *)
Unload(s) ==
  /\ unloading[s]
  /\ ReassignFirst(s)
  /\ unloading' = [unloading EXCEPT ![s] = Tail(events[s]) # <<>>]
  /\ UNCHANGED <<threadVars, free_cores, ProcessedEvents, link, in_error,
                 posted, timer_on, receiving, failed_sends, requests, dcmVars,
                 historyVars>>

(* onClose cancels the timer; a handler that has already expired runs all  *)
(* the same and restarts it.                                               *)
OnClose(s) ==
  /\ StrandFree(s)
  /\ link[s] = "closing"
  /\ link' = [link EXCEPT ![s] = "closed"]
  /\ \E fires \in BOOLEAN : timer_on' = [timer_on EXCEPT ![s] = fires]
  /\ UNCHANGED <<threadVars, free_cores, reassigned_events, ProcessedEvents,
                 in_error, posted, events, receiving, failed_sends, unloading,
                 requests, resends, dcmVars, owner, historyVars>>

(* onOpenError and onCloseError only set m_in_error.                       *)
OnOpenError(s) ==
  /\ link[s] = "new" /\ breaks < MaxBreaks
  /\ breaks' = breaks + 1
  /\ link' = [link EXCEPT ![s] = "closed"]
  /\ in_error' = [in_error EXCEPT ![s] = TRUE]
  /\ UNCHANGED <<threadVars, free_cores, reassigned_events, ProcessedEvents,
                 posted, events, timer_on, receiving, failed_sends, unloading,
                 requests, resends, work, idle, owner, historyVars>>

OnCloseError(s) ==
  /\ StrandFree(s)
  /\ link[s] = "closing"
  /\ link' = [link EXCEPT ![s] = "closed"]
  /\ in_error' = [in_error EXCEPT ![s] = TRUE]
  /\ UNCHANGED <<threadVars, free_cores, reassigned_events, ProcessedEvents,
                 posted, events, timer_on, receiving, failed_sends, unloading,
                 requests, resends, dcmVars, owner, historyVars>>

(* The network or the DCM fails.                                           *)
Break(s) ==
  /\ link[s] = "open" /\ breaks < MaxBreaks
  /\ breaks' = breaks + 1
  /\ link' = [link EXCEPT ![s] = "broken"]
  /\ UNCHANGED <<threadVars, free_cores, reassigned_events, ProcessedEvents,
                 in_error, posted, events, timer_on, receiving, failed_sends,
                 unloading, requests, resends, work, idle, owner, historyVars>>

-----------------------------------------------------------------------------
(* Run control: Activity::stopDC and Activity::stopRecording.              *)

StopDC ==                      \* enters push_events
  /\ pc[RC] = "idle"
  /\ Goto(RC, "push")
  /\ UNCHANGED <<running, taken, hand, core, free_cores, reassigned_events,
                 ProcessedEvents, strandVars, posted, events, requests,
                 resends, dcmVars, owner, historyVars>>

StopRunning ==                 \* m_running = false
  /\ pc[RC] = "stop"
  /\ running' = FALSE
  /\ Goto(RC, "join")
  /\ UNCHANGED <<taken, hand, core, free_cores, reassigned_events,
                 ProcessedEvents, strandVars, posted, events, requests,
                 resends, dcmVars, owner, historyVars>>

JoinL1 ==                      \* m_l1_thread.join()
  /\ pc[RC] = "join" /\ pc[L1] = "done"
  /\ Goto(RC, "joined")
  /\ UNCHANGED <<running, taken, hand, core, free_cores, reassigned_events,
                 ProcessedEvents, strandVars, posted, events, requests,
                 resends, dcmVars, owner, historyVars>>

StopRecording ==               \* EventScheduler::reset(0)
  /\ pc[RC] = "joined"
  /\ Goto(RC, "reset")
  /\ free_cores' = <<>>
  /\ reassigned_events' = <<>>
  /\ ProcessedEvents' = 0
  /\ owner' = [e \in Events |-> IF owner[e] = Queued THEN Discarded
                                                     ELSE owner[e]]
  /\ UNCHANGED <<running, taken, hand, core, strandVars, posted, events,
                 requests, resends, dcmVars, historyVars>>

-----------------------------------------------------------------------------
ThreadStep(t) == \/ TryPopReassigned(t) \/ PushEventsDone(t) \/ PopCore(t)
                 \/ Accept(t) \/ Refuse(t)

L1Step == L1Loop \/ GetResult \/ NoResult \/ ThreadStep(L1)

RCStep == StopDC \/ StopRunning \/ JoinL1 \/ StopRecording \/ ThreadStep(RC)

StrandStep(s) ==
  \/ RunUndecodable(s) \/ RunHandle(s)
  \/ OnReceiveRequest(s) \/ OnReceiveFinished(s) \/ PushFreeCore(s)
  \/ Expire(s)
  \/ OnReceiveError(s) \/ OnSendError(s) \/ Unload(s)
  \/ OnClose(s) \/ OnCloseError(s)

Next == \/ L1Step \/ RCStep
        \/ \E s \in Sessions : \/ StrandStep(s)
                               \/ OnOpen(s) \/ OnOpenError(s) \/ Break(s)

Spec == Init /\ [][Next]_vars

(***************************************************************************)
(* Fairness for the liveness property: the io threads run every handler    *)
(* that is ready on a strand, and the timer fires while it is armed.       *)
(* Nothing is assumed about the source, the L1 thread, run control or the  *)
(* DCMs.                                                                   *)
(***************************************************************************)
StrandFairness ==
  \A s \in Sessions :
    /\ WF_vars(RunUndecodable(s)) /\ WF_vars(RunHandle(s))
    /\ WF_vars(PushFreeCore(s))   /\ WF_vars(Expire(s))
    /\ WF_vars(Unload(s))
    /\ WF_vars(OnReceiveError(s)) /\ WF_vars(OnSendError(s))

FairSpec == Spec /\ StrandFairness

-----------------------------------------------------------------------------
(* Properties.                                                             *)

PCs(t) == IF t = L1
          THEN {"idle", "get", "push", "pushPop", "pushHandle", "pop",
                "handle", "done"}
          ELSE {"idle", "push", "pushPop", "pushHandle", "stop", "join",
                "joined", "reset"}

Scheduling == {"push", "pushPop", "pushHandle", "pop", "handle"}

(* Types, and where a thread has an event or a core in its hands.          *)
ThreadsOK ==
  /\ pc \in [Threads -> PCs(L1) \cup PCs(RC)]
  /\ running \in BOOLEAN
  /\ taken \in 0..MaxEvents
  /\ hand \in [Threads -> Events \cup {NoEvent}]
  /\ core \in [Threads -> Sessions \cup {NoSession}]
  /\ pc[L1] \in Scheduling => taken > 0
  /\ \A t \in Threads :
       /\ pc[t] \in PCs(t)
       /\ hand[t] # NoEvent <=> pc[t] \in {"pushPop", "pushHandle"}
       /\ core[t] # NoSession <=> pc[t] \in {"pushHandle", "handle"}
SchedulerOK ==
  /\ free_cores \in Seq(Sessions)
  /\ reassigned_events \in Seq(Events)
  /\ ProcessedEvents \in Nat
  /\ owner \in [Events -> Places]
  /\ resends \in [Events -> Nat]
  /\ clears \in [Events -> Nat]
  /\ process_sends \in [Events -> Nat]
SessionsOK ==
  /\ link \in [Sessions -> {"new", "open", "broken", "closing", "closed"}]
  /\ in_error \in [Sessions -> BOOLEAN]
  /\ posted \in [Sessions -> Seq(Events)]
  /\ events \in [Sessions -> Seq(Events)]
  /\ timer_on \in [Sessions -> BOOLEAN]
  /\ receiving \in [Sessions -> BOOLEAN]
  /\ failed_sends \in [Sessions -> Nat]
  /\ unloading \in [Sessions -> BOOLEAN]
  /\ requests \in [Sessions -> Nat]
  /\ work \in [Sessions -> SUBSET (Events \X Nat)]
  /\ idle \in [Sessions -> Nat]
  /\ breaks \in 0..MaxBreaks
TypeOK == ThreadsOK /\ SchedulerOK /\ SessionsOK

(* Every event the source delivered is in exactly one place, once: in the  *)
(* hand of one thread, on one strand, on one session's list, in the        *)
(* re-assign queue, or finished.  Two places would mean that two DCMs can  *)
(* clear it, none that nobody ever will.                                   *)
IsAt(own, q, place) ==
  /\ IsInjective(q)
  /\ \A e \in Events : own[e] = place <=> Contains(q, e)
HasInHand(t, e) ==
  hand[t] = e \/ (t = L1 /\ pc[L1] \in Scheduling /\ taken = e)

AtSourceOK == \A e \in Events : owner[e] = AtSource <=> e > taken
InHandsOK  ==
  /\ \A t \in Threads, e \in Events : owner[e] = InHand(t) <=> HasInHand(t, e)
  /\ pc[L1] \in Scheduling => hand[L1] # taken
QueueOK    == IsAt(owner, reassigned_events, Queued)
StrandsOK  == \A s \in Sessions : IsAt(owner, posted[s], OnStrand(s))
ListsOK    == \A s \in Sessions : IsAt(owner, events[s], Listed(s))
SingleOwner == AtSourceOK /\ InHandsOK /\ QueueOK /\ StrandsOK /\ ListsOK

(* However often an event is re-assigned, at most one DCM is told to run   *)
(* its second-level selection (a ProcessMessage); every later message is a *)
(* BuildMessage, and ROSClear hears of an event at most once, only from a  *)
(* session that had it.                                                    *)
ProcessedOnceClearedOnce ==
  \A e \in Events :
    /\ process_sends[e] <= 1
    /\ clears[e] = (IF owner[e] = Cleared THEN 1 ELSE 0)

(* The supervisor never has more than Cores of a DCM spoken for: entries   *)
(* of m_free_cores, cores popped by a thread, sends on the strand and      *)
(* messages not answered.                                                  *)
FreeCoresOf(s)  == {i \in DOMAIN free_cores : free_cores[i] = s}
PoppedCores(s) == {t \in Threads : core[t] = s}
NoOvercommit ==
  \A s \in Sessions :
    idle[s] + requests[s] + Cardinality(FreeCoresOf(s))
      + Cardinality(PoppedCores(s)) + Len(posted[s]) + Cardinality(work[s])
    <= Cores

(* A session in error never keeps an event for good: a handler that hands  *)
(* m_events back is running or is still to come.  After onClose has        *)
(* cancelled the timer nothing else would.                                 *)
NoStranded ==
  \A s \in Sessions :
    in_error[s] /\ events[s] # <<>> =>
      unloading[s] \/ receiving[s] \/ failed_sends[s] > 0

(* Once ROSClear has been told to clear an event, its data may be gone: no *)
(* message about it is sent any more and nobody is given it again.         *)
ClearIsFinal ==
  [][\A e \in Events : clears[e] > 0 =>
       /\ owner'[e] = owner[e]
       /\ \A s \in Sessions, n \in 0..resends[e] :
            <<e, n>> \in work'[s] => <<e, n>> \in work[s]]_vars

(* A session gives an event back: it is cleared, dropped as undecodable or *)
(* re-assigned, whatever the DCM, the link and the timer do (an event that *)
(* has used up the bound on timeouts is left to the DCM).                  *)
SessionLetsGo ==
  \A e \in Events, s \in Sessions :
    (owner[e] \in {OnStrand(s), Listed(s)} /\ resends[e] < MaxResends)
      ~> (owner[e] \notin {OnStrand(s), Listed(s)})

(* The dispatching implements EventLife.  The refinement mapping is read   *)
(* off the containers: an event is with a session while it is on that      *)
(* session's m_events.                                                     *)
Holders(e) == {s \in Sessions : Contains(events[s], e)}

PhaseOf(e) ==
  IF e > taken THEN "source"
  ELSE IF clears[e] > 0 THEN "cleared"
  ELSE IF Holders(e) # {} THEN "session"
  ELSE IF owner[e] \in {Lost, Undecoded, Discarded} THEN "gone"
  ELSE "scheduler"

HolderOf(e) == IF PhaseOf(e) = "session" THEN CHOOSE s \in Holders(e) : TRUE
                                         ELSE NoSession

Life == INSTANCE EventLife WITH phase  <- [e \in Events |-> PhaseOf(e)],
                                holder <- [e \in Events |-> HolderOf(e)]

ImplementsEventLife == Life!Spec

(* EventScheduler.h: schedule_event schedules an event "to one of the       *)
(* available cores"; DCMSession.h: a session that cannot handle an event   *)
(* returns false, so that the loop tries the next core.  Violated: after   *)
(* Refuse nobody has the event.                                            *)
NoEventLost == \A e \in Events : owner[e] # Lost
=============================================================================
