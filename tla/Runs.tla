-------------------------------- MODULE Runs --------------------------------
(***************************************************************************)
(* The life of the supervisor over several runs: the transitions of run    *)
(* control (Activity), the L1 thread they start and join, the scheduler    *)
(* they reset, the server, and a crash with a restart (--restart).         *)
(*                                                                         *)
(* There is one DCM.  Of its session there are the posted sends, m_events  *)
(* and the free cores it pushes (Dispatch has the session).  The DCM and   *)
(* the partition are external, seen as in test/testDCM.cxx: all            *)
(* applications make a transition at the same time, in any order, and the  *)
(* next begins when every one has ended it.  In prepareForRun the DCM      *)
(* announces all its cores and starts a thread per core; in stopDC it      *)
(* waits until the threads have ended the events they are at, but what is  *)
(* on m_assigned_l1ids stays there for the threads of the next run.        *)
(***************************************************************************)
EXTENDS Integers, Sequences, FiniteSets, SequencesExt

CONSTANTS
  Cores,         \* cores of the DCM
  Gap,           \* the 10000000 global IDs that a restart skips
  MaxRuns,       \* runs (bound)
  MaxEvents,     \* events of a run (bound)
  MaxExpiries,   \* events that time out (bound)
  MaxSessions,   \* connections of the DCM (bound)
  MaxCrashes     \* crashes of the supervisor (bound)

L1      == "l1"
RC      == "rc"
Threads == {L1, RC}
Events  == [run : 1..MaxRuns, id : 1..MaxEvents]
NoEvent == [run |-> 0, id |-> 0]

ASSUME RunsAssumption ==
  /\ Cores \in Nat \ {0}
  /\ Gap \in Nat \ {0}
  /\ {MaxRuns, MaxEvents, MaxExpiries, MaxSessions, MaxCrashes} \subseteq Nat

VARIABLES
  \* The partition.
  run,           \* the number of the last run
  ongoing,       \* that run has not ended
  record,        \* DF.HLTSV.Events: the published Recent_Global_ID, -1: none
  \* Activity.
  fsm,           \* the state of the application
  m_restarted, m_running,
  pc,            \* where the L1 thread and run control are
  hand,          \* the event schedule_event or push_events is working on
  taken,         \* events taken in this run
  \* EventScheduler.
  m_global_id, Recent_Global_ID, m_free_cores, m_reassigned_events,
  \* HLTSVServer and the session of the DCM.
  session,       \* the number of the open session, 0: none
  sessions,      \* sessions opened so far
  m_events,
  posted,        \* events whose send is posted to the strand, not yet run
  stray,         \* the same, or listed since, with sessions that have ended
  \* The DCM.
  dcm,           \* its state
  m_assigned_l1ids,
  waiting,       \* threads past their test of m_running, without an event
  working,       \* events that threads process
  building,      \* threads that have reported an event and still build it
  updates,       \* UpdateMessages on the way: [event, request]
  expiries, crashes,
  \* History.
  issued,        \* the global IDs given out in this run, in order
  counting,      \* an event has been scheduled since the counters were reset
  unpublished,   \* events scheduled since the last publication
  current,       \* the record is of a later event than the last reset
  stale,         \* a restart in this run read a record that was not current
  leftover,      \* events with the session, the DCM or an update at a reset
  mixed,         \* <<reported, erased>>: an update has erased another event
  late           \* cores the DCM had asked for, or had to give back for an
                 \* event, when the last reset forgot the free ones

partitionVars == <<run, ongoing>>
threadVars    == <<m_running, pc, hand, taken>>
idVars        == <<m_global_id, Recent_Global_ID>>
queueVars     == <<m_free_cores, m_reassigned_events>>
sessionVars   == <<session, sessions, m_events, posted, stray>>
workerVars    == <<waiting, working, building>>
dcmVars       == <<dcm, m_assigned_l1ids, workerVars, updates>>
boundVars     == <<expiries, crashes>>
recordVars    == <<issued, counting, unpublished, current, stale>>
mixVars       == <<leftover, mixed, late>>
vars == <<partitionVars, record, fsm, m_restarted, threadVars, idVars,
          queueVars, sessionVars, dcmVars, boundVars, recordVars, mixVars>>

Idle == [t \in Threads |-> IF t = L1 THEN "off" ELSE "idle"]

Init ==
  /\ run = 0 /\ ongoing = FALSE /\ record = -1
  /\ fsm = "none" /\ m_restarted = FALSE
  /\ m_running = FALSE /\ pc = Idle
  /\ hand = [t \in Threads |-> NoEvent] /\ taken = 0
  /\ m_global_id = 0 /\ Recent_Global_ID = 0
  /\ m_free_cores = <<>> /\ m_reassigned_events = <<>>
  /\ session = 0 /\ sessions = 0 /\ m_events = <<>>
  /\ posted = <<>> /\ stray = <<>>
  /\ dcm = "down" /\ m_assigned_l1ids = <<>> /\ updates = <<>>
  /\ waiting = 0 /\ working = <<>> /\ building = 0
  /\ expiries = 0 /\ crashes = 0
  /\ issued = <<>> /\ counting = FALSE /\ unpublished = 0
  /\ current = FALSE /\ stale = FALSE
  /\ leftover = {} /\ mixed = {} /\ late = 0

-----------------------------------------------------------------------------
(* EventScheduler::reset.                                                  *)

MutResetCores(initial) ==      \* forgets the free cores
  /\ m_global_id' = initial
  /\ Recent_Global_ID' = 0
  /\ m_reassigned_events' = <<>>
  /\ UNCHANGED m_free_cores

MutResetQueue(initial) ==      \* forgets the re-assigned events
  /\ m_global_id' = initial
  /\ Recent_Global_ID' = 0
  /\ m_free_cores' = <<>>
  /\ UNCHANGED m_reassigned_events

reset(initial) ==
  /\ m_global_id' = initial
  /\ Recent_Global_ID' = 0
  /\ m_free_cores' = <<>>
  /\ m_reassigned_events' = <<>>

(* The transitions of Activity.                                            *)

MutInitialID == IF m_restarted THEN record ELSE 0     \* no gap

InitialID == IF m_restarted THEN record + Gap ELSE 0

(* A new scheduler and a new server, which accepts; a restarted supervisor *)
(* goes on after the global ID it finds in IS.  If there is none the       *)
(* transition fails: not modelled.                                         *)
configure ==
  /\ fsm = "none"
  /\ m_restarted => record >= 0
  /\ reset(InitialID)
  /\ fsm' = "configured"
  /\ counting' = FALSE
  /\ stale' = (stale \/ (m_restarted /\ issued # <<>> /\ ~current))
  /\ UNCHANGED <<partitionVars, record, m_restarted, threadVars, sessionVars,
                 dcmVars, boundVars, issued, unpublished, current, mixVars>>

connect ==                     \* start_publishing
  /\ fsm = "configured"
  /\ fsm' = "connected"
  /\ UNCHANGED <<partitionVars, record, m_restarted, threadVars, idVars,
                 queueVars, sessionVars, dcmVars, boundVars, recordVars,
                 mixVars>>

(* The L1 thread starts.  A supervisor that was restarted joins the run    *)
(* that goes on; otherwise a run begins.                                   *)
prepareForRun ==
  /\ fsm = "connected"
  /\ fsm' = "running"
  /\ m_running' = TRUE
  /\ pc' = [pc EXCEPT ![L1] = "get"]
  /\ \/ /\ ongoing
        /\ UNCHANGED <<run, taken, issued, stale, current>>
     \/ /\ ~ongoing /\ run < MaxRuns
        /\ run' = run + 1 /\ taken' = 0
        /\ issued' = <<>> /\ stale' = FALSE /\ current' = FALSE
  /\ ongoing' = TRUE
  /\ UNCHANGED <<record, m_restarted, hand, idVars, queueVars, sessionVars,
                 dcmVars, boundVars, counting, unpublished, mixVars>>

(* stopDC: push_events, then m_running = false, then join.  The DCM has    *)
(* ended prepareForRun; it may have begun or ended its own stopDC.         *)
stopDC ==
  /\ fsm = "running" /\ dcm # "connected"
  /\ fsm' = "stopping"
  /\ pc' = [pc EXCEPT ![RC] = "push"]
  /\ UNCHANGED <<partitionVars, record, m_restarted, m_running, hand, taken,
                 idVars, queueVars, sessionVars, dcmVars, boundVars,
                 recordVars, mixVars>>

StopRunning ==
  /\ pc[RC] = "stop"
  /\ m_running' = FALSE
  /\ pc' = [pc EXCEPT ![RC] = "join"]
  /\ UNCHANGED <<partitionVars, record, fsm, m_restarted, hand, taken, idVars,
                 queueVars, sessionVars, dcmVars, boundVars, recordVars,
                 mixVars>>

MutJoin ==                     \* does not wait for the thread
  /\ pc[RC] = "join"
  /\ fsm' = "stopped"
  /\ pc' = [pc EXCEPT ![RC] = "idle"]
  /\ UNCHANGED <<partitionVars, record, m_restarted, m_running, hand, taken,
                 idVars, queueVars, sessionVars, dcmVars, boundVars,
                 recordVars, mixVars>>

Join ==
  /\ pc[RC] = "join" /\ pc[L1] = "off"
  /\ fsm' = "stopped"
  /\ pc' = [pc EXCEPT ![RC] = "idle"]
  /\ UNCHANGED <<partitionVars, record, m_restarted, m_running, hand, taken,
                 idVars, queueVars, sessionVars, dcmVars, boundVars,
                 recordVars, mixVars>>

Requests  == {x \in (DOMAIN updates) \X (1..Cores) :
               x[2] <= updates[x[1]].request}
Requested == Cardinality(Requests)
Reported  == {updates[i].event : i \in DOMAIN updates}

(* Events that the session will send or the DCM has, each for a core.      *)
Held == Len(posted) + Len(m_assigned_l1ids) + Len(working) + building

(* The DCM has ended stopDC, and its stopRecording does nothing.           *)
stopRecording ==
  /\ fsm = "stopped" /\ dcm \notin {"running", "stopping"}
  /\ reset(0)
  /\ fsm' = "connected"
  /\ dcm' = IF dcm = "stopped" THEN "connected" ELSE dcm
  /\ ongoing' = FALSE
  /\ counting' = FALSE
  /\ leftover' = leftover \cup ToSet(m_events) \cup ToSet(posted) \cup ToSet(stray)
                          \cup ToSet(m_assigned_l1ids) \cup Reported
  /\ late' = Requested + Held
  /\ UNCHANGED <<run, record, m_restarted, threadVars, sessionVars,
                 m_assigned_l1ids, workerVars, updates, boundVars, issued,
                 unpublished, current, stale, mixed>>

disconnect ==                  \* stop_publishing
  /\ fsm = "connected" /\ ~ongoing /\ dcm # "running"
  /\ fsm' = "configured"
  /\ UNCHANGED <<partitionVars, record, m_restarted, threadVars, idVars,
                 queueVars, sessionVars, dcmVars, boundVars, recordVars,
                 mixVars>>

DcmGone ==                     \* with its threads and what was on the way
  /\ dcm' = "down"
  /\ m_assigned_l1ids' = <<>> /\ updates' = <<>>
  /\ waiting' = 0 /\ working' = <<>> /\ building' = 0

MutNoConnection ==             \* the server keeps the session
  /\ DcmGone
  /\ m_events' = <<>> /\ posted' = <<>>
  /\ UNCHANGED session

NoConnection ==                \* the session and what was on it are gone
  /\ DcmGone
  /\ m_events' = <<>> /\ posted' = <<>>
  /\ session' = 0

(* HLTSVServer::stop closes what is still open; the io threads end when    *)
(* no handler is left to run.                                              *)
unconfigure ==
  /\ fsm = "configured" /\ ~ongoing
  /\ fsm' = "none"
  /\ NoConnection
  /\ stray' = <<>>
  /\ m_free_cores' = <<>> /\ m_reassigned_events' = <<>>
  /\ late' = 0
  /\ UNCHANGED <<partitionVars, record, m_restarted, threadVars, idVars,
                 sessions, boundVars, recordVars, leftover, mixed>>

(* The process dies and is started again with --restart.                   *)
Crash ==
  /\ fsm # "none" /\ crashes < MaxCrashes
  /\ crashes' = crashes + 1
  /\ m_restarted' = TRUE
  /\ fsm' = "none"
  /\ m_running' = FALSE /\ pc' = Idle /\ hand' = [t \in Threads |-> NoEvent]
  /\ m_global_id' = 0 /\ Recent_Global_ID' = 0
  /\ m_free_cores' = <<>> /\ m_reassigned_events' = <<>>
  /\ NoConnection
  /\ stray' = <<>>
  /\ late' = 0
  /\ counting' = FALSE /\ unpublished' = 0
  /\ UNCHANGED <<partitionVars, record, taken, sessions, expiries,
                 issued, current, stale, leftover, mixed>>

(* The publisher's thread.                                                 *)
Publish ==
  /\ fsm \notin {"none", "configured"}
  /\ record' = Recent_Global_ID
  /\ unpublished' = 0
  /\ current' = counting
  /\ UNCHANGED <<partitionVars, fsm, m_restarted, threadVars, idVars,
                 queueVars, sessionVars, dcmVars, boundVars, issued, counting,
                 stale, mixVars>>

-----------------------------------------------------------------------------
(* The L1 thread, and run control inside push_events.                      *)

(* getResult and the first half of schedule_event.  The publisher keeps    *)
(* up: fewer than Gap events between two publications.                     *)
GetResult ==
  /\ pc[L1] = "get" /\ m_running
  /\ taken < MaxEvents /\ unpublished + 1 < Gap
  /\ taken' = taken + 1
  /\ m_global_id' = m_global_id + 1
  /\ Recent_Global_ID' = m_global_id
  /\ issued' = Append(issued, m_global_id)
  /\ counting' = TRUE
  /\ unpublished' = unpublished + 1
  /\ current' = (current /\ counting)
  /\ pc' = [pc EXCEPT ![L1] = "push"]
  /\ UNCHANGED <<partitionVars, record, fsm, m_restarted, m_running, hand,
                 queueVars, sessionVars, dcmVars, boundVars, stale, mixVars>>

LeaveThread ==                 \* while(m_running)
  /\ pc[L1] = "get" /\ ~m_running
  /\ pc' = [pc EXCEPT ![L1] = "off"]
  /\ UNCHANGED <<partitionVars, record, fsm, m_restarted, m_running, hand,
                 taken, idVars, queueVars, sessionVars, dcmVars, boundVars,
                 recordVars, mixVars>>

(* push_events takes a re-assigned event, or there is none.                *)
PushEvents(t) ==
  /\ pc[t] = "push"
  /\ \/ /\ m_reassigned_events # <<>>
        /\ hand' = [hand EXCEPT ![t] = Head(m_reassigned_events)]
        /\ m_reassigned_events' = Tail(m_reassigned_events)
        /\ pc' = [pc EXCEPT ![t] = "pop"]
     \/ /\ m_reassigned_events = <<>>
        /\ hand' = [hand EXCEPT ![t] = IF t = L1 THEN [run |-> run, id |-> taken]
                                                 ELSE NoEvent]
        /\ pc' = [pc EXCEPT ![t] = IF t = L1 THEN "popNew" ELSE "stop"]
        /\ UNCHANGED m_reassigned_events
  /\ UNCHANGED <<partitionVars, record, fsm, m_restarted, m_running, taken,
                 idVars, m_free_cores, sessionVars, dcmVars, boundVars,
                 recordVars, mixVars>>

(* m_free_cores.pop and handle_event, which posts the send.  The core of   *)
(* an earlier session refuses and the event is dropped.                    *)
PopCore(t) ==
  /\ pc[t] \in {"pop", "popNew"}
  /\ m_free_cores # <<>>
  /\ m_free_cores' = Tail(m_free_cores)
  /\ \/ /\ Head(m_free_cores) # session
        /\ UNCHANGED posted
     \/ /\ Head(m_free_cores) = session
        /\ posted' = Append(posted, hand[t])
  /\ hand' = [hand EXCEPT ![t] = NoEvent]
  /\ pc' = [pc EXCEPT ![t] = IF @ = "popNew" THEN "get" ELSE "push"]
  /\ UNCHANGED <<partitionVars, record, fsm, m_restarted, m_running, taken,
                 idVars, m_reassigned_events, session, sessions, m_events,
                 stray, dcmVars, boundVars, recordVars, mixVars>>

-----------------------------------------------------------------------------
(* The session of the DCM, and those that have ended.                      *)

(* The lambda of handle_event: the event is sent, and listed.  It is with  *)
(* the DCM from here on.                                                   *)
RunHandle ==
  /\ posted # <<>>
  /\ posted' = Tail(posted)
  /\ m_events' = Append(m_events, Head(posted))
  /\ m_assigned_l1ids' = Append(m_assigned_l1ids, Head(posted))
  /\ UNCHANGED <<partitionVars, record, fsm, m_restarted, threadVars, idVars,
                 queueVars, session, sessions, stray, dcm, workerVars, updates,
                 boundVars, recordVars, mixVars>>

(* The same in a session that has ended: it lists the event all the same,  *)
(* the send fails and onSendError re-assigns it.                           *)
OnSendError ==
  /\ stray # <<>>
  /\ stray' = Tail(stray)
  /\ m_reassigned_events' = Append(m_reassigned_events, Head(stray))
  /\ UNCHANGED <<partitionVars, record, fsm, m_restarted, threadVars, idVars,
                 m_free_cores, session, sessions, m_events, posted, dcmVars,
                 boundVars, recordVars, mixVars>>


RequestEvents(u) ==
  m_free_cores' = m_free_cores \o [i \in 1..u.request |-> session]

(* onReceive: the first event with the L1 ID that is reported goes.        *)
onReceive ==
  LET u       == Head(updates)
      matches == {i \in DOMAIN m_events : m_events[i].id = u.event.id}
  IN
  /\ updates # <<>>
  /\ updates' = Tail(updates)
  /\ \/ /\ matches = {}
        /\ UNCHANGED <<m_events, mixed>>
     \/ \E i \in matches :
          /\ \A j \in matches : i <= j
          /\ m_events' = RemoveAt(m_events, i)
          /\ mixed' = mixed \cup ({<<u.event, m_events[i]>>} \ {<<u.event, u.event>>})
  /\ RequestEvents(u)
  /\ UNCHANGED <<partitionVars, record, fsm, m_restarted, threadVars, idVars,
                 m_reassigned_events, session, sessions, posted, stray, dcm,
                 m_assigned_l1ids, workerVars, boundVars, recordVars, leftover,
                 late>>

Expire ==                      \* check_timeouts
  /\ m_events # <<>> /\ expiries < MaxExpiries
  /\ expiries' = expiries + 1
  /\ m_reassigned_events' = Append(m_reassigned_events, Head(m_events))
  /\ m_events' = Tail(m_events)
  /\ UNCHANGED <<partitionVars, record, fsm, m_restarted, threadVars, idVars,
                 m_free_cores, session, sessions, posted, stray, dcmVars,
                 crashes, recordVars, mixVars>>

-----------------------------------------------------------------------------
(* The DCM.                                                                *)

DcmConnect ==                  \* HLTSVServer::onAccept
  /\ dcm = "down" /\ fsm # "none" /\ sessions < MaxSessions
  /\ sessions' = sessions + 1 /\ session' = sessions + 1
  /\ dcm' = "connected"
  /\ UNCHANGED <<partitionVars, record, fsm, m_restarted, threadVars, idVars,
                 queueVars, m_events, posted, stray, m_assigned_l1ids,
                 workerVars, updates, boundVars, recordVars, mixVars>>

DcmPrepareForRun ==            \* announces its cores and starts a thread for each
  /\ dcm = "connected"
  /\ fsm = "running" \/ (fsm = "connected" /\ (ongoing \/ run < MaxRuns))
  /\ dcm' = "running"
  /\ updates' = Append(updates, [event |-> NoEvent, request |-> Cores])
  /\ waiting' = Cores
  /\ UNCHANGED <<partitionVars, record, fsm, m_restarted, threadVars, idVars,
                 queueVars, sessionVars, m_assigned_l1ids, working, building,
                 boundVars, recordVars, mixVars>>

DcmTake ==                     \* get_next_assignment
  /\ waiting > 0 /\ m_assigned_l1ids # <<>>
  /\ waiting' = waiting - 1
  /\ m_assigned_l1ids' = Tail(m_assigned_l1ids)
  /\ working' = Append(working, Head(m_assigned_l1ids))
  /\ UNCHANGED <<partitionVars, record, fsm, m_restarted, threadVars, idVars,
                 queueVars, sessionVars, dcm, building, updates, boundVars,
                 recordVars, mixVars>>

(* while(m_running): a thread that is done with its event goes on or ends. *)
Continue == waiting' = IF dcm = "running" THEN waiting + 1 ELSE waiting

(* A rejected event is reported with its core.  One that is built is       *)
(* reported without, and the core requested when it is built (DcmBuilt).   *)
DcmAnswer ==
  /\ \E i \in DOMAIN working :
       /\ working' = RemoveAt(working, i)
       /\ \/ /\ updates' = Append(updates, [event |-> working[i], request |-> 1])
             /\ Continue
             /\ UNCHANGED building
          \/ /\ updates' = Append(updates, [event |-> working[i], request |-> 0])
             /\ building' = building + 1
             /\ UNCHANGED waiting
  /\ UNCHANGED <<partitionVars, record, fsm, m_restarted, threadVars, idVars,
                 queueVars, sessionVars, dcm, m_assigned_l1ids, boundVars,
                 recordVars, mixVars>>

DcmBuilt ==
  /\ building > 0
  /\ building' = building - 1
  /\ updates' = Append(updates, [event |-> NoEvent, request |-> 1])
  /\ Continue
  /\ UNCHANGED <<partitionVars, record, fsm, m_restarted, threadVars, idVars,
                 queueVars, sessionVars, dcm, m_assigned_l1ids, working,
                 boundVars, recordVars, mixVars>>

(* The DCM's own stopDC, at the same time as the supervisor's.  Threads    *)
(* blocked in get_next_assignment are woken and end; one that has tested   *)
(* m_running and is about to block stays for one more event.               *)
DcmStop ==
  /\ dcm = "running" /\ fsm \in {"running", "stopping", "stopped"}
  /\ dcm' = "stopping"
  /\ waiting' \in 0..waiting
  /\ UNCHANGED <<partitionVars, record, fsm, m_restarted, threadVars, idVars,
                 queueVars, sessionVars, m_assigned_l1ids, working, building,
                 updates, boundVars, recordVars, mixVars>>

DcmJoin ==                     \* stopDC joins the threads
  /\ dcm = "stopping" /\ waiting = 0 /\ working = <<>> /\ building = 0
  /\ dcm' = "stopped"
  /\ UNCHANGED <<partitionVars, record, fsm, m_restarted, threadVars, idVars,
                 queueVars, sessionVars, m_assigned_l1ids, workerVars, updates,
                 boundVars, recordVars, mixVars>>

(* onReceiveError: m_events is re-assigned; what is posted runs later.     *)
DcmDisconnect ==
  /\ dcm = "connected" /\ fsm \in {"connected", "configured"} /\ ~ongoing
  /\ NoConnection
  /\ m_reassigned_events' = m_reassigned_events \o m_events
  /\ stray' = stray \o posted
  /\ late' = 0
  /\ UNCHANGED <<partitionVars, record, fsm, m_restarted, threadVars, idVars,
                 m_free_cores, sessions, boundVars, recordVars, leftover,
                 mixed>>

-----------------------------------------------------------------------------
L1Step == GetResult \/ LeaveThread \/ PushEvents(L1) \/ PopCore(L1)
StopStep == StopRunning \/ Join \/ PushEvents(RC) \/ PopCore(RC)

Transition == \/ configure \/ connect \/ prepareForRun \/ stopDC
              \/ stopRecording \/ disconnect \/ unconfigure

DcmStep == DcmTake \/ DcmAnswer \/ DcmBuilt

Next == \/ Transition \/ StopStep \/ L1Step \/ Publish \/ Crash
        \/ RunHandle \/ OnSendError \/ onReceive \/ Expire
        \/ DcmConnect \/ DcmPrepareForRun \/ DcmStep \/ DcmStop \/ DcmJoin
        \/ DcmDisconnect

Spec == Init /\ [][Next]_vars

(* The threads of the supervisor run, and so do those of the DCM; nothing  *)
(* is said about when the DCM stops.                                       *)
FairSpec == /\ Spec
            /\ WF_vars(L1Step) /\ WF_vars(StopStep)
            /\ WF_vars(onReceive) /\ WF_vars(RunHandle) /\ WF_vars(DcmStep)

-----------------------------------------------------------------------------
(* Properties.                                                             *)

Update == [event : Events \cup {NoEvent}, request : 0..Cores]

TypeOK ==
  /\ run \in 0..MaxRuns /\ ongoing \in BOOLEAN /\ record \in Int
  /\ fsm \in {"none", "configured", "connected", "running", "stopping",
              "stopped"}
  /\ m_restarted \in BOOLEAN /\ m_running \in BOOLEAN
  /\ pc[L1] \in {"off", "get", "push", "pop", "popNew"}
  /\ pc[RC] \in {"idle", "push", "pop", "stop", "join"}
  /\ hand \in [Threads -> Events \cup {NoEvent}]
  /\ \A t \in Threads : hand[t] # NoEvent <=> pc[t] \in {"pop", "popNew"}
  /\ taken \in 0..MaxEvents
  /\ m_global_id \in Nat /\ Recent_Global_ID \in Nat
  /\ m_free_cores \in Seq(1..MaxSessions)
  /\ m_reassigned_events \in Seq(Events)
  /\ session \in 0..MaxSessions /\ sessions \in 0..MaxSessions
  /\ m_events \in Seq(Events)
  /\ posted \in Seq(Events) /\ stray \in Seq(Events)
  /\ dcm \in {"down", "connected", "running", "stopping", "stopped"}
  /\ (session = 0) <=> (dcm = "down")
  /\ m_assigned_l1ids \in Seq(Events)
  /\ working \in Seq(Events) /\ updates \in Seq(Update)
  /\ waiting \in 0..Cores /\ building \in 0..Cores
  /\ expiries \in 0..MaxExpiries
  /\ crashes \in 0..MaxCrashes

(* stopDC joins the L1 thread before the scheduler is reset and the source *)
(* is prepared: outside a run, no thread is inside schedule_event,         *)
(* push_events or getResult, whose counters and lists have no lock.        *)
QuietOutsideRun ==
  fsm \notin {"running", "stopping"} =>
    /\ pc = Idle
    /\ ~m_running

(* The global IDs of a run never repeat, over restarts of the supervisor:  *)
(* the gap is larger than what can be unpublished.  This needs that every  *)
(* restart finds the ID of an event that the last supervisor has           *)
(* scheduled; the counters are published from connect on, before the first *)
(* event, so a second crash may leave an older record or a zero.           *)
GlobalIDsUnique == ~stale => IsInjective(issued)

(* An event of an earlier run is with the scheduler, a session or a DCM    *)
(* only if, when stopRecording reset the scheduler, it was with the        *)
(* session (posted or listed), with the DCM or reported by an update on    *)
(* the way: nothing gets round the reset through a thread or a queue of    *)
(* the scheduler.  And when an event is taken for another with the same    *)
(* L1 ID one of the two is such an event.                                  *)
Abroad == ToSet(m_reassigned_events) \cup ToSet(m_events) \cup ToSet(posted)
            \cup ToSet(stray) \cup ToSet(m_assigned_l1ids) \cup ToSet(working)
            \cup Reported \cup {hand[t] : t \in Threads}

RunsSeparate ==
  /\ \A e \in Abroad : e.run = run \/ e \in leftover \cup {NoEvent}
  /\ \A m \in mixed : leftover \cap {m[1], m[2]} # {}

(* Over all runs and restarts the DCM is never given more events than it   *)
(* has cores, but for what it had asked for, or been given and not yet     *)
(* answered, when the last reset forgot the free cores: its next           *)
(* prepareForRun announces those cores again.                              *)
FreeCores == {i \in DOMAIN m_free_cores : m_free_cores[i] = session}

CoresAnnouncedOnce == Cardinality(FreeCores) + Requested + Held <= Cores + late

(* stopDC ends, though both it and the L1 thread may be blocked on         *)
(* m_free_cores, unless the DCM stops first (or was never there) and       *)
(* leaves no core: none is free or requested and no thread of the DCM has, *)
(* or will have, an event to give one back for.                            *)
NoMoreCores ==
  /\ m_free_cores = <<>> /\ updates = <<>>
  /\ dcm # "running" /\ working = <<>> /\ building = 0
  /\ waiting = 0 \/ (m_assigned_l1ids = <<>> /\ posted = <<>>)

=============================================================================
