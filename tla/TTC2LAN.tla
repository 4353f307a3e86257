------------------------------ MODULE TTC2LAN -------------------------------
(***************************************************************************)
(* The TTC2LAN source.  TTC2LAN senders report over TCP up to which L1 ID  *)
(* events were accepted; the io thread turns every report into a range of  *)
(* IDs per sender (Session::onReceive, insert).  The L1 thread takes one   *)
(* ID off every sender's list for an event (getResult).  m_event_count     *)
(* drives the flow control: the io thread tells all senders XOFF above the *)
(* high watermark, the L1 thread tells them XON below the low one.         *)
(*                                                                         *)
(* Only the lists are protected by the mutex; m_event_count, m_status and  *)
(* m_sessions are read and written outside of it, so these accesses are    *)
(* steps of their own.  Senders are external.  They report whatever their  *)
(* position in the one stream of triggers is; a report that was on its way *)
(* still arrives after an XOFF.                                            *)
(***************************************************************************)
EXTENDS Integers, Sequences, FiniteSets, SequencesExt

CONSTANTS
  Senders,    \* the sessions of the senders, one per connection
  Triggers,   \* the L1 IDs that the trigger accepts, in order (bound)
  EcrSize,    \* 2^24: L1 IDs between two event counter resets (ECR)
  Epochs,     \* 2^8: ECRs until the L1 ID wraps
  CountMod,   \* 2^32: values of m_event_count
  High,       \* m_high_watermark
  Low         \* m_low_watermark

L1Ids     == 0..(EcrSize * Epochs - 1)
Epoch(id) == id \div EcrSize
NextId(id) == (id + 1) % (EcrSize * Epochs)

ASSUME SourceAssumption ==
  /\ IsFiniteSet(Senders)
  /\ EcrSize \in Nat \ {0} /\ Epochs \in Nat \ {0} /\ CountMod \in Nat \ {0}
  /\ Low \in Nat \ {0} /\ High \in Nat
  /\ Triggers \in Seq(L1Ids)

(* The first trigger after an ECR or of a run has the first ID of an epoch *)
(* (a run may begin in any epoch, also in the one of the trigger before);  *)
(* every other one has the next ID of its epoch.  ECRs come long before    *)
(* the IDs of an epoch are used up, so the very last ID, after which the   *)
(* numbers wrap, does not occur.                                           *)
Begins(i) == Triggers[i] = Epoch(Triggers[i]) * EcrSize

ASSUME TriggerAssumption ==
  \A i \in DOMAIN Triggers :
    /\ Triggers[i] + 1 \in L1Ids
    /\ \/ Begins(i)
       \/ i > 1 /\ Epoch(Triggers[i]) = Epoch(Triggers[i - 1])
                /\ Triggers[i] = Triggers[i - 1] + 1

VARIABLES
  \* The senders.
  link,           \* "none", "open" or "closed"
  reported,       \* how many triggers a sender has reported
  gate,           \* the last of XON and XOFF it was sent
  \* Session and L1TTC2LANSource.
  m_last_id,      \* per session
  m_sessions,
  known,          \* the sessions that m_events has a list for
  m_events,       \* their lists of ranges <<first, last>>
  m_event_count,
  m_status,
  \* The threads.
  io,             \* where the io thread is
  l1,             \* where the L1 thread is
  toXoff,         \* the sessions the io thread has still to tell XOFF
  toXon,          \* the sessions the L1 thread has still to tell XON
  resets,         \* steps of the two resets of prepareForRun that are done
  \* History.
  base,           \* triggers a sender had reported at the last reset
  taken,          \* the IDs taken off a sender's list since then
  skipped,        \* since then its ranges left out triggers, see Missed
  exact           \* see ExactCount

vars == <<link, reported, gate, m_last_id, m_sessions, known, m_events,
          m_event_count, m_status, io, l1, toXoff, toXon, resets, base, taken,
          skipped, exact>>
senderVars  == <<link, reported, m_last_id>>
historyVars == <<base, taken, skipped, exact>>

Init ==
  /\ link = [s \in Senders |-> "none"]
  /\ reported = [s \in Senders |-> 0]
  /\ gate = [s \in Senders |-> "ON"]
  /\ m_last_id = [s \in Senders |-> EcrSize * (Epochs - 1)]
  /\ m_sessions = {}
  /\ known = {}
  /\ m_events = [s \in Senders |-> <<>>]
  /\ m_event_count = 0
  /\ m_status = "ON"
  /\ io = "idle" /\ l1 = "off"
  /\ toXoff = {} /\ toXon = {}
  /\ resets = 0
  /\ base = [s \in Senders |-> 0]
  /\ taken = [s \in Senders |-> <<>>]
  /\ skipped = [s \in Senders |-> FALSE]
  /\ exact = TRUE

-----------------------------------------------------------------------------
(* The io thread: Server and Session.                                      *)

onAccept(s) ==
  /\ io = "idle"
  /\ link[s] = "none"
  /\ link' = [link EXCEPT ![s] = "open"]
  /\ m_sessions' = m_sessions \cup {s}
  /\ UNCHANGED <<reported, gate, m_last_id, known, m_events, m_event_count,
                 m_status, io, l1, toXoff, toXon, resets, historyVars>>

(* onReceiveError or onSendError: the session is closed, and stays in      *)
(* m_sessions and m_events.                                                *)
asyncClose(s) ==
  /\ io = "idle"
  /\ link[s] = "open"
  /\ link' = [link EXCEPT ![s] = "closed"]
  /\ UNCHANGED <<reported, gate, m_last_id, m_sessions, known, m_events,
                 m_event_count, m_status, io, l1, toXoff, toXon, resets,
                 historyVars>>

(* The first ID of the range that a report of id stands for.               *)
First(s, id) == IF Epoch(m_last_id[s]) = Epoch(id)
                THEN NextId(m_last_id[s])
                ELSE Epoch(id) * EcrSize

MutInsert(s, first, last) ==   \* the length without its + 1
  /\ known' = known \cup {s}
  /\ m_events' = [m_events EXCEPT ![s] = Append(@, <<first, last>>)]
  /\ m_event_count' = (m_event_count + last - first) % CountMod

insert(s, first, last) ==      \* its part under the mutex
  /\ known' = known \cup {s}
  /\ m_events' = [m_events EXCEPT ![s] = Append(@, <<first, last>>)]
  /\ m_event_count' = (m_event_count + last - first + 1) % CountMod

(* The triggers that a report of the n-th one ought to tell of, and the    *)
(* range it becomes, differ: it jumps over the end of an epoch or of a     *)
(* run, or the triggers begin anew in the epoch where m_last_id stands.    *)
(* That is so for a run that begins in the epoch of the last report, since *)
(* m_last_id survives reset, and for the first report of a session if it   *)
(* is of the last epoch: m_last_id starts there, as if the first ID of it  *)
(* had been reported.                                                      *)
Missed(s, n) ==
  LET next == reported[s] + 1 IN
    \/ \E i \in (next + 1)..n : Begins(i)
    \/ Begins(next) /\ Epoch(Triggers[next]) = Epoch(m_last_id[s])

(* A report of the n-th trigger. *)
onReceive(s, n) ==
  /\ io = "idle"
  /\ link[s] = "open" /\ n > reported[s]
  /\ insert(s, First(s, Triggers[n]), Triggers[n])
  /\ m_last_id' = [m_last_id EXCEPT ![s] = Triggers[n]]
  /\ io' = "test"
  /\ reported' = [reported EXCEPT ![s] = n]
  /\ skipped' = [skipped EXCEPT ![s] = @ \/ Missed(s, n)]
  /\ exact' = (exact /\ resets % 2 = 0 /\ First(s, Triggers[n]) <= Triggers[n])
  /\ UNCHANGED <<link, gate, m_sessions, m_status, l1, toXoff, toXon, resets,
                 base, taken>>

TestXoff ==                    \* the rest of insert, outside the mutex
  /\ io = "test"
  /\ LET xoff == m_event_count > High /\ m_status = "ON" IN
       /\ io' = IF xoff THEN "send" ELSE "idle"
       /\ toXoff' = IF xoff THEN m_sessions ELSE {}
  /\ UNCHANGED <<senderVars, gate, m_sessions, known, m_events, m_event_count,
                 m_status, l1, toXon, resets, historyVars>>

SendXoff(s) ==
  /\ io = "send" /\ s \in toXoff
  /\ gate' = [gate EXCEPT ![s] = "OFF"]
  /\ toXoff' = toXoff \ {s}
  /\ UNCHANGED <<senderVars, m_sessions, known, m_events, m_event_count,
                 m_status, io, l1, toXon, resets, historyVars>>

SetOff ==
  /\ io = "send" /\ toXoff = {}
  /\ m_status' = "OFF"
  /\ io' = "idle"
  /\ UNCHANGED <<senderVars, gate, m_sessions, known, m_events, m_event_count,
                 l1, toXoff, toXon, resets, historyVars>>

-----------------------------------------------------------------------------
(* The L1 thread: getResult.                                               *)

MutTestXon ==                  \* sets the status before it sends
  /\ l1 = "idle"
  /\ LET xon == m_status = "OFF" /\ m_event_count < Low IN
       /\ l1' = IF xon THEN "send" ELSE "take"
       /\ toXon' = IF xon THEN m_sessions ELSE {}
       /\ m_status' = IF xon THEN "ON" ELSE m_status
  /\ UNCHANGED <<senderVars, gate, m_sessions, known, m_events, m_event_count,
                 io, toXoff, resets, historyVars>>

TestXon ==
  /\ l1 = "idle"
  /\ LET xon == m_status = "OFF" /\ m_event_count < Low IN
       /\ l1' = IF xon THEN "send" ELSE "take"
       /\ toXon' = IF xon THEN m_sessions ELSE {}
  /\ UNCHANGED <<senderVars, gate, m_sessions, known, m_events, m_event_count,
                 m_status, io, toXoff, resets, historyVars>>

SendXon(s) ==
  /\ l1 = "send" /\ s \in toXon
  /\ gate' = [gate EXCEPT ![s] = "ON"]
  /\ toXon' = toXon \ {s}
  /\ UNCHANGED <<senderVars, m_sessions, known, m_events, m_event_count,
                 m_status, io, l1, toXoff, resets, historyVars>>

SetOn ==
  /\ l1 = "send" /\ toXon = {}
  /\ m_status' = "ON"
  /\ l1' = "take"
  /\ UNCHANGED <<senderVars, gate, m_sessions, known, m_events, m_event_count,
                 io, toXoff, toXon, resets, historyVars>>

NoEvent ==                     \* a list is empty
  /\ l1 = "take"
  /\ \E s \in known : m_events[s] = <<>>
  /\ l1' = "idle"
  /\ UNCHANGED <<senderVars, gate, m_sessions, known, m_events, m_event_count,
                 m_status, io, toXoff, toXon, resets, historyVars>>

FrontId(s) == Head(m_events[s])[1]

(* ++ev.front().first > ev.front().second: the range is used up.           *)
MutRest(s) ==                  \* an off-by-one: >= for >
  LET first == NextId(FrontId(s))
      last  == Head(m_events[s])[2]
  IN  (IF first >= last THEN <<>> ELSE <<<<first, last>>>>) \o Tail(m_events[s])

Rest(s) ==
  LET first == NextId(FrontId(s))
      last  == Head(m_events[s])[2]
  IN  (IF first > last THEN <<>> ELSE <<<<first, last>>>>) \o Tail(m_events[s])

MutCountDown == UNCHANGED m_event_count      \* forgets m_event_count--

MutSigned == m_event_count' = m_event_count - 1    \* as if it were signed

CountDown == m_event_count' = (m_event_count - 1) % CountMod

(* The rest of getResult under the mutex: an ID is taken off every list;   *)
(* if they differ this is only logged.  Without any list the loop over     *)
(* the lists passes, and l1ids.front() reads a vector that is empty: the   *)
(* memory that was reserved for the sessions, an event with an ID that     *)
(* nobody sent (or a null pointer, without sessions: Crash).               *)
Deliver ==
  /\ l1 = "take"
  /\ \A s \in known : m_events[s] # <<>>
  /\ m_sessions # {}
  /\ m_events' = [s \in Senders |-> IF s \in known THEN Rest(s)
                                                   ELSE m_events[s]]
  /\ taken' = [s \in Senders |-> IF s \in known
                                 THEN Append(taken[s], FrontId(s))
                                 ELSE taken[s]]
  /\ CountDown
  /\ l1' = "idle"
  /\ exact' = (exact /\ Cardinality(known) = 1)
  /\ UNCHANGED <<senderVars, gate, m_sessions, known, m_status, io, toXoff,
                 toXon, resets, base, skipped>>

Crash ==
  /\ l1 = "take" /\ m_sessions = {}
  /\ l1' = "crashed"
  /\ UNCHANGED <<senderVars, gate, m_sessions, known, m_events, m_event_count,
                 m_status, io, toXoff, toXon, resets, historyVars>>

-----------------------------------------------------------------------------
(* The run-control thread.  reset takes no lock; the io thread may insert  *)
(* before, between or after its two assignments.  What else the data race  *)
(* on the map may do is not modelled.                                      *)

StopRun ==                     \* stopDC has joined the L1 thread
  /\ l1 = "idle"
  /\ l1' = "off"
  /\ UNCHANGED <<senderVars, gate, m_sessions, known, m_events, m_event_count,
                 m_status, io, toXoff, toXon, resets, historyVars>>

ResetEvents ==                 \* m_events.clear()
  /\ l1 = "off" /\ resets \in {0, 2}
  /\ resets' = resets + 1
  /\ known' = {}
  /\ m_events' = [s \in Senders |-> <<>>]
  /\ base' = reported
  /\ taken' = [s \in Senders |-> <<>>]
  /\ skipped' = [s \in Senders |-> FALSE]
  /\ exact' = TRUE
  /\ UNCHANGED <<senderVars, gate, m_sessions, m_event_count, m_status, io, l1,
                 toXoff, toXon>>

ResetCount ==                  \* m_event_count = 0
  /\ l1 = "off" /\ resets \in {1, 3}
  /\ resets' = resets + 1
  /\ m_event_count' = 0
  /\ UNCHANGED <<senderVars, gate, m_sessions, known, m_events, m_status, io,
                 l1, toXoff, toXon, historyVars>>

StartRun ==                    \* prepareForRun starts the L1 thread
  /\ l1 = "off" /\ resets = 4
  /\ resets' = 0
  /\ l1' = "idle"
  /\ UNCHANGED <<senderVars, gate, m_sessions, known, m_events, m_event_count,
                 m_status, io, toXoff, toXon, historyVars>>

IoStep == TestXoff \/ (\E s \in Senders : SendXoff(s)) \/ SetOff

L1Step == \/ TestXon \/ (\E s \in Senders : SendXon(s)) \/ SetOn
          \/ NoEvent \/ Deliver \/ Crash

Next ==
  /\ l1 # "crashed"
  /\ \/ \E s \in Senders : \/ onAccept(s) \/ asyncClose(s)
                           \/ \E n \in DOMAIN Triggers : onReceive(s, n)
     \/ IoStep \/ L1Step
     \/ StopRun \/ ResetEvents \/ ResetCount \/ StartRun

Spec == Init /\ [][Next]_vars

(* Both threads go on with what they have begun, and l1_thread calls       *)
(* getResult again and again.                                              *)
FairSpec == Spec /\ WF_vars(IoStep) /\ WF_vars(L1Step)

-----------------------------------------------------------------------------
(* Properties.                                                             *)

TypeOK ==
  /\ link \in [Senders -> {"none", "open", "closed"}]
  /\ reported \in [Senders -> 0..Len(Triggers)]
  /\ gate \in [Senders -> {"ON", "OFF"}]
  /\ m_last_id \in [Senders -> L1Ids]
  /\ m_sessions \in SUBSET Senders
  /\ known \in SUBSET m_sessions
  /\ m_events \in [Senders -> Seq(L1Ids \X L1Ids)]
  /\ m_event_count \in 0..(CountMod - 1)
  /\ m_status \in {"ON", "OFF"}
  /\ io \in {"idle", "test", "send"}
  /\ l1 \in {"off", "idle", "send", "take", "crashed"}
  /\ toXoff \in SUBSET m_sessions
  /\ toXon \in SUBSET m_sessions
  /\ resets \in 0..4
  /\ base \in [Senders -> 0..Len(Triggers)]
  /\ taken \in [Senders -> Seq(L1Ids)]
  /\ skipped \in [Senders -> BOOLEAN]
  /\ exact \in BOOLEAN

(* XON and XOFF do not cross, though both threads test and set m_status    *)
(* without a lock: they are never sending at the same time, and when the   *)
(* status is ON and no XOFF is being sent, XOFF is the last message of no  *)
(* sender.  Otherwise a sender would stay off for good.                    *)
GateAgrees ==
  /\ ~(io = "send" /\ l1 = "send")
  /\ m_status = "ON" /\ io # "send" => \A s \in m_sessions : gate[s] = "ON"

(* The IDs that wait in the ranges of a list. *)
IdsIn(range) == [k \in 1..(range[2] - range[1] + 1) |-> range[1] + k - 1]

IdsOf(ranges) == FlattenSeq([i \in DOMAIN ranges |-> IdsIn(ranges[i])])

Waiting(s) == IdsOf(m_events[s])

(* As long as every event was taken off exactly one list, no report came   *)
(* in the middle of a reset, and none with the epoch of the sender's last  *)
(* one and no higher ID (after a full turn of the epochs, or in a new      *)
(* run), m_event_count is the number of events that wait.  With two        *)
(* senders it grows by two for an event and falls by one; with none it     *)
(* falls below zero.                                                       *)
AllWaiting == UNION {{s} \X DOMAIN Waiting(s) : s \in Senders}

ExactCount ==
  exact /\ resets % 2 = 0 => m_event_count = Cardinality(AllWaiting) % CountMod

(* The IDs taken off a list since the last reset, and those that wait, are *)
(* the triggers its sender reported since then, in order and without a     *)
(* gap, across ECRs and runs (m_last_id survives reset), provided that     *)
(* since that reset the sender reported the last trigger before each ECR   *)
(* and of each run, no run began in the epoch of its last report, and its  *)
(* first report of all was not of the last epoch (0xff).                   *)
NoGap ==
  \A s \in Senders :
    ~skipped[s] => taken[s] \o Waiting(s)
                     = SubSeq(Triggers, base[s] + 1, reported[s])

(* With one sender that was heard before the first event was taken, XOFF   *)
(* does not last: the L1 thread works the events off and sends XON.        *)
OneSender == exact /\ Cardinality(known) = 1

XoffEnds ==
  m_status = "OFF" /\ OneSender ~>
    (m_status = "ON" \/ ~OneSender \/ l1 \in {"off", "crashed"})

(* L1TTC2LANSource.cxx, getResult: "This first loop checks if all senders  *)
(* have send something."  It checks those that have sent something since   *)
(* the last reset.                                                         *)
AllHaveSent ==
  [][Deliver => \A s \in m_sessions : m_events[s] # <<>>]_vars
=============================================================================
