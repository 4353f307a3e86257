------------------------------- MODULE Trigger ------------------------------
(***************************************************************************)
(* The supervisor as master trigger: the commands of L1Source (hold,       *)
(* resume, prescales), its threads that count lumi blocks, and the sources *)
(* that obey them, internal and preloaded.                                 *)
(*                                                                         *)
(* The state is a set of atomics; a command that reads one and writes      *)
(* another, or the same, takes two steps.  Commands come from outside, on  *)
(* threads of their own and at any time (CommandedTrigger is external).    *)
(* m_cond only shortens a wait that ends by itself, so that notify_one     *)
(* changes nothing here, and a command that does no more is left out.      *)
(***************************************************************************)
EXTENDS Integers, Sequences, FiniteSets, SequencesExt, FiniteSetsExt

CONSTANTS
  Inputs,       \* what the source can be configured with, see Init
  Commanders,   \* threads that run commands
  MAXUINT,      \* 2^32 - 1
  MaxLumi,      \* lumi blocks of a run (bound)
  MaxCommands,  \* commands (bound)
  MaxRuns       \* runs (bound)

Word == 0..MAXUINT
Wrap(n) == n % (MAXUINT + 1)

(* A preloaded source finds an event in its files, and not more events     *)
(* than the keys of m_data can tell apart.                                 *)
Configured(in) ==
  \/ in.plugin = "internal"
  \/ /\ in.plugin = "events"
     /\ in.files \in Seq(Seq(Seq(Word)))
     /\ Len(FlattenSeq(in.files)) \in 1..MAXUINT
  \/ /\ in.plugin = "links"
     /\ in.files \in Seq(Seq(Word)) \ {<<>>}
     /\ Len(in.files[1]) <= MAXUINT
     /\ \E k \in DOMAIN in.files : in.files[k] # <<>>

ASSUME TriggerAssumption ==
  /\ {MAXUINT, MaxLumi} \subseteq Nat \ {0}
  /\ {MaxCommands, MaxRuns} \subseteq Nat
  /\ \A in \in Inputs : Configured(in)

VARIABLES
  \* L1Source.
  m_hold, m_lb, m_hlt_counter,
  m_update,     \* lumi blocks are counted
  updater,      \* per call of startLumiBlockUpdate: where its thread is
  cmd,          \* per commander: the command it is inside
  seen_lb,      \* per commander: the m_lb that setPrescales has read
  \* The source.
  input,        \* its configuration
  m_data,       \* per event: the L1 IDs of its fragments
  m_l1id,       \* preloaded: index of the next event; internal: its ID
  m_max_l1id, m_modid,
  \* Activity.
  fsm,          \* "configured", "resetting", "running", "stopping", "dead"
  runs,         \* runs so far
  pc,           \* where the L1 thread is in getResult
  event,        \* the event it is making, or has made: [id, lb, hlt], and
                \* then, the m_lb when hlt was read (history)
  commands,
  \* History.
  window,       \* the IDs of the last events of this run, as many as there are
  holds,        \* calls of hold since reset, which counts as one
  overlap,      \* two calls of resume have overlapped since reset
  straddled,    \* a command was half done at reset
  after         \* events returned since m_hold left zero

sourceVars  == <<input, m_data, m_max_l1id>>
commandVars == <<cmd, seen_lb, commands>>
historyVars == <<holds, overlap, straddled>>
vars == <<m_hold, m_lb, m_hlt_counter, m_update, updater, commandVars,
          sourceVars, m_l1id, m_modid, fsm, runs, pc, event, window, after,
          historyVars>>

-----------------------------------------------------------------------------
(* L1PreloadedSource::preset.  Either every file holds whole events, of    *)
(* which it keeps the fragments of the trigger; or there is one file for   *)
(* each link and the n-th fragment of a link goes to the n-th event, which *)
(* the first link has made.  A link with more fragments than the first     *)
(* goes on with events that are not there: a null pointer.                 *)

NullEvent(in) == /\ in.plugin = "links"
                 /\ \E k \in DOMAIN in.files : Len(in.files[k]) > Len(in.files[1])

LoadedLinks(links) ==
  [n \in DOMAIN links[1] |->
    FoldLeft(LAMBDA rods, link :
               IF n \in DOMAIN link THEN Append(rods, link[n]) ELSE rods,
             <<>>, links)]

LoadedEvents(files) == FlattenSeq(files)

MutMaxID(data) ==              \* without the final m_max_l1id++
  Max({0} \cup UNION {ToSet(data[n]) : n \in DOMAIN data})

MaxID(data) ==
  Wrap(1 + Max({0} \cup UNION {ToSet(data[n]) : n \in DOMAIN data}))

NoEvent == [id |-> 0, lb |-> 0, hlt |-> 0, then |-> 0]

Init ==
  /\ input \in Inputs
  /\ m_data = IF input.plugin = "internal" \/ NullEvent(input) THEN <<>>
              ELSE IF input.plugin = "links" THEN LoadedLinks(input.files)
                                             ELSE LoadedEvents(input.files)
  /\ m_max_l1id = IF m_data = <<>> THEN 0 ELSE MaxID(m_data)
  /\ fsm = IF NullEvent(input) THEN "dead" ELSE "configured"
  /\ m_hold = 1 /\ m_lb = 1 /\ m_hlt_counter = 1
  /\ m_update = FALSE
  /\ updater = [r \in 1..MaxRuns |-> "none"]
  /\ cmd = [c \in Commanders |-> "none"]
  /\ seen_lb = [c \in Commanders |-> 0]
  /\ m_l1id = 0 /\ m_modid = FALSE
  /\ runs = 0 /\ pc = "off" /\ event = NoEvent
  /\ commands = 0
  /\ window = <<>> /\ holds = 1 /\ after = 0
  /\ overlap = FALSE /\ straddled = FALSE

-----------------------------------------------------------------------------
(* The commands.                                                           *)

Begin(c, what) ==
  /\ cmd[c] = "none" /\ commands < MaxCommands /\ fsm # "dead"
  /\ commands' = commands + 1
  /\ cmd' = [cmd EXCEPT ![c] = what]

hold(c) ==
  /\ Begin(c, "none")
  /\ m_hold' = Wrap(m_hold + 1)
  /\ holds' = holds + 1
  /\ after' = IF m_hold = 0 THEN 0 ELSE after
  /\ UNCHANGED <<m_lb, m_hlt_counter, m_update, updater, seen_lb, sourceVars,
                 m_l1id, m_modid, fsm, runs, pc, event, window, overlap,
                 straddled>>

MutResumeTest(c) ==            \* does not test
  /\ Begin(c, "resume")
  /\ overlap' = (overlap \/ \E d \in Commanders : cmd[d] = "resume")
  /\ UNCHANGED <<m_hold, m_lb, m_hlt_counter, m_update, updater, seen_lb,
                 sourceVars, m_l1id, m_modid, fsm, runs, pc, event, window,
                 after, holds, straddled>>

ResumeTest(c) ==               \* if(m_hold > 0)
  /\ m_hold > 0
  /\ Begin(c, "resume")
  /\ overlap' = (overlap \/ \E d \in Commanders : cmd[d] = "resume")
  /\ UNCHANGED <<m_hold, m_lb, m_hlt_counter, m_update, updater, seen_lb,
                 sourceVars, m_l1id, m_modid, fsm, runs, pc, event, window,
                 after, holds, straddled>>

ResumeDecrement(c) ==          \* m_hold -= 1
  /\ cmd[c] = "resume"
  /\ cmd' = [cmd EXCEPT ![c] = "none"]
  /\ m_hold' = Wrap(m_hold + MAXUINT)
  /\ after' = IF m_hold = 0 THEN 0 ELSE after
  /\ UNCHANGED <<m_lb, m_hlt_counter, m_update, updater, seen_lb, commands,
                 sourceVars, m_l1id, m_modid, fsm, runs, pc, event, window,
                 historyVars>>

setPrescales(c) ==             \* reads m_lb; setHLTPrescales does the same
  /\ Begin(c, "prescale")
  /\ seen_lb' = [seen_lb EXCEPT ![c] = m_lb]
  /\ UNCHANGED <<m_hold, m_lb, m_hlt_counter, m_update, updater, sourceVars,
                 m_l1id, m_modid, fsm, runs, pc, event, window, after,
                 historyVars>>

StorePrescale(c) ==            \* m_hlt_counter = m_lb + 1
  /\ cmd[c] = "prescale"
  /\ cmd' = [cmd EXCEPT ![c] = "none"]
  /\ m_hlt_counter' = seen_lb[c] + 1
  /\ seen_lb' = [seen_lb EXCEPT ![c] = 0]
  /\ UNCHANGED <<m_hold, m_lb, m_update, updater, commands, sourceVars,
                 m_l1id, m_modid, fsm, runs, pc, event, window, after,
                 historyVars>>

(* The thread of startLumiBlockUpdate, once through its loop.              *)
UpdaterLoop(r) ==              \* while(m_update), then wait_for
  /\ updater[r] = "check"
  /\ updater' = [updater EXCEPT ![r] = IF m_update THEN "wait" ELSE "done"]
  /\ UNCHANGED <<m_hold, m_lb, m_hlt_counter, m_update, commandVars,
                 sourceVars, m_l1id, m_modid, fsm, runs, pc, event, window,
                 after, historyVars>>

UpdaterWakes(r) ==
  /\ updater[r] = "wait"
  /\ \/ m_update /\ m_lb < MaxLumi /\ m_lb' = m_lb + 1
     \/ ~m_update /\ UNCHANGED m_lb
  /\ updater' = [updater EXCEPT ![r] = "check"]
  /\ UNCHANGED <<m_hold, m_hlt_counter, m_update, commandVars, sourceVars,
                 m_l1id, m_modid, fsm, runs, pc, event, window, after,
                 historyVars>>

-----------------------------------------------------------------------------
(* getResult on the L1 thread.  While the trigger is held it returns       *)
(* nothing and changes nothing.                                            *)

Shift(id) == IF MAXUINT - id > m_max_l1id THEN id + m_max_l1id
                                          ELSE id % m_max_l1id
PreloadedID(rods) == IF m_max_l1id > 0 /\ m_modid THEN Shift(Head(rods))
                                                  ELSE Head(rods)

MutReadLumiBlock ==            \* ignores hold
  /\ pc = "test"
  /\ event' = [event EXCEPT !.lb = m_lb]
  /\ pc' = "read"
  /\ UNCHANGED <<m_hold, m_lb, m_hlt_counter, m_update, updater, commandVars,
                 sourceVars, m_l1id, m_modid, fsm, runs, window, after,
                 historyVars>>

(* Not held: uint32_t lb = m_lb.  The m_mutex locked around this and the   *)
(* read of m_hlt_counter is one of L1PreloadedSource; that of L1Source,    *)
(* which the counting threads lock, is another.                            *)
ReadLumiBlock ==
  /\ pc = "test" /\ m_hold = 0
  /\ event' = [event EXCEPT !.lb = m_lb]
  /\ pc' = "read"
  /\ UNCHANGED <<m_hold, m_lb, m_hlt_counter, m_update, updater, commandVars,
                 sourceVars, m_l1id, m_modid, fsm, runs, window, after,
                 historyVars>>

(* The window takes as many IDs as the source has before it repeats.       *)
Period == IF input.plugin = "internal" THEN MAXUINT + 1
          ELSE Cardinality({n \in DOMAIN m_data : m_data[n] # <<>>})

Return(id) ==
  /\ window' = Append(IF Len(window) < Period THEN window ELSE Tail(window), id)
  /\ after' = IF m_hold > 0 THEN after + 1 ELSE 0
  /\ event' = [event EXCEPT !.id = id, !.hlt = m_hlt_counter, !.then = m_lb]

InternalResult ==
  /\ pc = "read" /\ input.plugin = "internal"
  /\ Return(m_l1id)
  /\ m_l1id' = Wrap(m_l1id + 1)
  /\ pc' = "test"
  /\ UNCHANGED <<m_hold, m_lb, m_hlt_counter, m_update, updater, commandVars,
                 sourceVars, m_modid, fsm, runs, historyVars>>

(* An event without fragments of the trigger is passed over.               *)
PreloadedResult ==
  /\ pc = "read" /\ input.plugin # "internal"
  /\ LET rods == m_data[m_l1id + 1] IN
       \/ rods # <<>> /\ Return(PreloadedID(rods))
       \/ rods = <<>> /\ UNCHANGED <<window, after, event>>
  /\ IF m_l1id + 1 >= Len(m_data)
     THEN m_l1id' = 0 /\ m_modid' = TRUE
     ELSE m_l1id' = m_l1id + 1 /\ UNCHANGED m_modid
  /\ pc' = "test"
  /\ UNCHANGED <<m_hold, m_lb, m_hlt_counter, m_update, updater, commandVars,
                 sourceVars, fsm, runs, historyVars>>

-----------------------------------------------------------------------------
(* Run control.                                                            *)

MutResetPreloaded ==           \* forgets m_hlt_counter
  /\ m_l1id' = 0
  /\ m_lb' = 1
  /\ m_hold' = 1
  /\ UNCHANGED m_hlt_counter

resetPreloaded ==              \* m_modid stays
  /\ m_l1id' = 0
  /\ m_lb' = 1
  /\ m_hlt_counter' = 1
  /\ m_hold' = 1

resetInternal ==               \* it does not use m_hlt_counter
  /\ m_l1id' = 0
  /\ m_lb' = 1
  /\ m_hold' = 1
  /\ UNCHANGED m_hlt_counter

reset == IF input.plugin = "internal" THEN resetInternal ELSE resetPreloaded

HistoryReset ==
  /\ window' = <<>> /\ holds' = 1 /\ after' = 0 /\ event' = NoEvent
  /\ overlap' = FALSE
  /\ straddled' = (\E c \in Commanders : cmd[c] # "none")

(* prepareForRun resets, waits half a second, resets again and starts.     *)
ResetFirst ==
  /\ fsm = "configured" /\ runs < MaxRuns
  /\ fsm' = "resetting"
  /\ reset
  /\ HistoryReset
  /\ UNCHANGED <<m_update, updater, commandVars, sourceVars, m_modid, runs, pc>>

startLumiBlockUpdate ==
  /\ m_update' = TRUE
  /\ updater' = [updater EXCEPT ![runs + 1] = "check"]

prepareForRun ==
  /\ fsm = "resetting"
  /\ fsm' = "running" /\ runs' = runs + 1
  /\ reset
  /\ HistoryReset
  /\ startLumiBlockUpdate
  /\ pc' = "test"
  /\ UNCHANGED <<commandVars, sourceVars, m_modid>>

MutStopLumiBlockUpdate == UNCHANGED m_update      \* only notifies

stopLumiBlockUpdate == m_update' = FALSE

stopDC ==
  /\ fsm = "running"
  /\ fsm' = "stopping"
  /\ stopLumiBlockUpdate
  /\ UNCHANGED <<m_hold, m_lb, m_hlt_counter, updater, commandVars, sourceVars,
                 m_l1id, m_modid, runs, pc, event, window, after, historyVars>>

Join ==                        \* the L1 thread leaves its loop
  /\ fsm = "stopping" /\ pc = "test"
  /\ fsm' = "configured"
  /\ pc' = "off"
  /\ UNCHANGED <<m_hold, m_lb, m_hlt_counter, m_update, updater, commandVars,
                 sourceVars, m_l1id, m_modid, runs, event, window, after,
                 historyVars>>

-----------------------------------------------------------------------------
Command(c) == \/ hold(c) \/ ResumeTest(c) \/ ResumeDecrement(c)
              \/ setPrescales(c) \/ StorePrescale(c)

Next == \/ \E c \in Commanders : Command(c)
        \/ \E r \in 1..MaxRuns : UpdaterLoop(r) \/ UpdaterWakes(r)
        \/ ReadLumiBlock \/ InternalResult \/ PreloadedResult
        \/ ResetFirst \/ prepareForRun \/ stopDC \/ Join

Spec == Init /\ [][Next]_vars

(* The threads that count lumi blocks run; wait_for returns in the end.    *)
FairSpec == Spec /\ \A r \in 1..MaxRuns :
                      WF_vars(UpdaterLoop(r) \/ UpdaterWakes(r))

-----------------------------------------------------------------------------
(* Properties.                                                             *)

TypeOK ==
  /\ m_hold \in Word
  /\ m_lb \in 0..MaxLumi
  /\ m_hlt_counter \in 1..MaxLumi + 1
  /\ m_update \in BOOLEAN
  /\ m_update => fsm = "running"
  /\ updater \in [1..MaxRuns -> {"none", "check", "wait", "done"}]
  /\ cmd \in [Commanders -> {"none", "resume", "prescale"}]
  /\ seen_lb \in [Commanders -> 0..MaxLumi]
  /\ input \in Inputs
  /\ m_l1id \in Word
  /\ input.plugin # "internal" => m_l1id \in 0..Len(m_data)
  /\ m_max_l1id \in Word /\ m_modid \in BOOLEAN
  /\ fsm \in {"configured", "resetting", "running", "stopping", "dead"}
  /\ runs \in 0..MaxRuns
  /\ pc \in {"off", "test", "read"}
  /\ event \in [id : Word, lb : 0..MaxLumi, hlt : 0..MaxLumi + 1,
               then : 0..MaxLumi]
  /\ commands \in 0..MaxCommands
  /\ window \in Seq(Word)

(* The count of holds never wraps below zero, whatever holds, resumes and  *)
(* resets come, unless two resumes overlap, or one overlaps a reset: each  *)
(* tests m_hold before the other has decremented it.  A count that has     *)
(* wrapped holds the trigger for good.                                     *)
HoldNeverWraps == overlap \/ straddled \/ m_hold <= holds

(* Once the trigger is held, at most the event that was being made still   *)
(* comes.                                                                  *)
HoldStops == after <= 1

(* The counter of the HLT prescales is never ahead of the lumi block by    *)
(* more than one, although it is computed from an m_lb that may be old and *)
(* each run starts to count anew; unless a command was under way when the  *)
(* source was reset.  Nor is the counter that an event carries ahead of    *)
(* the event's own lumi block by more than one, unless the lumi block was  *)
(* counted up between the two reads: an event may say lumi block 1, when   *)
(* setPrescales in lumi block 2 has made the counter 3.                    *)
HltCounterValid ==
  fsm = "running" /\ input.plugin # "internal" /\ ~straddled =>
    /\ m_hlt_counter <= m_lb + 1
    /\ pc = "test" /\ event.hlt > event.lb + 1 => event.then > event.lb

(* A preloaded file is sent again and again with its L1 IDs shifted, where *)
(* that does not overflow.  No ID comes twice before every other event of  *)
(* the file has come: an ID repeats only after a whole period.  If no ID   *)
(* is there twice in the file, of course.                                  *)
DistinctIDs(data) ==
  \A m, n \in DOMAIN data :
    data[m] # <<>> /\ data[n] # <<>> /\ Head(data[m]) = Head(data[n]) => m = n

DistinctInWindow == DistinctIDs(m_data) => IsInjective(window)

(* When lumi blocks are no longer counted, every thread that counts them   *)
(* ends: a detached thread that uses the source, which unconfigure         *)
(* deletes.  A new run that starts in between keeps it alive.              *)
UpdaterEnds ==
  (fsm = "stopping")
    ~> (fsm = "running" \/ \A r \in 1..MaxRuns : updater[r] \in {"none", "done"})
=============================================================================
