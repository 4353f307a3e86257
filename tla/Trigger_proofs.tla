--------------------------- MODULE Trigger_proofs ---------------------------
(***************************************************************************)
(* Proofs about Trigger, for any number of commanders, commands, runs and  *)
(* lumi blocks, any width of the atomics and any configuration of the      *)
(* source: the types, a hold stops the events, the count of holds does not *)
(* wrap, the HLT counter is never ahead of the lumi block, and no L1 ID    *)
(* comes twice within a period of the source.                              *)
(***************************************************************************)
EXTENDS Trigger, Lists, FiniteSetTheorems, TLAPS

(* The width of the atomics. *)
LEMMA Width == MAXUINT \in Nat \ {0} /\ 0 \in Word /\ 1 \in Word /\ Word \subseteq Nat
BY TriggerAssumption DEF Word

CommandTypes ==
  /\ m_hold \in Word
  /\ holds \in Nat /\ after \in Nat
  /\ m_lb \in Nat /\ m_hlt_counter \in Nat
  /\ cmd \in [Commanders -> {"none", "resume", "prescale"}]
  /\ seen_lb \in [Commanders -> Nat]
  /\ overlap \in BOOLEAN /\ straddled \in BOOLEAN
  /\ DOMAIN event = {"id", "lb", "hlt", "then"}
  /\ {event.lb, event.hlt, event.then} \subseteq Nat

-----------------------------------------------------------------------------
(* What the two operations on m_hold do to a word. *)

(* ++ of an atomic word, which wraps only at its maximum.                  *)
LEMMA Increment ==
  ASSUME NEW h \in Word
  PROVE  /\ Wrap(h + 1) \in Word
         /\ h < MAXUINT => Wrap(h + 1) = h + 1
<1> DEFINE n == MAXUINT + 1
<1>1. n \in Nat \ {0} /\ Word = 0..(n - 1)
  BY TriggerAssumption DEF Word
<1>2. Wrap(h + 1) = (h + 1) % n
  BY DEF Wrap
<1>3. h < MAXUINT => h + 1 < n
  BY <1>1, TriggerAssumption
<1> HIDE DEF n
<1>4. (h + 1) % n \in 0..(n - 1)
  BY <1>1, SMTT(30)
<1>5. h + 1 < n => (h + 1) % n = h + 1
  BY <1>1, SMTT(30)
<1>6. QED
  BY <1>1, <1>2, <1>3, <1>4, <1>5

(* -- of an atomic word, which wraps only at 0.                            *)
LEMMA Decrement ==
  ASSUME NEW h \in Word
  PROVE  /\ Wrap(h + MAXUINT) \in Word
         /\ h > 0 => Wrap(h + MAXUINT) = h - 1
<1> DEFINE n == MAXUINT + 1
<1>1. n \in Nat \ {0} /\ Word = 0..(n - 1) /\ MAXUINT = n - 1
  BY TriggerAssumption DEF Word
<1>2. Wrap(h + MAXUINT) = (h + (n - 1)) % n
  BY TriggerAssumption DEF Wrap
<1> HIDE DEF n
<1>3. (h + (n - 1)) % n \in 0..(n - 1)
  BY <1>1, SMTT(30)
<1>4. ASSUME h > 0 PROVE (h + (n - 1)) % n = h - 1
  <2>1. h - 1 \in 0..(n - 1) /\ h + (n - 1) = n * 1 + (h - 1)
    BY <1>1, <1>4
  <2>2. (n * 1 + (h - 1)) % n = h - 1
    BY <1>1, <2>1, SMTT(30)
  <2>3. QED
    BY <2>1, <2>2
<1>5. QED
  BY <1>1, <1>2, <1>3, <1>4

-----------------------------------------------------------------------------
(* What the steps of run control that reset the source leave. *)
LEMMA ResetValues ==
  ASSUME ResetFirst \/ prepareForRun
  PROVE  /\ m_hold' = 1 /\ holds' = 1 /\ after' = 0 /\ m_lb' = 1
         /\ IF input.plugin = "internal" THEN m_hlt_counter' = m_hlt_counter
                                         ELSE m_hlt_counter' = 1
         /\ event' = NoEvent
         /\ overlap' = FALSE
         /\ straddled' \in BOOLEAN
         /\ ~straddled' => \A c \in Commanders : cmd[c] = "none"
         /\ UNCHANGED <<cmd, seen_lb, input>>
<1>1. HistoryReset /\ (IF input.plugin = "internal" THEN resetInternal
                                                   ELSE resetPreloaded)
  BY DEF ResetFirst, prepareForRun, reset
<1>2. UNCHANGED <<cmd, seen_lb, input>>
  BY DEF ResetFirst, prepareForRun, commandVars, sourceVars
<1>3. straddled' \in BOOLEAN /\ (~straddled' => \A c \in Commanders : cmd[c] = "none")
  BY <1>1, Zenon DEF HistoryReset
<1>4. QED
  BY <1>1, <1>2, <1>3 DEF HistoryReset, NoEvent, resetInternal, resetPreloaded

(* The types that the proofs need. *)

(* CommandTypes holds when the source has been configured. *)
LEMMA TypesInit == Init => CommandTypes
<1> SUFFICES ASSUME Init PROVE CommandTypes
  OBVIOUS
<1>1. DOMAIN event = {"id", "lb", "hlt", "then"}
      /\ event.lb = 0 /\ event.hlt = 0 /\ event.then = 0
  BY DEF Init, NoEvent
<1>2. QED
  BY <1>1, Width DEF Init, CommandTypes

(* Every step preserves CommandTypes. *)
LEMMA TypesStep ==
  ASSUME CommandTypes, [Next]_vars
  PROVE  CommandTypes'
<1> USE Width
    DEF CommandTypes, commandVars, historyVars, sourceVars
<1>1. ASSUME NEW c \in Commanders, hold(c) PROVE CommandTypes'
  BY <1>1, Increment DEF hold, Begin
<1>2. ASSUME NEW c \in Commanders, ResumeTest(c) PROVE CommandTypes'
  BY <1>2 DEF ResumeTest, Begin
<1>3. ASSUME NEW c \in Commanders, ResumeDecrement(c) PROVE CommandTypes'
  BY <1>3, Decrement DEF ResumeDecrement
<1>4. ASSUME NEW c \in Commanders, setPrescales(c) PROVE CommandTypes'
  BY <1>4 DEF setPrescales, Begin
<1>5. ASSUME NEW c \in Commanders, StorePrescale(c) PROVE CommandTypes'
  BY <1>5 DEF StorePrescale
<1>6. ASSUME NEW r \in 1..MaxRuns, UpdaterLoop(r) \/ UpdaterWakes(r)
      PROVE  CommandTypes'
  BY <1>6 DEF UpdaterLoop, UpdaterWakes
<1>7. CASE ReadLumiBlock
  BY <1>7 DEF ReadLumiBlock
<1>8. CASE InternalResult
  BY <1>8 DEF InternalResult, Return
<1>9. CASE PreloadedResult
  <2>1. /\ UNCHANGED <<m_hold, holds, m_lb, m_hlt_counter, cmd, seen_lb>>
        /\ UNCHANGED <<overlap, straddled>>
    BY <1>9 DEF PreloadedResult
  <2>2. \/ \E id : Return(id)
        \/ UNCHANGED <<after, event>>
    BY <1>9 DEF PreloadedResult
  <2>3. after' \in Nat
    <3>1. after' = after \/ after' = after + 1 \/ after' = 0
      BY <2>2 DEF Return
    <3>2. QED
      BY <3>1
  <2>4. DOMAIN event' = {"id", "lb", "hlt", "then"}
        /\ {event'.lb, event'.hlt, event'.then} \subseteq Nat
    <3>1. CASE UNCHANGED event
      BY <3>1
    <3>2. CASE \E id : Return(id)
      <4>1. PICK id : event' = [event EXCEPT !.id = id, !.hlt = m_hlt_counter,
                                             !.then = m_lb]
        BY <3>2 DEF Return
      <4>2. DOMAIN event' = DOMAIN event
        BY <4>1
      <4>3. event'.lb = event.lb /\ event'.hlt = m_hlt_counter /\ event'.then = m_lb
        BY <4>1
      <4>4. QED
        BY <4>2, <4>3
    <3>3. QED
      BY <2>2, <3>1, <3>2
  <2>5. QED
    BY <2>1, <2>3, <2>4
<1>10. CASE ResetFirst \/ prepareForRun
  <2>0. event' = NoEvent
    BY <1>10, ResetValues
  <2>1. /\ m_hold' = 1 /\ holds' = 1 /\ after' = 0 /\ m_lb' = 1
        /\ m_hlt_counter' = m_hlt_counter \/ m_hlt_counter' = 1
        /\ UNCHANGED <<cmd, seen_lb>>
    BY <1>10, ResetValues
  <2>3. /\ DOMAIN event' = {"id", "lb", "hlt", "then"}
        /\ event'.lb = 0 /\ event'.hlt = 0 /\ event'.then = 0
    BY <2>0 DEF NoEvent
  <2>2. overlap' \in BOOLEAN /\ straddled' \in BOOLEAN
    BY <1>10, ResetValues, Zenon
  <2>4. QED
    BY <2>1, <2>2, <2>3
<1>11. CASE stopDC \/ Join
  <2>1. CASE stopDC
    BY <2>1 DEF stopDC
  <2>2. CASE Join
    BY <2>2 DEF Join
  <2>3. QED
    BY <1>11, <2>1, <2>2
<1>12. CASE UNCHANGED vars
  BY <1>12 DEF vars
<1>13. QED
  BY <1>1, <1>2, <1>3, <1>4, <1>5, <1>6, <1>7, <1>8, <1>9, <1>10, <1>11,
     <1>12 DEF Next, Command

-----------------------------------------------------------------------------
(* A hold stops the events.  An event is only begun while the trigger is   *)
(* not held; if a hold comes before it is returned, none has been returned *)
(* since then.                                                             *)

StopInv == /\ after <= 1
           /\ pc = "read" /\ m_hold > 0 => after = 0

(* Every step preserves StopInv. *)
LEMMA StopStep ==
  ASSUME CommandTypes, StopInv, [Next]_vars
  PROVE  StopInv'
<1> USE Width
    DEF CommandTypes, StopInv, Word, commandVars, historyVars, sourceVars
<1>1. ASSUME NEW c \in Commanders, hold(c) PROVE StopInv'
  BY <1>1 DEF hold, Begin
<1>2. ASSUME NEW c \in Commanders, ResumeTest(c) PROVE StopInv'
  BY <1>2 DEF ResumeTest, Begin
<1>3. ASSUME NEW c \in Commanders, ResumeDecrement(c) PROVE StopInv'
  BY <1>3 DEF ResumeDecrement
<1>4. ASSUME NEW c \in Commanders, setPrescales(c) PROVE StopInv'
  BY <1>4 DEF setPrescales, Begin
<1>5. ASSUME NEW c \in Commanders, StorePrescale(c) PROVE StopInv'
  BY <1>5 DEF StorePrescale
<1>6. ASSUME NEW r \in 1..MaxRuns, UpdaterLoop(r) \/ UpdaterWakes(r)
      PROVE  StopInv'
  BY <1>6 DEF UpdaterLoop, UpdaterWakes
<1>7. CASE ReadLumiBlock
  BY <1>7 DEF ReadLumiBlock
<1>8. CASE InternalResult
  BY <1>8 DEF InternalResult, Return
<1>9. CASE PreloadedResult
  BY <1>9 DEF PreloadedResult, Return
<1>10. CASE ResetFirst \/ prepareForRun
  <2>1. after' = 0
    BY <1>10, ResetValues
  <2>2. QED
    BY <2>1 DEF StopInv
<1>11. CASE stopDC \/ Join
  BY <1>11 DEF stopDC, Join
<1>12. CASE UNCHANGED vars
  BY <1>12 DEF vars
<1>13. QED
  BY <1>1, <1>2, <1>3, <1>4, <1>5, <1>6, <1>7, <1>8, <1>9, <1>10, <1>11,
     <1>12 DEF Next, Command

(* After the count of holds has left zero, however the commands, the L1    *)
(* thread and run control interleave, at most the event that getResult was *)
(* making is still returned.                                               *)
THEOREM HoldStopsTrigger == Spec => []HoldStops
<1>1. Init => StopInv
  BY DEF Init, StopInv
<1>2. CommandTypes /\ StopInv => HoldStops
  BY DEF StopInv, HoldStops
<1>3. Spec => [](CommandTypes /\ StopInv)
  BY <1>1, TypesInit, TypesStep, StopStep, PTL DEF Spec
<1>4. QED
  BY <1>2, <1>3, PTL

-----------------------------------------------------------------------------
(* The count of holds.  While no two resumes have overlapped and none was  *)
(* half done at the reset, at most one commander is inside resume, and     *)
(* there is a hold for it to take back; unless so many holds have come     *)
(* that any word is smaller.                                               *)

HoldInv ==
  ~overlap /\ ~straddled =>
    /\ m_hold <= holds
    /\ \A c, d \in Commanders :
         cmd[c] = "resume" /\ cmd[d] = "resume" => c = d
    /\ \A c \in Commanders :
         cmd[c] = "resume" => m_hold > 0 \/ holds > MAXUINT

(* Every step preserves HoldInv. *)
LEMMA HoldStep ==
  ASSUME CommandTypes, HoldInv, [Next]_vars
  PROVE  HoldInv'
<1> USE Width
    DEF CommandTypes, HoldInv, Word, commandVars, historyVars, sourceVars
<1>1. ASSUME NEW c \in Commanders, hold(c) PROVE HoldInv'
  BY <1>1, Increment DEF hold, Begin
<1>2. ASSUME NEW c \in Commanders, ResumeTest(c) PROVE HoldInv'
  BY <1>2 DEF ResumeTest, Begin
<1>3. ASSUME NEW c \in Commanders, ResumeDecrement(c) PROVE HoldInv'
  BY <1>3, Decrement DEF ResumeDecrement
<1>4. ASSUME NEW c \in Commanders, setPrescales(c) PROVE HoldInv'
  BY <1>4 DEF setPrescales, Begin
<1>5. ASSUME NEW c \in Commanders, StorePrescale(c) PROVE HoldInv'
  BY <1>5 DEF StorePrescale
<1>6. ASSUME NEW r \in 1..MaxRuns, UpdaterLoop(r) \/ UpdaterWakes(r)
      PROVE  HoldInv'
  BY <1>6 DEF UpdaterLoop, UpdaterWakes
<1>7. CASE ReadLumiBlock
  BY <1>7 DEF ReadLumiBlock
<1>8. CASE InternalResult
  BY <1>8 DEF InternalResult, Return
<1>9. CASE PreloadedResult
  BY <1>9 DEF PreloadedResult, Return
<1>10. CASE ResetFirst \/ prepareForRun
  <2>1. m_hold' = 1 /\ holds' = 1 /\ cmd' = cmd
    BY <1>10, ResetValues
  <2>2. ~straddled' => \A c \in Commanders : cmd[c] = "none"
    BY <1>10, ResetValues
  <2>3. QED
    BY <2>1, <2>2
<1>11. CASE stopDC \/ Join
  BY <1>11 DEF stopDC, Join
<1>12. CASE UNCHANGED vars
  BY <1>12 DEF vars
<1>13. QED
  BY <1>1, <1>2, <1>3, <1>4, <1>5, <1>6, <1>7, <1>8, <1>9, <1>10, <1>11,
     <1>12 DEF Next, Command

(* m_hold never wraps below zero, with any commands on any threads and     *)
(* over any number of runs, as long as no two resumes overlap and none     *)
(* overlaps the reset of the source.                                       *)
THEOREM HoldsCounted == Spec => []HoldNeverWraps
<1>1. Init => HoldInv
  BY DEF Init, HoldInv
<1>2. HoldInv => HoldNeverWraps
  BY DEF HoldInv, HoldNeverWraps
<1>3. Spec => [](CommandTypes /\ HoldInv)
  BY <1>1, TypesInit, TypesStep, HoldStep, PTL DEF Spec
<1>4. QED
  BY <1>2, <1>3, PTL

-----------------------------------------------------------------------------
(* The HLT counter.  A lumi block that setPrescales has read is not later  *)
(* than the current one, as long as the command does not outlive the run.  *)
(* An event is given the counter when the lumi block is event.then.        *)

HltInv ==
  fsm = "running" /\ input.plugin # "internal" /\ ~straddled =>
    /\ m_hlt_counter <= m_lb + 1
    /\ event.hlt <= event.then + 1
    /\ \A c \in Commanders : cmd[c] = "prescale" => seen_lb[c] <= m_lb

(* Every step preserves HltInv. *)
LEMMA HltStep ==
  ASSUME CommandTypes, HltInv, [Next]_vars
  PROVE  HltInv'
<1> USE Width
    DEF CommandTypes, HltInv, commandVars, historyVars, sourceVars
<1>1. ASSUME NEW c \in Commanders, hold(c) PROVE HltInv'
  BY <1>1 DEF hold, Begin
<1>2. ASSUME NEW c \in Commanders, ResumeTest(c) PROVE HltInv'
  BY <1>2 DEF ResumeTest, Begin
<1>3. ASSUME NEW c \in Commanders, ResumeDecrement(c) PROVE HltInv'
  BY <1>3 DEF ResumeDecrement
<1>4. ASSUME NEW c \in Commanders, setPrescales(c) PROVE HltInv'
  BY <1>4 DEF setPrescales, Begin
<1>5. ASSUME NEW c \in Commanders, StorePrescale(c) PROVE HltInv'
  BY <1>5 DEF StorePrescale
<1>6. ASSUME NEW r \in 1..MaxRuns, UpdaterLoop(r) \/ UpdaterWakes(r)
      PROVE  HltInv'
  BY <1>6 DEF UpdaterLoop, UpdaterWakes
<1>7. CASE ReadLumiBlock
  BY <1>7 DEF ReadLumiBlock
<1>8. CASE InternalResult
  BY <1>8 DEF InternalResult, Return
<1>9. CASE PreloadedResult
  BY <1>9 DEF PreloadedResult, Return
<1>10. CASE ResetFirst \/ prepareForRun
  <2>0. event' = NoEvent
    BY <1>10, ResetValues
  <2>1. m_lb' = 1 /\ cmd' = cmd /\ event'.hlt = 0 /\ event'.then = 0
    BY <1>10, <2>0, ResetValues DEF NoEvent
  <2>2. ~straddled' => \A c \in Commanders : cmd[c] = "none"
    BY <1>10, ResetValues
  <2>3. input' = input /\ (input.plugin # "internal" => m_hlt_counter' = 1)
    BY <1>10, ResetValues
  <2>4. QED
    BY <2>1, <2>2, <2>3
<1>11. CASE stopDC \/ Join
  BY <1>11 DEF stopDC, Join
<1>12. CASE UNCHANGED vars
  BY <1>12 DEF vars
<1>13. QED
  BY <1>1, <1>2, <1>3, <1>4, <1>5, <1>6, <1>7, <1>8, <1>9, <1>10, <1>11,
     <1>12 DEF Next, Command

(* For any number of commanders: in a run before which no command was half *)
(* done at the reset, the counter of the HLT prescales is not ahead of the *)
(* lumi block by more than one, although it is computed from a lumi block  *)
(* that may be old; and the counter an event carries is ahead of the lumi  *)
(* block it carries by more than one only if the lumi block was counted up *)
(* between the two reads.                                                  *)
THEOREM HltCounterFits == Spec => []HltCounterValid
<1>1. Init => HltInv
  BY DEF Init, HltInv
<1>2. CommandTypes /\ HltInv => HltCounterValid
  BY DEF CommandTypes, HltInv, HltCounterValid
<1>3. Spec => [](CommandTypes /\ HltInv)
  BY <1>1, TypesInit, TypesStep, HltStep, PTL DEF Spec
<1>4. QED
  BY <1>2, <1>3, PTL

-----------------------------------------------------------------------------
(* What preset loads.                                                      *)

(* The fragments of the n-th event, from one file for each link.           *)
LEMMA EventOfLinks ==
  ASSUME NEW links \in Seq(Seq(Word)), NEW n \in Nat
  PROVE  FoldLeft(LAMBDA rods, link :
                    IF n \in DOMAIN link THEN Append(rods, link[n]) ELSE rods,
                  <<>>, links) \in Seq(Word)
<1> DEFINE W == Seq(Word)
           D == DOMAIN links
           Op(rods, link) == IF n \in DOMAIN link THEN Append(rods, link[n]) ELSE rods
           pick == [s \in SUBSET D |-> Max(s)]
           Step(s, v) == IF s = {} THEN <<>> ELSE Op(v, links[Max(s)])
           step == [s \in SUBSET D |-> [v \in W |-> Step(s, v)]]
           c == CHOOSE iter : iter = [s \in SUBSET D |->
                  IF s = {} THEN <<>> ELSE Op(iter[s \ {Max(s)}], links[Max(s)])]
<1>1. <<>> \in W
  OBVIOUS
<1>2. IsFiniteSet(D) /\ D \subseteq Int
  <2>1. D = 1..Len(links) /\ Len(links) \in Nat
    OBVIOUS
  <2>2. IsFiniteSet(1..Len(links))
    BY <2>1, FS_Interval
  <2>3. D \subseteq Int
    BY <2>1
  <2>4. QED
    BY <2>1, <2>2, <2>3
<1>3. ASSUME NEW s \in SUBSET D, s # {} PROVE Max(s) \in s
  <2>1. IsFiniteSet(s)
    BY <1>2, FS_Subset
  <2>2. s \subseteq Int
    BY <1>2
  <2> HIDE DEF D
  <2>3. QED
    BY <1>3, <2>1, <2>2, LargestElement
<1>4. ASSUME NEW s \in SUBSET D, NEW v \in W, s # {} PROVE Op(v, links[Max(s)]) \in W
  <2>1. links[Max(s)] \in Seq(Word)
    <3>1. Max(s) \in D
      BY <1>3, <1>4
    <3>2. \A d \in D : links[d] \in Seq(Word)
      OBVIOUS
    <3>3. QED
      BY <3>1, <3>2, Zenon
  <2>2. ASSUME NEW link \in Seq(Word) PROVE Op(v, link) \in W
    OBVIOUS
  <2> HIDE DEF Op
  <2>3. QED
    BY <2>1, <2>2
<1> HIDE DEF W
<1>5. \A s \in SUBSET D, v \in W : step[s][v] = Step(s, v)
  <2> HIDE DEF Step
  <2>1. QED
    OBVIOUS
<1> HIDE DEF step, Op
<1>6. PICK f \in [SUBSET D -> W] : FoldsBy(f, D, <<>>, pick, step)
  <2>1. \A s \in SUBSET D : s # {} => pick[s] \in s
    BY <1>3
  <2>2. \A s \in SUBSET D, v \in W : step[s][v] \in W
    BY <1>1, <1>4, <1>5
  <2> HIDE DEF pick, D
  <2>3. QED
    BY <1>1, <1>2, <2>1, <2>2, FoldExists
<1>7. f = [s \in SUBSET D |->
             IF s = {} THEN <<>> ELSE Op(f[s \ {Max(s)}], links[Max(s)])]
  <2> DEFINE Value(s) == IF s = {} THEN <<>> ELSE Op(f[s \ {Max(s)}], links[Max(s)])
             Folded(s) == IF s = {} THEN <<>> ELSE step[s][f[s \ {pick[s]}]]
  <2> HIDE DEF D
  <2>1. ASSUME NEW s \in SUBSET D PROVE Folded(s) = Value(s)
    <3>1. CASE s = {}
      BY <3>1
    <3>2. CASE s # {}
      <4>1. s \ {pick[s]} \in SUBSET D /\ pick[s] = Max(s)
        OBVIOUS
      <4>2. f[s \ {Max(s)}] \in W
        BY <4>1
      <4>3. step[s][f[s \ {Max(s)}]] = Op(f[s \ {Max(s)}], links[Max(s)])
        BY <1>5, <3>2, <4>2
      <4>4. QED
        BY <3>2, <4>1, <4>3
    <3>3. QED
      BY <3>1, <3>2
  <2>2. f = [s \in SUBSET D |-> Folded(s)]
    BY <1>6, Zenon DEF FoldsBy
  <2> HIDE DEF Folded, Value
  <2>3. f = [s \in SUBSET D |-> Value(s)]
    BY <2>1, <2>2
  <2>4. QED
    BY <2>3, Zenon DEF Value
<1>8. c = [s \in SUBSET D |->
             IF s = {} THEN <<>> ELSE Op(c[s \ {Max(s)}], links[Max(s)])]
  BY <1>7, Zenon
<1>9. FoldLeft(LAMBDA rods, link :
                 IF n \in DOMAIN link THEN Append(rods, link[n]) ELSE rods,
               <<>>, links) = c[D]
  BY Zenon DEF FoldLeft, MapThenFoldSet, Op
<1> HIDE DEF c
<1>10. c[D] \in W
  <2> HIDE DEF D
  <2>1. c[{}] \in W
    BY <1>1, <1>8
  <2>2. ASSUME NEW s \in SUBSET D, s # {}
        PROVE  \E x \in s : c[s \ {x}] \in W => c[s] \in W
    <3>1. Max(s) \in s
      BY <1>3, <2>2
    <3>2. c[s] = Op(c[s \ {Max(s)}], links[Max(s)])
      BY <1>8, <2>2
    <3>3. c[s \ {Max(s)}] \in W => c[s] \in W
      BY <1>4, <2>2, <3>2
    <3>4. QED
      BY <3>1, <3>3
  <2>3. \A s \in SUBSET D : s # {} => \E x \in s : c[s \ {x}] \in W => c[s] \in W
    BY <2>2
  <2>4. QED
    BY <1>2, <2>1, <2>3, FoldRange
<1>11. QED
  BY <1>9, <1>10 DEF W

(* The files that preset reads make a list of events.                      *)
LEMMA LoadedTypes ==
  ASSUME NEW in \in Inputs, in.plugin # "internal", ~NullEvent(in),
         NEW data, data = IF in.plugin = "links" THEN LoadedLinks(in.files)
                                                 ELSE LoadedEvents(in.files)
  PROVE  data \in Seq(Seq(Word)) /\ Len(data) \in 1..MAXUINT
<1>1. Configured(in) /\ MAXUINT \in Nat
  BY TriggerAssumption
<1>2. CASE in.plugin = "links"
  <2> DEFINE links == in.files
             N == Len(links[1])
             Event(n) == FoldLeft(LAMBDA rods, link :
                           IF n \in DOMAIN link THEN Append(rods, link[n]) ELSE rods,
                         <<>>, links)
  <2>1. /\ links \in Seq(Seq(Word)) /\ links # <<>> /\ N <= MAXUINT
        /\ \E k \in DOMAIN links : links[k] # <<>>
    BY <1>1, <1>2 DEF Configured
  <2>2. links[1] \in Seq(Word)
    BY <2>1
  <2>3. N \in Nat /\ DOMAIN links[1] = 1..N
    BY <2>2
  <2>4. \A k \in DOMAIN links : links[k] \in Seq(Word) /\ Len(links[k]) <= N
    <3>1. \A k \in DOMAIN links : ~(Len(links[k]) > N)
      BY <1>2 DEF NullEvent
    <3>2. \A k \in DOMAIN links : links[k] \in Seq(Word) /\ Len(links[k]) \in Nat
      BY <2>1
    <3>3. QED
      BY <2>3, <3>1, <3>2
  <2>5. N # 0
    <3>1. PICK k \in DOMAIN links : links[k] # <<>>
      BY <2>1
    <3>2. links[k] \in Seq(Word) /\ Len(links[k]) # 0
      BY <2>4, <3>1
    <3>3. QED
      BY <2>4, <3>2
  <2>6. data = [n \in 1..N |-> Event(n)]
    BY <1>2, <2>3 DEF LoadedLinks
  <2>7. \A n \in 1..N : Event(n) \in Seq(Word)
    <3>1. ASSUME NEW n \in 1..N PROVE Event(n) \in Seq(Word)
      <4>1. n \in Nat
        BY <2>3
      <4> HIDE DEF links, N
      <4>2. QED
        BY <2>1, <4>1, EventOfLinks
    <3>2. QED
      BY <3>1
  <2> HIDE DEF Event, N
  <2>8. data \in [1..N -> Seq(Word)]
    BY <2>6, <2>7
  <2>9. data \in Seq(Seq(Word)) /\ Len(data) = N
    BY <2>3, <2>8
  <2>10. QED
    BY <1>1, <2>1, <2>3, <2>5, <2>9
<1>3. CASE in.plugin # "links"
  <2>1. in.files \in Seq(Seq(Seq(Word))) /\ Len(FlattenSeq(in.files)) \in 1..MAXUINT
    BY <1>1, <1>3 DEF Configured
  <2>2. data = FlattenSeq(in.files)
    BY <1>3 DEF LoadedEvents
  <2> DEFINE V == Seq(Word)
  <2> HIDE DEF V
  <2>3. FlattenSeq(in.files) \in Seq(V)
    BY <2>1, FlattenType DEF V
  <2>4. QED
    BY <2>1, <2>2, <2>3 DEF V
<1>4. QED
  BY <1>2, <1>3

(* No ID of the file is larger than m_max_l1id, and none is equal, unless  *)
(* it has wrapped.                                                         *)
LEMMA MaxIDBounds ==
  ASSUME NEW data \in Seq(Seq(Word))
  PROVE  /\ MaxID(data) \in Word
         /\ \A n \in DOMAIN data : \A i \in DOMAIN data[n] :
              MaxID(data) = 0 \/ data[n][i] < MaxID(data)
<1> DEFINE S == {0} \cup UNION {ToSet(data[n]) : n \in DOMAIN data}
           M == Max(S)
<1>1. S \subseteq Word
  <2>1. \A n \in DOMAIN data : data[n] \in Seq(Word)
    OBVIOUS
  <2>2. \A n \in DOMAIN data : ToSet(data[n]) \subseteq Word
    BY <2>1 DEF ToSet
  <2>3. 0 \in Word
    BY Width
  <2>4. QED
    BY <2>2, <2>3
<1>2. \A n \in DOMAIN data : \A i \in DOMAIN data[n] : data[n][i] \in S
  BY DEF ToSet
<1>3. IsFiniteSet(S) /\ S \subseteq Int /\ S # {}
  <2> HIDE DEF S
  <2>1. IsFiniteSet(Word) /\ Word \subseteq Int
    BY Width, FS_Interval DEF Word
  <2>2. IsFiniteSet(S)
    BY <1>1, <2>1, FS_Subset
  <2>3. 0 \in S
    BY DEF S
  <2>4. QED
    BY <1>1, <2>1, <2>2, <2>3
<1>4. M \in S /\ \A m \in S : m <= M
  <2> HIDE DEF S
  <2>1. QED
    BY <1>3, LargestElement
<1>5. MaxID(data) = Wrap(M + 1)
  <2>1. 1 + M = M + 1
    <3>1. M \in Int
      BY <1>3, <1>4
    <3> HIDE DEF M
    <3>2. QED
      BY <3>1
  <2>2. MaxID(data) = Wrap(1 + M)
    BY DEF MaxID
  <2>3. QED
    BY <2>1, <2>2, Zenon
<1> HIDE DEF S, M
<1>6. M \in Word
  BY <1>1, <1>4
<1>7. Wrap(M + 1) \in Word /\ (M < MAXUINT => Wrap(M + 1) = M + 1)
  BY <1>6, Increment
<1>8. M = MAXUINT => Wrap(M + 1) = 0
  <2>1. ASSUME NEW n \in Nat \ {0} PROVE n % n = 0
    BY SMTT(30)
  <2>2. MAXUINT + 1 \in Nat \ {0}
    BY TriggerAssumption
  <2>3. (MAXUINT + 1) % (MAXUINT + 1) = 0
    BY <2>1, <2>2
  <2>4. QED
    BY <2>3 DEF Wrap
<1>9. M < MAXUINT \/ M = MAXUINT
  BY <1>6, Width DEF Word
<1>10. ASSUME NEW n \in DOMAIN data, NEW i \in DOMAIN data[n]
       PROVE  MaxID(data) = 0 \/ data[n][i] < MaxID(data)
  <2>1. data[n][i] <= M /\ data[n][i] \in Word
    BY <1>1, <1>2, <1>4
  <2>2. CASE M < MAXUINT
    <3>1. MaxID(data) = M + 1
      BY <1>5, <1>7, <2>2
    <3>2. M \in Nat /\ data[n][i] \in Nat
      BY <1>6, <2>1, Width
    <3>3. QED
      BY <2>1, <3>1, <3>2
  <2>3. QED
    BY <1>5, <1>8, <1>9, <2>2
<1>11. QED
  BY <1>5, <1>7, <1>10

(* The source.  It has an event to give, except one that the null pointer  *)
(* of preset has killed; no L1 thread runs then.                           *)
SourceInv ==
  /\ input \in Inputs
  /\ m_data \in Seq(Seq(Word))
  /\ Len(m_data) <= MAXUINT
  /\ m_max_l1id \in Word
  /\ \A n \in DOMAIN m_data : \A i \in DOMAIN m_data[n] :
       m_max_l1id = 0 \/ m_data[n][i] < m_max_l1id
  /\ fsm = "dead" => pc = "off" /\ m_l1id = 0
  /\ m_l1id \in Word
  /\ input.plugin # "internal" /\ fsm # "dead" => m_l1id < Len(m_data)

(* SourceInv holds in the beginning.                                       *)
LEMMA SourceInit == Init => SourceInv
<1> SUFFICES ASSUME Init PROVE SourceInv
  OBVIOUS
<1>1. /\ input \in Inputs /\ m_l1id = 0 /\ pc = "off"
      /\ m_max_l1id = IF m_data = <<>> THEN 0 ELSE MaxID(m_data)
      /\ fsm = IF NullEvent(input) THEN "dead" ELSE "configured"
  BY DEF Init
<1>2. /\ m_data \in Seq(Seq(Word)) /\ Len(m_data) <= MAXUINT
      /\ input.plugin # "internal" /\ fsm # "dead" => 0 < Len(m_data)
  <2>1. CASE input.plugin = "internal" \/ NullEvent(input)
    <3>1. m_data = <<>>
      BY <2>1 DEF Init
    <3>2. <<>> \in Seq(Seq(Word)) /\ Len(<<>>) = 0
      OBVIOUS
    <3>3. 0 <= MAXUINT
      BY Width
    <3>4. ~(input.plugin # "internal" /\ fsm # "dead")
      BY <1>1, <2>1, Zenon
    <3>5. QED
      BY <3>1, <3>2, <3>3, <3>4
  <2>2. CASE input.plugin # "internal" /\ ~NullEvent(input)
    <3>1. m_data = IF input.plugin = "links" THEN LoadedLinks(input.files)
                                             ELSE LoadedEvents(input.files)
      BY <2>2 DEF Init
    <3>2. m_data \in Seq(Seq(Word)) /\ Len(m_data) \in 1..MAXUINT
      BY <1>1, <2>2, <3>1, LoadedTypes
    <3>3. QED
      BY <3>2, Width
  <2>3. QED
    BY <2>1, <2>2
<1>3. m_max_l1id \in Word /\ \A n \in DOMAIN m_data : \A i \in DOMAIN m_data[n] :
                               m_max_l1id = 0 \/ m_data[n][i] < m_max_l1id
  <2>1. CASE m_data = <<>>
    BY <1>1, <2>1, Width
  <2>2. CASE m_data # <<>>
    <3>1. m_max_l1id = MaxID(m_data)
      BY <1>1, <2>2, Zenon
    <3>2. QED
      BY <1>2, <3>1, MaxIDBounds
  <2>3. QED
    BY <2>1, <2>2
<1>4. QED
  BY <1>1, <1>2, <1>3, Width DEF SourceInv

(* Every step preserves SourceInv.                                         *)
LEMMA SourceStep ==
  ASSUME SourceInv, [Next]_vars
  PROVE  SourceInv'
<1>1. CASE /\ UNCHANGED <<sourceVars, m_l1id>>
           /\ \/ UNCHANGED <<fsm, pc>>
              \/ fsm # "dead" /\ fsm' # "dead"
  BY <1>1 DEF sourceVars, SourceInv
<1>2. ASSUME NEW c \in Commanders, Command(c) PROVE SourceInv'
  <2>1. UNCHANGED <<sourceVars, m_l1id, fsm, pc>>
    BY <1>2 DEF Command, hold, ResumeTest, ResumeDecrement, setPrescales,
                StorePrescale
  <2>2. QED
    BY <1>1, <2>1
<1>3. ASSUME NEW r \in 1..MaxRuns, UpdaterLoop(r) \/ UpdaterWakes(r)
      PROVE  SourceInv'
  <2>1. UNCHANGED <<sourceVars, m_l1id, fsm, pc>>
    BY <1>3 DEF UpdaterLoop, UpdaterWakes
  <2>2. QED
    BY <1>1, <2>1
<1>4. CASE ReadLumiBlock
  <2>1. UNCHANGED <<sourceVars, m_l1id, fsm>> /\ pc = "test"
    BY <1>4 DEF ReadLumiBlock
  <2>2. fsm # "dead"
    BY <2>1 DEF SourceInv
  <2>3. QED
    BY <1>1, <2>1, <2>2
<1>5. CASE InternalResult
  <2>1. /\ UNCHANGED <<sourceVars, fsm>> /\ pc = "read" /\ input.plugin = "internal"
        /\ m_l1id' = Wrap(m_l1id + 1)
    BY <1>5 DEF InternalResult
  <2>2. fsm # "dead" /\ m_l1id' \in Word
    BY <2>1, Increment DEF SourceInv
  <2>3. QED
    BY <2>1, <2>2 DEF SourceInv, sourceVars
<1>6. CASE PreloadedResult
  <2>1. /\ UNCHANGED <<sourceVars, fsm>> /\ pc = "read" /\ input.plugin # "internal"
        /\ IF m_l1id + 1 >= Len(m_data) THEN m_l1id' = 0 ELSE m_l1id' = m_l1id + 1
    BY <1>6 DEF PreloadedResult
  <2>2. fsm # "dead" /\ m_l1id \in Nat /\ m_l1id < Len(m_data)
        /\ Len(m_data) \in Nat /\ Len(m_data) <= MAXUINT
    BY <2>1, Width DEF SourceInv
  <2>3. m_l1id' \in Word /\ m_l1id' < Len(m_data)
    BY <2>1, <2>2, Width DEF Word
  <2>4. QED
    BY <2>1, <2>2, <2>3 DEF SourceInv, sourceVars
<1>7. CASE ResetFirst \/ prepareForRun
  <2>1. UNCHANGED sourceVars /\ m_l1id' = 0 /\ fsm # "dead" /\ fsm' # "dead"
    BY <1>7 DEF ResetFirst, prepareForRun, reset, resetInternal, resetPreloaded
  <2>2. input.plugin # "internal" => 0 < Len(m_data)
    BY <2>1, Width DEF SourceInv
  <2>3. QED
    BY <2>1, <2>2, Width DEF SourceInv, sourceVars
<1>8. CASE stopDC \/ Join
  <2>1. UNCHANGED <<sourceVars, m_l1id>> /\ fsm # "dead" /\ fsm' # "dead"
    BY <1>8 DEF stopDC, Join
  <2>2. QED
    BY <1>1, <2>1
<1>9. CASE UNCHANGED vars
  BY <1>1, <1>9 DEF vars
<1>10. QED
  BY <1>2, <1>3, <1>4, <1>5, <1>6, <1>7, <1>8, <1>9 DEF Next

(* The ID that an event is sent with.                                      *)
LEMMA SentID ==
  ASSUME SourceInv, NEW rods \in Seq(Word) \ {<<>>}
  PROVE  PreloadedID(rods) \in Word
<1>1. Head(rods) \in Word /\ m_max_l1id \in Word
  BY DEF SourceInv
<1> DEFINE x == Head(rods)
           m == m_max_l1id
<1>2. x \in 0..MAXUINT /\ m \in 0..MAXUINT /\ MAXUINT \in Nat
  BY <1>1, Width DEF Word
<1>3. m > 0 /\ MAXUINT - x > m => x + m \in 0..MAXUINT
  <2> HIDE DEF x, m
  <2>1. QED
    BY <1>2
<1>4. m > 0 => x % m \in 0..MAXUINT
  <2> HIDE DEF x, m
  <2>1. m > 0 => x % m \in 0..(m - 1)
    BY <1>2, SMTT(30)
  <2> DEFINE r == x % m
  <2>2. m > 0 => r \in 0..(m - 1)
    BY <2>1
  <2> HIDE DEF r
  <2>3. m > 0 => r \in 0..MAXUINT
    BY <1>2, <2>2
  <2>4. QED
    BY <2>3 DEF r
<1>5. m > 0 => Shift(x) \in Word
  BY <1>3, <1>4 DEF Shift, Word
<1>6. QED
  BY <1>1, <1>5 DEF PreloadedID

-----------------------------------------------------------------------------
(* The type invariant.                                                     *)

(* There is a run to come while the source is reset for it.                *)
RunLeft == fsm = "resetting" => runs < MaxRuns

(* The index of the next event is one of the source.                       *)
LEMMA IndexType ==
  ASSUME SourceInv
  PROVE  /\ m_l1id \in Word /\ m_max_l1id \in Word /\ input \in Inputs
         /\ input.plugin # "internal" => m_l1id \in 0..Len(m_data)
<1>1. m_l1id \in Nat /\ Len(m_data) \in Nat
  BY Width DEF SourceInv
<1>2. QED
  BY <1>1 DEF SourceInv

(* TypeOK holds when the source has been configured.                       *)
LEMMA TypeOKInit == Init => TypeOK /\ RunLeft
<1> SUFFICES ASSUME Init PROVE TypeOK /\ RunLeft
  OBVIOUS
<1>1. SourceInv /\ {MaxCommands, MaxRuns, MaxLumi} \subseteq Nat /\ MaxLumi >= 1
  BY SourceInit, TriggerAssumption
<1>2. event \in [id : Word, lb : 0..MaxLumi, hlt : 0..(MaxLumi + 1), then : 0..MaxLumi]
  BY <1>1, Width DEF Init, NoEvent
<1>3. m_modid \in BOOLEAN /\ m_update \in BOOLEAN /\ (m_update => fsm = "running")
  BY DEF Init
<1>4. fsm \in {"configured", "dead"}
  BY Zenon DEF Init
<1>5. /\ updater \in [1..MaxRuns -> {"none", "check", "wait", "done"}]
      /\ cmd \in [Commanders -> {"none", "resume", "prescale"}]
      /\ seen_lb \in [Commanders -> 0..MaxLumi]
      /\ window \in Seq(Word)
  BY <1>1 DEF Init
<1>6. /\ m_hold \in Word /\ m_lb \in 0..MaxLumi /\ m_hlt_counter \in 1..(MaxLumi + 1)
      /\ runs \in 0..MaxRuns /\ commands \in 0..MaxCommands
      /\ pc \in {"off", "test", "read"}
  BY <1>1, Width DEF Init
<1>7. QED
  BY <1>1, <1>2, <1>3, <1>4, <1>5, <1>6, IndexType DEF TypeOK, RunLeft

(* The parts of TypeOK that are not about the source.                      *)
EventType == event \in [id : Word, lb : 0..MaxLumi, hlt : 0..(MaxLumi + 1), then : 0..MaxLumi]

AtomicTypes ==
  /\ m_hold \in Word /\ m_lb \in 0..MaxLumi /\ m_hlt_counter \in 1..(MaxLumi + 1)
  /\ m_update \in BOOLEAN /\ m_modid \in BOOLEAN
  /\ seen_lb \in [Commanders -> 0..MaxLumi]

ControlTypes ==
  /\ m_update => fsm = "running"
  /\ updater \in [1..MaxRuns -> {"none", "check", "wait", "done"}]
  /\ cmd \in [Commanders -> {"none", "resume", "prescale"}]
  /\ fsm \in {"configured", "resetting", "running", "stopping", "dead"}
  /\ runs \in 0..MaxRuns /\ pc \in {"off", "test", "read"}
  /\ commands \in 0..MaxCommands
  /\ RunLeft

Parts == EventType /\ AtomicTypes /\ ControlTypes /\ window \in Seq(Word)

(* The parts are the type invariant.                                       *)
LEMMA PartsAreTypeOK ==
  /\ TypeOK /\ RunLeft => Parts
  /\ SourceInv /\ Parts => TypeOK /\ RunLeft
BY IndexType DEF TypeOK, Parts, EventType, AtomicTypes, ControlTypes

(* The window stays a list of words.                                       *)
LEMMA WindowType ==
  ASSUME window \in Seq(Word), NEW id \in Word, Return(id)
  PROVE  window' \in Seq(Word)
<1> DEFINE w == IF Len(window) < Period THEN window ELSE Tail(window)
<1>1. window' = Append(w, id)
  BY DEF Return
<1>2. CASE window # <<>>
  <2>1. w \in Seq(Word)
    BY <1>2
  <2> HIDE DEF w
  <2>2. QED
    BY <1>1, <2>1
<1>3. CASE window = <<>>
  <2>1. Tail(<<>>) = <<>>
    OBVIOUS
  <2>2. w = <<>>
    BY <1>3, <2>1
  <2> HIDE DEF w
  <2>3. QED
    BY <1>1, <2>2
<1>4. QED
  BY <1>2, <1>3

(* The event that a source returns has the types of one.                   *)
LEMMA ReturnTypes ==
  ASSUME Parts, NEW id \in Word, Return(id)
  PROVE  EventType' /\ window' \in Seq(Word)
<1>1. window' \in Seq(Word)
  BY WindowType DEF Parts
<1>2. event' = [event EXCEPT !.id = id, !.hlt = m_hlt_counter, !.then = m_lb]
  BY DEF Return
<1>3. m_hlt_counter \in 0..(MaxLumi + 1) /\ m_lb \in 0..MaxLumi
  BY TriggerAssumption DEF Parts, AtomicTypes
<1>4. event \in [id : Word, lb : 0..MaxLumi, hlt : 0..(MaxLumi + 1), then : 0..MaxLumi]
  BY DEF Parts, EventType
<1>5. event' \in [id : Word, lb : 0..MaxLumi, hlt : 0..(MaxLumi + 1), then : 0..MaxLumi]
  BY <1>2, <1>3, <1>4
<1>6. QED
  BY <1>1, <1>5 DEF EventType

(* Every step preserves TypeOK.                                            *)
LEMMA TypeOKStep ==
  ASSUME TypeOK, RunLeft, SourceInv, SourceInv', [Next]_vars
  PROVE  (TypeOK /\ RunLeft)'
<1>1. Parts /\ {MaxCommands, MaxRuns, MaxLumi} \subseteq Nat /\ MaxLumi >= 1
  BY PartsAreTypeOK, TriggerAssumption
<1> SUFFICES Parts'
  BY PartsAreTypeOK, PTL
<1> USE DEF Parts, EventType, AtomicTypes, ControlTypes, RunLeft, commandVars,
            historyVars, sourceVars
<1>2. ASSUME NEW c \in Commanders, Begin(c, "none") \/ Begin(c, "resume")
                                    \/ Begin(c, "prescale")
      PROVE  /\ commands' \in 0..MaxCommands
             /\ cmd' \in [Commanders -> {"none", "resume", "prescale"}]
  <2>1. /\ commands < MaxCommands /\ commands' = commands + 1
        /\ commands \in 0..MaxCommands
    BY <1>1, <1>2 DEF Begin
  <2>2. commands' \in 0..MaxCommands
    BY <1>1, <2>1
  <2>3. PICK what \in {"none", "resume", "prescale"} : cmd' = [cmd EXCEPT ![c] = what]
    BY <1>2 DEF Begin
  <2>4. cmd' \in [Commanders -> {"none", "resume", "prescale"}]
    BY <1>1, <2>3
  <2>5. QED
    BY <2>2, <2>4
<1>3. ASSUME NEW c \in Commanders, hold(c) PROVE Parts'
  <2>1. Begin(c, "none") /\ m_hold' = Wrap(m_hold + 1)
    BY <1>3 DEF hold
  <2>2. m_hold' \in Word
    BY <1>1, <2>1, Increment
  <2>3. UNCHANGED <<m_lb, m_hlt_counter, m_update, updater, seen_lb, m_modid, fsm,
                    runs, pc, event, window>>
    BY <1>3 DEF hold
  <2>4. QED
    BY <1>1, <1>2, <2>1, <2>2, <2>3
<1>4. ASSUME NEW c \in Commanders, ResumeTest(c) PROVE Parts'
  <2>1. /\ Begin(c, "resume")
        /\ UNCHANGED <<m_hold, m_lb, m_hlt_counter, m_update, updater, seen_lb,
                       m_modid, fsm, runs, pc, event, window>>
    BY <1>4 DEF ResumeTest
  <2>2. QED
    BY <1>1, <1>2, <2>1
<1>5. ASSUME NEW c \in Commanders, ResumeDecrement(c) PROVE Parts'
  <2>1. /\ cmd' = [cmd EXCEPT ![c] = "none"] /\ m_hold' = Wrap(m_hold + MAXUINT)
        /\ UNCHANGED <<m_lb, m_hlt_counter, m_update, updater, seen_lb, commands,
                       m_modid, fsm, runs, pc, event, window>>
    BY <1>5 DEF ResumeDecrement
  <2>2. m_hold' \in Word
    BY <1>1, <2>1, Decrement
  <2>3. QED
    BY <1>1, <2>1, <2>2
<1>6. ASSUME NEW c \in Commanders, setPrescales(c) PROVE Parts'
  <2>1. /\ Begin(c, "prescale") /\ seen_lb' = [seen_lb EXCEPT ![c] = m_lb]
        /\ UNCHANGED <<m_hold, m_lb, m_hlt_counter, m_update, updater,
                       m_modid, fsm, runs, pc, event, window>>
    BY <1>6 DEF setPrescales
  <2>2. QED
    BY <1>1, <1>2, <2>1
<1>7. ASSUME NEW c \in Commanders, StorePrescale(c) PROVE Parts'
  <2>1. /\ cmd' = [cmd EXCEPT ![c] = "none"] /\ m_hlt_counter' = seen_lb[c] + 1
        /\ seen_lb' = [seen_lb EXCEPT ![c] = 0]
        /\ UNCHANGED <<m_hold, m_lb, m_update, updater, commands,
                       m_modid, fsm, runs, pc, event, window>>
    BY <1>7 DEF StorePrescale
  <2>2. m_hlt_counter' \in 1..(MaxLumi + 1) /\ 0 \in 0..MaxLumi
    BY <1>1, <2>1
  <2>3. QED
    BY <1>1, <2>1, <2>2
<1>8. ASSUME NEW r \in 1..MaxRuns, UpdaterLoop(r) \/ UpdaterWakes(r)
      PROVE  Parts'
  <2>1. /\ updater' \in [1..MaxRuns -> {"none", "check", "wait", "done"}]
        /\ UNCHANGED <<m_hold, m_hlt_counter, m_update, cmd, seen_lb, commands,
                       m_modid, fsm, runs, pc, event, window>>
    BY <1>1, <1>8 DEF UpdaterLoop, UpdaterWakes
  <2>2. m_lb' \in 0..MaxLumi
    BY <1>1, <1>8 DEF UpdaterLoop, UpdaterWakes
  <2>3. QED
    BY <1>1, <2>1, <2>2
<1>9. CASE ReadLumiBlock
  <2>1. /\ event' = [event EXCEPT !.lb = m_lb] /\ pc' = "read"
        /\ UNCHANGED <<m_hold, m_lb, m_hlt_counter, m_update, updater, cmd,
                       seen_lb, commands, m_modid, fsm, runs, window>>
    BY <1>9 DEF ReadLumiBlock
  <2>2. EventType'
    BY <1>1, <2>1
  <2>3. QED
    BY <1>1, <2>1, <2>2
<1>10. CASE InternalResult
  <2>1. /\ Return(m_l1id) /\ pc' = "test" /\ m_l1id \in Word
        /\ UNCHANGED <<m_hold, m_lb, m_hlt_counter, m_update, updater, cmd,
                       seen_lb, commands, m_modid, fsm, runs>>
    BY <1>10 DEF InternalResult, SourceInv
  <2>2. EventType' /\ window' \in Seq(Word)
    BY <1>1, <2>1, ReturnTypes
  <2>3. QED
    BY <1>1, <2>1, <2>2
<1>11. CASE PreloadedResult
  <2> DEFINE rods == m_data[m_l1id + 1]
  <2>1. /\ pc = "read" /\ pc' = "test" /\ input.plugin # "internal"
        /\ UNCHANGED <<m_hold, m_lb, m_hlt_counter, m_update, updater, cmd,
                       seen_lb, commands, fsm, runs>>
        /\ m_modid' \in {TRUE, m_modid}
    BY <1>11 DEF PreloadedResult
  <2>2. \/ rods # <<>> /\ Return(PreloadedID(rods))
        \/ UNCHANGED <<window, event>>
    BY <1>11 DEF PreloadedResult
  <2>3. rods \in Seq(Word)
    <3>1. m_l1id \in Nat /\ m_l1id < Len(m_data) /\ m_data \in Seq(Seq(Word))
      BY <2>1, Width DEF SourceInv
    <3>2. m_l1id + 1 \in DOMAIN m_data
      BY <3>1
    <3>3. QED
      BY <3>1, <3>2
  <2> HIDE DEF rods
  <2>4. EventType' /\ window' \in Seq(Word)
    <3>1. CASE rods # <<>> /\ Return(PreloadedID(rods))
      <4>1. PreloadedID(rods) \in Word
        BY <2>3, <3>1, SentID
      <4>2. QED
        BY <1>1, <3>1, <4>1, ReturnTypes
    <3>2. CASE UNCHANGED <<window, event>>
      BY <1>1, <3>2
    <3>3. QED
      BY <2>2, <3>1, <3>2
  <2>5. m_modid' \in BOOLEAN
    BY <1>1, <2>1, Zenon
  <2>6. QED
    BY <1>1, <2>1, <2>4, <2>5
<1>12. CASE ResetFirst \/ prepareForRun
  <2>1. /\ m_hold' = 1 /\ m_lb' = 1 /\ m_hlt_counter' \in {m_hlt_counter, 1}
        /\ UNCHANGED <<cmd, seen_lb>>
    BY <1>12, ResetValues
  <2>2. window' = <<>> /\ event' = NoEvent /\ UNCHANGED <<commands, m_modid>>
    BY <1>12 DEF ResetFirst, prepareForRun, HistoryReset
  <2>3. AtomicTypes'
    <3>1. m_update' \in BOOLEAN
      BY <1>1, <1>12, Zenon DEF ResetFirst, prepareForRun, startLumiBlockUpdate
    <3>2. m_modid' \in BOOLEAN
      BY <1>1, <2>2, Zenon
    <3>3. QED
      BY <1>1, <2>1, <3>1, <3>2, Width
  <2>4. EventType' /\ window' \in Seq(Word)
    BY <1>1, <2>2, Width DEF NoEvent
  <2>5. CASE ResetFirst
    BY <1>1, <2>1, <2>2, <2>3, <2>4, <2>5 DEF ResetFirst
  <2>6. CASE prepareForRun
    <3>1. /\ fsm = "resetting" /\ fsm' = "running" /\ runs' = runs + 1
          /\ updater' = [updater EXCEPT ![runs + 1] = "check"] /\ pc' = "test"
      BY <2>6 DEF prepareForRun, startLumiBlockUpdate
    <3>2. runs' \in 0..MaxRuns
      BY <1>1, <3>1
    <3>3. QED
      BY <1>1, <2>1, <2>2, <2>3, <2>4, <3>1, <3>2
  <2>7. QED
    BY <1>12, <2>5, <2>6
<1>13. CASE stopDC \/ Join
  <2>1. UNCHANGED <<m_hold, m_lb, m_hlt_counter, updater, cmd, seen_lb, commands,
                    m_modid, runs, event, window>>
    BY <1>13 DEF stopDC, Join
  <2>2. /\ fsm' \in {"stopping", "configured"} /\ fsm \in {"running", "stopping"}
        /\ pc' \in {pc, "off"}
    BY <1>13 DEF stopDC, Join
  <2>3. m_update' = FALSE
    <3>1. CASE stopDC
      BY <3>1, Zenon DEF stopDC, stopLumiBlockUpdate
    <3>2. CASE Join
      <4>1. fsm = "stopping" /\ m_update' = m_update
        BY <3>2, Zenon DEF Join
      <4>2. fsm # "running"
        BY <4>1
      <4>3. m_update \in BOOLEAN /\ (m_update => fsm = "running")
        BY <1>1, Zenon
      <4>4. QED
        BY <4>1, <4>2, <4>3, Zenon
    <3>3. QED
      BY <1>13, <3>1, <3>2
  <2>4. m_modid' \in BOOLEAN
    BY <1>1, <2>1, Zenon
  <2>5. AtomicTypes'
    BY <1>1, <2>1, <2>3, <2>4
  <2>6. ControlTypes'
    BY <1>1, <2>1, <2>2, <2>3
  <2>7. QED
    BY <1>1, <2>1, <2>5, <2>6
<1>14. CASE UNCHANGED vars
  BY <1>1, <1>14 DEF vars
<1>15. QED
  BY <1>3, <1>4, <1>5, <1>6, <1>7, <1>8, <1>9, <1>10, <1>11, <1>12, <1>13,
     <1>14 DEF Next, Command

(* The atomics are words, lumi blocks and counters within their bounds,    *)
(* the index of a preloaded source stays in its list of events, and lumi   *)
(* blocks are only counted in a run: in any order of commands, threads and *)
(* run control.                                                            *)
THEOREM TypeCorrect == Spec => []TypeOK
<1>1. Init => TypeOK /\ RunLeft /\ SourceInv
  BY TypeOKInit, SourceInit
<1>2. SourceInv /\ [Next]_vars => SourceInv'
  BY SourceStep
<1>3. TypeOK /\ RunLeft /\ SourceInv /\ SourceInv' /\ [Next]_vars => (TypeOK /\ RunLeft)'
  BY TypeOKStep
<1>4. QED
  BY <1>1, <1>2, <1>3, PTL DEF Spec


-----------------------------------------------------------------------------
(* The window of L1 IDs.                                                   *)
(*                                                                         *)
(* The events of the source are slots on a ring of N places, those with a  *)
(* fragment of the trigger.  The window is a list of slots, in the order   *)
(* in which the ring was gone through, that ends where the source is now,  *)
(* after place k: the places behind k belong to the turn before.  It holds *)
(* every slot of this turn, and reaches into the turn before only when no  *)
(* slot is missing.                                                        *)

Rank(p, k, N) == IF p <= k THEN p ELSE p - N

Ring(pos, k, N, S) ==
  /\ pos \in Seq(S)
  /\ \A i, j \in 1..Len(pos) : i < j => Rank(pos[i], k, N) < Rank(pos[j], k, N)
  /\ \A n \in S : n <= k => \E i \in 1..Len(pos) : pos[i] = n
  /\ \/ \A n \in S : \E i \in 1..Len(pos) : pos[i] = n
     \/ \A i \in 1..Len(pos) : pos[i] <= k

(* No slot is in the list twice, so it has a place for each slot at most;  *)
(* when there is one for each, no slot is missing.                         *)
LEMMA RingInjective ==
  ASSUME NEW N \in Nat, NEW S \in SUBSET (1..N), NEW k \in 0..N, NEW pos,
         Ring(pos, k, N, S)
  PROVE  /\ \A i, j \in 1..Len(pos) : pos[i] = pos[j] => i = j
         /\ Len(pos) <= Cardinality(S) /\ Cardinality(S) \in Nat
         /\ Len(pos) = Cardinality(S)
              <=> \A n \in S : \E i \in 1..Len(pos) : pos[i] = n
<1>1. pos \in [1..Len(pos) -> S] /\ Len(pos) \in Nat
  BY DEF Ring
<1>2. \A i, j \in 1..Len(pos) : pos[i] = pos[j] => i = j
  <2> SUFFICES ASSUME NEW i \in 1..Len(pos), NEW j \in 1..Len(pos), pos[i] = pos[j],
                      i # j
               PROVE  FALSE
    OBVIOUS
  <2>1. Rank(pos[i], k, N) \in Int /\ Rank(pos[j], k, N) \in Int
    <3>1. pos[i] \in 1..N /\ pos[j] \in 1..N
      BY <1>1
    <3>2. \A p \in 1..N : Rank(p, k, N) \in Int
      BY DEF Rank
    <3>3. QED
      BY <3>1, <3>2
  <2>2. i < j => Rank(pos[i], k, N) < Rank(pos[j], k, N)
    BY DEF Ring
  <2>3. j < i => Rank(pos[j], k, N) < Rank(pos[i], k, N)
    BY DEF Ring
  <2>4. i < j \/ j < i
    BY <1>1
  <2>5. Rank(pos[i], k, N) = Rank(pos[j], k, N)
    OBVIOUS
  <2>6. QED
    BY <2>1, <2>2, <2>3, <2>4, <2>5
<1>3. IsFiniteSet(S) /\ IsFiniteSet(1..Len(pos)) /\ Cardinality(1..Len(pos)) = Len(pos)
  <2>1. \A n \in Nat : IsFiniteSet(1..n) /\ Cardinality(1..n) = n
    BY FS_Interval
  <2>2. IsFiniteSet(S)
    BY <2>1, FS_Subset
  <2>3. QED
    BY <1>1, <2>1, <2>2
<1>4. pos \in Injection(1..Len(pos), S)
  BY <1>1, <1>2 DEF Injection, IsInjective
<1>5. /\ Cardinality(1..Len(pos)) <= Cardinality(S)
      /\ Cardinality(1..Len(pos)) = Cardinality(S) <=> pos \in Surjection(1..Len(pos), S)
  BY <1>3, <1>4, FS_Injection
<1>6. Cardinality(S) \in Nat
  BY <1>3, FS_CardinalityType
<1>7. pos \in Surjection(1..Len(pos), S)
        <=> \A n \in S : \E i \in 1..Len(pos) : pos[i] = n
  BY <1>1 DEF Surjection
<1>8. QED
  BY <1>2, <1>3, <1>5, <1>6, <1>7

(* The source passes over a place without a slot.                          *)
LEMMA RingSkip ==
  ASSUME NEW N \in Nat, NEW S \in SUBSET (1..N), NEW k \in 0..(N - 1), NEW pos,
         Ring(pos, k, N, S), k + 1 \notin S
  PROVE  Ring(pos, k + 1, N, S)
<1>1. pos \in Seq(S) /\ k \in Int /\ \A i \in 1..Len(pos) : pos[i] \in S
  BY DEF Ring
<1>2. \A p \in S : p \in Int /\ (p <= k <=> p <= k + 1)
  <2> TAKE p \in S
  <2>1. p \in Int /\ p # k + 1
    OBVIOUS
  <2>2. QED
    BY <1>1, <2>1
<1>3. \A p \in S : Rank(p, k + 1, N) = Rank(p, k, N)
  BY <1>2 DEF Rank
<1>4. \A i, j \in 1..Len(pos) :
        i < j => Rank(pos[i], k + 1, N) < Rank(pos[j], k + 1, N)
  <2> TAKE i, j \in 1..Len(pos)
  <2>1. i < j => Rank(pos[i], k, N) < Rank(pos[j], k, N)
    BY DEF Ring
  <2>2. QED
    BY <1>1, <1>3, <2>1
<1>5. \A n \in S : n <= k + 1 => \E i \in 1..Len(pos) : pos[i] = n
  BY <1>2 DEF Ring
<1>6. \/ \A n \in S : \E i \in 1..Len(pos) : pos[i] = n
      \/ \A i \in 1..Len(pos) : pos[i] <= k + 1
  BY <1>1, <1>2 DEF Ring
<1>7. QED
  BY <1>1, <1>4, <1>5, <1>6 DEF Ring

(* After a turn the source begins the next one.                            *)
LEMMA RingTurn ==
  ASSUME NEW N \in Nat, NEW S \in SUBSET (1..N), NEW pos, Ring(pos, N, N, S)
  PROVE  Ring(pos, 0, N, S)
<1>1. pos \in Seq(S) /\ \A i \in 1..Len(pos) : pos[i] \in S
  BY DEF Ring
<1>2. \A p \in S : p \in Int /\ p <= N /\ ~(p <= 0)
  OBVIOUS
<1>3. \A p \in S : Rank(p, N, N) = p /\ Rank(p, 0, N) = p - N
  BY <1>2 DEF Rank
<1>4. \A i, j \in 1..Len(pos) : i < j => Rank(pos[i], 0, N) < Rank(pos[j], 0, N)
  <2> TAKE i, j \in 1..Len(pos)
  <2>1. i < j => Rank(pos[i], N, N) < Rank(pos[j], N, N)
    BY DEF Ring
  <2>2. i < j => pos[i] < pos[j]
    BY <1>1, <1>3, <2>1
  <2>3. i < j => pos[i] - N < pos[j] - N
    <3>1. \A a, b \in Int : a < b => a - N < b - N
      OBVIOUS
    <3>2. pos[i] \in Int /\ pos[j] \in Int
      BY <1>1, <1>2
    <3>3. QED
      BY <2>2, <3>1, <3>2
  <2>4. QED
    BY <1>1, <1>3, <2>3
<1>5. \A n \in S : \E i \in 1..Len(pos) : pos[i] = n
  BY <1>2 DEF Ring
<1>6. QED
  BY <1>1, <1>2, <1>4, <1>5 DEF Ring

(* The source gives the event of the next slot; the window forgets its     *)
(* first event when it holds one of each.                                  *)
LEMMA RingAdd ==
  ASSUME NEW N \in Nat, NEW S \in SUBSET (1..N), NEW k \in 0..(N - 1), NEW pos,
         Ring(pos, k, N, S), k + 1 \in S
  PROVE  Ring(Append(IF Len(pos) < Cardinality(S) THEN pos ELSE Tail(pos), k + 1),
              k + 1, N, S)
<1> DEFINE q == k + 1
<1>1. /\ pos \in Seq(S) /\ Len(pos) \in Nat /\ k \in Nat /\ q \in 1..N /\ q \in S
      /\ \A i \in 1..Len(pos) : pos[i] \in S
      /\ k < q /\ \A p \in S : p \in Int /\ 1 <= p /\ p <= N /\ (p <= q <=> p <= k \/ p = q)
                               /\ (p <= k \/ p > k)
  BY DEF Ring
<1>2. /\ \A i, j \in 1..Len(pos) : pos[i] = pos[j] => i = j
      /\ Len(pos) <= Cardinality(S) /\ Cardinality(S) \in Nat
      /\ Len(pos) = Cardinality(S) <=> \A n \in S : \E i \in 1..Len(pos) : pos[i] = n
  BY RingInjective
<1>3. /\ \A i, j \in 1..Len(pos) : i < j => Rank(pos[i], k, N) < Rank(pos[j], k, N)
      /\ \A n \in S : n <= k => \E i \in 1..Len(pos) : pos[i] = n
      /\ \/ \A n \in S : \E i \in 1..Len(pos) : pos[i] = n
         \/ \A i \in 1..Len(pos) : pos[i] <= k
  BY DEF Ring
<1>4. \A p \in S : /\ Rank(p, k, N) \in Int /\ Rank(q, q, N) = q
                   /\ p # q => Rank(p, q, N) = Rank(p, k, N) /\ Rank(p, q, N) < q
                   /\ p # q => Rank(q, k, N) < Rank(p, k, N)
  <2> TAKE p \in S
  <2>1. Rank(q, q, N) = q /\ Rank(q, k, N) = q - N
    BY <1>1 DEF Rank
  <2>2. CASE p <= k
    <3>1. Rank(p, k, N) = p /\ Rank(p, q, N) = p /\ p < q
      BY <1>1, <2>2 DEF Rank
    <3>2. q - N < p
      BY <1>1
    <3>3. QED
      BY <1>1, <2>1, <3>1, <3>2
  <2>3. CASE p > k
    <3>1. Rank(p, k, N) = p - N
      BY <1>1, <2>3 DEF Rank
    <3>2. p # q => Rank(p, q, N) = p - N /\ p - N < q /\ q - N < p - N
      BY <1>1, <2>3 DEF Rank
    <3> HIDE DEF q
    <3>3. QED
      BY <1>1, <2>1, <3>1, <3>2
  <2>4. QED
    BY <1>1, <2>2, <2>3
<1> HIDE DEF q
<1>5. CASE Len(pos) < Cardinality(S)
  <2> DEFINE new == Append(pos, q)
  <2>1. \A i \in 1..Len(pos) : pos[i] <= k /\ pos[i] # q
    BY <1>1, <1>2, <1>3, <1>5
  <2>2. /\ new \in Seq(S) /\ Len(new) = Len(pos) + 1
        /\ \A i \in 1..Len(pos) : new[i] = pos[i]
        /\ new[Len(pos) + 1] = q
    BY <1>1
  <2> HIDE DEF new
  <2>3. \A i, j \in 1..Len(new) : i < j => Rank(new[i], q, N) < Rank(new[j], q, N)
    <3> SUFFICES ASSUME NEW i \in 1..Len(new), NEW j \in 1..Len(new), i < j
                 PROVE  Rank(new[i], q, N) < Rank(new[j], q, N)
      OBVIOUS
    <3>1. i \in 1..Len(pos) /\ new[i] = pos[i]
      BY <1>1, <2>2
    <3>2. CASE j \in 1..Len(pos)
      <4>1. Rank(pos[i], k, N) < Rank(pos[j], k, N) /\ new[j] = pos[j]
        BY <1>3, <2>2, <3>1, <3>2
      <4>2. Rank(pos[i], q, N) = Rank(pos[i], k, N) /\ Rank(pos[j], q, N) = Rank(pos[j], k, N)
        BY <1>1, <1>4, <2>1, <3>1, <3>2
      <4>3. QED
        BY <3>1, <4>1, <4>2
    <3>3. CASE j = Len(pos) + 1
      BY <1>1, <1>4, <2>1, <2>2, <3>1, <3>3
    <3>4. QED
      BY <1>1, <2>2, <3>2, <3>3
  <2>4. \A n \in S : n <= q => \E i \in 1..Len(new) : new[i] = n
    <3> SUFFICES ASSUME NEW n \in S, n <= q PROVE \E i \in 1..Len(new) : new[i] = n
      OBVIOUS
    <3>1. CASE n = q
      BY <1>1, <2>2, <3>1
    <3>2. CASE n <= k
      <4>1. PICK i \in 1..Len(pos) : pos[i] = n
        BY <1>3, <3>2
      <4>2. i \in 1..Len(new) /\ new[i] = n
        BY <1>1, <2>2, <4>1
      <4>3. QED
        BY <4>2
    <3>3. QED
      BY <1>1, <3>1, <3>2
  <2>5. \A i \in 1..Len(new) : new[i] <= q
    <3> TAKE i \in 1..Len(new)
    <3>1. CASE i \in 1..Len(pos)
      <4>1. new[i] = pos[i] /\ pos[i] <= k /\ pos[i] \in S
        BY <1>1, <2>1, <2>2, <3>1
      <4>2. QED
        BY <1>1, <4>1
    <3>2. CASE i = Len(pos) + 1
      BY <1>1, <2>2, <3>2
    <3>3. QED
      BY <1>1, <2>2, <3>1, <3>2
  <2>6. Ring(new, q, N, S)
    BY <2>2, <2>3, <2>4, <2>5 DEF Ring
  <2>7. QED
    BY <1>5, <2>6 DEF new, q
<1>6. CASE Len(pos) = Cardinality(S)
  <2> DEFINE new == Append(Tail(pos), q)
  <2>1. PICK i0 \in 1..Len(pos) : pos[i0] = q
    BY <1>1, <1>2, <1>6
  <2>2. 1 \in 1..Len(pos) /\ pos[1] = q
    <3>1. 1 \in 1..Len(pos) /\ (i0 = 1 \/ 1 < i0)
      BY <1>1, <2>1
    <3>2. ASSUME 1 < i0 PROVE FALSE
      <4>1. Rank(pos[1], k, N) < Rank(q, k, N) /\ pos[1] \in S
        BY <1>1, <1>3, <2>1, <3>1, <3>2
      <4>2. pos[1] # q
        BY <1>2, <2>1, <3>1, <3>2
      <4>3. Rank(q, k, N) < Rank(pos[1], k, N) /\ Rank(pos[1], k, N) \in Int
            /\ Rank(q, k, N) \in Int
        BY <1>1, <1>4, <4>1, <4>2
      <4>4. QED
        BY <4>1, <4>3
    <3>3. QED
      BY <2>1, <3>1, <3>2
  <2>3. /\ new \in Seq(S) /\ Len(new) = Len(pos) /\ Len(pos) >= 1
        /\ \A i \in 1..(Len(pos) - 1) : new[i] = pos[i + 1]
        /\ new[Len(pos)] = q
    <3>1. pos # <<>> /\ Len(pos) >= 1
      BY <1>1, <2>2
    <3>2. /\ Tail(pos) \in Seq(S) /\ Len(Tail(pos)) = Len(pos) - 1
          /\ \A i \in 1..(Len(pos) - 1) : Tail(pos)[i] = pos[i + 1]
      BY <1>1, <3>1
    <3> DEFINE t == Tail(pos)
    <3>3. /\ t \in Seq(S) /\ Len(t) = Len(pos) - 1
          /\ \A i \in 1..(Len(pos) - 1) : t[i] = pos[i + 1]
      BY <3>2
    <3> HIDE DEF t
    <3>4. /\ Append(t, q) \in Seq(S) /\ Len(Append(t, q)) = Len(t) + 1
          /\ \A i \in 1..Len(t) : Append(t, q)[i] = t[i]
          /\ Append(t, q)[Len(t) + 1] = q
      BY <1>1, <3>3
    <3>5. new = Append(t, q)
      BY DEF t
    <3> HIDE DEF new
    <3>6. Len(t) + 1 = Len(pos) /\ Len(new) = Len(pos)
      BY <1>1, <3>1, <3>3, <3>4, <3>5
    <3>7. \A i \in 1..(Len(pos) - 1) : new[i] = pos[i + 1]
      BY <3>3, <3>4, <3>5
    <3>8. QED
      BY <3>1, <3>4, <3>5, <3>6, <3>7
  <2> HIDE DEF new
  <2>4. \A i \in 1..(Len(pos) - 1) :
          i + 1 \in 1..Len(pos) /\ new[i] = pos[i + 1] /\ new[i] # q /\ new[i] \in S
    BY <1>1, <1>2, <2>2, <2>3
  <2>5. \A i, j \in 1..Len(new) : i < j => Rank(new[i], q, N) < Rank(new[j], q, N)
    <3> SUFFICES ASSUME NEW i \in 1..Len(new), NEW j \in 1..Len(new), i < j
                 PROVE  Rank(new[i], q, N) < Rank(new[j], q, N)
      OBVIOUS
    <3>1. i \in 1..(Len(pos) - 1)
      BY <1>1, <2>3
    <3>2. CASE j \in 1..(Len(pos) - 1)
      <4>1. i + 1 < j + 1
        BY <1>1
      <4>2. Rank(pos[i + 1], k, N) < Rank(pos[j + 1], k, N)
        BY <1>3, <2>4, <3>1, <3>2, <4>1
      <4>3. Rank(new[i], q, N) = Rank(new[i], k, N) /\ Rank(new[j], q, N) = Rank(new[j], k, N)
        BY <1>4, <2>4, <3>1, <3>2
      <4>4. QED
        BY <2>4, <3>1, <3>2, <4>2, <4>3
    <3>3. CASE j = Len(pos)
      BY <1>1, <1>4, <2>3, <2>4, <3>1, <3>3
    <3>4. QED
      BY <1>1, <2>3, <3>2, <3>3
  <2>6. \A n \in S : \E i \in 1..Len(new) : new[i] = n
    <3> SUFFICES ASSUME NEW n \in S PROVE \E i \in 1..Len(new) : new[i] = n
      OBVIOUS
    <3>1. CASE n = q
      BY <1>1, <2>3, <3>1
    <3>2. CASE n # q
      <4>1. PICK i \in 1..Len(pos) : pos[i] = n
        BY <1>2, <1>6
      <4>2. i # 1
        BY <2>2, <3>2, <4>1
      <4>3. i - 1 \in 1..(Len(pos) - 1) /\ (i - 1) + 1 = i
        BY <1>1, <4>2
      <4>4. new[i - 1] = n /\ i - 1 \in 1..Len(new)
        BY <1>1, <2>3, <4>1, <4>3
      <4>5. QED
        BY <4>4
    <3>3. QED
      BY <3>1, <3>2
  <2>7. Ring(new, q, N, S)
    BY <2>3, <2>5, <2>6 DEF Ring
  <2>8. QED
    BY <1>6, <2>7 DEF new, q
<1>7. QED
  BY <1>1, <1>2, <1>5, <1>6

(* The slots of the source, and the IDs it sends the event of a slot with. *)
Internal == input.plugin = "internal"

Size == IF Internal THEN MAXUINT + 1 ELSE Len(m_data)

Slots == IF Internal THEN 1..(MAXUINT + 1)
         ELSE {n \in DOMAIN m_data : m_data[n] # <<>>}

SlotIDs(n) ==
  IF Internal THEN {n - 1}
  ELSE {Head(m_data[n])}
         \cup (IF m_max_l1id > 0 THEN {Shift(Head(m_data[n]))} ELSE {})

WindowIsRing(pos) ==
  /\ Ring(pos, m_l1id, Size, Slots)
  /\ Len(pos) = Len(window)
  /\ \A i \in 1..Len(pos) : window[i] \in SlotIDs(pos[i])

WindowInv == /\ window \in Seq(Word)
             /\ \E pos \in Seq(Slots) : WindowIsRing(pos)

(* Slots, the ring they are on and the place of the source on it.          *)
LEMMA SlotTypes ==
  ASSUME SourceInv
  PROVE  /\ Size \in Nat /\ Slots \in SUBSET (1..Size)
         /\ Period = Cardinality(Slots)
         /\ m_l1id \in Nat
         /\ fsm # "dead" => m_l1id \in 0..(Size - 1)
         /\ m_l1id \in 0..Size
<1>1. MAXUINT \in Nat /\ m_l1id \in 0..MAXUINT /\ m_data \in Seq(Seq(Word))
      /\ Len(m_data) \in Nat /\ DOMAIN m_data = 1..Len(m_data)
  BY Width DEF SourceInv, Word
<1>2. CASE Internal
  <2>1. Cardinality(1..(MAXUINT + 1)) = MAXUINT + 1
    <3>1. \A n \in Nat : Cardinality(1..n) = n
      BY FS_Interval
    <3>2. QED
      BY <1>1, <3>1
  <2>2. Size = MAXUINT + 1 /\ Slots = 1..(MAXUINT + 1) /\ Period = MAXUINT + 1
    BY <1>2 DEF Size, Slots, Period, Internal
  <2>3. QED
    BY <1>1, <2>1, <2>2
<1>3. CASE ~Internal
  <2>1. /\ Size = Len(m_data) /\ Slots = {n \in DOMAIN m_data : m_data[n] # <<>>}
        /\ Period = Cardinality({n \in DOMAIN m_data : m_data[n] # <<>>})
    BY <1>3 DEF Size, Slots, Period, Internal
  <2>2. fsm # "dead" => m_l1id < Len(m_data)
    BY <1>3 DEF SourceInv, Internal
  <2>3. fsm = "dead" => m_l1id = 0
    BY DEF SourceInv
  <2>4. QED
    BY <1>1, <2>1, <2>2, <2>3
<1>4. QED
  BY <1>2, <1>3

(* What Shift does to an ID of the source: it adds m_max_l1id, the IDs are *)
(* all smaller, or leaves it as it is.                                     *)
LEMMA ShiftOfSmaller ==
  ASSUME NEW x \in Word, m_max_l1id \in Word, x < m_max_l1id
  PROVE  Shift(x) \in {x, x + m_max_l1id}
<1> DEFINE m == m_max_l1id
<1>1. x \in Nat /\ m \in Nat /\ x < m
  BY Width
<1>2. x % m = x
  <2> HIDE DEF m
  <2>1. QED
    BY <1>1, SMTT(30)
<1>3. QED
  BY <1>2 DEF Shift

(* Two slots have no ID in common when no two events of the source have.   *)
LEMMA SlotIDsDiffer ==
  ASSUME SourceInv, DistinctIDs(m_data),
         NEW m \in Slots, NEW n \in Slots, NEW id \in SlotIDs(m), id \in SlotIDs(n)
  PROVE  m = n
<1>1. CASE Internal
  <2>1. id = m - 1 /\ id = n - 1 /\ m \in 1..(MAXUINT + 1) /\ n \in 1..(MAXUINT + 1)
    BY <1>1 DEF SlotIDs, Slots
  <2>2. m \in Int /\ n \in Int
    BY <2>1, Width
  <2>3. QED
    BY <2>1, <2>2
<1>2. CASE ~Internal
  <2> DEFINE x == Head(m_data[m])
             y == Head(m_data[n])
             s == m_max_l1id
  <2>1. /\ m \in DOMAIN m_data /\ n \in DOMAIN m_data
        /\ m_data[m] # <<>> /\ m_data[n] # <<>>
    BY <1>2 DEF Slots
  <2>2. x = y => m = n
    BY <2>1 DEF DistinctIDs
  <2>3. /\ x \in Word /\ y \in Word /\ s \in Word
        /\ s = 0 \/ x < s
        /\ s = 0 \/ y < s
    <3>1. \A k \in DOMAIN m_data : m_data[k] # <<>> =>
            /\ Head(m_data[k]) = m_data[k][1] /\ 1 \in DOMAIN m_data[k]
            /\ Head(m_data[k]) \in Word
      <4> TAKE k \in DOMAIN m_data
      <4>1. m_data[k] \in Seq(Word)
        BY DEF SourceInv
      <4>2. QED
        BY <4>1
    <3>2. /\ x = m_data[m][1] /\ 1 \in DOMAIN m_data[m] /\ x \in Word
          /\ y = m_data[n][1] /\ 1 \in DOMAIN m_data[n] /\ y \in Word
      BY <2>1, <3>1
    <3>3. (s = 0 \/ m_data[m][1] < s) /\ (s = 0 \/ m_data[n][1] < s) /\ s \in Word
      BY <2>1, <3>2 DEF SourceInv
    <3>4. QED
      BY <3>2, <3>3
  <2>4. /\ id = x \/ (s > 0 /\ id = Shift(x))
        /\ id = y \/ (s > 0 /\ id = Shift(y))
    <3>1. \A k : id \in SlotIDs(k) =>
            \/ id = Head(m_data[k])
            \/ s > 0 /\ id = Shift(Head(m_data[k]))
      <4> HIDE DEF x, y
      <4>1. CASE s > 0
        BY <1>2, <4>1 DEF SlotIDs
      <4>2. CASE ~(s > 0)
        BY <1>2, <4>2 DEF SlotIDs
      <4>3. QED
        BY <4>1, <4>2
    <3>2. QED
      BY <3>1
  <2>5. /\ s > 0 => Shift(x) \in {x, x + s}
        /\ s > 0 => Shift(y) \in {y, y + s}
    <3>1. \A z \in Word : z < s => Shift(z) \in {z, z + s}
      BY <2>3, ShiftOfSmaller
    <3>2. s > 0 => x < s /\ y < s
      BY <2>3, Width
    <3>3. QED
      BY <2>3, <3>1, <3>2
  <2>6. x \in Nat /\ y \in Nat /\ s \in Nat
    BY <2>3, Width
  <2> HIDE DEF x, y, s
  <2>7. x = y
    BY <2>3, <2>4, <2>5, <2>6
  <2>8. QED
    BY <2>2, <2>7
<1>3. QED
  BY <1>1, <1>2

(* The window without its first ID, when it is full, and with the next.    *)
LEMMA WindowAdd ==
  ASSUME SourceInv, WindowInv, fsm # "dead", m_l1id + 1 \in Slots,
         NEW id \in SlotIDs(m_l1id + 1), Return(id)
  PROVE  \E pos \in Seq(Slots) :
           /\ Ring(pos, m_l1id + 1, Size, Slots)
           /\ Len(pos) = Len(window')
           /\ \A i \in 1..Len(pos) : window'[i] \in SlotIDs(pos[i])
<1> DEFINE k == m_l1id
           w == window
           S == Slots
           N == Size
           IDs(n) == SlotIDs(n)
<1>1. PICK pos \in Seq(S) : WindowIsRing(pos)
  BY DEF WindowInv
<1>2. /\ N \in Nat /\ S \in SUBSET (1..N) /\ Period = Cardinality(S)
      /\ k \in 0..(N - 1)
  BY SlotTypes
<1>3. /\ Ring(pos, k, N, S) /\ Len(pos) = Len(w) /\ w \in Seq(Word)
      /\ \A i \in 1..Len(pos) : w[i] \in IDs(pos[i])
  BY <1>1 DEF WindowIsRing, WindowInv
<1>4. window' = Append(IF Len(w) < Cardinality(S) THEN w ELSE Tail(w), id)
  BY <1>2 DEF Return
<1>5. k + 1 \in S /\ id \in IDs(k + 1)
  OBVIOUS
<1> HIDE DEF k, w, S, N, IDs
<1> DEFINE new == Append(IF Len(pos) < Cardinality(S) THEN pos ELSE Tail(pos), k + 1)
<1>6. Ring(new, k + 1, N, S)
  BY <1>2, <1>3, <1>5, RingAdd
<1>7. Len(pos) <= Cardinality(S) /\ Cardinality(S) \in Nat
      /\ (Len(pos) = Cardinality(S) => Len(pos) > 0)
  <2>1. /\ Len(pos) <= Cardinality(S) /\ Cardinality(S) \in Nat
        /\ Len(pos) = Cardinality(S) <=> \A n \in S : \E i \in 1..Len(pos) : pos[i] = n
    BY <1>2, <1>3, RingInjective
  <2>2. Len(pos) = Cardinality(S) => Len(pos) > 0
    BY <1>1, <1>5, <2>1
  <2>3. QED
    BY <2>1, <2>2
<1>8. /\ Len(new) = Len(window')
      /\ \A i \in 1..Len(new) : window'[i] \in IDs(new[i])
  <2>1. CASE Len(pos) < Cardinality(S)
    <3>1. /\ new = Append(pos, k + 1) /\ window' = Append(w, id)
      BY <1>3, <1>4, <2>1
    <3>2. /\ Len(new) = Len(pos) + 1 /\ Len(window') = Len(pos) + 1
          /\ \A i \in 1..Len(pos) : new[i] = pos[i] /\ window'[i] = w[i]
          /\ new[Len(pos) + 1] = k + 1 /\ window'[Len(pos) + 1] = id
          /\ Len(pos) \in Nat
      BY <1>1, <1>3, <3>1
    <3> HIDE DEF new
    <3>3. \A i \in 1..Len(new) : i \in 1..Len(pos) \/ i = Len(pos) + 1
      BY <3>2
    <3>4. \A i \in 1..Len(new) : window'[i] \in IDs(new[i])
      BY <1>3, <1>5, <3>2, <3>3
    <3>5. QED
      BY <3>2, <3>4
  <2>2. CASE Len(pos) = Cardinality(S)
    <3> DEFINE t == Tail(pos)
               u == Tail(w)
    <3>1. new = Append(t, k + 1) /\ window' = Append(u, id)
      BY <1>3, <1>4, <1>7, <2>2
    <3>2. /\ Len(t) = Len(pos) - 1 /\ Len(u) = Len(pos) - 1
          /\ \A i \in 1..(Len(pos) - 1) : t[i] = pos[i + 1] /\ u[i] = w[i + 1]
          /\ t \in Seq(S) /\ u \in Seq(Word) /\ Len(pos) \in Nat \ {0}
      <4>1. Len(pos) \in Nat \ {0} /\ Len(w) = Len(pos)
        BY <1>1, <1>3, <1>7, <2>2
      <4>2. pos # <<>> /\ w # <<>>
        <5>1. Len(<<>>) = 0
          OBVIOUS
        <5>2. QED
          BY <4>1, <5>1
      <4>3. QED
        BY <1>1, <1>3, <4>1, <4>2
    <3> HIDE DEF new, t, u
    <3>3. /\ Len(new) = Len(t) + 1 /\ Len(window') = Len(u) + 1
          /\ \A i \in 1..Len(t) : new[i] = t[i]
          /\ \A i \in 1..Len(u) : window'[i] = u[i]
          /\ new[Len(t) + 1] = k + 1 /\ window'[Len(u) + 1] = id
      BY <3>1, <3>2
    <3>4. \A i \in 1..(Len(pos) - 1) : new[i] = pos[i + 1] /\ window'[i] = w[i + 1]
      BY <3>2, <3>3
    <3>5. Len(new) = Len(pos) /\ Len(window') = Len(pos)
          /\ new[Len(pos)] = k + 1 /\ window'[Len(pos)] = id
      BY <3>2, <3>3
    <3>6. \A i \in 1..Len(new) :
            \/ i = Len(pos)
            \/ i \in 1..(Len(pos) - 1) /\ i + 1 \in 1..Len(pos)
      <4>1. \A n \in Nat : \A i \in 1..n :
              \/ i = n
              \/ i \in 1..(n - 1) /\ i + 1 \in 1..n
        OBVIOUS
      <4>2. QED
        BY <3>2, <3>5, <4>1
    <3>7. \A i \in 1..Len(new) : window'[i] \in IDs(new[i])
      BY <1>3, <1>5, <3>4, <3>5, <3>6
    <3>8. QED
      BY <3>5, <3>7
  <2>3. QED
    BY <1>1, <1>7, <2>1, <2>2
<1>9. new \in Seq(S)
  BY <1>6 DEF Ring
<1> HIDE DEF new
<1>10. QED
  BY <1>6, <1>8, <1>9 DEF k, S, N, IDs

(* The next place, the first one again after the last.                     *)
LEMMA WindowNext ==
  ASSUME SourceInv, fsm # "dead", UNCHANGED sourceVars, window' \in Seq(Word),
         m_l1id' = IF m_l1id + 1 >= Size THEN 0 ELSE m_l1id + 1,
         NEW pos \in Seq(Slots), Ring(pos, m_l1id + 1, Size, Slots),
         Len(pos) = Len(window'),
         \A i \in 1..Len(pos) : window'[i] \in SlotIDs(pos[i])
  PROVE  WindowInv'
<1>1. Size \in Nat /\ Slots \in SUBSET (1..Size) /\ m_l1id \in 0..(Size - 1)
  BY SlotTypes
<1>2. Size' = Size /\ Slots' = Slots /\ \A n : (SlotIDs(n))' = SlotIDs(n)
  BY DEF sourceVars, Size, Slots, SlotIDs, Internal, Shift
<1>3. Ring(pos, m_l1id', Size, Slots)
  <2>1. CASE m_l1id + 1 >= Size
    <3>1. m_l1id + 1 = Size
      BY <1>1, <2>1
    <3>2. Ring(pos, Size, Size, Slots)
      BY <3>1
    <3>3. QED
      BY <1>1, <2>1, <3>2, RingTurn
  <2>2. CASE ~(m_l1id + 1 >= Size)
    BY <2>2
  <2>3. QED
    BY <2>1, <2>2
<1>4. WindowIsRing(pos)'
  BY <1>2, <1>3 DEF WindowIsRing, Ring
<1>5. QED
  BY <1>2, <1>4 DEF WindowInv

(* Nothing was sent since the reset.                                       *)
LEMMA WindowEmpty == SourceInv /\ window = <<>> /\ m_l1id = 0 => WindowInv
<1> SUFFICES ASSUME SourceInv, window = <<>>, m_l1id = 0 PROVE WindowInv
  OBVIOUS
<1>1. Size \in Nat /\ Slots \in SUBSET (1..Size)
  BY SlotTypes
<1>2. \A n \in Slots : ~(n <= 0)
  BY <1>1
<1>3. Ring(<<>>, 0, Size, Slots)
  BY <1>2 DEF Ring
<1>4. WindowIsRing(<<>>) /\ <<>> \in Seq(Slots) /\ <<>> \in Seq(Word)
  BY <1>3 DEF WindowIsRing
<1>5. QED
  BY <1>4 DEF WindowInv

(* WindowInv speaks of these variables only.                               *)
LEMMA WindowKept ==
  ASSUME WindowInv, UNCHANGED <<sourceVars, m_l1id, window>>
  PROVE  WindowInv'
BY DEF WindowInv, WindowIsRing, sourceVars, Size, Slots, SlotIDs, Internal, Shift

(* Every step preserves WindowInv.                                         *)
LEMMA WindowStep ==
  ASSUME SourceInv, SourceInv', WindowInv, [Next]_vars
  PROVE  WindowInv'
<1>1. ASSUME NEW c \in Commanders, Command(c) PROVE WindowInv'
  <2>1. UNCHANGED <<sourceVars, m_l1id, window>>
    BY <1>1 DEF Command, hold, ResumeTest, ResumeDecrement, setPrescales,
                StorePrescale
  <2>2. QED
    BY <2>1, WindowKept
<1>2. ASSUME NEW r \in 1..MaxRuns, UpdaterLoop(r) \/ UpdaterWakes(r)
      PROVE  WindowInv'
  <2>1. UNCHANGED <<sourceVars, m_l1id, window>>
    BY <1>2 DEF UpdaterLoop, UpdaterWakes
  <2>2. QED
    BY <2>1, WindowKept
<1>3. CASE ReadLumiBlock
  <2>1. UNCHANGED <<sourceVars, m_l1id, window>>
    BY <1>3 DEF ReadLumiBlock
  <2>2. QED
    BY <2>1, WindowKept
<1>4. CASE InternalResult
  <2>1. /\ UNCHANGED sourceVars /\ pc = "read" /\ Internal
        /\ Return(m_l1id) /\ m_l1id' = Wrap(m_l1id + 1)
    BY <1>4 DEF InternalResult, Internal
  <2>2. fsm # "dead" /\ m_l1id \in Word
    BY <2>1 DEF SourceInv
  <2>3. /\ m_l1id + 1 \in Slots /\ m_l1id \in SlotIDs(m_l1id + 1)
        /\ Size = MAXUINT + 1
    <3>1. MAXUINT \in Nat /\ m_l1id \in 0..MAXUINT
      BY <2>2, Width DEF Word
    <3>2. Slots = 1..(MAXUINT + 1) /\ SlotIDs(m_l1id + 1) = {(m_l1id + 1) - 1}
          /\ Size = MAXUINT + 1
      BY <2>1 DEF Slots, SlotIDs, Size
    <3>3. QED
      BY <3>1, <3>2
  <2>4. m_l1id' = IF m_l1id + 1 >= Size THEN 0 ELSE m_l1id + 1
    <3>1. MAXUINT \in Nat /\ m_l1id \in 0..MAXUINT
      BY <2>2, Width DEF Word
    <3>2. CASE m_l1id < MAXUINT
      BY <2>1, <2>2, <2>3, <3>1, <3>2, Increment
    <3>3. CASE m_l1id = MAXUINT
      <4>1. \A n \in Nat \ {0} : n % n = 0
        BY SMTT(30)
      <4>2. Wrap(m_l1id + 1) = 0
        BY <3>1, <3>3, <4>1 DEF Wrap
      <4>3. QED
        BY <2>1, <2>3, <3>1, <3>3, <4>2
    <3>4. QED
      BY <3>1, <3>2, <3>3
  <2>5. window' \in Seq(Word)
    BY <2>1, <2>2, WindowType DEF WindowInv
  <2>6. PICK pos \in Seq(Slots) :
           /\ Ring(pos, m_l1id + 1, Size, Slots)
           /\ Len(pos) = Len(window')
           /\ \A i \in 1..Len(pos) : window'[i] \in SlotIDs(pos[i])
    BY <2>1, <2>2, <2>3, WindowAdd
  <2>7. QED
    BY <2>1, <2>2, <2>4, <2>5, <2>6, WindowNext
<1>5. CASE PreloadedResult
  <2> DEFINE rods == m_data[m_l1id + 1]
  <2>1. /\ UNCHANGED sourceVars /\ pc = "read" /\ ~Internal
        /\ \/ rods # <<>> /\ Return(PreloadedID(rods))
           \/ rods = <<>> /\ UNCHANGED window
        /\ m_l1id' = IF m_l1id + 1 >= Len(m_data) THEN 0 ELSE m_l1id + 1
    BY <1>5 DEF PreloadedResult, Internal
  <2>2. fsm # "dead"
    BY <2>1 DEF SourceInv
  <2>3. /\ Size = Len(m_data) /\ m_data \in Seq(Seq(Word))
        /\ m_l1id + 1 \in DOMAIN m_data /\ rods \in Seq(Word)
        /\ Slots = {n \in DOMAIN m_data : m_data[n] # <<>>}
    <3>1. /\ Size = Len(m_data) /\ m_data \in Seq(Seq(Word))
          /\ Slots = {n \in DOMAIN m_data : m_data[n] # <<>>}
      BY <2>1 DEF Size, Slots, SourceInv
    <3>2. m_l1id \in 0..(Size - 1) /\ Size \in Nat
      BY <2>2, SlotTypes
    <3>3. m_l1id + 1 \in DOMAIN m_data
      BY <3>1, <3>2
    <3>4. QED
      BY <3>1, <3>3
  <2>4. CASE rods # <<>> /\ Return(PreloadedID(rods))
    <3>1. m_l1id + 1 \in Slots /\ PreloadedID(rods) \in SlotIDs(m_l1id + 1)
      BY <2>1, <2>3, <2>4 DEF SlotIDs, PreloadedID
    <3>2. PreloadedID(rods) \in Word
      BY <2>3, <2>4, SentID
    <3>3. window' \in Seq(Word)
      BY <2>4, <3>2, WindowType DEF WindowInv
    <3>4. PICK pos \in Seq(Slots) :
             /\ Ring(pos, m_l1id + 1, Size, Slots)
             /\ Len(pos) = Len(window')
             /\ \A i \in 1..Len(pos) : window'[i] \in SlotIDs(pos[i])
      BY <2>2, <2>4, <3>1, WindowAdd
    <3>5. QED
      BY <2>1, <2>2, <2>3, <3>3, <3>4, WindowNext
  <2>5. CASE rods = <<>> /\ UNCHANGED window
    <3>1. PICK pos \in Seq(Slots) : WindowIsRing(pos)
      BY DEF WindowInv
    <3>2. /\ Size \in Nat /\ Slots \in SUBSET (1..Size) /\ m_l1id \in 0..(Size - 1)
      BY <2>2, SlotTypes
    <3>3. m_l1id + 1 \notin Slots
      BY <2>3, <2>5
    <3>4. Ring(pos, m_l1id + 1, Size, Slots)
      BY <3>1, <3>2, <3>3, RingSkip DEF WindowIsRing
    <3>5. /\ Len(pos) = Len(window') /\ window' \in Seq(Word)
          /\ \A i \in 1..Len(pos) : window'[i] \in SlotIDs(pos[i])
      BY <2>5, <3>1 DEF WindowIsRing, WindowInv
    <3>6. QED
      BY <2>1, <2>2, <2>3, <3>4, <3>5, WindowNext
  <2>6. QED
    BY <2>1, <2>4, <2>5
<1>6. CASE ResetFirst \/ prepareForRun
  <2>1. window' = <<>> /\ m_l1id' = 0
    BY <1>6 DEF ResetFirst, prepareForRun, HistoryReset, reset, resetInternal,
                resetPreloaded
  <2>2. SourceInv' /\ (window = <<>>)' /\ (m_l1id = 0)'
    BY <2>1
  <2>3. QED
    BY <2>2, WindowEmpty, PTL
<1>7. CASE stopDC \/ Join
  <2>1. UNCHANGED <<sourceVars, m_l1id, window>>
    BY <1>7 DEF stopDC, Join
  <2>2. QED
    BY <2>1, WindowKept
<1>8. CASE UNCHANGED vars
  BY <1>8, WindowKept DEF vars
<1>9. QED
  BY <1>1, <1>2, <1>3, <1>4, <1>5, <1>6, <1>7, <1>8 DEF Next

(* The list of slots has none twice, and different slots different IDs.    *)
LEMMA WindowIsDistinct == SourceInv /\ WindowInv => DistinctInWindow
<1> SUFFICES ASSUME SourceInv, WindowInv, DistinctIDs(m_data),
                    NEW i \in DOMAIN window, NEW j \in DOMAIN window,
                    window[i] = window[j]
             PROVE  i = j
  BY DEF DistinctInWindow, IsInjective
<1>1. PICK pos \in Seq(Slots) : WindowIsRing(pos)
  BY DEF WindowInv
<1>2. /\ Size \in Nat /\ Slots \in SUBSET (1..Size) /\ m_l1id \in 0..Size
  BY SlotTypes
<1>3. \A a, b \in 1..Len(pos) : pos[a] = pos[b] => a = b
  <2>1. Ring(pos, m_l1id, Size, Slots)
    BY <1>1 DEF WindowIsRing
  <2>2. QED
    BY <1>2, <2>1, RingInjective
<1>4. i \in 1..Len(pos) /\ j \in 1..Len(pos)
  BY <1>1 DEF WindowIsRing, WindowInv
<1>5. window[i] \in SlotIDs(pos[i]) /\ window[i] \in SlotIDs(pos[j])
      /\ pos[i] \in Slots /\ pos[j] \in Slots
  BY <1>1, <1>4 DEF WindowIsRing
<1>6. pos[i] = pos[j]
  BY <1>5, SlotIDsDiffer
<1>7. QED
  BY <1>3, <1>4, <1>6

(* While the source goes through its events again and again, with the IDs  *)
(* shifted after the first turn where that does not overflow, no L1 ID is  *)
(* given twice before every event has been given, if there is none twice   *)
(* among the events.  It holds of any files, also when m_max_l1id wraps.   *)
THEOREM NoIDTwice == Spec => []DistinctInWindow
<1>1. Init => SourceInv /\ WindowInv
  <2>1. Init => window = <<>> /\ m_l1id = 0
    BY DEF Init
  <2>2. QED
    BY <2>1, SourceInit, WindowEmpty
<1>2. SourceInv /\ [Next]_vars => SourceInv'
  BY SourceStep
<1>3. SourceInv /\ SourceInv' /\ WindowInv /\ [Next]_vars => WindowInv'
  BY WindowStep
<1>4. SourceInv /\ WindowInv => DistinctInWindow
  BY WindowIsDistinct
<1>5. QED
  BY <1>1, <1>2, <1>3, <1>4, PTL DEF Spec

=============================================================================
