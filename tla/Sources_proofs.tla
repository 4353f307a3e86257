--------------------------- MODULE Sources_proofs ---------------------------
(***************************************************************************)
(* Proofs about the sources that keep lists of what has come and not been  *)
(* delivered.                                                              *)
(*                                                                         *)
(* TTC2LAN, for any number of senders, any sequence of triggers, any       *)
(* watermarks and any widths of the counters: the types, that XON and XOFF *)
(* do not cross although no lock protects m_status, that no trigger is     *)
(* skipped or taken twice, and what m_event_count counts.                  *)
(*                                                                         *)
(* Filar, for any number of channels, pages, fragments and failing calls:  *)
(* the types, that every page has one holder and no fragment is lost or    *)
(* delivered twice, and which events may overtake each other.              *)
(***************************************************************************)
EXTENDS TTC2LAN, Filar, Lists, FiniteSetTheorems, TLAPS

-----------------------------------------------------------------------------
(* Types.  The arithmetic of the IDs and of m_event_count stays in range;  *)
(* the lists hold ranges of IDs; a list exists only for a session; what is *)
(* still to be sent goes to sessions.                                      *)

(* A remainder is below the modulus.                                       *)
LEMMA ModInRange ==
  ASSUME NEW a \in Int, NEW n \in Nat \ {0}
  PROVE  a % n \in 0..(n - 1)
OBVIOUS

(* There are L1 IDs.                                                       *)
LEMMA L1IdsNumber == EcrSize * Epochs \in Nat \ {0}
BY SourceAssumption

(* They are numbers.                                                       *)
LEMMA L1IdsAreNumbers == L1Ids \subseteq Nat
BY L1IdsNumber DEF L1Ids

(* The ID after an L1 ID is one.                                           *)
LEMMA NextIdType ==
  ASSUME NEW id \in L1Ids
  PROVE  NextId(id) \in L1Ids
<1> DEFINE n == EcrSize * Epochs
<1>1. n \in Nat \ {0} /\ L1Ids = 0..(n - 1)
  BY L1IdsNumber DEF L1Ids
<1>2. NextId(id) = (id + 1) % n
  BY DEF NextId
<1> HIDE DEF n
<1>3. (id + 1) % n \in 0..(n - 1)
  BY <1>1, ModInRange
<1>4. QED
  BY <1>1, <1>2, <1>3

(* The first ID of an epoch is not larger than any ID of it. *)
LEMMA EpochStart ==
  ASSUME NEW id \in Nat, NEW n \in Nat \ {0}
  PROVE  (id \div n) * n \in 0..id
<1>1. n * (id \div n) <= id
  BY SMTT(30)
<1>2. id \div n \in Nat
  BY SMTT(30)
<1> DEFINE q == id \div n
<1>3. q \in Nat /\ n * q <= id
  BY <1>1, <1>2
<1> HIDE DEF q
<1>4. n * q >= 0
  BY <1>3, SMTT(30)
<1>5. q * n \in 0..id
  BY <1>3, <1>4, SMTT(30)
<1>6. QED
  BY <1>5 DEF q

(* A range begins with an L1 ID.                                           *)
LEMMA FirstType ==
  ASSUME NEW s \in Senders, NEW id \in L1Ids, m_last_id \in [Senders -> L1Ids]
  PROVE  First(s, id) \in L1Ids
<1>1. NextId(m_last_id[s]) \in L1Ids
  BY NextIdType
<1>2. Epoch(id) * EcrSize \in L1Ids
  <2>1. Epoch(id) * EcrSize \in 0..id
    BY EpochStart, L1IdsAreNumbers, SourceAssumption DEF Epoch
  <2>2. QED
    BY <2>1, L1IdsNumber DEF L1Ids
<1>3. QED
  BY <1>1, <1>2 DEF First

(* The first ID in the list of a sender, and what is left of the list      *)
(* without it.                                                             *)
LEMMA RestType ==
  ASSUME NEW s \in Senders, m_events \in [Senders -> Seq(L1Ids \X L1Ids)],
         m_events[s] # <<>>
  PROVE  FrontId(s) \in L1Ids /\ Rest(s) \in Seq(L1Ids \X L1Ids)
<1>1. Head(m_events[s]) \in L1Ids \X L1Ids /\ Tail(m_events[s]) \in Seq(L1Ids \X L1Ids)
  OBVIOUS
<1>2. FrontId(s) \in L1Ids
  BY <1>1 DEF FrontId
<1>3. NextId(FrontId(s)) \in L1Ids
  BY <1>2, NextIdType
<1>4. QED
  BY <1>1, <1>2, <1>3 DEF Rest

(* TypeOK, and a session that has connected is among the sessions. *)
TypeInv == /\ TypeOK
           /\ \A s \in Senders : link[s] # "none" => s \in m_sessions

(* TypeInv holds when the source starts. *)
LEMMA TypeInit == Init => TypeInv
<1>1. EcrSize * (Epochs - 1) \in L1Ids
  BY SourceAssumption, L1IdsNumber DEF L1Ids
<1>2. Len(Triggers) \in Nat
  BY SourceAssumption
<1>3. QED
  BY <1>1, <1>2, SourceAssumption DEF Init, TypeInv, TypeOK

(* The steps that only change the gates, the status or where a thread is.  *)
LEMMA FlowType ==
  ASSUME TypeInv,
         \/ TestXoff \/ SetOff \/ TestXon \/ SetOn \/ NoEvent \/ Crash
         \/ StopRun \/ StartRun \/ ResetCount
         \/ \E s \in Senders : SendXoff(s) \/ SendXon(s)
  PROVE  TypeInv'
<1> USE SourceAssumption DEF TypeInv, TypeOK, senderVars, historyVars
<1>1. CASE TestXoff \/ SetOff
  BY <1>1 DEF TestXoff, SetOff
<1>2. CASE TestXon \/ SetOn
  BY <1>2 DEF TestXon, SetOn
<1>3. CASE NoEvent \/ Crash
  BY <1>3 DEF NoEvent, Crash
<1>4. CASE StopRun \/ StartRun \/ ResetCount
  BY <1>4 DEF StopRun, StartRun, ResetCount
<1>5. ASSUME NEW s \in Senders, SendXoff(s) PROVE TypeInv'
  BY <1>5 DEF SendXoff
<1>6. ASSUME NEW s \in Senders, SendXon(s) PROVE TypeInv'
  BY <1>6 DEF SendXon
<1>7. QED
  BY <1>1, <1>2, <1>3, <1>4, <1>5, <1>6

(* Every step preserves TypeInv. *)
LEMMA TypeStep ==
  ASSUME TypeInv, [Next]_vars
  PROVE  TypeInv'
<1> USE SourceAssumption DEF TypeInv, TypeOK
<1>1. ASSUME NEW s \in Senders, onAccept(s) PROVE TypeInv'
  BY <1>1 DEF onAccept, historyVars
<1>2. ASSUME NEW s \in Senders, asyncClose(s) PROVE TypeInv'
  BY <1>2 DEF asyncClose, historyVars
<1>3. ASSUME NEW s \in Senders, NEW n \in DOMAIN Triggers, onReceive(s, n)
      PROVE  TypeInv'
  <2> DEFINE id == Triggers[n]
             first == First(s, id)
  <2>1. id \in L1Ids /\ n \in 0..Len(Triggers)
    OBVIOUS
  <2>2. first \in L1Ids
    BY <2>1, FirstType
  <2>3. m_events' \in [Senders -> Seq(L1Ids \X L1Ids)] /\ known' \subseteq m_sessions
    <3>1. m_events' \in [Senders -> Seq(L1Ids \X L1Ids)]
      BY <1>3, <2>1, <2>2, SMTT(60) DEF onReceive, insert
    <3>2. known' \subseteq m_sessions
      BY <1>3 DEF onReceive, insert
    <3>3. QED
      BY <3>1, <3>2
  <2>4. m_event_count' \in 0..(CountMod - 1)
    <3>1. m_event_count' = (m_event_count + id - first + 1) % CountMod
      BY <1>3 DEF onReceive, insert
    <3> HIDE DEF id, first
    <3>2. m_event_count + id - first + 1 \in Int
      <4>1. id \in Int /\ first \in Int
        BY <2>1, <2>2, L1IdsAreNumbers
      <4>2. QED
        BY <4>1
    <3>3. QED
      BY <3>1, <3>2, ModInRange
  <2>5. QED
    BY <1>3, <2>1, <2>3, <2>4 DEF onReceive
<1>4. CASE Deliver
  <2>1. \A s \in known : FrontId(s) \in L1Ids /\ Rest(s) \in Seq(L1Ids \X L1Ids)
    BY <1>4, RestType DEF Deliver
  <2>2. m_events' \in [Senders -> Seq(L1Ids \X L1Ids)]
    BY <1>4, <2>1 DEF Deliver
  <2>3. taken' \in [Senders -> Seq(L1Ids)]
    BY <1>4, <2>1 DEF Deliver
  <2>4. m_event_count' \in 0..(CountMod - 1)
    BY <1>4, ModInRange DEF Deliver, CountDown
  <2>5. QED
    BY <1>4, <2>2, <2>3, <2>4 DEF Deliver, senderVars
<1>5. CASE ResetEvents
  BY <1>5 DEF ResetEvents, senderVars
<1>6. CASE UNCHANGED vars
  BY <1>6 DEF vars
<1>7. QED
  BY <1>1, <1>2, <1>3, <1>4, <1>5, <1>6, FlowType DEF Next, IoStep, L1Step

(* The state of the senders, the source and its threads keeps its types:   *)
(* a list exists only for a session, its ranges are IDs, m_event_count     *)
(* stays a number of its width, and only sessions are sent XON or XOFF.    *)
THEOREM TypeCorrect == Spec => []TypeOK
<1>1. TypeInv => TypeOK
  BY DEF TypeInv
<1>2. Spec => []TypeInv
  BY TypeInit, TypeStep, PTL DEF Spec
<1>3. QED
  BY <1>1, <1>2, PTL

-----------------------------------------------------------------------------
(* Flow control.  A thread that sends has seen the status that makes it    *)
(* send, and only it can change that status, at the end: so the status is  *)
(* a lock.  While XON is being sent, the sessions that have got it are on; *)
(* a session that connects meanwhile is on from the start.                 *)

GateInv ==
  /\ gate \in [Senders -> {"ON", "OFF"}]
  /\ toXoff \subseteq m_sessions
  /\ io = "send" => m_status = "ON" /\ l1 # "send"
  /\ l1 = "send" => m_status = "OFF"
  /\ m_status = "ON" /\ io # "send" => \A s \in m_sessions : gate[s] = "ON"
  /\ l1 = "send" => \A s \in m_sessions \ toXon : gate[s] = "ON"
  /\ \A s \in Senders \ m_sessions : gate[s] = "ON"
  /\ m_sessions \subseteq Senders

(* GateInv holds when the source starts. *)
LEMMA GateInit == Init => GateInv
BY DEF Init, GateInv

(* Every step of the io, the L1 and the run-control thread preserves       *)
(* GateInv.                                                                *)
LEMMA GateStep ==
  ASSUME GateInv, [Next]_vars
  PROVE  GateInv'
<1> USE DEF GateInv
<1>1. ASSUME NEW s \in Senders, onAccept(s) PROVE GateInv'
  BY <1>1 DEF onAccept
<1>2. ASSUME NEW s \in Senders, asyncClose(s) PROVE GateInv'
  BY <1>2 DEF asyncClose
<1>3. ASSUME NEW s \in Senders, NEW n \in DOMAIN Triggers, onReceive(s, n)
      PROVE  GateInv'
  BY <1>3 DEF onReceive
<1>4. CASE TestXoff
  BY <1>4 DEF TestXoff
<1>5. ASSUME NEW s \in Senders, SendXoff(s) PROVE GateInv'
  BY <1>5 DEF SendXoff
<1>6. CASE SetOff
  BY <1>6 DEF SetOff
<1>7. CASE TestXon
  BY <1>7 DEF TestXon
<1>8. ASSUME NEW s \in Senders, SendXon(s) PROVE GateInv'
  BY <1>8 DEF SendXon
<1>9. CASE SetOn
  BY <1>9 DEF SetOn
<1>10. CASE NoEvent \/ Deliver \/ Crash
  BY <1>10 DEF NoEvent, Deliver, Crash, senderVars
<1>11. CASE StopRun \/ ResetEvents \/ ResetCount \/ StartRun
  BY <1>11 DEF StopRun, ResetEvents, ResetCount, StartRun
<1>12. CASE UNCHANGED vars
  BY <1>12 DEF vars
<1>13. QED
  BY <1>1, <1>2, <1>3, <1>4, <1>5, <1>6, <1>7, <1>8, <1>9, <1>10, <1>11,
     <1>12 DEF Next, IoStep, L1Step

(* The io and the L1 thread never send at the same time, and no sender is  *)
(* left off while the status is ON: in every interleaving of the two tests *)
(* of m_status and m_event_count.                                          *)
THEOREM GatesAgree == Spec => []GateAgrees
<1>1. GateInv => GateAgrees
  BY DEF GateInv, GateAgrees
<1>2. Spec => []GateInv
  BY GateInit, GateStep, PTL DEF Spec
<1>3. QED
  BY <1>1, <1>2, PTL

-----------------------------------------------------------------------------
(* The lists of ranges and the IDs in them.                                *)

Ranges == L1Ids \X L1Ids

(* The IDs in a range are L1 IDs.                                          *)
LEMMA IdsInType ==
  ASSUME NEW x \in Ranges
  PROVE  IdsIn(x) \in Seq(L1Ids)
<1> DEFINE n == x[2] - x[1] + 1
           N == EcrSize * Epochs
<1>1. N \in Nat /\ L1Ids = 0..(N - 1)
  BY L1IdsNumber DEF L1Ids
<1> HIDE DEF N
<1>2. x[1] \in Nat /\ x[2] \in Nat /\ x[2] < N
  BY <1>1 DEF Ranges
<1>3. CASE x[1] <= x[2]
  <2>1. n \in Nat
    BY <1>2, <1>3
  <2>2. \A k \in 1..n : x[1] + k - 1 \in L1Ids
    BY <1>1, <1>2, <1>3
  <2> DEFINE f == [k \in 1..n |-> x[1] + k - 1]
  <2>3. f \in [1..n -> L1Ids]
    BY <2>2
  <2>4. f \in Seq(L1Ids)
    BY <2>1, <2>3
  <2>5. QED
    BY <2>4 DEF IdsIn
<1>4. CASE x[1] > x[2]
  <2>1. 1..n = {}
    BY <1>2, <1>4
  <2>2. IdsIn(x) = <<>>
    BY <2>1 DEF IdsIn
  <2>3. QED
    BY <2>2
<1>5. QED
  BY <1>2, <1>3, <1>4

(* The lists of the IDs in each range of a list.                           *)
ByRange(q) == [i \in DOMAIN q |-> IdsIn(q[i])]

(* The IDs of a list of ranges, range by range.                            *)
LEMMA ByRangeFacts ==
  ASSUME NEW q \in Seq(Ranges)
  PROVE  /\ ByRange(q) \in Seq(Seq(L1Ids)) /\ Len(ByRange(q)) = Len(q)
         /\ \A i \in 1..Len(q) : ByRange(q)[i] = IdsIn(q[i])
<1>1. \A i \in 1..Len(q) : IdsIn(q[i]) \in Seq(L1Ids)
  BY IdsInType
<1>2. ByRange(q) \in [1..Len(q) -> Seq(L1Ids)]
  BY <1>1 DEF ByRange
<1>3. QED
  BY <1>2 DEF ByRange

(* No ranges, no IDs.                                                      *)
LEMMA IdsOfEmpty == IdsOf(<<>>) = <<>>
<1>1. [i \in DOMAIN <<>> |-> IdsIn(<<>>[i])] = <<>>
  OBVIOUS
<1>2. FlattenSeq(<<>>) = <<>>
  BY DEF FlattenSeq
<1>3. QED
  BY <1>1, <1>2 DEF IdsOf

(* The IDs in a list of ranges are L1 IDs.                                 *)
LEMMA IdsOfType ==
  ASSUME NEW q \in Seq(Ranges)
  PROVE  IdsOf(q) \in Seq(L1Ids)
<1>1. IdsOf(q) = FlattenSeq(ByRange(q))
  BY DEF IdsOf, ByRange
<1>2. QED
  BY <1>1, ByRangeFacts, FlattenType, Zenon

(* A range at the end of a list, and at its front.                         *)
LEMMA IdsOfAppend ==
  ASSUME NEW q \in Seq(Ranges), NEW x \in Ranges
  PROVE  IdsOf(Append(q, x)) = IdsOf(q) \o IdsIn(x)
<1> DEFINE p == Append(q, x)
           n == Len(q)
           f == ByRange(p)
           g == Append(ByRange(q), IdsIn(x))
<1>1. /\ p \in Seq(Ranges) /\ n \in Nat /\ Len(p) = n + 1 /\ p[n + 1] = x
      /\ \A i \in 1..n : p[i] = q[i]
  OBVIOUS
<1>2. IdsIn(x) \in Seq(L1Ids)
  BY IdsInType
<1>3. f \in Seq(Seq(L1Ids)) /\ Len(f) = n + 1 /\ \A i \in 1..(n + 1) : f[i] = IdsIn(p[i])
  BY <1>1, ByRangeFacts
<1>4. /\ ByRange(q) \in Seq(Seq(L1Ids)) /\ Len(ByRange(q)) = n
      /\ \A i \in 1..n : ByRange(q)[i] = IdsIn(q[i])
  BY ByRangeFacts
<1>5. /\ g \in Seq(Seq(L1Ids)) /\ Len(g) = n + 1 /\ g[n + 1] = IdsIn(x)
      /\ \A i \in 1..n : g[i] = IdsIn(q[i])
  BY <1>2, <1>4
<1>6. \A i \in 1..(n + 1) : f[i] = g[i]
  <2>1. ASSUME NEW i \in 1..n PROVE f[i] = g[i]
    <3> HIDE DEF f, g, p, n
    <3>1. i \in 1..(n + 1)
      BY <1>1
    <3>2. f[i] = IdsIn(p[i]) /\ p[i] = q[i] /\ g[i] = IdsIn(q[i])
      BY <1>1, <1>3, <1>5, <3>1
    <3>3. QED
      BY <3>2
  <2>2. f[n + 1] = g[n + 1]
    BY <1>1, <1>3, <1>5
  <2>3. \A i \in 1..(n + 1) : i \in 1..n \/ i = n + 1
    BY <1>1
  <2> HIDE DEF f, g, n
  <2>4. QED
    BY <2>1, <2>2, <2>3, Zenon
<1> HIDE DEF f, g
<1>7. f = g
  BY <1>1, <1>3, <1>5, <1>6, SeqEqual
<1>8. FlattenSeq(g) = FlattenSeq(ByRange(q)) \o IdsIn(x)
  BY <1>2, <1>4, FlattenAppend, Zenon DEF g
<1>9. QED
  BY <1>7, <1>8 DEF IdsOf, ByRange, f

(* A range put in front puts its IDs in front.                             *)
LEMMA IdsOfCons ==
  ASSUME NEW q \in Seq(Ranges), NEW x \in Ranges
  PROVE  IdsOf(<<x>> \o q) = IdsIn(x) \o IdsOf(q)
<1> DEFINE p == <<x>> \o q
           n == Len(q)
           f == ByRange(p)
           g == <<IdsIn(x)>> \o ByRange(q)
<1>1. /\ p \in Seq(Ranges) /\ n \in Nat /\ Len(p) = n + 1 /\ p[1] = x
      /\ \A i \in 1..n : p[i + 1] = q[i]
  OBVIOUS
<1>2. IdsIn(x) \in Seq(L1Ids)
  BY IdsInType
<1>3. f \in Seq(Seq(L1Ids)) /\ Len(f) = n + 1 /\ \A i \in 1..(n + 1) : f[i] = IdsIn(p[i])
  BY <1>1, ByRangeFacts
<1>4. /\ ByRange(q) \in Seq(Seq(L1Ids)) /\ Len(ByRange(q)) = n
      /\ \A i \in 1..n : ByRange(q)[i] = IdsIn(q[i])
  BY ByRangeFacts
<1>5. /\ g \in Seq(Seq(L1Ids)) /\ Len(g) = n + 1 /\ g[1] = IdsIn(x)
      /\ \A i \in 1..n : g[i + 1] = IdsIn(q[i])
  BY <1>2, <1>4
<1>6. \A i \in 1..(n + 1) : f[i] = g[i]
  <2>1. ASSUME NEW i \in 1..(n + 1), i # 1 PROVE f[i] = g[i]
    <3>1. i - 1 \in 1..n /\ (i - 1) + 1 = i
      BY <1>1, <2>1
    <3>2. p[i] = q[i - 1] /\ g[i] = IdsIn(q[i - 1])
      BY <1>1, <1>5, <3>1
    <3>3. QED
      BY <1>3, <3>2
  <2>2. f[1] = g[1]
    <3>1. 1 \in 1..(n + 1)
      BY <1>1
    <3> HIDE DEF f, g, n, p
    <3>2. QED
      BY <1>1, <1>3, <1>5, <3>1, Zenon
  <2>3. QED
    BY <2>1, <2>2
<1> HIDE DEF f, g
<1>7. f = g
  BY <1>1, <1>3, <1>5, <1>6, SeqEqual
<1>8. FlattenSeq(g) = IdsIn(x) \o FlattenSeq(ByRange(q))
  BY <1>2, <1>4, FlattenCons, Zenon DEF g
<1>9. QED
  BY <1>7, <1>8 DEF IdsOf, ByRange, f

(* A range that holds IDs, none of them the last before the wrap.          *)
RangeOK(x) == x[1] <= x[2] /\ x[2] + 1 \in L1Ids

ListOK(q) == \A i \in DOMAIN q : RangeOK(q[i])

(* A number below the modulus is its own remainder.                        *)
LEMMA ModSmall ==
  ASSUME NEW n \in Nat \ {0}, NEW m \in 0..(n - 1)
  PROVE  m % n = m
OBVIOUS

(* It does not matter which two of three lists are put together first.     *)
LEMMA IdsAssoc ==
  \A a, b, c \in Seq(L1Ids) : (a \o b) \o c = a \o (b \o c)
BY CatAssoc

(* One ID before a list of IDs.                                            *)
LEMMA IdsCons ==
  ASSUME NEW x \in L1Ids, NEW b \in Seq(L1Ids), NEW c \in Seq(L1Ids),
         NEW n \in Nat, Len(b) = n, Len(c) = n + 1, c[1] = x,
         \A m \in 1..n : c[m + 1] = b[m]
  PROVE  <<x>> \o b = c
<1> DEFINE f == <<x>> \o b
<1>1. f \in Seq(L1Ids) /\ Len(f) = n + 1 /\ f[1] = x /\ \A m \in 1..n : f[m + 1] = b[m]
  OBVIOUS
<1> HIDE DEF f
<1>2. ASSUME NEW m \in 1..(n + 1) PROVE f[m] = c[m]
  <2>1. CASE m = 1
    BY <1>1, <2>1
  <2>2. CASE m # 1
    <3>1. m - 1 \in 1..n /\ (m - 1) + 1 = m
      BY <2>2
    <3>2. f[(m - 1) + 1] = b[m - 1] /\ c[(m - 1) + 1] = b[m - 1]
      BY <1>1, <3>1
    <3>3. QED
      BY <3>1, <3>2
  <2>3. QED
    BY <2>1, <2>2
<1>3. f = c
  BY <1>1, <1>2, SeqEqual
<1>4. QED
  BY <1>3 DEF f

(* What getResult takes off a list, and what is left.                      *)
LEMMA RestIds ==
  ASSUME NEW s \in Senders, m_events \in [Senders -> Seq(Ranges)],
         m_events[s] # <<>>, ListOK(m_events[s])
  PROVE  /\ FrontId(s) \in L1Ids /\ Rest(s) \in Seq(Ranges)
         /\ ListOK(Rest(s))
         /\ IdsOf(m_events[s]) = <<FrontId(s)>> \o IdsOf(Rest(s))
<1> DEFINE q == m_events[s]
           x == Head(q)
           t == Tail(q)
           a == x[1]
           b == x[2]
           N == EcrSize * Epochs
<1>1. /\ q \in Seq(Ranges) /\ q # <<>> /\ x \in Ranges /\ t \in Seq(Ranges)
      /\ q = <<x>> \o t /\ x = q[1]
      /\ \A i \in DOMAIN t : i + 1 \in DOMAIN q /\ t[i] = q[i + 1]
  OBVIOUS
<1>2. N \in Nat \ {0} /\ L1Ids = 0..(N - 1)
  BY L1IdsNumber DEF L1Ids
<1>3. a <= b /\ b + 1 \in L1Ids
  BY <1>1 DEF ListOK, RangeOK
<1>4. ListOK(t)
  BY <1>1 DEF ListOK
<1>5. FrontId(s) = a /\ x = <<a, b>> /\ a \in L1Ids /\ b \in L1Ids
  BY <1>1 DEF FrontId, Ranges
<1>6. Rest(s) = (IF NextId(a) > b THEN <<>> ELSE <<<<NextId(a), b>>>>) \o t
  BY <1>5 DEF Rest
<1>7. NextId(a) = a + 1 /\ a + 1 \in L1Ids
  <2>1. NextId(a) = (a + 1) % N
    BY DEF NextId
  <2> HIDE DEF N, a, b
  <2>2. a + 1 \in 0..(N - 1)
    BY <1>2, <1>3, <1>5
  <2>3. (a + 1) % N = a + 1
    BY <1>2, <2>2, ModSmall
  <2>4. QED
    BY <1>2, <2>1, <2>2, <2>3
<1>8. IdsOf(q) = IdsIn(x) \o IdsOf(t) /\ IdsIn(x) \in Seq(L1Ids) /\ IdsOf(t) \in Seq(L1Ids)
  <2>1. IdsOf(<<x>> \o t) = IdsIn(x) \o IdsOf(t)
    BY <1>1, IdsOfCons
  <2>2. QED
    BY <1>1, <2>1, IdsInType, IdsOfType
<1> HIDE DEF x, t, a, b, q, N
<1>9. CASE a = b
  <2>1. NextId(a) > b
    BY <1>2, <1>5, <1>7, <1>9
  <2>2. Rest(s) = t
    BY <1>1, <1>6, <2>1
  <2>3. IdsIn(x) = <<a>>
    <3>1. x[1] = a /\ x[2] = a /\ a \in Int
      BY <1>2, <1>5, <1>9
    <3>2. 1..(x[2] - x[1] + 1) = 1..1
      BY <3>1
    <3>3. IdsIn(x) = [k \in 1..1 |-> a + k - 1]
      BY <3>1, <3>2 DEF IdsIn
    <3>4. [k \in 1..1 |-> a + k - 1] = <<a>>
      BY <3>1
    <3>5. QED
      BY <3>3, <3>4
  <2>4. QED
    BY <1>1, <1>4, <1>5, <1>8, <2>2, <2>3 DEF q
<1>10. CASE a # b
  <2> DEFINE y == <<a + 1, b>>
  <2>1. ~(NextId(a) > b) /\ a + 1 <= b
    BY <1>2, <1>3, <1>5, <1>7, <1>10
  <2>2. y \in Ranges /\ y[1] = a + 1 /\ y[2] = b
    BY <1>5, <1>7 DEF Ranges
  <2>3. Rest(s) = <<y>> \o t
    BY <1>6, <1>7, <2>1
  <2>4. Rest(s) \in Seq(Ranges)
    BY <1>1, <2>2, <2>3
  <2>5. RangeOK(y)
    BY <1>3, <2>1 DEF RangeOK
  <2>6. ListOK(Rest(s))
    <3> HIDE DEF y
    <3>1. ASSUME NEW i \in DOMAIN Rest(s) PROVE RangeOK(Rest(s)[i])
      <4>1. i = 1 => Rest(s)[i] = y
        BY <1>1, <2>2, <2>3
      <4>2. i # 1 => i - 1 \in DOMAIN t /\ Rest(s)[i] = t[i - 1]
        BY <1>1, <2>2, <2>3
      <4>3. QED
        BY <1>4, <2>5, <4>1, <4>2 DEF ListOK
    <3>2. QED
      BY <3>1 DEF ListOK
  <2>7. IdsOf(Rest(s)) = IdsIn(y) \o IdsOf(t) /\ IdsIn(y) \in Seq(L1Ids)
    BY <1>1, <2>2, <2>3, IdsOfCons, IdsInType
  <2> DEFINE u == <<a>>
  <2> HIDE DEF u
  <2>8. IdsIn(x) = u \o IdsIn(y)
    <3>1. x[1] = a /\ x[2] = b /\ a \in Int /\ b \in Int
      BY <1>2, <1>5
    <3> DEFINE n == b - a
    <3>2. n \in Nat /\ x[2] - x[1] + 1 = n + 1 /\ y[2] - y[1] + 1 = n
      BY <2>1, <2>2, <3>1
    <3>3. IdsIn(x) = [k \in 1..(n + 1) |-> a + k - 1]
      BY <3>1, <3>2 DEF IdsIn
    <3>4. IdsIn(y) = [k \in 1..n |-> (a + 1) + k - 1]
      BY <2>2, <3>2 DEF IdsIn
    <3>5. /\ IdsIn(x) \in Seq(L1Ids) /\ Len(IdsIn(x)) = n + 1
          /\ \A k \in 1..(n + 1) : IdsIn(x)[k] = a + k - 1
      BY <1>8, <3>2, <3>3
    <3>6. /\ IdsIn(y) \in Seq(L1Ids) /\ Len(IdsIn(y)) = n
          /\ \A k \in 1..n : IdsIn(y)[k] = a + k
      <4>1. \A k \in 1..n : (a + 1) + k - 1 = a + k
        BY <3>1, <3>2
      <4> HIDE DEF n, y
      <4>2. QED
        BY <2>7, <3>2, <3>4, <4>1
    <3> HIDE DEF n, y
    <3>7. IdsIn(x)[1] = a
      BY <3>1, <3>2, <3>5
    <3>8. \A m \in 1..n : IdsIn(x)[m + 1] = IdsIn(y)[m]
      BY <3>1, <3>2, <3>5, <3>6
    <3>9. <<a>> \o IdsIn(y) = IdsIn(x)
      BY <1>5, <3>2, <3>5, <3>6, <3>7, <3>8, IdsCons
    <3>10. QED
      BY <3>9 DEF u
  <2>9. (u \o IdsIn(y)) \o IdsOf(t) = u \o (IdsIn(y) \o IdsOf(t))
    <3>1. u \in Seq(L1Ids)
      BY <1>5 DEF u
    <3>2. QED
      BY <1>8, <2>7, <3>1, IdsAssoc, Zenon
  <2>10. QED
    BY <1>5, <1>8, <2>4, <2>6, <2>7, <2>8, <2>9 DEF q, u
<1>11. QED
  BY <1>9, <1>10

-----------------------------------------------------------------------------
(* The ranges of a list are the triggers that its sender has reported.     *)

(* A multiple is divided without remainder.                                *)
LEMMA DivExact ==
  ASSUME NEW n \in Nat \ {0}, NEW a \in Nat
  PROVE  (n * a) \div n = a
BY SMTT(30)

(* Where m_last_id stands.                                                 *)
LastId(r) == IF r = 0 THEN EcrSize * (Epochs - 1) ELSE Triggers[r]

(* A report becomes the range of the triggers it tells of, unless only the *)
(* first of them begins an epoch or a run, and not in the epoch where      *)
(* m_last_id stands.                                                       *)
LEMMA ReportIds ==
  ASSUME NEW s \in Senders, NEW n \in 1..Len(Triggers), NEW r \in 0..(n - 1),
         m_last_id \in [Senders -> L1Ids], m_last_id[s] = LastId(r),
         \A i \in (r + 2)..n : ~Begins(i),
         Begins(r + 1) => Epoch(Triggers[r + 1]) # Epoch(m_last_id[s])
  PROVE  /\ <<First(s, Triggers[n]), Triggers[n]>> \in Ranges
         /\ RangeOK(<<First(s, Triggers[n]), Triggers[n]>>)
         /\ IdsIn(<<First(s, Triggers[n]), Triggers[n]>>) = SubSeq(Triggers, r + 1, n)
<1> DEFINE T == Triggers
           first == First(s, T[n])
           last == T[n]
           N == EcrSize * Epochs
<1>1. /\ T \in Seq(L1Ids) /\ Len(T) \in Nat /\ DOMAIN T = 1..Len(T)
      /\ \A i \in 1..Len(T) : T[i] \in L1Ids
      /\ EcrSize \in Nat \ {0} /\ Epochs \in Nat \ {0}
  BY SourceAssumption
<1>2. N \in Nat \ {0} /\ L1Ids = 0..(N - 1)
  BY L1IdsNumber DEF L1Ids
<1>3. \A i \in 1..Len(T) : T[i] + 1 \in L1Ids
  BY <1>1, TriggerAssumption
<1>4. \A i \in 1..Len(T) :
        \/ Begins(i)
        \/ i > 1 /\ Epoch(T[i]) = Epoch(T[i - 1]) /\ T[i] = T[i - 1] + 1
  BY <1>1, TriggerAssumption
<1>5. /\ r \in Nat /\ n \in Nat /\ r + 1 \in 1..Len(T) /\ n \in 1..Len(T)
      /\ r + 1 \in (r + 1)..n /\ r # 0 => r \in 1..Len(T)
  BY <1>1
<1>a. ASSUME NEW i \in (r + 2)..n
      PROVE  /\ Epoch(T[i]) = Epoch(T[i - 1]) /\ T[i] = T[i - 1] + 1
             /\ i - 1 \in (r + 1)..n
  <2>1. i \in 1..Len(T) /\ i - 1 \in (r + 1)..n
    BY <1>5
  <2>2. QED
    BY <1>4, <2>1
<1>b. Epoch(T[r + 1]) = Epoch(T[n])
  <2> DEFINE M == {k \in Nat : k <= n - r - 1 => Epoch(T[r + 1 + k]) = Epoch(T[r + 1])}
  <2>1. 0 \in M
    <3>1. r + 1 + 0 = r + 1
      BY <1>5
    <3>2. QED
      BY <3>1
  <2>2. ASSUME NEW k \in Nat, k \in M PROVE k + 1 \in M
    <3>1. SUFFICES ASSUME k + 1 <= n - r - 1
                   PROVE  Epoch(T[r + 1 + (k + 1)]) = Epoch(T[r + 1])
      OBVIOUS
    <3>2. /\ r + 1 + (k + 1) \in (r + 2)..n /\ (r + 1 + (k + 1)) - 1 = r + 1 + k
          /\ k <= n - r - 1
      BY <1>5, <3>1
    <3>3. Epoch(T[r + 1 + (k + 1)]) = Epoch(T[r + 1 + k])
      BY <1>a, <3>2
    <3>4. Epoch(T[r + 1 + k]) = Epoch(T[r + 1])
      BY <2>2, <3>2
    <3>5. QED
      BY <3>3, <3>4
  <2> HIDE DEF M
  <2>3. Nat \subseteq M
    BY <2>1, <2>2, SetInduction
  <2>4. n - r - 1 \in Nat /\ r + 1 + (n - r - 1) = n
    BY <1>5
  <2>5. n - r - 1 \in M
    BY <2>3, <2>4
  <2>6. QED
    BY <2>4, <2>5 DEF M
<1>6. first = T[r + 1]
  <2>1. CASE Begins(r + 1)
    <3>1. first = Epoch(T[n]) * EcrSize
      BY <1>b, <2>1 DEF First
    <3>2. T[r + 1] = Epoch(T[r + 1]) * EcrSize
      BY <2>1 DEF Begins
    <3>3. QED
      BY <1>b, <3>1, <3>2
  <2>2. CASE ~Begins(r + 1)
    <3>1. r + 1 > 1 /\ Epoch(T[r + 1]) = Epoch(T[(r + 1) - 1])
          /\ T[r + 1] = T[(r + 1) - 1] + 1
      BY <1>4, <1>5, <2>2
    <3>2. (r + 1) - 1 = r /\ r # 0
      BY <1>5, <3>1
    <3>3. m_last_id[s] = T[r]
      BY <3>2 DEF LastId
    <3>4. NextId(T[r]) = T[r] + 1
      <4>1. T[r] + 1 \in 0..(N - 1)
        BY <1>2, <1>3, <1>5, <3>2
      <4> DEFINE k == T[r] + 1
      <4>2. NextId(T[r]) = k % N
        BY DEF NextId
      <4> HIDE DEF k, N
      <4>3. k % N = k
        BY <1>2, <4>1, ModSmall DEF k
      <4>4. QED
        BY <4>2, <4>3 DEF k
    <3>5. Epoch(m_last_id[s]) = Epoch(T[n])
      BY <1>b, <3>1, <3>2, <3>3
    <3>6. first = NextId(m_last_id[s])
      BY <3>5 DEF First
    <3>7. QED
      BY <3>1, <3>2, <3>3, <3>4, <3>6
  <2>3. QED
    BY <2>1, <2>2
<1> HIDE DEF T, first, last, N
<1> DEFINE K == {k \in Nat : k <= n - r - 1 => T[r + 1 + k] = first + k}
<1>7. Nat \subseteq K
  <2>1. T[r + 1] \in Int /\ first \in Int
    BY <1>1, <1>2, <1>5, <1>6
  <2>2. 0 \in K
    <3>1. r + 1 + 0 = r + 1 /\ first + 0 = first
      BY <1>5, <2>1
    <3>2. QED
      BY <1>6, <3>1
  <2>3. ASSUME NEW k \in Nat, k \in K PROVE k + 1 \in K
    <3>1. SUFFICES ASSUME k + 1 <= n - r - 1 PROVE T[r + 1 + (k + 1)] = first + (k + 1)
      OBVIOUS
    <3> DEFINE i == r + 1 + (k + 1)
    <3>2. i \in (r + 2)..n /\ i - 1 = r + 1 + k /\ k <= n - r - 1
      BY <1>5, <3>1
    <3>3. T[i - 1] = first + k
      BY <2>3, <3>2
    <3> HIDE DEF i
    <3>4. T[i] = T[i - 1] + 1
      BY <1>a, <3>2
    <3>5. QED
      BY <2>1, <3>3, <3>4 DEF i
  <2>4. QED
    <3> HIDE DEF K
    <3>1. QED
      BY <2>2, <2>3, SetInduction
<1>8. \A k \in Nat : k <= n - r - 1 => T[r + 1 + k] = first + k
  BY <1>7
<1> HIDE DEF K
<1>9. first \in Nat /\ last \in Nat /\ last = first + (n - r - 1) /\ n - r - 1 \in Nat
  <2>1. n - r - 1 \in Nat /\ r + 1 + (n - r - 1) = n
    BY <1>5
  <2>2. T[n] = first + (n - r - 1)
    BY <1>8, <2>1
  <2>3. QED
    BY <1>1, <1>2, <1>5, <1>6, <2>1, <2>2 DEF last
<1>10. first \in L1Ids /\ last \in L1Ids /\ first <= last /\ last + 1 \in L1Ids
  BY <1>1, <1>3, <1>5, <1>6, <1>9 DEF last
<1> DEFINE x == <<first, last>>
<1>11. x \in Ranges /\ RangeOK(x) /\ x[1] = first /\ x[2] = last
  BY <1>10 DEF Ranges, RangeOK
<1>12. IdsIn(x) = SubSeq(T, r + 1, n)
  <2>1. last - first + 1 = n - r /\ n - r \in Nat
    BY <1>5, <1>9
  <2>2. IdsIn(x) = [k \in 1..(n - r) |-> first + k - 1]
    BY <2>1 DEF IdsIn
  <2>3. /\ IdsIn(x) \in Seq(L1Ids) /\ Len(IdsIn(x)) = n - r
        /\ \A k \in 1..(n - r) : IdsIn(x)[k] = first + k - 1
    <3>1. IdsIn(x) \in Seq(L1Ids)
      BY <1>11, IdsInType
    <3> DEFINE f == IdsIn(x)
               m == n - r
    <3>2. DOMAIN f = 1..m /\ \A k \in 1..m : f[k] = first + k - 1
      BY <2>2
    <3>3. f \in Seq(L1Ids) /\ m \in Nat
      BY <2>1, <3>1
    <3> HIDE DEF f, m
    <3>4. Len(f) = m
      BY <3>2, <3>3, LenUnique
    <3>5. QED
      BY <3>2, <3>3, <3>4 DEF f, m
  <2> HIDE DEF x
  <2> DEFINE u == SubSeq(T, r + 1, n)
  <2>4. /\ u \in Seq(L1Ids) /\ Len(u) = n - r
        /\ \A k \in 1..(n - r) : u[k] = T[r + k]
    BY <1>1, <1>5, SubSeqIs
  <2> HIDE DEF u
  <2>5. ASSUME NEW k \in 1..(n - r) PROVE IdsIn(x)[k] = u[k]
    <3>1. k - 1 \in Nat /\ k - 1 <= n - r - 1 /\ r + 1 + (k - 1) = r + k
      BY <1>5, <2>1
    <3>2. T[r + 1 + (k - 1)] = first + (k - 1)
      BY <1>8, <3>1
    <3>3. QED
      BY <1>9, <2>3, <2>4, <3>1, <3>2
  <2>6. IdsIn(x) = u
    BY <2>1, <2>3, <2>4, <2>5, SeqEqual
  <2>7. QED
    BY <2>6 DEF u
<1>13. QED
  BY <1>11, <1>12 DEF T, first, last

(* One sender: what was taken off its list and what waits there are the    *)
(* triggers after the b-th up to the r-th, which it has reported last.     *)
InOrder(t, q, b, r) == t \o IdsOf(q) = SubSeq(Triggers, b + 1, r)

SenderOK(last, b, r, sk, t, q) ==
  /\ last = LastId(r)
  /\ b <= r
  /\ ~sk => ListOK(q) /\ InOrder(t, q, b, r)

OrderInv == \A s \in Senders :
  SenderOK(m_last_id[s], base[s], reported[s], skipped[s], taken[s], m_events[s])

(* OrderInv with the variables after a step.                               *)
LEMMA OrderInvNext ==
  OrderInv' <=> \A s \in Senders :
    SenderOK(m_last_id'[s], base'[s], reported'[s], skipped'[s], taken'[s], m_events'[s])
BY DEF OrderInv, SenderOK, InOrder, ListOK, LastId, RangeOK, L1Ids, IdsOf, IdsIn

(* Nothing is taken and nothing waits.                                     *)
LEMMA NothingInOrder ==
  ASSUME NEW r \in 0..Len(Triggers)
  PROVE  InOrder(<<>>, <<>>, r, r) /\ ListOK(<<>>)
<1>1. SubSeq(Triggers, r + 1, r) = <<>>
  BY SourceAssumption
<1>2. <<>> \o <<>> = <<>>
  OBVIOUS
<1>3. InOrder(<<>>, <<>>, r, r)
  BY <1>1, <1>2, IdsOfEmpty, Zenon DEF InOrder
<1>4. ListOK(<<>>)
  BY DEF ListOK
<1>5. QED
  BY <1>3, <1>4

(* Nothing has been reported at the start.                                 *)
LEMMA OrderInit == Init => OrderInv
<1> SUFFICES ASSUME Init, NEW s \in Senders
             PROVE  SenderOK(m_last_id[s], base[s], reported[s], skipped[s],
                             taken[s], m_events[s])
  BY DEF OrderInv
<1>1. /\ m_last_id[s] = EcrSize * (Epochs - 1) /\ base[s] = 0 /\ reported[s] = 0
      /\ taken[s] = <<>> /\ m_events[s] = <<>>
  BY DEF Init
<1>2. 0 \in 0..Len(Triggers)
  BY SourceAssumption
<1>3. InOrder(<<>>, <<>>, 0, 0) /\ ListOK(<<>>)
  BY <1>2, NothingInOrder
<1>4. QED
  BY <1>1, <1>3 DEF SenderOK, LastId

(* A report: its range follows what was there.                             *)
LEMMA OrderReceive ==
  ASSUME TypeOK, OrderInv, NEW s \in Senders, NEW n \in DOMAIN Triggers, onReceive(s, n)
  PROVE  OrderInv'
<1> DEFINE x == <<First(s, Triggers[n]), Triggers[n]>>
           r == reported[s]
           b == base[s]
           q == m_events[s]
           t == taken[s]
<1>1. /\ m_last_id \in [Senders -> L1Ids] /\ m_events \in [Senders -> Seq(Ranges)]
      /\ reported \in [Senders -> 0..Len(Triggers)]
      /\ base \in [Senders -> 0..Len(Triggers)]
      /\ taken \in [Senders -> Seq(L1Ids)] /\ skipped \in [Senders -> BOOLEAN]
      /\ n \in 1..Len(Triggers) /\ Len(Triggers) \in Nat /\ Triggers \in Seq(L1Ids)
  BY SourceAssumption DEF TypeOK, Ranges
<1>2. /\ n > r
      /\ m_events' = [m_events EXCEPT ![s] = Append(@, x)]
      /\ m_last_id' = [m_last_id EXCEPT ![s] = Triggers[n]]
      /\ reported' = [reported EXCEPT ![s] = n]
      /\ skipped' = [skipped EXCEPT ![s] = @ \/ Missed(s, n)]
      /\ base' = base /\ taken' = taken
  BY DEF onReceive, insert
<1>3. \A u \in Senders :
        SenderOK(m_last_id[u], base[u], reported[u], skipped[u], taken[u], m_events[u])
  BY DEF OrderInv
<1>4. ASSUME NEW u \in Senders, u # s
      PROVE  SenderOK(m_last_id'[u], base'[u], reported'[u], skipped'[u], taken'[u],
                      m_events'[u])
  <2>1. /\ m_last_id'[u] = m_last_id[u] /\ base'[u] = base[u] /\ reported'[u] = reported[u]
        /\ skipped'[u] = skipped[u] /\ taken'[u] = taken[u] /\ m_events'[u] = m_events[u]
    BY <1>1, <1>2, <1>4
  <2>2. QED
    BY <1>3, <2>1
<1>5. SenderOK(m_last_id'[s], base'[s], reported'[s], skipped'[s], taken'[s], m_events'[s])
  <2>1. /\ r \in 0..(n - 1) /\ r \in Nat /\ b \in Nat /\ q \in Seq(Ranges) /\ t \in Seq(L1Ids)
        /\ n \in Nat /\ r <= n /\ n <= Len(Triggers)
    BY <1>1, <1>2
  <2>2. /\ m_last_id'[s] = Triggers[n] /\ base'[s] = b /\ reported'[s] = n
        /\ taken'[s] = t /\ m_events'[s] = Append(q, x)
    BY <1>1, <1>2
  <2>3. m_last_id[s] = LastId(r) /\ b <= r /\ (~skipped[s] => ListOK(q) /\ InOrder(t, q, b, r))
    BY <1>3 DEF SenderOK
  <2>4. Triggers[n] = LastId(n)
    BY <1>1 DEF LastId
  <2>5. b <= n
    BY <2>1, <2>3
  <2>6. ASSUME ~skipped'[s]
        PROVE  ListOK(Append(q, x)) /\ InOrder(t, Append(q, x), b, n)
    <3>1. ~skipped[s] /\ ~Missed(s, n)
      <4>1. skipped'[s] = (skipped[s] \/ Missed(s, n))
        BY <1>1, <1>2
      <4>2. QED
        BY <2>6, <4>1
    <3>2. (r + 1) + 1 = r + 2
      BY <2>1
    <3>3. /\ \A i \in (r + 2)..n : ~Begins(i)
          /\ Begins(r + 1) => Epoch(Triggers[r + 1]) # Epoch(m_last_id[s])
      BY <3>1, <3>2, Zenon DEF Missed
    <3>4. x \in Ranges /\ RangeOK(x) /\ IdsIn(x) = SubSeq(Triggers, r + 1, n)
      <4> HIDE DEF r
      <4>1. r \in 0..(n - 1) /\ m_last_id[s] = LastId(r)
        BY <2>1, <2>3
      <4>2. QED
        BY <1>1, <3>3, <4>1, ReportIds
    <3> HIDE DEF x, q, t, b, r
    <3>5. ListOK(Append(q, x))
      <4>1. ListOK(q)
        BY <2>3, <3>1
      <4>2. \A i \in DOMAIN Append(q, x) :
              Append(q, x)[i] = IF i \in DOMAIN q THEN q[i] ELSE x
        BY <2>1, <3>4
      <4>3. QED
        BY <3>4, <4>1, <4>2 DEF ListOK
    <3>6. IdsOf(Append(q, x)) = IdsOf(q) \o IdsIn(x)
      BY <2>1, <3>4, IdsOfAppend
    <3>7. t \o (IdsOf(q) \o IdsIn(x)) = (t \o IdsOf(q)) \o IdsIn(x)
      <4>1. IdsOf(q) \in Seq(L1Ids) /\ IdsIn(x) \in Seq(L1Ids)
        BY <2>1, <3>4, IdsOfType, IdsInType
      <4>2. QED
        BY <2>1, <4>1, IdsAssoc, Zenon
    <3>8. t \o IdsOf(q) = SubSeq(Triggers, b + 1, r)
      BY <2>3, <3>1 DEF InOrder
    <3>9. SubSeq(Triggers, b + 1, r) \o SubSeq(Triggers, r + 1, n) = SubSeq(Triggers, b + 1, n)
      BY <1>1, <2>1, <2>3, SubSeqSplit
    <3>10. InOrder(t, Append(q, x), b, n)
      BY <3>4, <3>6, <3>7, <3>8, <3>9, Zenon DEF InOrder
    <3>11. QED
      BY <3>5, <3>10
  <2>7. QED
    BY <2>2, <2>4, <2>5, <2>6 DEF SenderOK
<1>6. QED
  BY <1>4, <1>5, OrderInvNext

(* An event: its ID goes from the front of every list to the end of what   *)
(* was taken off it.                                                       *)
LEMMA OrderDeliver ==
  ASSUME TypeOK, OrderInv, Deliver
  PROVE  OrderInv'
<1>1. /\ m_events \in [Senders -> Seq(Ranges)] /\ known \subseteq Senders
      /\ taken \in [Senders -> Seq(L1Ids)]
  BY DEF TypeOK, Ranges
<1>2. /\ \A s \in known : m_events[s] # <<>>
      /\ m_events' = [s \in Senders |-> IF s \in known THEN Rest(s) ELSE m_events[s]]
      /\ taken' = [s \in Senders |-> IF s \in known THEN Append(taken[s], FrontId(s))
                                                    ELSE taken[s]]
      /\ m_last_id' = m_last_id /\ base' = base /\ reported' = reported /\ skipped' = skipped
  BY DEF Deliver, senderVars
<1>3. SUFFICES ASSUME NEW s \in Senders
               PROVE  SenderOK(m_last_id'[s], base'[s], reported'[s], skipped'[s], taken'[s],
                               m_events'[s])
  BY OrderInvNext
<1>4. SenderOK(m_last_id[s], base[s], reported[s], skipped[s], taken[s], m_events[s])
  BY DEF OrderInv
<1>5. CASE s \notin known
  BY <1>2, <1>4, <1>5
<1>6. CASE s \in known
  <2> DEFINE t == taken[s]
             q == m_events[s]
             p == Rest(s)
             id == FrontId(s)
  <2>1. m_events'[s] = p /\ taken'[s] = Append(t, id)
    BY <1>2, <1>6
  <2>2. ASSUME ~skipped[s]
        PROVE  ListOK(p) /\ InOrder(Append(t, id), p, base[s], reported[s])
    <3>1. ListOK(q) /\ InOrder(t, q, base[s], reported[s])
      BY <1>4, <2>2 DEF SenderOK
    <3>2. /\ id \in L1Ids /\ p \in Seq(Ranges) /\ ListOK(p)
          /\ IdsOf(q) = <<id>> \o IdsOf(p)
      BY <1>1, <1>2, <1>6, <3>1, RestIds
    <3>3. t \in Seq(L1Ids) /\ IdsOf(p) \in Seq(L1Ids)
      BY <1>1, <3>2, IdsOfType
    <3> HIDE DEF t, q, p, id
    <3>4. Append(t, id) \o IdsOf(p) = t \o (<<id>> \o IdsOf(p))
      BY <3>2, <3>3, CatMove
    <3>5. InOrder(Append(t, id), p, base[s], reported[s])
      BY <3>1, <3>2, <3>4, Zenon DEF InOrder
    <3>6. QED
      BY <3>2, <3>5
  <2>3. QED
    BY <1>2, <1>4, <2>1, <2>2 DEF SenderOK
<1>7. QED
  BY <1>5, <1>6

(* A reset of the lists, and everything else.                              *)
LEMMA OrderReset ==
  ASSUME TypeOK, OrderInv, ResetEvents
  PROVE  OrderInv'
<1>1. /\ m_events' = [s \in Senders |-> <<>>] /\ taken' = [s \in Senders |-> <<>>]
      /\ base' = reported
      /\ m_last_id' = m_last_id /\ reported' = reported
  BY DEF ResetEvents, senderVars
<1>2. SUFFICES ASSUME NEW s \in Senders
               PROVE  SenderOK(m_last_id'[s], base'[s], reported'[s], skipped'[s], taken'[s],
                               m_events'[s])
  BY OrderInvNext
<1>3. m_last_id[s] = LastId(reported[s]) /\ reported[s] \in 0..Len(Triggers)
  BY DEF OrderInv, SenderOK, TypeOK
<1>4. InOrder(<<>>, <<>>, reported[s], reported[s]) /\ ListOK(<<>>)
  BY <1>3, NothingInOrder
<1>5. reported[s] <= reported[s]
  BY <1>3
<1>6. m_events'[s] = <<>> /\ taken'[s] = <<>> /\ base'[s] = reported[s]
  BY <1>1
<1>7. QED
  BY <1>1, <1>3, <1>4, <1>5, <1>6 DEF SenderOK

(* Every step preserves OrderInv.                                          *)
LEMMA OrderStep ==
  ASSUME TypeOK, OrderInv, [Next]_vars
  PROVE  OrderInv'
<1>1. ASSUME UNCHANGED <<m_last_id, base, reported, skipped, taken, m_events>>
      PROVE  OrderInv'
  <2>1. \A s \in Senders :
          SenderOK(m_last_id[s], base[s], reported[s], skipped[s], taken[s], m_events[s])
    BY DEF OrderInv
  <2>2. QED
    BY <1>1, <2>1, OrderInvNext
<1>2. ASSUME NEW s \in Senders, onAccept(s) \/ asyncClose(s) PROVE OrderInv'
  BY <1>1, <1>2 DEF onAccept, asyncClose, historyVars
<1>3. CASE TestXoff \/ SetOff \/ \E s \in Senders : SendXoff(s)
  BY <1>1, <1>3 DEF TestXoff, SetOff, SendXoff, senderVars, historyVars
<1>4. CASE TestXon \/ SetOn \/ NoEvent \/ Crash \/ \E s \in Senders : SendXon(s)
  BY <1>1, <1>4 DEF TestXon, SetOn, NoEvent, Crash, SendXon, senderVars, historyVars
<1>5. CASE StopRun \/ ResetCount \/ StartRun
  BY <1>1, <1>5 DEF StopRun, ResetCount, StartRun, senderVars, historyVars
<1>6. CASE UNCHANGED vars
  BY <1>1, <1>6 DEF vars
<1>7. QED
  BY <1>2, <1>3, <1>4, <1>5, <1>6, OrderReceive, OrderDeliver, OrderReset
     DEF Next, IoStep, L1Step

(* The IDs that were taken off a sender's list since the last reset and    *)
(* those that wait there are the triggers it reported since then, in order *)
(* and without a gap, for any number of senders, reports, ECRs and runs,   *)
(* provided that since that reset it reported the last trigger before each *)
(* ECR and of each run, no run began in the epoch of its last report, and  *)
(* its first report of all was not of the last epoch.                      *)
THEOREM NoIdMissing == Spec => []NoGap
<1>1. OrderInv => NoGap
  BY DEF OrderInv, SenderOK, InOrder, NoGap, Waiting
<1>2. Init => TypeInv /\ OrderInv
  BY TypeInit, OrderInit
<1>3. TypeInv /\ OrderInv /\ [Next]_vars => (TypeInv /\ OrderInv)'
  BY TypeStep, OrderStep DEF TypeInv
<1>4. QED
  BY <1>1, <1>2, <1>3, PTL DEF Spec

-----------------------------------------------------------------------------
(* What m_event_count counts.                                              *)

(* Quotient and remainder.                                                 *)
LEMMA ModIs ==
  ASSUME NEW a \in Int, NEW n \in Nat \ {0}
  PROVE  /\ a = n * (a \div n) + (a % n)
         /\ a \div n \in Int /\ a % n \in 0..(n - 1)
BY SMTT(30)

(* A number given by quotient and remainder.                               *)
LEMMA ModOf ==
  ASSUME NEW n \in Nat \ {0}, NEW q \in Int, NEW r \in 0..(n - 1)
  PROVE  (n * q + r) % n = r
BY SMTT(30)

(* Multiples of the modulus do not change the remainder.                   *)
LEMMA ModUnique ==
  ASSUME NEW n \in Nat \ {0}, NEW q \in Int, NEW r \in Int
  PROVE  (n * q + r) % n = r % n
<1> DEFINE p == r \div n
           t == r % n
<1>1. r = n * p + t /\ p \in Int /\ t \in 0..(n - 1)
  BY ModIs
<1> HIDE DEF p, t
<1>2. n * q + r = n * (q + p) + t /\ q + p \in Int
  BY <1>1, SMTT(30)
<1>3. (n * (q + p) + t) % n = t
  BY <1>1, <1>2, ModOf
<1>4. QED
  BY <1>2, <1>3 DEF t

(* A sum of remainders, as m_event_count is kept.                          *)
LEMMA ModAdd ==
  ASSUME NEW a \in Int, NEW b \in Int, NEW n \in Nat \ {0}
  PROVE  ((a % n) + b) % n = (a + b) % n
<1> DEFINE q == a \div n
           r == a % n
<1>1. a = n * q + r /\ q \in Int /\ r \in Int
  BY ModIs
<1> HIDE DEF q, r
<1>2. a + b = n * q + (r + b) /\ r + b \in Int
  BY <1>1
<1>3. (n * q + (r + b)) % n = (r + b) % n
  BY <1>1, <1>2, ModUnique
<1>4. QED
  BY <1>2, <1>3 DEF r

(* The places in the lists where an ID waits.                              *)
Places(E) == UNION {{s} \X DOMAIN IdsOf(E[s]) : s \in Senders}

(* n more IDs on one list, and n more places.                              *)
Longer(E, F, s, n) ==
  /\ \E a \in Nat : DOMAIN IdsOf(E[s]) = 1..a /\ DOMAIN IdsOf(F[s]) = 1..(a + n)
  /\ \A u \in Senders \ {s} : F[u] = E[u]

Larger(E, F, n) ==
  /\ IsFiniteSet(Places(E)) /\ IsFiniteSet(Places(F))
  /\ Cardinality(Places(E)) \in Nat
  /\ Cardinality(Places(F)) = Cardinality(Places(E)) + n

(* One list that is longer by n means n more places.                       *)
LEMMA MorePlaces ==
  ASSUME NEW E, NEW F, NEW s \in Senders, NEW n \in Nat, Longer(E, F, s, n),
         IsFiniteSet(Places(E)) \/ IsFiniteSet(Places(F))
  PROVE  Larger(E, F, n)
<1>0. PICK a \in Nat : DOMAIN IdsOf(E[s]) = 1..a /\ DOMAIN IdsOf(F[s]) = 1..(a + n)
  BY DEF Longer
<1> DEFINE I == (a + 1)..(a + n)
           N == {s} \X I
<1>1. IsFiniteSet(N) /\ Cardinality(N) = n
  <2>1. IsFiniteSet(I) /\ Cardinality(I) = n
    <3>1. a + 1 \in Int /\ a + n \in Int
          /\ (a + 1 > a + n => n = 0) /\ (a + n) - (a + 1) + 1 = n
      OBVIOUS
    <3>2. QED
      BY <3>1, FS_Interval
  <2>2. IsFiniteSet({s}) /\ Cardinality({s}) = 1
    BY FS_Singleton
  <2> HIDE DEF I
  <2>3. IsFiniteSet(N) /\ Cardinality(N) = 1 * n
    BY <2>1, <2>2, FS_Product
  <2>4. QED
    BY <2>3
<1>2. Places(F) = Places(E) \cup N /\ Places(E) \cap N = {}
  <2> DEFINE D(u) == DOMAIN IdsOf(E[u])
             G(u) == DOMAIN IdsOf(F[u])
  <2>1. /\ D(s) = 1..a /\ G(s) = D(s) \cup I /\ D(s) \cap I = {}
        /\ \A u \in Senders \ {s} : G(u) = D(u)
    BY <1>0 DEF Longer
  <2>2. /\ Places(E) = UNION {{u} \X D(u) : u \in Senders}
        /\ Places(F) = UNION {{u} \X G(u) : u \in Senders}
    BY DEF Places
  <2> HIDE DEF D, G, I
  <2>3. Places(F) = Places(E) \cup N
    BY <2>1, <2>2
  <2>4. Places(E) \cap N = {}
    BY <2>1, <2>2
  <2>5. QED
    BY <2>3, <2>4
<1>3. IsFiniteSet(Places(E)) /\ IsFiniteSet(Places(F))
  <2> HIDE DEF N
  <2>1. CASE IsFiniteSet(Places(E))
    BY <1>1, <1>2, <2>1, FS_Union
  <2>2. CASE IsFiniteSet(Places(F))
    BY <1>2, <2>2, FS_Subset
  <2>3. QED
    BY <2>1, <2>2
<1>4. Cardinality(Places(F)) = Cardinality(Places(E)) + Cardinality(N)
  <2>1. Cardinality(Places(E)) \in Nat /\ Cardinality(Places(E) \cap N) = 0
    BY <1>2, <1>3, FS_CardinalityType, FS_EmptySet
  <2> HIDE DEF N
  <2>2. Cardinality(Places(E) \cup N)
          = Cardinality(Places(E)) + Cardinality(N) - Cardinality(Places(E) \cap N)
    BY <1>1, <1>3, FS_Union
  <2>3. QED
    BY <1>1, <1>2, <2>1, <2>2
<1>5. Cardinality(Places(E)) \in Nat
  BY <1>3, FS_CardinalityType
<1>6. QED
  BY <1>1, <1>3, <1>4, <1>5 DEF Larger

(* Lists are as long as the IDs in them.                                   *)
LEMMA LongerList ==
  ASSUME NEW E, NEW F, NEW s \in Senders, NEW l \in Seq(L1Ids), NEW m \in Seq(L1Ids),
         NEW n \in Nat, Len(m) = Len(l) + n, IdsOf(E[s]) = l, IdsOf(F[s]) = m,
         \A u \in Senders \ {s} : F[u] = E[u]
  PROVE  Longer(E, F, s, n)
<1>1. DOMAIN IdsOf(E[s]) = 1..Len(l) /\ DOMAIN IdsOf(F[s]) = 1..(Len(l) + n)
  OBVIOUS
<1>2. Len(l) \in Nat
  OBVIOUS
<1>3. QED
  BY <1>1, <1>2 DEF Longer

(* Empty lists have no places.                                             *)
LEMMA NoPlaces ==
  ASSUME NEW E, \A s \in Senders : E[s] = <<>>
  PROVE  IsFiniteSet(Places(E)) /\ Cardinality(Places(E)) = 0
<1>1. \A s \in Senders : DOMAIN IdsOf(E[s]) = {}
  BY IdsOfEmpty
<1>2. Places(E) = {}
  BY <1>1 DEF Places
<1>3. QED
  BY <1>2, FS_EmptySet

(* The parts of CountInv: the state is exact, and the count is right       *)
(* outside of a reset.                                                     *)
ExactState(E) == (\A s \in Senders : ListOK(E[s])) /\ IsFiniteSet(Places(E))

Counted(E, count) == count = Cardinality(Places(E)) % CountMod

CountInv ==
  /\ resets # 0 => l1 = "off"
  /\ \A s \in Senders \ known : m_events[s] = <<>>
  /\ exact => ExactState(m_events)
  /\ exact /\ resets % 2 # 0 => \A s \in Senders : m_events[s] = <<>>
  /\ exact /\ resets % 2 = 0 => Counted(m_events, m_event_count)

(* CountInv with the variables after a step.                               *)
LEMMA CountInvNext ==
  CountInv' <=>
    /\ resets' # 0 => l1' = "off"
    /\ \A s \in Senders \ known' : m_events'[s] = <<>>
    /\ exact' => ExactState(m_events')
    /\ exact' /\ resets' % 2 # 0 => \A s \in Senders : m_events'[s] = <<>>
    /\ exact' /\ resets' % 2 = 0 => Counted(m_events', m_event_count')
BY DEF CountInv, ExactState, Counted, Places, ListOK, RangeOK, L1Ids, IdsOf, IdsIn

(* The count and the lists are empty at the start.                         *)
LEMMA CountInit == Init => CountInv
<1> SUFFICES ASSUME Init PROVE CountInv
  OBVIOUS
<1>1. resets = 0 /\ m_event_count = 0 /\ \A s \in Senders : m_events[s] = <<>>
  BY DEF Init
<1>2. IsFiniteSet(Places(m_events)) /\ Cardinality(Places(m_events)) = 0
  BY <1>1, NoPlaces
<1>3. \A s \in Senders : ListOK(m_events[s])
  BY <1>1 DEF ListOK
<1>4. 0 % CountMod = 0
  BY SourceAssumption
<1>5. QED
  BY <1>1, <1>2, <1>3, <1>4 DEF CountInv, ExactState, Counted

(* A report adds its range to the list and its length to the count.        *)
LEMMA CountReceive ==
  ASSUME TypeOK, CountInv, NEW s \in Senders, NEW n \in DOMAIN Triggers, onReceive(s, n)
  PROVE  CountInv'
<1> DEFINE first == First(s, Triggers[n])
           last == Triggers[n]
           x == <<first, last>>
           q == m_events[s]
           E == m_events
           F == m_events'
<1>1. /\ E \in [Senders -> Seq(Ranges)] /\ q \in Seq(Ranges)
      /\ last \in L1Ids /\ first \in L1Ids /\ last + 1 \in L1Ids
      /\ m_event_count \in Nat /\ exact \in BOOLEAN
  BY FirstType, TriggerAssumption, SourceAssumption DEF TypeOK, Ranges
<1>2. /\ known' = known \cup {s}
      /\ F = [E EXCEPT ![s] = Append(@, x)]
      /\ m_event_count' = (m_event_count + last - first + 1) % CountMod
      /\ exact' = (exact /\ resets % 2 = 0 /\ first <= last)
      /\ resets' = resets /\ l1' = l1
  BY DEF onReceive, insert
<1>3. first \in Nat /\ last \in Nat
  BY <1>1, L1IdsAreNumbers
<1>4. ASSUME exact'
      PROVE  ExactState(F) /\ Counted(F, m_event_count')
  <2>1. /\ exact /\ resets % 2 = 0 /\ first <= last
        /\ ExactState(E) /\ Counted(E, m_event_count)
    BY <1>2, <1>4 DEF CountInv
  <2>2. x \in Ranges /\ RangeOK(x)
    BY <1>1, <2>1 DEF Ranges, RangeOK
  <2> DEFINE m == last - first + 1
  <2>3. IdsIn(x) \in Seq(L1Ids) /\ DOMAIN IdsIn(x) = 1..m /\ m \in Nat
    <3>1. m \in Nat
      BY <1>3, <2>1
    <3>2. IdsIn(x) \in Seq(L1Ids)
      BY <2>2, IdsInType
    <3>3. x[1] = first /\ x[2] = last
      OBVIOUS
    <3>4. DOMAIN IdsIn(x) = 1..(x[2] - x[1] + 1)
      BY DEF IdsIn
    <3>5. QED
      BY <3>1, <3>2, <3>3, <3>4
  <2>4. IdsOf(q) \in Seq(L1Ids) /\ IdsOf(Append(q, x)) = IdsOf(q) \o IdsIn(x)
    BY <1>1, <2>2, IdsOfType, IdsOfAppend
  <2>5. Len(IdsIn(x)) = m
    <3> HIDE DEF m, x
    <3>1. QED
      BY <2>3, LenUnique
  <2>7. \A u \in Senders \ {s} : F[u] = E[u]
    BY <1>1, <1>2
  <2>8. IsFiniteSet(Places(E))
    BY <2>1 DEF ExactState
  <2> DEFINE C == Cardinality(Places(E))
  <2>9. /\ IsFiniteSet(Places(F)) /\ C \in Nat
        /\ Cardinality(Places(F)) = C + m
    <3>1. F[s] = Append(q, x)
      BY <1>1, <1>2
    <3> DEFINE u == IdsOf(q)
               v == IdsIn(x)
               w == IdsOf(F[s])
    <3>2. u \in Seq(L1Ids) /\ v \in Seq(L1Ids) /\ Len(v) = m /\ w = u \o v /\ IdsOf(E[s]) = u
      BY <2>3, <2>4, <2>5, <3>1
    <3> HIDE DEF u, v, w, E, F, m, q, x
    <3>3. w \in Seq(L1Ids) /\ Len(w) = Len(u) + m
      <4>1. u \o v \in Seq(L1Ids) /\ Len(u \o v) = Len(u) + Len(v)
        BY <3>2, ConcatProperties, Zenon
      <4>2. QED
        BY <3>2, <4>1, Zenon
    <3>4. IdsOf(F[s]) = w /\ m \in Nat
      BY <2>3 DEF w
    <3>5. Longer(E, F, s, m)
      BY <2>7, <3>2, <3>3, <3>4, LongerList
    <3>6. Larger(E, F, m)
      BY <2>8, <3>4, <3>5, MorePlaces, Zenon
    <3>7. QED
      BY <3>6 DEF Larger
  <2>10. \A u \in Senders : ListOK(F[u])
    <3>1. \A u \in Senders : ListOK(E[u])
      BY <2>1 DEF ExactState
    <3>2. \A i \in DOMAIN Append(q, x) : Append(q, x)[i] = IF i \in DOMAIN q THEN q[i] ELSE x
      BY <1>1, <2>2
    <3>3. F[s] = Append(q, x)
      BY <1>1, <1>2
    <3> HIDE DEF x, F
    <3>4. ListOK(F[s])
      BY <2>2, <3>1, <3>2, <3>3 DEF ListOK
    <3>5. QED
      BY <2>7, <3>1, <3>4
  <2>11. m_event_count' = (C + m) % CountMod
    <3>1. m_event_count = C % CountMod /\ m_event_count + last - first + 1 = m_event_count + m
      BY <1>1, <1>3, <2>1 DEF Counted
    <3> HIDE DEF C, m
    <3>2. m_event_count' = ((C % CountMod) + m) % CountMod
      BY <1>2, <3>1
    <3>3. C \in Int /\ m \in Int /\ CountMod \in Nat \ {0}
      BY <2>3, <2>9, SourceAssumption
    <3>4. QED
      BY <3>2, <3>3, ModAdd
  <2>12. QED
    BY <2>9, <2>10, <2>11 DEF ExactState, Counted
<1>5. exact' => resets' % 2 = 0
  BY <1>2
<1>6. \A u \in Senders \ known' : F[u] = <<>>
  BY <1>1, <1>2 DEF CountInv
<1>7. resets' # 0 => l1' = "off"
  BY <1>2 DEF CountInv
<1> HIDE DEF F
<1>8. QED
  BY <1>4, <1>5, <1>6, <1>7, CountInvNext DEF F

(* An event taken off the only list.                                       *)
LEMMA CountDeliver ==
  ASSUME TypeOK, CountInv, Deliver
  PROVE  CountInv'
<1> DEFINE E == m_events
           F == m_events'
<1>1. /\ E \in [Senders -> Seq(Ranges)] /\ known \subseteq Senders
      /\ m_event_count \in Nat /\ exact \in BOOLEAN
  BY DEF TypeOK, Ranges
<1>2. /\ \A s \in known : E[s] # <<>>
      /\ F = [s \in Senders |-> IF s \in known THEN Rest(s) ELSE E[s]]
      /\ m_event_count' = (m_event_count - 1) % CountMod
      /\ exact' = (exact /\ Cardinality(known) = 1)
      /\ l1 = "take" /\ resets' = resets /\ known' = known
  BY DEF Deliver, CountDown
<1>3. resets = 0
  BY <1>2 DEF CountInv
<1>4. resets % 2 = 0
  BY <1>3
<1>5. ASSUME exact'
      PROVE  ExactState(F) /\ Counted(F, m_event_count')
  <2>1. exact /\ Cardinality(known) = 1 /\ ExactState(E) /\ Counted(E, m_event_count)
    BY <1>2, <1>4, <1>5 DEF CountInv
  <2>2. PICK s : known = {s}
    <3>1. IsFiniteSet(known)
      BY <1>1, SourceAssumption, FS_Subset
    <3>2. QED
      BY <2>1, <3>1, FS_Singleton
  <2>3. /\ s \in Senders /\ E[s] # <<>> /\ F[s] = Rest(s)
        /\ \A u \in Senders \ {s} : F[u] = E[u]
    BY <1>1, <1>2, <2>2
  <2>4. /\ Rest(s) \in Seq(Ranges) /\ ListOK(Rest(s)) /\ FrontId(s) \in L1Ids
        /\ IdsOf(E[s]) = <<FrontId(s)>> \o IdsOf(Rest(s))
    BY <1>1, <2>1, <2>3, RestIds DEF ExactState
  <2>5. Longer(F, E, s, 1)
    <3> DEFINE u == IdsOf(Rest(s))
               v == FrontId(s)
               w == IdsOf(E[s])
    <3>1. u \in Seq(L1Ids) /\ v \in L1Ids /\ w = <<v>> \o u /\ IdsOf(F[s]) = u
      BY <2>3, <2>4, IdsOfType
    <3> HIDE DEF u, v, w, E, F
    <3>2. w \in Seq(L1Ids) /\ Len(w) = Len(u) + 1 /\ 1 \in Nat
      BY <3>1
    <3>3. IdsOf(E[s]) = w
      BY DEF w
    <3>4. \A t \in Senders \ {s} : E[t] = F[t]
      BY <2>3
    <3>5. QED
      BY <2>3, <3>1, <3>2, <3>3, <3>4, LongerList
  <2> DEFINE C == Cardinality(Places(F))
  <2>6. IsFiniteSet(Places(F)) /\ C \in Nat /\ Cardinality(Places(E)) = C + 1
    <3>1. IsFiniteSet(Places(E))
      BY <2>1 DEF ExactState
    <3> HIDE DEF E, F
    <3>2. Larger(F, E, 1)
      BY <2>3, <2>5, <3>1, MorePlaces
    <3>3. QED
      BY <3>2 DEF Larger
  <2>7. \A u \in Senders : ListOK(F[u])
    BY <2>1, <2>3, <2>4 DEF ExactState
  <2>8. m_event_count' = C % CountMod
    <3>1. m_event_count' = (((C + 1) % CountMod) + (-1)) % CountMod
      <4>1. m_event_count - 1 = m_event_count + (-1)
        BY <1>1
      <4>2. m_event_count = (C + 1) % CountMod
        BY <2>1, <2>6 DEF Counted
      <4> HIDE DEF C
      <4>3. QED
        BY <1>2, <4>1, <4>2
    <3>2. C + 1 \in Int /\ -1 \in Int /\ CountMod \in Nat \ {0} /\ (C + 1) + (-1) = C
      BY <2>6, SourceAssumption
    <3> HIDE DEF C
    <3>3. QED
      BY <3>1, <3>2, ModAdd
  <2>9. QED
    BY <2>6, <2>7, <2>8 DEF ExactState, Counted
<1>6. \A u \in Senders \ known' : F[u] = <<>>
  BY <1>1, <1>2 DEF CountInv
<1>7. resets' = 0 /\ resets' % 2 = 0
  BY <1>2, <1>3, <1>4
<1> HIDE DEF F
<1>8. QED
  BY <1>5, <1>6, <1>7, CountInvNext DEF F

(* The steps of a reset.                                                   *)
LEMMA CountReset ==
  ASSUME TypeOK, CountInv, ResetEvents \/ ResetCount \/ StartRun
  PROVE  CountInv'
<1>1. CASE ResetEvents
  <2>1. /\ l1 = "off" /\ l1' = "off" /\ m_events' = [s \in Senders |-> <<>>]
        /\ resets' \in {1, 3}
    BY <1>1 DEF ResetEvents
  <2>2. \A s \in Senders : m_events'[s] = <<>>
    BY <2>1
  <2>3. IsFiniteSet(Places(m_events'))
    BY <2>2, NoPlaces
  <2>4. \A s \in Senders : ListOK(m_events'[s])
    BY <2>2 DEF ListOK
  <2>5. resets' % 2 # 0
    <3>1. 1 % 2 # 0 /\ 3 % 2 # 0
      OBVIOUS
    <3>2. QED
      BY <2>1, <3>1, Zenon
  <2>6. QED
    BY <2>1, <2>2, <2>3, <2>4, <2>5, CountInvNext DEF ExactState
<1>2. CASE ResetCount
  <2>1. /\ l1 = "off" /\ l1' = "off" /\ resets \in {1, 3} /\ resets' \in {2, 4}
        /\ m_event_count' = 0 /\ UNCHANGED <<m_events, known, exact>>
    BY <1>2 DEF ResetCount, historyVars
  <2>2. resets % 2 # 0 /\ resets' % 2 = 0
    <3>1. 1 % 2 # 0 /\ 3 % 2 # 0 /\ 2 % 2 = 0 /\ 4 % 2 = 0
      OBVIOUS
    <3>2. QED
      BY <2>1, <3>1, Zenon
  <2>3. exact => ExactState(m_events) /\ \A s \in Senders : m_events[s] = <<>>
    BY <2>2 DEF CountInv
  <2>4. exact => Counted(m_events, 0)
    <3>1. exact => Cardinality(Places(m_events)) = 0
      BY <2>3, NoPlaces
    <3>2. 0 % CountMod = 0
      BY SourceAssumption
    <3>3. QED
      BY <3>1, <3>2 DEF Counted
  <2>5. \A s \in Senders \ known : m_events[s] = <<>>
    BY DEF CountInv
  <2>6. QED
    BY <2>1, <2>2, <2>3, <2>4, <2>5, CountInvNext
<1>3. CASE StartRun
  <2>1. /\ resets = 4 /\ resets' = 0
        /\ UNCHANGED <<m_events, known, exact, m_event_count>>
    BY <1>3 DEF StartRun, historyVars
  <2>2. resets % 2 = 0 /\ resets' % 2 = 0
    BY <2>1
  <2>3. /\ exact => ExactState(m_events) /\ Counted(m_events, m_event_count)
        /\ \A s \in Senders \ known : m_events[s] = <<>>
    BY <2>2 DEF CountInv
  <2>4. QED
    BY <2>1, <2>2, <2>3, CountInvNext
<1>4. QED
  BY <1>1, <1>2, <1>3

(* Every step preserves CountInv.                                          *)
LEMMA CountStep ==
  ASSUME TypeOK, CountInv, [Next]_vars
  PROVE  CountInv'
<1>1. ASSUME UNCHANGED <<known, m_events, m_event_count, resets, exact>>,
             l1 = "off" => l1' = "off"
      PROVE  CountInv'
  <2>1. /\ resets # 0 => l1 = "off"
        /\ \A s \in Senders \ known : m_events[s] = <<>>
        /\ exact => ExactState(m_events)
        /\ exact /\ resets % 2 # 0 => \A s \in Senders : m_events[s] = <<>>
        /\ exact /\ resets % 2 = 0 => Counted(m_events, m_event_count)
    BY DEF CountInv
  <2>2. QED
    BY <1>1, <2>1, CountInvNext
<1>2. ASSUME NEW s \in Senders, onAccept(s) \/ asyncClose(s) PROVE CountInv'
  BY <1>1, <1>2 DEF onAccept, asyncClose, historyVars
<1>3. CASE TestXoff \/ SetOff \/ \E s \in Senders : SendXoff(s)
  BY <1>1, <1>3 DEF TestXoff, SetOff, SendXoff, senderVars, historyVars
<1>4. CASE TestXon \/ SetOn \/ NoEvent \/ Crash \/ \E s \in Senders : SendXon(s)
  BY <1>1, <1>4 DEF TestXon, SetOn, NoEvent, Crash, SendXon, senderVars, historyVars
<1>5. CASE StopRun
  BY <1>1, <1>5 DEF StopRun, historyVars
<1>6. CASE UNCHANGED vars
  BY <1>1, <1>6 DEF vars
<1>7. QED
  BY <1>2, <1>3, <1>4, <1>5, <1>6, CountReceive, CountDeliver, CountReset
     DEF Next, IoStep, L1Step

(* While every event is taken off exactly one list and no report falls     *)
(* into a reset or skips a turn of the epochs, m_event_count is the number *)
(* of events that wait, modulo its width: for any number of senders,       *)
(* reports and runs.                                                       *)
THEOREM CountIsExact == Spec => []ExactCount
<1>1. CountInv => ExactCount
  BY DEF CountInv, Counted, Places, ExactCount, AllWaiting, Waiting
<1>2. Init => TypeInv /\ CountInv
  BY TypeInit, CountInit
<1>3. TypeInv /\ CountInv /\ [Next]_vars => (TypeInv /\ CountInv)'
  BY TypeStep, CountStep DEF TypeInv
<1>4. QED
  BY <1>1, <1>2, <1>3, PTL DEF Spec

-----------------------------------------------------------------------------
(* Filar: the lists of pages.                                              *)

(* The lists of the members of K can be counted through in order.          *)
LEMMA AscendingExists ==
  ASSUME NEW S, IsFiniteSet(S), S \subseteq Nat
  PROVE  \E s \in [1..Cardinality(S) -> S] :
           \A i, j \in DOMAIN s : i < j => s[i] < s[j]
<1> DEFINE Has(K) == \E s \in [1..Cardinality(K) -> K] :
                       \A i, j \in 1..Cardinality(K) : i < j => s[i] < s[j]
           F == {K \in SUBSET S : Has(K)}
<1>1. {} \in F
  <2>1. Cardinality({}) = 0
    BY FS_EmptySet
  <2>2. <<>> \in [1..0 -> {}]
    OBVIOUS
  <2>3. \A i, j \in 1..0 : i < j => <<>>[i] < <<>>[j]
    OBVIOUS
  <2>4. Has({})
    BY <2>1, <2>2, <2>3
  <2>5. QED
    BY <2>4
<1>2. ASSUME NEW K \in SUBSET S, K # {}
      PROVE  \E x \in K : K \ {x} \in F => K \in F
  <2>1. IsFiniteSet(K) /\ K \subseteq Int
    <3>1. IsFiniteSet(K)
      BY FS_Subset
    <3>2. QED
      BY <3>1
  <2> DEFINE top == Max(K)
             R == K \ {top}
             n == Cardinality(R)
  <2>2. top \in K /\ \A m \in K : m <= top
    BY <1>2, <2>1, LargestElement
  <2>3. n \in Nat /\ Cardinality(K) = n + 1
    <3>1. IsFiniteSet(R) /\ Cardinality(R) = Cardinality(K) - 1
      BY <2>1, <2>2, FS_RemoveElement
    <3>2. Cardinality(K) \in Nat
      BY <2>1, FS_CardinalityType
    <3>3. n \in Nat
      BY <3>1, FS_CardinalityType
    <3>4. QED
      BY <3>1, <3>2, <3>3
  <2>4. ASSUME R \in F PROVE K \in F
    <3>1. PICK s \in [1..n -> R] : \A i, j \in 1..n : i < j => s[i] < s[j]
      BY <2>4
    <3> HIDE DEF n, top
    <3> DEFINE u == [i \in 1..(n + 1) |-> IF i = n + 1 THEN top ELSE s[i]]
    <3>2. \A i \in 1..n : s[i] \in K /\ s[i] < top /\ u[i] = s[i]
      <4>1. \A i \in 1..n : s[i] \in R
        BY <3>1
      <4>2. \A m \in R : m \in K /\ m < top
        BY <2>1, <2>2
      <4>3. \A i \in 1..n : u[i] = s[i]
        BY <2>3
      <4>4. QED
        BY <4>1, <4>2, <4>3
    <3>3. u[n + 1] = top
      BY <2>3
    <3>4. \A i \in 1..(n + 1) : i = n + 1 \/ i \in 1..n
      BY <2>3
    <3>5. u \in [1..(n + 1) -> K]
      BY <2>2, <3>2, <3>3, <3>4
    <3> HIDE DEF u
    <3>6. \A i, j \in 1..(n + 1) : i < j => u[i] < u[j]
      <4>1. SUFFICES ASSUME NEW i \in 1..(n + 1), NEW j \in 1..(n + 1), i < j
                     PROVE  u[i] < u[j]
        OBVIOUS
      <4>2. i \in 1..n
        BY <2>3, <4>1
      <4>3. CASE j = n + 1
        BY <3>2, <3>3, <4>2, <4>3
      <4>4. CASE j \in 1..n
        BY <3>1, <3>2, <4>1, <4>2, <4>4
      <4>5. QED
        BY <3>4, <4>3, <4>4
    <3>7. Has(K)
      BY <2>3, <3>5, <3>6
    <3>8. QED
      BY <3>7
  <2>5. QED
    BY <2>2, <2>4
<1>3. SUBSET S \subseteq F
  <2> HIDE DEF F
  <2>1. QED
    BY <1>1, <1>2, FiniteInduction
<1>4. QED
  <2>1. Has(S)
    BY <1>3
  <2>2. \A s \in [1..Cardinality(S) -> S] : DOMAIN s = 1..Cardinality(S)
    OBVIOUS
  <2>3. QED
    BY <2>1, <2>2

(* Ascending goes through all of K, once.                                  *)
LEMMA AscendingFacts ==
  ASSUME NEW K, IsFiniteSet(K), K \subseteq Nat
  PROVE  /\ Ascending(K) \in [1..Cardinality(K) -> K]
         /\ IsInjective(Ascending(K))
         /\ \A k \in K : \E i \in 1..Cardinality(K) : Ascending(K)[i] = k
<1> DEFINE n == Cardinality(K)
           s == Ascending(K)
<1>1. s \in [1..n -> K] /\ \A i, j \in DOMAIN s : i < j => s[i] < s[j]
  BY AscendingExists, Zenon DEF Ascending
<1>2. n \in Nat
  BY FS_CardinalityType
<1> HIDE DEF s, n
<1>3. \A i, j \in 1..n : s[i] = s[j] => i = j
  <2>1. \A i \in 1..n : s[i] \in Nat
    BY <1>1
  <2>2. DOMAIN s = 1..n
    BY <1>1
  <2>3. SUFFICES ASSUME NEW i \in 1..n, NEW j \in 1..n, s[i] = s[j] PROVE i = j
    OBVIOUS
  <2>4. ~(s[i] < s[j]) /\ ~(s[j] < s[i])
    BY <2>1, <2>3
  <2>5. ~(i < j) /\ ~(j < i)
    BY <1>1, <2>2, <2>4
  <2>6. QED
    BY <1>2, <2>5
<1>4. IsInjective(s) /\ s \in Injection(1..n, K)
  <2>1. DOMAIN s = 1..n
    BY <1>1
  <2>2. IsInjective(s)
    BY <1>3, <2>1 DEF IsInjective
  <2>3. QED
    BY <1>1, <2>2 DEF Injection
<1>5. Cardinality(1..n) = n
  BY <1>2, FS_Interval
<1>6. s \in Surjection(1..n, K)
  BY <1>4, <1>5, FS_Injection DEF n
<1>7. QED
  BY <1>1, <1>4, <1>6 DEF Surjection, s, n

(* Part of a list of full pages: its pages and fragments, in any order.    *)
LEMMA MembersFacts ==
  ASSUME NEW S, NEW list \in Seq(S), NEW K \in SUBSET DOMAIN list
  PROVE  /\ Members(list, K) \in Seq(S)
         /\ Len(Members(list, K)) = Cardinality(K)
         /\ FragsOf(Members(list, K)) = {list[k].frag : k \in K}
         /\ ToSet(PagesOf(Members(list, K))) = {list[k].page : k \in K}
         /\ IsInjective(PagesOf(list)) => IsInjective(PagesOf(Members(list, K)))
         /\ (\A i, j \in DOMAIN list : list[i].frag = list[j].frag => i = j)
            => \A i, j \in DOMAIN Members(list, K) :
                 Members(list, K)[i].frag = Members(list, K)[j].frag => i = j
<1> DEFINE n == Cardinality(K)
           s == Ascending(K)
           m == Members(list, K)
<1>1. IsFiniteSet(K) /\ K \subseteq Nat /\ DOMAIN list = 1..Len(list)
  <2>1. Len(list) \in Nat /\ DOMAIN list = 1..Len(list)
    OBVIOUS
  <2>2. IsFiniteSet(DOMAIN list)
    BY <2>1, FS_Interval
  <2>3. QED
    BY <2>1, <2>2, FS_Subset
<1>2. /\ s \in [1..n -> K] /\ IsInjective(s)
      /\ \A k \in K : \E i \in 1..n : s[i] = k
  BY <1>1, AscendingFacts, Zenon
<1>3. n \in Nat
  BY <1>1, FS_CardinalityType
<1>4. m = [i \in 1..n |-> list[s[i]]]
  BY DEF Members
<1> HIDE DEF n, s, m
<1>5. \A k \in DOMAIN list : list[k] \in S
  OBVIOUS
<1>6. \A i \in 1..n : s[i] \in K /\ s[i] \in DOMAIN list /\ m[i] = list[s[i]]
  BY <1>2, <1>4
<1>7. m \in Seq(S) /\ Len(m) = n /\ DOMAIN m = 1..n
  BY <1>3, <1>4, <1>5, <1>6
<1>8. FragsOf(m) = {list[k].frag : k \in K}
  <2>1. FragsOf(m) = {m[i].frag : i \in 1..n}
    BY <1>7 DEF FragsOf
  <2>2. QED
    BY <1>2, <1>6, <2>1
<1>9. \A i \in 1..n : PagesOf(m)[i] = list[s[i]].page
  BY <1>6, <1>7 DEF PagesOf
<1>10. DOMAIN PagesOf(m) = 1..n
  BY <1>7 DEF PagesOf
<1>11. ToSet(PagesOf(m)) = {list[k].page : k \in K}
  <2>1. ToSet(PagesOf(m)) = {PagesOf(m)[i] : i \in 1..n}
    BY <1>10 DEF ToSet
  <2>2. QED
    BY <1>2, <1>6, <1>9, <2>1
<1>12. \A i, j \in 1..n : s[i] = s[j] => i = j
  BY <1>2 DEF IsInjective
<1>13. ASSUME IsInjective(PagesOf(list)) PROVE IsInjective(PagesOf(m))
  <2>1. \A k, l \in DOMAIN list : list[k].page = list[l].page => k = l
    BY <1>13 DEF IsInjective, PagesOf
  <2>2. \A i, j \in 1..n : PagesOf(m)[i] = PagesOf(m)[j] => i = j
    BY <1>6, <1>9, <1>12, <2>1
  <2>3. QED
    BY <1>10, <2>2 DEF IsInjective
<1>14. ASSUME \A i, j \in DOMAIN list : list[i].frag = list[j].frag => i = j
       PROVE  \A i, j \in DOMAIN m : m[i].frag = m[j].frag => i = j
  BY <1>6, <1>7, <1>12, <1>14
<1>15. QED
  BY <1>7, <1>8, <1>11, <1>13, <1>14 DEF n, m

(* No fragment is twice on the list.                                       *)
FragsOnce(list) ==
  \A i, j \in DOMAIN list : list[i].frag = list[j].frag => i = j

(* pollIO takes every page of the list to one of two sides.                *)
LEMMA SplitFacts ==
  ASSUME NEW list \in Seq(Full)
  PROVE  /\ Good(list) \in Seq(Full) /\ Bad(list) \in Seq(Full)
         /\ Len(Good(list)) + Len(Bad(list)) = Len(list)
         /\ FragsOf(Good(list)) \cup FragsOf(Bad(list)) = FragsOf(list)
         /\ ToSet(PagesOf(Good(list))) \cup ToSet(PagesOf(Bad(list)))
              = ToSet(PagesOf(list))
         /\ FragsOnce(list) => /\ FragsOnce(Good(list))
                               /\ FragsOf(Good(list)) \cap FragsOf(Bad(list)) = {}
         /\ IsInjective(PagesOf(list)) =>
              /\ IsInjective(PagesOf(Good(list))) /\ IsInjective(PagesOf(Bad(list)))
              /\ ToSet(PagesOf(Good(list))) \cap ToSet(PagesOf(Bad(list))) = {}
<1> DEFINE D == DOMAIN list
           G == {i \in D : ~list[i].bad}
           B == {i \in D : list[i].bad}
<1>1. G \in SUBSET D /\ B \in SUBSET D /\ G \cup B = D /\ G \cap B = {}
  OBVIOUS
<1>2. Good(list) = Members(list, G) /\ Bad(list) = Members(list, B)
  BY DEF Good, Bad
<1>3. D = 1..Len(list) /\ Len(list) \in Nat
  OBVIOUS
<1>4. IsFiniteSet(D) /\ Cardinality(D) = Len(list)
  BY <1>3, FS_Interval
<1>5. /\ Cardinality(G) \in Nat /\ Cardinality(B) \in Nat
      /\ Cardinality(G) + Cardinality(B) = Len(list)
  <2>1. IsFiniteSet(G) /\ IsFiniteSet(B)
    BY <1>1, <1>4, FS_Subset
  <2>2. Cardinality(G) \in Nat /\ Cardinality(B) \in Nat
    BY <2>1, FS_CardinalityType
  <2>3. Cardinality(G \cup B) = Cardinality(G) + Cardinality(B) - Cardinality(G \cap B)
    BY <2>1, FS_Union
  <2>4. Cardinality(G \cap B) = 0
    BY <1>1, FS_EmptySet
  <2> HIDE DEF G, B
  <2>5. QED
    BY <1>1, <1>4, <2>2, <2>3, <2>4
<1> HIDE DEF G, B
<1>6. /\ Good(list) \in Seq(Full) /\ Len(Good(list)) = Cardinality(G)
      /\ FragsOf(Good(list)) = {list[k].frag : k \in G}
      /\ ToSet(PagesOf(Good(list))) = {list[k].page : k \in G}
      /\ IsInjective(PagesOf(list)) => IsInjective(PagesOf(Good(list)))
      /\ FragsOnce(list) => FragsOnce(Good(list))
  BY <1>1, <1>2, MembersFacts DEF FragsOnce
<1>7. /\ Bad(list) \in Seq(Full) /\ Len(Bad(list)) = Cardinality(B)
      /\ FragsOf(Bad(list)) = {list[k].frag : k \in B}
      /\ ToSet(PagesOf(Bad(list))) = {list[k].page : k \in B}
      /\ IsInjective(PagesOf(list)) => IsInjective(PagesOf(Bad(list)))
  BY <1>1, <1>2, MembersFacts
<1>8. FragsOf(Good(list)) \cup FragsOf(Bad(list)) = FragsOf(list)
  <2>1. FragsOf(list) = {list[k].frag : k \in D}
    BY DEF FragsOf
  <2>2. QED
    BY <1>1, <1>6, <1>7, <2>1
<1>9. ToSet(PagesOf(list)) = {list[k].page : k \in D}
  <2>1. DOMAIN PagesOf(list) = D /\ \A k \in D : PagesOf(list)[k] = list[k].page
    BY DEF PagesOf
  <2>2. ToSet(PagesOf(list)) = {PagesOf(list)[k] : k \in D}
    BY <2>1 DEF ToSet
  <2>3. QED
    BY <2>1, <2>2
<1>10. ToSet(PagesOf(Good(list))) \cup ToSet(PagesOf(Bad(list)))
         = ToSet(PagesOf(list))
  BY <1>1, <1>6, <1>7, <1>9
<1>11. ASSUME FragsOnce(list)
       PROVE  FragsOf(Good(list)) \cap FragsOf(Bad(list)) = {}
  <2>1. \A k \in G, l \in B : list[k].frag # list[l].frag
    BY <1>1, <1>11 DEF FragsOnce
  <2>2. QED
    BY <1>6, <1>7, <2>1
<1>12. ASSUME IsInjective(PagesOf(list))
       PROVE  ToSet(PagesOf(Good(list))) \cap ToSet(PagesOf(Bad(list))) = {}
  <2>1. \A k, l \in D : list[k].page = list[l].page => k = l
    BY <1>12 DEF IsInjective, PagesOf
  <2>2. \A k \in G, l \in B : list[k].page # list[l].page
    BY <1>1, <2>1
  <2>3. QED
    BY <1>6, <1>7, <2>2
<1>13. QED
  BY <1>5, <1>6, <1>7, <1>8, <1>10, <1>11, <1>12

-----------------------------------------------------------------------------
(* Filar: types.                                                           *)

AllPages == [i \in Pages |-> i]

(* All pages of a channel, forwards as reset makes them and backwards as   *)
(* startIO gives them to the card.                                         *)
LEMMA AllPagesFacts ==
  /\ AllPages \in Seq(Pages) /\ Len(AllPages) = m_buffers
  /\ IsInjective(AllPages)
  /\ Reverse(AllPages) \in Seq(Pages) /\ Len(Reverse(AllPages)) = m_buffers
  /\ IsInjective(Reverse(AllPages))
<1>1. AllPages \in Seq(Pages) /\ Len(AllPages) = m_buffers
  BY FilarAssumption DEF AllPages, Pages
<1>2. IsInjective(AllPages)
  BY DEF AllPages, IsInjective
<1>3. QED
  BY <1>1, <1>2, ReverseOnce

(* There is a first channel, and 0 is none.                                *)
LEMMA ChansFacts == 1 \in Chans /\ Chans \subseteq Nat \ {0} /\ Chans \subseteq 0..Rols
BY FilarAssumption DEF Chans

(* Before the first call and after a reset: no channel has full pages.     *)
Fresh(available, fifo) ==
  /\ available = [c \in Chans |-> IF c = 1 THEN <<>> ELSE AllPages]
  /\ fifo = [c \in Chans |-> IF c = 1 THEN Reverse(AllPages) ELSE <<>>]

(* The types of what reset leaves.                                         *)
LEMMA FreshType ==
  ASSUME NEW a, NEW b, Fresh(a, b)
  PROVE  a \in [Chans -> Seq(Pages)] /\ b \in [Chans -> Seq(Pages)]
<1>1. <<>> \in Seq(Pages)
  OBVIOUS
<1>2. QED
  BY <1>1, AllPagesFacts DEF Fresh

(* The types at the start.                                                 *)
LEMMA FilarTypeInit == FilarInit => FilarTypeOK
<1> SUFFICES ASSUME FilarInit PROVE FilarTypeOK
  OBVIOUS
<1>1. Fresh(m_available, infifo)
  BY DEF FilarInit, Fresh, AllPages
<1>2. m_available \in [Chans -> Seq(Pages)] /\ infifo \in [Chans -> Seq(Pages)]
  BY <1>1, FreshType
<1>3. chan \in Chans /\ pc = "idle" /\ l1Result = 0 /\ arrived \in 0..MaxFragments
      /\ errors \in 0..MaxErrors /\ polls = 0 /\ gone = {} /\ delivered = <<>>
  BY FilarAssumption, ChansFacts DEF FilarInit
<1>4. from \in [Fragments -> 0..Rols] /\ poll \in [Fragments -> 0..polls]
  BY FilarAssumption DEF FilarInit
<1>5. m_completed \in [Chans -> Seq(Full)] /\ filled \in [Chans -> Seq(Full)]
  BY DEF FilarInit
<1>6. QED
  BY <1>2, <1>3, <1>4, <1>5 DEF FilarTypeOK

(* One entry of one of the functions changes.                              *)
LEMMA ChangeType ==
  ASSUME NEW T, NEW f \in [Chans -> T], NEW c \in Chans, NEW v \in T
  PROVE  [f EXCEPT ![c] = v] \in [Chans -> T]
OBVIOUS

(* The iterators come round to a channel.                                  *)
LEMMA NextChanType ==
  ASSUME chan \in Chans, nextChan
  PROVE  chan' \in Chans
<1>1. chan % Rols \in 0..(Rols - 1)
  BY FilarAssumption, ModInRange DEF Chans
<1>2. chan' = (chan % Rols) + 1
  BY DEF nextChan
<1> DEFINE r == chan % Rols
<1> HIDE DEF r
<1>3. QED
  BY <1>1, <1>2, FilarAssumption DEF Chans, r

(* startIO, whether it fails or not, moves pages.                          *)
LEMMA StartType ==
  ASSUME FilarTypeOK, startIO(chan) \/ PagesInFails(chan)
  PROVE  /\ m_available' \in [Chans -> Seq(Pages)]
         /\ infifo' \in [Chans -> Seq(Pages)]
<1>1. <<>> \in Seq(Pages) /\ chan \in Chans
  BY DEF FilarTypeOK
<1>2. m_available[chan] \in Seq(Pages) /\ infifo[chan] \in Seq(Pages)
  BY <1>1 DEF FilarTypeOK
<1>3. infifo[chan] \o Reverse(m_available[chan]) \in Seq(Pages)
  BY <1>2, ReverseOnce
<1>4. \/ UNCHANGED <<infifo, m_available>>
      \/ /\ infifo' = [infifo EXCEPT ![chan] = infifo[chan] \o Reverse(m_available[chan])]
         /\ m_available' = [m_available EXCEPT ![chan] = <<>>]
      \/ /\ m_available' = [m_available EXCEPT ![chan] = <<>>]
         /\ UNCHANGED infifo
  BY DEF startIO, PagesInFails
<1>5. m_available \in [Chans -> Seq(Pages)] /\ infifo \in [Chans -> Seq(Pages)]
  BY DEF FilarTypeOK
<1>6. QED
  BY <1>1, <1>3, <1>4, <1>5, ChangeType

(* Every full page is a page.                                              *)
LEMMA PagesOfType ==
  ASSUME NEW list \in Seq(Full)
  PROVE  PagesOf(list) \in Seq(Pages) /\ Len(PagesOf(list)) = Len(list)
<1>1. Len(list) \in Nat /\ DOMAIN list = 1..Len(list)
  OBVIOUS
<1>2. \A i \in DOMAIN list : list[i].page \in Pages
  <2>1. \A i \in DOMAIN list : list[i] \in Full
    OBVIOUS
  <2>2. QED
    BY <2>1 DEF Full
<1>3. PagesOf(list) = [i \in 1..Len(list) |-> list[i].page]
  BY <1>1 DEF PagesOf
<1>4. QED
  BY <1>1, <1>2, <1>3

(* Every full page has a fragment.                                         *)
LEMMA FragsOfType ==
  ASSUME NEW list \in Seq(Full)
  PROVE  FragsOf(list) \subseteq Fragments
<1>1. \A i \in DOMAIN list : list[i] \in Full
  OBVIOUS
<1>2. \A i \in DOMAIN list : list[i].frag \in Fragments
  BY <1>1 DEF Full
<1>3. QED
  BY <1>2 DEF FragsOf

(* Every step preserves the types.                                         *)
LEMMA FilarTypeStep ==
  ASSUME FilarTypeOK, [FilarNext]_filarVars
  PROVE  FilarTypeOK'
<1>1. ASSUME NEW c \in Chans, Arrive(c) PROVE FilarTypeOK'
  <2> DEFINE n == arrived + 1
  <2>1. n \in Fragments /\ n \in 0..MaxFragments
    BY <1>1, FilarAssumption DEF Arrive, FilarTypeOK, Fragments
  <2>2. infifo[c] \in Seq(Pages) /\ infifo[c] # <<>> /\ filled[c] \in Seq(Full)
    BY <1>1 DEF Arrive, FilarTypeOK
  <2>3. Tail(infifo[c]) \in Seq(Pages) /\ Head(infifo[c]) \in Pages
    BY <2>2, TakeOnce
  <2>4. infifo' \in [Chans -> Seq(Pages)]
    BY <1>1, <2>3, ChangeType DEF Arrive, FilarTypeOK
  <2>5. PICK bad \in BOOLEAN :
          filled' = [filled EXCEPT ![c] = Append(filled[c],
                      [page |-> Head(infifo[c]), frag |-> n, bad |-> bad])]
    BY <1>1 DEF Arrive
  <2>6. [page |-> Head(infifo[c]), frag |-> n, bad |-> bad] \in Full
    BY <2>1, <2>3 DEF Full
  <2> DEFINE e == [page |-> Head(infifo[c]), frag |-> n, bad |-> bad]
  <2>7. Append(filled[c], e) \in Seq(Full)
    BY <2>2, <2>6
  <2> HIDE DEF e
  <2>8. filled' \in [Chans -> Seq(Full)]
    BY <2>5, <2>7, ChangeType DEF FilarTypeOK, e
  <2>9. from' \in [Fragments -> 0..Rols]
    BY <1>1, <2>1, ChansFacts DEF Arrive, FilarTypeOK
  <2>10. arrived' = n
    BY <1>1 DEF Arrive
  <2>11. UNCHANGED <<m_available, m_completed, chan, pc, l1Result, errors, poll,
                     polls, gone, delivered>>
    BY <1>1 DEF Arrive
  <2> HIDE DEF n
  <2>12. QED
    BY <2>1, <2>4, <2>8, <2>9, <2>10, <2>11 DEF FilarTypeOK
<1>2. CASE pollIO
  <2> DEFINE good == Good(filled[chan])
             bad  == Bad(filled[chan])
  <2>1. /\ chan \in Chans /\ filled[chan] \in Seq(Full)
        /\ m_completed[chan] \in Seq(Full) /\ m_available[chan] \in Seq(Pages)
    BY DEF FilarTypeOK
  <2>2. good \in Seq(Full) /\ bad \in Seq(Full)
    BY <2>1, SplitFacts
  <2> HIDE DEF good, bad
  <2>3. PagesOf(bad) \in Seq(Pages) /\ FragsOf(bad) \subseteq Fragments
    BY <2>2, PagesOfType, FragsOfType
  <2>4. /\ m_completed' = [m_completed EXCEPT ![chan] = m_completed[chan] \o good]
        /\ m_available' = [m_available EXCEPT ![chan] = m_available[chan] \o PagesOf(bad)]
        /\ poll' = [f \in Fragments |->
                     IF f \in FragsOf(good) THEN polls + 1 ELSE poll[f]]
        /\ gone' = gone \cup FragsOf(bad)
        /\ filled' = [filled EXCEPT ![chan] = <<>>]
        /\ polls' = IF filled[chan] = <<>> THEN polls ELSE polls + 1
        /\ pc' = "take" /\ pc = "idle"
        /\ UNCHANGED <<chan, l1Result, infifo, arrived, errors, from, delivered>>
    BY <1>2 DEF pollIO, good, bad
  <2>5. m_completed[chan] \o good \in Seq(Full)
    BY <2>1, <2>2
  <2>6. m_available[chan] \o PagesOf(bad) \in Seq(Pages)
    BY <2>1, <2>3
  <2>7. m_completed' \in [Chans -> Seq(Full)] /\ m_available' \in [Chans -> Seq(Pages)]
    BY <2>1, <2>4, <2>5, <2>6, ChangeType DEF FilarTypeOK
  <2>8. filled' \in [Chans -> Seq(Full)]
    BY <2>1, <2>4 DEF FilarTypeOK
  <2>9. FragsOf(good) # {} => filled[chan] # <<>>
    <3>1. FragsOf(good) \subseteq FragsOf(filled[chan])
      <4>1. FragsOf(Good(filled[chan])) \cup FragsOf(Bad(filled[chan]))
              = FragsOf(filled[chan])
        BY <2>1, SplitFacts
      <4>2. QED
        BY <4>1 DEF good
    <3>2. filled[chan] = <<>> => FragsOf(filled[chan]) = {}
      BY DEF FragsOf
    <3>3. QED
      BY <3>1, <3>2
  <2>10. polls' \in Nat /\ polls <= polls'
    BY <2>4 DEF FilarTypeOK
  <2>11. poll' \in [Fragments -> 0..polls']
    <3>1. SUFFICES ASSUME NEW f \in Fragments PROVE poll'[f] \in 0..polls'
      BY <2>4
    <3>2. CASE f \in FragsOf(good)
      <4>1. poll'[f] = polls + 1 /\ polls' = polls + 1
        BY <2>4, <2>9, <3>2
      <4>2. QED
        BY <4>1 DEF FilarTypeOK
    <3>3. CASE f \notin FragsOf(good)
      <4>1. poll'[f] = poll[f] /\ poll[f] \in 0..polls
        BY <2>4, <3>3 DEF FilarTypeOK
      <4>2. QED
        BY <2>10, <4>1 DEF FilarTypeOK
    <3>4. QED
      BY <3>2, <3>3
  <2>12. gone' \in SUBSET Fragments
    BY <2>3, <2>4 DEF FilarTypeOK
  <2>13. QED
    BY <2>4, <2>7, <2>8, <2>10, <2>11, <2>12 DEF FilarTypeOK
<1>3. CASE Take
  <2>1. /\ chan \in Chans /\ m_completed[chan] \in Seq(Full)
        /\ m_completed[chan] # <<>> /\ m_available[chan] \in Seq(Pages)
    BY <1>3 DEF FilarTypeOK, Take
  <2>2. Front(m_completed[chan]) \in Seq(Full) /\ Last(m_completed[chan]) \in Full
    BY <2>1, TakeOnce
  <2>3. Last(m_completed[chan]).frag \in Fragments
        /\ Last(m_completed[chan]).page \in Pages
    BY <2>2 DEF Full
  <2>4. Append(m_available[chan], Last(m_completed[chan]).page) \in Seq(Pages)
    BY <2>1, <2>3
  <2>5. /\ m_completed' = [m_completed EXCEPT ![chan] = Front(m_completed[chan])]
        /\ m_available' = [m_available EXCEPT ![chan] =
             Append(m_available[chan], Last(m_completed[chan]).page)]
        /\ l1Result' = Last(m_completed[chan]).frag
        /\ pc' = "start" /\ nextChan
        /\ UNCHANGED <<infifo, filled, arrived, from, errors, poll, polls, gone, delivered>>
    BY <1>3 DEF Take, cardVars, pollVars
  <2>6. m_completed' \in [Chans -> Seq(Full)] /\ m_available' \in [Chans -> Seq(Pages)]
    BY <2>1, <2>2, <2>4, <2>5, ChangeType DEF FilarTypeOK
  <2>7. chan' \in Chans
    BY <2>1, <2>5, NextChanType
  <2>8. QED
    BY <2>3, <2>5, <2>6, <2>7 DEF FilarTypeOK
<1>4. CASE NoPoll \/ PollFails
  <2>1. errors' \in 0..MaxErrors
    BY <1>4, FilarAssumption DEF NoPoll, PollFails, FilarTypeOK
  <2>2. UNCHANGED <<m_available, m_completed, chan, l1Result, infifo, filled, arrived,
                    from, poll, polls, gone, delivered>>
        /\ pc = "idle" /\ pc' \in {"idle", "take"}
    BY <1>4 DEF NoPoll, PollFails, cardVars, pollVars
  <2>3. QED
    BY <2>1, <2>2 DEF FilarTypeOK
<1>5. CASE NoResult
  <2>1. chan' \in Chans
    BY <1>5, NextChanType DEF NoResult, FilarTypeOK
  <2>2. /\ UNCHANGED <<m_available, m_completed, l1Result, infifo, filled, arrived,
                       from, errors, poll, polls, gone, delivered>>
        /\ pc' = "start"
    BY <1>5 DEF NoResult, cardVars, pollVars
  <2>3. QED
    BY <2>1, <2>2 DEF FilarTypeOK
<1>6. CASE Return
  <2>1. m_available' \in [Chans -> Seq(Pages)] /\ infifo' \in [Chans -> Seq(Pages)]
    BY <1>6, StartType DEF Return
  <2>2. delivered' \in Seq(Fragments)
    <3>1. l1Result # 0 => l1Result \in Fragments
      BY DEF FilarTypeOK
    <3>2. delivered' = delivered \/ (l1Result # 0 /\ delivered' = Append(delivered, l1Result))
      BY <1>6 DEF Return
    <3>3. delivered \in Seq(Fragments)
      BY DEF FilarTypeOK
    <3>4. CASE delivered' = delivered
      BY <3>3, <3>4
    <3>5. CASE l1Result # 0 /\ delivered' = Append(delivered, l1Result)
      BY <3>1, <3>3, <3>5
    <3>6. QED
      BY <3>2, <3>4, <3>5
  <2>3. l1Result' = 0 /\ pc' = "idle"
        /\ UNCHANGED <<m_completed, chan, filled, arrived, errors, from, poll, polls, gone>>
    BY <1>6 DEF Return, pollVars
  <2>4. QED
    BY <2>1, <2>2, <2>3 DEF FilarTypeOK
<1>7. CASE Throw
  <2>1. m_available' \in [Chans -> Seq(Pages)] /\ infifo' \in [Chans -> Seq(Pages)]
    BY <1>7, StartType DEF Throw
  <2>2. errors' \in 0..MaxErrors
    BY <1>7, FilarAssumption DEF Throw, PagesInFails, FilarTypeOK
  <2>3. l1Result' = 0 /\ pc' = "idle"
        /\ UNCHANGED <<m_completed, chan, filled, arrived, from, poll, polls, gone, delivered>>
    BY <1>7 DEF Throw, pollVars
  <2>4. QED
    BY <2>1, <2>2, <2>3 DEF FilarTypeOK
<1>8. CASE reset
  <2>1. Fresh(m_available', infifo')
    BY <1>8 DEF reset, Fresh, AllPages
  <2>2. m_available' \in [Chans -> Seq(Pages)] /\ infifo' \in [Chans -> Seq(Pages)]
    BY <2>1, FreshType
  <2>3. m_completed' \in [Chans -> Seq(Full)] /\ filled' \in [Chans -> Seq(Full)]
    BY <1>8 DEF reset
  <2>4. Pending \subseteq Fragments
    BY FragsOfType DEF Pending, FilarTypeOK
  <2>5. gone' \in SUBSET Fragments
    BY <1>8, <2>4 DEF reset, FilarTypeOK
  <2>6. chan' \in Chans
        /\ UNCHANGED <<pc, l1Result, arrived, errors, from, poll, polls, delivered>>
    BY <1>8, ChansFacts DEF reset
  <2>7. QED
    BY <2>2, <2>3, <2>5, <2>6 DEF FilarTypeOK
<1>9. CASE UNCHANGED filarVars
  BY <1>9 DEF filarVars, FilarTypeOK
<1>10. QED
  BY <1>1, <1>2, <1>3, <1>4, <1>5, <1>6, <1>7, <1>8, <1>9 DEF FilarNext, getResult

(* Pages, fragments and channels stay what they are, and an event is in    *)
(* hand only until getResult returns.                                      *)
THEOREM FilarTypeCorrect == FilarSpec => []FilarTypeOK
<1>1. QED
  BY FilarTypeInit, FilarTypeStep, PTL DEF FilarSpec

-----------------------------------------------------------------------------
(* Filar: every page has one holder.                                       *)

(* Four lists of pages: none twice on a list, none on two.                 *)
Apart(a, b, c, d) ==
  /\ IsInjective(a) /\ IsInjective(b) /\ IsInjective(c) /\ IsInjective(d)
  /\ ToSet(a) \cap ToSet(b) = {} /\ ToSet(a) \cap ToSet(c) = {}
  /\ ToSet(a) \cap ToSet(d) = {} /\ ToSet(b) \cap ToSet(c) = {}
  /\ ToSet(b) \cap ToSet(d) = {} /\ ToSet(c) \cap ToSet(d) = {}

(* The pages of one channel: free, with the card, full and fetched.        *)
HeldOK(available, fifo, full, completed, e) ==
  /\ Apart(available, fifo, PagesOf(full), PagesOf(completed))
  /\ e = 0 => Len(available) + Len(fifo) + Len(full) + Len(completed) = m_buffers

(* What NothingLost says of the concatenated lists of a channel, said list *)
(* by list.                                                                *)
LEMMA HeldIs ==
  ASSUME NEW a \in Seq(Pages), NEW b \in Seq(Pages), NEW f \in Seq(Full),
         NEW m \in Seq(Full), NEW e
  PROVE  LET h == a \o b \o PagesOf(f) \o PagesOf(m)
         IN  IsInjective(h) /\ (e = 0 => Len(h) = m_buffers) <=> HeldOK(a, b, f, m, e)
<1> DEFINE p == PagesOf(f)
           q == PagesOf(m)
<1>1. p \in Seq(Pages) /\ q \in Seq(Pages) /\ Len(p) = Len(f) /\ Len(q) = Len(m)
  BY PagesOfType
<1> HIDE DEF p, q
<1>2. /\ a \o b \in Seq(Pages) /\ (a \o b) \o p \in Seq(Pages)
      /\ Len((a \o b) \o p \o q) = Len(a) + Len(b) + Len(p) + Len(q)
  <2> DEFINE ab == a \o b
             abp == ab \o p
  <2>1. ab \in Seq(Pages) /\ Len(ab) = Len(a) + Len(b)
    BY CatLen
  <2> HIDE DEF ab
  <2>2. abp \in Seq(Pages) /\ Len(abp) = Len(ab) + Len(p)
    BY <1>1, <2>1, CatLen
  <2> HIDE DEF abp
  <2>3. Len(abp \o q) = Len(abp) + Len(q)
    BY <1>1, <2>2, CatLen
  <2>4. QED
    BY <2>1, <2>2, <2>3 DEF ab, abp
<1>3. /\ ToSet(a \o b) = ToSet(a) \cup ToSet(b)
      /\ IsInjective(a \o b) <=>
           IsInjective(a) /\ IsInjective(b) /\ ToSet(a) \cap ToSet(b) = {}
  BY CatOnce
<1> DEFINE ab == a \o b
           abp == ab \o p
<1>4. /\ ToSet(abp) = ToSet(ab) \cup ToSet(p)
      /\ IsInjective(abp) <=>
           IsInjective(ab) /\ IsInjective(p) /\ ToSet(ab) \cap ToSet(p) = {}
  BY <1>1, <1>2, CatOnce
<1>5. IsInjective(abp \o q) <=>
        IsInjective(abp) /\ IsInjective(q) /\ ToSet(abp) \cap ToSet(q) = {}
  BY <1>1, <1>2, CatOnce
<1>6. IsInjective(abp \o q) <=> Apart(a, b, p, q)
  <2>1. ToSet(abp) = ToSet(a) \cup ToSet(b) \cup ToSet(p)
    BY <1>3, <1>4
  <2>2. ToSet(ab) \cap ToSet(p) = {} <=>
          ToSet(a) \cap ToSet(p) = {} /\ ToSet(b) \cap ToSet(p) = {}
    BY <1>3
  <2>3. ToSet(abp) \cap ToSet(q) = {} <=>
          /\ ToSet(a) \cap ToSet(q) = {} /\ ToSet(b) \cap ToSet(q) = {}
          /\ ToSet(p) \cap ToSet(q) = {}
    BY <2>1
  <2> HIDE DEF ab, abp
  <2>4. QED
    BY <1>3, <1>4, <1>5, <2>2, <2>3, Zenon DEF Apart, ab
<1>7. QED
  BY <1>1, <1>2, <1>6 DEF HeldOK, p, q

(* The pages when a full page joins a list, or the last one leaves it.     *)
LEMMA PagesOfMoves ==
  ASSUME NEW f \in Seq(Full), NEW x \in Full
  PROVE  /\ PagesOf(<<>>) = <<>>
         /\ PagesOf(Append(f, x)) = PagesOf(f) \o <<x.page>>
         /\ f # <<>> => PagesOf(f) = PagesOf(Front(f)) \o <<Last(f).page>>
<1> DEFINE n == Len(f)
<1>1. n \in Nat /\ DOMAIN f = 1..n
  OBVIOUS
<1>2. PagesOf(<<>>) = <<>>
  BY DEF PagesOf
<1>3. ASSUME NEW g \in Seq(Full), NEW y \in Full
      PROVE  PagesOf(g \o <<y>>) = PagesOf(g) \o <<y.page>>
  <2> DEFINE k == Len(g)
             h == g \o <<y>>
  <2>1. /\ k \in Nat /\ DOMAIN g = 1..k /\ h \in Seq(Full) /\ Len(h) = k + 1
        /\ \A i \in 1..k : h[i] = g[i]
        /\ h[k + 1] = y
    OBVIOUS
  <2> HIDE DEF k, h
  <2>2. PagesOf(h) \in Seq(Pages) /\ Len(PagesOf(h)) = k + 1
        /\ PagesOf(g) \in Seq(Pages) /\ Len(PagesOf(g)) = k
    BY <2>1, PagesOfType DEF k
  <2>3. \A i \in 1..k : i \in DOMAIN h /\ i \in DOMAIN g
    BY <2>1
  <2>4. \A i \in 1..k : PagesOf(h)[i] = PagesOf(g)[i]
    BY <2>1, <2>3 DEF PagesOf
  <2>5. k + 1 \in DOMAIN h
    BY <2>1
  <2>6. PagesOf(h)[k + 1] = y.page
    BY <2>1, <2>5 DEF PagesOf
  <2>7. y.page \in Pages /\ <<y.page>> \in Seq(Pages) /\ Len(<<y.page>>) = 1
        /\ <<y.page>>[1] = y.page
    BY DEF Full
  <2>8. \A i \in 1..1 : PagesOf(h)[k + i] = <<y.page>>[i]
    BY <2>6, <2>7
  <2> DEFINE a == PagesOf(g)
             b == <<y.page>>
             c == PagesOf(h)
             one == 1
  <2>9. /\ a \in Seq(Pages) /\ b \in Seq(Pages) /\ c \in Seq(Pages)
        /\ k \in Nat /\ one \in Nat /\ Len(a) = k /\ Len(b) = one /\ Len(c) = k + one
        /\ \A i \in 1..k : c[i] = a[i]
        /\ \A i \in 1..one : c[k + i] = b[i]
    BY <2>1, <2>2, <2>4, <2>7, <2>8
  <2> HIDE DEF a, b, c, one
  <2>10. a \o b = c
    BY <2>9, CatIs
  <2>11. QED
    BY <2>10 DEF a, b, c, h
<1>4. PagesOf(Append(f, x)) = PagesOf(f) \o <<x.page>>
  <2>1. Append(f, x) = f \o <<x>>
    OBVIOUS
  <2>2. QED
    BY <1>3, <2>1
<1>5. ASSUME f # <<>> PROVE PagesOf(f) = PagesOf(Front(f)) \o <<Last(f).page>>
  <2>1. Front(f) \in Seq(Full) /\ Last(f) \in Full /\ f = Front(f) \o <<Last(f)>>
    BY <1>5, TakeOnce
  <2>2. PagesOf(Front(f) \o <<Last(f)>>) = PagesOf(Front(f)) \o <<Last(f).page>>
    BY <1>3, <2>1
  <2>3. QED
    BY <2>1, <2>2
<1>6. QED
  BY <1>2, <1>4, <1>5

(* How the calls move the pages of a channel.                              *)
LEMMA ArriveHeld ==
  ASSUME NEW a \in Seq(Pages), NEW b \in Seq(Pages), NEW f \in Seq(Full),
         NEW m \in Seq(Full), NEW e, HeldOK(a, b, f, m, e), b # <<>>,
         NEW x \in Full, x.page = Head(b)
  PROVE  HeldOK(a, Tail(b), Append(f, x), m, e)
<1>1. /\ Tail(b) \in Seq(Pages) /\ Head(b) \in Pages
      /\ b = <<Head(b)>> \o Tail(b) /\ Len(Tail(b)) = Len(b) - 1
  BY TakeOnce
<1>2. /\ ToSet(b) = {Head(b)} \cup ToSet(Tail(b))
      /\ IsInjective(b) => IsInjective(Tail(b)) /\ Head(b) \notin ToSet(Tail(b))
  <2>1. <<Head(b)>> \in Seq(Pages)
    BY <1>1
  <2>2. /\ ToSet(<<Head(b)>> \o Tail(b)) = ToSet(<<Head(b)>>) \cup ToSet(Tail(b))
        /\ IsInjective(<<Head(b)>> \o Tail(b)) => /\ IsInjective(Tail(b))
             /\ ToSet(<<Head(b)>>) \cap ToSet(Tail(b)) = {}
    <3> DEFINE h == <<Head(b)>>
               t == Tail(b)
    <3>1. h \in Seq(Pages) /\ t \in Seq(Pages)
      BY <1>1, <2>1
    <3> HIDE DEF h, t
    <3>2. /\ ToSet(h \o t) = ToSet(h) \cup ToSet(t)
          /\ IsInjective(h \o t) <=>
               IsInjective(h) /\ IsInjective(t) /\ ToSet(h) \cap ToSet(t) = {}
      BY <3>1, CatOnce
    <3>3. QED
      BY <3>2, Zenon DEF h, t
  <2>3. ToSet(<<Head(b)>>) = {Head(b)}
    BY SingleOnce
  <2>4. QED
    BY <1>1, <2>2, <2>3
<1> DEFINE p == PagesOf(f)
<1>3. p \in Seq(Pages)
  BY PagesOfType
<1>4. /\ PagesOf(Append(f, x)) = p \o <<Head(b)>>
      /\ ToSet(p \o <<Head(b)>>) = ToSet(p) \cup {Head(b)}
      /\ IsInjective(p) /\ Head(b) \notin ToSet(p) => IsInjective(p \o <<Head(b)>>)
  <2>1. <<Head(b)>> \in Seq(Pages)
    BY <1>1
  <2>2. /\ ToSet(p \o <<Head(b)>>) = ToSet(p) \cup ToSet(<<Head(b)>>)
        /\ IsInjective(p) /\ IsInjective(<<Head(b)>>)
             /\ ToSet(p) \cap ToSet(<<Head(b)>>) = {} => IsInjective(p \o <<Head(b)>>)
    BY <1>3, <2>1, CatOnce
  <2>3. ToSet(<<Head(b)>>) = {Head(b)} /\ IsInjective(<<Head(b)>>)
    BY SingleOnce
  <2>4. QED
    BY <2>2, <2>3, PagesOfMoves
<1> HIDE DEF p
<1>5. Apart(a, b, p, PagesOf(m))
  BY DEF HeldOK, p
<1>6. Apart(a, Tail(b), PagesOf(Append(f, x)), PagesOf(m))
  BY <1>2, <1>4, <1>5 DEF Apart
<1>7. Len(Append(f, x)) = Len(f) + 1 /\ Len(f) \in Nat /\ Len(b) \in Nat
      /\ Len(a) \in Nat /\ Len(m) \in Nat
  OBVIOUS
<1>8. e = 0 => Len(a) + Len(b) + Len(f) + Len(m) = m_buffers
  BY DEF HeldOK
<1>9. QED
  BY <1>1, <1>6, <1>7, <1>8 DEF HeldOK

(* pollIO: the good pages are fetched, the bad ones are free.              *)
LEMMA PollHeld ==
  ASSUME NEW a \in Seq(Pages), NEW b \in Seq(Pages), NEW f \in Seq(Full),
         NEW e, HeldOK(a, b, f, <<>>, e)
  PROVE  HeldOK(a \o PagesOf(Bad(f)), b, <<>>, Good(f), e)
<1> DEFINE g == Good(f)
           r == PagesOf(Bad(f))
<1>1. /\ g \in Seq(Full) /\ Bad(f) \in Seq(Full) /\ r \in Seq(Pages)
      /\ Len(r) = Len(Bad(f)) /\ Len(g) + Len(Bad(f)) = Len(f)
  BY SplitFacts, PagesOfType
<1>2. /\ ToSet(PagesOf(g)) \cup ToSet(r) = ToSet(PagesOf(f))
      /\ IsInjective(PagesOf(f)) => /\ IsInjective(PagesOf(g)) /\ IsInjective(r)
                                    /\ ToSet(PagesOf(g)) \cap ToSet(r) = {}
  BY SplitFacts
<1>3. PagesOf(<<>>) = <<>> /\ ToSet(<<>>) = {} /\ IsInjective(<<>>)
  BY DEF PagesOf, ToSet, IsInjective
<1> HIDE DEF g, r
<1>4. /\ ToSet(a \o r) = ToSet(a) \cup ToSet(r)
      /\ IsInjective(a) /\ IsInjective(r) /\ ToSet(a) \cap ToSet(r) = {}
           => IsInjective(a \o r)
  BY <1>1, CatOnce
<1>5. Apart(a, b, PagesOf(f), <<>>)
  BY <1>3 DEF HeldOK
<1>6. Apart(a \o r, b, <<>>, PagesOf(g))
  BY <1>2, <1>3, <1>4, <1>5 DEF Apart
<1>7. /\ Len(a \o r) = Len(a) + Len(r) /\ Len(<<>>) = 0 /\ Len(a) \in Nat
      /\ Len(b) \in Nat /\ Len(f) \in Nat /\ Len(g) \in Nat /\ Len(r) \in Nat
  BY <1>1, CatLen
<1>8. e = 0 => Len(a) + Len(b) + Len(f) + Len(<<>>) = m_buffers
  BY DEF HeldOK
<1>9. e = 0 => Len(a \o r) + Len(b) + Len(<<>>) + Len(g) = m_buffers
  <2>1. Len(r) + Len(g) = Len(f)
    BY <1>1, <1>7 DEF r
  <2>2. QED
    BY <1>7, <1>8, <2>1
<1>10. QED
  BY <1>3, <1>6, <1>9 DEF HeldOK, g, r

(* getResult: the page of the event it makes is free.                      *)
LEMMA TakeHeld ==
  ASSUME NEW a \in Seq(Pages), NEW b \in Seq(Pages), NEW f \in Seq(Full),
         NEW m \in Seq(Full), NEW e, HeldOK(a, b, f, m, e), m # <<>>
  PROVE  HeldOK(Append(a, Last(m).page), b, f, Front(m), e)
<1> DEFINE x == Last(m).page
           p == PagesOf(Front(m))
<1>1. /\ Front(m) \in Seq(Full) /\ Last(m) \in Full /\ Len(Front(m)) = Len(m) - 1
  BY TakeOnce
<1>2. x \in Pages /\ p \in Seq(Pages) /\ <<x>> \in Seq(Pages)
  <2>1. x \in Pages
    BY <1>1 DEF Full
  <2>2. QED
    BY <1>1, <2>1, PagesOfType
<1>3. PagesOf(m) = p \o <<x>>
  BY <1>1, PagesOfMoves
<1> HIDE DEF p, x
<1>4. ToSet(<<x>>) = {x} /\ IsInjective(<<x>>)
  BY SingleOnce
<1>5. /\ ToSet(PagesOf(m)) = ToSet(p) \cup {x}
      /\ IsInjective(PagesOf(m)) => IsInjective(p) /\ x \notin ToSet(p)
  <2>1. /\ ToSet(p \o <<x>>) = ToSet(p) \cup ToSet(<<x>>)
        /\ IsInjective(p \o <<x>>) => IsInjective(p) /\ ToSet(p) \cap ToSet(<<x>>) = {}
    BY <1>2, CatOnce
  <2>2. QED
    BY <1>3, <1>4, <2>1
<1>6. /\ Append(a, x) = a \o <<x>>
      /\ ToSet(a \o <<x>>) = ToSet(a) \cup {x}
      /\ IsInjective(a) /\ x \notin ToSet(a) => IsInjective(a \o <<x>>)
  <2>1. /\ ToSet(a \o <<x>>) = ToSet(a) \cup ToSet(<<x>>)
        /\ IsInjective(a) /\ IsInjective(<<x>>) /\ ToSet(a) \cap ToSet(<<x>>) = {}
             => IsInjective(a \o <<x>>)
    BY <1>2, CatOnce
  <2>2. Append(a, x) = a \o <<x>>
    BY <1>2
  <2>3. QED
    BY <1>4, <2>1, <2>2
<1>7. Apart(a, b, PagesOf(f), PagesOf(m))
  BY DEF HeldOK
<1>8. Apart(Append(a, x), b, PagesOf(f), p)
  BY <1>5, <1>6, <1>7 DEF Apart
<1>9. Len(Append(a, x)) = Len(a) + 1 /\ Len(a) \in Nat /\ Len(b) \in Nat
      /\ Len(f) \in Nat /\ Len(m) \in Nat
  BY <1>2
<1>10. e = 0 => Len(a) + Len(b) + Len(f) + Len(m) = m_buffers
  BY DEF HeldOK
<1>11. QED
  BY <1>1, <1>8, <1>9, <1>10 DEF HeldOK, p, x

(* startIO: the free pages go to the card, or are lost with a failing      *)
(* call.                                                                   *)
LEMMA StartHeld ==
  ASSUME NEW a \in Seq(Pages), NEW b \in Seq(Pages), NEW f \in Seq(Full),
         NEW m \in Seq(Full), NEW e \in Nat, HeldOK(a, b, f, m, e)
  PROVE  /\ HeldOK(<<>>, b \o Reverse(a), f, m, e)
         /\ HeldOK(<<>>, b, f, m, e + 1)
<1>1. /\ Reverse(a) \in Seq(Pages) /\ Len(Reverse(a)) = Len(a)
      /\ ToSet(Reverse(a)) = ToSet(a)
      /\ IsInjective(a) => IsInjective(Reverse(a))
  BY ReverseOnce
<1>2. /\ ToSet(b \o Reverse(a)) = ToSet(b) \cup ToSet(Reverse(a))
      /\ IsInjective(b) /\ IsInjective(Reverse(a)) /\ ToSet(b) \cap ToSet(Reverse(a)) = {}
           => IsInjective(b \o Reverse(a))
  BY <1>1, CatOnce
<1>3. ToSet(<<>>) = {} /\ IsInjective(<<>>) /\ Len(<<>>) = 0
  BY DEF ToSet, IsInjective
<1>4. Apart(a, b, PagesOf(f), PagesOf(m))
  BY DEF HeldOK
<1>5. /\ Apart(<<>>, b \o Reverse(a), PagesOf(f), PagesOf(m))
      /\ Apart(<<>>, b, PagesOf(f), PagesOf(m))
  BY <1>1, <1>2, <1>3, <1>4 DEF Apart
<1>6. Len(b \o Reverse(a)) = Len(b) + Len(a) /\ Len(a) \in Nat /\ Len(b) \in Nat
      /\ Len(f) \in Nat /\ Len(m) \in Nat
  <2>1. Len(b \o Reverse(a)) = Len(b) + Len(Reverse(a))
    BY <1>1, CatLen
  <2>2. Len(a) \in Nat /\ Len(b) \in Nat /\ Len(f) \in Nat /\ Len(m) \in Nat
    OBVIOUS
  <2>3. QED
    BY <1>1, <2>1, <2>2
<1>7. e = 0 => Len(a) + Len(b) + Len(f) + Len(m) = m_buffers
  BY DEF HeldOK
<1>8. e + 1 # 0
  OBVIOUS
<1>9. QED
  BY <1>3, <1>5, <1>6, <1>7, <1>8 DEF HeldOK

(* All pages are free, or with the card.                                   *)
LEMMA FreshHeld ==
  ASSUME NEW e
  PROVE  /\ HeldOK(AllPages, <<>>, <<>>, <<>>, e)
         /\ HeldOK(<<>>, Reverse(AllPages), <<>>, <<>>, e)
<1>1. PagesOf(<<>>) = <<>> /\ ToSet(<<>>) = {} /\ IsInjective(<<>>) /\ Len(<<>>) = 0
  BY DEF PagesOf, ToSet, IsInjective
<1>2. m_buffers \in Nat
  BY FilarAssumption
<1>3. QED
  BY <1>1, <1>2, AllPagesFacts DEF HeldOK, Apart

(* The inductive invariant of PageKept.                                    *)
PagesHeld ==
  \A c \in Chans :
    HeldOK(m_available[c], infifo[c], filled[c], m_completed[c], errors)

(* The types of the lists of one channel.                                  *)
LEMMA HeldTypes ==
  ASSUME FilarTypeOK, NEW c \in Chans
  PROVE  /\ m_available[c] \in Seq(Pages) /\ infifo[c] \in Seq(Pages)
         /\ filled[c] \in Seq(Full) /\ m_completed[c] \in Seq(Full)
BY DEF FilarTypeOK

(* PagesHeld is what NothingLost says of the pages.                        *)
LEMMA HeldKept ==
  ASSUME FilarTypeOK, PagesHeld
  PROVE  PageKept
<1>1. SUFFICES ASSUME NEW c \in Chans
               PROVE  IsInjective(Held(c)) /\ (errors = 0 => Len(Held(c)) = m_buffers)
  BY DEF PageKept
<1>2. HeldOK(m_available[c], infifo[c], filled[c], m_completed[c], errors)
  BY DEF PagesHeld
<1>3. QED
  BY <1>2, HeldTypes, HeldIs DEF Held

(* After reset no page is full.                                            *)
LEMMA FreshStart ==
  ASSUME NEW a, NEW b, Fresh(a, b), NEW c \in Chans, NEW e
  PROVE  HeldOK(a[c], b[c], <<>>, <<>>, e)
<1>1. CASE c = 1
  <2>1. a[c] = <<>> /\ b[c] = Reverse(AllPages)
    BY <1>1 DEF Fresh
  <2>2. QED
    BY <2>1, FreshHeld
<1>2. CASE c # 1
  <2>1. a[c] = AllPages /\ b[c] = <<>>
    BY <1>2 DEF Fresh
  <2>2. QED
    BY <2>1, FreshHeld
<1>3. QED
  BY <1>1, <1>2

(* All pages are with the card, or free, at the start.                     *)
LEMMA PagesInit == FilarInit => PagesHeld
<1> SUFFICES ASSUME FilarInit, NEW c \in Chans
             PROVE  HeldOK(m_available[c], infifo[c], filled[c], m_completed[c], errors)
  BY DEF PagesHeld
<1>1. Fresh(m_available, infifo)
  BY DEF FilarInit, Fresh, AllPages
<1>2. filled[c] = <<>> /\ m_completed[c] = <<>>
  BY DEF FilarInit
<1>3. QED
  BY <1>1, <1>2, FreshStart

(* Every step keeps the pages with their holders.                          *)
LEMMA PagesStep ==
  ASSUME FilarTypeOK, PagesHeld, [FilarNext]_filarVars
  PROVE  PagesHeld'
<1> SUFFICES ASSUME NEW d \in Chans
             PROVE  HeldOK(m_available'[d], infifo'[d], filled'[d], m_completed'[d], errors')
  BY DEF PagesHeld
<1> DEFINE Was == HeldOK(m_available[d], infifo[d], filled[d], m_completed[d], errors)
<1>0. Was /\ chan \in Chans /\ errors \in Nat
  BY DEF PagesHeld, FilarTypeOK
<1>1. /\ m_available[d] \in Seq(Pages) /\ infifo[d] \in Seq(Pages)
      /\ filled[d] \in Seq(Full) /\ m_completed[d] \in Seq(Full)
  BY HeldTypes
<1>2. DOMAIN m_available = Chans /\ DOMAIN infifo = Chans /\ DOMAIN filled = Chans
      /\ DOMAIN m_completed = Chans
  BY DEF FilarTypeOK
<1>3. ASSUME NEW c \in Chans, Arrive(c)
      PROVE  HeldOK(m_available'[d], infifo'[d], filled'[d], m_completed'[d], errors')
  <2>1. PICK bad \in BOOLEAN :
          filled' = [filled EXCEPT ![c] = Append(filled[c],
                      [page |-> Head(infifo[c]), frag |-> arrived + 1, bad |-> bad])]
    BY <1>3 DEF Arrive
  <2>2. infifo' = [infifo EXCEPT ![c] = Tail(infifo[c])] /\ infifo[c] # <<>>
        /\ UNCHANGED <<m_available, m_completed, errors>>
    BY <1>3 DEF Arrive
  <2>3. CASE c = d
    <3> DEFINE e == [page |-> Head(infifo[d]), frag |-> arrived + 1, bad |-> bad]
    <3>1. e \in Full /\ e.page = Head(infifo[d])
      <4>1. Head(infifo[d]) \in Pages
        BY <1>1, <2>2, <2>3, TakeOnce
      <4>2. arrived + 1 \in Fragments
        BY <1>3, FilarAssumption DEF Arrive, FilarTypeOK, Fragments
      <4>3. QED
        BY <4>1, <4>2 DEF Full
    <3>2. filled'[d] = Append(filled[d], e) /\ infifo'[d] = Tail(infifo[d])
      BY <1>2, <2>1, <2>2, <2>3
    <3> HIDE DEF e
    <3>3. HeldOK(m_available[d], Tail(infifo[d]), Append(filled[d], e),
                 m_completed[d], errors)
      BY <1>0, <1>1, <2>2, <2>3, <3>1, ArriveHeld
    <3>4. QED
      BY <2>2, <3>2, <3>3
  <2>4. CASE c # d
    <3>1. filled'[d] = filled[d] /\ infifo'[d] = infifo[d]
      BY <1>2, <2>1, <2>2, <2>4
    <3>2. QED
      BY <1>0, <2>2, <3>1
  <2>5. QED
    BY <2>3, <2>4
<1>4. CASE pollIO
  <2>1. /\ m_completed' = [m_completed EXCEPT ![chan] =
             m_completed[chan] \o Good(filled[chan])]
        /\ m_available' = [m_available EXCEPT ![chan] =
             m_available[chan] \o PagesOf(Bad(filled[chan]))]
        /\ filled' = [filled EXCEPT ![chan] = <<>>]
        /\ m_completed[chan] = <<>>
        /\ UNCHANGED <<infifo, errors>>
    BY <1>4 DEF pollIO
  <2>2. CASE d = chan
    <3>1. Good(filled[d]) \in Seq(Full)
      BY <1>1, SplitFacts
    <3>2. /\ m_completed'[d] = <<>> \o Good(filled[d])
          /\ m_available'[d] = m_available[d] \o PagesOf(Bad(filled[d]))
          /\ filled'[d] = <<>>
      BY <1>2, <2>1, <2>2
    <3>3. <<>> \o Good(filled[d]) = Good(filled[d])
      BY <3>1, CatEmpty
    <3>4. HeldOK(m_available[d] \o PagesOf(Bad(filled[d])), infifo[d], <<>>,
                 Good(filled[d]), errors)
      BY <1>0, <1>1, <2>1, <2>2, PollHeld
    <3>5. QED
      BY <2>1, <3>2, <3>3, <3>4
  <2>3. CASE d # chan
    <3>1. /\ m_completed'[d] = m_completed[d] /\ m_available'[d] = m_available[d]
          /\ filled'[d] = filled[d]
      BY <1>2, <2>1, <2>3
    <3>2. QED
      BY <1>0, <2>1, <3>1
  <2>4. QED
    BY <2>2, <2>3
<1>5. CASE Take
  <2>1. /\ m_completed' = [m_completed EXCEPT ![chan] = Front(m_completed[chan])]
        /\ m_available' = [m_available EXCEPT ![chan] =
             Append(m_available[chan], Last(m_completed[chan]).page)]
        /\ m_completed[chan] # <<>>
        /\ UNCHANGED <<infifo, filled, errors>>
    BY <1>5 DEF Take, cardVars
  <2>2. CASE d = chan
    <3>1. /\ m_completed'[d] = Front(m_completed[d])
          /\ m_available'[d] = Append(m_available[d], Last(m_completed[d]).page)
      BY <1>2, <2>1, <2>2
    <3>2. HeldOK(Append(m_available[d], Last(m_completed[d]).page), infifo[d],
                 filled[d], Front(m_completed[d]), errors)
      BY <1>0, <1>1, <2>1, <2>2, TakeHeld
    <3>3. QED
      BY <2>1, <3>1, <3>2
  <2>3. CASE d # chan
    <3>1. m_completed'[d] = m_completed[d] /\ m_available'[d] = m_available[d]
      BY <1>2, <2>1, <2>3
    <3>2. QED
      BY <1>0, <2>1, <3>1
  <2>4. QED
    BY <2>2, <2>3
<1>6. CASE Return \/ Throw
  <2>1. UNCHANGED <<filled, m_completed>>
    BY <1>6 DEF Return, Throw
  <2>2. \/ UNCHANGED <<infifo, m_available, errors>>
        \/ /\ infifo' = [infifo EXCEPT ![chan] = infifo[chan] \o Reverse(m_available[chan])]
           /\ m_available' = [m_available EXCEPT ![chan] = <<>>]
           /\ UNCHANGED errors
        \/ /\ m_available' = [m_available EXCEPT ![chan] = <<>>]
           /\ errors' = errors + 1
           /\ UNCHANGED infifo
    BY <1>6 DEF Return, Throw, startIO, PagesInFails
  <2>3. CASE UNCHANGED <<infifo, m_available, errors>>
    BY <1>0, <2>1, <2>3
  <2>4. CASE /\ infifo' = [infifo EXCEPT ![chan] =
                  infifo[chan] \o Reverse(m_available[chan])]
             /\ m_available' = [m_available EXCEPT ![chan] = <<>>]
             /\ UNCHANGED errors
    <3>1. CASE d = chan
      <4>1. infifo'[d] = infifo[d] \o Reverse(m_available[d]) /\ m_available'[d] = <<>>
        BY <1>2, <2>4, <3>1
      <4>2. HeldOK(<<>>, infifo[d] \o Reverse(m_available[d]), filled[d],
                   m_completed[d], errors)
        BY <1>0, <1>1, StartHeld
      <4>3. QED
        BY <2>1, <2>4, <4>1, <4>2
    <3>2. CASE d # chan
      <4>1. infifo'[d] = infifo[d] /\ m_available'[d] = m_available[d]
        BY <1>2, <2>4, <3>2
      <4>2. QED
        BY <1>0, <2>1, <2>4, <4>1
    <3>3. QED
      BY <3>1, <3>2
  <2>5. CASE /\ m_available' = [m_available EXCEPT ![chan] = <<>>]
             /\ errors' = errors + 1
             /\ UNCHANGED infifo
    <3>1. CASE d = chan
      <4>1. m_available'[d] = <<>>
        BY <1>2, <2>5, <3>1
      <4>2. HeldOK(<<>>, infifo[d], filled[d], m_completed[d], errors + 1)
        BY <1>0, <1>1, StartHeld
      <4>3. QED
        BY <2>1, <2>5, <4>1, <4>2
    <3>2. CASE d # chan
      <4>1. m_available'[d] = m_available[d]
        BY <1>2, <2>5, <3>2
      <4>2. errors' # 0
        BY <1>0, <2>5
      <4>3. Apart(m_available'[d], infifo'[d], PagesOf(filled'[d]),
                  PagesOf(m_completed'[d]))
        BY <1>0, <2>1, <2>5, <4>1 DEF HeldOK
      <4>4. QED
        BY <4>2, <4>3 DEF HeldOK
    <3>3. QED
      BY <3>1, <3>2
  <2>6. QED
    BY <2>2, <2>3, <2>4, <2>5
<1>7. CASE NoPoll \/ NoResult \/ PollFails \/ UNCHANGED filarVars
  <2>1. UNCHANGED <<m_available, infifo, filled, m_completed>>
    BY <1>7 DEF NoPoll, NoResult, PollFails, cardVars, filarVars
  <2>2. errors' = errors \/ errors' = errors + 1
    BY <1>7 DEF NoPoll, NoResult, PollFails, cardVars, filarVars
  <2>3. errors' = 0 => errors = 0
    BY <1>0, <2>2
  <2>4. QED
    BY <1>0, <2>1, <2>3 DEF HeldOK
<1>8. CASE reset
  <2>1. Fresh(m_available', infifo')
    BY <1>8 DEF reset, Fresh, AllPages
  <2>2. filled'[d] = <<>> /\ m_completed'[d] = <<>>
    BY <1>8 DEF reset
  <2>3. QED
    BY <2>1, <2>2, FreshStart
<1>9. QED
  BY <1>3, <1>4, <1>5, <1>6, <1>7, <1>8 DEF FilarNext, getResult

-----------------------------------------------------------------------------
(* Filar: no fragment is lost or delivered twice.                          *)

(* The fragments when a full page joins a list.                            *)
LEMMA FragsOfMoves ==
  ASSUME NEW f \in Seq(Full), NEW x \in Full
  PROVE  /\ FragsOf(<<>>) = {} /\ FragsOnce(<<>>)
         /\ FragsOf(Append(f, x)) = FragsOf(f) \cup {x.frag}
         /\ FragsOnce(f) /\ x.frag \notin FragsOf(f) => FragsOnce(Append(f, x))
         /\ FragsOnce(Append(f, x)) => FragsOnce(f) /\ x.frag \notin FragsOf(f)
<1> DEFINE n == Len(f)
           g == Append(f, x)
<1>1. /\ n \in Nat /\ DOMAIN f = 1..n /\ DOMAIN g = 1..(n + 1)
      /\ \A i \in 1..n : g[i] = f[i]
      /\ g[n + 1] = x
  OBVIOUS
<1> HIDE DEF n, g
<1>2. \A i \in 1..(n + 1) : i \in 1..n \/ i = n + 1
  BY <1>1
<1>3. \A i \in 1..n : i \in 1..(n + 1) /\ i # n + 1
  BY <1>1
<1>4. n + 1 \in 1..(n + 1)
  BY <1>1
<1>5. FragsOf(g) = FragsOf(f) \cup {x.frag}
  <2>1. FragsOf(g) = {g[i].frag : i \in 1..(n + 1)} /\ FragsOf(f) = {f[i].frag : i \in 1..n}
    BY <1>1 DEF FragsOf
  <2>2. QED
    BY <1>1, <1>2, <1>3, <1>4, <2>1
<1>6. ASSUME FragsOnce(f), x.frag \notin FragsOf(f) PROVE FragsOnce(g)
  <2>1. \A i \in 1..n : f[i].frag # x.frag
    BY <1>1, <1>6 DEF FragsOf
  <2>2. QED
    BY <1>1, <1>2, <1>6, <2>1 DEF FragsOnce
<1>7. ASSUME FragsOnce(g) PROVE FragsOnce(f) /\ x.frag \notin FragsOf(f)
  <2>1. FragsOnce(f)
    BY <1>1, <1>3, <1>7 DEF FragsOnce
  <2>2. \A i \in 1..n : f[i].frag # x.frag
    BY <1>1, <1>3, <1>4, <1>7 DEF FragsOnce
  <2>3. QED
    BY <1>1, <2>1, <2>2 DEF FragsOf
<1>8. FragsOf(<<>>) = {} /\ FragsOnce(<<>>)
  BY DEF FragsOf, FragsOnce
<1>9. QED
  BY <1>5, <1>6, <1>7, <1>8 DEF g

(* The fragments when the last page leaves a list.                         *)
LEMMA FragsOfLast ==
  ASSUME NEW f \in Seq(Full), f # <<>>
  PROVE  /\ FragsOf(f) = FragsOf(Front(f)) \cup {Last(f).frag}
         /\ FragsOnce(f) => /\ FragsOnce(Front(f))
                            /\ Last(f).frag \notin FragsOf(Front(f))
<1>1. Front(f) \in Seq(Full) /\ Last(f) \in Full /\ f = Front(f) \o <<Last(f)>>
  BY TakeOnce
<1>2. Append(Front(f), Last(f)) = Front(f) \o <<Last(f)>>
  BY <1>1
<1> DEFINE a == Front(f)
           x == Last(f)
<1> HIDE DEF a, x
<1>3. a \in Seq(Full) /\ x \in Full /\ f = Append(a, x)
  BY <1>1, <1>2 DEF a, x
<1>4. QED
  BY <1>3, FragsOfMoves DEF a, x

(* What getResult has made of fragments, in order: the events that it has  *)
(* returned and the one in hand.                                           *)
Returned == IF l1Result = 0 THEN delivered ELSE Append(delivered, l1Result)

(* The events that getResult has made: those it has returned, and the one  *)
(* in hand.                                                                *)
LEMMA ReturnedFacts ==
  ASSUME FilarTypeOK
  PROVE  /\ Returned \in Seq(Fragments)
         /\ ToSet(Returned) = ToSet(delivered) \cup ({l1Result} \ {0})
         /\ Len(delivered) <= Len(Returned)
         /\ \A i \in DOMAIN delivered : i \in DOMAIN Returned /\ Returned[i] = delivered[i]
<1>1. delivered \in Seq(Fragments) /\ l1Result \in Fragments \cup {0}
      /\ Fragments \subseteq Nat \ {0}
  BY DEF FilarTypeOK, Fragments
<1>2. CASE l1Result = 0
  BY <1>1, <1>2 DEF Returned
<1>3. CASE l1Result # 0
  <2>1. l1Result \in Fragments /\ Returned = Append(delivered, l1Result)
    BY <1>1, <1>3 DEF Returned
  <2>2. Append(delivered, l1Result) = delivered \o <<l1Result>>
        /\ <<l1Result>> \in Seq(Fragments)
    BY <1>1, <2>1
  <2>3. ToSet(delivered \o <<l1Result>>) = ToSet(delivered) \cup ToSet(<<l1Result>>)
    BY <1>1, <2>2, CatOnce
  <2>4. ToSet(<<l1Result>>) = {l1Result}
    BY SingleOnce
  <2>5. ToSet(Returned) = ToSet(delivered) \cup ({l1Result} \ {0})
    BY <1>3, <2>1, <2>2, <2>3, <2>4
  <2>6. Returned \in Seq(Fragments) /\ Len(delivered) <= Len(Returned)
        /\ \A i \in DOMAIN delivered : i \in DOMAIN Returned /\ Returned[i] = delivered[i]
    BY <1>1, <2>1
  <2>7. QED
    BY <2>5, <2>6
<1>4. QED
  BY <1>2, <1>3

(* What a step does to the fragments: one comes, the poll of a channel     *)
(* sorts them, one is made an event, an event is lost with an exception,   *)
(* a reset takes all, or nothing.                                          *)
Comes(c) ==
  /\ arrived + 1 \in Fragments
  /\ \E x \in Full : /\ x.frag = arrived + 1
                     /\ filled' = [filled EXCEPT ![c] = Append(filled[c], x)]
  /\ from' = [from EXCEPT ![arrived + 1] = c]
  /\ arrived' = arrived + 1
  /\ UNCHANGED <<m_completed, gone, poll, errors>>
  /\ Returned' = Returned

Polled ==
  /\ m_completed[chan] = <<>>
  /\ m_completed' = [m_completed EXCEPT ![chan] = Good(filled[chan])]
  /\ filled' = [filled EXCEPT ![chan] = <<>>]
  /\ poll' = [f \in Fragments |->
               IF f \in FragsOf(Good(filled[chan])) THEN polls + 1 ELSE poll[f]]
  /\ gone' = gone \cup FragsOf(Bad(filled[chan]))
  /\ UNCHANGED <<arrived, from, errors>>
  /\ Returned' = Returned

Taken ==
  /\ m_completed[chan] # <<>>
  /\ m_completed' = [m_completed EXCEPT ![chan] = Front(m_completed[chan])]
  /\ Returned' = Append(Returned, Last(m_completed[chan]).frag)
  /\ UNCHANGED <<filled, gone, poll, arrived, from, errors>>

Thrown ==
  /\ Returned' = delivered
  /\ errors' = errors + 1
  /\ UNCHANGED <<filled, m_completed, gone, poll, arrived, from>>

Emptied ==
  /\ filled' = [c \in Chans |-> <<>>] /\ m_completed' = [c \in Chans |-> <<>>]
  /\ gone' = gone \cup Pending
  /\ UNCHANGED <<poll, arrived, from, errors>>
  /\ Returned' = Returned

FragsRest ==
  /\ UNCHANGED <<filled, m_completed, gone, poll, arrived, from>>
  /\ errors' \in {errors, errors + 1}
  /\ Returned' = Returned

(* Every step is one of these.                                             *)
LEMMA FilarSteps ==
  ASSUME FilarTypeOK, [FilarNext]_filarVars
  PROVE  \/ \E c \in Chans : Comes(c)
         \/ Polled \/ Taken \/ Thrown \/ Emptied \/ FragsRest
<1>0. FilarTypeOK'
  BY FilarTypeStep
<1>1. ASSUME NEW c \in Chans, Arrive(c) PROVE Comes(c)
  <2>1. PICK bad \in BOOLEAN :
          filled' = [filled EXCEPT ![c] = Append(filled[c],
                      [page |-> Head(infifo[c]), frag |-> arrived + 1, bad |-> bad])]
    BY <1>1 DEF Arrive
  <2> DEFINE e == [page |-> Head(infifo[c]), frag |-> arrived + 1, bad |-> bad]
  <2>2. arrived + 1 \in Fragments
    BY <1>1, FilarAssumption DEF Arrive, FilarTypeOK, Fragments
  <2>3. Head(infifo[c]) \in Pages
    <3>1. infifo[c] \in Seq(Pages) /\ infifo[c] # <<>>
      BY <1>1, HeldTypes DEF Arrive
    <3>2. QED
      BY <3>1, TakeOnce
  <2>4. e \in Full /\ e.frag = arrived + 1
    BY <2>2, <2>3 DEF Full
  <2> HIDE DEF e
  <2>5. \E x \in Full : /\ x.frag = arrived + 1
                        /\ filled' = [filled EXCEPT ![c] = Append(filled[c], x)]
    BY <2>1, <2>4 DEF e
  <2>6. Returned' = Returned
    BY <1>1 DEF Arrive, Returned
  <2>7. QED
    BY <1>1, <2>2, <2>5, <2>6 DEF Arrive, Comes
<1>2. ASSUME pollIO PROVE Polled
  <2>1. filled[chan] \in Seq(Full)
    BY HeldTypes DEF FilarTypeOK
  <2>2. m_completed' = [m_completed EXCEPT ![chan] = m_completed[chan] \o Good(filled[chan])]
        /\ m_completed[chan] = <<>>
    BY <1>2 DEF pollIO
  <2>3. <<>> \o Good(filled[chan]) = Good(filled[chan])
    BY <2>1, SplitFacts, CatEmpty
  <2>4. m_completed' = [m_completed EXCEPT ![chan] = Good(filled[chan])]
    BY <2>2, <2>3
  <2>5. Returned' = Returned
    BY <1>2 DEF pollIO, Returned
  <2>6. QED
    BY <1>2, <2>2, <2>4, <2>5 DEF pollIO, Polled
<1>3. ASSUME Take PROVE Taken
  <2>1. l1Result = 0 /\ l1Result' = Last(m_completed[chan]).frag /\ delivered' = delivered
    BY <1>3 DEF Take, FilarTypeOK
  <2>2. l1Result' # 0
    <3>1. m_completed[chan] \in Seq(Full) /\ m_completed[chan] # <<>>
      BY <1>3, HeldTypes DEF Take, FilarTypeOK
    <3>2. Last(m_completed[chan]) \in Full
      BY <3>1, TakeOnce
    <3>3. QED
      BY <2>1, <3>2 DEF Full, Fragments
  <2>3. Returned' = Append(Returned, Last(m_completed[chan]).frag)
    BY <2>1, <2>2 DEF Returned
  <2>4. QED
    BY <1>3, <2>3 DEF Take, Taken, cardVars, pollVars
<1>4. ASSUME Throw PROVE Thrown
  BY <1>4 DEF Throw, PagesInFails, Thrown, pollVars, Returned
<1>5. ASSUME reset PROVE Emptied
  BY <1>5 DEF reset, Emptied, Returned
<1>6. ASSUME Return PROVE FragsRest
  <2>1. Returned' = Returned
    BY <1>6 DEF Return, Returned
  <2>2. QED
    BY <1>6, <2>1 DEF Return, FragsRest, pollVars
<1>7. ASSUME NoPoll \/ NoResult \/ PollFails \/ UNCHANGED filarVars PROVE FragsRest
  <2>1. Returned' = Returned
    BY <1>7 DEF NoPoll, NoResult, PollFails, filarVars, Returned
  <2>2. errors' \in {errors, errors + 1}
    BY <1>7 DEF NoPoll, NoResult, PollFails, filarVars
  <2>3. UNCHANGED <<filled, m_completed, gone, poll, arrived, from>>
    BY <1>7 DEF NoPoll, NoResult, PollFails, filarVars, cardVars, pollVars
  <2>4. QED
    BY <2>1, <2>2, <2>3 DEF FragsRest
<1>8. QED
  BY <1>1, <1>2, <1>3, <1>4, <1>5, <1>6, <1>7 DEF FilarNext, getResult

(* Of the fragments of one channel, none is twice in the lists, none is    *)
(* done with, and those that pollIO has fetched came before those that it  *)
(* has not.                                                                *)
ChanOK(c, full, completed, n, done, where) ==
  /\ FragsOnce(full) /\ FragsOnce(completed)
  /\ \A f \in FragsOf(full) \cup FragsOf(completed) :
       f \in 1..n /\ where[f] = c /\ f \notin done
  /\ \A f \in FragsOf(completed), g \in FragsOf(full) : f < g

Done == ToSet(Returned) \cup gone

ChanInv == \A c \in Chans :
             ChanOK(c, filled[c], m_completed[c], arrived, Done, from)

OnceInv == /\ Done \subseteq 1..arrived
           /\ IsInjective(Returned)
           /\ ToSet(Returned) \cap gone = {}

(* The fragments that are nowhere any more.                                *)
Missing == (1..arrived) \ (Pending \cup Done)

LossInv == Cardinality(Missing) <= errors

FragInv == ChanInv /\ OnceInv /\ LossInv

(* What is taken from the back of a list of a channel.                     *)
LEMMA LastTaken ==
  ASSUME FilarTypeOK, Taken
  PROVE  /\ Last(m_completed[chan]).frag \in Fragments
         /\ FragsOf(m_completed[chan]) =
              FragsOf(Front(m_completed[chan])) \cup {Last(m_completed[chan]).frag}
         /\ FragsOnce(m_completed[chan]) =>
              /\ FragsOnce(Front(m_completed[chan]))
              /\ Last(m_completed[chan]).frag \notin FragsOf(Front(m_completed[chan]))
<1>1. m_completed[chan] \in Seq(Full) /\ m_completed[chan] # <<>>
  BY HeldTypes DEF FilarTypeOK, Taken
<1>2. Last(m_completed[chan]) \in Full
  BY <1>1, TakeOnce
<1>3. Last(m_completed[chan]).frag \in Fragments
  BY <1>2 DEF Full
<1>4. QED
  BY <1>1, <1>3, FragsOfLast

(* How the steps change what is done with.                                 *)
LEMMA DoneSteps ==
  ASSUME FilarTypeOK
  PROVE  /\ \A c \in Chans : Comes(c) => Done' = Done
         /\ Polled => Done' = Done \cup FragsOf(Bad(filled[chan]))
         /\ Taken => Done' = Done \cup {Last(m_completed[chan]).frag}
         /\ Thrown => Done' \subseteq Done /\ Done \subseteq Done' \cup {l1Result}
         /\ Emptied => Done' = Done \cup Pending
         /\ FragsRest => Done' = Done
<1>1. ASSUME NEW c \in Chans, Comes(c) PROVE Done' = Done
  BY <1>1 DEF Comes, Done
<1>2. ASSUME Polled PROVE Done' = Done \cup FragsOf(Bad(filled[chan]))
  BY <1>2 DEF Polled, Done
<1>3. ASSUME Taken PROVE Done' = Done \cup {Last(m_completed[chan]).frag}
  <2> DEFINE x == Last(m_completed[chan]).frag
  <2>1. x \in Fragments /\ Returned \in Seq(Fragments)
    BY <1>3, LastTaken, ReturnedFacts
  <2> HIDE DEF x
  <2>2. ToSet(Append(Returned, x)) = ToSet(Returned) \cup {x}
    BY <2>1, AppendOnce
  <2>3. Returned' = Append(Returned, x) /\ gone' = gone
    BY <1>3 DEF Taken, x
  <2>4. QED
    BY <2>2, <2>3 DEF Done, x
<1>4. ASSUME Thrown PROVE Done' \subseteq Done /\ Done \subseteq Done' \cup {l1Result}
  <2>1. Returned' = delivered /\ gone' = gone
    BY <1>4 DEF Thrown
  <2>2. ToSet(Returned) = ToSet(delivered) \cup ({l1Result} \ {0})
    BY ReturnedFacts
  <2>3. QED
    BY <2>1, <2>2 DEF Done
<1>5. ASSUME Emptied PROVE Done' = Done \cup Pending
  BY <1>5 DEF Emptied, Done
<1>6. ASSUME FragsRest PROVE Done' = Done
  BY <1>6 DEF FragsRest, Done
<1>7. QED
  BY <1>1, <1>2, <1>3, <1>4, <1>5, <1>6

(* Nothing is wrong with a channel without full pages.                     *)
LEMMA EmptyChan ==
  ASSUME NEW c, NEW n, NEW done, NEW where
  PROVE  ChanOK(c, <<>>, <<>>, n, done, where)
BY DEF ChanOK, FragsOf, FragsOnce

(* No fragment has come at the start.                                      *)
LEMMA FragInit == FilarInit => FragInv
<1> SUFFICES ASSUME FilarInit PROVE FragInv
  OBVIOUS
<1>1. Returned = <<>> /\ gone = {} /\ arrived = 0 /\ errors = 0
  BY DEF FilarInit, Returned
<1>2. ToSet(<<>>) = {} /\ IsInjective(<<>>)
  BY DEF ToSet, IsInjective
<1>3. ASSUME NEW c \in Chans
      PROVE  ChanOK(c, filled[c], m_completed[c], arrived, Done, from)
  <2>1. filled[c] = <<>> /\ m_completed[c] = <<>>
    BY DEF FilarInit
  <2>2. QED
    BY <2>1, EmptyChan
<1>4. OnceInv
  BY <1>1, <1>2 DEF OnceInv, Done
<1>5. Missing = {}
  BY <1>1 DEF Missing
<1>6. LossInv
  BY <1>1, <1>5, FS_EmptySet DEF LossInv
<1>7. QED
  BY <1>3, <1>4, <1>6 DEF FragInv, ChanInv

(* Every step keeps the fragments of each channel in order.                *)
LEMMA ChanStep ==
  ASSUME FilarTypeOK, FragInv, [FilarNext]_filarVars
  PROVE  ChanInv'
<1> SUFFICES ASSUME NEW d \in Chans
             PROVE  ChanOK(d, filled'[d], m_completed'[d], arrived', Done', from')
  BY DEF ChanInv
<1>1. /\ ChanOK(d, filled[d], m_completed[d], arrived, Done, from)
      /\ ChanOK(chan, filled[chan], m_completed[chan], arrived, Done, from)
      /\ Done \subseteq 1..arrived /\ arrived \in Nat /\ chan \in Chans
  BY DEF FragInv, ChanInv, OnceInv, FilarTypeOK
<1>2. /\ DOMAIN filled = Chans /\ DOMAIN m_completed = Chans
      /\ DOMAIN from = Fragments
      /\ filled[d] \in Seq(Full) /\ m_completed[d] \in Seq(Full)
  BY HeldTypes DEF FilarTypeOK
<1>3. 1..arrived \subseteq Fragments
  BY FilarAssumption DEF FilarTypeOK, Fragments
<1>4. ASSUME NEW c \in Chans, Comes(c)
      PROVE  ChanOK(d, filled'[d], m_completed'[d], arrived', Done', from')
  <2> DEFINE n == arrived + 1
  <2>1. PICK x \in Full : /\ x.frag = n
                          /\ filled' = [filled EXCEPT ![c] = Append(filled[c], x)]
    BY <1>4 DEF Comes
  <2>2. /\ from' = [from EXCEPT ![n] = c] /\ n \in Fragments
        /\ arrived' = n /\ m_completed' = m_completed /\ Done' = Done
    BY <1>4, DoneSteps DEF Comes
  <2>3. n \notin 1..arrived /\ (1..arrived) \subseteq 1..n /\ n \in 1..n
    BY <1>1
  <2>4. \A f \in 1..arrived : from'[f] = from[f]
    BY <1>2, <1>3, <2>2, <2>3
  <2>5. from'[n] = c
    BY <1>2, <2>2
  <2> HIDE DEF n
  <2>6. CASE c = d
    <3>1. filled'[d] = Append(filled[d], x)
      BY <1>2, <2>1, <2>6
    <3>2. FragsOf(filled'[d]) = FragsOf(filled[d]) \cup {n}
      BY <1>2, <2>1, <3>1, FragsOfMoves
    <3>3. n \notin FragsOf(filled[d]) /\ n \notin Done
      BY <1>1, <2>3 DEF ChanOK
    <3>4. FragsOnce(filled'[d])
      BY <1>1, <1>2, <2>1, <3>1, <3>3, FragsOfMoves DEF ChanOK
    <3>5. \A f \in FragsOf(m_completed[d]) : f < n
      <4>1. \A f \in 1..arrived : f < n
        BY <1>1 DEF n
      <4>2. QED
        BY <1>1, <4>1 DEF ChanOK
    <3>6. \A f \in FragsOf(filled'[d]) \cup FragsOf(m_completed[d]) :
            f \in 1..n /\ from'[f] = d /\ f \notin Done
      BY <1>1, <2>3, <2>4, <2>5, <2>6, <3>2, <3>3 DEF ChanOK
    <3>7. \A f \in FragsOf(m_completed[d]), g \in FragsOf(filled'[d]) : f < g
      BY <1>1, <3>2, <3>5 DEF ChanOK
    <3>8. FragsOnce(m_completed[d])
      BY <1>1 DEF ChanOK
    <3>9. QED
      BY <2>2, <3>4, <3>6, <3>7, <3>8 DEF ChanOK
  <2>7. CASE c # d
    <3>1. filled'[d] = filled[d]
      BY <1>2, <2>1, <2>7
    <3>2. QED
      BY <1>1, <2>2, <2>3, <2>4, <3>1 DEF ChanOK
  <2>8. QED
    BY <2>6, <2>7
<1>5. ASSUME Polled
      PROVE  ChanOK(d, filled'[d], m_completed'[d], arrived', Done', from')
  <2> DEFINE good == FragsOf(Good(filled[chan]))
             bad == FragsOf(Bad(filled[chan]))
  <2>1. /\ m_completed' = [m_completed EXCEPT ![chan] = Good(filled[chan])]
        /\ filled' = [filled EXCEPT ![chan] = <<>>]
        /\ arrived' = arrived /\ from' = from /\ Done' = Done \cup bad
    BY <1>5, DoneSteps DEF Polled
  <2>2. /\ filled[chan] \in Seq(Full) /\ FragsOnce(filled[chan])
        /\ \A f \in FragsOf(filled[chan]) :
             f \in 1..arrived /\ from[f] = chan /\ f \notin Done
    BY <1>1, HeldTypes DEF ChanOK
  <2>3. /\ good \cup bad = FragsOf(filled[chan]) /\ good \cap bad = {}
        /\ FragsOnce(Good(filled[chan]))
    BY <2>2, SplitFacts
  <2> HIDE DEF good, bad
  <2>4. CASE d = chan
    <3>1. filled'[d] = <<>> /\ m_completed'[d] = Good(filled[chan])
      BY <1>2, <2>1, <2>4
    <3>2. FragsOf(<<>>) = {} /\ FragsOnce(<<>>)
      BY DEF FragsOf, FragsOnce
    <3>3. \A f \in good : f \in 1..arrived /\ from[f] = d /\ f \notin Done \cup bad
      BY <2>2, <2>3, <2>4
    <3>4. FragsOf(m_completed'[d]) = good
      BY <3>1 DEF good
    <3>5. QED
      BY <2>1, <2>3, <3>1, <3>2, <3>3, <3>4 DEF ChanOK
  <2>5. CASE d # chan
    <3>1. filled'[d] = filled[d] /\ m_completed'[d] = m_completed[d]
      BY <1>2, <2>1, <2>5
    <3>2. \A f \in bad : from[f] # d
      BY <2>2, <2>3, <2>5
    <3>3. QED
      BY <1>1, <2>1, <3>1, <3>2 DEF ChanOK
  <2>6. QED
    BY <2>4, <2>5
<1>6. ASSUME Taken
      PROVE  ChanOK(d, filled'[d], m_completed'[d], arrived', Done', from')
  <2> DEFINE x == Last(m_completed[chan]).frag
             rest == Front(m_completed[chan])
  <2>1. /\ m_completed' = [m_completed EXCEPT ![chan] = rest]
        /\ filled' = filled /\ arrived' = arrived /\ from' = from
        /\ Done' = Done \cup {x}
    BY <1>6, DoneSteps DEF Taken
  <2>2. FragsOnce(m_completed[chan])
    BY <1>1 DEF ChanOK
  <2>3. /\ FragsOf(m_completed[chan]) = FragsOf(rest) \cup {x}
        /\ FragsOnce(rest) /\ x \notin FragsOf(rest)
    BY <1>6, <2>2, LastTaken
  <2> HIDE DEF x, rest
  <2>4. CASE d = chan
    <3>1. m_completed'[d] = rest
      BY <1>2, <2>1, <2>4
    <3>2. x \notin FragsOf(filled[d])
      <4>1. x \in FragsOf(m_completed[d])
        BY <2>3, <2>4
      <4>2. x \in 1..arrived /\ \A g \in FragsOf(filled[d]) : x < g
        BY <1>1, <4>1 DEF ChanOK
      <4>3. QED
        BY <4>2
    <3>3. QED
      BY <1>1, <2>1, <2>3, <2>4, <3>1, <3>2 DEF ChanOK
  <2>5. CASE d # chan
    <3>1. m_completed'[d] = m_completed[d]
      BY <1>2, <2>1, <2>5
    <3>2. from[x] # d
      BY <1>1, <2>3, <2>5 DEF ChanOK
    <3>3. QED
      BY <1>1, <2>1, <3>1, <3>2 DEF ChanOK
  <2>6. QED
    BY <2>4, <2>5
<1>7. ASSUME Thrown \/ FragsRest
      PROVE  ChanOK(d, filled'[d], m_completed'[d], arrived', Done', from')
  <2>1. Done' \subseteq Done
    BY <1>7, DoneSteps
  <2>2. UNCHANGED <<filled, m_completed, arrived, from>>
    BY <1>7 DEF Thrown, FragsRest
  <2>3. QED
    BY <1>1, <2>1, <2>2 DEF ChanOK
<1>8. ASSUME Emptied
      PROVE  ChanOK(d, filled'[d], m_completed'[d], arrived', Done', from')
  <2>1. filled'[d] = <<>> /\ m_completed'[d] = <<>>
    BY <1>8 DEF Emptied
  <2>2. QED
    BY <2>1, EmptyChan
<1>9. QED
  BY <1>4, <1>5, <1>6, <1>7, <1>8, FilarSteps

(* No step makes an event of a fragment twice.                             *)
LEMMA OnceStep ==
  ASSUME FilarTypeOK, FragInv, [FilarNext]_filarVars
  PROVE  OnceInv'
<1>1. /\ ChanOK(chan, filled[chan], m_completed[chan], arrived, Done, from)
      /\ Done \subseteq 1..arrived /\ arrived \in Nat /\ chan \in Chans
      /\ IsInjective(Returned) /\ ToSet(Returned) \cap gone = {}
      /\ Returned \in Seq(Fragments)
  BY ReturnedFacts DEF FragInv, ChanInv, OnceInv, FilarTypeOK
<1>2. ASSUME NEW c \in Chans, Comes(c) PROVE OnceInv'
  <2>1. Done' = Done /\ Returned' = Returned /\ gone' = gone /\ arrived' = arrived + 1
    BY <1>2, DoneSteps DEF Comes
  <2>2. 1..arrived \subseteq 1..(arrived + 1)
    BY <1>1
  <2>3. QED
    BY <1>1, <2>1, <2>2 DEF OnceInv
<1>3. ASSUME Polled PROVE OnceInv'
  <2> DEFINE bad == FragsOf(Bad(filled[chan]))
  <2>1. /\ Done' = Done \cup bad /\ Returned' = Returned /\ arrived' = arrived
        /\ gone' = gone \cup bad
    BY <1>3, DoneSteps DEF Polled
  <2>2. filled[chan] \in Seq(Full)
    BY <1>1, HeldTypes
  <2>3. bad \subseteq FragsOf(filled[chan])
    BY <2>2, SplitFacts
  <2>4. bad \subseteq 1..arrived /\ bad \cap Done = {}
    BY <1>1, <2>3 DEF ChanOK
  <2> HIDE DEF bad
  <2>5. QED
    BY <1>1, <2>1, <2>4 DEF OnceInv, Done
<1>4. ASSUME Taken PROVE OnceInv'
  <2> DEFINE x == Last(m_completed[chan]).frag
  <2>1. /\ Done' = Done \cup {x} /\ Returned' = Append(Returned, x)
        /\ arrived' = arrived /\ gone' = gone
    BY <1>4, DoneSteps DEF Taken
  <2>2. x \in Fragments /\ x \in FragsOf(m_completed[chan])
    BY <1>4, LastTaken
  <2>3. x \in 1..arrived /\ x \notin Done
    BY <1>1, <2>2 DEF ChanOK
  <2> HIDE DEF x
  <2>4. ToSet(Returned') = ToSet(Returned) \cup {x} /\ IsInjective(Returned')
    BY <1>1, <2>1, <2>2, <2>3, AppendOnce DEF Done
  <2>5. QED
    BY <1>1, <2>1, <2>3, <2>4 DEF OnceInv, Done
<1>5. ASSUME Thrown PROVE OnceInv'
  <2>1. /\ Done' \subseteq Done /\ Returned' = delivered /\ arrived' = arrived
        /\ gone' = gone
    BY <1>5, DoneSteps DEF Thrown
  <2>2. IsInjective(delivered) /\ ToSet(delivered) \subseteq ToSet(Returned)
    <3>1. \A i \in DOMAIN delivered :
            i \in DOMAIN Returned /\ Returned[i] = delivered[i]
      BY ReturnedFacts
    <3>2. \A i, j \in DOMAIN delivered : delivered[i] = delivered[j] => i = j
      BY <1>1, <3>1 DEF IsInjective
    <3>3. QED
      BY <3>2, ReturnedFacts DEF IsInjective
  <2>3. QED
    BY <1>1, <2>1, <2>2 DEF OnceInv
<1>6. ASSUME Emptied PROVE OnceInv'
  <2>1. /\ Done' = Done \cup Pending /\ Returned' = Returned /\ arrived' = arrived
        /\ gone' = gone \cup Pending
    BY <1>6, DoneSteps DEF Emptied
  <2>2. \A c \in Chans : \A f \in FragsOf(filled[c]) \cup FragsOf(m_completed[c]) :
          f \in 1..arrived /\ f \notin Done
    BY DEF FragInv, ChanInv, ChanOK
  <2>3. Pending \subseteq 1..arrived /\ Pending \cap Done = {}
    BY <2>2 DEF Pending
  <2>4. QED
    BY <1>1, <2>1, <2>3 DEF OnceInv, Done
<1>7. ASSUME FragsRest PROVE OnceInv'
  <2>1. Done' = Done /\ UNCHANGED <<gone, arrived>> /\ Returned' = Returned
    BY <1>7, DoneSteps DEF FragsRest
  <2>2. QED
    BY <1>1, <2>1 DEF OnceInv
<1>8. QED
  BY <1>2, <1>3, <1>4, <1>5, <1>6, <1>7, FilarSteps

(* The missing fragments can be counted.                                   *)
LEMMA MissingFinite ==
  ASSUME FilarTypeOK
  PROVE  IsFiniteSet(Missing)
<1>1. IsFiniteSet(1..arrived)
  BY FS_Interval DEF FilarTypeOK
<1>2. QED
  BY <1>1, FS_Subset DEF Missing

(* Only an exception of startIO loses a fragment.                          *)
LEMMA MissingSteps ==
  ASSUME FilarTypeOK, [FilarNext]_filarVars
  PROVE  \/ Missing' \subseteq Missing /\ errors' \in {errors, errors + 1}
         \/ Missing' \subseteq Missing \cup {l1Result} /\ errors' = errors + 1
<1>1. /\ DOMAIN filled = Chans /\ DOMAIN m_completed = Chans /\ chan \in Chans
      /\ arrived \in Nat
  BY DEF FilarTypeOK
<1> DEFINE Of(c) == FragsOf(filled[c]) \cup FragsOf(m_completed[c])
<1>2. Pending = UNION {Of(c) : c \in Chans} /\ Pending' = UNION {(Of(c))' : c \in Chans}
  BY DEF Pending
<1>3. ASSUME NEW G, \A c \in Chans : Of(c) \subseteq (Of(c))' \cup G
      PROVE  Pending \subseteq Pending' \cup G
  <2> HIDE DEF Of
  <2>1. QED
    BY <1>2, <1>3
<1>4. ASSUME NEW c \in Chans, Comes(c)
      PROVE  Missing' \subseteq Missing /\ errors' = errors
  <2>1. PICK x \in Full : /\ x.frag = arrived + 1
                          /\ filled' = [filled EXCEPT ![c] = Append(filled[c], x)]
    BY <1>4 DEF Comes
  <2>2. m_completed' = m_completed /\ arrived' = arrived + 1 /\ errors' = errors
        /\ Done' = Done
    BY <1>4, DoneSteps DEF Comes
  <2>3. filled[c] \in Seq(Full)
    BY HeldTypes
  <2>4. FragsOf(filled'[c]) = FragsOf(filled[c]) \cup {arrived + 1}
    BY <1>1, <2>1, <2>3, FragsOfMoves
  <2>5. \A e \in Chans : e # c => filled'[e] = filled[e]
    BY <1>1, <2>1
  <2>6. \A e \in Chans : Of(e) \subseteq (Of(e))' \cup {}
    BY <2>2, <2>4, <2>5
  <2>7. Pending \subseteq Pending'
    BY <1>3, <2>6
  <2>8. arrived + 1 \in Pending'
    BY <1>2, <2>4
  <2>9. 1..(arrived + 1) = (1..arrived) \cup {arrived + 1}
    BY <1>1
  <2>10. QED
    BY <2>2, <2>7, <2>8, <2>9 DEF Missing
<1>5. ASSUME Polled PROVE Missing' \subseteq Missing /\ errors' = errors
  <2> DEFINE bad == FragsOf(Bad(filled[chan]))
  <2>1. /\ m_completed[chan] = <<>>
        /\ m_completed' = [m_completed EXCEPT ![chan] = Good(filled[chan])]
        /\ filled' = [filled EXCEPT ![chan] = <<>>]
        /\ arrived' = arrived /\ errors' = errors /\ Done' = Done \cup bad
    BY <1>5, DoneSteps DEF Polled
  <2>2. filled[chan] \in Seq(Full)
    BY <1>1, HeldTypes
  <2>3. FragsOf(filled[chan]) = FragsOf(Good(filled[chan])) \cup bad
    BY <2>2, SplitFacts
  <2>4. m_completed'[chan] = Good(filled[chan]) /\ FragsOf(m_completed[chan]) = {}
    BY <1>1, <2>1 DEF FragsOf
  <2>5. \A e \in Chans : e # chan =>
          filled'[e] = filled[e] /\ m_completed'[e] = m_completed[e]
    BY <1>1, <2>1
  <2> HIDE DEF bad
  <2>6. \A e \in Chans : Of(e) \subseteq (Of(e))' \cup bad
    BY <2>3, <2>4, <2>5
  <2>7. Pending \subseteq Pending' \cup bad
    BY <1>3, <2>6
  <2>8. QED
    BY <2>1, <2>7 DEF Missing
<1>6. ASSUME Taken PROVE Missing' \subseteq Missing /\ errors' = errors
  <2> DEFINE x == Last(m_completed[chan]).frag
  <2>1. /\ m_completed' = [m_completed EXCEPT ![chan] = Front(m_completed[chan])]
        /\ filled' = filled /\ arrived' = arrived /\ errors' = errors
        /\ Done' = Done \cup {x}
    BY <1>6, DoneSteps DEF Taken
  <2>2. FragsOf(m_completed[chan]) = FragsOf(Front(m_completed[chan])) \cup {x}
    BY <1>6, LastTaken
  <2>3. m_completed'[chan] = Front(m_completed[chan])
    BY <1>1, <2>1
  <2>4. \A e \in Chans : e # chan => m_completed'[e] = m_completed[e]
    BY <1>1, <2>1
  <2> HIDE DEF x
  <2>5. \A e \in Chans : Of(e) \subseteq (Of(e))' \cup {x}
    BY <2>1, <2>2, <2>3, <2>4
  <2>6. Pending \subseteq Pending' \cup {x}
    BY <1>3, <2>5
  <2>7. QED
    BY <2>1, <2>6 DEF Missing
<1>7. ASSUME Thrown
      PROVE  Missing' \subseteq Missing \cup {l1Result} /\ errors' = errors + 1
  <2>1. Done \subseteq Done' \cup {l1Result}
    BY <1>7, DoneSteps
  <2>2. UNCHANGED <<filled, m_completed, arrived>> /\ errors' = errors + 1
    BY <1>7 DEF Thrown
  <2>3. Pending' = Pending
    BY <2>2 DEF Pending
  <2>4. QED
    BY <2>1, <2>2, <2>3 DEF Missing
<1>8. ASSUME Emptied PROVE Missing' \subseteq Missing /\ errors' = errors
  <2>1. Done' = Done \cup Pending /\ arrived' = arrived /\ errors' = errors
    BY <1>8, DoneSteps DEF Emptied
  <2>2. QED
    BY <2>1 DEF Missing
<1>9. ASSUME FragsRest
      PROVE  Missing' \subseteq Missing /\ errors' \in {errors, errors + 1}
  <2>1. UNCHANGED <<filled, m_completed, arrived>> /\ Done' = Done
        /\ errors' \in {errors, errors + 1}
    BY <1>9, DoneSteps DEF FragsRest
  <2>2. Pending' = Pending
    BY <2>1 DEF Pending
  <2>3. QED
    BY <2>1, <2>2 DEF Missing
<1>10. QED
  BY <1>4, <1>5, <1>6, <1>7, <1>8, <1>9, FilarSteps

(* Only a failing call loses a fragment, and no more than one.             *)
LEMMA LossStep ==
  ASSUME FilarTypeOK, LossInv, [FilarNext]_filarVars
  PROVE  LossInv'
<1>1. IsFiniteSet(Missing) /\ Cardinality(Missing) \in Nat /\ errors \in Nat
      /\ Cardinality(Missing) <= errors
  BY MissingFinite, FS_CardinalityType DEF LossInv, FilarTypeOK
<1>2. CASE Missing' \subseteq Missing /\ errors' \in {errors, errors + 1}
  <2>1. Cardinality(Missing') <= Cardinality(Missing) /\ IsFiniteSet(Missing')
    BY <1>1, <1>2, FS_Subset
  <2>2. Cardinality(Missing') \in Nat
    BY <2>1, FS_CardinalityType
  <2>3. QED
    BY <1>1, <1>2, <2>1, <2>2 DEF LossInv
<1>3. CASE Missing' \subseteq Missing \cup {l1Result} /\ errors' = errors + 1
  <2> DEFINE M == Missing \cup {l1Result}
  <2>1. IsFiniteSet(M) /\ Cardinality(M) <= Cardinality(Missing) + 1
    <3>1. IsFiniteSet(M)
          /\ Cardinality(M) \in {Cardinality(Missing), Cardinality(Missing) + 1}
      BY <1>1, FS_AddElement
    <3>2. QED
      BY <1>1, <3>1
  <2>2. Cardinality(M) \in Nat
    BY <2>1, FS_CardinalityType
  <2> HIDE DEF M
  <2>3. Missing' \subseteq M
    BY <1>3 DEF M
  <2>4. Cardinality(Missing') <= Cardinality(M) /\ IsFiniteSet(Missing')
    BY <2>1, <2>3, FS_Subset
  <2>5. Cardinality(Missing') \in Nat
    BY <2>4, FS_CardinalityType
  <2>6. QED
    BY <1>1, <1>3, <2>1, <2>2, <2>4, <2>5 DEF LossInv
<1>4. QED
  BY <1>2, <1>3, MissingSteps

(* Every step preserves FragInv.                                           *)
LEMMA FragStep ==
  ASSUME FilarTypeOK, FragInv, [FilarNext]_filarVars
  PROVE  FragInv'
BY ChanStep, OnceStep, LossStep DEF FragInv

(* Together they are what NothingLost says.                                *)
LEMMA NothingLostHolds ==
  ASSUME FilarTypeOK, PagesHeld, FragInv
  PROVE  NothingLost
<1>1. PageKept
  BY HeldKept
<1>2. /\ ToSet(Returned) = ToSet(delivered) \cup ({l1Result} \ {0})
      /\ \A i \in DOMAIN delivered : i \in DOMAIN Returned /\ Returned[i] = delivered[i]
  BY ReturnedFacts
<1>3. IsInjective(delivered)
  BY <1>2 DEF FragInv, OnceInv, IsInjective
<1>4. ToSet(delivered) \cap gone = {}
  BY <1>2 DEF FragInv, OnceInv
<1>5. (1..arrived) \ Somewhere = Missing
  <2>1. 0 \notin 1..arrived
    BY DEF FilarTypeOK
  <2>2. QED
    BY <1>2, <2>1 DEF Somewhere, Missing, Done
<1>6. Cardinality((1..arrived) \ Somewhere) <= errors
  BY <1>5 DEF FragInv, LossInv
<1>7. QED
  BY <1>1, <1>3, <1>4, <1>6 DEF NothingLost

(* Every page of every channel has one holder and none is lost before      *)
(* FILAR_PagesIn fails; a fragment that the card has written becomes one   *)
(* event at most, and is with the card or in a queue until then, unless it *)
(* was bad, a reset took it, or a call failed, which costs one event.      *)
THEOREM EventsAndPagesKept == FilarSpec => []NothingLost
<1> DEFINE Inv == FilarTypeOK /\ PagesHeld /\ FragInv
<1>1. FilarInit => Inv
  BY FilarTypeInit, PagesInit, FragInit
<1>2. Inv /\ [FilarNext]_filarVars => Inv'
  BY FilarTypeStep, PagesStep, FragStep
<1>3. Inv => NothingLost
  BY NothingLostHolds
<1>4. QED
  BY <1>1, <1>2, <1>3, PTL DEF FilarSpec

-----------------------------------------------------------------------------
(* Filar: an event is overtaken only by one of the same poll.              *)

(* Of the fragments of a channel, those that pollIO has fetched are of one *)
(* poll; of those that have been made events, each came before the ones    *)
(* with the card, and before those fetched or by the same poll.            *)
PassOK(c, full, completed, done, pass, where) ==
  /\ \A f, g \in FragsOf(completed) : pass[f] = pass[g]
  /\ \A f \in done : where[f] = c =>
       /\ \A g \in FragsOf(full) : f < g
       /\ \A g \in FragsOf(completed) : f < g \/ pass[f] = pass[g]

Passes(list, pass, where) ==
  \A i, j \in DOMAIN list :
    i < j /\ list[i] > list[j] /\ where[list[i]] = where[list[j]]
      => pass[list[i]] = pass[list[j]]

PassChans == \A c \in Chans :
  PassOK(c, filled[c], m_completed[c], ToSet(Returned), poll, from)

PassInv == PassChans /\ Passes(Returned, poll, from)

(* Nothing has been fetched at the start.                                  *)
LEMMA PassInit == FilarInit => PassInv
<1> SUFFICES ASSUME FilarInit PROVE PassInv
  OBVIOUS
<1>1. Returned = <<>>
  BY DEF FilarInit, Returned
<1>2. ToSet(<<>>) = {} /\ FragsOf(<<>>) = {}
  BY DEF ToSet, FragsOf
<1>3. Passes(Returned, poll, from)
  BY <1>1 DEF Passes
<1>4. \A c \in Chans : m_completed[c] = <<>>
  BY DEF FilarInit
<1>5. PassChans
  BY <1>1, <1>2, <1>4 DEF PassChans, PassOK
<1>6. QED
  BY <1>3, <1>5 DEF PassInv

(* Adding an event that no earlier one has to follow.                      *)
LEMMA PassesAppend ==
  ASSUME NEW S, NEW list \in Seq(S), NEW x \in S, NEW pass, NEW where,
         Passes(list, pass, where),
         \A f \in ToSet(list) : f > x /\ where[f] = where[x] => pass[f] = pass[x]
  PROVE  Passes(Append(list, x), pass, where)
<1> DEFINE n == Len(list)
           l == Append(list, x)
<1>1. /\ n \in Nat /\ DOMAIN list = 1..n /\ DOMAIN l = 1..(n + 1)
      /\ \A i \in 1..n : l[i] = list[i]
      /\ l[n + 1] = x
  OBVIOUS
<1> HIDE DEF n, l
<1>2. \A i \in 1..n : list[i] \in ToSet(list)
  BY <1>1 DEF ToSet
<1>3. SUFFICES ASSUME NEW i \in 1..(n + 1), NEW j \in 1..(n + 1),
                      i < j, l[i] > l[j], where[l[i]] = where[l[j]]
               PROVE  pass[l[i]] = pass[l[j]]
  BY <1>1 DEF Passes, l
<1>4. i \in 1..n
  BY <1>1, <1>3
<1>5. CASE j \in 1..n
  BY <1>1, <1>3, <1>4, <1>5 DEF Passes
<1>6. CASE j = n + 1
  BY <1>1, <1>2, <1>3, <1>4, <1>6
<1>7. QED
  BY <1>1, <1>5, <1>6

(* A poll or an arrival changes nothing about what was returned before.    *)
LEMMA PassesKept ==
  ASSUME NEW list, NEW pass, NEW where, NEW pass2, NEW where2,
         \A f \in ToSet(list) : pass2[f] = pass[f] /\ where2[f] = where[f],
         Passes(list, pass, where)
  PROVE  Passes(list, pass2, where2)
<1>1. \A i \in DOMAIN list : list[i] \in ToSet(list)
  BY DEF ToSet
<1>2. QED
  BY <1>1 DEF Passes

(* Every step preserves PassInv.                                           *)
LEMMA PassStep ==
  ASSUME FilarTypeOK, FragInv, PassInv, [FilarNext]_filarVars
  PROVE  PassInv'
<1> DEFINE P(c) == PassOK(c, filled[c], m_completed[c], ToSet(Returned), poll, from)
           C(c) == ChanOK(c, filled[c], m_completed[c], arrived, Done, from)
<1>1. /\ \A c \in Chans : P(c) /\ C(c)
      /\ Passes(Returned, poll, from)
      /\ Done \subseteq 1..arrived /\ arrived \in Nat /\ chan \in Chans
  BY DEF PassInv, PassChans, FragInv, ChanInv, OnceInv, FilarTypeOK
<1> HIDE DEF P, C
<1>2. /\ DOMAIN filled = Chans /\ DOMAIN m_completed = Chans
      /\ DOMAIN from = Fragments
      /\ \A c \in Chans : filled[c] \in Seq(Full) /\ m_completed[c] \in Seq(Full)
  BY DEF FilarTypeOK
<1>3. 1..arrived \subseteq Fragments
  BY FilarAssumption DEF FilarTypeOK, Fragments
<1>4. /\ ToSet(Returned) \subseteq Done /\ Returned \in Seq(Fragments)
      /\ ToSet(Returned) \subseteq 1..arrived
  BY <1>1, ReturnedFacts DEF Done
<1>5. ASSUME NEW c \in Chans, Comes(c) PROVE PassInv'
  <2> DEFINE n == arrived + 1
  <2>1. PICK x \in Full : /\ x.frag = n
                          /\ filled' = [filled EXCEPT ![c] = Append(filled[c], x)]
    BY <1>5 DEF Comes
  <2>2. /\ from' = [from EXCEPT ![n] = c] /\ m_completed' = m_completed
        /\ poll' = poll /\ Returned' = Returned
    BY <1>5 DEF Comes
  <2>3. \A f \in 1..arrived : f < n /\ from'[f] = from[f]
    BY <1>1, <1>2, <1>3, <2>2
  <2> HIDE DEF n
  <2>4. Passes(Returned', poll', from')
    BY <1>1, <1>4, <2>2, <2>3, PassesKept
  <2>5. ASSUME NEW d \in Chans PROVE (P(d))'
    <3>1. \A g \in FragsOf(filled'[d]) : g \in FragsOf(filled[d]) \/ g = n
      <4>1. CASE d = c
        <5>1. filled'[d] = Append(filled[d], x) /\ filled[d] \in Seq(Full)
          BY <1>2, <2>1, <4>1
        <5>2. QED
          BY <2>1, <5>1, FragsOfMoves
      <4>2. CASE d # c
        <5>1. filled'[d] = filled[d]
          BY <1>2, <2>1, <4>2
        <5>2. QED
          BY <5>1
      <4>3. QED
        BY <4>1, <4>2
    <3>2. P(d)
      BY <1>1
    <3>3. QED
      BY <1>4, <2>2, <2>3, <3>1, <3>2 DEF P, PassOK
  <2>6. QED
    BY <2>4, <2>5 DEF PassInv, PassChans, P
<1>6. ASSUME Polled PROVE PassInv'
  <2> DEFINE good == FragsOf(Good(filled[chan]))
  <2>1. /\ m_completed' = [m_completed EXCEPT ![chan] = Good(filled[chan])]
        /\ filled' = [filled EXCEPT ![chan] = <<>>]
        /\ poll' = [f \in Fragments |-> IF f \in good THEN polls + 1 ELSE poll[f]]
        /\ from' = from /\ Returned' = Returned
    BY <1>6 DEF Polled
  <2>2. good \subseteq FragsOf(filled[chan])
    BY <1>1, <1>2, SplitFacts
  <2>3. \A f \in FragsOf(filled[chan]) :
          f \in 1..arrived /\ from[f] = chan /\ f \notin Done
    BY <1>1 DEF C, ChanOK
  <2>4. good \subseteq Fragments /\ \A f \in good : from[f] = chan /\ f \notin ToSet(Returned)
    BY <1>3, <1>4, <2>2, <2>3
  <2>5. FragsOf(m_completed'[chan]) = good /\ FragsOf(filled'[chan]) = {}
    BY <1>1, <1>2, <2>1 DEF FragsOf
  <2> HIDE DEF good
  <2>6. \A f \in Fragments : f \notin good => poll'[f] = poll[f]
    BY <2>1
  <2>7. \A f \in good : poll'[f] = polls + 1
    BY <2>1, <2>4
  <2>8. \A f \in ToSet(Returned) : poll'[f] = poll[f]
    BY <1>3, <1>4, <2>4, <2>6
  <2>9. Passes(Returned', poll', from')
    BY <1>1, <2>1, <2>8, PassesKept
  <2>10. ASSUME NEW d \in Chans PROVE (P(d))'
    <3>1. P(d)
      BY <1>1
    <3>2. CASE d = chan
      <4>1. \A f \in ToSet(Returned), g \in good : from[f] = chan => f < g
        BY <1>1, <2>2 DEF P, PassOK
      <4>2. \A f, g \in good : poll'[f] = poll'[g]
        BY <2>7
      <4>3. QED
        BY <2>1, <2>5, <3>2, <4>1, <4>2 DEF P, PassOK
    <3>3. CASE d # chan
      <4>1. filled'[d] = filled[d] /\ m_completed'[d] = m_completed[d]
        BY <1>2, <2>1, <3>3
      <4>2. \A g \in FragsOf(m_completed[d]) : poll'[g] = poll[g]
        <5>1. \A g \in FragsOf(m_completed[d]) : g \in 1..arrived /\ from[g] = d
          BY <1>1 DEF C, ChanOK
        <5>2. QED
          BY <1>3, <2>4, <2>6, <3>3, <5>1
      <4>3. from' = from /\ Returned' = Returned
        BY <2>1
      <4>4. /\ \A f, g \in FragsOf(m_completed[d]) : poll[f] = poll[g]
            /\ \A f \in ToSet(Returned) : from[f] = d =>
                 /\ \A g \in FragsOf(filled[d]) : f < g
                 /\ \A g \in FragsOf(m_completed[d]) : f < g \/ poll[f] = poll[g]
        BY <3>1 DEF P, PassOK
      <4>5. PassOK(d, filled[d], m_completed[d], ToSet(Returned), poll', from)
        BY <2>8, <4>2, <4>4, Zenon DEF PassOK
      <4>6. QED
        BY <4>1, <4>3, <4>5 DEF P
    <3>4. QED
      BY <3>2, <3>3
  <2>11. QED
    BY <2>9, <2>10 DEF PassInv, PassChans, P
<1>7. ASSUME Taken PROVE PassInv'
  <2> DEFINE x == Last(m_completed[chan]).frag
             rest == Front(m_completed[chan])
  <2>1. /\ m_completed' = [m_completed EXCEPT ![chan] = rest]
        /\ filled' = filled /\ poll' = poll /\ from' = from
        /\ Returned' = Append(Returned, x)
    BY <1>7 DEF Taken
  <2>2. FragsOf(m_completed[chan]) = FragsOf(rest) \cup {x} /\ x \in Fragments
    BY <1>7, LastTaken
  <2> HIDE DEF x, rest
  <2>3. ToSet(Returned') = ToSet(Returned) \cup {x}
    BY <1>4, <2>1, <2>2, AppendOnce
  <2>4. from[x] = chan /\ x \in 1..arrived
    BY <1>1, <2>2 DEF C, ChanOK
  <2>5. Passes(Returned', poll', from')
    <3>1. \A f \in ToSet(Returned) : from[f] = chan => f < x \/ poll[f] = poll[x]
      BY <1>1, <2>2 DEF P, PassOK
    <3>2. \A f \in ToSet(Returned) : f > x /\ from[f] = from[x] => poll[f] = poll[x]
      BY <1>1, <1>4, <2>4, <3>1
    <3>3. Passes(Append(Returned, x), poll, from)
      BY <1>1, <1>4, <2>2, <3>2, PassesAppend
    <3>4. QED
      BY <2>1, <3>3
  <2>6. ASSUME NEW d \in Chans PROVE (P(d))'
    <3>1. P(d)
      BY <1>1
    <3>2. CASE d = chan
      <4>1. m_completed'[d] = rest
        BY <1>2, <2>1, <3>2
      <4>2. \A g \in FragsOf(filled[d]) : x < g
        BY <1>1, <2>2, <3>2 DEF C, ChanOK
      <4>3. QED
        BY <2>1, <2>2, <2>3, <3>1, <3>2, <4>1, <4>2 DEF P, PassOK
    <3>3. CASE d # chan
      <4>1. m_completed'[d] = m_completed[d]
        BY <1>2, <2>1, <3>3
      <4>2. QED
        BY <2>1, <2>3, <2>4, <3>1, <3>3, <4>1 DEF P, PassOK
    <3>4. QED
      BY <3>2, <3>3
  <2>7. QED
    BY <2>5, <2>6 DEF PassInv, PassChans, P
<1>8. ASSUME Thrown PROVE PassInv'
  <2>1. /\ UNCHANGED <<filled, m_completed, poll, from>>
        /\ Returned' = delivered
    BY <1>8 DEF Thrown
  <2>2. ToSet(Returned') \subseteq ToSet(Returned)
    BY <2>1, ReturnedFacts
  <2>3. Passes(Returned', poll', from')
    <3>1. \A i \in DOMAIN delivered :
            i \in DOMAIN Returned /\ Returned[i] = delivered[i]
      BY ReturnedFacts
    <3>2. QED
      BY <1>1, <2>1, <3>1 DEF Passes
  <2>4. ASSUME NEW d \in Chans PROVE (P(d))'
    <3>1. P(d)
      BY <1>1
    <3>2. QED
      BY <2>1, <2>2, <3>1 DEF P, PassOK
  <2>5. QED
    BY <2>3, <2>4 DEF PassInv, PassChans, P
<1>9. ASSUME Emptied PROVE PassInv'
  <2>1. /\ filled' = [c \in Chans |-> <<>>] /\ m_completed' = [c \in Chans |-> <<>>]
        /\ UNCHANGED <<poll, from>> /\ Returned' = Returned
    BY <1>9 DEF Emptied
  <2>2. ASSUME NEW d \in Chans PROVE (P(d))'
    <3>1. filled'[d] = <<>> /\ m_completed'[d] = <<>> /\ FragsOf(<<>>) = {}
      BY <2>1 DEF FragsOf
    <3>2. QED
      BY <3>1 DEF P, PassOK
  <2>3. QED
    BY <1>1, <2>1, <2>2 DEF PassInv, PassChans, P
<1>10. ASSUME FragsRest PROVE PassInv'
  <2>1. UNCHANGED <<filled, m_completed, poll, from>> /\ Returned' = Returned
    BY <1>10 DEF FragsRest
  <2>2. QED
    BY <1>1, <2>1 DEF PassInv, PassChans, P
<1>11. QED
  BY <1>5, <1>6, <1>7, <1>8, <1>9, <1>10, FilarSteps

(* An event is overtaken only by one of its own channel that the same call *)
(* of pollIO has fetched, whatever arrives, fails and is reset meanwhile.  *)
THEOREM OnlyWithinPoll == FilarSpec => []OvertakenWithinPoll
<1> DEFINE Inv == FilarTypeOK /\ FragInv /\ PassInv
<1>1. FilarInit => Inv
  BY FilarTypeInit, FragInit, PassInit
<1>2. Inv /\ [FilarNext]_filarVars => Inv'
  BY FilarTypeStep, FragStep, PassStep
<1>3. Inv => OvertakenWithinPoll
  <2> SUFFICES ASSUME Inv, NEW i \in DOMAIN delivered, NEW j \in DOMAIN delivered,
                      i < j, delivered[i] > delivered[j],
                      from[delivered[i]] = from[delivered[j]]
               PROVE  poll[delivered[i]] = poll[delivered[j]]
    BY DEF OvertakenWithinPoll
  <2>1. /\ i \in DOMAIN Returned /\ Returned[i] = delivered[i]
        /\ j \in DOMAIN Returned /\ Returned[j] = delivered[j]
    BY ReturnedFacts
  <2>2. QED
    BY <2>1 DEF PassInv, Passes
<1>4. QED
  BY <1>1, <1>2, <1>3, PTL DEF FilarSpec
=============================================================================
