-------------------------- MODULE RoIBuilder_proofs --------------------------
(***************************************************************************)
(* Proofs about RoIBuilder, for any number of channels and L1 IDs, any     *)
(* backlog and any memory for time-outs: every event has one ticket, no    *)
(* page is given back to the card twice, no event is delivered twice       *)
(* unless its time-out has been forgotten, and the builder implements      *)
(* BuildLife.                                                              *)
(***************************************************************************)
EXTENDS RoIBuilder, FiniteSetTheorems, SequenceTheorems, TLAPS

-----------------------------------------------------------------------------
(* Queues.                                                                 *)

Holds(q) == {q[i] : i \in DOMAIN q}

(* What a queue without duplicates holds when its head is taken.           *)
LEMMA TailFacts ==
  ASSUME NEW S, NEW q \in Seq(S), q # <<>>
  PROVE  /\ Tail(q) \in Seq(S) /\ Head(q) \in S /\ Head(q) \in Holds(q)
         /\ Holds(Tail(q)) \subseteq Holds(q)
         /\ Holds(q) = Holds(Tail(q)) \cup {Head(q)}
         /\ IsInjective(q) => /\ IsInjective(Tail(q))
                              /\ Head(q) \notin Holds(Tail(q))
<1> DEFINE n == Len(q)
           t == Tail(q)
<1>1. /\ n \in Nat \ {0} /\ DOMAIN q = 1..n /\ Head(q) = q[1]
      /\ t \in Seq(S) /\ DOMAIN t = 1..(n - 1) /\ \A i \in 1..(n - 1) : t[i] = q[i + 1]
  OBVIOUS
<1>2. q[1] \in S
  BY <1>1
<1> HIDE DEF n, t
<1>3. \A x \in Holds(t) : \E i \in 2..n : x = q[i]
  BY <1>1 DEF Holds
<1>4. \A i \in 2..n : q[i] \in Holds(t)
  <2>1. ASSUME NEW i \in 2..n PROVE q[i] \in Holds(t)
    <3>1. i - 1 \in DOMAIN t /\ t[i - 1] = q[i]
      BY <1>1
    <3>2. QED
      BY <3>1 DEF Holds
  <2>2. QED
    BY <2>1
<1>5. Holds(q) = Holds(t) \cup {q[1]}
  <2>1. 1..n = {1} \cup 2..n
    BY <1>1
  <2>2. \A i \in 1..n : q[i] \in Holds(q)
    BY <1>1 DEF Holds
  <2>5. Holds(t) \subseteq Holds(q) /\ q[1] \in Holds(q)
    BY <1>1, <1>3, <2>1, <2>2
  <2>3. \A x \in Holds(q) : x = q[1] \/ \E i \in 2..n : x = q[i]
    BY <1>1, <2>1 DEF Holds
  <2>4. QED
    BY <1>4, <2>5, <2>3
<1>6. ASSUME IsInjective(q) PROVE IsInjective(t) /\ q[1] \notin Holds(t)
  <2>1. \A a, b \in 1..n : q[a] = q[b] => a = b
    BY <1>1, <1>6 DEF IsInjective
  <2>2. q[1] \notin Holds(t)
    BY <1>1, <1>3, <2>1
  <2>3. ASSUME NEW a \in 1..(n - 1), NEW b \in 1..(n - 1), t[a] = t[b] PROVE a = b
    <3>1. a + 1 \in 1..n /\ b + 1 \in 1..n /\ q[a + 1] = q[b + 1]
      BY <1>1, <2>3
    <3>2. a + 1 = b + 1
      BY <2>1, <3>1
    <3>3. QED
      BY <3>2
  <2>4. QED
    BY <1>1, <2>2, <2>3 DEF IsInjective
<1>7. QED
  BY <1>1, <1>2, <1>5, <1>6 DEF t

(* What a queue holds when an element is appended.                         *)
LEMMA AppendFacts ==
  ASSUME NEW S, NEW q \in Seq(S), NEW x \in S
  PROVE  /\ Append(q, x) \in Seq(S)
         /\ Holds(Append(q, x)) = Holds(q) \cup {x}
         /\ IsInjective(q) /\ x \notin Holds(q) => IsInjective(Append(q, x))
<1> DEFINE n == Len(q)
           a == Append(q, x)
<1>1. /\ n \in Nat /\ DOMAIN q = 1..n /\ a \in Seq(S) /\ DOMAIN a = 1..(n + 1)
      /\ \A i \in 1..n : a[i] = q[i]
      /\ a[n + 1] = x
  OBVIOUS
<1> HIDE DEF n, a
<1>2. 1..(n + 1) = 1..n \cup {n + 1}
  BY <1>1
<1>3. Holds(a) = Holds(q) \cup {x}
  <2>1. Holds(a) \subseteq Holds(q) \cup {x}
    BY <1>1, <1>2 DEF Holds
  <2>2. x \in Holds(a)
    BY <1>1, <1>2 DEF Holds
  <2>3. \A i \in 1..n : q[i] \in Holds(a)
    BY <1>1, <1>2 DEF Holds
  <2>4. QED
    BY <1>1, <2>1, <2>2, <2>3 DEF Holds
<1>4. ASSUME IsInjective(q), x \notin Holds(q) PROVE IsInjective(a)
  <2>1. \A i \in 1..n : q[i] # x
    BY <1>1, <1>4 DEF Holds
  <2>2. \A i, j \in 1..n : q[i] = q[j] => i = j
    BY <1>1, <1>4 DEF IsInjective
  <2>3. QED
    BY <1>1, <1>2, <2>1, <2>2 DEF IsInjective
<1>5. QED
  BY <1>1, <1>3, <1>4 DEF a

-----------------------------------------------------------------------------
(* Tickets, queue by queue: what OneTicket says of their concatenation.    *)

Held == IF ev = NoId THEN {} ELSE {ev}

Apart ==
  /\ IsInjective(m_result_lists) /\ IsInjective(m_done)
  /\ Holds(m_result_lists) \cap Holds(m_done) = {}
  /\ Held \cap (Holds(m_result_lists) \cup Holds(m_done)) = {}

Alive ==
  \A id \in Holds(m_result_lists) \cup Holds(m_done) \cup Held : m_events[id] # {}

(* The destructor runs when no L1 thread does.                             *)
TicketInv == Apart /\ Alive /\ (m_stop => l1 = "idle")

(* This is OneTicket.                                                      *)
LEMMA OneTicketIs == TypeOK /\ Apart /\ Alive => OneTicket
<1> SUFFICES ASSUME TypeOK, Apart, Alive PROVE OneTicket
  OBVIOUS
<1> DEFINE r == m_result_lists
           d == m_done
           h == IF ev = NoId THEN <<>> ELSE <<ev>>
           n == Len(r)
           k == Len(d)
           T == r \o d \o h
<1>1. /\ n \in Nat /\ k \in Nat /\ Len(h) \in {0, 1}
      /\ DOMAIN r = 1..n /\ DOMAIN d = 1..k
      /\ r \in Seq(Ids) /\ d \in Seq(Ids) /\ h \in Seq(Ids)
      /\ Len(h) = 1 => ev # NoId /\ h[1] = ev
  BY DEF TypeOK
<1>2. /\ DOMAIN T = 1..(n + k + Len(h))
      /\ \A i \in 1..n : T[i] = r[i]
      /\ \A i \in 1..k : T[n + i] = d[i]
      /\ Len(h) = 1 => T[n + k + 1] = h[1]
  BY <1>1
<1> HIDE DEF h, n, k, T
<1>3. ASSUME NEW i \in DOMAIN T
      PROVE  \/ i \in 1..n /\ T[i] = r[i] /\ r[i] \in Holds(r)
             \/ i - n \in 1..k /\ T[i] = d[i - n] /\ d[i - n] \in Holds(d)
             \/ i = n + k + 1 /\ T[i] = ev /\ ev \in Held
  <2>1. CASE i \in 1..n
    BY <1>1, <1>2, <2>1 DEF Holds
  <2>2. CASE i \in (n + 1)..(n + k)
    <3>1. i - n \in 1..k /\ i = n + (i - n)
      BY <1>1, <2>2
    <3>2. T[i] = d[i - n]
      BY <1>2, <3>1
    <3>3. QED
      BY <1>1, <3>1, <3>2 DEF Holds
  <2>3. CASE i = n + k + 1 /\ Len(h) = 1
    BY <1>1, <1>2, <2>3 DEF Held
  <2>4. \/ i \in 1..n \/ i \in (n + 1)..(n + k)
        \/ i = n + k + 1 /\ Len(h) = 1
    <3>1. CASE Len(h) = 0
      BY <1>1, <1>2, <3>1
    <3>2. CASE Len(h) = 1
      <4>1. i \in 1..(n + k + 1)
        BY <1>2, <3>2
      <4>2. QED
        BY <1>1, <3>2, <4>1
    <3>3. QED
      BY <1>1, <3>1, <3>2
  <2>5. QED
    BY <2>1, <2>2, <2>3, <2>4
<1>4. \A i \in DOMAIN T : m_events[T[i]] # {}
  BY <1>3 DEF Alive
<1>5. IsInjective(T)
  <2>1. SUFFICES ASSUME NEW i \in DOMAIN T, NEW j \in DOMAIN T, T[i] = T[j]
                 PROVE  i = j
    BY DEF IsInjective
  <2>2. i \in Int /\ j \in Int
    BY <1>1, <1>2
  <2>3. CASE i \in 1..n /\ T[i] = r[i] /\ r[i] \in Holds(r)
    <3>1. j \in 1..n /\ T[j] = r[j]
      BY <1>3, <2>1, <2>3 DEF Apart
    <3>2. QED
      BY <1>1, <2>1, <2>3, <3>1 DEF Apart, IsInjective
  <2>4. CASE i - n \in 1..k /\ T[i] = d[i - n] /\ d[i - n] \in Holds(d)
    <3>1. j - n \in 1..k /\ T[j] = d[j - n]
      BY <1>3, <2>1, <2>4 DEF Apart
    <3>2. i - n = j - n
      BY <1>1, <2>1, <2>4, <3>1 DEF Apart, IsInjective
    <3>3. QED
      BY <1>1, <2>2, <3>2
  <2>5. CASE i = n + k + 1 /\ T[i] = ev /\ ev \in Held
    BY <1>3, <2>1, <2>5 DEF Apart
  <2>6. QED
    BY <1>3, <2>3, <2>4, <2>5
<1>6. Tickets = T
  BY DEF Tickets, T, h
<1>7. QED
  BY <1>4, <1>5, <1>6 DEF OneTicket

(* There are no tickets at the start.                                      *)
LEMMA TicketInit == Init => TicketInv
<1> SUFFICES ASSUME Init PROVE TicketInv
  OBVIOUS
<1>1. Holds(<<>>) = {} /\ IsInjective(<<>>)
  BY DEF Holds, IsInjective
<1>2. QED
  BY <1>1 DEF Init, TicketInv, Apart, Alive, Held

(* Every step preserves TicketInv.                                         *)
LEMMA TicketStep ==
  ASSUME TypeOK, TicketInv, [Next]_vars
  PROVE  TicketInv'
<1> DEFINE R == Holds(m_result_lists)
           D == Holds(m_done)
<1>1. /\ m_result_lists \in Seq(Ids) /\ m_done \in Seq(Ids) /\ NoId \notin Ids
      /\ m_events \in [Ids -> SUBSET Channels]
  BY DEF TypeOK, Ids, NoId
<1>2. R \subseteq Ids /\ D \subseteq Ids
  BY <1>1 DEF Holds
<1>3. ASSUME NEW c \in Channels, Receive(c) PROVE TicketInv'
  <2>1. /\ next[c] \in Ids
        /\ m_events' = [m_events EXCEPT ![next[c]] = @ \cup {c}]
        /\ UNCHANGED <<m_done, ev, l1, m_stop>>
    BY <1>3 DEF Receive, add
  <2>2. \A id \in Ids : m_events[id] # {} => m_events'[id] # {}
    BY <1>1, <2>1
  <2>3. m_events'[next[c]] # {}
    BY <1>1, <2>1
  <2>4. CASE m_events[next[c]] # {} /\ m_result_lists' = m_result_lists
    BY <1>1, <1>2, <2>1, <2>2, <2>4 DEF TicketInv, Apart, Alive, Held, TypeOK
  <2>5. CASE m_events[next[c]] = {} /\ m_result_lists' = Append(m_result_lists, next[c])
    <3>1. next[c] \notin R \cup D \cup Held
      BY <2>5 DEF TicketInv, Alive
    <3>2. /\ Holds(m_result_lists') = R \cup {next[c]}
          /\ IsInjective(m_result_lists')
      BY <1>1, <2>1, <2>5, <3>1, AppendFacts DEF TicketInv, Apart
    <3>3. Held \subseteq Ids
      BY DEF Held, TypeOK
    <3>4. Held' = Held /\ Holds(m_done') = D
      BY <2>1 DEF Held
    <3>5. Apart'
      BY <2>1, <3>1, <3>2, <3>4 DEF TicketInv, Apart
    <3>6. Alive'
      BY <1>2, <2>2, <2>3, <3>2, <3>3, <3>4 DEF TicketInv, Alive
    <3>7. QED
      BY <2>1, <3>5, <3>6 DEF TicketInv
  <2>6. QED
    BY <1>3, <2>4, <2>5 DEF Receive, add
<1>4. CASE m_result_lists # <<>> /\ ResultStep
  <2> DEFINE x == Head(m_result_lists)
             t == Tail(m_result_lists)
  <2>1. /\ t \in Seq(Ids) /\ x \in Ids /\ x \in R /\ R = Holds(t) \cup {x}
        /\ IsInjective(t) /\ x \notin Holds(t) /\ x \notin D /\ x \notin Held
    BY <1>1, <1>4, TailFacts DEF TicketInv, Apart
  <2> HIDE DEF x, t
  <2>2. CASE UNCHANGED <<m_result_lists, m_done, ev, m_events, l1, m_stop>>
    BY <2>2 DEF TicketInv, Apart, Alive, Held
  <2>3. CASE /\ m_result_lists' = Append(t, x)
             /\ UNCHANGED <<m_done, ev, m_events, l1, m_stop>>
    <3>1. Holds(m_result_lists') = R /\ IsInjective(m_result_lists')
      BY <2>1, <2>3, AppendFacts
    <3>2. QED
      BY <2>3, <3>1 DEF TicketInv, Apart, Alive, Held
  <2>4. CASE /\ m_result_lists' = t
             /\ UNCHANGED <<m_done, ev, m_events, l1, m_stop>>
    BY <2>1, <2>4 DEF TicketInv, Apart, Alive, Held
  <2>5. CASE /\ m_result_lists' = t /\ m_done' = Append(m_done, x)
             /\ UNCHANGED <<ev, m_events, l1, m_stop>>
    <3>1. Holds(m_done') = D \cup {x} /\ IsInjective(m_done')
      BY <1>1, <2>1, <2>5, AppendFacts DEF TicketInv, Apart
    <3>2. Held' = Held
      BY <2>5 DEF Held
    <3>3. Apart'
      BY <2>1, <2>5, <3>1, <3>2 DEF TicketInv, Apart
    <3>4. Alive'
      BY <2>1, <2>5, <3>1, <3>2 DEF TicketInv, Alive
    <3>5. QED
      BY <2>5, <3>3, <3>4 DEF TicketInv
  <2>6. QED
    BY <1>4, <2>2, <2>3, <2>4, <2>5
       DEF ResultStep, OuterLoop, InnerLoop, PutBack, Break, Finish, Suppress,
           MoveToDone, x, t
<1>5. CASE m_result_lists = <<>> /\ ResultStep
  <2>1. UNCHANGED <<m_result_lists, m_done, ev, m_events, l1, m_stop>>
    BY <1>5 DEF ResultStep, OuterLoop, InnerLoop, PutBack, Break, Finish, Suppress
  <2>2. QED
    BY <2>1 DEF TicketInv, Apart, Alive, Held
<1>6. CASE getNext
  <2> DEFINE x == Head(m_done)
             t == Tail(m_done)
  <2>1. /\ x \in Ids /\ x \in D /\ D = Holds(t) \cup {x}
        /\ IsInjective(t) /\ x \notin Holds(t) /\ x \notin R
    BY <1>1, <1>6, TailFacts DEF TicketInv, Apart, getNext
  <2>2. /\ ev' = x /\ m_done' = t /\ ~m_stop
        /\ UNCHANGED <<m_result_lists, m_events, m_stop>>
    BY <1>6 DEF getNext
  <2> HIDE DEF x, t
  <2>3. Held' = {x}
    BY <1>1, <2>1, <2>2 DEF Held
  <2>4. Apart'
    BY <2>1, <2>2, <2>3 DEF TicketInv, Apart
  <2>5. Alive'
    BY <2>1, <2>2, <2>3 DEF TicketInv, Alive
  <2>6. QED
    BY <2>2, <2>4, <2>5 DEF TicketInv
<1>7. CASE FreeEvent
  BY <1>7 DEF FreeEvent, TicketInv, Apart, Alive, Held
<1>8. CASE release
  <2>1. /\ ev' = NoId /\ m_events' = [m_events EXCEPT ![ev] = {}]
        /\ l1' = "idle"
        /\ UNCHANGED <<m_result_lists, m_done, m_stop>>
    BY <1>8 DEF release
  <2>2. Held' = {} /\ ev \notin R \cup D
    <3>1. ev # NoId
      BY <1>8 DEF release, TypeOK
    <3>2. QED
      BY <2>1, <3>1 DEF Held, TicketInv, Apart
  <2>3. Apart'
    BY <2>1, <2>2 DEF TicketInv, Apart
  <2>4. \A id \in R \cup D : m_events'[id] = m_events[id]
    BY <1>1, <1>2, <2>1, <2>2
  <2>5. Alive'
    BY <2>1, <2>2, <2>4 DEF TicketInv, Alive
  <2>6. QED
    BY <2>1, <2>3, <2>5 DEF TicketInv
<1>9. CASE Stop
  BY <1>9 DEF Stop, TicketInv, Apart, Alive, Held
<1>10. CASE Destroy
  <2>1. /\ m_result_lists' = <<>> /\ m_done' = <<>>
        /\ UNCHANGED <<ev, l1, m_stop>> /\ m_stop
    BY <1>10 DEF Destroy
  <2>2. Holds(<<>>) = {} /\ IsInjective(<<>>)
    BY DEF Holds, IsInjective
  <2>3. Held' = {}
    BY <2>1 DEF TicketInv, Held, TypeOK
  <2>4. QED
    BY <2>1, <2>2, <2>3 DEF TicketInv, Apart, Alive
<1>11. CASE \/ \E c \in Channels : LoseFragment(c)
            \/ \E id \in Ids : TimePasses(id)
            \/ UNCHANGED vars
  <2>1. UNCHANGED <<m_result_lists, m_done, ev, m_events, l1, m_stop>>
    BY <1>11 DEF LoseFragment, TimePasses, vars
  <2>2. QED
    BY <2>1 DEF TicketInv, Apart, Alive, Held
<1>12. QED
  BY <1>3, <1>4, <1>5, <1>6, <1>7, <1>8, <1>9, <1>10, <1>11 DEF Next, L1Step

-----------------------------------------------------------------------------
(* Types.  What getNext counts is not zero because the event it takes has  *)
(* a ticket.                                                               *)

(* The types at the start.                                                 *)
LEMMA TypeInit == Init => TypeOK
<1> SUFFICES ASSUME Init PROVE TypeOK
  OBVIOUS
<1> USE BuilderAssumption
<1>1. /\ next \in [Channels -> 1..(MaxIds + 1)]
      /\ m_events \in [Ids -> SUBSET Channels]
      /\ recycled \in [Channels \X Ids -> Nat]
  BY DEF Init, Ids
<1>2. /\ m_result_lists \in Seq(Ids) /\ m_done \in Seq(Ids)
      /\ m_timedoutL1ID \in Seq(Ids) /\ delivered \in Seq(Ids)
      /\ old \in SUBSET Ids /\ dropped \in SUBSET Ids /\ forgotten \in SUBSET Ids
      /\ got \in SUBSET (Channels \X Ids)
      /\ finished \in SUBSET {SubRob[c] : c \in Channels}
  BY DEF Init
<1>3. /\ m_stop \in BOOLEAN /\ destroyed \in BOOLEAN
      /\ result \in {"outer", "inner", "exited"}
  BY DEF Init
<1>4. /\ l1 \in {"idle", "freePages", "release"} /\ ev \in Ids \cup {NoId}
      /\ count \in Nat /\ (l1 # "idle" <=> ev # NoId) /\ (l1 # "idle" <=> count > 0)
  BY DEF Init
<1>5. QED
  BY <1>1, <1>2, <1>3, <1>4 DEF TypeOK

(* freePages counts pages.                                                 *)
LEMMA FreeTypes ==
  ASSUME TypeOK, NEW pages, freePages(pages)
  PROVE  /\ recycled' \in [Channels \X Ids -> Nat]
         /\ \A p \in Channels \X Ids :
              recycled'[p] = IF p \in pages THEN recycled[p] + 1 ELSE recycled[p]
BY DEF TypeOK, freePages

(* The list of time-outs keeps L1 IDs.  What leaves it is forgotten, and   *)
(* an ID that is not on it is put there.                                   *)
LEMMA RememberTypes ==
  ASSUME TypeOK, NEW id \in Ids, Remember(id)
  PROVE  /\ m_timedoutL1ID' \in Seq(Ids)
         /\ forgotten' \in SUBSET Ids
         /\ forgotten \subseteq forgotten'
         /\ Holds(m_timedoutL1ID) \subseteq Holds(m_timedoutL1ID') \cup forgotten'
         /\ ~LateFragment(id) => id \in Holds(m_timedoutL1ID')
<1> DEFINE q      == m_timedoutL1ID
           tooOld == Cardinality({i \in DOMAIN q : id - q[i] > StaleAge})
           stale  == IF tooOld = 0 /\ Len(q) > MaxStale THEN 1 ELSE tooOld
           kept   == SubSeq(q, stale + 1, Len(q))
<1>1. q \in Seq(Ids) /\ Len(q) \in Nat /\ DOMAIN q = 1..Len(q)
  BY DEF TypeOK
<1>2. tooOld \in Nat
  <2>1. IsFiniteSet(1..Len(q))
    BY <1>1, FS_Interval
  <2>2. {i \in DOMAIN q : id - q[i] > StaleAge} \subseteq 1..Len(q)
    BY <1>1
  <2>3. IsFiniteSet({i \in DOMAIN q : id - q[i] > StaleAge})
    BY <2>1, <2>2, FS_Subset
  <2>4. QED
    BY <2>3, FS_CardinalityType
<1> HIDE DEF tooOld
<1>3. stale \in Nat
  BY <1>2
<1> HIDE DEF stale
<1>4. kept \in Seq(Ids)
  <2>1. \A i \in (stale + 1)..Len(q) : q[i] \in Ids
    BY <1>1, <1>3
  <2>2. QED
    BY <1>1, <1>3, <2>1, SubSeqProperties
<1> HIDE DEF kept
<1>5. /\ m_timedoutL1ID' = IF LateFragment(id) THEN kept ELSE Append(kept, id)
      /\ forgotten' = forgotten \cup (ToSet(q) \ ToSet(kept))
  BY DEF Remember, kept, stale, tooOld
<1>6. m_timedoutL1ID' \in Seq(Ids)
  BY <1>4, <1>5, AppendFacts
<1>7. Holds(kept) \subseteq Holds(m_timedoutL1ID')
  BY <1>4, <1>5, AppendFacts
<1>8. ~LateFragment(id) => id \in Holds(m_timedoutL1ID')
  BY <1>4, <1>5, AppendFacts
<1>9. ToSet(q) = Holds(q) /\ ToSet(kept) = Holds(kept) /\ Holds(q) \subseteq Ids
  BY <1>1 DEF ToSet, Holds
<1>10. QED
  BY <1>5, <1>6, <1>7, <1>8, <1>9 DEF TypeOK

(* Every step keeps the types.                                             *)
LEMMA TypeStep ==
  ASSUME TypeOK, TicketInv, [Next]_vars
  PROVE  TypeOK'
<1> USE BuilderAssumption DEF TypeOK
<1>1. ASSUME NEW c \in Channels, Receive(c) PROVE TypeOK'
  <2>1. next[c] \in Ids /\ next' \in [Channels -> 1..(MaxIds + 1)]
    BY <1>1 DEF Receive, Ids
  <2>2. m_result_lists' \in Seq(Ids) /\ m_events' \in [Ids -> SUBSET Channels]
    BY <1>1, <2>1 DEF Receive, add
  <2>3. got' \in SUBSET (Channels \X Ids)
    BY <1>1, <2>1 DEF Receive
  <2>4. finished' \in SUBSET {SubRob[d] : d \in Channels}
    BY <1>1 DEF Receive
  <2>5. QED
    BY <1>1, <2>1, <2>2, <2>3, <2>4 DEF Receive
<1>2. ASSUME NEW c \in Channels, LoseFragment(c) PROVE TypeOK'
  BY <1>2 DEF LoseFragment, Ids
<1>3. ASSUME NEW id \in Ids, TimePasses(id) PROVE TypeOK'
  BY <1>3 DEF TimePasses
<1>4. CASE OuterLoop \/ InnerLoop
  BY <1>4 DEF OuterLoop, InnerLoop
<1>5. ASSUME m_result_lists # <<>>
      PROVE  Head(m_result_lists) \in Ids /\ Tail(m_result_lists) \in Seq(Ids)
  BY <1>5, TailFacts
<1>6. CASE PutBack
  <2>1. m_result_lists' \in Seq(Ids)
    BY <1>5, <1>6, AppendFacts DEF PutBack
  <2>2. QED
    BY <1>6, <2>1 DEF PutBack
<1>7. CASE Break
  <2>1. m_result_lists' \in Seq(Ids) /\ dropped' \in SUBSET Ids
    BY <1>5, <1>7 DEF Break
  <2>2. QED
    BY <1>7, <2>1 DEF Break
<1>8. CASE Finish
  <2>1. m_result_lists' \in Seq(Ids) /\ m_done' \in Seq(Ids)
    BY <1>5, <1>8, AppendFacts DEF Finish, MoveToDone
  <2>2. m_timedoutL1ID' \in Seq(Ids) /\ forgotten' \in SUBSET Ids
    BY <1>5, <1>8, RememberTypes DEF Finish
  <2>3. QED
    BY <1>8, <2>1, <2>2 DEF Finish, MoveToDone
<1>9. CASE Suppress
  <2>1. m_result_lists' \in Seq(Ids)
    BY <1>5, <1>9 DEF Suppress
  <2>2. m_timedoutL1ID' \in Seq(Ids) /\ forgotten' \in SUBSET Ids
    BY <1>5, <1>9, RememberTypes DEF Suppress
  <2>3. recycled' \in [Channels \X Ids -> Nat]
    BY <1>9, FreeTypes DEF Suppress
  <2>4. QED
    BY <1>9, <2>1, <2>2, <2>3 DEF Suppress
<1>10. CASE getNext
  <2>1. /\ Head(m_done) \in Ids /\ Tail(m_done) \in Seq(Ids)
        /\ Head(m_done) \in Holds(m_done)
    BY <1>10, TailFacts DEF getNext
  <2>2. m_events[Head(m_done)] # {}
    BY <2>1 DEF TicketInv, Alive
  <2>3. IsFiniteSet(m_events[Head(m_done)])
    BY <2>1, FS_Subset
  <2>4. count' \in Nat /\ count' > 0
    BY <1>10, <2>2, <2>3, FS_EmptySet, FS_CardinalityType DEF getNext
  <2>5. /\ ev' \in Ids /\ ev' # NoId /\ l1' = "freePages"
        /\ m_done' \in Seq(Ids)
    BY <1>10, <2>1 DEF getNext, Ids, NoId
  <2>6. QED
    BY <1>10, <2>4, <2>5 DEF getNext
<1>11. CASE FreeEvent
  <2>1. recycled' \in [Channels \X Ids -> Nat]
    BY <1>11, FreeTypes DEF FreeEvent
  <2>2. QED
    BY <1>11, <2>1 DEF FreeEvent
<1>12. CASE release
  <2>1. ev \in Ids
    BY <1>12 DEF release
  <2>2. delivered' \in Seq(Ids) /\ m_events' \in [Ids -> SUBSET Channels]
    BY <1>12, <2>1, AppendFacts DEF release
  <2>3. QED
    BY <1>12, <2>2 DEF release
<1>13. CASE Stop
  BY <1>13 DEF Stop
<1>14. CASE Destroy
  <2>1. recycled' \in [Channels \X Ids -> Nat]
    BY <1>14, FreeTypes DEF Destroy
  <2>2. QED
    BY <1>14, <2>1 DEF Destroy
<1>15. CASE UNCHANGED vars
  BY <1>15 DEF vars
<1>16. QED
  BY <1>1, <1>2, <1>3, <1>4, <1>6, <1>7, <1>8, <1>9, <1>10, <1>11, <1>12, <1>13,
     <1>14, <1>15 DEF Next, ResultStep, L1Step

(* The queues keep L1 IDs, and getResult has an event, with a fragment in  *)
(* it, exactly between the pop and the release.                            *)
THEOREM TypeCorrect == Spec => []TypeOK
<1>1. Init => TypeOK /\ TicketInv
  BY TypeInit, TicketInit
<1>2. TypeOK /\ TicketInv /\ [Next]_vars => (TypeOK /\ TicketInv)'
  BY TypeStep, TicketStep
<1>3. QED
  BY <1>1, <1>2, PTL DEF Spec

(* An event is on one list, in m_done or with the L1 thread, once, and     *)
(* while it is it exists: through time-outs, late fragments and a full     *)
(* m_done.                                                                 *)
THEOREM TicketsUnique == Spec => []OneTicket
<1>1. Spec => [](TypeOK /\ TicketInv)
  <2>1. Init => TypeOK /\ TicketInv
    BY TypeInit, TicketInit
  <2>2. TypeOK /\ TicketInv /\ [Next]_vars => (TypeOK /\ TicketInv)'
    BY TypeStep, TicketStep
  <2>3. QED
    BY <2>1, <2>2, PTL DEF Spec
<1>2. TypeOK /\ TicketInv => OneTicket
  BY OneTicketIs DEF TicketInv
<1>3. QED
  BY <1>1, <1>2, PTL

-----------------------------------------------------------------------------
(* Pages.                                                                  *)

Queued == Holds(m_result_lists) \cup Holds(m_done)

(* Every link of an event has a page that the card has handed out.  A page *)
(* is recycled at most once, and while its event still has the link, the   *)
(* event has no ticket any more, or getResult has freed it and not yet     *)
(* released it.                                                            *)
PageInv ==
  \A c \in Channels, id \in Ids :
    /\ c \in m_events[id] => <<c, id>> \in got
    /\ <<c, id>> \in got => id < next[c]
    /\ recycled[<<c, id>>] > 0 => recycled[<<c, id>>] = 1 /\ <<c, id>> \in got
    /\ recycled[<<c, id>>] > 0 /\ c \in m_events[id] =>
         id \notin Queued /\ (ev = id => l1 = "release")

(* The pages of an event.                                                  *)
LEMMA PagesIs ==
  \A c \in Channels, id, x \in Ids : <<c, id>> \in Pages(x) <=> id = x /\ c \in m_events[x]
BY DEF Pages

(* No page is recycled at the start.                                       *)
LEMMA PageInit == Init => PageInv
<1> SUFFICES ASSUME Init PROVE PageInv
  OBVIOUS
<1>1. \A c \in Channels, id \in Ids : /\ c \notin m_events[id] /\ <<c, id>> \notin got
                                      /\ ~(recycled[<<c, id>>] > 0)
  BY DEF Init
<1>2. QED
  BY <1>1 DEF PageInv

(* What freePages does when it gets the pages of events whose pages have   *)
(* not been recycled.                                                      *)
LEMMA Freed ==
  ASSUME TypeOK, PageInv, NEW X \in SUBSET Ids, NEW pages, freePages(pages),
         \A c \in Channels, id \in Ids : <<c, id>> \in pages <=> id \in X /\ c \in m_events[id],
         \A id \in X : id \in Queued \/ (ev = id /\ l1 # "release")
  PROVE  \A c \in Channels, id \in Ids :
           recycled'[<<c, id>>] = IF id \in X /\ c \in m_events[id]
                                  THEN 1 ELSE recycled[<<c, id>>]
<1> SUFFICES ASSUME NEW c \in Channels, NEW id \in Ids
             PROVE  recycled'[<<c, id>>] = IF id \in X /\ c \in m_events[id]
                                           THEN 1 ELSE recycled[<<c, id>>]
  OBVIOUS
<1>1. <<c, id>> \in Channels \X Ids /\ recycled[<<c, id>>] \in Nat
  BY DEF TypeOK
<1>2. recycled'[<<c, id>>] = IF <<c, id>> \in pages THEN recycled[<<c, id>>] + 1
                                                    ELSE recycled[<<c, id>>]
  BY <1>1, FreeTypes
<1>3. id \in X /\ c \in m_events[id] => recycled[<<c, id>>] = 0
  BY <1>1 DEF PageInv
<1>4. QED
  BY <1>1, <1>2, <1>3

(* A step that frees the pages of X.                                       *)
LEMMA FreeStep ==
  ASSUME TypeOK, PageInv, NEW X \in SUBSET Ids,
         \A c \in Channels, id \in Ids :
           recycled'[<<c, id>>] = IF id \in X /\ c \in m_events[id]
                                  THEN 1 ELSE recycled[<<c, id>>],
         UNCHANGED <<next, got>>,
         \A id \in Ids : m_events'[id] \in {m_events[id], {}},
         \A id \in Ids : m_events'[id] # {} =>
           /\ id \in X => id \notin Queued' /\ (ev' = id => l1' = "release")
           /\ id \notin X /\ id \notin Queued /\ (ev = id => l1 = "release") =>
                id \notin Queued' /\ (ev' = id => l1' = "release")
  PROVE  PageInv'
<1> SUFFICES ASSUME NEW c \in Channels, NEW id \in Ids
             PROVE  /\ c \in m_events'[id] => <<c, id>> \in got'
                    /\ <<c, id>> \in got' => id < next'[c]
                    /\ recycled'[<<c, id>>] > 0 =>
                         recycled'[<<c, id>>] = 1 /\ <<c, id>> \in got'
                    /\ recycled'[<<c, id>>] > 0 /\ c \in m_events'[id] =>
                         id \notin Queued' /\ (ev' = id => l1' = "release")
  BY DEF PageInv
<1>1. c \in m_events'[id] => m_events'[id] = m_events[id] /\ m_events'[id] # {}
  OBVIOUS
<1>2. c \in m_events[id] => <<c, id>> \in got
  BY DEF PageInv
<1>3. CASE id \in X /\ c \in m_events[id]
  BY <1>1, <1>2, <1>3 DEF PageInv
<1>4. CASE ~(id \in X /\ c \in m_events[id])
  <2>1. recycled'[<<c, id>>] = recycled[<<c, id>>]
    BY <1>4
  <2>2. QED
    BY <1>1, <1>4, <2>1 DEF PageInv
<1>5. QED
  BY <1>3, <1>4

(* A step that frees nothing.                                              *)
LEMMA KeepStep ==
  ASSUME TypeOK, PageInv, UNCHANGED <<next, got, recycled>>,
         \A id \in Ids : m_events'[id] \in {m_events[id], {}},
         \A id \in Ids :
           m_events'[id] # {} /\ id \notin Queued /\ (ev = id => l1 = "release") =>
             id \notin Queued' /\ (ev' = id => l1' = "release")
  PROVE  PageInv'
<1>1. \A c \in Channels, id \in Ids :
        recycled'[<<c, id>>] = IF id \in {} /\ c \in m_events[id]
                               THEN 1 ELSE recycled[<<c, id>>]
  OBVIOUS
<1>2. QED
  BY <1>1, FreeStep

(* Every step preserves PageInv.                                           *)
LEMMA PageStep ==
  ASSUME TypeOK, TicketInv, PageInv, [Next]_vars
  PROVE  PageInv'
<1>0. /\ m_result_lists \in Seq(Ids) /\ m_done \in Seq(Ids) /\ NoId \notin Ids
      /\ m_events \in [Ids -> SUBSET Channels]
  BY DEF TypeOK, Ids, NoId
<1>1. /\ m_result_lists \in Seq(Ids) /\ m_done \in Seq(Ids) /\ NoId \notin Ids
      /\ m_events \in [Ids -> SUBSET Channels] /\ Queued \subseteq Ids
  BY <1>0 DEF Queued, Holds
<1>2. ASSUME NEW c \in Channels, Receive(c) PROVE PageInv'
  <2> DEFINE n == next[c]
  <2>1. /\ n \in Ids /\ n \in Nat
        /\ \A d \in Channels, id \in Ids :
             d \in m_events'[id] <=> d \in m_events[id] \/ (d = c /\ id = n)
    BY <1>1, <1>2 DEF Receive, add, Ids
  <2>2. /\ got' = got \cup {<<c, n>>} /\ recycled' = recycled
        /\ ev' = ev /\ l1' = l1 /\ m_done' = m_done
    BY <1>2 DEF Receive
  <2>3. /\ \A d \in Channels : next[d] \in Nat /\ next'[d] \in Nat /\ next[d] <= next'[d]
        /\ next'[c] = n + 1
    BY <1>2, BuilderAssumption DEF Receive, TypeOK
  <2>4. <<c, n>> \notin got
    BY <2>1 DEF PageInv
  <2>5. recycled[<<c, n>>] = 0
    BY <2>1, <2>4 DEF PageInv, TypeOK
  <2>6. \/ Queued' = Queued
        \/ m_events[n] = {} /\ Queued' = Queued \cup {n}
    <3>1. CASE m_result_lists' = m_result_lists
      BY <2>2, <3>1 DEF Queued
    <3>2. CASE m_events[n] = {} /\ m_result_lists' = Append(m_result_lists, n)
      <4>1. Holds(m_result_lists') = Holds(m_result_lists) \cup {n}
        BY <1>1, <2>1, <3>2, AppendFacts
      <4>2. QED
        BY <2>2, <3>2, <4>1 DEF Queued
    <3>3. QED
      BY <1>2, <3>1, <3>2 DEF Receive, add
  <2> HIDE DEF n
  <2>7. SUFFICES ASSUME NEW d \in Channels, NEW id \in Ids
                 PROVE  /\ d \in m_events'[id] => <<d, id>> \in got'
                        /\ <<d, id>> \in got' => id < next'[d]
                        /\ recycled'[<<d, id>>] > 0 =>
                             recycled'[<<d, id>>] = 1 /\ <<d, id>> \in got'
                        /\ recycled'[<<d, id>>] > 0 /\ d \in m_events'[id] =>
                             id \notin Queued' /\ (ev' = id => l1' = "release")
    BY DEF PageInv
  <2>8. CASE d = c /\ id = n
    BY <2>1, <2>2, <2>3, <2>5, <2>8
  <2>9. CASE ~(d = c /\ id = n)
    <3>1. <<d, id>> \in got' <=> <<d, id>> \in got
      BY <2>2, <2>9
    <3>2. d \in m_events'[id] <=> d \in m_events[id]
      BY <2>1, <2>9
    <3>3. id \in Nat /\ id < next[d] => id < next'[d]
      BY <2>3
    <3>4. d \in m_events[id] /\ id \notin Queued => id \notin Queued'
      BY <2>6
    <3>5. id \in Nat
      BY DEF Ids
    <3>6. QED
      BY <2>2, <3>1, <3>2, <3>3, <3>4, <3>5 DEF PageInv
  <2>10. QED
    BY <2>8, <2>9
<1>3. ASSUME NEW c \in Channels, LoseFragment(c) PROVE PageInv'
  <2>1. /\ \A d \in Channels : next[d] \in Nat /\ next'[d] \in Nat /\ next[d] <= next'[d]
        /\ UNCHANGED <<m_events, got, recycled, ev, l1, m_result_lists, m_done>>
    BY <1>3, BuilderAssumption DEF LoseFragment, TypeOK, Ids
  <2>2. Ids \subseteq Nat /\ Queued' = Queued
    BY <2>1 DEF Ids, Queued
  <2>3. SUFFICES ASSUME NEW d \in Channels, NEW id \in Ids
                 PROVE  <<d, id>> \in got => id < next'[d]
    BY <2>1, <2>2 DEF PageInv
  <2>4. QED
    BY <2>1, <2>2 DEF PageInv
<1>4. ASSUME m_result_lists # <<>>
      PROVE  LET x == Head(m_result_lists)
                 t == Tail(m_result_lists)
             IN  /\ t \in Seq(Ids) /\ x \in Ids /\ x \in Queued
                 /\ Holds(m_result_lists) = Holds(t) \cup {x}
                 /\ x \notin Holds(t) \cup Holds(m_done)
                 /\ ev # x
  BY <1>1, <1>4, TailFacts DEF Queued, TicketInv, Apart, Held
<1>5. CASE PutBack \/ Break
  <2> DEFINE x == Head(m_result_lists)
             t == Tail(m_result_lists)
  <2>1. /\ m_result_lists # <<>>
        /\ m_result_lists' = t \/ m_result_lists' = Append(t, x)
        /\ UNCHANGED <<next, got, recycled, m_events, ev, l1, m_done>>
    BY <1>5 DEF PutBack, Break
  <2>2. t \in Seq(Ids) /\ x \in Ids /\ Holds(m_result_lists) = Holds(t) \cup {x}
    BY <1>4, <2>1
  <2> HIDE DEF x, t
  <2>3. Holds(m_result_lists') \subseteq Holds(m_result_lists)
    <3>1. Holds(Append(t, x)) = Holds(t) \cup {x}
      BY <2>2, AppendFacts
    <3>2. QED
      BY <2>1, <2>2, <3>1
  <2>4. Queued' \subseteq Queued
    BY <2>1, <2>3 DEF Queued
  <2>5. QED
    BY <2>1, <2>4, KeepStep
<1>6. CASE Finish
  <2> DEFINE x == Head(m_result_lists)
             t == Tail(m_result_lists)
  <2>1. /\ m_result_lists # <<>> /\ m_result_lists' = t /\ m_done' = Append(m_done, x)
        /\ UNCHANGED <<next, got, recycled, m_events, ev, l1>>
    BY <1>6 DEF Finish, MoveToDone
  <2>2. t \in Seq(Ids) /\ x \in Ids /\ Holds(m_result_lists) = Holds(t) \cup {x}
    BY <1>4, <2>1
  <2> HIDE DEF x, t
  <2>3. Queued' \subseteq Queued
    BY <1>1, <2>1, <2>2, AppendFacts DEF Queued
  <2>4. QED
    BY <2>1, <2>3, KeepStep
<1>7. CASE Suppress
  <2> DEFINE x == Head(m_result_lists)
             t == Tail(m_result_lists)
  <2>1. /\ m_result_lists # <<>> /\ m_result_lists' = t /\ freePages(Pages(x))
        /\ UNCHANGED <<next, got, m_events, ev, l1, m_done>>
    BY <1>7 DEF Suppress
  <2>2. /\ x \in Ids /\ x \in Queued /\ Holds(m_result_lists) = Holds(t) \cup {x}
        /\ x \notin Holds(t) \cup Holds(m_done) /\ ev # x
    BY <1>4, <2>1
  <2> HIDE DEF x, t
  <2>3. \A c \in Channels, id \in Ids :
          recycled'[<<c, id>>] = IF id \in {x} /\ c \in m_events[id]
                                 THEN 1 ELSE recycled[<<c, id>>]
    <3>1. \A c \in Channels, id \in Ids :
            <<c, id>> \in Pages(x) <=> id \in {x} /\ c \in m_events[id]
      BY <2>2, PagesIs
    <3>2. /\ {x} \in SUBSET Ids
          /\ \A id \in {x} : id \in Queued \/ (ev = id /\ l1 # "release")
      BY <2>2
    <3>3. freePages(Pages(x))
      BY <2>1
    <3>4. QED
      BY <3>1, <3>2, <3>3, Freed
  <2>4. Queued' \subseteq Queued /\ x \notin Queued'
    BY <2>1, <2>2 DEF Queued
  <2>5. \A id \in Ids : m_events'[id] # {} =>
           /\ id \in {x} => id \notin Queued' /\ (ev' = id => l1' = "release")
           /\ id \notin {x} /\ id \notin Queued /\ (ev = id => l1 = "release") =>
                id \notin Queued' /\ (ev' = id => l1' = "release")
    BY <2>1, <2>2, <2>4
  <2>6. QED
    BY <2>1, <2>2, <2>3, <2>5, FreeStep
<1>8. CASE getNext
  <2> DEFINE x == Head(m_done)
             t == Tail(m_done)
  <2>1. /\ m_done # <<>> /\ m_done' = t /\ ev' = x
        /\ UNCHANGED <<next, got, recycled, m_events, m_result_lists>>
    BY <1>8 DEF getNext
  <2>2. x \in Ids /\ Holds(m_done) = Holds(t) \cup {x}
    BY <1>1, <2>1, TailFacts
  <2> HIDE DEF x, t
  <2>3. Queued' \subseteq Queued /\ x \in Queued
    BY <2>1, <2>2 DEF Queued
  <2>4. QED
    BY <2>1, <2>3, KeepStep
<1>9. CASE FreeEvent
  <2>1. /\ ev \in Ids /\ l1 = "freePages" /\ l1' = "release" /\ freePages(Pages(ev))
        /\ UNCHANGED <<next, got, m_events, ev, m_result_lists, m_done>>
    BY <1>9 DEF FreeEvent, TypeOK
  <2>2. \A c \in Channels, id \in Ids :
          recycled'[<<c, id>>] = IF id \in {ev} /\ c \in m_events[id]
                                 THEN 1 ELSE recycled[<<c, id>>]
    <3>1. \A c \in Channels, id \in Ids :
            <<c, id>> \in Pages(ev) <=> id \in {ev} /\ c \in m_events[id]
      BY <2>1, PagesIs
    <3>2. {ev} \in SUBSET Ids /\ \A id \in {ev} : ev = id /\ l1 # "release"
      BY <2>1
    <3>3. QED
      BY <2>1, <3>1, <3>2, Freed
  <2>3. Queued' = Queued /\ ev \notin Queued
    BY <1>1, <2>1 DEF Queued, TicketInv, Apart, Held
  <2>4. \A id \in Ids : m_events'[id] # {} =>
           /\ id \in {ev} => id \notin Queued' /\ (ev' = id => l1' = "release")
           /\ id \notin {ev} /\ id \notin Queued /\ (ev = id => l1 = "release") =>
                id \notin Queued' /\ (ev' = id => l1' = "release")
    BY <2>1, <2>3
  <2>5. QED
    BY <2>1, <2>2, <2>4, FreeStep
<1>10. CASE release
  <2>1. /\ ev \in Ids /\ ev' = NoId
        /\ m_events' = [m_events EXCEPT ![ev] = {}]
        /\ UNCHANGED <<next, got, recycled, m_result_lists, m_done>>
    BY <1>10 DEF release, TypeOK
  <2>2. /\ Queued' = Queued
        /\ \A id \in Ids : m_events'[id] \in {m_events[id], {}}
    BY <1>1, <2>1 DEF Queued
  <2>3. \A id \in Ids : ev' # id
    BY <1>1, <2>1
  <2>4. QED
    BY <2>1, <2>2, <2>3, KeepStep
<1>11. CASE Stop
  <2>1. /\ UNCHANGED <<next, got, recycled, m_events, m_result_lists, m_done, ev, l1>>
    BY <1>11 DEF Stop
  <2>2. Queued' = Queued
    BY <2>1 DEF Queued
  <2>3. QED
    BY <2>1, <2>2, KeepStep
<1>12. CASE Destroy
  <2> DEFINE X == Holds(m_result_lists)
             pages == UNION {Pages(m_result_lists[i]) : i \in DOMAIN m_result_lists}
  <2>1. /\ freePages(pages) /\ m_events' = [id \in Ids |-> {}]
        /\ UNCHANGED <<next, got>>
    BY <1>12 DEF Destroy
  <2>2. X \subseteq Ids /\ X \subseteq Queued
    BY <1>1 DEF Queued, Holds
  <2>3. \A c \in Channels, id \in Ids : <<c, id>> \in pages <=> id \in X /\ c \in m_events[id]
    BY <1>1, PagesIs DEF Holds
  <2> HIDE DEF X, pages
  <2>4. \A c \in Channels, id \in Ids :
          recycled'[<<c, id>>] = IF id \in X /\ c \in m_events[id]
                                 THEN 1 ELSE recycled[<<c, id>>]
    BY <2>1, <2>2, <2>3, Freed
  <2>5. \A id \in Ids : m_events'[id] = {}
    BY <2>1
  <2>6. QED
    BY <2>1, <2>2, <2>4, <2>5, FreeStep
<1>13. CASE \/ OuterLoop \/ InnerLoop
            \/ \E id \in Ids : TimePasses(id)
            \/ UNCHANGED vars
  <2>1. UNCHANGED <<next, got, recycled, m_events, m_result_lists, m_done, ev, l1>>
    BY <1>13 DEF OuterLoop, InnerLoop, TimePasses, vars
  <2>2. Queued' = Queued
    BY <2>1 DEF Queued
  <2>3. QED
    BY <2>1, <2>2, KeepStep
<1>14. QED
  BY <1>2, <1>3, <1>5, <1>6, <1>7, <1>8, <1>9, <1>10, <1>11, <1>12, <1>13
     DEF Next, ResultStep, L1Step

(* No page goes back to the card twice, whichever of getResult, the result *)
(* thread and the destructor gives it back, for any number of channels and *)
(* however late the fragments are; and none that the card did not give.    *)
THEOREM PagesRecycledOnce == Spec => []RecycledOnce
<1>1. Spec => [](TypeOK /\ TicketInv /\ PageInv)
  <2>1. Init => TypeOK /\ TicketInv /\ PageInv
    BY TypeInit, TicketInit, PageInit
  <2>2. TypeOK /\ TicketInv /\ PageInv /\ [Next]_vars
          => (TypeOK /\ TicketInv /\ PageInv)'
    BY TypeStep, TicketStep, PageStep
  <2>3. QED
    BY <2>1, <2>2, PTL DEF Spec
<1>2. TypeOK /\ PageInv => RecycledOnce
  <2> SUFFICES ASSUME TypeOK, PageInv, NEW c \in Channels, NEW id \in Ids
               PROVE  recycled[<<c, id>>] <= (IF <<c, id>> \in got THEN 1 ELSE 0)
    BY DEF RecycledOnce
  <2>1. recycled[<<c, id>>] \in Nat
    BY DEF TypeOK
  <2>2. QED
    BY <2>1 DEF PageInv
<1>3. QED
  BY <1>1, <1>2, PTL

-----------------------------------------------------------------------------
(* Deliveries.                                                             *)

Known(id) == id \in Holds(m_timedoutL1ID) \cup forgotten

(* All links have sent, or lost, their fragment of id.                     *)
AllSent(id) == \A c \in Channels : next[c] > id

(* An event goes to m_done either complete, and then no fragment of it is  *)
(* to come, or remembered as timed out.  Once it has been delivered one of *)
(* its fragments is gone, so it is never complete again; it is only there  *)
(* again if it timed out; and unless the time-out has been forgotten it    *)
(* gets no further than m_result_lists.                                    *)
DeliverInv ==
  /\ \A id \in Holds(delivered) \cup Holds(m_done) \cup Held : Known(id) \/ AllSent(id)
  /\ \A id \in Holds(delivered) :
       /\ \E c \in Channels : next[c] > id /\ c \notin m_events[id]
       /\ ~Known(id) => m_events[id] = {}
       /\ id \notin forgotten => id \notin Holds(m_done) \cup Held
  /\ DeliveredOnce

(* Nothing has been delivered at the start.                                *)
LEMMA DeliverInit == Init => DeliverInv
<1> SUFFICES ASSUME Init PROVE DeliverInv
  OBVIOUS
<1>1. Holds(<<>>) = {} /\ DOMAIN <<>> = {}
  BY DEF Holds
<1>2. QED
  BY <1>1 DEF Init, DeliverInv, DeliveredOnce, Held

(* A step that delivers nothing, puts nothing new into m_done or the hands *)
(* of the L1 thread, forgets no memory and adds no fragment.               *)
LEMMA DeliverKeep ==
  ASSUME TypeOK, DeliverInv, delivered' = delivered,
         \A c \in Channels : next[c] \in Nat /\ next'[c] \in Nat /\ next[c] <= next'[c],
         \A id \in Ids : m_events'[id] \in {m_events[id], {}},
         \A id \in Ids : Known(id) => Known(id)',
         forgotten \subseteq forgotten',
         Holds(m_done') \cup Held' \subseteq Holds(m_done) \cup Held
  PROVE  DeliverInv'
<1>1. Holds(delivered) \subseteq Ids /\ Holds(m_done) \subseteq Ids /\ Held \subseteq Ids
  BY DEF TypeOK, Holds, Held
<1>2. Ids \subseteq Nat
  BY DEF Ids
<1>3. \A id \in Ids : AllSent(id) => AllSent(id)'
  BY <1>2 DEF AllSent
<1>4. \A id \in Holds(delivered') \cup Holds(m_done') \cup Held' : Known(id)' \/ AllSent(id)'
  BY <1>1, <1>3 DEF DeliverInv
<1>5. ASSUME NEW id \in Holds(delivered')
      PROVE  /\ \E c \in Channels : next'[c] > id /\ c \notin m_events'[id]
             /\ ~Known(id)' => m_events'[id] = {}
             /\ id \notin forgotten' => id \notin Holds(m_done') \cup Held'
  <2>1. id \in Holds(delivered) /\ id \in Ids /\ id \in Nat
    BY <1>1, <1>2, <1>5
  <2>2. PICK c \in Channels : next[c] > id /\ c \notin m_events[id]
    BY <2>1 DEF DeliverInv
  <2>3. next'[c] > id /\ c \notin m_events'[id]
    BY <2>1, <2>2
  <2>4. ~Known(id)' => m_events'[id] = {}
    BY <2>1 DEF DeliverInv
  <2>5. id \notin forgotten' => id \notin Holds(m_done') \cup Held'
    BY <2>1 DEF DeliverInv
  <2>6. QED
    BY <2>3, <2>4, <2>5
<1>6. DeliveredOnce'
  BY DEF DeliverInv, DeliveredOnce
<1>7. QED
  BY <1>4, <1>5, <1>6 DEF DeliverInv

(* Every step preserves DeliverInv.                                        *)
LEMMA DeliverStep ==
  ASSUME TypeOK, TicketInv, PageInv, DeliverInv, [Next]_vars
  PROVE  DeliverInv'
<1>1. /\ m_result_lists \in Seq(Ids) /\ m_done \in Seq(Ids) /\ delivered \in Seq(Ids)
      /\ NoId \notin Ids /\ m_events \in [Ids -> SUBSET Channels] /\ Ids \subseteq Nat
      /\ \A c \in Channels : next[c] \in Nat
  BY BuilderAssumption DEF TypeOK, Ids, NoId
<1>2. /\ Holds(delivered) \subseteq Ids /\ Holds(m_done) \subseteq Ids
      /\ Held \subseteq Ids
  BY <1>1 DEF TypeOK, Holds, Held
<1>3. ASSUME NEW c \in Channels, Receive(c) PROVE DeliverInv'
  <2> DEFINE n == next[c]
  <2>1. /\ n \in Ids /\ next' = [next EXCEPT ![c] = @ + 1]
        /\ m_events' = [m_events EXCEPT ![n] = @ \cup {c}]
        /\ UNCHANGED <<m_done, ev, m_timedoutL1ID, forgotten, delivered>>
    BY <1>3 DEF Receive, add
  <2>2. \A d \in Channels : next'[d] \in Nat /\ next[d] <= next'[d]
    BY <1>1, <2>1 DEF TypeOK
  <2>3. /\ Held' = Held /\ \A id : Known(id)' <=> Known(id)
    BY <2>1 DEF Held, Known
  <2>4. \A id \in Ids : AllSent(id) => AllSent(id)'
    <3> SUFFICES ASSUME NEW id \in Ids, AllSent(id), NEW d \in Channels PROVE next'[d] > id
      BY DEF AllSent
    <3>1. id \in Nat /\ next[d] \in Nat /\ next[d] > id
      BY <1>1 DEF AllSent
    <3>2. QED
      BY <2>2, <3>1
  <2>5. ~AllSent(n)
    BY <1>1, <2>1 DEF AllSent
  <2> HIDE DEF n
  <2>6. ASSUME NEW id \in Holds(delivered)
        PROVE  /\ \E d \in Channels : next'[d] > id /\ d \notin m_events'[id]
               /\ ~Known(id) => m_events'[id] = {}
    <3>1. id \in Ids /\ id \in Nat
      BY <1>1, <1>2
    <3>2. PICK d \in Channels : next[d] > id /\ d \notin m_events[id]
      BY DEF DeliverInv
    <3>3. d = c => id # n
      BY <1>1, <3>1, <3>2 DEF n
    <3>4. d \notin m_events'[id]
      BY <1>1, <2>1, <3>1, <3>2, <3>3
    <3>5. next'[d] > id
      BY <1>1, <2>2, <3>1, <3>2
    <3>6. ~Known(id) => id # n
      BY <2>5 DEF DeliverInv
    <3>7. ~Known(id) => m_events'[id] = {}
      BY <1>1, <2>1, <3>1, <3>6 DEF DeliverInv
    <3>8. QED
      BY <3>4, <3>5, <3>7
  <2>7. DeliveredOnce'
    BY <2>1 DEF DeliverInv, DeliveredOnce
  <2>8. QED
    BY <1>2, <2>1, <2>3, <2>4, <2>6, <2>7 DEF DeliverInv
<1>4. CASE \/ \E c \in Channels : LoseFragment(c)
           \/ \E id \in Ids : TimePasses(id)
           \/ OuterLoop \/ InnerLoop \/ PutBack \/ Break \/ FreeEvent \/ Stop
           \/ UNCHANGED vars
  <2>1. UNCHANGED <<m_done, ev, m_events, m_timedoutL1ID, forgotten, delivered>>
    BY <1>4 DEF LoseFragment, TimePasses, OuterLoop, InnerLoop, PutBack, Break,
                FreeEvent, Stop, vars
  <2>2. \A d \in Channels : next'[d] \in Nat /\ next[d] <= next'[d]
    <3>1. CASE UNCHANGED next
      BY <1>1, <3>1
    <3>2. ASSUME NEW c \in Channels, LoseFragment(c)
          PROVE  \A d \in Channels : next'[d] \in Nat /\ next[d] <= next'[d]
      BY <1>1, <3>2 DEF LoseFragment, TypeOK
    <3>3. QED
      BY <1>4, <3>1, <3>2 DEF TimePasses, OuterLoop, InnerLoop, PutBack, Break,
                              FreeEvent, Stop, vars
  <2>3. Held' = Held /\ \A id : Known(id)' <=> Known(id)
    BY <2>1 DEF Held, Known
  <2>4. QED
    BY <1>1, <2>1, <2>2, <2>3, DeliverKeep
<1>5. ASSUME m_result_lists # <<>>
      PROVE  /\ Head(m_result_lists) \in Ids
             /\ Head(m_result_lists) \in Holds(m_result_lists)
             /\ Head(m_result_lists) \notin Holds(m_done) \cup Held
             /\ m_events[Head(m_result_lists)] # {}
  BY <1>1, <1>5, TailFacts DEF TicketInv, Apart, Alive
<1>6. ASSUME NEW id \in Ids, Remember(id)
      PROVE  /\ \A x \in Ids : Known(x) => Known(x)'
             /\ forgotten \subseteq forgotten'
             /\ ~LateFragment(id) => Known(id)'
  BY <1>6, RememberTypes DEF Known
<1>7. CASE Finish
  <2>0. PICK x \in Ids : x = Head(m_result_lists)
    BY <1>5, <1>7 DEF Finish
  <2>1. /\ x \in Ids /\ x \in Nat /\ x \notin Holds(m_done) \cup Held /\ m_events[x] # {}
    BY <1>1, <1>5, <1>7, <2>0 DEF Finish
  <2>2. /\ m_done' = Append(m_done, x)
        /\ UNCHANGED <<next, m_events, ev, delivered>>
    BY <1>7, <2>0 DEF Finish, MoveToDone
  <2>3. \/ IsBuilt(x) /\ UNCHANGED <<m_timedoutL1ID, forgotten>>
        \/ ~LateFragment(x) /\ Remember(x)
    BY <1>7, <2>0 DEF Finish
  <2>4. Holds(m_done') = Holds(m_done) \cup {x} /\ Held' = Held
    BY <1>1, <2>1, <2>2, AppendFacts DEF Held
  <2>5. (\A y \in Ids : Known(y) => Known(y)') /\ forgotten \subseteq forgotten'
    BY <1>6, <2>1, <2>3 DEF Known
  <2>6. \A y \in Ids : AllSent(y)' <=> AllSent(y)
    BY <2>2 DEF AllSent
  <2>7. Known(x)' \/ AllSent(x)
    <3>1. CASE ~LateFragment(x) /\ Remember(x)
      BY <1>6, <2>1, <3>1
    <3>2. CASE IsBuilt(x)
      <4>1. \A c \in Channels : x < next[c]
        BY <2>1, <3>2 DEF IsBuilt, PageInv
      <4>2. QED
        BY <1>1, <2>1, <4>1 DEF AllSent
    <3>3. QED
      BY <2>3, <3>1, <3>2
  <2>8. x \in Holds(delivered) => x \in forgotten
    <3> SUFFICES ASSUME x \in Holds(delivered) PROVE x \in forgotten
      OBVIOUS
    <3>1. Known(x)
      BY <2>1 DEF DeliverInv
    <3>2. ~IsBuilt(x)
      BY DEF DeliverInv, IsBuilt
    <3>3. m_timedoutL1ID \in Seq(Ids) /\ ~Contains(m_timedoutL1ID, x)
      BY <2>3, <3>2 DEF LateFragment, TypeOK
    <3>5. x \notin Holds(m_timedoutL1ID)
      BY <3>3 DEF Contains, Holds
    <3>4. QED
      BY <3>1, <3>5 DEF Known
  <2>9. DeliveredOnce'
    <3>1. delivered' = delivered /\ forgotten \subseteq forgotten'
      BY <2>2, <2>5
    <3>2. QED
      BY <3>1 DEF DeliverInv, DeliveredOnce
  <2>10. \A id \in Holds(delivered') \cup Holds(m_done') \cup Held' : Known(id)' \/ AllSent(id)'
    BY <1>2, <2>1, <2>2, <2>4, <2>5, <2>6, <2>7 DEF DeliverInv
  <2>11. ASSUME NEW id \in Holds(delivered')
         PROVE  /\ \E c \in Channels : next'[c] > id /\ c \notin m_events'[id]
                /\ ~Known(id)' => m_events'[id] = {}
                /\ id \notin forgotten' => id \notin Holds(m_done') \cup Held'
    BY <1>2, <2>2, <2>4, <2>5, <2>8 DEF DeliverInv
  <2>12. QED
    BY <2>9, <2>10, <2>11 DEF DeliverInv
<1>8. CASE Suppress
  <2>1. /\ Remember(Head(m_result_lists)) /\ Head(m_result_lists) \in Ids
        /\ UNCHANGED <<next, m_events, m_done, ev, delivered>>
    BY <1>5, <1>8 DEF Suppress
  <2>2. Held' = Held
    BY <2>1 DEF Held
  <2>3. (\A y \in Ids : Known(y) => Known(y)') /\ forgotten \subseteq forgotten'
    BY <1>6, <2>1
  <2>4. QED
    BY <1>1, <2>1, <2>2, <2>3, DeliverKeep
<1>9. CASE getNext
  <2>1. /\ m_done # <<>> /\ m_done' = Tail(m_done) /\ ev' = Head(m_done)
        /\ UNCHANGED <<next, m_events, m_timedoutL1ID, forgotten, delivered>>
    BY <1>9 DEF getNext
  <2>2. Holds(m_done') \cup Held' \subseteq Holds(m_done)
    BY <1>1, <2>1, TailFacts DEF Held
  <2>3. \A id : Known(id)' <=> Known(id)
    BY <2>1 DEF Known
  <2>4. QED
    BY <1>1, <2>1, <2>2, <2>3, DeliverKeep
<1>10. CASE release
  <2>1. /\ ev \in Ids /\ ev # NoId /\ ev' = NoId
        /\ m_events' = [m_events EXCEPT ![ev] = {}]
        /\ delivered' = Append(delivered, ev)
        /\ UNCHANGED <<next, m_done, m_timedoutL1ID, forgotten>>
    BY <1>10 DEF release, TypeOK
  <2>2. Held = {ev} /\ Held' = {} /\ ev \notin Holds(m_done) /\ m_events[ev] # {}
    BY <2>1 DEF Held, TicketInv, Apart, Alive
  <2>3. Holds(delivered') = Holds(delivered) \cup {ev}
    BY <1>1, <2>1, AppendFacts
  <2>4. \A id : (Known(id)' <=> Known(id)) /\ (AllSent(id)' <=> AllSent(id))
    BY <2>1 DEF Known, AllSent
  <2>5. \A id \in Ids : m_events'[id] = IF id = ev THEN {} ELSE m_events[id]
    BY <1>1, <2>1
  <2>6. \E c \in Channels : next[c] > ev
    <3>1. PICK c \in m_events[ev] : c \in Channels
      BY <1>1, <2>1, <2>2
    <3>2. ev < next[c]
      BY <2>1, <3>1 DEF PageInv
    <3>3. QED
      BY <1>1, <2>1, <3>1, <3>2
  <2>7. DeliveredOnce'
    <3> DEFINE k == Len(delivered)
    <3>1. /\ k \in Nat /\ DOMAIN delivered = 1..k /\ DOMAIN delivered' = 1..(k + 1)
          /\ \A i \in 1..k : delivered'[i] = delivered[i]
          /\ delivered'[k + 1] = ev
      BY <1>1, <2>1
    <3> HIDE DEF k
    <3>2. ev \in Holds(delivered) => ev \in forgotten
      BY <2>2 DEF DeliverInv
    <3>3. \A i \in 1..k : delivered[i] = ev => ev \in forgotten
      BY <3>1, <3>2 DEF Holds
    <3>4. 1..(k + 1) = 1..k \cup {k + 1}
      BY <3>1
    <3>5. \A i, j \in 1..k : delivered[i] = delivered[j] => i = j \/ delivered[i] \in forgotten
      BY <3>1 DEF DeliverInv, DeliveredOnce
    <3>6. QED
      BY <2>1, <3>1, <3>3, <3>4, <3>5 DEF DeliveredOnce
  <2>8. \A id \in Holds(delivered') \cup Holds(m_done') \cup Held' : Known(id)' \/ AllSent(id)'
    BY <2>1, <2>2, <2>3, <2>4 DEF DeliverInv
  <2>9. ASSUME NEW id \in Holds(delivered')
        PROVE  /\ \E c \in Channels : next'[c] > id /\ c \notin m_events'[id]
               /\ ~Known(id)' => m_events'[id] = {}
               /\ id \notin forgotten' => id \notin Holds(m_done') \cup Held'
    <3>1. CASE id = ev
      BY <2>1, <2>2, <2>5, <2>6, <3>1
    <3>2. CASE id # ev
      BY <1>2, <2>1, <2>2, <2>3, <2>4, <2>5, <3>2 DEF DeliverInv
    <3>3. QED
      BY <3>1, <3>2
  <2>10. QED
    BY <2>7, <2>8, <2>9 DEF DeliverInv
<1>11. CASE Destroy
  <2>1. /\ m_done' = <<>> /\ m_events' = [id \in Ids |-> {}]
        /\ UNCHANGED <<next, ev, m_timedoutL1ID, forgotten, delivered>>
    BY <1>11 DEF Destroy
  <2>2. Holds(m_done') = {} /\ Held' = Held
    BY <2>1 DEF Holds, Held
  <2>3. \A id : Known(id)' <=> Known(id)
    BY <2>1 DEF Known
  <2>4. QED
    BY <1>1, <2>1, <2>2, <2>3, DeliverKeep
<1>12. QED
  BY <1>3, <1>4, <1>7, <1>8, <1>9, <1>10, <1>11 DEF Next, ResultStep, L1Step

(* However late fragments come, whatever links lose and however small the  *)
(* memory for time-outs is, the L1 thread gets an L1 ID again only when    *)
(* isLateFragment has forgotten its time-out.                              *)
THEOREM EventsDeliveredOnce == Spec => []DeliveredOnce
<1>1. Init => TypeOK /\ TicketInv /\ PageInv /\ DeliverInv
  BY TypeInit, TicketInit, PageInit, DeliverInit
<1>2. TypeOK /\ TicketInv /\ PageInv /\ DeliverInv /\ [Next]_vars
        => (TypeOK /\ TicketInv /\ PageInv /\ DeliverInv)'
  BY TypeStep, TicketStep, PageStep, DeliverStep
<1>3. DeliverInv => DeliveredOnce
  BY DEF DeliverInv
<1>4. QED
  BY <1>1, <1>2, <1>3, PTL DEF Spec

-----------------------------------------------------------------------------
(* The refinement of BuildLife.                                            *)

(* The threads have been joined when the events are deleted.               *)
EndInv == destroyed => m_stop /\ result = "exited"

(* Every step preserves EndInv.                                            *)
LEMMA EndStep == EndInv /\ [Next]_vars => EndInv'
<1> SUFFICES ASSUME EndInv, [Next]_vars PROVE EndInv'
  OBVIOUS
<1>1. CASE ResultStep
  BY <1>1 DEF EndInv, ResultStep, OuterLoop, InnerLoop, PutBack, Break, Finish,
              Suppress
<1>2. CASE L1Step
  BY <1>2 DEF EndInv, L1Step, getNext, FreeEvent, release
<1>3. CASE \/ \E c \in Channels : Receive(c) \/ LoseFragment(c)
           \/ \E id \in Ids : TimePasses(id)
  BY <1>3 DEF EndInv, Receive, LoseFragment, TimePasses
<1>4. CASE Stop \/ Destroy \/ UNCHANGED vars
  BY <1>4 DEF EndInv, Stop, Destroy, vars
<1>5. QED
  BY <1>1, <1>2, <1>3, <1>4 DEF Next

(* The stage of an event, from the sets that it can be in.                 *)
Begun == {id \in Ids : m_events[id] # {}}

StageIn(id, R, D, H, B) ==
  IF id \in R THEN "building"
  ELSE IF id \in D THEN "queued"
  ELSE IF id \in H THEN "taken"
  ELSE IF id \in B THEN "kept"
  ELSE "absent"

StageMap ==
  [id \in Ids |-> StageIn(id, Holds(m_result_lists), Holds(m_done), Held, Begun)]

Mapped == [id \in Ids |-> StageOf(id)] = StageMap

(* StageMap is what the refinement puts for stage.                         *)
LEMMA MappingHolds == TypeOK => Mapped
<1> SUFFICES ASSUME TypeOK, NEW id \in Ids
             PROVE  StageOf(id) = StageIn(id, Holds(m_result_lists), Holds(m_done),
                                          Held, Begun)
  BY DEF Mapped, StageMap
<1>1. ASSUME NEW q \in Seq(Ids) PROVE Contains(q, id) <=> id \in Holds(q)
  <2>1. DOMAIN q = 1..Len(q)
    OBVIOUS
  <2>2. QED
    BY <2>1 DEF Contains, Holds
<1>2. /\ Contains(m_result_lists, id) <=> id \in Holds(m_result_lists)
      /\ Contains(m_done, id) <=> id \in Holds(m_done)
  BY <1>1 DEF TypeOK
<1>3. ev = id <=> id \in Held
  BY DEF Held, Ids, NoId
<1>4. m_events[id] # {} <=> id \in Begun
  BY DEF Begun
<1>5. QED
  BY <1>2, <1>3, <1>4 DEF StageOf, StageIn

(* When the sets an event can be in are the same but for one event, its    *)
(* stage is all that changes.                                              *)
LEMMA StageMove ==
  ASSUME NEW x \in Ids, NEW R, NEW D, NEW H, NEW B,
         NEW R2, NEW D2, NEW H2, NEW B2,
         \A id \in Ids \ {x} : /\ id \in R <=> id \in R2
                               /\ id \in D <=> id \in D2
                               /\ id \in H <=> id \in H2
                               /\ id \in B <=> id \in B2
  PROVE  [id \in Ids |-> StageIn(id, R2, D2, H2, B2)]
           = [[id \in Ids |-> StageIn(id, R, D, H, B)]
                EXCEPT ![x] = StageIn(x, R2, D2, H2, B2)]
<1> DEFINE f == [id \in Ids |-> StageIn(id, R, D, H, B)]
           g == [id \in Ids |-> StageIn(id, R2, D2, H2, B2)]
           y == StageIn(x, R2, D2, H2, B2)
<1>1. \A id \in Ids \ {x} : StageIn(id, R2, D2, H2, B2) = StageIn(id, R, D, H, B)
  BY DEF StageIn
<1>2. DOMAIN f = Ids /\ DOMAIN g = Ids
  OBVIOUS
<1>3. \A id \in Ids : g[id] = IF id = x THEN y ELSE f[id]
  BY <1>1, Zenon
<1>4. g = [id \in Ids |-> g[id]] /\ f = [id \in Ids |-> f[id]]
  OBVIOUS
<1> HIDE DEF f, g, y
<1>5. g = [f EXCEPT ![x] = y]
  BY <1>2, <1>3, <1>4
<1>6. QED
  BY <1>5 DEF f, g, y

(* What a step can do to the events, in the words of BuildLife.            *)
Moved(from, to, x) ==
  StageMap[x] = from /\ StageMap' = [StageMap EXCEPT ![x] = to]

BuildMoves ==
  \/ /\ StageMap' = StageMap
     /\ UNCHANGED <<m_done, delivered, destroyed>>
  \/ /\ ~destroyed
     /\ \E x \in Ids :
          \/ /\ Moved("absent", "building", x)
             /\ UNCHANGED <<m_done, delivered, destroyed>>
          \/ /\ Moved("building", "queued", x)
             /\ m_done' = Append(m_done, x)
             /\ UNCHANGED <<delivered, destroyed>>
          \/ /\ Moved("building", "kept", x)
             /\ UNCHANGED <<m_done, delivered, destroyed>>
          \/ /\ m_done # <<>> /\ x = Head(m_done)
             /\ \A id \in Ids : StageMap[id] # "taken"
             /\ Moved("queued", "taken", x)
             /\ m_done' = Tail(m_done)
             /\ UNCHANGED <<delivered, destroyed>>
          \/ /\ Moved("taken", "absent", x)
             /\ delivered' = Append(delivered, x)
             /\ UNCHANGED <<m_done, destroyed>>
  \/ /\ ~destroyed /\ destroyed' = TRUE
     /\ \A id \in Ids : StageMap[id] # "taken"
     /\ StageMap' = [id \in Ids |-> "absent"]
     /\ m_done' = <<>> /\ delivered' = delivered

(* These are steps of BuildLife.                                           *)
LEMMA MovesAllowed ==
  ASSUME Mapped, Mapped', BuildMoves
  PROVE  [Build!Next]_(Build!buildVars)
<1> DEFINE st == [id \in Ids |-> StageOf(id)]
<1>1. st = StageMap /\ st' = StageMap'
  BY DEF Mapped
<1> HIDE DEF st
<1>2. ASSUME NEW x \in Ids, ~destroyed, st[x] = "absent",
             st' = [st EXCEPT ![x] = "building"],
             UNCHANGED <<m_done, delivered, destroyed>>
      PROVE  Build!Begin(x)
  BY <1>2, Zenon DEF st, Build!Begin, Build!Become
<1>3. ASSUME NEW x \in Ids, ~destroyed, st[x] = "building",
             st' = [st EXCEPT ![x] = "queued"], m_done' = Append(m_done, x),
             UNCHANGED <<delivered, destroyed>>
      PROVE  Build!Queue(x)
  BY <1>3, Zenon DEF st, Build!Queue, Build!Become
<1>4. ASSUME NEW x \in Ids, ~destroyed, st[x] = "building",
             st' = [st EXCEPT ![x] = "kept"],
             UNCHANGED <<m_done, delivered, destroyed>>
      PROVE  Build!Keep(x)
  BY <1>4, Zenon DEF st, Build!Keep, Build!Become
<1>5. ASSUME NEW x \in Ids, ~destroyed, m_done # <<>>, x = Head(m_done),
             \A id \in Ids : st[id] # "taken", st[x] = "queued",
             st' = [st EXCEPT ![x] = "taken"], m_done' = Tail(m_done),
             UNCHANGED <<delivered, destroyed>>
      PROVE  Build!Take
  BY <1>5, Zenon DEF st, Build!Take, Build!Become
<1>6. ASSUME NEW x \in Ids, ~destroyed, st[x] = "taken",
             st' = [st EXCEPT ![x] = "absent"], delivered' = Append(delivered, x),
             UNCHANGED <<m_done, destroyed>>
      PROVE  Build!Return(x)
  BY <1>6, Zenon DEF st, Build!Return, Build!Become
<1>7. ASSUME ~destroyed, destroyed' = TRUE, \A id \in Ids : st[id] # "taken",
             st' = [id \in Ids |-> "absent"], m_done' = <<>>, delivered' = delivered
      PROVE  Build!Close
  BY <1>7 DEF st, Build!Close
<1>8. ASSUME st' = st, UNCHANGED <<m_done, delivered, destroyed>>
      PROVE  UNCHANGED Build!buildVars
  BY <1>8 DEF st, Build!buildVars
<1>9. QED
  BY <1>1, <1>2, <1>3, <1>4, <1>5, <1>6, <1>7, <1>8
     DEF BuildMoves, Moved, Build!Next

(* And the steps of the builder do no more than that.                      *)
LEMMA BuildStep ==
  ASSUME TypeOK, TicketInv, EndInv, [Next]_vars
  PROVE  BuildMoves
<1> DEFINE R == Holds(m_result_lists)
           D == Holds(m_done)
<1>1. /\ m_result_lists \in Seq(Ids) /\ m_done \in Seq(Ids) /\ NoId \notin Ids
      /\ m_events \in [Ids -> SUBSET Channels]
  BY DEF TypeOK, Ids, NoId
<1>2. R \subseteq Begun /\ D \subseteq Begun /\ Held \subseteq Begun
  <2>1. R \subseteq Ids /\ D \subseteq Ids /\ Held \subseteq Ids
    BY <1>1 DEF Holds, Held, TypeOK
  <2>2. QED
    BY <2>1 DEF TicketInv, Alive, Begun
<1>3. \A id \in Ids : StageMap[id] = StageIn(id, R, D, Held, Begun)
  BY DEF StageMap
<1>4. StageMap' = [id \in Ids |-> StageIn(id, R', D', Held', Begun')]
  BY DEF StageMap
<1>5. ASSUME R' = R, D' = D, Held' = Held, Begun' = Begun
      PROVE  StageMap' = StageMap
  BY <1>4, <1>5 DEF StageMap
<1>6. ASSUME NEW x \in Ids,
             \A id \in Ids \ {x} : /\ id \in R <=> id \in R'
                                   /\ id \in D <=> id \in D'
                                   /\ id \in Held <=> id \in Held'
                                   /\ id \in Begun <=> id \in Begun'
      PROVE  StageMap' = [StageMap EXCEPT ![x] = StageIn(x, R', D', Held', Begun')]
  <2>1. StageMap = [id \in Ids |-> StageIn(id, R, D, Held, Begun)]
    BY DEF StageMap
  <2> HIDE DEF R, D
  <2>2. [id \in Ids |-> StageIn(id, R', D', Held', Begun')]
          = [[id \in Ids |-> StageIn(id, R, D, Held, Begun)]
               EXCEPT ![x] = StageIn(x, R', D', Held', Begun')]
    BY <1>6, StageMove
  <2>3. QED
    BY <1>4, <2>1, <2>2
<1>7. Held = {} => \A id \in Ids : StageMap[id] # "taken"
  BY <1>3 DEF StageIn
<1> HIDE DEF R, D
<1>10. ASSUME NEW c \in Channels, Receive(c) PROVE BuildMoves
  <2> DEFINE x == next[c]
  <2>1. /\ x \in Ids /\ ~destroyed
        /\ m_events' = [m_events EXCEPT ![x] = @ \cup {c}]
        /\ UNCHANGED <<m_done, ev, delivered, destroyed>>
    BY <1>10 DEF Receive, add
  <2>2. D' = D /\ Held' = Held /\ Begun' = Begun \cup {x}
    <3>1. \A id \in Ids : m_events'[id] # {} <=> m_events[id] # {} \/ id = x
      BY <1>1, <2>1
    <3>2. QED
      BY <2>1, <3>1 DEF D, Held, Begun
  <2> HIDE DEF x
  <2>3. CASE m_events[x] # {} /\ m_result_lists' = m_result_lists
    <3>1. R' = R /\ Begun' = Begun
      BY <2>1, <2>2, <2>3 DEF R, Begun
    <3>2. QED
      BY <1>5, <2>1, <2>2, <3>1 DEF BuildMoves
  <2>4. CASE m_events[x] = {} /\ m_result_lists' = Append(m_result_lists, x)
    <3>1. R' = R \cup {x} /\ x \notin Begun
      BY <1>1, <2>1, <2>4, AppendFacts DEF R, Begun
    <3>2. StageMap[x] = "absent" /\ StageIn(x, R', D', Held', Begun') = "building"
      BY <1>2, <1>3, <2>1, <3>1 DEF StageIn
    <3>3. Moved("absent", "building", x)
      BY <1>6, <2>1, <2>2, <3>1, <3>2 DEF Moved
    <3>4. QED
      BY <2>1, <3>3 DEF BuildMoves
  <2>5. QED
    BY <1>10, <2>3, <2>4 DEF Receive, add, x
<1>11. CASE m_result_lists # <<>> /\ ResultStep
  <2> DEFINE x == Head(m_result_lists)
             t == Tail(m_result_lists)
  <2>1. /\ t \in Seq(Ids) /\ x \in Ids /\ x \in R /\ R = Holds(t) \cup {x}
        /\ x \notin Holds(t) /\ x \notin D /\ x \notin Held
    BY <1>1, <1>11, TailFacts DEF TicketInv, Apart, R, D
  <2> HIDE DEF x, t
  <2>2. /\ UNCHANGED <<ev, m_events, delivered, destroyed>> /\ ~destroyed
    BY <1>11 DEF ResultStep, OuterLoop, InnerLoop, PutBack, Break, Finish, Suppress,
                 EndInv
  <2>3. Held' = Held /\ Begun' = Begun
    BY <2>2 DEF Held, Begun
  <2>4. StageMap[x] = "building" /\ x \in Begun
    BY <1>2, <1>3, <2>1 DEF StageIn
  <2>5. CASE m_done' = m_done /\ m_result_lists' \in {m_result_lists, Append(t, x)}
    <3>1. R' = R
      <4>1. Holds(Append(t, x)) = R
        BY <2>1, AppendFacts
      <4>2. QED
        BY <2>5, <4>1 DEF R
    <3>2. D' = D
      BY <2>5 DEF D
    <3>3. QED
      BY <1>5, <2>2, <2>3, <2>5, <3>1, <3>2 DEF BuildMoves
  <2>6. CASE m_result_lists' = t /\ m_done' = m_done
    <3>1. R' = R \ {x} /\ D' = D
      BY <2>1, <2>6 DEF R, D
    <3>2. StageIn(x, R', D', Held', Begun') = "kept"
      BY <2>1, <2>3, <2>4, <3>1 DEF StageIn
    <3>3. Moved("building", "kept", x)
      BY <1>6, <2>1, <2>3, <2>4, <3>1, <3>2 DEF Moved
    <3>4. QED
      BY <2>1, <2>2, <2>6, <3>3 DEF BuildMoves
  <2>7. CASE m_result_lists' = t /\ m_done' = Append(m_done, x)
    <3>1. R' = R \ {x} /\ D' = D \cup {x}
      BY <1>1, <2>1, <2>7, AppendFacts DEF R, D
    <3>2. StageIn(x, R', D', Held', Begun') = "queued"
      BY <3>1 DEF StageIn
    <3>3. Moved("building", "queued", x)
      BY <1>6, <2>1, <2>3, <2>4, <3>1, <3>2 DEF Moved
    <3>4. QED
      BY <2>1, <2>2, <2>7, <3>3 DEF BuildMoves
  <2>8. QED
    BY <1>11, <2>5, <2>6, <2>7
       DEF ResultStep, OuterLoop, InnerLoop, PutBack, Break, Finish, Suppress,
           MoveToDone, x, t
<1>12. CASE getNext
  <2> DEFINE x == Head(m_done)
             t == Tail(m_done)
  <2>1. /\ x \in Ids /\ x \in D /\ D = Holds(t) \cup {x}
        /\ x \notin Holds(t) /\ x \notin R
    BY <1>1, <1>12, TailFacts DEF TicketInv, Apart, getNext, R, D
  <2>2. /\ ev' = x /\ m_done' = t /\ m_done # <<>> /\ ~m_stop /\ Held = {}
        /\ UNCHANGED <<m_result_lists, m_events, delivered, destroyed>>
    BY <1>12 DEF getNext, Held, TypeOK
  <2>3. ~destroyed
    BY <2>2 DEF EndInv
  <2> HIDE DEF t
  <2>4. Held' = {x} /\ D' = D \ {x} /\ R' = R /\ Begun' = Begun
    BY <1>1, <2>1, <2>2 DEF Held, D, R, Begun
  <2>5. StageMap[x] = "queued" /\ StageIn(x, R', D', Held', Begun') = "taken"
    BY <1>3, <2>1, <2>4 DEF StageIn
  <2>6. Moved("queued", "taken", x)
    BY <1>6, <2>1, <2>2, <2>4, <2>5 DEF Moved
  <2>7. QED
    BY <1>7, <2>1, <2>2, <2>3, <2>6 DEF BuildMoves, t
<1>13. CASE release
  <2>1. /\ ev \in Ids /\ ev # NoId /\ ev' = NoId
        /\ m_events' = [m_events EXCEPT ![ev] = {}]
        /\ delivered' = Append(delivered, ev)
        /\ UNCHANGED <<m_result_lists, m_done, destroyed>>
    BY <1>13 DEF release, TypeOK
  <2>2. ~destroyed
    BY <1>13 DEF EndInv, TicketInv, release
  <2>3. Held = {ev} /\ Held' = {} /\ ev \notin R \cup D
    BY <2>1 DEF Held, TicketInv, Apart, R, D
  <2>4. R' = R /\ D' = D /\ Begun' = Begun \ {ev}
    <3>1. \A id \in Ids : m_events'[id] # {} <=> m_events[id] # {} /\ id # ev
      BY <1>1, <2>1
    <3>2. QED
      BY <2>1, <3>1 DEF R, D, Begun
  <2>5. StageMap[ev] = "taken" /\ StageIn(ev, R', D', Held', Begun') = "absent"
    BY <1>3, <2>1, <2>3, <2>4 DEF StageIn
  <2>6. Moved("taken", "absent", ev)
    BY <1>6, <2>1, <2>3, <2>4, <2>5 DEF Moved
  <2>7. QED
    BY <2>1, <2>2, <2>6 DEF BuildMoves
<1>14. CASE Destroy
  <2>1. /\ ~destroyed /\ destroyed' = TRUE /\ m_stop /\ ev' = ev
        /\ m_result_lists' = <<>> /\ m_done' = <<>> /\ delivered' = delivered
        /\ m_events' = [id \in Ids |-> {}]
    BY <1>14 DEF Destroy
  <2>2. Held = {} /\ Held' = {}
    BY <2>1 DEF TicketInv, Held, TypeOK
  <2>3. R' = {} /\ D' = {} /\ Begun' = {}
    BY <2>1 DEF R, D, Holds, Begun
  <2>4. StageMap' = [id \in Ids |-> "absent"]
    BY <1>4, <2>2, <2>3 DEF StageIn
  <2>5. QED
    BY <1>7, <2>1, <2>2, <2>4 DEF BuildMoves
<1>15. CASE \/ \E c \in Channels : LoseFragment(c)
            \/ \E id \in Ids : TimePasses(id)
            \/ m_result_lists = <<>> /\ ResultStep
            \/ FreeEvent \/ Stop \/ UNCHANGED vars
  <2>1. UNCHANGED <<m_result_lists, m_done, ev, m_events, delivered, destroyed>>
    BY <1>15 DEF LoseFragment, TimePasses, ResultStep, OuterLoop, InnerLoop, PutBack,
                 Break, Finish, Suppress, FreeEvent, Stop, vars
  <2>2. R' = R /\ D' = D /\ Held' = Held /\ Begun' = Begun
    BY <2>1 DEF R, D, Held, Begun
  <2>3. QED
    BY <1>5, <2>1, <2>2 DEF BuildMoves
<1>16. QED
  BY <1>10, <1>11, <1>12, <1>13, <1>14, <1>15 DEF Next, L1Step

(* The threads of the builder do nothing to an event but what BuildLife    *)
(* allows: the L1 thread gets the finished events in the order in which    *)
(* the result thread queued them, one at a time; no event goes back; what  *)
(* is dropped or suppressed stays so, whatever fragments still come; and   *)
(* ~RoIBuilder pulls no event from under the L1 thread.                    *)
THEOREM BuilderImplementsBuildLife == Spec => ImplementsBuildLife
<1>1. Init => TypeOK /\ TicketInv /\ EndInv
  BY TypeInit, TicketInit DEF Init, EndInv
<1>2. TypeOK /\ TicketInv /\ EndInv /\ [Next]_vars
        => (TypeOK /\ TicketInv /\ EndInv)'
  BY TypeStep, TicketStep, EndStep
<1>3. TypeOK => Mapped
  BY MappingHolds
<1>4. Init => Build!Init
  <2> SUFFICES ASSUME Init PROVE Build!Init
    OBVIOUS
  <2>1. \A id \in Ids : StageOf(id) = "absent"
    BY DEF Init, StageOf, Contains, Ids, NoId
  <2>2. QED
    BY <2>1 DEF Init, Build!Init
<1>5. TypeOK /\ TicketInv /\ EndInv /\ Mapped /\ Mapped' /\ [Next]_vars
        => [Build!Next]_(Build!buildVars)
  BY BuildStep, MovesAllowed
<1>6. QED
  BY <1>1, <1>2, <1>3, <1>4, <1>5, PTL DEF Spec, ImplementsBuildLife, Build!Spec
=============================================================================
