--------------------------- MODULE LinkIDs_proofs ---------------------------
(***************************************************************************)
(* Proofs about LinkIDs, for any number of links, any width of the L1 IDs  *)
(* and of their blocks, any number of runs, triggers and outages: the      *)
(* types, that the links agree on the extended ID of a trigger, and that   *)
(* no event is taken for late that is not.                                 *)
(*                                                                         *)
(* LinksAgree is not inductive.  What is: a steady link has the L1 ID of   *)
(* the trigger that it saw last, and the wraps it has counted are the      *)
(* turns up to that trigger since its first fragment (Counted).            *)
(***************************************************************************)
EXTENDS LinkIDs, Lists, TLAPS

-----------------------------------------------------------------------------
(* Arithmetic.                                                             *)

(* Quotient and remainder.                                                 *)
LEMMA Division ==
  ASSUME NEW n \in Nat \ {0}, NEW a \in Nat
  PROVE  /\ a \div n \in Nat /\ a % n \in 0..(n - 1)
         /\ a = n * (a \div n) + (a % n)
BY SMTT(30)

(* The quotient and the remainder are what they have to be.                *)
LEMMA DivisionIs ==
  ASSUME NEW n \in Nat \ {0}, NEW q \in Nat, NEW r \in 0..(n - 1), NEW a \in Nat,
         a = n * q + r
  PROVE  a \div n = q /\ a % n = r
BY SMTT(30)

(* The quotients by n are in the order of the numbers.                     *)
LEMMA DivisionMonotone ==
  ASSUME NEW n \in Nat \ {0}, NEW a \in Nat, NEW b \in Nat
  PROVE  /\ a <= b => a \div n <= b \div n
         /\ a + n <= b => a \div n < b \div n
<1> DEFINE p == a \div n
           q == b \div n
<1>1. /\ p \in Nat /\ n * p <= a /\ a < n * p + n
      /\ q \in Nat /\ n * q <= b /\ b < n * q + n
  BY Division
<1> HIDE DEF p, q
<1>2. q < p => n * q + n <= n * p
  BY <1>1, SMTT(30)
<1>3. q <= p => n * q <= n * p
  BY <1>1, SMTT(30)
<1>4. a <= b => p <= q
  BY <1>1, <1>2
<1>5. a + n <= b => p < q
  BY <1>1, <1>3
<1>6. QED
  BY <1>4, <1>5 DEF p, q

(* A block and a turn have IDs, and a turn is no shorter than a block.     *)
LEMMA Sizes ==
  /\ BlockSize \in Nat \ {0} /\ Turn \in Nat \ {0} /\ BlockSize <= Turn
  /\ IsFiniteSet(Links)
BY LinkAssumption DEF Turn

(* The next number: a new turn begins when it is a multiple of n.          *)
LEMMA NextNumber ==
  ASSUME NEW n \in Nat \ {0}, NEW a \in Nat
  PROVE  (a + 1) \div n = (a \div n) + (IF (a + 1) % n = 0 THEN 1 ELSE 0)
<1> DEFINE p == a \div n
           r == a % n
<1>1. p \in Nat /\ r \in 0..(n - 1) /\ a = n * p + r
  BY Division
<1> HIDE DEF p, r
<1>2. CASE r < n - 1
  <2>1. a + 1 = n * p + (r + 1) /\ r + 1 \in 0..(n - 1) /\ r + 1 # 0
    BY <1>1, <1>2
  <2>2. (a + 1) \div n = p /\ (a + 1) % n = r + 1
    BY <1>1, <2>1, DivisionIs
  <2>3. QED
    BY <1>1, <2>1, <2>2 DEF p
<1>3. CASE r = n - 1
  <2> DEFINE q == p + 1
  <2>1. a + 1 = n * q + 0 /\ 0 \in 0..(n - 1) /\ q \in Nat
    <3>1. n * (p + 1) = n * p + n
      BY <1>1, SMTT(30)
    <3>2. QED
      BY <1>1, <1>3, <3>1
  <2> HIDE DEF q
  <2>2. (a + 1) \div n = q /\ (a + 1) % n = 0
    BY <2>1, DivisionIs
  <2>3. QED
    BY <2>2 DEF p, q
<1>4. QED
  BY <1>1, <1>2, <1>3

(* A link that has missed less than a turn without a block: the block of   *)
(* its ID is smaller than that of its last one just when the ID wraps.     *)
LEMMA WrapSeen ==
  ASSUME NEW p \in Nat, NEW n \in Nat, p < n, n - p <= Turn - BlockSize
  PROVE  /\ (n \div Turn) - (p \div Turn)
              = IF Block(n % Turn) < Block(p % Turn) THEN 1 ELSE 0
         /\ Block(n % Turn) < Block(p % Turn) => p % Turn # 0
<1> DEFINE T == Turn
           B == BlockSize
           a == p \div T
           b == n \div T
           r == p % T
           s == n % T
<1>1. /\ a \in Nat /\ r \in 0..(T - 1) /\ p = T * a + r
      /\ b \in Nat /\ s \in 0..(T - 1) /\ n = T * b + s
  BY Division, Sizes
<1>2. T \in Nat \ {0} /\ B \in Nat \ {0} /\ B <= T /\ n - p <= T - B
  BY Sizes
<1>3. /\ r <= s => r \div B <= s \div B
      /\ s + B <= r => s \div B < r \div B
  BY <1>1, <1>2, DivisionMonotone
<1>4. a <= b
  BY <1>2, DivisionMonotone
<1> HIDE DEF T, B, a, b, r, s
<1>5. b = a \/ b = a + 1
  <2>1. b >= a + 2 => T * b >= T * a + 2 * T
    BY <1>1, <1>2, SMTT(30)
  <2>2. QED
    BY <1>1, <1>2, <1>4, <2>1
<1>6. CASE b = a
  <2>1. T * b = T * a
    BY <1>6
  <2>2. r <= s
    BY <1>1, <1>2, <2>1
  <2>3. ~(s \div B < r \div B)
    BY <1>1, <1>2, <1>3, <2>2, Division
  <2>4. QED
    BY <1>1, <1>6, <2>3 DEF a, b, r, s, B, T, Block
<1>7. CASE b = a + 1
  <2>1. T * b = T * a + T
    BY <1>1, <1>2, <1>7, SMTT(30)
  <2>2. s + B <= r
    BY <1>1, <1>2, <2>1
  <2>3. s \div B < r \div B /\ r # 0
    BY <1>1, <1>2, <1>3, <2>2
  <2>4. QED
    BY <1>1, <1>7, <2>3 DEF a, b, r, s, B, T, Block
<1>8. QED
  BY <1>5, <1>6, <1>7

-----------------------------------------------------------------------------
(* What a link has counted.                                                *)

(* A link with last ID last and nw wraps counted, whose first fragment was *)
(* in turn f and which has missed the last miss triggers, after trigger    *)
(* tr of a run, in turn tu.                                                *)
Counted(last, nw, f, miss, tr, tu) ==
  IF tr = None
  THEN miss = 0 /\ nw + f = tu - (IF Block(last) > 0 THEN 1 ELSE 0)
  ELSE /\ miss <= tr /\ last = (tr - miss) % Turn
       /\ nw + f = (tu - (tr \div Turn)) + ((tr - miss) \div Turn)

(* What Trigger does to the turn.                                          *)
NextTurn(tr, tu) == IF tr + 1 > 0 /\ (tr + 1) % Turn = 0 THEN tu + 1 ELSE tu

(* What Receive does to the wraps.                                         *)
NextWrap(last, nw, id) ==
  IF Block(id) < Block(last) /\ last # 0 THEN nw + 1 ELSE nw

(* The turn goes up when the next trigger begins a new one, and only then. *)
LEMMA NextTurnIs ==
  ASSUME NEW tr \in Nat, NEW tu \in Nat
  PROVE  NextTurn(tr, tu) - ((tr + 1) \div Turn) = tu - (tr \div Turn)
<1>1. (tr + 1) \div Turn = (tr \div Turn) + (IF (tr + 1) % Turn = 0 THEN 1 ELSE 0)
  BY NextNumber, Sizes
<1>2. tr \div Turn \in Nat
  BY Division, Sizes
<1>3. NextTurn(tr, tu) = tu + (IF (tr + 1) % Turn = 0 THEN 1 ELSE 0)
  BY DEF NextTurn
<1> DEFINE q == tr \div Turn
           d == (tr + 1) % Turn = 0
<1>4. q \in Nat /\ (tr + 1) \div Turn = q + (IF d THEN 1 ELSE 0)
      /\ NextTurn(tr, tu) = tu + (IF d THEN 1 ELSE 0)
  BY <1>1, <1>2, <1>3
<1> HIDE DEF q, d
<1>5. NextTurn(tr, tu) - ((tr + 1) \div Turn) = tu - q
  BY <1>4
<1>6. QED
  BY <1>5 DEF q

(* The block of a number is the one that a division by the block's size    *)
(* gives; the first block is 0.                                            *)
LEMMA BlockOf ==
  /\ 0 % Turn = 0 /\ 0 \div Turn = 0 /\ Block(0) = 0
  /\ \A id \in Nat : Block(id) \in Nat
<1>1. 0 % Turn = 0 /\ 0 \div Turn = 0
  <2>1. 0 = Turn * 0 + 0 /\ 0 \in 0..(Turn - 1)
    BY Sizes
  <2>2. QED
    BY <2>1, Sizes, DivisionIs
<1>2. Block(0) = 0
  <2>1. 0 = BlockSize * 0 + 0 /\ 0 \in 0..(BlockSize - 1)
    BY Sizes
  <2>2. QED
    BY <2>1, Sizes, DivisionIs DEF Block
<1>3. QED
  BY <1>1, <1>2, Division, Sizes DEF Block

(* A link that sees the next trigger, after missing less than a turn       *)
(* without a block, counts the wrap if there was one, and so stays right.  *)
LEMMA CountedSeen ==
  ASSUME NEW last \in Nat, NEW nw \in Nat, NEW f \in Nat, NEW miss \in Nat,
         NEW tr \in Nat \cup {None}, NEW tu \in Nat,
         Counted(last, nw, f, miss, tr, tu), miss < Turn - BlockSize
  PROVE  Counted((tr + 1) % Turn, NextWrap(last, nw, (tr + 1) % Turn), f, 0,
                 tr + 1, NextTurn(tr, tu))
<1> DEFINE n == tr + 1
           tu2 == NextTurn(tr, tu)
           nw2 == NextWrap(last, nw, n % Turn)
<1>1. n \in Nat /\ n # None /\ n - 0 = n
  BY DEF None
<1>2. nw2 + f = tu2
  <2>1. CASE tr = None
    <3>1. n = 0 /\ n % Turn = 0 /\ Block(n % Turn) = 0
      BY <2>1, BlockOf DEF None
    <3>2. tu2 = tu
      BY <2>1, <3>1 DEF NextTurn
    <3>3. Block(last) \in Nat /\ (Block(last) > 0 => last # 0)
      BY BlockOf
    <3>4. nw2 = nw + (IF Block(last) > 0 THEN 1 ELSE 0)
      BY <3>1, <3>3 DEF NextWrap
    <3>5. nw + f = tu - (IF Block(last) > 0 THEN 1 ELSE 0)
      BY <2>1 DEF Counted
    <3>6. QED
      BY <3>2, <3>4, <3>5
  <2>2. CASE tr # None
    <3> DEFINE p == tr - miss
    <3>1. /\ tr \in Nat /\ p \in Nat /\ last = p % Turn
          /\ nw + f = (tu - (tr \div Turn)) + (p \div Turn)
      BY <2>2 DEF Counted
    <3>2. p < n /\ n - p <= Turn - BlockSize
      BY <3>1, Sizes
    <3>3. tu2 - (n \div Turn) = tu - (tr \div Turn)
      BY <3>1, NextTurnIs
    <3>4. tu2 \in Nat
      BY DEF NextTurn
    <3>5. /\ n \div Turn \in Nat /\ tr \div Turn \in Nat /\ p \div Turn \in Nat
      BY <1>1, <3>1, Division, Sizes
    <3> HIDE DEF p, n, tu2
    <3>6. /\ (n \div Turn) - (p \div Turn)
               = IF Block(n % Turn) < Block(p % Turn) THEN 1 ELSE 0
          /\ Block(n % Turn) < Block(p % Turn) => p % Turn # 0
      BY <1>1, <3>1, <3>2, WrapSeen
    <3>7. nw2 = nw + (IF Block(n % Turn) < Block(p % Turn) THEN 1 ELSE 0)
      BY <3>1, <3>6 DEF NextWrap
    <3>8. QED
      BY <3>1, <3>3, <3>4, <3>5, <3>6, <3>7
  <2>3. QED
    BY <2>1, <2>2
<1>3. n \div Turn \in Nat /\ tu2 \in Nat
  <2>1. tu2 \in Nat
    BY DEF NextTurn
  <2> HIDE DEF n, tu2
  <2>2. n \div Turn \in Nat
    BY <1>1, Division, Sizes
  <2>3. QED
    BY <2>1, <2>2
<1> HIDE DEF n, nw2, tu2
<1>4. nw2 + f = (tu2 - (n \div Turn)) + (n \div Turn)
  BY <1>2, <1>3
<1>5. Counted(n % Turn, nw2, f, 0, n, tu2)
  BY <1>1, <1>4 DEF Counted
<1>6. QED
  BY <1>5 DEF n, nw2, tu2

(* A link that misses a trigger is as right as before, about one more      *)
(* missed.                                                                 *)
LEMMA CountedMissed ==
  ASSUME NEW last, NEW nw, NEW f, NEW miss \in Nat,
         NEW tr \in Nat, NEW tu \in Nat,
         Counted(last, nw, f, miss, tr, tu)
  PROVE  Counted(last, nw, f, miss + 1, tr + 1, NextTurn(tr, tu))
<1>1. tr # None /\ tr + 1 # None /\ (tr + 1) - (miss + 1) = tr - miss
  BY DEF None
<1>2. NextTurn(tr, tu) - ((tr + 1) \div Turn) = tu - (tr \div Turn)
  BY NextTurnIs
<1>3. QED
  BY <1>1, <1>2 DEF Counted

(* The first fragment of a link starts its count.                          *)
LEMMA CountedFirst ==
  ASSUME NEW n \in Nat, NEW tu \in Nat
  PROVE  Counted(n % Turn, 0, tu, 0, n, tu)
<1>1. n # None /\ n - 0 = n /\ n \div Turn \in Nat
  BY Division, Sizes DEF None
<1> DEFINE q == n \div Turn
<1>2. q \in Nat
  BY <1>1
<1> HIDE DEF q
<1>3. 0 + tu = (tu - q) + q
  BY <1>2
<1>4. QED
  BY <1>1, <1>3 DEF Counted, q

(* A link that is right at the end of a run is right at the beginning of   *)
(* the next: the IDs starting at 0 again are one more turn, unless the run *)
(* has ended in the first block.                                           *)
LEMMA CountedReset ==
  ASSUME NEW last, NEW nw \in Nat, NEW f \in Nat, NEW tr \in Nat, NEW tu \in Nat,
         Counted(last, nw, f, 0, tr, tu)
  PROVE  Counted(last, nw, f, 0, None,
                 IF Block(tr % Turn) > 0 THEN tu + 1 ELSE tu)
<1>1. tr # None /\ tr - 0 = tr /\ tr \div Turn \in Nat
  <2>1. tr \div Turn \in Nat
    BY Division, Sizes
  <2>2. QED
    BY <2>1 DEF None
<1>2. last = tr % Turn /\ nw + f = (tu - (tr \div Turn)) + (tr \div Turn)
  BY <1>1 DEF Counted
<1> DEFINE q == tr \div Turn
<1>3. q \in Nat /\ nw + f = (tu - q) + q
  BY <1>1, <1>2
<1> HIDE DEF q
<1>4. nw + f = tu
  BY <1>3
<1>5. QED
  BY <1>2, <1>4 DEF Counted

-----------------------------------------------------------------------------
(* The list of the events that were not complete.                          *)

(* isLateFragment keeps a list of the IDs it has got.                      *)
LEMMA RememberType ==
  ASSUME NEW V, NEW list \in Seq(V), NEW id \in V
  PROVE  Remember(list, id) \in Seq(V)
<1> DEFINE old   == Cardinality({i \in DOMAIN list : id - list[i] > 2 * Turn})
           stale == IF old = 0 /\ Len(list) > MaxStale THEN 1 ELSE old
           kept  == SubSeq(list, stale + 1, Len(list))
<1>1. stale \in Nat
  <2> DEFINE D == {i \in DOMAIN list : id - list[i] > 2 * Turn}
  <2>1. IsFiniteSet(DOMAIN list)
    BY FS_Interval
  <2>2. D \in SUBSET DOMAIN list
    OBVIOUS
  <2> HIDE DEF D
  <2>3. IsFiniteSet(D)
    BY <2>1, <2>2, FS_Subset
  <2>4. Cardinality(D) \in Nat
    BY <2>3, FS_CardinalityType
  <2>5. old = Cardinality(D)
    BY DEF D
  <2> HIDE DEF old
  <2>6. QED
    BY <2>4, <2>5
<1> HIDE DEF stale
<1>2. kept \in Seq(V)
  <2>1. stale + 1 \in Nat \ {0} /\ Len(list) \in Nat
    BY <1>1
  <2>2. \A i \in (stale + 1)..Len(list) : i \in 1..Len(list)
    BY <2>1
  <2>3. QED
    BY <2>1, <2>2, SubSeqProperties
<1> HIDE DEF kept
<1>3. Append(kept, id) \in Seq(V)
  BY <1>2
<1>4. Remember(list, id) = IF Contains(list, id) THEN kept ELSE Append(kept, id)
  BY DEF Remember, kept, stale
<1>5. QED
  BY <1>2, <1>3, <1>4

(* What the builder remembers it has remembered before, or is one of ids.  *)
LEMMA RememberAllType ==
  ASSUME NEW list \in Seq(Nat), NEW ids, IsFiniteSet(ids), ids \subseteq Nat
  PROVE  RememberAll(list, ids) \in Seq(ToSet(list) \cup ids)
<1> DEFINE V == ToSet(list) \cup ids
           W == Seq(V)
           pick == [s \in SUBSET ids |-> Max(s)]
           step == [s \in SUBSET ids |-> [v \in W |->
                      IF s = {} THEN list ELSE Remember(v, Max(s))]]
           c == CHOOSE iter : iter = [s \in SUBSET ids |->
                  IF s = {} THEN list ELSE Remember(iter[s \ {Max(s)}], Max(s))]
<1>1. list \in W
  <2>1. \A i \in 1..Len(list) : list[i] \in V
    BY DEF ToSet
  <2> HIDE DEF V
  <2>2. QED
    BY <2>1
<1>2. \A s \in SUBSET ids : s # {} => Max(s) \in s
  <2>1. ASSUME NEW s \in SUBSET ids, s # {} PROVE Max(s) \in s
    <3>1. IsFiniteSet(s)
      BY FS_Subset
    <3>2. s \subseteq Int
      OBVIOUS
    <3>3. QED
      BY <2>1, <3>1, <3>2, LargestElement
  <2>2. QED
    BY <2>1
<1>3. \A s \in SUBSET ids, v \in W : s # {} => Remember(v, Max(s)) \in W
  <2>1. ASSUME NEW s \in SUBSET ids, NEW v \in W, s # {}
        PROVE  Remember(v, Max(s)) \in W
    <3>1. Max(s) \in V
      BY <1>2, <2>1
    <3> HIDE DEF V
    <3>2. QED
      BY <3>1, RememberType
  <2>2. QED
    BY <2>1
<1> DEFINE Step(s, v) == IF s = {} THEN list ELSE Remember(v, Max(s))
<1> HIDE DEF W
<1>4. \A s \in SUBSET ids, v \in W : step[s][v] = Step(s, v)
  OBVIOUS
<1> HIDE DEF step
<1>5. PICK f \in [SUBSET ids -> W] : FoldsBy(f, ids, list, pick, step)
  <2>1. \A s \in SUBSET ids : s # {} => pick[s] \in s
    BY <1>2
  <2>2. \A s \in SUBSET ids, v \in W : step[s][v] \in W
    BY <1>1, <1>3, <1>4
  <2> HIDE DEF pick
  <2>3. QED
    BY <1>1, <2>1, <2>2, FoldExists
<1>6. f = [s \in SUBSET ids |->
             IF s = {} THEN list ELSE Remember(f[s \ {Max(s)}], Max(s))]
  <2> DEFINE Value(s) == IF s = {} THEN list ELSE Remember(f[s \ {Max(s)}], Max(s))
             Folded(s) == IF s = {} THEN list ELSE step[s][f[s \ {pick[s]}]]
  <2>1. ASSUME NEW s \in SUBSET ids PROVE Folded(s) = Value(s)
    <3>1. CASE s = {}
      BY <3>1
    <3>2. CASE s # {}
      <4>1. s \ {pick[s]} \in SUBSET ids /\ pick[s] = Max(s)
        OBVIOUS
      <4>2. f[s \ {Max(s)}] \in W
        BY <4>1
      <4>3. step[s][f[s \ {Max(s)}]] = Remember(f[s \ {Max(s)}], Max(s))
        BY <1>4, <3>2, <4>2
      <4>4. QED
        BY <3>2, <4>1, <4>3
    <3>3. QED
      BY <3>1, <3>2
  <2>2. f = [s \in SUBSET ids |-> Folded(s)]
    BY <1>5, Zenon DEF FoldsBy
  <2> HIDE DEF Folded, Value
  <2>3. f = [s \in SUBSET ids |-> Value(s)]
    BY <2>1, <2>2
  <2>4. QED
    BY <2>3, Zenon DEF Value
<1>7. c = [s \in SUBSET ids |->
             IF s = {} THEN list ELSE Remember(c[s \ {Max(s)}], Max(s))]
  BY <1>6, Zenon
<1>8. RememberAll(list, ids) = c[ids]
  BY Zenon DEF RememberAll, MapThenFoldSet
<1> HIDE DEF c
<1>9. c[ids] \in W
  <2>1. c[{}] \in W
    BY <1>1, <1>7
  <2>2. ASSUME NEW s \in SUBSET ids, s # {}
        PROVE  \E x \in s : c[s \ {x}] \in W => c[s] \in W
    <3>1. Max(s) \in s
      BY <1>2, <2>2
    <3>2. c[s] = Remember(c[s \ {Max(s)}], Max(s))
      BY <1>7, <2>2
    <3>3. c[s \ {Max(s)}] \in W => c[s] \in W
      BY <1>3, <2>2, <3>2
    <3>4. QED
      BY <3>1, <3>3
  <2>3. \A s \in SUBSET ids : s # {} => \E x \in s : c[s \ {x}] \in W => c[s] \in W
    BY <2>2
  <2>4. QED
    BY <2>1, <2>3, FoldRange
<1>10. QED
  BY <1>8, <1>9 DEF W

-----------------------------------------------------------------------------
(* The types.                                                              *)

(* The IDs that a trigger gives.                                           *)
LEMMA ReceiveTypes ==
  ASSUME TypeOK, NEW id \in 0..(Turn - 1), Receive(up, id)
  PROVE  /\ lastId' \in [Links -> 0..(Turn - 1)] /\ Nwrap' \in [Links -> Nat]
         /\ extended' \in [Links -> Nat \cup {None}]
         /\ \A c \in up : extended'[c] \in Nat
<1>1. lastId' \in [Links -> 0..(Turn - 1)] /\ Nwrap' \in [Links -> Nat]
  BY DEF TypeOK, Receive
<1>2. \A c \in Links : id + Turn * Nwrap'[c] \in Nat
  <2>1. ASSUME NEW c \in Links PROVE id + Turn * Nwrap'[c] \in Nat
    <3>1. \A n \in Nat : id + Turn * n \in Nat
      BY Sizes, SMTT(30)
    <3>2. Nwrap'[c] \in Nat
      BY <1>1
    <3>3. QED
      BY <3>1, <3>2, Zenon
  <2>2. QED
    BY <2>1
<1>3. extended' = [c \in Links |-> IF c \in up THEN id + Turn * Nwrap'[c] ELSE None]
  BY DEF Receive
<1>4. up \subseteq Links
  BY DEF TypeOK
<1>5. QED
  BY <1>1, <1>2, <1>3, <1>4

(* The IDs of the events of a trigger that are not complete.               *)
Split(ids) == {id \in ids \ m_events : \E c \in Links : extended'[c] # id}

(* What check_results remembers of a trigger are the IDs that the links    *)
(* gave it.                                                                *)
LEMMA BuildTypes ==
  ASSUME TypeOK, Build({extended'[c] : c \in up}), \A c \in up : extended'[c] \in Nat
  PROVE  /\ m_timedoutL1ID' \in
              Seq(ToSet(m_timedoutL1ID) \cup Split({extended'[c] : c \in up}))
         /\ Split({extended'[c] : c \in up}) \subseteq Nat
<1> DEFINE ids == {extended'[c] : c \in up}
           split == Split(ids)
<1>1. IsFiniteSet(ids)
  <2>1. IsFiniteSet(up)
    BY Sizes, FS_Subset DEF TypeOK
  <2> DEFINE f == [c \in up |-> extended'[c]]
  <2>2. f \in Surjection(up, ids)
    BY DEF Surjection
  <2> HIDE DEF f, ids
  <2>3. QED
    BY <2>1, <2>2, FS_Surjection
<1>2. split \subseteq ids /\ ids \subseteq Nat
  BY DEF Split
<1>3. m_timedoutL1ID' = RememberAll(m_timedoutL1ID, split)
  BY DEF Build, Split
<1> HIDE DEF ids, split
<1>4. IsFiniteSet(split) /\ split \subseteq Nat
  <2>1. IsFiniteSet(split)
    BY <1>1, <1>2, FS_Subset
  <2>2. QED
    BY <1>2, <2>1
<1>5. RememberAll(m_timedoutL1ID, split) \in Seq(ToSet(m_timedoutL1ID) \cup split)
  <2>1. m_timedoutL1ID \in Seq(Nat)
    BY DEF TypeOK
  <2>2. QED
    BY <1>4, <2>1, RememberAllType
<1>6. QED
  BY <1>3, <1>4, <1>5 DEF ids, split

(* A list over a set of naturals is a list of naturals.                    *)
LEMMA SeqSubset ==
  ASSUME NEW V, V \subseteq Nat, NEW q \in Seq(V)
  PROVE  q \in Seq(Nat)
<1>1. q \in [1..Len(q) -> V] /\ Len(q) \in Nat
  OBVIOUS
<1>2. q \in [1..Len(q) -> Nat]
  BY <1>1
<1>3. QED
  BY <1>1, <1>2

(* TypeOK holds in the beginning.                                          *)
LEMMA TypeInit == Init => TypeOK
<1> SUFFICES ASSUME Init PROVE TypeOK
  OBVIOUS
<1>1. 0 \in 0..(Turn - 1) /\ MaxTriggers \in Nat /\ MaxRuns \in Nat /\ MaxOutages \in Nat
  BY Sizes, LinkAssumption
<1>2. None \in None..(MaxTriggers - 1)
  BY <1>1 DEF None
<1>3. run \in 1..MaxRuns
  BY LinkAssumption DEF Init
<1>4. /\ lastId \in [Links -> 0..(Turn - 1)] /\ Nwrap \in [Links -> Nat]
      /\ missed \in [Links -> Nat] /\ steady \in [Links -> BOOLEAN]
      /\ extended \in [Links -> Nat \cup {None}]
      /\ first \in [Links -> Nat \cup {None}]
  BY <1>1 DEF Init
<1>5. /\ m_timedoutL1ID \in Seq(Nat) /\ turn \in Nat /\ up \subseteq Links
      /\ outages \in 0..MaxOutages /\ m_events \subseteq Nat /\ suppressed \subseteq Nat
  BY <1>1 DEF Init
<1>6. trigger \in None..(MaxTriggers - 1) /\ short \in BOOLEAN
  BY <1>2 DEF Init
<1>7. QED
  BY <1>3, <1>4, <1>5, <1>6 DEF TypeOK

(* Every step preserves TypeOK.                                            *)
LEMMA TypeStep ==
  ASSUME TypeOK, [Next]_vars
  PROVE  TypeOK'
<1>1. CASE Trigger
  <2> DEFINE n == trigger + 1
  <2>1. n \in Nat /\ n % Turn \in 0..(Turn - 1)
    <3>1. n \in Nat
      BY DEF TypeOK, None
    <3> HIDE DEF n
    <3>2. QED
      BY <3>1, Division, Sizes
  <2>2. /\ Receive(up, n % Turn) /\ Build({extended'[c] : c \in up})
        /\ UNCHANGED <<run, short, up, outages>>
        /\ trigger' = n /\ n < MaxTriggers
        /\ turn' \in {turn, turn + 1}
        /\ first' = [c \in Links |-> IF c \in up /\ first[c] = None THEN turn'
                                                                    ELSE first[c]]
        /\ Missing(up)
    BY <1>1 DEF Trigger
  <2>3. turn' \in Nat
    BY <2>2 DEF TypeOK
  <2>4. first' \in [Links -> Nat \cup {None}]
    BY <2>2, <2>3 DEF TypeOK
  <2>5. missed' \in [Links -> Nat] /\ steady' \in [Links -> BOOLEAN]
    <3>1. missed' = [c \in Links |-> IF c \in up THEN 0 ELSE missed[c] + 1]
      BY <2>2 DEF Missing
    <3>2. missed' \in [Links -> Nat]
      BY <3>1 DEF TypeOK
    <3>3. steady' \in [Links -> BOOLEAN]
      BY <2>2, Zenon DEF Missing, TypeOK
    <3>4. QED
      BY <3>2, <3>3
  <2>6. /\ lastId' \in [Links -> 0..(Turn - 1)] /\ Nwrap' \in [Links -> Nat]
        /\ extended' \in [Links -> Nat \cup {None}]
        /\ \A c \in up : extended'[c] \in Nat
    BY <2>1, <2>2, ReceiveTypes
  <2> DEFINE split == Split({extended'[c] : c \in up})
  <2>7. m_timedoutL1ID' \in Seq(ToSet(m_timedoutL1ID) \cup split) /\ split \subseteq Nat
    BY <2>2, <2>6, BuildTypes
  <2>8. m_events' \subseteq Nat /\ suppressed' \subseteq Nat
    <3>1. m_events' \subseteq m_events \cup split
          /\ suppressed' \subseteq suppressed \cup split
      BY <2>2 DEF Build, Split
    <3> HIDE DEF split
    <3>2. QED
      BY <2>7, <3>1 DEF TypeOK
  <2> HIDE DEF split
  <2>9. m_timedoutL1ID' \in Seq(Nat)
    <3>1. ToSet(m_timedoutL1ID) \subseteq Nat
      BY DEF TypeOK, ToSet
    <3>2. ToSet(m_timedoutL1ID) \cup split \subseteq Nat
      BY <2>7, <3>1
    <3>3. QED
      BY <2>7, <3>2, SeqSubset
  <2>10. trigger' \in None..(MaxTriggers - 1)
    BY <2>1, <2>2, LinkAssumption DEF None
  <2>11. QED
    BY <2>2, <2>3, <2>4, <2>5, <2>6, <2>8, <2>9, <2>10 DEF TypeOK
<1>2. CASE reset
  <2>1. extended' = [c \in Links |-> None] /\ trigger' = None
    BY <1>2 DEF reset
  <2>2. run' \in 1..MaxRuns /\ turn' \in Nat /\ short' \in BOOLEAN
    <3>1. run < MaxRuns /\ run' = run + 1 /\ run \in 1..MaxRuns /\ MaxRuns \in Nat
      BY <1>2, LinkAssumption DEF reset, TypeOK
    <3>2. \/ turn' = turn + 1 /\ short' = short
          \/ turn' = turn /\ short' = TRUE
      BY <1>2 DEF reset
    <3>3. turn' \in Nat
      BY <3>2 DEF TypeOK
    <3>4. short' \in BOOLEAN
      BY <3>2, Zenon DEF TypeOK
    <3>5. QED
      BY <3>1, <3>3, <3>4
  <2>3. steady' \in [Links -> BOOLEAN]
    BY <1>2, Zenon DEF reset, TypeOK
  <2>4. None \in None..(MaxTriggers - 1)
    BY LinkAssumption DEF None
  <2>5. UNCHANGED <<up, outages, builderVars, first, missed>>
    BY <1>2 DEF reset
  <2>6. /\ up' \subseteq Links /\ outages' \in 0..MaxOutages
        /\ first' \in [Links -> Nat \cup {None}] /\ missed' \in [Links -> Nat]
    BY <2>5 DEF TypeOK
  <2>7. /\ lastId' \in [Links -> 0..(Turn - 1)] /\ Nwrap' \in [Links -> Nat]
        /\ m_timedoutL1ID' \in Seq(Nat)
        /\ m_events' \subseteq Nat /\ suppressed' \subseteq Nat
    BY <2>5, Zenon DEF TypeOK, builderVars
  <2>8. extended' \in [Links -> Nat \cup {None}] /\ trigger' \in None..(MaxTriggers - 1)
    BY <2>1, <2>4
  <2>9. QED
    BY <2>2, <2>3, <2>6, <2>7, <2>8, Zenon DEF TypeOK
<1>3. ASSUME NEW c \in Links, LinkDown(c) \/ LinkUp(c) PROVE TypeOK'
  <2>1. UNCHANGED <<detectorVars, builderVars, linkVars>>
    BY <1>3 DEF LinkDown, LinkUp
  <2>2. up' \subseteq Links
    BY <1>3 DEF LinkDown, LinkUp, TypeOK
  <2>3. outages' \in 0..MaxOutages
    BY <1>3, LinkAssumption DEF LinkDown, LinkUp, TypeOK
  <2>4. QED
    BY <2>1, <2>2, <2>3 DEF TypeOK, detectorVars, builderVars, linkVars
<1>4. CASE UNCHANGED vars
  BY <1>4 DEF vars, TypeOK, detectorVars, builderVars, linkVars
<1>5. QED
  BY <1>1, <1>2, <1>3, <1>4 DEF Next

(* The extended IDs are naturals of any width, and the list of the events  *)
(* that were not complete has nothing else, whatever the links do.         *)
THEOREM TypeCorrect == Spec => []TypeOK
<1>1. QED
  BY TypeInit, TypeStep, PTL DEF Spec

-----------------------------------------------------------------------------
(* What the links have counted: the inductive invariant of LinksAgree.     *)

LinkOK(c) ==
  /\ first[c] = None => lastId[c] = 0 /\ Nwrap[c] = 0
  /\ extended[c] # None =>
       /\ trigger # None /\ first[c] # None /\ missed[c] = 0
       /\ extended[c] = (trigger % Turn) + Turn * Nwrap[c]
  /\ steady[c] /\ first[c] # None =>
       Counted(lastId[c], Nwrap[c], first[c], missed[c], trigger, turn)
  /\ run = 1 /\ trigger = None => first[c] = None

LinkInv == \A c \in Links : LinkOK(c)

(* LinkInv holds in the beginning.                                         *)
LEMMA LinkInit == Init => LinkInv
BY DEF Init, LinkInv, LinkOK

(* What Trigger does to one link: one that sends, and one that does not.   *)
LEMMA TriggerSeen ==
  ASSUME TypeOK, Trigger, NEW c \in up
  PROVE  LET id == (trigger + 1) % Turn IN
         /\ c \in Links /\ trigger' = trigger + 1 /\ missed'[c] = 0
         /\ turn' = NextTurn(trigger, turn)
         /\ lastId'[c] = id /\ Nwrap'[c] = NextWrap(lastId[c], Nwrap[c], id)
         /\ extended'[c] = id + Turn * Nwrap'[c]
         /\ first'[c] = IF first[c] = None THEN turn' ELSE first[c]
         /\ steady'[c] => /\ steady[c]
                          /\ first[c] # None => missed[c] < Turn - BlockSize
<1> DEFINE id == (trigger + 1) % Turn
<1>1. c \in Links
  BY DEF TypeOK
<1>2. /\ Receive(up, id) /\ Missing(up) /\ trigger' = trigger + 1
      /\ turn' = NextTurn(trigger, turn)
      /\ first' = [d \in Links |-> IF d \in up /\ first[d] = None THEN turn'
                                                                  ELSE first[d]]
  BY DEF Trigger, NextTurn
<1> HIDE DEF id
<1>3. lastId'[c] = id /\ extended'[c] = id + Turn * Nwrap'[c]
  <2>1. /\ lastId' = [d \in Links |-> IF d \in up THEN id ELSE lastId[d]]
        /\ extended' = [d \in Links |-> IF d \in up THEN id + Turn * Nwrap'[d] ELSE None]
    BY <1>2 DEF Receive
  <2>2. QED
    BY <1>1, <2>1, Zenon
<1>4. Nwrap'[c] = NextWrap(lastId[c], Nwrap[c], id)
  <2>1. Nwrap' = [d \in Links |-> IF d \in up /\ Wrapped(d, id) THEN Nwrap[d] + 1
                                                                ELSE Nwrap[d]]
    BY <1>2 DEF Receive
  <2>2. Nwrap'[c] = IF Wrapped(c, id) THEN Nwrap[c] + 1 ELSE Nwrap[c]
    BY <1>1, <2>1, Zenon
  <2>3. QED
    BY <2>2, Zenon DEF NextWrap, Wrapped
<1>5. first'[c] = IF first[c] = None THEN turn' ELSE first[c]
  BY <1>1, <1>2, Zenon
<1>6. missed'[c] = 0
  BY <1>1, <1>2, Zenon DEF Missing
<1>7. steady'[c] => /\ steady[c]
                    /\ first[c] # None => missed[c] < Turn - BlockSize
  BY <1>1, <1>2, Zenon DEF Missing
<1>8. QED
  BY <1>1, <1>2, <1>3, <1>4, <1>5, <1>6, <1>7, Zenon DEF id

(* What a trigger does to a link that is down.                             *)
LEMMA TriggerMissed ==
  ASSUME TypeOK, Trigger, NEW c \in Links \ up
  PROVE  /\ trigger' = trigger + 1 /\ missed'[c] = missed[c] + 1
         /\ turn' = NextTurn(trigger, turn)
         /\ lastId'[c] = lastId[c] /\ Nwrap'[c] = Nwrap[c]
         /\ extended'[c] = None /\ first'[c] = first[c]
         /\ steady'[c] => /\ steady[c]
                          /\ first[c] # None => run = 1 \/ trigger # None
<1>1. c \in Links /\ c \notin up
  OBVIOUS
<1> DEFINE id == (trigger + 1) % Turn
<1>2. /\ Receive(up, id) /\ Missing(up) /\ trigger' = trigger + 1
      /\ turn' = NextTurn(trigger, turn)
      /\ first' = [d \in Links |-> IF d \in up /\ first[d] = None THEN turn'
                                                                  ELSE first[d]]
  BY DEF Trigger, NextTurn
<1> HIDE DEF id
<1>3. lastId'[c] = lastId[c] /\ extended'[c] = None
  <2>1. /\ lastId' = [d \in Links |-> IF d \in up THEN id ELSE lastId[d]]
        /\ extended' = [d \in Links |-> IF d \in up THEN id + Turn * Nwrap'[d] ELSE None]
    BY <1>2 DEF Receive
  <2>2. QED
    BY <1>1, <2>1, Zenon
<1>4. Nwrap'[c] = Nwrap[c]
  <2>1. Nwrap' = [d \in Links |-> IF d \in up /\ Wrapped(d, id) THEN Nwrap[d] + 1
                                                                ELSE Nwrap[d]]
    BY <1>2 DEF Receive
  <2>2. QED
    BY <1>1, <2>1, Zenon
<1>5. first'[c] = first[c]
  BY <1>1, <1>2, Zenon
<1>6. missed'[c] = missed[c] + 1
  BY <1>1, <1>2, Zenon DEF Missing
<1>7. steady'[c] => /\ steady[c]
                    /\ first[c] # None => run = 1 \/ trigger # None
  BY <1>1, <1>2, Zenon DEF Missing
<1>8. QED
  BY <1>2, <1>3, <1>4, <1>5, <1>6, <1>7

(* Every step preserves LinkInv.                                           *)
LEMMA LinkStep ==
  ASSUME TypeOK, LinkInv, [Next]_vars
  PROVE  LinkInv'
<1> SUFFICES ASSUME NEW c \in Links PROVE LinkOK(c)'
  BY DEF LinkInv
<1>1. LinkOK(c)
  BY DEF LinkInv
<1>2. /\ lastId[c] \in Nat /\ Nwrap[c] \in Nat /\ missed[c] \in Nat
      /\ first[c] \in Nat \cup {None} /\ turn \in Nat
      /\ trigger \in Nat \cup {None} /\ trigger + 1 \in Nat
  BY DEF TypeOK, None
<1>3. CASE Trigger
  <2> DEFINE n == trigger + 1
             id == n % Turn
             last == lastId[c]
             nw == Nwrap[c]
             f == first[c]
             m == missed[c]
  <2>1. n \in Nat /\ n # None /\ turn' = NextTurn(trigger, turn) /\ turn' \in Nat
        /\ trigger' = n
    <3>1. turn' = NextTurn(trigger, turn) /\ trigger' = n
      BY <1>3 DEF Trigger, NextTurn
    <3>2. NextTurn(trigger, turn) \in Nat
      BY <1>2 DEF NextTurn
    <3>3. QED
      BY <1>2, <3>1, <3>2 DEF None
  <2>2. CASE c \in up
    <3>1. /\ missed'[c] = 0 /\ lastId'[c] = id /\ Nwrap'[c] = NextWrap(last, nw, id)
          /\ extended'[c] = id + Turn * Nwrap'[c]
          /\ first'[c] = IF f = None THEN turn' ELSE f
          /\ steady'[c] => /\ steady[c]
                           /\ f # None => m < Turn - BlockSize
      BY <1>3, <2>2, TriggerSeen
    <3>2. first'[c] # None
      BY <2>1, <3>1 DEF None
    <3>3. CASE f = None
      <4>1. NextWrap(last, nw, id) = 0
        BY <1>1, <3>3 DEF LinkOK, NextWrap
      <4>2. Counted(id, 0, turn', 0, n, turn')
        BY <2>1, CountedFirst
      <4>3. Counted(lastId'[c], Nwrap'[c], first'[c], missed'[c], trigger', turn')
        BY <2>1, <3>1, <3>3, <4>1, <4>2, Zenon
      <4>4. QED
        BY <2>1, <3>1, <3>2, <4>3, Zenon DEF LinkOK
    <3>4. CASE f # None
      <4>1. ASSUME steady'[c]
            PROVE  Counted(lastId'[c], Nwrap'[c], first'[c], missed'[c], trigger', turn')
        <5>1. Counted(last, nw, f, m, trigger, turn)
          BY <1>1, <3>1, <3>4, <4>1 DEF LinkOK
        <5>2. f \in Nat /\ m < Turn - BlockSize
          BY <1>2, <3>1, <3>4, <4>1
        <5>3. Counted(id, NextWrap(last, nw, id), f, 0, n, NextTurn(trigger, turn))
          BY <1>2, <5>1, <5>2, CountedSeen
        <5>4. QED
          BY <2>1, <3>1, <3>4, <5>3, Zenon
      <4>2. QED
        BY <2>1, <3>1, <3>2, <4>1, Zenon DEF LinkOK
    <3>5. QED
      BY <3>3, <3>4
  <2>3. CASE c \notin up
    <3>1. /\ missed'[c] = m + 1 /\ lastId'[c] = last /\ Nwrap'[c] = nw
          /\ extended'[c] = None /\ first'[c] = f
          /\ steady'[c] => /\ steady[c]
                           /\ f # None => run = 1 \/ trigger # None
      BY <1>3, <2>3, TriggerMissed
    <3>2. ASSUME steady'[c], f # None
          PROVE  Counted(lastId'[c], Nwrap'[c], first'[c], missed'[c], trigger', turn')
      <4>1. trigger # None /\ Counted(last, nw, f, m, trigger, turn)
        BY <1>1, <3>1, <3>2 DEF LinkOK
      <4>2. trigger \in Nat
        BY <1>2, <4>1
      <4>3. Counted(last, nw, f, m + 1, n, NextTurn(trigger, turn))
        BY <1>2, <4>1, <4>2, CountedMissed
      <4>4. QED
        BY <2>1, <3>1, <4>3, Zenon
    <3>3. f = None => last = 0 /\ nw = 0
      BY <1>1 DEF LinkOK
    <3>4. QED
      BY <2>1, <3>1, <3>2, <3>3, Zenon DEF LinkOK
  <2>4. QED
    BY <2>2, <2>3
<1>4. CASE reset
  <2>1. /\ UNCHANGED <<lastId, Nwrap, first, missed>> /\ extended'[c] = None
        /\ trigger # None /\ trigger' = None /\ run' = run + 1
        /\ turn' = IF Block(trigger % Turn) > 0 THEN turn + 1 ELSE turn
        /\ steady'[c] => steady[c] /\ (first[c] # None => missed[c] = 0)
    BY <1>4 DEF reset, builderVars
  <2>2. ASSUME steady'[c], first[c] # None
        PROVE  Counted(lastId'[c], Nwrap'[c], first'[c], missed'[c], trigger', turn')
    <3>1. Counted(lastId[c], Nwrap[c], first[c], 0, trigger, turn) /\ missed[c] = 0
      BY <1>1, <2>1, <2>2 DEF LinkOK
    <3>2. first[c] \in Nat /\ trigger \in Nat
      BY <1>2, <2>1, <2>2
    <3>3. Counted(lastId[c], Nwrap[c], first[c], 0, None,
                  IF Block(trigger % Turn) > 0 THEN turn + 1 ELSE turn)
      BY <1>2, <3>1, <3>2, CountedReset
    <3>4. QED
      BY <2>1, <3>1, <3>3, Zenon
  <2>3. run' # 1
    BY <2>1 DEF TypeOK
  <2>4. first[c] = None => lastId[c] = 0 /\ Nwrap[c] = 0
    BY <1>1 DEF LinkOK
  <2>5. QED
    BY <2>1, <2>2, <2>3, <2>4, Zenon DEF LinkOK
<1>5. CASE UNCHANGED <<detectorVars, builderVars, linkVars>>
  BY <1>1, <1>5, Zenon DEF LinkOK, detectorVars, builderVars, linkVars
<1>6. QED
  BY <1>3, <1>4, <1>5 DEF Next, LinkDown, LinkUp, vars

(* A steady link extends the ID of a trigger by the turns since it came    *)
(* up.                                                                     *)
LEMMA ExtendedIs ==
  ASSUME TypeOK, LinkInv, NEW c \in Links, steady[c], extended[c] # None
  PROVE  /\ trigger \in Nat /\ first[c] \in Nat /\ turn - first[c] \in Nat
         /\ extended[c] = (trigger % Turn) + Turn * (turn - first[c])
<1>1. LinkOK(c)
  BY DEF LinkInv
<1>2. /\ trigger # None /\ first[c] # None /\ missed[c] = 0
      /\ extended[c] = (trigger % Turn) + Turn * Nwrap[c]
  BY <1>1 DEF LinkOK
<1>3. /\ Nwrap[c] \in Nat /\ turn \in Nat /\ trigger \in Nat /\ first[c] \in Nat
  BY <1>2 DEF TypeOK, None
<1>4. Counted(lastId[c], Nwrap[c], first[c], 0, trigger, turn)
  BY <1>1, <1>2 DEF LinkOK
<1> DEFINE q == trigger \div Turn
<1>5. q \in Nat /\ trigger - 0 = trigger
  <2>1. q \in Nat
    BY <1>3, Division, Sizes
  <2>2. trigger - 0 = trigger
    BY <1>3
  <2>3. QED
    BY <2>1, <2>2
<1>6. Nwrap[c] + first[c] = (turn - q) + q
  BY <1>2, <1>4, <1>5 DEF Counted
<1> HIDE DEF q
<1>7. Nwrap[c] = turn - first[c]
  BY <1>3, <1>5, <1>6
<1>8. QED
  BY <1>2, <1>3, <1>7

(* LinksAgree follows.                                                     *)
LEMMA Agreed ==
  ASSUME TypeOK, LinkInv
  PROVE  LinksAgree
<1> SUFFICES ASSUME NEW c \in Links, NEW d \in Links, steady[c], steady[d],
                    first[c] = first[d], extended[c] # None, extended[d] # None
             PROVE  extended[c] = extended[d]
  BY DEF LinksAgree
<1>1. /\ extended[c] = (trigger % Turn) + Turn * (turn - first[c])
      /\ extended[d] = (trigger % Turn) + Turn * (turn - first[d])
  BY ExtendedIs
<1>2. QED
  BY <1>1, Zenon

(* The fragments of one trigger make one event: links that came up in the  *)
(* same turn extend its ID alike over any number of turns and runs, though *)
(* each counts the wraps that it can see, as long as none misses all but a *)
(* block of a turn, or the end or the begin of a run.                      *)
THEOREM SameExtendedID == Spec => []LinksAgree
<1>1. TypeOK /\ LinkInv => LinksAgree
  BY Agreed
<1>2. Init => LinkInv
  BY LinkInit
<1>3. TypeOK /\ LinkInv /\ [Next]_vars => LinkInv'
  BY LinkStep
<1>4. QED
  BY TypeCorrect, <1>1, <1>2, <1>3, PTL DEF Spec

-----------------------------------------------------------------------------
(* The order of the extended IDs: the inductive invariant of               *)
(* OnlyLateSuppressed.                                                     *)

(* The ID of the last trigger, extended over all turns; after a reset the  *)
(* last ID of the turn that has ended.                                     *)
Position(tr, tu) == IF tr = None THEN Turn * tu - 1 ELSE Turn * tu + (tr % Turn)

(* id is not above position p, as a link sees it that came up in turn f.   *)
NotAbove(id, p, f) == id + Turn * f <= p

Past(id) == \E c \in Links : /\ first[c] # None
                             /\ NotAbove(id, Position(trigger, turn), first[c])

OrderInv ==
  AllSteady /\ ~short =>
    /\ suppressed = {} /\ m_events = {}
    /\ \A id \in ToSet(m_timedoutL1ID) : Past(id)

(* It moves on with every trigger, and does not move back at a reset after *)
(* the first block.                                                        *)
LEMMA PositionMoves ==
  ASSUME NEW tr \in Nat \cup {None}, NEW tu \in Nat
  PROVE  /\ Position(tr, tu) \in Int
         /\ Position(tr + 1, NextTurn(tr, tu)) \in Int
         /\ Position(tr, tu) < Position(tr + 1, NextTurn(tr, tu))
         /\ Position(None, tu + 1) \in Int
         /\ tr # None => Position(tr, tu) <= Position(None, tu + 1)
<1> DEFINE n == tr + 1
           T == Turn
<1>1. T \in Nat \ {0} /\ n \in Nat /\ n # None
  BY Sizes DEF None
<1>2. T * tu \in Nat /\ T * (tu + 1) = T * tu + T
  BY <1>1, SMTT(30)
<1> DEFINE x == T * tu
           y == T * (tu + 1)
<1>3. x \in Nat /\ y = x + T
  BY <1>2
<1>4. /\ Position(None, tu) = x - 1 /\ Position(None, tu + 1) = y - 1
      /\ tr # None => Position(tr, tu) = x + (tr % T)
      /\ Position(n, tu) = x + (n % T) /\ Position(n, tu + 1) = y + (n % T)
  BY <1>1 DEF Position
<1>5. tr # None => tr \in Nat /\ tr % T \in 0..(T - 1)
  <2>1. ASSUME tr # None PROVE tr \in Nat /\ tr % T \in 0..(T - 1)
    <3>1. tr \in Nat
      BY <2>1
    <3>2. QED
      BY <1>1, <3>1, Division
  <2>2. QED
    BY <2>1
<1>6. n % T \in 0..(T - 1)
  <2> HIDE DEF n, T
  <2>1. QED
    BY <1>1, Division
<1> HIDE DEF x, y
<1>7. CASE tr = None
  <2>1. n = 0 /\ NextTurn(tr, tu) = tu
    BY <1>7 DEF None, NextTurn
  <2> HIDE DEF n, T
  <2>2. QED
    BY <1>1, <1>3, <1>4, <1>6, <1>7, <2>1 DEF n
<1>8. CASE tr # None
  <2> DEFINE q == tr \div T
             p == n \div T
             r == tr % T
             s == n % T
  <2>1. q \in Nat /\ tr = T * q + r /\ p \in Nat /\ n = T * p + s
    <3> HIDE DEF n, T
    <3>1. QED
      BY <1>1, <1>5, <1>8, Division
  <2>2. p = q + (IF s = 0 THEN 1 ELSE 0)
    BY <1>1, <1>5, <1>8, NextNumber
  <2>3. s # 0 => s = r + 1
    <3> DEFINE u == T * q
               w == T * p
    <3>1. r \in 0..(T - 1) /\ s \in 0..(T - 1)
      BY <1>5, <1>6, <1>8
    <3> HIDE DEF T, q, p, r, s
    <3>2. u \in Nat /\ w \in Nat
      BY <1>1, <2>1, SMTT(30)
    <3>3. s # 0 => u = w
      BY <2>2, <2>1
    <3>4. tr = u + r /\ tr + 1 = w + s
      BY <2>1
    <3> HIDE DEF u, w
    <3>5. QED
      BY <1>1, <3>1, <3>2, <3>3, <3>4
  <2>4. NextTurn(tr, tu) = IF s = 0 THEN tu + 1 ELSE tu
    BY <1>5, <1>8 DEF NextTurn
  <2>5. r \in 0..(T - 1) /\ s \in 0..(T - 1) /\ Position(tr, tu) = x + r
        /\ Position(n, tu) = x + s /\ Position(n, tu + 1) = y + s
    BY <1>4, <1>5, <1>6, <1>8
  <2> HIDE DEF n, T, r, s
  <2>6. Position(n, NextTurn(tr, tu)) = IF s = 0 THEN y + s ELSE x + s
    BY <2>4, <2>5
  <2>7. QED
    BY <1>1, <1>3, <1>4, <2>3, <2>5, <2>6 DEF n
<1>9. QED
  BY <1>7, <1>8

(* Two links that see one position at the same ID came up in one turn; and *)
(* what is not above a position is not above a later one, nor is it there. *)
LEMMA NotAboveMoves ==
  ASSUME NEW id \in Nat, NEW f \in Nat, NEW p \in Int, NEW q \in Int, p < q
  PROVE  /\ NotAbove(id, p, f) => NotAbove(id, q, f)
         /\ NotAbove(id, p, f) => id + Turn * f # q
<1>1. Turn * f \in Nat
  BY Sizes, SMTT(30)
<1>2. QED
  BY <1>1 DEF NotAbove

(* An ID that is not above a position is not above a later one.            *)
LEMMA NotAboveStays ==
  ASSUME NEW id \in Nat, NEW f \in Nat, NEW p \in Int, NEW q \in Int, p <= q,
         NotAbove(id, p, f)
  PROVE  NotAbove(id, q, f)
<1>1. Turn * f \in Nat
  BY Sizes, SMTT(30)
<1>2. QED
  BY <1>1 DEF NotAbove

(* The turn of a trigger and its place in the turn are numbers.            *)
LEMMA TurnParts == \A a \in Nat : a \div Turn \in Nat /\ a % Turn \in Nat
<1>1. ASSUME NEW a \in Nat PROVE a \div Turn \in Nat /\ a % Turn \in Nat
  <2>1. a \div Turn \in Nat /\ a % Turn \in 0..(Turn - 1)
    BY Division, Sizes
  <2>2. Turn \in Nat
    BY Sizes
  <2>3. QED
    BY <2>1, <2>2
<1>2. QED
  BY <1>1

(* The ID that a link which has counted extends is the position.           *)
LEMMA CountedPosition ==
  ASSUME NEW last, NEW nw \in Nat, NEW f \in Nat, NEW tr \in Nat, NEW tu \in Nat,
         Counted(last, nw, f, 0, tr, tu)
  PROVE  ((tr % Turn) + Turn * nw) + Turn * f = Position(tr, tu)
<1> DEFINE q == tr \div Turn
           r == tr % Turn
<1>1. q \in Nat /\ r \in Nat
  BY TurnParts, Zenon
<1>2. tr # None /\ tr - 0 = tr
  BY DEF None
<1>3. nw + f = (tu - q) + q
  BY <1>2 DEF Counted
<1>4. Position(tr, tu) = Turn * tu + r
  BY <1>2 DEF Position
<1> HIDE DEF q
<1>5. nw + f = tu
  BY <1>1, <1>3
<1>6. Turn * nw + Turn * f = Turn * tu /\ Turn * nw \in Nat /\ Turn * f \in Nat
  <2>1. Turn * (nw + f) = Turn * nw + Turn * f
    BY Sizes, SMTT(30)
  <2>2. Turn * nw \in Nat /\ Turn * f \in Nat
    BY Sizes, SMTT(30)
  <2>3. QED
    BY <1>5, <2>1, <2>2
<1> DEFINE x == Turn * nw
           y == Turn * f
<1>7. x \in Nat /\ y \in Nat /\ x + y = Turn * tu
  BY <1>6
<1> HIDE DEF x, y, r
<1>8. (r + x) + y = Position(tr, tu)
  BY <1>1, <1>4, <1>7
<1>9. QED
  BY <1>8 DEF r, x, y

(* The fragments of the next trigger extend to the next position.          *)
LEMMA NextPosition ==
  ASSUME TypeOK, TypeOK', LinkInv', Trigger, NEW c \in up, steady'[c]
  PROVE  /\ first'[c] \in Nat /\ extended'[c] \in Nat
         /\ extended'[c] + Turn * first'[c] = Position(trigger', turn')
<1>1. c \in Links /\ LinkOK(c)'
  BY DEF LinkInv, TypeOK
<1>2. missed'[c] = 0 /\ extended'[c] = ((trigger + 1) % Turn) + Turn * Nwrap'[c]
      /\ trigger' = trigger + 1
  BY TriggerSeen
<1>3. first'[c] # None
  <2>1. first'[c] = IF first[c] = None THEN turn' ELSE first[c]
    BY TriggerSeen
  <2>2. turn' \in Nat
    BY DEF TypeOK
  <2>3. QED
    BY <2>1, <2>2 DEF None
<1>4. trigger' \in Nat
  BY <1>2 DEF TypeOK, None
<1>5. first'[c] \in Nat /\ Nwrap'[c] \in Nat /\ turn' \in Nat
  BY <1>1, <1>3 DEF TypeOK
<1>6. extended'[c] \in Nat
  <2>1. \A r, n \in Nat : r + Turn * n \in Nat
    BY Sizes, SMTT(30)
  <2>2. trigger' % Turn \in Nat
    BY <1>4, TurnParts, Zenon
  <2>3. extended'[c] = (trigger' % Turn) + Turn * Nwrap'[c]
    BY <1>2
  <2>4. QED
    BY <1>5, <2>1, <2>2, <2>3, Zenon
<1>7. Counted(lastId'[c], Nwrap'[c], first'[c], 0, trigger', turn')
  BY <1>1, <1>2, <1>3, Zenon DEF LinkOK
<1>8. ((trigger' % Turn) + Turn * Nwrap'[c]) + Turn * first'[c] = Position(trigger', turn')
  BY <1>4, <1>5, <1>7, CountedPosition
<1>9. QED
  BY <1>2, <1>5, <1>6, <1>8, Zenon

(* OrderInv holds in the beginning.                                        *)
LEMMA OrderInit == Init => OrderInv
BY DEF Init, OrderInv, ToSet

(* Every step preserves OrderInv.                                          *)
LEMMA OrderStep ==
  ASSUME TypeOK, TypeOK', LinkInv, LinkInv', OrderInv, [Next]_vars
  PROVE  OrderInv'
<1> SUFFICES ASSUME AllSteady', ~short'
             PROVE  /\ suppressed' = {} /\ m_events' = {}
                    /\ \A id \in ToSet(m_timedoutL1ID') : Past(id)'
  BY DEF OrderInv
<1>1. /\ trigger \in Nat \cup {None} /\ turn \in Nat
      /\ \A c \in Links : first[c] \in Nat \cup {None}
      /\ \A id \in ToSet(m_timedoutL1ID) : id \in Nat
  BY DEF TypeOK, None, ToSet
<1>2. CASE Trigger
  <2>1. \A c \in Links : /\ steady'[c] => steady[c]
                         /\ first[c] # None => first'[c] = first[c]
    <3>1. ASSUME NEW c \in Links
          PROVE  /\ steady'[c] => steady[c]
                 /\ first[c] # None => first'[c] = first[c]
      <4>1. CASE c \in up
        BY <1>2, <4>1, TriggerSeen
      <4>2. CASE c \notin up
        BY <1>2, <4>2, TriggerMissed
      <4>3. QED
        BY <4>1, <4>2
    <3>2. QED
      BY <3>1
  <2>2. AllSteady /\ ~short
    <3>1. AllSteady
      BY <2>1, Zenon DEF AllSteady
    <3>2. short' = short
      BY <1>2 DEF Trigger
    <3>3. QED
      BY <3>1, <3>2
  <2>3. /\ suppressed = {} /\ m_events = {}
        /\ \A id \in ToSet(m_timedoutL1ID) : Past(id)
    BY <2>2 DEF OrderInv
  <2> DEFINE p == Position(trigger, turn)
             q == Position(trigger', turn')
             split == Split({extended'[c] : c \in up})
  <2>4. p \in Int /\ q \in Int /\ p < q
    <3>1. trigger' = trigger + 1 /\ turn' = NextTurn(trigger, turn)
      BY <1>2 DEF Trigger, NextTurn
    <3>2. QED
      BY <1>1, <3>1, PositionMoves
  <2>5. \A c \in Links : steady'[c]
    BY DEF AllSteady
  <2>6. \A c \in up : /\ c \in Links /\ first'[c] \in Nat /\ extended'[c] \in Nat
                      /\ extended'[c] + Turn * first'[c] = q
    BY <1>2, <2>5, NextPosition DEF TypeOK
  <2>7. ASSUME NEW id \in split
        PROVE  \E c \in up : id = extended'[c]
    BY DEF Split
  <2> HIDE DEF p, q, split
  <2>8. ASSUME NEW id \in ToSet(m_timedoutL1ID)
        PROVE  Past(id)' /\ id \notin split
    <3>1. PICK d \in Links : first[d] # None /\ NotAbove(id, p, first[d])
      BY <2>3 DEF Past, p
    <3>2. first[d] \in Nat /\ first'[d] = first[d] /\ id \in Nat
      BY <1>1, <2>1, <3>1
    <3>3. NotAbove(id, q, first[d]) /\ id + Turn * first[d] # q
      BY <2>4, <3>1, <3>2, NotAboveMoves
    <3>4. Past(id)'
      BY <3>1, <3>2, <3>3, Zenon DEF Past, q
    <3>5. ASSUME NEW c \in up PROVE id # extended'[c]
      <4>1. first'[c] = first'[d]
        BY <2>6, <3>1, <3>2 DEF AllSteady, None
      <4>2. QED
        BY <2>6, <3>2, <3>3, <4>1, Zenon
    <3>6. QED
      BY <2>7, <3>4, <3>5
  <2>9. ASSUME NEW id \in split PROVE Past(id)'
    <3>1. PICK c \in up : id = extended'[c]
      BY <2>7
    <3>2. first'[c] # None
      BY <2>6 DEF None
    <3>3. NotAbove(id, q, first'[c])
      BY <2>4, <2>6, <3>1 DEF NotAbove
    <3>4. QED
      BY <2>6, <3>2, <3>3, Zenon DEF Past, q
  <2>10. Build({extended'[c] : c \in up})
    BY <1>2 DEF Trigger
  <2>11. m_timedoutL1ID' \in Seq(ToSet(m_timedoutL1ID) \cup split)
    <3>1. \A c \in up : extended'[c] \in Nat
      BY <2>6
    <3>2. QED
      BY <2>10, <3>1, BuildTypes DEF split
  <2>12. ToSet(m_timedoutL1ID') \subseteq ToSet(m_timedoutL1ID) \cup split
    <3> DEFINE V == ToSet(m_timedoutL1ID) \cup split
    <3>1. m_timedoutL1ID' \in Seq(V)
      BY <2>11
    <3> HIDE DEF V
    <3>2. ToSet(m_timedoutL1ID') \subseteq V
      BY <3>1 DEF ToSet
    <3>3. QED
      BY <3>2 DEF V
  <2>13. suppressed' = {} /\ m_events' = {}
    <3> DEFINE late == {id \in split : Contains(m_timedoutL1ID, id)}
    <3>1. suppressed' = suppressed \cup late /\ m_events' = m_events \cup late
      BY <2>10 DEF Build, split, Split
    <3>2. \A id \in late : id \in ToSet(m_timedoutL1ID)
      BY DEF Contains, ToSet, TypeOK
    <3>3. late = {}
      BY <2>8, <3>2
    <3>4. QED
      BY <2>3, <3>1, <3>3
  <2>14. QED
    BY <2>8, <2>9, <2>12, <2>13
<1>3. CASE reset
  <2>1. /\ UNCHANGED <<suppressed, m_events, m_timedoutL1ID, first>>
        /\ trigger # None /\ trigger' = None
        /\ turn' = turn + 1 /\ ~short
        /\ \A c \in Links : steady'[c] => steady[c]
    BY <1>3 DEF reset, builderVars
  <2>2. AllSteady
    BY <2>1, Zenon DEF AllSteady
  <2>3. /\ suppressed = {} /\ m_events = {}
        /\ \A id \in ToSet(m_timedoutL1ID) : Past(id)
    BY <2>1, <2>2 DEF OrderInv
  <2> DEFINE p == Position(trigger, turn)
             q == Position(trigger', turn')
  <2>4. p \in Int /\ q \in Int /\ p <= q
    BY <1>1, <2>1, PositionMoves
  <2> HIDE DEF p, q
  <2>5. ASSUME NEW id \in ToSet(m_timedoutL1ID) PROVE Past(id)'
    <3>1. PICK d \in Links : first[d] # None /\ NotAbove(id, p, first[d])
      BY <2>3 DEF Past, p
    <3>2. first[d] \in Nat /\ id \in Nat
      BY <1>1, <3>1
    <3>3. NotAbove(id, q, first[d])
      BY <2>4, <3>1, <3>2, NotAboveStays
    <3>4. QED
      BY <2>1, <3>1, <3>3, Zenon DEF Past, q
  <2>6. QED
    BY <2>1, <2>3, <2>5
<1>4. CASE UNCHANGED <<detectorVars, builderVars, linkVars>>
  <2>1. AllSteady /\ ~short
    BY <1>4, Zenon DEF AllSteady, detectorVars, linkVars
  <2>2. UNCHANGED <<suppressed, m_events, m_timedoutL1ID, first, trigger, turn>>
    BY <1>4 DEF detectorVars, builderVars, linkVars
  <2>3. /\ suppressed = {} /\ m_events = {}
        /\ \A id \in ToSet(m_timedoutL1ID) : Past(id)
    BY <2>1 DEF OrderInv
  <2>4. QED
    BY <2>2, <2>3, Zenon DEF Past
<1>5. QED
  BY <1>2, <1>3, <1>4 DEF Next, LinkDown, LinkUp, vars

(* While the links agree no event is suppressed as late, however many      *)
(* events are not complete: the extended IDs rise with every trigger, over *)
(* the turns and over the runs that end behind the first block.            *)
THEOREM NothingSuppressed == Spec => []OnlyLateSuppressed
<1>1. OrderInv => OnlyLateSuppressed
  BY DEF OrderInv, OnlyLateSuppressed
<1>2. Init => LinkInv /\ OrderInv
  BY LinkInit, OrderInit
<1>3. TypeOK /\ TypeOK' /\ LinkInv /\ OrderInv /\ [Next]_vars => LinkInv' /\ OrderInv'
  BY LinkStep, OrderStep
<1>4. QED
  BY TypeCorrect, <1>1, <1>2, <1>3, PTL DEF Spec

=============================================================================
