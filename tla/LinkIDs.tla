------------------------------- MODULE LinkIDs -------------------------------
(***************************************************************************)
(* How the RoI builder extends the 32-bit L1 IDs of its links to 64 bits,  *)
(* and what the extended IDs decide: which fragments are one event, and    *)
(* which events are taken for late.  RoIBuilder starts from extended IDs.  *)
(*                                                                         *)
(* Every link is extended on its own, from its own last ID, by the one     *)
(* thread that receives it.  So it does not matter here when a link sends  *)
(* what it has: the links that are up send the fragments of a trigger at   *)
(* once, and an event is complete or times out before the next trigger.    *)
(* The builder lives from preset on, through all runs; the triggers of     *)
(* each run begin with L1 ID 0 again.  Triggers and links are external.    *)
(***************************************************************************)
EXTENDS Integers, Sequences, FiniteSets, SequencesExt, FiniteSetsExt, Folds

CONSTANTS
  Links,        \* m_active_chan
  BlockSize,    \* 2^20: IDs with the same upper 12 bits
  Blocks,       \* 2^12
  MaxStale,     \* 100000, see isLateFragment
  MaxTriggers,  \* triggers of a run (bound)
  MaxRuns,      \* runs (bound)
  MaxOutages    \* times that a link goes down (bound)

ASSUME LinkAssumption ==
  /\ IsFiniteSet(Links)
  /\ {BlockSize, Blocks, MaxRuns} \subseteq Nat \ {0}
  /\ {MaxStale, MaxTriggers, MaxOutages} \subseteq Nat

Turn      == BlockSize * Blocks      \* 2^32
Block(id) == id \div BlockSize       \* 0xFFF00000 & id
None      == -1

VARIABLES
  \* The triggers and the links.
  run, trigger,     \* the run and the number of its last trigger
  up, outages,
  \* m_rcv_proc, per link.
  lastId, Nwrap,
  \* The builder.
  m_timedoutL1ID,
  m_events,         \* IDs of events that stay although they are suppressed
  \* History.
  extended,         \* of the last trigger: the extended ID per link or None
  turn,             \* turns of the L1 ID that links can have seen
  first,            \* per link: the turn of its first fragment or None
  missed,           \* per link: triggers since its last fragment
  steady,           \* per link: it has not missed too many, see Missing
  short,            \* a run has ended in the first block
  suppressed        \* IDs of the events that were taken for late

detectorVars == <<run, trigger, turn, short>>
builderVars  == <<lastId, Nwrap, m_timedoutL1ID, m_events, suppressed>>
linkVars     == <<extended, first, missed, steady>>
vars == <<detectorVars, up, outages, builderVars, linkVars>>

Init ==
  /\ run = 1 /\ trigger = None
  /\ up = Links /\ outages = 0
  /\ lastId = [c \in Links |-> 0] /\ Nwrap = [c \in Links |-> 0]
  /\ m_timedoutL1ID = <<>> /\ m_events = {}
  /\ extended = [c \in Links |-> None]
  /\ turn = 0
  /\ first = [c \in Links |-> None]
  /\ missed = [c \in Links |-> 0]
  /\ steady = [c \in Links |-> TRUE]
  /\ short = FALSE
  /\ suppressed = {}

-----------------------------------------------------------------------------
(* m_rcv_proc.                                                             *)

MutWrapped(c, id) == Block(id) <= Block(lastId[c]) /\ lastId[c] # 0

MutNeverWrapped(c, id) == FALSE      \* the 32-bit L1 ID

Wrapped(c, id) == Block(id) < Block(lastId[c]) /\ lastId[c] # 0

(* The links that have a fragment with L1 ID id.                           *)
Receive(S, id) ==
  /\ Nwrap' = [c \in Links |-> IF c \in S /\ Wrapped(c, id) THEN Nwrap[c] + 1
                                                            ELSE Nwrap[c]]
  /\ lastId' = [c \in Links |-> IF c \in S THEN id ELSE lastId[c]]
  /\ extended' = [c \in Links |-> IF c \in S THEN id + Turn * Nwrap'[c]
                                             ELSE None]

(* isLateFragment; the age is counted in turns.                            *)
Remember(list, id) ==
  LET old   == Cardinality({i \in DOMAIN list : id - list[i] > 2 * Turn})
      stale == IF old = 0 /\ Len(list) > MaxStale THEN 1 ELSE old
      kept  == SubSeq(list, stale + 1, Len(list))
  IN  IF Contains(list, id) THEN kept ELSE Append(kept, id)

(* The smallest ID first.                                                  *)
RememberAll(list, ids) ==
  MapThenFoldSet(LAMBDA id, rest : Remember(rest, id), list,
                 LAMBDA id : id, Max, ids)

(* check_results for the events that the fragments have made, in the order *)
(* of their IDs.  A fragment whose ID is in m_events already joins that    *)
(* event, which is on no list.                                             *)
Build(ids) ==
  LET split == {id \in ids \ m_events : \E c \in Links : extended'[c] # id}
      late  == {id \in split : Contains(m_timedoutL1ID, id)}
  IN  /\ suppressed' = suppressed \cup late
      /\ m_events' = m_events \cup late
      /\ m_timedoutL1ID' = RememberAll(m_timedoutL1ID, split)

-----------------------------------------------------------------------------
(* The triggers and the links.                                             *)

(* A link that misses almost a turn of IDs, or is not there when a run     *)
(* begins, cannot know how often the ID has wrapped.                       *)
Missing(S) ==
  /\ missed' = [c \in Links |-> IF c \in S THEN 0 ELSE missed[c] + 1]
  /\ steady' = [c \in Links |->
                 /\ steady[c]
                 /\ first[c] # None =>
                      /\ c \in S => missed[c] < Turn - BlockSize
                      /\ c \notin S => run = 1 \/ trigger # None]

Trigger ==
  LET n == trigger + 1 IN
  /\ n < MaxTriggers
  /\ trigger' = n
  /\ turn' = IF n > 0 /\ n % Turn = 0 THEN turn + 1 ELSE turn
  /\ Receive(up, n % Turn)
  /\ Build({extended'[c] : c \in up})
  /\ first' = [c \in Links |-> IF c \in up /\ first[c] = None THEN turn'
                                                              ELSE first[c]]
  /\ Missing(up)
  /\ UNCHANGED <<run, short, up, outages>>

LinkDown(c) ==
  /\ c \in up /\ outages < MaxOutages
  /\ up' = up \ {c}
  /\ outages' = outages + 1
  /\ UNCHANGED <<detectorVars, builderVars, linkVars>>

LinkUp(c) ==
  /\ c \in Links \ up
  /\ up' = up \cup {c}
  /\ UNCHANGED <<outages, detectorVars, builderVars, linkVars>>

(* L1RobinnpSource::reset keeps the builder.                               *)
reset ==
  /\ run < MaxRuns /\ trigger # None
  /\ run' = run + 1
  /\ trigger' = None
  /\ IF Block(trigger % Turn) > 0
     THEN turn' = turn + 1 /\ UNCHANGED short
     ELSE short' = TRUE /\ UNCHANGED turn
  /\ steady' = [c \in Links |-> steady[c] /\ (first[c] # None => missed[c] = 0)]
  /\ extended' = [c \in Links |-> None]
  /\ UNCHANGED <<up, outages, builderVars, first, missed>>

Next == Trigger \/ reset \/ \E c \in Links : LinkDown(c) \/ LinkUp(c)

Spec == Init /\ [][Next]_vars

-----------------------------------------------------------------------------
(* Properties.                                                             *)

(* Types: an extended L1 ID is a natural number, and None until there is   *)
(* one.  LinkIDs_proofs proves it (TypeCorrect).                           *)
TypeOK ==
  /\ run \in 1..MaxRuns /\ trigger \in None..(MaxTriggers - 1)
  /\ up \subseteq Links /\ outages \in 0..MaxOutages
  /\ lastId \in [Links -> 0..(Turn - 1)] /\ Nwrap \in [Links -> Nat]
  /\ m_timedoutL1ID \in Seq(Nat)
  /\ m_events \subseteq Nat /\ suppressed \subseteq Nat
  /\ extended \in [Links -> Nat \cup {None}]
  /\ turn \in Nat /\ first \in [Links -> Nat \cup {None}]
  /\ missed \in [Links -> Nat] /\ steady \in [Links -> BOOLEAN]
  /\ short \in BOOLEAN

(* The fragments of one trigger get one extended ID, although each link    *)
(* counts the wraps of its own IDs and may miss those around a wrap: as    *)
(* long as the links came up in the same turn, never missed all but a      *)
(* block of a turn, and were there at the change of a run.                 *)
LinksAgree ==
  \A c, d \in Links :
    steady[c] /\ steady[d] /\ first[c] = first[d] =>
      extended[c] = extended[d] \/ None \in {extended[c], extended[d]}

(* While the links agree, no event is taken for late that is not, however  *)
(* many events time out: no fragment is late here.  After a run that has   *)
(* ended in the first block the IDs come again.                            *)
AllSteady == \A c, d \in Links : /\ steady[c]
                                 /\ first[c] = first[d] \/ first[c] = None
                                      \/ first[d] = None

OnlyLateSuppressed == AllSteady /\ ~short => suppressed = {}
=============================================================================
