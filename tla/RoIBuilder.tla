----------------------------- MODULE RoIBuilder -----------------------------
(***************************************************************************)
(* The RoI builder of the RobinNP source.  Receive threads, one per        *)
(* sub-ROB of the card, collect the fragments of each L1 ID in m_events;   *)
(* the first fragment of an ID puts it on m_result_lists.  The result      *)
(* thread takes IDs from there and moves the events that are complete or   *)
(* too old to m_done.  The L1 thread takes events from m_done              *)
(* (L1RobinnpSource::getResult), gives the pages of their fragments back   *)
(* to the card and releases them.                                          *)
(*                                                                         *)
(* A thread holds the accessor of its event while it adds a fragment or    *)
(* checks a result, so each of these is one step; getNext reads the event  *)
(* without an accessor, so the steps of getResult interleave with them.    *)
(* The card and its links are external: every link sends its fragments in  *)
(* the order of the L1 IDs (extended to 64 bits), each at most once.       *)
(***************************************************************************)
EXTENDS Integers, Sequences, FiniteSets, SequencesExt

CONSTANTS
  Channels,    \* m_active_chan
  SubRob,      \* the receive thread that reads a channel
  MaxIds,      \* L1 IDs that the detector sends (bound)
  MaxBacklog,  \* maxBacklog, the capacity of m_done
  MaxStale,    \* 100000: m_timedoutL1ID is cut when it is longer
  StaleAge     \* two wraps of the L1 ID: older time-outs are forgotten

Ids  == 1..MaxIds
NoId == 0

ASSUME BuilderAssumption ==
  /\ IsFiniteSet(Channels) /\ Channels # {}
  /\ MaxIds \in Nat /\ MaxBacklog \in Nat \ {0}
  /\ MaxStale \in Nat /\ StaleAge \in Nat

VARIABLES
  next,          \* the next L1 ID each link will send
  m_events,      \* the links of the fragments of a builtEv; {}: no such event
  old,           \* events that were started longer than m_limit ago
  m_result_lists,
  m_done,
  m_timedoutL1ID,
  result,        \* where the result thread is
  m_stop,
  finished,      \* receive threads that have handled a fragment after m_stop
  destroyed,     \* ~RoIBuilder has swept the queues
  l1,            \* where the L1 thread is in getResult
  ev,            \* the event it has popped from m_done
  count,         \* the fragments getNext saw in it
  got,           \* pages <<channel, ID>> the card has handed out
  recycled,      \* how often each was recycled
  delivered,     \* history: the L1 IDs that getResult has returned
  dropped,       \* history: those popped while m_done was full
  forgotten      \* history: those cut from m_timedoutL1ID

vars == <<next, m_events, old, m_result_lists, m_done, m_timedoutL1ID, result,
          m_stop, finished, destroyed, l1, ev, count, got, recycled, delivered,
          dropped, forgotten>>

Init ==
  /\ next = [c \in Channels |-> 1]
  /\ m_events = [id \in Ids |-> {}]
  /\ old = {}
  /\ m_result_lists = <<>>
  /\ m_done = <<>>
  /\ m_timedoutL1ID = <<>>
  /\ result = "outer"
  /\ m_stop = FALSE
  /\ finished = {}
  /\ destroyed = FALSE
  /\ l1 = "idle"
  /\ ev = NoId
  /\ count = 0
  /\ got = {}
  /\ recycled = [p \in Channels \X Ids |-> 0]
  /\ delivered = <<>>
  /\ dropped = {}
  /\ forgotten = {}

-----------------------------------------------------------------------------
(* The receive threads (m_rcv_proc).                                       *)

MutAdd(c, id) ==               \* every fragment puts its ID on the list
  /\ m_events' = [m_events EXCEPT ![id] = @ \cup {c}]
  /\ m_result_lists' = Append(m_result_lists, id)

(* builtEv::add; the fragment that creates the event lists its ID.         *)
add(c, id) ==
  /\ m_events' = [m_events EXCEPT ![id] = @ \cup {c}]
  /\ m_result_lists' = IF m_events[id] = {} THEN Append(m_result_lists, id)
                                            ELSE m_result_lists

(* A thread that is past the test of m_stop handles one more fragment.     *)
Receive(c) ==
  /\ next[c] \in Ids
  /\ SubRob[c] \notin finished /\ ~destroyed
  /\ finished' = IF m_stop THEN finished \cup {SubRob[c]} ELSE finished
  /\ add(c, next[c])
  /\ got' = got \cup {<<c, next[c]>>}
  /\ next' = [next EXCEPT ![c] = @ + 1]
  /\ UNCHANGED <<old, m_done, m_timedoutL1ID, forgotten, result, m_stop,
                 destroyed, l1, ev, count, recycled, delivered, dropped>>

LoseFragment(c) ==             \* the link sends no fragment for an L1 ID
  /\ next[c] \in Ids
  /\ next' = [next EXCEPT ![c] = @ + 1]
  /\ UNCHANGED <<m_events, old, m_result_lists, m_done, m_timedoutL1ID,
                 forgotten, result, m_stop, finished, destroyed, l1, ev,
                 count, got, recycled, delivered, dropped>>

TimePasses(id) ==              \* elapsed > m_limit
  /\ Contains(m_result_lists, id)
  /\ id \notin old
  /\ old' = old \cup {id}
  /\ UNCHANGED <<next, m_events, m_result_lists, m_done, m_timedoutL1ID,
                 forgotten, result, m_stop, finished, destroyed, l1, ev,
                 count, got, recycled, delivered, dropped>>

-----------------------------------------------------------------------------
(* The result thread (check_results).                                      *)

OuterLoop ==                   \* while(!m_stop)
  /\ result = "outer"
  /\ result' = IF m_stop THEN "exited" ELSE "inner"
  /\ UNCHANGED <<next, m_events, old, m_result_lists, m_done,
                 m_timedoutL1ID, forgotten, m_stop, finished, destroyed, l1,
                 ev, count, got, recycled, delivered, dropped>>

InnerLoop ==                   \* while(!m_result_lists.empty()) ends
  /\ result = "inner"
  /\ m_result_lists = <<>>
  /\ result' = "outer"
  /\ UNCHANGED <<next, m_events, old, m_result_lists, m_done,
                 m_timedoutL1ID, forgotten, m_stop, finished, destroyed, l1,
                 ev, count, got, recycled, delivered, dropped>>

IsBuilt(id) == m_events[id] = Channels
Ready(id)   == IsBuilt(id) \/ id \in old
Full        == Len(m_done) >= MaxBacklog

Pages(id) == {<<c, id>> : c \in m_events[id]}

freePages(pages) ==
  recycled' = [p \in Channels \X Ids |-> IF p \in pages THEN recycled[p] + 1
                                                        ELSE recycled[p]]

(* isLateFragment: forgets as many of the first IDs as there are ones that *)
(* are too old, or the first if there are too many and none is too old;    *)
(* then remembers this one.                                                *)
LateFragment(id) == Contains(m_timedoutL1ID, id)

MutRemember(id) == UNCHANGED <<m_timedoutL1ID, forgotten>>

Remember(id) ==
  LET tooOld == Cardinality({i \in DOMAIN m_timedoutL1ID :
                               id - m_timedoutL1ID[i] > StaleAge})
      stale  == IF tooOld = 0 /\ Len(m_timedoutL1ID) > MaxStale THEN 1
                                                                ELSE tooOld
      kept   == SubSeq(m_timedoutL1ID, stale + 1, Len(m_timedoutL1ID))
  IN  /\ m_timedoutL1ID' = IF LateFragment(id) THEN kept ELSE Append(kept, id)
      /\ forgotten' = forgotten \cup (ToSet(m_timedoutL1ID) \ ToSet(kept))

MutPutBack ==                  \* forgets to push the ID back
  /\ result = "inner" /\ m_result_lists # <<>>
  /\ ~Ready(Head(m_result_lists))
  /\ m_result_lists' = Tail(m_result_lists)
  /\ result' = "outer"
  /\ UNCHANGED <<next, m_events, old, m_done, m_timedoutL1ID, forgotten,
                 m_stop, finished, destroyed, l1, ev, count, got, recycled,
                 delivered, dropped>>

(* The head is neither complete nor too old: it goes to the back.          *)
PutBack ==
  /\ result = "inner" /\ m_result_lists # <<>>
  /\ ~Ready(Head(m_result_lists))
  /\ m_result_lists' = Append(Tail(m_result_lists), Head(m_result_lists))
  /\ result' = "outer"
  /\ UNCHANGED <<next, m_events, old, m_done, m_timedoutL1ID, forgotten,
                 m_stop, finished, destroyed, l1, ev, count, got, recycled,
                 delivered, dropped>>

(* The `break' when m_done is full or at m_stop: the ID has been popped    *)
(* and is not put back.                                                    *)
Break ==
  /\ result = "inner" /\ m_result_lists # <<>>
  /\ Ready(Head(m_result_lists)) /\ (Full \/ m_stop)
  /\ m_result_lists' = Tail(m_result_lists)
  /\ result' = "outer"
  /\ dropped' = IF Full THEN dropped \cup {Head(m_result_lists)} ELSE dropped
  /\ UNCHANGED <<next, m_events, old, m_done, m_timedoutL1ID, forgotten,
                 m_stop, finished, destroyed, l1, ev, count, got, recycled,
                 delivered>>

MutMoveToDone(id) ==           \* recycles the pages of a built event here
  m_done' = Append(m_done, id) /\ freePages(Pages(id))

MoveToDone(id) == m_done' = Append(m_done, id) /\ UNCHANGED recycled

(* An event that is complete, or that timed out for the first time.        *)
Finish ==
  /\ result = "inner" /\ m_result_lists # <<>>
  /\ ~Full /\ ~m_stop
  /\ LET id == Head(m_result_lists) IN
       /\ \/ IsBuilt(id) /\ UNCHANGED <<m_timedoutL1ID, forgotten>>
          \/ /\ ~IsBuilt(id) /\ id \in old
             /\ ~LateFragment(id)
             /\ Remember(id)
       /\ MoveToDone(id)
  /\ m_result_lists' = Tail(m_result_lists)
  /\ UNCHANGED <<next, m_events, old, result, m_stop, finished, destroyed,
                 l1, ev, count, got, delivered, dropped>>

(* Late fragments of an event that timed out before: their pages are       *)
(* recycled; the event stays in m_events.                                  *)
Suppress ==
  /\ result = "inner" /\ m_result_lists # <<>>
  /\ ~Full /\ ~m_stop
  /\ LET id == Head(m_result_lists) IN
       /\ ~IsBuilt(id) /\ id \in old
       /\ LateFragment(id)
       /\ Remember(id)
       /\ freePages(Pages(id))
  /\ m_result_lists' = Tail(m_result_lists)
  /\ UNCHANGED <<next, m_events, old, m_done, result, m_stop, finished,
                 destroyed, l1, ev, count, got, delivered, dropped>>

-----------------------------------------------------------------------------
(* The L1 thread: L1RobinnpSource::getResult.                              *)

getNext ==                     \* m_done.try_pop; reads size and count
  /\ l1 = "idle" /\ ~m_stop
  /\ m_done # <<>>
  /\ l1' = "freePages"
  /\ ev' = Head(m_done)
  /\ count' = Cardinality(m_events[Head(m_done)])
  /\ m_done' = Tail(m_done)
  /\ UNCHANGED <<next, m_events, old, m_result_lists, m_timedoutL1ID,
                 forgotten, result, m_stop, finished, destroyed, got,
                 recycled, delivered, dropped>>

FreeEvent ==                   \* freePages(evdone->associatedPages())
  /\ l1 = "freePages"
  /\ l1' = "release"
  /\ freePages(Pages(ev))
  /\ UNCHANGED <<next, m_events, old, m_result_lists, m_done,
                 m_timedoutL1ID, forgotten, result, m_stop, finished,
                 destroyed, ev, count, got, delivered, dropped>>

MutRelease ==                  \* forgets that the event is gone
  /\ l1 = "release"
  /\ l1' = "idle"
  /\ m_events' = [m_events EXCEPT ![ev] = {}]
  /\ old' = old \ {ev}
  /\ delivered' = Append(delivered, ev)
  /\ UNCHANGED <<next, m_result_lists, m_done, m_timedoutL1ID, forgotten,
                 result, m_stop, finished, destroyed, ev, count, got,
                 recycled, dropped>>

release ==                     \* makes the LVL1Result and erases the event
  /\ l1 = "release"
  /\ l1' = "idle"
  /\ ev' = NoId
  /\ count' = 0
  /\ m_events' = [m_events EXCEPT ![ev] = {}]
  /\ old' = old \ {ev}
  /\ delivered' = Append(delivered, ev)
  /\ UNCHANGED <<next, m_result_lists, m_done, m_timedoutL1ID, forgotten,
                 result, m_stop, finished, destroyed, got, recycled, dropped>>

-----------------------------------------------------------------------------
(* ~RoIBuilder, called when no L1 thread runs.                             *)

Stop ==
  /\ ~m_stop /\ l1 = "idle"
  /\ m_stop' = TRUE
  /\ UNCHANGED <<next, m_events, old, m_result_lists, m_done,
                 m_timedoutL1ID, forgotten, result, finished, destroyed, l1,
                 ev, count, got, recycled, delivered, dropped>>

(* Both kinds of threads have been joined: the pages of the listed events  *)
(* are recycled and all events are deleted.                                *)
Destroy ==
  /\ m_stop /\ result = "exited" /\ ~destroyed
  /\ destroyed' = TRUE
  /\ freePages(UNION {Pages(m_result_lists[i]) : i \in DOMAIN m_result_lists})
  /\ m_result_lists' = <<>>
  /\ m_events' = [id \in Ids |-> {}]
  /\ m_done' = <<>>
  /\ old' = {}
  /\ UNCHANGED <<next, m_timedoutL1ID, forgotten, result, m_stop, finished,
                 l1, ev, count, got, delivered, dropped>>

ResultStep == OuterLoop \/ InnerLoop \/ PutBack \/ Break \/ Finish \/ Suppress

L1Step == getNext \/ FreeEvent \/ release

Next ==
  \/ \E c \in Channels : Receive(c) \/ LoseFragment(c)
  \/ \E id \in Ids : TimePasses(id)
  \/ ResultStep \/ L1Step
  \/ Stop \/ Destroy

Spec == Init /\ [][Next]_vars

(***************************************************************************)
(* Time passes, the result thread loops until m_stop and the L1 thread     *)
(* calls getResult again and again.  Nothing is assumed about the links.   *)
(***************************************************************************)
FairSpec ==
  /\ Spec
  /\ \A id \in Ids : WF_vars(TimePasses(id))
  /\ WF_vars(ResultStep) /\ WF_vars(L1Step)

-----------------------------------------------------------------------------
(* Properties.                                                             *)

(* Types; the L1 thread has an event, with a fragment, only in getResult.  *)
TypeOK ==
  /\ next \in [Channels -> 1..(MaxIds + 1)]
  /\ m_events \in [Ids -> SUBSET Channels]
  /\ old \in SUBSET Ids
  /\ m_result_lists \in Seq(Ids)
  /\ m_done \in Seq(Ids)
  /\ m_timedoutL1ID \in Seq(Ids)
  /\ result \in {"outer", "inner", "exited"}
  /\ m_stop \in BOOLEAN
  /\ finished \in SUBSET {SubRob[c] : c \in Channels}
  /\ destroyed \in BOOLEAN
  /\ l1 \in {"idle", "freePages", "release"}
  /\ ev \in Ids \cup {NoId}
  /\ count \in Nat
  /\ l1 # "idle" <=> ev # NoId
  /\ l1 # "idle" <=> count > 0
  /\ got \in SUBSET (Channels \X Ids)
  /\ recycled \in [Channels \X Ids -> Nat]
  /\ delivered \in Seq(Ids)
  /\ dropped \in SUBSET Ids
  /\ forgotten \in SUBSET Ids

(* An event has one ticket: it is on m_result_lists, in m_done or in the   *)
(* hands of the L1 thread at most once in all, and what is there is in     *)
(* m_events.  So check_results always finds the event, m_done never holds  *)
(* a pointer to a deleted builtEv, and release never deletes one that      *)
(* somebody else still uses.                                               *)
Tickets == m_result_lists \o m_done \o (IF ev = NoId THEN <<>> ELSE <<ev>>)

OneTicket ==
  /\ IsInjective(Tickets)
  /\ \A i \in DOMAIN Tickets : m_events[Tickets[i]] # {}

(* Fragments that come after their event has timed out do not make a       *)
(* second event: the L1 thread gets every L1 ID at most once, unless       *)
(* isLateFragment has forgotten it: its memory is cut by age and length.   *)
DeliveredOnce ==
  \A i, j \in DOMAIN delivered :
    delivered[i] = delivered[j] => i = j \/ delivered[i] \in forgotten

(* No page is given back to the card twice: not by getResult and           *)
(* check_results, not by them and the destructor.  And none that the card  *)
(* has not handed out.                                                     *)
RecycledOnce ==
  \A p \in Channels \X Ids : recycled[p] <= (IF p \in got THEN 1 ELSE 0)

(* Every L1 ID of which a fragment arrives is handed to the L1 thread,     *)
(* complete or not, unless m_done is full when its turn comes.             *)
EventuallyDelivered ==
  \A id \in Ids : Contains(m_result_lists, id) ~>
                  (Contains(delivered, id) \/ id \in dropped \/ m_stop)

(* The builder implements BuildLife: an event goes one way, from the list  *)
(* of results to m_done to the L1 thread, which gets the events in the     *)
(* order in which the result thread has finished them; what it has dropped *)
(* or suppressed stays in m_events and never comes back, whatever          *)
(* fragments still join it; and ~RoIBuilder ends everything.               *)
StageOf(id) ==
  IF Contains(m_result_lists, id) THEN "building"
  ELSE IF Contains(m_done, id) THEN "queued"
  ELSE IF ev = id THEN "taken"
  ELSE IF m_events[id] # {} THEN "kept"
  ELSE "absent"

Build == INSTANCE BuildLife WITH stage <- [id \in Ids |-> StageOf(id)],
                                 queue <- m_done, returned <- delivered,
                                 open <- ~destroyed

ImplementsBuildLife == Build!Spec

(* RoIBuilder.cxx: "timed out events must be handled".  Violated when      *)
(* m_done is full: the ID is popped and dropped, and nobody looks at its   *)
(* event again.                                                            *)
TimedOutHandled ==
  \A id \in old :
    \/ \E i \in DOMAIN Tickets : Tickets[i] = id
    \/ Contains(delivered, id) \/ m_stop
=============================================================================
