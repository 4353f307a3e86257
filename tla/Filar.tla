------------------------------- MODULE Filar --------------------------------
(***************************************************************************)
(* The FILAR source.  The card writes the fragments that arrive on a       *)
(* channel (an event comes whole on one channel) into pages that startIO   *)
(* has given it; pollIO fetches the pages that are done; getResult makes   *)
(* an event of one and moves on to the next channel.  All of this runs on  *)
(* the L1 thread; reset runs on the run-control thread, while no L1 thread *)
(* runs.                                                                   *)
(*                                                                         *)
(* The driver and the card are external: a channel's pages are filled in   *)
(* the order in which the card got them, each call may report an error, a  *)
(* failed FILAR_PagesIn has taken none of the pages.  l1_thread reports an *)
(* exception and calls getResult again.                                    *)
(*                                                                         *)
(* What every specification has, FilarInit to FilarTypeOK, is named after  *)
(* the module, as the proofs about the two sources extend both.            *)
(***************************************************************************)
EXTENDS Integers, Sequences, FiniteSets, SequencesExt, FiniteSetsExt

CONSTANTS
  Rols,         \* number of channels, m_rols
  m_buffers,    \* NUM_FIFOS: pages per channel
  m_threshold,  \* 1
  MaxFragments, \* fragments that arrive (bound)
  MaxErrors     \* calls to the driver that fail (bound)

Chans     == 1..Rols
Pages     == 1..m_buffers
Fragments == 1..MaxFragments

ASSUME FilarAssumption ==
  /\ Rols \in Nat \ {0} /\ m_buffers \in Nat \ {0}
  /\ m_threshold \in Nat
  /\ MaxFragments \in Nat /\ MaxErrors \in Nat

VARIABLES
  m_available,   \* per channel: pages that are free
  m_completed,   \* pages <<page, fragment>> that pollIO has fetched
  chan,          \* m_activeIter, m_availableIter and m_completedIter
  pc,            \* where the L1 thread is in getResult
  l1Result,      \* the event that getResult has made, 0 for none
  \* The card.
  infifo,        \* per channel: pages to fill
  filled,        \* pages that are full: [page, frag, bad]
  arrived,       \* fragments that have come
  errors,        \* calls that have failed
  \* History.
  from,          \* the channel a fragment came on, 0: none
  poll,          \* the call of pollIO that fetched a fragment
  polls,         \* calls of pollIO
  gone,          \* fragments that were bad, or in the card or a queue at reset
  delivered      \* the events that getResult has returned, in order

filarVars == <<m_available, m_completed, chan, pc, l1Result, infifo, filled,
          arrived, errors, from, poll, polls, gone, delivered>>
cardVars    == <<infifo, filled, arrived, from>>
pollVars == <<poll, polls, gone>>

-----------------------------------------------------------------------------
(* Of a list of full pages: the numbers of the pages, the fragments.       *)
PagesOf(list) == [i \in DOMAIN list |-> list[i].page]
FragsOf(list) == {list[i].frag : i \in DOMAIN list}

(* The fragments that are in the card or in a queue.                       *)
Pending == UNION {FragsOf(filled[c]) \cup FragsOf(m_completed[c]) : c \in Chans}

(* The members of a list whose index is in K, in the order of the list.    *)
Ascending(K) == CHOOSE s \in [1..Cardinality(K) -> K] :
                  \A i, j \in DOMAIN s : i < j => s[i] < s[j]

Members(list, K) == [i \in 1..Cardinality(K) |-> list[Ascending(K)[i]]]

(* The loop of pollIO sorts what it has fetched into these two.            *)
Good(list) == Members(list, {i \in DOMAIN list : ~list[i].bad})
Bad(list)  == Members(list, {i \in DOMAIN list : list[i].bad})

-----------------------------------------------------------------------------
(* startIO hands the free pages of the current channel to the card, unless *)
(* more than m_threshold fetched pages wait.  Its two outcomes; the second *)
(* is an exception, which leaves the pages with nobody.                    *)

MutStartIO(c) ==               \* forgets to empty the list
  /\ infifo' = IF Len(m_completed[c]) > m_threshold THEN infifo
               ELSE [infifo EXCEPT ![c] = @ \o Reverse(m_available[c])]
  /\ UNCHANGED m_available

startIO(c) ==
  IF Len(m_completed[c]) > m_threshold THEN UNCHANGED <<infifo, m_available>>
  ELSE /\ infifo' = [infifo EXCEPT ![c] = @ \o Reverse(m_available[c])]
       /\ m_available' = [m_available EXCEPT ![c] = <<>>]

PagesInFails(c) ==
  /\ errors < MaxErrors
  /\ Len(m_completed[c]) <= m_threshold
  /\ m_available' = [m_available EXCEPT ![c] = <<>>]
  /\ errors' = errors + 1
  /\ UNCHANGED infifo

(* The pages of one channel are handed to the card in the order of         *)
(* reset: all at once, the last first.                                     *)
FilarInit ==
  /\ m_available = [c \in Chans |-> IF c = 1 THEN <<>>
                                             ELSE [i \in Pages |-> i]]
  /\ m_completed = [c \in Chans |-> <<>>]
  /\ chan = 1
  /\ pc = "idle"
  /\ l1Result = 0
  /\ infifo = [c \in Chans |-> IF c = 1 THEN Reverse([i \in Pages |-> i])
                                        ELSE <<>>]
  /\ filled = [c \in Chans |-> <<>>]
  /\ arrived = 0
  /\ errors = 0
  /\ from = [f \in Fragments |-> 0]
  /\ poll = [f \in Fragments |-> 0]
  /\ polls = 0
  /\ gone = {}
  /\ delivered = <<>>

-----------------------------------------------------------------------------
(* The card.                                                               *)

Arrive(c) ==
  /\ arrived < MaxFragments
  /\ infifo[c] # <<>>
  /\ arrived' = arrived + 1
  /\ infifo' = [infifo EXCEPT ![c] = Tail(@)]
  /\ \E bad \in BOOLEAN :
       filled' = [filled EXCEPT ![c] =
         Append(@, [page |-> Head(infifo[c]), frag |-> arrived + 1,
                    bad |-> bad])]
  /\ from' = [from EXCEPT ![arrived + 1] = c]
  /\ UNCHANGED <<m_available, m_completed, chan, pc, l1Result, errors, poll,
                 polls, gone, delivered>>

-----------------------------------------------------------------------------
(* The L1 thread: getResult.                                               *)

(* pollIO: the good pages are queued, the others are free again.           *)
MutPollIO ==                   \* polls with results left
  /\ pc = "idle"
  /\ Bad(filled[chan]) = <<>>
  /\ m_completed' = [m_completed EXCEPT ![chan] = @ \o filled[chan]]
  /\ poll' = [f \in Fragments |->
                IF f \in FragsOf(filled[chan]) THEN polls + 1 ELSE poll[f]]
  /\ filled' = [filled EXCEPT ![chan] = <<>>]
  /\ polls' = IF filled[chan] = <<>> THEN polls ELSE polls + 1
  /\ pc' = "take"
  /\ UNCHANGED <<m_available, chan, l1Result, infifo, arrived, errors, from,
                 gone, delivered>>

pollIO ==
  /\ pc = "idle"
  /\ m_completed[chan] = <<>>
  /\ LET good == Good(filled[chan])
         bad  == Bad(filled[chan])
     IN  /\ m_completed' = [m_completed EXCEPT ![chan] = @ \o good]
         /\ m_available' = [m_available EXCEPT ![chan] = @ \o PagesOf(bad)]
         /\ poll' = [f \in Fragments |->
                       IF f \in FragsOf(good) THEN polls + 1 ELSE poll[f]]
         /\ gone' = gone \cup FragsOf(bad)
  /\ filled' = [filled EXCEPT ![chan] = <<>>]
  /\ polls' = IF filled[chan] = <<>> THEN polls ELSE polls + 1
  /\ pc' = "take"
  /\ UNCHANGED <<chan, l1Result, infifo, arrived, errors, from, delivered>>

PollFails ==                   \* FILAR_Flush or FILAR_PagesOut fails
  /\ pc = "idle"
  /\ m_completed[chan] = <<>>
  /\ errors < MaxErrors
  /\ errors' = errors + 1
  /\ UNCHANGED <<m_available, m_completed, chan, pc, l1Result, cardVars,
                 pollVars, delivered>>

NoPoll ==                      \* results of the last poll are left
  /\ pc = "idle"
  /\ m_completed[chan] # <<>>
  /\ pc' = "take"
  /\ UNCHANGED <<m_available, m_completed, chan, l1Result, cardVars, errors,
                 pollVars, delivered>>

MutNextChan == chan' = chan + 1

nextChan == chan' = (chan % Rols) + 1

(* The last result fetched becomes an event; its data is copied and its    *)
(* page is free.                                                           *)
Take ==
  /\ pc = "take"
  /\ m_completed[chan] # <<>>
  /\ l1Result' = Last(m_completed[chan]).frag
  /\ m_available' = [m_available EXCEPT ![chan] =
                       Append(@, Last(m_completed[chan]).page)]
  /\ m_completed' = [m_completed EXCEPT ![chan] = Front(@)]
  /\ nextChan
  /\ pc' = "start"
  /\ UNCHANGED <<cardVars, errors, pollVars, delivered>>

MutNoResult ==                 \* stays with the channel
  /\ pc = "take"
  /\ m_completed[chan] = <<>>
  /\ pc' = "start"
  /\ UNCHANGED <<m_available, m_completed, chan, l1Result, cardVars, errors,
                 pollVars, delivered>>

NoResult ==                    \* still no result: try the next channel
  /\ pc = "take"
  /\ m_completed[chan] = <<>>
  /\ nextChan
  /\ pc' = "start"
  /\ UNCHANGED <<m_available, m_completed, l1Result, cardVars, errors,
                 pollVars, delivered>>

(* startIO, then getResult returns.                                        *)
Return ==
  /\ pc = "start"
  /\ startIO(chan)
  /\ delivered' = IF l1Result = 0 THEN delivered ELSE Append(delivered, l1Result)
  /\ l1Result' = 0
  /\ pc' = "idle"
  /\ UNCHANGED <<m_completed, chan, filled, arrived, errors, from, pollVars>>

(* The exception of startIO leaves getResult: the event is lost.           *)
Throw ==
  /\ pc = "start"
  /\ PagesInFails(chan)
  /\ l1Result' = 0
  /\ pc' = "idle"
  /\ UNCHANGED <<m_completed, chan, filled, arrived, from, pollVars,
                 delivered>>

(* prepareForRun, while no L1 thread runs.  All pages are free again, the  *)
(* first channel gets its own.  A call that fails ends it half-way, and    *)
(* the transition fails: not modelled.                                     *)
reset ==
  /\ pc = "idle"
  /\ m_available' = [c \in Chans |-> IF c = 1 THEN <<>> ELSE [i \in Pages |-> i]]
  /\ m_completed' = [c \in Chans |-> <<>>]
  /\ infifo' = [c \in Chans |-> IF c = 1 THEN Reverse([i \in Pages |-> i])
                                         ELSE <<>>]
  /\ filled' = [c \in Chans |-> <<>>]
  /\ chan' = 1
  /\ gone' = gone \cup Pending
  /\ UNCHANGED <<pc, l1Result, arrived, errors, from, poll, polls, delivered>>

getResult == pollIO \/ NoPoll \/ Take \/ NoResult \/ Return

FilarNext == (\E c \in Chans : Arrive(c)) \/ getResult \/ PollFails \/ Throw \/ reset

FilarSpec == FilarInit /\ [][FilarNext]_filarVars

(* The L1 thread keeps calling getResult.                                  *)
FilarFairSpec == FilarSpec /\ WF_filarVars(getResult)

-----------------------------------------------------------------------------
(* Properties.                                                             *)

Held(c) == m_available[c] \o infifo[c]
           \o PagesOf(filled[c]) \o PagesOf(m_completed[c])

Full == [page : Pages, frag : Fragments, bad : BOOLEAN]

FilarTypeOK ==
  /\ m_available \in [Chans -> Seq(Pages)]
  /\ m_completed \in [Chans -> Seq(Full)]
  /\ chan \in Chans
  /\ pc \in {"idle", "take", "start"}
  /\ l1Result \in Fragments \cup {0}
  /\ pc # "start" => l1Result = 0
  /\ infifo \in [Chans -> Seq(Pages)]
  /\ filled \in [Chans -> Seq(Full)]
  /\ arrived \in 0..MaxFragments
  /\ errors \in 0..MaxErrors
  /\ from \in [Fragments -> 0..Rols]
  /\ poll \in [Fragments -> 0..polls]
  /\ polls \in Nat
  /\ gone \in SUBSET Fragments
  /\ delivered \in Seq(Fragments)

(* No page is in two hands: the card never writes into a page whose        *)
(* fragment has not been copied, and FILAR_PagesIn never gets more pages   *)
(* than its sixteen entries.  And none is lost, unless FILAR_PagesIn       *)
(* failed: startIO forgets the pages that it could not hand over.          *)
PageKept ==
  \A c \in Chans :
    /\ IsInjective(Held(c))
    /\ errors = 0 => Len(Held(c)) = m_buffers

Somewhere == Pending \cup ToSet(delivered) \cup gone \cup {l1Result}

(* Every page has its holder.  A fragment is delivered at most once, and   *)
(* until then it is in the card or in a queue, unless it was bad or a      *)
(* reset took it; every failing call costs at most one event.              *)
NothingLost ==
  /\ PageKept
  /\ IsInjective(delivered)
  /\ ToSet(delivered) \cap gone = {}
  /\ Cardinality((1..arrived) \ Somewhere) <= errors

(* Results are taken from the back of the queue, so events overtake each   *)
(* other; but the queue is empty at a poll, so an event is overtaken only  *)
(* by one of the same channel that the same poll has fetched.              *)
OvertakenWithinPoll ==
  \A i, j \in DOMAIN delivered :
    i < j /\ delivered[i] > delivered[j]
          /\ from[delivered[i]] = from[delivered[j]]
      => poll[delivered[i]] = poll[delivered[j]]

(* A fragment that the card has written is delivered, unless it is bad, a  *)
(* reset comes or a call fails: no channel is forgotten.                   *)
InCard(f) == \E c \in Chans : f \in FragsOf(filled[c])

FragmentDelivered ==
  \A f \in Fragments :
    InCard(f) ~> (Contains(delivered, f) \/ f \in gone \/ errors > 0)
=============================================================================
