------------------------------ MODULE CloudWatch ------------------------------
(***************************************************************************)
(* The CloudWatch source of one region: cycles over its log groups, each   *)
(* of which reads a window of events page by page, hands the records to    *)
(* ingestion and, once the journal has acknowledged them, moves the        *)
(* durable checkpoint of every stream it read.                             *)
(*                                                                         *)
(* An event has an age, which the clock counts up to just beyond the       *)
(* bounded floor, after which nothing reads it: time needs no bound.       *)
(* A position is the event it was taken from.                              *)
(*                                                                         *)
(* A definition directly above the one it is a slip of is that             *)
(* definition's mutant: the specification does not use it.                 *)
(***************************************************************************)
EXTENDS Integers, Sequences, FiniteSets

CONSTANTS
  Events,      \* native events
  stream,      \* the stream of each
  Unusable,    \* those of which no record can be made
  Refused,     \* those whose record ingestion refuses for itself
  Groups,      \* the configured groups in order, each the set of its streams
  None,
  Lookback, MaxLookback, InitialLookback, MaxWindow, PageLimit, MaxPages, MaxAttempts,
  MaxFaults    \* bound: refused or failed calls, stalls of the cycle, crashes

Less(a, b) == IF a < b THEN a ELSE b
More(a, b) == IF a < b THEN b ELSE a
Streams    == UNION {Groups[i] : i \in DOMAIN Groups}

\* What New accepts; a group configured twice would fight over its checkpoints.
Configured ==
  /\ Groups \in Seq(SUBSET Streams) /\ Groups # <<>>
  /\ \A i, j \in DOMAIN Groups : i # j => Groups[i] \cap Groups[j] = {}
  /\ {Lookback, MaxLookback, InitialLookback, MaxWindow} \subseteq Nat
  /\ Lookback <= MaxLookback /\ InitialLookback <= MaxLookback
  /\ {PageLimit, MaxPages, MaxAttempts} \subseteq Nat \ {0}

ASSUME CloudWatchAssumption ==
  /\ Configured /\ IsFiniteSet(Events) /\ None \notin Events /\ MaxFaults \in Nat
  /\ stream \in [Events -> Streams] /\ {Unusable, Refused} \subseteq SUBSET Events

VARIABLES
  age,         \* of each event at the source, -1 while it is not written
  journal,     \* what the durable journal has taken
  checkpoint,  \* cwcheckpoint.Store: the durable position of each stream
  position, loaded, delivered,  \* groupState, of all the groups
  cycle,       \* where Poll stands
  polled,      \* a cycle has ended well since the clock last moved
  exhausted,   \* some window held more pages than the budget; for the properties
  backlog,     \* events from before the first windows of their group; for the properties
  faults

memory == <<position, loaded, delivered>>
vars   == <<age, journal, checkpoint, memory, cycle, polled, exhausted, backlog, faults>>

Old         == MaxLookback + 1
Written(e)  == age[e] >= 0
Group       == Groups[cycle.group]
Dealt       == journal \cup Unusable \cup Refused
OfGroup(es) == {e \in es : stream[e] \in Group}
Fault       == faults < MaxFaults /\ faults' = faults + 1
At(stage)   == cycle.stage = stage

\* The newest of some events; of two as old, either.
Newest(es) == CHOOSE e \in es : \A f \in es : age[e] <= age[f]

Idle == [stage |-> "group", group |-> 1, from |-> 0, to |-> 0, due |-> {}, read |-> {},
         pages |-> 0, attempts |-> 0]
Down == [Idle EXCEPT !.stage = "down"]

-----------------------------------------------------------------------------
(* Reading.                                                                *)

\* The range a cycle reads, as the ages of its start and of its end: from one
\* lookback behind the greatest position of the group.
startOfGroup(at, streams) ==
  LET positions == {at[s] : s \in streams} \ {None}
  IN Less(MaxLookback, IF positions = {} THEN InitialLookback ELSE age[Newest(positions)] + Lookback)
windowBeyondNow(at, streams) ==
  LET start == startOfGroup(at, streams) IN [from |-> start, to |-> start - MaxWindow]
window(at, streams) ==
  LET start == startOfGroup(at, streams)
  IN [from |-> start, to |-> More(0, start - MaxWindow)]

InWindow(w) == {e \in Events : Written(e) /\ stream[e] \in Group /\ w.to <= age[e] /\ age[e] <= w.from}

\* Remembered ids older than the window are dropped.
forget(before) == {e \in delivered : e \notin OfGroup(delivered) \/ age[e] <= before}

\* Durable positions are read once for each group.
PollGroup ==
  /\ At("group")
  /\ loaded' = loaded \cup {cycle.group}
  /\ position' = [s \in Streams |->
        IF s \in Group /\ cycle.group \notin loaded THEN checkpoint[s] ELSE position[s]]
  /\ LET w == window(position', Group)
     IN /\ delivered' = forget(w.from)
        /\ cycle' = [cycle EXCEPT !.stage = "reading", !.from = w.from, !.to = w.to,
                       !.due = InWindow(w), !.read = {}, !.pages = 0, !.attempts = 0]
        /\ backlog' = IF \A s \in Group : position'[s] = None
                      THEN backlog \cup {e \in OfGroup(Events \ Dealt) : age[e] > w.from} ELSE backlog
  /\ UNCHANGED <<age, journal, checkpoint, polled, exhausted, faults>>

Ended(c) == [c EXCEPT !.due = {}, !.read = {}, !.from = 0, !.to = 0, !.pages = 0, !.attempts = 0]

\* On to the next group, or the end of the cycle.
Proceed(c) ==
  IF c.group < Len(Groups)
  THEN cycle' = [Ended(c) EXCEPT !.stage = "group", !.group = @ + 1] /\ UNCHANGED polled
  ELSE cycle' = Idle /\ polled' = TRUE

\* The record of an event: it needs an identity, an ingestion time and a message
\* that is not redacted away, or the window moves past it.
Record(e)  == e \notin Unusable
Records(c) == {e \in c.read : Record(e)} \ delivered

\* A page holds some of what is in the window, in any order, or nothing; the
\* last one comes when nothing that was there at the start is missing.
LastPageTruncated(c) == c.due \subseteq c.read \/ c.pages >= MaxPages
LastPage(c) == c.due \subseteq c.read
ReadPage ==
  /\ At("reading")
  /\ \E page \in SUBSET (InWindow(cycle) \ cycle.read) :
       /\ Cardinality(page) <= PageLimit
       /\ LET c == [cycle EXCEPT !.read = @ \cup page, !.pages = @ + 1, !.attempts = 0]
          IN \/ /\ LastPage(c) /\ c.read = {} /\ Proceed(c) /\ UNCHANGED exhausted
             \/ /\ LastPage(c) /\ c.read # {}
                /\ cycle' = [c EXCEPT !.stage = IF Records(c) = {} THEN "committing" ELSE "delivering"]
                /\ UNCHANGED <<polled, exhausted>>
             \/ /\ ~LastPage(c) /\ c.pages < MaxPages /\ cycle' = c
                /\ UNCHANGED <<polled, exhausted>>
             \/ /\ ~LastPage(c) /\ c.pages >= MaxPages
                /\ cycle' = Idle /\ exhausted' = TRUE /\ UNCHANGED polled
  /\ UNCHANGED <<age, journal, checkpoint, memory, backlog, faults>>

\* Only a refusal for rate is tried again, until the attempts are spent.
AttemptsLeft == cycle.attempts + 1 < MaxAttempts
Throttled ==
  /\ At("reading") /\ Fault
  /\ cycle' = IF AttemptsLeft
              THEN [cycle EXCEPT !.attempts = @ + 1] ELSE Idle
  /\ UNCHANGED <<age, journal, checkpoint, memory, polled, exhausted, backlog>>

\* An unreadable checkpoint, a source that fails, a page of another region:
\* the cycle ends where it is.
PollFails ==
  /\ \/ At("group") /\ cycle.group \notin loaded
     \/ At("reading")
  /\ cycle' = Idle /\ Fault
  /\ UNCHANGED <<age, journal, checkpoint, memory, polled, exhausted, backlog>>

-----------------------------------------------------------------------------
(* Delivering, then committing.                                            *)

\* What the journal takes is what ingestion does not refuse for itself.
Taken == {e \in Records(cycle) : e \notin Refused}
IngestRecords ==
  /\ At("delivering")
  /\ journal' = journal \cup Taken /\ delivered' = delivered \cup Records(cycle)
  /\ cycle' = [cycle EXCEPT !.stage = "committing"]
  /\ UNCHANGED <<age, checkpoint, position, loaded, polled, exhausted, backlog, faults>>

\* Without an acknowledgement nothing moves; the journal may have the records.
NotAcknowledgedMoved == [cycle EXCEPT !.stage = "committing"]
NotAcknowledged == Idle

IngestFails ==
  /\ At("delivering") /\ Fault
  /\ \/ UNCHANGED journal
     \/ journal' = journal \cup Taken
  /\ cycle' = NotAcknowledged
  /\ UNCHANGED <<age, checkpoint, memory, polled, exhausted, backlog>>

\* advance: the furthest event of each stream that was read, delivered or not.
Reached(s) == Newest({e \in cycle.read : stream[e] = s})

\* A position never moves backwards.
Ahead(e, at) == at = None \/ age[e] < age[at]
Pending ==
  {s \in Group : (\E e \in cycle.read : stream[e] = s) /\ Ahead(Reached(s), position[s])}
Moved(at) == [s \in Streams |-> IF s \in Pending THEN Reached(s) ELSE at[s]]

\* All the streams in one synchronized batch.
Commit ==
  /\ At("committing")
  /\ checkpoint' = Moved(checkpoint) /\ position' = Moved(position)
  /\ Proceed(cycle)
  /\ UNCHANGED <<age, journal, loaded, delivered, exhausted, backlog, faults>>
CommitFails ==
  /\ At("committing") /\ Pending # {} /\ Fault
  /\ \/ UNCHANGED checkpoint
     \/ checkpoint' = Moved(checkpoint)
  /\ cycle' = Idle
  /\ UNCHANGED <<age, journal, memory, polled, exhausted, backlog>>

-----------------------------------------------------------------------------
(* The source, the process and the clock.                                  *)

\* An event is written no later than the overlap covers.
Write(e) ==
  /\ ~Written(e) /\ \E a \in 0..Lookback : age' = [age EXCEPT ![e] = a]
  /\ UNCHANGED <<journal, checkpoint, memory, cycle, polled, exhausted, backlog, faults>>

Fresh == /\ position' = [s \in Streams |-> None] /\ loaded' = {} /\ delivered' = {}
Crash ==
  /\ ~At("down") /\ Fault /\ cycle' = Down /\ Fresh
  /\ UNCHANGED <<age, journal, checkpoint, polled, exhausted, backlog>>
New ==
  /\ At("down") /\ cycle' = Idle
  /\ UNCHANGED <<age, journal, checkpoint, memory, polled, exhausted, backlog, faults>>

\* A cycle that does not end before the clock moves is a stall.
Older(a) == IF a < 0 THEN a ELSE Less(a + 1, Old)
Tick ==
  /\ age' = [e \in Events |-> Older(age[e])]
  /\ cycle' = IF At("reading") THEN [cycle EXCEPT !.from = Older(@), !.to = Older(@)] ELSE cycle
  /\ IF polled THEN UNCHANGED faults ELSE Fault
  /\ polled' = FALSE
  /\ UNCHANGED <<journal, checkpoint, memory, exhausted, backlog>>

Init ==
  /\ age = [e \in Events |-> -1] /\ journal = {}
  /\ checkpoint = [s \in Streams |-> None]
  /\ position = [s \in Streams |-> None] /\ loaded = {} /\ delivered = {}
  /\ cycle = Idle /\ polled = FALSE /\ exhausted = FALSE /\ backlog = {} /\ faults = 0

Poll == PollGroup \/ ReadPage \/ IngestRecords \/ Commit
Failure == Throttled \/ PollFails \/ IngestFails \/ CommitFails
Next == Poll \/ Failure \/ (\E e \in Events : Write(e)) \/ Crash \/ New \/ Tick

Spec == Init /\ [][Next]_vars

\* The poll worker runs cycle after cycle, a dead process is started again, and
\* time passes.
FairSpec == Spec /\ WF_vars(Poll) /\ WF_vars(New) /\ WF_vars(Tick)

-----------------------------------------------------------------------------
(* Properties.                                                             *)

\* Every variable has its type.
TypeOK ==
  /\ age \in [Events -> -1..Old]
  /\ journal \subseteq Events /\ delivered \subseteq Events /\ backlog \subseteq Events
  /\ checkpoint \in [Streams -> Events \cup {None}] /\ position \in [Streams -> Events \cup {None}]
  /\ loaded \subseteq DOMAIN Groups
  /\ cycle \in [stage : {"down", "group", "reading", "delivering", "committing"},
               group : DOMAIN Groups, from : 0..Old, to : 0..Old,
               due : SUBSET Events, read : SUBSET Events,
               pages : 0..MaxPages, attempts : 0..(MaxAttempts - 1)]
  /\ cycle.to <= cycle.from
  /\ polled \in BOOLEAN /\ exhausted \in BOOLEAN /\ faults \in 0..MaxFaults

\* "A new deployment does not import its own backlog": what the first windows of
\* a group began after is not owed.
Owed(e) == Written(e) /\ e \notin Dealt /\ e \notin backlog

\* "A checkpoint written before the journal acknowledged would silently drop
\* records on the next restart": what a process starting now would not read
\* again has reached the journal, or is older than the bounded floor.
NothingSkipped ==
  \A i \in DOMAIN Groups, e \in Events :
    /\ stream[e] \in Groups[i] /\ Owed(e)
    /\ \E s \in Groups[i] : checkpoint[s] # None
    => age[e] <= startOfGroup(checkpoint, Groups[i]) \/ age[e] > MaxLookback

\* However quiet the group was before it, an event is in the journal before it
\* is too old to be read, unless its window outgrew the page budget.
EventuallyDelivered ==
  \A e \in Events : Written(e) ~> ~Owed(e) \/ exhausted

=============================================================================
