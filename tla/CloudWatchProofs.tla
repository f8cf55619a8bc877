--------------------------- MODULE CloudWatchProofs ---------------------------
(***************************************************************************)
(* Theorems about the CloudWatch source, for every value of its constants: *)
(* any events, groups and streams, any lookback, window and page budget.   *)
(***************************************************************************)
EXTENDS CloudWatch, FiniteSetTheorems, WellFoundedInduction, TLAPS

Cycles == [stage : {"down", "group", "reading", "delivering", "committing"},
           group : DOMAIN Groups, from : 0..Old, to : 0..Old,
           due : SUBSET Events, read : SUBSET Events,
           pages : 0..MaxPages, attempts : 0..(MaxAttempts - 1)]
Positions == [Streams -> Events \cup {None}]

\* An event is not more than a lookback behind a position, or below the floor.
Lags(e, c) == age[e] <= age[c] + Lookback \/ age[e] > MaxLookback

\* The same after a step.
LagsAfter(e, c) == age'[e] <= age'[c] + Lookback \/ age'[e] > MaxLookback

\* A position is an event that was written.
PositionsWritten(at) == \A s \in Streams : at[s] # None => Written(at[s])

\* No position is further ahead of an event that is owed than one lookback.
PositionsLag(at) ==
  \A i \in DOMAIN Groups : \A e \in Events, s \in Groups[i] :
    stream[e] \in Groups[i] /\ Owed(e) /\ at[s] # None => Lags(e, at[s])

\* What a cycle reads was written, on the streams of its group.
ReadOfGroup == \A e \in cycle.read : Written(e) /\ stream[e] \in Group

\* The last page came: nothing that was due is missing.
AllRead == cycle.stage \in {"delivering", "committing"} => cycle.due \subseteq cycle.read

\* Nothing is committed that was not dealt with.
DealtBeforeCommit == At("committing") => cycle.read \subseteq Dealt

\* A page is still to be read within the budget.
PagesLeft == At("reading") => cycle.pages < MaxPages

\* What is owed and was not due when the window was taken was older than its
\* start, and so is behind all that the cycle reads, or newer than its end.
OthersLag ==
  cycle.stage \in {"reading", "delivering", "committing"} =>
    \A e \in Events \ cycle.due :
      stream[e] \in Group /\ Owed(e) =>
        /\ \A r \in cycle.read : Lags(e, r)
        /\ At("reading") => age[e] <= cycle.to + Lookback \/ age[e] > MaxLookback

\* The inductive invariant.
IInv ==
  /\ TypeOK /\ delivered \subseteq Dealt
  /\ PositionsWritten(checkpoint) /\ PositionsWritten(position)
  /\ PositionsLag(checkpoint) /\ PositionsLag(position)
  /\ ReadOfGroup /\ AllRead /\ DealtBeforeCommit /\ PagesLeft /\ OthersLag

-----------------------------------------------------------------------------
(* Operators.                                                              *)

\* The configuration, one by one.
LEMMA Config ==
  /\ Lookback \in Nat /\ MaxLookback \in Nat /\ InitialLookback \in Nat /\ MaxWindow \in Nat
  /\ InitialLookback <= MaxLookback /\ MaxFaults \in Nat
  /\ MaxPages \in Nat /\ MaxPages > 0 /\ MaxAttempts \in Nat /\ MaxAttempts > 0
  /\ Old = MaxLookback + 1 /\ Old \in Nat /\ None \notin Events
  /\ Len(Groups) \in Nat /\ DOMAIN Groups = 1..Len(Groups) /\ 1 \in DOMAIN Groups
  /\ \A i \in DOMAIN Groups : Groups[i] \subseteq Streams
  /\ \A i, j \in DOMAIN Groups : i # j => Groups[i] \cap Groups[j] = {}
  /\ stream \in [Events -> Streams]
<1>1. /\ Lookback \in Nat /\ MaxLookback \in Nat /\ InitialLookback \in Nat /\ MaxWindow \in Nat
      /\ InitialLookback <= MaxLookback /\ MaxFaults \in Nat
      /\ MaxPages \in Nat /\ MaxPages > 0 /\ MaxAttempts \in Nat /\ MaxAttempts > 0
  BY CloudWatchAssumption DEF Configured
<1>2. Groups \in Seq(SUBSET Streams) /\ Groups # <<>>
  BY CloudWatchAssumption DEF Configured
<1>3. Len(Groups) \in Nat /\ DOMAIN Groups = 1..Len(Groups) /\ Len(Groups) # 0
  BY <1>2
<1>4. \A i \in DOMAIN Groups : Groups[i] \subseteq Streams
  BY <1>2
<1>5. Old = MaxLookback + 1 /\ Old \in Nat
  BY <1>1 DEF Old
<1>6. /\ None \notin Events /\ stream \in [Events -> Streams]
      /\ \A i, j \in DOMAIN Groups : i # j => Groups[i] \cap Groups[j] = {}
  BY CloudWatchAssumption DEF Configured
<1> QED
  BY <1>1, <1>3, <1>4, <1>5, <1>6

\* advance: of some events that were written one is the newest.
LEMMA NewestOf ==
  ASSUME age \in [Events -> -1..Old], NEW es \in SUBSET Events, es # {}
  PROVE  Newest(es) \in es /\ \A f \in es : age[Newest(es)] <= age[f]
<1> DEFINE ages == {age[e] + 1 : e \in es}
<1>1. \A e \in es : age[e] \in Int /\ age[e] + 1 \in Nat
  BY Config
<1>2. ages \subseteq Nat /\ ages # {}
  BY <1>1
<1>3. PICK n \in ages : \A m \in ages : <<m, n>> \notin OpToRel(<, Nat)
  <2> HIDE DEF ages
  <2> QED
    BY <1>2, NatLessThanWellFounded, WFMin
<1>4. \A m \in ages : n <= m
  <2> SUFFICES ASSUME NEW m \in ages, m < n PROVE FALSE
    BY <1>2
  <2>1. <<m, n>> \in Nat \X Nat
    BY <1>2
  <2>2. <<m, n>> \in OpToRel(<, Nat)
    BY <2>1 DEF OpToRel
  <2> QED
    BY <1>3, <2>2
<1>5. PICK e \in es : n = age[e] + 1
  BY DEF ages
<1>6. \A f \in es : age[e] <= age[f]
  <2> TAKE f \in es
  <2>1. age[e] + 1 <= age[f] + 1
    BY <1>4, <1>5
  <2> QED
    BY <1>1, <2>1
<1> QED
  BY <1>6 DEF Newest

\* window: a range within the floor.
LEMMA StartRange ==
  ASSUME TypeOK, NEW at \in Positions, PositionsWritten(at), NEW i \in DOMAIN Groups
  PROVE  /\ startOfGroup(at, Groups[i]) \in 0..MaxLookback
         /\ (\A s \in Groups[i] : at[s] = None) => startOfGroup(at, Groups[i]) = InitialLookback
         /\ (\E s \in Groups[i] : at[s] # None) =>
              \E s \in Groups[i] :
                /\ at[s] # None /\ startOfGroup(at, Groups[i]) = Less(MaxLookback, age[at[s]] + Lookback)
                /\ \A r \in Groups[i] : at[r] # None => age[at[s]] <= age[at[r]]
<1> DEFINE positions == {at[s] : s \in Groups[i]} \ {None}
<1>1. positions \subseteq Events /\ Groups[i] \subseteq Streams
  BY Config DEF Positions
<1>2. CASE positions = {}
  <2>1. startOfGroup(at, Groups[i]) = Less(MaxLookback, InitialLookback)
    BY <1>2 DEF startOfGroup
  <2>2. \A s \in Groups[i] : at[s] = None
    BY <1>2
  <2> QED
    BY <2>1, <2>2, Config DEF Less
<1>3. CASE positions # {}
  <2>1. Newest(positions) \in positions /\ \A f \in positions : age[Newest(positions)] <= age[f]
    BY <1>1, <1>3, NewestOf DEF TypeOK
  <2>2. PICK s \in Groups[i] : at[s] = Newest(positions) /\ at[s] # None
    BY <2>1
  <2>3. startOfGroup(at, Groups[i]) = Less(MaxLookback, age[at[s]] + Lookback)
    BY <1>3, <2>2 DEF startOfGroup
  <2>4. age[at[s]] \in Nat
    <3>1. Written(at[s]) /\ at[s] \in Events
      BY <1>1, <2>1, <2>2 DEF PositionsWritten
    <3> QED
      BY <3>1, Config DEF Written, TypeOK
  <2>5. startOfGroup(at, Groups[i]) \in 0..MaxLookback
    BY <2>3, <2>4, Config DEF Less
  <2>6. \A r \in Groups[i] : at[r] # None => age[at[s]] <= age[at[r]]
    BY <2>1, <2>2
  <2> QED
    BY <2>2, <2>3, <2>5, <2>6
<1> QED
  BY <1>2, <1>3

-----------------------------------------------------------------------------
(* What the steps have in common.                                          *)

\* A step that moves no position and takes nothing back leaves them behind.
LEMMA Quiet ==
  ASSUME IInv, UNCHANGED <<age, checkpoint, position>>, journal \subseteq journal',
         backlog \subseteq backlog'
  PROVE  /\ PositionsWritten(checkpoint)' /\ PositionsWritten(position)'
         /\ PositionsLag(checkpoint)' /\ PositionsLag(position)'
         /\ Dealt \subseteq Dealt' /\ \A e \in Events : Owed(e)' => Owed(e)
<1>1. Dealt \subseteq Dealt'
  BY DEF Dealt
<1>2. \A e \in Events : Owed(e)' => Owed(e)
  BY <1>1 DEF Owed, Written
<1>3. PositionsWritten(checkpoint)' /\ PositionsWritten(position)'
  BY DEF IInv, PositionsWritten, Written
<1>4. PositionsLag(checkpoint)'
  BY <1>2 DEF IInv, PositionsLag, Lags
<1>5. PositionsLag(position)'
  BY <1>2 DEF IInv, PositionsLag, Lags
<1> QED
  BY <1>1, <1>2, <1>3, <1>4, <1>5

\* Between groups there is nothing read to keep account of.
LEMMA Rest ==
  ASSUME TypeOK', (delivered \subseteq Dealt)',
         PositionsWritten(checkpoint)', PositionsWritten(position)',
         PositionsLag(checkpoint)', PositionsLag(position)',
         cycle'.stage \in {"group", "down"}, cycle'.read = {}
  PROVE  IInv'
BY DEF IInv, ReadOfGroup, AllRead, DealtBeforeCommit, PagesLeft, OthersLag, At

\* The types of the cycle and of the positions.
LEMMA CycleType ==
  ASSUME TypeOK
  PROVE  /\ cycle \in Cycles /\ cycle.to <= cycle.from /\ Group \subseteq Streams
         /\ checkpoint \in Positions /\ position \in Positions
         /\ cycle.group \in DOMAIN Groups /\ cycle.read \subseteq Events /\ cycle.due \subseteq Events
         /\ cycle.to \in 0..Old /\ cycle.from \in 0..Old
         /\ \A e \in Events : age[e] \in -1..Old /\ (Written(e) => age[e] \in 0..Old)
<1>1. cycle \in Cycles /\ cycle.to <= cycle.from /\ checkpoint \in Positions /\ position \in Positions
  BY DEF TypeOK, Cycles, Positions
<1>2. Group \subseteq Streams
  BY <1>1, Config DEF Group, Cycles
<1>3. \A e \in Events : age[e] \in -1..Old
  BY DEF TypeOK
<1>4. \A e \in Events : Written(e) => age[e] \in 0..Old
  BY <1>3, Config DEF Written
<1> QED
  BY <1>1, <1>2, <1>3, <1>4 DEF Cycles

\* Idle and Down are cycles at rest.
LEMMA AtRest ==
  /\ Idle \in Cycles /\ Idle.to <= Idle.from /\ Idle.stage = "group" /\ Idle.read = {}
  /\ Down \in Cycles /\ Down.to <= Down.from /\ Down.stage = "down" /\ Down.read = {}
<1>1. Idle \in Cycles /\ Idle.to <= Idle.from /\ Idle.stage = "group" /\ Idle.read = {}
  <2>1. 0 \in 0..Old /\ 0 \in 0..MaxPages /\ 0 \in 0..(MaxAttempts - 1) /\ 1 \in DOMAIN Groups
    BY Config
  <2> QED
    BY <2>1 DEF Idle, Cycles
<1> QED
  BY <1>1 DEF Down, Cycles

\* On to the next group, or back to the first.
LEMMA ProceedRests ==
  ASSUME NEW c \in Cycles, Proceed(c), polled \in BOOLEAN
  PROVE  /\ cycle' \in Cycles /\ cycle'.to <= cycle'.from /\ polled' \in BOOLEAN
         /\ cycle'.stage = "group" /\ cycle'.read = {}
<1>1. CASE c.group < Len(Groups)
  <2> DEFINE next == [Ended(c) EXCEPT !.stage = "group", !.group = c.group + 1]
  <2>1. c.group + 1 \in DOMAIN Groups
    BY <1>1, Config DEF Cycles
  <2>2. 0 \in 0..Old /\ 0 \in 0..MaxPages /\ 0 \in 0..(MaxAttempts - 1)
    BY Config
  <2>3. Ended(c) \in Cycles /\ Ended(c).to = 0 /\ Ended(c).from = 0 /\ Ended(c).read = {} /\ Ended(c).group = c.group
    BY <2>2 DEF Ended, Cycles
  <2>4. next \in Cycles /\ next.to = 0 /\ next.from = 0 /\ next.read = {} /\ next.stage = "group"
    BY <2>1, <2>3 DEF Cycles
  <2>5. cycle' = next /\ polled' = polled
    BY <1>1, <2>3 DEF Proceed
  <2> HIDE DEF next
  <2> QED
    BY <2>4, <2>5
<1>2. CASE ~(c.group < Len(Groups))
  BY <1>2, AtRest DEF Proceed
<1> QED
  BY <1>1, <1>2

\* The fault is counted within its bound.
LEMMA FaultCounted ==
  ASSUME TypeOK, Fault \/ UNCHANGED faults
  PROVE  faults' \in 0..MaxFaults
BY Config DEF TypeOK, Fault

\* A cycle that ends, before or after the journal took what it was given.
LEMMA EndIInv ==
  ASSUME IInv, cycle' \in {Idle, Down}, UNCHANGED <<age, checkpoint, exhausted, backlog, polled>>,
         position' \in Positions, PositionsWritten(position)', PositionsLag(position)',
         loaded' \subseteq DOMAIN Groups, delivered' \subseteq delivered,
         journal \subseteq journal', journal' \subseteq Events, Fault \/ UNCHANGED faults
  PROVE  IInv'
<1>1. Dealt \subseteq Dealt' /\ \A e \in Events : Owed(e)' => Owed(e)
  BY DEF Dealt, Owed, Written
<1>2. PositionsWritten(checkpoint)' /\ PositionsLag(checkpoint)'
  BY <1>1 DEF IInv, PositionsWritten, PositionsLag, Lags, Written
<1>3. cycle' \in Cycles /\ cycle'.to <= cycle'.from /\ cycle'.stage \in {"group", "down"} /\ cycle'.read = {}
  BY AtRest
<1>4. faults' \in 0..MaxFaults
  BY FaultCounted DEF IInv
<1>5. TypeOK'
  BY <1>3, <1>4 DEF IInv, TypeOK, Cycles, Positions
<1>6. (delivered \subseteq Dealt)'
  BY <1>1 DEF IInv
<1> QED
  BY <1>2, <1>3, <1>5, <1>6, Rest

-----------------------------------------------------------------------------
(* One lemma for each step.                                                *)

\* A cycle that fails before it delivers.
LEMMA PollFailsIInv ==
  ASSUME IInv, PollFails
  PROVE  IInv'
<1>1. PositionsWritten(position)' /\ PositionsLag(position)'
  BY Quiet DEF PollFails, memory
<1> QED
  BY <1>1, EndIInv DEF PollFails, memory, IInv, TypeOK, Positions

\* A crash loses what the process remembered.
LEMMA CrashIInv ==
  ASSUME IInv, Crash
  PROVE  IInv'
<1>1. position' \in Positions /\ PositionsWritten(position)' /\ PositionsLag(position)'
  BY Config DEF Crash, Fresh, Positions, PositionsWritten, PositionsLag
<1> QED
  BY <1>1, EndIInv DEF Crash, Fresh, IInv, TypeOK

\* A process starts.
LEMMA NewIInv ==
  ASSUME IInv, New
  PROVE  IInv'
<1>1. PositionsWritten(position)' /\ PositionsLag(position)'
  BY Quiet DEF New, memory
<1> QED
  BY <1>1, EndIInv DEF New, memory, IInv, TypeOK, Positions

\* Without an acknowledgement the cycle ends.
LEMMA IngestFailsIInv ==
  ASSUME IInv, IngestFails
  PROVE  IInv'
<1>1. journal \subseteq journal' /\ journal' \subseteq Events
  BY CycleType DEF IngestFails, Taken, Records, IInv, TypeOK
<1>2. PositionsWritten(position)' /\ PositionsLag(position)'
  BY <1>1, Quiet DEF IngestFails, memory
<1> QED
  BY <1>1, <1>2, EndIInv DEF IngestFails, NotAcknowledged, memory, IInv, TypeOK, Positions

\* A refusal for rate is tried again within the attempts, or ends the cycle.
LEMMA ThrottledIInv ==
  ASSUME IInv, Throttled
  PROVE  IInv'
<1>1. UNCHANGED <<age, journal, checkpoint, position, loaded, delivered, polled, exhausted, backlog>>
  BY DEF Throttled, memory
<1>2. /\ PositionsWritten(checkpoint)' /\ PositionsWritten(position)'
      /\ PositionsLag(checkpoint)' /\ PositionsLag(position)'
  BY <1>1, Quiet
<1>3. CASE cycle' = Idle
  BY <1>1, <1>2, <1>3, EndIInv DEF Throttled, IInv, TypeOK, Positions
<1>4. CASE AttemptsLeft /\ cycle' = [cycle EXCEPT !.attempts = @ + 1]
  <2>1. cycle.attempts + 1 \in 0..(MaxAttempts - 1) /\ cycle \in Cycles
    <3>1. cycle \in Cycles /\ cycle.attempts + 1 < MaxAttempts
      BY <1>4, CycleType DEF IInv, AttemptsLeft
    <3>2. cycle.attempts \in Nat
      BY <3>1 DEF Cycles
    <3> QED
      BY <3>1, <3>2, Config
  <2>2. /\ cycle' \in Cycles /\ cycle'.stage = cycle.stage /\ cycle'.group = cycle.group
        /\ cycle'.from = cycle.from /\ cycle'.to = cycle.to /\ cycle'.due = cycle.due
        /\ cycle'.read = cycle.read /\ cycle'.pages = cycle.pages
    BY <1>4, <2>1 DEF Cycles
  <2>3. faults' \in 0..MaxFaults
    BY FaultCounted DEF IInv, Throttled
  <2>4. TypeOK'
    BY <1>1, <2>2, <2>3 DEF IInv, TypeOK, Cycles
  <2>5. (delivered \subseteq Dealt)' /\ ReadOfGroup' /\ AllRead' /\ DealtBeforeCommit' /\ PagesLeft'
    BY <1>1, <2>2 DEF IInv, Dealt, ReadOfGroup, AllRead, DealtBeforeCommit, PagesLeft, At, Written, Group
  <2>6. OthersLag'
    BY <1>1, <2>2 DEF IInv, OthersLag, Lags, Owed, Written, Dealt, Group, At
  <2> QED
    BY <1>2, <2>4, <2>5, <2>6 DEF IInv
<1> QED
  BY <1>3, <1>4 DEF Throttled

\* A window is taken. What is owed and not due is from before it and so behind
\* it, is newer than its end, or is backlog.
LEMMA PollGroupIInv ==
  ASSUME IInv, PollGroup
  PROVE  IInv'
<1> DEFINE w == window(position', Group)
           g == cycle.group
<1>1. /\ UNCHANGED <<age, journal, checkpoint, polled, exhausted, faults>>
      /\ loaded' = loaded \cup {g} /\ delivered' = forget(w.from)
      /\ position' = [s \in Streams |-> IF s \in Group /\ g \notin loaded THEN checkpoint[s] ELSE position[s]]
      /\ cycle' = [cycle EXCEPT !.stage = "reading", !.from = w.from, !.to = w.to,
                     !.due = InWindow(w), !.read = {}, !.pages = 0, !.attempts = 0]
      /\ backlog' = IF \A s \in Group : position'[s] = None
                    THEN backlog \cup {e \in OfGroup(Events \ Dealt) : age[e] > w.from} ELSE backlog
  BY DEF PollGroup
<1>2. g \in DOMAIN Groups /\ Group = Groups[g] /\ cycle \in Cycles
  BY CycleType DEF IInv, Group
<1>3. position' \in Positions /\ PositionsWritten(position)'
  BY <1>1, CycleType DEF IInv, Positions, PositionsWritten, Written
<1>4. \A e \in Events : Owed(e)' => Owed(e)
  BY <1>1 DEF Owed, Written, Dealt
<1>5. PositionsLag(position)'
  <2> SUFFICES ASSUME NEW i \in DOMAIN Groups, NEW e \in Events, NEW s \in Groups[i],
                      stream[e] \in Groups[i], Owed(e)', position'[s] # None
               PROVE  Lags(e, position'[s])
    BY <1>1 DEF PositionsLag, Lags
  <2>1. s \in Streams /\ position'[s] \in {checkpoint[s], position[s]}
    BY <1>1, Config
  <2> QED
    BY <1>4, <2>1 DEF IInv, PositionsLag
<1>6. PositionsWritten(checkpoint)' /\ PositionsLag(checkpoint)'
  BY <1>1, <1>4 DEF IInv, PositionsWritten, PositionsLag, Written, Lags
<1> DEFINE start == startOfGroup(position', Group)
<1>7. /\ start \in 0..MaxLookback
      /\ (\A s \in Group : position'[s] = None) => start = InitialLookback
      /\ (\E s \in Group : position'[s] # None) =>
           \E s \in Group : position'[s] # None /\ start = Less(MaxLookback, age[position'[s]] + Lookback)
  <2>1. PositionsWritten(position')
    BY <1>1, <1>3 DEF PositionsWritten, Written
  <2> QED
    BY <1>2, <1>3, <2>1, StartRange DEF IInv
<1>8. w.from = start /\ w.to \in 0..start
  <2>1. w.from = start /\ w.to = More(0, start - MaxWindow)
    BY DEF window
  <2> HIDE DEF start, w
  <2>2. \A n \in 0..MaxLookback : More(0, n - MaxWindow) \in 0..n
    BY Config DEF More
  <2> QED
    BY <1>7, <2>1, <2>2
<1> HIDE DEF w, start
<1>9. /\ cycle' \in Cycles /\ cycle'.stage = "reading" /\ cycle'.group = g /\ cycle'.due = InWindow(w)
      /\ cycle'.read = {} /\ cycle'.pages = 0 /\ cycle'.to = w.to /\ cycle'.from = w.from
      /\ cycle'.to <= cycle'.from
  <2>1. w.from \in 0..Old /\ w.to \in 0..Old /\ w.to <= w.from /\ InWindow(w) \subseteq Events
    BY <1>7, <1>8, Config DEF InWindow
  <2>2. 0 \in 0..MaxPages /\ 0 \in 0..(MaxAttempts - 1)
    BY Config
  <2> QED
    BY <1>1, <1>2, <2>1, <2>2 DEF Cycles
<1>10. TypeOK'
  <2>1. loaded' \subseteq DOMAIN Groups /\ delivered' \subseteq Events /\ backlog' \subseteq Events
    BY <1>1, <1>2 DEF IInv, TypeOK, forget, OfGroup
  <2> QED
    BY <1>1, <1>3, <1>9, <2>1 DEF IInv, TypeOK, Cycles, Positions
<1>11. (delivered \subseteq Dealt)'
  BY <1>1 DEF IInv, forget, Dealt
<1>12. ReadOfGroup' /\ AllRead' /\ DealtBeforeCommit' /\ PagesLeft'
  BY <1>9, Config DEF ReadOfGroup, AllRead, DealtBeforeCommit, PagesLeft, At
<1>13. OthersLag'
  <2> SUFFICES ASSUME NEW e \in Events \ InWindow(w), stream[e] \in Group, Owed(e)'
               PROVE  age[e] <= w.to + Lookback \/ age[e] > MaxLookback
    BY <1>1, <1>2, <1>9 DEF OthersLag, Group
  <2>1. age[e] \in 0..Old /\ Written(e)
    BY <1>1, CycleType DEF IInv, Owed, Written
  <2>2. age[e] < w.to \/ age[e] > w.from
    BY <1>7, <1>8, <2>1 DEF InWindow
  <2>3. CASE age[e] < w.to
    BY <1>7, <1>8, <2>1, <2>3, Config
  <2>4. CASE age[e] > w.from
    <3>1. e \notin Dealt /\ e \notin backlog'
      BY <1>4 DEF Owed
    <3>2. ~\A s \in Group : position'[s] = None
      BY <1>1, <2>4, <3>1 DEF OfGroup
    <3>3. PICK s \in Group : position'[s] # None /\ start = Less(MaxLookback, age[position'[s]] + Lookback)
      BY <1>7, <3>2
    <3>4. Lags(e, position'[s])
      BY <1>1, <1>2, <1>5, <3>3 DEF PositionsLag, Lags
    <3>5. age[position'[s]] \in 0..Old
      BY <1>1, <1>2, <1>3, <3>3, CycleType, Config DEF IInv, Positions, PositionsWritten, Written
    <3> QED
      BY <1>7, <1>8, <2>1, <2>4, <3>3, <3>4, <3>5, Config DEF Lags, Less
  <2> QED
    BY <2>2, <2>3, <2>4
<1> QED
  BY <1>3, <1>5, <1>6, <1>10, <1>11, <1>12, <1>13 DEF IInv

\* A page: the last one of a window that was empty, the last one, one of more
\* to come, or one too many.
LEMMA ReadPageIInv ==
  ASSUME IInv, ReadPage
  PROVE  IInv'
<1>1. PICK page \in SUBSET (InWindow(cycle) \ cycle.read) :
        LET c == [cycle EXCEPT !.read = @ \cup page, !.pages = @ + 1, !.attempts = 0]
        IN \/ /\ LastPage(c) /\ c.read = {} /\ Proceed(c) /\ UNCHANGED exhausted
           \/ /\ LastPage(c) /\ c.read # {}
              /\ cycle' = [c EXCEPT !.stage = IF Records(c) = {} THEN "committing" ELSE "delivering"]
              /\ UNCHANGED <<polled, exhausted>>
           \/ /\ ~LastPage(c) /\ c.pages < MaxPages /\ cycle' = c
              /\ UNCHANGED <<polled, exhausted>>
           \/ /\ ~LastPage(c) /\ c.pages >= MaxPages
              /\ cycle' = Idle /\ exhausted' = TRUE /\ UNCHANGED polled
  BY DEF ReadPage
<1> DEFINE c == [cycle EXCEPT !.read = cycle.read \cup page, !.pages = cycle.pages + 1, !.attempts = 0]
<1>2. UNCHANGED <<age, journal, checkpoint, position, loaded, delivered, backlog, faults>> /\ At("reading")
  BY DEF ReadPage, memory
<1>3. /\ PositionsWritten(checkpoint)' /\ PositionsWritten(position)'
      /\ PositionsLag(checkpoint)' /\ PositionsLag(position)' /\ (delivered \subseteq Dealt)'
  BY <1>2, Quiet DEF IInv, Dealt
<1>4. /\ c \in Cycles /\ c.group = cycle.group /\ c.from = cycle.from /\ c.to = cycle.to /\ c.due = cycle.due
      /\ c.read = cycle.read \cup page /\ c.pages = cycle.pages + 1 /\ c.stage = "reading"
  <2>1. cycle \in Cycles /\ cycle.pages < MaxPages /\ page \subseteq Events
    BY <1>2, CycleType DEF IInv, PagesLeft, InWindow
  <2>2. cycle.pages + 1 \in 0..MaxPages /\ 0 \in 0..(MaxAttempts - 1)
    BY <2>1, Config DEF Cycles
  <2>3. cycle.read \cup page \subseteq Events
    BY <2>1, CycleType DEF IInv
  <2> QED
    BY <1>2, <2>1, <2>2, <2>3 DEF Cycles, At
<1>5. \/ /\ LastPage(c) /\ c.read = {} /\ Proceed(c) /\ UNCHANGED exhausted
      \/ /\ LastPage(c) /\ c.read # {}
         /\ cycle' = [c EXCEPT !.stage = IF Records(c) = {} THEN "committing" ELSE "delivering"]
         /\ UNCHANGED <<polled, exhausted>>
      \/ /\ ~LastPage(c) /\ c.pages < MaxPages /\ cycle' = c
         /\ UNCHANGED <<polled, exhausted>>
      \/ /\ ~LastPage(c) /\ c.pages >= MaxPages
         /\ cycle' = Idle /\ exhausted' = TRUE /\ UNCHANGED polled
  BY <1>1
<1> HIDE DEF c
<1>6. \A r \in c.read : Written(r) /\ stream[r] \in Group
  BY <1>4 DEF IInv, ReadOfGroup, InWindow
<1>7. \A e \in Events \ cycle.due : stream[e] \in Group /\ Owed(e) =>
        /\ \A r \in c.read : Lags(e, r)
        /\ age[e] <= cycle.to + Lookback \/ age[e] > MaxLookback
  <2> SUFFICES ASSUME NEW e \in Events \ cycle.due, stream[e] \in Group, Owed(e)
               PROVE  /\ \A r \in c.read : Lags(e, r)
                      /\ age[e] <= cycle.to + Lookback \/ age[e] > MaxLookback
    OBVIOUS
  <2>1. /\ \A r \in cycle.read : Lags(e, r)
        /\ age[e] <= cycle.to + Lookback \/ age[e] > MaxLookback
    BY <1>2 DEF IInv, OthersLag, At
  <2>2. ASSUME NEW r \in page
        PROVE  Lags(e, r)
    <3>1. r \in Events /\ Written(r) /\ cycle.to <= age[r]
      BY DEF InWindow
    <3>2. age[r] \in 0..Old /\ age[e] \in 0..Old /\ cycle.to \in 0..Old
      BY <3>1, CycleType DEF IInv, Owed
    <3> QED
      BY <2>1, <3>1, <3>2, Config DEF Lags
  <2> QED
    BY <1>4, <2>1, <2>2
<1>8. CASE Proceed(c) /\ UNCHANGED exhausted
  <2>1. /\ cycle' \in Cycles /\ cycle'.to <= cycle'.from /\ polled' \in BOOLEAN
        /\ cycle'.stage = "group" /\ cycle'.read = {}
    BY <1>4, <1>8, ProceedRests DEF IInv, TypeOK
  <2>2. TypeOK'
    BY <1>2, <1>8, <2>1 DEF IInv, TypeOK, Cycles
  <2> QED
    BY <1>3, <2>1, <2>2, Rest
<1>9. CASE /\ LastPage(c) /\ UNCHANGED <<polled, exhausted>>
           /\ cycle' = [c EXCEPT !.stage = IF Records(c) = {} THEN "committing" ELSE "delivering"]
  <2> DEFINE stage == IF Records(c) = {} THEN "committing" ELSE "delivering"
  <2>1. /\ cycle' \in Cycles /\ cycle'.stage = stage /\ cycle'.group = c.group /\ cycle'.from = c.from
        /\ cycle'.to = c.to /\ cycle'.due = c.due /\ cycle'.read = c.read
    BY <1>4, <1>9 DEF Cycles
  <2>2. TypeOK'
    BY <1>2, <1>4, <1>9, <2>1 DEF IInv, TypeOK, Cycles
  <2>3. ReadOfGroup'
    BY <1>2, <1>4, <1>6, <2>1 DEF ReadOfGroup, Group, Written
  <2>4. AllRead' /\ PagesLeft'
    BY <1>9, <2>1 DEF AllRead, PagesLeft, At, LastPage
  <2>5. DealtBeforeCommit'
    <3> SUFFICES ASSUME Records(c) = {} PROVE c.read \subseteq Dealt
      BY <1>2, <2>1 DEF DealtBeforeCommit, At, Dealt
    <3> QED
      BY <1>4 DEF Records, Record, IInv, Dealt, Cycles
  <2>6. OthersLag'
    BY <1>2, <1>4, <1>7, <2>1 DEF OthersLag, Lags, Owed, Written, Dealt, Group, At
  <2> QED
    BY <1>3, <2>2, <2>3, <2>4, <2>5, <2>6 DEF IInv
<1>10. CASE c.pages < MaxPages /\ cycle' = c /\ UNCHANGED <<polled, exhausted>>
  <2>1. TypeOK'
    BY <1>2, <1>4, <1>10 DEF IInv, TypeOK, Cycles
  <2>2. ReadOfGroup' /\ AllRead' /\ PagesLeft' /\ DealtBeforeCommit'
    BY <1>2, <1>4, <1>6, <1>10 DEF ReadOfGroup, Group, Written, AllRead, PagesLeft, DealtBeforeCommit, At
  <2>3. OthersLag'
    BY <1>2, <1>4, <1>7, <1>10 DEF OthersLag, Lags, Owed, Written, Dealt, Group, At
  <2> QED
    BY <1>3, <2>1, <2>2, <2>3 DEF IInv
<1>11. CASE cycle' = Idle /\ exhausted' = TRUE /\ UNCHANGED polled
  <2>1. TypeOK'
    BY <1>2, <1>11, AtRest DEF IInv, TypeOK, Cycles
  <2> QED
    BY <1>3, <1>11, <2>1, AtRest, Rest
<1> QED
  BY <1>5, <1>8, <1>9, <1>10, <1>11

\* The journal acknowledged: all that was read is dealt with.
LEMMA IngestRecordsIInv ==
  ASSUME IInv, IngestRecords
  PROVE  IInv'
<1>1. /\ UNCHANGED <<age, checkpoint, position, loaded, polled, exhausted, backlog, faults>>
      /\ journal' = journal \cup Taken /\ delivered' = delivered \cup Records(cycle)
      /\ At("delivering") /\ cycle' = [cycle EXCEPT !.stage = "committing"]
  BY DEF IngestRecords
<1>2. /\ cycle' \in Cycles /\ cycle'.stage = "committing" /\ cycle'.group = cycle.group
      /\ cycle'.from = cycle.from /\ cycle'.to = cycle.to /\ cycle'.due = cycle.due /\ cycle'.read = cycle.read
  BY <1>1, CycleType DEF IInv, Cycles
<1>3. Records(cycle) \subseteq Events /\ Taken \subseteq Events /\ cycle.read \subseteq Events
  BY CycleType DEF IInv, Records, Taken
<1>4. TypeOK'
  BY <1>1, <1>2, <1>3 DEF IInv, TypeOK, Cycles
<1>5. /\ PositionsWritten(checkpoint)' /\ PositionsWritten(position)'
      /\ PositionsLag(checkpoint)' /\ PositionsLag(position)'
      /\ Dealt \subseteq Dealt' /\ \A e \in Events : Owed(e)' => Owed(e)
  BY <1>1, Quiet
<1>6. Records(cycle) \subseteq Dealt'
  BY <1>1 DEF Dealt, Taken
<1>7. (delivered \subseteq Dealt)'
  BY <1>1, <1>5, <1>6 DEF IInv
<1>8. DealtBeforeCommit'
  <2>1. cycle.read \subseteq Records(cycle) \cup delivered \cup Unusable
    BY DEF Records, Record
  <2>2. Unusable \subseteq Dealt'
    BY DEF Dealt
  <2> QED
    BY <1>2, <1>5, <1>6, <2>1, <2>2 DEF DealtBeforeCommit, IInv
<1>9. ReadOfGroup' /\ AllRead' /\ PagesLeft'
  BY <1>1, <1>2 DEF IInv, ReadOfGroup, AllRead, PagesLeft, At, Group, Written
<1>10. OthersLag'
  BY <1>1, <1>2, <1>5 DEF IInv, OthersLag, Lags, Group, At
<1> QED
  BY <1>4, <1>5, <1>7, <1>8, <1>9, <1>10 DEF IInv

\* commit: a position moves to what was read, and what was read was dealt with.
LEMMA MovedLags ==
  ASSUME IInv, At("committing"), NEW at \in Positions, PositionsWritten(at), PositionsLag(at)
  PROVE  Moved(at) \in Positions /\ PositionsWritten(Moved(at)) /\ PositionsLag(Moved(at))
<1>1. ASSUME NEW s \in Pending
      PROVE  s \in Group /\ Reached(s) \in cycle.read
  <2> DEFINE es == {e \in cycle.read : stream[e] = s}
  <2>1. es \in SUBSET Events /\ es # {} /\ age \in [Events -> -1..Old]
    BY CycleType DEF Pending, IInv, TypeOK
  <2>2. Newest(es) \in es
    BY <2>1, NewestOf
  <2> QED
    BY <2>2 DEF Pending, Reached
<1>2. cycle.read \subseteq Events /\ Group = Groups[cycle.group] /\ cycle.group \in DOMAIN Groups
  BY CycleType DEF IInv, Group
<1>3. \A s \in Streams : Moved(at)[s] = IF s \in Pending THEN Reached(s) ELSE at[s]
  BY DEF Moved
<1>4. Moved(at) \in Positions
  BY <1>1, <1>2 DEF Moved, Positions
<1>5. PositionsWritten(Moved(at))
  BY <1>1, <1>3 DEF PositionsWritten, IInv, ReadOfGroup
<1>6. PositionsLag(Moved(at))
  <2> SUFFICES ASSUME NEW i \in DOMAIN Groups, NEW e \in Events, NEW s \in Groups[i],
                      stream[e] \in Groups[i], Owed(e), Moved(at)[s] # None
               PROVE  Lags(e, Moved(at)[s])
    BY DEF PositionsLag
  <2>1. s \in Streams
    BY Config
  <2>2. CASE s \notin Pending
    BY <1>3, <2>1, <2>2 DEF PositionsLag
  <2>3. CASE s \in Pending
    <3>1. i = cycle.group /\ Reached(s) \in cycle.read
      BY <1>1, <1>2, <2>3, Config
    <3>2. e \notin cycle.due
      BY DEF IInv, AllRead, DealtBeforeCommit, At, Owed
    <3>3. Lags(e, Reached(s))
      BY <1>2, <3>1, <3>2 DEF IInv, OthersLag, At
    <3> QED
      BY <1>3, <2>1, <2>3, <3>3
  <2> QED
    BY <2>2, <2>3
<1> QED
  BY <1>4, <1>5, <1>6

\* All the streams of the group move at once, in the store and in memory.
LEMMA CommitIInv ==
  ASSUME IInv, Commit
  PROVE  IInv'
<1>1. /\ UNCHANGED <<age, journal, loaded, delivered, exhausted, backlog, faults>>
      /\ checkpoint' = Moved(checkpoint) /\ position' = Moved(position)
      /\ At("committing") /\ Proceed(cycle)
  BY DEF Commit
<1>2. cycle \in Cycles /\ checkpoint \in Positions /\ position \in Positions
  BY CycleType DEF IInv
<1>3. /\ Moved(checkpoint) \in Positions /\ PositionsWritten(Moved(checkpoint)) /\ PositionsLag(Moved(checkpoint))
      /\ Moved(position) \in Positions /\ PositionsWritten(Moved(position)) /\ PositionsLag(Moved(position))
  BY <1>1, <1>2, MovedLags DEF IInv
<1>4. /\ PositionsWritten(checkpoint)' /\ PositionsWritten(position)'
      /\ PositionsLag(checkpoint)' /\ PositionsLag(position)'
  BY <1>1, <1>3 DEF PositionsWritten, PositionsLag, Written, Owed, Dealt, Lags
<1>5. /\ cycle' \in Cycles /\ cycle'.to <= cycle'.from /\ polled' \in BOOLEAN
      /\ cycle'.stage = "group" /\ cycle'.read = {}
  BY <1>1, <1>2, ProceedRests DEF IInv, TypeOK
<1>6. TypeOK' /\ (delivered \subseteq Dealt)'
  BY <1>1, <1>3, <1>5 DEF IInv, TypeOK, Cycles, Positions, Dealt
<1> QED
  BY <1>4, <1>5, <1>6, Rest

\* A batch that failed may have been stored.
LEMMA CommitFailsIInv ==
  ASSUME IInv, CommitFails
  PROVE  IInv'
<1>1. /\ UNCHANGED <<age, journal, position, loaded, delivered, polled, exhausted, backlog>>
      /\ At("committing") /\ cycle' = Idle /\ Fault
      /\ checkpoint' \in {checkpoint, Moved(checkpoint)}
  BY DEF CommitFails, memory
<1>2. checkpoint \in Positions /\ position \in Positions
  BY CycleType DEF IInv
<1>3. checkpoint' \in Positions /\ PositionsWritten(checkpoint') /\ PositionsLag(checkpoint')
  BY <1>1, <1>2, MovedLags DEF IInv
<1>4. PositionsWritten(checkpoint)' /\ PositionsLag(checkpoint)'
  BY <1>1, <1>3 DEF PositionsWritten, PositionsLag, Written, Owed, Dealt, Lags
<1>5. PositionsWritten(position)' /\ PositionsLag(position)'
  BY <1>1 DEF IInv, PositionsWritten, PositionsLag, Written, Owed, Dealt, Lags
<1>6. faults' \in 0..MaxFaults
  BY <1>1, FaultCounted DEF IInv
<1>7. TypeOK' /\ (delivered \subseteq Dealt)'
  BY <1>1, <1>3, <1>6, AtRest DEF IInv, TypeOK, Cycles, Positions, Dealt
<1> QED
  BY <1>1, <1>4, <1>5, <1>7, AtRest, Rest

\* An event that becomes visible is no more than a lookback old.
LEMMA WriteIInv ==
  ASSUME IInv, NEW w \in Events, Write(w)
  PROVE  IInv'
<1>1. PICK a \in 0..Lookback : age' = [age EXCEPT ![w] = a]
  BY DEF Write
<1>2. /\ UNCHANGED <<journal, checkpoint, position, loaded, delivered, cycle, polled, exhausted, backlog, faults>>
      /\ ~Written(w) /\ age \in [Events -> -1..Old]
  BY DEF Write, memory, IInv, TypeOK
<1>3. age'[w] = a /\ \A e \in Events \ {w} : age'[e] = age[e]
  BY <1>1, <1>2
<1>4. TypeOK'
  <2>1. a \in -1..Old
    BY CloudWatchAssumption, Config DEF Configured
  <2> QED
    BY <1>1, <1>2, <2>1 DEF IInv, TypeOK
<1>5. \A e \in Events : Written(e) => Written(e)' /\ age'[e] = age[e]
  BY <1>2, <1>3 DEF Written
<1>6. ASSUME NEW e \in Events, NEW c \in Events, Written(c), Owed(e)', e # w => Lags(e, c)
      PROVE  Lags(e, c)'
  <2>1. age'[c] = age[c] /\ age[c] \in Nat
    BY <1>5, <1>6, CycleType, Config DEF IInv
  <2>2. CASE e = w
    BY <1>3, <2>1, <2>2, Config DEF Lags
  <2> QED
    BY <1>3, <1>6, <2>1, <2>2 DEF Lags
<1>7. \A e \in Events \ {w} : Owed(e)' => Owed(e)
  BY <1>2, <1>3 DEF Owed, Written, Dealt
<1>8. PositionsWritten(checkpoint)' /\ PositionsWritten(position)'
  BY <1>2, <1>5, CycleType DEF IInv, PositionsWritten, Positions
<1>9. ASSUME NEW at \in Positions, PositionsWritten(at), PositionsLag(at)
      PROVE  \A i \in DOMAIN Groups : \A e \in Events, s \in Groups[i] :
               stream[e] \in Groups[i] /\ Owed(e)' /\ at[s] # None => LagsAfter(e, at[s])
  <2> SUFFICES ASSUME NEW i \in DOMAIN Groups, NEW e \in Events, NEW s \in Groups[i],
                      stream[e] \in Groups[i], Owed(e)', at[s] # None
               PROVE  LagsAfter(e, at[s])
    OBVIOUS
  <2>1. at[s] \in Events /\ Written(at[s])
    BY <1>9, Config DEF Positions, PositionsWritten
  <2>2. e # w => Lags(e, at[s])
    BY <1>7, <1>9 DEF PositionsLag
  <2> QED
    BY <1>6, <2>1, <2>2 DEF Lags, LagsAfter
<1>10. PositionsLag(checkpoint)' /\ PositionsLag(position)'
  <2>1. checkpoint \in Positions /\ position \in Positions
    BY CycleType DEF IInv
  <2>2. /\ \A i \in DOMAIN Groups : \A e \in Events, s \in Groups[i] :
             stream[e] \in Groups[i] /\ Owed(e)' /\ checkpoint[s] # None => LagsAfter(e, checkpoint[s])
        /\ \A i \in DOMAIN Groups : \A e \in Events, s \in Groups[i] :
             stream[e] \in Groups[i] /\ Owed(e)' /\ position[s] # None => LagsAfter(e, position[s])
    BY <1>9, <2>1 DEF IInv
  <2> QED
    BY <1>2, <2>2 DEF PositionsLag, Lags, LagsAfter
<1>11. (delivered \subseteq Dealt)' /\ AllRead' /\ DealtBeforeCommit' /\ PagesLeft'
  BY <1>2 DEF IInv, Dealt, AllRead, DealtBeforeCommit, PagesLeft, At
<1>12. ReadOfGroup'
  BY <1>2, <1>5, CycleType DEF IInv, ReadOfGroup, Group
<1>13. OthersLag'
  <2> SUFFICES ASSUME cycle.stage \in {"reading", "delivering", "committing"},
                      NEW e \in Events \ cycle.due, stream[e] \in Group, Owed(e)'
               PROVE  /\ \A r \in cycle.read : Lags(e, r)'
                      /\ At("reading") => age'[e] <= cycle.to + Lookback \/ age'[e] > MaxLookback
    BY <1>2 DEF OthersLag, At, Group, Lags
  <2>1. CASE e = w
    <3>1. cycle.to \in Nat /\ age'[e] \in 0..Lookback
      BY <1>3, <2>1, CycleType, Config DEF IInv
    <3>2. \A r \in cycle.read : Lags(e, r)'
      BY <1>6, <2>1, CycleType DEF IInv, ReadOfGroup
    <3> QED
      BY <3>1, <3>2, Config
  <2>2. CASE e # w
    <3>1. /\ \A r \in cycle.read : Lags(e, r)
          /\ At("reading") => age[e] <= cycle.to + Lookback \/ age[e] > MaxLookback
      BY <1>7, <2>2 DEF IInv, OthersLag
    <3>2. \A r \in cycle.read : Lags(e, r)'
      BY <1>6, <3>1, CycleType DEF IInv, ReadOfGroup
    <3> QED
      BY <1>3, <2>2, <3>1, <3>2
  <2> QED
    BY <2>1, <2>2
<1> QED
  BY <1>4, <1>8, <1>10, <1>11, <1>12, <1>13 DEF IInv

\* What the clock does to ages keeps them as far apart, up to the floor.
LEMMA OlderLags ==
  ASSUME NEW a \in 0..Old, NEW b \in 0..Old, a <= b + Lookback \/ a > MaxLookback
  PROVE  Older(a) <= Older(b) + Lookback \/ Older(a) > MaxLookback
BY Config DEF Older, Less

\* Ages and the window's range count up together.
LEMMA TickIInv ==
  ASSUME IInv, Tick
  PROVE  IInv'
<1>1. /\ UNCHANGED <<journal, checkpoint, position, loaded, delivered, exhausted, backlog>>
      /\ age' = [e \in Events |-> Older(age[e])] /\ polled' = FALSE
      /\ cycle' = IF At("reading") THEN [cycle EXCEPT !.from = Older(@), !.to = Older(@)] ELSE cycle
  BY DEF Tick, memory
<1>2. \A a \in -1..Old : Older(a) \in -1..Old /\ (Older(a) >= 0 <=> a >= 0)
  BY Config DEF Older, Less
<1>3. age' \in [Events -> -1..Old] /\ \A e \in Events : age'[e] = Older(age[e]) /\ (Written(e)' <=> Written(e))
  BY <1>1, <1>2, CycleType DEF IInv, Written
<1>4. /\ cycle' \in Cycles /\ cycle'.to <= cycle'.from /\ cycle'.stage = cycle.stage
      /\ cycle'.group = cycle.group /\ cycle'.due = cycle.due /\ cycle'.read = cycle.read
      /\ cycle'.pages = cycle.pages /\ (At("reading") => cycle'.to = Older(cycle.to))
  <2>1. cycle \in Cycles /\ cycle.to <= cycle.from /\ cycle.to \in 0..Old /\ cycle.from \in 0..Old
    BY CycleType DEF IInv
  <2>2. Older(cycle.to) \in 0..Old /\ Older(cycle.from) \in 0..Old /\ Older(cycle.to) <= Older(cycle.from)
    BY <2>1, Config DEF Older, Less
  <2>3. CASE At("reading")
    <3>1. cycle' = [cycle EXCEPT !.from = Older(cycle.from), !.to = Older(cycle.to)]
      BY <1>1, <2>3
    <3> QED
      BY <2>1, <2>2, <3>1 DEF Cycles
  <2>4. CASE ~At("reading")
    BY <1>1, <2>1, <2>4
  <2> QED
    BY <2>3, <2>4
<1>5. faults' \in 0..MaxFaults
  BY FaultCounted DEF IInv, Tick
<1>6. TypeOK'
  BY <1>1, <1>3, <1>4, <1>5 DEF IInv, TypeOK, Cycles
<1>7. \A e \in Events : Owed(e)' <=> Owed(e)
  BY <1>1, <1>3 DEF Owed, Dealt
<1>8. ASSUME NEW e \in Events, NEW c \in Events, Written(e), Written(c), Lags(e, c)
      PROVE  Lags(e, c)'
  <2>1. age[e] \in 0..Old /\ age[c] \in 0..Old
    BY <1>8, CycleType DEF IInv
  <2> QED
    BY <1>3, <1>8, <2>1, OlderLags DEF Lags
<1>9. PositionsWritten(checkpoint)' /\ PositionsWritten(position)'
  BY <1>1, <1>3, CycleType DEF IInv, PositionsWritten, Positions
<1>10. ASSUME NEW at \in Positions, PositionsWritten(at), PositionsLag(at)
       PROVE  \A i \in DOMAIN Groups : \A e \in Events, s \in Groups[i] :
                stream[e] \in Groups[i] /\ Owed(e) /\ at[s] # None => LagsAfter(e, at[s])
  <2> SUFFICES ASSUME NEW i \in DOMAIN Groups, NEW e \in Events, NEW s \in Groups[i],
                      stream[e] \in Groups[i], Owed(e), at[s] # None
               PROVE  LagsAfter(e, at[s])
    OBVIOUS
  <2>1. at[s] \in Events /\ Written(at[s])
    BY <1>10, Config DEF Positions, PositionsWritten
  <2>2. Lags(e, at[s])
    BY <1>10 DEF PositionsLag
  <2> QED
    BY <1>8, <2>1, <2>2 DEF Owed, Lags, LagsAfter
<1>11. PositionsLag(checkpoint)' /\ PositionsLag(position)'
  <2>1. checkpoint \in Positions /\ position \in Positions
    BY CycleType DEF IInv
  <2>2. /\ \A i \in DOMAIN Groups : \A e \in Events, s \in Groups[i] :
             stream[e] \in Groups[i] /\ Owed(e) /\ checkpoint[s] # None => LagsAfter(e, checkpoint[s])
        /\ \A i \in DOMAIN Groups : \A e \in Events, s \in Groups[i] :
             stream[e] \in Groups[i] /\ Owed(e) /\ position[s] # None => LagsAfter(e, position[s])
    BY <1>10, <2>1 DEF IInv
  <2> QED
    BY <1>1, <1>7, <2>2 DEF PositionsLag, Lags, LagsAfter
<1>12. /\ (delivered \subseteq Dealt)' /\ AllRead' /\ DealtBeforeCommit' /\ PagesLeft' /\ ReadOfGroup'
  <2>1. ReadOfGroup'
    BY <1>3, <1>4, CycleType DEF IInv, ReadOfGroup, Group
  <2> QED
    BY <1>1, <1>4, <2>1 DEF IInv, Dealt, AllRead, DealtBeforeCommit, PagesLeft, At
<1>13. OthersLag'
  <2> SUFFICES ASSUME cycle.stage \in {"reading", "delivering", "committing"},
                      NEW e \in Events \ cycle.due, stream[e] \in Group, Owed(e)
               PROVE  /\ \A r \in cycle.read : Lags(e, r)'
                      /\ At("reading") => age'[e] <= cycle'.to + Lookback \/ age'[e] > MaxLookback
    BY <1>4, <1>7 DEF OthersLag, At, Group, Lags
  <2>1. /\ \A r \in cycle.read : Lags(e, r)
        /\ At("reading") => age[e] <= cycle.to + Lookback \/ age[e] > MaxLookback
    BY DEF IInv, OthersLag
  <2>2. \A r \in cycle.read : Lags(e, r)'
    BY <1>8, <2>1, CycleType DEF IInv, ReadOfGroup, Owed
  <2>3. age[e] \in 0..Old /\ cycle.to \in 0..Old
    BY CycleType DEF IInv, Owed
  <2> QED
    BY <1>3, <1>4, <2>1, <2>2, <2>3, OlderLags
<1> QED
  BY <1>6, <1>9, <1>11, <1>12, <1>13 DEF IInv

-----------------------------------------------------------------------------
(* The theorems.                                                           *)

\* Nothing was written or read to begin with.
LEMMA InitIInv == Init => IInv
<1> SUFFICES ASSUME Init PROVE IInv
  OBVIOUS
<1>1. TypeOK
  <2>1. -1 \in -1..Old /\ 0 \in 0..MaxFaults
    BY Config
  <2> QED
    BY <2>1, AtRest DEF Init, TypeOK, Cycles
<1>2. PositionsWritten(checkpoint) /\ PositionsWritten(position)
  BY DEF Init, PositionsWritten
<1>3. PositionsLag(checkpoint) /\ PositionsLag(position)
  BY Config DEF Init, PositionsLag
<1>4. delivered \subseteq Dealt
  BY DEF Init
<1>5. ReadOfGroup /\ AllRead /\ DealtBeforeCommit /\ PagesLeft /\ OthersLag
  BY AtRest DEF Init, ReadOfGroup, AllRead, DealtBeforeCommit, PagesLeft, OthersLag, At
<1> QED
  BY <1>1, <1>2, <1>3, <1>4, <1>5 DEF IInv

\* Every step keeps the invariant.
LEMMA NextIInv == IInv /\ [Next]_vars => IInv'
<1> SUFFICES ASSUME IInv, [Next]_vars PROVE IInv'
  OBVIOUS
<1>1. CASE UNCHANGED vars
  BY <1>1 DEF vars, memory, IInv, TypeOK, Dealt, PositionsWritten, PositionsLag, ReadOfGroup, AllRead,
              DealtBeforeCommit, PagesLeft, OthersLag, Lags, Owed, Written, Group, At
<1>2. CASE Poll
  BY <1>2, PollGroupIInv, ReadPageIInv, IngestRecordsIInv, CommitIInv DEF Poll
<1>3. CASE Failure
  BY <1>3, ThrottledIInv, PollFailsIInv, IngestFailsIInv, CommitFailsIInv DEF Failure
<1> QED
  BY <1>1, <1>2, <1>3, WriteIInv, CrashIInv, NewIInv, TickIInv DEF Next

\* The invariant of every reachable state.
THEOREM Invariant == Spec => []IInv
<1>1. Init => IInv
  BY InitIInv
<1>2. IInv /\ [Next]_vars => IInv'
  BY NextIInv
<1> QED
  BY <1>1, <1>2, PTL DEF Spec

\* Every variable of the source keeps its type; the attempts and the pages of a
\* cycle stay within their budgets.
THEOREM TypeCorrect == Spec => []TypeOK
<1>1. IInv => TypeOK
  BY DEF IInv
<1> QED
  BY <1>1, Invariant, PTL

\* What lags behind every durable position of its group is read by a restart.
LEMMA LagIsRead == IInv => NothingSkipped
<1> SUFFICES ASSUME IInv, NEW i \in DOMAIN Groups, NEW e \in Events,
                    stream[e] \in Groups[i], Owed(e), \E s \in Groups[i] : checkpoint[s] # None
             PROVE  age[e] <= startOfGroup(checkpoint, Groups[i]) \/ age[e] > MaxLookback
  BY DEF NothingSkipped
<1>1. PICK s \in Groups[i] :
        checkpoint[s] # None /\ startOfGroup(checkpoint, Groups[i]) = Less(MaxLookback, age[checkpoint[s]] + Lookback)
  BY StartRange, CycleType DEF IInv
<1>2. Lags(e, checkpoint[s])
  BY <1>1 DEF IInv, PositionsLag
<1>3. age[checkpoint[s]] \in 0..Old /\ age[e] \in 0..Old
  BY <1>1, CycleType, Config DEF IInv, Positions, PositionsWritten, Owed
<1> QED
  BY <1>1, <1>2, <1>3, Config DEF Lags, Less

\* "A checkpoint written before the journal acknowledged would silently drop
\* records on the next restart": no reachable checkpoint does.
THEOREM CheckpointsNeverSkip == Spec => []NothingSkipped
BY LagIsRead, Invariant, PTL

=============================================================================
