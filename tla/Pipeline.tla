------------------------------- MODULE Pipeline -------------------------------
(***************************************************************************)
(* pipeline.Service: the worker that leads acknowledged records from the   *)
(* journal through the rule engine into CockroachDB.  One worker process,  *)
(* its journal (Process runs under a mutex, one journal per replica), one  *)
(* incident family and the database.                                       *)
(*                                                                         *)
(* The journal is the queue of ClaimQueue with the time each lease has     *)
(* left.  This worker is its only claimant and a fresh claim replaces the  *)
(* worker's copy, so a copy's token is current exactly while the journal   *)
(* shows the record leased: the tokens themselves are left out.            *)
(*                                                                         *)
(* A definition directly above the one it is a slip of, such as            *)
(* fiveInFiveOwnWindow above fiveInFiveSatisfied, is that definition's     *)
(* mutant: the specification does not use it.                              *)
(***************************************************************************)
EXTENDS IncidentEngine

CONSTANTS
  Unsupported,  \* records fingerprint.Error refuses
  Conflicting,  \* records another replica persisted under this id, with other content
  Limit,        \* the cohort limit given to Process
  TTL,          \* journal.ClaimTTL
  None, Foreign,
  StartTime, MaxTime,     \* bounds of the clock; it stops at the latter, leases do not
  MaxStalls, MaxCrashes   \* bounds: ticks while a cycle runs, and crashes

ASSUME PoisonAssumption == Unsupported \subseteq Records /\ Conflicting \subseteq Records
ASSUME LimitsAssumption ==
  /\ Limit \in Nat \ {0} /\ TTL \in Nat \ {0}
  /\ {StartTime, MaxTime, MaxStalls, MaxCrashes} \subseteq Nat /\ StartTime <= MaxTime

VARIABLES
  now, stalls, crashes,
  status, left,  \* the journal: each record's state, and what is left of its lease
  db,            \* seen: records_seen and occurrences; occurrences: the generations
                 \*   with their counts; active: the family has an investigation
  pc, cycleNow,  \* where Process stands, and the clock it read on entry
  claimed,       \* Service.claimed
  due, fresh,    \* claims to renew; claims made this cycle and not yet looked at
  todo,          \* the cohorts persistClaims has still to persist, first one first
  eng            \* Service.engine, the family's state

memory == <<pc, cycleNow, claimed, due, fresh, todo, eng>>
vars   == <<now, stalls, crashes, status, left, db, memory>>

Steps == {"down", "idle", "renew", "claim", "cohort", "persist", "mark"}

-----------------------------------------------------------------------------
(* CockroachDB: ProcessBatch, one transaction over a cohort in id order.   *)

\* What is persisted of a record: its generation and whether it is evidence only.
Keys     == {DeploymentOf[r] : r \in Records} \X {EventTime[r] : r \in Records}
Verdicts == [generation : Keys, evidenceOnly : BOOLEAN]
Databases ==
  [seen        : [Records -> Verdicts \cup {None, Foreign}],
   occurrences : UNION {[G -> Nat] : G \in SUBSET Keys},
   active      : BOOLEAN]
ASSUME NoneAssumption ==
  None # Foreign /\ {None, Foreign} \cap Verdicts = {} /\ None \notin Databases

Persisted(d, r) == d.seen[r] \notin {None, Foreign}
Contributors(d, generation) ==
  {r \in Records : Persisted(d, r) /\ d.seen[r].generation = generation /\ ~d.seen[r].evidenceOnly}

\* Some endpoint whose window r may have completed now has a threshold in it.
fiveInFiveOwnWindow(d, r, generation) ==
  Cardinality({m \in Contributors(d, generation) :
                 EventTime[m] \in (EventTime[r] - InvestigationWindow + 1)..EventTime[r]}) >= InvestigationThreshold
fiveInFiveSatisfied(d, r, generation) ==
  \E endpoint \in Contributors(d, generation) :
    /\ EventTime[endpoint] \in EventTime[r]..(EventTime[r] + InvestigationWindow - 1)
    /\ Cardinality({m \in Contributors(d, generation) :
                      EventTime[m] \in (EventTime[endpoint] - InvestigationWindow + 1)..EventTime[endpoint]})
         >= InvestigationThreshold

Rejects(d, r, decision) ==
  \/ d.seen[r] = Foreign
  \/ d.seen[r] = None /\ decision.evidenceOnly /\ decision.generation \notin DOMAIN d.occurrences

\* The generation's row, made by the first contribution to it.
canonicalGeneration(d, generation) ==
  [d EXCEPT !.occurrences =
     [g \in DOMAIN @ \cup {generation} |-> IF g \in DOMAIN @ THEN @[g] ELSE 0]]

\* An investigation the family has already is kept.
activateInvestigation(d) == [d EXCEPT !.active = TRUE]

\* A contribution: its generation, its occurrence, and what it may complete.
contribute(d, r, decision) ==
  LET g == decision.generation
      e == [canonicalGeneration(d, g) EXCEPT !.seen[r] = decision, !.occurrences[g] = @ + 1]
  IN IF fiveInFiveSatisfied(e, r, g) THEN activateInvestigation(e) ELSE e

processOneRecounting(d, r, decision) ==
  IF decision.evidenceOnly THEN [d EXCEPT !.seen[r] = decision]
  ELSE contribute(d, r, decision)
processOne(d, r, decision) ==
  IF Persisted(d, r) THEN d  \* a duplicate: already counted
  ELSE IF decision.evidenceOnly THEN [d EXCEPT !.seen[r] = decision]
  ELSE contribute(d, r, decision)

\* The whole cohort, or None when one input is invalid and nothing is written.
ProcessBatch(d, cohort) ==
  FoldLeft(LAMBDA acc, r : IF acc = None \/ Rejects(acc, r, Decision(eng, r)) THEN None
                           ELSE processOne(acc, r, Decision(eng, r)),
           d, byId(cohort))

-----------------------------------------------------------------------------
(* The journal as the worker sees it.                                      *)

Terminal == {"committed", "quarantined"}
Current(r) == status[r] = "claimed" /\ left[r] > 0
Become(S, s) == [r \in Records |-> IF r \in S THEN s ELSE status[r]]
Lease(S, ticks) == [r \in Records |-> IF r \in S THEN ticks ELSE left[r]]

\* Ingest: acknowledged once appended; a replay of a known record is a no-op.
Ingest(r) ==
  /\ pc # "down" /\ status[r] = "absent" /\ now >= ObservedTime[r]
  /\ status' = [status EXCEPT ![r] = "pending"]
  /\ UNCHANGED <<now, stalls, crashes, left, db, memory>>

\* Every return of Process but the crash: the engine and the claims stay.
Return == pc' = "idle" /\ due' = {} /\ fresh' = {} /\ todo' = <<>>

-----------------------------------------------------------------------------
(* Process.                                                                *)

\* The clock is read once; holdClaims drops what lapsed by it and takes for
\* renewal what has at most half its lease left.
holdClaims ==
  /\ pc = "idle"
  /\ cycleNow' = now
  /\ claimed' = {r \in claimed : Current(r)}
  /\ due' = {r \in claimed' : left[r] <= TTL \div 2}
  /\ pc' = IF due' = {} THEN "claim" ELSE "renew"
  /\ UNCHANGED <<now, stalls, crashes, status, left, db, fresh, todo, eng>>

\* A stale member makes the batch fall apart into single renewals; whatever is
\* stale by itself is forgotten here.
RenewClaims ==
  /\ pc = "renew"
  /\ left' = Lease({r \in due : Current(r)}, TTL)
  /\ claimed' = {r \in claimed : r \in due => Current(r)}
  /\ due' = {} /\ pc' = "claim"
  /\ UNCHANGED <<now, stalls, crashes, status, db, cycleNow, fresh, todo, eng>>

\* The journal expires lapsed leases first, this worker's own included.
waitingHeldBack == {r \in Records : status[r] = "pending"}
waiting == {r \in Records : status[r] = "pending" \/ (status[r] = "claimed" /\ left[r] = 0)}
Claim ==
  /\ pc = "claim"
  /\ pc' = "cohort"
  /\ \/ /\ Cardinality(claimed) < Limit
        /\ \E taken \in kSubset(Earlier(Limit - Cardinality(claimed), Cardinality(waiting)), waiting) :
             /\ status' = [r \in Records |-> IF r \in taken THEN "claimed"
                                             ELSE IF r \in waiting THEN "pending" ELSE status[r]]
             /\ left' = Lease(taken, TTL)
             /\ fresh' = taken
     \/ /\ Cardinality(claimed) >= Limit
        /\ UNCHANGED <<status, left, fresh>>
  /\ UNCHANGED <<now, stalls, crashes, db, cycleNow, claimed, due, todo, eng>>

\* Quarantine needs a current claim; without one Process returns the error.
Quarantine(r) ==
  /\ status' = [status EXCEPT ![r] = "quarantined"]
  /\ claimed' = claimed \ {r}

ObserveClaim(r) ==
  /\ pc = "cohort" /\ r \in fresh
  /\ \/ /\ r \notin Unsupported
        /\ eng' = Observe(eng, r)
        /\ claimed' = claimed \cup {r} /\ fresh' = fresh \ {r}
        /\ UNCHANGED <<status, pc, due, todo>>
     \/ /\ r \in Unsupported /\ Current(r)
        /\ Quarantine(r)
        /\ fresh' = fresh \ {r}
        /\ UNCHANGED <<pc, due, todo, eng>>
     \/ /\ r \in Unsupported /\ ~Current(r)
        /\ claimed' = claimed \cup {r}
        /\ Return
        /\ UNCHANGED <<status, eng>>
  /\ UNCHANGED <<now, stalls, crashes, left, db, cycleNow>>

\* Pin, Advance, and a cohort of what has a decision.
DecideUnpinned ==
  /\ pc = "cohort" /\ fresh = {}
  /\ eng' = Advance(eng, cycleNow, {})
  /\ LET cohort == {r \in claimed : Decided(eng', r)}
     IN /\ todo' = IF cohort = {} THEN <<>> ELSE <<cohort>>
        /\ pc' = IF cohort = {} THEN "idle" ELSE "persist"
  /\ UNCHANGED <<now, stalls, crashes, status, left, db, cycleNow, claimed, due, fresh>>
Decide ==
  /\ pc = "cohort" /\ fresh = {}
  /\ eng' = Advance(eng, cycleNow, claimed)
  /\ LET cohort == {r \in claimed : Decided(eng', r)}
     IN /\ todo' = IF cohort = {} THEN <<>> ELSE <<cohort>>
        /\ pc' = IF cohort = {} THEN "idle" ELSE "persist"
  /\ UNCHANGED <<now, stalls, crashes, status, left, db, cycleNow, claimed, due, fresh>>

\* persistClaims, over the cohort whose turn it is.
Turn == pc = "persist"
Batch == Head(todo)

PersistCohort ==
  /\ Turn /\ ProcessBatch(db, Batch) # None
  /\ db' = ProcessBatch(db, Batch)
  /\ pc' = "mark"
  /\ UNCHANGED <<now, stalls, crashes, status, left, cycleNow, claimed, due, fresh, todo, eng>>

\* The database is unavailable, or commits and its answer is lost.
PersistFails ==
  /\ Turn
  /\ db' \in {db, ProcessBatch(db, Batch)} \ {None}
  /\ Return
  /\ UNCHANGED <<now, stalls, crashes, status, left, cycleNow, claimed, eng>>

\* An invalid input: halve the cohort in id order.
middleShort(n) == (n - 1) \div 2
middle(n) == n \div 2
firstOf(S, n) == {r \in S : Cardinality({q \in S : q < r}) < n}
Bisect ==
  /\ Turn /\ ProcessBatch(db, Batch) = None /\ Cardinality(Batch) > 1
  /\ LET front == firstOf(Batch, middle(Cardinality(Batch)))
     IN todo' = <<front, Batch \ front>> \o Tail(todo)
  /\ UNCHANGED <<now, stalls, crashes, status, left, db, pc, cycleNow, claimed, due, fresh, eng>>

\* The next cohort's turn.
Proceed ==
  /\ todo' = Tail(todo)
  /\ pc' = IF todo' = <<>> THEN "idle" ELSE "persist"
  /\ UNCHANGED <<due, fresh>>

IsolateWhole ==
  /\ Turn /\ ProcessBatch(db, Batch) = None
  /\ \A r \in Batch : Current(r)
  /\ status' = Become(Batch, "quarantined") /\ claimed' = claimed \ Batch /\ Proceed
  /\ UNCHANGED <<now, stalls, crashes, left, db, cycleNow, eng>>
\* Alone and invalid: isolated, unless the claim has lapsed meanwhile.
Isolate ==
  /\ Turn /\ ProcessBatch(db, Batch) = None
  /\ \E r \in Records :
       /\ Batch = {r}
       /\ \/ Current(r) /\ Quarantine(r) /\ Proceed
          \/ ~Current(r) /\ Return /\ UNCHANGED <<status, claimed>>
  /\ UNCHANGED <<now, stalls, crashes, left, db, cycleNow, eng>>

MarkCommittedHeld ==
  /\ pc = "mark" /\ \A r \in claimed : Current(r)
  /\ status' = Become(claimed, "committed") /\ claimed' = {} /\ Return
  /\ UNCHANGED <<now, stalls, crashes, left, db, cycleNow, eng>>
\* MarkCommittedBatch: all of the cohort, or none when one claim is stale.
MarkCommitted ==
  /\ pc = "mark"
  /\ \/ /\ \A r \in Batch : Current(r)
        /\ status' = Become(Batch, "committed")
        /\ claimed' = claimed \ Batch
        /\ Proceed
     \/ /\ \E r \in Batch : ~Current(r)
        /\ Return
        /\ UNCHANGED <<status, claimed>>
  /\ UNCHANGED <<now, stalls, crashes, left, db, cycleNow, eng>>

-----------------------------------------------------------------------------
(* The process dies (or its journal turns unhealthy, which only a restart  *)
(* mends), and New rebuilds the engine from the retained records in id     *)
(* order and adopts the unexpired claims.                                  *)

Crash ==
  /\ pc # "down" /\ crashes < MaxCrashes
  /\ crashes' = crashes + 1
  /\ pc' = "down" /\ claimed' = {} /\ due' = {} /\ fresh' = {} /\ todo' = <<>>
  /\ eng' = NoFamily /\ cycleNow' = Zero
  /\ UNCHANGED <<now, stalls, status, left, db>>

Adopted == {r \in Records : Current(r)}
Retained == {r \in Records : status[r] \in {"pending", "claimed", "committed"}}
replayOf(S) == FoldLeft(Observe, NoFamily, byId(S))
New ==
  /\ pc = "down" /\ pc' = "idle"
  /\ eng' = replayOf(Retained \ Unsupported)
  /\ claimed' = Adopted
  /\ UNCHANGED <<now, stalls, crashes, status, left, db, cycleNow, due, fresh, todo>>

\* Time passes: freely between cycles, and MaxStalls times within one.
Tick ==
  /\ pc \notin {"down", "idle"} => stalls < MaxStalls
  /\ stalls' = IF pc \in {"down", "idle"} THEN stalls ELSE stalls + 1
  /\ now' = Earlier(now + 1, MaxTime)
  /\ left' = [r \in Records |-> IF left[r] = 0 THEN 0 ELSE left[r] - 1]
  /\ UNCHANGED <<crashes, status, db, memory>>

Init ==
  /\ now = StartTime /\ stalls = 0 /\ crashes = 0
  /\ status = [r \in Records |-> "absent"] /\ left = [r \in Records |-> 0]
  /\ db = [seen |-> [r \in Records |-> IF r \in Conflicting THEN Foreign ELSE None],
           occurrences |-> <<>>, active |-> FALSE]
  /\ pc = "idle" /\ cycleNow = Zero /\ claimed = {} /\ due = {} /\ fresh = {} /\ todo = <<>>
  /\ eng = NoFamily

Work ==
  \/ holdClaims \/ RenewClaims \/ Claim \/ Decide
  \/ \E r \in Records : ObserveClaim(r)
  \/ PersistCohort \/ PersistFails \/ Bisect \/ Isolate \/ MarkCommitted

Next == Work \/ (\E r \in Records : Ingest(r)) \/ Crash \/ New \/ Tick

Spec == Init /\ [][Next]_vars

\* The runtime calls Process over and over, a dead process is restarted, time
\* passes, and a database asked for ever answers some day.  The first two are
\* weak fairness of Work and New with what enables them written out: Process
\* always has a next step while the process lives, New while it does not.
Fairness ==
  /\ []<>(pc = "down") \/ []<><<Work>>_vars
  /\ []<>(pc # "down")
  /\ SF_vars(Tick) /\ SF_vars(PersistCohort) /\ SF_vars(Bisect) /\ SF_vars(Isolate)
FairSpec == Spec /\ Fairness

-----------------------------------------------------------------------------
(* Properties.                                                             *)

\* Every variable has its type, and the engine's bookkeeping names records.
TypeOK ==
  /\ now \in StartTime..MaxTime /\ stalls \in 0..MaxStalls /\ crashes \in 0..MaxCrashes
  /\ status \in [Records -> {"absent", "pending", "claimed", "committed", "quarantined"}]
  /\ left \in [Records -> 0..TTL]
  /\ db.seen \in [Records -> Verdicts \cup {None, Foreign}]
  /\ DOMAIN db.occurrences \subseteq Keys
  /\ pc \in Steps /\ cycleNow \in {Zero} \cup StartTime..MaxTime
  /\ claimed \subseteq Records /\ due \subseteq claimed /\ fresh \subseteq Records
  /\ \A i \in DOMAIN todo : todo[i] \subseteq claimed /\ todo[i] # {}
  /\ Seen(eng) \subseteq Records /\ eng.events \cap eng.evidence = {}

\* "Journal commit happens only after the CockroachDB transaction": whatever
\* failed, lapsed, was halved or retried, a committed record is in the database.
CommittedPersisted ==
  \A r \in Records : status[r] = "committed" => Persisted(db, r)

\* However often a record is persisted again, after a lost answer or a restart
\* that decided it differently, the occurrence counts are those of the records.
CountedOnce ==
  \A g \in DOMAIN db.occurrences : db.occurrences[g] = Cardinality(Contributors(db, g))

\* five-in-five is decided the same whatever order the records arrived in: an
\* investigation is active exactly when some window of a generation is full.
InvestigatedInAnyOrder ==
  db.active <=> \E g \in DOMAIN db.occurrences : \E e \in Contributors(db, g) :
     Cardinality({m \in Contributors(db, g) :
        EventTime[m] > EventTime[e] - InvestigationWindow /\ EventTime[m] <= EventTime[e]})
       >= InvestigationThreshold

\* Quarantine destroys the payload, so "only record-local invalidity may reach
\* it": of the records that contribute to an episode, only those that can never
\* be identified or that contradict what is persisted under their id.
ContributionsKept ==
  [][\A r \in Records :
       status[r] # "quarantined" /\ status'[r] = "quarantined"
         => r \in Unsupported \cup Conflicting \cup eng.evidence]_vars

\* The same for every record, evidence included.
OnlyPoisonQuarantined ==
  [][\A r \in Records :
       status[r] # "quarantined" /\ status'[r] = "quarantined" => r \in Unsupported \cup Conflicting]_vars

\* While the worker holds a record and does not die, its decision once reached
\* stays; and it stays the same, for a refold adopts the identity an episode was
\* assigned.  It can change only when compaction, which releases what nobody
\* holds, splits the episode of the record or merges it with a neighbour.
episodeOf(f, r) == f.generations[generationContaining(f, r)].records
leftWhole(f, g, r) ==
  \E i \in DOMAIN g.generations :
     g.generations[i].records \cap Seen(f) = episodeOf(f, r) \cap Seen(g)
DecisionStable ==
  [][\A r \in claimed \cap claimed' :
       pc' # "down" /\ Decided(eng, r)
         => /\ Decided(eng', r)
            /\ leftWhole(eng, eng', r) => Decision(eng', r) = Decision(eng, r)]_vars

\* An episode is persisted under one generation: two generations of a deployment
\* (no other deployment intervening) begin a whole reopen window apart, for a
\* late record must not change the topology of an episode already finalized.
EpisodesDistinct ==
  \A g, h \in DOMAIN db.occurrences :
     g[1] = h[1] /\ g[2] < h[2] => g[2] + ReopenWindow <= h[2]

\* Every acknowledged record is in the end committed or quarantined.
Processed ==
  \A r \in Records \ Unsupported : status[r] = "pending" ~> status[r] \in Terminal
Terminated ==
  \A r \in Records : status[r] = "pending" ~> status[r] \in Terminal

=============================================================================
