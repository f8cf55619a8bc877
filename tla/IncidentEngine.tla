---------------------------- MODULE IncidentEngine ----------------------------
(***************************************************************************)
(* The in-memory rule engine of static-log-analysis, incident.Engine, as   *)
(* operators over the state of one incident family.  Families share        *)
(* nothing but the worker that feeds them, so one is enough to observe.    *)
(*                                                                         *)
(* A family folds its contributing records, in event-time order, into      *)
(* deployment episodes (generations).  What lies strictly behind the       *)
(* finalization frontier is frozen: an arrival behind it is evidence only. *)
(***************************************************************************)
EXTENDS Integers, Sequences, FiniteSets, SequencesExt

CONSTANTS
  Records,         \* record ids, ordered as the code's strings are
  EventTime, ObservedTime, DeploymentOf,  \* of each record
  AllowedLateness, QuietPeriod, ReopenWindow,
  InvestigationWindow, InvestigationThreshold, ReinvestigationInterval

Zero == 0  \* time.Time{}: earlier than every instant the service sees
StateRetention == InvestigationWindow + AllowedLateness + ReopenWindow

ASSUME RecordsAssumption == Records \subseteq Nat /\ IsFiniteSet(Records)
ASSUME TimesAssumption ==
  /\ \A r \in Records : /\ EventTime[r] \in Nat /\ EventTime[r] > StateRetention + AllowedLateness
                        /\ ObservedTime[r] \in Nat /\ DeploymentOf[r] \in Nat
  /\ {AllowedLateness, QuietPeriod, ReopenWindow, InvestigationWindow,
      InvestigationThreshold, ReinvestigationInterval} \subseteq Nat \ {0}

NoFamily ==
  [events |-> {},         \* the retained contributing records
   evidence |-> {},       \* the retained evidence-only records, and
   attached |-> {},       \*   those of them that may attach to a generation
   generations |-> <<>>, prunedGenerations |-> 0,
   maxEventTime |-> Zero, watermark |-> Zero, finalizedThrough |-> Zero, advancedTo |-> Zero,
   lastActivity |-> Zero, activeInvestigation |-> FALSE]

Later(s, t) == IF s > t THEN s ELSE t
Earlier(s, t) == IF s < t THEN s ELSE t
Seen(f) == f.events \cup f.evidence

boundedActivity(r) == Earlier(EventTime[r], ObservedTime[r])

\* The order episodes are folded in: event time, deployment, record id.
sortsBefore(q, r) ==
  \/ EventTime[q] < EventTime[r]
  \/ /\ EventTime[q] = EventTime[r]
     /\ DeploymentOf[q] < DeploymentOf[r] \/ (DeploymentOf[q] = DeploymentOf[r] /\ q < r)

\* The members of S as a sequence: the k-th has k - 1 before it.  (What the
\* community modules sort with is SortSeq of TLC, which the provers do not know.)
inOrder(S, before(_, _)) ==
  [k \in 1..Cardinality(S) |-> CHOOSE i \in S : Cardinality({j \in S : before(j, i)}) = k - 1]
byId(S)   == inOrder(S, <)
byTime(S) == inOrder(S, sortsBefore)

newGeneration(deployment) ==
  [deployment |-> deployment, records |-> {}, firstOccurrence |-> Zero, lastActivity |-> Zero]
addContribution(g, r) ==
  [g EXCEPT !.records = @ \cup {r},
            !.firstOccurrence = IF @ = Zero THEN EventTime[r] ELSE Earlier(@, EventTime[r]),
            !.lastActivity = Later(@, boundedActivity(r))]

\* One fold step: a record joins the last episode, unless the deployment
\* changed or the episode went silent for a whole reopen window.
extend(generations, r) ==
  LET g == Last(generations)
  IN IF \/ generations = <<>>
        \/ g.deployment # DeploymentOf[r]
        \/ boundedActivity(r) >= g.lastActivity + ReopenWindow
     THEN Append(generations, addContribution(newGeneration(DeploymentOf[r]), r))
     ELSE [generations EXCEPT ![Len(generations)] = addContribution(g, r)]

\* An episode keeps the start it was assigned when it began; only an older
\* contribution may lower it.
adopt(g, prior) == [g EXCEPT !.firstOccurrence = Earlier(@, prior.firstOccurrence)]

\* Each folded episode, in order, adopts the earliest assignment not yet passed
\* that any of its records held.
adoptNext(prior, acc, g) ==
  LET held == {i \in DOMAIN prior : i > acc.cursor /\ prior[i].records \cap g.records # {}}
  IN IF held = {} THEN [acc EXCEPT !.folded = Append(@, g)]
     ELSE [folded  |-> Append(acc.folded, adopt(g, prior[Min(held)])),
           cursor  |-> Min(held),
           adopted |-> acc.adopted \cup {Min(held)}]

episodesOf(events) == FoldLeft(extend, <<>>, byTime(events))
adoptAll(prior, episodes) ==
  FoldLeft(LAMBDA acc, g : adoptNext(prior, acc, g),
           [folded |-> <<>>, cursor |-> 0, adopted |-> {}], episodes)

\* What is left of an episode all of whose records were released.
shellOf(prior) == [prior EXCEPT !.records = {}]

\* The order of episodes, ties kept as they are.
beginsBefore(generations, i, j) ==
  LET g == generations[i]  h == generations[j]
  IN \/ g.firstOccurrence < h.firstOccurrence
     \/ /\ g.firstOccurrence = h.firstOccurrence
        /\ g.deployment < h.deployment \/ (g.deployment = h.deployment /\ i < j)
byStart(generations) ==
  inOrder(DOMAIN generations, LAMBDA i, j : beginsBefore(generations, i, j))

foldEpisodes(f, events) ==
  LET prior  == f.generations
      acc    == adoptAll(prior, episodesOf(events))
      gone   == {i \in DOMAIN prior \ acc.adopted : prior[i].records \cap events = {}}
      shells == [k \in 1..Cardinality(gone) |-> shellOf(prior[byId(gone)[k]])]
      all    == acc.folded \o shells
  IN [k \in DOMAIN all |-> all[byStart(all)[k]]]

\* The episode late evidence belongs to: the last of its deployment that began
\* by then, else the first of its deployment; 0 when there is none.
generationForEvidence(generations, r) ==
  LET same  == {i \in DOMAIN generations : generations[i].deployment = DeploymentOf[r]}
      begun == {i \in same : generations[i].firstOccurrence <= EventTime[r]}
  IN IF begun # {} THEN Max(begun) ELSE IF same # {} THEN Min(same) ELSE 0

attachRetainedEvidence(generations, attached) ==
  {generationForEvidence(generations, r) : r \in attached} \ {0}

\* The leading episodes that keep neither records nor evidence are released.
releaseLeadingEmptyEpisodes(generations, attached) ==
  LET kept == {i \in DOMAIN generations : generations[i].records # {}}
                \cup attachRetainedEvidence(generations, attached)
  IN IF kept = {} THEN Len(generations) ELSE Min(kept) - 1

rebuild(f, events, evidence) ==
  LET folded == foldEpisodes(f, events)
      lead   == releaseLeadingEmptyEpisodes(folded, evidence \cap f.attached)
  IN [f EXCEPT !.events = events, !.evidence = evidence,
               !.attached = @ \cap evidence,
               !.generations = SubSeq(folded, lead + 1, Len(folded)),
               !.prunedGenerations = @ + lead]

\* A whole threshold of records within one window, its endpoint finalized.
thresholdGeneration(f) ==
  \E i \in DOMAIN f.generations : \E endpoint \in f.generations[i].records :
     /\ EventTime[endpoint] < f.finalizedThrough
     /\ Cardinality({r \in f.generations[i].records :
                       EventTime[r] \in (EventTime[endpoint] - InvestigationWindow + 1)..EventTime[endpoint]})
          >= InvestigationThreshold
launch(f) == [f EXCEPT !.activeInvestigation = @ \/ thresholdGeneration(f)]

\* Observe moves the watermark and the frontier to the newest event time, then
\* files the record behind the frontier as evidence, or folds it in.
seenAt(f, r) ==
  LET newest == f.maxEventTime = Zero \/ EventTime[r] > f.maxEventTime
      mark   == EventTime[r] - AllowedLateness
  IN [f EXCEPT !.maxEventTime = IF newest THEN EventTime[r] ELSE @,
               !.watermark = IF newest THEN mark ELSE @,
               !.finalizedThrough = IF newest THEN Later(@, mark) ELSE @,
               !.lastActivity = Later(@, boundedActivity(r))]
quietEvidence(f, r) == f.advancedTo # Zero /\ f.advancedTo >= boundedActivity(r) + QuietPeriod
isEvidence(f, r) == EventTime[r] < f.finalizedThrough \/ quietEvidence(f, r)
attaches(f, r) ==
  EventTime[r] >= f.watermark - StateRetention /\ generationForEvidence(f.generations, r) # 0

attachEvidence(f, r) ==
  [f EXCEPT !.evidence = @ \cup {r}, !.attached = IF attaches(f, r) THEN @ \cup {r} ELSE @]

Observe(f, r) ==
  LET g == seenAt(f, r)
  IN IF r \in Seen(f) THEN f
     ELSE IF isEvidence(g, r)
     THEN attachEvidence(g, r)
     ELSE launch(IF \A q \in g.events : sortsBefore(q, r)
                 THEN [g EXCEPT !.events = @ \cup {r}, !.generations = extend(@, r)]
                 ELSE rebuild(g, g.events \cup {r}, g.evidence))

\* Advance moves the frontier with the clock, and releases what lies behind the
\* retention horizon unless a worker still holds it (Pin).
retentionHorizon(f, now) == Later(f.watermark, now - AllowedLateness) - StateRetention
prune(f, now, pinned) ==
  LET kept    == {r \in Seen(f) : EventTime[r] >= retentionHorizon(f, now) \/ r \in pinned}
      g       == rebuild(f, f.events \cap kept, f.evidence \cap kept)
  IN IF kept = Seen(f) THEN f ELSE g
released(f, now) ==
  Seen(f) = {} /\ ~(f.activeInvestigation /\ now < f.lastActivity + ReinvestigationInterval)

Advance(f, now, pinned) ==
  LET frontier == Earlier(now - AllowedLateness, f.maxEventTime + 1)
      moved    == launch([f EXCEPT !.advancedTo = Later(@, now),
                                   !.finalizedThrough = Later(@, frontier)])
      pruned   == prune(moved, now, pinned)
  IN IF f = NoFamily THEN f ELSE IF released(pruned, now) THEN NoFamily ELSE pruned

\* PersistenceDecision: only what lies strictly behind the frontier, in an
\* episode that began behind it, has one.
generationContaining(f, r) ==
  IF r \in f.evidence
  THEN IF r \in f.attached THEN generationForEvidence(f.generations, r) ELSE 0
  ELSE LET holds == {i \in DOMAIN f.generations : r \in f.generations[i].records}
       IN IF holds = {} THEN 0 ELSE Min(holds)
Decided(f, r) ==
  /\ r \in Seen(f) /\ EventTime[r] < f.finalizedThrough
  /\ generationContaining(f, r) # 0
  /\ f.generations[generationContaining(f, r)].firstOccurrence < f.finalizedThrough
\* The storage key, a hash that does not collide.
GenerationKey(deployment, episodeStart) == <<deployment, episodeStart>>
Decision(f, r) ==
  LET g == f.generations[generationContaining(f, r)]
  IN [generation |-> GenerationKey(g.deployment, g.firstOccurrence), evidenceOnly |-> r \in f.evidence]

=============================================================================
