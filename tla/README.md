# A verification project for the log-analysis and remediation service

TLA+ modules, TLC configurations and TLAPS proofs about the Go code of this
repository. The repository has two programs that carry its own logic:
`services/static-log-analysis`, which takes logs in, keeps them in a durable
journal, groups errors into incidents and hands investigations to a queue, and
`agent_space`, which takes investigations off that queue, runs a language-model
agent and proposes fixes. The paths below are relative to
`src/services/static-log-analysis/internal` unless they start with `agent_space`
or `docs`.

Run a model with `tlc -config MCJournal.cfg MCJournal`, and the proofs of a
component with `tlapm JournalProofs.tla`, and so for the other modules named
`...Proofs` and for `SumTheorems`. Every passing run ends within four minutes
with two workers.

## 1. The system

```
 OTLP -> otlpreceiver -> admission, normalize, redact, enrich --.
                                                                v
 CloudWatch -> cloudwatch.Poll --------------------> pipeline.Ingest
                                                                v
                                     journal (Pebble, one volume per replica)
                                            |  claim, renew, commit, quarantine
                                            v
                      runtime.worker -> pipeline.Process <-> incident.Engine (memory)
                                            |  one transaction per cohort
                                            v
                                       CockroachDB (records_seen, occurrences,
                                            |       investigations, outbox)
                                            v
                      outbox.Publisher -> SQS -> agent_space/worker -> verdict
                                                                          v
                         GitHub <- requests of engineers -> agent_space/remediation
```

| Component | State it keeps | Operations | What is hard | What makes it correct |
|---|---|---|---|---|
| `journal` | records, tombstones, batches, five index namespaces, counters; one synchronized batch per operation | AppendBatch, Claim, RenewClaims, MarkCommittedBatch, Quarantine, Compact, Open | commits that fail or whose answer is lost, reopening, lapsed leases and stale tokens, replayed and overlapping batches, the byte ceiling | an acknowledged record stays; every volume it writes it can open; a stale token changes nothing; transitions always fit |
| `pipeline` | the claims it holds; the engine | Ingest, Process (hold, claim, observe, decide, persist, commit), New | a lease that lapses mid-cycle, a lost database answer, one bad record in a cohort, a restart | committed implies persisted; nothing counted twice; only bad records quarantined; nothing left behind |
| `incident` | per family: contributions, evidence, episodes, frontier, watermark | Observe, Advance (with compaction), Pin, PersistenceDecision | records out of order and late, compaction under a held record | a decision does not change while it is needed |
| `persistence` (processing) | database tables | ProcessBatch | arrival order, retries, other replicas | idempotent; five-in-five does not depend on order |
| `persistence` (orchestration), `outbox` | outbox rows with claim, attempt and next attempt; a publisher's batch of claims | ClaimOutbox, MarkOutboxPublished, RetryOutbox, PublishCycle | a lease that lapses during a publish, releases that count as attempts, dead letters, a row of another deployment | every committed assignment is delivered or dead-lettered; nothing is buried that was never offered; one delivery at a time |
| `admission`, `normalize`, `otlpreceiver` | slots for what is in flight | Decode, three filters, shedding, one handler per export over gRPC or HTTP | positions renumbered by each filter, a slot across a panic, answers that race a forced stop | what the sender was told is what was kept |
| `enrich` | the deployment cache and the calls for it | Lookup, resolve, evict, Close | an answer for an entry that was evicted, or evicted and put back | no entry waits for a call that is gone |
| `cloudwatch` | per stream position, delivered ids, checkpoints | Poll | a crash between delivery and checkpoint, late events, long gaps, page budgets | no event above the floor is passed unjournaled |
| `runtime` | which workers run | Start, Shutdown, Drain, the worker and poll loops | forced stop, a query that never returns, draining what never decides | the journal closes after its users; drained means empty; a shutdown ends |
| `agent_space/worker`, `agent_space/utils/queue` | investigation records, bounded memory over a table | Run, handle, heartbeat, AbandonStale | redelivery, lost heartbeats, crash between steps, two processes | an investigation is paid for once and not lost |
| `agent_space/remediation` | job pool, remediations, candidates, decisions | Enqueue, Run, Supersede, OpenPullRequest, RecordDecision | a run and an engineer's request at once, calls to GitHub with a lost answer | one pull request per candidate; one generation to choose from; no claim beyond what ran |
| `agent_space/remediation` (sandbox, patch, triage) | a container's staged output | scripts, readers of their output, checks of proposed files, the repair loop | output cut anywhere, markers run together with output | a result is read only from a stage that ended |
| dashboard, docker, docs, migrations, commands | - | - | - | - |

The components interact by calls inside one process (receiver, pipeline,
journal, engine), through the database (replicas, publishers, agents) and through
the queue (publisher, agent worker). `PROJECT.json` lists every component with
its status and, under `hazards`, what can go wrong in it and at which line.

## 2. The modules

| Module | Models | Composes |
|---|---|---|
| `Journal` | `journal.Journal`, all of its mutating operations | implements `ClaimQueue` |
| `ClaimQueue` | what the journal promises: jobs leased under tokens that never come twice | - |
| `IncidentEngine` | `incident.Engine` for one family, as operators | - |
| `Pipeline` | `pipeline.Service` with its worker, database transactions, crash and restart | `IncidentEngine`; the journal as the queue of `ClaimQueue` with the time left of each lease |
| `Admission` | `admission` and `normalize`: from one OTLP request to the records kept, as operators | - |
| `Enrichment` | `enrich.Cache`, its state and its steps | - |
| `Replica` | `otlpreceiver`, `pipeline.Ingest`, `runtime`: one replica from its listeners to its journal, in any role, through drain and shutdown | `Admission`, `Enrichment`; the journal as record states; the worker and the poller as loops |
| `CloudWatch` | `cloudwatch.Source` over its groups, with the checkpoint store | - |
| `Delivery` | what the outbox promises: an assignment is owed until a queue has accepted it | - |
| `Outbox` | `outbox.Publisher` and the outbox half of `persistence/orchestration.go` | implements `Delivery` |
| `AgentWorker` | `agent_space` worker, queue client, agent loop and results store | - |
| `Sandbox` | `agent_space` sandbox, triage, inspection, patch checks, propose-verify-repair, as sets of results | - |
| `Remediation` | the remediation pool, its store, the handlers that change it, GitHub and the index | `Sandbox` |
| `MC...` | small instances | - |
| `JournalProofs`, `PipelineProofs`, `OutboxProofs`, `CloudWatchProofs`, `AgentWorkerProofs`, `RemediationProofs`, `ReplicaProofs` | theorems about the module they are named for | - |
| `SumTheorems` | lemmas about sums over finite sets, and about folds and recursions | - |

A definition directly above the one it is a slip of (`LapsedKeysLost` above
`LapsedKeys`) is used by no specification. Each property has one: put in place of
the right definition, TLC finds that property violated.

Time. `Journal` and `Pipeline` have clocks with a bound. The other modules keep
what each lease, timeout, pause or age has left, so a clock needs none. In every
module, a number of faults (failed or slow calls, lost answers, stalls,
cancellations, crashes, duplicates) is shared by all that may go wrong; the
bounds on it are `MaxFaults`, `MaxStalls` and `MaxCrashes`.

### Journal

Each variable is a namespace of the key space: `record` (nsRecord), `tombstone`
(nsQuarantine), `batch` (nsBatch), `pendingKeys`, `claimKeys`, `committedKeys`,
`reserves`, `batchRefs`, `originalRefs`, and of the manifest the persisted counts
`priorities` and the persisted usage `bytes`.
The index namespaces are kept apart from the records although they can be
derived, because the code writes them apart and `verify`, run by every `Open`,
refuses a volume on which they disagree. `healthy` is `Journal.healthy`. A
commit that fails leaves the journal unusable until it is reopened, and it may
have failed before or after the disk had it: every action ends with `healthy'`
either way, and `CommitFails` is the failure that wrote nothing. `Claim` commits
twice, as the code does, and the second commit may fail alone. `Open` needs
`verify`, so a volume the journal could not reopen would be a deadlock as well
as a violation.

Two history variables: `owed`, what has been acknowledged and not yet committed
or quarantined by a caller, and `issued`, every token handed out. Callers may
present any token ever issued, however stale.

Left out: encodings (decode failures of untouched bytes), the free-space probe,
the order among pending records of one priority (left open), and batches above
the transition limit (callers' inputs, refused before anything happens). Bytes
are a cost per record, index key, owner, token, reserve, tombstone, batch and
member of either list of a batch, with the relation between reserve, owner and
token that `types.go` states. `bytes` changes as `commitMutation` changes it: the
old value of every key a mutation sets or deletes is taken off (`Freed`), the new
value of every key it sets is added (`Charged`), and nothing is ever summed over
the volume again; `usage` is that sum, which `verify` computes and compares. Of
what `verify` checks, the decoding of keys, values and checksums is left out.

### IncidentEngine and Pipeline

The engine's operators follow `incident.go` function by function: `extend` and
the full `rebuild`, the adoption of earlier episode identities
(`adoptNext`), identity-only shells, `releaseLeadingEmptyEpisodes`,
`attachEvidence`, `prune` with pins, release of an idle family. Families interact
only through the worker, so there is one. Detection status, context versions,
quiet and reopen bounds are left out: none feeds back into episodes or decisions.
`inOrder` gives a set's members by rank, where the code sorts a slice.

`Pipeline` breaks `Process` where another actor can act or something can fail:

| Action | Code |
|---|---|
| `holdClaims`, `RenewClaims` | drop lapsed copies, renew those under half a lease; one stale member falls back to one by one |
| `Claim`, `ObserveClaim` | journal claims, then each fresh claim observed or quarantined |
| `Decide` | Pin, Advance, the cohort of decided records |
| `PersistCohort`, `PersistFails` | one transaction; unavailable, or committed with the answer lost |
| `Bisect`, `Isolate` | an invalid input halves the cohort down to one, which is quarantined |
| `MarkCommitted` | the whole cohort or none |
| `Crash`, `New` | memory lost; engine rebuilt from retained records in id order, unexpired claims adopted |
| `Ingest`, `Tick` | an acknowledged append; time, with leases running down |

Claim tokens are not in `Pipeline`. The worker is the journal's only claimant
and a fresh claim replaces its copy, so a copy is current exactly while the
journal shows the record leased; what tokens guard against is checked in
`Journal` and in its refinement of `ClaimQueue`. The other replica appears as a
row already in the database under the same id and other content (`Conflicting`); an
input invalid for another reason (`persistence/processing.go:511`) would be bisected and
isolated in the same way.

### Admission, Enrichment and Replica

`Admission` takes a request as the tree the wire holds. `Decode` bounds the whole
request and drops records that nest too deep; normalization projects what is left a
second time, with a weight and a limit of its own (`Projects`), and drops what has no
identity and what is too large once materialized; near capacity, records that are
safe and of an eligible source may be shed. Each stage renumbers what is left,
and the reply must name positions of the wire: `AnsweredAsKept` compares what the
sender heard, position by position, with what the journal holds. Of a value a
record keeps how deep it nests, how many nodes and bytes it has and what the
checks ask of it. An entry of the cache in `Enrichment` has its status, whether
the provider is due and whether a call is in flight; `earlier` relates two entries
by which was looked up first, and leaves those the clock could not tell apart
unrelated: of them the code evicts whichever its map yields first. That the clock is
read before the lock, so that two racing lookups may be noted the other way round, is
left out. `calls` counts the goroutines that wait for a slot or run, which outlive the
entry they were started for. `Lookup` starts the call in the same step, where the code
does so after the unlock: in between the entry is in flight and nothing else looks at
the call. With the cache closed the code ends it there and then, and so does `Lookup`.

| Action of `Replica` | Code |
|---|---|
| `Arrive` | a free slot starts a handler; at the limit the answer is Unavailable and nothing changes |
| `BeginIngest`, `Normalize`, `Judge` | `MappedRequest`; one cache lookup per record; the filters and the shedding decision |
| `AppendToJournal`, `AppendFails` | `AppendBatch`: all or none, idempotent by id, a conflict when the content differs, full, closed |
| `Respond`, `Panic`, `AnswerLost` | what the transport makes of the outcome; the recovered panic; the collector tries again |
| `WorkerBegins`, `ClaimPending`, `Persist`, `QueryHangs` | the worker's cycle under `processMu`, and Drain's own Process |
| `PollReads`, `PollAppends`, `PollCommits` | the poller, whose calls look at the context on entry only |
| `BeginDrain`, `DrainAdvances` | receiver, source, statistics, process, until nothing is held |
| `BeginShutdown`, `Stop...`, `Close...`, `CutConnections`, `BudgetSpent` | the order of `Shutdown`, each step graceful or forced once the budget is spent |
| `Restart`, `Crash` | memory lost, the journal kept |

A handler is a goroutine and holds its slot while it is in `handlers`. A forced stop
of the HTTP server cuts connections and leaves handlers running; of the gRPC server
it waits for them. The record of the journal is what the digest that settles a
replay covers, the evidence and the deployment known at the time, and one of
pending, claimed, finished; what the journal does with an unanswered commit is
`Journal`'s. An export that sends one record twice, the deployment becoming known in
between, conflicts with itself: `AnsweredAsKept` allows that answer (`SentTwice`).
Two error paths of `Ingest` have no step because nothing can take them: the batch's
UUIDv7 (`normalize/normalize.go:249`) fails only if `crypto/rand` does, which the Go
in use never does, and an append of normalized records is never invalid to the
journal (`pipeline/pipeline.go:407`). The worker's wait for the mutex is folded into
`ClaimPending`. One flag, `spent`, serves the budgets of drain and shutdown, which
follow each other.

### CloudWatch

An event has an age, counted up to just beyond the floor, and a position is the
event it was taken from, so positions age with the clock. `PollGroup` loads the
group's checkpoints once, forgets delivered identities below the window and takes
the window; `ReadPage` reads up to `PageLimit` of what is due, possibly nothing, as
the API may, or what it had already returned; `Throttled` retries within
`MaxAttempts`; `IngestRecords` hands over what is new and `Commit` moves every
stream read. `IngestFails` and `CommitFails` each happen before or after the other
side took what it was given. A group that fails ends the cycle. `exhausted` marks a
window that outgrew its page budget, which the code refuses to pass and repeats.
Every event has a timestamp: one without, which moves no position
(`cloudwatch/adapter.go:492`), is not modelled. One history variable: `backlog`, the
events written before the window of a group that has no position yet. The
documentation says a new deployment does not import its backlog; with a first
lookback (15 minutes) below the floor (an hour) this also holds of the cycles before
the first checkpoint, so `NothingSkipped` is about what is not in it.

### Delivery and Outbox

| Action of `Outbox` | Code |
|---|---|
| `Commit` | a row committed with its investigation, by this deployment or another |
| `ClaimOutbox`, `ClaimsArrive` | one transaction over the oldest due rows, scope checks included; a batch with a row of another deployment is refused whole |
| `NextClaim`, `releaseNow` | the loop over a batch: `leaseCovers` before each send, and the release of all that is left when it does not |
| `Published`, `NotPublished` | the send: accepted, refused or slower than its timeout, perhaps accepted then too; `classify` and the attempts decide between release, retry and dead letter |
| `DeadLettered`, `NotDeadLettered` | the dead-letter send |
| `markPublished`, `retryAfter` | MarkOutboxPublished and RetryOutbox under the lease's fence; refused when it lapsed |
| `Cancel`, `Crash`, `Start`, `Tick` | a stop of the worker, loss of the claims in hand, and time |

Publishers and database share one clock, as leases with so much time left do.
`checkBoundary` (`publisher.go:246`) is left out: it repeats on each claim what the
claiming transaction has checked. The attempt number stops at `MaxAttempts`, a
bound; in the code it goes on, and with it the backoff up to its cap
(`publisher.go:365`), which the instance has reached by then. A token is its
publisher: a publisher runs one cycle at a time and forgets its claims with it, so
only the newest of its tokens can still be presented. A send that ran into its
timeout stays with the queue client: it may have been accepted.

### AgentWorker

Each process takes one message at a time: `Receive`, `Check` (Seen; exhausted, which
is recorded as failed even when the table could not be read, and may overwrite a
verdict), `Resolve` (the context row), the run (`Answer`, `AskForTools`, `execute`,
`executeLosesSession`, `RunFails`), `Ack`. `memory` is the bounded `Store` of a
process, oldest first; `table` outlives it. `Tick` is the heartbeat as well: it
renews the lease of what is being run unless a renewal is lost, and it lowers the
run's deadline. `Boot` runs `AbandonStale`; `Stop`, `Exit` and `Crash` end a
process. SQS is external: a message is queued under a visibility lease with a
delivery count, redrive takes it at the end (`Return`, `Duplicate`, `DeadLetter`).
`Calls` enumerates every kind of tool call a model may make and every kind of reply,
and `invoke` classifies them.

### Sandbox and Remediation

`Sandbox` has no state. A run of a container is the stages of its script that
ended and how the container ended after them; a stage's output may lack its last
newline, and the output may be cut in any line, markers included. What the readers
make of it, and what the patch checks and the repair loop make of every kind of
answer, are the sets `TriageEnds`, `InspectEnds` and `Proposed`. The harness ends
well when each target exists (`patch.go:710`), so a file that was there and could not
be overwritten counts as written, here as there. A build that prints an end marker
of its own is not modelled. A candidate carries `sound`: what it says was applied,
built and tested is what a container of its did, to the files it holds; or it has
failed in a repair round and says of the round before that a build or the tests
failed; and it replaces no listed file unseen.

| Action of `Remediation` | Code |
|---|---|
| `HandOver`, `StartRemediation` | the agent worker's hand-over and the engineer's restart, through `Enqueue` |
| `Begin`, `Triage`, `Inspect`, `FanOut`, `SaveCandidate`, `Finish` | `Runner.Run` at each write: the row, Supersede, each candidate, the end |
| `Click`, `CreateBranch`, `CreatePull`, `MarkOpened` | OpenPullRequest at each call to GitHub and the store |
| `Decide`, `SaveDecision`, `Forget`, `Add`, `MarkIndexed` | RecordDecision, its transaction and the index |
| `Crash`, `Boot` | pool and handlers lost; `AbandonStale`, which may fail |

A commit of `SaveDecision` may lose its answer: the decision is stored, the engineer
is told it failed, nothing is indexed. `lost` remembers what a failed call cost; the
properties excuse only that.

## 3. What the runs show

| Run | Instance | Shows |
|---|---|---|
| `journal` | 2 records, 3 batches over them, 2 identities per record, TTL and safety delay 1, clock to 3, a ceiling of 24 bytes, a record with its keys, references and batch costing 11, that is reached by appends and passed by an expiry | `TypeOK`; `IndexesAgree`, `BatchesAgree`, `CountersAgree` (`verify`, but for the decoding) in every state; `AcknowledgedKept`; `WithinCapacity`; `CommittedKept`; `NoResurrection`; `QueueSpec` (refinement) |
| `pipeline` | 2 contributors in either order and late, a conflicting record, cohorts of 2, TTL 2, 2 ticks inside cycles, one crash | `CommittedPersisted`, `CountedOnce`, `InvestigatedInAnyOrder`, `ContributionsKept`, `DecisionStable`, `TypeOK` |
| `pipeline_live` | a good, a conflicting and an unidentifiable record, one crash, fair | `Processed` |
| `intake` | three roles; an ingest replica with two exports, one over each transport: of one service, or of two; a full role with an export each filter drops a record of, or one past a request limit; 2 slots, a journal of 2 records, a cache of 1 entry and 1 provider slot, one fault | `AnsweredAsKept`, `DrainedHoldsNothing`, `StillBeingAsked`, `ShutdownEnds`, `TypeOK` |
| `cloudwatch` | 3 events on 3 streams of 2 groups, one of them unusable, a first lookback of 3 under a floor of 4, windows of 2, pages of 1, 2 pages a cycle, 2 attempts, one fault, fair | `NothingSkipped`, `EventuallyDelivered`, `TypeOK` |
| `outbox` | 2 rows, 2 publishers, batches of 2, lease 3, publish timeout 1, backoff 1 to 2, 2 attempts, rows of this or another deployment, 2 faults | `OneDeliveryAtATime`, `BuriedAfterOffer`, `DeliverySpec` (refinement), `EventuallyPublished`, `TypeOK` |
| `agent_worker` | 2 assignments, one of them late in its context, 2 processes, memory of 1, 3 deliveries, a run of 2 ticks over a visibility of 1, one fault | `PaymentsBounded`, `RunsTwicePerFault`, `DroppedOnlyWhenEnded`, `EventuallyAcknowledged`, `TypeOK` |
| `remediation` | 1 investigation, 2 runs, 2 strategies with a repair round, 2 pool workers over a queue of 1, 2 requests, one fault | `NeverOverclaims`, `OnePullRequest`, `OneGeneration`, `IndexedIsRecalled`, `RunningHasOwner`, `TypeOK` |
| `evidence_first` | two records, no failure | violation, finding 1 |
| `adopted_poison` | a good and an unidentifiable record, one crash, fair | violation, finding 2 |
| `stranded_evidence` | a very late record, no failure, fair | violation, finding 3 |
| `episode_split` | two records, one crash | violation, finding 4 |

Why the bounds are enough. Journal: two records are needed for one batch to be
partly compacted while another still refers to it, three batches to reach the
reference limit of two and exceed it, two identities for conflicts; a lease and
a safety delay of one tick with three ticks let a record lapse, be claimed
again, be committed and be compacted. Pipeline: with a window and a threshold of
two, two contributors fill a window; the lateness, the quiet period and the
reopen window are one or two ticks, so each boundary is met on both sides, and
the clock runs from before the first record is final to after compaction has
released it. Two ticks inside a cycle outlast a lease of two. The clock stops at
its bound while leases keep running, so lapses are never bounded.

Intake: the first record of one export is dropped for its depth, so every later
position is renumbered; three admissible records of one service meet a journal of
two, so one is shed or refused, on the first look at the capacity or by the append;
records of two services meet a cache of one entry, which evicts on each change of
service, with the call of the evicted one still out. CloudWatch: windows of two
under a floor of four are outgrown by a quiet gap; pages of one with two pages a
cycle are exhausted by three events. The first lookback is shorter than the floor,
so a group that has no checkpoint yet begins after events that are still above the
floor: these are its `backlog`, and everything else is owed. Outbox: a lease of
three covers two sends and no third wait, so `leaseCovers` decides differently for
the first and the second claim, and two faults let a claim lapse while its send is
out. Agent worker: a run is longer than the visibility timeout, so each lost
heartbeat matters; the memory holds fewer outcomes than there are assignments; three
deliveries are an attempt, a retry and the one that gives up. Remediation: the
second run meets the candidates, pull requests and decisions of the first.
`MaxRepairs = 0` is what selects the default of one round (`runner.go`). The run has
symmetry over strategies, workers and requests, which is why it checks safety only;
it may end with nothing left to do, and does not check deadlock.

Fairness.

- `Pipeline!Fairness`. `runtime/worker.go:119` calls `Process` over and over
  whether or not it failed, so some step of `Process` is always taken while the
  process lives; a dead process is restarted by its supervisor; time passes.
  These are weak fairness of `Work` and `New`, with what enables them written
  out, and strong fairness of `Tick`. Strong fairness of `PersistCohort`,
  `Bisect` and `Isolate` says that a database asked again and again answers some
  day: between two answers it may fail any number of times, which is the outage
  the service is required to survive.
- `Replica!Spec`. Handlers run to their answer, a provider call ends (its own
  timeout, or `Close`), a budget that was set runs out (a context deadline), and
  `Shutdown` takes the step it can. Nothing is assumed of the worker, the poller,
  the drain or the database: a query may hang for ever.
- `CloudWatch!FairSpec`. The poll loop runs on after a failed cycle, a dead
  process is started again, time passes.
- `Outbox!FairSpec`. The same of the publish loop; a publisher that faulted on
  its deployment is started again once an operator has dealt with it.
- `AgentWorker!FairSpec`. The loop of `Run` takes up what it can receive, a run
  goes on, a process is restarted, the queue applies its redrive policy.
  `CommitContext` is not fair: a context row that never comes is an assignment
  delivered too often, which is recorded and acknowledged.

In the last three, all weak, faults are bounded, so what is shown is that
whatever finitely many of them leave behind is dealt with.

## 4. Where the code differs from what it says

1. `OnlyPoisonQuarantined`. A cohort is persisted in record-id order, and
   `attachEvidenceOnly` rejects as invalid input evidence of an episode not
   persisted yet. A valid late record whose id sorts before its episode's first
   contributor is isolated and its payload destroyed, while
   `pipeline/pipeline.go:672` says only record-local invalidity may reach it. The
   property that does hold, `ContributionsKept`, says no contribution is lost so.
2. `Terminated`. `New` skips a record the engine cannot observe and says
   (`pipeline/pipeline.go:298`) that Process terminates it. Process does so for
   fresh claims only; one that was claimed before the crash is adopted, never
   observed, and renewed for ever. `Processed` is therefore about the records the
   engine can identify.
3. `Processed`, with a very late record. It is kept unattached
   (`incident/incident.go:262`), gets no decision and is renewed for ever, while
   `time-and-windows.md:108` makes it an evidence-only occurrence.
4. `EpisodesDistinct`. After a restart the engine has lost its frontier. A record
   still pending and late for an episode already persisted becomes a contributor
   with an earlier start, and the episode gets a second generation, against
   `time-and-windows.md:106`.

Met on the way, without a run of their own:

Static log analysis.

- Nothing calls `Journal.Compact` outside tests, so retention never frees
  capacity: a full journal refuses for ever, replays of what it holds included.
- An idle family is released with its frontier (`incident/incident.go:380`),
  which leads to the situation of finding 4 without a crash.
- The digest by which the journal compares a replay covers the deployment
  (`journal/codec.go:185`). A batch tried again after the cache has resolved its
  service has the same record ids and another digest, is a conflict, and is
  answered as permanent for all of its records. `identity/derived.go:20` says
  enrichment is excluded from identity; `journal.md:101` lists the deployment.
- `Drain` waits for `processMu` without a bound. Behind a cycle whose query never
  returns only a shutdown ends it. It ignores the errors of the stops it makes,
  spins without a pause while Process claims nothing, and only tests call it.
- A failed refresh of the deployment cache is tried again on every lookup: the
  pause is set, and read for entries that never had an answer alone
  (`enrich/enrich.go`). Production's one provider cannot fail.
- A body that ends early is answered as permanent, although a retry could succeed
  (so would a failure of `ids.New` be, if there could be one).
- A forced poll cycle past `Commit`'s look at its context may use a checkpoint
  store that is being closed.
- After a gap longer than its window the CloudWatch poller reads the same window
  until the floor moves it (`cloudwatch/adapter.go:565`): delay, not loss.
- The byte ceiling can be passed. A claim frees its record's reserve, which is
  wider than the owner and token it writes (`journal/types.go:29`, and the key,
  checksum and overhead beside it); an append may fill what is freed; the expiry
  of the claim takes the whole reserve back with no look at the ceiling
  (`journal/journal.go:632`). `WithinCapacity` is the bound that does hold, and
  `CapacityRespected` proves it.
- Until a group has its first checkpoint its window begins `InitialLookback` ago,
  which by default is less than the floor, and slides with the clock
  (`cloudwatch/adapter.go:31`).
- A row another deployment committed refuses every batch it is in, and with it
  the rows beside it (`persistence/orchestration.go:282`). Releases without an
  attempt count as attempts (`outbox/publisher.go:213`); `BuriedAfterOffer` says
  what is still true.

Agents.

- On SIGTERM a model call fails with the cancelled context, the investigation is
  recorded as failed and acknowledged. `agent_space/main.go:122` says it is
  redelivered. Only a cut inside a tool call is.
- `AbandonStale` marks what a dead process left running as failed, after which its
  redelivery is seen and acknowledged without a run
  (`agent_space/worker/journal.go:93`), against what `results.go` says of calling
  it seen. `DroppedOnlyWhenEnded` therefore counts being abandoned as an end.
- `heartbeat` says a duplicate run is caught by the dedup check; that holds within
  one process. A "retrying" in one process's memory hides a verdict in the table,
  and the last writer wins: a process that starts late writes "running" over a
  verdict, for the next one to read. One failure therefore does not bound how
  often an investigation is paid for; only `MaxAttempts` does
  (`PaymentsBounded`).
- A crash between the acknowledgement and the hand-over loses the fixes
  (`agent_space/worker/worker.go:161`).
- A candidate that fails in a repair round keeps the earlier verification and
  diff beside new edits that never ran, and can be opened as a pull request
  (`agent_space/remediation/runner.go:372`). `NeverOverclaims` allows it the old
  verification because the row is failed and that verification names a failed build
  or failed tests, the only kind that is ever repaired: what it overstates is nothing
  better than a failure. One that says a build succeeded is of the row's own files.
- Output without a trailing newline hides the marker of its stage, which claims
  too little; a marker cut before its exit code reads as success. Tests that
  timed out are summarised as undeclared. A repair is checked against the
  previous round's edits and not the files.
- Of two decisions at once, the second forgets the first in the index before the
  first is added, which then stays recallable; a failed Forget is only logged; a
  decision never marked as indexed is never tried again.
- A failure after the branch was created leaves it, and every later click fails
  on it; a lost answer of the pull request's creation, or a Supersede between the
  click and `MarkOpened`, orphans the pull request.
- Each process has an in-flight set of its own, and each boot fails the runs of
  the others.

## 5. What is proved

Each theorem holds for every value of the constants the module's ASSUMEs admit:
sets are finite where the code counts them, an absent value is none of the values
stored, the configuration is within its ranges. None assumes fairness. Every
inductive invariant below was first checked as an invariant of the run.

**Journal** (`JournalProofs`): any records, batches, identities, costs, leases,
limits and any clock.

- `Invariance`: `Spec => []IInv`, where `IInv` is `TypeOK /\ verify`; from it
  `TypeCorrect`, `IndexesAlwaysAgree`, `BatchesAlwaysAgree` and
  `CountersAlwaysAgree`: no reachable volume is one `Open` refuses.
- `AcknowledgedAlwaysKept`, `CommittedAlwaysKept`, `NeverResurrected`, the last
  two as action properties.
- `CapacityRespected`: from a volume that fits, `WithinCapacity` at every step.
- `ImplementsQueue`: `Spec => QueueSpec`, the refinement of `ClaimQueue`.

`verify` is inductive together with `TypeOK`, but not conjunct by conjunct: that a
claim's index key is removed by commit needs the index to be exactly the derived
one; that a record appended again matches the identity its batches remember needs
`BatchesAgree`; that the per-priority counts and the usage stay natural numbers
needs `CountersAgree`. The proof has a lemma per operation and conjunct group, each
from facts about what the operation makes of a record (`newRecord`, `Granted`,
`Renewed`, `Lapsed`, `Retired`). The counts follow because the records of a priority
after a removal or an admission are a set difference or a disjoint union. The bytes
follow from one lemma about `commitMutation` (`MutationCharges`): a sum changes by
what it holds of the members touched, before and after, and the records, batches and
keys a mutation does not touch cost after it what they cost before. `WithinCapacity`
is not inductive: a claim lowers the usage by what its reserve has to spare, and an
expiry adds it again. What never passes the ceiling is `promised`, the usage with
each pending record charged the owner and the token of its next claim and no
reserve; every step but an append charges no record more (`SettlesCost`) and no
batch or reference, an append answers to the ceiling itself, and the usage is
`promised` and the spare part of each reserve (`UsageIs`).

For the refinement each operation is shown to be a step of the queue or a stutter;
what takes an invariant of its own (`TokensInv`) is that no token is handed out
twice. A token derives from the attempt and the expiry of its claim. While a
record is held its attempts only grow, and a renewal, which keeps the attempt,
either moves the expiry or, made at the very time of the claim, derives the token
the record already carries and is a stutter for it. Once compacted the record may
come back with its attempts at zero, and only the expiry tells the tokens apart:
the last one is at most `ClaimTTL` past the commit, and a compaction waits for
more than the safety delay, so that what a new claim derives is later.

**Outbox** (`OutboxProofs`): any rows, publishers, batch sizes, leases, timeouts,
backoffs, attempts and faults.

- `TypeCorrect`, `DeliveriesApart` (`OneDeliveryAtATime`), `NothingBuriedUnoffered`
  (`BuriedAfterOffer`).
- `KeepsPromise`: `Spec => DeliverySpec`, the refinement of `Delivery`; each action
  is shown to be a step of it or a stutter, so a row is closed only after a copy.

The invariant adds to the types, for each publisher: a claim in hand whose lease
runs is its row's token, and has no more of the lease left than the row; a send
times out before the lease does; a row about to be marked was accepted by a queue
and one about to be buried was offered to it. Without the first a second publisher
could claim a row whose send is out, which is what `leaseCovers` is for.

**CloudWatch** (`CloudWatchProofs`): any events, streams, groups, windows, pages,
lookbacks and faults.

- `TypeCorrect`, `CheckpointsNeverSkip` (`NothingSkipped`).

The invariant says of checkpoints and of positions in memory that whatever is
written, owed and older than a position has been delivered (`PositionsLag`), and
what a cycle that is on its way has read (`AllRead`, `ReadOfGroup`,
`DealtBeforeCommit`, `PagesLeft`): a commit moves every stream of the group to
what the cycle read, so the whole of what was read has to be dealt with by then.

**Agent worker** (`AgentWorkerProofs`): any processes, assignments, tools, memory
sizes, timeouts, attempts and faults.

- `TypeCorrect`, `NeverDroppedUnended` (`DroppedOnlyWhenEnded`), `RunsShareFaults`
  (`RunsTwicePerFault`), `PaymentsStayBounded` (`PaymentsBounded`), and
  `PaidOnceWhileUndisturbed`, the first half of the last.

The invariant relates what a process holds to the message's lease and delivery
count, its memory to the table and to the ends the assignment had, the holders of
an assignment to the faults that let them hold it together, and what was paid to
the deliveries made. `Undisturbed` is the part that needs no fault to have
happened: then each message has one holder, and the memory of a process that ran
it is what the table says.

**Remediation** (`RemediationProofs`): any investigations, strategies, workers,
requests, runs and faults, and any number of repairs of a candidate.

- `OnePullRequestEach`, `OneGenerationListed`, `IndexedDecisionsRecalled`,
  `RunningIsOwned`.
- `ClaimsAsProved` (`NeverOverclaims`), `TypeCorrect`.

The invariant is a conjunction by concern: the pool has each investigation once,
between its queue, its workers and `inFlight`; the rows of a generation belong to
its run; a branch has one handler at a time and a pull request is on its row, on
its way there or lost on record; a decision has one request, and what reads as
indexed is in the index or being replaced.

That a row claims no more than was proved of its files is an argument over the
sandbox. A container's run is a sequence of stages that ended (`ExecutionsRun`); all
it prints, wherever it was cut, is lines in which an end marker carries the exit of
such a stage (`OutputLines`); a section read as run was ended by one of the lines
(`RanWasEnded`), whatever markers run together. So what is read happened
(`ReadAsHappened`), but for a container killed inside an end marker, which the
property excuses. The repair loop is a recursion over its passes: a pass either takes
what its container proved of its own files, or leaves the candidate failed with what it
had; and a pass after the first is made only of a verification that `NeedsRepair`, so
what such a candidate has names a failed build or failed tests (`Claims`). No
accepted answer replaces a listed file it was not shown (`BlindToUnlisted`), so after
any number of passes a candidate is sound (`CandidatesSound`). Nothing between the
container and the row changes it.

**Sums and folds** (`SumTheorems`). The sum of a function over a finite set, defined
in the library by recursion: that it exists, is unique, splits at any element, is
monotone, and grows by `c` for each element charged `c`. The provers cannot
instantiate an induction theorem, whose parameter is an operator; the argument is
made instead for a smallest set that would lack the fact (`SmallestSet`), from
`NatLeast`: a set of natural numbers has a least member. In the same way, the
recursion behind a fold over a sequence has a solution when its steps stay in a set
(`FoldExists`), and so has one over numbers (`RecursionExists`); what each step keeps,
the result has (`FoldStays`, `StaysIn`).

**Replica** (`ReplicaProofs`): any exports whose requests have the shape of the
wire, any roles, request limits, allowed services, numbers of handlers, of journal
records, of cache entries and of calls, any provider table and faults.

- `ReplicaTypeCorrect`, `EntriesAreAsked` (`StillBeingAsked`),
  `SendersAreToldTheTruth` (`AnsweredAsKept`), `DrainedMeansEmpty`
  (`DrainedHoldsNothing`), all from `ReplicaInvariant`.

The invariant follows a handler by its stage. Up to where it is in the filtered
request it has taken or refused each place, and what it refused is at the wire
positions it reports (`Normalizing`); once judged, the positions it rejects are
those the request deserves, and what is neither rejected nor shed is in its batch
(`Appending`); what it is about to say is true of the journal (`Answering`). Under
this lies `DecodeFaithful`: the filtered request is a subsequence of the flattened
one, each record at the position kept for it and no position twice. For draining,
the order is the argument (`DrainOrder`): past the receiver no handler has a
connection to be heard over, past the source the poll context is cancelled, so a
cycle that goes on commits no position; with `PolledKept` and the senders' part,
nothing can be acknowledged after the journal was found persisted. For the cache,
an entry in flight has a call counted for its service although calls are not
counted per entry.

**Pipeline** (`PipelineProofs`): any records, event and observation times,
deployments, windows, cohort limits, lease times, stalls and crashes; that the
times are numbers past the retention and that the marks `None` and `Foreign` are
neither verdicts nor databases is assumed.

- `TypeCorrect`, `CommittedIsPersisted` (`CommittedPersisted`),
  `OccurrencesCountedOnce` (`CountedOnce`), `InvestigatedWhateverTheOrder`
  (`InvestigatedInAnyOrder`), all from `Invariant`.
- `OnlyInvalidContributionsQuarantined` (`ContributionsKept`), an action property.
- `HeldKeepsItsDecision` (`HeldStaysDecided`), `PersistedInOwnEpisode` (`OwnEpisode`),
  `FirstVerdictStands` (`VerdictStands`), whose properties are stated beside the
  theorems: a contribution the worker holds, once decided, stays a contribution and
  decided, the half of `DecisionStable` that is about contributions; a record is
  persisted under an episode of its own deployment, a contribution under one that
  begins no later than it; the verdict persisted first is never changed.

The invariant has a part for each actor. The worker's cohorts still to persist
hold different records, none is empty, all are held and decided (`TodoFine`): that
bisection neither loses a half nor makes an empty one is a fact about the ranks of
record ids (`HalfProper`), and with it a mark commits what its own transaction
wrote. The engine files each record once, and each contribution is in an episode;
every episode has a deployment that all its records have and a start that a record
has, and begins no later than any of its records (`EngInv`), through folds, adopted
identities, shells and compaction, so that a decision is a verdict that can be
persisted (`DecisionFound`), of the record's own deployment (`Rightful`). The frontier
never moves back (`Onward`): whatever an episode is refolded into, it begins behind a
frontier that its records are behind (`DecidedBehindFrontier`), and compaction spares
what is pinned, so what is held and decided stays decided. The database's rows, counts
and active investigation are those of its records (`DbInv`): a contribution fills only
windows it is in, which is why `fiveInFive`, that looks at no others, decides the same
in any order (`WindowsFilled`); what it gains in a step, it had nothing of before
(`DbSteps`). The transaction is a fold, from whose recursion its states one input after
the other are read off (`BatchSteps`). The engine's folds are typed the same way.

Only model-checked: liveness, which is out of the prover's reach (`Processed`,
`EventuallyPublished`, `EventuallyDelivered`, `EventuallyAcknowledged`,
`ShutdownEnds`), and the rest of `DecisionStable` of `Pipeline`: that evidence stays
decided, and that a decision keeps its identity, which would take what a refold leaves
of every episode behind the frontier and which identity it adopts. That property says no
more than that a decision stays while its episode is left whole, because more is not
true: compaction spares the records a worker holds and no others. Take three
contributors of one episode, a reopen window from the first to the last, of which
the worker holds the first and the last past the retention while the one between
them has lapsed. It is released, the refold makes two episodes of one, only the
first can adopt the identity, and the last record, decided and held, is decided
anew. The instance of the run has no such three, and on it a held decision never
changes at all.

## 6. Not modelled, and the plan

Not modelled: `AcquireInvestigation`, `RenewInvestigation`,
`CompleteInvestigation` and `AppendInvestigationContext`, which only tests call;
redaction, fingerprints and the classifier's rules, which rewrite one value and of
which production compiles the empty set; encodings; authentication and TLS; the
parsing of configurations and what is refused at start; the admin listener; a
replica with a source alone, whose poller takes the worker's place; prompts and
the text of traces, shell quoting, container flags; a message body that does not
parse; two remediation processes; the dashboard, the infrastructure, the
migrations and the commands, which keep no state of the kind.

Still to model, in this order: `IncidentEngine` alone (`extend` against
`rebuild`, identities over repeated compaction, the release of idle families);
two replicas of `Pipeline` over one database, journals apart.

Still to prove: the rest of `DecisionStable`. For evidence, that the episodes of a
deployment, while one begins behind the frontier, always leave one that does; for
identity, that the episodes of a refold adopt in order, so that one left whole adopts
its own.

Not planned, because nothing of their behaviour is decided by this code: the
language model's answers and the queue's delivery beyond how the code uses them.
