------------------------------- MODULE Replica --------------------------------
(***************************************************************************)
(* One replica from its listeners to its journal (internal/otlpreceiver,   *)
(* pipeline.Ingest, internal/runtime): export handlers of two transports   *)
(* share a bound on what is in flight, normalize against the deployment    *)
(* cache and append to the journal before they answer; a worker and, in    *)
(* the cloudwatch role, a poller run their cycles beside them; Drain and   *)
(* Shutdown stop all of it in order, within a budget that may run out at   *)
(* any step.  The collector retries what was not answered.  A source-only  *)
(* replica, whose poller takes the worker's place, is left out.            *)
(*                                                                         *)
(* A handler is a goroutine and holds its slot for as long as it is in     *)
(* `handlers`.  MaxFaults bounds panics, lost answers, failed appends,     *)
(* provider failures, queries that never return, and crashes together.     *)
(***************************************************************************)
EXTENDS Admission, Enrichment

CONSTANTS
    Exports,            \* the batches of the collector
    Sent, Transport,    \* export -> its request, and how it is sent
    Roles,              \* the roles a replica may be started in
    Offered,            \* role -> the sets of exports it may be sent
    MaxInFlight,
    Total,              \* records the journal has room for
    MaxFaults

ASSUME ReplicaAssumption ==
    /\ AllowedServices \subseteq Services
    /\ {MaxInFlight, Total, MaxFaults} \subseteq Nat
    /\ \A r \in Roles : Offered[r] \subseteq SUBSET Exports
    /\ \A x \in Exports : IsRequest(Sent[x])

Polled == <<"cw:v1", "event">>       \* the record the poller reads

VARIABLES
    role, faults,
    collector,      \* export -> what its sender knows of it
    handlers,       \* the admitted exports
    journal,        \* record id -> its content and state
    open,           \* the journal is open
    server,         \* how far Shutdown is; "up" before, "down" after it
    drain,          \* how far Drain is
    accepting,      \* the listeners accept
    spent,          \* the budget of the drain or shutdown under way ran out
    worker, poller, \* the loops: "pause", in a cycle, or "done"
    lock,           \* whose Process holds processMu
    hung,           \* its query never returns
    cancelled,      \* the context of the poll cycles is cancelled
    checkpointed    \* the source's position is past the polled record

ingress  == <<collector, handlers>>
lifecycle == <<server, drain, accepting, spent, cancelled>>
loops    == <<worker, poller, lock, hung, checkpointed>>
vars == <<role, faults, ingress, journal, open, lifecycle, loops, cacheVars>>

Ingests   == role \in {"all", "ingest"}
Processes == role \in {"all", "process", "cloudwatch"}
Polls     == role = "cloudwatch"

Fault == faults < MaxFaults /\ faults' = faults + 1
NoFault == UNCHANGED faults

Decoded == [x \in Exports |-> Decode(Sent[x])]
Wire    == [x \in Exports |-> Flatten(Sent[x])]
Barred  == {x \in Exports : Inadmissible(Sent[x])}

Queued == [state |-> "queued", reported |-> {}, shed |-> {}]
Waiting == [Queued EXCEPT !.state = "waiting"]

Started ==
    [worker |-> IF Processes THEN "pause" ELSE "done",
     poller |-> IF Polls THEN "pause" ELSE "done"]

\* Both listeners are bound before a start returns.
Listening == Ingests

Init ==
    /\ role \in Roles
    /\ faults = 0
    /\ \E offered \in Offered[role] : collector = [x \in offered |-> Queued]
    /\ handlers = {}
    /\ journal = <<>>
    /\ open = TRUE
    /\ server = "up" /\ drain = "none" /\ accepting = Listening
    /\ spent = FALSE /\ cancelled = FALSE
    /\ worker = Started.worker /\ poller = Started.poller
    /\ lock = "free" /\ hung = FALSE
    /\ checkpointed = FALSE
    /\ EnrichmentInit

(***************************************************************************)
(* The receiver.                                                           *)
(***************************************************************************)
NewHandler(x) ==
    [export |-> x, transport |-> Transport[x], connected |-> TRUE,
     stage |-> "ingest", at |-> 0, taken |-> {}, rejected |-> {},
     shed |-> {}, answer |-> "none"]

\* An export is authenticated and takes a slot.  At the limit it is answered
\* Unavailable at once, which leaves it queued.
Arrive(x) ==
    /\ accepting
    /\ collector[x].state = "queued"
    /\ Cardinality(handlers) < MaxInFlight
    /\ handlers' = handlers \cup {NewHandler(x)}
    /\ collector' = [collector EXCEPT ![x] = Waiting]
    /\ NoFault
    /\ UNCHANGED <<role, journal, open, lifecycle, loops, cacheVars>>

Becomes(h, next) == handlers' = (handlers \ {h}) \cup {next}
Answers(h, answer) == Becomes(h, [h EXCEPT !.stage = "answer", !.answer = answer])

\* The entry of Ingest: the context, the request-wide limits, the mapping.
BeginIngest(h) ==
    /\ h.stage = "ingest"
    /\ IF ~h.connected \/ h.export \in Barred
       THEN Answers(h, "inadmissible")
       ELSE Becomes(h, [h EXCEPT !.stage = "normalize", !.at = 1,
                                 !.rejected = Decoded[h.export].rejected])
    /\ NoFault
    /\ UNCHANGED <<role, collector, journal, open, lifecycle, loops, cacheVars>>

\* Slip: the place in the filtered request is taken for the wire position.
FilteredIndex(x, k) == k

\* The wire position of the record at place k of the filtered request.
OriginalIndex(x, k) == Decoded[x].acceptedOriginalIndexes[k]

\* One record is normalized: its deployment is asked of the cache, and the
\* record taken or refused.
Normalize(h) ==
    LET x == h.export
        v == Decoded[x].request[h.at]
        service == ServiceOf(v.resource).name
        index == OriginalIndex(x, h.at)
    IN  /\ h.stage = "normalize"
        /\ h.at <= Len(Decoded[x].request)
        /\ IF Consults(v) THEN Lookup(service) ELSE UNCHANGED cacheVars
        /\ Becomes(h,
              IF Refusal(v) # ""
              THEN [h EXCEPT !.at = @ + 1, !.rejected = @ \cup {index}]
              ELSE [h EXCEPT !.at = @ + 1,
                             !.taken = @ \cup {[index |-> index, at |-> h.at,
                                 deployment |-> IF service = "" THEN "not_applicable"
                                                ELSE Answer(service)]}])
        /\ NoFault
        /\ UNCHANGED <<role, collector, journal, open, lifecycle, loops>>

Taken(h, t) == Decoded[h.export].request[t.at]

Used == Cardinality(DOMAIN journal)
Capacity == [used |-> Used, total |-> Total, canPersist |-> open /\ Used < Total]

\* The rest of the loop over the normalized records, on one observation of
\* the journal: too large, shed, refused for the whole batch, or admitted.
Judge(h) ==
    LET large == {t \in h.taken : Taken(h, t).record.size > MaxNormalized}
        act(a) == {t \in h.taken \ large : CapacityAction(Taken(h, t).record, Capacity) = a}
        positions(set) == {t.index : t \in set}
    IN  /\ h.stage = "normalize"
        /\ h.at > Len(Decoded[h.export].request)
        /\ IF act("backpressure") # {}
           THEN Answers(h, "unavailable")
           ELSE Becomes(h, [h EXCEPT
                  !.stage = IF act("admit") = {} THEN "answer" ELSE "append",
                  !.answer = IF act("admit") = {} THEN "ok" ELSE "none",
                  !.taken = act("admit"),
                  !.rejected = @ \cup positions(large),
                  !.shed = positions(act("shed"))])
        /\ NoFault
        /\ UNCHANGED <<role, collector, journal, open, lifecycle, loops, cacheVars>>

\* The journal as the admissions see it: AppendBatch takes all of a batch or
\* nothing, and an id that comes twice, or that it holds, must come with the
\* same content: the evidence, and the deployment that was known.
Conflicting(batch) ==
    \/ \E a, b \in batch : a.id = b.id /\ a.content # b.content
    \/ \E a \in batch : a.id \in DOMAIN journal /\ journal[a.id].content # a.content
Fits(batch) == Cardinality(DOMAIN journal \cup {a.id : a \in batch}) <= Total
Appended(batch) ==
    LET new == {a.id : a \in batch} \ DOMAIN journal
    IN  [i \in DOMAIN journal \cup new |->
           IF i \in new
           THEN [content |-> (CHOOSE a \in batch : a.id = i).content, state |-> "pending"]
           ELSE journal[i]]

Admissions(h) ==
    {[id |-> RecordID(Taken(h, t)),
      content |-> <<Evidence(Taken(h, t)), t.deployment>>] : t \in h.taken}

AppendOutcome(h) ==
    IF ~open THEN "unavailable"
    ELSE IF Conflicting(Admissions(h)) THEN "conflicting"
    ELSE IF ~Fits(Admissions(h)) THEN "unavailable"
    ELSE "ok"

AppendToJournal(h) ==
    /\ h.stage = "append"
    /\ Answers(h, AppendOutcome(h))
    /\ journal' = IF AppendOutcome(h) = "ok"
                  THEN Appended(Admissions(h)) ELSE journal
    /\ NoFault
    /\ UNCHANGED <<role, collector, open, lifecycle, loops, cacheVars>>

AppendFails(h) ==
    /\ h.stage = "append"
    /\ Fault
    /\ Answers(h, "unavailable")
    /\ UNCHANGED <<role, collector, journal, open, lifecycle, loops, cacheVars>>

\* What the collector makes of an answer: success and partial success end the
\* export, a permanent failure drops it, a retryable one queues it again.
\* Only the number of the rejected positions travels; which they are, and
\* what was shed, is kept here for the properties.
Hears(h) ==
    IF ~h.connected THEN collector[h.export]
    ELSE IF h.answer = "ok"
         THEN [state |-> "acked", reported |-> h.rejected, shed |-> h.shed]
    ELSE IF h.answer = "unavailable" THEN Queued
    ELSE [Queued EXCEPT !.state = h.answer]

Respond(h) ==
    /\ h.stage = "answer"
    /\ handlers' = handlers \ {h}
    /\ collector' = [collector EXCEPT ![h.export] = Hears(h)]
    /\ NoFault
    /\ UNCHANGED <<role, journal, open, lifecycle, loops, cacheVars>>

\* A panic is recovered, answered retryable, and gives the slot back.
Panic(h) ==
    /\ Fault
    /\ handlers' = handlers \ {h}
    /\ collector' = [collector EXCEPT ![h.export] = IF h.connected THEN Queued ELSE @]
    /\ UNCHANGED <<role, journal, open, lifecycle, loops, cacheVars>>

\* The collector gives up on its call, or the answer is lost: it will retry,
\* and the handler goes on.
AnswerLost(h) ==
    /\ h.connected
    /\ Fault
    /\ Becomes(h, [h EXCEPT !.connected = FALSE])
    /\ collector' = [collector EXCEPT ![h.export] = Queued]
    /\ UNCHANGED <<role, journal, open, lifecycle, loops, cacheVars>>

HandlerStep ==
    \E h \in handlers :
        BeginIngest(h) \/ Normalize(h) \/ Judge(h) \/ AppendToJournal(h) \/ Respond(h)

(***************************************************************************)
(* Process, of the worker's cycle and of Drain's loop: under processMu it  *)
(* claims what is pending, persists, and marks what was persisted.  Held   *)
(* back, refused by the database, or cancelled, a record stays claimed.    *)
(***************************************************************************)
InStates(states) == {i \in DOMAIN journal : journal[i].state \in states}
Moved(ids, state) == [i \in DOMAIN journal |->
    IF i \in ids THEN [journal[i] EXCEPT !.state = state] ELSE journal[i]]

Stopping(loop) ==
    CASE loop = "poller" -> drain \notin {"none", "receiver"}
                            \/ server \notin {"up", "receiver"}
      [] loop = "worker" -> server \notin {"up", "receiver", "source"}

WorkerBegins ==
    /\ worker = "pause" /\ ~Stopping("worker")
    /\ worker' = "cycle"
    /\ NoFault
    /\ UNCHANGED <<role, ingress, journal, open, lifecycle, poller, lock, hung,
                   checkpointed, cacheVars>>

WorkerStops ==
    /\ worker = "pause" /\ Stopping("worker")
    /\ worker' = "done"
    /\ NoFault
    /\ UNCHANGED <<role, ingress, journal, open, lifecycle, poller, lock, hung,
                   checkpointed, cacheVars>>

ClaimPending(who) ==
    /\ lock = "free"
    /\ \/ who = "worker" /\ worker = "cycle"
       \/ who = "drain" /\ drain = "process"
    /\ lock' = who
    /\ journal' = IF open THEN Moved(InStates({"pending"}), "claimed") ELSE journal
    /\ NoFault
    /\ UNCHANGED <<role, ingress, open, lifecycle, worker, poller, hung,
                   checkpointed, cacheVars>>

Persist ==
    /\ lock # "free" /\ ~hung
    /\ \E ids \in IF open THEN SUBSET InStates({"claimed"}) ELSE {{}} :
           journal' = Moved(ids, "finished")
    /\ lock' = "free"
    /\ worker' = IF lock = "worker" THEN "pause" ELSE worker
    /\ drain' = IF lock = "drain" THEN "stats" ELSE drain
    /\ NoFault
    /\ UNCHANGED <<role, ingress, open, server, accepting, spent, cancelled, poller,
                   hung, checkpointed, cacheVars>>

QueryHangs ==
    /\ lock # "free" /\ ~hung
    /\ Fault
    /\ hung' = TRUE
    /\ UNCHANGED <<role, ingress, journal, open, lifecycle, worker, poller, lock,
                   checkpointed, cacheVars>>

(***************************************************************************)
(* The poller: read, journal, then checkpoint.  IngestRecords and Commit   *)
(* look at the context on entry and no later.                              *)
(***************************************************************************)
PollReads ==
    /\ poller = "pause" /\ ~Stopping("poller") /\ ~checkpointed
    /\ poller' = "append"
    /\ NoFault
    /\ UNCHANGED <<role, ingress, journal, open, lifecycle, worker, lock, hung,
                   checkpointed, cacheVars>>

PollAppends ==
    LET batch == {[id |-> Polled, content |-> Polled]}
    IN  /\ poller = "append"
        /\ IF open /\ Fits(batch)
           THEN journal' = Appended(batch) /\ poller' = "commit"
           ELSE poller' = "pause" /\ UNCHANGED journal
        /\ NoFault
        /\ UNCHANGED <<role, ingress, open, lifecycle, worker, lock, hung,
                       checkpointed, cacheVars>>

PollCommits ==
    /\ poller = "commit"
    /\ poller' = "pause"
    /\ checkpointed' = ~cancelled
    /\ NoFault
    /\ UNCHANGED <<role, ingress, journal, open, lifecycle, worker, lock, hung,
                   cacheVars>>

PollerStops ==
    /\ poller = "pause" /\ Stopping("poller")
    /\ poller' = "done"
    /\ NoFault
    /\ UNCHANGED <<role, ingress, journal, open, lifecycle, worker, lock, hung,
                   checkpointed, cacheVars>>

(***************************************************************************)
(* Stopping.  Drain and Shutdown stop the receiver and the poller the same *)
(* way, each within the budget it was given.                               *)
(***************************************************************************)
StoppingReceiver == drain = "receiver" \/ server = "receiver"

BudgetSpent ==
    /\ ~spent
    /\ server \notin {"up", "down"} \/ drain \notin {"none", "drained", "failed"}
    /\ spent' = TRUE
    /\ NoFault
    /\ UNCHANGED <<role, ingress, journal, open, server, drain, accepting, cancelled,
                   loops, cacheVars>>

\* The forced stop closes every connection; its handlers go on.
CutConnections ==
    /\ StoppingReceiver /\ spent
    /\ \E h \in handlers : h.connected
    /\ handlers' = {[h EXCEPT !.connected = FALSE] : h \in handlers}
    /\ collector' = [x \in DOMAIN collector |->
                       IF collector[x].state = "waiting" THEN Queued ELSE collector[x]]
    /\ NoFault
    /\ UNCHANGED <<role, journal, open, lifecycle, loops, cacheVars>>

\* GracefulStop waits for its handlers even when it is forced; the forced
\* HTTP server does not.
ReceiverStopped ==
    \/ handlers = {}
    \/ /\ spent
       /\ \A h \in handlers : h.transport = "http" /\ ~h.connected

SourceStopped == poller = "done" \/ spent

WorkerStopped == worker = "done" \/ spent

BeginDrain ==
    /\ server = "up" /\ drain = "none" /\ Processes
    /\ drain' = "receiver"
    /\ accepting' = FALSE
    /\ spent' = FALSE
    /\ NoFault
    /\ UNCHANGED <<role, ingress, journal, open, server, cancelled, loops, cacheVars>>

\* Slip: records another cycle has claimed are not counted.
NothingPending == InStates({"pending"}) = {}

\* What Drain loops on: nothing acknowledged is waiting to be persisted.
NothingHeld == InStates({"pending", "claimed"}) = {}

DrainAdvances ==
    /\ \/ /\ drain = "receiver" /\ ReceiverStopped
          /\ drain' = "source"
          /\ UNCHANGED cancelled
       \/ /\ drain = "source" /\ SourceStopped
          /\ drain' = "stats"
          /\ cancelled' = TRUE
       \/ /\ drain = "stats"
          /\ drain' = IF open /\ NothingHeld THEN "drained"
                      ELSE IF ~open \/ spent THEN "failed" ELSE "process"
          /\ UNCHANGED cancelled
    /\ NoFault
    /\ UNCHANGED <<role, ingress, journal, open, server, accepting, spent, loops,
                   cacheVars>>

\* Nobody else calls the stops Drain is inside of; but where it waits for
\* processMu, behind a cycle that may never end, only a shutdown ends it.
BeginShutdown ==
    /\ server = "up" /\ drain \in {"none", "process", "drained", "failed"}
    /\ server' = "receiver"
    /\ accepting' = FALSE
    /\ spent' = FALSE
    /\ NoFault
    /\ UNCHANGED <<role, ingress, journal, open, drain, cancelled, loops, cacheVars>>

StopReceiver ==
    /\ server = "receiver" /\ ReceiverStopped
    /\ server' = "source"
    /\ NoFault
    /\ UNCHANGED <<role, ingress, journal, open, drain, accepting, spent, cancelled,
                   loops, cacheVars>>

StopSource ==
    /\ server = "source" /\ SourceStopped
    /\ server' = "worker"
    /\ cancelled' = TRUE
    /\ NoFault
    /\ UNCHANGED <<role, ingress, journal, open, drain, accepting, spent, loops,
                   cacheVars>>

StopWorker ==
    /\ server = "worker" /\ WorkerStopped
    /\ server' = "enrichment"
    /\ closed' = TRUE
    /\ NoFault
    /\ UNCHANGED <<role, ingress, journal, open, drain, accepting, spent, cancelled,
                   loops, entries, earlier, calls>>

\* Cache.Close waits for its calls, each of which its own budget ends.
CloseEnrichment ==
    /\ server = "enrichment" /\ AllOutstanding = 0
    /\ server' = "database"
    /\ NoFault
    /\ UNCHANGED <<role, ingress, journal, open, drain, accepting, spent, cancelled,
                   loops, cacheVars>>

\* Slip: the pool is closed inline.
ClosesInline == lock = "free"

\* pgxpool.Close waits for every connection; withinDeadline stops waiting.
DatabaseClosed == lock = "free" \/ spent

CloseDatabase ==
    /\ server = "database" /\ DatabaseClosed
    /\ server' = "journal"
    /\ NoFault
    /\ UNCHANGED <<role, ingress, journal, open, drain, accepting, spent, cancelled,
                   loops, cacheVars>>

CloseJournal ==
    /\ server = "journal"
    /\ open' = FALSE
    /\ server' = "down"
    /\ NoFault
    /\ UNCHANGED <<role, ingress, journal, drain, accepting, spent, cancelled, loops,
                   cacheVars>>

\* The process ends with its goroutines, its cache and its connections; what
\* the journal and the checkpoint store hold stays, claims included.
Restarted ==
    /\ handlers' = {}
    /\ collector' = [x \in DOMAIN collector |->
                       IF collector[x].state = "waiting" THEN Queued ELSE collector[x]]
    /\ open' = TRUE
    /\ server' = "up" /\ drain' = "none" /\ accepting' = Listening
    /\ spent' = FALSE /\ cancelled' = FALSE
    /\ worker' = Started.worker /\ poller' = Started.poller
    /\ lock' = "free" /\ hung' = FALSE
    /\ entries' = <<>> /\ earlier' = {} /\ closed' = FALSE
    /\ calls' = [s \in Services |-> [waiting |-> 0, running |-> 0]]
    /\ UNCHANGED <<role, journal, checkpointed>>

Restart == server = "down" /\ NoFault /\ Restarted
Crash   == Fault /\ Restarted

(***************************************************************************)
(* The specification.                                                      *)
(***************************************************************************)
CacheStep ==
    /\ \E s \in Services : StartCall(s) \/ ProviderAnswers(s) \/ GiveUpCall(s)
    /\ NoFault
    /\ UNCHANGED <<role, ingress, journal, open, lifecycle, loops>>

CacheFaults ==
    /\ \E s \in Services : ProviderFails(s)
    /\ Fault
    /\ UNCHANGED <<role, ingress, journal, open, lifecycle, loops>>

CacheAges ==
    /\ \E s \in Services : Ages(s)
    /\ NoFault
    /\ UNCHANGED <<role, ingress, journal, open, lifecycle, loops>>

ShutdownStep ==
    \/ CutConnections \/ StopReceiver \/ StopSource \/ StopWorker
    \/ CloseEnrichment \/ CloseDatabase \/ CloseJournal

Next ==
    \/ \E x \in DOMAIN collector : Arrive(x)
    \/ HandlerStep
    \/ \E h \in handlers : AppendFails(h) \/ Panic(h) \/ AnswerLost(h)
    \/ CacheStep \/ CacheFaults \/ CacheAges
    \/ WorkerBegins \/ WorkerStops \/ Persist \/ QueryHangs
    \/ \E who \in {"worker", "drain"} : ClaimPending(who)
    \/ PollReads \/ PollAppends \/ PollCommits \/ PollerStops
    \/ BeginDrain \/ DrainAdvances \/ BudgetSpent
    \/ BeginShutdown \/ ShutdownStep
    \/ Restart \/ Crash

(***************************************************************************)
(* Handlers and provider calls come to an end, budgets run out, and        *)
(* Shutdown takes the next step it is able to.  Nothing is assumed of the  *)
(* database, the worker or the poller.                                     *)
(***************************************************************************)
Spec ==
    /\ Init /\ [][Next]_vars
    /\ WF_vars(HandlerStep)
    /\ WF_vars(CacheStep)
    /\ WF_vars(BudgetSpent)
    /\ WF_vars(ShutdownStep)

(***************************************************************************)
(* Properties.                                                             *)
(***************************************************************************)
\* Every variable has its type.
TypeOK ==
    /\ role \in Roles
    /\ faults \in 0..MaxFaults
    /\ DOMAIN collector \in Offered[role]
    /\ \A x \in DOMAIN collector : collector[x].state \in
           {"queued", "waiting", "acked", "inadmissible", "conflicting"}
    /\ Cardinality(handlers) <= MaxInFlight
    /\ \A h \in handlers :
          /\ h.stage \in {"ingest", "normalize", "append", "answer"}
          /\ h.answer \in {"none", "ok", "unavailable", "inadmissible", "conflicting"}
    /\ \A i \in DOMAIN journal : journal[i].state \in {"pending", "claimed", "finished"}
    /\ server \in {"up", "receiver", "source", "worker", "enrichment", "database",
                   "journal", "down"}
    /\ drain \in {"none", "receiver", "source", "stats", "process", "drained", "failed"}
    /\ worker \in {"pause", "cycle", "done"}
    /\ poller \in {"pause", "append", "commit", "done"}
    /\ lock \in {"free", "worker", "drain"}
    /\ {open, accepting, spent, hung, cancelled, checkpointed} \subseteq BOOLEAN
    /\ EnrichmentTypeOK

\* The reference, for each export: the names of its records, and the positions
\* that deserve to be rejected and that might be shed.
IDs      == [x \in Exports |-> [i \in DOMAIN Wire[x] |-> RecordID(Wire[x][i])]]
Deserved == [x \in Exports |-> {i \in DOMAIN Wire[x] : Rejects(Wire[x][i])}]
MightGo  == [x \in Exports |-> {i \in DOMAIN Wire[x] : Sheddable(Wire[x][i])}]

Kept(x, i) == IDs[x][i] \in DOMAIN journal

\* One record sent twice in an export: two records to the journal when the
\* deployment became known between them.
SentTwice(x) ==
    \E i, j \in DOMAIN Wire[x] : i # j /\ IDs[x][i] = IDs[x][j]

(***************************************************************************)
(* What the sender of an export was told is what became of it, position by *)
(* position of the wire: after a success every record is in the journal,   *)
(* or reported as rejected because it deserves it, or was shed and might   *)
(* be; a permanent failure is only for a request no retry would make       *)
(* admissible, or one with a record that the journal holds, or the export  *)
(* sends, twice; and a checkpoint moves past no unjournaled record.  The   *)
(* positions pass two filters and a size limit that each renumber what is  *)
(* left, and answers race the closing of the journal, a lost connection    *)
(* and a crash.                                                            *)
(***************************************************************************)
AnsweredAsKept ==
    /\ \A x \in DOMAIN collector :
          /\ collector[x].state = "acked" =>
                /\ collector[x].reported = Deserved[x]
                /\ collector[x].shed \subseteq MightGo[x]
                /\ \A i \in DOMAIN Wire[x] :
                      \/ i \in collector[x].reported \cup collector[x].shed
                      \/ Kept(x, i)
          /\ collector[x].state = "inadmissible" => x \in Barred
          /\ collector[x].state = "conflicting" =>
                SentTwice(x) \/ \E i \in DOMAIN Wire[x] : Kept(x, i)
    /\ checkpointed => Polled \in DOMAIN journal

(***************************************************************************)
(* When Drain reports the replica drained, nothing acknowledged waits in   *)
(* its journal: every record whose export was answered, or whose source    *)
(* position was checkpointed, is persisted, although a forced stop leaves  *)
(* HTTP handlers and a poll cycle running, and Drain looks at none of the  *)
(* errors they are stopped with.  The volume is detached on that word.     *)
(***************************************************************************)
DrainedHoldsNothing ==
    drain = "drained" =>
        /\ \A x \in DOMAIN collector : collector[x].state = "acked" =>
              \A i \in DOMAIN Wire[x] \ collector[x].reported :
                 \/ i \in collector[x].shed
                 \/ journal[IDs[x][i]].state = "finished"
        /\ checkpointed => journal[Polled].state = "finished"

(***************************************************************************)
(* A shutdown that was asked for closes the journal in the end, with a     *)
(* query of the worker that never returns, calls to the metadata provider  *)
(* under way and exports in flight: no step of it waits on the database    *)
(* longer than its budget.                                                 *)
(***************************************************************************)
ShutdownEnds == (server \notin {"up", "down"}) ~> (server \in {"down", "up"})
==============================================================================
