------------------------------ MODULE AgentWorker ------------------------------
(***************************************************************************)
(* The agent's side of the queue: processes that take one assignment at a  *)
(* time, investigate it, keep a bounded memory of outcomes mirrored into   *)
(* the investigations table, and acknowledge or leave the message.         *)
(*                                                                         *)
(* Time is what leases, runs and the age of a running row have left.       *)
(*                                                                         *)
(* A definition directly above the one it is a slip of is that             *)
(* definition's mutant: the specification does not use it.                 *)
(***************************************************************************)
EXTENDS Integers, Sequences, FiniteSets

CONSTANTS
  Investigations,  \* one assignment each
  Workers,         \* processes of the agent
  VisibilityTimeout, RunTimeout, MaxAttempts,  \* queue.Config
  StaleSlack, Capacity, MaxIterations,
  Tools,           \* what the MCP server offers
  Late,            \* assignments sent before their context is committed
  Nobody,
  MaxFaults        \* bound: failed calls, stalls, duplicate deliveries, stops and crashes

ASSUME AgentAssumption ==
  /\ {VisibilityTimeout, RunTimeout, MaxAttempts, Capacity, MaxIterations} \subseteq Nat \ {0}
  /\ Tools \subseteq [hint : BOOLEAN, looksLikeWrite : BOOLEAN, excluded : BOOLEAN, required : Nat]
  /\ Late \subseteq Investigations /\ {StaleSlack, MaxFaults} \subseteq Nat
  /\ IsFiniteSet(Workers) /\ Nobody \notin Workers \cup Investigations

VARIABLES
  message,  \* the SQS message of each assignment
  context,  \* whether its incident_context row is committed
  process,  \* where each process is
  memory,   \* worker.Store of each process: outcomes, oldest first
  table,    \* the investigations table
  paid,     \* runs that reached an end; for the properties
  endings,  \* why a message could leave the queue, or be run again; for the properties
  faults

vars == <<message, context, process, memory, table, paid, endings, faults>>

StaleAfter == RunTimeout + StaleSlack
Fault(n)   == faults + n <= MaxFaults /\ faults' = faults + n
Move(w, record) == process' = [process EXCEPT ![w] = record]

Terminal == {"done", "failed"}
Statuses == Terminal \cup {"running", "retrying"}
Sent     == [state |-> "queued", lease |-> 0, deliveries |-> 0, holder |-> Nobody]
Fresh    == [stage |-> "idle", on |-> Nobody, attempt |-> 0, left |-> 0, turn |-> 0,
             durable |-> TRUE, stopping |-> FALSE]
Down     == [Fresh EXCEPT !.stage = "down"]
RunStages == {"thinking", "calling"}
Stages    == RunStages \cup {"idle", "down", "checking", "resolving", "acking"}

At(w, stage) == process[w].stage = stage
On(w)        == process[w].on
Free(w)      == Move(w, [Fresh EXCEPT !.durable = process[w].durable, !.stopping = process[w].stopping])

-----------------------------------------------------------------------------
(* worker.Store and its journal.                                           *)

Held(w, i) == {k \in DOMAIN memory[w] : memory[w][k].id = i}

InsertedUnbounded(w, i, status) ==
  LET record == [id |-> i, status |-> status]
  IN IF Held(w, i) # {} THEN [k \in DOMAIN memory[w] |-> IF k \in Held(w, i) THEN record ELSE memory[w][k]]
     ELSE Append(memory[w], record)
\* insertLocked: a known record keeps its place, a new one may evict the oldest.
Inserted(w, i, status) ==
  LET record == [id |-> i, status |-> status]
      longer == Append(memory[w], record)
  IN IF Held(w, i) # {} THEN [k \in DOMAIN memory[w] |-> IF k \in Held(w, i) THEN record ELSE memory[w][k]]
     ELSE IF Len(longer) > Capacity THEN Tail(longer) ELSE longer

Save(i, status) ==
  table' = [table EXCEPT ![i] = [status |-> status, left |-> IF status = "running" THEN StaleAfter ELSE 0]]

\* Start, Retry, Fail and Finish: the memory, then the mirror, which may fail
\* and then is only logged.  n faults led here.
PutAfter(n, w, i, status) ==
  /\ memory' = [memory EXCEPT ![w] = Inserted(w, i, status)]
  /\ \/ /\ IF process[w].durable THEN Save(i, status) ELSE UNCHANGED table
        /\ Fault(n)
     \/ process[w].durable /\ UNCHANGED table /\ Fault(n + 1)
Put(w, i, status) == PutAfter(0, w, i, status)

Start(w) == Put(w, On(w), "running")
Fail(w, n) == PutAfter(n, w, On(w), "failed")

\* The journal's record; a read that fails is no record.
Load(i, loaded) == IF loaded THEN table[i].status ELSE "none"

\* get: the memory first, then the journal.
Known(w, i, loaded) ==
  CASE Held(w, i) # {} -> [status |-> memory[w][CHOOSE k \in Held(w, i) : TRUE].status, live |-> TRUE]
    [] OTHER -> [status |-> Load(i, loaded), live |-> FALSE]

SeenWhateverTheStatus(w, i, loaded) == Known(w, i, loaded).status # "none"
SeenOnlyInMemory(w, i, loaded) ==
  Known(w, i, loaded).live /\ Known(w, i, loaded).status \notin {"none", "retrying"}
Seen(w, i, loaded) ==
  LET known == Known(w, i, loaded)
  IN known.status \notin {"none", "retrying"} /\ (known.status = "running" => known.live)

\* What a process remembers to retry hides the verdict another one recorded.
HiddenVerdict(w, i) == Known(w, i, TRUE).status = "retrying" /\ table[i].status \in Terminal

-----------------------------------------------------------------------------
(* Worker.handle.                                                          *)

Receive(w) ==
  /\ At(w, "idle") /\ ~process[w].stopping
  /\ \E i \in Investigations :
       /\ message[i].state = "queued" /\ message[i].lease = 0 /\ message[i].deliveries < MaxAttempts
       /\ message' = [message EXCEPT ![i] =
                       [@ EXCEPT !.lease = VisibilityTimeout, !.holder = w,
                                 !.deliveries = message[i].deliveries + 1]]
       /\ Move(w, [process[w] EXCEPT !.stage = "checking", !.on = i,
                                     !.attempt = message[i].deliveries + 1])
  /\ UNCHANGED <<context, memory, table, paid, endings, faults>>

ExhaustedLater(w) == process[w].attempt > MaxAttempts
Exhausted(w) == process[w].attempt >= MaxAttempts

\* What was answered is acknowledged again; what was delivered too often is
\* recorded as failed.  A journal that cannot be read makes it all new, and a verdict
\* in it may be overwritten.
Check(w) ==
  /\ At(w, "checking")
  /\ \E loaded \in IF process[w].durable THEN BOOLEAN ELSE {FALSE} :
       LET blind == process[w].durable /\ ~loaded /\ Held(w, On(w)) = {}
       IN /\ loaded \/ blind \/ ~process[w].durable
          /\ IF Seen(w, On(w), loaded)
             THEN /\ Move(w, [process[w] EXCEPT !.stage = "acking"])
                  /\ UNCHANGED <<memory, table, faults, endings>>
             ELSE IF Exhausted(w)
             THEN /\ Fail(w, IF blind THEN 1 ELSE 0)
                  /\ Move(w, [process[w] EXCEPT !.stage = "acking"])
                  /\ endings' = [endings EXCEPT ![On(w)] = @ \cup {"gave_up"}]
             ELSE /\ Move(w, [process[w] EXCEPT !.stage = "resolving"])
                  /\ endings' = IF HiddenVerdict(w, On(w))
                                THEN [endings EXCEPT ![On(w)] = @ \cup {"hidden"}] ELSE endings
                  /\ IF blind THEN Fault(1) ELSE UNCHANGED faults
                  /\ UNCHANGED <<memory, table>>
  /\ UNCHANGED <<message, context, paid>>

\* The message stays on the queue, and its record says it will be tried again.
Retry(w, n) == PutAfter(n, w, On(w), "retrying") /\ Free(w)

\* No context row yet, or none that could be read, leaves the message.
Resolve(w) ==
  /\ At(w, "resolving")
  /\ \/ /\ context[On(w)] /\ ~process[w].stopping
        /\ Start(w)
        /\ Move(w, [process[w] EXCEPT !.stage = "thinking", !.left = RunTimeout, !.turn = 1])
     \/ ~context[On(w)] /\ Retry(w, 0)
     \/ Retry(w, IF process[w].stopping THEN 0 ELSE 1)
  /\ UNCHANGED <<message, context, paid, endings>>

\* The outcome is recorded before the message is acknowledged.
Finish(w, n, status) ==
  /\ PutAfter(n, w, On(w), status)
  /\ Move(w, [process[w] EXCEPT !.stage = "acking", !.left = 0, !.turn = 0])
  /\ paid' = [paid EXCEPT ![On(w)] = @ + 1]
  /\ endings' = [endings EXCEPT ![On(w)] = @ \cup {"ran"}]

Delete(i) == message' = [message EXCEPT ![i].state = IF @ = "queued" THEN "gone" ELSE @]

\* A message deleted by a receipt that is not its newest may stay.
Ack(w) ==
  /\ At(w, "acking") /\ Free(w)
  /\ \/ Delete(On(w)) /\ UNCHANGED faults
     \/ message[On(w)].holder # w /\ UNCHANGED <<message, faults>>
     \/ UNCHANGED message /\ Fault(1)
  /\ UNCHANGED <<context, memory, table, paid, endings>>

-----------------------------------------------------------------------------
(* agent.Runner.Run.                                                       *)

\* The run's context is gone: out of time, or the process is stopping.  Every
\* call then fails, and only then or by a fault.
Cut(w) == process[w].left = 0 \/ process[w].stopping
FaultsOf(w) == IF Cut(w) THEN 0 ELSE 1

\* The model, told of the past incidents, answers or asks for tools.
Answer(w) ==
  /\ At(w, "thinking") /\ ~Cut(w) /\ Finish(w, 0, "done")
  /\ UNCHANGED <<message, context>>
AskForTools(w) ==
  /\ At(w, "thinking") /\ ~Cut(w) /\ Move(w, [process[w] EXCEPT !.stage = "calling"])
  /\ UNCHANGED <<message, context, memory, table, paid, endings, faults>>

\* A search for past incidents, or a model call, that fails is terminal.
RunFails(w) ==
  /\ At(w, "thinking")
  /\ Finish(w, FaultsOf(w), "failed")
  /\ UNCHANGED <<message, context>>

\* The tools a run may call: those that declare themselves read-only or, when
\* none does, those whose name is not of a write; less the ones it is better
\* off without.
ReadOnly(tools) ==
  LET declared == {tool \in tools : tool.hint}
  IN IF declared # {} THEN declared ELSE {tool \in tools : ~tool.looksLikeWrite}
Exclude(tools) == {tool \in tools : ~tool.excluded}
Offered        == Exclude(ReadOnly(Tools))

\* A JSON object, also fenced or inside a JSON string; else text for the one
\* thing a tool requires, and nothing for a tool that requires nothing.
Arguments == {"object", "object_in_string", "text", "empty"}
ParseArgs(arguments, required) ==
  CASE arguments = "empty" -> required = 0
    [] arguments = "text"  -> required = 1
    [] OTHER               -> TRUE

Replies == {"text", "no_content", "error", "refused", "closed", "missing", "cancelled", "timeout"}
IsSessionFailure(reply) == reply \in {"closed", "missing", "cancelled", "timeout"}

\* invoke: what is wrong with a call is text for the model, so that it can
\* correct itself; a session that is gone ends the run.
Calls == [function : BOOLEAN, tool : Tools, arguments : Arguments, reply : Replies]
invoke(call) ==
  CASE ~call.function                                  -> "malformed_call"
    [] call.function /\ call.tool \notin Offered       -> "unknown_tool"
    [] call.function /\ call.tool \in Offered /\ ~ParseArgs(call.arguments, call.tool.required)
                                                       -> "invalid_arguments"
    [] OTHER -> CASE IsSessionFailure(call.reply) -> "transport"
                  [] call.reply = "refused"       -> "rejected"
                  [] call.reply = "error"         -> "tool_error"
                  [] OTHER                        -> "answered"
Outcomes == {invoke(call) : call \in Calls}

\* A turn's calls are all made, and the first that lost the session counts.  The
\* results go back to the model, which in the last turn has to conclude.
execute(w) ==
  /\ At(w, "calling") /\ ~Cut(w)
  /\ Outcomes \ {"transport"} # {}
  /\ IF process[w].turn < MaxIterations
     THEN /\ Move(w, [process[w] EXCEPT !.stage = "thinking", !.turn = @ + 1])
          /\ UNCHANGED <<memory, table, paid, endings, faults>>
     ELSE Finish(w, 0, "done")
  /\ UNCHANGED <<message, context>>
executeLosesSession(w) ==
  /\ At(w, "calling") /\ "transport" \in Outcomes
  /\ Retry(w, FaultsOf(w))
  /\ UNCHANGED <<message, context, paid, endings>>

-----------------------------------------------------------------------------
(* Processes, and what surrounds them.                                     *)

\* initWorker: a process without a journal runs all the same; one with it first
\* fails what no run can still be working on.
Abandoned == {i \in Investigations : table[i].status = "running" /\ table[i].left = 0}
Boot(w) ==
  /\ At(w, "down")
  /\ \/ /\ Move(w, Fresh) /\ UNCHANGED faults
        /\ table' = [i \in Investigations |->
                       IF i \in Abandoned THEN [status |-> "failed", left |-> 0] ELSE table[i]]
        /\ endings' = [i \in Investigations |->
                         IF i \in Abandoned THEN endings[i] \cup {"abandoned"} ELSE endings[i]]
     \/ \E durable \in BOOLEAN :
          /\ Move(w, [Fresh EXCEPT !.durable = durable]) /\ Fault(1)
          /\ UNCHANGED <<table, endings>>
  /\ UNCHANGED <<message, context, memory, paid>>

Stop(w) ==
  /\ ~At(w, "down") /\ ~process[w].stopping /\ Fault(1)
  /\ Move(w, [process[w] EXCEPT !.stopping = TRUE])
  /\ UNCHANGED <<message, context, memory, table, paid, endings>>
Exit(w) ==
  /\ At(w, "idle") /\ process[w].stopping
  /\ Move(w, Down) /\ memory' = [memory EXCEPT ![w] = <<>>]
  /\ UNCHANGED <<message, context, table, paid, endings, faults>>
Crash(w) ==
  /\ ~At(w, "down") /\ Fault(1)
  /\ Move(w, Down) /\ memory' = [memory EXCEPT ![w] = <<>>]
  /\ UNCHANGED <<message, context, table, paid, endings>>

\* The producer commits the context row, maybe after the assignment was sent.
CommitContext(i) ==
  /\ ~context[i] /\ context' = [context EXCEPT ![i] = TRUE]
  /\ UNCHANGED <<message, process, memory, table, paid, endings, faults>>
\* A standard queue may hand out a deleted message again, and the publisher may
\* send an assignment again; handing out a leased one counts as a fault.
Return(i) ==
  /\ message[i].state = "gone" /\ message[i].deliveries < MaxAttempts
  /\ message' = [message EXCEPT ![i].state = "queued", ![i].lease = 0]
  /\ UNCHANGED <<context, process, memory, table, paid, endings, faults>>
Duplicate(i) ==
  /\ message[i].state = "queued" /\ message[i].lease > 0 /\ Fault(1)
  /\ message' = [message EXCEPT ![i].lease = 0]
  /\ UNCHANGED <<context, process, memory, table, paid, endings>>
\* The redrive policy, for a process that died with the last delivery.
DeadLetter(i) ==
  /\ message[i].state = "queued" /\ message[i].lease = 0 /\ message[i].deliveries = MaxAttempts
  /\ message' = [message EXCEPT ![i].state = "dead"]
  /\ UNCHANGED <<context, process, memory, table, paid, endings, faults>>

Older(t) == IF t = 0 THEN 0 ELSE t - 1
Running == {w \in Workers : process[w].stage \in RunStages}

\* heartbeat: every run in flight renews its lease, if its receipt still counts
\* and the call succeeds.
RenewedNever(w) == FALSE
Renewed(w) == message[On(w)].holder = w /\ message[On(w)].state = "queued"

\* Time passes while every process waits; a slow store or queue is a fault.
Tick ==
  /\ \A w \in Running : ~Cut(w)
  /\ \E failing \in SUBSET Running :
       LET stalled  == {w \in Workers : process[w].stage \in {"checking", "resolving", "acking"}}
           extended == {On(w) : w \in {v \in Running \ failing : Renewed(v)}}
       IN /\ Fault(Cardinality(failing) + Cardinality(stalled))
          /\ message' = [i \in Investigations |->
               [message[i] EXCEPT !.lease = IF i \in extended THEN VisibilityTimeout ELSE Older(@)]]
  /\ process' = [w \in Workers |-> [process[w] EXCEPT !.left = Older(@)]]
  /\ table' = [i \in Investigations |-> [table[i] EXCEPT !.left = Older(@)]]
  /\ UNCHANGED <<context, memory, paid, endings>>

Init ==
  /\ message = [i \in Investigations |-> Sent] /\ context = [i \in Investigations |-> i \notin Late]
  /\ process = [w \in Workers |-> Fresh] /\ memory = [w \in Workers |-> <<>>]
  /\ table = [i \in Investigations |-> [status |-> "none", left |-> 0]]
  /\ paid = [i \in Investigations |-> 0] /\ endings = [i \in Investigations |-> {}]
  /\ faults = 0

handle(w) == Receive(w) \/ Check(w) \/ Resolve(w) \/ Ack(w)
Run(w)    == Answer(w) \/ AskForTools(w) \/ RunFails(w) \/ execute(w) \/ executeLosesSession(w)

Next ==
  \/ \E w \in Workers : handle(w) \/ Run(w) \/ Boot(w) \/ Stop(w) \/ Exit(w) \/ Crash(w)
  \/ \E i \in Investigations : CommitContext(i) \/ Return(i) \/ Duplicate(i) \/ DeadLetter(i)
  \/ Tick

Spec == Init /\ [][Next]_vars

\* A process goes on with what it is doing and is restarted when it is down,
\* time passes, and the queue enforces its redrive policy.
FairSpec ==
  /\ Spec /\ WF_vars(Tick)
  /\ \A w \in Workers : WF_vars(handle(w)) /\ WF_vars(Run(w)) /\ WF_vars(Boot(w)) /\ WF_vars(Exit(w))
  /\ \A i \in Investigations : WF_vars(DeadLetter(i))

-----------------------------------------------------------------------------
(* Properties.                                                             *)

\* Every variable has its type.
TypeOK ==
  /\ message \in [Investigations -> [state : {"queued", "gone", "dead"},
                                     lease : 0..VisibilityTimeout, deliveries : 0..MaxAttempts,
                                     holder : Workers \cup {Nobody}]]
  /\ context \in [Investigations -> BOOLEAN]
  /\ process \in [Workers -> [stage : Stages, on : Investigations \cup {Nobody},
                              attempt : 0..MaxAttempts, left : 0..RunTimeout, turn : 0..MaxIterations,
                              durable : BOOLEAN, stopping : BOOLEAN]]
  /\ memory \in [Workers -> Seq([id : Investigations, status : Statuses])]
  /\ \A w \in Workers : Len(memory[w]) <= Capacity
  /\ table \in [Investigations -> [status : Statuses \cup {"none"}, left : 0..StaleAfter]]
  /\ paid \in [Investigations -> Nat] /\ faults \in 0..MaxFaults
  /\ endings \in [Investigations -> SUBSET {"ran", "gave_up", "abandoned", "hidden"}]

\* Seen: "whether this investigation was already paid for, so a redelivery is
\* not run twice".  While nothing fails it is paid for once, whichever process
\* gets the redelivery and whatever its memory has evicted; unless that process
\* remembers an attempt of its own to be retried.
PaidAgainOnlyAfterFault ==
  \A i \in Investigations : paid[i] > 1 => faults > 0 \/ "hidden" \in endings[i]

\* "at MaxAttempts the message has already had that many chances": whatever
\* fails, the delivery that reaches it is not run, so what an assignment may
\* cost is bounded.  One failure alone does not bound it: a process that starts
\* late writes running over the verdict of another, for the next one to read.
PaidWithinAttempts == \A i \in Investigations : paid[i] < MaxAttempts

\* Seen and MaxAttempts between them keep what an assignment costs in bounds.
PaymentsBounded == PaidAgainOnlyAfterFault /\ PaidWithinAttempts

\* heartbeat: "without it a 66s run outlives the visibility timeout and SQS hands
\* the same investigation to the next poll".  A second run of what is being run
\* also takes a failure: a lost renewal, a stall, a duplicate delivery.
RunsTwicePerFault ==
  \A i \in Investigations : Cardinality({w \in Running : On(w) = i}) <= 1 + faults

\* "calling it seen loses the incident": an assignment leaves the queue when it
\* was run to an end, was delivered too often, or was written off as abandoned.
DroppedOnlyWhenEnded == \A i \in Investigations : message[i].state = "gone" => endings[i] \cap {"ran", "gave_up", "abandoned"} # {}

\* "Every path either acknowledges the message or deliberately leaves it for
\* redelivery": no message is left for ever, and the redrive policy is "the
\* backstop for a worker that dies mid-message", not the way out of a retry.
EventuallyAcknowledged ==
  \A i \in Investigations :
    message[i].state = "queued" ~> \/ message[i].state = "gone"
                                   \/ message[i].state = "dead" /\ faults > 0

=============================================================================
