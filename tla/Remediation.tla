------------------------------ MODULE Remediation ------------------------------
(***************************************************************************)
(* From a verdict to a pull request: the remediation pool of the agent,    *)
(* the tables it writes, the engineers' requests that run beside it, and   *)
(* the two places outside the database that requests change, GitHub and    *)
(* the index of past decisions.                                            *)
(*                                                                         *)
(* One process serves; it may crash between any two steps and boot again.  *)
(* Every call to the database, to GitHub or to the index is an action and  *)
(* may fail.                                                               *)
(*                                                                         *)
(* A definition directly above the one it is a slip of is that             *)
(* definition's mutant: the specification does not use it.                 *)
(***************************************************************************)
EXTENDS Sandbox

CONSTANTS
  Investigations, Strategies,
  Workers,      \* Runner.JobConcurrency
  Requests,     \* requests of engineers, each made at most once
  QueueDepth,
  None,
  MaxRuns,      \* bound: runs that start
  MaxFaults     \* bound: failed calls, and crashes, after which AbandonStale may fail too

ASSUME RemediationAssumption ==
  /\ IsFiniteSet(Strategies) /\ QueueDepth \in Nat /\ {MaxRuns, MaxFaults} \subseteq Nat
  /\ None \notin Investigations \cup Requests

VARIABLES
  verdict,     \* of each investigation: none yet, or whether it names a commit
  jobs, inFlight, worker,      \* the pool
  outcome, solution, decision, \* the tables
  branch, pull, index,         \* GitHub and the precedents
  request,                     \* the handlers
  up,          \* the process serves
  runs,        \* runs begun
  lost,        \* what a failed call or a crash cost: <<"end", i>>, <<"supersede", i>>, <<"url", id>>; for the properties
  faults

tables   == <<outcome, solution, decision>>
pool     == <<jobs, inFlight, worker, runs>>
outside  == <<branch, pull, index>>
vars == <<verdict, pool, tables, outside, request, up, lost, faults>>

Fails(failed) == faults + failed <= MaxFaults /\ faults' = faults + failed

-----------------------------------------------------------------------------
(* Verdicts, as the queue worker reads them.                               *)

Conclusions == [block : {"absent", "garbled", "UNKNOWN", "ROLLBACK", "HOTFIX"},
                prose : {"UNKNOWN", "ROLLBACK", "HOTFIX"}, sha : BOOLEAN]
\* The JSON block, or the first decision the prose mentions.
parseVerdict(c) ==
  [decision |-> IF c.block \in {"ROLLBACK", "HOTFIX"} THEN c.block ELSE c.prose,
   sha |-> c.sha /\ (c.block \in {"ROLLBACK", "HOTFIX"} \/ c.prose # "UNKNOWN")]
Verdicts == {parseVerdict(c) : c \in Conclusions}

-----------------------------------------------------------------------------
(* Candidates.  Of what Sandbox proves a row keeps what later steps read.  *)

Ids == [run : 1..MaxRuns, strategy : Strategies]
Projected(c) == [failed |-> c.failed, applied |-> c.strength > 0,
                 sound |-> c.honest /\ (c.verified \/ (c.failed /\ c.rejected)) /\ c.blind # "listed"]
\* The orders Rank may give to one candidate of each strategy.
Ranked ==
  LET ordered(s) == \A i, j \in DOMAIN s : i < j => ~ Better(s[j].made, s[i].made)
      kinds == [made : Proposed, strategy : Strategies]
      Orders == {p \in [1..Cardinality(Strategies) -> Strategies] : IsInjective(p)}
  IN {[k \in DOMAIN s |-> [strategy |-> s[k].strategy, made |-> Projected(s[k].made)]] :
       s \in {x \in [1..Cardinality(Strategies) -> kinds] :
                 (\E p \in Orders : \A k \in DOMAIN x : x[k].strategy = p[k]) /\ ordered(x)}}

Made   == [failed : BOOLEAN, applied : BOOLEAN, sound : BOOLEAN]
Marks  == {"proposed", "failed", "selected", "rejected", "pr_opened"}
Row    == [id : Ids, of : Investigations, made : Made, status : Marks, pr : BOOLEAN]
Listed(i) == {row \in solution : row.of = i}
Stored(id) == {row \in solution : row.id = id}

-----------------------------------------------------------------------------
(* The pool.                                                               *)

Idle == [stage |-> "idle", of |-> None, run |-> 0, left |-> <<>>]
At(w, stage) == worker[w].stage = stage
Become(w, record) == worker' = [worker EXCEPT ![w] = record]

EnqueueUnbounded(i) == jobs' = Append(jobs, i) /\ inFlight' = inFlight \cup {i}
EnqueueTwice(i) ==
  /\ Len(jobs) < QueueDepth
  /\ jobs' = Append(jobs, i) /\ inFlight' = inFlight \cup {i}
\* Enqueue: an investigation in flight or a full queue refuses, and nothing is kept.
Enqueue(i) ==
  IF i \notin inFlight /\ Len(jobs) < QueueDepth
  THEN jobs' = Append(jobs, i) /\ inFlight' = inFlight \cup {i}
  ELSE UNCHANGED <<jobs, inFlight>>

\* worker.remediate, when the investigation ends: only for a hotfix.
HandOver(i) ==
  /\ up /\ verdict[i] = "none"
  /\ \E v \in Verdicts :
       /\ verdict' = [verdict EXCEPT ![i] = IF v.sha THEN "commit" ELSE "no commit"]
       /\ IF v.decision = "HOTFIX" THEN Enqueue(i) ELSE UNCHANGED <<jobs, inFlight>>
  /\ UNCHANGED <<worker, runs, tables, outside, request, up, lost, faults>>

\* POST /agent/:id/remediate, the button, any number of times.
StartRemediation(i) ==
  /\ up /\ verdict[i] = "commit"
  /\ Enqueue(i)
  /\ UNCHANGED <<verdict, worker, runs, tables, outside, request, up, lost, faults>>

RemediationStatus == {"running", "stopped", "done", "failed"}
Upserted(i, status) == outcome' = [outcome EXCEPT ![i] = status]

\* Run begins: the row reads running, unless the write fails, which is only logged.
Begin(w) ==
  /\ up /\ At(w, "idle") /\ jobs # <<>> /\ runs < MaxRuns
  /\ runs' = runs + 1 /\ jobs' = Tail(jobs)
  /\ Become(w, [Idle EXCEPT !.stage = "triage", !.of = Head(jobs), !.run = runs + 1])
  /\ \/ Upserted(Head(jobs), "running") /\ lost' = lost \ {<<"end", Head(jobs)>>} /\ Fails(0)
     \/ UNCHANGED <<outcome, lost>> /\ Fails(1)
  /\ UNCHANGED <<verdict, inFlight, solution, decision, outside, request, up>>

\* The mapping, triage, and its save; a run that ends here is saved by Finish.
Triage(w) ==
  /\ up /\ At(w, "triage")
  /\ \E ends \in TriageEnds(verdict[worker[w].of] = "commit") :
       /\ \/ ends = "error" /\ UNCHANGED outcome /\ Fails(0)
          \/ ends # "error" /\ Upserted(worker[w].of, "running") /\ Fails(0)
          \/ ends # "error" /\ UNCHANGED outcome /\ Fails(1)
       /\ Become(w, [worker[w] EXCEPT !.stage = CASE ends = "error" -> "failed"
                                                  [] ShouldRemediate(ends) -> "inspect"
                                                  [] OTHER -> "stopped"])
  /\ UNCHANGED <<verdict, jobs, inFlight, runs, solution, decision, outside, request, up, lost>>

\* Supersede: the candidates of an earlier run go, unless they have a pull request.
Supersede(i) == solution' = {row \in solution : row.of = i => row.pr}

\* inspect, the precedents, and Supersede.
Inspect(w) ==
  /\ up /\ At(w, "inspect")
  /\ \E ends \in InspectEnds :
       \/ /\ ends = "error" /\ Fails(0)
          /\ Become(w, [worker[w] EXCEPT !.stage = "failed"])
          /\ UNCHANGED <<solution, lost>>
       \/ /\ ends = "read" /\ Fails(0)
          /\ Become(w, [worker[w] EXCEPT !.stage = "proposing"])
          /\ Supersede(worker[w].of) /\ lost' = lost \ {<<"supersede", worker[w].of>>}
       \/ /\ ends = "read" /\ Fails(1)
          /\ Become(w, [worker[w] EXCEPT !.stage = "proposing"])
          /\ lost' = lost \cup {<<"supersede", worker[w].of>>} /\ UNCHANGED solution
  /\ UNCHANGED <<verdict, jobs, inFlight, runs, outcome, decision, outside, request, up>>

\* fanOut and Rank: one candidate of each strategy, best first.
FanOut(w) ==
  /\ up /\ At(w, "proposing")
  /\ \E ranked \in Ranked : Become(w, [worker[w] EXCEPT !.stage = "done", !.left = ranked])
  /\ UNCHANGED <<verdict, jobs, inFlight, runs, tables, outside, request, up, lost, faults>>

\* runJob returns: the investigation may be remediated again.
Return(w) == Become(w, Idle) /\ inFlight' = inFlight \ {worker[w].of}

\* finish: the outcome, and when there are candidates each of them after it, in rank
\* order; the first write that fails ends the save.
Finish(w) ==
  /\ up /\ worker[w].stage \in {"failed", "stopped", "done"}
  /\ \/ /\ Upserted(worker[w].of, worker[w].stage) /\ Fails(0) /\ UNCHANGED lost
        /\ IF worker[w].left = <<>> THEN Return(w)
           ELSE Become(w, [worker[w] EXCEPT !.stage = "saving"]) /\ UNCHANGED inFlight
     \/ /\ UNCHANGED outcome /\ Fails(1) /\ lost' = lost \cup {<<"end", worker[w].of>>}
        /\ Return(w)
  /\ UNCHANGED <<verdict, jobs, runs, solution, decision, outside, request, up>>

SaveCandidate(w) ==
  /\ up /\ At(w, "saving")
  /\ LET next == Head(worker[w].left)
         row == [id |-> [run |-> worker[w].run, strategy |-> next.strategy], of |-> worker[w].of,
                 made |-> next.made, status |-> IF next.made.failed THEN "failed" ELSE "proposed", pr |-> FALSE]
     IN \/ /\ solution' = solution \cup {row} /\ Fails(0)
           /\ IF Len(worker[w].left) = 1 THEN Return(w)
              ELSE Become(w, [worker[w] EXCEPT !.left = Tail(@)]) /\ UNCHANGED inFlight
        \/ UNCHANGED solution /\ Fails(1) /\ Return(w)
  /\ UNCHANGED <<verdict, jobs, runs, outcome, decision, outside, request, up, lost>>

-----------------------------------------------------------------------------
(* The engineers.  A request is of one handler, alone in its goroutine.    *)

Waiting == [stage |-> "waiting", id |-> None, of |-> None, chosen |-> None, seen |-> {}, replaced |-> {}]
Now(q, stage) == request[q].stage = stage
Reply(q, record) == request' = [request EXCEPT ![q] = record]
Answered(q) == Reply(q, [Waiting EXCEPT !.stage = "answered"])
QuietPool == UNCHANGED <<verdict, pool, outcome, up>>

\* OpenPullRequest reads the candidate, and goes on only with one that applied, has
\* no pull request yet, and whose service is mapped.
Click(q) ==
  /\ up /\ Now(q, "waiting")
  /\ \E row \in solution :
       \/ /\ ~ row.pr /\ row.made.applied /\ Fails(0)
          /\ Reply(q, [Waiting EXCEPT !.stage = "publishing", !.id = row.id])
       \/ /\ row.pr \/ ~ row.made.applied
          /\ Fails(0) /\ Answered(q)
       \/ /\ ~ row.pr /\ row.made.applied /\ Fails(1) /\ Answered(q)
  /\ QuietPool /\ UNCHANGED <<solution, decision, outside, lost>>

\* A branch of its own for every click, as a random name would give.
CreateBranchAnew(q) ==
  /\ up /\ Now(q, "publishing")
  /\ Fails(0) /\ branch' = branch \cup {request[q].id}
  /\ Reply(q, [request[q] EXCEPT !.stage = "branched"])
  /\ QuietPool /\ UNCHANGED <<solution, decision, pull, index, lost>>
\* The branch is named for the candidate, and GitHub has it once.
CreateBranch(q) ==
  /\ up /\ Now(q, "publishing")
  /\ \/ /\ request[q].id \notin branch /\ Fails(0)
        /\ branch' = branch \cup {request[q].id}
        /\ Reply(q, [request[q] EXCEPT !.stage = "branched"])
     \/ /\ request[q].id \in branch /\ Fails(0)
        /\ Answered(q) /\ UNCHANGED branch
     \/ Fails(1) /\ Answered(q) /\ branch' \in {branch, branch \cup {request[q].id}}
  /\ QuietPool /\ UNCHANGED <<solution, decision, pull, index, lost>>

\* The answer may be lost after the pull request is open.
CreatePull(q) ==
  /\ up /\ Now(q, "branched")
  /\ \/ /\ Fails(0) /\ pull' = [pull EXCEPT ![request[q].id] = @ + 1]
        /\ Reply(q, [request[q] EXCEPT !.stage = "opened"]) /\ UNCHANGED lost
     \/ Fails(1) /\ Answered(q) /\ UNCHANGED <<pull, lost>>
     \/ /\ Fails(1) /\ Answered(q) /\ pull' = [pull EXCEPT ![request[q].id] = @ + 1]
        /\ lost' = lost \cup {<<"url", request[q].id>>}
  /\ QuietPool /\ UNCHANGED <<solution, decision, branch, index>>

\* The engineer is warned when the URL could not be stored: the write failed, or a
\* newer run took the candidate's row away.
MarkOpened(q) ==
  /\ up /\ Now(q, "opened") /\ Answered(q)
  /\ LET id == request[q].id
     IN \/ /\ Stored(id) # {} /\ Fails(0)
           /\ solution' = {IF row.id = id THEN [row EXCEPT !.status = "pr_opened", !.pr = TRUE] ELSE row : row \in solution}
           /\ UNCHANGED lost
        \/ /\ Fails(IF Stored(id) = {} THEN 0 ELSE 1)
           /\ lost' = lost \cup {<<"url", id>>} /\ UNCHANGED solution
  /\ QuietPool /\ UNCHANGED <<decision, outside>>

\* What a handler reads of an investigation that has a remediation.
Load(i) == {row.id : row \in Listed(i)}
\* A candidate that is not among those read is refused; those not chosen are rejected.
NewDecision(i, seen) ==
  {[Waiting EXCEPT !.stage = "deciding", !.of = i, !.chosen = chosen, !.seen = seen]
     : chosen \in seen \cup {None}}
Decide(q) ==
  /\ up /\ Now(q, "waiting")
  /\ \E i \in Investigations :
       /\ outcome[i] # "none" /\ Fails(0)
       /\ \E drafted \in NewDecision(i, Load(i)) : Reply(q, drafted)
  /\ QuietPool /\ UNCHANGED <<solution, decision, outside, lost>>

\* setStatus: a candidate with its pull request open is never moved.
Judged(row, q) ==
  IF row.status = "pr_opened" THEN row
  ELSE IF row.id = request[q].chosen THEN [row EXCEPT !.status = "selected"]
  ELSE IF row.id \in request[q].seen THEN [row EXCEPT !.status = "rejected"] ELSE row

supersedeDecisions(i) == {decision[i].by} \ {None}
\* One transaction: the decision before it goes, this one is stored, its rows are
\* marked.  A commit whose answer is lost is taken for one that failed, and nothing
\* is indexed.
Decides(q, i) ==
  /\ decision' = [decision EXCEPT ![i] = [by |-> q, indexed |-> FALSE]]
  /\ solution' = {Judged(row, q) : row \in solution}
SaveDecision(q) ==
  /\ up /\ Now(q, "deciding")
  /\ LET i == request[q].of
     IN \/ /\ Decides(q, i) /\ Fails(0)
           /\ Reply(q, [Waiting EXCEPT !.stage = "forgetting", !.of = i, !.replaced = supersedeDecisions(i)])
        \/ Decides(q, i) /\ Fails(1) /\ Answered(q)
        \/ Fails(1) /\ Answered(q) /\ UNCHANGED <<decision, solution>>
  /\ QuietPool /\ UNCHANGED <<outside, lost>>

\* indexDecision: the decisions it replaced go first; a failure is only logged.
Forget(q) ==
  /\ up /\ Now(q, "forgetting")
  /\ \/ index' = index \ request[q].replaced /\ Fails(0)
     \/ request[q].replaced # {} /\ UNCHANGED index /\ Fails(1)
  /\ Reply(q, [Waiting EXCEPT !.stage = "adding", !.of = request[q].of])
  /\ QuietPool /\ UNCHANGED <<solution, decision, branch, pull, lost>>

AddRegardless(q) ==
  /\ up /\ Now(q, "adding")
  /\ \/ index' = index \cup {q} /\ Fails(0)
     \/ UNCHANGED index /\ Fails(1)
  /\ Reply(q, [request[q] EXCEPT !.stage = "indexed"])
  /\ QuietPool /\ UNCHANGED <<solution, decision, branch, pull, lost>>
Add(q) ==
  /\ up /\ Now(q, "adding")
  /\ \/ index' = index \cup {q} /\ Fails(0) /\ Reply(q, [request[q] EXCEPT !.stage = "indexed"])
     \/ UNCHANGED index /\ Fails(1) /\ Answered(q)
  /\ QuietPool /\ UNCHANGED <<solution, decision, branch, pull, lost>>

MarkIndexed(q) ==
  /\ up /\ Now(q, "indexed") /\ Answered(q)
  /\ LET i == request[q].of
     IN \/ /\ Fails(0)
           /\ decision' = IF decision[i].by = q THEN [decision EXCEPT ![i].indexed = TRUE] ELSE decision
        \/ Fails(1) /\ UNCHANGED decision
  /\ QuietPool /\ UNCHANGED <<solution, outside, lost>>

-----------------------------------------------------------------------------
(* The process.                                                            *)

\* What was in memory is gone; a pull request whose URL was on its way is orphaned.
Crash ==
  /\ up /\ Fails(1) /\ up' = FALSE
  /\ jobs' = <<>> /\ inFlight' = {} /\ worker' = [w \in Workers |-> Idle]
  /\ request' = [q \in Requests |-> IF Now(q, "waiting") THEN Waiting ELSE [Waiting EXCEPT !.stage = "answered"]]
  /\ lost' = lost \cup {<<"url", request[q].id>> : q \in {x \in Requests : Now(x, "opened")}}
  /\ UNCHANGED <<verdict, runs, tables, outside>>

AbandonNone == [i \in Investigations |-> IF outcome[i] = "none" THEN "failed" ELSE outcome[i]]
\* reclaimRemediations: a row that still reads running has no owner.
AbandonStale == [i \in Investigations |-> IF outcome[i] = "running" THEN "failed" ELSE outcome[i]]
Boot ==
  /\ ~ up /\ up' = TRUE
  /\ \/ outcome' = AbandonStale /\ Fails(0) /\ UNCHANGED lost
     \/ /\ UNCHANGED outcome /\ Fails(0)
        /\ lost' = lost \cup {<<"end", i>> : i \in {x \in Investigations : outcome[x] = "running"}}
  /\ UNCHANGED <<verdict, pool, solution, decision, outside, request>>

Init ==
  /\ verdict = [i \in Investigations |-> "none"]
  /\ jobs = <<>> /\ inFlight = {} /\ worker = [w \in Workers |-> Idle] /\ runs = 0
  /\ outcome = [i \in Investigations |-> "none"] /\ solution = {}
  /\ decision = [i \in Investigations |-> [by |-> None, indexed |-> FALSE]]
  /\ branch = {} /\ pull = [id \in Ids |-> 0] /\ index = {}
  /\ request = [q \in Requests |-> Waiting]
  /\ up = TRUE /\ lost = {} /\ faults = 0

RunJob(w) == Begin(w) \/ Triage(w) \/ Inspect(w) \/ FanOut(w) \/ Finish(w) \/ SaveCandidate(w)
OpenPullRequest(q) == Click(q) \/ CreateBranch(q) \/ CreatePull(q) \/ MarkOpened(q)
indexDecision(q)   == Forget(q) \/ Add(q) \/ MarkIndexed(q)
RecordDecision(q)  == Decide(q) \/ SaveDecision(q) \/ indexDecision(q)

Next ==
  \/ \E i \in Investigations : HandOver(i) \/ StartRemediation(i)
  \/ \E w \in Workers : RunJob(w)
  \/ \E q \in Requests : OpenPullRequest(q) \/ RecordDecision(q)
  \/ Crash \/ Boot

Spec == Init /\ [][Next]_vars

-----------------------------------------------------------------------------
(* Properties.                                                             *)

\* Every variable keeps its type.
TypeOK ==
  /\ verdict \in [Investigations -> {"none", "commit", "no commit"}]
  /\ jobs \in Seq(Investigations) /\ Len(jobs) <= QueueDepth /\ inFlight \subseteq Investigations
  /\ \A w \in Workers :
       /\ worker[w].stage \in {"idle", "triage", "inspect", "proposing", "failed", "stopped", "done", "saving"}
       /\ worker[w].of \in Investigations \cup {None} /\ worker[w].run \in 0..MaxRuns
       /\ \A k \in DOMAIN worker[w].left : worker[w].left[k] \in [strategy : Strategies, made : Made]
  /\ outcome \in [Investigations -> RemediationStatus \cup {"none"}]
  /\ solution \subseteq Row /\ decision \in [Investigations -> [by : Requests \cup {None}, indexed : BOOLEAN]]
  /\ branch \subseteq Ids /\ pull \in [Ids -> Nat] /\ index \subseteq Requests
  /\ \A q \in Requests :
       /\ request[q].stage \in {"waiting", "publishing", "branched", "opened", "deciding", "forgetting",
                                "adding", "indexed", "answered"}
       /\ request[q].seen \subseteq Ids /\ request[q].replaced \subseteq Requests
  /\ up \in BOOLEAN /\ runs \in 0..MaxRuns /\ faults \in 0..MaxFaults

\* What a stored candidate says was applied, built and tested is what a container of
\* its did, unless that was killed inside an end marker.  It was done to the files the
\* candidate holds, or, when a repair's container never ran, to those of the round
\* before: then the candidate has failed, and what it says is that their build or
\* tests failed.  And its files replace no listed file the model was not shown.
\* (candidate.go: "what actually ran for one candidate"; patch.go: "a rewrite would
\* replace code it never read".)
NeverOverclaims == \A row \in solution : row.made.sound

\* A candidate has at most one pull request however often it is clicked, and one that
\* is open is on the candidate's row, or about to be, or lost to a failure the
\* engineer was told of or a crash.
OnePullRequest ==
  \A id \in Ids :
    /\ pull[id] <= 1
    /\ (\E row \in Stored(id) : row.pr) => pull[id] = 1
    /\ pull[id] = 1 => \/ \E row \in Stored(id) : row.pr
                       \/ \E q \in Requests : Now(q, "opened") /\ request[q].id = id
                       \/ <<"url", id>> \in lost

\* Nobody picks from two generations of fixes: the candidates of an investigation that
\* have no pull request come from one run, unless clearing the earlier ones failed.
OneGeneration ==
  \A i \in Investigations :
    \/ <<"supersede", i>> \in lost
    \/ \A a, b \in Listed(i) : a.pr \/ b.pr \/ a.id.run = b.id.run

\* A decision marked as indexed can be recalled, whichever decisions replace each
\* other meanwhile.
IndexedIsRecalled == \A i \in Investigations : decision[i].indexed => decision[i].by \in index

\* A remediation that reads running has a run of the process that serves, unless the
\* write of its end failed.  (store.go: "a row still running at boot has no owner".)
RunningHasOwner ==
  \A i \in Investigations :
    up /\ outcome[i] = "running" => <<"end", i>> \in lost \/ \E w \in Workers : worker[w].of = i
=============================================================================
