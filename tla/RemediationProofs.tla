--------------------------- MODULE RemediationProofs ---------------------------
(***************************************************************************)
(* What holds of the remediation pool, its tables and the engineers'       *)
(* requests for any number of investigations, workers, requests and        *)
(* failures, and for any number of repairs of a candidate.  The tables     *)
(* only carry what the sandbox returned; that it claims no more than was   *)
(* proved is shown from the scripts' output and the repair loop.           *)
(***************************************************************************)
EXTENDS Remediation, SumTheorems, SequenceTheorems

\* What a candidate keeps of what Sandbox proved.
Mades    == {Projected(c) : c \in Proposed}
Drafts   == [strategy : Strategies, made : Mades]
Rows     == [id : Ids, of : Investigations, made : Mades, status : Marks, pr : BOOLEAN]
JobStages == {"idle", "triage", "inspect", "proposing", "failed", "stopped", "done", "saving"}
Runners  == [stage : JobStages, of : Investigations \cup {None}, run : 0..MaxRuns, left : Seq(Drafts)]
Replies  == {"waiting", "publishing", "branched", "opened", "deciding", "forgetting", "adding",
             "indexed", "answered"}
Handlers == [stage : Replies, id : Ids \cup {None}, of : Investigations \cup {None},
             chosen : Ids \cup {None}, seen : SUBSET Ids, replaced : SUBSET Requests]

-----------------------------------------------------------------------------
(* The inductive invariant.                                                *)

\* Every variable its type, with the sandbox's results as they are.
Shape ==
  /\ verdict \in [Investigations -> {"none", "commit", "no commit"}]
  /\ jobs \in Seq(Investigations) /\ Len(jobs) <= QueueDepth /\ inFlight \subseteq Investigations
  /\ worker \in [Workers -> Runners] /\ runs \in 0..MaxRuns
  /\ outcome \in [Investigations -> RemediationStatus \cup {"none"}]
  /\ solution \subseteq Rows
  /\ decision \in [Investigations -> [by : Requests \cup {None}, indexed : BOOLEAN]]
  /\ branch \subseteq Ids /\ pull \in [Ids -> Nat] /\ index \subseteq Requests
  /\ request \in [Requests -> Handlers]
  /\ up \in BOOLEAN /\ faults \in 0..MaxFaults

\* A worker has an investigation exactly while it runs a job, and candidates
\* only to save them.
Placed(w) ==
  /\ At(w, "idle") <=> worker[w].of = None
  /\ ~At(w, "idle") => worker[w].run # 0
  /\ worker[w].stage \notin {"done", "saving"} => worker[w].left = <<>>
  /\ At(w, "saving") => worker[w].left # <<>>

\* What is in flight is queued once or run by one worker, never both.
OncePerInvestigation ==
  /\ \A k \in DOMAIN jobs : jobs[k] \in inFlight
  /\ \A j, k \in DOMAIN jobs : jobs[j] = jobs[k] => j = k
  /\ \A w \in Workers : ~At(w, "idle") =>
       worker[w].of \in inFlight /\ \A k \in DOMAIN jobs : jobs[k] # worker[w].of
  /\ \A v, w \in Workers : worker[v].of = worker[w].of /\ ~At(w, "idle") => v = w

\* From the moment the earlier candidates were cleared, those without a pull
\* request are the run's own.
OwnGeneration(w) ==
  worker[w].stage \in {"proposing", "done", "saving"} =>
    \/ <<"supersede", worker[w].of>> \in lost
    \/ \A row \in Listed(worker[w].of) : row.pr \/ row.id.run = worker[w].run

\* A run that is saving its candidates has written its end, or lost it.
EndWritten(w) ==
  At(w, "saving") => outcome[worker[w].of] # "running" \/ <<"end", worker[w].of>> \in lost

\* The one request that made a candidate's branch is the one that may open its
\* pull request.
Opening == {"branched", "opened"}
Publishing(q) ==
  /\ request[q].stage \in Opening \cup {"publishing"} => request[q].id \in Ids
  /\ request[q].stage \in Opening => request[q].id \in branch
  /\ Now(q, "branched") => pull[request[q].id] = 0
  /\ Now(q, "opened") => pull[request[q].id] = 1
OneOpener ==
  \A p, q \in Requests :
    request[p].stage \in Opening /\ request[q].stage \in Opening
      /\ request[p].id = request[q].id => p = q
PulledOnBranch == \A id \in Ids : pull[id] # 0 => id \in branch

\* A request decides once: what it stored, and what that replaced, is behind it.
Decided == {"forgetting", "adding", "indexed", "answered"}
DecidedOnce ==
  /\ \A i \in Investigations : decision[i].by # None => request[decision[i].by].stage \in Decided
  /\ \A i, j \in Investigations : decision[i].by = decision[j].by /\ decision[i].by # None => i = j
Replaces(q) ==
  /\ request[q].stage \in {"deciding"} \cup (Decided \ {"answered"}) => request[q].of \in Investigations
  /\ Now(q, "forgetting") =>
       \A r \in request[q].replaced : /\ request[r].stage \in Decided
                                      /\ \A i \in Investigations : decision[i].by # r
  /\ Now(q, "indexed") /\ decision[request[q].of].by = q => q \in index

PoolInv       == (\A w \in Workers : Placed(w)) /\ OncePerInvestigation
GenerationInv == (\A w \in Workers : OwnGeneration(w)) /\ OneGeneration
EndInv        == (\A w \in Workers : EndWritten(w)) /\ RunningHasOwner
PullInv       == (\A q \in Requests : Publishing(q)) /\ OneOpener /\ PulledOnBranch /\ OnePullRequest
DecisionInv   == (\A q \in Requests : Replaces(q)) /\ DecidedOnce /\ IndexedIsRecalled

IInv == Shape /\ PoolInv /\ GenerationInv /\ EndInv /\ PullInv /\ DecisionInv

-----------------------------------------------------------------------------
(* Constants, and what a step makes of a worker and of a handler.          *)

\* The bounds are numbers, and nothing the program handles is called None.
LEMMA Config ==
  /\ IsFiniteSet(Strategies) /\ QueueDepth \in Nat /\ MaxRuns \in Nat /\ MaxFaults \in Nat
  /\ None \notin Investigations /\ None \notin Requests
  BY RemediationAssumption

\* A worker after a step, by its fields; the others are as they were.
Takes(w, stage, of, run, left) ==
  /\ worker' \in [Workers -> Runners]
  /\ worker'[w].stage = stage /\ worker'[w].of = of /\ worker'[w].run = run /\ worker'[w].left = left
  /\ \A v \in Workers : v # w => worker'[v] = worker[v]

\* Become writes one worker's record and no other.
LEMMA Becomes ==
  ASSUME worker \in [Workers -> Runners], NEW w \in Workers, NEW r \in Runners, Become(w, r)
  PROVE  /\ worker' \in [Workers -> Runners]
         /\ worker'[w] = r
         /\ \A v \in Workers : v # w => worker'[v] = worker[v]
  BY DEF Become

\* The record of a worker with nothing to do.
LEMMA IdleIs ==
  /\ Idle \in Runners
  /\ Idle.stage = "idle" /\ Idle.of = None /\ Idle.run = 0 /\ Idle.left = <<>>
  BY Config DEF Idle, Runners, JobStages

\* The record of a worker that moves on within its run.
Staged(r, stage) == [r EXCEPT !.stage = stage]

\* It differs in the stage alone.
LEMMA StagedIs ==
  ASSUME NEW r \in Runners, NEW s \in JobStages
  PROVE  /\ Staged(r, s) \in Runners
         /\ Staged(r, s).stage = s /\ Staged(r, s).of = r.of
         /\ Staged(r, s).run = r.run /\ Staged(r, s).left = r.left
  BY DEF Runners, Staged

\* A worker that moves on keeps its investigation, its run and its candidates.
LEMMA Moves ==
  ASSUME Shape, NEW w \in Workers, NEW s \in JobStages, Become(w, [worker[w] EXCEPT !.stage = s])
  PROVE  Takes(w, s, worker[w].of, worker[w].run, worker[w].left)
  <1>1. worker[w] \in Runners
    BY DEF Shape
  <1>2. Become(w, Staged(worker[w], s))
    BY DEF Staged
  <1>3. /\ Staged(worker[w], s) \in Runners
        /\ Staged(worker[w], s).stage = s /\ Staged(worker[w], s).of = worker[w].of
        /\ Staged(worker[w], s).run = worker[w].run /\ Staged(worker[w], s).left = worker[w].left
    BY <1>1, StagedIs
  <1> QED
    BY <1>2, <1>3, Becomes DEF Shape, Takes

\* A worker whose run is over is idle.
LEMMA Returns ==
  ASSUME Shape, NEW w \in Workers, Return(w)
  PROVE  Takes(w, "idle", None, 0, <<>>) /\ inFlight' = inFlight \ {worker[w].of}
  BY IdleIs, Becomes DEF Shape, Takes, Return

\* Begin takes the first job off the queue.
LEMMA BeginTakes ==
  ASSUME Shape, NEW w \in Workers, Begin(w)
  PROVE  /\ Head(jobs) \in Investigations /\ runs + 1 \in 0..MaxRuns
         /\ Takes(w, "triage", Head(jobs), runs + 1, <<>>)
  <1>1. jobs \in Seq(Investigations) /\ jobs # <<>> /\ runs \in 0..MaxRuns /\ runs < MaxRuns
    BY DEF Shape, Begin
  <1>2. Head(jobs) \in Investigations /\ runs + 1 \in 0..MaxRuns
    BY <1>1, Config
  <1>3. PICK r : r = [Idle EXCEPT !.stage = "triage", !.of = Head(jobs), !.run = runs + 1]
    OBVIOUS
  <1>4. r = [stage |-> "triage", of |-> Head(jobs), run |-> runs + 1, left |-> <<>>]
    BY <1>3 DEF Idle
  <1>6. r \in Runners /\ r.stage = "triage" /\ r.of = Head(jobs) /\ r.run = runs + 1 /\ r.left = <<>>
    BY <1>2, <1>4 DEF Runners, JobStages
  <1>5. Become(w, r)
    BY <1>3 DEF Begin
  <1> QED
    BY <1>2, <1>5, <1>6, Becomes DEF Shape, Takes

\* Triage ends the run or goes on to the inspection.
LEMMA TriageTakes ==
  ASSUME Shape, NEW w \in Workers, Triage(w)
  PROVE  \E s \in {"failed", "inspect", "stopped"} :
           Takes(w, s, worker[w].of, worker[w].run, worker[w].left)
  <1>1. PICK s \in {"failed", "inspect", "stopped"} : Become(w, [worker[w] EXCEPT !.stage = s])
    BY DEF Triage
  <1>2. s \in JobStages
    BY DEF JobStages
  <1> QED
    BY <1>1, <1>2, Moves

\* The inspection fails or lets the strategies propose.
LEMMA InspectTakes ==
  ASSUME Shape, NEW w \in Workers, Inspect(w)
  PROVE  \E s \in {"failed", "proposing"} : Takes(w, s, worker[w].of, worker[w].run, worker[w].left)
  <1>1. PICK s \in {"failed", "proposing"} : Become(w, [worker[w] EXCEPT !.stage = s])
    BY DEF Inspect
  <1>2. s \in JobStages
    BY DEF JobStages
  <1> QED
    BY <1>1, <1>2, Moves

\* The candidates of a run, best first, as the rows will carry them.
LEMMA RankedIs == Ranked \subseteq Seq(Drafts)
  <1> DEFINE n == Cardinality(Strategies)
  <1>1. n \in Nat
    BY Config, FS_CardinalityType
  <1> SUFFICES ASSUME NEW ranked \in Ranked PROVE ranked \in Seq(Drafts)
    OBVIOUS
  <1>2. PICK s \in [1..n -> [made : Proposed, strategy : Strategies]] :
          ranked = [k \in DOMAIN s |-> [strategy |-> s[k].strategy, made |-> Projected(s[k].made)]]
    BY DEF Ranked
  <1>3. \A k \in 1..n : [strategy |-> s[k].strategy, made |-> Projected(s[k].made)] \in Drafts
    BY <1>2 DEF Drafts, Mades
  <1>4. ranked \in [1..n -> Drafts]
    BY <1>2, <1>3
  <1> QED
    BY <1>1, <1>4

\* The strategies proposed; what they made waits to be saved.
LEMMA FanOutTakes ==
  ASSUME Shape, NEW w \in Workers, FanOut(w)
  PROVE  \E ranked \in Seq(Drafts) : Takes(w, "done", worker[w].of, worker[w].run, ranked)
  <1>1. PICK ranked \in Ranked : Become(w, [worker[w] EXCEPT !.stage = "done", !.left = ranked])
    BY DEF FanOut
  <1>2. ranked \in Seq(Drafts) /\ worker[w] \in Runners
    BY RankedIs DEF Shape
  <1>3. PICK r : r = [worker[w] EXCEPT !.stage = "done", !.left = ranked]
    OBVIOUS
  <1>4. /\ r \in Runners /\ r.stage = "done" /\ r.of = worker[w].of /\ r.run = worker[w].run
        /\ r.left = ranked
    BY <1>2, <1>3 DEF Runners, JobStages
  <1>5. Become(w, r)
    BY <1>1, <1>3
  <1>6. Takes(w, "done", worker[w].of, worker[w].run, ranked)
    BY <1>4, <1>5, Becomes DEF Shape, Takes
  <1> QED
    BY <1>2, <1>6

\* Finish saves the candidates, or ends the run when there are none or the write failed.
LEMMA FinishTakes ==
  ASSUME Shape, NEW w \in Workers, Finish(w)
  PROVE  \/ /\ worker[w].left # <<>> /\ UNCHANGED inFlight
            /\ outcome' = [outcome EXCEPT ![worker[w].of] = worker[w].stage] /\ UNCHANGED lost
            /\ Takes(w, "saving", worker[w].of, worker[w].run, worker[w].left)
         \/ /\ Takes(w, "idle", None, 0, <<>>) /\ inFlight' = inFlight \ {worker[w].of}
            /\ \/ outcome' = [outcome EXCEPT ![worker[w].of] = worker[w].stage] /\ UNCHANGED lost
               \/ UNCHANGED outcome /\ lost' = lost \cup {<<"end", worker[w].of>>}
  <1>1. CASE Return(w)
    <2>1. \/ outcome' = [outcome EXCEPT ![worker[w].of] = worker[w].stage] /\ UNCHANGED lost
          \/ UNCHANGED outcome /\ lost' = lost \cup {<<"end", worker[w].of>>}
      BY DEF Finish, Upserted
    <2> QED
      BY <1>1, <2>1, Returns
  <1>2. CASE ~Return(w)
    <2>1. /\ worker[w].left # <<>> /\ UNCHANGED inFlight
          /\ outcome' = [outcome EXCEPT ![worker[w].of] = worker[w].stage] /\ UNCHANGED lost
          /\ Become(w, [worker[w] EXCEPT !.stage = "saving"])
      BY <1>2 DEF Finish, Upserted
    <2>2. "saving" \in JobStages
      BY DEF JobStages
    <2> QED
      BY <2>1, <2>2, Moves
  <1> QED
    BY <1>1, <1>2

\* The candidate that a saving worker writes next.
NextRow(w) ==
  LET next == Head(worker[w].left)
  IN [id |-> [run |-> worker[w].run, strategy |-> next.strategy], of |-> worker[w].of,
      made |-> next.made, status |-> IF next.made.failed THEN "failed" ELSE "proposed", pr |-> FALSE]

\* SaveCandidate writes one row and goes on, or ends with the last row or a failed write.
LEMMA SaveTakes ==
  ASSUME Shape, NEW w \in Workers, Placed(w), SaveCandidate(w)
  PROVE  /\ solution' = solution \cup {NextRow(w)} \/ UNCHANGED solution
         /\ \/ /\ UNCHANGED inFlight /\ Tail(worker[w].left) # <<>>
               /\ Takes(w, "saving", worker[w].of, worker[w].run, Tail(worker[w].left))
            \/ Takes(w, "idle", None, 0, <<>>) /\ inFlight' = inFlight \ {worker[w].of}
  <1>1. solution' = solution \cup {NextRow(w)} \/ UNCHANGED solution
    BY DEF SaveCandidate, NextRow
  <1>2. CASE Return(w)
    BY <1>1, <1>2, Returns
  <1>3. CASE ~Return(w)
    <2>1. /\ UNCHANGED inFlight /\ Len(worker[w].left) # 1
          /\ Become(w, [worker[w] EXCEPT !.left = Tail(@)])
      BY <1>3 DEF SaveCandidate
    <2>2. worker[w] \in Runners /\ worker[w].left # <<>>
      BY DEF Shape, Placed, SaveCandidate
    <2>3. PICK rest : rest = Tail(worker[w].left)
      OBVIOUS
    <2>4. rest \in Seq(Drafts) /\ rest # <<>>
      <3>1. PICK left \in Seq(Drafts) : left = worker[w].left /\ left # <<>> /\ Len(left) # 1
        BY <2>1, <2>2 DEF Runners
      <3>2. Tail(left) \in Seq(Drafts) /\ Len(Tail(left)) = Len(left) - 1
        BY <3>1, HeadTailProperties
      <3>3. Len(Tail(left)) # 0 /\ Len(<<>>) = 0
        BY <3>1, <3>2
      <3> QED
        BY <2>3, <3>1, <3>2, <3>3
    <2>5. PICK r : r = [worker[w] EXCEPT !.left = rest]
      OBVIOUS
    <2>6. /\ r \in Runners /\ r.stage = worker[w].stage /\ r.of = worker[w].of
          /\ r.run = worker[w].run /\ r.left = rest
      BY <2>2, <2>4, <2>5 DEF Runners
    <2>7. Become(w, r) /\ worker[w].stage = "saving"
      BY <2>1, <2>3, <2>5 DEF SaveCandidate, At
    <2> QED
      BY <1>1, <2>1, <2>3, <2>4, <2>6, <2>7, Becomes DEF Shape, Takes
  <1> QED
    BY <1>2, <1>3

\* A handler after a step, by what later steps read of it; the others are as they were.
Gives(q, stage, id, of, replaced) ==
  /\ request' \in [Requests -> Handlers]
  /\ request'[q].stage = stage /\ request'[q].id = id /\ request'[q].of = of
  /\ request'[q].replaced = replaced
  /\ \A p \in Requests : p # q => request'[p] = request[p]

\* Reply writes one handler's record and no other.
LEMMA Replied ==
  ASSUME request \in [Requests -> Handlers], NEW q \in Requests, NEW r \in Handlers, Reply(q, r)
  PROVE  Gives(q, r.stage, r.id, r.of, r.replaced)
  BY DEF Reply, Gives

\* A handler that has answered keeps nothing.
LEMMA Closes ==
  ASSUME Shape, NEW q \in Requests, Answered(q)
  PROVE  Gives(q, "answered", None, None, {})
  <1>1. PICK r : r = [Waiting EXCEPT !.stage = "answered"]
    OBVIOUS
  <1>2. r \in Handlers /\ r.stage = "answered" /\ r.id = None /\ r.of = None /\ r.replaced = {}
    BY <1>1 DEF Waiting, Handlers, Replies
  <1>3. Reply(q, r)
    BY <1>1 DEF Answered
  <1>4. Gives(q, r.stage, r.id, r.of, r.replaced)
    BY <1>2, <1>3, Replied DEF Shape
  <1> QED
    BY <1>2, <1>4

\* A handler that moves on keeps what it has.
LEMMA Advances ==
  ASSUME Shape, NEW q \in Requests, NEW s \in Replies, Reply(q, [request[q] EXCEPT !.stage = s])
  PROVE  Gives(q, s, request[q].id, request[q].of, request[q].replaced)
  <1>1. PICK r : r = [request[q] EXCEPT !.stage = s]
    OBVIOUS
  <1>2. request[q] \in Handlers
    BY DEF Shape
  <1>3. /\ r \in Handlers /\ r.stage = s /\ r.id = request[q].id /\ r.of = request[q].of
        /\ r.replaced = request[q].replaced
    BY <1>1, <1>2 DEF Handlers
  <1>4. Gives(q, r.stage, r.id, r.of, r.replaced)
    BY <1>1, <1>3, Replied DEF Shape
  <1> QED
    BY <1>3, <1>4

\* A click on a candidate's row goes on to its branch, or is answered.
LEMMA ClickGives ==
  ASSUME Shape, NEW q \in Requests, Click(q)
  PROVE  \/ \E row \in solution : Gives(q, "publishing", row.id, None, {})
         \/ Gives(q, "answered", None, None, {})
  <1>1. CASE \E row \in solution : Reply(q, [Waiting EXCEPT !.stage = "publishing", !.id = row.id])
    <2>1. PICK row \in solution : Reply(q, [Waiting EXCEPT !.stage = "publishing", !.id = row.id])
      BY <1>1
    <2>2. PICK r : r = [Waiting EXCEPT !.stage = "publishing", !.id = row.id]
      OBVIOUS
    <2>3. row.id \in Ids
      BY DEF Shape, Rows
    <2>4. r \in Handlers /\ r.stage = "publishing" /\ r.id = row.id /\ r.of = None /\ r.replaced = {}
      BY <2>2, <2>3 DEF Waiting, Handlers, Replies
    <2>5. Gives(q, r.stage, r.id, r.of, r.replaced)
      BY <2>1, <2>2, <2>4, Replied DEF Shape
    <2> QED
      BY <2>4, <2>5
  <1>2. CASE Answered(q)
    BY <1>2, Closes
  <1> QED
    BY <1>1, <1>2 DEF Click

\* A handler that decides holds what it read, until the decision is stored.
LEMMA DecideGives ==
  ASSUME Shape, NEW q \in Requests, Decide(q)
  PROVE  \E i \in Investigations : Gives(q, "deciding", None, i, {})
  <1>1. PICK i \in Investigations : \E drafted \in NewDecision(i, Load(i)) : Reply(q, drafted)
    BY DEF Decide
  <1>2. PICK chosen \in Load(i) \cup {None} :
          Reply(q, [Waiting EXCEPT !.stage = "deciding", !.of = i, !.chosen = chosen, !.seen = Load(i)])
    BY <1>1 DEF NewDecision
  <1>3. Load(i) \subseteq Ids
    <2>1. \A row \in solution : row.id \in Ids
      BY DEF Shape, Rows
    <2> QED
      BY <2>1 DEF Load, Listed
  <1>4. PICK r : r = [Waiting EXCEPT !.stage = "deciding", !.of = i, !.chosen = chosen, !.seen = Load(i)]
    OBVIOUS
  <1>5. r \in Handlers /\ r.stage = "deciding" /\ r.id = None /\ r.of = i /\ r.replaced = {}
    BY <1>2, <1>3, <1>4 DEF Waiting, Handlers, Replies
  <1>6. Gives(q, r.stage, r.id, r.of, r.replaced)
    BY <1>2, <1>4, <1>5, Replied DEF Shape
  <1> QED
    BY <1>5, <1>6

\* Storing a decision replaces the one before it, or the write failed.
LEMMA SaveDecisionGives ==
  ASSUME Shape, NEW q \in Requests, SaveDecision(q), request[q].of \in Investigations
  PROVE  \/ /\ \/ Gives(q, "forgetting", None, request[q].of, supersedeDecisions(request[q].of))
               \/ Gives(q, "answered", None, None, {})
            /\ decision' = [decision EXCEPT ![request[q].of] = [by |-> q, indexed |-> FALSE]]
            /\ solution' = {Judged(row, q) : row \in solution}
         \/ Gives(q, "answered", None, None, {}) /\ UNCHANGED <<decision, solution>>
  <1> DEFINE i == request[q].of
  <1>1. CASE Answered(q) /\ (Decides(q, i) \/ UNCHANGED <<decision, solution>>)
    BY <1>1, Closes DEF Decides
  <1>2. CASE /\ Decides(q, i)
             /\ Reply(q, [Waiting EXCEPT !.stage = "forgetting", !.of = i, !.replaced = supersedeDecisions(i)])
    <2>1. PICK r : r = [Waiting EXCEPT !.stage = "forgetting", !.of = i, !.replaced = supersedeDecisions(i)]
      OBVIOUS
    <2>2. decision[i] \in [by : Requests \cup {None}, indexed : BOOLEAN]
      BY DEF Shape
    <2>3. supersedeDecisions(i) \subseteq Requests
      BY <2>2 DEF supersedeDecisions
    <2>4. /\ r \in Handlers /\ r.stage = "forgetting" /\ r.id = None /\ r.of = i
          /\ r.replaced = supersedeDecisions(i)
      BY <2>1, <2>3 DEF Waiting, Handlers, Replies
    <2>5. Gives(q, r.stage, r.id, r.of, r.replaced)
      BY <1>2, <2>1, <2>4, Replied DEF Shape
    <2> QED
      BY <1>2, <2>4, <2>5 DEF Decides
  <1> QED
    BY <1>1, <1>2 DEF SaveDecision

\* Forgetting is over, whether or not it worked.
LEMMA ForgetGives ==
  ASSUME Shape, NEW q \in Requests, Forget(q)
  PROVE  Gives(q, "adding", None, request[q].of, {})
  <1>1. PICK r : r = [Waiting EXCEPT !.stage = "adding", !.of = request[q].of]
    OBVIOUS
  <1>2. request[q] \in Handlers
    BY DEF Shape
  <1>3. r \in Handlers /\ r.stage = "adding" /\ r.id = None /\ r.of = request[q].of /\ r.replaced = {}
    BY <1>1, <1>2 DEF Waiting, Handlers, Replies
  <1>4. Gives(q, r.stage, r.id, r.of, r.replaced)
    BY <1>1, <1>3, Replied DEF Shape, Forget
  <1> QED
    BY <1>3, <1>4

-----------------------------------------------------------------------------
(* Every variable keeps its type.                                          *)

\* A call that fails is counted, and no more of them than the bound.
LEMMA FaultsCounted ==
  ASSUME faults \in 0..MaxFaults, NEW k \in {0, 1}, Fails(k)
  PROVE  faults' \in 0..MaxFaults
  BY Config DEF Fails

\* What a run writes of an investigation is a status.
LEMMA OutcomeTyped ==
  ASSUME Shape, NEW i \in Investigations, NEW s \in RemediationStatus,
         outcome' = [outcome EXCEPT ![i] = s] \/ UNCHANGED outcome
  PROVE  outcome' \in [Investigations -> RemediationStatus \cup {"none"}]
  BY DEF Shape

\* Enqueue keeps the queue within its depth.
LEMMA EnqueueTyped ==
  ASSUME Shape, NEW i \in Investigations, Enqueue(i) \/ UNCHANGED <<jobs, inFlight>>
  PROVE  jobs' \in Seq(Investigations) /\ Len(jobs') <= QueueDepth /\ inFlight' \subseteq Investigations
  <1>1. CASE UNCHANGED <<jobs, inFlight>>
    BY <1>1 DEF Shape
  <1>2. CASE jobs' = Append(jobs, i) /\ inFlight' = inFlight \cup {i} /\ Len(jobs) < QueueDepth
    <2>1. jobs \in Seq(Investigations) /\ Len(jobs) \in Nat
      BY LenProperties DEF Shape
    <2>2. Append(jobs, i) \in Seq(Investigations) /\ Len(Append(jobs, i)) = Len(jobs) + 1
      BY <2>1, AppendProperties
    <2>3. Len(jobs') <= QueueDepth
      BY <1>2, <2>1, <2>2, Config
    <2>4. inFlight' \subseteq Investigations
      BY <1>2 DEF Shape
    <2> QED
      BY <1>2, <2>2, <2>3, <2>4
  <1> QED
    BY <1>1, <1>2 DEF Enqueue

\* The verdict of an investigation that is handed over.
LEMMA HandOverTyped ==
  ASSUME Shape, NEW i \in Investigations, HandOver(i)
  PROVE  Shape'
  <1>1. Enqueue(i) \/ UNCHANGED <<jobs, inFlight>>
    BY DEF HandOver
  <1>2. verdict' \in [Investigations -> {"none", "commit", "no commit"}]
    BY DEF HandOver, Shape
  <1> QED
    BY <1>1, <1>2, EnqueueTyped DEF HandOver, Shape, tables, outside

\* A job queued by hand.
LEMMA StartTyped ==
  ASSUME Shape, NEW i \in Investigations, StartRemediation(i)
  PROVE  Shape'
  BY EnqueueTyped DEF StartRemediation, Shape, tables, outside

\* A run that begins.
LEMMA BeginTyped ==
  ASSUME Shape, NEW w \in Workers, Begin(w)
  PROVE  Shape'
  <1>1. Head(jobs) \in Investigations /\ runs + 1 \in 0..MaxRuns /\ worker' \in [Workers -> Runners]
    BY BeginTakes DEF Takes
  <1>2. jobs' \in Seq(Investigations) /\ Len(jobs') <= QueueDepth
    <2>1. jobs \in Seq(Investigations) /\ jobs # <<>> /\ jobs' = Tail(jobs) /\ Len(jobs) <= QueueDepth
      BY DEF Shape, Begin
    <2>2. Tail(jobs) \in Seq(Investigations) /\ Len(Tail(jobs)) = Len(jobs) - 1 /\ Len(jobs) \in Nat
      BY <2>1, HeadTailProperties, LenProperties
    <2> QED
      BY <2>1, <2>2, Config
  <1>3. outcome' \in [Investigations -> RemediationStatus \cup {"none"}]
    <2>1. "running" \in RemediationStatus
      BY DEF RemediationStatus
    <2>2. outcome' = [outcome EXCEPT ![Head(jobs)] = "running"] \/ UNCHANGED outcome
      BY DEF Begin, Upserted
    <2> QED
      BY <1>1, <2>1, <2>2, OutcomeTyped
  <1>4. faults' \in 0..MaxFaults
    BY FaultsCounted DEF Begin, Shape
  <1> QED
    BY <1>1, <1>2, <1>3, <1>4 DEF Begin, Shape, outside

\* A worker whose run goes on or ends in a way other than Begin has an investigation.
LEMMA Busy ==
  ASSUME Shape, NEW w \in Workers, Placed(w), ~At(w, "idle")
  PROVE  worker[w].of \in Investigations /\ worker[w].run \in 1..MaxRuns
  <1>1. worker[w] \in Runners
    BY DEF Shape
  <1> QED
    BY <1>1, Config DEF Placed, Runners

\* Triage writes a status or nothing.
LEMMA TriageTyped ==
  ASSUME Shape, NEW w \in Workers, Placed(w), Triage(w)
  PROVE  Shape'
  <1>1. worker' \in [Workers -> Runners]
    BY TriageTakes DEF Takes
  <1>2. worker[w].of \in Investigations
    BY Busy DEF Triage, At
  <1>3. outcome' \in [Investigations -> RemediationStatus \cup {"none"}]
    <2>1. "running" \in RemediationStatus
      BY DEF RemediationStatus
    <2>2. outcome' = [outcome EXCEPT ![worker[w].of] = "running"] \/ UNCHANGED outcome
      BY DEF Triage, Upserted
    <2> QED
      BY <1>2, <2>1, <2>2, OutcomeTyped
  <1>4. faults' \in 0..MaxFaults
    BY FaultsCounted DEF Triage, Shape
  <1> QED
    BY <1>1, <1>3, <1>4 DEF Triage, Shape, outside

\* The inspection, and the candidates it clears.
LEMMA InspectTyped ==
  ASSUME Shape, NEW w \in Workers, Inspect(w)
  PROVE  Shape'
  <1>1. worker' \in [Workers -> Runners]
    BY InspectTakes DEF Takes
  <1>2. solution' \subseteq solution
    BY DEF Inspect, Supersede
  <1>3. faults' \in 0..MaxFaults
    BY FaultsCounted DEF Inspect, Shape
  <1> QED
    BY <1>1, <1>2, <1>3 DEF Inspect, Shape, outside

\* The strategies' candidates.
LEMMA FanOutTyped ==
  ASSUME Shape, NEW w \in Workers, FanOut(w)
  PROVE  Shape'
  <1>1. worker' \in [Workers -> Runners]
    BY FanOutTakes DEF Takes
  <1> QED
    BY <1>1 DEF FanOut, Shape, tables, outside

\* The end of a run is written as its status.
LEMMA FinishTyped ==
  ASSUME Shape, NEW w \in Workers, Placed(w), Finish(w)
  PROVE  Shape'
  <1>1. worker' \in [Workers -> Runners] /\ inFlight' \subseteq Investigations
    BY FinishTakes DEF Takes, Shape
  <1>2. worker[w].of \in Investigations
    BY Busy DEF Finish, At
  <1>3. outcome' \in [Investigations -> RemediationStatus \cup {"none"}]
    <2>1. worker[w].stage \in RemediationStatus
      BY DEF RemediationStatus, Finish
    <2>2. outcome' = [outcome EXCEPT ![worker[w].of] = worker[w].stage] \/ UNCHANGED outcome
      BY DEF Finish, Upserted
    <2> QED
      BY <1>2, <2>1, <2>2, OutcomeTyped
  <1>4. faults' \in 0..MaxFaults
    BY FaultsCounted DEF Finish, Shape
  <1> QED
    BY <1>1, <1>3, <1>4 DEF Finish, Shape, outside

\* The row of a candidate about to be saved.
LEMMA NextRowTyped ==
  ASSUME Shape, NEW w \in Workers, Placed(w), At(w, "saving")
  PROVE  /\ NextRow(w) \in Rows
         /\ NextRow(w).of = worker[w].of /\ NextRow(w).id.run = worker[w].run /\ ~NextRow(w).pr
  <1>1. worker[w].left \in Seq(Drafts) /\ worker[w].left # <<>>
    BY DEF Shape, Placed, Runners
  <1>2. PICK next : next = Head(worker[w].left)
    OBVIOUS
  <1>3. next \in Drafts
    BY <1>1, <1>2, HeadTailProperties
  <1>4. worker[w].of \in Investigations /\ worker[w].run \in 1..MaxRuns
    BY Busy DEF At
  <1>5. NextRow(w) = [id |-> [run |-> worker[w].run, strategy |-> next.strategy], of |-> worker[w].of,
                      made |-> next.made, status |-> IF next.made.failed THEN "failed" ELSE "proposed", pr |-> FALSE]
    BY <1>2 DEF NextRow
  <1> QED
    BY <1>3, <1>4, <1>5 DEF Rows, Ids, Drafts, Marks

\* A candidate saved.
LEMMA SaveCandidateTyped ==
  ASSUME Shape, NEW w \in Workers, Placed(w), SaveCandidate(w)
  PROVE  Shape'
  <1>1. worker' \in [Workers -> Runners] /\ inFlight' \subseteq Investigations
    BY SaveTakes DEF Takes, Shape
  <1>2. solution' \subseteq Rows
    BY SaveTakes, NextRowTyped DEF SaveCandidate, Shape
  <1>3. faults' \in 0..MaxFaults
    BY FaultsCounted DEF SaveCandidate, Shape
  <1> QED
    BY <1>1, <1>2, <1>3 DEF SaveCandidate, Shape, outside

\* A candidate's row has a pull request.
HasPull(id) == \E row \in Stored(id) : row.pr

\* The row MarkOpened writes.
Marked(row) == [row EXCEPT !.status = "pr_opened", !.pr = TRUE]

\* The rows after a step are rows before it; no pull request leaves them.
RowsKept ==
  \A new \in solution' : \E row \in solution : new.id = row.id /\ new.of = row.of /\ (row.pr => new.pr)

\* Opening marks the row and moves nothing else of it.
LEMMA MarkedIs ==
  ASSUME NEW row \in Rows
  PROVE  /\ Marked(row) \in Rows /\ Marked(row).id = row.id /\ Marked(row).of = row.of /\ Marked(row).pr
  BY DEF Rows, Marked, Marks

\* Judging a row changes its status at most.
LEMMA JudgedIs ==
  ASSUME NEW row \in Rows, NEW q \in Requests
  PROVE  /\ Judged(row, q) \in Rows /\ Judged(row, q).id = row.id /\ Judged(row, q).of = row.of
         /\ Judged(row, q).pr = row.pr
  <1>1. PICK a, b : a = [row EXCEPT !.status = "selected"] /\ b = [row EXCEPT !.status = "rejected"]
    OBVIOUS
  <1>2. /\ a \in Rows /\ a.id = row.id /\ a.of = row.of /\ a.pr = row.pr
        /\ b \in Rows /\ b.id = row.id /\ b.of = row.of /\ b.pr = row.pr
    BY <1>1 DEF Rows, Marks
  <1>3. Judged(row, q) \in {row, a, b}
    BY <1>1 DEF Judged
  <1> QED
    BY <1>2, <1>3

\* Either the candidate's rows have their pull request, or the loss is on record.
LEMMA MarkOpenedRows ==
  ASSUME Shape, NEW q \in Requests, MarkOpened(q)
  PROVE  /\ solution' \subseteq Rows /\ RowsKept
         /\ \/ /\ \A id \in Ids : HasPull(id)' <=> (HasPull(id) \/ id = request[q].id)
               /\ UNCHANGED lost
            \/ UNCHANGED solution /\ lost' = lost \cup {<<"url", request[q].id>>}
  <1>1. CASE UNCHANGED solution /\ lost' = lost \cup {<<"url", request[q].id>>}
    BY <1>1 DEF RowsKept, Shape
  <1>2. CASE /\ Stored(request[q].id) # {} /\ UNCHANGED lost
             /\ solution' = {IF row.id = request[q].id THEN Marked(row) ELSE row : row \in solution}
    <2>1. \A row \in solution : /\ row \in Rows /\ Marked(row) \in Rows /\ Marked(row).id = row.id
                                /\ Marked(row).of = row.of /\ Marked(row).pr
      BY MarkedIs DEF Shape
    <2>2. solution' \subseteq Rows /\ RowsKept
      BY <1>2, <2>1 DEF RowsKept
    <2>3. ASSUME NEW id \in Ids, id = request[q].id PROVE HasPull(id)'
      <3>1. PICK row \in solution : row.id = id
        BY <1>2, <2>3 DEF Stored
      <3>2. Marked(row) \in solution' /\ Marked(row).id = row.id /\ Marked(row).pr
        BY <1>2, <2>1, <2>3, <3>1
      <3> QED
        BY <3>1, <3>2 DEF HasPull, Stored
    <2>4. ASSUME NEW id \in Ids, id # request[q].id PROVE HasPull(id)' <=> HasPull(id)
      <3>1. \A row \in solution : row.id = id => row \in solution'
        BY <1>2, <2>4
      <3>2. \A new \in solution' : new.id = id => new \in solution
        BY <1>2, <2>1, <2>4
      <3> QED
        BY <3>1, <3>2 DEF HasPull, Stored
    <2> QED
      BY <1>2, <2>2, <2>3, <2>4
  <1> QED
    BY <1>1, <1>2 DEF MarkOpened, Marked

\* Storing a decision moves no row and no pull request.
LEMMA JudgedRows ==
  ASSUME Shape, NEW q \in Requests, solution' = {Judged(row, q) : row \in solution} \/ UNCHANGED solution
  PROVE  solution' \subseteq Rows /\ RowsKept /\ \A id \in Ids : HasPull(id)' <=> HasPull(id)
  <1>1. CASE UNCHANGED solution
    BY <1>1 DEF Shape, RowsKept, HasPull, Stored
  <1>2. CASE solution' = {Judged(row, q) : row \in solution}
    <2>1. \A row \in solution : /\ Judged(row, q) \in Rows /\ Judged(row, q).id = row.id
                                /\ Judged(row, q).of = row.of /\ Judged(row, q).pr = row.pr
      BY JudgedIs DEF Shape
    <2>2. solution' \subseteq Rows /\ RowsKept
      BY <1>2, <2>1 DEF RowsKept
    <2>3. ASSUME NEW id \in Ids PROVE HasPull(id)' <=> HasPull(id)
      BY <1>2, <2>1 DEF HasPull, Stored
    <2> QED
      BY <2>2, <2>3
  <1> QED
    BY <1>1, <1>2

\* One more pull request of a candidate.
LEMMA PullCounted ==
  ASSUME Shape, NEW id \in Ids, pull' = [pull EXCEPT ![id] = @ + 1]
  PROVE  /\ pull' \in [Ids -> Nat] /\ pull'[id] = pull[id] + 1
         /\ \A other \in Ids : other # id => pull'[other] = pull[other]
  <1>1. pull \in [Ids -> Nat] /\ pull[id] \in Nat
    BY DEF Shape
  <1>2. PICK n \in Nat : n = pull[id] + 1
    BY <1>1
  <1>3. pull' = [pull EXCEPT ![id] = n]
    BY <1>2
  <1> QED
    BY <1>1, <1>2, <1>3

\* A decision stored for one investigation.
LEMMA DecidedIs ==
  ASSUME Shape, NEW i \in Investigations, NEW q \in Requests,
         decision' = [decision EXCEPT ![i] = [by |-> q, indexed |-> FALSE]]
  PROVE  /\ decision' \in [Investigations -> [by : Requests \cup {None}, indexed : BOOLEAN]]
         /\ decision'[i].by = q /\ ~decision'[i].indexed
         /\ \A j \in Investigations : j # i => decision'[j] = decision[j]
  <1>1. PICK d : d = [by |-> q, indexed |-> FALSE]
    OBVIOUS
  <1>2. d \in [by : Requests \cup {None}, indexed : BOOLEAN] /\ d.by = q /\ ~d.indexed
    BY <1>1
  <1>3. decision' = [decision EXCEPT ![i] = d]
    BY <1>1
  <1>4. PICK D : /\ D = [by : Requests \cup {None}, indexed : BOOLEAN]
                 /\ decision \in [Investigations -> D] /\ d \in D
    BY <1>2 DEF Shape
  <1>5. decision' \in [Investigations -> D] /\ decision'[i] = d
        /\ \A j \in Investigations : j # i => decision'[j] = decision[j]
    BY <1>3, <1>4
  <1> QED
    BY <1>2, <1>4, <1>5

\* A decision marked as indexed is still the same request's.
LEMMA IndexingIs ==
  ASSUME Shape, NEW i \in Investigations, decision' = [decision EXCEPT ![i].indexed = TRUE]
  PROVE  /\ decision' \in [Investigations -> [by : Requests \cup {None}, indexed : BOOLEAN]]
         /\ decision'[i].by = decision[i].by
         /\ \A j \in Investigations : j # i => decision'[j] = decision[j]
  <1>1. decision[i] \in [by : Requests \cup {None}, indexed : BOOLEAN]
    BY DEF Shape
  <1>2. PICK d : d = [decision[i] EXCEPT !.indexed = TRUE]
    OBVIOUS
  <1>3. d \in [by : Requests \cup {None}, indexed : BOOLEAN] /\ d.by = decision[i].by
    BY <1>1, <1>2
  <1>4. decision' = [decision EXCEPT ![i] = d]
    BY <1>2
  <1>5. PICK D : /\ D = [by : Requests \cup {None}, indexed : BOOLEAN]
                 /\ decision \in [Investigations -> D] /\ d \in D
    BY <1>3 DEF Shape
  <1>6. decision' \in [Investigations -> D] /\ decision'[i] = d
        /\ \A j \in Investigations : j # i => decision'[j] = decision[j]
    BY <1>4, <1>5
  <1> QED
    BY <1>3, <1>5, <1>6

\* A handler of an engineer's request keeps the types, whatever it does.
LEMMA OpenPullRequestTyped ==
  ASSUME Shape, NEW q \in Requests, Publishing(q), OpenPullRequest(q)
  PROVE  Shape'
  <1>1. CASE Click(q)
    <2>1. request' \in [Requests -> Handlers]
      BY <1>1, ClickGives DEF Gives
    <2>2. faults' \in 0..MaxFaults
      BY <1>1, FaultsCounted DEF Click, Shape
    <2> QED
      BY <1>1, <2>1, <2>2 DEF Click, Shape, QuietPool, pool, outside
  <1>2. CASE CreateBranch(q)
    <2>1. request[q].id \in Ids
      BY <1>2 DEF Publishing, CreateBranch, Now
    <2>2. request' \in [Requests -> Handlers]
      BY <1>2, Closes, Advances DEF CreateBranch, Gives, Replies
    <2>3. branch' \subseteq Ids
      BY <1>2, <2>1 DEF CreateBranch, Shape
    <2>4. faults' \in 0..MaxFaults
      BY <1>2, FaultsCounted DEF CreateBranch, Shape
    <2> QED
      BY <1>2, <2>2, <2>3, <2>4 DEF CreateBranch, Shape, QuietPool, pool
  <1>3. CASE CreatePull(q)
    <2>1. request[q].id \in Ids
      BY <1>3 DEF Publishing, CreatePull, Now, Opening
    <2>2. request' \in [Requests -> Handlers]
      BY <1>3, Closes, Advances DEF CreatePull, Gives, Replies
    <2>3. pull' \in [Ids -> Nat]
      BY <1>3, <2>1, PullCounted DEF CreatePull, Shape
    <2>4. faults' \in 0..MaxFaults
      BY <1>3, FaultsCounted DEF CreatePull, Shape
    <2> QED
      BY <1>3, <2>2, <2>3, <2>4 DEF CreatePull, Shape, QuietPool, pool
  <1>4. CASE MarkOpened(q)
    <2>1. request' \in [Requests -> Handlers] /\ solution' \subseteq Rows
      BY <1>4, Closes, MarkOpenedRows DEF MarkOpened, Gives
    <2>2. faults' \in 0..MaxFaults
      BY <1>4, FaultsCounted DEF MarkOpened, Shape
    <2> QED
      BY <1>4, <2>1, <2>2 DEF MarkOpened, Shape, QuietPool, pool, outside
  <1> QED
    BY <1>1, <1>2, <1>3, <1>4 DEF OpenPullRequest

\* The same of a decision and its indexing.
LEMMA RecordDecisionTyped ==
  ASSUME Shape, NEW q \in Requests, Replaces(q), RecordDecision(q)
  PROVE  Shape'
  <1>1. CASE Decide(q)
    <2>1. request' \in [Requests -> Handlers]
      BY <1>1, DecideGives DEF Gives
    <2>2. faults' \in 0..MaxFaults
      BY <1>1, FaultsCounted DEF Decide, Shape
    <2> QED
      BY <1>1, <2>1, <2>2 DEF Decide, Shape, QuietPool, pool, outside
  <1>2. CASE SaveDecision(q)
    <2>1. request[q].of \in Investigations
      BY <1>2 DEF Replaces, SaveDecision, Now
    <2>2. request' \in [Requests -> Handlers]
      BY <1>2, <2>1, SaveDecisionGives DEF Gives
    <2>3. solution' \subseteq Rows
      <3>1. solution' = {Judged(row, q) : row \in solution} \/ UNCHANGED solution
        BY <1>2 DEF SaveDecision, Decides
      <3> QED
        BY <3>1, JudgedRows
    <2>4. decision' \in [Investigations -> [by : Requests \cup {None}, indexed : BOOLEAN]]
      BY <1>2, <2>1, DecidedIs DEF SaveDecision, Decides, Shape
    <2>5. faults' \in 0..MaxFaults
      BY <1>2, FaultsCounted DEF SaveDecision, Shape
    <2> QED
      BY <1>2, <2>2, <2>3, <2>4, <2>5 DEF SaveDecision, Shape, QuietPool, pool, outside
  <1>3. CASE Forget(q)
    <2>1. request' \in [Requests -> Handlers]
      BY <1>3, ForgetGives DEF Gives
    <2>2. index' \subseteq Requests
      BY <1>3 DEF Forget, Shape
    <2>3. faults' \in 0..MaxFaults
      BY <1>3, FaultsCounted DEF Forget, Shape
    <2> QED
      BY <1>3, <2>1, <2>2, <2>3 DEF Forget, Shape, QuietPool, pool
  <1>4. CASE Add(q)
    <2>1. request' \in [Requests -> Handlers]
      BY <1>4, Closes, Advances DEF Add, Gives, Replies
    <2>2. index' \subseteq Requests
      BY <1>4 DEF Add, Shape
    <2>3. faults' \in 0..MaxFaults
      BY <1>4, FaultsCounted DEF Add, Shape
    <2> QED
      BY <1>4, <2>1, <2>2, <2>3 DEF Add, Shape, QuietPool, pool
  <1>5. CASE MarkIndexed(q)
    <2>1. request' \in [Requests -> Handlers]
      BY <1>5, Closes DEF MarkIndexed, Gives
    <2>2. request[q].of \in Investigations
      BY <1>5 DEF Replaces, MarkIndexed, Now, Decided
    <2>3. decision' \in [Investigations -> [by : Requests \cup {None}, indexed : BOOLEAN]]
      BY <1>5, <2>2, IndexingIs DEF MarkIndexed, Shape
    <2>4. faults' \in 0..MaxFaults
      BY <1>5, FaultsCounted DEF MarkIndexed, Shape
    <2> QED
      BY <1>5, <2>1, <2>3, <2>4 DEF MarkIndexed, Shape, QuietPool, pool, outside
  <1> QED
    BY <1>1, <1>2, <1>3, <1>4, <1>5 DEF RecordDecision, indexDecision

\* What a crash leaves of the handlers: those that wait still do, the others are over.
LEMMA CrashedHandlers ==
  ASSUME Shape, Crash
  PROVE  /\ request' \in [Requests -> Handlers]
         /\ \A q \in Requests : /\ request'[q].stage \in {"waiting", "answered"}
                                /\ request[q].stage # "waiting" => request'[q].stage = "answered"
  <1>1. PICK r : r = [Waiting EXCEPT !.stage = "answered"]
    OBVIOUS
  <1>2. r \in Handlers /\ r.stage = "answered" /\ Waiting \in Handlers /\ Waiting.stage = "waiting"
    BY <1>1 DEF Waiting, Handlers, Replies
  <1>3. request' = [q \in Requests |-> IF Now(q, "waiting") THEN Waiting ELSE r]
    BY <1>1 DEF Crash
  <1> QED
    BY <1>2, <1>3 DEF Now

\* A crash leaves the tables and an empty pool.
LEMMA CrashTyped ==
  ASSUME Shape, Crash
  PROVE  Shape'
  <1>1. request' \in [Requests -> Handlers]
    BY CrashedHandlers
  <1>2. worker' \in [Workers -> Runners]
    BY IdleIs DEF Crash
  <1>3. jobs' \in Seq(Investigations) /\ Len(jobs') <= QueueDepth
    BY Config DEF Crash
  <1>4. faults' \in 0..MaxFaults
    BY FaultsCounted DEF Crash, Shape
  <1> QED
    BY <1>1, <1>2, <1>3, <1>4 DEF Crash, Shape, tables, outside

\* Booting gives what read running an end.
LEMMA BootTyped ==
  ASSUME Shape, Boot
  PROVE  Shape'
  <1>1. outcome' \in [Investigations -> RemediationStatus \cup {"none"}]
    BY DEF Boot, AbandonStale, Shape, RemediationStatus
  <1>2. faults' \in 0..MaxFaults
    BY FaultsCounted DEF Boot, Shape
  <1> QED
    BY <1>1, <1>2 DEF Boot, Shape, pool, outside

-----------------------------------------------------------------------------
(* An investigation is queued once or run by one worker.                   *)

\* A queue with a new job at its end: Enqueue admits none that is in flight.
LEMMA EnqueuePool ==
  ASSUME Shape, PoolInv, NEW i \in Investigations, Enqueue(i) \/ UNCHANGED <<jobs, inFlight>>,
         UNCHANGED worker
  PROVE  PoolInv'
  <1>1. \A w \in Workers : Placed(w)'
    BY DEF PoolInv, Placed, At
  <1>2. CASE UNCHANGED <<jobs, inFlight>>
    BY <1>1, <1>2 DEF PoolInv, OncePerInvestigation, At
  <1>3. CASE jobs' = Append(jobs, i) /\ inFlight' = inFlight \cup {i} /\ i \notin inFlight
    <2>1. jobs \in Seq(Investigations) /\ Len(jobs) \in Nat
      BY LenProperties DEF Shape
    <2>2. /\ DOMAIN jobs = 1..Len(jobs) /\ DOMAIN jobs' = 1..(Len(jobs) + 1)
          /\ jobs'[Len(jobs) + 1] = i /\ \A k \in 1..Len(jobs) : jobs'[k] = jobs[k]
      BY <1>3, <2>1, AppendProperties, LenProperties
    <2>3. \A k \in DOMAIN jobs : jobs[k] # i
      BY <1>3 DEF PoolInv, OncePerInvestigation
    <2>4. \A k \in DOMAIN jobs' : \/ k \in DOMAIN jobs /\ jobs'[k] = jobs[k] /\ jobs[k] # i
                                  \/ k = Len(jobs) + 1 /\ jobs'[k] = i
      <3>1. SUFFICES ASSUME NEW k \in 1..(Len(jobs) + 1)
                     PROVE  \/ k \in 1..Len(jobs) /\ jobs'[k] = jobs[k] /\ jobs[k] # i
                            \/ k = Len(jobs) + 1 /\ jobs'[k] = i
        BY <2>2
      <3> QED
        BY <2>1, <2>2, <2>3
    <2>5. \A k \in DOMAIN jobs' : jobs'[k] \in inFlight'
      BY <1>3, <2>4 DEF PoolInv, OncePerInvestigation
    <2>6. \A j, k \in DOMAIN jobs' : jobs'[j] = jobs'[k] => j = k
      BY <2>4 DEF PoolInv, OncePerInvestigation
    <2>7. \A w \in Workers : ~At(w, "idle")' =>
            worker'[w].of \in inFlight' /\ \A k \in DOMAIN jobs' : jobs'[k] # worker'[w].of
      BY <1>3, <2>4 DEF PoolInv, OncePerInvestigation, At
    <2>8. OncePerInvestigation'
      BY <2>5, <2>6, <2>7 DEF PoolInv, OncePerInvestigation, At
    <2> QED
      BY <1>1, <2>8 DEF PoolInv
  <1> QED
    BY <1>2, <1>3 DEF Enqueue

\* What Tail leaves of the queue.
LEMMA TailOf ==
  ASSUME jobs \in Seq(Investigations), jobs # <<>>, jobs' = Tail(jobs)
  PROVE  /\ 1 \in DOMAIN jobs /\ jobs[1] = Head(jobs)
         /\ \A k \in DOMAIN jobs' : k + 1 \in DOMAIN jobs /\ k + 1 # 1 /\ jobs'[k] = jobs[k + 1]
         /\ \A j, k \in DOMAIN jobs' : j + 1 = k + 1 => j = k
  <1>1. Len(jobs) \in Nat /\ DOMAIN jobs = 1..Len(jobs)
    BY LenProperties
  <1>2. Len(jobs) # 0
    BY <1>1, EmptySeq
  <1>3. Tail(jobs) \in Seq(Investigations) /\ Len(Tail(jobs)) = Len(jobs) - 1
        /\ \A k \in 1..Len(Tail(jobs)) : Tail(jobs)[k] = jobs[k + 1]
    BY HeadTailProperties
  <1>4. DOMAIN jobs' = 1..(Len(jobs) - 1)
    BY <1>3, LenProperties
  <1> QED
    BY <1>1, <1>2, <1>3, <1>4

\* The job that a worker takes leaves the queue.
LEMMA BeginPool ==
  ASSUME Shape, PoolInv, NEW w \in Workers, Begin(w)
  PROVE  PoolInv'
  <1>0. runs \in 0..MaxRuns /\ MaxRuns \in Nat
    BY Config DEF Shape
  <1>1. Takes(w, "triage", Head(jobs), runs + 1, <<>>) /\ Head(jobs) \in Investigations /\ runs + 1 # 0
    BY <1>0, BeginTakes
  <1>2. /\ 1 \in DOMAIN jobs /\ jobs[1] = Head(jobs)
        /\ \A k \in DOMAIN jobs' : k + 1 \in DOMAIN jobs /\ k + 1 # 1 /\ jobs'[k] = jobs[k + 1]
        /\ \A j, k \in DOMAIN jobs' : j + 1 = k + 1 => j = k
    BY TailOf DEF Begin, Shape
  <1>3. \A v \in Workers : Placed(v)'
    BY <1>1, Config DEF PoolInv, Placed, Takes, At
  <1>4. \A k \in DOMAIN jobs' : jobs'[k] \in inFlight' /\ jobs'[k] # Head(jobs)
    BY <1>2 DEF PoolInv, OncePerInvestigation, Begin
  <1>5. \A j, k \in DOMAIN jobs' : jobs'[j] = jobs'[k] => j = k
    BY <1>2 DEF PoolInv, OncePerInvestigation
  <1>6. \A v \in Workers : ~At(v, "idle")' =>
          worker'[v].of \in inFlight' /\ \A k \in DOMAIN jobs' : jobs'[k] # worker'[v].of
    BY <1>1, <1>2, <1>4 DEF PoolInv, OncePerInvestigation, Takes, At, Begin
  <1>7. \A u, v \in Workers : worker'[u].of = worker'[v].of /\ ~At(u, "idle")' => u = v
    <2>1. \A v \in Workers : v # w => worker'[v].of = worker[v].of /\ worker[v].of # Head(jobs)
      <3>1. \A v \in Workers : At(v, "idle") => worker[v].of # Head(jobs)
        BY <1>1, Config DEF PoolInv, Placed
      <3>2. \A v \in Workers : ~At(v, "idle") => worker[v].of # Head(jobs)
        BY <1>2 DEF PoolInv, OncePerInvestigation
      <3> QED
        BY <1>1, <3>1, <3>2 DEF Takes
    <2> QED
      BY <1>1, <2>1 DEF PoolInv, OncePerInvestigation, Takes, At
  <1> QED
    BY <1>3, <1>4, <1>5, <1>6, <1>7 DEF PoolInv, OncePerInvestigation

\* A worker that goes on with its run changes nothing of who has what.
LEMMA GoOnPool ==
  ASSUME Shape, PoolInv, NEW w \in Workers, ~At(w, "idle"), NEW s, NEW left,
         Takes(w, s, worker[w].of, worker[w].run, left), s # "idle",
         s \notin {"done", "saving"} => left = <<>>, s = "saving" => left # <<>>,
         UNCHANGED <<jobs, inFlight>>
  PROVE  PoolInv'
  <1>1. \A v \in Workers : Placed(v)'
    BY DEF PoolInv, Placed, Takes, At
  <1>2. OncePerInvestigation'
    BY DEF PoolInv, OncePerInvestigation, Takes, At
  <1> QED
    BY <1>1, <1>2 DEF PoolInv

\* A run that is over takes its investigation out of flight.
LEMMA ReturnPool ==
  ASSUME Shape, PoolInv, NEW w \in Workers, ~At(w, "idle"), Takes(w, "idle", None, 0, <<>>),
         inFlight' = inFlight \ {worker[w].of}, UNCHANGED jobs
  PROVE  PoolInv'
  <1>1. \A v \in Workers : Placed(v)'
    BY DEF PoolInv, Placed, Takes, At
  <1>2. \A v \in Workers : v # w /\ ~At(v, "idle") => worker[v].of # worker[w].of
    BY DEF PoolInv, OncePerInvestigation
  <1>3. \A u, v \in Workers : worker'[u].of = worker'[v].of /\ ~At(u, "idle")' => u = v
    <2>1. \A v \in Workers : ~At(v, "idle") => worker[v].of # None
      BY DEF PoolInv, Placed
    <2> QED
      BY <2>1 DEF PoolInv, OncePerInvestigation, Takes, At
  <1>4. OncePerInvestigation'
    BY <1>2, <1>3 DEF PoolInv, OncePerInvestigation, Takes, At
  <1> QED
    BY <1>1, <1>4 DEF PoolInv

-----------------------------------------------------------------------------
(* The candidates of an investigation are of one run.                      *)

\* What says that clearing earlier candidates failed stays said.
FailuresKept == \A i \in Investigations : <<"supersede", i>> \in lost => <<"supersede", i>> \in lost'

\* Steps that leave the pool alone and let no row in.
LEMMA GenerationKept ==
  ASSUME GenerationInv, RowsKept, FailuresKept, UNCHANGED worker, Shape,
         \A w \in Workers : Placed(w)
  PROVE  GenerationInv'
  <1>1. \A i \in Investigations : \A new \in Listed(i)' :
          \E row \in Listed(i) : new.id = row.id /\ (row.pr => new.pr)
    BY DEF Listed, RowsKept
  <1>2. ASSUME NEW w \in Workers PROVE OwnGeneration(w)'
    <2>1. CASE worker[w].stage \in {"proposing", "done", "saving"}
      <3>1. worker[w].of \in Investigations
        BY <2>1, Busy DEF At
      <3>2. PICK i \in Investigations : i = worker[w].of /\ i = worker'[w].of
        BY <3>1
      <3>3. <<"supersede", i>> \in lost' \/ \A row \in Listed(i) : row.pr \/ row.id.run = worker[w].run
        BY <2>1, <3>2 DEF GenerationInv, OwnGeneration, FailuresKept
      <3>4. <<"supersede", i>> \in lost' \/ \A new \in Listed(i)' : new.pr \/ new.id.run = worker'[w].run
        BY <1>1, <3>3
      <3> QED
        BY <3>2, <3>4 DEF OwnGeneration, Listed
    <2> QED
      BY <2>1 DEF OwnGeneration
  <1>3. ASSUME NEW i \in Investigations
        PROVE  <<"supersede", i>> \in lost' \/ \A a, b \in Listed(i)' : a.pr \/ b.pr \/ a.id.run = b.id.run
    BY <1>1 DEF GenerationInv, OneGeneration, FailuresKept
  <1> QED
    BY <1>2, <1>3 DEF GenerationInv, OneGeneration

\* Steps of a run that let no row in: the run goes on over its own candidates.
LEMMA GenerationGoesOn ==
  ASSUME GenerationInv, NEW w \in Workers, NEW s, NEW i, NEW n, NEW left, Takes(w, s, i, n, left),
         UNCHANGED solution, FailuresKept, Shape, \A v \in Workers : Placed(v),
         s \in {"proposing", "done", "saving"} =>
           worker[w].stage \in {"proposing", "done", "saving"} /\ i = worker[w].of /\ n = worker[w].run
  PROVE  GenerationInv'
  <1>1. \A v \in Workers : worker'[v].stage \in {"proposing", "done", "saving"} =>
          /\ worker[v].stage \in {"proposing", "done", "saving"}
          /\ worker'[v].of = worker[v].of /\ worker'[v].run = worker[v].run
          /\ worker[v].of \in Investigations
    BY Busy DEF Takes, At
  <1>2. \A v \in Workers : OwnGeneration(v)'
    BY <1>1 DEF GenerationInv, OwnGeneration, FailuresKept, Listed
  <1>3. OneGeneration'
    BY DEF GenerationInv, OneGeneration, FailuresKept, Listed
  <1> QED
    BY <1>2, <1>3 DEF GenerationInv

\* Once the candidates of earlier runs are cleared, those left have a pull request.
LEMMA InspectGeneration ==
  ASSUME Shape, PoolInv, GenerationInv, NEW w \in Workers, Inspect(w)
  PROVE  GenerationInv'
  <1>1. ~At(w, "idle") /\ worker[w].stage = "inspect" /\ \A v \in Workers : Placed(v)
    BY DEF Inspect, At, PoolInv
  <1>2. PICK i \in Investigations : i = worker[w].of
    BY <1>1, Busy
  <1>3. PICK s \in {"failed", "proposing"} : Takes(w, s, i, worker[w].run, worker[w].left)
    BY <1>2, InspectTakes
  <1>4. CASE s = "failed"
    <2>1. UNCHANGED <<solution, lost>>
      <3>1. ~Become(w, [worker[w] EXCEPT !.stage = "proposing"])
        <4>1. SUFFICES ASSUME Become(w, [worker[w] EXCEPT !.stage = "proposing"]) PROVE FALSE
          OBVIOUS
        <4>2. Takes(w, "proposing", i, worker[w].run, worker[w].left)
          BY <1>2, <4>1, Moves DEF JobStages
        <4> QED
          BY <1>3, <1>4, <4>2 DEF Takes
      <3> QED
        BY <3>1 DEF Inspect
    <2> QED
      BY <1>1, <1>3, <1>4, <2>1, GenerationGoesOn DEF FailuresKept
  <1>5. CASE solution' = {row \in solution : row.of = i => row.pr} /\ lost' = lost \ {<<"supersede", i>>}
    <2>1. \A j \in Investigations : Listed(j)' \subseteq Listed(j)
      BY <1>5 DEF Listed
    <2>2. \A row \in Listed(i)' : row.pr
      BY <1>5 DEF Listed
    <2>3. \A j \in Investigations : j # i => (<<"supersede", j>> \in lost => <<"supersede", j>> \in lost')
      BY <1>5
    <2>4. ASSUME NEW v \in Workers PROVE OwnGeneration(v)'
      <3>1. CASE v = w
        BY <1>3, <2>2, <3>1 DEF Takes, OwnGeneration, Listed
      <3>2. CASE v # w /\ worker[v].stage \in {"proposing", "done", "saving"}
        <4>1. worker'[v] = worker[v]
          BY <1>3, <3>2 DEF Takes
        <4>2. worker[v].of # i /\ worker[v].of \in Investigations
          BY <1>1, <1>2, <3>2, Busy DEF PoolInv, OncePerInvestigation, At
        <4>3. PICK j \in Investigations : j = worker[v].of /\ j # i /\ j = worker'[v].of
          BY <4>1, <4>2
        <4>4. <<"supersede", j>> \in lost' \/ \A row \in Listed(j)' : row.pr \/ row.id.run = worker[v].run
          BY <2>1, <2>3, <3>2, <4>3 DEF GenerationInv, OwnGeneration
        <4> QED
          BY <4>1, <4>3, <4>4 DEF OwnGeneration, Listed
      <3> QED
        BY <1>3, <3>1, <3>2 DEF Takes, OwnGeneration
    <2>5. OneGeneration'
      <3>1. ASSUME NEW j \in Investigations
            PROVE  <<"supersede", j>> \in lost' \/ \A a, b \in Listed(j)' : a.pr \/ b.pr \/ a.id.run = b.id.run
        BY <2>1, <2>2, <2>3 DEF GenerationInv, OneGeneration
      <3> QED
        BY <3>1 DEF OneGeneration
    <2> QED
      BY <2>4, <2>5 DEF GenerationInv
  <1>6. CASE UNCHANGED solution /\ lost' = lost \cup {<<"supersede", i>>} /\ s = "proposing"
    <2>1. ASSUME NEW v \in Workers PROVE OwnGeneration(v)'
      <3>1. CASE v = w
        BY <1>3, <1>6, <3>1 DEF Takes, OwnGeneration
      <3>2. CASE v # w
        BY <1>3, <1>6, <3>2 DEF Takes, GenerationInv, OwnGeneration, Listed
      <3> QED
        BY <3>1, <3>2
    <2>2. OneGeneration'
      BY <1>6 DEF GenerationInv, OneGeneration, Listed
    <2> QED
      BY <2>1, <2>2 DEF GenerationInv
  <1>7. CASE s = "proposing"
    <2>1. ~Become(w, [worker[w] EXCEPT !.stage = "failed"])
      <3>1. SUFFICES ASSUME Become(w, [worker[w] EXCEPT !.stage = "failed"]) PROVE FALSE
        OBVIOUS
      <3>2. Takes(w, "failed", i, worker[w].run, worker[w].left)
        BY <1>2, <3>1, Moves DEF JobStages
      <3> QED
        BY <1>3, <1>7, <3>2 DEF Takes
    <2> QED
      BY <1>2, <1>5, <1>6, <1>7, <2>1 DEF Inspect, Supersede
  <1> QED
    BY <1>4, <1>7

\* A candidate saved is of the run that saves it.
LEMMA SaveGeneration ==
  ASSUME Shape, PoolInv, GenerationInv, NEW w \in Workers, SaveCandidate(w)
  PROVE  GenerationInv'
  <1>1. /\ At(w, "saving") /\ worker[w].stage = "saving" /\ UNCHANGED lost
        /\ \A v \in Workers : Placed(v)
    BY DEF SaveCandidate, At, PoolInv
  <1>2. PICK i \in Investigations, new \in Rows :
          /\ i = worker[w].of /\ new = NextRow(w)
          /\ new.of = i /\ new.id.run = worker[w].run /\ ~new.pr
    BY <1>1, Busy, NextRowTyped DEF At
  <1>3. PICK s, left :
          \/ s = "saving" /\ Takes(w, s, i, worker[w].run, left)
          \/ s = "idle" /\ Takes(w, s, None, 0, left)
    BY <1>1, <1>2, SaveTakes
  <1>4. CASE UNCHANGED solution
    BY <1>1, <1>2, <1>3, <1>4, GenerationGoesOn DEF FailuresKept
  <1>5. CASE solution' = solution \cup {new}
    <2>1. \A j \in Investigations : j # i => Listed(j)' = Listed(j)
      BY <1>2, <1>5 DEF Listed
    <2>2. Listed(i)' = Listed(i) \cup {new}
      BY <1>2, <1>5 DEF Listed
    <2>3. <<"supersede", i>> \in lost \/ \A row \in Listed(i) : row.pr \/ row.id.run = worker[w].run
      BY <1>1, <1>2 DEF GenerationInv, OwnGeneration
    <2>4. <<"supersede", i>> \in lost \/ \A row \in Listed(i)' : row.pr \/ row.id.run = worker[w].run
      BY <1>2, <2>2, <2>3
    <2>5. ASSUME NEW v \in Workers PROVE OwnGeneration(v)'
      <3>1. CASE v = w
        BY <1>1, <1>3, <2>4, <3>1 DEF Takes, OwnGeneration, Listed
      <3>2. CASE v # w /\ worker[v].stage \in {"proposing", "done", "saving"}
        <4>1. worker'[v] = worker[v]
          BY <1>3, <3>2 DEF Takes
        <4>2. worker[v].of # i /\ worker[v].of \in Investigations
          BY <1>1, <1>2, <3>2, Busy DEF PoolInv, OncePerInvestigation, At
        <4>3. PICK j \in Investigations : j = worker[v].of /\ j # i /\ j = worker'[v].of
          BY <4>1, <4>2
        <4>4. <<"supersede", j>> \in lost' \/ \A row \in Listed(j)' : row.pr \/ row.id.run = worker[v].run
          BY <1>1, <2>1, <3>2, <4>3 DEF GenerationInv, OwnGeneration
        <4> QED
          BY <4>1, <4>3, <4>4 DEF OwnGeneration, Listed
      <3> QED
        BY <1>3, <3>1, <3>2 DEF Takes, OwnGeneration
    <2>6. OneGeneration'
      <3>1. ASSUME NEW j \in Investigations
            PROVE  <<"supersede", j>> \in lost' \/ \A a, b \in Listed(j)' : a.pr \/ b.pr \/ a.id.run = b.id.run
        BY <1>1, <2>1, <2>4 DEF GenerationInv, OneGeneration
      <3> QED
        BY <3>1 DEF OneGeneration
    <2> QED
      BY <2>5, <2>6 DEF GenerationInv
  <1> QED
    BY <1>1, <1>2, <1>4, <1>5, SaveTakes

-----------------------------------------------------------------------------
(* A remediation that reads running is being run.                          *)

\* What says that a run's end was not written stays said.
LossesKept == \A i \in Investigations : <<"end", i>> \in lost => <<"end", i>> \in lost'

\* Two workers run two investigations.
LEMMA Apart ==
  ASSUME Shape, PoolInv, NEW v \in Workers, NEW w \in Workers, v # w, ~At(v, "idle")
  PROVE  worker[v].of # worker[w].of /\ worker[v].of \in Investigations
  BY Busy DEF PoolInv, OncePerInvestigation

\* Steps outside the pool.
LEMMA EndKept ==
  ASSUME Shape, PoolInv, EndInv, UNCHANGED <<worker, outcome, up>>, LossesKept
  PROVE  EndInv'
  <1>1. ASSUME NEW v \in Workers PROVE EndWritten(v)'
    <2>1. CASE At(v, "saving")
      <3>1. PICK i \in Investigations : i = worker[v].of
        BY <2>1, Busy DEF PoolInv, At
      <3> QED
        BY <2>1, <3>1 DEF EndInv, EndWritten, LossesKept
    <2> QED
      BY <2>1 DEF EndWritten, At
  <1>2. RunningHasOwner'
    BY DEF EndInv, RunningHasOwner, LossesKept
  <1> QED
    BY <1>1, <1>2 DEF EndInv

\* A run goes on, perhaps writing that it is running.
LEMMA EndGoesOn ==
  ASSUME Shape, PoolInv, EndInv, NEW w \in Workers, ~At(w, "idle"), NEW s, NEW left,
         Takes(w, s, worker[w].of, worker[w].run, left), s = "saving" => At(w, "saving") /\ UNCHANGED outcome,
         outcome' = [outcome EXCEPT ![worker[w].of] = "running"] \/ UNCHANGED outcome,
         UNCHANGED up, LossesKept
  PROVE  EndInv'
  <1>1. PICK i \in Investigations : i = worker[w].of /\ i = worker'[w].of
    BY Busy DEF PoolInv, Takes
  <1>2. \A j \in Investigations : j # i => outcome'[j] = outcome[j]
    BY <1>1 DEF Shape
  <1>3. ASSUME NEW v \in Workers PROVE EndWritten(v)'
    <2>1. CASE v = w
      BY <1>1, <2>1 DEF EndInv, EndWritten, LossesKept, Takes, At
    <2>2. CASE v # w /\ At(v, "saving")
      <3>1. PICK j \in Investigations : j = worker[v].of /\ j # i
        BY <1>1, <2>2, Apart DEF At
      <3>2. worker'[v] = worker[v]
        BY <2>2 DEF Takes
      <3> QED
        BY <1>2, <2>2, <3>1, <3>2 DEF EndInv, EndWritten, LossesKept
    <2> QED
      BY <2>1, <2>2 DEF EndWritten, Takes, At
  <1>4. ASSUME NEW j \in Investigations, up', outcome'[j] = "running"
        PROVE  <<"end", j>> \in lost' \/ \E v \in Workers : worker'[v].of = j
    <2>1. CASE j = i
      BY <1>1, <2>1
    <2>2. CASE j # i
      <3>1. outcome[j] = "running" /\ up
        BY <1>2, <1>4, <2>2
      <3>2. <<"end", j>> \in lost \/ \E v \in Workers : worker[v].of = j
        BY <3>1 DEF EndInv, RunningHasOwner
      <3> QED
        BY <1>1, <2>2, <3>2 DEF LossesKept, Takes
    <2> QED
      BY <2>1, <2>2
  <1> QED
    BY <1>3, <1>4 DEF EndInv, RunningHasOwner

\* A run that begins owns the row it writes, and the loss of an earlier end is mended.
LEMMA BeginEnd ==
  ASSUME Shape, PoolInv, EndInv, NEW w \in Workers, Begin(w)
  PROVE  EndInv'
  <1>1. PICK i \in Investigations : i = Head(jobs) /\ Takes(w, "triage", i, runs + 1, <<>>)
    BY BeginTakes
  <1>2. /\ \A j \in Investigations : j # i => outcome'[j] = outcome[j]
        /\ UNCHANGED up /\ At(w, "idle")
    BY <1>1 DEF Shape, Begin, Upserted
  <1>3. \A j \in Investigations : j # i => (<<"end", j>> \in lost => <<"end", j>> \in lost')
    BY <1>1 DEF Begin
  <1>4. \A v \in Workers : ~At(v, "idle") => worker[v].of # i
    <2>1. 1 \in DOMAIN jobs /\ jobs[1] = i
      BY <1>1, TailOf DEF Begin, Shape
    <2> QED
      BY <2>1 DEF PoolInv, OncePerInvestigation
  <1>5. ASSUME NEW v \in Workers PROVE EndWritten(v)'
    <2>1. CASE v # w /\ At(v, "saving")
      <3>1. PICK j \in Investigations : j = worker[v].of /\ j # i
        BY <1>4, <2>1, Busy DEF PoolInv, At
      <3>2. worker'[v] = worker[v]
        BY <1>1, <2>1 DEF Takes
      <3> QED
        BY <1>2, <1>3, <2>1, <3>1, <3>2 DEF EndInv, EndWritten
    <2> QED
      BY <1>1, <2>1 DEF EndWritten, Takes, At
  <1>6. ASSUME NEW j \in Investigations, up', outcome'[j] = "running"
        PROVE  <<"end", j>> \in lost' \/ \E v \in Workers : worker'[v].of = j
    <2>1. CASE j = i
      BY <1>1, <2>1 DEF Takes
    <2>2. CASE j # i
      <3>1. <<"end", j>> \in lost \/ \E v \in Workers : worker[v].of = j
        BY <1>2, <1>6, <2>2 DEF EndInv, RunningHasOwner
      <3>2. worker[w].of # j
        BY <1>2, Config DEF PoolInv, Placed
      <3> QED
        BY <1>1, <1>3, <2>2, <3>1, <3>2 DEF Takes
    <2> QED
      BY <2>1, <2>2
  <1> QED
    BY <1>5, <1>6 DEF EndInv, RunningHasOwner

\* The end is written, or its loss is on record, before the run gives up its investigation.
LEMMA FinishEnd ==
  ASSUME Shape, PoolInv, EndInv, NEW w \in Workers, Finish(w)
  PROVE  EndInv'
  <1>1. PICK i \in Investigations : i = worker[w].of
    BY Busy DEF Finish, PoolInv, At
  <1>2. \/ /\ outcome' = [outcome EXCEPT ![i] = worker[w].stage] /\ UNCHANGED lost
           /\ \/ Takes(w, "saving", i, worker[w].run, worker[w].left)
              \/ Takes(w, "idle", None, 0, <<>>)
        \/ /\ UNCHANGED outcome /\ lost' = lost \cup {<<"end", i>>}
           /\ Takes(w, "idle", None, 0, <<>>)
    BY <1>1, FinishTakes DEF PoolInv
  <1>3. outcome'[i] # "running" \/ <<"end", i>> \in lost'
    <2>1. worker[w].stage # "running"
      BY DEF Finish
    <2> QED
      BY <1>2, <2>1 DEF Shape
  <1>4. /\ \A j \in Investigations : j # i => outcome'[j] = outcome[j]
        /\ LossesKept /\ UNCHANGED up
    BY <1>2 DEF Finish, LossesKept, Shape
  <1>5. ASSUME NEW v \in Workers PROVE EndWritten(v)'
    <2>1. CASE v = w
      BY <1>2, <1>3, <2>1 DEF EndWritten, Takes, At
    <2>2. CASE v # w /\ At(v, "saving")
      <3>1. PICK j \in Investigations : j = worker[v].of /\ j # i
        BY <1>1, <2>2, Apart DEF At
      <3>2. worker'[v] = worker[v]
        BY <1>2, <2>2 DEF Takes
      <3> QED
        BY <1>4, <2>2, <3>1, <3>2 DEF EndInv, EndWritten, LossesKept
    <2> QED
      BY <1>2, <2>1, <2>2 DEF EndWritten, Takes, At
  <1>6. ASSUME NEW j \in Investigations, up', outcome'[j] = "running"
        PROVE  <<"end", j>> \in lost' \/ \E v \in Workers : worker'[v].of = j
    <2>1. CASE j = i
      BY <1>3, <1>6, <2>1
    <2>2. CASE j # i
      <3>1. <<"end", j>> \in lost \/ \E v \in Workers : worker[v].of = j
        BY <1>4, <1>6, <2>2 DEF EndInv, RunningHasOwner
      <3> QED
        BY <1>1, <1>2, <1>4, <2>2, <3>1 DEF Takes, LossesKept
    <2> QED
      BY <2>1, <2>2
  <1> QED
    BY <1>5, <1>6 DEF EndInv, RunningHasOwner

\* Saving is over for a run whose end was written before it.
LEMMA SaveEnd ==
  ASSUME Shape, PoolInv, EndInv, NEW w \in Workers, SaveCandidate(w)
  PROVE  EndInv'
  <1>1. At(w, "saving") /\ ~At(w, "idle") /\ Placed(w) /\ UNCHANGED <<outcome, up, lost>>
    BY DEF SaveCandidate, PoolInv, At
  <1>2. CASE Takes(w, "saving", worker[w].of, worker[w].run, Tail(worker[w].left))
    BY <1>1, <1>2, EndGoesOn DEF LossesKept
  <1>3. CASE Takes(w, "idle", None, 0, <<>>)
    <2>1. PICK i \in Investigations : i = worker[w].of
      BY <1>1, Busy
    <2>2. outcome[i] # "running" \/ <<"end", i>> \in lost
      BY <1>1, <2>1 DEF EndInv, EndWritten
    <2>3. \A v \in Workers : EndWritten(v)'
      BY <1>1, <1>3 DEF EndInv, EndWritten, Takes, At
    <2>4. RunningHasOwner'
      BY <1>1, <1>3, <2>1, <2>2 DEF EndInv, RunningHasOwner, Takes
    <2> QED
      BY <2>3, <2>4 DEF EndInv
  <1> QED
    BY <1>1, <1>2, <1>3, SaveTakes

\* Boot ends what reads running, or the loss is on record.
LEMMA BootEnd ==
  ASSUME Shape, PoolInv, EndInv, Boot
  PROVE  EndInv'
  <1>1. \A i \in Investigations :
          /\ outcome'[i] = "running" => <<"end", i>> \in lost'
          /\ outcome[i] # "running" => outcome'[i] # "running"
          /\ <<"end", i>> \in lost => <<"end", i>> \in lost'
    BY DEF Boot, AbandonStale, Shape
  <1>2. UNCHANGED worker
    BY DEF Boot, pool
  <1>3. ASSUME NEW v \in Workers PROVE EndWritten(v)'
    <2>1. CASE At(v, "saving")
      <3>1. PICK i \in Investigations : i = worker[v].of
        BY <2>1, Busy DEF PoolInv, At
      <3> QED
        BY <1>1, <1>2, <3>1 DEF EndWritten
    <2> QED
      BY <1>2, <2>1 DEF EndWritten, At
  <1> QED
    BY <1>1, <1>3 DEF EndInv, RunningHasOwner

-----------------------------------------------------------------------------
(* A candidate has at most one pull request, and it is accounted for.      *)

\* What says that a pull request's URL was lost stays said.
UrlsKept == \A id \in Ids : <<"url", id>> \in lost => <<"url", id>> \in lost'

\* No handler comes to make or to hold a branch or a pull request, and none that
\* opened one forgets it.
NoneOpens ==
  \A q \in Requests :
    /\ request'[q].stage \in Opening => request'[q] = request[q]
    /\ request'[q].stage = "publishing" => request'[q].id \in Ids
    /\ request[q].stage = "opened" => request'[q] = request[q]

\* OnePullRequest, with the rows of a candidate read as one.
LEMMA OnePullRequestIs ==
  OnePullRequest <=>
    \A id \in Ids :
      /\ pull[id] <= 1
      /\ HasPull(id) => pull[id] = 1
      /\ pull[id] = 1 => \/ HasPull(id)
                         \/ \E q \in Requests : request[q].stage = "opened" /\ request[q].id = id
                         \/ <<"url", id>> \in lost
  BY DEF OnePullRequest, HasPull, Now

\* The same after a step.
LEMMA OnePullRequestNext ==
  OnePullRequest' <=>
    \A id \in Ids :
      /\ pull'[id] <= 1
      /\ HasPull(id)' => pull'[id] = 1
      /\ pull'[id] = 1 => \/ HasPull(id)'
                          \/ \E q \in Requests : request'[q].stage = "opened" /\ request'[q].id = id
                          \/ <<"url", id>> \in lost'
  BY DEF OnePullRequest, HasPull, Now

\* Steps that touch neither GitHub nor who is at work on it.
LEMMA PullKept ==
  ASSUME PullInv, UNCHANGED <<branch, pull>>, \A id \in Ids : HasPull(id)' <=> HasPull(id),
         UrlsKept, NoneOpens
  PROVE  PullInv'
  <1>1. \A q \in Requests : Publishing(q)'
    BY DEF PullInv, Publishing, NoneOpens, Now, Opening
  <1>2. OneOpener' /\ PulledOnBranch'
    BY DEF PullInv, OneOpener, PulledOnBranch, NoneOpens
  <1>3. OnePullRequest'
    BY OnePullRequestIs, OnePullRequestNext DEF PullInv, UrlsKept, NoneOpens
  <1> QED
    BY <1>1, <1>2, <1>3 DEF PullInv

\* Rows that keep their ids and pull requests.
LEMMA PullsUnchanged ==
  ASSUME UNCHANGED solution
  PROVE  \A id \in Ids : HasPull(id)' <=> HasPull(id)
  BY DEF HasPull, Stored

\* Clearing rows without a pull request, and saving one without, changes no candidate's.
LEMMA PoolPulls ==
  ASSUME Shape, NEW w \in Workers, Placed(w), RunJob(w)
  PROVE  \A id \in Ids : HasPull(id)' <=> HasPull(id)
  <1>1. CASE UNCHANGED solution
    BY <1>1, PullsUnchanged
  <1>2. CASE solution' = {row \in solution : row.of = worker[w].of => row.pr}
    BY <1>2 DEF HasPull, Stored
  <1>3. CASE SaveCandidate(w)
    <2>1. At(w, "saving")
      BY <1>3 DEF SaveCandidate
    <2>2. PICK new : new = NextRow(w) /\ ~new.pr
      BY <2>1, NextRowTyped
    <2>3. solution' = solution \cup {new} \/ UNCHANGED solution
      BY <1>3, <2>2, SaveTakes
    <2> QED
      BY <2>2, <2>3 DEF HasPull, Stored
  <1> QED
    BY <1>1, <1>2, <1>3 DEF RunJob, Begin, Triage, Inspect, Supersede, FanOut, Finish, tables

\* The branch of a candidate is made once, and whoever made it has no rival.
LEMMA CreateBranchPull ==
  ASSUME Shape, PullInv, NEW q \in Requests, CreateBranch(q)
  PROVE  PullInv'
  <1>1. /\ Now(q, "publishing") /\ UNCHANGED <<pull, solution, lost>>
        /\ \A id \in Ids : HasPull(id)' <=> HasPull(id)
    BY PullsUnchanged DEF CreateBranch
  <1>2. PICK id \in Ids : id = request[q].id
    BY <1>1 DEF PullInv, Publishing, Now
  <1>3. CASE Answered(q)
    <2>1. Gives(q, "answered", None, None, {})
      BY <1>3, Closes
    <2>2. branch \subseteq branch'
      BY <1>3 DEF CreateBranch
    <2>3. NoneOpens
      BY <1>1, <2>1 DEF NoneOpens, Gives, Now, Opening, PullInv, Publishing
    <2>4. \A p \in Requests : Publishing(p)'
      BY <1>1, <2>2, <2>3 DEF PullInv, Publishing, NoneOpens, Now, Opening
    <2>5. OneOpener' /\ PulledOnBranch'
      BY <1>1, <2>2, <2>3 DEF PullInv, OneOpener, PulledOnBranch, NoneOpens
    <2>6. OnePullRequest'
      BY <1>1, <2>3, OnePullRequestIs, OnePullRequestNext DEF PullInv, NoneOpens
    <2> QED
      BY <2>4, <2>5, <2>6 DEF PullInv
  <1>4. CASE id \notin branch /\ branch' = branch \cup {id} /\ Reply(q, [request[q] EXCEPT !.stage = "branched"])
    <2>1. Gives(q, "branched", id, request[q].of, request[q].replaced)
      BY <1>2, <1>4, Advances DEF Replies
    <2>2. pull[id] = 0
      BY <1>4 DEF PullInv, PulledOnBranch
    <2>3. \A p \in Requests : request[p].stage \in Opening => request[p].id # id
      BY <1>4 DEF PullInv, Publishing
    <2>4. \A p \in Requests : Publishing(p)'
      BY <1>1, <1>2, <1>4, <2>1, <2>2 DEF PullInv, Publishing, Now, Opening, Gives
    <2>5. OneOpener'
      BY <2>1, <2>3 DEF PullInv, OneOpener, Gives
    <2>6. PulledOnBranch'
      BY <1>1, <1>4 DEF PullInv, PulledOnBranch
    <2>7. OnePullRequest'
      BY <1>1, <1>2, <2>1, OnePullRequestIs, OnePullRequestNext DEF PullInv, Gives, Now
    <2> QED
      BY <2>4, <2>5, <2>6, <2>7 DEF PullInv
  <1> QED
    BY <1>2, <1>3, <1>4 DEF CreateBranch

\* One pull request more, by the one handler that made the branch.
LEMMA CreatePullPull ==
  ASSUME Shape, PullInv, NEW q \in Requests, CreatePull(q)
  PROVE  PullInv'
  <1>1. /\ Now(q, "branched") /\ UNCHANGED <<branch, solution>>
        /\ \A id \in Ids : HasPull(id)' <=> HasPull(id)
    BY PullsUnchanged DEF CreatePull
  <1>2. PICK id \in Ids : id = request[q].id /\ id \in branch /\ pull[id] = 0
    BY <1>1 DEF PullInv, Publishing, Now, Opening
  <1>3. \A p \in Requests : p # q /\ request[p].stage \in Opening => request[p].id # id
    BY <1>1, <1>2 DEF PullInv, OneOpener, Now, Opening
  <1>4. \A p \in Requests : request[p].stage \in Opening => request[p].id \in Ids
    BY DEF PullInv, Publishing
  <1>5. CASE Answered(q) /\ UNCHANGED <<pull, lost>>
    <2>1. Gives(q, "answered", None, None, {})
      BY <1>5, Closes
    <2>2. NoneOpens /\ UrlsKept
      BY <1>1, <1>5, <2>1 DEF NoneOpens, UrlsKept, Gives, Now, Opening, PullInv, Publishing
    <2> QED
      BY <1>1, <1>5, <2>2, PullKept
  <1>6. CASE /\ pull' = [pull EXCEPT ![id] = @ + 1]
             /\ \/ Reply(q, [request[q] EXCEPT !.stage = "opened"]) /\ UNCHANGED lost
                \/ Answered(q) /\ lost' = lost \cup {<<"url", id>>}
    <2>0. pull' = [pull EXCEPT ![id] = @ + 1]
      BY <1>6
    <2>1. pull'[id] = 1 /\ \A other \in Ids : other # id => pull'[other] = pull[other]
      <3>1. pull'[id] = pull[id] + 1 /\ \A other \in Ids : other # id => pull'[other] = pull[other]
        BY <2>0, PullCounted
      <3> QED
        BY <1>2, <3>1
    <2>2. \/ Gives(q, "opened", id, request[q].of, request[q].replaced)
          \/ Gives(q, "answered", None, None, {}) /\ <<"url", id>> \in lost'
      BY <1>2, <1>6, Advances, Closes DEF Replies
    <2>3. /\ UrlsKept
          /\ \A p \in Requests : p # q => request'[p] = request[p]
          /\ request'[q].stage \in {"opened", "answered"}
          /\ request'[q].stage = "opened" => request'[q].id = id
      BY <1>6, <2>2 DEF UrlsKept, Gives
    <2>4. \A p \in Requests : Publishing(p)'
      BY <1>1, <1>2, <1>3, <1>4, <2>1, <2>3 DEF PullInv, Publishing, Now, Opening
    <2>5. OneOpener'
      BY <1>3, <2>3 DEF PullInv, OneOpener, Opening
    <2>6. PulledOnBranch'
      BY <1>1, <1>2, <2>1 DEF PullInv, PulledOnBranch
    <2>7. ASSUME NEW x \in Ids
          PROVE  /\ pull'[x] <= 1
                 /\ HasPull(x)' => pull'[x] = 1
                 /\ pull'[x] = 1 => \/ HasPull(x)'
                                    \/ \E p \in Requests : request'[p].stage = "opened" /\ request'[p].id = x
                                    \/ <<"url", x>> \in lost'
      <3>1. CASE x = id
        BY <2>1, <2>2, <3>1 DEF Gives
      <3>2. CASE x # id
        <4>1. /\ pull[x] <= 1
              /\ HasPull(x) => pull[x] = 1
              /\ pull[x] = 1 => \/ HasPull(x)
                                \/ \E p \in Requests : request[p].stage = "opened" /\ request[p].id = x
                                \/ <<"url", x>> \in lost
          BY OnePullRequestIs DEF PullInv
        <4>2. \A p \in Requests : request[p].stage = "opened" => request'[p] = request[p]
          BY <1>1, <2>3 DEF Now
        <4> QED
          BY <1>1, <2>1, <2>3, <3>2, <4>1, <4>2 DEF UrlsKept
      <3> QED
        BY <3>1, <3>2
    <2>8. OnePullRequest'
      BY <2>7, OnePullRequestNext
    <2> QED
      BY <2>4, <2>5, <2>6, <2>8 DEF PullInv
  <1> QED
    BY <1>2, <1>5, <1>6 DEF CreatePull

\* The row has the pull request its handler opened, or the engineer was warned.
LEMMA MarkOpenedPull ==
  ASSUME Shape, PullInv, NEW q \in Requests, MarkOpened(q)
  PROVE  PullInv'
  <1>1. Now(q, "opened") /\ UNCHANGED <<branch, pull>> /\ Gives(q, "answered", None, None, {})
    BY Closes DEF MarkOpened, outside
  <1>2. PICK id \in Ids : id = request[q].id /\ pull[id] = 1
    BY <1>1 DEF PullInv, Publishing, Now, Opening
  <1>3. \/ (\A x \in Ids : HasPull(x)' <=> (HasPull(x) \/ x = id)) /\ UNCHANGED lost
        \/ (\A x \in Ids : HasPull(x)' <=> HasPull(x)) /\ lost' = lost \cup {<<"url", id>>}
    BY <1>2, MarkOpenedRows, PullsUnchanged
  <1>4. /\ UrlsKept
        /\ \A p \in Requests : request'[p].stage \in Opening \cup {"publishing"} => request'[p] = request[p]
        /\ \A p \in Requests : request[p].stage = "opened" /\ request[p].id # id => request'[p] = request[p]
    BY <1>1, <1>2, <1>3 DEF UrlsKept, Gives, Opening
  <1>5. \A p \in Requests : Publishing(p)'
    BY <1>1, <1>4 DEF PullInv, Publishing, Now, Opening
  <1>6. OneOpener' /\ PulledOnBranch'
    BY <1>1, <1>4 DEF PullInv, OneOpener, PulledOnBranch
  <1>7. ASSUME NEW x \in Ids
        PROVE  /\ pull'[x] <= 1
               /\ HasPull(x)' => pull'[x] = 1
               /\ pull'[x] = 1 => \/ HasPull(x)'
                                  \/ \E p \in Requests : request'[p].stage = "opened" /\ request'[p].id = x
                                  \/ <<"url", x>> \in lost'
    <2>1. /\ pull[x] <= 1
          /\ HasPull(x) => pull[x] = 1
          /\ pull[x] = 1 => \/ HasPull(x)
                            \/ \E p \in Requests : request[p].stage = "opened" /\ request[p].id = x
                            \/ <<"url", x>> \in lost
      BY OnePullRequestIs DEF PullInv
    <2>2. CASE x = id
      BY <1>1, <1>2, <1>3, <2>1, <2>2
    <2>3. CASE x # id
      BY <1>1, <1>3, <1>4, <2>1, <2>3 DEF UrlsKept
    <2> QED
      BY <2>2, <2>3
  <1>8. OnePullRequest'
    BY <1>7, OnePullRequestNext
  <1> QED
    BY <1>5, <1>6, <1>8 DEF PullInv

\* A crash orphans the pull requests whose URLs were on their way, on record.
LEMMA CrashPull ==
  ASSUME Shape, PullInv, Crash
  PROVE  PullInv'
  <1>1. UNCHANGED <<branch, pull>> /\ \A id \in Ids : HasPull(id)' <=> HasPull(id)
    BY PullsUnchanged DEF Crash, outside, tables
  <1>2. \A q \in Requests : request'[q].stage \in {"waiting", "answered"}
    BY CrashedHandlers
  <1>3. UrlsKept /\ \A q \in Requests : request[q].stage = "opened" => <<"url", request[q].id>> \in lost'
    BY DEF Crash, UrlsKept, Now
  <1>4. (\A q \in Requests : Publishing(q)') /\ OneOpener' /\ PulledOnBranch'
    BY <1>1, <1>2 DEF PullInv, Publishing, OneOpener, PulledOnBranch, Opening, Now
  <1>5. OnePullRequest'
    BY <1>1, <1>3, OnePullRequestIs, OnePullRequestNext DEF PullInv, UrlsKept
  <1> QED
    BY <1>4, <1>5 DEF PullInv

-----------------------------------------------------------------------------
(* A decision that reads as indexed is in the index.                       *)

\* No handler stores, replaces or indexes a decision: each stays as it is, or moves
\* to a stage that holds none of these.
NoneDecides ==
  \A q \in Requests :
    \/ request'[q] = request[q]
    \/ /\ request'[q].stage \notin {"forgetting", "adding", "indexed"}
       /\ request'[q].stage = "deciding" => request'[q].of \in Investigations
       /\ request[q].stage \in Decided => request'[q].stage \in Decided

\* Steps that store nothing and index nothing.
LEMMA DecisionKept ==
  ASSUME Shape, DecisionInv, UNCHANGED <<decision, index>>, NoneDecides
  PROVE  DecisionInv'
  <1>1. \A q \in Requests : request[q].stage \in Decided => request'[q].stage \in Decided
    BY DEF NoneDecides
  <1>2. DecidedOnce'
    <2>1. \A i \in Investigations : decision[i].by # None => decision[i].by \in Requests
      BY DEF Shape
    <2> QED
      BY <1>1, <2>1 DEF DecisionInv, DecidedOnce
  <1>3. ASSUME NEW q \in Requests PROVE Replaces(q)'
    <2>1. CASE request'[q] = request[q]
      <3>1. request[q].replaced \subseteq Requests
        BY DEF Shape, Handlers
      <3> QED
        BY <1>1, <2>1, <3>1 DEF DecisionInv, Replaces, Now
    <2>2. CASE /\ request'[q].stage \notin {"forgetting", "adding", "indexed"}
               /\ request'[q].stage = "deciding" => request'[q].of \in Investigations
      BY <2>2 DEF Replaces, Now, Decided
    <2> QED
      BY <2>1, <2>2 DEF NoneDecides
  <1> QED
    BY <1>2, <1>3 DEF DecisionInv, IndexedIsRecalled

\* A handler moves on, and what it moves past is on its own row.
LEMMA SaveDecisionInv ==
  ASSUME Shape, DecisionInv, NEW q \in Requests, SaveDecision(q)
  PROVE  DecisionInv'
  <1>1. Now(q, "deciding") /\ UNCHANGED index
    BY DEF SaveDecision, outside
  <1>2. PICK i \in Investigations : i = request[q].of
    BY <1>1 DEF DecisionInv, Replaces, Now
  <1>3. \A j \in Investigations : decision[j].by # q
    BY <1>1, Config DEF DecisionInv, DecidedOnce, Now, Decided
  <1>4. CASE Gives(q, "answered", None, None, {}) /\ UNCHANGED decision
    <2>1. NoneDecides
      BY <1>1, <1>4 DEF NoneDecides, Gives, Decided, Now
    <2> QED
      BY <1>1, <1>4, <2>1, DecisionKept
  <1>5. CASE /\ \/ Gives(q, "forgetting", None, i, supersedeDecisions(i))
                \/ Gives(q, "answered", None, None, {})
             /\ decision' = [decision EXCEPT ![i] = [by |-> q, indexed |-> FALSE]]
    <2>1. /\ decision'[i].by = q /\ ~decision'[i].indexed
          /\ \A j \in Investigations : j # i => decision'[j] = decision[j]
      BY <1>5, DecidedIs
    <2>2. /\ \A p \in Requests : p # q => request'[p] = request[p]
          /\ request'[q].stage \in {"forgetting", "answered"}
          /\ request'[q].stage = "forgetting" => request'[q].of = i
          /\ request'[q].replaced \subseteq {decision[i].by} \ {None}
      BY <1>5 DEF Gives, supersedeDecisions
    <2>3. \A p \in Requests : request[p].stage \in Decided => request'[p].stage \in Decided
      BY <1>1, <2>2 DEF Now, Decided
    <2>4. DecidedOnce'
      <3>1. \A j \in Investigations : decision[j].by # None => decision[j].by \in Requests
        BY DEF Shape
      <3>2. request'[q].stage \in Decided
        BY <2>2 DEF Decided
      <3>3. \A j \in Investigations : decision'[j].by # None => request'[decision'[j].by].stage \in Decided
        BY <2>1, <2>3, <3>1, <3>2 DEF DecisionInv, DecidedOnce
      <3>4. \A j, k \in Investigations : decision'[j].by = decision'[k].by /\ decision'[j].by # None => j = k
        BY <1>3, <2>1 DEF DecisionInv, DecidedOnce
      <3> QED
        BY <3>3, <3>4 DEF DecidedOnce
    <2>5. ASSUME NEW p \in Requests PROVE Replaces(p)'
      <3>1. CASE p = q
        <4>1. \A r \in request'[p].replaced :
                r \in Requests /\ r = decision[i].by /\ r # None /\ r # q /\ request[r].stage \in Decided
          <5>1. decision[i].by \in Requests \cup {None}
            BY DEF Shape
          <5> QED
            BY <1>3, <2>2, <3>1, <5>1 DEF DecisionInv, DecidedOnce
        <4>2. \A r \in request'[p].replaced : \A j \in Investigations : decision'[j].by # r
          BY <2>1, <4>1 DEF DecisionInv, DecidedOnce
        <4> QED
          BY <2>2, <2>3, <3>1, <4>1, <4>2 DEF Replaces, Now
      <3>2. CASE p # q
        <4>1. request'[p] = request[p] /\ request[p].replaced \subseteq Requests
          BY <2>2, <3>2 DEF Shape, Handlers
        <4>2. \A r \in request[p].replaced : request[r].stage \in Decided => r # q
          BY <1>1 DEF Now, Decided
        <4>3. \A j \in Investigations : decision'[j].by = p => decision[j].by = p
          BY <2>1, <3>2
        <4> QED
          BY <1>1, <2>1, <2>3, <3>2, <4>1, <4>2, <4>3 DEF DecisionInv, Replaces, Now, Decided
      <3> QED
        BY <3>1, <3>2
    <2>6. IndexedIsRecalled'
      BY <1>1, <2>1 DEF DecisionInv, IndexedIsRecalled
    <2> QED
      BY <2>4, <2>5, <2>6 DEF DecisionInv
  <1> QED
    BY <1>2, <1>4, <1>5, SaveDecisionGives

\* What is forgotten is nobody's decision any more.
LEMMA ForgetInv ==
  ASSUME Shape, DecisionInv, NEW q \in Requests, Forget(q)
  PROVE  DecisionInv'
  <1>1. /\ Now(q, "forgetting") /\ UNCHANGED decision
        /\ index' = index \ request[q].replaced \/ UNCHANGED index
        /\ Gives(q, "adding", None, request[q].of, {})
    BY ForgetGives DEF Forget
  <1>2. /\ request[q].of \in Investigations
        /\ \A r \in request[q].replaced : \A i \in Investigations : decision[i].by # r
    BY <1>1 DEF DecisionInv, Replaces, Now, Decided
  <1>3. /\ \A i \in Investigations : decision[i].by \in index => decision'[i].by \in index'
        /\ \A i \in Investigations : \A p : decision[i].by = p /\ p \in index => p \in index'
    BY <1>1, <1>2
  <1>4. \A p \in Requests : request[p].stage \in Decided => request'[p].stage \in Decided
    BY <1>1 DEF Gives, Decided
  <1>5. DecidedOnce'
    <2>1. \A i \in Investigations : decision[i].by # None => decision[i].by \in Requests
      BY DEF Shape
    <2> QED
      BY <1>1, <1>4, <2>1 DEF DecisionInv, DecidedOnce
  <1>6. ASSUME NEW p \in Requests PROVE Replaces(p)'
    <2>1. CASE p = q
      BY <1>1, <1>2, <2>1 DEF Gives, Replaces, Now, Decided
    <2>2. CASE p # q
      <3>1. request'[p] = request[p] /\ request[p].replaced \subseteq Requests
        BY <1>1, <2>2 DEF Gives, Shape, Handlers
      <3> QED
        BY <1>1, <1>3, <1>4, <3>1 DEF DecisionInv, Replaces, Now, Decided
    <2> QED
      BY <2>1, <2>2
  <1>7. IndexedIsRecalled'
    BY <1>1, <1>3 DEF DecisionInv, IndexedIsRecalled
  <1> QED
    BY <1>5, <1>6, <1>7 DEF DecisionInv

\* A decision is added before it is marked.
LEMMA AddInv ==
  ASSUME Shape, DecisionInv, NEW q \in Requests, Add(q)
  PROVE  DecisionInv'
  <1>1. Now(q, "adding") /\ UNCHANGED decision
    BY DEF Add
  <1>2. CASE Answered(q) /\ UNCHANGED index
    <2>1. NoneDecides
      BY <1>1, <1>2, Closes DEF NoneDecides, Gives, Decided
    <2> QED
      BY <1>1, <1>2, <2>1, DecisionKept
  <1>3. CASE index' = index \cup {q} /\ Reply(q, [request[q] EXCEPT !.stage = "indexed"])
    <2>1. Gives(q, "indexed", request[q].id, request[q].of, request[q].replaced)
      BY <1>3, Advances DEF Replies
    <2>2. request[q].of \in Investigations
      BY <1>1 DEF DecisionInv, Replaces, Now, Decided
    <2>3. \A p \in Requests : request[p].stage \in Decided => request'[p].stage \in Decided
      BY <2>1 DEF Gives, Decided
    <2>4. DecidedOnce'
      <3>1. \A i \in Investigations : decision[i].by # None => decision[i].by \in Requests
        BY DEF Shape
      <3> QED
        BY <1>1, <2>3, <3>1 DEF DecisionInv, DecidedOnce
    <2>5. ASSUME NEW p \in Requests PROVE Replaces(p)'
      <3>1. CASE p = q
        BY <1>3, <2>1, <2>2, <3>1 DEF Gives, Replaces, Now, Decided
      <3>2. CASE p # q
        <4>1. request'[p] = request[p] /\ request[p].replaced \subseteq Requests
          BY <2>1, <3>2 DEF Gives, Shape, Handlers
        <4> QED
          BY <1>1, <1>3, <2>3, <4>1 DEF DecisionInv, Replaces, Now, Decided
      <3> QED
        BY <3>1, <3>2
    <2>6. IndexedIsRecalled'
      BY <1>1, <1>3 DEF DecisionInv, IndexedIsRecalled
    <2> QED
      BY <2>4, <2>5, <2>6 DEF DecisionInv
  <1> QED
    BY <1>2, <1>3 DEF Add

\* The mark is set only on the request's own decision.
LEMMA MarkIndexedInv ==
  ASSUME Shape, DecisionInv, NEW q \in Requests, MarkIndexed(q)
  PROVE  DecisionInv'
  <1>1. Now(q, "indexed") /\ UNCHANGED index /\ Gives(q, "answered", None, None, {})
    BY Closes DEF MarkIndexed, outside
  <1>2. PICK i \in Investigations : i = request[q].of /\ (decision[i].by = q => q \in index)
    BY <1>1 DEF DecisionInv, Replaces, Now, Decided
  <1>3. NoneDecides
    BY <1>1 DEF NoneDecides, Gives, Decided
  <1>4. CASE UNCHANGED decision
    BY <1>1, <1>3, <1>4, DecisionKept
  <1>5. CASE decision[i].by = q /\ decision' = [decision EXCEPT ![i].indexed = TRUE]
    <2>1. \A j \in Investigations : decision'[j].by = decision[j].by /\ (j # i => decision'[j] = decision[j])
      BY <1>5, IndexingIs
    <2>2. \A p \in Requests : request[p].stage \in Decided => request'[p].stage \in Decided
      BY <1>3 DEF NoneDecides
    <2>3. DecidedOnce'
      <3>1. \A j \in Investigations : decision[j].by # None => decision[j].by \in Requests
        BY DEF Shape
      <3> QED
        BY <2>1, <2>2, <3>1 DEF DecisionInv, DecidedOnce
    <2>4. ASSUME NEW p \in Requests PROVE Replaces(p)'
      <3>1. CASE p = q
        BY <1>1, <3>1 DEF Gives, Replaces, Now, Decided
      <3>2. CASE p # q
        <4>1. request'[p] = request[p] /\ request[p].replaced \subseteq Requests
          BY <1>1, <3>2 DEF Gives, Shape, Handlers
        <4> QED
          BY <1>1, <2>1, <2>2, <4>1 DEF DecisionInv, Replaces, Now, Decided
      <3> QED
        BY <3>1, <3>2
    <2>5. IndexedIsRecalled'
      BY <1>1, <1>2, <1>5, <2>1 DEF DecisionInv, IndexedIsRecalled
    <2> QED
      BY <2>3, <2>4, <2>5 DEF DecisionInv
  <1> QED
    BY <1>2, <1>4, <1>5 DEF MarkIndexed

-----------------------------------------------------------------------------
(* Every step.                                                             *)

\* A step of the pool leaves the handlers, GitHub, the decisions and the index alone.
LEMMA PoolBeside ==
  ASSUME Shape, PullInv, DecisionInv, UNCHANGED <<request, decision, branch, pull, index>>,
         \A id \in Ids : HasPull(id)' <=> HasPull(id), UrlsKept
  PROVE  PullInv' /\ DecisionInv'
  <1>1. NoneOpens
    BY DEF NoneOpens, PullInv, Publishing, Now
  <1>2. NoneDecides
    BY DEF NoneDecides
  <1> QED
    BY <1>1, <1>2, PullKept, DecisionKept

\* A handler leaves the pool and the runs' ends alone, and lets no row in.
LEMMA PoolQuiet ==
  ASSUME Shape, PoolInv, GenerationInv, EndInv, QuietPool, RowsKept, FailuresKept, LossesKept
  PROVE  PoolInv' /\ GenerationInv' /\ EndInv'
  <1>1. UNCHANGED <<jobs, inFlight, worker, outcome, up>>
    BY DEF QuietPool, pool
  <1>2. PoolInv'
    BY <1>1 DEF PoolInv, Placed, OncePerInvestigation, At
  <1>3. GenerationInv'
    BY <1>1, GenerationKept DEF PoolInv
  <1>4. EndInv'
    BY <1>1, EndKept
  <1> QED
    BY <1>2, <1>3, <1>4

\* Rows that do not change are kept.
LEMMA SameRows ==
  ASSUME UNCHANGED solution
  PROVE  RowsKept
  BY DEF RowsKept

\* An investigation handed over, or remediated by hand.
LEMMA EnqueueIInv ==
  ASSUME IInv, NEW i \in Investigations, HandOver(i) \/ StartRemediation(i)
  PROVE  IInv'
  <1>1. /\ UNCHANGED <<worker, outcome, solution, decision, branch, pull, index, request, up, lost>>
        /\ Enqueue(i) \/ UNCHANGED <<jobs, inFlight>>
    BY DEF HandOver, StartRemediation, tables, outside
  <1>2. FailuresKept /\ LossesKept /\ UrlsKept /\ RowsKept /\ \A id \in Ids : HasPull(id)' <=> HasPull(id)
    BY <1>1, SameRows, PullsUnchanged DEF FailuresKept, LossesKept, UrlsKept
  <1>3. Shape'
    BY HandOverTyped, StartTyped DEF IInv
  <1>4. PoolInv'
    BY <1>1, EnqueuePool DEF IInv
  <1>5. GenerationInv' /\ EndInv'
    BY <1>1, <1>2, GenerationKept, EndKept DEF IInv, PoolInv
  <1>6. PullInv' /\ DecisionInv'
    BY <1>1, <1>2, PoolBeside DEF IInv
  <1> QED
    BY <1>3, <1>4, <1>5, <1>6 DEF IInv

\* A step of a run.
LEMMA RunJobIInv ==
  ASSUME IInv, NEW w \in Workers, RunJob(w)
  PROVE  IInv'
  <1>1. Shape /\ PoolInv /\ GenerationInv /\ EndInv /\ PullInv /\ DecisionInv
    BY DEF IInv
  <1>2. Placed(w) /\ \A v \in Workers : Placed(v)
    BY <1>1 DEF PoolInv
  <1>3. UNCHANGED <<request, decision, branch, pull, index>> /\ UrlsKept
    BY DEF RunJob, Begin, Triage, Inspect, FanOut, Finish, SaveCandidate, tables, outside, UrlsKept
  <1>4. PullInv' /\ DecisionInv'
    BY <1>1, <1>2, <1>3, PoolPulls, PoolBeside
  <1>5. CASE Begin(w)
    <2>1. UNCHANGED solution /\ FailuresKept
      BY <1>5 DEF Begin, FailuresKept
    <2>2. Shape' /\ PoolInv' /\ EndInv'
      BY <1>1, <1>5, BeginTyped, BeginPool, BeginEnd
    <2>3. PICK i, n : Takes(w, "triage", i, n, <<>>)
      BY <1>1, <1>5, BeginTakes
    <2>4. GenerationInv'
      BY <1>1, <1>2, <2>1, <2>3, GenerationGoesOn
    <2> QED
      BY <1>4, <2>2, <2>4 DEF IInv
  <1>6. CASE Triage(w)
    <2>1. /\ UNCHANGED <<solution, jobs, inFlight, up>> /\ FailuresKept /\ LossesKept
          /\ ~At(w, "idle") /\ worker[w].left = <<>>
          /\ outcome' = [outcome EXCEPT ![worker[w].of] = "running"] \/ UNCHANGED outcome
      BY <1>2, <1>6 DEF Triage, FailuresKept, LossesKept, At, Placed, Upserted
    <2>2. PICK s \in {"failed", "inspect", "stopped"} : Takes(w, s, worker[w].of, worker[w].run, worker[w].left)
      BY <1>1, <1>6, TriageTakes
    <2>3. GenerationInv'
      BY <1>1, <1>2, <2>1, <2>2, GenerationGoesOn
    <2>4. PoolInv' /\ EndInv'
      BY <1>1, <2>1, <2>2, GoOnPool, EndGoesOn
    <2> QED
      BY <1>1, <1>2, <1>4, <1>6, <2>3, <2>4, TriageTyped DEF IInv
  <1>7. CASE Inspect(w)
    <2>1. /\ UNCHANGED <<outcome, jobs, inFlight, up>> /\ LossesKept
          /\ ~At(w, "idle") /\ worker[w].left = <<>>
      BY <1>2, <1>7 DEF Inspect, LossesKept, At, Placed
    <2>2. PICK s \in {"failed", "proposing"} : Takes(w, s, worker[w].of, worker[w].run, worker[w].left)
      BY <1>1, <1>7, InspectTakes
    <2>3. PoolInv' /\ EndInv'
      BY <1>1, <2>1, <2>2, GoOnPool, EndGoesOn
    <2> QED
      BY <1>1, <1>4, <1>7, <2>3, InspectTyped, InspectGeneration DEF IInv
  <1>8. CASE FanOut(w)
    <2>1. /\ UNCHANGED <<outcome, solution, jobs, inFlight, up>> /\ FailuresKept /\ LossesKept
          /\ worker[w].stage = "proposing" /\ ~At(w, "idle")
      BY <1>8 DEF FanOut, FailuresKept, LossesKept, At, tables
    <2>2. PICK ranked : Takes(w, "done", worker[w].of, worker[w].run, ranked)
      BY <1>1, <1>8, FanOutTakes
    <2>3. GenerationInv'
      BY <1>1, <1>2, <2>1, <2>2, GenerationGoesOn
    <2>4. PoolInv'
      <3>1. /\ "done" # "idle" /\ ("done" \notin {"done", "saving"} => ranked = <<>>)
            /\ ("done" = "saving" => ranked # <<>>)
        OBVIOUS
      <3> QED
        BY <1>1, <2>1, <2>2, <3>1, GoOnPool
    <2>5. EndInv'
      BY <1>1, <2>1, <2>2, EndGoesOn
    <2> QED
      BY <1>1, <1>4, <1>8, <2>3, <2>4, <2>5, FanOutTyped DEF IInv
  <1>9. CASE Finish(w)
    <2>1. /\ UNCHANGED <<solution, jobs>> /\ FailuresKept /\ ~At(w, "idle")
          /\ worker[w].stage \in {"failed", "stopped", "done"}
      BY <1>9 DEF Finish, FailuresKept, At
    <2>2. \/ /\ worker[w].left # <<>> /\ UNCHANGED inFlight
             /\ Takes(w, "saving", worker[w].of, worker[w].run, worker[w].left)
          \/ Takes(w, "idle", None, 0, <<>>) /\ inFlight' = inFlight \ {worker[w].of}
      BY <1>1, <1>9, FinishTakes
    <2>3. PoolInv'
      <3>1. CASE /\ worker[w].left # <<>> /\ UNCHANGED inFlight
                 /\ Takes(w, "saving", worker[w].of, worker[w].run, worker[w].left)
        BY <1>1, <2>1, <3>1, GoOnPool
      <3>2. CASE Takes(w, "idle", None, 0, <<>>) /\ inFlight' = inFlight \ {worker[w].of}
        BY <1>1, <2>1, <3>2, ReturnPool
      <3> QED
        BY <2>2, <3>1, <3>2
    <2>4. GenerationInv'
      <3>1. CASE Takes(w, "idle", None, 0, <<>>)
        BY <1>1, <1>2, <2>1, <3>1, GenerationGoesOn
      <3>2. CASE worker[w].left # <<>> /\ Takes(w, "saving", worker[w].of, worker[w].run, worker[w].left)
        <4>1. worker[w].stage = "done"
          BY <1>2, <2>1, <3>2 DEF Placed
        <4> QED
          BY <1>1, <1>2, <2>1, <3>2, <4>1, GenerationGoesOn
      <3> QED
        BY <2>2, <3>1, <3>2
    <2>5. Shape' /\ EndInv'
      BY <1>1, <1>2, <1>9, FinishTyped, FinishEnd
    <2> QED
      BY <1>4, <2>3, <2>4, <2>5 DEF IInv
  <1>10. CASE SaveCandidate(w)
    <2>1. UNCHANGED jobs /\ ~At(w, "idle")
      BY <1>10 DEF SaveCandidate, At
    <2>2. \/ /\ UNCHANGED inFlight /\ Tail(worker[w].left) # <<>>
             /\ Takes(w, "saving", worker[w].of, worker[w].run, Tail(worker[w].left))
          \/ Takes(w, "idle", None, 0, <<>>) /\ inFlight' = inFlight \ {worker[w].of}
      BY <1>1, <1>2, <1>10, SaveTakes
    <2>3. PoolInv'
      <3>1. CASE /\ Tail(worker[w].left) # <<>> /\ UNCHANGED inFlight
                 /\ Takes(w, "saving", worker[w].of, worker[w].run, Tail(worker[w].left))
        <4>1. PICK s, rest : s = "saving" /\ rest = Tail(worker[w].left)
          OBVIOUS
        <4>2. /\ Takes(w, s, worker[w].of, worker[w].run, rest) /\ UNCHANGED jobs /\ UNCHANGED inFlight
              /\ s # "idle" /\ (s \notin {"done", "saving"} => rest = <<>>)
              /\ (s = "saving" => rest # <<>>)
          BY <2>1, <3>1, <4>1
        <4> QED
          BY <1>1, <2>1, <4>2, GoOnPool
      <3>2. CASE Takes(w, "idle", None, 0, <<>>) /\ inFlight' = inFlight \ {worker[w].of}
        BY <1>1, <2>1, <3>2, ReturnPool
      <3> QED
        BY <2>2, <3>1, <3>2
    <2> QED
      BY <1>1, <1>2, <1>4, <1>10, <2>3, SaveCandidateTyped, SaveGeneration, SaveEnd DEF IInv
  <1> QED
    BY <1>5, <1>6, <1>7, <1>8, <1>9, <1>10 DEF RunJob

\* A step of a click.
LEMMA OpenPullRequestIInv ==
  ASSUME IInv, NEW q \in Requests, OpenPullRequest(q)
  PROVE  IInv'
  <1>1. Shape /\ PoolInv /\ GenerationInv /\ EndInv /\ PullInv /\ DecisionInv /\ Publishing(q)
    BY DEF IInv, PullInv
  <1>2. /\ QuietPool /\ UNCHANGED <<decision, index>>
        /\ FailuresKept /\ LossesKept
    BY DEF OpenPullRequest, Click, CreateBranch, CreatePull, MarkOpened, outside, FailuresKept, LossesKept
  <1>3. RowsKept
    BY <1>1, SameRows, MarkOpenedRows DEF OpenPullRequest, Click, CreateBranch, CreatePull
  <1>4. Shape' /\ PoolInv' /\ GenerationInv' /\ EndInv'
    BY <1>1, <1>2, <1>3, OpenPullRequestTyped, PoolQuiet
  <1>5. NoneDecides
    <2>1. request[q].stage \in {"waiting", "publishing", "branched", "opened"}
      BY DEF OpenPullRequest, Click, CreateBranch, CreatePull, MarkOpened, Now
    <2>2. \E s \in {"publishing", "branched", "opened", "answered"} :
            \E id, of, replaced : Gives(q, s, id, of, replaced)
      BY <1>1, ClickGives, Advances, Closes
        DEF OpenPullRequest, Click, CreateBranch, CreatePull, MarkOpened, Replies
    <2> QED
      BY <2>1, <2>2 DEF NoneDecides, Gives, Decided
  <1>6. DecisionInv'
    BY <1>1, <1>2, <1>5, DecisionKept
  <1>7. PullInv'
    <2>1. CASE Click(q)
      <3>1. /\ Now(q, "waiting") /\ UNCHANGED <<branch, pull, solution, lost>>
        BY <2>1 DEF Click, outside
      <3>2. NoneOpens
        <4>1. \A row \in solution : row.id \in Ids
          BY <1>1 DEF Shape, Rows
        <4> QED
          BY <1>1, <2>1, <3>1, <4>1, ClickGives DEF NoneOpens, Gives, Now, Opening, PullInv, Publishing
      <3> QED
        BY <1>1, <3>1, <3>2, PullKept, PullsUnchanged DEF UrlsKept
    <2> QED
      BY <1>1, <2>1, CreateBranchPull, CreatePullPull, MarkOpenedPull DEF OpenPullRequest
  <1> QED
    BY <1>4, <1>6, <1>7 DEF IInv

\* A step of a decision.
LEMMA RecordDecisionIInv ==
  ASSUME IInv, NEW q \in Requests, RecordDecision(q)
  PROVE  IInv'
  <1>1. Shape /\ PoolInv /\ GenerationInv /\ EndInv /\ PullInv /\ DecisionInv /\ Replaces(q)
    BY DEF IInv, DecisionInv
  <1>2. QuietPool /\ UNCHANGED <<branch, pull, lost>> /\ FailuresKept /\ LossesKept /\ UrlsKept
    BY DEF RecordDecision, Decide, SaveDecision, indexDecision, Forget, Add, MarkIndexed, outside,
           FailuresKept, LossesKept, UrlsKept
  <1>3. solution' = {Judged(row, q) : row \in solution} \/ UNCHANGED solution
    BY DEF RecordDecision, Decide, SaveDecision, Decides, indexDecision, Forget, Add, MarkIndexed
  <1>4. RowsKept /\ \A id \in Ids : HasPull(id)' <=> HasPull(id)
    BY <1>1, <1>3, JudgedRows
  <1>5. Shape' /\ PoolInv' /\ GenerationInv' /\ EndInv'
    BY <1>1, <1>2, <1>4, RecordDecisionTyped, PoolQuiet
  <1>6. PullInv'
    <2>1. request[q].stage \in {"waiting", "deciding", "forgetting", "adding", "indexed"}
      BY DEF RecordDecision, Decide, SaveDecision, indexDecision, Forget, Add, MarkIndexed, Now
    <2>2. \E s \in {"deciding", "forgetting", "adding", "indexed", "answered"} :
            \E id, of, replaced : Gives(q, s, id, of, replaced)
      <3>1. SaveDecision(q) => request[q].of \in Investigations
        BY <1>1 DEF SaveDecision, Replaces, Now
      <3> QED
        BY <1>1, <3>1, DecideGives, SaveDecisionGives, ForgetGives, Advances, Closes
          DEF RecordDecision, indexDecision, Add, MarkIndexed, Replies
    <2>3. NoneOpens
      BY <1>1, <2>1, <2>2 DEF NoneOpens, Gives, Opening, PullInv, Publishing, Now
    <2> QED
      BY <1>1, <1>2, <1>4, <2>3, PullKept
  <1>7. DecisionInv'
    <2>1. CASE Decide(q)
      <3>1. Now(q, "waiting") /\ UNCHANGED <<decision, index>>
        BY <2>1 DEF Decide, outside
      <3>2. NoneDecides
        BY <1>1, <2>1, <3>1, DecideGives DEF NoneDecides, Gives, Now, Decided
      <3> QED
        BY <1>1, <3>1, <3>2, DecisionKept
    <2> QED
      BY <1>1, <2>1, SaveDecisionInv, ForgetInv, AddInv, MarkIndexedInv DEF RecordDecision, indexDecision
  <1> QED
    BY <1>5, <1>6, <1>7 DEF IInv

\* The process dies: the pool is empty and no handler is left.
LEMMA CrashIInv ==
  ASSUME IInv, Crash
  PROVE  IInv'
  <1>1. Shape /\ DecisionInv /\ PullInv
    BY DEF IInv
  <1>2. /\ jobs' = <<>> /\ \A w \in Workers : worker'[w] = Idle
        /\ UNCHANGED <<solution, decision, index>> /\ FailuresKept /\ ~up'
    BY DEF Crash, tables, outside, FailuresKept
  <1>3. PoolInv'
    <2>1. \A w \in Workers : Placed(w)'
      BY <1>2, IdleIs DEF Placed, At
    <2>2. DOMAIN jobs' = {}
      BY <1>2
    <2>3. OncePerInvestigation'
      BY <1>2, <2>2, IdleIs DEF OncePerInvestigation, At
    <2> QED
      BY <2>1, <2>3 DEF PoolInv
  <1>4. GenerationInv'
    <2>1. \A w \in Workers : OwnGeneration(w)'
      BY <1>2, IdleIs DEF OwnGeneration
    <2>2. OneGeneration'
      BY <1>2 DEF IInv, GenerationInv, OneGeneration, FailuresKept, Listed
    <2> QED
      BY <2>1, <2>2 DEF GenerationInv
  <1>5. EndInv'
    BY <1>2, IdleIs DEF EndInv, EndWritten, At, RunningHasOwner
  <1>6. NoneDecides
    BY <1>1, CrashedHandlers DEF NoneDecides, Decided
  <1> QED
    BY <1>1, <1>2, <1>3, <1>4, <1>5, <1>6, CrashTyped, CrashPull, DecisionKept DEF IInv

\* The process starts again over its tables.
LEMMA BootIInv ==
  ASSUME IInv, Boot
  PROVE  IInv'
  <1>1. Shape /\ PoolInv /\ GenerationInv /\ EndInv /\ PullInv /\ DecisionInv
    BY DEF IInv
  <1>2. /\ UNCHANGED <<jobs, inFlight, worker, solution, decision, branch, pull, index, request>>
        /\ FailuresKept /\ UrlsKept
    BY DEF Boot, pool, outside, FailuresKept, UrlsKept
  <1>3. PoolInv'
    BY <1>1, <1>2 DEF PoolInv, Placed, OncePerInvestigation, At
  <1>4. GenerationInv'
    BY <1>1, <1>2, GenerationKept, SameRows DEF PoolInv
  <1>5. PullInv' /\ DecisionInv'
    BY <1>1, <1>2, PullsUnchanged, PoolBeside
  <1> QED
    BY <1>1, <1>3, <1>4, <1>5, BootTyped, BootEnd DEF IInv

\* A step that changes nothing.
LEMMA StutterIInv ==
  ASSUME IInv, UNCHANGED vars
  PROVE  IInv'
  <1>1. Shape /\ PoolInv /\ GenerationInv /\ EndInv /\ PullInv /\ DecisionInv
    BY DEF IInv
  <1>2. /\ UNCHANGED <<verdict, jobs, inFlight, worker, runs, outcome, solution, decision, branch, pull,
                       index, request, up, lost, faults>>
        /\ FailuresKept /\ UrlsKept /\ LossesKept
    BY DEF vars, pool, tables, outside, FailuresKept, UrlsKept, LossesKept
  <1>3. Shape'
    BY <1>1, <1>2 DEF Shape
  <1>4. PoolInv'
    BY <1>1, <1>2 DEF PoolInv, Placed, OncePerInvestigation, At
  <1>5. GenerationInv' /\ EndInv'
    BY <1>1, <1>2, GenerationKept, EndKept, SameRows DEF PoolInv
  <1>6. PullInv' /\ DecisionInv'
    BY <1>1, <1>2, PullsUnchanged, PoolBeside
  <1> QED
    BY <1>3, <1>4, <1>5, <1>6 DEF IInv

-----------------------------------------------------------------------------
(* What the output of a script says of its stages.                         *)

Lines == [kind : {"begin", "end", "text"}, stage : Stages \cup {"none"}, code : {Unmarked, 0, 1}]

\* A line tells that the stage came to its end with this exit.
Tells(line, stage, exit) == line.kind = "end" /\ line.stage = stage /\ splitEnd(line) = exit

\* One line of the output as it is read.
ParseLine(p, line) ==
  CASE line.kind = "begin" -> [p EXCEPT !.current = line.stage]
    [] line.kind = "end" ->
         [current  |-> "none",
          sections |-> IF line.stage # p.current THEN p.sections
                       ELSE [p.sections EXCEPT ![line.stage] = [ran |-> TRUE, exit |-> splitEnd(line)]]]
    [] OTHER -> p
NothingRead == [current |-> "none", sections |-> [s \in Stages |-> Skipped]]
ParseFold(output) ==
  CHOOSE it : it = [s \in SUBSET DOMAIN output |->
                     IF s = {} THEN NothingRead ELSE ParseLine(it[s \ {Max(s)}], output[Max(s)])]

\* What has been read of lines among these: a section that ran was ended by one.
Readings(lines) ==
  {p \in [current : Stages \cup {"none"}, sections : [Stages -> [ran : BOOLEAN, exit : {0, 1}]]] :
     \A s \in Stages : p.sections[s].ran => \E line \in lines : Tells(line, s, p.sections[s].exit)}

\* A further line keeps that.
LEMMA LineRead ==
  ASSUME NEW lines \in SUBSET Lines, NEW p \in Readings(lines), NEW line \in lines
  PROVE  ParseLine(p, line) \in Readings(lines)
<1> DEFINE exit == splitEnd(line)
<1>1. line \in Lines /\ exit \in {0, 1}
  BY DEF Lines, splitEnd, Unmarked
<1>2. /\ p \in [current : Stages \cup {"none"}, sections : [Stages -> [ran : BOOLEAN, exit : {0, 1}]]]
      /\ \A s \in Stages : p.sections[s].ran => \E l \in lines : Tells(l, s, p.sections[s].exit)
  BY DEF Readings
<1>3. CASE line.kind = "begin"
  <2>1. PICK q : q = [p EXCEPT !.current = line.stage]
    OBVIOUS
  <2>2. /\ q \in [current : Stages \cup {"none"}, sections : [Stages -> [ran : BOOLEAN, exit : {0, 1}]]]
        /\ q.sections = p.sections
    BY <1>1, <1>2, <2>1 DEF Lines
  <2>3. ParseLine(p, line) = q
    BY <1>3, <2>1 DEF ParseLine
  <2> QED
    BY <1>2, <2>2, <2>3 DEF Readings
<1>4. CASE line.kind = "end"
  <2>1. PICK sections : sections = IF line.stage # p.current THEN p.sections
                                   ELSE [p.sections EXCEPT ![line.stage] = [ran |-> TRUE, exit |-> exit]]
    OBVIOUS
  <2>2. ParseLine(p, line) = [current |-> "none", sections |-> sections]
    BY <1>4, <2>1 DEF ParseLine
  <2>3. sections \in [Stages -> [ran : BOOLEAN, exit : {0, 1}]]
    BY <1>1, <1>2, <2>1
  <2>4. ASSUME NEW s \in Stages, sections[s].ran
        PROVE  \E l \in lines : Tells(l, s, sections[s].exit)
    <3>1. CASE sections[s] = p.sections[s]
      BY <1>2, <2>4, <3>1
    <3>2. CASE s = line.stage /\ sections[s] = [ran |-> TRUE, exit |-> exit]
      BY <1>4, <3>2 DEF Tells
    <3> QED
      BY <1>2, <2>1, <3>1, <3>2
  <2> QED
    BY <2>2, <2>3, <2>4 DEF Readings
<1>5. CASE line.kind \notin {"begin", "end"}
  BY <1>5 DEF ParseLine
<1> QED
  BY <1>3, <1>4, <1>5

\* A section read as run was ended by a line of the output.
LEMMA RanWasEnded ==
  ASSUME NEW lines \in SUBSET Lines, NEW output \in Seq(lines)
  PROVE  \A s \in Stages : ParseSections(output)[s].ran =>
           \E line \in lines : Tells(line, s, ParseSections(output)[s].exit)
<1> DEFINE n == Len(output)
           A == Readings(lines)
           Solves(it) == it = [s \in SUBSET DOMAIN output |->
                                IF s = {} THEN NothingRead ELSE ParseLine(it[s \ {Max(s)}], output[Max(s)])]
<1>1. n \in Nat /\ DOMAIN output = 1..n /\ \A i \in 1..n : output[i] \in lines
  BY LenProperties, ElementOfSeq
<1>2. NothingRead \in A
  <2>1. /\ NothingRead \in [current : Stages \cup {"none"}, sections : [Stages -> [ran : BOOLEAN, exit : {0, 1}]]]
        /\ \A s \in Stages : ~NothingRead.sections[s].ran
    BY DEF NothingRead, Skipped
  <2> QED
    BY <2>1 DEF Readings
<1>3. \A p \in A, i \in 1..n : ParseLine(p, output[i]) \in A
  BY <1>1, LineRead
<1> HIDE DEF n, A
<1>4. PICK F : F = [pi \in A \X (1..n) |-> ParseLine(pi[1], output[pi[2]])]
  OBVIOUS
<1>5. F \in [A \X (1..n) -> A] /\ \A p \in A, i \in 1..n : F[p, i] = ParseLine(p, output[i])
  BY <1>3, <1>4
<1>6. PICK it \in [SUBSET (1..n) -> A] : IsFold(it, NothingRead, F, n)
  BY <1>1, <1>2, <1>5, FoldExists
<1>7. \A s \in SUBSET (1..n) : s # {} => Max(s) \in 1..n /\ s \ {Max(s)} \in SUBSET (1..n)
  BY <1>1, MaxOfPositions
<1>8. Solves(it)
  <2>1. ASSUME NEW s \in SUBSET (1..n), s # {}
        PROVE  F[it[s \ {Max(s)}], Max(s)] = ParseLine(it[s \ {Max(s)}], output[Max(s)])
    <3>1. Max(s) \in 1..n /\ it[s \ {Max(s)}] \in A
      BY <1>7, <2>1
    <3> QED
      BY <1>5, <3>1
  <2> QED
    BY <1>1, <1>6, <2>1 DEF IsFold
<1>9. PICK g : Solves(g) /\ g = ParseFold(output)
  <2>1. ParseFold(output) = CHOOSE x : Solves(x)
    BY DEF ParseFold
  <2> HIDE DEF Solves
  <2> QED
    BY <1>8, <2>1
<1>10. ParseSections(output) = g[1..n].sections
  <2>1. ParseSections(output) = ParseFold(output)[DOMAIN output].sections
    BY DEF ParseSections, FoldLeft, MapThenFoldSet, ParseLine, ParseFold, NothingRead
  <2> QED
    BY <1>1, <1>9, <2>1
<1>11. g[1..n] \in A
  <2>1. g[{}] \in A
    BY <1>2, <1>9
  <2>2. ASSUME NEW s \in SUBSET (1..n), s # {}, g[s \ {Max(s)}] \in A PROVE g[s] \in A
    BY <1>1, <1>3, <1>7, <1>9, <2>2
  <2> QED
    BY <1>1, <2>1, <2>2, FoldStays
<1> QED
  BY <1>10, <1>11 DEF A, Readings

\* How a container runs: stages that ended, no more than its script has, and fewer
\* when it did not finish.
Outcomes == [exit : {0, 1}, newline : BOOLEAN]
Runs(script) ==
  {ex \in [stages : Seq(Outcomes), ending : {"finished", "killed", "killed in marker", "aborted"}] :
     Len(ex.stages) <= Len(script) /\ (ex.ending # "finished" => Len(ex.stages) < Len(script))}

\* The stages a container may have ended, by their number.
EndedStages(script) ==
  CHOOSE f : f = [n \in 0..Len(script) |->
                   IF n = 0 THEN {<<>>} ELSE {Append(s, e) : s \in f[n - 1], e \in Ended(script[n])}]

\* Every execution is such a run.
LEMMA ExecutionsRun ==
  ASSUME NEW script \in Seq(Stages)
  PROVE  Executions(script) \subseteq Runs(script)
<1> DEFINE m == Len(script)
           A == SUBSET Seq(Outcomes)
           next(S, n) == {Append(s, e) : s \in S, e \in Ended(script[n])}
           Solves(f) == f = [n \in 0..m |-> IF n = 0 THEN {<<>>} ELSE next(f[n - 1], n)]
<1>1. m \in Nat
  BY LenProperties
<1>2. \A stage : Ended(stage) \subseteq Outcomes
  BY DEF Ended, Outcomes
<1>3. \A S \in A, n \in 1..m : next(S, n) \in A
  BY <1>2, AppendProperties
<1>4. {<<>>} \in A
  BY EmptySeq
<1> HIDE DEF m, A, next
<1>5. PICK F : F = [Sn \in A \X (1..m) |-> next(Sn[1], Sn[2])]
  OBVIOUS
<1>6. F \in [A \X (1..m) -> A] /\ \A S \in A, n \in 1..m : F[S, n] = next(S, n)
  BY <1>3, <1>5
<1>7. PICK f \in [0..m -> A] : IsRecursion(f, {<<>>}, F, m)
  BY <1>1, <1>4, <1>6, RecursionExists
<1>8. Solves(f)
  <2>1. ASSUME NEW n \in 0..m, n # 0 PROVE F[f[n - 1], n] = next(f[n - 1], n)
    <3>1. n \in 1..m /\ n - 1 \in 0..m
      BY <1>1, <2>1
    <3> QED
      BY <1>6, <1>7, <3>1
  <2> QED
    BY <1>7, <2>1 DEF IsRecursion
<1>9. PICK g : Solves(g) /\ g = EndedStages(script)
  <2>1. EndedStages(script) = CHOOSE x : Solves(x)
    BY DEF EndedStages, next, m
  <2> HIDE DEF Solves
  <2> QED
    BY <1>8, <2>1
<1> DEFINE Of(n) == {s \in Seq(Outcomes) : Len(s) = n}
<1>10. PICK h : h = [n \in 0..m |-> g[n] \subseteq Of(n)]
  OBVIOUS
<1>11. \A n \in 0..m : h[n] \in {TRUE}
  <2>1. h[0] \in {TRUE}
    <3>1. 0 \in 0..m
      BY <1>1
    <3>2. g[0] = {<<>>}
      BY <1>9, <3>1
    <3> QED
      BY <1>10, <3>1, <3>2, EmptySeq
  <2>2. ASSUME NEW n \in 1..m, h[n - 1] \in {TRUE} PROVE h[n] \in {TRUE}
    <3>1. n \in 0..m /\ n - 1 \in 0..m /\ n # 0 /\ (n - 1) + 1 = n
      BY <1>1
    <3>2. g[n] = next(g[n - 1], n)
      BY <1>9, <3>1
    <3>3. g[n - 1] \subseteq Of(n - 1)
      BY <1>10, <2>2, <3>1
    <3>4. ASSUME NEW s \in Of(n - 1), NEW e \in Outcomes PROVE Append(s, e) \in Of(n)
      BY <3>1, AppendProperties
    <3>5. ASSUME NEW t \in g[n] PROVE t \in Of(n)
      <4>1. PICK s \in g[n - 1], e \in Ended(script[n]) : t = Append(s, e)
        BY <3>2 DEF next
      <4>2. s \in Of(n - 1) /\ e \in Outcomes
        BY <1>2, <3>3
      <4> QED
        BY <3>4, <4>1, <4>2
    <3>6. g[n] \subseteq Of(n)
      BY <3>5
    <3> QED
      BY <1>10, <3>1, <3>6
  <2> QED
    BY <1>1, <2>1, <2>2, StaysIn
<1>12. \A n \in 0..m : g[n] \subseteq Of(n)
  BY <1>10, <1>11
<1> SUFFICES ASSUME NEW ex \in Executions(script) PROVE ex \in Runs(script)
  OBVIOUS
<1>13. Executions(script) =
         UNION {{[stages |-> s, ending |-> x] : s \in EndedStages(script)[n], x \in Endings(script, n)}
                : n \in 0..Len(script)}
  BY DEF Executions, EndedStages
<1>14. PICK n \in 0..m :
         \E s \in g[n], x \in Endings(script, n) : ex = [stages |-> s, ending |-> x]
  BY <1>9, <1>13 DEF m
<1>15. PICK s \in g[n], x \in Endings(script, n) : ex = [stages |-> s, ending |-> x]
  BY <1>14
<1>16. s \in Seq(Outcomes) /\ Len(s) = n /\ n \in Nat /\ n <= m
  BY <1>1, <1>12
<1>17. x \in {"finished", "killed", "killed in marker", "aborted"} /\ (x # "finished" => n # m)
  BY DEF Endings, m
<1>18. ex.stages = s /\ ex.ending = x /\ ex = [stages |-> s, ending |-> x]
  BY <1>15
<1>19. ex.ending # "finished" => Len(ex.stages) < Len(script)
  <2>1. n # m => n < m
    BY <1>1, <1>16
  <2>2. Len(ex.stages) = n /\ m = Len(script)
    BY <1>16, <1>18 DEF m
  <2> QED
    BY <1>17, <1>18, <2>1, <2>2
<1> QED
  BY <1>16, <1>17, <1>18, <1>19 DEF Runs, m

\* The lines a run may print: an end marker tells the exit of a stage that ended.
StageLines(script, ex) ==
  {line \in Lines : line.kind = "end" =>
     \E k \in DOMAIN ex.stages : line = Line("end", script[k], ex.stages[k].exit)}

\* What one stage prints.
LEMMA PrintedLines ==
  ASSUME NEW script \in Seq(Stages), NEW ex \in Runs(script), NEW k \in DOMAIN ex.stages
  PROVE  Printed(script[k], ex.stages[k]) \in Seq(StageLines(script, ex))
<1>0. ex.stages \in Seq(Outcomes) /\ Len(ex.stages) <= Len(script)
  BY DEF Runs
<1>1. k \in 1..Len(script) /\ ex.stages[k] \in Outcomes
  <2>1. Len(script) \in Nat /\ Len(ex.stages) \in Nat /\ k \in 1..Len(ex.stages)
    BY <1>0, LenProperties
  <2>2. ex.stages[k] \in Outcomes
    BY <1>0, <2>1, ElementOfSeq
  <2> QED
    BY <1>0, <2>1, <2>2
<1>2. script[k] \in Stages /\ ex.stages[k].exit \in {0, 1}
  BY <1>1, ElementOfSeq DEF Outcomes
<1>3. /\ Line("begin", script[k], 0) \in StageLines(script, ex) /\ Text \in StageLines(script, ex)
      /\ Line("end", script[k], ex.stages[k].exit) \in StageLines(script, ex)
  BY <1>2 DEF StageLines, Lines, Line, Text
<1>4. \A a, b \in StageLines(script, ex) :
        <<a>> \in Seq(StageLines(script, ex)) /\ <<a, b>> \in Seq(StageLines(script, ex))
  OBVIOUS
<1> QED
  BY <1>3, <1>4, ConcatProperties DEF Printed

\* The stages a run ended, as their output is folded.
Places(ex) == [k \in 1..Len(ex.stages) |-> k]
OutputFold(script, ex) ==
  CHOOSE it : it = [s \in SUBSET DOMAIN Places(ex) |->
                     IF s = {} THEN <<>>
                     ELSE it[s \ {Max(s)}]
                            \o Printed(script[Places(ex)[Max(s)]], ex.stages[Places(ex)[Max(s)]])]

\* What ended stages print is lines of theirs.
LEMMA EndedOutput ==
  ASSUME NEW script \in Seq(Stages), NEW ex \in Runs(script)
  PROVE  OutputFold(script, ex)[1..Len(ex.stages)] \in Seq(StageLines(script, ex))
<1> DEFINE n == Len(ex.stages)
           A == Seq(StageLines(script, ex))
           step(out, k) == out \o Printed(script[k], ex.stages[k])
           Solves(it) == it = [s \in SUBSET (1..n) |-> IF s = {} THEN <<>> ELSE step(it[s \ {Max(s)}], Max(s))]
<1>1. n \in Nat /\ DOMAIN ex.stages = 1..n /\ DOMAIN Places(ex) = 1..n /\ \A k \in 1..n : Places(ex)[k] = k
  <2>1. ex.stages \in Seq(Outcomes)
    BY DEF Runs
  <2> QED
    BY <2>1, LenProperties DEF Places
<1>2. <<>> \in A /\ \A out \in A, k \in 1..n : step(out, k) \in A
  BY <1>1, PrintedLines, ConcatProperties, EmptySeq
<1> HIDE DEF n, A, step
<1>3. PICK F : F = [ok \in A \X (1..n) |-> step(ok[1], ok[2])]
  OBVIOUS
<1>4. F \in [A \X (1..n) -> A] /\ \A out \in A, k \in 1..n : F[out, k] = step(out, k)
  BY <1>2, <1>3
<1>5. PICK it \in [SUBSET (1..n) -> A] : IsFold(it, <<>>, F, n)
  BY <1>1, <1>2, <1>4, FoldExists
<1>6. \A s \in SUBSET (1..n) : s # {} => Max(s) \in 1..n /\ s \ {Max(s)} \in SUBSET (1..n)
  BY <1>1, MaxOfPositions
<1>7. Solves(it)
  <2>1. ASSUME NEW s \in SUBSET (1..n), s # {}
        PROVE  F[it[s \ {Max(s)}], Max(s)] = step(it[s \ {Max(s)}], Max(s))
    <3>1. Max(s) \in 1..n /\ it[s \ {Max(s)}] \in A
      BY <1>6, <2>1
    <3> QED
      BY <1>4, <3>1
  <2> QED
    BY <1>5, <2>1 DEF IsFold
<1>8. PICK g : Solves(g) /\ g = OutputFold(script, ex)
  <2> DEFINE Folds(x) == x = [s \in SUBSET DOMAIN Places(ex) |->
                              IF s = {} THEN <<>>
                              ELSE x[s \ {Max(s)}]
                                     \o Printed(script[Places(ex)[Max(s)]], ex.stages[Places(ex)[Max(s)]])]
  <2>1. \A s \in SUBSET (1..n) : s # {} => Places(ex)[Max(s)] = Max(s)
    BY <1>1, <1>6
  <2>2. \A x : Folds(x) <=> Solves(x)
    <3> SUFFICES ASSUME NEW x PROVE Folds(x) <=> Solves(x)
      OBVIOUS
    <3>1. \A s \in SUBSET (1..n) :
            (IF s = {} THEN <<>> ELSE x[s \ {Max(s)}] \o Printed(script[Places(ex)[Max(s)]], ex.stages[Places(ex)[Max(s)]]))
              = (IF s = {} THEN <<>> ELSE step(x[s \ {Max(s)}], Max(s)))
      BY <2>1 DEF step
    <3> QED
      BY <1>1, <3>1
  <2>3. OutputFold(script, ex) = CHOOSE x : Folds(x)
    BY DEF OutputFold
  <2> HIDE DEF Folds, Solves
  <2>4. Folds(it)
    BY <1>7, <2>2
  <2>5. Folds(OutputFold(script, ex))
    BY <2>3, <2>4
  <2> QED
    BY <2>2, <2>5
<1>9. g[1..n] \in A
  <2>1. g[{}] \in A
    BY <1>2, <1>8
  <2>2. ASSUME NEW s \in SUBSET (1..n), s # {}, g[s \ {Max(s)}] \in A PROVE g[s] \in A
    BY <1>2, <1>6, <1>8, <2>2
  <2> QED
    BY <1>1, <2>1, <2>2, FoldStays
<1> QED
  BY <1>8, <1>9 DEF n, A

\* The container was killed inside an end marker.
KilledInMarker(ex) == ex.ending = "killed in marker"

\* Otherwise all it prints is lines of the stages it ended.
LEMMA OutputLines ==
  ASSUME NEW script \in Seq(Stages), NEW ex \in Runs(script), ~KilledInMarker(ex)
  PROVE  Output(script, ex) \in Seq(StageLines(script, ex))
<1> DEFINE n == Len(ex.stages)
           first == Line("begin", script[n + 1], 0)
           marker == IF KilledInMarker(ex) THEN <<Line("end", script[n + 1], Unmarked)>> ELSE <<>>
           rest == IF ex.ending = "finished" THEN <<>> ELSE <<first, Text>> \o marker
<1>1. Output(script, ex) = OutputFold(script, ex)[1..n] \o rest
  <2>1. Output(script, ex) = OutputFold(script, ex)[DOMAIN Places(ex)] \o rest
    BY DEF Output, FoldLeft, MapThenFoldSet, OutputFold, Places, KilledInMarker
  <2>2. DOMAIN Places(ex) = 1..n
    BY DEF Places
  <2> QED
    BY <2>1, <2>2
<1>2. rest = <<>> \/ (ex.ending # "finished" /\ rest = <<first, Text>>)
  <2>1. marker = <<>>
    OBVIOUS
  <2>2. Text \in {Text} \cup {first} /\ first \in {Text} \cup {first}
    OBVIOUS
  <2>3. <<first, Text>> \in Seq({Text} \cup {first})
    BY <2>2
  <2>4. <<first, Text>> \o <<>> = <<first, Text>>
    BY <2>3, ConcatEmptySeq
  <2> QED
    BY <2>1, <2>4
<1>3. ASSUME ex.ending # "finished" PROVE <<first, Text>> \in Seq(StageLines(script, ex))
  <2>1. ex.stages \in Seq(Outcomes) /\ n < Len(script)
    BY <1>3 DEF Runs
  <2>2. n \in Nat /\ Len(script) \in Nat
    BY <2>1, LenProperties
  <2>3. script[n + 1] \in Stages
    BY <2>1, <2>2, ElementOfSeq
  <2>4. first \in StageLines(script, ex) /\ Text \in StageLines(script, ex)
    BY <2>3 DEF StageLines, Lines, Line, Text
  <2> QED
    BY <2>4
<1>4. rest \in Seq(StageLines(script, ex))
  BY <1>2, <1>3, EmptySeq
<1> HIDE DEF rest
<1> QED
  BY <1>1, <1>4, EndedOutput, ConcatProperties

\* So what is read of such a run happened in it: a section that ran is a stage that
\* ended, passed exactly when the stage succeeded.
LEMMA ReadAsHappened ==
  ASSUME NEW script \in Seq(Stages), NEW ex \in Executions(script), ~KilledInMarker(ex),
         NEW s \in Stages, ParseSections(Output(script, ex))[s].ran
  PROVE  Really(script, ex, s, ParseSections(Output(script, ex))[s].exit)
<1>1. ex \in Runs(script) /\ ex.stages \in Seq(Outcomes)
  BY ExecutionsRun DEF Runs
<1>2. StageLines(script, ex) \in SUBSET Lines
  BY DEF StageLines
<1>3. Output(script, ex) \in Seq(StageLines(script, ex))
  BY <1>1, OutputLines
<1> DEFINE exit == ParseSections(Output(script, ex))[s].exit
<1>4. PICK line \in StageLines(script, ex) : Tells(line, s, exit)
  BY <1>2, <1>3, RanWasEnded
<1> HIDE DEF exit
<1>5. PICK k \in DOMAIN ex.stages : line = Line("end", script[k], ex.stages[k].exit)
  BY <1>4 DEF StageLines, Tells
<1>6. ex.stages[k].exit \in {0, 1}
  <2>1. ex.stages[k] \in Outcomes
    BY <1>1, LenProperties, ElementOfSeq
  <2> QED
    BY <2>1 DEF Outcomes
<1>7. script[k] = s /\ ex.stages[k].exit = exit
  <2>1. line.stage = script[k] /\ line.code = ex.stages[k].exit
    BY <1>5 DEF Line
  <2>2. \A code \in {0, 1} : code # Unmarked
    BY DEF Unmarked
  <2>3. splitEnd(line) = line.code
    BY <1>6, <2>1, <2>2 DEF splitEnd
  <2> QED
    BY <1>4, <2>1, <2>3 DEF Tells
<1>8. Really(script, ex, s, exit)
  BY <1>5, <1>7 DEF Really
<1> QED
  BY <1>8 DEF exit

-----------------------------------------------------------------------------
(* What a candidate claims.                                                *)

\* The build script of a repository is made of stages.
LEMMA BuildStages ==
  ASSUME NEW repo \in Repositories
  PROVE  BuildScript(repo) \in Seq(Stages)
<1>1. \A declared \in BOOLEAN, stage \in Stages : stageIf(declared, stage) \in Seq(Stages)
  BY DEF stageIf
<1>2. /\ stageIf(repo.setup, "setup") \in Seq(Stages)
      /\ stageIf(repo.build, "build") \in Seq(Stages)
      /\ stageIf(repo.test, "test") \in Seq(Stages)
  BY <1>1 DEF Repositories, Stages
<1>3. <<"clone", "harness", "diff">> \in Seq(Stages)
  BY DEF Stages
<1> QED
  BY <1>2, <1>3, ConcatProperties DEF BuildScript

\* What is claimed of one run of the script, and whether it happened.
Happened(script, ex, v) ==
  /\ v.applied => Really(script, ex, "harness", 0)
  /\ v.buildRan => Really(script, ex, "build", IF v.built THEN 0 ELSE 1)
  /\ v.testRan => Really(script, ex, "test", IF v.tested THEN 0 ELSE 1)
  /\ v.built => v.buildRan
  /\ v.tested => v.testRan
Claimed(script, ex, sections, timedOut) ==
  LET v == verificationFrom(sections, timedOut)
  IN [cloned |-> Passed(sections["clone"]), v |-> v, diffed |-> sections["diff"].ran,
      honest |-> KilledInMarker(ex) \/ Happened(script, ex, v)]

\* A verification claims nothing that did not happen, beyond a marker cut short.
LEMMA VerificationsHonest ==
  ASSUME NEW repo \in Repositories, NEW run \in Verifications(repo)
  PROVE  run.honest = TRUE
<1> DEFINE script == BuildScript(repo)
           read(ex) == ParseSections(Output(script, ex))
<1>1. PICK ex \in Executions(script), timedOut \in BOOLEAN :
        run = Claimed(script, ex, read(ex), timedOut)
  <2>1. Verifications(repo) =
          UNION {{Claimed(script, ex, read(ex), timedOut) :
                    timedOut \in IF ex.ending \in {"finished", "aborted"} THEN {FALSE} ELSE BOOLEAN}
                 : ex \in Executions(script)}
    BY DEF Verifications, Claimed, Happened, KilledInMarker
  <2> HIDE DEF script, read
  <2> QED
    BY <2>1
<1>2. run.honest = (KilledInMarker(ex) \/ Happened(script, ex, verificationFrom(read(ex), timedOut)))
  BY <1>1 DEF Claimed
<1>3. ASSUME ~KilledInMarker(ex) PROVE Happened(script, ex, verificationFrom(read(ex), timedOut))
  <2>1. script \in Seq(Stages)
    BY BuildStages
  <2> HIDE DEF script
  <2>2. \A s \in Stages : read(ex)[s].ran => Really(script, ex, s, read(ex)[s].exit)
    BY <1>3, <2>1, ReadAsHappened
  <2> HIDE DEF read
  <2>3. \A s \in Stages : \A exit :
          /\ exit = 0 /\ Really(script, ex, s, exit) => Really(script, ex, s, 0)
          /\ exit # 0 /\ Really(script, ex, s, exit) => Really(script, ex, s, 1)
    BY DEF Really
  <2> DEFINE v == verificationFrom(read(ex), timedOut)
  <2>4. /\ v.applied <=> read(ex)["harness"].ran /\ read(ex)["harness"].exit = 0
        /\ v.buildRan = read(ex)["build"].ran
        /\ v.built <=> read(ex)["build"].ran /\ read(ex)["build"].exit = 0
        /\ v.testRan = read(ex)["test"].ran
        /\ v.tested <=> read(ex)["test"].ran /\ read(ex)["test"].exit = 0
    BY DEF verificationFrom, Passed
  <2> HIDE DEF v
  <2>5. {"harness", "build", "test"} \subseteq Stages
    BY DEF Stages
  <2>6. v.applied => Really(script, ex, "harness", 0)
    BY <2>2, <2>4, <2>5
  <2>7. v.buildRan => Really(script, ex, "build", IF v.built THEN 0 ELSE 1)
    <3> SUFFICES ASSUME v.buildRan PROVE Really(script, ex, "build", IF v.built THEN 0 ELSE 1)
      OBVIOUS
    <3>1. read(ex)["build"].ran /\ Really(script, ex, "build", read(ex)["build"].exit)
      BY <2>2, <2>4, <2>5
    <3>2. v.built => Really(script, ex, "build", 0)
      BY <2>3, <2>4, <2>5, <3>1
    <3>3. ~v.built => Really(script, ex, "build", 1)
      BY <2>3, <2>4, <2>5, <3>1
    <3> QED
      BY <3>2, <3>3
  <2>8. v.testRan => Really(script, ex, "test", IF v.tested THEN 0 ELSE 1)
    <3> SUFFICES ASSUME v.testRan PROVE Really(script, ex, "test", IF v.tested THEN 0 ELSE 1)
      OBVIOUS
    <3>1. read(ex)["test"].ran /\ Really(script, ex, "test", read(ex)["test"].exit)
      BY <2>2, <2>4, <2>5
    <3>2. v.tested => Really(script, ex, "test", 0)
      BY <2>3, <2>4, <2>5, <3>1
    <3>3. ~v.tested => Really(script, ex, "test", 1)
      BY <2>3, <2>4, <2>5, <3>1
    <3> QED
      BY <3>2, <3>3
  <2> QED
    BY <2>4, <2>6, <2>7, <2>8 DEF Happened, v
<1> QED
  BY <1>2, <1>3

\* A candidate as the table may store it: what it claims was proved of its files or,
\* when it failed, is that the build or the tests of its last ones failed; and it
\* replaces nothing the model could have been shown.
Claims ==
  [failed : BOOLEAN, usable : BOOLEAN, strength : 0..3, rejected : BOOLEAN, verified : BOOLEAN,
   honest : {TRUE}, blind : {"no", "unlisted"}]
Sound == {c \in Claims : c.verified \/ (c.failed /\ c.rejected)}
\* Only a candidate whose build or tests failed is repaired.
Attempts == {x \in [c : Sound, again : BOOLEAN] : x.again => x.c.rejected}

\* An answer whose file was shown as it is, or that is checked as unseen, replaces
\* no listed file it was not shown.
LEMMA ShownOrUnlisted ==
  ASSUME NEW a, checkWholeFiles(a, ParseSources(a.file)) \/ checkWholeFiles(a, "unseen")
  PROVE  Whole(a) \in {"no", "unlisted"}
<1>1. CASE ~(a.writes /\ a.file.exists /\ a.file.listed)
  BY <1>1 DEF Whole, Blind
<1>2. CASE a.writes /\ a.file.exists /\ a.file.listed
  <2>1. ~checkWholeFiles(a, "unseen")
    BY <1>2 DEF checkWholeFiles
  <2>2. ParseSources(a.file) # "too large" /\ ParseSources(a.file) # "unseen"
    BY <1>2, <2>1 DEF checkWholeFiles
  <2>3. ~a.file.large /\ a.file.newline
    BY <1>2, <2>2 DEF ParseSources
  <2>4. ParseSources(a.file) = "whole"
    BY <1>2, <2>3 DEF ParseSources
  <2>5. ~Blind(a)
    BY <2>4 DEF Blind
  <2> QED
    BY <2>5 DEF Whole
<1> QED
  BY <1>1, <1>2

\* The first answer is checked against its file as it is, a repair against nothing.
FirstBlind == {Whole(a) : a \in {x \in Accepted("as found") : x.writes}}
LEMMA BlindToUnlisted ==
  /\ FirstBlind \subseteq {"no", "unlisted"}
  /\ \A blind \in {"no", "unlisted"} : Repaired(blind) \subseteq {"no", "unlisted"}
<1>1. \A a \in Accepted("as found") : checkWholeFiles(a, ParseSources(a.file))
  BY DEF Accepted
<1>2. \A a \in Accepted("unseen") : checkWholeFiles(a, "unseen")
  BY DEF Accepted
<1>3. FirstBlind \subseteq {"no", "unlisted"}
  BY <1>1, ShownOrUnlisted DEF FirstBlind
<1>4. \A blind \in {"no", "unlisted"} : Repaired(blind) \subseteq {"no", "unlisted"}
  BY <1>2, ShownOrUnlisted DEF Repaired
<1> QED
  BY <1>3, <1>4

\* One pass with an accepted answer.
Attempt(repo, c, blind, n) ==
  {[c |-> Unrun(c, blind), again |-> FALSE]}
    \cup UNION {{[c |-> r, again |-> r.usable /\ n < repairBudget /\ NeedsRepair(run.v) /\ ~ Satisfied(run.v, repo)]
                 : r \in Verify(c, blind, run)} : run \in Verifications(repo)}

\* What a container proved replaces what the candidate had; one that never ran
\* leaves it failed.
LEMMA AttemptSound ==
  ASSUME NEW repo \in Repositories, NEW c \in Sound, c.strength = 0 \/ c.rejected,
         NEW blind \in {"no", "unlisted"}, NEW n
  PROVE  Attempt(repo, c, blind, n) \subseteq Attempts
<1>1. Unrun(c, blind) \in Sound
  <2>1. PICK u : u = Unrun(c, blind)
    OBVIOUS
  <2>2. c \in Claims
    BY DEF Sound
  <2>3. (c.strength = 0) \in BOOLEAN
    OBVIOUS
  <2>4. /\ u \in Claims /\ u.failed /\ u.rejected = c.rejected
        /\ u.verified = (c.strength = 0)
    BY <2>1, <2>2, <2>3 DEF Unrun, Claims
  <2> QED
    BY <2>1, <2>4 DEF Sound
<1>2. ASSUME NEW run \in Verifications(repo), NEW r \in Verify(c, blind, run)
      PROVE  r \in Sound /\ (r.usable /\ NeedsRepair(run.v) => r.rejected)
  <2>1. CASE r = Unrun(c, blind)
    <3>1. ~r.usable
      BY <2>1 DEF Unrun, Sound, Claims
    <3> QED
      BY <1>1, <2>1, <3>1
  <2>2. CASE \E changed \in BOOLEAN :
               r = [failed |-> run.v.applied /\ ~ changed, usable |-> run.v.applied /\ changed,
                    strength |-> Strength(run.v), rejected |-> Rejected(run.v), verified |-> TRUE,
                    honest |-> run.honest, blind |-> blind]
    <3>1. Strength(run.v) \in 0..3
      BY DEF Strength
    <3>2. run.honest = TRUE
      BY VerificationsHonest
    <3>3. PICK changed \in BOOLEAN :
               r = [failed |-> run.v.applied /\ ~ changed, usable |-> run.v.applied /\ changed,
                    strength |-> Strength(run.v), rejected |-> Rejected(run.v), verified |-> TRUE,
                    honest |-> run.honest, blind |-> blind]
      BY <2>2
    <3>4. /\ (run.v.applied /\ ~ changed) \in BOOLEAN
          /\ (run.v.applied /\ changed) \in BOOLEAN
          /\ Rejected(run.v) \in BOOLEAN
      BY DEF Rejected
    <3>5. NeedsRepair(run.v) => Rejected(run.v)
      BY DEF NeedsRepair
    <3>6. PICK rejected \in BOOLEAN : rejected = Rejected(run.v)
      BY <3>4
    <3> QED
      BY <3>1, <3>2, <3>3, <3>4, <3>5, <3>6 DEF Sound, Claims
  <2> QED
    BY <2>1, <2>2 DEF Verify
<1> SUFFICES ASSUME NEW x \in Attempt(repo, c, blind, n) PROVE x \in Attempts
  OBVIOUS
<1>3. CASE x = [c |-> Unrun(c, blind), again |-> FALSE]
  BY <1>1, <1>3 DEF Attempts
<1>4. CASE \E run \in Verifications(repo) : \E r \in Verify(c, blind, run) :
             x = [c |-> r, again |-> r.usable /\ n < repairBudget /\ NeedsRepair(run.v) /\ ~ Satisfied(run.v, repo)]
  <2>1. PICK run \in Verifications(repo) : \E r \in Verify(c, blind, run) :
             x = [c |-> r, again |-> r.usable /\ n < repairBudget /\ NeedsRepair(run.v) /\ ~ Satisfied(run.v, repo)]
    BY <1>4
  <2>2. PICK r \in Verify(c, blind, run) :
             x = [c |-> r, again |-> r.usable /\ n < repairBudget /\ NeedsRepair(run.v) /\ ~ Satisfied(run.v, repo)]
    BY <2>1
  <2> QED
    BY <1>2, <2>2 DEF Attempts
<1> QED
  BY <1>3, <1>4 DEF Attempt

\* The passes of the repair loop, by their number.
FirstPass(repo) == UNION {Attempt(repo, Refused, blind, 0) : blind \in FirstBlind}
NextPass(repo, last, n) ==
  UNION {UNION {Attempt(repo, r.c, blind, n) : blind \in Repaired(r.c.blind)} : r \in {x \in last : x.again}}
RepairLoop(repo) ==
  CHOOSE f : f = [n \in 0..repairBudget |-> IF n = 0 THEN FirstPass(repo) ELSE NextPass(repo, f[n - 1], n)]

\* Whatever a container printed, and however often a failed candidate is repaired,
\* its claims are what was proved of its files.
LEMMA CandidatesSound ==
  ASSUME NEW repo \in Repositories
  PROVE  candidate(repo) \subseteq Sound
<1> DEFINE m == repairBudget
           A == SUBSET Attempts
           Solves(f) == f = [n \in 0..m |-> IF n = 0 THEN FirstPass(repo) ELSE NextPass(repo, f[n - 1], n)]
<1>1. m \in Nat
  BY RepairsAssumption DEF repairBudget
<1>2. Refused \in Sound /\ Refused.strength = 0
  BY DEF Refused, Sound, Claims
<1>3. FirstPass(repo) \in A
  BY <1>2, AttemptSound, BlindToUnlisted DEF FirstPass
<1>4. ASSUME NEW S \in A, NEW n \in 1..m PROVE NextPass(repo, S, n) \in A
  <2>1. \A r \in S : r.c \in Sound /\ r.c.blind \in {"no", "unlisted"} /\ (r.again => r.c.rejected)
    BY DEF Attempts, Sound, Claims
  <2>2. \A r \in {x \in S : x.again} : \A blind \in Repaired(r.c.blind) : Attempt(repo, r.c, blind, n) \subseteq Attempts
    BY <2>1, AttemptSound, BlindToUnlisted
  <2> QED
    BY <2>2 DEF NextPass
<1> HIDE DEF m, A
<1>5. PICK F : F = [Sn \in A \X (1..m) |-> NextPass(repo, Sn[1], Sn[2])]
  OBVIOUS
<1>6. F \in [A \X (1..m) -> A] /\ \A S \in A, n \in 1..m : F[S, n] = NextPass(repo, S, n)
  BY <1>4, <1>5
<1>7. PICK f \in [0..m -> A] : IsRecursion(f, FirstPass(repo), F, m)
  BY <1>1, <1>3, <1>6, RecursionExists
<1>8. Solves(f)
  <2>1. ASSUME NEW n \in 0..m, n # 0 PROVE F[f[n - 1], n] = NextPass(repo, f[n - 1], n)
    <3>1. n \in 1..m /\ n - 1 \in 0..m
      BY <1>1, <2>1
    <3> QED
      BY <1>6, <1>7, <3>1
  <2> QED
    BY <1>7, <2>1 DEF IsRecursion
<1>9. PICK g : Solves(g) /\ g = RepairLoop(repo)
  <2>1. RepairLoop(repo) = CHOOSE x : Solves(x)
    BY DEF RepairLoop, m
  <2> HIDE DEF Solves
  <2> QED
    BY <1>8, <2>1
<1>10. \A n \in 0..m : g[n] \in A
  <2>1. g[0] \in A
    <3>1. 0 \in 0..m
      BY <1>1
    <3> QED
      BY <1>3, <1>9, <3>1
  <2>2. ASSUME NEW n \in 1..m, g[n - 1] \in A PROVE g[n] \in A
    <3>1. n \in 0..m /\ n # 0
      BY <1>1
    <3>2. g[n] = NextPass(repo, g[n - 1], n)
      BY <1>9, <3>1
    <3> QED
      BY <1>4, <2>2, <3>2
  <2> QED
    BY <1>1, <2>1, <2>2, StaysIn
<1>11. candidate(repo) = {Refused} \cup UNION {{r.c : r \in RepairLoop(repo)[n]} : n \in 0..repairBudget}
  BY DEF candidate, RepairLoop, FirstPass, NextPass, Attempt, FirstBlind
<1> SUFFICES ASSUME NEW c \in candidate(repo), c # Refused PROVE c \in Sound
  BY <1>2
<1>12. PICK n \in 0..m : \E r \in g[n] : c = r.c
  BY <1>9, <1>11 DEF m
<1> QED
  BY <1>10, <1>12 DEF A, Attempts

-----------------------------------------------------------------------------
(* The theorems.                                                           *)

\* Nothing is queued, stored or asked for when the service starts.
LEMMA InitIInv ==
  ASSUME Init
  PROVE  IInv
  <1>1. Waiting \in Handlers /\ Waiting.stage = "waiting"
    BY DEF Waiting, Handlers, Replies
  <1>2. /\ jobs = <<>> /\ DOMAIN jobs = {} /\ inFlight = {} /\ solution = {} /\ branch = {} /\ index = {}
        /\ worker = [w \in Workers |-> Idle] /\ request = [q \in Requests |-> Waiting]
        /\ outcome = [i \in Investigations |-> "none"] /\ pull = [id \in Ids |-> 0]
        /\ decision = [i \in Investigations |-> [by |-> None, indexed |-> FALSE]]
        /\ verdict = [i \in Investigations |-> "none"] /\ up = TRUE /\ runs = 0 /\ faults = 0
    BY DEF Init
  <1>3. Shape
    <2>1. jobs \in Seq(Investigations) /\ Len(jobs) <= QueueDepth /\ runs \in 0..MaxRuns /\ faults \in 0..MaxFaults
      BY <1>2, Config
    <2>2. worker \in [Workers -> Runners] /\ request \in [Requests -> Handlers]
      BY <1>1, <1>2, IdleIs
    <2>3. outcome \in [Investigations -> RemediationStatus \cup {"none"}] /\ pull \in [Ids -> Nat]
      BY <1>2
    <2>4. decision \in [Investigations -> [by : Requests \cup {None}, indexed : BOOLEAN]]
      BY <1>2
    <2> QED
      BY <1>2, <2>1, <2>2, <2>3, <2>4 DEF Shape
  <1>4. PoolInv
    BY <1>2, IdleIs DEF PoolInv, Placed, OncePerInvestigation, At
  <1>5. GenerationInv
    BY <1>2, IdleIs DEF GenerationInv, OwnGeneration, OneGeneration, Listed
  <1>6. EndInv
    BY <1>2, IdleIs DEF EndInv, EndWritten, RunningHasOwner, At
  <1>7. PullInv
    <2>1. \A q \in Requests : request[q].stage = "waiting"
      BY <1>1, <1>2
    <2>2. \A id \in Ids : pull[id] = 0 /\ ~HasPull(id)
      BY <1>2 DEF HasPull, Stored
    <2>3. OnePullRequest
      BY <2>2, OnePullRequestIs
    <2> QED
      BY <2>1, <2>2, <2>3 DEF PullInv, Publishing, OneOpener, PulledOnBranch, Opening, Now
  <1>8. DecisionInv
    <2>1. \A q \in Requests : request[q].stage = "waiting"
      BY <1>1, <1>2
    <2>2. \A i \in Investigations : decision[i].by = None /\ ~decision[i].indexed
      BY <1>2
    <2> QED
      BY <2>1, <2>2 DEF DecisionInv, Replaces, DecidedOnce, IndexedIsRecalled, Decided, Now
  <1> QED
    BY <1>3, <1>4, <1>5, <1>6, <1>7, <1>8 DEF IInv

\* The invariant holds in every state, whatever the pool, the engineers and the
\* process do and wherever a call fails.
THEOREM Invariant == Spec => []IInv
  <1>1. Init => IInv
    BY InitIInv
  <1>2. IInv /\ [Next]_vars => IInv'
    BY EnqueueIInv, RunJobIInv, OpenPullRequestIInv, RecordDecisionIInv, CrashIInv, BootIInv, StutterIInv
      DEF Next
  <1> QED
    BY <1>1, <1>2, PTL DEF Spec

\* A candidate has one pull request at most, however often engineers click, and one
\* that is open is on its row, on its way there, or lost on record.
THEOREM OnePullRequestEach == Spec => []OnePullRequest
  <1>1. IInv => OnePullRequest
    BY DEF IInv, PullInv
  <1> QED
    BY <1>1, Invariant, PTL

\* The candidates an engineer chooses from are of one run, unless clearing the earlier
\* ones failed.
THEOREM OneGenerationListed == Spec => []OneGeneration
  <1>1. IInv => OneGeneration
    BY DEF IInv, GenerationInv
  <1> QED
    BY <1>1, Invariant, PTL

\* A decision that reads as indexed is recalled, whichever decisions replace each other.
THEOREM IndexedDecisionsRecalled == Spec => []IndexedIsRecalled
  <1>1. IInv => IndexedIsRecalled
    BY DEF IInv, DecisionInv
  <1> QED
    BY <1>1, Invariant, PTL

\* A remediation that reads running is being run, unless writing its end failed.
THEOREM RunningIsOwned == Spec => []RunningHasOwner
  <1>1. IInv => RunningHasOwner
    BY DEF IInv, EndInv
  <1> QED
    BY <1>1, Invariant, PTL

\* What any candidate projects to has its type, and is sound.
LEMMA ProposedSound ==
  ASSUME NEW c \in Proposed
  PROVE  Projected(c) \in Made /\ Projected(c).sound
  <1>1. c \in Sound
    BY CandidatesSound DEF Proposed
  <1>2. /\ c.failed \in BOOLEAN /\ c.strength \in 0..3 /\ c.verified \in BOOLEAN /\ c.honest = TRUE
        /\ c.blind # "listed" /\ (c.verified \/ (c.failed /\ c.rejected))
    BY <1>1 DEF Sound, Claims
  <1>3. /\ (c.strength > 0) \in BOOLEAN
        /\ (c.honest /\ (c.verified \/ (c.failed /\ c.rejected)) /\ c.blind # "listed") \in BOOLEAN
    OBVIOUS
  <1> QED
    BY <1>2, <1>3 DEF Projected, Made

\* What is stored of a candidate claims no more than its containers proved: what is
\* read of a container's output is what its stages ended with, unless it was killed
\* inside an end marker; a repair keeps no verification of files it replaced, unless it
\* failed and that verification names a failed build or failed tests; and nothing
\* changes the candidate on its way to the row.
THEOREM ClaimsAsProved == Spec => []NeverOverclaims
  <1>1. IInv => NeverOverclaims
    <2>1. \A made \in Mades : made.sound
      BY ProposedSound DEF Mades
    <2>2. IInv => \A row \in solution : row.made \in Mades
      BY DEF IInv, Shape, Rows
    <2> QED
      BY <2>1, <2>2 DEF NeverOverclaims
  <1> QED
    BY <1>1, Invariant, PTL

\* Every variable keeps its type, what the sandbox returns included.
THEOREM TypeCorrect == Spec => []TypeOK
  <1>1. IInv => TypeOK
    <2>1. Mades \subseteq Made
      BY ProposedSound DEF Mades
    <2>2. ASSUME Shape PROVE TypeOK
      <3>1. \A w \in Workers :
              /\ worker[w].stage \in JobStages /\ worker[w].of \in Investigations \cup {None}
              /\ worker[w].run \in 0..MaxRuns /\ worker[w].left \in Seq(Drafts)
        BY <2>2 DEF Shape, Runners
      <3>2. \A w \in Workers : \A k \in DOMAIN worker[w].left :
              worker[w].left[k] \in [strategy : Strategies, made : Made]
        <4>1. SUFFICES ASSUME NEW left \in Seq(Drafts), NEW k \in DOMAIN left
                       PROVE  left[k] \in [strategy : Strategies, made : Made]
          BY <3>1
        <4>2. left[k] \in Drafts
          BY <4>1, ElementOfSeq, LenProperties
        <4> QED
          BY <2>1, <4>2 DEF Drafts
      <3>3. solution \subseteq Row
        BY <2>1, <2>2 DEF Shape, Rows, Row
      <3>4. \A q \in Requests : /\ request[q].stage \in Replies /\ request[q].seen \subseteq Ids
                                /\ request[q].replaced \subseteq Requests
        BY <2>2 DEF Shape, Handlers
      <3> QED
        BY <2>2, <3>1, <3>2, <3>3, <3>4 DEF Shape, TypeOK, JobStages, Replies
    <2> QED
      BY <2>2 DEF IInv
  <1> QED
    BY <1>1, Invariant, PTL

=============================================================================
