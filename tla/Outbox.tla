-------------------------------- MODULE Outbox --------------------------------
(***************************************************************************)
(* The transactional outbox: rows committed with their investigations, and *)
(* publishers that claim a batch of them under leases, send each to the    *)
(* agent queue outside any transaction and record what became of it.       *)
(*                                                                         *)
(* Time is what leases, pauses and calls have left, so a clock needs no    *)
(* bound.  A lease's token is its publisher: a publisher runs one cycle at *)
(* a time and forgets a cycle's claims with it, so of all its tokens only  *)
(* the newest can still be presented.                                      *)
(*                                                                         *)
(* A definition directly above the one it is a slip of is that             *)
(* definition's mutant: the specification does not use it.                 *)
(***************************************************************************)
EXTENDS Integers, Sequences, FiniteSets, SequencesExt

CONSTANTS
  Messages,        \* numbered in the order of created_at
  Publishers,
  Batch, ClaimTTL, PublishTimeout, BackoffMin, BackoffMax, MaxAttempts,  \* outbox.Config
  Writers,         \* deployments that have committed rows: [schema, classification]
  Deployment,      \* the one the publishers run under
  Nobody,
  MaxFaults        \* bound: failed or slow calls, cancellations and crashes

ASSUME OutboxAssumption ==
  /\ Messages \subseteq Nat /\ IsFiniteSet(Messages) /\ Nobody \notin Publishers
  /\ {Batch, ClaimTTL, PublishTimeout, BackoffMin, MaxAttempts} \subseteq Nat \ {0}
  /\ BackoffMax \in Nat /\ BackoffMin <= BackoffMax
  /\ Deployment \in Writers /\ MaxFaults \in Nat

VARIABLES
  row,        \* outbox_messages
  publisher,  \* the state of each publisher's cycle
  copies,     \* the queues that accepted each message
  offers,     \* failed deliveries of each message, up to MaxAttempts; for the properties
  faults

vars == <<row, publisher, copies, offers, faults>>

Less(a, b)      == IF a < b THEN a ELSE b
Fault(n)        == faults + n <= MaxFaults /\ faults' = faults + n
Move(p, record) == publisher' = [publisher EXCEPT ![p] = record]

Absent == [state |-> "absent", writer |-> Deployment, attempts |-> 0,
           token |-> Nobody, lease |-> 0, wait |-> 0]

\* Where a cycle stands: its claims not dealt with yet, the first of them in
\* hand; what their common lease has left, and had left when the clock was read
\* for the call that is out; what that call's own timeout, or delay, has left.
Idle == [stage |-> "idle", claims |-> <<>>, lease |-> 0, read |-> 0, timeout |-> 0,
         delay |-> 0, reason |-> "none", fault |-> FALSE, cancelled |-> FALSE]
Down == [Idle EXCEPT !.stage = "down"]
StoreStages == {"claiming", "marking", "retrying", "releasing"}
SendStages  == {"sending", "burying"}
Stages      == {"idle", "down", "cycle"} \cup StoreStages \cup SendStages

Claim(p)     == Head(publisher[p].claims)
InHand(p)    == Claim(p).message
At(p, stage) == publisher[p].stage = stage

-----------------------------------------------------------------------------
(* persistence.Store: three transactions on the rows.                      *)

\* A row is handed out as it was committed: its content digest holds, its body
\* is an assignment of this schema, without a field this build does not know,
\* and its route and classification are this deployment's.
DecodeAssignment(m) == row[m].writer.schema = Deployment.schema
validAssignmentOutbox(m) ==
  DecodeAssignment(m) /\ row[m].writer.classification = Deployment.classification

DuePending(m) == row[m].state = "pending" /\ row[m].wait = 0
Due(m) == \/ row[m].state = "pending" /\ row[m].wait = 0
          \/ row[m].state = "claimed" /\ row[m].lease = 0
\* The oldest rows that are due, in the order of created_at, up to a batch of them.
Candidates ==
  {rows \in UNION {[1..n -> Messages] : n \in 1..Batch} :
     /\ \A i, j \in DOMAIN rows : i < j => rows[i] < rows[j]
     /\ \A i \in DOMAIN rows : Due(rows[i])
     /\ \A m \in Messages \ ToSet(rows) :
          Due(m) => Len(rows) = Batch /\ \A i \in DOMAIN rows : rows[i] < m}

Leased(p, m) == [row[m] EXCEPT !.state = "claimed", !.attempts = Less(@ + 1, MaxAttempts),
                               !.token = p, !.lease = ClaimTTL, !.wait = 0]

\* One refused candidate refuses the batch.  An answer may be lost, and the rows
\* then wait out a lease nobody uses.
ClaimOutbox(p) ==
  /\ At(p, "idle")
  /\ \E rows \in Candidates :
       /\ \A i \in DOMAIN rows : validAssignmentOutbox(rows[i])
       /\ row' = [m \in Messages |-> IF m \in ToSet(rows) THEN Leased(p, m) ELSE row[m]]
       /\ \/ /\ UNCHANGED faults
             /\ Move(p, [Idle EXCEPT !.stage = "claiming", !.lease = ClaimTTL,
                                     !.claims = [i \in DOMAIN rows |->
                                        [message |-> rows[i], attempt |-> Leased(p, rows[i]).attempts]]])
          \/ Fault(1) /\ UNCHANGED publisher
  /\ UNCHANGED <<copies, offers>>

\* The row is still this claim's, by the token and by the clock that was read.
Holds(p) ==
  /\ row[InHand(p)].state = "claimed" /\ row[InHand(p)].token = p
  /\ publisher[p].read > 0

Settle(m, state, wait) ==
  row' = [row EXCEPT ![m].state = state, ![m].token = Nobody, ![m].lease = 0, ![m].wait = wait]
MarkOutboxPublished(p) == Settle(InHand(p), "published", 0)
RetryOutbox(p)         == Settle(InHand(p), "pending", publisher[p].delay)

\* A call takes effect if the row is still held, or is refused as stale; or it
\* fails, and then too it may have taken effect.
Recorded(p, transition) ==
  \/ /\ IF Holds(p) THEN transition ELSE UNCHANGED row
     /\ UNCHANGED faults
  \/ /\ UNCHANGED row
     /\ IF publisher[p].cancelled THEN UNCHANGED faults ELSE Fault(1)

-----------------------------------------------------------------------------
(* Publisher.PublishCycle.                                                 *)

\* Backoff: doubled from BackoffMin up to BackoffMax, and up to half of it more.
BackoffUncapped(attempt) ==
  LET delay == BackoffMin * 2 ^ attempt
  IN delay .. delay + delay \div 2
Backoff(attempt) ==
  LET delay == Less(BackoffMax, BackoffMin * 2 ^ (attempt - 1))
  IN delay .. delay + delay \div 2

leaseCoversAlways(p) == publisher[p].lease >= 0
leaseCovers(p) == publisher[p].lease >= PublishTimeout

\* deliver counts the attempts of a failed delivery, never before one.
OfferUnlessExhausted(p) ==
  Move(p, [publisher[p] EXCEPT !.stage = IF Claim(p).attempt >= MaxAttempts THEN "burying" ELSE "sending",
                               !.timeout = PublishTimeout])
Offer(p) ==
  Move(p, [publisher[p] EXCEPT !.stage = "sending", !.timeout = PublishTimeout])

EndCycle(p) ==
  \E stage \in IF publisher[p].fault THEN {"idle", "down"} ELSE {"idle"} :
    Move(p, [Idle EXCEPT !.stage = stage])

ClaimsArrive(p) ==
  /\ At(p, "claiming") /\ Move(p, [publisher[p] EXCEPT !.stage = "cycle"])
  /\ UNCHANGED <<row, copies, offers, faults>>

\* The head of the loop over the claims.
NextClaim(p) ==
  /\ At(p, "cycle")
  /\ \/ publisher[p].claims = <<>> /\ EndCycle(p)
     \/ publisher[p].claims # <<>> /\ publisher[p].cancelled /\ Move(p, Down)
     \/ /\ publisher[p].claims # <<>> /\ ~publisher[p].cancelled /\ ~leaseCovers(p)
        /\ Move(p, [publisher[p] EXCEPT !.stage = "releasing", !.read = publisher[p].lease, !.delay = 0])
     \/ /\ publisher[p].claims # <<>> /\ ~publisher[p].cancelled /\ leaseCovers(p)
        /\ Offer(p)
  /\ UNCHANGED <<row, copies, offers, faults>>

\* sqsaws.classify and outbox.classify: what an answer says of the message.
Answers == {"invalid_contents", "queue_missing", "denied", "bad_request",
            "throttled", "unavailable", "timed_out", "unknown"}
classify(answer) ==
  CASE answer = "invalid_contents" -> "rejected"
    [] answer \in {"queue_missing", "denied", "bad_request"} -> "deployment"
    [] OTHER -> "retryable"

\* What deliver does with a failed attempt, by the class of the failure.
Verdict(p, class) ==
  CASE class = "deployment" -> "releasing"
    [] class = "rejected" -> "burying"
    [] class = "retryable" /\ Claim(p).attempt >= MaxAttempts -> "burying"
    [] OTHER -> "retrying"

Accept(p, queue) == copies' = [copies EXCEPT ![InHand(p)] = @ \cup {queue}]
ToStore(p, stage, delay) ==
  Move(p, [publisher[p] EXCEPT !.stage = stage, !.timeout = 0, !.read = publisher[p].lease,
                               !.delay = delay])

\* The queue's answer to one message, or none within the timeout: whether it
\* took the message is then unknown.
Published(p) ==
  /\ At(p, "sending") /\ ~publisher[p].cancelled
  /\ Accept(p, "agents") /\ ToStore(p, "marking", 0)
  /\ UNCHANGED <<row, offers, faults>>
NotPublished(p) ==
  /\ At(p, "sending")
  /\ \E answer \in IF publisher[p].cancelled THEN {"timed_out"} ELSE Answers :
       LET class == classify(answer)
           next  == Verdict(p, class)
       IN /\ \/ UNCHANGED copies
             \/ class = "retryable" /\ Accept(p, "agents")
          /\ CASE next = "burying" ->
                    Move(p, [publisher[p] EXCEPT !.stage = "burying", !.timeout = PublishTimeout,
                               !.reason = IF class = "rejected" THEN class ELSE "attempts_exhausted"])
               [] next = "releasing" ->
                    Move(p, [publisher[p] EXCEPT !.stage = "releasing", !.timeout = 0,
                               !.read = publisher[p].lease, !.delay = 0, !.fault = TRUE])
               [] next = "retrying" ->
                    \E delay \in Backoff(Claim(p).attempt) : ToStore(p, "retrying", delay)
  /\ IF publisher[p].cancelled THEN UNCHANGED faults ELSE Fault(1)
  /\ offers' = [offers EXCEPT ![InHand(p)] = Less(@ + 1, MaxAttempts)]
  /\ UNCHANGED row

\* deadLetter: a send that fails is retried, for neither queue has the message.
AfterFailedBurialDone == "marking"
AfterFailedBurial == "retrying"
DeadLettered(p) ==
  /\ At(p, "burying") /\ ~publisher[p].cancelled
  /\ Accept(p, "dead") /\ ToStore(p, "marking", 0)
  /\ UNCHANGED <<row, offers, faults>>
NotDeadLettered(p) ==
  /\ At(p, "burying")
  /\ \E answer \in IF publisher[p].cancelled THEN {"timed_out"} ELSE Answers :
       /\ \/ UNCHANGED copies
          \/ classify(answer) = "retryable" /\ Accept(p, "dead")
       /\ \E delay \in IF classify(answer) = "rejected" THEN {BackoffMax} ELSE Backoff(Claim(p).attempt) :
            ToStore(p, AfterFailedBurial, delay)
  /\ IF publisher[p].cancelled THEN UNCHANGED faults ELSE Fault(1)
  /\ UNCHANGED <<row, offers>>

\* Whatever the store answers, the cycle goes on to the next claim; releaseNow
\* does the same to every claim that is left.
markPublished(p) ==
  /\ At(p, "marking") /\ Recorded(p, MarkOutboxPublished(p))
  /\ Move(p, [publisher[p] EXCEPT !.stage = "cycle", !.claims = Tail(@), !.reason = "none"])
  /\ UNCHANGED <<copies, offers>>
retryAfter(p) ==
  /\ At(p, "retrying") /\ Recorded(p, RetryOutbox(p))
  /\ Move(p, [publisher[p] EXCEPT !.stage = "cycle", !.claims = Tail(@), !.reason = "none", !.delay = 0])
  /\ UNCHANGED <<copies, offers>>
releaseNow(p) ==
  /\ At(p, "releasing")
  /\ \/ /\ publisher[p].claims # <<>> /\ Recorded(p, RetryOutbox(p))
        /\ Move(p, [publisher[p] EXCEPT !.claims = Tail(@), !.read = publisher[p].lease])
     \/ /\ publisher[p].claims = <<>> /\ EndCycle(p)
        /\ UNCHANGED <<row, faults>>
  /\ UNCHANGED <<copies, offers>>

-----------------------------------------------------------------------------
(* The processes around it.                                                *)

\* An investigation is committed with its assignment in the outbox.
Commit(m) ==
  /\ row[m].state = "absent"
  /\ \E writer \in Writers : row' = [row EXCEPT ![m].state = "pending", ![m].writer = writer]
  /\ UNCHANGED <<publisher, copies, offers, faults>>

\* A stop whose budget is spent cancels the cycle; a crash ends it.
Cancel(p) ==
  /\ publisher[p].stage \notin {"idle", "down"} /\ ~publisher[p].cancelled
  /\ Move(p, [publisher[p] EXCEPT !.cancelled = TRUE]) /\ Fault(1)
  /\ UNCHANGED <<row, copies, offers>>
Crash(p) ==
  /\ publisher[p].stage # "down" /\ Move(p, Down) /\ Fault(1)
  /\ UNCHANGED <<row, copies, offers>>
Start(p) ==
  /\ At(p, "down") /\ Move(p, Idle)
  /\ UNCHANGED <<row, copies, offers, faults>>

\* Time passes while every publisher waits for something: a send no longer than
\* its timeout, and a slow store is a fault.
Older(t) == IF t = 0 THEN 0 ELSE t - 1
Tick ==
  /\ \A p \in Publishers : ~At(p, "cycle")
  /\ \A p \in Publishers : publisher[p].stage \in SendStages => publisher[p].timeout > 0
  /\ row' = [m \in Messages |-> [row[m] EXCEPT !.lease = Older(@), !.wait = Older(@)]]
  /\ publisher' = [p \in Publishers |-> [publisher[p] EXCEPT !.lease = Older(@), !.timeout = Older(@),
                                                             !.delay = Older(@)]]
  /\ IF \E p \in Publishers : publisher[p].stage \in StoreStages THEN Fault(1) ELSE UNCHANGED faults
  /\ UNCHANGED <<copies, offers>>

Init ==
  /\ row = [m \in Messages |-> Absent]
  /\ publisher = [p \in Publishers |-> Idle]
  /\ copies = [m \in Messages |-> {}] /\ offers = [m \in Messages |-> 0] /\ faults = 0

Cycle(p) ==
  \/ ClaimOutbox(p) \/ ClaimsArrive(p) \/ NextClaim(p) \/ Published(p) \/ NotPublished(p)
  \/ DeadLettered(p) \/ NotDeadLettered(p) \/ markPublished(p) \/ retryAfter(p) \/ releaseNow(p)

Next ==
  \/ \E p \in Publishers : Cycle(p) \/ Cancel(p) \/ Crash(p) \/ Start(p)
  \/ \E m \in Messages : Commit(m)
  \/ Tick

Spec == Init /\ [][Next]_vars

\* The worker loops over its cycles, a publisher that stopped is started again
\* (after a deployment fault, by an operator), and time passes.
FairSpec == /\ Spec /\ WF_vars(Tick)
            /\ \A p \in Publishers : WF_vars(Cycle(p)) /\ WF_vars(Start(p))

-----------------------------------------------------------------------------
(* Properties.                                                             *)

\* Every variable has its type.
TypeOK ==
  /\ row \in [Messages -> [state : {"absent", "pending", "claimed", "published"},
                           writer : Writers, attempts : 0..MaxAttempts,
                           token : Publishers \cup {Nobody}, lease : 0..ClaimTTL, wait : 0..2 * BackoffMax]]
  /\ publisher \in [Publishers -> [stage : Stages, claims : Seq([message : Messages, attempt : 1..MaxAttempts]),
                                   lease : 0..ClaimTTL, read : 0..ClaimTTL,
                                   timeout : 0..PublishTimeout, delay : 0..2 * BackoffMax,
                                   reason : {"none", "rejected", "attempts_exhausted"},
                                   fault : BOOLEAN, cancelled : BOOLEAN]]
  /\ copies \in [Messages -> SUBSET {"agents", "dead"}]
  /\ offers \in [Messages -> 0..MaxAttempts] /\ faults \in 0..MaxFaults

\* leaseCovers: a row is in flight to the agent queue, within its publish
\* timeout, at one publisher at a time.
OneDeliveryAtATime ==
  \A p, q \in Publishers :
    /\ p # q /\ At(p, "sending") /\ At(q, "sending")
    /\ publisher[p].timeout > 0 /\ publisher[q].timeout > 0
    => InHand(p) # InHand(q)

\* "Escalating on the counter alone would let a repeated deployment fault drain
\* committed assignments into the dead-letter queue without any of them ever
\* being offered": what is buried was offered, and refused, before.
BuriedAfterOffer ==
  \A p \in Publishers : At(p, "burying") => offers[InHand(p)] > 0

\* Every committed row is owed until a queue has accepted its message.
Promise == INSTANCE Delivery WITH
  state <- [m \in Messages |-> CASE row[m].state = "absent" -> "absent"
                                 [] row[m].state = "published" -> "closed"
                                 [] OTHER -> "owed"],
  copies <- copies
DeliverySpec == Promise!DSpec

\* A row whose content can be handed out is in the end published, unless a
\* row that another deployment committed refuses every batch with it.
EventuallyPublished ==
  \A m \in Messages :
    row[m].state = "pending" ~> \/ row[m].state = "published"
                                \/ \E o \in Messages : ~validAssignmentOutbox(o)

=============================================================================
