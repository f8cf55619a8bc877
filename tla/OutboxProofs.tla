---------------------------- MODULE OutboxProofs ----------------------------
(***************************************************************************)
(* Theorems about the outbox, for every value of its constants: any number *)
(* of messages and publishers, any batch, lease, timeout and backoff.      *)
(***************************************************************************)
EXTENDS Outbox, FiniteSetTheorems, TLAPS

Claims == [message : Messages, attempt : 1..MaxAttempts]

\* While a cycle's lease lasts, the rows of its claims are claimed by it, for
\* no shorter than the cycle believes.
OwnRows(p) ==
  \A i \in DOMAIN publisher[p].claims :
    LET m == publisher[p].claims[i].message
    IN /\ row[m].state # "absent"
       /\ publisher[p].lease > 0 =>
            row[m].state = "claimed" /\ row[m].token = p /\ publisher[p].lease <= row[m].lease

\* A cycle claims each row once.
DistinctClaims(p) ==
  \A i, j \in DOMAIN publisher[p].claims :
    i # j => publisher[p].claims[i].message # publisher[p].claims[j].message

\* A call that is out is about the first claim.
CallHasClaim(p) ==
  publisher[p].stage \in SendStages \cup {"marking", "retrying"} => publisher[p].claims # <<>>

\* A send to the agent queue times out before the lease does.
SendCovered(p) == At(p, "sending") => publisher[p].timeout <= publisher[p].lease

\* A row is marked published after a queue accepted its message.
AcceptedBeforeMark(p) == At(p, "marking") => copies[InHand(p)] # {}

\* A message is buried after an offer of it was refused.
OfferedBeforeBurial(p) == At(p, "burying") => offers[InHand(p)] > 0

CycleInv(p) ==
  /\ OwnRows(p) /\ DistinctClaims(p) /\ CallHasClaim(p) /\ SendCovered(p)
  /\ AcceptedBeforeMark(p) /\ OfferedBeforeBurial(p)

\* The inductive invariant.
IInv == TypeOK /\ \A p \in Publishers : CycleInv(p)

-----------------------------------------------------------------------------
(* Arithmetic and sequences.                                               *)

\* The configured numbers, one by one.
LEMMA Config ==
  /\ Batch \in Nat /\ ClaimTTL \in Nat /\ PublishTimeout \in Nat /\ BackoffMin \in Nat
  /\ BackoffMax \in Nat /\ MaxAttempts \in Nat /\ MaxFaults \in Nat
  /\ ClaimTTL > 0 /\ PublishTimeout > 0 /\ BackoffMin > 0 /\ MaxAttempts > 0
  /\ BackoffMin <= BackoffMax /\ Messages \subseteq Nat
  /\ 0 \in 0..ClaimTTL /\ ClaimTTL \in 0..ClaimTTL /\ 0 \in 0..PublishTimeout
  /\ PublishTimeout \in 0..PublishTimeout /\ 0 \in 0..2 * BackoffMax
  /\ BackoffMax \in 0..2 * BackoffMax /\ 0 \in 0..MaxAttempts
  /\ Nobody \notin Publishers /\ Deployment \in Writers
BY OutboxAssumption

\* A power of two is a number: it counts the subsets of a finite set.
LEMMA PowerOfTwo ==
  ASSUME NEW n \in Nat
  PROVE  2 ^ n \in Nat
<1>1. IsFiniteSet(1..n) /\ Cardinality(1..n) = n
  BY FS_Interval
<1>2. IsFiniteSet(SUBSET (1..n)) /\ Cardinality(SUBSET (1..n)) = 2 ^ Cardinality(1..n)
  BY <1>1, FS_SUBSET
<1> QED
  BY <1>1, <1>2, FS_CardinalityType

\* Backoff: whatever the attempt, a delay of at most one and a half BackoffMax.
LEMMA BackoffBounded ==
  ASSUME NEW attempt \in 1..MaxAttempts, NEW delay \in Backoff(attempt)
  PROVE  delay \in 0..2 * BackoffMax
<1> DEFINE power == 2 ^ (attempt - 1)
<1>1. power \in Nat
  <2>1. attempt - 1 \in Nat
    BY OutboxAssumption
  <2> QED
    BY <2>1, PowerOfTwo
<1> HIDE DEF power
<1>2. BackoffMin * power \in Nat
  <2>1. \A a, b \in Nat : a * b \in Nat
    OBVIOUS
  <2> QED
    BY <1>1, <2>1, OutboxAssumption
<1>3. PICK least \in Nat : least <= BackoffMax /\ delay \in least .. least + least \div 2
  <2>1. Less(BackoffMax, BackoffMin * power) \in Nat /\ Less(BackoffMax, BackoffMin * power) <= BackoffMax
    BY <1>2, OutboxAssumption DEF Less
  <2>2. delay \in Less(BackoffMax, BackoffMin * power) ..
                    Less(BackoffMax, BackoffMin * power) + Less(BackoffMax, BackoffMin * power) \div 2
    BY DEF Backoff, power
  <2> QED
    BY <2>1, <2>2
<1> QED
  BY <1>3, OutboxAssumption

\* What is left of a sequence without its head.
LEMMA TailElements ==
  ASSUME NEW S, NEW s \in Seq(S), s # <<>>
  PROVE  /\ Head(s) = s[1] /\ 1 \in DOMAIN s /\ Tail(s) \in Seq(S)
         /\ \A i \in DOMAIN Tail(s) : i + 1 \in DOMAIN s /\ i + 1 # 1 /\ Tail(s)[i] = s[i + 1]
         /\ \A i, j \in DOMAIN Tail(s) : i # j => i + 1 # j + 1
OBVIOUS

-----------------------------------------------------------------------------
(* What a step of one cycle leaves of the others.                          *)

Rows == [state : {"absent", "pending", "claimed", "published"},
         writer : Writers, attempts : 0..MaxAttempts,
         token : Publishers \cup {Nobody}, lease : 0..ClaimTTL, wait : 0..2 * BackoffMax]
Cycles == [stage : Stages, claims : Seq(Claims), lease : 0..ClaimTTL, read : 0..ClaimTTL,
           timeout : 0..PublishTimeout, delay : 0..2 * BackoffMax,
           reason : {"none", "rejected", "attempts_exhausted"},
           fault : BOOLEAN, cancelled : BOOLEAN]

\* A row stays committed, and one that cycle q has leased stays as it is.
KeepsRowsOf(q) ==
  \A m \in Messages :
    /\ row[m].state # "absent" => row'[m].state # "absent"
    /\ row[m].state = "claimed" /\ row[m].token = q /\ row[m].lease > 0 => row'[m] = row[m]

\* What a step leaves of cycle q.
Keeps(q) == publisher'[q] = publisher[q] /\ KeepsRowsOf(q)

\* What is recorded of a message is not taken back.
OnlyMore == \A m \in Messages : copies[m] \subseteq copies'[m] /\ offers[m] <= offers'[m]

\* The claims of a cycle are about messages.
LEMMA ClaimsType ==
  ASSUME TypeOK, NEW p \in Publishers
  PROVE  /\ publisher[p] \in Cycles /\ publisher[p].claims \in Seq(Claims)
         /\ \A i \in DOMAIN publisher[p].claims :
              publisher[p].claims[i] \in Claims /\ publisher[p].claims[i].message \in Messages
         /\ publisher[p].claims # <<>> =>
              /\ 1 \in DOMAIN publisher[p].claims /\ Claim(p) = publisher[p].claims[1]
              /\ Claim(p) \in Claims /\ InHand(p) \in Messages
              /\ InHand(p) = publisher[p].claims[1].message
<1>1. publisher[p] \in Cycles
  BY DEF TypeOK, Cycles, Claims
<1>2. publisher[p].claims \in Seq(Claims)
  BY <1>1 DEF Cycles
<1>3. \A i \in DOMAIN publisher[p].claims :
         publisher[p].claims[i] \in Claims /\ publisher[p].claims[i].message \in Messages
  <2>1. \A i \in DOMAIN publisher[p].claims : publisher[p].claims[i] \in Claims
    BY <1>2
  <2>2. \A claim \in Claims : claim.message \in Messages
    BY DEF Claims
  <2> QED
    BY <2>1, <2>2
<1>4. ASSUME publisher[p].claims # <<>>
      PROVE  1 \in DOMAIN publisher[p].claims /\ Claim(p) = publisher[p].claims[1]
  BY <1>2, <1>4 DEF Claim
<1> QED
  BY <1>1, <1>2, <1>3, <1>4 DEF InHand

\* What a step leaves of a cycle keeps its part of the invariant.
LEMMA KeptCycle ==
  ASSUME IInv, NEW q \in Publishers, TypeOK', Keeps(q), OnlyMore
  PROVE  CycleInv(q)'
<1>1. TypeOK /\ CycleInv(q) /\ publisher'[q] = publisher[q] /\ KeepsRowsOf(q)
  BY DEF IInv, Keeps
<1>2. OwnRows(q)'
  <2> SUFFICES ASSUME NEW i \in DOMAIN publisher[q].claims
               PROVE  LET m == publisher[q].claims[i].message
                      IN /\ row'[m].state # "absent"
                         /\ publisher[q].lease > 0 =>
                              /\ row'[m].state = "claimed" /\ row'[m].token = q
                              /\ publisher[q].lease <= row'[m].lease
    BY <1>1 DEF OwnRows
  <2> DEFINE m == publisher[q].claims[i].message
  <2>1. m \in Messages /\ publisher[q].lease \in 0..ClaimTTL /\ row[m].lease \in 0..ClaimTTL
    BY <1>1, ClaimsType DEF Cycles, TypeOK
  <2>2. /\ row[m].state # "absent"
        /\ publisher[q].lease > 0 =>
             row[m].state = "claimed" /\ row[m].token = q /\ publisher[q].lease <= row[m].lease
    BY <1>1 DEF CycleInv, OwnRows
  <2> HIDE DEF m
  <2>3. row'[m].state # "absent"
    BY <1>1, <2>1, <2>2 DEF KeepsRowsOf
  <2>4. publisher[q].lease > 0 => row'[m] = row[m]
    BY <1>1, <2>1, <2>2, OutboxAssumption DEF KeepsRowsOf
  <2> QED
    BY <2>2, <2>3, <2>4 DEF m
<1>3. DistinctClaims(q)' /\ CallHasClaim(q)' /\ SendCovered(q)'
  BY <1>1 DEF CycleInv, DistinctClaims, CallHasClaim, SendCovered, At
<1>4. AcceptedBeforeMark(q)' /\ OfferedBeforeBurial(q)'
  <2>1. CASE publisher[q].stage \in {"marking", "burying"}
    <3>1. InHand(q) \in Messages /\ InHand(q)' = InHand(q)
      BY <1>1, <2>1, ClaimsType DEF CycleInv, CallHasClaim, SendStages, InHand, Claim
    <3>2. copies[InHand(q)] \subseteq copies'[InHand(q)] /\ offers[InHand(q)] <= offers'[InHand(q)]
      BY <3>1 DEF OnlyMore
    <3>3. At(q, "burying") => offers'[InHand(q)] > 0
      <4> DEFINE h == InHand(q)
      <4>1. offers[h] \in Nat /\ offers'[h] \in Nat
        <5>1. h \in Messages /\ offers \in [Messages -> 0..MaxAttempts]
              /\ offers' \in [Messages -> 0..MaxAttempts]
          BY <3>1, <1>1 DEF TypeOK
        <5> HIDE DEF h
        <5> QED
          BY <5>1, Config
      <4>2. At(q, "burying") => offers[InHand(q)] > 0
        BY <1>1 DEF CycleInv, OfferedBeforeBurial
      <4> QED
        BY <3>2, <4>1, <4>2
    <3> QED
      BY <1>1, <3>1, <3>2, <3>3 DEF CycleInv, AcceptedBeforeMark, OfferedBeforeBurial, At
  <2> QED
    BY <1>1, <2>1 DEF AcceptedBeforeMark, OfferedBeforeBurial, At
<1> QED
  BY <1>2, <1>3, <1>4 DEF CycleInv

\* So a step of one cycle is checked against its own part of the invariant.
LEMMA CycleStep ==
  ASSUME IInv, NEW p \in Publishers, TypeOK', OnlyMore,
         \A q \in Publishers \ {p} : Keeps(q), CycleInv(p)'
  PROVE  IInv'
BY KeptCycle DEF IInv

\* A step that moves one cycle and leaves the rows alone.
LEMMA MoveIInv ==
  ASSUME IInv, NEW p \in Publishers, NEW r \in Cycles, Move(p, r), UNCHANGED row, OnlyMore,
         copies' \in [Messages -> SUBSET {"agents", "dead"}],
         offers' \in [Messages -> 0..MaxAttempts], faults' \in 0..MaxFaults,
         \/ r.claims = <<>>
         \/ r.claims = publisher[p].claims /\ r.lease = publisher[p].lease,
         r.stage \in SendStages \cup {"marking", "retrying"} => r.claims # <<>>,
         r.stage = "sending" => r.timeout <= r.lease,
         r.stage = "marking" => copies'[Head(r.claims).message] # {},
         r.stage = "burying" => offers'[Head(r.claims).message] > 0
  PROVE  IInv'
<1>1. publisher \in [Publishers -> Cycles] /\ row \in [Messages -> Rows] /\ CycleInv(p)
  BY DEF IInv, TypeOK, Cycles, Claims, Rows
<1>2. /\ publisher' \in [Publishers -> Cycles] /\ publisher'[p] = r
      /\ \A q \in Publishers \ {p} : publisher'[q] = publisher[q]
  BY <1>1 DEF Move
<1>3. TypeOK'
  BY <1>1, <1>2 DEF TypeOK, Cycles, Claims, Rows
<1>4. \A q \in Publishers \ {p} : Keeps(q)
  BY <1>2 DEF Keeps, KeepsRowsOf
<1>5. OwnRows(p)' /\ DistinctClaims(p)'
  <2>1. CASE r.claims = <<>>
    BY <1>2, <2>1 DEF OwnRows, DistinctClaims
  <2>2. CASE r.claims = publisher[p].claims /\ r.lease = publisher[p].lease
    <3>1. OwnRows(p) /\ DistinctClaims(p)
      BY <1>1 DEF CycleInv
    <3>2. publisher'[p].claims = publisher[p].claims /\ publisher'[p].lease = publisher[p].lease
      BY <1>2, <2>2
    <3> QED
      BY <3>1, <3>2 DEF OwnRows, DistinctClaims
  <2> QED
    BY <2>1, <2>2
<1>6. /\ CallHasClaim(p)' /\ SendCovered(p)' /\ AcceptedBeforeMark(p)' /\ OfferedBeforeBurial(p)'
  BY <1>2 DEF CallHasClaim, SendCovered, AcceptedBeforeMark, OfferedBeforeBurial, At, InHand, Claim
<1> QED
  BY <1>3, <1>4, <1>5, <1>6, CycleStep DEF CycleInv

-----------------------------------------------------------------------------
(* What a call to the store does to the rows.                              *)

\* A row that a cycle settles was its own, or nobody's that another cycle leased.
LEMMA RecordedRow ==
  ASSUME IInv, NEW p \in Publishers, publisher[p].claims # <<>>,
         NEW state \in {"pending", "published"}, NEW wait \in 0..2 * BackoffMax,
         Recorded(p, Settle(InHand(p), state, wait))
  PROVE  /\ row' \in [Messages -> Rows] /\ faults' \in 0..MaxFaults
         /\ \A m \in Messages : row[m].state # "absent" => row'[m].state # "absent"
         /\ \A m \in Messages \ {InHand(p)} : row'[m] = row[m]
         /\ \A q \in Publishers \ {p} : KeepsRowsOf(q)
<1> DEFINE h == InHand(p)
           settled == [row[h] EXCEPT !.state = state, !.token = Nobody, !.lease = 0, !.wait = wait]
<1>1. h \in Messages /\ row \in [Messages -> Rows] /\ faults \in 0..MaxFaults
  BY ClaimsType DEF IInv, TypeOK, Rows
<1>2. faults' \in 0..MaxFaults
  BY <1>1, OutboxAssumption DEF Recorded, Fault
<1>3. CASE UNCHANGED row
  BY <1>1, <1>2, <1>3 DEF KeepsRowsOf
<1>4. CASE Holds(p) /\ Settle(h, state, wait)
  <2>1. row' = [row EXCEPT ![h] = settled] /\ row[h].state = "claimed" /\ row[h].token = p
    BY <1>1, <1>4 DEF Settle, Holds
  <2>2. settled \in Rows /\ settled.state = state
    <3>1. row[h] \in Rows /\ 0 \in 0..ClaimTTL
      BY <1>1, Config
    <3> HIDE DEF h
    <3> QED
      BY <3>1 DEF Rows
  <2> HIDE DEF settled
  <2>3. row'[h] = settled /\ \A m \in Messages \ {h} : row'[m] = row[m]
    BY <1>1, <2>1
  <2> QED
    BY <1>1, <1>2, <2>1, <2>2, <2>3 DEF KeepsRowsOf
<1> QED
  BY <1>3, <1>4 DEF Recorded

\* Once the claim in hand is dealt with, the rest of the cycle's claims are as
\* they were.
LEMMA TailOwned ==
  ASSUME IInv, NEW p \in Publishers, publisher[p].claims # <<>>,
         publisher'[p].claims = Tail(publisher[p].claims), publisher'[p].lease = publisher[p].lease,
         \A m \in Messages : row[m].state # "absent" => row'[m].state # "absent",
         \A m \in Messages \ {InHand(p)} : row'[m] = row[m]
  PROVE  OwnRows(p)' /\ DistinctClaims(p)' /\ publisher'[p].claims \in Seq(Claims)
<1> DEFINE s == publisher[p].claims
<1>1. s \in Seq(Claims) /\ s # <<>> /\ OwnRows(p) /\ DistinctClaims(p) /\ InHand(p) = s[1].message
  BY ClaimsType DEF IInv, CycleInv
<1>2. /\ 1 \in DOMAIN s /\ Tail(s) \in Seq(Claims)
      /\ \A i \in DOMAIN Tail(s) : i + 1 \in DOMAIN s /\ i + 1 # 1 /\ Tail(s)[i] = s[i + 1]
      /\ \A i, j \in DOMAIN Tail(s) : i # j => i + 1 # j + 1
  BY <1>1, TailElements
<1>3. \A i \in DOMAIN Tail(s) : Tail(s)[i].message \in Messages \ {InHand(p)}
  <2> TAKE i \in DOMAIN Tail(s)
  <2>1. s[i + 1].message \in Messages
    BY <1>2, ClaimsType DEF IInv
  <2>2. s[i + 1].message # s[1].message
    BY <1>1, <1>2 DEF DistinctClaims
  <2> QED
    BY <1>1, <1>2, <2>1, <2>2
<1>4. OwnRows(p)'
  <2> SUFFICES ASSUME NEW i \in DOMAIN Tail(s)
               PROVE  LET m == Tail(s)[i].message
                      IN /\ row'[m].state # "absent"
                         /\ publisher[p].lease > 0 =>
                              /\ row'[m].state = "claimed" /\ row'[m].token = p
                              /\ publisher[p].lease <= row'[m].lease
    BY DEF OwnRows
  <2>1. i + 1 \in DOMAIN s /\ Tail(s)[i] = s[i + 1] /\ row'[Tail(s)[i].message] = row[Tail(s)[i].message]
    BY <1>2, <1>3
  <2> QED
    BY <1>1, <2>1 DEF OwnRows
<1>5. DistinctClaims(p)'
  BY <1>1, <1>2 DEF DistinctClaims
<1> QED
  BY <1>2, <1>4, <1>5

-----------------------------------------------------------------------------
(* One lemma for each step.                                                *)

\* What was accepted and offered stays so when nothing is said of it.
LEMMA OnlyMoreUnchanged ==
  ASSUME TypeOK, UNCHANGED <<copies, offers>>
  PROVE  OnlyMore
BY Config DEF TypeOK, OnlyMore

\* A cycle that ends, or is cut short, has no claims.
LEMMA IdleType ==
  ASSUME NEW stage \in {"idle", "down"}
  PROVE  [Idle EXCEPT !.stage = stage] \in Cycles /\ [Idle EXCEPT !.stage = stage].claims = <<>>
         /\ [Idle EXCEPT !.stage = stage].stage = stage
<1>1. <<>> \in Seq(Claims) /\ stage \in Stages
  BY DEF Stages
<1> QED
  BY <1>1, Config DEF Idle, Cycles

\* A cycle ends, a publisher crashes or is started.
LEMMA ForgetIInv ==
  ASSUME IInv, NEW p \in Publishers, NEW stage \in {"idle", "down"},
         Move(p, [Idle EXCEPT !.stage = stage]), UNCHANGED <<row, copies, offers>>,
         faults' \in 0..MaxFaults
  PROVE  IInv'
<1> DEFINE r == [Idle EXCEPT !.stage = stage]
<1>1. r \in Cycles /\ r.claims = <<>> /\ r.stage = stage
  BY IdleType
<1>2. OnlyMore /\ copies' \in [Messages -> SUBSET {"agents", "dead"}] /\ offers' \in [Messages -> 0..MaxAttempts]
  BY OnlyMoreUnchanged DEF IInv, TypeOK
<1> HIDE DEF r
<1>3. Move(p, r)
  BY DEF r
<1> QED
  BY <1>1, <1>2, <1>3, MoveIInv DEF SendStages

\* A fault is counted within its bound.
LEMMA FaultCounted ==
  ASSUME TypeOK, NEW n \in Nat, Fault(n) \/ UNCHANGED faults
  PROVE  faults' \in 0..MaxFaults
BY Config DEF TypeOK, Fault

\* A crash forgets the cycle.
LEMMA CrashIInv ==
  ASSUME IInv, NEW p \in Publishers, Crash(p)
  PROVE  IInv'
<1>1. faults' \in 0..MaxFaults
  BY FaultCounted DEF IInv, Crash
<1> QED
  BY <1>1, ForgetIInv DEF Crash, Down

\* A publisher starts without a cycle.
LEMMA StartIInv ==
  ASSUME IInv, NEW p \in Publishers, Start(p)
  PROVE  IInv'
<1>1. faults' \in 0..MaxFaults
  BY DEF IInv, TypeOK, Start
<1>2. Idle = [Idle EXCEPT !.stage = "idle"]
  BY DEF Idle
<1> QED
  BY <1>1, <1>2, ForgetIInv DEF Start

\* A cancelled cycle keeps its claims.
LEMMA CancelIInv ==
  ASSUME IInv, NEW p \in Publishers, Cancel(p)
  PROVE  IInv'
<1> DEFINE r == [publisher[p] EXCEPT !.cancelled = TRUE]
<1>1. publisher[p] \in Cycles /\ CycleInv(p)
  BY ClaimsType DEF IInv
<1>2. /\ r \in Cycles /\ r.claims = publisher[p].claims /\ r.lease = publisher[p].lease
      /\ r.stage = publisher[p].stage /\ r.timeout = publisher[p].timeout
  BY <1>1 DEF Cycles
<1>3. /\ OnlyMore /\ copies' \in [Messages -> SUBSET {"agents", "dead"}]
      /\ offers' \in [Messages -> 0..MaxAttempts] /\ faults' \in 0..MaxFaults
  BY OnlyMoreUnchanged, FaultCounted DEF IInv, TypeOK, Cancel
<1> HIDE DEF r
<1>4. Move(p, r) /\ UNCHANGED <<row, copies, offers>>
  BY DEF Cancel, r
<1> QED
  BY <1>1, <1>2, <1>3, <1>4, MoveIInv
     DEF CycleInv, CallHasClaim, SendCovered, AcceptedBeforeMark, OfferedBeforeBurial, At, InHand, Claim

\* The claims arrive: the cycle has them all, and no call out.
LEMMA ClaimsArriveIInv ==
  ASSUME IInv, NEW p \in Publishers, ClaimsArrive(p)
  PROVE  IInv'
<1> DEFINE r == [publisher[p] EXCEPT !.stage = "cycle"]
<1>1. publisher[p] \in Cycles
  BY ClaimsType DEF IInv
<1>2. r \in Cycles /\ r.claims = publisher[p].claims /\ r.lease = publisher[p].lease /\ r.stage = "cycle"
  BY <1>1 DEF Cycles, Stages
<1>3. /\ OnlyMore /\ copies' \in [Messages -> SUBSET {"agents", "dead"}]
      /\ offers' \in [Messages -> 0..MaxAttempts] /\ faults' \in 0..MaxFaults
  BY OnlyMoreUnchanged DEF IInv, TypeOK, ClaimsArrive
<1> HIDE DEF r
<1>4. Move(p, r) /\ UNCHANGED row
  BY DEF ClaimsArrive, r
<1> QED
  BY <1>2, <1>3, <1>4, MoveIInv DEF SendStages

\* The head of the loop: the cycle ends, gives its claims back, or offers the
\* first of them under a lease that outlasts the offer.
LEMMA NextClaimIInv ==
  ASSUME IInv, NEW p \in Publishers, NextClaim(p)
  PROVE  IInv'
<1>1. publisher[p] \in Cycles /\ UNCHANGED <<row, copies, offers, faults>>
  BY ClaimsType DEF IInv, NextClaim
<1>2. /\ OnlyMore /\ copies' \in [Messages -> SUBSET {"agents", "dead"}]
      /\ offers' \in [Messages -> 0..MaxAttempts] /\ faults' \in 0..MaxFaults
  BY <1>1, OnlyMoreUnchanged DEF IInv, TypeOK
<1>3. CASE EndCycle(p)
  <2>1. PICK stage \in {"idle", "down"} : Move(p, [Idle EXCEPT !.stage = stage])
    BY <1>3 DEF EndCycle
  <2> QED
    BY <1>1, <1>2, <2>1, ForgetIInv
<1>4. CASE Move(p, Down)
  BY <1>1, <1>2, <1>4, ForgetIInv DEF Down
<1>5. CASE Move(p, [publisher[p] EXCEPT !.stage = "releasing", !.read = publisher[p].lease, !.delay = 0])
  <2> DEFINE r == [publisher[p] EXCEPT !.stage = "releasing", !.read = publisher[p].lease, !.delay = 0]
  <2>1. r \in Cycles /\ r.claims = publisher[p].claims /\ r.lease = publisher[p].lease /\ r.stage = "releasing"
    BY <1>1, Config DEF Cycles, Stages, StoreStages
  <2>2. Move(p, r)
    BY <1>5
  <2> HIDE DEF r
  <2> QED
    BY <1>1, <1>2, <2>1, <2>2, MoveIInv DEF SendStages
<1>6. CASE publisher[p].claims # <<>> /\ leaseCovers(p) /\ Offer(p)
  <2> DEFINE r == [publisher[p] EXCEPT !.stage = "sending", !.timeout = PublishTimeout]
  <2>1. /\ r \in Cycles /\ r.claims = publisher[p].claims /\ r.lease = publisher[p].lease
        /\ r.stage = "sending" /\ r.timeout = PublishTimeout
    BY <1>1, Config DEF Cycles, Stages, SendStages
  <2>2. Move(p, r) /\ PublishTimeout <= r.lease
    BY <1>6, <2>1, Config DEF Offer, leaseCovers, Cycles
  <2> HIDE DEF r
  <2> QED
    BY <1>1, <1>2, <1>6, <2>1, <2>2, MoveIInv DEF SendStages
<1> QED
  BY <1>3, <1>4, <1>5, <1>6 DEF NextClaim

\* What a cycle records on its way from a queue to the store.
LEMMA ToStoreIInv ==
  ASSUME IInv, NEW p \in Publishers, NEW stage \in {"marking", "retrying"},
         NEW delay \in 0..2 * BackoffMax, publisher[p].claims # <<>>,
         ToStore(p, stage, delay), UNCHANGED row, OnlyMore,
         copies' \in [Messages -> SUBSET {"agents", "dead"}],
         offers' \in [Messages -> 0..MaxAttempts], faults' \in 0..MaxFaults,
         stage = "marking" => copies'[InHand(p)] # {}
  PROVE  IInv'
<1> DEFINE r == [publisher[p] EXCEPT !.stage = stage, !.timeout = 0, !.read = publisher[p].lease,
                                     !.delay = delay]
<1>1. publisher[p] \in Cycles
  BY ClaimsType DEF IInv
<1>2. r \in Cycles /\ r.claims = publisher[p].claims /\ r.lease = publisher[p].lease /\ r.stage = stage
  BY <1>1, Config DEF Cycles, Stages, StoreStages
<1>3. Move(p, r)
  BY DEF ToStore
<1> HIDE DEF r
<1>4. r.stage = "marking" => copies'[Head(r.claims).message] # {}
  BY <1>2 DEF InHand, Claim
<1> QED
  BY <1>2, <1>3, <1>4, MoveIInv

\* What a queue accepted it keeps.
LEMMA Accepted ==
  ASSUME TypeOK, NEW p \in Publishers, publisher[p].claims # <<>>,
         NEW queue \in {"agents", "dead"}, Accept(p, queue) \/ UNCHANGED copies
  PROVE  /\ copies' \in [Messages -> SUBSET {"agents", "dead"}]
         /\ \A m \in Messages : copies[m] \subseteq copies'[m]
         /\ Accept(p, queue) => copies'[InHand(p)] # {}
<1>1. InHand(p) \in Messages /\ copies \in [Messages -> SUBSET {"agents", "dead"}]
  BY ClaimsType DEF TypeOK
<1>2. CASE Accept(p, queue)
  <2>1. copies' = [copies EXCEPT ![InHand(p)] = copies[InHand(p)] \cup {queue}]
    BY <1>2 DEF Accept
  <2> QED
    BY <1>1, <2>1
<1> QED
  BY <1>1, <1>2

\* Published: the queue has the message when the row is marked.
LEMMA PublishedIInv ==
  ASSUME IInv, NEW p \in Publishers, Published(p)
  PROVE  IInv'
<1>1. publisher[p].claims # <<>>
  BY DEF IInv, CycleInv, CallHasClaim, Published, At, SendStages
<1>2. /\ copies' \in [Messages -> SUBSET {"agents", "dead"}]
      /\ \A m \in Messages : copies[m] \subseteq copies'[m]
      /\ copies'[InHand(p)] # {}
  BY <1>1, Accepted DEF IInv, Published
<1>3. /\ offers' \in [Messages -> 0..MaxAttempts] /\ faults' \in 0..MaxFaults
      /\ \A m \in Messages : offers[m] <= offers'[m]
  BY Config DEF IInv, TypeOK, Published
<1> QED
  BY <1>1, <1>2, <1>3, ToStoreIInv, Config DEF Published, OnlyMore

\* DeadLettered: the dead-letter queue has it.
LEMMA DeadLetteredIInv ==
  ASSUME IInv, NEW p \in Publishers, DeadLettered(p)
  PROVE  IInv'
<1>1. publisher[p].claims # <<>>
  BY DEF IInv, CycleInv, CallHasClaim, DeadLettered, At, SendStages
<1>2. /\ copies' \in [Messages -> SUBSET {"agents", "dead"}]
      /\ \A m \in Messages : copies[m] \subseteq copies'[m]
      /\ copies'[InHand(p)] # {}
  BY <1>1, Accepted DEF IInv, DeadLettered
<1>3. /\ offers' \in [Messages -> 0..MaxAttempts] /\ faults' \in 0..MaxFaults
      /\ \A m \in Messages : offers[m] <= offers'[m]
  BY Config DEF IInv, TypeOK, DeadLettered
<1> QED
  BY <1>1, <1>2, <1>3, ToStoreIInv, Config DEF DeadLettered, OnlyMore

\* A failed offer is counted, whatever becomes of the message.
LEMMA NotPublishedIInv ==
  ASSUME IInv, NEW p \in Publishers, NotPublished(p)
  PROVE  IInv'
<1> DEFINE h == InHand(p)
<1>1. publisher[p].claims # <<>> /\ publisher[p] \in Cycles /\ h \in Messages /\ Claim(p).attempt \in 1..MaxAttempts
  <2>1. publisher[p].claims # <<>>
    BY DEF IInv, CycleInv, CallHasClaim, NotPublished, At, SendStages
  <2> QED
    BY <2>1, ClaimsType DEF IInv, Claims
<1>2. PICK answer \in Answers :
        LET class == classify(answer)
            next  == Verdict(p, class)
        IN /\ \/ UNCHANGED copies
              \/ class = "retryable" /\ Accept(p, "agents")
           /\ CASE next = "burying" ->
                     Move(p, [publisher[p] EXCEPT !.stage = "burying", !.timeout = PublishTimeout,
                                !.reason = IF class = "rejected" THEN class ELSE "attempts_exhausted"])
                [] next = "releasing" ->
                     Move(p, [publisher[p] EXCEPT !.stage = "releasing", !.timeout = 0,
                                !.read = publisher[p].lease, !.delay = 0, !.fault = TRUE])
                [] next = "retrying" ->
                     \E delay \in Backoff(Claim(p).attempt) : ToStore(p, "retrying", delay)
  BY DEF NotPublished, Answers
<1> DEFINE class == classify(answer)
<1>3. Verdict(p, class) \in {"burying", "releasing", "retrying"}
  BY DEF Verdict
<1>4. /\ UNCHANGED row /\ faults' \in 0..MaxFaults /\ OnlyMore
      /\ copies' \in [Messages -> SUBSET {"agents", "dead"}]
      /\ offers' \in [Messages -> 0..MaxAttempts] /\ offers'[h] > 0
  <2>1. UNCHANGED row /\ faults' \in 0..MaxFaults
    BY FaultCounted DEF NotPublished, IInv
  <2>2. copies' \in [Messages -> SUBSET {"agents", "dead"}] /\ \A m \in Messages : copies[m] \subseteq copies'[m]
    BY <1>1, <1>2, Accepted DEF IInv
  <2>3. /\ offers' \in [Messages -> 0..MaxAttempts] /\ offers'[h] > 0
        /\ \A m \in Messages : offers[m] <= offers'[m]
    <3>1. offers \in [Messages -> 0..MaxAttempts]
      BY DEF IInv, TypeOK
    <3>2. offers' = [offers EXCEPT ![h] = Less(offers[h] + 1, MaxAttempts)]
      BY DEF NotPublished
    <3>3. /\ Less(offers[h] + 1, MaxAttempts) \in 0..MaxAttempts
          /\ Less(offers[h] + 1, MaxAttempts) > 0 /\ Less(offers[h] + 1, MaxAttempts) >= offers[h]
      <4>1. \A n \in 0..MaxAttempts : /\ Less(n + 1, MaxAttempts) \in 0..MaxAttempts
                                     /\ Less(n + 1, MaxAttempts) > 0 /\ Less(n + 1, MaxAttempts) >= n
        BY Config DEF Less
      <4> QED
        BY <1>1, <3>1, <4>1
    <3> HIDE DEF h
    <3> QED
      BY <1>1, <3>1, <3>2, <3>3, Config
  <2> QED
    BY <2>1, <2>2, <2>3 DEF OnlyMore
<1>5. CASE Verdict(p, class) = "burying"
  <2> DEFINE reason == IF class = "rejected" THEN class ELSE "attempts_exhausted"
             r == [publisher[p] EXCEPT !.stage = "burying", !.timeout = PublishTimeout, !.reason = reason]
  <2>1. reason \in {"none", "rejected", "attempts_exhausted"}
    OBVIOUS
  <2> HIDE DEF reason
  <2>2. r \in Cycles /\ r.claims = publisher[p].claims /\ r.lease = publisher[p].lease /\ r.stage = "burying"
    BY <1>1, <2>1, Config DEF Cycles, Stages, SendStages
  <2>3. Move(p, r)
    BY <1>2, <1>5 DEF reason
  <2> HIDE DEF r
  <2> QED
    BY <1>1, <1>4, <2>2, <2>3, MoveIInv DEF InHand, Claim
<1>6. CASE Verdict(p, class) = "releasing"
  <2> DEFINE r == [publisher[p] EXCEPT !.stage = "releasing", !.timeout = 0,
                                       !.read = publisher[p].lease, !.delay = 0, !.fault = TRUE]
  <2>1. r \in Cycles /\ r.claims = publisher[p].claims /\ r.lease = publisher[p].lease /\ r.stage = "releasing"
    BY <1>1, Config DEF Cycles, Stages, StoreStages
  <2>2. Move(p, r)
    BY <1>2, <1>6
  <2> HIDE DEF r
  <2> QED
    BY <1>4, <2>1, <2>2, MoveIInv DEF SendStages
<1>7. CASE Verdict(p, class) = "retrying"
  <2>1. PICK delay \in Backoff(Claim(p).attempt) : ToStore(p, "retrying", delay)
    BY <1>2, <1>7
  <2>2. delay \in 0..2 * BackoffMax
    BY <1>1, BackoffBounded
  <2> QED
    BY <1>1, <1>4, <2>1, <2>2, ToStoreIInv
<1> QED
  BY <1>3, <1>5, <1>6, <1>7

\* A failed burial is retried.
LEMMA NotDeadLetteredIInv ==
  ASSUME IInv, NEW p \in Publishers, NotDeadLettered(p)
  PROVE  IInv'
<1>1. publisher[p].claims # <<>> /\ Claim(p).attempt \in 1..MaxAttempts
  <2>1. publisher[p].claims # <<>>
    BY DEF IInv, CycleInv, CallHasClaim, NotDeadLettered, At, SendStages
  <2> QED
    BY <2>1, ClaimsType DEF IInv, Claims
<1>2. PICK answer \in Answers :
        /\ UNCHANGED copies \/ Accept(p, "dead")
        /\ \E delay \in IF classify(answer) = "rejected" THEN {BackoffMax} ELSE Backoff(Claim(p).attempt) :
             ToStore(p, "retrying", delay)
  BY DEF NotDeadLettered, Answers, AfterFailedBurial
<1>3. PICK delay \in 0..2 * BackoffMax : ToStore(p, "retrying", delay)
  BY <1>1, <1>2, BackoffBounded, Config
<1>4. /\ copies' \in [Messages -> SUBSET {"agents", "dead"}]
      /\ \A m \in Messages : copies[m] \subseteq copies'[m]
  BY <1>1, <1>2, Accepted DEF IInv
<1>5. /\ offers' \in [Messages -> 0..MaxAttempts] /\ UNCHANGED row
      /\ \A m \in Messages : offers[m] <= offers'[m]
  BY Config DEF IInv, TypeOK, NotDeadLettered
<1>6. faults' \in 0..MaxFaults
  BY FaultCounted DEF IInv, NotDeadLettered
<1> QED
  BY <1>1, <1>3, <1>4, <1>5, <1>6, ToStoreIInv DEF OnlyMore

\* A call to the store that deals with the claim in hand.
LEMMA SettleIInv ==
  ASSUME IInv, NEW p \in Publishers, publisher[p].claims # <<>>,
         NEW state \in {"pending", "published"}, NEW wait \in 0..2 * BackoffMax,
         Recorded(p, Settle(InHand(p), state, wait)),
         NEW r \in Cycles, Move(p, r), r.claims = Tail(publisher[p].claims),
         r.lease = publisher[p].lease, r.stage \in {"cycle", "releasing"},
         UNCHANGED <<copies, offers>>
  PROVE  IInv'
<1>1. /\ row' \in [Messages -> Rows] /\ faults' \in 0..MaxFaults
      /\ \A m \in Messages : row[m].state # "absent" => row'[m].state # "absent"
      /\ \A m \in Messages \ {InHand(p)} : row'[m] = row[m]
      /\ \A q \in Publishers \ {p} : KeepsRowsOf(q)
  BY RecordedRow
<1>2. /\ publisher' \in [Publishers -> Cycles] /\ publisher'[p] = r
      /\ \A q \in Publishers \ {p} : publisher'[q] = publisher[q]
  BY DEF Move, IInv, TypeOK, Cycles, Claims
<1>3. TypeOK' /\ OnlyMore
  BY <1>1, <1>2, OnlyMoreUnchanged DEF IInv, TypeOK, Cycles, Claims, Rows
<1>4. OwnRows(p)' /\ DistinctClaims(p)'
  BY <1>1, <1>2, TailOwned
<1>5. CallHasClaim(p)' /\ SendCovered(p)' /\ AcceptedBeforeMark(p)' /\ OfferedBeforeBurial(p)'
  BY <1>2 DEF CallHasClaim, SendCovered, AcceptedBeforeMark, OfferedBeforeBurial, At, SendStages
<1> QED
  BY <1>1, <1>2, <1>3, <1>4, <1>5, CycleStep DEF CycleInv, Keeps

\* The remaining claims of a cycle.
LEMMA TailType ==
  ASSUME IInv, NEW p \in Publishers, publisher[p].claims # <<>>
  PROVE  Tail(publisher[p].claims) \in Seq(Claims)
BY ClaimsType, TailElements DEF IInv

\* The row in hand is marked as published.
LEMMA MarkIInv ==
  ASSUME IInv, NEW p \in Publishers, markPublished(p)
  PROVE  IInv'
<1> DEFINE r == [publisher[p] EXCEPT !.stage = "cycle", !.claims = Tail(publisher[p].claims), !.reason = "none"]
<1>1. publisher[p].claims # <<>> /\ publisher[p] \in Cycles
  BY ClaimsType DEF IInv, CycleInv, CallHasClaim, markPublished, At
<1>2. Tail(publisher[p].claims) \in Seq(Claims)
  BY <1>1, TailType
<1>3. /\ r \in Cycles /\ r.claims = Tail(publisher[p].claims) /\ r.lease = publisher[p].lease
      /\ r.stage = "cycle"
  BY <1>1, <1>2 DEF Cycles, Stages
<1>4. Move(p, r) /\ UNCHANGED <<copies, offers>> /\ Recorded(p, Settle(InHand(p), "published", 0))
  BY DEF markPublished, MarkOutboxPublished, Recorded
<1> HIDE DEF r
<1> QED
  BY <1>1, <1>3, <1>4, SettleIInv, Config

\* The row in hand is to be tried again.
LEMMA RetryIInv ==
  ASSUME IInv, NEW p \in Publishers, retryAfter(p)
  PROVE  IInv'
<1> DEFINE r == [publisher[p] EXCEPT !.stage = "cycle", !.claims = Tail(publisher[p].claims),
                                     !.reason = "none", !.delay = 0]
<1>1. publisher[p].claims # <<>> /\ publisher[p] \in Cycles /\ publisher[p].delay \in 0..2 * BackoffMax
  BY ClaimsType DEF IInv, CycleInv, CallHasClaim, retryAfter, At, Cycles
<1>2. Tail(publisher[p].claims) \in Seq(Claims)
  BY <1>1, TailType
<1>3. /\ r \in Cycles /\ r.claims = Tail(publisher[p].claims) /\ r.lease = publisher[p].lease
      /\ r.stage = "cycle"
  BY <1>1, <1>2, Config DEF Cycles, Stages
<1>4. Move(p, r) /\ UNCHANGED <<copies, offers>> /\ Recorded(p, Settle(InHand(p), "pending", publisher[p].delay))
  BY DEF retryAfter, RetryOutbox, Recorded
<1> HIDE DEF r
<1> QED
  BY <1>1, <1>3, <1>4, SettleIInv

\* The claims that are left are given back, one after the other.
LEMMA ReleaseIInv ==
  ASSUME IInv, NEW p \in Publishers, releaseNow(p)
  PROVE  IInv'
<1>1. publisher[p] \in Cycles /\ publisher[p].delay \in 0..2 * BackoffMax /\ UNCHANGED <<copies, offers>>
  BY ClaimsType DEF IInv, Cycles, releaseNow
<1>2. CASE publisher[p].claims = <<>> /\ EndCycle(p) /\ UNCHANGED <<row, faults>>
  <2>1. PICK stage \in {"idle", "down"} : Move(p, [Idle EXCEPT !.stage = stage])
    BY <1>2 DEF EndCycle
  <2>2. faults' \in 0..MaxFaults
    BY <1>2 DEF IInv, TypeOK
  <2> QED
    BY <1>1, <1>2, <2>1, <2>2, ForgetIInv
<1>3. CASE /\ publisher[p].claims # <<>> /\ Recorded(p, RetryOutbox(p))
           /\ Move(p, [publisher[p] EXCEPT !.claims = Tail(@), !.read = publisher[p].lease])
  <2> DEFINE r == [publisher[p] EXCEPT !.claims = Tail(publisher[p].claims), !.read = publisher[p].lease]
  <2>1. Tail(publisher[p].claims) \in Seq(Claims)
    BY <1>3, TailType
  <2>2. /\ r \in Cycles /\ r.claims = Tail(publisher[p].claims) /\ r.lease = publisher[p].lease
        /\ r.stage = "releasing"
    BY <1>1, <2>1 DEF Cycles, releaseNow, At
  <2>3. Move(p, r) /\ Recorded(p, Settle(InHand(p), "pending", publisher[p].delay))
    BY <1>3 DEF RetryOutbox, Recorded
  <2> HIDE DEF r
  <2> QED
    BY <1>1, <1>3, <2>2, <2>3, SettleIInv
<1> QED
  BY <1>2, <1>3 DEF releaseNow

\* A batch is claimed: only rows that are due change, and they are leased for
\* longer than nothing.
LEMMA ClaimIInv ==
  ASSUME IInv, NEW p \in Publishers, ClaimOutbox(p)
  PROVE  IInv'
<1>1. PICK rows \in Candidates :
        /\ row' = [m \in Messages |-> IF m \in ToSet(rows) THEN Leased(p, m) ELSE row[m]]
        /\ \/ /\ UNCHANGED faults
              /\ Move(p, [Idle EXCEPT !.stage = "claiming", !.lease = ClaimTTL,
                                      !.claims = [i \in DOMAIN rows |->
                                         [message |-> rows[i], attempt |-> Leased(p, rows[i]).attempts]]])
           \/ Fault(1) /\ UNCHANGED publisher
  BY DEF ClaimOutbox
<1>2. PICK n \in 1..Batch : rows \in [1..n -> Messages]
  BY <1>1 DEF Candidates
<1>3. /\ \A i, j \in 1..n : i < j => rows[i] < rows[j]
      /\ \A m \in ToSet(rows) : m \in Messages /\ Due(m)
      /\ \A i \in 1..n : rows[i] \in ToSet(rows)
  BY <1>1, <1>2 DEF Candidates, ToSet
<1>4. row \in [Messages -> Rows] /\ UNCHANGED <<copies, offers>> /\ TypeOK
  BY DEF IInv, TypeOK, Rows, ClaimOutbox
<1>5. ASSUME NEW m \in Messages
      PROVE  /\ Leased(p, m) \in Rows /\ Leased(p, m).attempts \in 1..MaxAttempts
             /\ Leased(p, m).state = "claimed" /\ Leased(p, m).token = p /\ Leased(p, m).lease = ClaimTTL
  <2>1. Less(row[m].attempts + 1, MaxAttempts) \in 1..MaxAttempts
    <3>1. \A k \in 0..MaxAttempts : Less(k + 1, MaxAttempts) \in 1..MaxAttempts
      BY Config DEF Less
    <3> QED
      BY <1>4, <3>1 DEF Rows
  <2>2. Less(row[m].attempts + 1, MaxAttempts) \in 0..MaxAttempts
    BY <2>1, Config
  <2> QED
    BY <1>4, <2>1, <2>2, Config DEF Leased, Rows
<1>6. /\ row' \in [Messages -> Rows]
      /\ \A m \in Messages \ ToSet(rows) : row'[m] = row[m]
      /\ \A m \in ToSet(rows) : /\ row'[m].state = "claimed" /\ row'[m].token = p
                                /\ row'[m].lease = ClaimTTL
  BY <1>1, <1>3, <1>4, <1>5
<1>7. \A q \in Publishers : KeepsRowsOf(q)
  <2> SUFFICES ASSUME NEW q \in Publishers, NEW m \in Messages
               PROVE  /\ row[m].state # "absent" => row'[m].state # "absent"
                      /\ row[m].state = "claimed" /\ row[m].token = q /\ row[m].lease > 0 => row'[m] = row[m]
    BY DEF KeepsRowsOf
  <2>1. CASE m \in ToSet(rows)
    <3>1. ~(row[m].state = "claimed" /\ row[m].lease > 0)
      BY <1>3, <2>1 DEF Due
    <3> QED
      BY <1>6, <2>1, <3>1
  <2> QED
    BY <1>6, <2>1
<1>8. faults' \in 0..MaxFaults /\ OnlyMore
  BY <1>1, <1>4, FaultCounted, OnlyMoreUnchanged
<1>9. CASE Fault(1) /\ UNCHANGED publisher
  <2>1. TypeOK'
    BY <1>4, <1>6, <1>8, <1>9 DEF TypeOK, Rows
  <2>2. \A q \in Publishers : Keeps(q)
    BY <1>7, <1>9 DEF Keeps
  <2> QED
    BY <1>8, <2>1, <2>2, KeptCycle DEF IInv
<1>10. CASE Move(p, [Idle EXCEPT !.stage = "claiming", !.lease = ClaimTTL,
                                 !.claims = [i \in DOMAIN rows |->
                                    [message |-> rows[i], attempt |-> Leased(p, rows[i]).attempts]]])
  <2> DEFINE claims == [i \in 1..n |-> [message |-> rows[i], attempt |-> Leased(p, rows[i]).attempts]]
             r == [Idle EXCEPT !.stage = "claiming", !.lease = ClaimTTL, !.claims = claims]
  <2>1. claims \in Seq(Claims)
    <3>1. \A i \in 1..n : [message |-> rows[i], attempt |-> Leased(p, rows[i]).attempts] \in Claims
      BY <1>2, <1>5 DEF Claims
    <3>2. claims \in [1..n -> Claims] /\ n \in Nat
      BY <3>1, Config
    <3> HIDE DEF claims
    <3> QED
      BY <3>2
  <2>2. /\ DOMAIN claims = 1..n
        /\ \A i \in 1..n : claims[i].message = rows[i]
    OBVIOUS
  <2> HIDE DEF claims
  <2>3. r \in Cycles /\ r.claims = claims /\ r.lease = ClaimTTL /\ r.stage = "claiming"
    BY <2>1, Config DEF Idle, Cycles, Stages, StoreStages
  <2>4. Move(p, r)
    <3>1. DOMAIN rows = 1..n
      BY <1>2
    <3> QED
      BY <1>10, <3>1 DEF claims
  <2> HIDE DEF r
  <2>5. /\ publisher' \in [Publishers -> Cycles] /\ publisher'[p] = r
        /\ \A q \in Publishers \ {p} : publisher'[q] = publisher[q]
    BY <1>4, <2>3, <2>4 DEF Move, TypeOK, Cycles, Claims
  <2>6. TypeOK'
    BY <1>4, <1>6, <1>8, <2>5 DEF TypeOK, Rows, Cycles, Claims
  <2>7. \A q \in Publishers \ {p} : Keeps(q)
    BY <1>7, <2>5 DEF Keeps
  <2>8. OwnRows(p)'
    <3> SUFFICES ASSUME NEW i \in 1..n
                 PROVE  /\ row'[rows[i]].state = "claimed" /\ row'[rows[i]].token = p
                        /\ ClaimTTL <= row'[rows[i]].lease
      BY <2>2, <2>3, <2>5 DEF OwnRows
    <3> QED
      BY <1>3, <1>6, Config
  <2>9. DistinctClaims(p)'
    <3> SUFFICES ASSUME NEW i \in 1..n, NEW j \in 1..n, i # j
                 PROVE  rows[i] # rows[j]
      BY <2>2, <2>3, <2>5 DEF DistinctClaims
    <3>1. rows[i] \in Nat /\ rows[j] \in Nat
      BY <1>2, Config
    <3>2. i < j \/ j < i
      OBVIOUS
    <3> QED
      BY <1>3, <3>1, <3>2
  <2>10. CallHasClaim(p)' /\ SendCovered(p)' /\ AcceptedBeforeMark(p)' /\ OfferedBeforeBurial(p)'
    BY <2>3, <2>5 DEF CallHasClaim, SendCovered, AcceptedBeforeMark, OfferedBeforeBurial, At, SendStages
  <2> QED
    BY <1>8, <2>6, <2>7, <2>8, <2>9, <2>10, CycleStep DEF CycleInv
<1> QED
  BY <1>1, <1>9, <1>10

\* A row is committed: no cycle has it yet.
LEMMA CommitIInv ==
  ASSUME IInv, NEW m \in Messages, Commit(m)
  PROVE  IInv'
<1>1. PICK writer \in Writers : row' = [row EXCEPT ![m].state = "pending", ![m].writer = writer]
  BY DEF Commit
<1> DEFINE committed == [row[m] EXCEPT !.state = "pending", !.writer = writer]
<1>2. row \in [Messages -> Rows] /\ row[m].state = "absent" /\ UNCHANGED <<publisher, copies, offers, faults>>
  BY DEF IInv, TypeOK, Rows, Commit
<1>3. committed \in Rows /\ committed.state = "pending"
  BY <1>2 DEF Rows
<1>4. row' = [row EXCEPT ![m] = committed]
  BY <1>1
<1> HIDE DEF committed
<1>5. row' \in [Messages -> Rows] /\ row'[m].state = "pending" /\ \A o \in Messages \ {m} : row'[o] = row[o]
  BY <1>2, <1>3, <1>4
<1>6. TypeOK' /\ OnlyMore
  BY <1>2, <1>5, OnlyMoreUnchanged DEF IInv, TypeOK, Rows
<1>7. \A q \in Publishers : Keeps(q)
  BY <1>2, <1>5 DEF Keeps, KeepsRowsOf
<1> QED
  BY <1>6, <1>7, KeptCycle DEF IInv

\* What is left of a time that passes.
LEMMA OlderTime ==
  ASSUME NEW bound \in Nat, NEW t \in 0..bound
  PROVE  Older(t) \in 0..bound /\ Older(t) <= t /\ \A u \in Nat : t <= u => Older(t) <= Older(u)
BY DEF Older

\* Time passes alike for a row's lease, a cycle's lease and a call's timeout.
LEMMA TickIInv ==
  ASSUME IInv, Tick
  PROVE  IInv'
<1>1. /\ row \in [Messages -> Rows] /\ publisher \in [Publishers -> Cycles]
      /\ UNCHANGED <<copies, offers>> /\ TypeOK /\ 2 * BackoffMax \in Nat
  <2>1. TypeOK /\ UNCHANGED <<copies, offers>>
    BY DEF IInv, Tick
  <2>2. row \in [Messages -> Rows] /\ publisher \in [Publishers -> Cycles]
    BY <2>1 DEF TypeOK, Rows, Cycles, Claims
  <2> QED
    BY <2>1, <2>2, Config
<1>2. ASSUME NEW m \in Messages
      PROVE  /\ row'[m] \in Rows /\ row'[m].state = row[m].state /\ row'[m].token = row[m].token
             /\ row'[m].lease = Older(row[m].lease)
  <2>1. row'[m] = [row[m] EXCEPT !.lease = Older(row[m].lease), !.wait = Older(row[m].wait)]
    BY DEF Tick
  <2>2. row[m] \in Rows /\ row[m].lease \in 0..ClaimTTL /\ row[m].wait \in 0..2 * BackoffMax
    BY <1>1 DEF Rows
  <2>3. Older(row[m].lease) \in 0..ClaimTTL /\ Older(row[m].wait) \in 0..2 * BackoffMax
    BY <1>1, <2>2, OlderTime, Config
  <2> QED
    BY <2>1, <2>2, <2>3 DEF Rows
<1>3. ASSUME NEW p \in Publishers
      PROVE  /\ publisher'[p] \in Cycles /\ publisher'[p].claims = publisher[p].claims
             /\ publisher'[p].stage = publisher[p].stage
             /\ publisher'[p].lease = Older(publisher[p].lease)
             /\ publisher'[p].timeout = Older(publisher[p].timeout)
  <2> DEFINE c == publisher[p]
  <2>1. publisher'[p] = [c EXCEPT !.lease = Older(c.lease), !.timeout = Older(c.timeout),
                                  !.delay = Older(c.delay)]
    BY DEF Tick
  <2>2. /\ c \in Cycles /\ c.lease \in 0..ClaimTTL /\ c.timeout \in 0..PublishTimeout
        /\ c.delay \in 0..2 * BackoffMax
    BY <1>1 DEF Cycles
  <2>3. /\ Older(c.lease) \in 0..ClaimTTL /\ Older(c.timeout) \in 0..PublishTimeout
        /\ Older(c.delay) \in 0..2 * BackoffMax
    BY <1>1, <2>2, OlderTime, Config
  <2> HIDE DEF c
  <2>4. /\ publisher'[p] \in Cycles /\ publisher'[p].claims = c.claims /\ publisher'[p].stage = c.stage
        /\ publisher'[p].lease = Older(c.lease) /\ publisher'[p].timeout = Older(c.timeout)
    BY <2>1, <2>2, <2>3 DEF Cycles
  <2> QED
    BY <2>4 DEF c
<1>4. row' \in [Messages -> Rows] /\ publisher' \in [Publishers -> Cycles]
  BY <1>2, <1>3 DEF Tick
<1>5. faults' \in 0..MaxFaults
  BY <1>1, FaultCounted DEF Tick
<1>6. TypeOK'
  BY <1>1, <1>4, <1>5 DEF TypeOK, Rows, Cycles, Claims
<1> SUFFICES ASSUME NEW p \in Publishers PROVE CycleInv(p)'
  BY <1>6 DEF IInv
<1>7. CycleInv(p) /\ publisher[p] \in Cycles
  BY <1>1 DEF IInv
<1>8. OwnRows(p)'
  <2> SUFFICES ASSUME NEW i \in DOMAIN publisher[p].claims
               PROVE  LET m == publisher[p].claims[i].message
                      IN /\ row'[m].state # "absent"
                         /\ publisher'[p].lease > 0 =>
                              /\ row'[m].state = "claimed" /\ row'[m].token = p
                              /\ publisher'[p].lease <= row'[m].lease
    BY <1>3 DEF OwnRows
  <2> DEFINE m == publisher[p].claims[i].message
  <2>1. m \in Messages
    BY <1>1, ClaimsType
  <2>2. /\ row[m].state # "absent"
        /\ publisher[p].lease > 0 =>
             row[m].state = "claimed" /\ row[m].token = p /\ publisher[p].lease <= row[m].lease
    BY <1>7 DEF CycleInv, OwnRows
  <2> HIDE DEF m
  <2>3. publisher[p].lease \in 0..ClaimTTL /\ row[m].lease \in 0..ClaimTTL /\ row[m].lease \in Nat
    BY <1>1, <2>1, Config DEF Rows, Cycles
  <2>4. /\ Older(publisher[p].lease) <= publisher[p].lease /\ Older(publisher[p].lease) \in 0..ClaimTTL
        /\ publisher[p].lease <= row[m].lease => Older(publisher[p].lease) <= Older(row[m].lease)
    BY <2>3, OlderTime, Config
  <2>5. Older(publisher[p].lease) > 0 => publisher[p].lease > 0
    BY <2>3, <2>4
  <2> QED
    BY <1>2, <1>3, <2>1, <2>2, <2>4, <2>5 DEF m
<1>9. SendCovered(p)'
  <2>1. publisher[p].timeout \in 0..PublishTimeout /\ publisher[p].lease \in Nat
    BY <1>7, Config DEF Cycles
  <2>2. publisher[p].timeout <= publisher[p].lease => Older(publisher[p].timeout) <= Older(publisher[p].lease)
    BY <2>1, OlderTime, Config
  <2> QED
    BY <1>3, <1>7, <2>2 DEF CycleInv, SendCovered, At
<1>10. DistinctClaims(p)' /\ CallHasClaim(p)' /\ AcceptedBeforeMark(p)' /\ OfferedBeforeBurial(p)'
  BY <1>1, <1>3, <1>7
     DEF CycleInv, DistinctClaims, CallHasClaim, AcceptedBeforeMark, OfferedBeforeBurial, At, InHand, Claim
<1> QED
  BY <1>8, <1>9, <1>10 DEF CycleInv

-----------------------------------------------------------------------------
(* The theorems.                                                           *)

\* Nothing is committed or claimed to begin with.
LEMMA InitIInv == Init => IInv
<1> SUFFICES ASSUME Init PROVE IInv
  OBVIOUS
<1>1. Absent \in Rows
  BY Config DEF Absent, Rows
<1>2. Idle \in Cycles /\ Idle.claims = <<>> /\ Idle.stage = "idle"
  <2>1. <<>> \in Seq(Claims)
    OBVIOUS
  <2> QED
    BY <2>1, Config DEF Idle, Cycles, Stages
<1>3. TypeOK
  <2>1. row \in [Messages -> Rows] /\ publisher \in [Publishers -> Cycles]
    BY <1>1, <1>2 DEF Init
  <2>2. /\ copies \in [Messages -> SUBSET {"agents", "dead"}] /\ offers \in [Messages -> 0..MaxAttempts]
        /\ faults \in 0..MaxFaults
    BY Config DEF Init
  <2> QED
    BY <2>1, <2>2 DEF TypeOK, Rows, Cycles, Claims
<1>4. ASSUME NEW p \in Publishers
      PROVE  CycleInv(p)
  <2>1. publisher[p].claims = <<>> /\ publisher[p].stage = "idle"
    BY <1>2 DEF Init
  <2> QED
    BY <2>1 DEF CycleInv, OwnRows, DistinctClaims, CallHasClaim, SendCovered, AcceptedBeforeMark,
                OfferedBeforeBurial, At, SendStages
<1> QED
  BY <1>3, <1>4 DEF IInv

\* Every step keeps the invariant.
LEMMA NextIInv == IInv /\ [Next]_vars => IInv'
<1> SUFFICES ASSUME IInv, [Next]_vars PROVE IInv'
  OBVIOUS
<1>1. CASE UNCHANGED vars
  <2>1. TypeOK' /\ OnlyMore /\ \A q \in Publishers : Keeps(q)
    BY <1>1, OnlyMoreUnchanged DEF vars, IInv, TypeOK, Keeps, KeepsRowsOf
  <2> QED
    BY <2>1, KeptCycle DEF IInv
<1>2. ASSUME NEW p \in Publishers, Cycle(p)
      PROVE  IInv'
  BY <1>2, ClaimIInv, ClaimsArriveIInv, NextClaimIInv, PublishedIInv, NotPublishedIInv, DeadLetteredIInv,
     NotDeadLetteredIInv, MarkIInv, RetryIInv, ReleaseIInv DEF Cycle
<1>3. ASSUME NEW p \in Publishers, Cancel(p) \/ Crash(p) \/ Start(p)
      PROVE  IInv'
  BY <1>3, CancelIInv, CrashIInv, StartIInv
<1> QED
  BY <1>1, <1>2, <1>3, CommitIInv, TickIInv DEF Next

\* The invariant of every reachable state.
THEOREM Invariant == Spec => []IInv
<1>1. Init => IInv
  BY InitIInv
<1>2. IInv /\ [Next]_vars => IInv'
  BY NextIInv
<1> QED
  BY <1>1, <1>2, PTL DEF Spec

\* Every variable of the outbox keeps its type.
THEOREM TypeCorrect == Spec => []TypeOK
<1>1. IInv => TypeOK
  BY DEF IInv
<1> QED
  BY <1>1, Invariant, PTL

\* leaseCovers: a send still within its timeout is covered by its cycle's lease,
\* the lease by the row's, and the row names one publisher.
LEMMA OneDelivery == IInv => OneDeliveryAtATime
<1> SUFFICES ASSUME IInv, NEW p \in Publishers, NEW q \in Publishers, p # q,
                    At(p, "sending"), At(q, "sending"),
                    publisher[p].timeout > 0, publisher[q].timeout > 0
             PROVE  InHand(p) # InHand(q)
  BY DEF OneDeliveryAtATime
<1>1. ASSUME NEW r \in Publishers, At(r, "sending"), publisher[r].timeout > 0
      PROVE  row[InHand(r)].token = r
  <2>1. publisher[r].claims # <<>> /\ publisher[r].timeout <= publisher[r].lease /\ OwnRows(r)
    BY <1>1 DEF IInv, CycleInv, CallHasClaim, SendCovered, At, SendStages
  <2>2. publisher[r].timeout \in Nat /\ publisher[r].lease \in Nat
    BY ClaimsType, Config DEF IInv, Cycles
  <2>3. publisher[r].lease > 0
    BY <1>1, <2>1, <2>2
  <2>4. 1 \in DOMAIN publisher[r].claims /\ InHand(r) = publisher[r].claims[1].message
    BY <2>1, ClaimsType DEF IInv
  <2> QED
    BY <2>1, <2>3, <2>4 DEF OwnRows
<1> QED
  BY <1>1

\* A row is in flight to the agent queue, within its timeout, at one publisher.
THEOREM DeliveriesApart == Spec => []OneDeliveryAtATime
BY OneDelivery, Invariant, PTL

\* deliver: no row is buried that was not offered, and refused, before.
THEOREM NothingBuriedUnoffered == Spec => []BuriedAfterOffer
<1>1. IInv => BuriedAfterOffer
  BY DEF IInv, CycleInv, OfferedBeforeBurial, BuriedAfterOffer
<1> QED
  BY <1>1, Invariant, PTL

-----------------------------------------------------------------------------
(* The outbox implements Delivery.                                         *)

\* What the promise sees of a row.
Seen(m) == CASE row[m].state = "absent" -> "absent"
             [] row[m].state = "published" -> "closed"
             [] OTHER -> "owed"

\* A step that the promise does not see.
LEMMA Unseen ==
  ASSUME \A m \in Messages : Seen(m)' = Seen(m), UNCHANGED copies
  PROVE  UNCHANGED Promise!dvars
BY DEF Promise!dvars, Seen

\* A claim, a retry, a release and the clock leave a row as owed as it was.
LEMMA StillOwed ==
  ASSUME NEW m \in Messages,
         \/ row'[m].state = row[m].state
         \/ row[m].state \in {"pending", "claimed"} /\ row'[m].state \in {"pending", "claimed"}
  PROVE  Seen(m)' = Seen(m)
BY DEF Seen

\* Only rows that were due are claimed.
LEMMA ClaimUnseen ==
  ASSUME IInv, NEW p \in Publishers, ClaimOutbox(p)
  PROVE  UNCHANGED Promise!dvars
<1>1. PICK rows \in Candidates :
        row' = [m \in Messages |-> IF m \in ToSet(rows) THEN Leased(p, m) ELSE row[m]]
  BY DEF ClaimOutbox
<1>2. \A m \in ToSet(rows) : Due(m)
  BY <1>1 DEF Candidates, ToSet
<1>3. ASSUME NEW m \in Messages
      PROVE  Seen(m)' = Seen(m)
  <2>1. row[m] \in Rows
    BY DEF IInv, TypeOK, Rows
  <2>2. CASE m \in ToSet(rows)
    <3>1. row'[m].state = "claimed" /\ row[m].state \in {"pending", "claimed"}
      BY <1>1, <1>2, <2>1, <2>2 DEF Leased, Due, Rows
    <3> QED
      BY <3>1, StillOwed
  <2>3. CASE m \notin ToSet(rows)
    BY <1>1, <2>3, StillOwed
  <2> QED
    BY <2>2, <2>3
<1> QED
  BY <1>3, Unseen DEF ClaimOutbox

\* A retry gives back a row that was claimed.
LEMMA RetryUnseen ==
  ASSUME IInv, NEW p \in Publishers, publisher[p].claims # <<>>,
         Recorded(p, RetryOutbox(p)), UNCHANGED copies
  PROVE  UNCHANGED Promise!dvars
<1> DEFINE h == InHand(p)
<1>1. h \in Messages /\ row \in [Messages -> Rows]
  BY ClaimsType DEF IInv, TypeOK, Rows
<1>2. CASE UNCHANGED row
  BY <1>2, StillOwed, Unseen
<1>3. CASE Holds(p) /\ RetryOutbox(p)
  <2>1. row[h].state = "claimed" /\ row' = [row EXCEPT ![h].state = "pending", ![h].token = Nobody,
                                                       ![h].lease = 0, ![h].wait = publisher[p].delay]
    BY <1>3 DEF Holds, RetryOutbox, Settle
  <2> HIDE DEF h
  <2>2. row'[h].state = "pending" /\ \A m \in Messages \ {h} : row'[m] = row[m]
    BY <1>1, <2>1 DEF Rows
  <2>3. \A m \in Messages : Seen(m)' = Seen(m)
    BY <2>1, <2>2, StillOwed
  <2> QED
    BY <2>3, Unseen
<1> QED
  BY <1>2, <1>3 DEF Recorded

\* A queue's acceptance hands over a message whose row was committed.
LEMMA AcceptHands ==
  ASSUME IInv, NEW p \in Publishers, publisher[p].claims # <<>>, UNCHANGED row,
         NEW queue \in {"agents", "dead"}, Accept(p, queue)
  PROVE  Promise!DNext
<1> DEFINE h == InHand(p)
<1>1. h \in Messages /\ row[h].state # "absent"
  BY ClaimsType DEF IInv, CycleInv, OwnRows
<1>2. copies' = [copies EXCEPT ![h] = copies[h] \cup {queue}]
  BY DEF Accept
<1>3. Seen(h) # "absent" /\ \A m \in Messages : Seen(m)' = Seen(m)
  BY <1>1 DEF Seen
<1> HIDE DEF h
<1>4. Promise!Hand(h, queue)
  BY <1>1, <1>2, <1>3 DEF Promise!Hand, Seen
<1> QED
  BY <1>1, <1>4 DEF Promise!DNext, Promise!Queues

\* A row is marked published once: it was owed, and a queue has its message.
LEMMA MarkCloses ==
  ASSUME IInv, NEW p \in Publishers, markPublished(p)
  PROVE  [Promise!DNext]_(Promise!dvars)
<1>1. PICK h \in Messages :
        /\ h = InHand(p) /\ row \in [Messages -> Rows] /\ copies[h] # {} /\ UNCHANGED copies
  <2>1. publisher[p].claims # <<>> /\ copies[InHand(p)] # {} /\ UNCHANGED copies
    BY DEF IInv, CycleInv, CallHasClaim, AcceptedBeforeMark, markPublished, At
  <2> QED
    BY <2>1, ClaimsType DEF IInv, TypeOK, Rows
<1>2. CASE UNCHANGED row
  BY <1>1, <1>2, StillOwed, Unseen
<1>3. CASE Holds(p) /\ MarkOutboxPublished(p)
  <2>1. row[h].state = "claimed" /\ row' = [row EXCEPT ![h].state = "published", ![h].token = Nobody,
                                                       ![h].lease = 0, ![h].wait = 0]
    BY <1>1, <1>3 DEF Holds, MarkOutboxPublished, Settle
  <2>2. row'[h].state = "published" /\ \A m \in Messages \ {h} : row'[m] = row[m]
    BY <1>1, <2>1 DEF Rows
  <2>3. Seen(h) = "owed" /\ Seen(h)' = "closed" /\ \A m \in Messages \ {h} : Seen(m)' = Seen(m)
    BY <1>1, <2>1, <2>2 DEF Seen
  <2>4. [m \in Messages |-> Seen(m)]' = [[m \in Messages |-> Seen(m)] EXCEPT ![h] = "closed"]
    BY <1>1, <2>3
  <2>5. Promise!Close(h)
    BY <1>1, <2>3, <2>4 DEF Promise!Close, Seen
  <2> QED
    BY <1>1, <2>5 DEF Promise!DNext
<1> QED
  BY <1>2, <1>3 DEF Recorded, markPublished

\* A commit owes its message.
LEMMA CommitOwes ==
  ASSUME IInv, NEW m \in Messages, Commit(m)
  PROVE  Promise!DNext
<1>1. PICK writer \in Writers : row' = [row EXCEPT ![m].state = "pending", ![m].writer = writer]
  BY DEF Commit
<1>2. row \in [Messages -> Rows] /\ row[m].state = "absent" /\ UNCHANGED copies
  BY DEF IInv, TypeOK, Rows, Commit
<1>3. row'[m].state = "pending" /\ \A o \in Messages \ {m} : row'[o] = row[o]
  BY <1>1, <1>2 DEF Rows
<1>4. Seen(m) = "absent" /\ Seen(m)' = "owed" /\ \A o \in Messages \ {m} : Seen(o)' = Seen(o)
  BY <1>2, <1>3 DEF Seen
<1>5. [o \in Messages |-> Seen(o)]' = [[o \in Messages |-> Seen(o)] EXCEPT ![m] = "owed"]
  BY <1>4
<1>6. Promise!Owe(m)
  BY <1>2, <1>4, <1>5 DEF Promise!Owe, Seen
<1> QED
  BY <1>6 DEF Promise!DNext

\* Every step of the outbox is a step of the promise, or none.
LEMMA StepPromised == IInv /\ [Next]_vars => [Promise!DNext]_(Promise!dvars)
<1> SUFFICES ASSUME IInv, [Next]_vars PROVE [Promise!DNext]_(Promise!dvars)
  OBVIOUS
<1>1. ASSUME UNCHANGED <<row, copies>>
      PROVE  UNCHANGED Promise!dvars
  BY <1>1, StillOwed, Unseen
<1>2. ASSUME NEW p \in Publishers, Cycle(p)
      PROVE  [Promise!DNext]_(Promise!dvars)
  <2>1. CASE ClaimOutbox(p)
    BY <2>1, ClaimUnseen
  <2>2. CASE ClaimsArrive(p) \/ NextClaim(p)
    BY <1>1, <2>2 DEF ClaimsArrive, NextClaim
  <2>3. ASSUME Published(p) \/ NotPublished(p) \/ DeadLettered(p) \/ NotDeadLettered(p)
        PROVE  [Promise!DNext]_(Promise!dvars)
    <3>1. publisher[p].claims # <<>> /\ UNCHANGED row
      BY <2>3 DEF IInv, CycleInv, CallHasClaim, Published, NotPublished, DeadLettered, NotDeadLettered,
                  At, SendStages
    <3>2. UNCHANGED copies \/ \E queue \in {"agents", "dead"} : Accept(p, queue)
      BY <2>3 DEF Published, NotPublished, DeadLettered, NotDeadLettered
    <3> QED
      BY <1>1, <3>1, <3>2, AcceptHands
  <2>4. CASE markPublished(p)
    BY <2>4, MarkCloses
  <2>5. CASE retryAfter(p)
    <3>1. publisher[p].claims # <<>> /\ Recorded(p, RetryOutbox(p)) /\ UNCHANGED copies
      BY <2>5 DEF IInv, CycleInv, CallHasClaim, retryAfter, At
    <3> QED
      BY <3>1, RetryUnseen
  <2>6. CASE releaseNow(p)
    BY <1>1, <2>6, RetryUnseen DEF releaseNow
  <2> QED
    BY <1>2, <2>1, <2>2, <2>3, <2>4, <2>5, <2>6 DEF Cycle
<1>3. ASSUME Tick
      PROVE  UNCHANGED Promise!dvars
  <2>1. \A m \in Messages : row'[m].state = row[m].state
    <3>1. row \in [Messages -> Rows]
      BY DEF IInv, TypeOK, Rows
    <3>2. ASSUME NEW m \in Rows, NEW s, NEW t
          PROVE  [m EXCEPT !.lease = s, !.wait = t].state = m.state
      BY DEF Rows
    <3>3. row' = [m \in Messages |-> [row[m] EXCEPT !.lease = Older(row[m].lease),
                                                   !.wait = Older(row[m].wait)]]
      BY <1>3 DEF Tick
    <3> SUFFICES ASSUME NEW m \in Messages
                 PROVE  row'[m].state = row[m].state
      OBVIOUS
    <3>4. PICK r, s, t :
            r \in Rows /\ r = row[m] /\ s = Older(row[m].lease) /\ t = Older(row[m].wait)
      BY <3>1
    <3>5. row'[m] = [r EXCEPT !.lease = s, !.wait = t]
      BY <3>3, <3>4
    <3> QED
      BY <3>2, <3>4, <3>5
  <2> QED
    BY <1>3, <2>1, StillOwed, Unseen DEF Tick
<1>4. ASSUME NEW p \in Publishers, Cancel(p) \/ Crash(p) \/ Start(p)
      PROVE  UNCHANGED Promise!dvars
  BY <1>1, <1>4 DEF Cancel, Crash, Start
<1>5. CASE UNCHANGED vars
  BY <1>1, <1>5 DEF vars
<1> QED
  BY <1>2, <1>3, <1>4, <1>5, CommitOwes DEF Next

\* Every committed row is owed until a queue has accepted its message.
THEOREM KeepsPromise == Spec => DeliverySpec
<1>1. Init => Promise!DInit
  BY DEF Init, Promise!DInit, Absent
<1>2. IInv /\ [Next]_vars => [Promise!DNext]_(Promise!dvars)
  BY StepPromised
<1> QED
  BY <1>1, <1>2, Invariant, PTL DEF Spec, DeliverySpec, Promise!DSpec

=============================================================================
