------------------------------- MODULE Journal -------------------------------
(***************************************************************************)
(* The durable boundary of static-log-analysis: journal.Journal, a Pebble  *)
(* key space in which every operation is one synchronized atomic batch.    *)
(*                                                                         *)
(* Each variable below "healthy" is one namespace of the key space.  The   *)
(* index namespaces are kept separately from the records, because verify() *)
(* refuses to open a volume on which they disagree.  An operation that     *)
(* returns an error without writing anything is a stuttering step.         *)
(*                                                                         *)
(* A definition directly above the one it is a slip of, such as            *)
(* LapsedKeysLost above LapsedKeys, is that definition's mutant: the       *)
(* specification does not use it.                                          *)
(***************************************************************************)
EXTENDS Naturals, FiniteSets, Functions

CONSTANTS
  Records,              \* record ids
  Batches,              \* batch ids a source may append under
  Semantics,            \* semantic digests of durable envelopes
  Priorities,           \* admission priorities; lower is claimed first
  Owners,               \* claim owners (one worker identity each)
  None,                 \* an absent key, owner or token
  Legacy,               \* a JQV1 tombstone, which carries no identity
  ClaimTTL, SafetyDelay,
  MaxBatchRefs,         \* Config.MaxBatchRefs
  MaxTransitionRecords, \* transitions one Claim or Compact may make
  MaxBytes,             \* Config.MaxBytes
  EnvelopeCost, IndexCost, OwnerCost, TokenCost, ReserveCost, TombstoneCost,
  BatchCost, MemberCost, LiveCost, \* a batch key, and each id in either of its lists
  MaxTime               \* bound on the clock, for model checking

Identities == [semantic : Semantics, priority : Priorities]
Tokens     == [owner : Owners, attempt : Nat, expiry : Nat]
States     == {"pending", "claimed", "committed"}

\* storedRecord: what the value of a record key decodes to.
Stored == [state       : States,
           identity    : Identities,
           attempt     : Nat,
           owner       : Owners \cup {None},
           expiry      : Nat,
           token       : Tokens \cup {None},
           committedAt : Nat]

\* The members a batch was first appended with, and those still in the journal.
Members == UNION {[ids -> Identities] : ids \in (SUBSET Records) \ {{}}}
Batch   == [original : Members, live : SUBSET Records]

ASSUME FiniteAssumption == IsFiniteSet(Records) /\ IsFiniteSet(Batches)
ASSUME NoneAssumption ==
  /\ None \notin Stored \cup Batch \cup Identities \cup Tokens \cup Owners
  /\ Legacy \notin Identities \cup {None}
ASSUME ConfigAssumption ==
  /\ Priorities \subseteq Nat
  /\ ClaimTTL \in Nat \ {0} /\ SafetyDelay \in Nat \ {0}
  /\ MaxBatchRefs \in Nat \ {0} /\ MaxTransitionRecords \in Nat \ {0}
  /\ MaxBytes \in Nat /\ MaxTime \in Nat
ASSUME CostAssumption ==
  /\ {EnvelopeCost, IndexCost, OwnerCost, TokenCost, ReserveCost, TombstoneCost,
      BatchCost, MemberCost, LiveCost} \subseteq Nat
  /\ OwnerCost + TokenCost <= ReserveCost     \* types.go, transitionReserveBytes
  /\ TombstoneCost <= EnvelopeCost

VARIABLES
  healthy,       \* FALSE once a commit failed, until the volume is reopened
  now,           \* Config.Clock
  record,        \* nsRecord
  tombstone,     \* nsQuarantine
  batch,         \* nsBatch
  pendingKeys,   \* nsPending:   <<priority, id>>
  claimKeys,     \* nsClaim:     <<expiry, id>>
  committedKeys, \* nsCommitted: <<committedAt, id>>
  reserves,      \* nsTransitionReserve
  batchRefs,     \* nsBatchRef:         <<id, batch>>
  originalRefs,  \* nsBatchOriginalRef: <<id, batch>>
  priorities,    \* the persisted per-priority counts
  bytes,         \* the persisted usage: what every mutation so far has charged
  owed,          \* history: acknowledged and neither committed nor quarantined
  issued         \* history: every token a claim or a renewal has handed out

keyspace == <<record, tombstone, batch, pendingKeys, claimKeys, committedKeys,
              reserves, batchRefs, originalRefs, priorities, bytes>>
vars == <<healthy, now, keyspace, owed, issued>>

-----------------------------------------------------------------------------
(* The key space as the operations read it.                                *)

Held(r)      == record[r] # None
InState(r, s) == Held(r) /\ record[r].state = s
History(r)   == {b \in Batches : <<r, b>> \in originalRefs}
LiveRefs(r)  == {b \in Batches : <<r, b>> \in batchRefs}

\* claimToken: the digest over owner, id, attempt and expiry, per record.
claimTokenUntimed(owner, attempt, expiry) ==
  [owner |-> owner, attempt |-> attempt, expiry |-> 0]
claimToken(owner, attempt, expiry) ==
  [owner |-> owner, attempt |-> attempt, expiry |-> expiry]

\* The subsets an index iteration may return: at most n members of S, lowest
\* rank first.  Ties (received time and id in the code) are left open.
Firsts(S, n, rank) ==
  {T \in SUBSET S :
     /\ Cardinality(T) = (IF Cardinality(S) < n THEN Cardinality(S) ELSE n)
     /\ \A x \in T, y \in S \ T : rank[x] <= rank[y]}

\* The accounted bytes: the cost of every key and value in the key space.
StateCost(stored) ==
  EnvelopeCost + IndexCost + (IF stored.owner # None THEN OwnerCost ELSE 0)
               + (IF stored.token # None THEN TokenCost ELSE 0)
RecordCosts == [r \in Records |-> IF Held(r) THEN StateCost(record[r])
                                 ELSE IF tombstone[r] # None THEN TombstoneCost ELSE 0]
BatchCosts == [b \in Batches |->
  IF batch[b] = None THEN 0
  ELSE BatchCost + MemberCost * Cardinality(DOMAIN batch[b].original)
                 + LiveCost * Cardinality(batch[b].live)]
usage == SumFunctionOnSet(RecordCosts, Records) + SumFunctionOnSet(BatchCosts, Batches)
         + ReserveCost * Cardinality(reserves)
         + IndexCost * (Cardinality(batchRefs) + Cardinality(originalRefs))

-----------------------------------------------------------------------------
(* Open: what verify() requires of the whole key space.                    *)

\* decodeStored: the fields a record may carry in each state.
Decodes(stored) ==
  \/ /\ stored.state = "pending"
     /\ stored.owner = None /\ stored.token = None /\ stored.expiry = 0 /\ stored.committedAt = 0
  \/ /\ stored.state = "claimed" /\ stored.attempt > 0
     /\ stored.owner \in Owners /\ stored.token \in Tokens /\ stored.committedAt = 0
  \/ /\ stored.state = "committed" /\ stored.attempt > 0
     /\ stored.owner = None /\ stored.token \in Tokens /\ stored.expiry = 0

\* Every record decodes and is in exactly the index of its state, under the key
\* its own fields derive, holds a transition reserve exactly while pending, and
\* a claim's token is the one its owner, attempt and expiry derive.
IndexesAgree ==
  /\ \A r \in Records : Held(r) => Decodes(record[r])
  /\ pendingKeys = {<<record[r].identity.priority, r>> : r \in {q \in Records : InState(q, "pending")}}
  /\ claimKeys = {<<record[r].expiry, r>> : r \in {q \in Records : InState(q, "claimed")}}
  /\ committedKeys = {<<record[r].committedAt, r>> : r \in {q \in Records : InState(q, "committed")}}
  /\ reserves = {r \in Records : InState(r, "pending")}
  /\ \A r \in Records : InState(r, "claimed") =>
        record[r].token = claimToken(record[r].owner, record[r].attempt, record[r].expiry)

\* Batch metadata, both reference namespaces, records and tombstones tell one
\* story: no record is also quarantined, none is without a batch, a live member
\* is exactly what it was appended as, and no retained original member is
\* contradicted by the record now stored under its id.
BatchesAgree ==
  /\ \A r \in Records : Held(r) => tombstone[r] = None /\ LiveRefs(r) # {}
  /\ \A b \in Batches : batch[b] # None =>
        /\ batch[b].live # {}
        /\ batch[b].live \subseteq DOMAIN batch[b].original
        /\ \A r \in batch[b].live : Held(r)
        /\ \A r \in DOMAIN batch[b].original :
              Held(r) => record[r].identity = batch[b].original[r]
  /\ batchRefs = {rb \in Records \X Batches : batch[rb[2]] # None /\ rb[1] \in batch[rb[2]].live}
  /\ originalRefs = {rb \in Records \X Batches :
                       batch[rb[2]] # None /\ rb[1] \in DOMAIN batch[rb[2]].original}

\* The maintained counts and the reference limits.
CountsAgree ==
  /\ \A p \in Priorities :
        priorities[p] = Cardinality({r \in Records : Held(r) /\ record[r].identity.priority = p})
  /\ \A r \in Records : Cardinality(History(r)) <= MaxBatchRefs

\* The manifest: the counts, and the bytes charged one mutation at a time, are
\* those of the keys and values found on the volume.
CountersAgree == CountsAgree /\ bytes = usage

verify == IndexesAgree /\ BatchesAgree /\ CountersAgree

-----------------------------------------------------------------------------
(* The operations.  A commit that fails either left the batch off the disk *)
(* (CommitFails) or had already made it durable (healthy' = FALSE below);  *)
(* both leave the journal unavailable and the caller without an answer.    *)

\* What each operation makes of a stored record: admitted, claimed, renewed,
\* lapsed back to pending, committed.
newRecord(identity) ==
  [state |-> "pending", identity |-> identity, attempt |-> 0, owner |-> None,
   expiry |-> 0, token |-> None, committedAt |-> 0]
Granted(stored, owner, expiry) ==
  [stored EXCEPT !.state = "claimed", !.attempt = @ + 1, !.owner = owner, !.expiry = expiry,
                 !.token = claimToken(owner, stored.attempt + 1, expiry)]
Renewed(stored, expiry) ==
  [stored EXCEPT !.expiry = expiry, !.token = claimToken(stored.owner, stored.attempt, expiry)]
Lapsed(stored) ==
  [stored EXCEPT !.state = "pending", !.owner = None, !.token = None, !.expiry = 0]
Retired(stored, at) ==
  [stored EXCEPT !.state = "committed", !.committedAt = at, !.owner = None, !.expiry = 0]

\* An exact replay of a batch the journal still knows: acknowledged as it is.
ReplaysById(b, members) == batch[b] # None /\ DOMAIN batch[b].original = DOMAIN members
Replays(b, members) == batch[b] # None /\ batch[b].original = members

\* validateHistoricalIdentity, the stored record and the tombstone, in turn.
AdmissibleForgetful(r, identity) ==
  /\ Cardinality(History(r)) < MaxBatchRefs
  /\ Held(r) => record[r].identity = identity /\ Cardinality(LiveRefs(r)) < MaxBatchRefs
  /\ tombstone[r] \in {None, Legacy, identity}
Admissible(r, identity) ==
  /\ \A b \in History(r) : batch[b].original[r] = identity
  /\ Cardinality(History(r)) < MaxBatchRefs
  /\ Held(r) => record[r].identity = identity /\ Cardinality(LiveRefs(r)) < MaxBatchRefs
  /\ tombstone[r] \in {None, Legacy, identity}

\* commitMutation: the old value of every key it sets or deletes is taken off
\* the usage, the new value of every key it sets is added.
TouchedRecords == {r \in Records : record'[r] # record[r] \/ tombstone'[r] # tombstone[r]}
TouchedBatches == {b \in Batches : batch'[b] # batch[b]}
FreedByDeletion ==
  SumFunctionOnSet(RecordCosts, {r \in TouchedRecords : record'[r] = None})
  + SumFunctionOnSet(BatchCosts, {b \in TouchedBatches : batch'[b] = None})
  + ReserveCost * Cardinality(reserves \ reserves')
  + IndexCost * (Cardinality(batchRefs \ batchRefs') + Cardinality(originalRefs \ originalRefs'))
Freed ==
  SumFunctionOnSet(RecordCosts, TouchedRecords) + SumFunctionOnSet(BatchCosts, TouchedBatches)
  + ReserveCost * Cardinality(reserves \ reserves')
  + IndexCost * (Cardinality(batchRefs \ batchRefs') + Cardinality(originalRefs \ originalRefs'))
Charged ==
  SumFunctionOnSet(RecordCosts', TouchedRecords) + SumFunctionOnSet(BatchCosts', TouchedBatches)
  + ReserveCost * Cardinality(reserves' \ reserves)
  + IndexCost * (Cardinality(batchRefs' \ batchRefs) + Cardinality(originalRefs' \ originalRefs))
commitMutation == bytes' = (bytes - Freed) + Charged

\* commitMutation(m, true), of an append only: growth must also fit.
FitsBefore == bytes <= MaxBytes
FitsCapacity == bytes' > bytes => bytes' <= MaxBytes

FreshQuarantined(ids) == {r \in ids : ~Held(r)}
Fresh(ids) == {r \in ids : ~Held(r) /\ tombstone[r] = None}

AdmitBatch(b, members) ==
  LET ids   == DOMAIN members
      fresh == Fresh(ids)
      live  == fresh \cup {r \in ids : Held(r)}
  IN  /\ batch[b] = None
      /\ \A r \in ids : Admissible(r, members[r])
      /\ record' = [r \in Records |-> IF r \in fresh THEN newRecord(members[r]) ELSE record[r]]
      /\ pendingKeys' = pendingKeys \cup {<<members[r].priority, r>> : r \in fresh}
      /\ reserves' = reserves \cup fresh
      /\ priorities' = [p \in Priorities |->
            priorities[p] + Cardinality({r \in fresh : members[r].priority = p})]
      /\ tombstone' = [r \in Records |->
            IF r \in ids /\ tombstone[r] = Legacy THEN members[r] ELSE tombstone[r]]
      /\ batchRefs' = batchRefs \cup (live \X {b})
      /\ originalRefs' = originalRefs \cup (IF live = {} THEN {} ELSE ids \X {b})
      /\ batch' = IF live = {} THEN batch
                  ELSE [batch EXCEPT ![b] = [original |-> members, live |-> live]]
      /\ UNCHANGED <<claimKeys, committedKeys>>
      /\ commitMutation /\ FitsCapacity

\* What an acknowledgement makes the journal answerable for.
Acknowledged(members) ==
  {<<r, members[r]>> : r \in {q \in DOMAIN members : record'[q] # None /\ record'[q].state # "committed"}}

AppendBatch(b, members) ==
  /\ healthy
  /\ \/ Replays(b, members) /\ UNCHANGED keyspace /\ healthy' = TRUE
     \/ AdmitBatch(b, members) /\ healthy' \in BOOLEAN
  /\ owed' = IF healthy' THEN owed \cup Acknowledged(members) ELSE owed
  /\ UNCHANGED <<now, issued>>

\* expireClaims: lapsed claims go back to pending, oldest expiry first.
LapsedKeysLost(lapsed) == {}
LapsedKeys(lapsed) == {<<record[r].identity.priority, r>> : r \in lapsed}
LapsedSets ==
  Firsts({k[2] : k \in {c \in claimKeys : c[1] <= now}}, MaxTransitionRecords,
         [r \in Records |-> IF Held(r) THEN record[r].expiry ELSE 0])

\* Claim commits twice: first the expiries, then, within what is left of the
\* transition budget, the claims.  The second commit may fail by itself.
Claim(limit, owner) ==
  /\ healthy
  /\ \E lapsed \in LapsedSets :
       LET waiting == pendingKeys \cup LapsedKeys(lapsed)
           budget  == MaxTransitionRecords - Cardinality(lapsed)
           after   == [r \in Records |-> IF r \in lapsed THEN Lapsed(record[r]) ELSE record[r]]
           expiry  == now + ClaimTTL
           rank    == [r \in Records |-> IF after[r] # None THEN after[r].identity.priority ELSE 0]
       IN \E taken \in Firsts({k[2] : k \in waiting}, IF limit < budget THEN limit ELSE budget, rank)
                       \cup {{}} :
            /\ healthy' \in IF taken = {} /\ budget > 0 /\ waiting # {} THEN {FALSE} ELSE BOOLEAN
            /\ record' = [r \in Records |-> IF r \in taken THEN Granted(after[r], owner, expiry) ELSE after[r]]
            /\ pendingKeys' = {k \in waiting : k[2] \notin taken}
            /\ reserves' = (reserves \cup lapsed) \ taken
            /\ claimKeys' = {k \in claimKeys : k[2] \notin lapsed} \cup ({expiry} \X taken)
            /\ issued' = [r \in Records |->
                  IF r \in taken THEN issued[r] \cup {record'[r].token} ELSE issued[r]]
  /\ UNCHANGED <<now, tombstone, batch, committedKeys, batchRefs, originalRefs, priorities, owed>>
  /\ commitMutation

\* A presented claim is honoured only with the token the record now carries:
\* an unexpired claim may proceed, a commit already made is satisfied.
Claimable(r, token) == InState(r, "claimed") /\ record[r].token = token /\ now < record[r].expiry
Satisfied(r, token) == InState(r, "committed") /\ record[r].token = token
AllCurrent(claims)  == \A r \in DOMAIN claims : Claimable(r, claims[r]) \/ Satisfied(r, claims[r])

\* RenewClaims: one stale member rejects them all; a renewal retires its token.
RenewClaims(claims) ==
  LET renewing == {r \in DOMAIN claims : Claimable(r, claims[r])}
      expiry   == now + ClaimTTL
  IN  /\ healthy /\ AllCurrent(claims)
      /\ healthy' \in BOOLEAN
      /\ record' = [r \in Records |-> IF r \in renewing THEN Renewed(record[r], expiry) ELSE record[r]]
      /\ claimKeys' = {k \in claimKeys : k[2] \notin renewing} \cup ({expiry} \X renewing)
      /\ issued' = [r \in Records |->
            IF r \in renewing THEN issued[r] \cup {record'[r].token} ELSE issued[r]]
      /\ UNCHANGED <<now, tombstone, batch, pendingKeys, committedKeys, reserves, batchRefs,
                     originalRefs, priorities, owed>>
      /\ commitMutation

\* MarkCommittedBatch: one stale member rejects them all; the token is kept, so
\* that the retry of a lost answer is recognised.
MarkCommittedBatch(claims) ==
  LET retiring == {r \in DOMAIN claims : Claimable(r, claims[r])}
  IN  /\ healthy /\ AllCurrent(claims)
      /\ healthy' \in BOOLEAN
      /\ record' = [r \in Records |-> IF r \in retiring THEN Retired(record[r], now) ELSE record[r]]
      /\ claimKeys' = {k \in claimKeys : k[2] \notin retiring}
      /\ committedKeys' = committedKeys \cup ({now} \X retiring)
      /\ owed' = {o \in owed : o[1] \notin retiring}
      /\ UNCHANGED <<now, tombstone, batch, pendingKeys, reserves, batchRefs, originalRefs,
                     priorities, issued>>
      /\ commitMutation

\* Removal of records, and with the last live member of its batch metadata.
Emptied(gone) ==
  {b \in Batches : batch[b] # None /\ batch[b].live \cap gone # {} /\ batch[b].live \subseteq gone}
RemoveBatchRefs(gone) ==
  /\ batch' = [b \in Batches |->
        IF batch[b] = None \/ b \in Emptied(gone) THEN None
        ELSE [batch[b] EXCEPT !.live = @ \ gone]]
  /\ batchRefs' = {rb \in batchRefs : rb[1] \notin gone}
  /\ originalRefs' = {rb \in originalRefs : rb[2] \notin Emptied(gone)}
RemoveRecordsMiscounted(gone) ==
  /\ record' = [r \in Records |-> IF r \in gone THEN None ELSE record[r]]
  /\ priorities' = [p \in Priorities |-> priorities[p] - Cardinality(gone)]
  /\ RemoveBatchRefs(gone)
RemoveRecords(gone) ==
  /\ record' = [r \in Records |-> IF r \in gone THEN None ELSE record[r]]
  /\ priorities' = [p \in Priorities |->
        priorities[p] - Cardinality({r \in gone : record[r].identity.priority = p})]
  /\ RemoveBatchRefs(gone)

\* Quarantine: the payload goes, a tombstone with the replay identity stays.
Quarantine(r, token) ==
  /\ healthy /\ Claimable(r, token)
  /\ healthy' \in BOOLEAN
  /\ RemoveRecords({r})
  /\ claimKeys' = {k \in claimKeys : k[2] # r}
  /\ tombstone' = [tombstone EXCEPT ![r] = record[r].identity]
  /\ owed' = {o \in owed : o[1] # r}
  /\ UNCHANGED <<now, pendingKeys, committedKeys, reserves, issued>>
  /\ commitMutation

\* Compact: committed records past the safety delay, oldest first.
CompactableEarly == {k[2] : k \in {c \in committedKeys : c[1] + SafetyDelay <= now}}
Compactable == {k[2] : k \in {c \in committedKeys : c[1] + SafetyDelay < now}}
Compact(limit) ==
  /\ healthy
  /\ \E gone \in Firsts(Compactable, limit,
                        [r \in Records |-> IF Held(r) THEN record[r].committedAt ELSE 0]) :
       /\ healthy' \in BOOLEAN
       /\ RemoveRecords(gone)
       /\ committedKeys' = {k \in committedKeys : k[2] \notin gone}
  /\ UNCHANGED <<now, tombstone, pendingKeys, claimKeys, reserves, owed, issued>>
  /\ commitMutation

\* A synchronized commit that failed before anything reached the disk.
CommitFails ==
  healthy /\ healthy' = FALSE /\ UNCHANGED <<now, keyspace, owed, issued>>

\* Open after a crash or a failed commit: verify() must accept the volume.
Open ==
  ~healthy /\ verify /\ healthy' = TRUE /\ UNCHANGED <<now, keyspace, owed, issued>>

Tick ==
  now < MaxTime /\ now' = now + 1 /\ UNCHANGED <<healthy, keyspace, owed, issued>>

\* Callers may present any token ever handed out, each for its own record.
PresentedClaims ==
  {claims \in UNION {[ids -> UNION {issued[r] : r \in ids}] : ids \in (SUBSET Records) \ {{}}} :
     \A r \in DOMAIN claims : claims[r] \in issued[r]}

Init ==
  /\ healthy = TRUE /\ now = 0
  /\ record = [r \in Records |-> None]
  /\ tombstone \in [Records -> {None, Legacy}]  \* an upgraded volume may hold JQV1 tombstones
  /\ batch = [b \in Batches |-> None]
  /\ pendingKeys = {} /\ claimKeys = {} /\ committedKeys = {} /\ reserves = {}
  /\ batchRefs = {} /\ originalRefs = {}
  /\ priorities = [p \in Priorities |-> 0] /\ bytes = usage
  /\ owed = {} /\ issued = [r \in Records |-> {}]

Next ==
  \/ \E b \in Batches, members \in Members : AppendBatch(b, members)
  \/ \E limit \in 1..MaxTransitionRecords, owner \in Owners : Claim(limit, owner)
  \/ \E claims \in PresentedClaims : RenewClaims(claims) \/ MarkCommittedBatch(claims)
  \/ \E r \in Records : \E token \in issued[r] : Quarantine(r, token)
  \/ \E limit \in 1..MaxTransitionRecords : Compact(limit)
  \/ CommitFails \/ Open \/ Tick

Spec == Init /\ [][Next]_vars

-----------------------------------------------------------------------------
(* Properties.                                                             *)

\* The types of everything but the bytes.
Typed ==
  /\ healthy \in BOOLEAN /\ now \in Nat
  /\ record \in [Records -> Stored \cup {None}]
  /\ tombstone \in [Records -> Identities \cup {None, Legacy}]
  /\ batch \in [Batches -> Batch \cup {None}]
  /\ pendingKeys \subseteq Priorities \X Records
  /\ claimKeys \subseteq Nat \X Records
  /\ committedKeys \subseteq Nat \X Records
  /\ reserves \subseteq Records
  /\ batchRefs \subseteq Records \X Batches
  /\ originalRefs \subseteq Records \X Batches
  /\ priorities \in [Priorities -> Nat]
  /\ owed \subseteq Records \X Identities
  /\ issued \in [Records -> SUBSET Tokens]

\* Every variable has its type; the bytes charged never fall below zero.
TypeOK == Typed /\ bytes \in Nat

\* AppendBatch answered success for these, and no caller has marked them
\* committed or quarantined them: whatever has expired, been compacted, failed
\* or restarted since, they are still there to be processed, as they were sent.
AcknowledgedKept ==
  \A o \in owed : /\ Held(o[1]) /\ record[o[1]].identity = o[2]
                  /\ record[o[1]].state # "committed"

\* The transition reserves work: the bytes past the configured ceiling are never
\* more than what the reserves of the pending records hold beyond the owner and
\* the token a claim of them will write.  (A claim gives that excess free, an
\* append may fill it, and the expiry of the claim takes it back unasked.)
WithinCapacity ==
  usage <= MaxBytes + (ReserveCost - OwnerCost - TokenCost) * Cardinality(reserves)

\* A committed record stays exactly as committed until the safety delay has
\* passed, so the retry of a lost MarkCommittedBatch answer is recognised.
CommittedKept ==
  [][\A r \in Records : InState(r, "committed") =>
        record'[r] = record[r] \/ (record'[r] = None /\ record[r].committedAt + SafetyDelay < now)]_vars

\* A record comes back only through a batch the journal did not know: the exact
\* replay of a known batch never resurrects a member compacted or quarantined.
NoResurrection ==
  [][\A r \in Records : record[r] = None /\ record'[r] # None =>
        /\ tombstone[r] = None
        /\ \E b \in Batches : batch[b] = None /\ batch'[b] # None /\ r \in batch'[b].live]_vars

\* The journal implements the claim queue the pipeline relies on.
Queue == INSTANCE ClaimQueue WITH
  Token  <- Tokens,
  status <- [r \in Records |-> IF Held(r) THEN record[r].state
                               ELSE IF tombstone[r] # None THEN "quarantined" ELSE "absent"],
  lease  <- [r \in Records |-> IF Held(r) THEN record[r].token ELSE None],
  spent  <- issued
QueueSpec == Queue!QSpec

=============================================================================
