---------------------------- MODULE JournalProofs ----------------------------
(***************************************************************************)
(* Theorems about the journal, for every value of its constants.           *)
(***************************************************************************)
EXTENDS Journal, SumTheorems, FiniteSetTheorems, TLAPS

\* What verify() requires of the keys and the counts, which is inductive by
\* itself; with the bytes, the inductive invariant: the volume always passes
\* verify().
Verified == IndexesAgree /\ BatchesAgree /\ CountsAgree
StoreInv == Typed /\ Verified
IInv     == TypeOK /\ verify

\* No key, record or tombstone is None, so what has been stored is found.
LEMMA NotNone ==
  /\ \A x \in Stored \cup Batch \cup Identities \cup Tokens \cup Owners : x # None
  /\ Legacy # None /\ Legacy \notin Identities
BY NoneAssumption

\* What each operation makes of a stored record is again one, and of the same
\* identity.
LEMMA NewRecordStored ==
  ASSUME NEW identity \in Identities
  PROVE  /\ newRecord(identity) \in Stored /\ Decodes(newRecord(identity))
         /\ newRecord(identity).identity = identity /\ newRecord(identity).state = "pending"
         /\ newRecord(identity).attempt = 0 /\ newRecord(identity).token = None
BY DEF newRecord, Stored, States, Decodes

\* A claimed record, retired, is stored as committed, under the same token.
LEMMA RetiredStored ==
  ASSUME NEW stored \in Stored, Decodes(stored), stored.state = "claimed", NEW at \in Nat
  PROVE  /\ Retired(stored, at) \in Stored /\ Decodes(Retired(stored, at))
         /\ Retired(stored, at).state = "committed" /\ Retired(stored, at).committedAt = at
         /\ Retired(stored, at).identity = stored.identity
         /\ Retired(stored, at).token = stored.token
<1> "committed" \in States
  BY DEF States
<1>1. /\ Retired(stored, at) \in Stored
      /\ Retired(stored, at).state = "committed" /\ Retired(stored, at).committedAt = at
      /\ Retired(stored, at).identity = stored.identity
      /\ Retired(stored, at).token = stored.token /\ Retired(stored, at).owner = None
      /\ Retired(stored, at).attempt = stored.attempt /\ Retired(stored, at).expiry = 0
  BY DEF Retired, Stored
<1> QED
  BY <1>1 DEF Decodes

\* A claimed record whose claim lapsed is stored as pending, without a token.
LEMMA LapsedStored ==
  ASSUME NEW stored \in Stored, Decodes(stored), stored.state = "claimed"
  PROVE  /\ Lapsed(stored) \in Stored /\ Decodes(Lapsed(stored))
         /\ Lapsed(stored).state = "pending" /\ Lapsed(stored).token = None
         /\ Lapsed(stored).identity = stored.identity
         /\ Lapsed(stored).attempt = stored.attempt
<1> "pending" \in States
  BY DEF States
<1>1. /\ Lapsed(stored) \in Stored
      /\ Lapsed(stored).state = "pending" /\ Lapsed(stored).token = None
      /\ Lapsed(stored).identity = stored.identity
      /\ Lapsed(stored).attempt = stored.attempt /\ Lapsed(stored).owner = None
      /\ Lapsed(stored).expiry = 0 /\ Lapsed(stored).committedAt = stored.committedAt
  BY DEF Lapsed, Stored
<1> QED
  BY <1>1 DEF Decodes

\* What claimToken derives is a token.
LEMMA TokenType ==
  ASSUME NEW owner \in Owners, NEW attempt \in Nat, NEW expiry \in Nat
  PROVE  claimToken(owner, attempt, expiry) \in Tokens
BY DEF claimToken, Tokens

\* A pending or lapsed record, granted, is stored as claimed under a derived token.
LEMMA GrantedStored ==
  ASSUME NEW stored \in Stored, Decodes(stored), stored.state = "pending",
         NEW owner \in Owners, NEW expiry \in Nat
  PROVE  /\ Granted(stored, owner, expiry) \in Stored
         /\ Decodes(Granted(stored, owner, expiry))
         /\ Granted(stored, owner, expiry).state = "claimed"
         /\ Granted(stored, owner, expiry).identity = stored.identity
         /\ Granted(stored, owner, expiry).owner = owner
         /\ Granted(stored, owner, expiry).attempt = stored.attempt + 1
         /\ Granted(stored, owner, expiry).expiry = expiry
         /\ Granted(stored, owner, expiry).token = claimToken(owner, stored.attempt + 1, expiry)
<1> "claimed" \in States
  BY DEF States
<1> DEFINE token == claimToken(owner, stored.attempt + 1, expiry)
<1>1. stored.attempt \in Nat /\ stored.attempt + 1 \in Nat /\ stored.attempt + 1 > 0
  BY DEF Stored
<1>2. token \in Tokens
  BY <1>1, TokenType
<1> HIDE DEF token
<1>3. Granted(stored, owner, expiry) =
        [stored EXCEPT !.state = "claimed", !.attempt = @ + 1, !.owner = owner, !.expiry = expiry,
                       !.token = token]
  BY DEF Granted, token
<1>4. /\ Granted(stored, owner, expiry) \in Stored
      /\ Granted(stored, owner, expiry).state = "claimed"
      /\ Granted(stored, owner, expiry).identity = stored.identity
      /\ Granted(stored, owner, expiry).owner = owner
      /\ Granted(stored, owner, expiry).attempt = stored.attempt + 1
      /\ Granted(stored, owner, expiry).expiry = expiry
      /\ Granted(stored, owner, expiry).token = token
      /\ Granted(stored, owner, expiry).committedAt = stored.committedAt
  <2>1. stored.attempt + 1 \in Nat /\ stored \in Stored
    BY <1>1 DEF Stored
  <2>2. Granted(stored, owner, expiry) \in Stored
    BY <1>1, <1>2, <1>3, <2>1 DEF Stored
  <2> QED
    BY <1>1, <1>3, <2>2 DEF Stored
<1>5. Decodes(Granted(stored, owner, expiry))
  BY <1>1, <1>2, <1>4 DEF Decodes
<1> QED
  BY <1>4, <1>5 DEF token

\* A claimed record, renewed, is stored as claimed under the later token.
LEMMA RenewedStored ==
  ASSUME NEW stored \in Stored, Decodes(stored), stored.state = "claimed", NEW expiry \in Nat
  PROVE  /\ Renewed(stored, expiry) \in Stored /\ Decodes(Renewed(stored, expiry))
         /\ Renewed(stored, expiry).state = "claimed"
         /\ Renewed(stored, expiry).identity = stored.identity
         /\ Renewed(stored, expiry).owner = stored.owner
         /\ Renewed(stored, expiry).attempt = stored.attempt
         /\ Renewed(stored, expiry).expiry = expiry
         /\ Renewed(stored, expiry).token = claimToken(stored.owner, stored.attempt, expiry)
<1> DEFINE token == claimToken(stored.owner, stored.attempt, expiry)
<1>1. stored.attempt \in Nat /\ stored.attempt > 0 /\ stored.owner \in Owners /\ stored.committedAt = 0
  BY DEF Stored, Decodes
<1>2. token \in Tokens
  BY <1>1, TokenType
<1> HIDE DEF token
<1>3. Renewed(stored, expiry) = [stored EXCEPT !.expiry = expiry, !.token = token]
  BY DEF Renewed, token
<1>4. /\ Renewed(stored, expiry) \in Stored
      /\ Renewed(stored, expiry).state = stored.state
      /\ Renewed(stored, expiry).identity = stored.identity
      /\ Renewed(stored, expiry).owner = stored.owner
      /\ Renewed(stored, expiry).attempt = stored.attempt
      /\ Renewed(stored, expiry).expiry = expiry
      /\ Renewed(stored, expiry).token = token
      /\ Renewed(stored, expiry).committedAt = stored.committedAt
  BY <1>2, <1>3 DEF Stored
<1>5. Decodes(Renewed(stored, expiry))
  BY <1>1, <1>2, <1>4 DEF Decodes
<1> QED
  BY <1>4, <1>5 DEF token

\* What the type of a stored batch says of its members.
LEMMA BatchType ==
  ASSUME Typed, NEW b \in Batches, batch[b] # None
  PROVE  /\ batch[b] = [original |-> batch[b].original, live |-> batch[b].live]
         /\ DOMAIN batch[b].original \subseteq Records
         /\ batch[b].original \in [DOMAIN batch[b].original -> Identities]
         /\ batch[b].live \subseteq Records
<1>1. batch[b] \in Batch
  BY DEF Typed
<1>2. batch[b].original \in Members /\ batch[b].live \in SUBSET Records
  BY <1>1 DEF Batch
<1>3. PICK ids \in (SUBSET Records) \ {{}} : batch[b].original \in [ids -> Identities]
  BY <1>2 DEF Members
<1> QED
  BY <1>1, <1>2, <1>3 DEF Batch

\* Opening an empty volume establishes the invariant.
LEMMA InitStoreInv == Init => StoreInv
<1> SUFFICES ASSUME Init PROVE StoreInv
  OBVIOUS
<1> USE DEF Init, Held, InState
<1>1. Typed
  BY DEF Typed
<1>2. IndexesAgree
  BY DEF IndexesAgree
<1>3. BatchesAgree
  BY DEF BatchesAgree
<1>4. CountsAgree
  <2>1. \A p \in Priorities : {r \in Records : record[r] # None /\ record[r].identity.priority = p} = {}
    OBVIOUS
  <2>2. \A r \in Records : History(r) = {}
    BY DEF History
  <2>3. Cardinality({}) = 0
    BY FS_EmptySet
  <2> QED
    BY <2>1, <2>2, <2>3, ConfigAssumption DEF CountsAgree
<1> QED
  BY <1>1, <1>2, <1>3, <1>4 DEF StoreInv, Verified

-----------------------------------------------------------------------------
(* Steps that move the clock or the health of the journal only.            *)

\* verify() reads nothing but the key space.
LEMMA KeyspaceOnly ==
  ASSUME StoreInv, UNCHANGED keyspace
  PROVE  Verified'
<1> USE DEF StoreInv, Verified, keyspace
<1>1. IndexesAgree'
  BY DEF IndexesAgree, Held, InState, claimToken, Decodes
<1>2. BatchesAgree'
  BY DEF BatchesAgree, Held, LiveRefs
<1>3. CountsAgree'
  BY DEF CountsAgree, Held, History
<1> QED
  BY <1>1, <1>2, <1>3

\* A failed commit, a reopening and the clock keep the invariant.
LEMMA OutsideStoreInv ==
  ASSUME StoreInv, CommitFails \/ Open \/ Tick
  PROVE  StoreInv'
<1>1. UNCHANGED keyspace
  BY DEF CommitFails, Open, Tick
<1>2. now' \in Nat /\ owed' = owed /\ issued' = issued
  BY DEF StoreInv, Typed, CommitFails, Open, Tick
<1>3. healthy' \in BOOLEAN
  BY DEF StoreInv, Typed, CommitFails, Open, Tick
<1>4. Typed'
  BY <1>1, <1>2, <1>3 DEF StoreInv, Typed, keyspace
<1> QED
  BY <1>1, <1>4, KeyspaceOnly DEF StoreInv

-----------------------------------------------------------------------------
(* Steps that change the state of records but neither add nor remove any.  *)

\* Batches and counters speak of which records there are and of their
\* identities, not of their states.
LEMMA SameContents ==
  ASSUME StoreInv, record' \in [Records -> Stored \cup {None}],
         \A r \in Records : Held(r)' <=> Held(r),
         \A r \in Records : Held(r) => record'[r].identity = record[r].identity,
         UNCHANGED <<tombstone, batch, batchRefs, originalRefs, priorities>>
  PROVE  BatchesAgree' /\ CountsAgree'
<1> USE DEF StoreInv, Verified
<1>1. BatchesAgree'
  <2>1. \A r \in Records : Held(r)' => tombstone'[r] = None /\ LiveRefs(r)' # {}
    BY DEF BatchesAgree, LiveRefs
  <2>2. ASSUME NEW b \in Batches, batch'[b] # None
        PROVE  /\ batch'[b].live # {}
               /\ batch'[b].live \subseteq DOMAIN batch'[b].original
               /\ \A r \in batch'[b].live : Held(r)'
               /\ \A r \in DOMAIN batch'[b].original :
                     Held(r)' => record'[r].identity = batch'[b].original[r]
    BY <2>2, BatchType DEF BatchesAgree
  <2> QED
    BY <2>1, <2>2 DEF BatchesAgree
<1>2. \A p \in Priorities :
        {r \in Records : Held(r) /\ record[r].identity.priority = p}'
        = {r \in Records : Held(r) /\ record[r].identity.priority = p}
  OBVIOUS
<1>3. CountsAgree'
  BY <1>2 DEF CountsAgree, History
<1> QED
  BY <1>1, <1>3

\* IndexesAgree key by key, the form in which a step changes an index.
KeyByKey ==
  /\ \A r \in Records : Held(r) => Decodes(record[r])
  /\ \A p \in Priorities, r \in Records :
        <<p, r>> \in pendingKeys <=> InState(r, "pending") /\ p = record[r].identity.priority
  /\ \A n \in Nat, r \in Records :
        <<n, r>> \in claimKeys <=> InState(r, "claimed") /\ n = record[r].expiry
  /\ \A n \in Nat, r \in Records :
        <<n, r>> \in committedKeys <=> InState(r, "committed") /\ n = record[r].committedAt
  /\ \A r \in Records : r \in reserves <=> InState(r, "pending")
  /\ \A r \in Records : InState(r, "claimed") =>
        record[r].token = claimToken(record[r].owner, record[r].attempt, record[r].expiry)

\* What verify() requires of the indexes, read key by key.
LEMMA KeyByKeyHolds ==
  ASSUME IndexesAgree
  PROVE  KeyByKey
BY DEF IndexesAgree, KeyByKey

\* Indexes that agree key by key are the sets verify() computes.
LEMMA KeyByKeySuffices ==
  ASSUME Typed', KeyByKey'
  PROVE  IndexesAgree'
<1>1. \A r \in Records : Held(r)' => /\ record'[r].identity.priority \in Priorities
                                    /\ record'[r].expiry \in Nat /\ record'[r].committedAt \in Nat
  BY DEF Typed, Stored, Identities, Held
<1>2. pendingKeys' = {<<record'[r].identity.priority, r>> : r \in {q \in Records : InState(q, "pending")'}}
  BY <1>1 DEF KeyByKey, Typed, InState
<1>3. claimKeys' = {<<record'[r].expiry, r>> : r \in {q \in Records : InState(q, "claimed")'}}
  BY <1>1 DEF KeyByKey, Typed, InState
<1>4. committedKeys' = {<<record'[r].committedAt, r>> : r \in {q \in Records : InState(q, "committed")'}}
  BY <1>1 DEF KeyByKey, Typed, InState
<1>5. reserves' = {r \in Records : InState(r, "pending")'}
  BY DEF KeyByKey, Typed
<1> QED
  BY <1>2, <1>3, <1>4, <1>5 DEF IndexesAgree, KeyByKey, Decodes

\* A caller presents tokens for records, each handed out for that record.
LEMMA PresentedType ==
  ASSUME NEW claims \in PresentedClaims
  PROVE  /\ DOMAIN claims \subseteq Records
         /\ \A r \in DOMAIN claims : claims[r] \in issued[r]
BY DEF PresentedClaims

\* Committing retires claimed records and moves their keys to the committed index.
LEMMA MarkCommittedStoreInv ==
  ASSUME StoreInv, NEW claims \in PresentedClaims, MarkCommittedBatch(claims)
  PROVE  StoreInv'
<1> DEFINE retiring == {r \in DOMAIN claims : Claimable(r, claims[r])}
<1>0. Typed /\ IndexesAgree
  BY DEF StoreInv, Verified
<1>1. retiring \subseteq Records /\ \A r \in retiring : InState(r, "claimed")
  BY PresentedType DEF Claimable
<1>2. /\ record' = [r \in Records |-> IF r \in retiring
            THEN Retired(record[r], now) ELSE record[r]]
      /\ claimKeys' = {k \in claimKeys : k[2] \notin retiring}
      /\ committedKeys' = committedKeys \cup ({now} \X retiring)
      /\ owed' = {o \in owed : o[1] \notin retiring}
      /\ UNCHANGED <<now, tombstone, batch, pendingKeys, reserves, batchRefs, originalRefs,
                     priorities, issued>>
  BY DEF MarkCommittedBatch
<1>3. \A r \in Records : record[r] \in Stored \cup {None}
  BY <1>0 DEF Typed
<1>4. \A r \in retiring : /\ record[r] \in Stored
                          /\ record'[r] \in Stored
                          /\ record'[r].state = "committed"
                          /\ record'[r].committedAt = now
                          /\ record'[r].identity = record[r].identity
                          /\ Decodes(record'[r])
  <2>1. \A r \in retiring : record[r] \in Stored /\ Decodes(record[r]) /\ record[r].state = "claimed"
    BY <1>0, <1>1, <1>3 DEF InState, Held, IndexesAgree
  <2>2. \A r \in retiring : record'[r] = Retired(record[r], now)
    BY <1>1, <1>2
  <2>3. now \in Nat
    BY <1>0 DEF Typed
  <2> QED
    BY <2>1, <2>2, <2>3, RetiredStored
<1>5. \A r \in Records \ retiring : record'[r] = record[r]
  BY <1>2
<1>6. record' \in [Records -> Stored \cup {None}]
  BY <1>2, <1>3, <1>4, <1>5
<1>7. BatchesAgree' /\ CountsAgree'
  <2>1. \A r \in Records : Held(r)' <=> Held(r)
    BY <1>4, <1>5, NotNone DEF Held
  <2>2. \A r \in Records : Held(r) => record'[r].identity = record[r].identity
    BY <1>4, <1>5
  <2> QED
    BY <1>2, <1>6, <2>1, <2>2, SameContents
<1>8. Typed'
  <2>1. healthy' \in BOOLEAN
    BY DEF MarkCommittedBatch
  <2>2. committedKeys' \subseteq Nat \X Records
    BY <1>0, <1>1, <1>2 DEF Typed
  <2> QED
    BY <1>0, <1>2, <1>6, <2>1, <2>2 DEF Typed
<1>9. IndexesAgree'
  <2>1. \A r \in Records : /\ InState(r, "pending")' <=> InState(r, "pending")
                           /\ InState(r, "claimed")' <=> InState(r, "claimed") /\ r \notin retiring
                           /\ InState(r, "committed")' <=> InState(r, "committed") \/ r \in retiring
    BY <1>1, <1>4, <1>5, NotNone DEF InState, Held
  <2>2. \A r \in retiring : ~InState(r, "committed") /\ ~InState(r, "pending")
    BY <1>1 DEF InState
  <2>3. KeyByKey
    BY <1>0, KeyByKeyHolds
  <2>4. \A n \in Nat, r \in Records :
          /\ <<n, r>> \in claimKeys' <=> <<n, r>> \in claimKeys /\ r \notin retiring
          /\ <<n, r>> \in committedKeys' <=> <<n, r>> \in committedKeys \/ (n = now /\ r \in retiring)
    BY <1>2
  <2>5. \A r \in Records : Held(r)' => Decodes(record'[r])
    BY <1>4, <1>5, <2>3 DEF KeyByKey, Held
  <2>6. KeyByKey'
    BY <1>2, <1>4, <1>5, <2>1, <2>2, <2>3, <2>4, <2>5 DEF KeyByKey, claimToken, Decodes
  <2> QED
    BY <1>8, <2>6, KeyByKeySuffices
<1> QED
  BY <1>7, <1>8, <1>9 DEF StoreInv, Verified

\* Renewing moves claimed records to a later key, under the token it derives.
LEMMA RenewStoreInv ==
  ASSUME StoreInv, NEW claims \in PresentedClaims, RenewClaims(claims)
  PROVE  StoreInv'
<1> DEFINE renewing == {r \in DOMAIN claims : Claimable(r, claims[r])}
           expiry == now + ClaimTTL
<1>0. Typed /\ IndexesAgree
  BY DEF StoreInv, Verified
<1>1. /\ renewing \subseteq Records
      /\ \A r \in renewing : InState(r, "claimed")
      /\ expiry \in Nat
  BY <1>0, PresentedType, ConfigAssumption DEF Claimable, Typed
<1>2. /\ record' = [r \in Records |-> IF r \in renewing THEN Renewed(record[r], expiry) ELSE record[r]]
      /\ claimKeys' = {k \in claimKeys : k[2] \notin renewing} \cup ({expiry} \X renewing)
      /\ issued' = [r \in Records |->
            IF r \in renewing THEN issued[r] \cup {record'[r].token} ELSE issued[r]]
      /\ UNCHANGED <<now, tombstone, batch, pendingKeys, committedKeys, reserves, batchRefs,
                     originalRefs, priorities, owed>>
  BY DEF RenewClaims
<1>3. \A r \in Records : record[r] \in Stored \cup {None}
  BY <1>0 DEF Typed
<1> HIDE DEF renewing, expiry
<1>4. \A r \in renewing : /\ record[r] \in Stored
                          /\ record'[r] \in Stored /\ Decodes(record'[r])
                          /\ record'[r].state = "claimed"
                          /\ record'[r].expiry = expiry
                          /\ record'[r].identity = record[r].identity
                          /\ record'[r].token = claimToken(record'[r].owner, record'[r].attempt, expiry)
                          /\ record'[r].token \in Tokens
  <2>1. \A r \in renewing : record[r] \in Stored /\ Decodes(record[r]) /\ record[r].state = "claimed"
    BY <1>0, <1>1, <1>3 DEF InState, Held, IndexesAgree
  <2>2. \A r \in renewing : record'[r] = Renewed(record[r], expiry)
    BY <1>1, <1>2
  <2>3. \A r \in renewing : /\ record'[r] \in Stored /\ Decodes(record'[r])
                            /\ record'[r].state = "claimed"
                            /\ record'[r].expiry = expiry
                            /\ record'[r].identity = record[r].identity
                            /\ record'[r].token = claimToken(record'[r].owner, record'[r].attempt, expiry)
    BY <1>1, <2>1, <2>2, RenewedStored
  <2> QED
    BY <2>1, <2>3 DEF Decodes
<1>5. \A r \in Records \ renewing : record'[r] = record[r]
  BY <1>2
<1>6. record' \in [Records -> Stored \cup {None}]
  BY <1>2, <1>3, <1>4, <1>5
<1>7. BatchesAgree' /\ CountsAgree'
  <2>1. \A r \in Records : Held(r)' <=> Held(r)
    BY <1>4, <1>5, NotNone DEF Held
  <2>2. \A r \in Records : Held(r) => record'[r].identity = record[r].identity
    BY <1>4, <1>5
  <2> QED
    BY <1>2, <1>6, <2>1, <2>2, SameContents
<1>8. Typed'
  <2>1. healthy' \in BOOLEAN
    BY DEF RenewClaims
  <2>2. claimKeys' \subseteq Nat \X Records
    BY <1>0, <1>1, <1>2 DEF Typed
  <2>3. issued' \in [Records -> SUBSET Tokens]
    BY <1>0, <1>2, <1>4 DEF Typed
  <2> QED
    BY <1>0, <1>2, <1>6, <2>1, <2>2, <2>3 DEF Typed
<1>9. IndexesAgree'
  <2>1. \A r \in Records : /\ InState(r, "pending")' <=> InState(r, "pending")
                           /\ InState(r, "claimed")' <=> InState(r, "claimed")
                           /\ InState(r, "committed")' <=> InState(r, "committed")
    BY <1>1, <1>4, <1>5, NotNone DEF InState, Held
  <2>2. \A r \in renewing : ~InState(r, "committed") /\ ~InState(r, "pending") /\ InState(r, "claimed")
    BY <1>1 DEF InState
  <2>3. KeyByKey
    BY <1>0, KeyByKeyHolds
  <2>4. \A n \in Nat, r \in Records :
          <<n, r>> \in claimKeys' <=> IF r \in renewing THEN n = expiry ELSE <<n, r>> \in claimKeys
    BY <1>2
  <2>5. \A r \in Records : Held(r)' => Decodes(record'[r])
    BY <1>4, <1>5, <2>3 DEF KeyByKey, Held
  <2>6. \A r \in Records : InState(r, "claimed")' =>
          record'[r].token = claimToken(record'[r].owner, record'[r].attempt, record'[r].expiry)
    BY <1>4, <1>5, <2>1, <2>3 DEF KeyByKey
  <2>7. \A n \in Nat, r \in Records :
          <<n, r>> \in claimKeys' <=> InState(r, "claimed")' /\ n = record'[r].expiry
    <3> SUFFICES ASSUME NEW n \in Nat, NEW r \in Records
                 PROVE  <<n, r>> \in claimKeys' <=> InState(r, "claimed")' /\ n = record'[r].expiry
      OBVIOUS
    <3>1. CASE r \in renewing
      BY <3>1, <1>4, <2>1, <2>2, <2>4
    <3>2. CASE r \notin renewing
      BY <3>2, <1>5, <2>1, <2>3, <2>4 DEF KeyByKey
    <3> QED
      BY <3>1, <3>2
  <2>8. \A p \in Priorities, r \in Records :
          <<p, r>> \in pendingKeys' <=> InState(r, "pending")' /\ p = record'[r].identity.priority
    BY <1>2, <1>5, <2>1, <2>2, <2>3 DEF KeyByKey
  <2>9. \A n \in Nat, r \in Records :
          <<n, r>> \in committedKeys' <=> InState(r, "committed")' /\ n = record'[r].committedAt
    BY <1>2, <1>5, <2>1, <2>2, <2>3 DEF KeyByKey
  <2>10. KeyByKey'
    BY <1>2, <2>1, <2>3, <2>5, <2>6, <2>7, <2>8, <2>9 DEF KeyByKey, Decodes, claimToken
  <2> QED
    BY <1>8, <2>10, KeyByKeySuffices
<1> QED
  BY <1>7, <1>8, <1>9 DEF StoreInv, Verified

\* What one Claim does: the claims in lapsed, which had expired, are pending
\* again, and of those and the pending records the ones in taken are claimed.
ClaimMoves(owner, lapsed, taken) ==
  LET after  == [r \in Records |-> IF r \in lapsed THEN Lapsed(record[r]) ELSE record[r]]
      expiry == now + ClaimTTL
  IN  /\ lapsed \subseteq Records /\ taken \subseteq Records
      /\ \A r \in lapsed : InState(r, "claimed")
      /\ \A r \in taken \ lapsed : InState(r, "pending")
      /\ record' = [r \in Records |-> IF r \in taken THEN Granted(after[r], owner, expiry) ELSE after[r]]
      /\ pendingKeys' = {k \in pendingKeys \cup LapsedKeys(lapsed) : k[2] \notin taken}
      /\ reserves' = (reserves \cup lapsed) \ taken
      /\ claimKeys' = {k \in claimKeys : k[2] \notin lapsed} \cup ({expiry} \X taken)
      /\ issued' = [r \in Records |->
            IF r \in taken THEN issued[r] \cup {record'[r].token} ELSE issued[r]]
      /\ UNCHANGED <<now, tombstone, batch, committedKeys, batchRefs, originalRefs, priorities, owed>>

\* What one Claim moves, whichever of its two commits took place.
LEMMA ClaimStep ==
  ASSUME StoreInv, NEW limit, NEW owner \in Owners, Claim(limit, owner)
  PROVE  \E lapsed, taken : ClaimMoves(owner, lapsed, taken)
<1>1. KeyByKey /\ Typed
  BY KeyByKeyHolds DEF StoreInv, Verified
<1>2. PICK lapsed \in LapsedSets :
        LET waiting == pendingKeys \cup LapsedKeys(lapsed)
            budget  == MaxTransitionRecords - Cardinality(lapsed)
            after   == [r \in Records |-> IF r \in lapsed THEN Lapsed(record[r]) ELSE record[r]]
            expiry  == now + ClaimTTL
            rank    == [r \in Records |-> IF after[r] # None THEN after[r].identity.priority ELSE 0]
        IN \E taken \in Firsts({k[2] : k \in waiting}, IF limit < budget THEN limit ELSE budget, rank)
                        \cup {{}} :
             /\ healthy' \in IF taken = {} /\ budget > 0 /\ waiting # {} THEN {FALSE} ELSE BOOLEAN
             /\ record' = [r \in Records |-> IF r \in taken THEN Granted(after[r], owner, expiry) ELSE after[r]]
             /\ pendingKeys' = {k \in waiting : k[2] \notin taken}
             /\ reserves' = (reserves \cup lapsed) \ taken
             /\ claimKeys' = {k \in claimKeys : k[2] \notin lapsed} \cup ({expiry} \X taken)
             /\ issued' = [r \in Records |->
                   IF r \in taken THEN issued[r] \cup {record'[r].token} ELSE issued[r]]
  BY DEF Claim
<1>3. PICK taken \in SUBSET {k[2] : k \in pendingKeys \cup LapsedKeys(lapsed)} :
        LET after   == [r \in Records |-> IF r \in lapsed THEN Lapsed(record[r]) ELSE record[r]]
            expiry  == now + ClaimTTL
        IN   /\ record' = [r \in Records |-> IF r \in taken THEN Granted(after[r], owner, expiry) ELSE after[r]]
             /\ pendingKeys' = {k \in pendingKeys \cup LapsedKeys(lapsed) : k[2] \notin taken}
             /\ reserves' = (reserves \cup lapsed) \ taken
             /\ claimKeys' = {k \in claimKeys : k[2] \notin lapsed} \cup ({expiry} \X taken)
             /\ issued' = [r \in Records |->
                   IF r \in taken THEN issued[r] \cup {record'[r].token} ELSE issued[r]]
  BY <1>2 DEF Firsts
<1>4. lapsed \subseteq Records /\ \A r \in lapsed : InState(r, "claimed")
  <2>1. lapsed \subseteq {k[2] : k \in {c \in claimKeys : c[1] <= now}}
    BY DEF LapsedSets, Firsts
  <2>2. \A k \in claimKeys : k[1] \in Nat /\ k[2] \in Records /\ k = <<k[1], k[2]>>
    BY <1>1 DEF Typed
  <2> QED
    BY <1>1, <2>1, <2>2 DEF KeyByKey
<1>5. taken \subseteq Records /\ \A r \in taken \ lapsed : InState(r, "pending")
  <2>1. \A k \in pendingKeys : k[1] \in Priorities /\ k[2] \in Records /\ k = <<k[1], k[2]>>
    BY <1>1 DEF Typed
  <2>2. \A k \in LapsedKeys(lapsed) : k[2] \in lapsed
    BY DEF LapsedKeys
  <2> QED
    BY <1>1, <1>4, <2>1, <2>2 DEF KeyByKey
<1>6. UNCHANGED <<now, tombstone, batch, committedKeys, batchRefs, originalRefs, priorities, owed>>
  BY DEF Claim
<1>7. ClaimMoves(owner, lapsed, taken)
  BY <1>3, <1>4, <1>5, <1>6 DEF ClaimMoves
<1> QED
  BY <1>7

\* The records as one Claim leaves them.
LEMMA ClaimRecords ==
  ASSUME StoreInv, NEW owner \in Owners, NEW lapsed, NEW taken, ClaimMoves(owner, lapsed, taken)
  PROVE  /\ \A r \in taken : /\ record[r] \in Stored
                            /\ record'[r] \in Stored /\ Decodes(record'[r])
                            /\ record'[r].state = "claimed"
                            /\ record'[r].expiry = now + ClaimTTL
                            /\ record'[r].identity = record[r].identity
                            /\ record'[r].attempt = record[r].attempt + 1
                            /\ record'[r].token = claimToken(owner, record[r].attempt + 1, now + ClaimTTL)
                            /\ record'[r].owner = owner
         /\ \A r \in lapsed \ taken : /\ record[r] \in Stored
                                      /\ record'[r] \in Stored /\ Decodes(record'[r])
                                      /\ record'[r].state = "pending"
                                      /\ record'[r].token = None
                                      /\ record'[r].identity = record[r].identity
                                      /\ record'[r].attempt = record[r].attempt
         /\ \A r \in Records \ (lapsed \cup taken) : record'[r] = record[r]
<1> DEFINE after == [r \in Records |-> IF r \in lapsed THEN Lapsed(record[r]) ELSE record[r]]
<1>0. now + ClaimTTL \in Nat
  BY ConfigAssumption DEF StoreInv, Typed
<1>1. /\ lapsed \subseteq Records /\ taken \subseteq Records
      /\ \A r \in lapsed : InState(r, "claimed")
      /\ \A r \in taken \ lapsed : InState(r, "pending")
      /\ record' = [r \in Records |-> IF r \in taken THEN Granted(after[r], owner, now + ClaimTTL) ELSE after[r]]
  BY DEF ClaimMoves
<1>2. \A r \in lapsed \cup taken : record[r] \in Stored /\ Decodes(record[r])
  <2>1. \A r \in lapsed \cup taken : Held(r)
    BY <1>1 DEF InState
  <2> QED
    BY <1>1, <2>1 DEF StoreInv, Typed, Verified, IndexesAgree, Held
<1>3. \A r \in lapsed : /\ after[r] \in Stored /\ Decodes(after[r])
                        /\ after[r].state = "pending" /\ after[r].token = None
                        /\ after[r].identity = record[r].identity
                        /\ after[r].attempt = record[r].attempt
  BY <1>1, <1>2, LapsedStored DEF InState
<1>4. \A r \in Records \ lapsed : after[r] = record[r]
  BY <1>1
<1>5. \A r \in taken : /\ after[r] \in Stored /\ Decodes(after[r]) /\ after[r].state = "pending"
                       /\ after[r].identity = record[r].identity
                       /\ after[r].attempt = record[r].attempt
  BY <1>1, <1>2, <1>3, <1>4 DEF InState
<1>6. /\ \A r \in taken : record'[r] = Granted(after[r], owner, now + ClaimTTL)
      /\ \A r \in Records \ taken : record'[r] = after[r]
  BY <1>1
<1> HIDE DEF after
<1>7. ASSUME NEW r \in taken
      PROVE  /\ record[r] \in Stored
             /\ record'[r] \in Stored /\ Decodes(record'[r])
             /\ record'[r].state = "claimed"
             /\ record'[r].expiry = now + ClaimTTL
             /\ record'[r].identity = record[r].identity
             /\ record'[r].attempt = record[r].attempt + 1
             /\ record'[r].token = claimToken(owner, record[r].attempt + 1, now + ClaimTTL)
             /\ record'[r].owner = owner
  BY <1>0, <1>2, <1>5, <1>6, GrantedStored
<1>8. ASSUME NEW r \in lapsed \ taken
      PROVE  /\ record[r] \in Stored
             /\ record'[r] \in Stored /\ Decodes(record'[r])
             /\ record'[r].state = "pending"
             /\ record'[r].token = None
             /\ record'[r].identity = record[r].identity
             /\ record'[r].attempt = record[r].attempt
  BY <1>1, <1>2, <1>3, <1>6
<1>9. \A r \in Records \ (lapsed \cup taken) : record'[r] = record[r]
  BY <1>4, <1>6
<1> QED
  BY <1>7, <1>8, <1>9

\* Claiming moves keys from the pending to the claim index, and lapsed claims back.
LEMMA ClaimStoreInv ==
  ASSUME StoreInv, NEW limit, NEW owner \in Owners, Claim(limit, owner)
  PROVE  StoreInv'
<1>1. PICK lapsed, taken : ClaimMoves(owner, lapsed, taken)
  BY ClaimStep
<1> DEFINE expiry == now + ClaimTTL
<1>2. /\ lapsed \subseteq Records /\ taken \subseteq Records
      /\ \A r \in lapsed : InState(r, "claimed")
      /\ \A r \in taken \ lapsed : InState(r, "pending")
      /\ pendingKeys' = {k \in pendingKeys \cup LapsedKeys(lapsed) : k[2] \notin taken}
      /\ reserves' = (reserves \cup lapsed) \ taken
      /\ claimKeys' = {k \in claimKeys : k[2] \notin lapsed} \cup ({expiry} \X taken)
      /\ issued' = [r \in Records |->
            IF r \in taken THEN issued[r] \cup {record'[r].token} ELSE issued[r]]
      /\ UNCHANGED <<now, tombstone, batch, committedKeys, batchRefs, originalRefs, priorities, owed>>
  BY <1>1 DEF ClaimMoves
<1>3. record' = [r \in Records |-> record'[r]]
  BY <1>1 DEF ClaimMoves
<1>4. Typed /\ IndexesAgree /\ KeyByKey /\ expiry \in Nat
  BY KeyByKeyHolds, ConfigAssumption DEF StoreInv, Verified, Typed
<1> HIDE DEF expiry
<1>5. ASSUME NEW r \in taken
      PROVE  /\ record[r] \in Stored
             /\ record'[r] \in Stored /\ Decodes(record'[r])
             /\ record'[r].state = "claimed"
             /\ record'[r].expiry = expiry
             /\ record'[r].identity = record[r].identity
             /\ record'[r].token = claimToken(record'[r].owner, record'[r].attempt, record'[r].expiry)
             /\ record'[r].token \in Tokens
  <2>1. /\ record[r] \in Stored
        /\ record'[r] \in Stored /\ Decodes(record'[r])
        /\ record'[r].state = "claimed"
        /\ record'[r].expiry = expiry
        /\ record'[r].identity = record[r].identity
        /\ record'[r].token = claimToken(record'[r].owner, record'[r].attempt, record'[r].expiry)
    BY <1>1, ClaimRecords DEF expiry
  <2> QED
    BY <2>1 DEF Decodes
<1>6. ASSUME NEW r \in lapsed \ taken
      PROVE  /\ record[r] \in Stored
             /\ record'[r] \in Stored /\ Decodes(record'[r])
             /\ record'[r].state = "pending"
             /\ record'[r].identity = record[r].identity
  BY <1>1, ClaimRecords
<1>7. \A r \in Records \ (lapsed \cup taken) : record'[r] = record[r]
  BY <1>1, ClaimRecords
<1>8. \A r \in Records : record[r] \in Stored \cup {None}
  BY <1>4 DEF Typed
<1>9. record' \in [Records -> Stored \cup {None}]
  BY <1>3, <1>5, <1>6, <1>7, <1>8
<1>10. BatchesAgree' /\ CountsAgree'
  <2>1. \A r \in Records : Held(r)' <=> Held(r)
    BY <1>5, <1>6, <1>7, NotNone DEF Held
  <2>2. \A r \in Records : Held(r) => record'[r].identity = record[r].identity
    BY <1>5, <1>6, <1>7
  <2> QED
    BY <1>2, <1>9, <2>1, <2>2, SameContents
<1>11. Typed'
  <2>1. healthy' \in BOOLEAN
    BY DEF Claim
  <2>2. claimKeys' \subseteq Nat \X Records /\ reserves' \subseteq Records
    BY <1>2, <1>4 DEF Typed
  <2>3. pendingKeys' \subseteq Priorities \X Records
    <3>1. \A r \in lapsed : record[r].identity.priority \in Priorities
      BY <1>2, <1>8 DEF InState, Held, Stored, Identities
    <3> QED
      BY <1>2, <1>4, <3>1 DEF Typed, LapsedKeys
  <2>4. issued' \in [Records -> SUBSET Tokens]
    BY <1>2, <1>4, <1>5 DEF Typed
  <2> QED
    BY <1>2, <1>4, <1>9, <2>1, <2>2, <2>3, <2>4 DEF Typed
<1>12. ASSUME NEW r \in Records
       PROVE  /\ r \in taken => InState(r, "claimed")' /\ ~InState(r, "pending")' /\ ~InState(r, "committed")'
              /\ r \in lapsed \ taken => ~InState(r, "claimed")' /\ InState(r, "pending")' /\ ~InState(r, "committed")'
              /\ r \in lapsed \cup taken => ~InState(r, "committed")
              /\ r \in lapsed => ~InState(r, "pending")
              /\ r \in taken \ lapsed => ~InState(r, "claimed")
              /\ r \notin lapsed \cup taken =>
                    /\ InState(r, "claimed")' <=> InState(r, "claimed")
                    /\ InState(r, "pending")' <=> InState(r, "pending")
                    /\ InState(r, "committed")' <=> InState(r, "committed")
  BY <1>2, <1>5, <1>6, <1>7, NotNone DEF InState, Held
<1>13. ASSUME NEW p \in Priorities, NEW r \in Records
       PROVE  <<p, r>> \in pendingKeys' <=> InState(r, "pending")' /\ p = record'[r].identity.priority
  <2>1. <<p, r>> \in pendingKeys' <=>
          /\ r \notin taken
          /\ <<p, r>> \in pendingKeys \/ (r \in lapsed /\ p = record[r].identity.priority)
    BY <1>2 DEF LapsedKeys
  <2>2. CASE r \in taken
    BY <2>1, <2>2, <1>12
  <2>3. CASE r \in lapsed \ taken
    BY <2>1, <2>3, <1>4, <1>6, <1>12 DEF KeyByKey
  <2>4. CASE r \notin lapsed \cup taken
    BY <2>1, <2>4, <1>4, <1>7, <1>12 DEF KeyByKey
  <2> QED
    BY <2>2, <2>3, <2>4
<1>14. ASSUME NEW n \in Nat, NEW r \in Records
       PROVE  <<n, r>> \in claimKeys' <=> InState(r, "claimed")' /\ n = record'[r].expiry
  <2>1. <<n, r>> \in claimKeys' <=> (<<n, r>> \in claimKeys /\ r \notin lapsed) \/ (n = expiry /\ r \in taken)
    BY <1>2
  <2>2. CASE r \in taken
    BY <2>1, <2>2, <1>4, <1>5, <1>12 DEF KeyByKey
  <2>3. CASE r \in lapsed \ taken
    BY <2>1, <2>3, <1>12
  <2>4. CASE r \notin lapsed \cup taken
    BY <2>1, <2>4, <1>4, <1>7, <1>12 DEF KeyByKey
  <2> QED
    BY <2>2, <2>3, <2>4
<1>15. ASSUME NEW n \in Nat, NEW r \in Records
       PROVE  <<n, r>> \in committedKeys' <=> InState(r, "committed")' /\ n = record'[r].committedAt
  <2>1. CASE r \in lapsed \cup taken
    BY <2>1, <1>2, <1>4, <1>12 DEF KeyByKey
  <2>2. CASE r \notin lapsed \cup taken
    BY <2>2, <1>2, <1>4, <1>7, <1>12 DEF KeyByKey
  <2> QED
    BY <2>1, <2>2
<1>16. \A r \in Records : r \in reserves' <=> InState(r, "pending")'
  BY <1>2, <1>4, <1>12 DEF KeyByKey
<1>17. \A r \in Records : InState(r, "claimed")' =>
         record'[r].token = claimToken(record'[r].owner, record'[r].attempt, record'[r].expiry)
  BY <1>4, <1>5, <1>7, <1>12 DEF KeyByKey
<1>18. \A r \in Records : Held(r)' => Decodes(record'[r])
  BY <1>4, <1>5, <1>6, <1>7 DEF KeyByKey, Held
<1>19. IndexesAgree'
  <2>1. KeyByKey'
    BY <1>13, <1>14, <1>15, <1>16, <1>17, <1>18 DEF KeyByKey, Decodes, claimToken
  <2> QED
    BY <1>11, <2>1, KeyByKeySuffices
<1> QED
  BY <1>10, <1>11, <1>19 DEF StoreInv, Verified

-----------------------------------------------------------------------------
(* Steps that remove records: Quarantine and Compact.                      *)

\* A record's share of the priority counts, and its batches, are finite sets.
LEMMA FiniteParts ==
  /\ \A S \in SUBSET Records : IsFiniteSet(S) /\ Cardinality(S) \in Nat
  /\ \A S \in SUBSET Batches : IsFiniteSet(S) /\ Cardinality(S) \in Nat
BY FiniteAssumption, FS_Subset, FS_CardinalityType

\* Counting a disjoint union, and one element more.
LEMMA DisjointCount ==
  ASSUME NEW S, NEW T, IsFiniteSet(S), IsFiniteSet(T), S \cap T = {}
  PROVE  Cardinality(S \cup T) = Cardinality(S) + Cardinality(T)
<1>1. Cardinality(S \cup T) = Cardinality(S) + Cardinality(T) - 0
  BY FS_Union, FS_EmptySet
<1>2. Cardinality(S) \in Nat /\ Cardinality(T) \in Nat
  BY FS_CardinalityType
<1> QED
  BY <1>1, <1>2

\* Adding an element a finite set lacks adds one to its count.
LEMMA OneMore ==
  ASSUME NEW S, NEW x, NEW T \in SUBSET (S \cup {x}), IsFiniteSet(S)
  PROVE  Cardinality(T) <= Cardinality(S) + 1
<1>1. Cardinality(S) \in Nat
  BY FS_CardinalityType
<1>2. /\ IsFiniteSet(S \cup {x})
      /\ Cardinality(S \cup {x}) = Cardinality(S) \/ Cardinality(S \cup {x}) = Cardinality(S) + 1
  BY FS_AddElement
<1>3. Cardinality(T) <= Cardinality(S \cup {x}) /\ IsFiniteSet(T)
  BY <1>2, FS_Subset
<1>4. Cardinality(T) \in Nat
  BY <1>3, FS_CardinalityType
<1> QED
  BY <1>1, <1>2, <1>3, <1>4

\* removeBatchRefs keeps the account of the batches, and the counts follow.
LEMMA RemoveContents ==
  ASSUME StoreInv, NEW gone \in SUBSET Records, \A r \in gone : Held(r),
         RemoveRecords(gone), \A r \in Records \ gone : tombstone'[r] = tombstone[r]
  PROVE  /\ BatchesAgree' /\ CountsAgree'
         /\ record' \in [Records -> Stored \cup {None}]
         /\ batch' \in [Batches -> Batch \cup {None}]
         /\ batchRefs' \subseteq Records \X Batches /\ originalRefs' \subseteq Records \X Batches
         /\ priorities' \in [Priorities -> Nat]
<1>0. Typed /\ BatchesAgree /\ CountsAgree
  BY DEF StoreInv, Verified
<1>1. /\ record' = [r \in Records |-> IF r \in gone THEN None ELSE record[r]]
      /\ priorities' = [p \in Priorities |->
            priorities[p] - Cardinality({r \in gone : record[r].identity.priority = p})]
      /\ batch' = [b \in Batches |->
            IF batch[b] = None \/ b \in Emptied(gone) THEN None
            ELSE [batch[b] EXCEPT !.live = @ \ gone]]
      /\ batchRefs' = {rb \in batchRefs : rb[1] \notin gone}
      /\ originalRefs' = {rb \in originalRefs : rb[2] \notin Emptied(gone)}
  BY DEF RemoveRecords, RemoveBatchRefs
<1>2. record' \in [Records -> Stored \cup {None}]
  BY <1>0, <1>1 DEF Typed
<1>3. \A r \in Records : /\ Held(r)' <=> Held(r) /\ r \notin gone
                         /\ r \notin gone => record'[r] = record[r]
  BY <1>1 DEF Held
<1>4. ASSUME NEW b \in Batches
      PROVE  /\ batch'[b] \in Batch \cup {None}
             /\ batch'[b] # None => /\ batch[b] # None /\ b \notin Emptied(gone)
                                    /\ batch'[b].live = batch[b].live \ gone
                                    /\ batch'[b].original = batch[b].original
             /\ batch'[b] = None => batch[b] = None \/ b \in Emptied(gone)
  <2>1. CASE batch[b] = None \/ b \in Emptied(gone)
    BY <1>1, <2>1
  <2>2. CASE batch[b] # None /\ b \notin Emptied(gone)
    <3>1. batch'[b] = [batch[b] EXCEPT !.live = @ \ gone] /\ batch[b] \in Batch
      BY <1>0, <1>1, <2>2 DEF Typed
    <3>2. /\ batch'[b] \in Batch
          /\ batch'[b].live = batch[b].live \ gone
          /\ batch'[b].original = batch[b].original
      BY <3>1 DEF Batch
    <3> QED
      BY <2>2, <3>2, NotNone
  <2> QED
    BY <2>1, <2>2
<1>5. BatchesAgree'
  <2>1. ASSUME NEW r \in Records, Held(r)'
        PROVE  tombstone'[r] = None /\ LiveRefs(r)' # {}
    <3>1. r \notin gone /\ Held(r)
      BY <1>3, <2>1
    <3>2. PICK b \in Batches : <<r, b>> \in batchRefs
      BY <1>0, <3>1 DEF BatchesAgree, LiveRefs
    <3>3. <<r, b>> \in batchRefs'
      BY <1>1, <3>1, <3>2
    <3> QED
      BY <1>0, <3>1, <3>3 DEF BatchesAgree, LiveRefs
  <2>2. ASSUME NEW b \in Batches, batch'[b] # None
        PROVE  /\ batch'[b].live # {}
               /\ batch'[b].live \subseteq DOMAIN batch'[b].original
               /\ \A r \in batch'[b].live : Held(r)'
               /\ \A r \in DOMAIN batch'[b].original :
                     Held(r)' => record'[r].identity = batch'[b].original[r]
    <3>1. /\ batch[b] # None /\ b \notin Emptied(gone)
          /\ batch'[b].live = batch[b].live \ gone
          /\ batch'[b].original = batch[b].original
      BY <1>4, <2>2
    <3>2. /\ batch[b].live # {}
          /\ batch[b].live \subseteq DOMAIN batch[b].original
          /\ \A r \in batch[b].live : Held(r)
          /\ \A r \in DOMAIN batch[b].original :
                Held(r) => record[r].identity = batch[b].original[r]
          /\ DOMAIN batch[b].original \subseteq Records
      BY <1>0, <3>1, BatchType DEF BatchesAgree
    <3>3. batch[b].live \ gone # {}
      BY <3>1, <3>2 DEF Emptied
    <3> QED
      BY <1>3, <3>1, <3>2, <3>3
  <2>3. batchRefs' = {rb \in Records \X Batches : batch'[rb[2]] # None /\ rb[1] \in batch'[rb[2]].live}
    <3>1. ASSUME NEW r \in Records, NEW b \in Batches
          PROVE  <<r, b>> \in batchRefs' <=> batch'[b] # None /\ r \in batch'[b].live
      <4>1. <<r, b>> \in batchRefs' <=> batch[b] # None /\ r \in batch[b].live /\ r \notin gone
        BY <1>0, <1>1 DEF BatchesAgree
      <4>2. batch[b] # None /\ r \in batch[b].live /\ r \notin gone => b \notin Emptied(gone)
        BY DEF Emptied
      <4> QED
        BY <1>4, <4>1, <4>2
    <3>2. batchRefs' \subseteq Records \X Batches
      BY <1>0, <1>1 DEF Typed
    <3> QED
      BY <3>1, <3>2
  <2>4. originalRefs' = {rb \in Records \X Batches :
                           batch'[rb[2]] # None /\ rb[1] \in DOMAIN batch'[rb[2]].original}
    <3>1. ASSUME NEW r \in Records, NEW b \in Batches
          PROVE  <<r, b>> \in originalRefs' <=> batch'[b] # None /\ r \in DOMAIN batch'[b].original
      <4>1. <<r, b>> \in originalRefs' <=>
              batch[b] # None /\ r \in DOMAIN batch[b].original /\ b \notin Emptied(gone)
        BY <1>0, <1>1 DEF BatchesAgree
      <4>2. CASE b \in Emptied(gone)
        BY <1>4, <4>1, <4>2
      <4>3. CASE b \notin Emptied(gone)
        BY <1>4, <4>1, <4>3
      <4> QED
        BY <4>2, <4>3
    <3>2. originalRefs' \subseteq Records \X Batches
      BY <1>0, <1>1 DEF Typed
    <3> QED
      BY <3>1, <3>2
  <2> QED
    BY <2>1, <2>2, <2>3, <2>4 DEF BatchesAgree
<1>6. ASSUME NEW p \in Priorities
      PROVE  /\ priorities'[p] = Cardinality({r \in Records : Held(r)' /\ record'[r].identity.priority = p})
             /\ priorities'[p] \in Nat
  <2> DEFINE S == {r \in Records : Held(r) /\ record[r].identity.priority = p}
             T == {r \in gone : record[r].identity.priority = p}
  <2>1. {r \in Records : Held(r)' /\ record'[r].identity.priority = p} = S \ T
    BY <1>3
  <2>2. S \cap T = T
    <3>1. T \subseteq S
      <4> SUFFICES ASSUME NEW r \in T  PROVE r \in S
        OBVIOUS
      <4>1. r \in gone /\ record[r].identity.priority = p
        OBVIOUS
      <4> QED
        BY <4>1
    <3> QED
      BY <3>1
  <2>3. IsFiniteSet(S) /\ IsFiniteSet(S \ T) /\ Cardinality(S \ T) \in Nat
    BY FiniteParts
  <2>4. Cardinality(S \ T) = Cardinality(S) - Cardinality(T)
    <3> HIDE DEF S, T
    <3>1. Cardinality(S \ T) = Cardinality(S) - Cardinality(S \cap T)
      BY <2>3, FS_Difference
    <3> QED
      BY <2>2, <3>1
  <2>5. priorities[p] = Cardinality(S)
    BY <1>0 DEF CountsAgree
  <2>6. priorities'[p] = priorities[p] - Cardinality(T)
    BY <1>1
  <2> QED
    BY <2>1, <2>3, <2>4, <2>5, <2>6
<1>7. ASSUME NEW r \in Records
      PROVE  Cardinality(History(r)') <= MaxBatchRefs
  <2>1. History(r)' \subseteq History(r) /\ History(r) \in SUBSET Batches
    BY <1>1 DEF History
  <2>2. Cardinality(History(r)') <= Cardinality(History(r))
    BY <2>1, FiniteParts, FS_Subset
  <2>3. Cardinality(History(r)') \in Nat /\ Cardinality(History(r)) \in Nat
    BY <2>1, FiniteParts
  <2> QED
    BY <1>0, <2>2, <2>3, ConfigAssumption DEF CountsAgree
<1>8. CountsAgree'
  BY <1>6, <1>7 DEF CountsAgree
<1>9. priorities' \in [Priorities -> Nat]
  BY <1>1, <1>6
<1>10. /\ batch' \in [Batches -> Batch \cup {None}]
       /\ batchRefs' \subseteq Records \X Batches /\ originalRefs' \subseteq Records \X Batches
  BY <1>0, <1>1, <1>4 DEF Typed
<1> QED
  BY <1>2, <1>5, <1>8, <1>9, <1>10

\* Quarantine removes one claimed record and its claim key, and seals its tombstone.
LEMMA QuarantineStoreInv ==
  ASSUME StoreInv, NEW q \in Records, NEW token, Quarantine(q, token)
  PROVE  StoreInv'
<1>0. Typed /\ IndexesAgree /\ KeyByKey
  BY KeyByKeyHolds DEF StoreInv, Verified
<1>1. /\ InState(q, "claimed") /\ Held(q)
      /\ RemoveRecords({q})
      /\ claimKeys' = {k \in claimKeys : k[2] # q}
      /\ tombstone' = [tombstone EXCEPT ![q] = record[q].identity]
      /\ owed' = {o \in owed : o[1] # q}
      /\ UNCHANGED <<now, pendingKeys, committedKeys, reserves, issued>>
  BY DEF Quarantine, Claimable, InState
<1>2. /\ BatchesAgree' /\ CountsAgree'
      /\ record' \in [Records -> Stored \cup {None}]
      /\ batch' \in [Batches -> Batch \cup {None}]
      /\ batchRefs' \subseteq Records \X Batches /\ originalRefs' \subseteq Records \X Batches
      /\ priorities' \in [Priorities -> Nat]
  <2>1. \A r \in Records \ {q} : tombstone'[r] = tombstone[r]
    BY <1>0, <1>1 DEF Typed
  <2> QED
    BY <1>1, <2>1, RemoveContents
<1>3. Typed'
  <2>1. record[q].identity \in Identities
    BY <1>0, <1>1 DEF Typed, Held, Stored
  <2>2. tombstone' \in [Records -> Identities \cup {None, Legacy}]
    BY <1>0, <1>1, <2>1 DEF Typed
  <2>3. healthy' \in BOOLEAN
    BY DEF Quarantine
  <2>4. claimKeys' \subseteq Nat \X Records /\ owed' \subseteq Records \X Identities
    BY <1>0, <1>1 DEF Typed
  <2> QED
    BY <1>0, <1>1, <1>2, <2>2, <2>3, <2>4 DEF Typed
<1>4. /\ ~Held(q)' /\ \A r \in Records \ {q} : record'[r] = record[r]
      /\ \A r \in Records \ {q}, s \in States : InState(r, s)' <=> InState(r, s)
      /\ \A s \in States : ~InState(q, s)'
      /\ ~InState(q, "pending") /\ ~InState(q, "committed")
  BY <1>1 DEF RemoveRecords, Held, InState
<1>5. KeyByKey'
  <2>1. {"pending", "claimed", "committed"} = States
    BY DEF States
  <2>2. \A n \in Nat, r \in Records : <<n, r>> \in claimKeys' <=> <<n, r>> \in claimKeys /\ r # q
    BY <1>1
  <2>3. \A n \in Nat, r \in Records :
          <<n, r>> \in claimKeys' <=> InState(r, "claimed")' /\ n = record'[r].expiry
    <3> SUFFICES ASSUME NEW n \in Nat, NEW r \in Records
                 PROVE  <<n, r>> \in claimKeys' <=> InState(r, "claimed")' /\ n = record'[r].expiry
      OBVIOUS
    <3>1. CASE r = q
      BY <3>1, <1>4, <2>1, <2>2
    <3>2. CASE r # q
      BY <3>2, <1>0, <1>4, <2>1, <2>2 DEF KeyByKey
    <3> QED
      BY <3>1, <3>2
  <2>4. \A p \in Priorities, r \in Records :
          <<p, r>> \in pendingKeys' <=> InState(r, "pending")' /\ p = record'[r].identity.priority
    <3> SUFFICES ASSUME NEW p \in Priorities, NEW r \in Records
                 PROVE  <<p, r>> \in pendingKeys'
                        <=> InState(r, "pending")' /\ p = record'[r].identity.priority
      OBVIOUS
    <3>1. pendingKeys' = pendingKeys /\ "pending" \in States
      BY <1>1, <2>1
    <3>2. <<p, r>> \in pendingKeys <=> InState(r, "pending") /\ p = record[r].identity.priority
      BY <1>0 DEF KeyByKey
    <3>3. CASE r = q
      BY <3>1, <3>2, <3>3, <1>4
    <3>4. CASE ~(r = q)
      <4>1. InState(r, "pending")' <=> InState(r, "pending")
        BY <3>1, <3>4, <1>4
      <4>2. record'[r] = record[r]
        BY <3>4, <1>4
      <4> QED
        BY <3>1, <3>2, <4>1, <4>2
    <3> QED
      BY <3>3, <3>4
  <2>5. \A n \in Nat, r \in Records :
          <<n, r>> \in committedKeys' <=> InState(r, "committed")' /\ n = record'[r].committedAt
    <3> SUFFICES ASSUME NEW n \in Nat, NEW r \in Records
                 PROVE  <<n, r>> \in committedKeys'
                        <=> InState(r, "committed")' /\ n = record'[r].committedAt
      OBVIOUS
    <3>1. committedKeys' = committedKeys /\ "committed" \in States
      BY <1>1, <2>1
    <3>2. <<n, r>> \in committedKeys <=> InState(r, "committed") /\ n = record[r].committedAt
      BY <1>0 DEF KeyByKey
    <3>3. CASE r = q
      BY <3>1, <3>2, <3>3, <1>4
    <3>4. CASE ~(r = q)
      <4>1. InState(r, "committed")' <=> InState(r, "committed")
        BY <3>1, <3>4, <1>4
      <4>2. record'[r] = record[r]
        BY <3>4, <1>4
      <4> QED
        BY <3>1, <3>2, <4>1, <4>2
    <3> QED
      BY <3>3, <3>4
  <2>6. \A r \in Records : r \in reserves' <=> InState(r, "pending")'
    BY <1>0, <1>1, <1>4, <2>1 DEF KeyByKey
  <2>7. \A r \in Records : Held(r)' => Decodes(record'[r])
    BY <1>0, <1>4 DEF KeyByKey, Held
  <2>8. \A r \in Records : InState(r, "claimed")' =>
          record'[r].token = claimToken(record'[r].owner, record'[r].attempt, record'[r].expiry)
    BY <1>0, <1>4, <2>1 DEF KeyByKey
  <2> QED
    BY <2>3, <2>4, <2>5, <2>6, <2>7, <2>8 DEF KeyByKey, Decodes, claimToken
<1> QED
  BY <1>2, <1>3, <1>5, KeyByKeySuffices DEF StoreInv, Verified

\* What one Compact removes.
LEMMA CompactStep ==
  ASSUME StoreInv, NEW limit, Compact(limit)
  PROVE  \E gone \in SUBSET Records :
            /\ \A r \in gone : InState(r, "committed") /\ record[r].committedAt + SafetyDelay < now
            /\ RemoveRecords(gone)
            /\ committedKeys' = {k \in committedKeys : k[2] \notin gone}
            /\ healthy' \in BOOLEAN
            /\ UNCHANGED <<now, tombstone, pendingKeys, claimKeys, reserves, owed, issued>>
<1>1. PICK gone \in SUBSET Compactable :
        /\ healthy' \in BOOLEAN
        /\ RemoveRecords(gone)
        /\ committedKeys' = {k \in committedKeys : k[2] \notin gone}
  BY DEF Compact, Firsts
<1>2. KeyByKey /\ Typed
  BY KeyByKeyHolds DEF StoreInv, Verified
<1>3. \A k \in committedKeys : k[1] \in Nat /\ k[2] \in Records /\ k = <<k[1], k[2]>>
  BY <1>2 DEF Typed
<1>4. gone \subseteq Records
      /\ \A r \in gone : InState(r, "committed") /\ record[r].committedAt + SafetyDelay < now
  BY <1>1, <1>2, <1>3 DEF Compactable, KeyByKey
<1>5. UNCHANGED <<now, tombstone, pendingKeys, claimKeys, reserves, owed, issued>>
  BY DEF Compact
<1> QED
  BY <1>1, <1>4, <1>5

\* Compacting removes committed records and their committed keys.
LEMMA CompactStoreInv ==
  ASSUME StoreInv, NEW limit, Compact(limit)
  PROVE  StoreInv'
<1>0. Typed /\ IndexesAgree /\ KeyByKey
  BY KeyByKeyHolds DEF StoreInv, Verified
<1>1. PICK gone \in SUBSET Records :
        /\ \A r \in gone : InState(r, "committed")
        /\ RemoveRecords(gone)
        /\ committedKeys' = {k \in committedKeys : k[2] \notin gone}
        /\ healthy' \in BOOLEAN
        /\ UNCHANGED <<now, tombstone, pendingKeys, claimKeys, reserves, owed, issued>>
  BY CompactStep
<1>2. /\ BatchesAgree' /\ CountsAgree'
      /\ record' \in [Records -> Stored \cup {None}]
      /\ batch' \in [Batches -> Batch \cup {None}]
      /\ batchRefs' \subseteq Records \X Batches /\ originalRefs' \subseteq Records \X Batches
      /\ priorities' \in [Priorities -> Nat]
  <2>1. \A r \in gone : Held(r)
    BY <1>1 DEF InState
  <2> QED
    BY <1>1, <2>1, RemoveContents
<1>3. Typed'
  <2>1. committedKeys' \subseteq Nat \X Records
    BY <1>0, <1>1 DEF Typed
  <2>2. healthy' \in BOOLEAN
    BY <1>1
  <2> QED
    BY <1>0, <1>1, <1>2, <2>1, <2>2 DEF Typed
<1>4. /\ \A r \in gone : ~Held(r)'
      /\ \A r \in Records \ gone : record'[r] = record[r]
      /\ \A r \in Records \ gone, s \in States : InState(r, s)' <=> InState(r, s)
      /\ \A r \in gone, s \in States : ~InState(r, s)'
      /\ \A r \in gone : ~InState(r, "pending") /\ ~InState(r, "claimed")
  BY <1>1 DEF RemoveRecords, Held, InState
<1>5. KeyByKey'
  <2>1. {"pending", "claimed", "committed"} = States
    BY DEF States
  <2>2. \A n \in Nat, r \in Records : <<n, r>> \in committedKeys' <=> <<n, r>> \in committedKeys /\ r \notin gone
    BY <1>1
  <2>3. \A n \in Nat, r \in Records :
          <<n, r>> \in committedKeys' <=> InState(r, "committed")' /\ n = record'[r].committedAt
    BY <1>0, <1>4, <2>1, <2>2 DEF KeyByKey
  <2>4. \A p \in Priorities, r \in Records :
          <<p, r>> \in pendingKeys' <=> InState(r, "pending")' /\ p = record'[r].identity.priority
    <3> SUFFICES ASSUME NEW p \in Priorities, NEW r \in Records
                 PROVE  <<p, r>> \in pendingKeys'
                        <=> InState(r, "pending")' /\ p = record'[r].identity.priority
      OBVIOUS
    <3>1. pendingKeys' = pendingKeys /\ "pending" \in States
      BY <1>1, <2>1
    <3>2. <<p, r>> \in pendingKeys <=> InState(r, "pending") /\ p = record[r].identity.priority
      BY <1>0 DEF KeyByKey
    <3>3. CASE r \in gone
      BY <3>1, <3>2, <3>3, <1>4
    <3>4. CASE ~(r \in gone)
      <4>1. InState(r, "pending")' <=> InState(r, "pending")
        BY <3>1, <3>4, <1>4
      <4>2. record'[r] = record[r]
        BY <3>4, <1>4
      <4> QED
        BY <3>1, <3>2, <4>1, <4>2
    <3> QED
      BY <3>3, <3>4
  <2>5. \A n \in Nat, r \in Records :
          <<n, r>> \in claimKeys' <=> InState(r, "claimed")' /\ n = record'[r].expiry
    <3> SUFFICES ASSUME NEW n \in Nat, NEW r \in Records
                 PROVE  <<n, r>> \in claimKeys'
                        <=> InState(r, "claimed")' /\ n = record'[r].expiry
      OBVIOUS
    <3>1. claimKeys' = claimKeys /\ "claimed" \in States
      BY <1>1, <2>1
    <3>2. <<n, r>> \in claimKeys <=> InState(r, "claimed") /\ n = record[r].expiry
      BY <1>0 DEF KeyByKey
    <3>3. CASE r \in gone
      BY <3>1, <3>2, <3>3, <1>4
    <3>4. CASE ~(r \in gone)
      <4>1. InState(r, "claimed")' <=> InState(r, "claimed")
        BY <3>1, <3>4, <1>4
      <4>2. record'[r] = record[r]
        BY <3>4, <1>4
      <4> QED
        BY <3>1, <3>2, <4>1, <4>2
    <3> QED
      BY <3>3, <3>4
  <2>6. \A r \in Records : r \in reserves' <=> InState(r, "pending")'
    BY <1>0, <1>1, <1>4, <2>1 DEF KeyByKey
  <2>7. \A r \in Records : Held(r)' => Decodes(record'[r])
    BY <1>0, <1>4 DEF KeyByKey, Held
  <2>8. \A r \in Records : InState(r, "claimed")' =>
          record'[r].token = claimToken(record'[r].owner, record'[r].attempt, record'[r].expiry)
    BY <1>0, <1>4, <2>1 DEF KeyByKey
  <2> QED
    BY <2>3, <2>4, <2>5, <2>6, <2>7, <2>8 DEF KeyByKey, Decodes, claimToken
<1> QED
  BY <1>2, <1>3, <1>5, KeyByKeySuffices DEF StoreInv, Verified

-----------------------------------------------------------------------------
(* The step that adds records: AppendBatch of a batch not yet known.       *)

\* The members of a batch are records, each under an identity.
LEMMA MembersType ==
  ASSUME NEW members \in Members
  PROVE  /\ DOMAIN members \subseteq Records
         /\ members \in [DOMAIN members -> Identities]
BY DEF Members

\* Admission keeps the account of the batches, and the counts follow.
LEMMA AdmitContents ==
  ASSUME StoreInv, NEW b \in Batches, NEW members \in Members, AdmitBatch(b, members)
  PROVE  /\ BatchesAgree' /\ CountsAgree'
         /\ batch' \in [Batches -> Batch \cup {None}]
         /\ batchRefs' \subseteq Records \X Batches /\ originalRefs' \subseteq Records \X Batches
         /\ priorities' \in [Priorities -> Nat]
<1> DEFINE ids   == DOMAIN members
           fresh == Fresh(ids)
           live  == fresh \cup {r \in ids : Held(r)}
<1>0. Typed /\ BatchesAgree /\ CountsAgree
  BY DEF StoreInv, Verified
<1>1. /\ batch[b] = None
      /\ \A r \in ids : Admissible(r, members[r])
      /\ record' = [r \in Records |-> IF r \in fresh THEN newRecord(members[r]) ELSE record[r]]
      /\ priorities' = [p \in Priorities |->
            priorities[p] + Cardinality({r \in fresh : members[r].priority = p})]
      /\ tombstone' = [r \in Records |->
            IF r \in ids /\ tombstone[r] = Legacy THEN members[r] ELSE tombstone[r]]
      /\ batchRefs' = batchRefs \cup (live \X {b})
      /\ originalRefs' = originalRefs \cup (IF live = {} THEN {} ELSE ids \X {b})
      /\ batch' = IF live = {} THEN batch
                  ELSE [batch EXCEPT ![b] = [original |-> members, live |-> live]]
  BY DEF AdmitBatch
<1>2. /\ ids \subseteq Records /\ fresh \subseteq ids /\ live \subseteq ids
      /\ \A r \in ids : members[r] \in Identities
      /\ \A r \in fresh : ~Held(r) /\ tombstone[r] = None
  BY MembersType DEF Fresh
<1>3. \A r \in ids : /\ \A c \in History(r) : batch[c].original[r] = members[r]
                     /\ Cardinality(History(r)) < MaxBatchRefs
                     /\ Held(r) => record[r].identity = members[r]
  BY <1>1 DEF Admissible
<1>4. live = fresh \cup {r \in ids : Held(r)}
  OBVIOUS
<1> HIDE DEF fresh, live
<1>5. \A r \in fresh : record'[r] = newRecord(members[r]) /\ record'[r].identity = members[r] /\ Held(r)'
  <2>1. \A r \in fresh : record'[r] = newRecord(members[r])
    BY <1>1, <1>2
  <2> QED
    BY <1>2, <2>1, NewRecordStored, NotNone DEF newRecord, Held
<1>6. \A r \in Records \ fresh : record'[r] = record[r] /\ (Held(r)' <=> Held(r))
  BY <1>1 DEF Held
<1>7. /\ live # {} => batch'[b] = [original |-> members, live |-> live] /\ batch'[b] # None
      /\ live = {} => batch'[b] = None
      /\ \A c \in Batches \ {b} : batch'[c] = batch[c]
      /\ batch' \in [Batches -> Batch \cup {None}]
  <2>1. live \in SUBSET Records
    BY <1>2
  <2>2. [original |-> members, live |-> live] \in Batch
    BY <2>1 DEF Batch
  <2> QED
    BY <1>0, <1>1, <2>2, NotNone DEF Typed
<1>8. /\ live # {} => batch'[b].original = members /\ batch'[b].live = live
      /\ batchRefs' \subseteq Records \X Batches /\ originalRefs' \subseteq Records \X Batches
  BY <1>0, <1>1, <1>2, <1>7 DEF Typed
<1>9. BatchesAgree'
  <2>1. ASSUME NEW r \in Records, Held(r)'
        PROVE  tombstone'[r] = None /\ LiveRefs(r)' # {}
    <3>1. CASE r \in fresh
      <4>1. r \in ids /\ tombstone[r] = None /\ r \in live
        BY <1>2, <1>4, <3>1
      <4>2. tombstone'[r] = None
        BY <1>1, <4>1, NotNone
      <4>3. <<r, b>> \in batchRefs'
        BY <1>1, <4>1
      <4> QED
        BY <4>2, <4>3 DEF LiveRefs
    <3>2. CASE r \notin fresh
      <4>1. tombstone[r] = None /\ LiveRefs(r) # {}
        BY <1>0, <1>6, <2>1, <3>2 DEF BatchesAgree
      <4>2. tombstone'[r] = None
        BY <1>1, <4>1, NotNone
      <4>3. PICK c \in Batches : <<r, c>> \in batchRefs
        BY <4>1 DEF LiveRefs
      <4>4. <<r, c>> \in batchRefs'
        BY <1>1, <4>3
      <4> QED
        BY <4>2, <4>4 DEF LiveRefs
    <3> QED
      BY <3>1, <3>2
  <2>2. ASSUME NEW c \in Batches, batch'[c] # None
        PROVE  /\ batch'[c].live # {}
               /\ batch'[c].live \subseteq DOMAIN batch'[c].original
               /\ \A r \in batch'[c].live : Held(r)'
               /\ \A r \in DOMAIN batch'[c].original :
                     Held(r)' => record'[r].identity = batch'[c].original[r]
    <3>1. CASE c = b
      <4>1. live # {} /\ batch'[b].original = members /\ batch'[b].live = live
        BY <1>7, <1>8, <2>2, <3>1
      <4>2. \A r \in live : Held(r)'
        BY <1>2, <1>4, <1>5, <1>6
      <4>3. ASSUME NEW r \in ids, Held(r)'
            PROVE  record'[r].identity = members[r]
        <5>1. CASE r \in fresh
          BY <1>5, <5>1
        <5>2. CASE r \notin fresh
          BY <1>2, <1>3, <1>6, <4>3, <5>2
        <5> QED
          BY <5>1, <5>2
      <4> QED
        BY <1>2, <3>1, <4>1, <4>2, <4>3
    <3>2. CASE c # b
      <4>1. batch'[c] = batch[c] /\ batch[c] # None
        BY <1>7, <2>2, <3>2
      <4>2. /\ batch[c].live # {}
            /\ batch[c].live \subseteq DOMAIN batch[c].original
            /\ \A r \in batch[c].live : Held(r)
            /\ \A r \in DOMAIN batch[c].original :
                  Held(r) => record[r].identity = batch[c].original[r]
            /\ DOMAIN batch[c].original \subseteq Records
        BY <1>0, <4>1, BatchType DEF BatchesAgree
      <4>3. \A r \in DOMAIN batch[c].original : c \in History(r)
        <5>1. \A r \in DOMAIN batch[c].original : <<r, c>> \in originalRefs
          BY <1>0, <4>1, <4>2 DEF BatchesAgree
        <5> QED
          BY <5>1 DEF History
      <4>4. ASSUME NEW r \in DOMAIN batch[c].original, Held(r)'
            PROVE  record'[r].identity = batch[c].original[r]
        <5>1. CASE r \in fresh
          BY <1>2, <1>3, <1>5, <4>3, <5>1
        <5>2. CASE r \notin fresh
          BY <1>6, <4>2, <4>4, <5>2
        <5> QED
          BY <5>1, <5>2
      <4>5. \A r \in batch[c].live : Held(r)'
        BY <1>5, <1>6, <4>2
      <4> QED
        BY <4>1, <4>2, <4>4, <4>5
    <3> QED
      BY <3>1, <3>2
  <2>3. batchRefs' = {rb \in Records \X Batches : batch'[rb[2]] # None /\ rb[1] \in batch'[rb[2]].live}
    <3>1. ASSUME NEW r \in Records, NEW c \in Batches
          PROVE  <<r, c>> \in batchRefs' <=> batch'[c] # None /\ r \in batch'[c].live
      <4>1. <<r, c>> \in batchRefs <=> batch[c] # None /\ r \in batch[c].live
        BY <1>0 DEF BatchesAgree
      <4>2. <<r, c>> \in batchRefs' <=> <<r, c>> \in batchRefs \/ (c = b /\ r \in live)
        BY <1>1
      <4>3. CASE c = b
        BY <1>1, <1>7, <1>8, <4>1, <4>2, <4>3
      <4>4. CASE c # b
        BY <1>7, <4>1, <4>2, <4>4
      <4> QED
        BY <4>3, <4>4
    <3> QED
      BY <1>8, <3>1
  <2>4. originalRefs' = {rb \in Records \X Batches :
                           batch'[rb[2]] # None /\ rb[1] \in DOMAIN batch'[rb[2]].original}
    <3>1. ASSUME NEW r \in Records, NEW c \in Batches
          PROVE  <<r, c>> \in originalRefs' <=> batch'[c] # None /\ r \in DOMAIN batch'[c].original
      <4>1. <<r, c>> \in originalRefs <=> batch[c] # None /\ r \in DOMAIN batch[c].original
        BY <1>0 DEF BatchesAgree
      <4>2. <<r, c>> \in originalRefs' <=> <<r, c>> \in originalRefs \/ (c = b /\ live # {} /\ r \in ids)
        BY <1>1
      <4>3. CASE c = b
        BY <1>1, <1>7, <1>8, <4>1, <4>2, <4>3
      <4>4. CASE c # b
        BY <1>7, <4>1, <4>2, <4>4
      <4> QED
        BY <4>3, <4>4
    <3> QED
      BY <1>8, <3>1
  <2> QED
    BY <2>1, <2>2, <2>3, <2>4 DEF BatchesAgree
<1>10. ASSUME NEW p \in Priorities
       PROVE  /\ priorities'[p] = Cardinality({r \in Records : Held(r)' /\ record'[r].identity.priority = p})
              /\ priorities'[p] \in Nat
  <2> DEFINE S == {r \in Records : Held(r) /\ record[r].identity.priority = p}
             T == {r \in fresh : members[r].priority = p}
             U == {r \in Records : Held(r)' /\ record'[r].identity.priority = p}
  <2> SUFFICES priorities'[p] = Cardinality(U) /\ priorities'[p] \in Nat
    OBVIOUS
  <2>1. U = S \cup T
    BY <1>2, <1>5, <1>6
  <2>2. S \cap T = {}
    BY <1>2
  <2>3. priorities'[p] = priorities[p] + Cardinality(T)
    BY <1>1
  <2>4. priorities[p] = Cardinality(S)
    BY <1>0 DEF CountsAgree
  <2>5. S \in SUBSET Records /\ T \in SUBSET Records
    BY <1>2
  <2>6. /\ IsFiniteSet(S) /\ IsFiniteSet(T)
        /\ Cardinality(S) \in Nat /\ Cardinality(T) \in Nat /\ Cardinality({}) = 0
    BY <2>5, FiniteParts, FS_EmptySet
  <2> HIDE DEF S, T, U
  <2>7. Cardinality(S \cup T) = Cardinality(S) + Cardinality(T)
    BY <2>2, <2>6, DisjointCount
  <2> QED
    BY <2>1, <2>6, <2>7, <2>4, <2>3
<1>11. ASSUME NEW r \in Records
       PROVE  Cardinality(History(r)') <= MaxBatchRefs
  <2>1. History(r) \in SUBSET Batches /\ History(r)' \in SUBSET Batches
    BY DEF History
  <2>2. /\ IsFiniteSet(History(r)) /\ Cardinality(History(r)) \in Nat
        /\ Cardinality(History(r)') \in Nat /\ Cardinality(History(r)) <= MaxBatchRefs
    BY <1>0, <2>1, FiniteParts DEF CountsAgree
  <2>3. CASE r \in ids
    <3>1. History(r)' \subseteq History(r) \cup {b}
      BY <1>1 DEF History
    <3>2. Cardinality(History(r)') <= Cardinality(History(r)) + 1
      BY <2>2, <3>1, OneMore
    <3>3. Cardinality(History(r)) < MaxBatchRefs
      BY <1>3, <2>3
    <3> QED
      BY <2>2, <3>2, <3>3, ConfigAssumption
  <2>4. CASE r \notin ids
    <3>1. History(r)' = History(r)
      BY <1>1, <2>4 DEF History
    <3> QED
      BY <2>2, <3>1
  <2> QED
    BY <2>3, <2>4
<1>12. CountsAgree'
  BY <1>10, <1>11 DEF CountsAgree
<1>13. priorities' \in [Priorities -> Nat]
  BY <1>1, <1>10
<1> QED
  BY <1>7, <1>8, <1>9, <1>12, <1>13

\* The records as an admission leaves them.
LEMMA AdmitRecords ==
  ASSUME StoreInv, NEW b \in Batches, NEW members \in Members, AdmitBatch(b, members)
  PROVE  /\ \A r \in Fresh(DOMAIN members) :
               r \in Records /\ ~Held(r) /\ tombstone[r] = None /\ record'[r] = newRecord(members[r])
         /\ \A r \in Records \ Fresh(DOMAIN members) : record'[r] = record[r]
         /\ \A r \in DOMAIN members : members[r] \in Identities
         /\ record' \in [Records -> Stored \cup {None}]
<1>1. record' = [r \in Records |->
        IF r \in Fresh(DOMAIN members) THEN newRecord(members[r]) ELSE record[r]]
  BY DEF AdmitBatch
<1>2. \A r \in Fresh(DOMAIN members) : r \in DOMAIN members /\ ~Held(r) /\ tombstone[r] = None
  BY DEF Fresh
<1>3. DOMAIN members \subseteq Records /\ \A r \in DOMAIN members : members[r] \in Identities
  BY MembersType
<1>4. \A r \in Fresh(DOMAIN members) : newRecord(members[r]) \in Stored
  BY <1>2, <1>3, NewRecordStored
<1>5. record' \in [Records -> Stored \cup {None}]
  BY <1>1, <1>4 DEF StoreInv, Typed
<1> QED
  BY <1>1, <1>2, <1>3, <1>5

\* Admission indexes the new records as pending, with their reserves.
LEMMA AdmitIndexes ==
  ASSUME StoreInv, Typed', NEW b \in Batches, NEW members \in Members, AdmitBatch(b, members)
  PROVE  IndexesAgree'
<1> DEFINE fresh == Fresh(DOMAIN members)
<1>0. KeyByKey
  BY KeyByKeyHolds DEF StoreInv, Verified
<1>1. /\ \A r \in fresh : /\ r \in Records /\ ~Held(r)
                         /\ record'[r] = newRecord(members[r]) /\ members[r] \in Identities
      /\ \A r \in Records \ fresh : record'[r] = record[r]
  BY AdmitRecords DEF Fresh
<1>2. /\ pendingKeys' = pendingKeys \cup {<<members[r].priority, r>> : r \in fresh}
      /\ reserves' = reserves \cup fresh
      /\ UNCHANGED <<claimKeys, committedKeys>>
  BY DEF AdmitBatch
<1> HIDE DEF fresh
<1>3. \A r \in fresh : record'[r] \in Stored /\ Decodes(record'[r])
  BY <1>1, NewRecordStored
<1>4. \A r \in fresh : record'[r].identity = members[r] /\ record'[r].state = "pending"
  BY <1>1, NewRecordStored
<1>5. ASSUME NEW r \in fresh
      PROVE  /\ InState(r, "pending")' /\ ~InState(r, "claimed")' /\ ~InState(r, "committed")'
             /\ ~InState(r, "pending") /\ ~InState(r, "claimed") /\ ~InState(r, "committed")
  BY <1>1, <1>3, <1>4, NotNone DEF InState, Held
<1>6. ASSUME NEW r \in Records \ fresh
      PROVE  /\ InState(r, "pending")' <=> InState(r, "pending")
             /\ InState(r, "claimed")' <=> InState(r, "claimed")
             /\ InState(r, "committed")' <=> InState(r, "committed")
  BY <1>1 DEF InState, Held
<1>7. ASSUME NEW p \in Priorities, NEW r \in Records
      PROVE  <<p, r>> \in pendingKeys' <=> InState(r, "pending")' /\ p = record'[r].identity.priority
  <2>1. <<p, r>> \in pendingKeys' <=> <<p, r>> \in pendingKeys \/ (r \in fresh /\ p = members[r].priority)
    BY <1>2
  <2>2. CASE r \in fresh
    BY <1>0, <1>4, <1>5, <2>1, <2>2 DEF KeyByKey
  <2>3. CASE r \notin fresh
    BY <1>0, <1>1, <1>6, <2>1, <2>3 DEF KeyByKey
  <2> QED
    BY <2>2, <2>3
<1>8. ASSUME NEW n \in Nat, NEW r \in Records
      PROVE  /\ <<n, r>> \in claimKeys' <=> InState(r, "claimed")' /\ n = record'[r].expiry
             /\ <<n, r>> \in committedKeys' <=> InState(r, "committed")' /\ n = record'[r].committedAt
  <2>1. CASE r \in fresh
    BY <1>0, <1>2, <1>5, <2>1 DEF KeyByKey
  <2>2. CASE r \notin fresh
    BY <1>0, <1>1, <1>2, <1>6, <2>2 DEF KeyByKey
  <2> QED
    BY <2>1, <2>2
<1>9. \A r \in Records : r \in reserves' <=> InState(r, "pending")'
  BY <1>0, <1>2, <1>5, <1>6 DEF KeyByKey
<1>10. \A r \in Records : Held(r)' => Decodes(record'[r])
  BY <1>0, <1>1, <1>3 DEF KeyByKey, Held
<1>11. \A r \in Records : InState(r, "claimed")' =>
         record'[r].token = claimToken(record'[r].owner, record'[r].attempt, record'[r].expiry)
  BY <1>0, <1>1, <1>5, <1>6 DEF KeyByKey
<1>12. KeyByKey'
  BY <1>7, <1>8, <1>9, <1>10, <1>11 DEF KeyByKey, Decodes, claimToken
<1> QED
  BY <1>12, KeyByKeySuffices

\* Appending a batch, known or new, keeps the invariant.
LEMMA AppendStoreInv ==
  ASSUME StoreInv, NEW b \in Batches, NEW members \in Members, AppendBatch(b, members)
  PROVE  StoreInv'
<1>1. /\ healthy' \in BOOLEAN /\ UNCHANGED <<now, issued>>
      /\ owed' = owed \/ owed' = owed \cup Acknowledged(members)
  BY DEF AppendBatch
<1>2. owed' \subseteq Records \X Identities
  BY <1>1, MembersType DEF Acknowledged, StoreInv, Typed
<1>3. CASE Replays(b, members) /\ UNCHANGED keyspace
  <2>1. Typed'
    BY <1>1, <1>2, <1>3 DEF StoreInv, Typed, keyspace
  <2> QED
    BY <1>3, <2>1, KeyspaceOnly DEF StoreInv
<1>4. CASE AdmitBatch(b, members)
  <2>1. /\ BatchesAgree' /\ CountsAgree'
        /\ batch' \in [Batches -> Batch \cup {None}]
        /\ batchRefs' \subseteq Records \X Batches /\ originalRefs' \subseteq Records \X Batches
        /\ priorities' \in [Priorities -> Nat]
    BY <1>4, AdmitContents
  <2>2. record' \in [Records -> Stored \cup {None}]
    BY <1>4, AdmitRecords
  <2>3. /\ pendingKeys' = pendingKeys \cup {<<members[r].priority, r>> : r \in Fresh(DOMAIN members)}
        /\ reserves' = reserves \cup Fresh(DOMAIN members)
        /\ tombstone' = [r \in Records |->
              IF r \in DOMAIN members /\ tombstone[r] = Legacy THEN members[r] ELSE tombstone[r]]
        /\ UNCHANGED <<claimKeys, committedKeys>>
    BY <1>4 DEF AdmitBatch
  <2>4. /\ \A r \in DOMAIN members : r \in Records /\ members[r] \in Identities
        /\ Fresh(DOMAIN members) \subseteq DOMAIN members
    BY MembersType DEF Fresh
  <2>5. pendingKeys' \subseteq Priorities \X Records /\ reserves' \subseteq Records
    BY <2>3, <2>4 DEF StoreInv, Typed, Identities
  <2>6. tombstone' \in [Records -> Identities \cup {None, Legacy}]
    BY <2>3, <2>4 DEF StoreInv, Typed
  <2>7. Typed'
    BY <1>1, <1>2, <2>1, <2>2, <2>3, <2>5, <2>6 DEF StoreInv, Typed
  <2> QED
    BY <1>4, <2>1, <2>7, AdmitIndexes DEF StoreInv, Verified
<1> QED
  BY <1>3, <1>4 DEF AppendBatch

-----------------------------------------------------------------------------
(* The theorems.                                                           *)

\* Every operation, crash and reopening keeps the invariant.
LEMMA NextStoreInv == StoreInv /\ [Next]_vars => StoreInv'
<1> SUFFICES ASSUME StoreInv, [Next]_vars PROVE StoreInv'
  OBVIOUS
<1>1. CASE \E b \in Batches, members \in Members : AppendBatch(b, members)
  BY <1>1, AppendStoreInv
<1>2. CASE \E limit \in 1..MaxTransitionRecords, owner \in Owners : Claim(limit, owner)
  BY <1>2, ClaimStoreInv
<1>3. CASE \E claims \in PresentedClaims : RenewClaims(claims) \/ MarkCommittedBatch(claims)
  BY <1>3, RenewStoreInv, MarkCommittedStoreInv
<1>4. CASE \E r \in Records : \E token \in issued[r] : Quarantine(r, token)
  BY <1>4, QuarantineStoreInv
<1>5. CASE \E limit \in 1..MaxTransitionRecords : Compact(limit)
  BY <1>5, CompactStoreInv
<1>6. CASE CommitFails \/ Open \/ Tick
  BY <1>6, OutsideStoreInv
<1>7. CASE UNCHANGED vars
  <2>1. UNCHANGED keyspace
    BY <1>7 DEF vars
  <2>2. Typed'
    BY <1>7 DEF StoreInv, Typed, vars, keyspace
  <2> QED
    BY <2>1, <2>2, KeyspaceOnly DEF StoreInv
<1> QED
  BY <1>1, <1>2, <1>3, <1>4, <1>5, <1>6, <1>7 DEF Next

-----------------------------------------------------------------------------
(* The bytes.  A mutation charges what its keys cost after it and takes off *)
(* what they cost before, and that is how far the whole volume's cost moves. *)

\* The costs are natural numbers, and those of a whole namespace are.
LEMMA CostsAreNat ==
  /\ EnvelopeCost \in Nat /\ IndexCost \in Nat /\ OwnerCost \in Nat /\ TokenCost \in Nat
  /\ ReserveCost \in Nat /\ TombstoneCost \in Nat /\ MaxBytes \in Nat
  /\ BatchCost \in Nat /\ MemberCost \in Nat /\ LiveCost \in Nat
  /\ TombstoneCost <= EnvelopeCost /\ OwnerCost + TokenCost <= ReserveCost
BY CostAssumption, ConfigAssumption

\* The references are finitely many, and fewer of them count for less.
LEMMA RefsFinite ==
  /\ \A S \in SUBSET (Records \X Batches) : IsFiniteSet(S) /\ Cardinality(S) \in Nat
  /\ \A S \in SUBSET (Records \X Batches) : \A T \in SUBSET S : Cardinality(T) <= Cardinality(S)
BY FiniteAssumption, FS_Product, FS_Subset, FS_CardinalityType

\* Every record and every batch costs a natural number of bytes.
KeyCostsAreNat ==
  /\ \A r \in Records : RecordCosts[r] \in Nat
  /\ \A b \in Batches : BatchCosts[b] \in Nat

\* So they do wherever the batches have their types.
LEMMA KeyCosts == Typed => KeyCostsAreNat
<1> SUFFICES ASSUME Typed PROVE KeyCostsAreNat
  OBVIOUS
<1>1. ASSUME NEW r \in Records PROVE RecordCosts[r] \in Nat
  <2>1. \A stored : StateCost(stored) \in Nat
    BY CostsAreNat DEF StateCost
  <2> QED
    BY <2>1, CostsAreNat DEF RecordCosts
<1>2. ASSUME NEW b \in Batches PROVE BatchCosts[b] \in Nat
  <2>1. CASE batch[b] = None
    BY <2>1 DEF BatchCosts
  <2>2. CASE batch[b] # None
    <3>1. /\ Cardinality(DOMAIN batch[b].original) \in Nat
          /\ Cardinality(batch[b].live) \in Nat
      BY <2>2, BatchType, FiniteParts
    <3>2. \A m, n \in Nat : BatchCost + MemberCost * m + LiveCost * n \in Nat
      BY CostsAreNat
    <3> QED
      BY <2>2, <3>1, <3>2 DEF BatchCosts
  <2> QED
    BY <2>1, <2>2
<1> QED
  BY <1>1, <1>2 DEF KeyCostsAreNat

\* A count follows a change of its set by what left it and what joined it.
LEMMA CountChange ==
  ASSUME NEW S, NEW T, IsFiniteSet(S), IsFiniteSet(T)
  PROVE  /\ Cardinality(T) + Cardinality(S \ T) = Cardinality(S) + Cardinality(T \ S)
         /\ Cardinality(S) \in Nat /\ Cardinality(T) \in Nat
         /\ Cardinality(S \ T) \in Nat /\ Cardinality(T \ S) \in Nat
<1>1. IsFiniteSet(S \ T) /\ IsFiniteSet(T \ S)
  BY FS_Subset
<1>2. /\ Cardinality(T \cup (S \ T)) = Cardinality(T) + Cardinality(S \ T)
      /\ Cardinality(S \cup (T \ S)) = Cardinality(S) + Cardinality(T \ S)
  BY <1>1, DisjointCount
<1>3. T \cup (S \ T) = S \cup (T \ S)
  OBVIOUS
<1>4. /\ Cardinality(S) \in Nat /\ Cardinality(T) \in Nat
      /\ Cardinality(S \ T) \in Nat /\ Cardinality(T \ S) \in Nat
  BY <1>1, FS_CardinalityType
<1> QED
  BY <1>2, <1>3, <1>4

\* commitMutation keeps the bytes charged those of the volume.
LEMMA MutationCharges ==
  ASSUME Typed, Typed', commitMutation, bytes = usage
  PROVE  bytes' = usage'
<1>1. /\ \A r \in Records : RecordCosts[r] \in Nat /\ RecordCosts'[r] \in Nat
      /\ \A b \in Batches : BatchCosts[b] \in Nat /\ BatchCosts'[b] \in Nat
  <2>1. KeyCostsAreNat /\ KeyCostsAreNat'
    BY KeyCosts, PTL
  <2> QED
    BY <2>1 DEF KeyCostsAreNat
<1>2. PICK r1, r2, f1, c1 \in Nat :
        /\ r1 = SumFunctionOnSet(RecordCosts, Records) /\ r2 = SumFunctionOnSet(RecordCosts', Records)
        /\ f1 = SumFunctionOnSet(RecordCosts, TouchedRecords)
        /\ c1 = SumFunctionOnSet(RecordCosts', TouchedRecords)
        /\ r2 + f1 = r1 + c1
  <2>1. /\ TouchedRecords \in SUBSET Records
        /\ \A r \in Records \ TouchedRecords : RecordCosts'[r] = RecordCosts[r]
    BY DEF TouchedRecords, RecordCosts, Held
  <2>2. /\ SumFunctionOnSet(RecordCosts', Records) + SumFunctionOnSet(RecordCosts, TouchedRecords)
             = SumFunctionOnSet(RecordCosts, Records) + SumFunctionOnSet(RecordCosts', TouchedRecords)
        /\ SumFunctionOnSet(RecordCosts, TouchedRecords) \in Nat
        /\ SumFunctionOnSet(RecordCosts', TouchedRecords) \in Nat
    BY <1>1, <2>1, FiniteAssumption, SumChange
  <2>3. /\ SumFunctionOnSet(RecordCosts, Records) \in Nat
        /\ SumFunctionOnSet(RecordCosts', Records) \in Nat
    BY <1>1, FiniteAssumption, SumNat
  <2> QED
    BY <2>2, <2>3
<1>3. PICK b1, b2, f2, c2 \in Nat :
        /\ b1 = SumFunctionOnSet(BatchCosts, Batches) /\ b2 = SumFunctionOnSet(BatchCosts', Batches)
        /\ f2 = SumFunctionOnSet(BatchCosts, TouchedBatches)
        /\ c2 = SumFunctionOnSet(BatchCosts', TouchedBatches)
        /\ b2 + f2 = b1 + c2
  <2>1. /\ TouchedBatches \in SUBSET Batches
        /\ \A b \in Batches \ TouchedBatches : BatchCosts'[b] = BatchCosts[b]
    BY DEF TouchedBatches, BatchCosts
  <2>2. /\ SumFunctionOnSet(BatchCosts', Batches) + SumFunctionOnSet(BatchCosts, TouchedBatches)
             = SumFunctionOnSet(BatchCosts, Batches) + SumFunctionOnSet(BatchCosts', TouchedBatches)
        /\ SumFunctionOnSet(BatchCosts, TouchedBatches) \in Nat
        /\ SumFunctionOnSet(BatchCosts', TouchedBatches) \in Nat
    BY <1>1, <2>1, FiniteAssumption, SumChange
  <2>3. /\ SumFunctionOnSet(BatchCosts, Batches) \in Nat
        /\ SumFunctionOnSet(BatchCosts', Batches) \in Nat
    BY <1>1, FiniteAssumption, SumNat
  <2> QED
    BY <2>2, <2>3
<1>4. PICK n1, n2, f3, c3 \in Nat :
        /\ n1 = Cardinality(reserves) /\ n2 = Cardinality(reserves')
        /\ f3 = Cardinality(reserves \ reserves') /\ c3 = Cardinality(reserves' \ reserves)
        /\ n2 + f3 = n1 + c3
  <2>1. IsFiniteSet(reserves) /\ IsFiniteSet(reserves')
    BY FiniteParts DEF Typed
  <2>2. /\ Cardinality(reserves') + Cardinality(reserves \ reserves')
             = Cardinality(reserves) + Cardinality(reserves' \ reserves)
        /\ Cardinality(reserves) \in Nat /\ Cardinality(reserves') \in Nat
        /\ Cardinality(reserves \ reserves') \in Nat
        /\ Cardinality(reserves' \ reserves) \in Nat
    BY <2>1, CountChange
  <2> QED
    BY <2>2
<1>5. PICK k1, k2, f4, c4 \in Nat :
        /\ k1 = Cardinality(batchRefs) /\ k2 = Cardinality(batchRefs')
        /\ f4 = Cardinality(batchRefs \ batchRefs') /\ c4 = Cardinality(batchRefs' \ batchRefs)
        /\ k2 + f4 = k1 + c4
  <2>1. IsFiniteSet(batchRefs) /\ IsFiniteSet(batchRefs')
    BY RefsFinite DEF Typed
  <2>2. /\ Cardinality(batchRefs') + Cardinality(batchRefs \ batchRefs')
             = Cardinality(batchRefs) + Cardinality(batchRefs' \ batchRefs)
        /\ Cardinality(batchRefs) \in Nat /\ Cardinality(batchRefs') \in Nat
        /\ Cardinality(batchRefs \ batchRefs') \in Nat
        /\ Cardinality(batchRefs' \ batchRefs) \in Nat
    BY <2>1, CountChange
  <2> QED
    BY <2>2
<1>6. PICK o1, o2, f5, c5 \in Nat :
        /\ o1 = Cardinality(originalRefs) /\ o2 = Cardinality(originalRefs')
        /\ f5 = Cardinality(originalRefs \ originalRefs')
        /\ c5 = Cardinality(originalRefs' \ originalRefs)
        /\ o2 + f5 = o1 + c5
  <2>1. IsFiniteSet(originalRefs) /\ IsFiniteSet(originalRefs')
    BY RefsFinite DEF Typed
  <2>2. /\ Cardinality(originalRefs') + Cardinality(originalRefs \ originalRefs')
             = Cardinality(originalRefs) + Cardinality(originalRefs' \ originalRefs)
        /\ Cardinality(originalRefs) \in Nat /\ Cardinality(originalRefs') \in Nat
        /\ Cardinality(originalRefs \ originalRefs') \in Nat
        /\ Cardinality(originalRefs' \ originalRefs) \in Nat
    BY <2>1, CountChange
  <2> QED
    BY <2>2
<1>7. /\ usage = r1 + b1 + ReserveCost * n1 + IndexCost * (k1 + o1)
      /\ usage' = r2 + b2 + ReserveCost * n2 + IndexCost * (k2 + o2)
      /\ Freed = f1 + f2 + ReserveCost * f3 + IndexCost * (f4 + f5)
      /\ Charged = c1 + c2 + ReserveCost * c3 + IndexCost * (c4 + c5)
  BY <1>2, <1>3, <1>4, <1>5, <1>6 DEF usage, Freed, Charged
<1>8. /\ ReserveCost * n2 + ReserveCost * f3 = ReserveCost * n1 + ReserveCost * c3
      /\ IndexCost * (k2 + o2) + IndexCost * (f4 + f5) = IndexCost * (k1 + o1) + IndexCost * (c4 + c5)
  <2>1. \A c, m, n, k, l \in Nat : m + n = k + l => c * m + c * n = c * k + c * l
    <3> SUFFICES ASSUME NEW c \in Nat, NEW m \in Nat, NEW n \in Nat, NEW k \in Nat, NEW l \in Nat,
                        m + n = k + l
                 PROVE  c * m + c * n = c * k + c * l
      OBVIOUS
    <3>1. c * (m + n) = c * m + c * n /\ c * (k + l) = c * k + c * l
      OBVIOUS
    <3> QED
      BY <3>1
  <2>2. (k2 + o2) + (f4 + f5) = (k1 + o1) + (c4 + c5)
    <3>1. k2 + f4 = k1 + c4 /\ o2 + f5 = o1 + c5
      BY <1>5, <1>6
    <3>2. /\ k1 \in Nat /\ k2 \in Nat /\ f4 \in Nat /\ c4 \in Nat
          /\ o1 \in Nat /\ o2 \in Nat /\ f5 \in Nat /\ c5 \in Nat
      OBVIOUS
    <3> QED
      BY <3>1, <3>2
  <2>3. k2 + o2 \in Nat /\ f4 + f5 \in Nat /\ k1 + o1 \in Nat /\ c4 + c5 \in Nat
    OBVIOUS
  <2>4. n2 + f3 = n1 + c3
    BY <1>4
  <2> QED
    BY <2>1, <2>2, <2>3, <2>4, CostsAreNat
<1>9. /\ ReserveCost * n1 \in Nat /\ ReserveCost * n2 \in Nat
      /\ ReserveCost * f3 \in Nat /\ ReserveCost * c3 \in Nat
      /\ IndexCost * (k1 + o1) \in Nat /\ IndexCost * (k2 + o2) \in Nat
      /\ IndexCost * (f4 + f5) \in Nat /\ IndexCost * (c4 + c5) \in Nat
  BY CostsAreNat
<1> DEFINE x1 == ReserveCost * n1
           x2 == ReserveCost * n2
           x3 == ReserveCost * f3
           x4 == ReserveCost * c3
           y1 == IndexCost * (k1 + o1)
           y2 == IndexCost * (k2 + o2)
           y3 == IndexCost * (f4 + f5)
           y4 == IndexCost * (c4 + c5)
<1>10. /\ x1 \in Nat /\ x2 \in Nat /\ x3 \in Nat /\ x4 \in Nat
       /\ y1 \in Nat /\ y2 \in Nat /\ y3 \in Nat /\ y4 \in Nat
       /\ x2 + x3 = x1 + x4 /\ y2 + y3 = y1 + y4
       /\ usage = r1 + b1 + x1 + y1 /\ usage' = r2 + b2 + x2 + y2
       /\ Freed = f1 + f2 + x3 + y3 /\ Charged = c1 + c2 + x4 + y4
  BY <1>7, <1>8, <1>9
<1> HIDE DEF x1, x2, x3, x4, y1, y2, y3, y4
<1>11. bytes' = (usage - Freed) + Charged
  BY DEF commitMutation
<1> QED
  BY <1>2, <1>3, <1>10, <1>11

\* Every step is one mutation, charged as a whole, or leaves the key space alone.
LEMMA StepMutates ==
  ASSUME [Next]_vars
  PROVE  commitMutation \/ UNCHANGED keyspace
<1>1. ASSUME NEW b \in Batches, NEW members \in Members, AppendBatch(b, members)
      PROVE  commitMutation \/ UNCHANGED keyspace
  BY <1>1 DEF AppendBatch, AdmitBatch
<1>2. ASSUME NEW limit, NEW owner \in Owners, Claim(limit, owner)
      PROVE  commitMutation
  BY <1>2 DEF Claim
<1>3. ASSUME NEW claims \in PresentedClaims, RenewClaims(claims) \/ MarkCommittedBatch(claims)
      PROVE  commitMutation
  BY <1>3 DEF RenewClaims, MarkCommittedBatch
<1>4. ASSUME NEW q \in Records, NEW token, Quarantine(q, token)
      PROVE  commitMutation
  BY <1>4 DEF Quarantine
<1>5. ASSUME NEW limit, Compact(limit)
      PROVE  commitMutation
  BY <1>5 DEF Compact
<1>6. CASE CommitFails \/ Open \/ Tick \/ UNCHANGED vars
  BY <1>6 DEF CommitFails, Open, Tick, vars
<1> QED
  BY <1>1, <1>2, <1>3, <1>4, <1>5, <1>6 DEF Next

\* So every step keeps them the same.
LEMMA NextCharges == StoreInv /\ bytes = usage /\ [Next]_vars => (bytes = usage)'
<1> SUFFICES ASSUME StoreInv, bytes = usage, [Next]_vars PROVE bytes' = usage'
  OBVIOUS
<1>1. Typed /\ Typed'
  BY NextStoreInv DEF StoreInv
<1>2. CASE commitMutation
  BY <1>1, <1>2, MutationCharges
<1>3. CASE UNCHANGED keyspace
  <2>1. usage' = usage
    BY <1>3 DEF keyspace, usage, RecordCosts, BatchCosts, Held, StateCost
  <2> QED
    BY <1>3, <2>1 DEF keyspace
<1> QED
  BY <1>2, <1>3, StepMutates

\* The cost of the whole volume is a natural number.
LEMMA UsageType == Typed => usage \in Nat
<1> SUFFICES ASSUME Typed PROVE usage \in Nat
  OBVIOUS
<1>1. /\ SumFunctionOnSet(RecordCosts, Records) \in Nat
      /\ SumFunctionOnSet(BatchCosts, Batches) \in Nat
  BY KeyCosts, FiniteAssumption, SumNat DEF KeyCostsAreNat
<1>2. /\ Cardinality(reserves) \in Nat
      /\ Cardinality(batchRefs) \in Nat /\ Cardinality(originalRefs) \in Nat
  BY FiniteParts, RefsFinite DEF Typed
<1>3. \A s, u, m, n, k \in Nat : s + u + ReserveCost * m + IndexCost * (n + k) \in Nat
  BY CostsAreNat
<1> QED
  BY <1>1, <1>2, <1>3 DEF usage

\* The type invariant and verify() hold in every state the journal can reach.
THEOREM Invariance == Spec => []IInv
<1>1. Init => StoreInv /\ bytes = usage
  BY InitStoreInv DEF Init
<1>2. StoreInv /\ bytes = usage /\ [Next]_vars => (StoreInv /\ bytes = usage)'
  BY NextStoreInv, NextCharges
<1>3. StoreInv /\ bytes = usage => IInv
  BY UsageType DEF StoreInv, Verified, IInv, TypeOK, verify, CountersAgree
<1> QED
  BY <1>1, <1>2, <1>3, PTL DEF Spec

\* What the lemmas about the operations rest on, of it.
LEMMA StoreOfIInv == IInv => StoreInv
BY DEF StoreInv, Verified, IInv, TypeOK, verify, CountersAgree

\* Every variable has its type: what any operation stores decodes again, and
\* no count or usage falls below zero.
THEOREM TypeCorrect == Spec => []TypeOK
<1>1. IInv => TypeOK
  BY DEF IInv
<1> QED
  BY <1>1, Invariance, PTL

\* Open never refuses, for its indexes, a volume these operations wrote: a crash
\* between any two synchronized commits leaves every record in exactly the
\* index of its state, with the reserve and the token that state requires.
THEOREM IndexesAlwaysAgree == Spec => []IndexesAgree
<1>1. IInv => IndexesAgree
  BY DEF IInv, verify
<1> QED
  BY <1>1, Invariance, PTL

\* Nor for its batches: references, members, records and tombstones agree after
\* any sequence of appends, replays, quarantines and compactions.
THEOREM BatchesAlwaysAgree == Spec => []BatchesAgree
<1>1. IInv => BatchesAgree
  BY DEF IInv, verify
<1> QED
  BY <1>1, Invariance, PTL

\* Nor for its manifest: the counts per priority and the bytes that mutations
\* maintain one by one are those a scan of the volume finds, and no record
\* outgrows its reference limit.
THEOREM CountersAlwaysAgree == Spec => []CountersAgree
<1>1. IInv => CountersAgree
  BY DEF IInv, verify
<1> QED
  BY <1>1, Invariance, PTL

-----------------------------------------------------------------------------
(* What each operation does to the records, for the properties that follow. *)

\* MarkCommittedBatch retires claimed records and touches no other.
LEMMA MarkCommittedRecords ==
  ASSUME StoreInv, NEW claims \in PresentedClaims, MarkCommittedBatch(claims)
  PROVE  \E retiring \in SUBSET Records :
            /\ \A r \in retiring : /\ InState(r, "claimed") /\ record'[r] \in Stored
                                   /\ record'[r].state = "committed" /\ record'[r].committedAt = now
                                   /\ record'[r].identity = record[r].identity
                                   /\ record'[r].token = record[r].token
            /\ \A r \in Records \ retiring : record'[r] = record[r]
            /\ owed' = {o \in owed : o[1] \notin retiring}
            /\ UNCHANGED <<now, tombstone, batch, issued>>
<1> DEFINE retiring == {r \in DOMAIN claims : Claimable(r, claims[r])}
<1>1. retiring \subseteq Records /\ \A r \in retiring : InState(r, "claimed")
  BY PresentedType DEF Claimable
<1>2. /\ record' = [r \in Records |-> IF r \in retiring THEN Retired(record[r], now) ELSE record[r]]
      /\ owed' = {o \in owed : o[1] \notin retiring}
      /\ UNCHANGED <<now, tombstone, batch, issued>>
  BY DEF MarkCommittedBatch
<1>3. now \in Nat /\ \A r \in retiring : record[r] \in Stored /\ Decodes(record[r]) /\ record[r].state = "claimed"
  BY <1>1 DEF StoreInv, Verified, Typed, IndexesAgree, InState, Held
<1> HIDE DEF retiring
<1>4. ASSUME NEW r \in retiring
      PROVE  /\ record'[r] \in Stored
             /\ record'[r].state = "committed" /\ record'[r].committedAt = now
             /\ record'[r].identity = record[r].identity
             /\ record'[r].token = record[r].token
  <2>1. record'[r] = Retired(record[r], now)
    BY <1>1, <1>2
  <2> QED
    BY <1>3, <2>1, RetiredStored
<1>5. \A r \in Records \ retiring : record'[r] = record[r]
  BY <1>2
<1> QED
  BY <1>1, <1>2, <1>4, <1>5

\* RenewClaims gives claimed records a later expiry and touches no other.
LEMMA RenewRecords ==
  ASSUME StoreInv, NEW claims \in PresentedClaims, RenewClaims(claims)
  PROVE  \E renewing \in SUBSET Records :
            /\ \A r \in renewing : /\ InState(r, "claimed") /\ record'[r] \in Stored
                                   /\ record'[r].state = "claimed" /\ record'[r].expiry = now + ClaimTTL
                                   /\ record'[r].identity = record[r].identity
                                   /\ record'[r].attempt = record[r].attempt
                                   /\ record'[r].owner = record[r].owner
                                   /\ record'[r].token =
                                        claimToken(record[r].owner, record[r].attempt, now + ClaimTTL)
            /\ \A r \in Records \ renewing : record'[r] = record[r]
            /\ issued' = [r \in Records |->
                  IF r \in renewing THEN issued[r] \cup {record'[r].token} ELSE issued[r]]
            /\ UNCHANGED <<now, tombstone, batch, owed>>
<1> DEFINE renewing == {r \in DOMAIN claims : Claimable(r, claims[r])}
<1>1. renewing \subseteq Records /\ \A r \in renewing : InState(r, "claimed")
  BY PresentedType DEF Claimable
<1>2. /\ record' = [r \in Records |-> IF r \in renewing THEN Renewed(record[r], now + ClaimTTL) ELSE record[r]]
      /\ issued' = [r \in Records |->
            IF r \in renewing THEN issued[r] \cup {record'[r].token} ELSE issued[r]]
      /\ UNCHANGED <<now, tombstone, batch, owed>>
  BY DEF RenewClaims
<1>3. /\ now + ClaimTTL \in Nat
      /\ \A r \in renewing : record[r] \in Stored /\ Decodes(record[r]) /\ record[r].state = "claimed"
  BY <1>1, ConfigAssumption DEF StoreInv, Verified, Typed, IndexesAgree, InState, Held
<1> HIDE DEF renewing
<1>4. ASSUME NEW r \in renewing
      PROVE  /\ record'[r] \in Stored
             /\ record'[r].state = "claimed" /\ record'[r].expiry = now + ClaimTTL
             /\ record'[r].identity = record[r].identity
             /\ record'[r].attempt = record[r].attempt
             /\ record'[r].owner = record[r].owner
             /\ record'[r].token = claimToken(record[r].owner, record[r].attempt, now + ClaimTTL)
  <2>1. record'[r] = Renewed(record[r], now + ClaimTTL)
    BY <1>1, <1>2
  <2> QED
    BY <1>3, <2>1, RenewedStored
<1>5. \A r \in Records \ renewing : record'[r] = record[r]
  BY <1>2
<1> QED
  BY <1>1, <1>2, <1>4, <1>5

\* Quarantine removes one claimed record and seals its tombstone.
LEMMA QuarantineRecords ==
  ASSUME StoreInv, NEW q \in Records, NEW token, Quarantine(q, token)
  PROVE  /\ InState(q, "claimed") /\ record'[q] = None /\ tombstone'[q] # None
         /\ \A r \in Records \ {q} : record'[r] = record[r] /\ tombstone'[r] = tombstone[r]
         /\ owed' = {o \in owed : o[1] # q}
         /\ UNCHANGED <<now, issued>>
<1>1. record[q] \in Stored
  BY DEF Quarantine, Claimable, InState, Held, StoreInv, Typed
<1>2. tombstone' = [tombstone EXCEPT ![q] = record[q].identity]
  BY DEF Quarantine
<1>3. tombstone'[q] # None
  BY <1>1, <1>2, NotNone DEF StoreInv, Typed, Stored
<1>4. record' = [r \in Records |-> IF r \in {q} THEN None ELSE record[r]]
  BY DEF Quarantine, RemoveRecords
<1>5. InState(q, "claimed") /\ owed' = {o \in owed : o[1] # q} /\ UNCHANGED <<now, issued>>
  BY DEF Quarantine, Claimable
<1> QED
  BY <1>2, <1>3, <1>4, <1>5 DEF StoreInv, Typed

\* Compact removes committed records past the delay and touches no other.
LEMMA CompactRecords ==
  ASSUME StoreInv, NEW limit, Compact(limit)
  PROVE  \E gone \in SUBSET Records :
            /\ \A r \in gone : /\ InState(r, "committed") /\ record[r].committedAt + SafetyDelay < now
                               /\ record'[r] = None
            /\ \A r \in Records \ gone : record'[r] = record[r]
            /\ UNCHANGED <<now, tombstone, owed, issued>>
<1>1. PICK gone \in SUBSET Records :
        /\ \A r \in gone : InState(r, "committed") /\ record[r].committedAt + SafetyDelay < now
        /\ RemoveRecords(gone)
        /\ UNCHANGED <<now, tombstone, owed, issued>>
  BY CompactStep
<1>2. record' = [r \in Records |-> IF r \in gone THEN None ELSE record[r]]
  BY <1>1 DEF RemoveRecords
<1>3. /\ \A r \in gone : /\ InState(r, "committed") /\ record[r].committedAt + SafetyDelay < now
                         /\ record'[r] = None
      /\ \A r \in Records \ gone : record'[r] = record[r]
  BY <1>1, <1>2
<1> QED
  BY <1>1, <1>3

-----------------------------------------------------------------------------
(* An acknowledged record is kept until it is committed or quarantined.    *)

\* An append, known or new, keeps what was acknowledged and what it acknowledges.
LEMMA AppendKeepsOwed ==
  ASSUME StoreInv, AcknowledgedKept, NEW b \in Batches, NEW members \in Members,
         AppendBatch(b, members)
  PROVE  AcknowledgedKept'
<1>1. owed' = owed \/ owed' = owed \cup Acknowledged(members)
  BY DEF AppendBatch
<1>2. ASSUME NEW o \in owed
      PROVE  Held(o[1])' /\ record'[o[1]].identity = o[2] /\ record'[o[1]].state # "committed"
  <2>1. o[1] \in Records /\ Held(o[1]) /\ record[o[1]].identity = o[2] /\ record[o[1]].state # "committed"
    BY DEF AcknowledgedKept, StoreInv, Typed
  <2>2. record'[o[1]] = record[o[1]]
    <3>1. CASE UNCHANGED keyspace
      BY <3>1 DEF keyspace
    <3>2. CASE AdmitBatch(b, members)
      <4>1. o[1] \notin Fresh(DOMAIN members)
        BY <2>1 DEF Fresh
      <4> QED
        BY <2>1, <3>2, <4>1, AdmitRecords
    <3> QED
      BY <3>1, <3>2 DEF AppendBatch
  <2> QED
    BY <2>1, <2>2 DEF Held
<1>3. ASSUME NEW r \in DOMAIN members, record'[r] # None
      PROVE  record'[r].identity = members[r]
  <2>0. r \in Records
    BY MembersType
  <2>1. CASE Replays(b, members) /\ UNCHANGED keyspace
    <3>1. record'[r] = record[r] /\ Held(r)
      BY <1>3, <2>1 DEF keyspace, Held
    <3> QED
      BY <2>1, <3>1 DEF Replays, StoreInv, Verified, BatchesAgree
  <2>2. CASE AdmitBatch(b, members)
    <3>1. CASE r \in Fresh(DOMAIN members)
      BY <2>2, <3>1, AdmitRecords, NewRecordStored
    <3>2. CASE r \notin Fresh(DOMAIN members)
      <4>1. record'[r] = record[r]
        BY <2>0, <2>2, <3>2, AdmitRecords
      <4> QED
        BY <1>3, <2>2, <4>1 DEF AdmitBatch, Admissible, Held
    <3> QED
      BY <3>1, <3>2
  <2> QED
    BY <2>1, <2>2 DEF AppendBatch
<1>4. ASSUME NEW o \in Acknowledged(members)
      PROVE  Held(o[1])' /\ record'[o[1]].identity = o[2] /\ record'[o[1]].state # "committed"
  <2>1. PICK r \in DOMAIN members : o = <<r, members[r]>> /\ record'[r] # None /\ record'[r].state # "committed"
    BY DEF Acknowledged
  <2> QED
    BY <1>3, <2>1 DEF Held
<1> QED
  BY <1>1, <1>2, <1>4 DEF AcknowledgedKept

\* Every step keeps what AppendBatch acknowledged.
LEMMA NextKeepsOwed == StoreInv /\ AcknowledgedKept /\ [Next]_vars => AcknowledgedKept'
<1> SUFFICES ASSUME StoreInv, AcknowledgedKept, [Next]_vars PROVE AcknowledgedKept'
  OBVIOUS
<1>0. \A o \in owed : /\ o[1] \in Records /\ Held(o[1])
                      /\ record[o[1]].identity = o[2] /\ record[o[1]].state # "committed"
  BY DEF AcknowledgedKept, StoreInv, Typed
<1>1. CASE \E b \in Batches, members \in Members : AppendBatch(b, members)
  BY <1>1, AppendKeepsOwed
<1>2. ASSUME NEW limit, NEW owner \in Owners, Claim(limit, owner)
      PROVE  AcknowledgedKept'
  <2>1. PICK lapsed, taken : ClaimMoves(owner, lapsed, taken)
    BY <1>2, ClaimStep
  <2>2. owed' = owed
    BY <2>1 DEF ClaimMoves
  <2>3. ASSUME NEW r \in Records, Held(r), record[r].state # "committed"
        PROVE  Held(r)' /\ record'[r].identity = record[r].identity /\ record'[r].state # "committed"
    <3>1. CASE r \in taken
      BY <2>1, <3>1, ClaimRecords, NotNone DEF Held
    <3>2. CASE r \in lapsed \ taken
      BY <2>1, <3>2, ClaimRecords, NotNone DEF Held
    <3>3. CASE r \notin lapsed \cup taken
      BY <2>1, <2>3, <3>3, ClaimRecords DEF Held
    <3> QED
      BY <3>1, <3>2, <3>3
  <2> QED
    BY <1>0, <2>2, <2>3 DEF AcknowledgedKept
<1>3. ASSUME NEW claims \in PresentedClaims, RenewClaims(claims)
      PROVE  AcknowledgedKept'
  <2>1. PICK renewing \in SUBSET Records :
          /\ \A r \in renewing : /\ InState(r, "claimed") /\ record'[r] \in Stored
                                 /\ record'[r].state = "claimed"
                                 /\ record'[r].identity = record[r].identity
          /\ \A r \in Records \ renewing : record'[r] = record[r]
          /\ owed' = owed
    BY <1>3, RenewRecords
  <2>2. ASSUME NEW r \in Records, Held(r), record[r].state # "committed"
        PROVE  Held(r)' /\ record'[r].identity = record[r].identity /\ record'[r].state # "committed"
    <3>1. CASE r \in renewing
      BY <2>1, <3>1, NotNone DEF Held
    <3>2. CASE r \notin renewing
      BY <2>1, <2>2, <3>2 DEF Held
    <3> QED
      BY <3>1, <3>2
  <2> QED
    BY <1>0, <2>1, <2>2 DEF AcknowledgedKept
<1>4. ASSUME NEW claims \in PresentedClaims, MarkCommittedBatch(claims)
      PROVE  AcknowledgedKept'
  <2>1. PICK retiring \in SUBSET Records :
          /\ \A r \in Records \ retiring : record'[r] = record[r]
          /\ owed' = {o \in owed : o[1] \notin retiring}
    BY <1>4, MarkCommittedRecords
  <2> QED
    BY <1>0, <2>1 DEF AcknowledgedKept, Held
<1>5. ASSUME NEW q \in Records, NEW token, Quarantine(q, token)
      PROVE  AcknowledgedKept'
  <2>1. /\ \A r \in Records \ {q} : record'[r] = record[r]
        /\ owed' = {o \in owed : o[1] # q}
    BY <1>5, QuarantineRecords
  <2> QED
    BY <1>0, <2>1 DEF AcknowledgedKept, Held
<1>6. ASSUME NEW limit, Compact(limit)
      PROVE  AcknowledgedKept'
  <2>1. PICK gone \in SUBSET Records :
          /\ \A r \in gone : InState(r, "committed")
          /\ \A r \in Records \ gone : record'[r] = record[r]
          /\ owed' = owed
    BY <1>6, CompactRecords
  <2> QED
    BY <1>0, <2>1 DEF AcknowledgedKept, Held, InState
<1>7. CASE CommitFails \/ Open \/ Tick \/ UNCHANGED vars
  <2>1. record' = record /\ owed' = owed
    BY <1>7 DEF CommitFails, Open, Tick, vars, keyspace
  <2> QED
    BY <1>0, <2>1 DEF AcknowledgedKept, Held
<1> QED
  BY <1>1, <1>2, <1>3, <1>4, <1>5, <1>6, <1>7 DEF Next

\* What AppendBatch acknowledged is still in the journal, unchanged, until a
\* caller commits or quarantines it: no expiry, compaction, failed commit or
\* reopening loses it.
THEOREM AcknowledgedAlwaysKept == Spec => []AcknowledgedKept
<1>1. Init => StoreInv /\ AcknowledgedKept
  BY InitStoreInv DEF Init, AcknowledgedKept
<1>2. StoreInv /\ AcknowledgedKept /\ [Next]_vars => (StoreInv /\ AcknowledgedKept)'
  BY NextStoreInv, NextKeepsOwed
<1> QED
  BY <1>1, <1>2, PTL DEF Spec

-----------------------------------------------------------------------------
(* What may happen to a record: it is admitted, changed while not committed, *)
(* or, once committed, compacted after the safety delay.                     *)

\* The record a batch admits is a live member of a batch not known before.
LEMMA AdmittedAsMember ==
  ASSUME StoreInv, NEW b \in Batches, NEW members \in Members, AdmitBatch(b, members),
         NEW r \in Fresh(DOMAIN members)
  PROVE  /\ ~Held(r) /\ tombstone[r] = None
         /\ batch[b] = None /\ batch'[b] # None /\ r \in batch'[b].live
<1> DEFINE live == Fresh(DOMAIN members) \cup {q \in DOMAIN members : Held(q)}
           new  == [original |-> members, live |-> live]
<1>1. live # {} /\ r \in live
  OBVIOUS
<1>2. batch[b] = None /\ batch' = [batch EXCEPT ![b] = new]
  BY <1>1 DEF AdmitBatch
<1>3. new \in Batch
  <2>1. live \subseteq Records
    BY MembersType DEF Fresh
  <2> QED
    BY <2>1 DEF Batch
<1>4. batch'[b] = new
  BY <1>2 DEF StoreInv, Typed
<1>5. batch'[b] # None /\ batch'[b].live = live
  BY <1>3, <1>4, NotNone
<1> QED
  BY <1>1, <1>2, <1>5, AdmitRecords

\* Every step that changes a record does one of these three things to it.
LEMMA RecordMoves ==
  ASSUME StoreInv, [Next]_vars, NEW r \in Records, record'[r] # record[r]
  PROVE  \/ /\ ~Held(r) /\ tombstone[r] = None
            /\ \E b \in Batches : batch[b] = None /\ batch'[b] # None /\ r \in batch'[b].live
         \/ Held(r) /\ record[r].state # "committed"
         \/ /\ InState(r, "committed") /\ record[r].committedAt + SafetyDelay < now
            /\ record'[r] = None
<1>0. \A s, t \in States : InState(r, s) /\ s # t => Held(r) /\ record[r].state # t
  BY DEF InState
<1>1. ASSUME NEW b \in Batches, NEW members \in Members, AppendBatch(b, members)
      PROVE  /\ ~Held(r) /\ tombstone[r] = None
             /\ batch[b] = None /\ batch'[b] # None /\ r \in batch'[b].live
  <2>1. AdmitBatch(b, members)
    BY <1>1 DEF AppendBatch, keyspace
  <2>2. r \in Fresh(DOMAIN members)
    BY <2>1, AdmitRecords
  <2> QED
    BY <2>1, <2>2, AdmittedAsMember
<1>2. ASSUME NEW limit, NEW owner \in Owners, Claim(limit, owner)
      PROVE  Held(r) /\ record[r].state # "committed"
  <2>1. PICK lapsed, taken : ClaimMoves(owner, lapsed, taken)
    BY <1>2, ClaimStep
  <2>2. r \in lapsed \cup taken
    BY <2>1, ClaimRecords
  <2> QED
    BY <1>0, <2>1, <2>2 DEF ClaimMoves, States
<1>3. ASSUME NEW claims \in PresentedClaims, RenewClaims(claims)
      PROVE  Held(r) /\ record[r].state # "committed"
  <2>1. PICK renewing \in SUBSET Records :
          /\ \A q \in renewing : InState(q, "claimed")
          /\ \A q \in Records \ renewing : record'[q] = record[q]
    BY <1>3, RenewRecords
  <2> QED
    BY <1>0, <2>1 DEF States
<1>4. ASSUME NEW claims \in PresentedClaims, MarkCommittedBatch(claims)
      PROVE  Held(r) /\ record[r].state # "committed"
  <2>1. PICK retiring \in SUBSET Records :
          /\ \A q \in retiring : InState(q, "claimed")
          /\ \A q \in Records \ retiring : record'[q] = record[q]
    BY <1>4, MarkCommittedRecords
  <2> QED
    BY <1>0, <2>1 DEF States
<1>5. ASSUME NEW q \in Records, NEW token, Quarantine(q, token)
      PROVE  Held(r) /\ record[r].state # "committed"
  <2>1. r = q /\ InState(q, "claimed")
    BY <1>5, QuarantineRecords
  <2> QED
    BY <1>0, <2>1 DEF States
<1>6. ASSUME NEW limit, Compact(limit)
      PROVE  /\ InState(r, "committed") /\ record[r].committedAt + SafetyDelay < now
             /\ record'[r] = None
  BY <1>6, CompactRecords
<1>7. CASE CommitFails \/ Open \/ Tick \/ UNCHANGED vars
  BY <1>7 DEF CommitFails, Open, Tick, vars, keyspace
<1> QED
  BY <1>1, <1>2, <1>3, <1>4, <1>5, <1>6, <1>7 DEF Next

\* Until its safety delay has passed, nothing changes a committed record or its
\* token, so a caller whose MarkCommittedBatch answer was lost can ask again.
THEOREM CommittedAlwaysKept == Spec => CommittedKept
<1>1. StoreInv /\ [Next]_vars =>
        [\A r \in Records : InState(r, "committed") =>
          record'[r] = record[r] \/ (record'[r] = None /\ record[r].committedAt + SafetyDelay < now)]_vars
  <2> SUFFICES ASSUME StoreInv, [Next]_vars, NEW r \in Records, InState(r, "committed"), record'[r] # record[r]
               PROVE  record'[r] = None /\ record[r].committedAt + SafetyDelay < now
    OBVIOUS
  <2> QED
    BY RecordMoves DEF InState
<1> QED
  BY <1>1, StoreOfIInv, Invariance, PTL DEF Spec, CommittedKept

\* A replayed batch the journal still knows, a reopening or an expiry never
\* brings back a record that was compacted or quarantined.
THEOREM NeverResurrected == Spec => NoResurrection
<1>1. StoreInv /\ [Next]_vars =>
        [\A r \in Records : record[r] = None /\ record'[r] # None =>
          /\ tombstone[r] = None
          /\ \E b \in Batches : batch[b] = None /\ batch'[b] # None /\ r \in batch'[b].live]_vars
  <2> SUFFICES ASSUME StoreInv, [Next]_vars, NEW r \in Records, record[r] = None, record'[r] # None
               PROVE  /\ tombstone[r] = None
                      /\ \E b \in Batches : batch[b] = None /\ batch'[b] # None /\ r \in batch'[b].live
    OBVIOUS
  <2> QED
    BY RecordMoves DEF InState, Held
<1> QED
  BY <1>1, StoreOfIInv, Invariance, PTL DEF Spec, NoResurrection

-----------------------------------------------------------------------------
(* The byte ceiling.  Only AppendBatch answers to it; the other operations *)
(* live on what is reserved.                                               *)

\* What a record costs with the owner and the token of its next claim paid for,
\* and what the key space costs when nothing else is reserved.
Promised(r) ==
  IF InState(r, "pending") THEN StateCost(record[r]) + (OwnerCost + TokenCost)
  ELSE IF Held(r) THEN StateCost(record[r])
  ELSE IF tombstone[r] # None THEN TombstoneCost ELSE 0
PromisedCosts == [r \in Records |-> Promised(r)]
Spare == ReserveCost - OwnerCost - TokenCost
promised == SumFunctionOnSet(PromisedCosts, Records) + SumFunctionOnSet(BatchCosts, Batches)
            + IndexCost * (Cardinality(batchRefs) + Cardinality(originalRefs))

\* The reserve of a pending record pays for the owner and the token of its claim.
LEMMA SpareIsNat == Spare \in Nat /\ ReserveCost = OwnerCost + TokenCost + Spare
BY CostsAreNat DEF Spare

\* The cost of a record in each of its states.
PromisedByState ==
  \A r \in Records :
    /\ InState(r, "pending") => /\ StateCost(record[r]) = EnvelopeCost + IndexCost
                                /\ Promised(r) = EnvelopeCost + IndexCost + (OwnerCost + TokenCost)
    /\ InState(r, "claimed") => Promised(r) = EnvelopeCost + IndexCost + (OwnerCost + TokenCost)
    /\ InState(r, "committed") => Promised(r) = EnvelopeCost + IndexCost + TokenCost
    /\ ~Held(r) => Promised(r) = TombstoneCost \/ Promised(r) = 0

\* It follows from what verify() requires of the fields of each state.
LEMMA CostsByState == IndexesAgree => PromisedByState
<1> SUFFICES ASSUME IndexesAgree, NEW r \in Records
             PROVE  /\ InState(r, "pending") => /\ StateCost(record[r]) = EnvelopeCost + IndexCost
                                                /\ Promised(r) = EnvelopeCost + IndexCost
                                                                   + (OwnerCost + TokenCost)
                    /\ InState(r, "claimed") =>
                          Promised(r) = EnvelopeCost + IndexCost + (OwnerCost + TokenCost)
                    /\ InState(r, "committed") => Promised(r) = EnvelopeCost + IndexCost + TokenCost
                    /\ ~Held(r) => Promised(r) = TombstoneCost \/ Promised(r) = 0
  BY DEF PromisedByState
<1>1. Held(r) => Decodes(record[r])
  BY DEF IndexesAgree
<1>2. \A stored : Decodes(stored) =>
        /\ stored.state = "pending" => stored.owner = None /\ stored.token = None
        /\ stored.state = "claimed" => stored.owner # None /\ stored.token # None
        /\ stored.state = "committed" => stored.owner = None /\ stored.token # None
  BY NoneAssumption DEF Decodes
<1>3. InState(r, "pending") => /\ StateCost(record[r]) = EnvelopeCost + IndexCost
                               /\ Promised(r) = EnvelopeCost + IndexCost + (OwnerCost + TokenCost)
  BY <1>1, <1>2, CostsAreNat DEF StateCost, Promised, InState
<1>4. InState(r, "claimed") => Promised(r) = EnvelopeCost + IndexCost + (OwnerCost + TokenCost)
  BY <1>1, <1>2, CostsAreNat DEF StateCost, Promised, InState
<1>5. InState(r, "committed") => Promised(r) = EnvelopeCost + IndexCost + TokenCost
  BY <1>1, <1>2, CostsAreNat DEF StateCost, Promised, InState
<1> QED
  BY <1>3, <1>4, <1>5 DEF Promised, InState

\* A held record is in one of the three states.
LEMMA HeldState ==
  ASSUME IndexesAgree, NEW r \in Records, Held(r)
  PROVE  InState(r, "pending") \/ InState(r, "claimed") \/ InState(r, "committed")
BY DEF IndexesAgree, Decodes, InState

\* What is promised is a natural number, record by record and as a whole.
PromisedIsNat ==
  /\ \A r \in Records : Promised(r) \in Nat
  /\ SumFunctionOnSet(PromisedCosts, Records) \in Nat
  /\ SumFunctionOnSet(BatchCosts, Batches) \in Nat
  /\ IndexCost * (Cardinality(batchRefs) + Cardinality(originalRefs)) \in Nat
  /\ promised \in Nat

\* So it is wherever the records have their types and the indexes agree.
LEMMA PromisedType == Typed /\ IndexesAgree => PromisedIsNat
<1> SUFFICES ASSUME Typed, IndexesAgree PROVE PromisedIsNat
  OBVIOUS
<1>1. \A r \in Records : Promised(r) \in Nat
  BY HeldState, CostsByState, CostsAreNat DEF PromisedByState
<1>2. SumFunctionOnSet(PromisedCosts, Records) \in Nat
  BY <1>1, FiniteAssumption, SumNat DEF PromisedCosts
<1>3. Cardinality(batchRefs) \in Nat /\ Cardinality(originalRefs) \in Nat
  BY RefsFinite DEF Typed
<1>4. \A m, n \in Nat : IndexCost * (m + n) \in Nat
  BY CostsAreNat
<1>5. SumFunctionOnSet(BatchCosts, Batches) \in Nat
  BY KeyCosts, FiniteAssumption, SumNat DEF KeyCostsAreNat
<1> QED
  BY <1>1, <1>2, <1>3, <1>4, <1>5 DEF promised, PromisedIsNat

\* The accounted bytes are what is promised and the spare part of each reserve.
UsageSplit ==
  /\ usage = promised + Spare * Cardinality(reserves)
  /\ usage \in Nat /\ Cardinality(reserves) \in Nat /\ promised \in Nat

\* So they are wherever the records have their types and the indexes agree.
LEMMA UsageIs == Typed /\ IndexesAgree => UsageSplit
<1> SUFFICES ASSUME Typed, IndexesAgree PROVE UsageSplit
  OBVIOUS
<1>1. reserves \in SUBSET Records /\ Cardinality(reserves) \in Nat
  BY FiniteParts DEF Typed
<1>2. ASSUME NEW r \in Records
      PROVE  /\ RecordCosts[r] \in Nat
             /\ PromisedCosts[r] = RecordCosts[r] + (IF r \in reserves THEN OwnerCost + TokenCost ELSE 0)
  <2>1. r \in reserves <=> InState(r, "pending")
    BY DEF IndexesAgree
  <2>2. PromisedCosts[r] = Promised(r)
        /\ RecordCosts[r] = IF Held(r) THEN StateCost(record[r])
                            ELSE IF tombstone[r] # None THEN TombstoneCost ELSE 0
    BY DEF PromisedCosts, RecordCosts
  <2>3. CASE InState(r, "pending")
    BY <2>1, <2>2, <2>3, CostsByState, CostsAreNat DEF InState, PromisedByState
  <2>4. CASE ~InState(r, "pending")
    <3>1. RecordCosts[r] = Promised(r)
      BY <2>2, <2>4 DEF Promised
    <3> QED
      BY <2>1, <2>2, <2>4, <3>1, PromisedType, CostsAreNat DEF PromisedIsNat
  <2> QED
    BY <2>3, <2>4
<1>3. SumFunctionOnSet(PromisedCosts, Records)
        = SumFunctionOnSet(RecordCosts, Records) + (OwnerCost + TokenCost) * Cardinality(reserves)
  BY <1>1, <1>2, CostsAreNat, FiniteAssumption, SumCharged
<1>4. SumFunctionOnSet(RecordCosts, Records) \in Nat
  BY <1>2, FiniteAssumption, SumNat
<1>5. PICK s, u, n, k \in Nat : /\ s = SumFunctionOnSet(RecordCosts, Records)
                             /\ u = SumFunctionOnSet(BatchCosts, Batches)
                             /\ n = Cardinality(reserves)
                             /\ k = IndexCost * (Cardinality(batchRefs) + Cardinality(originalRefs))
  BY <1>1, <1>4, PromisedType DEF PromisedIsNat
<1>6. /\ usage = s + u + (OwnerCost + TokenCost + Spare) * n + k
      /\ promised = s + u + (OwnerCost + TokenCost) * n + k
  <2>1. /\ usage = s + u + ReserveCost * n + k
        /\ promised = SumFunctionOnSet(PromisedCosts, Records) + u + k
    BY <1>5 DEF usage, promised
  <2>2. SumFunctionOnSet(PromisedCosts, Records) = s + (OwnerCost + TokenCost) * n
    BY <1>3, <1>5
  <2>3. (OwnerCost + TokenCost) * n \in Nat
    BY CostsAreNat
  <2>4. \A x \in Nat : s + x + u + k = s + u + x + k
    OBVIOUS
  <2> QED
    BY <2>1, <2>2, <2>3, <2>4, SpareIsNat
<1>7. (OwnerCost + TokenCost + Spare) * n = (OwnerCost + TokenCost) * n + Spare * n
      /\ (OwnerCost + TokenCost) * n \in Nat /\ Spare * n \in Nat
  BY CostsAreNat, SpareIsNat
<1> QED
  BY <1>1, <1>5, <1>6, <1>7 DEF UsageSplit

\* A step leaves a record as it is, claims it, lapses or renews its claim, commits
\* it or removes it.
Settles(r) ==
  \/ record'[r] = record[r] /\ tombstone'[r] = tombstone[r]
  \/ InState(r, "pending") /\ (InState(r, "pending") \/ InState(r, "claimed"))'
  \/ InState(r, "claimed") /\ (InState(r, "pending") \/ InState(r, "claimed") \/ InState(r, "committed"))'
  \/ Held(r) /\ ~Held(r)'

\* Then it promises no more for it.
LEMMA SettlesCost ==
  ASSUME IndexesAgree, IndexesAgree', NEW r \in Records, Settles(r)
  PROVE  Promised(r)' <= Promised(r)
<1> DEFINE full == EnvelopeCost + IndexCost + (OwnerCost + TokenCost)
           done == EnvelopeCost + IndexCost + TokenCost
<1>1. PromisedByState /\ PromisedByState'
  BY CostsByState, PTL
<1>2. /\ InState(r, "pending") => Promised(r) = full
      /\ InState(r, "claimed") => Promised(r) = full
      /\ InState(r, "committed") => Promised(r) = done
      /\ ~Held(r) => Promised(r) = TombstoneCost \/ Promised(r) = 0
      /\ InState(r, "pending")' => Promised(r)' = full
      /\ InState(r, "claimed")' => Promised(r)' = full
      /\ InState(r, "committed")' => Promised(r)' = done
      /\ ~Held(r)' => Promised(r)' = TombstoneCost \/ Promised(r)' = 0
  BY <1>1 DEF PromisedByState
<1>3. /\ full \in Nat /\ done \in Nat /\ done <= full
      /\ TombstoneCost \in Nat /\ TombstoneCost <= done /\ TombstoneCost <= full
  BY CostsAreNat
<1> HIDE DEF full, done
<1>4. CASE record'[r] = record[r] /\ tombstone'[r] = tombstone[r]
  <2>1. Promised(r)' = Promised(r)
    BY <1>4 DEF Promised, InState, Held, StateCost
  <2>2. Promised(r) \in Nat
    BY <1>2, <1>3, HeldState
  <2> QED
    BY <2>1, <2>2
<1>5. CASE Held(r) /\ ~Held(r)'
  BY <1>2, <1>3, <1>5, HeldState
<1> QED
  BY <1>2, <1>3, <1>4, <1>5 DEF Settles

\* A batch is left as it is, loses live members or is removed.
Shrinks(b) ==
  \/ batch'[b] = batch[b] \/ batch'[b] = None
  \/ /\ batch[b] # None /\ batch'[b].original = batch[b].original
     /\ batch'[b].live \subseteq batch[b].live

\* Then it costs no more.
LEMMA ShrinksCost ==
  ASSUME Typed, Typed', NEW b \in Batches, Shrinks(b)
  PROVE  BatchCosts'[b] <= BatchCosts[b]
<1>1. BatchCosts[b] \in Nat /\ BatchCosts'[b] \in Nat
  <2>1. KeyCostsAreNat /\ KeyCostsAreNat'
    BY KeyCosts, PTL
  <2> QED
    BY <2>1 DEF KeyCostsAreNat
<1>2. CASE batch'[b] = batch[b]
  <2>1. BatchCosts'[b] = BatchCosts[b]
    BY <1>2 DEF BatchCosts
  <2> QED
    BY <1>1, <2>1
<1>3. CASE batch'[b] = None
  <2>1. BatchCosts'[b] = 0
    BY <1>3 DEF BatchCosts
  <2> QED
    BY <1>1, <2>1
<1>4. CASE /\ batch[b] # None /\ batch'[b] # None
           /\ batch'[b].original = batch[b].original
           /\ batch'[b].live \subseteq batch[b].live
  <2>1. /\ DOMAIN batch[b].original \subseteq Records /\ batch[b].live \subseteq Records
    BY <1>4, BatchType
  <2>2. PICK m, k, l \in Nat :
          /\ m = Cardinality(DOMAIN batch[b].original)
          /\ k = Cardinality(batch[b].live) /\ l = Cardinality(batch'[b].live) /\ l <= k
    <3>1. /\ IsFiniteSet(batch[b].live) /\ Cardinality(batch[b].live) \in Nat
          /\ Cardinality(DOMAIN batch[b].original) \in Nat
      BY <2>1, FiniteParts
    <3>2. /\ Cardinality(batch'[b].live) \in Nat
          /\ Cardinality(batch'[b].live) <= Cardinality(batch[b].live)
      BY <1>4, <2>1, <3>1, FiniteParts, FS_Subset
    <3> QED
      BY <3>1, <3>2
  <2>3. /\ BatchCosts[b] = BatchCost + MemberCost * m + LiveCost * k
        /\ BatchCosts'[b] = BatchCost + MemberCost * m + LiveCost * l
    BY <1>4, <2>2 DEF BatchCosts
  <2>4. LiveCost * l <= LiveCost * k /\ LiveCost * l \in Nat /\ LiveCost * k \in Nat
        /\ MemberCost * m \in Nat
    <3>1. \A x, y \in Nat : x <= y => LiveCost * x <= LiveCost * y
      BY CostsAreNat
    <3> QED
      BY <2>2, <3>1, CostsAreNat
  <2> QED
    BY <2>3, <2>4, CostsAreNat
<1> QED
  BY <1>2, <1>3, <1>4 DEF Shrinks

\* A step that settles every record and grows no batch promises no more.
LEMMA SettlesPromised ==
  ASSUME StoreInv, StoreInv', \A r \in Records : Settles(r), \A b \in Batches : Shrinks(b),
         batchRefs' \subseteq batchRefs, originalRefs' \subseteq originalRefs
  PROVE  promised' <= promised
<1>1. Typed /\ IndexesAgree /\ Typed' /\ IndexesAgree'
  BY DEF StoreInv, Verified
<1>2. PromisedIsNat /\ PromisedIsNat'
  BY <1>1, PromisedType, PTL
<1>3. /\ \A r \in Records : Promised(r) \in Nat /\ Promised(r)' \in Nat
      /\ SumFunctionOnSet(PromisedCosts, Records) \in Nat
      /\ SumFunctionOnSet(PromisedCosts', Records) \in Nat
  BY <1>2 DEF PromisedIsNat
<1>4. \A r \in Records : Promised(r)' <= Promised(r)
  BY <1>1, SettlesCost
<1>5. \A r \in Records : /\ PromisedCosts[r] = Promised(r)
                         /\ PromisedCosts'[r] = Promised(r)'
  BY DEF PromisedCosts
<1>6. \A r \in Records : /\ PromisedCosts'[r] \in Nat /\ PromisedCosts[r] \in Nat
                         /\ PromisedCosts'[r] <= PromisedCosts[r]
  BY <1>3, <1>4, <1>5
<1>7. SumFunctionOnSet(PromisedCosts', Records) <= SumFunctionOnSet(PromisedCosts, Records)
  BY <1>6, FiniteAssumption, SumMonotone
<1>8. /\ Cardinality(batchRefs) \in Nat /\ Cardinality(originalRefs) \in Nat
      /\ Cardinality(batchRefs') \in Nat /\ Cardinality(originalRefs') \in Nat
      /\ Cardinality(batchRefs') <= Cardinality(batchRefs)
      /\ Cardinality(originalRefs') <= Cardinality(originalRefs)
  BY <1>1, RefsFinite DEF Typed
<1>9. \A m, n \in Nat : m <= n => IndexCost * m <= IndexCost * n
  BY CostsAreNat
<1>13. PICK u, v \in Nat : /\ u = SumFunctionOnSet(BatchCosts, Batches)
                           /\ v = SumFunctionOnSet(BatchCosts', Batches) /\ v <= u
  <2>1. KeyCostsAreNat /\ KeyCostsAreNat'
    BY <1>1, KeyCosts, PTL
  <2>2. \A b \in Batches : /\ BatchCosts'[b] \in Nat /\ BatchCosts[b] \in Nat
                           /\ BatchCosts'[b] <= BatchCosts[b]
    BY <1>1, <2>1, ShrinksCost DEF KeyCostsAreNat
  <2>3. /\ SumFunctionOnSet(BatchCosts', Batches) <= SumFunctionOnSet(BatchCosts, Batches)
        /\ SumFunctionOnSet(BatchCosts', Batches) \in Nat
        /\ SumFunctionOnSet(BatchCosts, Batches) \in Nat
    BY <2>2, FiniteAssumption, SumMonotone, SumNat
  <2> QED
    BY <2>3
<1>10. IndexCost * (Cardinality(batchRefs') + Cardinality(originalRefs'))
         <= IndexCost * (Cardinality(batchRefs) + Cardinality(originalRefs))
  BY <1>8, <1>9
<1>11. \A m, n, k, l, x, y \in Nat : m <= n /\ x <= y /\ k <= l => m + x + k <= n + y + l
  OBVIOUS
<1>12. /\ IndexCost * (Cardinality(batchRefs') + Cardinality(originalRefs')) \in Nat
       /\ IndexCost * (Cardinality(batchRefs) + Cardinality(originalRefs)) \in Nat
  BY <1>8, CostsAreNat
<1> QED
  BY <1>3, <1>7, <1>10, <1>11, <1>12, <1>13 DEF promised

\* Removing members from batches shrinks them.
LEMMA RemovalShrinks ==
  ASSUME Typed, NEW gone, RemoveBatchRefs(gone)
  PROVE  \A b \in Batches : Shrinks(b)
<1> SUFFICES ASSUME NEW b \in Batches, batch'[b] # None, batch[b] # None
             PROVE  batch'[b].original = batch[b].original /\ batch'[b].live \subseteq batch[b].live
  BY DEF Shrinks, RemoveBatchRefs
<1>1. batch'[b] = [batch[b] EXCEPT !.live = @ \ gone]
  BY DEF RemoveBatchRefs
<1>2. batch[b] = [original |-> batch[b].original, live |-> batch[b].live]
  BY BatchType
<1> QED
  BY <1>1, <1>2

\* Every operation but an append settles the records and grows no batch.
LEMMA OthersSettle ==
  ASSUME StoreInv, StoreInv', [Next]_vars,
         ~\E b \in Batches, members \in Members : AdmitBatch(b, members)
  PROVE  /\ \A r \in Records : Settles(r)
         /\ \A b \in Batches : Shrinks(b)
         /\ batchRefs' \subseteq batchRefs /\ originalRefs' \subseteq originalRefs
<1> DEFINE Goal == /\ \A r \in Records : Settles(r)
                   /\ \A b \in Batches : Shrinks(b)
                   /\ batchRefs' \subseteq batchRefs /\ originalRefs' \subseteq originalRefs
<1>1. ASSUME NEW b \in Batches, NEW members \in Members, AppendBatch(b, members)
      PROVE  Goal
  BY <1>1 DEF AppendBatch, keyspace, Settles, Shrinks
<1>2. ASSUME NEW limit, NEW owner \in Owners, Claim(limit, owner)
      PROVE  Goal
  <2>1. PICK lapsed, taken : ClaimMoves(owner, lapsed, taken)
    BY <1>2, ClaimStep
  <2>2. /\ UNCHANGED <<tombstone, batch, batchRefs, originalRefs>>
        /\ \A r \in lapsed : InState(r, "claimed")
        /\ \A r \in taken \ lapsed : InState(r, "pending")
    BY <2>1 DEF ClaimMoves
  <2>3. \A r \in Records \ (lapsed \cup taken) : record'[r] = record[r]
    BY <2>1, ClaimRecords
  <2>4. /\ \A r \in taken \cap Records : InState(r, "claimed")'
        /\ \A r \in (lapsed \ taken) \cap Records : InState(r, "pending")'
    BY <2>1, ClaimRecords, NotNone DEF InState, Held
  <2> QED
    BY <2>2, <2>3, <2>4 DEF Settles, Shrinks
<1>3. ASSUME NEW claims \in PresentedClaims, RenewClaims(claims)
      PROVE  Goal
  <2>1. PICK renewing \in SUBSET Records :
          /\ \A r \in renewing : /\ InState(r, "claimed") /\ record'[r] \in Stored
                                 /\ record'[r].state = "claimed"
          /\ \A r \in Records \ renewing : record'[r] = record[r]
    BY <1>3, RenewRecords
  <2>2. \A r \in renewing : InState(r, "claimed")'
    BY <2>1, NotNone DEF InState, Held
  <2>3. UNCHANGED <<tombstone, batch, batchRefs, originalRefs>>
    BY <1>3 DEF RenewClaims
  <2> QED
    BY <2>1, <2>2, <2>3 DEF Settles, Shrinks
<1>4. ASSUME NEW claims \in PresentedClaims, MarkCommittedBatch(claims)
      PROVE  Goal
  <2>1. PICK retiring \in SUBSET Records :
          /\ \A r \in retiring : /\ InState(r, "claimed") /\ record'[r] \in Stored
                                 /\ record'[r].state = "committed"
          /\ \A r \in Records \ retiring : record'[r] = record[r]
    BY <1>4, MarkCommittedRecords
  <2>2. \A r \in retiring : InState(r, "committed")'
    BY <2>1, NotNone DEF InState, Held
  <2>3. UNCHANGED <<tombstone, batch, batchRefs, originalRefs>>
    BY <1>4 DEF MarkCommittedBatch
  <2> QED
    BY <2>1, <2>2, <2>3 DEF Settles, Shrinks
<1>5. ASSUME NEW q \in Records, NEW token, Quarantine(q, token)
      PROVE  Goal
  <2>1. /\ InState(q, "claimed") /\ record'[q] = None
        /\ \A r \in Records \ {q} : record'[r] = record[r] /\ tombstone'[r] = tombstone[r]
    BY <1>5, QuarantineRecords
  <2>2. batchRefs' \subseteq batchRefs /\ originalRefs' \subseteq originalRefs
    BY <1>5 DEF Quarantine, RemoveRecords, RemoveBatchRefs
  <2>3. PICK left : RemoveBatchRefs(left)
    BY <1>5 DEF Quarantine, RemoveRecords
  <2>4. \A b \in Batches : Shrinks(b)
    BY <2>3, RemovalShrinks DEF StoreInv
  <2> QED
    BY <2>1, <2>2, <2>4 DEF Settles, Held, InState
<1>6. ASSUME NEW limit, Compact(limit)
      PROVE  Goal
  <2>1. PICK gone \in SUBSET Records :
          /\ \A r \in gone : InState(r, "committed") /\ record'[r] = None
          /\ \A r \in Records \ gone : record'[r] = record[r]
          /\ UNCHANGED tombstone
    BY <1>6, CompactRecords
  <2>2. batchRefs' \subseteq batchRefs /\ originalRefs' \subseteq originalRefs
    BY <1>6 DEF Compact, RemoveRecords, RemoveBatchRefs
  <2>3. PICK left : RemoveBatchRefs(left)
    BY <1>6 DEF Compact, RemoveRecords
  <2>4. \A b \in Batches : Shrinks(b)
    BY <2>3, RemovalShrinks DEF StoreInv
  <2> QED
    BY <2>1, <2>2, <2>4 DEF Settles, Held, InState
<1>7. CASE CommitFails \/ Open \/ Tick \/ UNCHANGED vars
  BY <1>7 DEF CommitFails, Open, Tick, vars, keyspace, Settles, Shrinks
<1> QED
  BY <1>1, <1>2, <1>3, <1>4, <1>5, <1>6, <1>7 DEF Next

\* An append that grows the journal fits under the ceiling; one that does not
\* grow it reserves no less.
LEMMA AdmitPromised ==
  ASSUME StoreInv, StoreInv', bytes = usage, bytes' = usage',
         NEW b \in Batches, NEW members \in Members, AdmitBatch(b, members),
         promised <= MaxBytes
  PROVE  promised' <= MaxBytes
<1>1. Typed /\ IndexesAgree /\ Typed' /\ IndexesAgree'
  BY DEF StoreInv, Verified
<1>2. /\ usage = promised + Spare * Cardinality(reserves)
      /\ usage \in Nat /\ Cardinality(reserves) \in Nat /\ promised \in Nat
  BY <1>1, UsageIs DEF UsageSplit
<1>3. /\ usage' = promised' + Spare * Cardinality(reserves')
      /\ usage' \in Nat /\ Cardinality(reserves') \in Nat /\ promised' \in Nat
  <2>1. UsageSplit'
    BY <1>1, UsageIs, PTL
  <2> QED
    BY <2>1 DEF UsageSplit
<1>4. (usage' > usage => usage' <= MaxBytes) /\ reserves \subseteq reserves'
  BY DEF AdmitBatch, FitsCapacity
<1>5. Cardinality(reserves) <= Cardinality(reserves')
  BY <1>1, <1>4, FiniteParts, FS_Subset DEF Typed
<1>6. Spare * Cardinality(reserves) <= Spare * Cardinality(reserves')
      /\ Spare * Cardinality(reserves) \in Nat /\ Spare * Cardinality(reserves') \in Nat
  <2>1. \A m, n \in Nat : m <= n => Spare * m <= Spare * n /\ Spare * m \in Nat /\ Spare * n \in Nat
    BY CostsAreNat, SpareIsNat
  <2> QED
    BY <1>2, <1>3, <1>5, <2>1
<1>7. PICK u, v, p, q, s, t \in Nat :
        /\ u = usage /\ v = usage' /\ p = promised /\ q = promised'
        /\ s = Spare * Cardinality(reserves) /\ t = Spare * Cardinality(reserves')
  BY <1>2, <1>3, <1>6
<1>8. u = p + s /\ v = q + t /\ s <= t /\ (v > u => v <= MaxBytes) /\ p <= MaxBytes
  BY <1>2, <1>3, <1>4, <1>6, <1>7
<1> QED
  BY <1>7, <1>8, CostsAreNat, SpareIsNat

\* What is promised never exceeds the ceiling.
LEMMA NextKeepsPromised ==
  StoreInv /\ bytes = usage /\ promised <= MaxBytes /\ [Next]_vars => (promised <= MaxBytes)'
<1> SUFFICES ASSUME StoreInv, bytes = usage, promised <= MaxBytes, [Next]_vars
             PROVE  promised' <= MaxBytes
  OBVIOUS
<1>1. StoreInv' /\ Typed /\ IndexesAgree /\ Typed' /\ IndexesAgree'
  BY NextStoreInv DEF StoreInv, Verified
<1>2. promised \in Nat /\ promised' \in Nat
  <2>1. UsageSplit /\ UsageSplit'
    BY <1>1, UsageIs, PTL
  <2> QED
    BY <2>1 DEF UsageSplit
<1>3. CASE \E b \in Batches, members \in Members : AdmitBatch(b, members)
  BY <1>1, <1>3, NextCharges, AdmitPromised
<1>4. CASE ~\E b \in Batches, members \in Members : AdmitBatch(b, members)
  <2>1. promised' <= promised
    BY <1>1, <1>4, OthersSettle, SettlesPromised
  <2> QED
    BY <1>2, <2>1, CostsAreNat, SpareIsNat
<1> QED
  BY <1>3, <1>4

\* An empty volume, with or without the tombstones of an earlier version, may
\* already be over a ceiling lowered since; from one that fits, the bytes past
\* the ceiling are at most what the pending records' reserves hold to spare.
THEOREM CapacityRespected == usage <= MaxBytes /\ Spec => []WithinCapacity
<1>1. Init /\ usage <= MaxBytes => StoreInv /\ bytes = usage /\ promised <= MaxBytes
  <2> SUFFICES ASSUME Init, usage <= MaxBytes PROVE StoreInv /\ bytes = usage /\ promised <= MaxBytes
    OBVIOUS
  <2>1. StoreInv /\ Typed /\ IndexesAgree
    BY InitStoreInv DEF StoreInv, Verified
  <2>2. /\ usage = promised + Spare * Cardinality(reserves)
        /\ Cardinality(reserves) = 0 /\ promised \in Nat
    BY <2>1, UsageIs, FS_EmptySet DEF Init, UsageSplit
  <2>3. promised = usage
    <3>1. Spare * 0 = 0
      BY SpareIsNat
    <3> QED
      BY <2>2, <3>1
  <2> QED
    BY <2>1, <2>3 DEF Init
<1>2. StoreInv /\ bytes = usage /\ promised <= MaxBytes /\ [Next]_vars
        => (StoreInv /\ bytes = usage /\ promised <= MaxBytes)'
  BY NextStoreInv, NextCharges, NextKeepsPromised
<1>3. StoreInv /\ promised <= MaxBytes => WithinCapacity
  <2> SUFFICES ASSUME StoreInv, promised <= MaxBytes PROVE WithinCapacity
    OBVIOUS
  <2>1. /\ usage = promised + Spare * Cardinality(reserves)
        /\ promised \in Nat /\ Cardinality(reserves) \in Nat
    BY UsageIs DEF StoreInv, Verified, UsageSplit
  <2>2. Spare * Cardinality(reserves) \in Nat
    BY <2>1, CostsAreNat, SpareIsNat
  <2>3. PICK s \in Nat : s = Spare * Cardinality(reserves)
    BY <2>2
  <2>4. promised + s <= MaxBytes + s
    BY <2>1, CostsAreNat, SpareIsNat
  <2> QED
    BY <2>1, <2>3, <2>4 DEF WithinCapacity, Spare
<1> QED
  BY <1>1, <1>2, <1>3, PTL DEF Spec

-----------------------------------------------------------------------------
(* The journal implements the claim queue.                                 *)

\* A token derives from the attempt and the expiry of its claim, so it is new
\* because the attempt is, or because the expiry is: what was handed out for the
\* record carries an earlier attempt of its present life or an expiry that a
\* claim made now would pass.  Compaction leaves only the second, since it
\* follows the last claim by more than the safety delay.
TokensPast(r) ==
  /\ \A t \in issued[r] : t.expiry <= now + ClaimTTL
  /\ ~Held(r) /\ tombstone[r] = None => \A t \in issued[r] : t.expiry < now + ClaimTTL
  /\ InState(r, "pending") => \A t \in issued[r] :
        t.expiry < now + ClaimTTL \/ t.attempt <= record[r].attempt
  /\ InState(r, "claimed") =>
        /\ record[r].expiry <= now + ClaimTTL /\ record[r].token \in issued[r]
        /\ \A t \in issued[r] :
              \/ t.expiry < now + ClaimTTL \/ t.attempt < record[r].attempt
              \/ t.attempt = record[r].attempt /\ t.expiry <= record[r].expiry
  /\ InState(r, "committed") => \A t \in issued[r] : t.expiry <= record[r].committedAt + ClaimTTL
TokensInv == \A r \in Records : TokensPast(r)

\* A record, its tokens and the clock, typed.
LEMMA TokenTypes ==
  ASSUME StoreInv, NEW r \in Records
  PROVE  /\ now \in Nat /\ ClaimTTL \in Nat /\ SafetyDelay \in Nat /\ SafetyDelay > 0
         /\ \A t \in issued[r] : t \in Tokens /\ t.expiry \in Nat /\ t.attempt \in Nat
         /\ Held(r) => /\ record[r] \in Stored /\ record[r].state \in States
                       /\ record[r].attempt \in Nat /\ record[r].expiry \in Nat
                       /\ record[r].committedAt \in Nat /\ Decodes(record[r])
                       /\ tombstone[r] = None
<1>1. issued[r] \subseteq Tokens
  BY DEF StoreInv, Typed
<1>2. \A t \in issued[r] : t \in Tokens /\ t.expiry \in Nat /\ t.attempt \in Nat
  BY <1>1 DEF Tokens
<1>3. Held(r) => record[r] \in Stored
  BY DEF StoreInv, Typed, Held
<1>4. Held(r) => Decodes(record[r]) /\ tombstone[r] = None
  BY DEF StoreInv, Verified, IndexesAgree, BatchesAgree
<1> QED
  BY <1>2, <1>3, <1>4, ConfigAssumption DEF Stored, StoreInv, Typed

\* Time passes, and a record may be sealed.
LEMMA TokensStay ==
  ASSUME StoreInv, NEW r \in Records, TokensPast(r), record'[r] = record[r],
         issued'[r] = issued[r], now' \in Nat, now' >= now,
         tombstone'[r] = None => tombstone[r] = None
  PROVE  TokensPast(r)'
BY TokenTypes DEF TokensPast, InState, Held

\* A claim hands out a token the record has not had.
LEMMA ClaimIsFresh ==
  ASSUME StoreInv, NEW r \in Records, TokensPast(r), NEW owner,
         InState(r, "pending") \/ InState(r, "claimed")
  PROVE  claimToken(owner, record[r].attempt + 1, now + ClaimTTL) \notin issued[r]
<1>1. PICK t : t = claimToken(owner, record[r].attempt + 1, now + ClaimTTL)
  OBVIOUS
<1>2. t.attempt = record[r].attempt + 1 /\ t.expiry = now + ClaimTTL
  BY <1>1 DEF claimToken
<1> QED
  BY <1>1, <1>2, TokenTypes DEF TokensPast, InState

\* So does a renewal, unless it is of a claim made at the very same time.
LEMMA RenewalIsFresh ==
  ASSUME StoreInv, NEW r \in Records, TokensPast(r), InState(r, "claimed"),
         record[r].expiry # now + ClaimTTL
  PROVE  claimToken(record[r].owner, record[r].attempt, now + ClaimTTL) \notin issued[r]
<1>1. PICK t : t = claimToken(record[r].owner, record[r].attempt, now + ClaimTTL)
  OBVIOUS
<1>2. t.attempt = record[r].attempt /\ t.expiry = now + ClaimTTL
  BY <1>1 DEF claimToken
<1> QED
  BY <1>1, <1>2, TokenTypes DEF TokensPast, InState

\* What a claim or a renewal hands out is the newest token of its record.
LEMMA NewestToken ==
  ASSUME StoreInv, NEW r \in Records, TokensPast(r), InState(r, "pending") \/ InState(r, "claimed"),
         NEW owner, NEW attempt \in Nat,
         attempt = record[r].attempt + 1 \/ (attempt = record[r].attempt /\ InState(r, "claimed")),
         record'[r] \in Stored, record'[r].state = "claimed",
         record'[r].attempt = attempt, record'[r].expiry = now + ClaimTTL,
         record'[r].token = claimToken(owner, attempt, now + ClaimTTL),
         issued'[r] = issued[r] \cup {record'[r].token}, now' = now
  PROVE  TokensPast(r)'
<1>1. record'[r].token.attempt = attempt /\ record'[r].token.expiry = now + ClaimTTL
  BY DEF claimToken
<1>2. record'[r] # None
  BY NotNone
<1>3. \A t \in issued[r] : t.expiry <= now + ClaimTTL /\ t.expiry \in Nat /\ t.attempt \in Nat
  BY TokenTypes DEF TokensPast
<1>4. \A t \in issued[r] : t.expiry < now + ClaimTTL \/ t.attempt <= record[r].attempt
  BY TokenTypes DEF TokensPast, InState
<1>5. now + ClaimTTL \in Nat /\ record[r].attempt \in Nat
  BY TokenTypes DEF InState
<1>6. \A t \in issued'[r] :
         /\ t.expiry <= now + ClaimTTL
         /\ \/ t.expiry < now + ClaimTTL \/ t.attempt < attempt
            \/ t.attempt = attempt /\ t.expiry <= now + ClaimTTL
  BY <1>1, <1>3, <1>4, <1>5
<1> QED
  BY <1>2, <1>5, <1>6 DEF TokensPast, InState, Held

\* An append admits only what was absent, whose tokens are all from the past.
LEMMA AppendTokens ==
  ASSUME StoreInv, TokensInv, NEW b \in Batches, NEW members \in Members, AppendBatch(b, members)
  PROVE  TokensInv'
<1>1. UNCHANGED <<now, issued>>
  BY DEF AppendBatch
<1>2. CASE UNCHANGED keyspace
  BY <1>1, <1>2, TokenTypes, TokensStay DEF TokensInv, keyspace
<1>3. CASE AdmitBatch(b, members)
  <2>1. ASSUME NEW r \in Records
        PROVE  TokensPast(r)'
    <3>1. TokensPast(r) /\ now \in Nat
      BY TokenTypes DEF TokensInv
    <3>2. CASE r \in Fresh(DOMAIN members)
      <4>1. /\ ~Held(r) /\ tombstone[r] = None /\ record'[r] = newRecord(members[r])
            /\ members[r] \in Identities
        BY <1>3, <3>2, AdmitRecords DEF Fresh
      <4>2. record'[r] # None /\ record'[r].state = "pending"
        BY <4>1, NewRecordStored, NotNone
      <4> QED
        BY <1>1, <3>1, <4>1, <4>2, TokenTypes DEF TokensPast, InState, Held
    <3>3. CASE r \notin Fresh(DOMAIN members)
      <4>1. record'[r] = record[r]
        BY <1>3, <3>3, AdmitRecords
      <4>2. tombstone' = [q \in Records |->
              IF q \in DOMAIN members /\ tombstone[q] = Legacy THEN members[q] ELSE tombstone[q]]
        BY <1>3 DEF AdmitBatch
      <4>3. r \in DOMAIN members => members[r] # None
        BY <1>3, AdmitRecords, NotNone
      <4>4. tombstone'[r] = None => tombstone[r] = None
        BY <4>2, <4>3
      <4> QED
        BY <1>1, <3>1, <4>1, <4>4, TokensStay
    <3> QED
      BY <3>2, <3>3
  <2> QED
    BY <2>1 DEF TokensInv
<1> QED
  BY <1>2, <1>3 DEF AppendBatch

\* Claim and renewal hand out the newest tokens; an expiry takes none back.
LEMMA LeaseTokens ==
  ASSUME StoreInv, TokensInv,
         \/ \E limit : \E owner \in Owners : Claim(limit, owner)
         \/ \E claims \in PresentedClaims : RenewClaims(claims)
  PROVE  TokensInv'
<1>1. ASSUME NEW owner \in Owners, NEW lapsed, NEW taken, ClaimMoves(owner, lapsed, taken)
      PROVE  TokensInv'
  <2>1. /\ lapsed \subseteq Records /\ taken \subseteq Records
        /\ \A r \in lapsed : InState(r, "claimed")
        /\ \A r \in taken \ lapsed : InState(r, "pending")
        /\ issued' = [r \in Records |->
              IF r \in taken THEN issued[r] \cup {record'[r].token} ELSE issued[r]]
        /\ UNCHANGED <<now, tombstone>>
    BY <1>1 DEF ClaimMoves
  <2>2. ASSUME NEW r \in Records
        PROVE  TokensPast(r)'
    <3>1. TokensPast(r) /\ now \in Nat
      BY TokenTypes DEF TokensInv
    <3>2. CASE r \in taken
      <4>1. /\ InState(r, "pending") \/ InState(r, "claimed")
            /\ issued'[r] = issued[r] \cup {record'[r].token}
        BY <2>1, <3>2
      <4>2. PICK attempt \in Nat : attempt = record[r].attempt + 1
        BY <4>1, TokenTypes DEF InState
      <4>3. /\ record'[r] \in Stored /\ record'[r].state = "claimed"
            /\ record'[r].attempt = attempt /\ record'[r].expiry = now + ClaimTTL
            /\ record'[r].token = claimToken(owner, attempt, now + ClaimTTL)
        BY <1>1, <3>2, <4>2, ClaimRecords
      <4> QED
        BY <2>1, <3>1, <4>1, <4>2, <4>3, NewestToken
    <3>3. CASE r \in lapsed \ taken
      <4>1. InState(r, "claimed") /\ issued'[r] = issued[r] /\ now' = now
        BY <2>1, <3>3
      <4>2. /\ record'[r] # None /\ record'[r].state = "pending"
            /\ record'[r].attempt = record[r].attempt
        BY <1>1, <3>3, ClaimRecords, NotNone
      <4> QED
        BY <3>1, <4>1, <4>2, TokenTypes DEF TokensPast, InState, Held
    <3>4. CASE r \notin lapsed \cup taken
      <4>1. record'[r] = record[r]
        BY <1>1, <3>4, ClaimRecords
      <4>2. issued'[r] = issued[r] /\ now' = now /\ tombstone' = tombstone
        BY <2>1, <3>4
      <4> QED
        BY <3>1, <4>1, <4>2, TokensStay
    <3> QED
      BY <3>2, <3>3, <3>4
  <2> QED
    BY <2>2 DEF TokensInv
<1>2. ASSUME NEW claims \in PresentedClaims, RenewClaims(claims)
      PROVE  TokensInv'
  <2>1. PICK renewing \in SUBSET Records :
          /\ \A r \in renewing : /\ InState(r, "claimed") /\ record'[r] \in Stored
                                 /\ record'[r].state = "claimed" /\ record'[r].expiry = now + ClaimTTL
                                 /\ record'[r].attempt = record[r].attempt
                                 /\ record'[r].token =
                                      claimToken(record[r].owner, record[r].attempt, now + ClaimTTL)
          /\ \A r \in Records \ renewing : record'[r] = record[r]
          /\ issued' = [r \in Records |->
                IF r \in renewing THEN issued[r] \cup {record'[r].token} ELSE issued[r]]
          /\ UNCHANGED <<now, tombstone>>
    BY <1>2, RenewRecords
  <2>2. ASSUME NEW r \in Records
        PROVE  TokensPast(r)'
    <3>1. TokensPast(r) /\ now \in Nat
      BY TokenTypes DEF TokensInv
    <3>2. CASE r \in renewing
      <4>1. PICK attempt \in Nat : attempt = record[r].attempt
        BY <2>1, <3>2, TokenTypes DEF InState
      <4>2. /\ InState(r, "claimed") /\ record'[r] \in Stored /\ record'[r].state = "claimed"
            /\ record'[r].attempt = attempt /\ record'[r].expiry = now + ClaimTTL
            /\ record'[r].token = claimToken(record[r].owner, attempt, now + ClaimTTL)
            /\ issued'[r] = issued[r] \cup {record'[r].token} /\ now' = now
        BY <2>1, <3>2, <4>1
      <4> QED
        BY <3>1, <4>1, <4>2, NewestToken
    <3>3. CASE r \notin renewing
      <4>1. /\ record'[r] = record[r] /\ issued'[r] = issued[r]
            /\ now' = now /\ tombstone' = tombstone
        BY <2>1, <3>3
      <4> QED
        BY <3>1, <4>1, TokensStay
    <3> QED
      BY <3>2, <3>3
  <2> QED
    BY <2>2 DEF TokensInv
<1>3. ASSUME NEW limit, NEW owner \in Owners, Claim(limit, owner)
      PROVE  TokensInv'
  BY <1>1, <1>3, ClaimStep
<1> QED
  BY <1>2, <1>3

\* Committing fixes the latest expiry a token can have; the safety delay puts
\* that behind the clock before the record is compacted.
LEMMA EndTokens ==
  ASSUME StoreInv, TokensInv,
         \/ \E claims \in PresentedClaims : MarkCommittedBatch(claims)
         \/ \E r \in Records : \E token \in issued[r] : Quarantine(r, token)
         \/ \E limit : Compact(limit)
         \/ CommitFails \/ Open \/ Tick \/ UNCHANGED vars
  PROVE  TokensInv'
<1>0. \A r \in Records : TokensPast(r) /\ now \in Nat
  BY TokenTypes DEF TokensInv
<1>1. ASSUME NEW claims \in PresentedClaims, MarkCommittedBatch(claims)
      PROVE  TokensInv'
  <2>1. PICK retiring \in SUBSET Records :
          /\ \A r \in retiring : /\ InState(r, "claimed") /\ record'[r] \in Stored
                                 /\ record'[r].state = "committed" /\ record'[r].committedAt = now
          /\ \A r \in Records \ retiring : record'[r] = record[r]
          /\ UNCHANGED <<now, tombstone, issued>>
    BY <1>1, MarkCommittedRecords
  <2>2. ASSUME NEW r \in retiring
        PROVE  TokensPast(r)'
    <3>1. record'[r] # None
      BY <2>1, NotNone
    <3> QED
      BY <1>0, <2>1, <3>1, TokenTypes DEF TokensPast, InState, Held
  <2>3. \A r \in Records \ retiring : TokensPast(r)'
    BY <1>0, <2>1, TokensStay
  <2> QED
    BY <2>2, <2>3 DEF TokensInv
<1>2. ASSUME NEW q \in Records, NEW token, Quarantine(q, token)
      PROVE  TokensInv'
  <2>1. /\ record'[q] = None /\ tombstone'[q] # None
        /\ \A r \in Records \ {q} : record'[r] = record[r] /\ tombstone'[r] = tombstone[r]
        /\ UNCHANGED <<now, issued>>
    BY <1>2, QuarantineRecords
  <2>2. TokensPast(q)'
    BY <1>0, <2>1, TokenTypes DEF TokensPast, InState, Held
  <2>3. \A r \in Records \ {q} : TokensPast(r)'
    BY <1>0, <2>1, TokensStay
  <2> QED
    BY <2>2, <2>3 DEF TokensInv
<1>3. ASSUME NEW limit, Compact(limit)
      PROVE  TokensInv'
  <2>1. PICK gone \in SUBSET Records :
          /\ \A r \in gone : /\ InState(r, "committed") /\ record[r].committedAt + SafetyDelay < now
                             /\ record'[r] = None
          /\ \A r \in Records \ gone : record'[r] = record[r]
          /\ UNCHANGED <<now, tombstone, issued>>
    BY <1>3, CompactRecords
  <2>2. ASSUME NEW r \in gone
        PROVE  TokensPast(r)'
    <3>1. \A t \in issued[r] : t.expiry < now + ClaimTTL
      BY <1>0, <2>1, TokenTypes DEF TokensPast, InState
    <3> QED
      BY <1>0, <2>1, <3>1, TokenTypes DEF TokensPast, InState, Held
  <2>3. \A r \in Records \ gone : TokensPast(r)'
    BY <1>0, <2>1, TokensStay
  <2> QED
    BY <2>2, <2>3 DEF TokensInv
<1>4. CASE CommitFails \/ Open \/ Tick \/ UNCHANGED vars
  <2>1. UNCHANGED keyspace /\ UNCHANGED issued /\ (now' = now \/ now' = now + 1)
    BY <1>4 DEF CommitFails, Open, Tick, vars
  <2>2. ASSUME NEW r \in Records
        PROVE  TokensPast(r)'
    BY <1>0, <2>1, TokensStay DEF keyspace
  <2> QED
    BY <2>2 DEF TokensInv
<1> QED
  BY <1>1, <1>2, <1>3, <1>4

\* Every step leaves a claim to come a token of its own.
LEMMA NextTokens == StoreInv /\ TokensInv /\ [Next]_vars => TokensInv'
<1> SUFFICES ASSUME StoreInv, TokensInv, [Next]_vars PROVE TokensInv'
  OBVIOUS
<1>1. CASE \E b \in Batches, members \in Members : AppendBatch(b, members)
  BY <1>1, AppendTokens
<1>2. CASE \/ \E limit \in 1..MaxTransitionRecords, owner \in Owners : Claim(limit, owner)
           \/ \E claims \in PresentedClaims : RenewClaims(claims)
  BY <1>2, LeaseTokens
<1>3. CASE \/ \E claims \in PresentedClaims : MarkCommittedBatch(claims)
           \/ \E r \in Records : \E token \in issued[r] : Quarantine(r, token)
           \/ \E limit \in 1..MaxTransitionRecords : Compact(limit)
           \/ CommitFails \/ Open \/ Tick \/ UNCHANGED vars
  BY <1>3, EndTokens
<1> QED
  BY <1>1, <1>2, <1>3 DEF Next

\* Where the queue sees a record, and the lease it sees on it.
JobStatus(r) == IF Held(r) THEN record[r].state
                ELSE IF tombstone[r] # None THEN "quarantined" ELSE "absent"
JobLease(r)  == IF Held(r) THEN record[r].token ELSE None

\* A step that leaves every job as it was is a stuttering step of the queue.
LEMMA QueueStutters ==
  ASSUME \A r \in Records : JobStatus(r)' = JobStatus(r) /\ JobLease(r)' = JobLease(r),
         issued' = issued
  PROVE  UNCHANGED Queue!qvars
BY DEF Queue!qvars, JobStatus, JobLease

\* Jobs move as the queue admits, finishes, releases or discards them.
LEMMA QueueMoves ==
  ASSUME NEW S \in SUBSET Records, NEW from, NEW to,
         <<from, to>> \in {<<"absent", "pending">>, <<"claimed", "committed">>,
                           <<"claimed", "quarantined">>, <<"committed", "absent">>},
         to = "quarantined" => \E q \in Records : S = {q},
         \A r \in S : /\ JobStatus(r) = from /\ JobStatus(r)' = to
                      /\ JobLease(r)' = IF to \in {"quarantined", "absent"} THEN None ELSE JobLease(r),
         \A r \in Records \ S : JobStatus(r)' = JobStatus(r) /\ JobLease(r)' = JobLease(r),
         issued' = issued
  PROVE  Queue!QNext
<1>1. CASE from = "absent"
  <2>1. Queue!Admit(S)
    BY <1>1 DEF Queue!Admit, Queue!All, Queue!Become, JobStatus, JobLease
  <2> QED
    BY <2>1 DEF Queue!QNext
<1>2. CASE to = "committed"
  <2>1. Queue!Finish(S)
    BY <1>2 DEF Queue!Finish, Queue!All, Queue!Become, JobStatus, JobLease
  <2> QED
    BY <2>1 DEF Queue!QNext
<1>3. CASE to = "quarantined"
  <2>1. PICK q \in Records : S = {q}
    BY <1>3
  <2>2. Queue!Discard(q)
    BY <1>3, <2>1 DEF Queue!Discard, JobStatus, JobLease
  <2> QED
    BY <2>2 DEF Queue!QNext
<1>4. CASE from = "committed"
  <2>1. Queue!Release(S)
    BY <1>4 DEF Queue!Release, Queue!All, Queue!Become, JobStatus, JobLease
  <2> QED
    BY <2>1 DEF Queue!QNext
<1> QED
  BY <1>1, <1>2, <1>3, <1>4

\* Jobs change leases as the queue hands them out: to G, of which those not in
\* L waited, and to nobody for the rest of L.
LEMMA QueueLeases ==
  ASSUME NEW L \in SUBSET Records, NEW G \in SUBSET Records,
         \A r \in L : JobStatus(r) = "claimed",
         \/ \A r \in G \ L : JobStatus(r) = "pending"
         \/ L = {} /\ \A r \in G : JobStatus(r) = "claimed",
         \A r \in G : /\ JobStatus(r)' = "claimed" /\ JobLease(r)' \in Tokens \ issued[r]
                      /\ issued'[r] = issued[r] \cup {JobLease(r)'},
         \A r \in L \ G : /\ JobStatus(r)' = "pending" /\ JobLease(r)' = None
                          /\ issued'[r] = issued[r],
         \A r \in Records \ (L \cup G) : /\ JobStatus(r)' = JobStatus(r) /\ JobLease(r)' = JobLease(r)
                                         /\ JobLease(r) \in Tokens \cup {None}
                                         /\ issued'[r] = issued[r],
         issued' = [r \in Records |-> issued'[r]]
  PROVE  Queue!QNext
<1>1. Queue!Lease(L, G)
  BY DEF Queue!Lease, JobLease
<1>2. CASE \A r \in G \ L : JobStatus(r) = "pending"
  <2>1. Queue!Serve(L, G)
    BY <1>1, <1>2 DEF Queue!Serve, Queue!All, JobStatus
  <2> QED
    BY <2>1 DEF Queue!QNext
<1>3. CASE L = {} /\ \A r \in G : JobStatus(r) = "claimed"
  <2>1. Queue!Renew(G)
    BY <1>1, <1>3 DEF Queue!Renew, Queue!All, JobStatus
  <2> QED
    BY <2>1 DEF Queue!QNext
<1> QED
  BY <1>2, <1>3

\* The queue sees a record in the state the journal keeps it in.
LEMMA JobIs ==
  ASSUME StoreInv, NEW r \in Records
  PROVE  /\ \A s \in States : InState(r, s) => JobStatus(r) = s /\ JobLease(r) = record[r].token
         /\ ~Held(r) /\ tombstone[r] = None => JobStatus(r) = "absent" /\ JobLease(r) = None
         /\ JobLease(r) \in Tokens \cup {None}
         /\ InState(r, "pending") => JobLease(r) = None
<1>1. Held(r) => record[r] \in Stored /\ Decodes(record[r])
  BY TokenTypes
<1> QED
  BY <1>1 DEF JobStatus, JobLease, InState, Held, Stored, Decodes

\* A record untouched by a step is a job untouched by it.
LEMMA JobStays ==
  ASSUME NEW r \in Records, record'[r] = record[r],
         ~Held(r) => (tombstone'[r] = None <=> tombstone[r] = None)
  PROVE  JobStatus(r)' = JobStatus(r) /\ JobLease(r)' = JobLease(r)
BY DEF JobStatus, JobLease, Held

\* AppendBatch admits the jobs it is fresh for, and no other.
LEMMA AppendQueues ==
  ASSUME StoreInv, NEW b \in Batches, NEW members \in Members, AppendBatch(b, members)
  PROVE  [Queue!QNext]_(Queue!qvars)
<1>1. issued' = issued
  BY DEF AppendBatch
<1>2. CASE UNCHANGED keyspace
  <2>1. \A r \in Records : JobStatus(r)' = JobStatus(r) /\ JobLease(r)' = JobLease(r)
    BY <1>2, JobStays DEF keyspace
  <2> QED
    BY <1>1, <2>1, QueueStutters
<1>3. CASE AdmitBatch(b, members)
  <2> DEFINE S == Fresh(DOMAIN members)
  <2>1. tombstone' = [q \in Records |->
          IF q \in DOMAIN members /\ tombstone[q] = Legacy THEN members[q] ELSE tombstone[q]]
    BY <1>3 DEF AdmitBatch
  <2>2. \A r \in DOMAIN members : members[r] \in Identities /\ members[r] # None
    BY <1>3, AdmitRecords, NotNone
  <2>3. \A r \in Records : tombstone'[r] = None <=> tombstone[r] = None
    BY <2>1, <2>2, NotNone
  <2>4. ASSUME NEW r \in S
        PROVE  /\ r \in Records /\ JobStatus(r) = "absent" /\ JobStatus(r)' = "pending"
               /\ JobLease(r) = None /\ JobLease(r)' = None
    <3>1. /\ r \in Records /\ ~Held(r) /\ tombstone[r] = None /\ r \in DOMAIN members
          /\ record'[r] = newRecord(members[r])
      BY <1>3, AdmitRecords DEF Fresh
    <3>2. record'[r] # None /\ record'[r].state = "pending" /\ record'[r].token = None
      BY <2>2, <3>1, NewRecordStored, NotNone
    <3> QED
      BY <3>1, <3>2 DEF JobStatus, JobLease, Held
  <2>5. ASSUME NEW r \in Records \ S
        PROVE  JobStatus(r)' = JobStatus(r) /\ JobLease(r)' = JobLease(r)
    <3>1. record'[r] = record[r]
      BY <1>3, AdmitRecords
    <3> QED
      BY <2>3, <3>1, JobStays
  <2> HIDE DEF S
  <2>6. S \in SUBSET Records
    BY <2>4
  <2> QED
    BY <1>1, <2>4, <2>5, <2>6, QueueMoves
<1> QED
  BY <1>2, <1>3 DEF AppendBatch

\* Claim lets leases lapse and hands out new ones; a renewal exchanges them.
LEMMA LeaseQueues ==
  ASSUME StoreInv, StoreInv', TokensInv,
         \/ \E limit : \E owner \in Owners : Claim(limit, owner)
         \/ \E claims \in PresentedClaims : RenewClaims(claims)
  PROVE  Queue!QNext
<1>0. "pending" \in States /\ "claimed" \in States
  BY DEF States
<1>1. ASSUME NEW owner \in Owners, NEW lapsed, NEW taken, ClaimMoves(owner, lapsed, taken)
      PROVE  Queue!QNext
  <2>1. /\ lapsed \in SUBSET Records /\ taken \in SUBSET Records
        /\ \A r \in lapsed : InState(r, "claimed")
        /\ \A r \in taken \ lapsed : InState(r, "pending")
        /\ issued' = [r \in Records |->
              IF r \in taken THEN issued[r] \cup {record'[r].token} ELSE issued[r]]
        /\ tombstone' = tombstone
    BY <1>1 DEF ClaimMoves
  <2>2. /\ \A r \in lapsed : JobStatus(r) = "claimed"
        /\ \A r \in taken \ lapsed : JobStatus(r) = "pending"
    BY <1>0, <2>1, JobIs
  <2>3. ASSUME NEW r \in taken
        PROVE  /\ JobStatus(r)' = "claimed" /\ JobLease(r)' \in Tokens \ issued[r]
               /\ issued'[r] = issued[r] \cup {JobLease(r)'}
    <3>1. /\ record'[r] \in Stored /\ record'[r].state = "claimed" /\ Decodes(record'[r])
          /\ record'[r].token = claimToken(owner, record[r].attempt + 1, now + ClaimTTL)
      BY <1>1, ClaimRecords
    <3>2. record'[r] # None /\ record'[r].token \in Tokens
      BY <3>1, NotNone DEF Decodes
    <3>3. record'[r].token \notin issued[r]
      BY <2>1, <3>1, ClaimIsFresh DEF TokensInv
    <3> QED
      BY <2>1, <3>1, <3>2, <3>3 DEF JobStatus, JobLease, Held
  <2>4. ASSUME NEW r \in lapsed \ taken
        PROVE  JobStatus(r)' = "pending" /\ JobLease(r)' = None /\ issued'[r] = issued[r]
    <3>1. /\ record'[r] # None /\ record'[r].state = "pending"
          /\ record'[r].token = None
      BY <1>1, ClaimRecords, NotNone
    <3> QED
      BY <2>1, <3>1 DEF JobStatus, JobLease, Held
  <2>5. ASSUME NEW r \in Records \ (lapsed \cup taken)
        PROVE  /\ JobStatus(r)' = JobStatus(r) /\ JobLease(r)' = JobLease(r)
               /\ JobLease(r) \in Tokens \cup {None} /\ issued'[r] = issued[r]
    <3>1. record'[r] = record[r]
      BY <1>1, ClaimRecords
    <3> QED
      BY <2>1, <3>1, JobStays, JobIs
  <2>6. issued' = [r \in Records |-> issued'[r]]
    BY <2>1
  <2> QED
    BY <2>1, <2>2, <2>3, <2>4, <2>5, <2>6, QueueLeases
<1>2. ASSUME NEW claims \in PresentedClaims, RenewClaims(claims)
      PROVE  Queue!QNext
  <2>1. PICK renewing \in SUBSET Records :
          /\ \A r \in renewing : /\ InState(r, "claimed") /\ record'[r] \in Stored
                                 /\ record'[r].state = "claimed"
                                 /\ record'[r].token =
                                      claimToken(record[r].owner, record[r].attempt, now + ClaimTTL)
          /\ \A r \in Records \ renewing : record'[r] = record[r]
          /\ issued' = [r \in Records |->
                IF r \in renewing THEN issued[r] \cup {record'[r].token} ELSE issued[r]]
          /\ tombstone' = tombstone
    BY <1>2, RenewRecords
  <2> DEFINE G == {r \in renewing : record[r].expiry # now + ClaimTTL}
  <2>2. ASSUME NEW r \in renewing
        PROVE  /\ JobStatus(r) = "claimed" /\ JobStatus(r)' = "claimed"
               /\ JobLease(r) = record[r].token /\ JobLease(r)' = record'[r].token
               /\ record'[r].token \in Tokens
    <3>1. record'[r] # None /\ Held(r)'
      BY <2>1, NotNone DEF Held
    <3>2. Decodes(record'[r])
      BY <3>1 DEF StoreInv, Verified, IndexesAgree
    <3> QED
      BY <1>0, <2>1, <3>1, <3>2, JobIs DEF JobStatus, JobLease, Decodes
  \* A renewal at the very time of its claim derives the token it retires.
  <2>3. ASSUME NEW r \in renewing \ G
        PROVE  record'[r].token = record[r].token /\ record[r].token \in issued[r]
    <3>1. InState(r, "claimed") /\ record[r].expiry = now + ClaimTTL
      BY <2>1
    <3>2. record[r].token = claimToken(record[r].owner, record[r].attempt, record[r].expiry)
      BY <3>1 DEF StoreInv, Verified, IndexesAgree
    <3>3. record[r].token \in issued[r]
      BY <3>1 DEF TokensInv, TokensPast
    <3> QED
      BY <2>1, <3>1, <3>2, <3>3
  <2>4. ASSUME NEW r \in G
        PROVE  /\ JobStatus(r)' = "claimed" /\ JobLease(r)' \in Tokens \ issued[r]
               /\ issued'[r] = issued[r] \cup {JobLease(r)'} /\ JobStatus(r) = "claimed"
    <3>1. record'[r].token \notin issued[r]
      BY <2>1, RenewalIsFresh DEF TokensInv
    <3> QED
      BY <2>1, <2>2, <3>1
  <2>5. ASSUME NEW r \in Records \ G
        PROVE  /\ JobStatus(r)' = JobStatus(r) /\ JobLease(r)' = JobLease(r)
               /\ JobLease(r) \in Tokens \cup {None} /\ issued'[r] = issued[r]
    <3>1. CASE r \in renewing
      BY <2>1, <2>2, <2>3, <3>1
    <3>2. CASE r \notin renewing
      <4>1. record'[r] = record[r] /\ issued'[r] = issued[r]
        BY <2>1, <3>2
      <4> QED
        BY <2>1, <4>1, JobStays, JobIs
    <3> QED
      BY <3>1, <3>2
  <2>6. G \in SUBSET Records /\ {} \in SUBSET Records
    BY <2>1
  <2>7. issued' = [r \in Records |-> issued'[r]]
    BY <2>1
  <2> HIDE DEF G
  <2> QED
    BY <2>4, <2>5, <2>6, <2>7, QueueLeases
<1>3. ASSUME NEW limit, NEW owner \in Owners, Claim(limit, owner)
      PROVE  Queue!QNext
  BY <1>1, <1>3, ClaimStep
<1> QED
  BY <1>2, <1>3

\* A job is finished by its commit, given up by its quarantine, forgotten by a
\* compaction; a failed commit, a reopening or a tick is no step of the queue.
LEMMA EndQueues ==
  ASSUME StoreInv,
         \/ \E claims \in PresentedClaims : MarkCommittedBatch(claims)
         \/ \E r \in Records : \E token \in issued[r] : Quarantine(r, token)
         \/ \E limit : Compact(limit)
         \/ CommitFails \/ Open \/ Tick \/ UNCHANGED vars
  PROVE  [Queue!QNext]_(Queue!qvars)
<1>0. "claimed" \in States /\ "committed" \in States
  BY DEF States
<1>1. ASSUME NEW claims \in PresentedClaims, MarkCommittedBatch(claims)
      PROVE  Queue!QNext
  <2>1. PICK retiring \in SUBSET Records :
          /\ \A r \in retiring : /\ InState(r, "claimed") /\ record'[r] \in Stored
                                 /\ record'[r].state = "committed"
                                 /\ record'[r].token = record[r].token
          /\ \A r \in Records \ retiring : record'[r] = record[r]
          /\ UNCHANGED <<tombstone, issued>>
    BY <1>1, MarkCommittedRecords
  <2>2. ASSUME NEW r \in retiring
        PROVE  /\ JobStatus(r) = "claimed" /\ JobStatus(r)' = "committed"
               /\ JobLease(r)' = JobLease(r)
    <3>1. record'[r] # None
      BY <2>1, NotNone
    <3> QED
      BY <1>0, <2>1, <3>1, JobIs DEF JobStatus, JobLease, Held
  <2>3. \A r \in Records \ retiring : JobStatus(r)' = JobStatus(r) /\ JobLease(r)' = JobLease(r)
    BY <2>1, JobStays
  <2>4. PICK from, to : from = "claimed" /\ to = "committed"
    OBVIOUS
  <2>5. /\ <<from, to>> \in {<<"absent", "pending">>, <<"claimed", "committed">>,
                            <<"claimed", "quarantined">>, <<"committed", "absent">>}
        /\ to \notin {"quarantined", "absent"}
    BY <2>4
  <2>6. /\ \A r \in retiring : /\ JobStatus(r) = from /\ JobStatus(r)' = to
                               /\ JobLease(r)' = IF to \in {"quarantined", "absent"}
                                                 THEN None ELSE JobLease(r)
        /\ to = "quarantined" => \E q \in Records : retiring = {q}
    BY <2>2, <2>4, <2>5
  <2>7. issued' = issued
    BY <2>1
  <2> QED
    BY <2>3, <2>5, <2>6, <2>7, QueueMoves
<1>2. ASSUME NEW q \in Records, NEW token, Quarantine(q, token)
      PROVE  Queue!QNext
  <2>1. /\ InState(q, "claimed") /\ record'[q] = None /\ tombstone'[q] # None
        /\ \A r \in Records \ {q} : record'[r] = record[r] /\ tombstone'[r] = tombstone[r]
        /\ issued' = issued
    BY <1>2, QuarantineRecords
  <2>2. JobStatus(q) = "claimed" /\ JobStatus(q)' = "quarantined" /\ JobLease(q)' = None
    BY <1>0, <2>1, JobIs DEF JobStatus, JobLease, Held
  <2>3. \A r \in Records \ {q} : JobStatus(r)' = JobStatus(r) /\ JobLease(r)' = JobLease(r)
    BY <2>1, JobStays
  <2>4. PICK S \in SUBSET Records : S = {q}
    OBVIOUS
  <2>5. /\ \E p \in Records : S = {p}
        /\ \A r \in S : /\ JobStatus(r) = "claimed" /\ JobStatus(r)' = "quarantined"
                        /\ JobLease(r)' = None
        /\ \A r \in Records \ S : JobStatus(r)' = JobStatus(r) /\ JobLease(r)' = JobLease(r)
    BY <2>2, <2>3, <2>4
  <2> QED
    BY <2>1, <2>5, QueueMoves
<1>3. ASSUME NEW limit, Compact(limit)
      PROVE  Queue!QNext
  <2>1. PICK gone \in SUBSET Records :
          /\ \A r \in gone : InState(r, "committed") /\ record'[r] = None
          /\ \A r \in Records \ gone : record'[r] = record[r]
          /\ UNCHANGED <<tombstone, issued>>
    BY <1>3, CompactRecords
  <2>2. ASSUME NEW r \in gone
        PROVE  JobStatus(r) = "committed" /\ JobStatus(r)' = "absent" /\ JobLease(r)' = None
    <3>1. tombstone[r] = None
      BY <2>1, TokenTypes DEF InState
    <3> QED
      BY <1>0, <2>1, <3>1, JobIs DEF JobStatus, JobLease, Held
  <2>3. \A r \in Records \ gone : JobStatus(r)' = JobStatus(r) /\ JobLease(r)' = JobLease(r)
    BY <2>1, JobStays
  <2> QED
    BY <2>1, <2>2, <2>3, QueueMoves
<1>4. CASE CommitFails \/ Open \/ Tick \/ UNCHANGED vars
  <2>1. UNCHANGED <<record, tombstone, issued>>
    BY <1>4 DEF CommitFails, Open, Tick, vars, keyspace
  <2>2. \A r \in Records : JobStatus(r)' = JobStatus(r) /\ JobLease(r)' = JobLease(r)
    BY <2>1, JobStays
  <2> QED
    BY <2>1, <2>2, QueueStutters
<1> QED
  BY <1>1, <1>2, <1>3, <1>4

\* Every step of the journal is a step of the claim queue, or none.
LEMMA NextQueues == StoreInv /\ StoreInv' /\ TokensInv /\ [Next]_vars => [Queue!QNext]_(Queue!qvars)
<1> SUFFICES ASSUME StoreInv, StoreInv', TokensInv, [Next]_vars PROVE [Queue!QNext]_(Queue!qvars)
  OBVIOUS
<1>1. CASE \E b \in Batches, members \in Members : AppendBatch(b, members)
  BY <1>1, AppendQueues
<1>2. CASE \/ \E limit \in 1..MaxTransitionRecords, owner \in Owners : Claim(limit, owner)
           \/ \E claims \in PresentedClaims : RenewClaims(claims)
  BY <1>2, LeaseQueues
<1>3. CASE \/ \E claims \in PresentedClaims : MarkCommittedBatch(claims)
           \/ \E r \in Records : \E token \in issued[r] : Quarantine(r, token)
           \/ \E limit \in 1..MaxTransitionRecords : Compact(limit)
           \/ CommitFails \/ Open \/ Tick \/ UNCHANGED vars
  BY <1>3, EndQueues
<1> QED
  BY <1>1, <1>2, <1>3 DEF Next

\* A volume opens onto an empty queue, of which the upgraded tombstones are the
\* discarded jobs, and no token has been handed out.
LEMMA InitQueues == Init => Queue!QInit /\ TokensInv
<1> SUFFICES ASSUME Init PROVE Queue!QInit /\ TokensInv
  OBVIOUS
<1>1. Queue!QInit
  BY DEF Init, Queue!QInit, Held
<1>2. TokensInv
  BY DEF Init, TokensInv, TokensPast, InState, Held
<1> QED
  BY <1>1, <1>2

\* The journal is the claim queue its callers rely on, whatever fails or
\* restarts: a token is handed out once, the claim it stands for is alone in
\* finishing or discarding the job, and what is finished or discarded is not
\* claimed again before a compaction and a new batch, or ever.
THEOREM ImplementsQueue == Spec => QueueSpec
<1>1. Init => StoreInv /\ Queue!QInit /\ TokensInv
  BY InitStoreInv, InitQueues
<1>2. StoreInv /\ TokensInv /\ [Next]_vars => StoreInv' /\ TokensInv' /\ [Queue!QNext]_(Queue!qvars)
  BY NextStoreInv, NextTokens, NextQueues
<1> QED
  BY <1>1, <1>2, PTL DEF Spec, QueueSpec, Queue!QSpec

=============================================================================
