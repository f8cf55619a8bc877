------------------------------ MODULE ClaimQueue ------------------------------
(***************************************************************************)
(* What the journal promises to the pipeline that drains it: a set of      *)
(* jobs, each waiting, leased under one token, done or discarded.  A token *)
(* is never handed out twice for a job, only the current lease can finish  *)
(* a job, a finished job is never leased again before it is released, and  *)
(* a discarded one never.                                                  *)
(***************************************************************************)
CONSTANTS Records, Token, None

VARIABLES status,  \* [Records -> Status]
          lease,   \* the token of the current lease, kept once the job is done
          spent    \* every token ever handed out for a job

Status == {"absent", "pending", "claimed", "committed", "quarantined"}
qvars  == <<status, lease, spent>>

All(S, s) == \A r \in S : status[r] = s
Become(S, s) == [r \in Records |-> IF r \in S THEN s ELSE status[r]]

\* New jobs arrive; a job already known stays as it is.
Admit(S) ==
  /\ All(S, "absent")
  /\ status' = Become(S, "pending")
  /\ UNCHANGED <<lease, spent>>

\* The jobs in G get a lease no one has held before; those in L lose theirs.
Lease(L, G) ==
  /\ lease' \in [Records -> Token \cup {None}]
  /\ \A r \in Records :
       lease'[r] \in IF r \in G THEN Token \ spent[r] ELSE {IF r \in L THEN None ELSE lease[r]}
  /\ spent' = [r \in Records |-> IF r \in G THEN spent[r] \cup {lease'[r]} ELSE spent[r]]

\* Leases L run out, and jobs G, waiting now or by that, are leased afresh.
Serve(L, G) ==
  /\ All(L, "claimed") /\ All(G \ L, "pending")
  /\ status' = [r \in Records |-> IF r \in G THEN "claimed"
                                  ELSE IF r \in L THEN "pending" ELSE status[r]]
  /\ Lease(L, G)

\* Current leases are exchanged for new ones.
Renew(S) ==
  /\ All(S, "claimed")
  /\ Lease({}, S)
  /\ UNCHANGED status

\* Leased jobs are finished, or one is given up for good.
Finish(S) ==
  /\ All(S, "claimed")
  /\ status' = Become(S, "committed")
  /\ UNCHANGED <<lease, spent>>
Discard(r) ==
  /\ status[r] = "claimed"
  /\ status' = [status EXCEPT ![r] = "quarantined"]
  /\ lease' = [lease EXCEPT ![r] = None]
  /\ UNCHANGED spent

\* Finished jobs are forgotten; one may then be admitted again.
Release(S) ==
  /\ All(S, "committed")
  /\ status' = Become(S, "absent")
  /\ lease' = [r \in Records |-> IF r \in S THEN None ELSE lease[r]]
  /\ UNCHANGED spent

QInit ==
  /\ status \in [Records -> {"absent", "quarantined"}]
  /\ lease = [r \in Records |-> None]
  /\ spent = [r \in Records |-> {}]

QNext ==
  \/ \E S \in SUBSET Records : Admit(S) \/ Renew(S) \/ Finish(S) \/ Release(S)
  \/ \E L, G \in SUBSET Records : Serve(L, G)
  \/ \E r \in Records : Discard(r)

QSpec == QInit /\ [][QNext]_qvars

=============================================================================
