----------------------------- MODULE Enrichment ------------------------------
(***************************************************************************)
(* The deployment cache (internal/enrich): a lookup answers from what is   *)
(* known and never waits, and starts at most one provider call for an      *)
(* entry; the answer lands later, on an entry that may have been evicted,  *)
(* or evicted and put back, in between.                                    *)
(*                                                                         *)
(* Of the clock an entry keeps whether the provider is due: its answer is  *)
(* no longer fresh or, while it has none, its pause after a failure ended. *)
(* MaxCalls bounds the calls outstanding at once, which the code leaves    *)
(* open.                                                                   *)
(***************************************************************************)
EXTENDS Integers, FiniteSets, Functions

CONSTANTS
    Services,       \* what is enriched: the authenticated service identity
    Declared,       \* the provider's table: a deployment, or "none"
    MaxEntries, Concurrency, MaxCalls

ASSUME EnrichmentAssumption ==
    /\ IsFiniteSet(Services)
    /\ MaxEntries \in Nat \ {0} /\ {Concurrency, MaxCalls} \subseteq Nat

VARIABLES
    entries,        \* the cache: service -> entry, for the services it holds
    earlier,        \* of two services it holds, which was looked up at an earlier time
    calls,          \* service -> provider calls waiting for a slot and running
    closed          \* Close was called

cacheVars == <<entries, earlier, calls, closed>>

NewEntry == [status |-> "pending", deployment |-> "none",
             due |-> TRUE, inFlight |-> FALSE]

Outstanding(s) == calls[s].waiting + calls[s].running
AllOutstanding == SumFunctionOnSet([s \in Services |-> Outstanding(s)], Services)
AllRunning     == SumFunctionOnSet([s \in Services |-> calls[s].running], Services)

EnrichmentInit ==
    /\ entries = <<>>
    /\ earlier = {}
    /\ calls = [s \in Services |-> [waiting |-> 0, running |-> 0]]
    /\ closed = FALSE

\* What a lookup of an entry answers.
Known(entry) ==
    CASE entry.status = "available"     -> entry.deployment
      [] entry.status = "not_available" -> "unknown"
      [] OTHER                          -> "pending"

ShouldResolve(entry) == ~entry.inFlight /\ entry.due

Idle == {s \in DOMAIN entries : ~entries[s].inFlight}

\* oldestLocked: one of them that was looked up after no other.
Oldest(candidates) ==
    {s \in candidates : \A t \in candidates : <<t, s>> \notin earlier}

\* Those looked up last, of whom the clock may not tell the next one.
Latest == {t \in DOMAIN entries : \A u \in DOMAIN entries : <<t, u>> \notin earlier}

\* Slip: only entries without a call are evicted.
EvictsIdleOnly ==
    IF Cardinality(DOMAIN entries) < MaxEntries \/ Idle = {} THEN {{}}
    ELSE {{s} : s \in Oldest(Idle)}

\* What a full cache gives up: the least recently looked up of the entries
\* without a call, or of all when each has one.
Evicted ==
    IF Cardinality(DOMAIN entries) < MaxEntries THEN {{}}
    ELSE {{s} : s \in Oldest(IF Idle # {} THEN Idle ELSE DOMAIN entries)}

\* The answer for s, given what the cache holds of it.
Answer(s) == Known(IF s \in DOMAIN entries THEN entries[s] ELSE NewEntry)

\* A lookup under the lock: insert, touch, and claim the call.  A closed cache
\* ends the call it would have started, as one that failed.  Until startResolve,
\* after the lock, the call counts as one that waits for its slot.
Lookup(s) ==
    LET found     == IF s \in DOMAIN entries THEN entries[s] ELSE NewEntry
        displaced == IF s \in DOMAIN entries THEN {{}} ELSE Evicted
        schedule  == ShouldResolve(found)
        touched   == [found EXCEPT !.inFlight = @ \/ (schedule /\ ~closed),
                                   !.due = @ /\ ~(schedule /\ closed
                                                   /\ found.status = "pending")]
    IN  /\ schedule => AllOutstanding < MaxCalls
        /\ \E gone \in displaced, tied \in {{}, Latest} :
              LET others == DOMAIN entries \ (gone \cup {s})
              IN  /\ entries' = [t \in others \cup {s} |->
                                    IF t = s THEN touched ELSE entries[t]]
                  /\ earlier' = (earlier \cap (others \X others)) \cup ((others \ tied) \X {s})
        /\ calls' = IF schedule /\ ~closed
                    THEN [calls EXCEPT ![s].waiting = @ + 1] ELSE calls
        /\ UNCHANGED closed

\* The goroutine takes a slot and asks the provider.
StartCall(s) ==
    /\ calls[s].waiting > 0
    /\ AllRunning < Concurrency
    /\ calls' = [calls EXCEPT ![s].waiting = @ - 1, ![s].running = @ + 1]
    /\ UNCHANGED <<entries, earlier, closed>>

Resolved(entry, deployment) ==
    IF deployment = "none"
    THEN [entry EXCEPT !.inFlight = FALSE, !.due = FALSE,
                       !.status = "not_available", !.deployment = "none"]
    ELSE [entry EXCEPT !.inFlight = FALSE, !.due = FALSE,
                       !.status = "available", !.deployment = deployment]

\* Slip: a failure leaves the entry marked as being asked about.
StaysInFlight(entry) == [entry EXCEPT !.due = @ /\ entry.status # "pending"]

\* The pause after a failure delays only an entry that never had an answer.
Failed(entry) == [entry EXCEPT !.inFlight = FALSE,
                               !.due = @ /\ entry.status # "pending"]

\* finish: an answer for a service the cache no longer holds is dropped.
Record(s, entry) ==
    entries' = IF s \in DOMAIN entries THEN [entries EXCEPT ![s] = entry] ELSE entries

ProviderAnswers(s) ==
    /\ calls[s].running > 0
    /\ Record(s, Resolved(entries[s], Declared[s]))
    /\ calls' = [calls EXCEPT ![s].running = @ - 1]
    /\ UNCHANGED <<earlier, closed>>

ProviderFails(s) ==
    /\ calls[s].running > 0
    /\ Record(s, Failed(entries[s]))
    /\ calls' = [calls EXCEPT ![s].running = @ - 1]
    /\ UNCHANGED <<earlier, closed>>

\* A goroutine still waiting for its slot sees the cache closing.
GiveUpCall(s) ==
    /\ closed
    /\ calls[s].waiting > 0
    /\ Record(s, Failed(entries[s]))
    /\ calls' = [calls EXCEPT ![s].waiting = @ - 1]
    /\ UNCHANGED <<earlier, closed>>

\* An answer's freshness, or a pause, ends.
Ages(s) ==
    /\ s \in DOMAIN entries /\ ~entries[s].due
    /\ entries' = [entries EXCEPT ![s].due = TRUE]
    /\ UNCHANGED <<earlier, calls, closed>>

EnrichmentTypeOK ==
    /\ DOMAIN entries \subseteq Services
    /\ \A s \in DOMAIN entries :
          /\ entries[s].status \in {"pending", "available", "not_available"}
          /\ entries[s].deployment \in {Declared[t] : t \in Services} \cup {"none"}
          /\ {entries[s].due, entries[s].inFlight} \subseteq BOOLEAN
    /\ earlier \subseteq (DOMAIN entries) \X (DOMAIN entries)
    /\ Cardinality(DOMAIN entries) <= MaxEntries
    /\ calls \in [Services -> [waiting : 0..MaxCalls, running : 0..MaxCalls]]
    /\ closed \in BOOLEAN

(***************************************************************************)
(* An entry marked as being asked about has a call that will come back to  *)
(* it: Lookup shares a call instead of starting one, so an entry whose     *)
(* mark outlived its call would answer pending for the life of the         *)
(* process, through evictions, failures and the closing of the cache.      *)
(***************************************************************************)
StillBeingAsked ==
    \A s \in DOMAIN entries : entries[s].inFlight => Outstanding(s) > 0
==============================================================================
