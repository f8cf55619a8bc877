--------------------------- MODULE AgentWorkerProofs ---------------------------
(***************************************************************************)
(* What holds of the agent's processes for any number of them, of          *)
(* assignments and of failures.  Two counts carry it: the processes that   *)
(* hold an assignment, which only a failure can make more of, and the runs *)
(* paid for with those that may still come, which the deliveries bound.    *)
(***************************************************************************)
EXTENDS AgentWorker, FiniteSetTheorems, TLAPS

Messages  == [state : {"queued", "gone", "dead"}, lease : 0..VisibilityTimeout,
              deliveries : 0..MaxAttempts, holder : Workers \cup {Nobody}]
Processes == [stage : Stages, on : Investigations \cup {Nobody}, attempt : 0..MaxAttempts,
              left : 0..RunTimeout, turn : 0..MaxIterations, durable : BOOLEAN, stopping : BOOLEAN]
Records   == [id : Investigations, status : Statuses]
Rows      == [status : Statuses \cup {"none"}, left : 0..StaleAfter]

-----------------------------------------------------------------------------
(* The inductive invariant.                                                *)

\* A process between two messages holds none.
Busy == Stages \ {"idle", "down"}
Placed(w) ==
  /\ process[w].stage \in Busy => On(w) \in Investigations
  /\ process[w].stage \notin Busy => On(w) = Nobody

\* The delivery that reaches MaxAttempts never gets as far as a run.
Started == RunStages \cup {"resolving"}
WithinAttempts(w) == process[w].stage \in Started => process[w].attempt < MaxAttempts

\* A verdict stands in a memory or in the table only where something ended it.
Ended(i) == endings[i] \cap {"ran", "gave_up", "abandoned"} # {}
MemoryEnded(w) ==
  \A k \in DOMAIN memory[w] : memory[w][k].status \in Terminal => Ended(memory[w][k].id)
\* What a process remembers as running is what it runs.
MemoryRuns(w) ==
  \A k \in DOMAIN memory[w] : memory[w][k].status = "running" =>
    process[w].stage \in RunStages /\ On(w) = memory[w][k].id
AckedEnded(w) == At(w, "acking") => Ended(On(w))
RowEnded(i) ==
  /\ table[i].status \in Terminal => Ended(i)
  /\ message[i].state = "gone" => Ended(i)

\* The processes that have an assignment in hand, and whether the process the
\* queue leased it to is one of them.
Crew(i)   == {w \in Workers : On(w) = i}
Leased(i) == /\ message[i].state = "queued" /\ message[i].lease > 0
             /\ message[i].holder \in Crew(i)
\* A message nobody holds by its lease is one that another process may get.
HeldByFew(i) == Cardinality(Crew(i)) + (IF Leased(i) THEN 0 ELSE 1) <= 1 + faults

\* The processes that may still pay for a run of an assignment.
Due(i) == {w \in Workers : /\ On(w) = i /\ process[w].stage \in Started \cup {"checking"}
                           /\ process[w].attempt < MaxAttempts}
PaidByDeliveries(i) ==
  /\ paid[i] + Cardinality(Due(i)) <= message[i].deliveries
  /\ paid[i] + Cardinality(Due(i)) < MaxAttempts

\* While nothing fails, what was paid for stays on record as a verdict.
Undisturbed == faults = 0 => \A w \in Workers : /\ process[w].durable /\ ~process[w].stopping
                                                /\ ~At(w, "down")
VerdictKept(i) ==
  faults = 0 /\ "hidden" \notin endings[i] /\ paid[i] # 0 =>
    /\ paid[i] = 1 /\ table[i].status \in Terminal
    /\ \A w \in Crew(i) : process[w].stage \in {"checking", "acking"}

IInv ==
  /\ TypeOK
  /\ \A w \in Workers : /\ Placed(w) /\ WithinAttempts(w)
                        /\ MemoryEnded(w) /\ MemoryRuns(w) /\ AckedEnded(w)
  /\ \A i \in Investigations : /\ RowEnded(i) /\ HeldByFew(i) /\ PaidByDeliveries(i)
                               /\ VerdictKept(i)
  /\ Undisturbed

-----------------------------------------------------------------------------
(* Constants, types and finite sets.                                       *)

\* AgentAssumption, one constant at a time, and the bounds it puts in range.
LEMMA Config ==
  /\ VisibilityTimeout \in Nat /\ RunTimeout \in Nat /\ MaxAttempts \in Nat
  /\ Capacity \in Nat /\ MaxIterations \in Nat /\ StaleSlack \in Nat /\ MaxFaults \in Nat
  /\ VisibilityTimeout > 0 /\ RunTimeout > 0 /\ MaxAttempts > 0 /\ Capacity > 0
  /\ MaxIterations > 0 /\ StaleAfter \in Nat
  /\ IsFiniteSet(Workers) /\ Nobody \notin Workers /\ Nobody \notin Investigations
BY AgentAssumption DEF AgentAssumption, StaleAfter

\* The type invariant by the record sets above.
LEMMA Types ==
  TypeOK <=>
    /\ message \in [Investigations -> Messages] /\ context \in [Investigations -> BOOLEAN]
    /\ process \in [Workers -> Processes]
    /\ memory \in [Workers -> Seq(Records)] /\ \A w \in Workers : Len(memory[w]) <= Capacity
    /\ table \in [Investigations -> Rows]
    /\ paid \in [Investigations -> Nat] /\ faults \in 0..MaxFaults
    /\ endings \in [Investigations -> SUBSET {"ran", "gave_up", "abandoned", "hidden"}]
BY DEF TypeOK, Messages, Processes, Records, Rows

\* A process that leaves a set makes it smaller by one.
LEMMA OneLess ==
  ASSUME NEW S, NEW T, IsFiniteSet(S), T \subseteq S, NEW w \in S, w \notin T
  PROVE  IsFiniteSet(T) /\ Cardinality(T) + 1 <= Cardinality(S)
<1>1. IsFiniteSet(S \ {w}) /\ Cardinality(S \ {w}) = Cardinality(S) - 1
  BY FS_RemoveElement
<1>2. T \subseteq S \ {w}
  OBVIOUS
<1>3. IsFiniteSet(T) /\ Cardinality(T) <= Cardinality(S \ {w})
  BY <1>1, <1>2, FS_Subset
<1> QED
  BY <1>1, <1>3, FS_CardinalityType

\* One process that joins a set makes it larger by at most one.
LEMMA OneMore ==
  ASSUME NEW S, NEW T, NEW w, IsFiniteSet(S), T \subseteq S \cup {w}
  PROVE  IsFiniteSet(T) /\ Cardinality(T) <= Cardinality(S) + 1
<1> Cardinality(S) \in Nat
  BY FS_CardinalityType
<1>1. IsFiniteSet(S \cup {w}) /\ Cardinality(S \cup {w}) <= Cardinality(S) + 1
  <2>1. CASE w \in S
    <3>1. S \cup {w} = S
      BY <2>1
    <3> QED
      BY <3>1
  <2>2. CASE w \notin S
    <3>1. IsFiniteSet(S \cup {w}) /\ Cardinality(S \cup {w}) = Cardinality(S) + 1
      BY ONLY IsFiniteSet(S), <2>2, FS_AddElement
    <3> QED
      BY <3>1
  <2> QED
    BY <2>1, <2>2
<1>2. IsFiniteSet(T) /\ Cardinality(T) <= Cardinality(S \cup {w})
  BY <1>1, FS_Subset
<1> QED
  BY <1>1, <1>2, FS_CardinalityType

\* The processes counted are some of the finitely many.
LEMMA Counted ==
  ASSUME NEW i
  PROVE  /\ IsFiniteSet(Crew(i)) /\ Cardinality(Crew(i)) \in Nat
         /\ IsFiniteSet(Due(i)) /\ Cardinality(Due(i)) \in Nat
<1>1. Crew(i) \subseteq Workers /\ Due(i) \subseteq Workers
  BY DEF Crew, Due
<1> QED
  BY <1>1, Config, FS_Subset, FS_CardinalityType

\* While nothing fails, a message is in the hands of one process at most, and
\* a message that can be received in nobody's.
LEMMA Alone ==
  ASSUME IInv, NEW i \in Investigations, faults = 0
  PROVE  /\ \A v, w \in Crew(i) : v = w
         /\ ~Leased(i) => Crew(i) = {}
<1>1. HeldByFew(i)
  BY DEF IInv
<1>2. ASSUME NEW v \in Crew(i), NEW w \in Crew(i), v # w PROVE FALSE
  <2>1. Cardinality({v}) = 1
    BY FS_Singleton
  <2>2. Cardinality({v}) + 1 <= Cardinality(Crew(i))
    BY <1>2, Counted, OneLess
  <2> QED
    BY <1>1, <2>1, <2>2, Counted DEF HeldByFew
<1>3. ASSUME ~Leased(i), Crew(i) # {} PROVE FALSE
  BY <1>1, <1>3, Counted, FS_EmptySet DEF HeldByFew
<1> QED
  BY <1>2, <1>3

-----------------------------------------------------------------------------
(* What recording a status does.                                           *)

\* A memory holds, for the investigation just recorded, that record alone; the
\* others are as they were, and never more than Capacity.
LEMMA InsertedRecords ==
  ASSUME TypeOK, NEW w \in Workers, NEW i \in Investigations, NEW status \in Statuses
  PROVE  LET after == Inserted(w, i, status)
         IN /\ after \in Seq(Records) /\ Len(after) <= Capacity
            /\ \A k \in DOMAIN after :
                 \/ after[k] = [id |-> i, status |-> status]
                 \/ \E m \in DOMAIN memory[w] : after[k] = memory[w][m] /\ memory[w][m].id # i
<1> DEFINE record == [id |-> i, status |-> status]
           longer == Append(memory[w], record)
<1>1. record \in Records /\ memory[w] \in Seq(Records) /\ Len(memory[w]) <= Capacity
  BY Types DEF Records
<1>2. CASE Held(w, i) # {}
  <2>1. Inserted(w, i, status) =
          [k \in DOMAIN memory[w] |-> IF k \in Held(w, i) THEN record ELSE memory[w][k]]
    BY <1>2 DEF Inserted
  <2> HIDE DEF record
  <2>2. /\ Inserted(w, i, status) \in Seq(Records)
        /\ Len(Inserted(w, i, status)) = Len(memory[w])
        /\ DOMAIN Inserted(w, i, status) = DOMAIN memory[w]
    BY <1>1, <2>1
  <2> QED
    BY <1>1, <2>1, <2>2 DEF Held, record
<1>3. CASE Held(w, i) = {}
  <2>1. Inserted(w, i, status) = IF Len(longer) > Capacity THEN Tail(longer) ELSE longer
    BY <1>3 DEF Inserted
  <2>2. \A m \in DOMAIN memory[w] : memory[w][m].id # i
    BY <1>3 DEF Held
  <2>3. longer \in Seq(Records) /\ Len(longer) = Len(memory[w]) + 1
    BY <1>1
  <2>4. \A k \in 1..Len(longer) :
          longer[k] = IF k = Len(memory[w]) + 1 THEN record ELSE memory[w][k]
    BY <1>1
  <2>5. \A k \in DOMAIN longer :
          \/ longer[k] = record
          \/ \E m \in DOMAIN memory[w] : longer[k] = memory[w][m]
    BY <1>1, <2>3, <2>4
  <2> HIDE DEF longer
  <2>6. CASE Len(longer) > Capacity
    <3>1. /\ Tail(longer) \in Seq(Records) /\ Len(Tail(longer)) = Len(longer) - 1
          /\ \A k \in DOMAIN Tail(longer) : k + 1 \in DOMAIN longer /\ Tail(longer)[k] = longer[k + 1]
      BY <2>3, <2>6, Config
    <3>2. PICK after \in Seq(Records) :
            /\ after = Inserted(w, i, status) /\ Len(after) = Len(longer) - 1
            /\ \A k \in DOMAIN after : k + 1 \in DOMAIN longer /\ after[k] = longer[k + 1]
      BY <2>1, <2>6, <3>1
    <3>3. Len(after) <= Capacity
      BY <1>1, <2>3, <3>2, Config
    <3>4. \A k \in DOMAIN after :
            \/ after[k] = record
            \/ \E m \in DOMAIN memory[w] : after[k] = memory[w][m] /\ memory[w][m].id # i
      BY <2>2, <2>5, <3>2
    <3> QED
      BY <3>2, <3>3, <3>4
  <2>7. CASE ~(Len(longer) > Capacity)
    BY <1>1, <2>1, <2>2, <2>3, <2>5, <2>7, Config
  <2> QED
    BY <2>6, <2>7
<1> QED
  BY <1>2, <1>3

\* A row for a status is a row of the table.
LEMMA SavedRow ==
  ASSUME TypeOK, NEW i \in Investigations, NEW status \in Statuses, Save(i, status)
  PROVE  /\ table' \in [Investigations -> Rows] /\ table'[i].status = status
         /\ \A j \in Investigations \ {i} : table'[j] = table[j]
<1>1. [status |-> status, left |-> IF status = "running" THEN StaleAfter ELSE 0] \in Rows
  BY Config DEF Rows
<1>2. table \in [Investigations -> Rows]
  BY Types
<1> QED
  BY <1>1, <1>2 DEF Save

\* PutAfter: the memory always, the table unless the mirror fails, which costs
\* a fault; a process without a journal leaves the table alone.
Recorded(w, i, status) ==
  /\ memory' \in [Workers -> Seq(Records)]
  /\ \A v \in Workers : Len(memory'[v]) <= Capacity
  /\ \A v \in Workers \ {w} : memory'[v] = memory[v]
  /\ \A k \in DOMAIN memory'[w] :
       \/ memory'[w][k] = [id |-> i, status |-> status]
       \/ \E m \in DOMAIN memory[w] : memory'[w][k] = memory[w][m] /\ memory[w][m].id # i
  /\ table' \in [Investigations -> Rows]
  /\ \A j \in Investigations \ {i} : table'[j] = table[j]
  /\ table'[i] = table[i] \/ table'[i].status = status
  /\ faults' \in 0..MaxFaults /\ faults' >= faults
  /\ faults' = 0 /\ process[w].durable => table'[i].status = status

\* Every call that records a status does so.
LEMMA PutRecords ==
  ASSUME TypeOK, NEW w \in Workers, NEW i \in Investigations, NEW status \in Statuses,
         NEW n \in Nat, PutAfter(n, w, i, status)
  PROVE  Recorded(w, i, status)
<1> DEFINE after == Inserted(w, i, status)
<1>1. memory' = [memory EXCEPT ![w] = after]
  BY DEF PutAfter
<1>2. /\ after \in Seq(Records) /\ Len(after) <= Capacity
      /\ \A k \in DOMAIN after :
           \/ after[k] = [id |-> i, status |-> status]
           \/ \E m \in DOMAIN memory[w] : after[k] = memory[w][m] /\ memory[w][m].id # i
  BY InsertedRecords
<1>3. memory \in [Workers -> Seq(Records)] /\ \A v \in Workers : Len(memory[v]) <= Capacity
  BY Types
<1> HIDE DEF after
<1>4. /\ memory' \in [Workers -> Seq(Records)] /\ memory'[w] = after
      /\ \A v \in Workers \ {w} : memory'[v] = memory[v]
  BY <1>1, <1>2, <1>3
<1>5. \A v \in Workers : Len(memory'[v]) <= Capacity
  BY <1>2, <1>3, <1>4
<1>6. faults \in Nat /\ faults <= MaxFaults /\ MaxFaults \in Nat /\ table \in [Investigations -> Rows]
  BY Types, Config
<1>7. CASE (IF process[w].durable THEN Save(i, status) ELSE UNCHANGED table) /\ Fault(n)
  <2>1. faults' \in 0..MaxFaults /\ faults' >= faults
    BY <1>6, <1>7 DEF Fault
  <2>2. CASE process[w].durable
    BY <1>2, <1>4, <1>5, <1>7, <2>1, <2>2, SavedRow DEF Recorded
  <2>3. CASE ~process[w].durable
    BY <1>2, <1>4, <1>5, <1>6, <1>7, <2>1, <2>3 DEF Recorded
  <2> QED
    BY <2>2, <2>3
<1>8. CASE UNCHANGED table /\ Fault(n + 1)
  <2>1. faults' \in 0..MaxFaults /\ faults' >= faults /\ faults' # 0
    BY <1>6, <1>8 DEF Fault
  <2> QED
    BY <1>2, <1>4, <1>5, <1>6, <1>8, <2>1 DEF Recorded
<1> QED
  BY <1>7, <1>8 DEF PutAfter

-----------------------------------------------------------------------------
(* What a step of one process leaves alone.                                *)

\* A step of w that starts no delivery: w keeps the message it has in hand or
\* lets go of it, and every other process and its memory stay as they are.
Steps(w, r) ==
  /\ r \in Processes /\ process' = [process EXCEPT ![w] = r]
  /\ r.on \in {On(w), Nobody}
  /\ \A v \in Workers \ {w} : memory'[v] = memory[v]
  /\ message' \in [Investigations -> Messages]
  /\ \A i \in Investigations : message'[i].deliveries = message[i].deliveries
  /\ r.on = On(w) => message' = message
  /\ \A i \in Investigations \ {On(w)} : message'[i] = message[i] /\ paid'[i] = paid[i]
  /\ faults' \in 0..MaxFaults /\ faults' >= faults

\* What ended an assignment is not forgotten.
EndingsGrow ==
  /\ endings' \in [Investigations -> SUBSET {"ran", "gave_up", "abandoned", "hidden"}]
  /\ \A i \in Investigations : endings[i] \subseteq endings'[i]

\* The processes after the step.
LEMMA SteppedProcess ==
  ASSUME TypeOK, NEW w \in Workers, NEW r, Steps(w, r)
  PROVE  /\ process' \in [Workers -> Processes] /\ process'[w] = r
         /\ \A v \in Workers \ {w} : process'[v] = process[v]
BY Types DEF Steps

\* No step of a process brings an assignment into more hands, or leaves it in
\* as many and free as well.
LEMMA StepHolds ==
  ASSUME IInv, NEW w \in Workers, NEW r, Steps(w, r)
  PROVE  \A i \in Investigations : HeldByFew(i)'
<1> SUFFICES ASSUME NEW i \in Investigations PROVE HeldByFew(i)'
  OBVIOUS
<1>1. TypeOK /\ HeldByFew(i) /\ faults' \in Nat /\ faults \in Nat /\ faults' >= faults
  BY Types, Config DEF IInv, Steps
<1>2. /\ process' \in [Workers -> Processes] /\ process'[w] = r
      /\ \A v \in Workers \ {w} : process'[v] = process[v]
  BY <1>1, SteppedProcess
<1>3. Crew(i)' = {v \in Workers : process'[v].on = i}
  BY DEF Crew, On
<1>4. Crew(i) = {v \in Workers : process[v].on = i} /\ (w \in Crew(i) <=> On(w) = i)
  BY DEF Crew, On
<1>5. CASE r.on = On(w) \/ On(w) # i
  <2>1. r.on = i <=> On(w) = i
    BY <1>5, Config DEF Steps
  <2>2. Crew(i)' = Crew(i)
    BY <1>2, <1>3, <1>4, <2>1 DEF On
  <2>3. message'[i] = message[i]
    BY <1>5 DEF Steps
  <2>4. Leased(i)' <=> Leased(i)
    BY <2>2, <2>3 DEF Leased
  <2> QED
    BY <1>1, <2>2, <2>4, Counted DEF HeldByFew
<1>6. CASE r.on # On(w) /\ On(w) = i
  <2>1. r.on # i
    BY <1>6
  <2>2. Crew(i)' \subseteq Crew(i) /\ w \in Crew(i) /\ w \notin Crew(i)'
    BY <1>2, <1>3, <1>4, <1>6, <2>1
  <2>3. IsFiniteSet(Crew(i)') /\ Cardinality(Crew(i)') + 1 <= Cardinality(Crew(i))
    BY <2>2, Counted, OneLess
  <2>4. Cardinality(Crew(i)') \in Nat /\ Cardinality(Crew(i)) \in Nat
    BY <2>3, Counted, FS_CardinalityType
  <2> QED
    BY <1>1, <2>3, <2>4 DEF HeldByFew
<1> QED
  BY <1>5, <1>6

\* What a step pays for it takes from the runs that may still come.
LEMMA StepPays ==
  ASSUME IInv, NEW w \in Workers, NEW r, Steps(w, r),
         r.stage \in Started \cup {"checking"} =>
           process[w].stage \in Started \cup {"checking"} /\ r.attempt = process[w].attempt,
         \A i \in Investigations :
           \/ paid'[i] = paid[i]
           \/ /\ paid'[i] = paid[i] + 1 /\ On(w) = i
              /\ process[w].stage \in Started /\ r.stage \notin Started \cup {"checking"}
  PROVE  \A i \in Investigations : PaidByDeliveries(i)'
<1> SUFFICES ASSUME NEW i \in Investigations PROVE PaidByDeliveries(i)'
  OBVIOUS
<1>1. /\ TypeOK /\ PaidByDeliveries(i) /\ WithinAttempts(w) /\ paid[i] \in Nat
      /\ message'[i].deliveries = message[i].deliveries /\ message[i].deliveries \in Nat
  BY Types, Config DEF IInv, Steps, Messages
<1>2. /\ process' \in [Workers -> Processes] /\ process'[w] = r
      /\ \A v \in Workers \ {w} : process'[v] = process[v]
  BY <1>1, SteppedProcess
<1>3. Due(i)' = {v \in Workers : /\ process'[v].on = i
                                 /\ process'[v].stage \in Started \cup {"checking"}
                                 /\ process'[v].attempt < MaxAttempts}
  BY DEF Due, On
<1>4. Due(i) = {v \in Workers : /\ process[v].on = i
                                /\ process[v].stage \in Started \cup {"checking"}
                                /\ process[v].attempt < MaxAttempts}
  BY DEF Due, On
<1>5. Due(i)' \subseteq Due(i)
  <2>1. ASSUME w \in Due(i)' PROVE w \in Due(i)
    BY <1>2, <1>3, <1>4, <2>1, Config DEF Steps, On
  <2> QED
    BY <1>2, <1>3, <1>4, <2>1
<1>6. /\ IsFiniteSet(Due(i)') /\ Cardinality(Due(i)') \in Nat
      /\ Cardinality(Due(i)') <= Cardinality(Due(i)) /\ Cardinality(Due(i)) \in Nat
  BY <1>5, Counted, FS_Subset, FS_CardinalityType
<1>7. CASE paid'[i] = paid[i]
  BY <1>1, <1>6, <1>7, Config DEF PaidByDeliveries
<1>8. CASE /\ paid'[i] = paid[i] + 1 /\ On(w) = i
           /\ process[w].stage \in Started /\ r.stage \notin Started \cup {"checking"}
  <2>1. w \in Due(i) /\ w \notin Due(i)'
    BY <1>1, <1>2, <1>3, <1>4, <1>8 DEF WithinAttempts, On
  <2>2. Cardinality(Due(i)') + 1 <= Cardinality(Due(i))
    BY <1>5, <2>1, Counted, OneLess
  <2> QED
    BY <1>1, <1>6, <1>8, <2>2, Config DEF PaidByDeliveries
<1> QED
  BY <1>7, <1>8

\* The other processes are placed, remember and acknowledge as before.
LEMMA StepLeavesOthers ==
  ASSUME IInv, NEW w \in Workers, NEW r, Steps(w, r), EndingsGrow, NEW v \in Workers \ {w}
  PROVE  /\ Placed(v)' /\ WithinAttempts(v)' /\ MemoryEnded(v)' /\ MemoryRuns(v)'
         /\ AckedEnded(v)'
<1>1. /\ TypeOK /\ Placed(v) /\ WithinAttempts(v) /\ MemoryEnded(v) /\ MemoryRuns(v)
      /\ AckedEnded(v)
  BY DEF IInv
<1>2. process'[v] = process[v] /\ memory'[v] = memory[v]
  BY <1>1, SteppedProcess DEF Steps
<1>3. memory[v] \in Seq(Records)
  BY <1>1, Types
<1>4. \A i \in Investigations : Ended(i) => Ended(i)'
  BY DEF Ended, EndingsGrow
<1>5. Placed(v)' /\ WithinAttempts(v)' /\ MemoryRuns(v)'
  BY <1>1, <1>2 DEF Placed, WithinAttempts, MemoryRuns, On
<1>6. MemoryEnded(v)'
  <2> SUFFICES ASSUME NEW k \in DOMAIN memory[v], memory[v][k].status \in Terminal
               PROVE  Ended(memory[v][k].id)'
    BY <1>2 DEF MemoryEnded
  <2> memory[v][k] \in Records
    BY <1>3
  <2>1. memory[v][k].id \in Investigations
    BY DEF Records
  <2> QED
    BY <1>1, <1>2, <1>4, <2>1 DEF MemoryEnded, Ended
<1>7. AckedEnded(v)'
  <2>1. At(v, "acking") => On(v) \in Investigations
    BY <1>1 DEF Placed, At, Busy, Stages, RunStages
  <2> QED
    BY <1>1, <1>2, <1>4, <2>1 DEF AckedEnded, At, On, Ended
<1> QED
  BY <1>5, <1>6, <1>7

\* A verdict stays on record for every assignment the process has not in hand.
LEMMA StepKeepsVerdicts ==
  ASSUME IInv, NEW w \in Workers, NEW r, Steps(w, r), EndingsGrow,
         NEW i \in Investigations \ {On(w)},
         table[i].status \in Terminal => table'[i].status \in Terminal
  PROVE  VerdictKept(i)'
<1> SUFFICES ASSUME faults' = 0, "hidden" \notin endings'[i], paid'[i] # 0
             PROVE  /\ paid'[i] = 1 /\ table'[i].status \in Terminal
                    /\ \A v \in Crew(i)' : process'[v].stage \in {"checking", "acking"}
  BY DEF VerdictKept
<1>1. /\ TypeOK /\ VerdictKept(i) /\ faults = 0 /\ "hidden" \notin endings[i]
      /\ paid'[i] = paid[i]
  BY Types, Config DEF IInv, Steps, EndingsGrow
<1>2. /\ process'[w] = r /\ \A v \in Workers \ {w} : process'[v] = process[v]
  BY <1>1, SteppedProcess
<1>3. Crew(i)' \subseteq Crew(i) /\ w \notin Crew(i)'
  BY <1>2, Config DEF Crew, On, Steps
<1> QED
  BY <1>1, <1>2, <1>3 DEF VerdictKept, Crew

\* So a step of one process preserves the invariant if it does for what that
\* process has in hand.
Pays(w, r) ==
  /\ r.stage \in Started \cup {"checking"} =>
       process[w].stage \in Started \cup {"checking"} /\ r.attempt = process[w].attempt
  /\ paid' \in [Investigations -> Nat]
  /\ \A i \in Investigations :
       \/ paid'[i] = paid[i]
       \/ /\ paid'[i] = paid[i] + 1 /\ On(w) = i
          /\ process[w].stage \in Started /\ r.stage \notin Started \cup {"checking"}

\* The conjuncts of the invariant, over all processes and assignments.
LEMMA StepIInv ==
  ASSUME IInv, NEW w \in Workers, NEW r, Steps(w, r), EndingsGrow, Pays(w, r),
         context' \in [Investigations -> BOOLEAN],
         memory' \in [Workers -> Seq(Records)], \A v \in Workers : Len(memory'[v]) <= Capacity,
         table' \in [Investigations -> Rows],
         \A i \in Investigations \ {On(w)} :
           table[i].status \in Terminal => table'[i].status \in Terminal,
         Placed(w)', WithinAttempts(w)', MemoryEnded(w)', MemoryRuns(w)', AckedEnded(w)',
         \A i \in Investigations : RowEnded(i)',
         \A i \in Investigations : i = On(w) => VerdictKept(i)',
         Undisturbed'
  PROVE  IInv'
<1>1. TypeOK
  BY DEF IInv
<1>2. TypeOK'
  <2>1. process' \in [Workers -> Processes]
    BY <1>1, SteppedProcess
  <2> QED
    BY <2>1, Types DEF TypeOK, Steps, EndingsGrow, Pays, Messages, Processes, Records, Rows
<1>3. \A v \in Workers : /\ Placed(v)' /\ WithinAttempts(v)'
                         /\ MemoryEnded(v)' /\ MemoryRuns(v)' /\ AckedEnded(v)'
  <2> SUFFICES ASSUME NEW v \in Workers
               PROVE  /\ Placed(v)' /\ WithinAttempts(v)'
                      /\ MemoryEnded(v)' /\ MemoryRuns(v)' /\ AckedEnded(v)'
    OBVIOUS
  <2>1. CASE v = w
    BY <2>1
  <2>2. CASE v # w
    BY <2>2, StepLeavesOthers
  <2> QED
    BY <2>1, <2>2
<1>4. \A i \in Investigations : HeldByFew(i)'
  BY StepHolds
<1>5. \A i \in Investigations : PaidByDeliveries(i)'
  BY StepPays DEF Pays
<1>6. \A i \in Investigations : VerdictKept(i)'
  <2> SUFFICES ASSUME NEW i \in Investigations PROVE VerdictKept(i)'
    OBVIOUS
  <2>1. CASE i = On(w)
    BY <2>1
  <2>2. CASE i # On(w)
    BY <2>2, StepKeepsVerdicts
  <2> QED
    BY <2>1, <2>2
<1> QED
  BY <1>2, <1>3, <1>4, <1>5, <1>6 DEF IInv

-----------------------------------------------------------------------------
(* Steps that record a status.                                             *)

\* The record just written is the only one of its investigation in memory.
LEMMA RecordedMemory ==
  ASSUME IInv, NEW w \in Workers, NEW r, Steps(w, r), EndingsGrow,
         NEW status \in Statuses, On(w) \in Investigations, Recorded(w, On(w), status),
         status \in Terminal => endings'[On(w)] \cap {"ran", "gave_up", "abandoned"} # {},
         status = "running" => r.stage \in RunStages /\ r.on = On(w)
  PROVE  MemoryEnded(w)' /\ MemoryRuns(w)'
<1>1. TypeOK /\ MemoryEnded(w) /\ MemoryRuns(w)
  BY DEF IInv
<1>2. process'[w] = r
  BY <1>1, SteppedProcess
<1>3. memory[w] \in Seq(Records)
  BY <1>1, Types
<1> DEFINE record == [id |-> On(w), status |-> status]
<1>4. ASSUME NEW k \in DOMAIN memory'[w]
      PROVE  \/ memory'[w][k] = record
             \/ \E m \in DOMAIN memory[w] :
                  memory'[w][k] = memory[w][m] /\ memory[w][m].id # On(w)
  BY <1>4 DEF Recorded
<1>5. record.id = On(w) /\ record.status = status
  OBVIOUS
<1> HIDE DEF record
<1>6. ASSUME NEW k \in DOMAIN memory'[w], memory'[w][k].status \in Terminal
      PROVE  endings'[memory'[w][k].id] \cap {"ran", "gave_up", "abandoned"} # {}
  <2>1. CASE memory'[w][k] = record
    BY <1>5, <1>6, <2>1
  <2>2. ASSUME NEW m \in DOMAIN memory[w], memory'[w][k] = memory[w][m]
        PROVE  endings'[memory'[w][k].id] \cap {"ran", "gave_up", "abandoned"} # {}
    <3>1. memory[w][m] \in Records
      BY <1>3
    <3>2. memory[w][m].id \in Investigations
      BY <3>1 DEF Records
    <3>3. Ended(memory[w][m].id)
      BY <1>1, <1>6, <2>2 DEF MemoryEnded
    <3> QED
      BY <2>2, <3>2, <3>3 DEF Ended, EndingsGrow
  <2> QED
    BY <1>4, <2>1, <2>2
<1>7. ASSUME NEW k \in DOMAIN memory'[w], memory'[w][k].status = "running"
      PROVE  process'[w].stage \in RunStages /\ process'[w].on = memory'[w][k].id
  <2>1. CASE memory'[w][k] = record
    BY <1>2, <1>5, <1>7, <2>1
  <2>2. ASSUME NEW m \in DOMAIN memory[w], memory'[w][k] = memory[w][m],
               memory[w][m].id # On(w)
        PROVE  FALSE
    BY <1>1, <1>7, <2>2 DEF MemoryRuns
  <2> QED
    BY <1>4, <2>1, <2>2
<1>8. MemoryEnded(w)'
  BY <1>6 DEF MemoryEnded, Ended
<1>9. MemoryRuns(w)'
  BY <1>7 DEF MemoryRuns, On
<1> QED
  BY <1>8, <1>9

\* A step that records the status of what it has in hand: a verdict if it goes
\* on to acknowledge, and else before anything was paid for.
LEMMA RecordIInv ==
  ASSUME IInv, NEW w \in Workers, NEW r, Steps(w, r), EndingsGrow, Pays(w, r),
         NEW status \in Statuses, On(w) \in Investigations, Recorded(w, On(w), status),
         message' = message, context' = context,
         r.stage \in Busy => r.on = On(w), r.stage \notin Busy => r.on = Nobody,
         r.stage \in Started => r.attempt < MaxAttempts,
         r.durable = process[w].durable, r.stopping = process[w].stopping, r.stage # "down",
         process[w].stage \notin {"acking", "idle", "down"},
         status \in Terminal => endings'[On(w)] \cap {"ran", "gave_up", "abandoned"} # {},
         status = "running" => r.stage \in RunStages,
         \/ r.stage = "acking" /\ status \in Terminal
         \/ r.stage # "acking" /\ process[w].stage \in Started /\ paid'[On(w)] = paid[On(w)]
  PROVE  IInv'
<1>1. /\ TypeOK /\ \A i \in Investigations : RowEnded(i) /\ VerdictKept(i)
      /\ Undisturbed
  BY DEF IInv
<1>2. /\ process'[w] = r /\ process' \in [Workers -> Processes]
      /\ \A v \in Workers \ {w} : process'[v] = process[v]
  BY <1>1, SteppedProcess
<1>3. faults \in Nat /\ faults' \in Nat /\ faults' >= faults
  BY <1>1, Types, Config DEF Steps
<1>4. MemoryEnded(w)' /\ MemoryRuns(w)'
  <2>1. status = "running" => r.stage \in RunStages /\ r.on = On(w)
    BY DEF Busy, Stages, RunStages
  <2> QED
    BY <2>1, RecordedMemory
<1>5. Placed(w)' /\ WithinAttempts(w)' /\ AckedEnded(w)'
  BY <1>2 DEF Placed, WithinAttempts, AckedEnded, Ended, At, On, Busy, Stages, Started, RunStages
<1>6. \A i \in Investigations : RowEnded(i)'
  <2> SUFFICES ASSUME NEW i \in Investigations PROVE RowEnded(i)'
    OBVIOUS
  <2>1. RowEnded(i) /\ endings[i] \subseteq endings'[i]
    BY <1>1 DEF EndingsGrow
  <2>2. table'[i] = table[i] \/ (i = On(w) /\ table'[i].status = status)
    BY DEF Recorded
  <2> QED
    BY <2>1, <2>2 DEF RowEnded, Ended
<1>7. \A i \in Investigations : i = On(w) => VerdictKept(i)'
  <2> SUFFICES ASSUME NEW i \in Investigations, i = On(w),
                      faults' = 0, "hidden" \notin endings'[i], paid'[i] # 0
               PROVE  /\ paid'[i] = 1 /\ table'[i].status \in Terminal
                      /\ \A v \in Crew(i)' : process'[v].stage \in {"checking", "acking"}
    BY DEF VerdictKept
  <2>1. faults = 0 /\ "hidden" \notin endings[i] /\ VerdictKept(i) /\ w \in Crew(i)
    BY <1>1, <1>3 DEF EndingsGrow, Crew
  <2>2. \A v, u \in Crew(i) : v = u
    BY <2>1, Alone
  <2>3. Crew(i)' \subseteq {w}
    BY <1>2, <2>1, <2>2 DEF Crew, On
  <2>4. paid[i] # 0 => paid[i] = 1 /\ process[w].stage \in {"checking", "acking"}
    BY <2>1 DEF VerdictKept
  <2>5. paid[i] \in Nat /\ paid'[i] \in Nat
    BY <1>1, Types DEF Pays
  <2>6. r.stage = "acking" /\ status \in Terminal
    BY <2>4 DEF Started, RunStages
  <2>7. table'[i].status = status
    BY <1>1, <2>1 DEF Undisturbed, Recorded
  <2>8. paid'[i] = 1
    BY <2>4, <2>5 DEF Pays, Started, RunStages
  <2> QED
    BY <1>2, <2>3, <2>6, <2>7, <2>8
<1>8. Undisturbed'
  <2>1. ASSUME faults' = 0, NEW v \in Workers
        PROVE  process'[v].durable /\ ~process'[v].stopping /\ process'[v].stage # "down"
    <3>1. faults = 0 /\ process[v].durable /\ ~process[v].stopping /\ process[v].stage # "down"
      BY <1>1, <1>3, <2>1 DEF Undisturbed, At
    <3> QED
      BY <1>2, <3>1
  <2> QED
    BY <2>1 DEF Undisturbed, At
<1>9. \A i \in Investigations \ {On(w)} :
        table[i].status \in Terminal => table'[i].status \in Terminal
  BY DEF Recorded
<1>10. /\ context' \in [Investigations -> BOOLEAN] /\ memory' \in [Workers -> Seq(Records)]
       /\ \A v \in Workers : Len(memory'[v]) <= Capacity /\ table' \in [Investigations -> Rows]
  BY <1>1, Types DEF Recorded
<1> QED
  BY <1>4, <1>5, <1>6, <1>7, <1>8, <1>9, <1>10, StepIInv

\* A process with another stage, run time left and turn.
AtStage(p, a, b, c) == [p EXCEPT !.stage = a, !.left = b, !.turn = c]

\* It keeps its message and its flags.
LEMMA ProcessAt ==
  ASSUME NEW p \in Processes, NEW a \in Stages, NEW b \in 0..RunTimeout, NEW c \in 0..MaxIterations
  PROVE  /\ AtStage(p, a, b, c) \in Processes /\ AtStage(p, a, b, c).stage = a
         /\ AtStage(p, a, b, c).on = p.on /\ AtStage(p, a, b, c).attempt = p.attempt
         /\ AtStage(p, a, b, c).durable = p.durable /\ AtStage(p, a, b, c).stopping = p.stopping
BY DEF Processes, AtStage

\* A process with its flags set.
Flagged(p, d, s) == [p EXCEPT !.durable = d, !.stopping = s]

\* It stays where it is.
LEMMA ProcessFlags ==
  ASSUME NEW p \in Processes, NEW d \in BOOLEAN, NEW s \in BOOLEAN
  PROVE  /\ Flagged(p, d, s) \in Processes
         /\ Flagged(p, d, s).stage = p.stage /\ Flagged(p, d, s).on = p.on
         /\ Flagged(p, d, s).durable = d /\ Flagged(p, d, s).stopping = s
BY DEF Processes, Flagged

\* A process just booted has nothing in hand.
LEMMA FreshProcess ==
  /\ Fresh \in Processes /\ Fresh.stage = "idle" /\ Fresh.on = Nobody
  /\ Fresh.durable /\ ~Fresh.stopping
BY Config DEF Processes, Fresh, Stages

\* The fields of a process that has a message in hand.
LEMMA InHand ==
  ASSUME IInv, NEW w \in Workers, process[w].stage \in Busy
  PROVE  /\ process[w] \in Processes /\ On(w) \in Investigations
         /\ process[w].attempt \in 0..MaxAttempts /\ process[w].durable \in BOOLEAN
         /\ process[w].stopping \in BOOLEAN /\ process[w].turn \in 0..MaxIterations
         /\ process[w].stage \in Started => process[w].attempt < MaxAttempts
<1>1. process[w] \in Processes
  BY Types DEF IInv
<1>2. Placed(w) /\ WithinAttempts(w)
  BY DEF IInv
<1> QED
  BY <1>1, <1>2 DEF Processes, Placed, WithinAttempts

\* A run that reached an end, either way.
LEMMA FinishIInv ==
  ASSUME IInv, NEW w \in Workers, NEW n \in Nat, NEW status \in Terminal,
         process[w].stage \in RunStages, Finish(w, n, status), UNCHANGED <<message, context>>
  PROVE  IInv'
<1> DEFINE r == AtStage(process[w], "acking", 0, 0)
<1>1. /\ TypeOK /\ process[w].stage \in Busy /\ process[w].stage \in Started
      /\ status \in Statuses
  BY DEF IInv, Busy, Stages, Started, RunStages, Statuses, Terminal
<1>2. process[w] \in Processes /\ On(w) \in Investigations
  BY <1>1, InHand
<1>3. /\ r \in Processes /\ r.stage = "acking" /\ r.on = On(w)
      /\ r.durable = process[w].durable /\ r.stopping = process[w].stopping
  <2>1. "acking" \in Stages /\ 0 \in 0..RunTimeout /\ 0 \in 0..MaxIterations
    BY Config DEF Stages
  <2> QED
    BY <1>2, <2>1, ProcessAt DEF On
<1>4. process' = [process EXCEPT ![w] = r]
  BY DEF Finish, Move, AtStage
<1> HIDE DEF r
<1>5. Recorded(w, On(w), status)
  BY <1>1, <1>2, PutRecords DEF Finish
<1>6. EndingsGrow /\ endings'[On(w)] \cap {"ran", "gave_up", "abandoned"} # {}
  BY <1>1, <1>2, Types DEF Finish, EndingsGrow
<1>7. /\ paid' \in [Investigations -> Nat]
      /\ \A i \in Investigations : paid'[i] = IF i = On(w) THEN paid[i] + 1 ELSE paid[i]
  BY <1>1, <1>2, Types DEF Finish
<1>8. Steps(w, r)
  BY <1>1, <1>3, <1>4, <1>5, <1>7, Types DEF Steps, Recorded
<1>9. Pays(w, r)
  BY <1>1, <1>3, <1>7 DEF Pays, Started, RunStages
<1> QED
  BY <1>1, <1>2, <1>3, <1>5, <1>6, <1>8, <1>9, RecordIInv
     DEF Busy, Stages, Started, RunStages, Terminal

\* A message left for redelivery, before anything was paid for.
LEMMA RetryIInv ==
  ASSUME IInv, NEW w \in Workers, NEW n \in Nat, process[w].stage \in Started, Retry(w, n),
         UNCHANGED <<message, context, paid, endings>>
  PROVE  IInv'
<1> DEFINE r == Flagged(Fresh, process[w].durable, process[w].stopping)
<1>1. /\ TypeOK /\ process[w].stage \in Busy /\ "retrying" \in Statuses
      /\ "retrying" \notin Terminal
  BY DEF IInv, Busy, Stages, Started, RunStages, Statuses, Terminal
<1>2. process[w] \in Processes /\ On(w) \in Investigations
  BY <1>1, InHand
<1>3. /\ r \in Processes /\ r.stage = "idle" /\ r.on = Nobody
      /\ r.durable = process[w].durable /\ r.stopping = process[w].stopping
  <2>1. process[w].durable \in BOOLEAN /\ process[w].stopping \in BOOLEAN
    BY <1>1, InHand
  <2> QED
    BY <2>1, FreshProcess, ProcessFlags
<1>4. process' = [process EXCEPT ![w] = r]
  BY DEF Retry, Free, Move, Flagged
<1> HIDE DEF r
<1>5. Recorded(w, On(w), "retrying")
  BY <1>1, <1>2, PutRecords DEF Retry
<1>6. EndingsGrow
  BY <1>1, Types DEF EndingsGrow
<1>7. Steps(w, r)
  BY <1>1, <1>3, <1>4, <1>5, Types DEF Steps, Recorded
<1>8. Pays(w, r)
  BY <1>1, <1>3, Types DEF Pays, Started, RunStages
<1> QED
  BY <1>1, <1>2, <1>3, <1>5, <1>6, <1>7, <1>8, RecordIInv
     DEF Busy, Stages, Started, RunStages

\* Resolve: the run starts, or the message is left.
LEMMA ResolveIInv ==
  ASSUME IInv, NEW w \in Workers, Resolve(w)
  PROVE  IInv'
<1>1. process[w].stage = "resolving" /\ process[w].stage \in Started
  BY DEF Resolve, At, Started
<1>2. CASE /\ Start(w) /\ UNCHANGED <<message, context, paid, endings>>
           /\ Move(w, [process[w] EXCEPT !.stage = "thinking", !.left = RunTimeout, !.turn = 1])
  <2> DEFINE r == AtStage(process[w], "thinking", RunTimeout, 1)
  <2>1. /\ TypeOK /\ process[w].stage \in Busy /\ "running" \in Statuses
        /\ "running" \notin Terminal
    BY <1>1 DEF IInv, Busy, Stages, Statuses, Terminal
  <2>2. /\ process[w] \in Processes /\ On(w) \in Investigations
        /\ process[w].attempt < MaxAttempts
    BY <1>1, <2>1, InHand
  <2>3. /\ r \in Processes /\ r.stage = "thinking" /\ r.on = On(w)
        /\ r.attempt = process[w].attempt
        /\ r.durable = process[w].durable /\ r.stopping = process[w].stopping
    <3>1. "thinking" \in Stages /\ RunTimeout \in 0..RunTimeout /\ 1 \in 0..MaxIterations
      BY Config DEF Stages, RunStages
    <3> QED
      BY <2>2, <3>1, ProcessAt DEF On
  <2>4. process' = [process EXCEPT ![w] = r]
    BY <1>2 DEF Move, AtStage
  <2> HIDE DEF r
  <2>5. Recorded(w, On(w), "running")
    BY <1>2, <2>1, <2>2, PutRecords DEF Start, Put
  <2>6. EndingsGrow
    BY <1>2, <2>1, Types DEF EndingsGrow
  <2>7. Steps(w, r)
    BY <1>2, <2>1, <2>3, <2>4, <2>5, Types DEF Steps, Recorded
  <2>8. Pays(w, r)
    BY <1>1, <1>2, <2>1, <2>3, Types DEF Pays
  <2> QED
    BY <1>1, <1>2, <2>1, <2>2, <2>3, <2>5, <2>6, <2>7, <2>8, RecordIInv
       DEF Busy, Stages, Started, RunStages
<1>3. ASSUME NEW n \in Nat, Retry(w, n), UNCHANGED <<message, context, paid, endings>>
      PROVE  IInv'
  BY <1>1, <1>3, RetryIInv
<1> QED
  BY <1>2, <1>3 DEF Resolve

\* Run: the steps that end it, one way or the other.
LEMMA EndOfRunIInv ==
  ASSUME IInv, NEW w \in Workers, Answer(w) \/ RunFails(w) \/ executeLosesSession(w)
  PROVE  IInv'
<1>1. FaultsOf(w) \in Nat
  BY DEF FaultsOf
<1>2. CASE Answer(w)
  BY <1>2, FinishIInv DEF Answer, At, RunStages, Terminal
<1>3. CASE RunFails(w)
  BY <1>1, <1>3, FinishIInv DEF RunFails, At, RunStages, Terminal
<1>4. CASE executeLosesSession(w)
  BY <1>1, <1>4, RetryIInv DEF executeLosesSession, At, Started, RunStages
<1> QED
  BY <1>2, <1>3, <1>4

-----------------------------------------------------------------------------
(* Steps that record nothing.                                              *)

\* A step that moves on, or loses its memory with its process.
LEMMA MoveIInv ==
  ASSUME IInv, NEW w \in Workers, NEW r, Steps(w, r), EndingsGrow, Pays(w, r),
         UNCHANGED <<context, table, paid>>,
         \/ /\ memory' = memory
            /\ process[w].stage \in RunStages => r.stage \in RunStages /\ r.on = On(w)
         \/ memory' = [memory EXCEPT ![w] = <<>>],
         \A i \in Investigations : message'[i].state = "gone" =>
           message[i].state = "gone" \/ (i = On(w) /\ At(w, "acking")),
         r.stage \in Busy => r.on = On(w) /\ On(w) \in Investigations,
         r.stage \notin Busy => r.on = Nobody,
         r.stage \in Started => r.attempt < MaxAttempts,
         r.stage = "acking" => endings'[On(w)] \cap {"ran", "gave_up", "abandoned"} # {},
         faults' = 0 => /\ r.durable = process[w].durable /\ r.stopping = process[w].stopping
                        /\ r.stage # "down",
         (/\ faults' = 0 /\ On(w) \in Investigations
          /\ "hidden" \notin endings'[On(w)] /\ table[On(w)].status \in Terminal
          /\ process[w].stage \in {"checking", "acking"})
           => r.stage \in {"checking", "acking"} \/ r.on = Nobody
  PROVE  IInv'
<1>1. /\ TypeOK /\ \A i \in Investigations : RowEnded(i) /\ VerdictKept(i)
      /\ Undisturbed /\ MemoryEnded(w) /\ MemoryRuns(w) /\ AckedEnded(w) /\ Placed(w)
  BY DEF IInv
<1>2. /\ process'[w] = r /\ process' \in [Workers -> Processes]
      /\ \A v \in Workers \ {w} : process'[v] = process[v]
  BY <1>1, SteppedProcess
<1>3. faults \in Nat /\ faults' \in Nat /\ faults' >= faults
  BY <1>1, Types, Config DEF Steps
<1>4. /\ memory \in [Workers -> Seq(Records)]
      /\ \A v \in Workers : Len(memory[v]) <= Capacity
      /\ Len(<<>>) = 0 /\ DOMAIN <<>> = {}
  BY <1>1, Types
<1>5. /\ context' \in [Investigations -> BOOLEAN] /\ table' \in [Investigations -> Rows]
      /\ memory' \in [Workers -> Seq(Records)] /\ \A v \in Workers : Len(memory'[v]) <= Capacity
  <2>1. context' \in [Investigations -> BOOLEAN] /\ table' \in [Investigations -> Rows]
    BY <1>1, Types
  <2>2. CASE memory' = memory
    BY <1>4, <2>1, <2>2
  <2>3. CASE memory' = [memory EXCEPT ![w] = <<>>]
    <3>1. <<>> \in Seq(Records) /\ Capacity \in Nat
      BY Config
    <3>2. \A v \in Workers : memory'[v] = IF v = w THEN <<>> ELSE memory[v]
      BY <1>4, <2>3
    <3> QED
      BY <1>4, <2>1, <2>3, <3>1, <3>2
  <2> QED
    BY <2>2, <2>3
<1>6. MemoryEnded(w)' /\ MemoryRuns(w)'
  <2>1. CASE memory' = [memory EXCEPT ![w] = <<>>]
    <3>1. DOMAIN memory'[w] = {}
      BY <1>4, <2>1
    <3> QED
      BY <3>1 DEF MemoryEnded, MemoryRuns
  <2>2. CASE /\ memory' = memory
             /\ process[w].stage \in RunStages => r.stage \in RunStages /\ r.on = On(w)
    <3>1. ASSUME NEW k \in DOMAIN memory[w], memory[w][k].status \in Terminal
          PROVE  endings'[memory[w][k].id] \cap {"ran", "gave_up", "abandoned"} # {}
      <4>1. memory[w][k] \in Records
        BY <1>4
      <4>2. memory[w][k].id \in Investigations
        BY <4>1 DEF Records
      <4> QED
        BY <1>1, <3>1, <4>2 DEF MemoryEnded, Ended, EndingsGrow
    <3>2. MemoryEnded(w)'
      BY <2>2, <3>1 DEF MemoryEnded, Ended
    <3>3. MemoryRuns(w)'
      BY <1>1, <1>2, <2>2 DEF MemoryRuns, On
    <3> QED
      BY <3>2, <3>3
  <2> QED
    BY <2>1, <2>2
<1>7. Placed(w)' /\ WithinAttempts(w)' /\ AckedEnded(w)'
  BY <1>2 DEF Placed, WithinAttempts, AckedEnded, Ended, At, On, Busy, Stages, Started, RunStages
<1>8. \A i \in Investigations : RowEnded(i)'
  <2> SUFFICES ASSUME NEW i \in Investigations PROVE RowEnded(i)'
    OBVIOUS
  <2>1. RowEnded(i) /\ endings[i] \subseteq endings'[i] /\ AckedEnded(w)
    BY <1>1 DEF EndingsGrow
  <2> QED
    BY <2>1 DEF RowEnded, Ended, AckedEnded
<1>9. \A i \in Investigations : i = On(w) => VerdictKept(i)'
  <2> SUFFICES ASSUME NEW i \in Investigations, i = On(w),
                      faults' = 0, "hidden" \notin endings'[i], paid'[i] # 0
               PROVE  /\ paid'[i] = 1 /\ table'[i].status \in Terminal
                      /\ \A v \in Crew(i)' : process'[v].stage \in {"checking", "acking"}
    BY DEF VerdictKept
  <2>1. /\ faults = 0 /\ "hidden" \notin endings[i] /\ VerdictKept(i) /\ w \in Crew(i)
        /\ paid[i] # 0
    BY <1>1, <1>3 DEF EndingsGrow, Crew
  <2>2. /\ paid[i] = 1 /\ table[i].status \in Terminal
        /\ \A v \in Crew(i) : process[v].stage \in {"checking", "acking"}
    BY <2>1 DEF VerdictKept
  <2>3. r.stage \in {"checking", "acking"} \/ r.on = Nobody
    BY <2>1, <2>2
  <2>4. ASSUME NEW v \in Crew(i)' PROVE process'[v].stage \in {"checking", "acking"}
    <3>1. v \in Workers /\ process'[v].on = i
      BY DEF Crew, On
    <3> QED
      BY <1>2, <2>2, <2>3, <3>1, Config DEF Crew, On
  <2> QED
    BY <2>2, <2>4
<1>10. Undisturbed'
  <2>1. ASSUME faults' = 0, NEW v \in Workers
        PROVE  process'[v].durable /\ ~process'[v].stopping /\ process'[v].stage # "down"
    <3>1. faults = 0 /\ process[v].durable /\ ~process[v].stopping /\ process[v].stage # "down"
      BY <1>1, <1>3, <2>1 DEF Undisturbed, At
    <3> QED
      BY <1>2, <2>1, <3>1
  <2> QED
    BY <2>1 DEF Undisturbed, At
<1> QED
  BY <1>5, <1>6, <1>7, <1>8, <1>9, <1>10, StepIInv

\* A process with another stage; at its next turn; told to stop.
Staged(p, a) == [p EXCEPT !.stage = a]
NextTurn(p)  == [p EXCEPT !.stage = "thinking", !.turn = @ + 1]
Stopped(p)   == [p EXCEPT !.stopping = TRUE]

\* Each keeps everything else.
LEMMA ProcessMoved ==
  ASSUME NEW p \in Processes
  PROVE  /\ \A a \in Stages :
              /\ Staged(p, a) \in Processes /\ Staged(p, a).stage = a /\ Staged(p, a).on = p.on
              /\ Staged(p, a).attempt = p.attempt
              /\ Staged(p, a).durable = p.durable /\ Staged(p, a).stopping = p.stopping
         /\ /\ p.turn < MaxIterations => NextTurn(p) \in Processes
            /\ NextTurn(p).stage = "thinking" /\ NextTurn(p).on = p.on
            /\ NextTurn(p).attempt = p.attempt
            /\ NextTurn(p).durable = p.durable /\ NextTurn(p).stopping = p.stopping
         /\ /\ Stopped(p) \in Processes /\ Stopped(p).stage = p.stage /\ Stopped(p).on = p.on
            /\ Stopped(p).attempt = p.attempt
<1>1. \A a \in Stages :
              /\ Staged(p, a) \in Processes /\ Staged(p, a).stage = a /\ Staged(p, a).on = p.on
              /\ Staged(p, a).attempt = p.attempt
              /\ Staged(p, a).durable = p.durable /\ Staged(p, a).stopping = p.stopping
  BY DEF Processes, Staged
<1>2. p.turn < MaxIterations => NextTurn(p) \in Processes
  <2>1. p.turn \in 0..MaxIterations /\ "thinking" \in Stages
    BY DEF Processes, Stages, RunStages
  <2>2. ASSUME NEW c \in 0..MaxIterations
        PROVE  [p EXCEPT !.stage = "thinking", !.turn = c] \in Processes
    BY <2>1 DEF Processes
  <2>3. p.turn < MaxIterations => p.turn + 1 \in 0..MaxIterations
    BY <2>1, Config
  <2>4. NextTurn(p) = [p EXCEPT !.stage = "thinking", !.turn = p.turn + 1]
    BY DEF NextTurn
  <2> QED
    BY <2>2, <2>3, <2>4
<1>3. /\ NextTurn(p).stage = "thinking" /\ NextTurn(p).on = p.on
      /\ NextTurn(p).attempt = p.attempt
      /\ NextTurn(p).durable = p.durable /\ NextTurn(p).stopping = p.stopping
  BY DEF Processes, NextTurn
<1>4. /\ Stopped(p) \in Processes /\ Stopped(p).stage = p.stage /\ Stopped(p).on = p.on
      /\ Stopped(p).attempt = p.attempt
  BY DEF Processes, Stopped
<1> QED
  BY <1>1, <1>2, <1>3, <1>4

\* A turn of a run that goes on.
LEMMA TurnIInv ==
  ASSUME IInv, NEW w \in Workers, NEW r \in Processes, process[w].stage \in RunStages,
         process' = [process EXCEPT ![w] = r],
         r.stage \in RunStages, r.on = On(w), r.attempt = process[w].attempt,
         r.durable = process[w].durable, r.stopping = process[w].stopping,
         UNCHANGED <<message, context, memory, table, paid, endings, faults>>
  PROVE  IInv'
<1>1. /\ TypeOK /\ process[w].stage \in Busy /\ process[w].stage \in Started
      /\ r.stage \in Busy /\ process[w].stage \notin {"checking", "acking", "down"}
      /\ r.stage # "acking" /\ r.stage # "down"
  BY DEF IInv, Busy, Stages, Started, RunStages
<1>2. On(w) \in Investigations /\ process[w].attempt < MaxAttempts
  BY <1>1, InHand
<1>3. Steps(w, r) /\ EndingsGrow
  BY <1>1, Types, Config DEF Steps, EndingsGrow
<1>4. Pays(w, r)
  BY <1>1, Types DEF Pays
<1>5. /\ memory' = memory /\ UNCHANGED <<context, table, paid>>
      /\ \A i \in Investigations : message'[i].state = "gone" => message[i].state = "gone"
  OBVIOUS
<1> QED
  BY <1>1, <1>2, <1>3, <1>4, <1>5, MoveIInv

\* Run: asking for tools, and making the calls.
LEMMA RunIInv ==
  ASSUME IInv, NEW w \in Workers, Run(w)
  PROVE  IInv'
<1>1. ASSUME process[w].stage \in RunStages
      PROVE  process[w] \in Processes /\ process[w].stage \in Busy
             /\ process[w].turn \in 0..MaxIterations
  BY <1>1, InHand DEF Busy, Stages, RunStages
<1>2. CASE AskForTools(w)
  <2>1. process[w].stage \in RunStages /\ "calling" \in Stages /\ "calling" \in RunStages
    BY <1>2 DEF AskForTools, At, RunStages, Stages
  <2>2. process' = [process EXCEPT ![w] = Staged(process[w], "calling")]
    BY <1>2 DEF AskForTools, Move, Staged
  <2>3. UNCHANGED <<message, context, memory, table, paid, endings, faults>>
    BY <1>2 DEF AskForTools
  <2>4. LET r == Staged(process[w], "calling")
        IN /\ r \in Processes /\ r.stage = "calling" /\ r.on = On(w)
           /\ r.attempt = process[w].attempt
           /\ r.durable = process[w].durable /\ r.stopping = process[w].stopping
    BY <1>1, <2>1, ProcessMoved DEF On
  <2> QED
    BY <2>1, <2>2, <2>3, <2>4, TurnIInv
<1>3. CASE execute(w)
  <2>1. process[w].stage \in RunStages /\ "thinking" \in RunStages
    BY <1>3 DEF execute, At, RunStages
  <2>2. CASE process[w].turn < MaxIterations
    <3>1. process' = [process EXCEPT ![w] = NextTurn(process[w])]
      BY <1>3, <2>2 DEF execute, Move, NextTurn
    <3>2. UNCHANGED <<message, context, memory, table, paid, endings, faults>>
      BY <1>3, <2>2 DEF execute
    <3>3. PICK r : r = NextTurn(process[w])
      OBVIOUS
    <3>4. /\ r \in Processes /\ r.stage = "thinking" /\ r.on = On(w)
          /\ r.attempt = process[w].attempt
          /\ r.durable = process[w].durable /\ r.stopping = process[w].stopping
      BY <1>1, <2>1, <2>2, <3>3, ProcessMoved DEF On
    <3>5. process' = [process EXCEPT ![w] = r] /\ r.stage \in RunStages
      BY <2>1, <3>1, <3>3, <3>4
    <3> QED
      BY <2>1, <3>2, <3>4, <3>5, TurnIInv
  <2>3. CASE ~(process[w].turn < MaxIterations)
    BY <1>3, <2>1, <2>3, FinishIInv DEF execute, Terminal
  <2> QED
    BY <2>2, <2>3
<1> QED
  BY <1>2, <1>3, EndOfRunIInv DEF Run

-----------------------------------------------------------------------------
(* Check.                                                                  *)

\* What a process takes for answered was ended: a record of its own that says
\* running would be of a run it is in.
LEMMA SeenIsEnded ==
  ASSUME IInv, NEW w \in Workers, At(w, "checking"), NEW loaded \in BOOLEAN,
         Seen(w, On(w), loaded)
  PROVE  Ended(On(w))
<1>1. /\ TypeOK /\ MemoryEnded(w) /\ MemoryRuns(w) /\ process[w].stage = "checking"
      /\ process[w].stage \in Busy
  BY DEF IInv, At, Busy, Stages
<1>2. On(w) \in Investigations
  BY <1>1, InHand
<1>3. RowEnded(On(w)) /\ memory[w] \in Seq(Records) /\ table[On(w)] \in Rows
  BY <1>1, <1>2, Types DEF IInv
<1>4. CASE Held(w, On(w)) # {}
  <2> DEFINE k == CHOOSE m \in Held(w, On(w)) : TRUE
  <2>1. k \in DOMAIN memory[w] /\ memory[w][k].id = On(w)
    BY <1>4 DEF Held
  <2>2. Known(w, On(w), loaded).status = memory[w][k].status
    BY <1>4 DEF Known
  <2> HIDE DEF k
  <2>3. memory[w][k] \in Records
    BY <1>3, <2>1
  <2>4. memory[w][k].status \in Statuses \ {"retrying"}
    BY <2>2, <2>3 DEF Seen, Records
  <2>5. memory[w][k].status # "running"
    BY <1>1, <2>1 DEF MemoryRuns, RunStages
  <2>6. memory[w][k].status \in Terminal
    BY <2>4, <2>5 DEF Statuses
  <2> QED
    BY <1>1, <2>1, <2>6 DEF MemoryEnded
<1>5. CASE Held(w, On(w)) = {}
  <2>1. Known(w, On(w), loaded) = [status |-> Load(On(w), loaded), live |-> FALSE]
    BY <1>5 DEF Known
  <2>2. Load(On(w), loaded) \notin {"none", "retrying", "running"}
    BY <2>1 DEF Seen
  <2>3. Load(On(w), loaded) = table[On(w)].status
    BY <2>2 DEF Load
  <2>4. table[On(w)].status \in Statuses \cup {"none"}
    BY <1>3 DEF Rows
  <2>5. table[On(w)].status \in Terminal
    BY <2>2, <2>3, <2>4 DEF Statuses
  <2> QED
    BY <1>3, <2>5 DEF RowEnded
<1> QED
  BY <1>4, <1>5

\* A verdict on record that the process does not take for one, although it
\* could read it, is hidden by a retry that it remembers.
LEMMA UnseenIsHidden ==
  ASSUME IInv, NEW w \in Workers, At(w, "checking"), ~Seen(w, On(w), TRUE),
         table[On(w)].status \in Terminal
  PROVE  HiddenVerdict(w, On(w))
<1>1. /\ TypeOK /\ MemoryRuns(w) /\ process[w].stage = "checking"
  BY DEF IInv, At
<1>2. memory[w] \in Seq(Records)
  BY <1>1, Types
<1>3. CASE Held(w, On(w)) # {}
  <2> DEFINE k == CHOOSE m \in Held(w, On(w)) : TRUE
  <2>1. k \in DOMAIN memory[w] /\ memory[w][k].id = On(w)
    BY <1>3 DEF Held
  <2>2. /\ Known(w, On(w), TRUE).status = memory[w][k].status
        /\ Known(w, On(w), TRUE).live
    BY <1>3 DEF Known
  <2> HIDE DEF k
  <2>3. memory[w][k] \in Records
    BY <1>2, <2>1
  <2>4. memory[w][k].status \in Statuses
    BY <2>3 DEF Records
  <2>5. memory[w][k].status = "retrying"
    BY <2>2, <2>4 DEF Seen, Statuses, Terminal
  <2> QED
    BY <2>2, <2>5 DEF HiddenVerdict
<1>4. CASE Held(w, On(w)) = {}
  <2>1. Known(w, On(w), TRUE).status = table[On(w)].status
    BY <1>4 DEF Known, Load
  <2>2. Known(w, On(w), TRUE).status \in {"done", "failed"}
    BY <2>1 DEF Terminal
  <2>3. Seen(w, On(w), TRUE)
    BY <2>2 DEF Seen
  <2> QED
    BY <2>3
<1> QED
  BY <1>3, <1>4

\* Check: acknowledge what was seen, give up what was delivered too often,
\* resolve the rest.
LEMMA CheckIInv ==
  ASSUME IInv, NEW w \in Workers, Check(w)
  PROVE  IInv'
<1>1. /\ TypeOK /\ At(w, "checking") /\ process[w].stage = "checking"
      /\ process[w].stage \in Busy /\ process[w].stage \notin RunStages
      /\ {"acking", "resolving"} \subseteq Stages \cap Busy
  BY DEF IInv, Check, At, Busy, Stages, RunStages
<1>2. /\ process[w] \in Processes /\ On(w) \in Investigations
      /\ process[w].attempt \in 0..MaxAttempts
  BY <1>1, InHand
<1>3. UNCHANGED <<message, context, paid>>
  BY DEF Check
<1>4. PICK loaded \in BOOLEAN :
        LET blind == process[w].durable /\ ~loaded /\ Held(w, On(w)) = {}
        IN /\ loaded \/ blind \/ ~process[w].durable
           /\ \/ /\ Seen(w, On(w), loaded)
                 /\ Move(w, [process[w] EXCEPT !.stage = "acking"])
                 /\ UNCHANGED <<memory, table, faults, endings>>
              \/ /\ Exhausted(w) /\ Fail(w, IF blind THEN 1 ELSE 0)
                 /\ Move(w, [process[w] EXCEPT !.stage = "acking"])
                 /\ endings' = [endings EXCEPT ![On(w)] = @ \cup {"gave_up"}]
              \/ /\ ~Seen(w, On(w), loaded) /\ ~Exhausted(w)
                 /\ Move(w, [process[w] EXCEPT !.stage = "resolving"])
                 /\ endings' = IF HiddenVerdict(w, On(w))
                               THEN [endings EXCEPT ![On(w)] = @ \cup {"hidden"}] ELSE endings
                 /\ IF blind THEN Fault(1) ELSE UNCHANGED faults
                 /\ UNCHANGED <<memory, table>>
  BY DEF Check
<1>5. CASE /\ Seen(w, On(w), loaded)
           /\ Move(w, [process[w] EXCEPT !.stage = "acking"])
           /\ UNCHANGED <<memory, table, faults, endings>>
  <2> DEFINE r == Staged(process[w], "acking")
  <2>1. /\ r \in Processes /\ r.stage = "acking" /\ r.on = On(w)
        /\ r.durable = process[w].durable /\ r.stopping = process[w].stopping
    BY <1>1, <1>2, ProcessMoved DEF On
  <2>2. process' = [process EXCEPT ![w] = r]
    BY <1>5 DEF Move, Staged
  <2> HIDE DEF r
  <2>3. Steps(w, r) /\ EndingsGrow
    BY <1>1, <1>3, <1>5, <2>1, <2>2, Types, Config DEF Steps, EndingsGrow
  <2>4. Pays(w, r)
    BY <1>1, <1>3, <2>1, Types DEF Pays, Started, RunStages
  <2>5. endings'[On(w)] \cap {"ran", "gave_up", "abandoned"} # {}
    BY <1>1, <1>5, SeenIsEnded DEF Ended
  <2>6. memory' = memory /\ UNCHANGED <<context, table, paid>> /\ message' = message
    BY <1>3, <1>5
  <2>7. r.stage \in Busy /\ r.stage \notin Started /\ r.stage # "down"
    BY <1>1, <2>1 DEF Started, RunStages
  <2> QED
    BY <1>1, <1>2, <2>1, <2>3, <2>4, <2>5, <2>6, <2>7, MoveIInv
<1>6. CASE /\ Exhausted(w) /\ (Fail(w, 0) \/ Fail(w, 1))
           /\ Move(w, [process[w] EXCEPT !.stage = "acking"])
           /\ endings' = [endings EXCEPT ![On(w)] = @ \cup {"gave_up"}]
  <2> DEFINE r == Staged(process[w], "acking")
  <2>1. /\ r \in Processes /\ r.stage = "acking" /\ r.on = On(w)
        /\ r.durable = process[w].durable /\ r.stopping = process[w].stopping
    BY <1>1, <1>2, ProcessMoved DEF On
  <2>2. process' = [process EXCEPT ![w] = r]
    BY <1>6 DEF Move, Staged
  <2> HIDE DEF r
  <2>3. "failed" \in Statuses /\ "failed" \in Terminal
    BY DEF Statuses, Terminal
  <2>4. Recorded(w, On(w), "failed")
    BY <1>1, <1>2, <1>6, <2>3, PutRecords DEF Fail, Put
  <2>5. EndingsGrow /\ endings'[On(w)] \cap {"ran", "gave_up", "abandoned"} # {}
    BY <1>1, <1>2, <1>6, Types DEF EndingsGrow
  <2>6. Steps(w, r)
    BY <1>1, <1>3, <2>1, <2>2, <2>4, Types DEF Steps, Recorded
  <2>7. Pays(w, r)
    BY <1>1, <1>3, <2>1, Types DEF Pays, Started, RunStages
  <2> QED
    BY <1>1, <1>2, <1>3, <2>1, <2>3, <2>4, <2>5, <2>6, <2>7, RecordIInv
       DEF Started, RunStages
<1>7. CASE /\ ~Seen(w, On(w), loaded) /\ ~Exhausted(w)
           /\ Move(w, [process[w] EXCEPT !.stage = "resolving"])
           /\ endings' = IF HiddenVerdict(w, On(w))
                         THEN [endings EXCEPT ![On(w)] = @ \cup {"hidden"}] ELSE endings
           /\ IF process[w].durable /\ ~loaded /\ Held(w, On(w)) = {}
              THEN Fault(1) ELSE UNCHANGED faults
           /\ UNCHANGED <<memory, table>>
  <2> DEFINE r == Staged(process[w], "resolving")
  <2>1. /\ r \in Processes /\ r.stage = "resolving" /\ r.on = On(w)
        /\ r.attempt = process[w].attempt
        /\ r.durable = process[w].durable /\ r.stopping = process[w].stopping
    BY <1>1, <1>2, ProcessMoved DEF On
  <2>2. process' = [process EXCEPT ![w] = r]
    BY <1>7 DEF Move, Staged
  <2> HIDE DEF r
  <2>3. EndingsGrow
    BY <1>1, <1>2, <1>7, Types DEF EndingsGrow
  <2>4. /\ faults \in 0..MaxFaults /\ faults' \in 0..MaxFaults /\ faults' >= faults
        /\ (faults' = 0) => ~(process[w].durable /\ ~loaded /\ Held(w, On(w)) = {})
    <3>1. faults \in Nat /\ faults <= MaxFaults /\ MaxFaults \in Nat
      BY <1>1, Types, Config
    <3> QED
      BY <1>7, <3>1 DEF Fault
  <2>5. Steps(w, r)
    <3>1. message \in [Investigations -> Messages] /\ message' = message /\ paid' = paid
      BY <1>1, <1>3, Types
    <3>2. faults' \in 0..MaxFaults /\ faults' >= faults
      BY <2>4
    <3>3. memory' = memory
      BY <1>7
    <3> QED
      BY <2>1, <2>2, <3>1, <3>2, <3>3 DEF Steps
  <2>6. Pays(w, r)
    BY <1>1, <1>3, <2>1, Types DEF Pays
  <2>7. r.attempt < MaxAttempts
    BY <1>2, <1>7, <2>1, Config DEF Exhausted
  <2>8. ASSUME faults' = 0, "hidden" \notin endings'[On(w)], table[On(w)].status \in Terminal
        PROVE  FALSE
    <3>1. faults = 0
      BY <2>4, <2>8, Config
    <3>2. process[w].durable
      BY <3>1 DEF IInv, Undisturbed
    <3>3. loaded
      BY <1>4, <2>4, <2>8, <3>2
    <3>4. HiddenVerdict(w, On(w))
      BY <1>1, <1>7, <2>8, <3>3, UnseenIsHidden
    <3> QED
      BY <1>1, <1>2, <1>7, <2>8, <3>4, Types
  <2>9. memory' = memory /\ UNCHANGED <<context, table, paid>> /\ message' = message
    BY <1>3, <1>7
  <2>10. r.stage \in Busy /\ r.stage # "acking" /\ r.stage # "down"
    BY <1>1, <2>1
  <2> QED
    BY <1>1, <1>2, <2>1, <2>3, <2>5, <2>6, <2>7, <2>8, <2>9, <2>10, MoveIInv
<1> QED
  BY <1>4, <1>5, <1>6, <1>7

-----------------------------------------------------------------------------
(* Acknowledging, stopping, dying and booting.                             *)

\* Ack: the message leaves the queue, or stays on it and may be had again.
LEMMA AckIInv ==
  ASSUME IInv, NEW w \in Workers, Ack(w)
  PROVE  IInv'
<1> DEFINE r == Flagged(Fresh, process[w].durable, process[w].stopping)
<1>1. /\ TypeOK /\ process[w].stage = "acking" /\ process[w].stage \in Busy
      /\ process[w].stage \notin RunStages
  BY DEF IInv, Ack, At, Busy, Stages, RunStages
<1>2. On(w) \in Investigations /\ process[w].durable \in BOOLEAN /\ process[w].stopping \in BOOLEAN
  BY <1>1, InHand
<1>3. /\ r \in Processes /\ r.stage = "idle" /\ r.on = Nobody
      /\ r.durable = process[w].durable /\ r.stopping = process[w].stopping
  BY <1>2, FreshProcess, ProcessFlags
<1>4. process' = [process EXCEPT ![w] = r]
  BY DEF Ack, Free, Move, Flagged
<1> HIDE DEF r
<1>5. UNCHANGED <<context, memory, table, paid, endings>>
  BY DEF Ack
<1>6. message \in [Investigations -> Messages] /\ faults \in 0..MaxFaults
  BY <1>1, Types
<1>7. /\ message' \in [Investigations -> Messages]
      /\ \A i \in Investigations : message'[i].deliveries = message[i].deliveries
      /\ \A i \in Investigations \ {On(w)} : message'[i] = message[i]
      /\ faults' \in 0..MaxFaults /\ faults' >= faults
  <2>1. CASE Delete(On(w)) /\ UNCHANGED faults
    <3>1. ASSUME NEW m \in Messages
          PROVE  LET gone == [m EXCEPT !.state = IF m.state = "queued" THEN "gone" ELSE m.state]
                 IN gone \in Messages /\ gone.deliveries = m.deliveries
      BY DEF Messages
    <3>2. message' = [message EXCEPT ![On(w)] =
            [message[On(w)] EXCEPT !.state = IF message[On(w)].state = "queued" THEN "gone"
                                             ELSE message[On(w)].state]]
      BY <2>1 DEF Delete
    <3>3. message[On(w)] \in Messages
      BY <1>2, <1>6
    <3> QED
      BY <1>2, <1>6, <2>1, <3>1, <3>2, <3>3, Config
  <2>2. CASE UNCHANGED message /\ (UNCHANGED faults \/ Fault(1))
    BY <1>6, <2>2, Config DEF Fault
  <2> QED
    BY <2>1, <2>2 DEF Ack
<1>8. Steps(w, r)
  BY <1>2, <1>3, <1>4, <1>5, <1>7, Config DEF Steps
<1>9. EndingsGrow
  BY <1>1, <1>5, Types DEF EndingsGrow
<1>10. Pays(w, r)
  BY <1>1, <1>3, <1>5, Types DEF Pays, Started, RunStages
<1>11. r.stage \notin Busy /\ r.stage \notin Started /\ r.stage # "acking" /\ r.stage # "down"
  BY <1>3 DEF Busy, Started, RunStages
<1>12. \A i \in Investigations : message'[i].state = "gone" =>
         message[i].state = "gone" \/ (i = On(w) /\ At(w, "acking"))
  BY <1>1, <1>7 DEF At
<1>13. memory' = memory /\ UNCHANGED <<context, table, paid>>
  BY <1>5
<1> QED
  BY <1>1, <1>3, <1>8, <1>9, <1>10, <1>11, <1>12, <1>13, MoveIInv

\* A process that goes down leaves what it had in hand, and forgets.
LEMMA GoDownIInv ==
  ASSUME IInv, NEW w \in Workers, Move(w, Down), memory' = [memory EXCEPT ![w] = <<>>],
         UNCHANGED <<message, context, table, paid, endings>>,
         faults' \in 0..MaxFaults, faults' > faults \/ (faults' = faults /\ process[w].stopping)
  PROVE  IInv'
<1>1. TypeOK /\ Undisturbed
  BY DEF IInv
<1>2. Down \in Processes /\ Down.stage = "down" /\ Down.on = Nobody
  BY FreshProcess DEF Down, Processes, Stages
<1>3. process' = [process EXCEPT ![w] = Down]
  BY DEF Move
<1>4. faults \in Nat /\ faults' \in Nat /\ faults' >= faults /\ faults' # 0
  BY <1>1, Types, Config DEF Undisturbed
<1> HIDE DEF Down
<1>5. Steps(w, Down) /\ EndingsGrow
  BY <1>1, <1>2, <1>3, <1>4, Types DEF Steps, EndingsGrow
<1>6. Pays(w, Down)
  BY <1>1, <1>2, Types DEF Pays, Started, RunStages
<1>7. Down.stage \notin Busy /\ Down.stage \notin Started /\ Down.stage # "acking"
  BY <1>2 DEF Busy, Started, RunStages
<1>8. /\ UNCHANGED <<context, table, paid>>
      /\ \A i \in Investigations : message'[i].state = "gone" => message[i].state = "gone"
  OBVIOUS
<1> QED
  BY <1>2, <1>4, <1>5, <1>6, <1>7, <1>8, MoveIInv

\* Stop, Exit and Crash.
LEMMA EndOfProcessIInv ==
  ASSUME IInv, NEW w \in Workers, Stop(w) \/ Exit(w) \/ Crash(w)
  PROVE  IInv'
<1>1. TypeOK /\ Placed(w) /\ WithinAttempts(w) /\ AckedEnded(w)
  BY DEF IInv
<1>2. faults \in Nat /\ faults <= MaxFaults /\ MaxFaults \in Nat
  BY <1>1, Types, Config
<1>3. CASE Exit(w)
  <2>1. faults' \in 0..MaxFaults /\ faults' = faults
    BY <1>2, <1>3 DEF Exit
  <2> QED
    BY <1>3, <2>1, GoDownIInv DEF Exit
<1>4. CASE Crash(w)
  <2>1. faults' \in 0..MaxFaults /\ faults' > faults
    BY <1>2, <1>4 DEF Crash, Fault
  <2> QED
    BY <1>4, <2>1, GoDownIInv DEF Crash
<1>5. CASE Stop(w)
  <2> DEFINE r == Stopped(process[w])
  <2>1. process[w] \in Processes
    BY <1>1, Types
  <2>2. /\ r \in Processes /\ r.stage = process[w].stage /\ r.on = On(w)
        /\ r.attempt = process[w].attempt
    BY <2>1, ProcessMoved DEF On
  <2>3. process' = [process EXCEPT ![w] = r] /\ process[w].stage # "down"
    BY <1>5 DEF Stop, Move, Stopped, At
  <2> HIDE DEF r
  <2>4. faults' \in 0..MaxFaults /\ faults' >= faults /\ faults' # 0
    BY <1>2, <1>5 DEF Stop, Fault
  <2>5. UNCHANGED <<message, context, memory, table, paid, endings>>
    BY <1>5 DEF Stop
  <2>6. Steps(w, r) /\ EndingsGrow
    BY <1>1, <2>2, <2>3, <2>4, <2>5, Types DEF Steps, EndingsGrow
  <2>7. Pays(w, r)
    BY <1>1, <2>2, <2>5, Types DEF Pays
  <2>8. r.stage = "acking" => endings'[On(w)] \cap {"ran", "gave_up", "abandoned"} # {}
    BY <1>1, <2>2, <2>5 DEF AckedEnded, Ended, At
  <2>9. /\ r.stage \in Busy => r.on = On(w) /\ On(w) \in Investigations
        /\ r.stage \notin Busy => r.on = Nobody
        /\ r.stage \in Started => r.attempt < MaxAttempts
    BY <1>1, <2>2 DEF Placed, WithinAttempts
  <2>10. /\ memory' = memory /\ UNCHANGED <<context, table, paid>>
         /\ \A i \in Investigations : message'[i].state = "gone" => message[i].state = "gone"
    BY <2>5
  <2> QED
    BY <2>2, <2>4, <2>6, <2>7, <2>8, <2>9, <2>10, MoveIInv
<1> QED
  BY <1>3, <1>4, <1>5

\* A process booted with a journal or without.
WithJournal(d) == [Fresh EXCEPT !.durable = d]

\* Boot: what was running for too long is failed, and so ended; nothing else
\* changes for what was on record.
LEMMA BootIInv ==
  ASSUME IInv, NEW w \in Workers, Boot(w)
  PROVE  IInv'
<1>1. /\ TypeOK /\ Placed(w) /\ MemoryEnded(w) /\ MemoryRuns(w) /\ Undisturbed
      /\ \A i \in Investigations : RowEnded(i)
  BY DEF IInv
<1>2. /\ process[w].stage = "down" /\ On(w) = Nobody /\ On(w) \notin Investigations
      /\ process[w].stage \notin RunStages
  BY <1>1, Config DEF Boot, At, Placed, Busy, RunStages
<1>3. faults \in Nat /\ faults <= MaxFaults /\ MaxFaults \in Nat /\ faults # 0
  BY <1>1, <1>2, Types, Config DEF Undisturbed, At
<1>4. UNCHANGED <<message, context, memory, paid>>
  BY DEF Boot
<1>5. PICK r \in Processes : /\ process' = [process EXCEPT ![w] = r]
                             /\ r.stage = "idle" /\ r.on = Nobody
                             /\ faults' = faults \/ Fault(1)
  <2>1. CASE Move(w, Fresh) /\ UNCHANGED faults
    BY <2>1, FreshProcess DEF Move
  <2>2. ASSUME NEW d \in BOOLEAN, Move(w, WithJournal(d)), Fault(1)
        PROVE  \E r \in Processes : /\ process' = [process EXCEPT ![w] = r]
                                    /\ r.stage = "idle" /\ r.on = Nobody
                                    /\ faults' = faults \/ Fault(1)
    <3>1. ASSUME NEW p \in Processes
          PROVE  LET q == [p EXCEPT !.durable = d]
                 IN q \in Processes /\ q.stage = p.stage /\ q.on = p.on
      BY DEF Processes
    <3>2. /\ WithJournal(d) \in Processes /\ WithJournal(d).stage = "idle"
          /\ WithJournal(d).on = Nobody
      BY <3>1, FreshProcess DEF WithJournal
    <3> QED
      BY <2>2, <3>2 DEF Move
  <2> QED
    BY <2>1, <2>2 DEF Boot, WithJournal
<1>6. faults' \in 0..MaxFaults /\ faults' >= faults /\ faults' # 0
  BY <1>3, <1>5 DEF Fault
<1>7. /\ table' \in [Investigations -> Rows] /\ EndingsGrow
      /\ \A i \in Investigations :
           \/ table'[i] = table[i]
           \/ /\ table[i].status = "running" /\ table'[i].status = "failed"
              /\ "abandoned" \in endings'[i]
  <2>1. /\ table \in [Investigations -> Rows]
        /\ endings \in [Investigations -> SUBSET {"ran", "gave_up", "abandoned", "hidden"}]
    BY <1>1, Types
  <2>2. CASE UNCHANGED <<table, endings>>
    BY <2>1, <2>2 DEF EndingsGrow
  <2>3. CASE /\ table' = [i \in Investigations |->
                    IF i \in Abandoned THEN [status |-> "failed", left |-> 0] ELSE table[i]]
             /\ endings' = [i \in Investigations |->
                    IF i \in Abandoned THEN endings[i] \cup {"abandoned"} ELSE endings[i]]
    <3>1. [status |-> "failed", left |-> 0] \in Rows
      BY Config DEF Rows, Statuses, Terminal
    <3>2. table' \in [Investigations -> Rows]
      BY <2>1, <2>3, <3>1
    <3>3. EndingsGrow
      BY <2>1, <2>3 DEF EndingsGrow
    <3>4. \A i \in Abandoned : table[i].status = "running"
      BY DEF Abandoned
    <3> QED
      BY <2>3, <3>2, <3>3, <3>4
  <2> QED
    BY <2>2, <2>3 DEF Boot
<1>8. Steps(w, r)
  BY <1>1, <1>2, <1>4, <1>5, <1>6, Types DEF Steps
<1>9. Pays(w, r)
  BY <1>1, <1>4, <1>5, Types DEF Pays, Started, RunStages
<1>10. process'[w] = r /\ \A v \in Workers \ {w} : process'[v] = process[v]
  BY <1>1, <1>8, SteppedProcess
<1>11. Placed(w)' /\ WithinAttempts(w)' /\ AckedEnded(w)'
  BY <1>5, <1>10 DEF Placed, WithinAttempts, AckedEnded, At, On, Busy, Started, RunStages
<1>12. MemoryEnded(w)' /\ MemoryRuns(w)'
  <2>1. memory[w] \in Seq(Records)
    BY <1>1, Types
  <2>2. ASSUME NEW k \in DOMAIN memory[w], memory[w][k].status \in Terminal
        PROVE  endings'[memory[w][k].id] \cap {"ran", "gave_up", "abandoned"} # {}
    <3>1. memory[w][k] \in Records
      BY <2>1
    <3>2. memory[w][k].id \in Investigations
      BY <3>1 DEF Records
    <3> QED
      BY <1>1, <1>7, <2>2, <3>2 DEF MemoryEnded, Ended, EndingsGrow
  <2>3. MemoryEnded(w)'
    BY <1>4, <2>2 DEF MemoryEnded, Ended
  <2>4. MemoryRuns(w)'
    BY <1>1, <1>2, <1>4 DEF MemoryRuns
  <2> QED
    BY <2>3, <2>4
<1>13. \A i \in Investigations : RowEnded(i)'
  <2> SUFFICES ASSUME NEW i \in Investigations PROVE RowEnded(i)'
    OBVIOUS
  <2>1. RowEnded(i) /\ endings[i] \subseteq endings'[i] /\ message' = message
    BY <1>1, <1>4, <1>7 DEF EndingsGrow
  <2> QED
    BY <1>7, <2>1 DEF RowEnded, Ended
<1>14. Undisturbed'
  BY <1>6 DEF Undisturbed
<1>15. \A i \in Investigations \ {On(w)} :
         table[i].status \in Terminal => table'[i].status \in Terminal
  BY <1>7 DEF Terminal
<1>16. /\ context' \in [Investigations -> BOOLEAN] /\ memory' \in [Workers -> Seq(Records)]
       /\ \A v \in Workers : Len(memory'[v]) <= Capacity
  BY <1>1, <1>4, Types
<1> QED
  BY <1>2, <1>7, <1>8, <1>9, <1>11, <1>12, <1>13, <1>14, <1>15, <1>16, StepIInv

-----------------------------------------------------------------------------
(* Deliveries and time.                                                    *)

\* Taken(p, i, n): the process that got delivery n of a message.
Taken(p, i, n) == [p EXCEPT !.stage = "checking", !.on = i, !.attempt = n]
\* Leasing(m, w, n): its message.
Leasing(m, w, n) == [m EXCEPT !.lease = VisibilityTimeout, !.holder = w, !.deliveries = n]

\* A delivery changes no other field of the process, nor the message's state.
LEMMA TakenFields ==
  ASSUME NEW p \in Processes, NEW m \in Messages, NEW i \in Investigations, NEW w \in Workers,
         m.deliveries < MaxAttempts
  PROVE  /\ Taken(p, i, m.deliveries + 1) \in Processes
         /\ Taken(p, i, m.deliveries + 1).stage = "checking"
         /\ Taken(p, i, m.deliveries + 1).on = i
         /\ Taken(p, i, m.deliveries + 1).attempt = m.deliveries + 1
         /\ Taken(p, i, m.deliveries + 1).durable = p.durable
         /\ Taken(p, i, m.deliveries + 1).stopping = p.stopping
         /\ Leasing(m, w, m.deliveries + 1) \in Messages
         /\ Leasing(m, w, m.deliveries + 1).state = m.state
         /\ Leasing(m, w, m.deliveries + 1).lease = VisibilityTimeout
         /\ Leasing(m, w, m.deliveries + 1).holder = w
         /\ Leasing(m, w, m.deliveries + 1).deliveries = m.deliveries + 1
<1>1. m.deliveries \in Nat /\ m.deliveries + 1 \in 0..MaxAttempts
  BY Config DEF Messages
<1>2. ASSUME NEW n \in 0..MaxAttempts
      PROVE  /\ Taken(p, i, n) \in Processes /\ Taken(p, i, n).stage = "checking"
             /\ Taken(p, i, n).on = i /\ Taken(p, i, n).attempt = n
             /\ Taken(p, i, n).durable = p.durable /\ Taken(p, i, n).stopping = p.stopping
  BY DEF Taken, Processes, Stages
<1>3. ASSUME NEW n \in 0..MaxAttempts
      PROVE  /\ Leasing(m, w, n) \in Messages /\ Leasing(m, w, n).state = m.state
             /\ Leasing(m, w, n).lease = VisibilityTimeout /\ Leasing(m, w, n).holder = w
             /\ Leasing(m, w, n).deliveries = n
  <2>1. VisibilityTimeout \in 0..VisibilityTimeout
    BY Config
  <2> QED
    BY <2>1 DEF Messages, Leasing
<1> QED
  BY <1>1, <1>2, <1>3

\* Receive: a free message comes into one process's hands; with the delivery
\* that reaches MaxAttempts comes no run.
LEMMA ReceiveIInv ==
  ASSUME IInv, NEW w \in Workers, Receive(w)
  PROVE  IInv'
<1>0. PICK i \in Investigations :
        /\ message[i].state = "queued" /\ message[i].lease = 0
        /\ message[i].deliveries < MaxAttempts
        /\ message' = [message EXCEPT ![i] =
             [@ EXCEPT !.lease = VisibilityTimeout, !.holder = w,
                       !.deliveries = message[i].deliveries + 1]]
        /\ Move(w, [process[w] EXCEPT !.stage = "checking", !.on = i,
                                      !.attempt = message[i].deliveries + 1])
  BY DEF Receive
<1>1. /\ message' = [message EXCEPT ![i] = Leasing(message[i], w, message[i].deliveries + 1)]
      /\ process' = [process EXCEPT ![w] = Taken(process[w], i, message[i].deliveries + 1)]
  <2>1. message' = [message EXCEPT ![i] = Leasing(message[i], w, message[i].deliveries + 1)]
    BY <1>0 DEF Leasing
  <2>2. process' = [process EXCEPT ![w] = Taken(process[w], i, message[i].deliveries + 1)]
    BY <1>0 DEF Move, Taken
  <2> QED
    BY <2>1, <2>2
<1>2. /\ TypeOK /\ process[w].stage = "idle" /\ Placed(w) /\ MemoryEnded(w) /\ MemoryRuns(w)
      /\ UNCHANGED <<context, memory, table, paid, endings, faults>>
  BY DEF IInv, Receive, At
<1>3. /\ message \in [Investigations -> Messages] /\ process \in [Workers -> Processes]
      /\ message[i] \in Messages /\ process[w] \in Processes /\ message[i].deliveries \in Nat
      /\ faults \in Nat /\ paid \in [Investigations -> Nat]
      /\ memory \in [Workers -> Seq(Records)]
  BY <1>2, Types, Config DEF Messages
<1> DEFINE r == Taken(process[w], i, message[i].deliveries + 1)
           m == Leasing(message[i], w, message[i].deliveries + 1)
<1>4. /\ r \in Processes /\ r.stage = "checking" /\ r.on = i
      /\ r.attempt = message[i].deliveries + 1
      /\ r.durable = process[w].durable /\ r.stopping = process[w].stopping
      /\ m \in Messages /\ m.state = message[i].state /\ m.lease > 0 /\ m.holder = w
      /\ m.deliveries = message[i].deliveries + 1
  BY <1>0, <1>3, TakenFields, Config
<1>5. process' = [process EXCEPT ![w] = r] /\ message' = [message EXCEPT ![i] = m]
  BY <1>1
<1> HIDE DEF r, m
<1>6. /\ process' \in [Workers -> Processes] /\ message' \in [Investigations -> Messages]
      /\ process'[w] = r /\ \A v \in Workers \ {w} : process'[v] = process[v]
      /\ message'[i] = m /\ \A j \in Investigations \ {i} : message'[j] = message[j]
  BY <1>3, <1>4, <1>5
<1>7. On(w) = Nobody /\ \A j \in Investigations : w \notin Crew(j)
  BY <1>2, Config DEF Placed, Busy, Crew
<1>8. TypeOK'
  BY <1>2, <1>6, Types DEF TypeOK, Messages, Processes
<1>9. ASSUME NEW v \in Workers
      PROVE  /\ Placed(v)' /\ WithinAttempts(v)' /\ MemoryEnded(v)' /\ MemoryRuns(v)'
             /\ AckedEnded(v)'
  <2>1. /\ Placed(v) /\ WithinAttempts(v) /\ MemoryEnded(v) /\ MemoryRuns(v) /\ AckedEnded(v)
        /\ memory' = memory /\ endings' = endings
    BY <1>2 DEF IInv
  <2>2. MemoryEnded(v)'
    BY <2>1 DEF MemoryEnded, Ended
  <2>3. CASE v = w
    <3>1. Placed(w)' /\ WithinAttempts(w)' /\ AckedEnded(w)'
      BY <1>4, <1>6, Config
         DEF Placed, WithinAttempts, AckedEnded, At, On, Busy, Stages, Started, RunStages
    <3>2. MemoryRuns(w)'
      BY <1>2 DEF MemoryRuns, RunStages
    <3> QED
      BY <2>2, <2>3, <3>1, <3>2
  <2>4. CASE v # w
    <3>1. process'[v] = process[v]
      BY <1>6, <2>4
    <3> QED
      BY <2>1, <2>2, <3>1 DEF Placed, WithinAttempts, AckedEnded, Ended, At, On, MemoryRuns
  <2> QED
    BY <2>3, <2>4
<1>10. ASSUME NEW j \in Investigations PROVE RowEnded(j)'
  <2>1. RowEnded(j) /\ table' = table /\ endings' = endings
    BY <1>2 DEF IInv
  <2>2. message'[j].state = message[j].state
    BY <1>4, <1>6
  <2> QED
    BY <2>1, <2>2 DEF RowEnded, Ended
<1>11. ASSUME NEW j \in Investigations PROVE HeldByFew(j)'
  <2>1. HeldByFew(j) /\ faults' = faults
    BY <1>2 DEF IInv
  <2>2. CASE j = i
    <3>1. Crew(i)' \subseteq Crew(i) \cup {w} /\ w \in Crew(i)'
      BY <1>4, <1>6 DEF Crew, On
    <3>2. Cardinality(Crew(i)') <= Cardinality(Crew(i)) + 1
      BY <3>1, Counted, OneMore
    <3>3. ~Leased(i) /\ Leased(i)'
      <4>1. ~Leased(i)
        BY <1>0 DEF Leased
      <4>2. message'[i].state = "queued" /\ message'[i].lease > 0 /\ message'[i].holder = w
        BY <1>0, <1>4, <1>6
      <4> QED
        BY <3>1, <4>1, <4>2 DEF Leased
    <3>4. Cardinality(Crew(i)') \in Nat /\ Cardinality(Crew(i)) \in Nat
      BY <3>1, Counted, OneMore, FS_CardinalityType
    <3> QED
      BY <1>3, <2>1, <2>2, <3>2, <3>3, <3>4 DEF HeldByFew
  <2>3. CASE j # i
    <3>1. Crew(j)' = Crew(j)
      BY <1>4, <1>6, <1>7, <2>3 DEF Crew, On
    <3>2. Leased(j)' <=> Leased(j)
      BY <1>6, <2>3, <3>1 DEF Leased
    <3> QED
      BY <2>1, <3>1, <3>2 DEF HeldByFew
  <2> QED
    BY <2>2, <2>3
<1>12. ASSUME NEW j \in Investigations PROVE PaidByDeliveries(j)'
  <2>1. /\ PaidByDeliveries(j) /\ paid' = paid /\ paid[j] \in Nat
        /\ Cardinality(Due(j)) \in Nat /\ IsFiniteSet(Due(j))
    BY <1>2, <1>3, Counted DEF IInv
  <2>2. CASE j = i /\ r.attempt < MaxAttempts
    <3>1. Due(i)' \subseteq Due(i) \cup {w}
      BY <1>6 DEF Due, On
    <3>2. /\ Cardinality(Due(i)') <= Cardinality(Due(i)) + 1
          /\ Cardinality(Due(i)') \in Nat
      BY <2>1, <2>2, <3>1, OneMore, FS_CardinalityType
    <3>3. message'[i].deliveries = message[i].deliveries + 1
      BY <1>4, <1>6
    <3> QED
      BY <1>3, <1>4, <2>1, <2>2, <3>2, <3>3, Config DEF PaidByDeliveries
  <2>3. CASE j # i \/ ~(r.attempt < MaxAttempts)
    <3>1. w \notin Due(j)'
      BY <1>4, <1>6, <2>3 DEF Due, On
    <3>2. Due(j)' \subseteq Due(j)
      BY <1>6, <3>1 DEF Due, On
    <3>3. Cardinality(Due(j)') <= Cardinality(Due(j)) /\ Cardinality(Due(j)') \in Nat
      BY <2>1, <3>2, FS_Subset, FS_CardinalityType
    <3>4. message[j].deliveries \in Nat /\ message'[j].deliveries >= message[j].deliveries
          /\ message'[j].deliveries \in Nat
      <4>1. message[j] \in Messages
        BY <1>3
      <4>2. message[j].deliveries \in Nat
        BY <4>1, Config DEF Messages
      <4>3. CASE j = i
        BY <1>4, <1>6, <4>2, <4>3
      <4>4. CASE j # i
        BY <1>6, <4>2, <4>4
      <4> QED
        BY <4>3, <4>4
    <3> QED
      BY <2>1, <3>3, <3>4, Config DEF PaidByDeliveries
  <2> QED
    BY <2>2, <2>3
<1>13. ASSUME NEW j \in Investigations PROVE VerdictKept(j)'
  <2>1. VerdictKept(j) /\ UNCHANGED <<paid, table, endings, faults>>
    BY <1>2 DEF IInv
  <2>2. ASSUME NEW v \in Crew(j)' PROVE v \in Crew(j) \/ process'[v].stage = "checking"
    BY <1>4, <1>6 DEF Crew, On
  <2>3. \A v \in Crew(j) : process'[v] = process[v]
    BY <1>6, <1>7 DEF Crew
  <2> QED
    BY <2>1, <2>2, <2>3 DEF VerdictKept
<1>14. Undisturbed'
  <2>1. Undisturbed /\ faults' = faults
    BY <1>2 DEF IInv
  <2>2. ASSUME faults = 0, NEW v \in Workers
        PROVE  process'[v].durable /\ ~process'[v].stopping /\ process'[v].stage # "down"
    <3>1. process[v].durable /\ ~process[v].stopping /\ process[v].stage # "down"
      BY <2>1, <2>2 DEF Undisturbed, At
    <3> QED
      BY <1>4, <1>6, <3>1
  <2> QED
    BY <2>1, <2>2 DEF Undisturbed, At
<1> QED
  BY <1>8, <1>9, <1>10, <1>11, <1>12, <1>13, <1>14 DEF IInv

\* What happens to messages, leases and runs beside the processes: nothing is
\* dropped, and a lease ends before its process only at the cost of a fault.
LEMMA SurroundingsIInv ==
  ASSUME IInv, UNCHANGED <<memory, paid, endings>>,
         message' \in [Investigations -> Messages], context' \in [Investigations -> BOOLEAN],
         table' \in [Investigations -> Rows], process' \in [Workers -> Processes],
         faults' \in 0..MaxFaults, faults' >= faults,
         \A w \in Workers :
           /\ process'[w].stage = process[w].stage /\ process'[w].on = process[w].on
           /\ process'[w].attempt = process[w].attempt
           /\ process'[w].durable = process[w].durable
           /\ process'[w].stopping = process[w].stopping,
         \A i \in Investigations :
           /\ message'[i].deliveries = message[i].deliveries
           /\ message'[i].state = "gone" => message[i].state = "gone"
           /\ table'[i].status = table[i].status
           /\ Leased(i) => Leased(i)' \/ faults' > faults
  PROVE  IInv'
<1>1. TypeOK /\ Undisturbed
  BY DEF IInv
<1>2. faults \in Nat /\ faults' \in Nat /\ memory \in [Workers -> Seq(Records)]
  BY <1>1, Types, Config
<1>3. TypeOK'
  BY <1>1, Types DEF TypeOK, Messages, Processes, Rows
<1>4. ASSUME NEW w \in Workers
      PROVE  /\ Placed(w)' /\ WithinAttempts(w)' /\ MemoryEnded(w)' /\ MemoryRuns(w)'
             /\ AckedEnded(w)'
  <2>1. Placed(w) /\ WithinAttempts(w) /\ MemoryEnded(w) /\ MemoryRuns(w) /\ AckedEnded(w)
    BY DEF IInv
  <2> QED
    BY <2>1 DEF Placed, WithinAttempts, MemoryEnded, MemoryRuns, AckedEnded, Ended, At, On
<1>5. ASSUME NEW i \in Investigations
      PROVE  RowEnded(i)' /\ HeldByFew(i)' /\ PaidByDeliveries(i)' /\ VerdictKept(i)'
  <2>1. RowEnded(i) /\ HeldByFew(i) /\ PaidByDeliveries(i) /\ VerdictKept(i)
    BY DEF IInv
  <2>2. Crew(i)' = Crew(i) /\ Due(i)' = Due(i)
    BY DEF Crew, Due, On
  <2>3. RowEnded(i)' /\ PaidByDeliveries(i)'
    BY <2>1, <2>2 DEF RowEnded, Ended, PaidByDeliveries
  <2>4. HeldByFew(i)'
    BY <1>2, <2>1, <2>2, Counted DEF HeldByFew
  <2>5. \A w \in Crew(i) : process'[w].stage = process[w].stage
    BY DEF Crew
  <2>6. (faults' = 0) => (faults = 0)
    BY <1>2
  <2>7. VerdictKept(i)'
    BY <2>1, <2>2, <2>5, <2>6 DEF VerdictKept
  <2> QED
    BY <2>3, <2>4, <2>7
<1>6. Undisturbed'
  BY <1>1, <1>2 DEF Undisturbed, At
<1> QED
  BY <1>3, <1>4, <1>5, <1>6 DEF IInv

\* A message in another state, with another lease, or both.
WithState(m, a)  == [m EXCEPT !.state = a]
WithLease(m, b)  == [m EXCEPT !.lease = b]
InState(m, a, b) == [m EXCEPT !.state = a, !.lease = b]

\* It counts its deliveries and knows its holder as before.
LEMMA MessageFields ==
  ASSUME NEW m \in Messages
  PROVE  /\ \A a \in {"queued", "gone", "dead"}, b \in 0..VisibilityTimeout :
              /\ InState(m, a, b) \in Messages /\ InState(m, a, b).state = a
              /\ InState(m, a, b).deliveries = m.deliveries
         /\ \A a \in {"queued", "gone", "dead"} :
              /\ WithState(m, a) \in Messages /\ WithState(m, a).state = a
              /\ WithState(m, a).deliveries = m.deliveries
         /\ \A b \in 0..VisibilityTimeout :
              /\ WithLease(m, b) \in Messages /\ WithLease(m, b).lease = b
              /\ WithLease(m, b).state = m.state /\ WithLease(m, b).holder = m.holder
              /\ WithLease(m, b).deliveries = m.deliveries
BY DEF Messages, InState, WithState, WithLease

\* CommitContext, Return, Duplicate and DeadLetter.
LEMMA QueueIInv ==
  ASSUME IInv, NEW i \in Investigations,
         CommitContext(i) \/ Return(i) \/ Duplicate(i) \/ DeadLetter(i)
  PROVE  IInv'
<1>1. /\ TypeOK /\ UNCHANGED <<process, memory, table, paid, endings>>
  BY DEF IInv, CommitContext, Return, Duplicate, DeadLetter
<1>2. /\ message \in [Investigations -> Messages] /\ context \in [Investigations -> BOOLEAN]
      /\ process \in [Workers -> Processes] /\ table \in [Investigations -> Rows]
      /\ faults \in Nat /\ faults <= MaxFaults /\ MaxFaults \in Nat /\ message[i] \in Messages
      /\ 0 \in 0..VisibilityTimeout
  BY <1>1, Types, Config
<1>3. ASSUME UNCHANGED message \/ Leased(i)' \/ ~Leased(i) \/ faults' > faults,
             \A j \in Investigations \ {i} : message'[j] = message[j]
      PROVE  \A j \in Investigations : Leased(j) => Leased(j)' \/ faults' > faults
  BY <1>1, <1>3 DEF Leased, Crew, On
<1>4. CASE CommitContext(i)
  <2>1. /\ UNCHANGED <<message, faults>> /\ context' \in [Investigations -> BOOLEAN]
        /\ faults' \in 0..MaxFaults /\ faults' >= faults
    BY <1>2, <1>4 DEF CommitContext
  <2>2. \A j \in Investigations : Leased(j) => Leased(j)' \/ faults' > faults
    BY <1>3, <2>1
  <2> QED
    BY <1>1, <1>2, <2>1, <2>2, SurroundingsIInv
<1>5. CASE Return(i)
  <2>1. /\ UNCHANGED <<context, faults>> /\ message[i].state = "gone" /\ ~Leased(i)
        /\ faults' \in 0..MaxFaults /\ faults' >= faults
    BY <1>2, <1>5 DEF Return, Leased
  <2>2. message' = [message EXCEPT ![i] = InState(message[i], "queued", 0)]
    BY <1>2, <1>5 DEF Return, InState
  <2>3. /\ message' \in [Investigations -> Messages]
        /\ message'[i].state = "queued" /\ message'[i].deliveries = message[i].deliveries
        /\ \A j \in Investigations \ {i} : message'[j] = message[j]
    <3>1. /\ InState(message[i], "queued", 0) \in Messages
          /\ InState(message[i], "queued", 0).deliveries = message[i].deliveries
          /\ InState(message[i], "queued", 0).state = "queued"
      BY <1>2, MessageFields
    <3> QED
      BY <1>2, <2>2, <3>1
  <2>4. \A j \in Investigations : Leased(j) => Leased(j)' \/ faults' > faults
    BY <1>3, <2>1, <2>3
  <2>5. \A j \in Investigations : /\ message'[j].deliveries = message[j].deliveries
                                  /\ message'[j].state = "gone" => message[j].state = "gone"
    BY <2>3
  <2> QED
    BY <1>1, <1>2, <2>1, <2>3, <2>4, <2>5, SurroundingsIInv
<1>6. CASE Duplicate(i)
  <2>1. UNCHANGED context /\ faults' \in 0..MaxFaults /\ faults' > faults
    BY <1>2, <1>6 DEF Duplicate, Fault
  <2>2. message' = [message EXCEPT ![i] = WithLease(message[i], 0)]
    BY <1>6 DEF Duplicate, WithLease
  <2>3. /\ message' \in [Investigations -> Messages]
        /\ \A j \in Investigations : /\ message'[j].deliveries = message[j].deliveries
                                     /\ message'[j].state = message[j].state
    <3>1. /\ WithLease(message[i], 0) \in Messages
          /\ WithLease(message[i], 0).deliveries = message[i].deliveries
          /\ WithLease(message[i], 0).state = message[i].state
      BY <1>2, MessageFields
    <3> QED
      BY <1>2, <2>2, <3>1
  <2> QED
    BY <1>1, <1>2, <2>1, <2>3, SurroundingsIInv
<1>7. CASE DeadLetter(i)
  <2>1. /\ UNCHANGED <<context, faults>> /\ ~Leased(i)
        /\ faults' \in 0..MaxFaults /\ faults' >= faults
    BY <1>2, <1>7 DEF DeadLetter, Leased
  <2>2. message' = [message EXCEPT ![i] = WithState(message[i], "dead")]
    BY <1>7 DEF DeadLetter, WithState
  <2>3. /\ message' \in [Investigations -> Messages]
        /\ message'[i].state = "dead" /\ message'[i].deliveries = message[i].deliveries
        /\ \A j \in Investigations \ {i} : message'[j] = message[j]
    <3>1. /\ WithState(message[i], "dead") \in Messages
          /\ WithState(message[i], "dead").deliveries = message[i].deliveries
          /\ WithState(message[i], "dead").state = "dead"
      BY <1>2, MessageFields
    <3> QED
      BY <1>2, <2>2, <3>1
  <2>4. \A j \in Investigations : Leased(j) => Leased(j)' \/ faults' > faults
    BY <1>3, <2>1, <2>3
  <2>5. \A j \in Investigations : /\ message'[j].deliveries = message[j].deliveries
                                  /\ message'[j].state = "gone" => message[j].state = "gone"
    BY <2>3
  <2> QED
    BY <1>1, <1>2, <2>1, <2>3, <2>4, <2>5, SurroundingsIInv
<1> QED
  BY <1>4, <1>5, <1>6, <1>7

\* Tick: a lease that its process renews goes on, and one that runs out under
\* a process is one whose renewal failed or whose process stalled.
LEMMA TickIInv ==
  ASSUME IInv, Tick
  PROVE  IInv'
<1>1. TypeOK /\ \A w \in Workers : Placed(w)
  BY DEF IInv
<1>2. /\ message \in [Investigations -> Messages] /\ context \in [Investigations -> BOOLEAN]
      /\ process \in [Workers -> Processes] /\ table \in [Investigations -> Rows]
      /\ faults \in Nat /\ faults <= MaxFaults /\ MaxFaults \in Nat
  BY <1>1, Types, Config
<1> DEFINE stalled == {w \in Workers : process[w].stage \in {"checking", "resolving", "acking"}}
<1>3. PICK failing \in SUBSET Running :
        LET extended == {On(w) : w \in {v \in Running \ failing : Renewed(v)}}
        IN /\ Fault(Cardinality(failing) + Cardinality(stalled))
           /\ message' = [i \in Investigations |->
                [message[i] EXCEPT !.lease = IF i \in extended THEN VisibilityTimeout
                                             ELSE Older(message[i].lease)]]
  BY DEF Tick
<1> HIDE DEF stalled
<1>4. /\ IsFiniteSet(failing) /\ Cardinality(failing) \in Nat
      /\ IsFiniteSet(stalled) /\ Cardinality(stalled) \in Nat
  <2>1. failing \subseteq Workers /\ stalled \subseteq Workers
    BY DEF Running, stalled
  <2> QED
    BY <2>1, Config, FS_Subset, FS_CardinalityType
<1>5. /\ faults' = faults + (Cardinality(failing) + Cardinality(stalled))
      /\ faults' \in 0..MaxFaults /\ faults' >= faults
  BY <1>2, <1>3, <1>4 DEF Fault
<1>6. ASSUME NEW b \in Nat, NEW t \in 0..b PROVE Older(t) \in 0..b
  BY <1>6 DEF Older
<1> DEFINE extended == {On(w) : w \in {v \in Running \ failing : Renewed(v)}}
           lease(i) == IF i \in extended THEN VisibilityTimeout ELSE Older(message[i].lease)
<1>7. /\ message' \in [Investigations -> Messages]
      /\ \A i \in Investigations : /\ message'[i].lease = lease(i)
                                   /\ message'[i].state = message[i].state
                                   /\ message'[i].deliveries = message[i].deliveries
                                   /\ message'[i].holder = message[i].holder
  <2>1. \A i \in Investigations : message[i] \in Messages /\ message[i].lease \in 0..VisibilityTimeout
    BY <1>2 DEF Messages
  <2>2. \A i \in Investigations : lease(i) \in 0..VisibilityTimeout
    BY <1>6, <2>1, Config
  <2>3. PICK left \in [Investigations -> 0..VisibilityTimeout] :
          \A i \in Investigations : left[i] = lease(i)
    <3>1. [i \in Investigations |-> lease(i)] \in [Investigations -> 0..VisibilityTimeout]
      BY <2>2
    <3> QED
      BY <3>1
  <2>4. message' = [i \in Investigations |-> WithLease(message[i], left[i])]
    BY <1>3, <2>3 DEF WithLease
  <2> HIDE DEF lease
  <2>5. ASSUME NEW i \in Investigations
        PROVE  /\ message'[i] \in Messages /\ message'[i].lease = left[i]
               /\ message'[i].state = message[i].state
               /\ message'[i].deliveries = message[i].deliveries
               /\ message'[i].holder = message[i].holder
    <3>1. PICK m \in Messages, b \in 0..VisibilityTimeout : m = message[i] /\ b = left[i]
      BY <2>1, <2>3
    <3>2. /\ WithLease(m, b) \in Messages /\ WithLease(m, b).lease = b
          /\ WithLease(m, b).state = m.state /\ WithLease(m, b).holder = m.holder
          /\ WithLease(m, b).deliveries = m.deliveries
      BY MessageFields
    <3>3. message'[i] = WithLease(m, b)
      BY <2>4, <3>1
    <3> QED
      BY <3>1, <3>2, <3>3
  <2>6. message' \in [Investigations -> Messages]
    BY <2>4, <2>5
  <2> QED
    BY <2>3, <2>5, <2>6
<1>8. /\ process' \in [Workers -> Processes]
      /\ \A w \in Workers :
           /\ process'[w].stage = process[w].stage /\ process'[w].on = process[w].on
           /\ process'[w].attempt = process[w].attempt
           /\ process'[w].durable = process[w].durable
           /\ process'[w].stopping = process[w].stopping
  <2>1. ASSUME NEW p \in Processes, NEW t \in 0..RunTimeout
        PROVE  LET q == [p EXCEPT !.left = t]
               IN /\ q \in Processes /\ q.stage = p.stage /\ q.on = p.on
                  /\ q.attempt = p.attempt /\ q.durable = p.durable /\ q.stopping = p.stopping
    BY DEF Processes
  <2>2. \A w \in Workers : process[w] \in Processes /\ process[w].left \in 0..RunTimeout
    BY <1>2 DEF Processes
  <2>3. \A w \in Workers : Older(process[w].left) \in 0..RunTimeout
    BY <1>6, <2>2, Config
  <2>4. process' = [w \in Workers |-> [process[w] EXCEPT !.left = Older(process[w].left)]]
    BY DEF Tick
  <2>5. ASSUME NEW w \in Workers
        PROVE  /\ process'[w] \in Processes
               /\ process'[w].stage = process[w].stage /\ process'[w].on = process[w].on
               /\ process'[w].attempt = process[w].attempt
               /\ process'[w].durable = process[w].durable
               /\ process'[w].stopping = process[w].stopping
    <3>1. PICK p \in Processes, t \in 0..RunTimeout :
            p = process[w] /\ t = Older(process[w].left)
      BY <2>2, <2>3
    <3>2. process'[w] = [p EXCEPT !.left = t]
      BY <2>4, <3>1
    <3> QED
      BY <2>1, <3>1, <3>2
  <2>6. process' \in [Workers -> Processes]
    BY <2>4, <2>5
  <2> QED
    BY <2>5, <2>6
<1>9. /\ table' \in [Investigations -> Rows]
      /\ \A i \in Investigations : table'[i].status = table[i].status
  <2>1. ASSUME NEW p \in Rows, NEW t \in 0..StaleAfter
        PROVE  LET q == [p EXCEPT !.left = t] IN q \in Rows /\ q.status = p.status
    BY DEF Rows
  <2>2. \A i \in Investigations : table[i] \in Rows /\ table[i].left \in 0..StaleAfter
    BY <1>2 DEF Rows
  <2>3. \A i \in Investigations : Older(table[i].left) \in 0..StaleAfter
    BY <1>6, <2>2, Config
  <2>4. table' = [i \in Investigations |-> [table[i] EXCEPT !.left = Older(table[i].left)]]
    BY DEF Tick
  <2> QED
    BY <2>1, <2>2, <2>3, <2>4
<1>10. ASSUME NEW i \in Investigations, Leased(i) PROVE Leased(i)' \/ faults' > faults
  <2>1. PICK w \in Workers : message[i].holder = w /\ On(w) = i
    BY <1>10 DEF Leased, Crew
  <2>2. w \in Running \/ w \in stalled
    BY <1>1, <2>1, Config DEF Running, stalled, Placed, Busy, Stages, RunStages
  <2>3. CASE w \in failing \/ w \in stalled
    <3>1. Cardinality(failing) + Cardinality(stalled) # 0
      BY <1>4, <2>3, FS_EmptySet
    <3> QED
      BY <1>2, <1>4, <1>5, <3>1
  <2>4. CASE w \in Running \ failing
    <3>1. Renewed(w)
      BY <1>10, <2>1 DEF Renewed, Leased
    <3>2. i \in extended
      BY <2>1, <2>4, <3>1
    <3>3. message'[i].lease > 0 /\ message'[i].state = "queued"
      BY <1>7, <1>10, <3>2, Config DEF Leased
    <3>4. message'[i].holder \in Crew(i)'
      BY <1>7, <1>8, <2>1 DEF Crew, On
    <3> QED
      BY <3>3, <3>4 DEF Leased
  <2> QED
    BY <2>2, <2>3, <2>4
<1>11. UNCHANGED <<context, memory, paid, endings>>
  BY DEF Tick
<1>12. context' \in [Investigations -> BOOLEAN]
  BY <1>2, <1>11
<1>13. \A i \in Investigations :
           /\ message'[i].deliveries = message[i].deliveries
           /\ message'[i].state = "gone" => message[i].state = "gone"
           /\ table'[i].status = table[i].status
           /\ Leased(i) => Leased(i)' \/ faults' > faults
  BY <1>7, <1>9, <1>10
<1>14. message' \in [Investigations -> Messages] /\ table' \in [Investigations -> Rows]
  BY <1>7, <1>9
<1> HIDE DEF lease, extended
<1> QED
  BY <1>5, <1>8, <1>11, <1>12, <1>13, <1>14, SurroundingsIInv

-----------------------------------------------------------------------------
(* The theorems.                                                           *)

\* Initially every message is free, every process idle, and nothing recorded.
LEMMA InitIInv ==
  ASSUME Init
  PROVE  IInv
<1>1. /\ message = [i \in Investigations |-> Sent] /\ context = [i \in Investigations |-> i \notin Late]
      /\ process = [w \in Workers |-> Fresh] /\ memory = [w \in Workers |-> <<>>]
      /\ table = [i \in Investigations |-> [status |-> "none", left |-> 0]]
      /\ paid = [i \in Investigations |-> 0] /\ endings = [i \in Investigations |-> {}]
      /\ faults = 0
  BY DEF Init
<1>2. /\ Sent \in Messages /\ Sent.state = "queued" /\ Sent.lease = 0 /\ Sent.deliveries = 0
  BY Config DEF Sent, Messages
<1>3. /\ [status |-> "none", left |-> 0] \in Rows
      /\ <<>> \in Seq(Records) /\ Len(<<>>) = 0 /\ DOMAIN <<>> = {}
  BY Config DEF Rows
<1>4. TypeOK
  BY <1>1, <1>2, <1>3, FreshProcess, Types, Config
<1> HIDE DEF Sent, Fresh
<1>5. ASSUME NEW w \in Workers
      PROVE  /\ Placed(w) /\ WithinAttempts(w) /\ MemoryEnded(w) /\ MemoryRuns(w)
             /\ AckedEnded(w)
  <2>1. process[w].stage = "idle" /\ On(w) = Nobody /\ memory[w] = <<>>
    BY <1>1, FreshProcess DEF On
  <2> QED
    BY <1>3, <2>1
       DEF Placed, WithinAttempts, MemoryEnded, MemoryRuns, AckedEnded, At, Busy, Started, RunStages
<1>6. ASSUME NEW i \in Investigations
      PROVE  RowEnded(i) /\ HeldByFew(i) /\ PaidByDeliveries(i) /\ VerdictKept(i)
  <2>1. Crew(i) = {} /\ Due(i) = {}
    BY <1>1, FreshProcess, Config DEF Crew, Due, On
  <2>2. Cardinality(Crew(i)) = 0 /\ Cardinality(Due(i)) = 0
    BY <2>1, FS_EmptySet
  <2>3. message[i] = Sent /\ paid[i] = 0 /\ table[i].status = "none"
    BY <1>1
  <2> QED
    BY <1>1, <1>2, <2>2, <2>3, Config
       DEF RowEnded, HeldByFew, PaidByDeliveries, VerdictKept, Terminal
<1>7. Undisturbed
  BY <1>1, FreshProcess DEF Undisturbed, At
<1> QED
  BY <1>4, <1>5, <1>6, <1>7 DEF IInv

\* Every action preserves the inductive invariant, and so does a stutter.
LEMMA NextIInv ==
  ASSUME IInv, [Next]_vars
  PROVE  IInv'
<1>1. ASSUME NEW w \in Workers, handle(w) PROVE IInv'
  BY <1>1, ReceiveIInv, CheckIInv, ResolveIInv, AckIInv DEF handle
<1>2. ASSUME NEW w \in Workers, Run(w) PROVE IInv'
  BY <1>2, RunIInv
<1>3. ASSUME NEW w \in Workers, Boot(w) \/ Stop(w) \/ Exit(w) \/ Crash(w) PROVE IInv'
  BY <1>3, BootIInv, EndOfProcessIInv
<1>4. ASSUME NEW i \in Investigations,
             CommitContext(i) \/ Return(i) \/ Duplicate(i) \/ DeadLetter(i)
      PROVE  IInv'
  BY <1>4, QueueIInv
<1>5. CASE Tick
  BY <1>5, TickIInv
<1>6. CASE UNCHANGED vars
  <2>1. UNCHANGED <<message, context, process, memory, table, paid, endings, faults>>
    BY <1>6 DEF vars
  <2>2. /\ message' \in [Investigations -> Messages] /\ context' \in [Investigations -> BOOLEAN]
        /\ table' \in [Investigations -> Rows] /\ process' \in [Workers -> Processes]
        /\ faults' \in 0..MaxFaults /\ faults' >= faults
    BY <2>1, Types, Config DEF IInv
  <2>3. ASSUME NEW i \in Investigations, Leased(i) PROVE Leased(i)'
    BY <2>1, <2>3 DEF Leased, Crew, On
  <2> QED
    BY <2>1, <2>2, <2>3, SurroundingsIInv
<1> QED
  BY <1>1, <1>2, <1>3, <1>4, <1>5, <1>6 DEF Next

\* The inductive invariant holds throughout, whatever fails, for any number of
\* processes, assignments and deliveries.
THEOREM Invariant == Spec => []IInv
<1>1. Init => IInv
  BY InitIInv
<1>2. IInv /\ [Next]_vars => IInv'
  BY NextIInv
<1> QED
  BY <1>1, <1>2, PTL DEF Spec

\* Every variable keeps its type; in particular no memory of outcomes outgrows
\* its capacity.
THEOREM TypeCorrect == Spec => []TypeOK
<1>1. IInv => TypeOK
  BY DEF IInv
<1> QED
  BY <1>1, Invariant, PTL

\* Worker.handle acknowledges only what came to an end: no assignment leaves the
\* queue before it was run, delivered too often, or written off as abandoned.
THEOREM NeverDroppedUnended == Spec => []DroppedOnlyWhenEnded
<1>1. IInv => DroppedOnlyWhenEnded
  BY DEF IInv, RowEnded, Ended, DroppedOnlyWhenEnded
<1> QED
  BY <1>1, Invariant, PTL

\* heartbeat and the lease: as many runs of one assignment go on at once as
\* there were faults, and one.
THEOREM RunsShareFaults == Spec => []RunsTwicePerFault
<1>1. IInv => RunsTwicePerFault
  <2> SUFFICES ASSUME IInv, NEW i \in Investigations
               PROVE  Cardinality({w \in Running : On(w) = i}) <= 1 + faults
    BY DEF RunsTwicePerFault
  <2>1. {w \in Running : On(w) = i} \subseteq Crew(i)
    BY DEF Running, Crew
  <2>2. /\ Cardinality({w \in Running : On(w) = i}) <= Cardinality(Crew(i))
        /\ Cardinality({w \in Running : On(w) = i}) \in Nat
    BY <2>1, Counted, FS_Subset, FS_CardinalityType
  <2>3. HeldByFew(i) /\ faults \in Nat
    BY Types, Config DEF IInv
  <2> QED
    BY <2>2, <2>3, Counted DEF HeldByFew
<1> QED
  BY <1>1, Invariant, PTL

\* Seen: while nothing fails an assignment is paid for once, unless a process
\* remembers a retry of its own.
THEOREM PaidOnceWhileUndisturbed == Spec => []PaidAgainOnlyAfterFault
<1>1. IInv => PaidAgainOnlyAfterFault
  <2> SUFFICES ASSUME IInv, NEW i \in Investigations, paid[i] > 1,
                      ~(faults > 0), "hidden" \notin endings[i]
               PROVE  FALSE
    BY DEF PaidAgainOnlyAfterFault
  <2>1. VerdictKept(i) /\ faults \in Nat /\ paid[i] \in Nat
    BY Types, Config DEF IInv
  <2> QED
    BY <2>1 DEF VerdictKept
<1> QED
  BY <1>1, Invariant, PTL

\* MaxAttempts: whatever fails, an assignment is paid for fewer times than it
\* may be delivered.
THEOREM PaidFewerThanDelivered == Spec => []PaidWithinAttempts
<1>1. IInv => PaidWithinAttempts
  <2> SUFFICES ASSUME IInv, NEW i \in Investigations PROVE paid[i] < MaxAttempts
    BY DEF PaidWithinAttempts
  <2>1. PaidByDeliveries(i) /\ paid[i] \in Nat
    BY Types DEF IInv
  <2> QED
    BY <2>1, Counted, Config DEF PaidByDeliveries
<1> QED
  BY <1>1, Invariant, PTL

\* Seen and MaxAttempts: a repeated payment has a cause, and they end.
THEOREM PaymentsStayBounded == Spec => []PaymentsBounded
<1>1. PaidAgainOnlyAfterFault /\ PaidWithinAttempts => PaymentsBounded
  BY DEF PaymentsBounded
<1> QED
  BY <1>1, PaidOnceWhileUndisturbed, PaidFewerThanDelivered, PTL

=============================================================================
