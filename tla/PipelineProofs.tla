---------------------------- MODULE PipelineProofs ----------------------------
(***************************************************************************)
(* Theorems about the pipeline and its rule engine, for every value of     *)
(* their constants.                                                        *)
(***************************************************************************)
EXTENDS Pipeline, SumTheorems, SequenceTheorems, TLAPS

-----------------------------------------------------------------------------
(* Sets put in order, and folds over what is in order.                     *)

\* Where of every two members one comes before the other, each member has a rank
\* of its own and every rank up to the size of the set has a member.
LEMMA Ranks ==
  ASSUME NEW S, IsFiniteSet(S), NEW P \in [S -> SUBSET S],
         \A i \in S : i \notin P[i],
         \A i, j \in S : i # j => i \in P[j] \/ j \in P[i],
         \A i, j \in S : i \in P[j] => P[i] \subseteq P[j]
  PROVE  /\ \A k \in 1..Cardinality(S) : \E i \in S : Cardinality(P[i]) = k - 1
         /\ \A i \in S : Cardinality(P[i]) + 1 \in 1..Cardinality(S)
         /\ \A i, j \in S : Cardinality(P[i]) = Cardinality(P[j]) => i = j
<1> DEFINE n == Cardinality(S)
           rank == [i \in S |-> Cardinality(P[i]) + 1]
<1>1. n \in Nat
  BY FS_CardinalityType
<1>2. \A i \in S : IsFiniteSet(P[i]) /\ Cardinality(P[i]) \in Nat
  BY FS_Subset, FS_CardinalityType
<1>3. ASSUME NEW i \in S PROVE rank[i] \in 1..n
  <2>1. IsFiniteSet(S \ {i}) /\ Cardinality(S \ {i}) = n - 1 /\ P[i] \in SUBSET (S \ {i})
    BY FS_RemoveElement
  <2>2. Cardinality(P[i]) <= n - 1
    BY <2>1, FS_Subset
  <2> QED
    BY <1>1, <1>2, <2>2
<1>4. ASSUME NEW i \in S, NEW j \in S, i \in P[j]
      PROVE  Cardinality(P[i]) < Cardinality(P[j])
  <2>1. P[i] \in SUBSET P[j] /\ P[i] # P[j]
    BY <1>4
  <2>2. Cardinality(P[i]) <= Cardinality(P[j]) /\ Cardinality(P[i]) # Cardinality(P[j])
    BY <1>2, <2>1, FS_Subset
  <2> QED
    BY <1>2, <2>2
<1>5. ASSUME NEW i \in S, NEW j \in S, Cardinality(P[i]) = Cardinality(P[j])
      PROVE  i = j
  BY <1>2, <1>4, <1>5
<1>6. rank \in Injection(S, 1..n)
  <2>1. rank \in [S -> 1..n]
    BY <1>3
  <2>2. \A i, j \in S : rank[i] = rank[j] => i = j
    BY <1>2, <1>5
  <2> QED
    BY <2>1, <2>2 DEF Injection, IsInjective
<1>7. IsFiniteSet(1..n) /\ Cardinality(1..n) = n
  BY <1>1, FS_Interval
<1>8. rank \in Surjection(S, 1..n)
  BY <1>6, <1>7, FS_Injection
<1>9. ASSUME NEW k \in 1..n PROVE \E i \in S : Cardinality(P[i]) = k - 1
  <2>1. PICK i \in S : rank[i] = k
    BY <1>8 DEF Surjection
  <2> QED
    BY <1>2, <2>1
<1> QED
  BY <1>3, <1>5, <1>9

\* The numbers below a number are what ranks it.
LEMMA NumberRanks ==
  ASSUME NEW S \in SUBSET Nat, IsFiniteSet(S),
         NEW P \in [S -> SUBSET S], \A i \in S : P[i] = {j \in S : j < i}
  PROVE  /\ \A k \in 1..Cardinality(S) : \E i \in S : Cardinality(P[i]) = k - 1
         /\ \A i \in S : Cardinality(P[i]) + 1 \in 1..Cardinality(S)
         /\ \A i, j \in S : Cardinality(P[i]) = Cardinality(P[j]) => i = j
<1>1. \A i \in S : i \in Nat
  OBVIOUS
<1>2. /\ \A i \in S : i \notin P[i]
      /\ \A i, j \in S : i # j => i \in P[j] \/ j \in P[i]
  BY <1>1
<1>3. \A i, j \in S : i \in P[j] => P[i] \subseteq P[j]
  <2> SUFFICES ASSUME NEW i \in S, NEW j \in S, i < j, NEW q \in S, q < i
               PROVE  q < j
    OBVIOUS
  <2> QED
    BY <1>1
<1> QED
  BY <1>2, <1>3, Ranks

\* Numbers in order: each once, and none left out.
LEMMA IdsInOrder ==
  ASSUME NEW S \in SUBSET Nat, IsFiniteSet(S)
  PROVE  /\ Cardinality(S) \in Nat
         /\ byId(S) \in [1..Cardinality(S) -> S]
         /\ \A i \in S : \E k \in 1..Cardinality(S) : byId(S)[k] = i
         /\ \A i, j \in 1..Cardinality(S) : byId(S)[i] = byId(S)[j] => i = j
<1>1. IsFiniteSet(S) /\ S \subseteq Nat
  OBVIOUS
<1>2. PICK P \in [S -> SUBSET S] : \A i \in S : P[i] = {j \in S : j < i}
  <2>1. [i \in S |-> {j \in S : j < i}] \in [S -> SUBSET S]
    OBVIOUS
  <2> QED
    BY <2>1
<1>3. /\ \A k \in 1..Cardinality(S) : \E i \in S : Cardinality(P[i]) = k - 1
      /\ \A i \in S : Cardinality(P[i]) + 1 \in 1..Cardinality(S)
      /\ \A i, j \in S : Cardinality(P[i]) = Cardinality(P[j]) => i = j
  BY <1>2, NumberRanks
<1>4. byId(S) = [k \in 1..Cardinality(S) |->
                   CHOOSE i \in S : Cardinality({j \in S : j < i}) = k - 1]
  BY DEF byId, inOrder
<1>5. Cardinality(S) \in Nat /\ \A i \in S : Cardinality(P[i]) \in Nat
  BY <1>1, FS_CardinalityType, FS_Subset
<1>6. ASSUME NEW k \in 1..Cardinality(S)
      PROVE  byId(S)[k] \in S /\ Cardinality(P[byId(S)[k]]) = k - 1
  <2>1. PICK i \in S : Cardinality(P[i]) = k - 1
    BY <1>3
  <2>2. Cardinality({j \in S : j < i}) = k - 1
    BY <1>2, <2>1
  <2>3. byId(S)[k] \in S /\ Cardinality({j \in S : j < byId(S)[k]}) = k - 1
    BY <1>4, <2>2
  <2> QED
    BY <1>2, <2>3
<1>7. \A i \in S : \E k \in 1..Cardinality(S) : byId(S)[k] = i
  <2> SUFFICES ASSUME NEW i \in S PROVE \E k \in 1..Cardinality(S) : byId(S)[k] = i
    OBVIOUS
  <2>1. PICK k \in 1..Cardinality(S) : k = Cardinality(P[i]) + 1
    BY <1>3
  <2>2. Cardinality(P[byId(S)[k]]) = Cardinality(P[i]) /\ byId(S)[k] \in S
    BY <1>5, <1>6, <2>1
  <2> QED
    BY <1>3, <2>2
<1>8. \A i, j \in 1..Cardinality(S) : byId(S)[i] = byId(S)[j] => i = j
  <2> SUFFICES ASSUME NEW i \in 1..Cardinality(S), NEW j \in 1..Cardinality(S),
                      byId(S)[i] = byId(S)[j]
               PROVE  i = j
    OBVIOUS
  <2>1. i - 1 = j - 1
    BY <1>6
  <2> QED
    BY <1>5, <2>1
<1> QED
  BY <1>4, <1>5, <1>6, <1>7, <1>8

-----------------------------------------------------------------------------
(* CockroachDB: what one record and what one cohort do to the database.    *)

\* The records of a generation by the end of whose window its investigation is
\* due, and whether there is one.
WindowOf(C, e) ==
  {m \in C : EventTime[m] > EventTime[e] - InvestigationWindow /\ EventTime[m] <= EventTime[e]}
Full(C) == \E e \in C : Cardinality(WindowOf(C, e)) >= InvestigationThreshold

\* Of a database: the generation of whatever is persisted has a row, the counts
\* are those of the records, an investigation is active where a window is full,
\* and only another replica's record is foreign.
KnownGenerations(d) == \A r \in Records : Persisted(d, r) => d.seen[r].generation \in DOMAIN d.occurrences
CountsAgree(d) == \A g \in DOMAIN d.occurrences : d.occurrences[g] = Cardinality(Contributors(d, g))
Investigated(d) == d.active <=> \E g \in DOMAIN d.occurrences : Full(Contributors(d, g))
OnlyOthersForeign(d) == \A r \in Records : d.seen[r] = Foreign => r \in Conflicting
DbInv(d) == /\ d \in Databases /\ KnownGenerations(d) /\ CountsAgree(d) /\ Investigated(d)
            /\ OnlyOthersForeign(d)

\* The times and the configuration are numbers.
LEMMA Numbers ==
  /\ \A r \in Records : /\ EventTime[r] \in Nat \ {0} /\ ObservedTime[r] \in Nat
                        /\ DeploymentOf[r] \in Nat
  /\ AllowedLateness \in Nat /\ QuietPeriod \in Nat /\ ReopenWindow \in Nat
  /\ InvestigationWindow \in Nat \ {0} /\ InvestigationThreshold \in Nat \ {0}
  /\ ReinvestigationInterval \in Nat /\ StateRetention \in Nat
<1>1. {AllowedLateness, QuietPeriod, ReopenWindow, InvestigationWindow,
       InvestigationThreshold, ReinvestigationInterval} \subseteq Nat \ {0}
  BY TimesAssumption
<1>2. /\ AllowedLateness \in Nat /\ QuietPeriod \in Nat /\ ReopenWindow \in Nat
      /\ InvestigationWindow \in Nat \ {0} /\ InvestigationThreshold \in Nat \ {0}
      /\ ReinvestigationInterval \in Nat
  BY <1>1
<1>3. StateRetention \in Nat
  BY <1>2 DEF StateRetention
<1>4. \A r \in Records : /\ EventTime[r] \in Nat /\ EventTime[r] > StateRetention + AllowedLateness
                         /\ ObservedTime[r] \in Nat /\ DeploymentOf[r] \in Nat
  BY TimesAssumption
<1>5. \A r \in Records : EventTime[r] \in Nat \ {0}
  BY <1>2, <1>3, <1>4
<1> QED
  BY <1>2, <1>3, <1>4, <1>5

\* A record that joins a generation fills only windows it is in: fiveInFive,
\* which looks at no other, finds whether one became full.
LEMMA WindowsFilled ==
  ASSUME NEW C \in SUBSET Records, NEW r \in Records
  PROVE  Full(C \cup {r}) <=>
           \/ Full(C)
           \/ \E e \in C \cup {r} :
                /\ EventTime[e] \in EventTime[r]..(EventTime[r] + InvestigationWindow - 1)
                /\ Cardinality({m \in C \cup {r} :
                      EventTime[m] \in (EventTime[e] - InvestigationWindow + 1)..EventTime[e]})
                     >= InvestigationThreshold
<1> DEFINE D == C \cup {r}
<1>0. /\ \A m \in D : m \in Records /\ EventTime[m] \in Nat
      /\ InvestigationWindow \in Nat \ {0} /\ InvestigationThreshold \in Nat
  BY Numbers
<1>1. \A e \in D : {m \in D : EventTime[m] \in (EventTime[e] - InvestigationWindow + 1)..EventTime[e]}
                     = WindowOf(D, e)
  BY <1>0 DEF WindowOf
<1>2. ASSUME NEW e \in C
      PROVE  Cardinality(WindowOf(C, e)) >= InvestigationThreshold
               => Cardinality(WindowOf(D, e)) >= InvestigationThreshold
  <2>1. IsFiniteSet(WindowOf(D, e)) /\ WindowOf(C, e) \in SUBSET WindowOf(D, e)
    BY RecordsAssumption, FS_Subset DEF WindowOf
  <2>2. /\ Cardinality(WindowOf(D, e)) \in Nat /\ Cardinality(WindowOf(C, e)) \in Nat
        /\ Cardinality(WindowOf(C, e)) <= Cardinality(WindowOf(D, e))
    BY <2>1, FS_Subset, FS_CardinalityType
  <2> QED
    BY <1>0, <2>2
<1>3. ASSUME NEW e \in D, r \notin WindowOf(D, e)
      PROVE  e \in C /\ WindowOf(D, e) = WindowOf(C, e)
  <2>1. e # r
    BY <1>0, <1>3 DEF WindowOf
  <2> QED
    BY <1>3, <2>1 DEF WindowOf
<1>4. ASSUME NEW e \in D, r \in WindowOf(D, e)
      PROVE  EventTime[e] \in EventTime[r]..(EventTime[r] + InvestigationWindow - 1)
  BY <1>0, <1>4 DEF WindowOf
<1>5. ASSUME Full(D)
      PROVE  \/ Full(C)
             \/ \E e \in D : /\ EventTime[e] \in EventTime[r]..(EventTime[r] + InvestigationWindow - 1)
                             /\ Cardinality(WindowOf(D, e)) >= InvestigationThreshold
  BY <1>3, <1>4, <1>5 DEF Full
<1>6. Full(C) => Full(D)
  BY <1>2 DEF Full
<1> QED
  BY <1>1, <1>5, <1>6 DEF Full

\* A verdict is none of the marks for the lack of one.
LEMMA VerdictsFound ==
  \A v \in Verdicts : v # None /\ v # Foreign /\ v.generation \in Keys /\ v.evidenceOnly \in BOOLEAN
BY NoneAssumption DEF Verdicts

\* The parts of a database.
LEMMA DbTypes ==
  ASSUME NEW d \in Databases
  PROVE  /\ d.seen \in [Records -> Verdicts \cup {None, Foreign}]
         /\ DOMAIN d.occurrences \subseteq Keys
         /\ d.occurrences \in [DOMAIN d.occurrences -> Nat]
         /\ d.active \in BOOLEAN
         /\ \A r \in Records : Persisted(d, r) => d.seen[r] \in Verdicts
         /\ \A g : Contributors(d, g) \in SUBSET Records /\ IsFiniteSet(Contributors(d, g))
<1>1. /\ d.seen \in [Records -> Verdicts \cup {None, Foreign}] /\ d.active \in BOOLEAN
      /\ d.occurrences \in UNION {[G -> Nat] : G \in SUBSET Keys}
  BY DEF Databases
<1>2. PICK G \in SUBSET Keys : d.occurrences \in [G -> Nat]
  BY <1>1
<1>3. \A r \in Records : Persisted(d, r) => d.seen[r] \in Verdicts
  BY <1>1 DEF Persisted
<1>4. \A g : Contributors(d, g) \in SUBSET Records
  BY DEF Contributors
<1>5. \A g : IsFiniteSet(Contributors(d, g))
  BY <1>4, RecordsAssumption, FS_Subset
<1> QED
  BY <1>1, <1>2, <1>3, <1>4, <1>5

\* A first contribution: the verdict, its generation's row and one occurrence
\* more in it, and the investigation where it fills a window.
LEMMA Contributed ==
  ASSUME NEW d \in Databases, NEW r \in Records, NEW v \in Verdicts
  PROVE  LET g == v.generation
             e == contribute(d, r, v)
         IN  /\ e \in Databases
             /\ e.seen = [d.seen EXCEPT ![r] = v]
             /\ DOMAIN e.occurrences = DOMAIN d.occurrences \cup {g}
             /\ \A x \in DOMAIN d.occurrences \ {g} : e.occurrences[x] = d.occurrences[x]
             /\ e.occurrences[g] = (IF g \in DOMAIN d.occurrences THEN d.occurrences[g] ELSE 0) + 1
             /\ e.active <=> d.active \/ fiveInFiveSatisfied(e, r, g)
<1>0. /\ d.seen \in [Records -> Verdicts \cup {None, Foreign}] /\ d.active \in BOOLEAN
      /\ DOMAIN d.occurrences \subseteq Keys /\ d.occurrences \in [DOMAIN d.occurrences -> Nat]
      /\ v.generation \in Keys
  BY DbTypes, VerdictsFound
<1>1. PICK seen, occurrences, active : d = [seen |-> seen, occurrences |-> occurrences, active |-> active]
  BY DEF Databases
<1>2. PICK g \in Keys : g = v.generation
  BY <1>0
<1>3. PICK more : more = [x \in DOMAIN occurrences \cup {g} |->
                            IF x = g THEN (IF g \in DOMAIN occurrences THEN occurrences[g] ELSE 0) + 1
                            ELSE occurrences[x]]
  OBVIOUS
<1>4. PICK f : f = [seen |-> [seen EXCEPT ![r] = v], occurrences |-> more, active |-> active]
  OBVIOUS
<1>5. [canonicalGeneration(d, g) EXCEPT !.seen[r] = v, !.occurrences[g] = @ + 1] = f
  <2>0. PICK rows : rows = [x \in DOMAIN occurrences \cup {g} |->
                              IF x \in DOMAIN occurrences THEN occurrences[x] ELSE 0]
    OBVIOUS
  <2>1. canonicalGeneration(d, g) = [seen |-> seen, active |-> active, occurrences |-> rows]
    BY <1>1, <2>0 DEF canonicalGeneration
  <2>2. more = [rows EXCEPT ![g] = @ + 1]
    BY <1>3, <2>0
  <2>3. PICK c : c = canonicalGeneration(d, g)
    OBVIOUS
  <2>4. c = [seen |-> seen, active |-> active, occurrences |-> rows]
    BY <2>1, <2>3
  <2>5. [c EXCEPT !.seen[r] = v]
          = [seen |-> [seen EXCEPT ![r] = v], active |-> active, occurrences |-> rows]
    BY <2>4
  <2>6. [[c EXCEPT !.seen[r] = v] EXCEPT !.occurrences[g] = @ + 1] = f
    <3>1. PICK s : s = [seen EXCEPT ![r] = v]
      OBVIOUS
    <3>2. PICK b : b = [c EXCEPT !.seen[r] = v]
      OBVIOUS
    <3>3. b = [seen |-> s, active |-> active, occurrences |-> rows]
      BY <2>5, <3>1, <3>2
    <3>4. [b EXCEPT !.occurrences[g] = @ + 1] = [b EXCEPT !.occurrences = more]
      BY <2>2, <3>3
    <3>5. [b EXCEPT !.occurrences = more]
            = [seen |-> s, active |-> active, occurrences |-> more]
      BY <3>3
    <3> QED
      BY <1>4, <3>1, <3>2, <3>4, <3>5
  <2>7. [c EXCEPT !.seen[r] = v, !.occurrences[g] = @ + 1]
          = [[c EXCEPT !.seen[r] = v] EXCEPT !.occurrences[g] = @ + 1]
    BY <2>4, <2>5
  <2> QED
    BY <2>3, <2>6, <2>7
<1>6. contribute(d, r, v) = IF fiveInFiveSatisfied(f, r, g) THEN activateInvestigation(f) ELSE f
  BY <1>2, <1>5 DEF contribute
<1>7. /\ seen \in [Records -> Verdicts \cup {None, Foreign}] /\ active \in BOOLEAN
      /\ DOMAIN occurrences \subseteq Keys /\ occurrences \in [DOMAIN occurrences -> Nat]
      /\ seen = d.seen /\ occurrences = d.occurrences /\ active = d.active
  BY <1>0, <1>1
<1>8. /\ more \in [DOMAIN occurrences \cup {g} -> Nat] /\ DOMAIN occurrences \cup {g} \in SUBSET Keys
      /\ [seen EXCEPT ![r] = v] \in [Records -> Verdicts \cup {None, Foreign}]
  BY <1>3, <1>7
<1>9. more \in UNION {[G -> Nat] : G \in SUBSET Keys}
  BY <1>8
<1>10. f \in Databases
  BY <1>4, <1>7, <1>8, <1>9 DEF Databases
<1>11. CASE fiveInFiveSatisfied(f, r, g)
  <2>1. PICK e : e = [seen |-> [seen EXCEPT ![r] = v], occurrences |-> more, active |-> TRUE]
    OBVIOUS
  <2>2. contribute(d, r, v) = e
    BY <1>4, <1>6, <1>11, <2>1 DEF activateInvestigation
  <2>3. e \in Databases
    BY <1>8, <1>9, <2>1 DEF Databases
  <2>4. \A x : Contributors(e, x) = Contributors(f, x)
    BY <1>4, <2>1 DEF Contributors, Persisted
  <2>5. fiveInFiveSatisfied(e, r, g)
    BY <1>11, <2>4 DEF fiveInFiveSatisfied
  <2> QED
    BY <1>2, <1>3, <1>7, <2>1, <2>2, <2>3, <2>5
<1>12. CASE ~fiveInFiveSatisfied(f, r, g)
  <2>1. contribute(d, r, v) = f
    BY <1>6, <1>12
  <2>2. f.active <=> d.active \/ fiveInFiveSatisfied(f, r, g)
    BY <1>4, <1>7, <1>12
  <2>3. /\ f.seen = [d.seen EXCEPT ![r] = v] /\ f.occurrences = more
        /\ occurrences = d.occurrences
    BY <1>4, <1>7
  <2>4. /\ DOMAIN more = DOMAIN d.occurrences \cup {g}
        /\ \A x \in DOMAIN d.occurrences \ {g} : more[x] = d.occurrences[x]
        /\ more[g] = (IF g \in DOMAIN d.occurrences THEN d.occurrences[g] ELSE 0) + 1
    BY <1>3, <2>3
  <2> QED
    BY <1>2, <1>10, <2>1, <2>2, <2>3, <2>4
<1> QED
  BY <1>11, <1>12

\* What is persisted stays so, and a record not rejected joins it; rows, counts
\* and investigations agree with the records as before.
LEMMA ProcessOneKeeps ==
  ASSUME NEW d, DbInv(d), NEW r \in Records, NEW v \in Verdicts, ~Rejects(d, r, v)
  PROVE  /\ DbInv(processOne(d, r, v)) /\ Persisted(processOne(d, r, v), r)
         /\ \A q \in Records : Persisted(d, q) => Persisted(processOne(d, r, v), q)
         /\ \A q \in Records :
              processOne(d, r, v).seen[q] # d.seen[q]
                => q = r /\ ~Persisted(d, q) /\ processOne(d, r, v).seen[q] = v
<1>0. /\ d \in Databases /\ KnownGenerations(d) /\ CountsAgree(d) /\ Investigated(d)
      /\ OnlyOthersForeign(d)
      /\ v # None /\ v # Foreign /\ v.generation \in Keys /\ v.evidenceOnly \in BOOLEAN
  BY VerdictsFound DEF DbInv
<1>1. CASE Persisted(d, r)
  <2>1. processOne(d, r, v) = d
    BY <1>1 DEF processOne
  <2> QED
    BY <1>1, <2>1
<1>2. CASE ~Persisted(d, r) /\ v.evidenceOnly
  <2>1. d.seen[r] = None /\ v.generation \in DOMAIN d.occurrences
    BY <1>2 DEF Rejects, Persisted
  <2>2. PICK e : e = processOne(d, r, v)
    OBVIOUS
  <2>3. e = [d EXCEPT !.seen[r] = v]
    BY <1>2, <2>2 DEF processOne
  <2>4. /\ e \in Databases /\ e.seen = [d.seen EXCEPT ![r] = v]
        /\ e.occurrences = d.occurrences /\ e.active = d.active
    <3>1. [d.seen EXCEPT ![r] = v] \in [Records -> Verdicts \cup {None, Foreign}]
      BY <1>0, DbTypes
    <3> QED
      BY <1>0, <2>3, <3>1 DEF Databases
  <2>5. /\ e.seen[r] = v /\ Persisted(e, r)
        /\ \A q \in Records \ {r} : e.seen[q] = d.seen[q] /\ (Persisted(e, q) <=> Persisted(d, q))
    BY <1>0, <2>4, DbTypes DEF Persisted
  <2>6. \A g : Contributors(e, g) = Contributors(d, g)
    BY <1>2, <2>5 DEF Contributors
  <2>7. KnownGenerations(e)
    BY <1>0, <2>1, <2>4, <2>5 DEF KnownGenerations
  <2>8. CountsAgree(e)
    BY <1>0, <2>4, <2>6 DEF CountsAgree
  <2>9. Investigated(e)
    BY <1>0, <2>4, <2>6 DEF Investigated
  <2>10. OnlyOthersForeign(e)
    BY <1>0, <2>5 DEF OnlyOthersForeign
  <2> QED
    BY <1>2, <2>2, <2>4, <2>5, <2>7, <2>8, <2>9, <2>10 DEF DbInv
<1>3. CASE ~Persisted(d, r) /\ ~v.evidenceOnly
  <2>1. PICK g \in Keys : g = v.generation
    BY <1>0
  <2>2. PICK e : e = processOne(d, r, v)
    OBVIOUS
  <2>3. e = contribute(d, r, v)
    BY <1>3, <2>2 DEF processOne
  <2>4. /\ e \in Databases /\ e.seen = [d.seen EXCEPT ![r] = v]
        /\ DOMAIN e.occurrences = DOMAIN d.occurrences \cup {g}
        /\ \A x \in DOMAIN d.occurrences \ {g} : e.occurrences[x] = d.occurrences[x]
        /\ e.occurrences[g] = (IF g \in DOMAIN d.occurrences THEN d.occurrences[g] ELSE 0) + 1
        /\ e.active <=> d.active \/ fiveInFiveSatisfied(e, r, g)
    BY <1>0, <2>1, <2>3, Contributed
  <2>5. /\ e.seen[r] = v /\ Persisted(e, r)
        /\ \A q \in Records \ {r} : e.seen[q] = d.seen[q] /\ (Persisted(e, q) <=> Persisted(d, q))
    BY <1>0, <2>4, DbTypes DEF Persisted
  <2>6. PICK C \in SUBSET Records : C = Contributors(d, g) /\ IsFiniteSet(C)
    BY <1>0, DbTypes
  <2>7. r \notin C /\ Contributors(e, g) = C \cup {r}
    BY <1>3, <2>1, <2>5, <2>6 DEF Contributors
  <2>8. \A x : x # g => Contributors(e, x) = Contributors(d, x)
    BY <1>3, <2>1, <2>5 DEF Contributors
  <2>9. g \notin DOMAIN d.occurrences => C = {}
    BY <1>0, <2>6 DEF KnownGenerations, Contributors
  <2>10. KnownGenerations(e)
    BY <1>0, <2>1, <2>4, <2>5 DEF KnownGenerations
  <2>11. CountsAgree(e)
    <3>1. Cardinality(C \cup {r}) = Cardinality(C) + 1 /\ Cardinality({}) = 0
      BY <2>6, <2>7, FS_AddElement, FS_EmptySet
    <3>2. e.occurrences[g] = Cardinality(Contributors(e, g))
      BY <1>0, <2>4, <2>6, <2>7, <2>9, <3>1 DEF CountsAgree
    <3>3. \A x \in DOMAIN d.occurrences \ {g} : e.occurrences[x] = Cardinality(Contributors(e, x))
      BY <1>0, <2>4, <2>8 DEF CountsAgree
    <3> QED
      BY <2>4, <3>2, <3>3 DEF CountsAgree
  <2>12. Investigated(e)
    <3>1. Full(Contributors(e, g)) <=> Full(C) \/ fiveInFiveSatisfied(e, r, g)
      BY <2>7, WindowsFilled DEF fiveInFiveSatisfied
    <3>2. Full(C) => g \in DOMAIN d.occurrences
      BY <2>9 DEF Full
    <3>3. \A x \in DOMAIN d.occurrences \ {g} : Full(Contributors(e, x)) <=> Full(Contributors(d, x))
      BY <2>8
    <3>4. (\E x \in DOMAIN e.occurrences : Full(Contributors(e, x)))
            <=> (\E x \in DOMAIN d.occurrences : Full(Contributors(d, x))) \/ fiveInFiveSatisfied(e, r, g)
      BY <2>4, <2>6, <3>1, <3>2, <3>3
    <3> QED
      BY <1>0, <2>4, <3>4 DEF Investigated
  <2>13. OnlyOthersForeign(e)
    BY <1>0, <2>5 DEF OnlyOthersForeign
  <2> QED
    BY <1>3, <2>2, <2>4, <2>5, <2>10, <2>11, <2>12, <2>13 DEF DbInv
<1> QED
  BY <1>0, <1>1, <1>2, <1>3

-----------------------------------------------------------------------------
(* ProcessBatch over a whole cohort.                                       *)

\* One input of the transaction, which fails with the first it rejects.
ProcessNext(acc, r) ==
  IF acc = None \/ Rejects(acc, r, Decision(eng, r)) THEN None
  ELSE processOne(acc, r, Decision(eng, r))
BatchFold(seq, d) ==
  CHOOSE it : it = [s \in SUBSET DOMAIN seq |->
                     IF s = {} THEN d ELSE ProcessNext(it[s \ {Max(s)}], seq[Max(s)])]

\* The states h of the transaction, one after each of its n inputs.
IsBatch(d, cohort, n, h, seq) ==
  /\ seq \in [1..n -> cohort] /\ \A r \in cohort : \E k \in 1..n : seq[k] = r
  /\ \A i, j \in 1..n : seq[i] = seq[j] => i = j
  /\ h[0] = d /\ \A k \in 1..n : h[k] = ProcessNext(h[k - 1], seq[k])
  /\ ProcessBatch(d, cohort) = h[n]

\* ProcessBatch goes through each member of its cohort in turn.
LEMMA BatchSteps ==
  ASSUME NEW d, DbInv(d), NEW cohort \in SUBSET Records,
         \A r \in cohort : Decision(eng, r) \in Verdicts
  PROVE  \E n \in Nat : \E h, seq : IsBatch(d, cohort, n, h, seq)
<1> cohort \in SUBSET Nat /\ IsFiniteSet(cohort)
  BY RecordsAssumption, FS_Subset
<1>0. PICK n \in Nat : n = Cardinality(cohort)
  BY IdsInOrder
<1>1. PICK seq \in [1..n -> cohort] :
        /\ seq = byId(cohort) /\ \A r \in cohort : \E k \in 1..n : seq[k] = r
        /\ \A i, j \in 1..n : seq[i] = seq[j] => i = j
  BY <1>0, IdsInOrder
<1> DEFINE A == {x \in Databases : DbInv(x)} \cup {None}
           Solves(it) == it = [s \in SUBSET DOMAIN seq |->
                                IF s = {} THEN d ELSE ProcessNext(it[s \ {Max(s)}], seq[Max(s)])]
<1>2. \A a \in A, i \in 1..n : ProcessNext(a, seq[i]) \in A
  <2> SUFFICES ASSUME NEW a \in A, NEW i \in 1..n PROVE ProcessNext(a, seq[i]) \in A
    OBVIOUS
  <2>1. seq[i] \in Records /\ Decision(eng, seq[i]) \in Verdicts
    BY <1>1
  <2>2. CASE a = None \/ Rejects(a, seq[i], Decision(eng, seq[i]))
    BY <2>2 DEF ProcessNext
  <2>3. CASE ~(a = None \/ Rejects(a, seq[i], Decision(eng, seq[i])))
    <3>1. DbInv(a)
      BY <2>3
    <3>2. DbInv(processOne(a, seq[i], Decision(eng, seq[i])))
      BY <2>1, <2>3, <3>1, ProcessOneKeeps
    <3> QED
      BY <2>3, <3>2 DEF ProcessNext, DbInv
  <2> QED
    BY <2>2, <2>3
<1>3. d \in A
  BY DEF DbInv
<1>4. PICK F : F = [ai \in A \X (1..n) |-> ProcessNext(ai[1], seq[ai[2]])]
  OBVIOUS
<1> HIDE DEF A
<1>5. F \in [A \X (1..n) -> A] /\ \A a \in A, i \in 1..n : F[a, i] = ProcessNext(a, seq[i])
  BY <1>2, <1>4
<1>6. PICK it \in [SUBSET (1..n) -> A] : IsFold(it, d, F, n)
  BY <1>3, <1>5, FoldExists
<1>7. Solves(it)
  <2>1. ASSUME NEW s \in SUBSET (1..n), s # {}
        PROVE  F[it[s \ {Max(s)}], Max(s)] = ProcessNext(it[s \ {Max(s)}], seq[Max(s)])
    <3>1. Max(s) \in 1..n /\ s \ {Max(s)} \in SUBSET (1..n)
      BY <2>1, MaxOfPositions
    <3>2. it[s \ {Max(s)}] \in A
      BY <3>1
    <3> QED
      BY <1>5, <3>1, <3>2
  <2> QED
    BY <1>6, <2>1 DEF IsFold
<1>8. PICK g : Solves(g) /\ g = BatchFold(seq, d)
  <2>1. BatchFold(seq, d) = CHOOSE x : Solves(x)
    BY DEF BatchFold
  <2> HIDE DEF Solves
  <2> QED
    BY <1>7, <2>1
<1>9. ProcessBatch(d, cohort) = g[1..n]
  <2>1. ProcessBatch(d, cohort) = BatchFold(byId(cohort), d)[DOMAIN byId(cohort)]
    BY DEF ProcessBatch, FoldLeft, MapThenFoldSet, ProcessNext, BatchFold
  <2> QED
    BY <1>1, <1>8, <2>1
<1>10. PICK h : h = [k \in 0..n |-> g[1..k]]
  OBVIOUS
<1>11. h[0] = d /\ h[n] = g[1..n]
  <2>1. 1..0 = {} /\ {} \in SUBSET (1..n) /\ 0 \in 0..n /\ n \in 0..n
    OBVIOUS
  <2> QED
    BY <1>8, <1>10, <2>1
<1>12. ASSUME NEW k \in 1..n PROVE h[k] = ProcessNext(h[k - 1], seq[k])
  <2>1. /\ 1..k \in SUBSET (1..n) /\ 1..k # {} /\ Max(1..k) = k
        /\ (1..k) \ {Max(1..k)} = 1..(k - 1) /\ k \in 0..n /\ k - 1 \in 0..n
    BY FirstPositions
  <2>2. g[1..k] = ProcessNext(g[1..(k - 1)], seq[k])
    BY <1>8, <2>1
  <2> QED
    BY <1>10, <2>1, <2>2
<1>13. IsBatch(d, cohort, n, h, seq)
  BY <1>1, <1>9, <1>11, <1>12 DEF IsBatch
<1> QED
  BY <1>13

\* A verdict is written only for a record of the cohort that had none: the one the
\* engine reaches now.
Recorded(d, e, cohort, r) ==
  e.seen[r] # d.seen[r] => r \in cohort /\ ~Persisted(d, r) /\ e.seen[r] = Decision(eng, r)

\* A cohort that is not rejected is persisted, all of it, beside what already
\* was, and the database agrees with its records as before.
LEMMA BatchKeeps ==
  ASSUME NEW d, DbInv(d), NEW cohort \in SUBSET Records,
         \A r \in cohort : Decision(eng, r) \in Verdicts,
         ProcessBatch(d, cohort) # None
  PROVE  /\ DbInv(ProcessBatch(d, cohort))
         /\ \A r \in cohort : Persisted(ProcessBatch(d, cohort), r)
         /\ \A r \in Records : Persisted(d, r) => Persisted(ProcessBatch(d, cohort), r)
         /\ \A r \in Records : Recorded(d, ProcessBatch(d, cohort), cohort, r)
<1>1. PICK n \in Nat : \E h, seq : IsBatch(d, cohort, n, h, seq)
  BY BatchSteps
<1>2. PICK h, seq :
        /\ seq \in [1..n -> cohort] /\ \A r \in cohort : \E k \in 1..n : seq[k] = r
        /\ h[0] = d /\ \A k \in 1..n : h[k] = ProcessNext(h[k - 1], seq[k])
        /\ ProcessBatch(d, cohort) = h[n]
  BY <1>1 DEF IsBatch
<1> DEFINE Fine(k) == /\ DbInv(h[k])
                      /\ \A j \in 1..k : Persisted(h[k], seq[j])
                      /\ \A r \in Records : Persisted(d, r) => Persisted(h[k], r)
                      /\ \A r \in Records : Recorded(d, h[k], cohort, r)
           Bad == {k \in Nat : k <= n /\ h[k] # None /\ ~Fine(k)}
<1>3. ASSUME NEW k \in 1..n, h[k] # None
      PROVE  /\ h[k - 1] # None /\ seq[k] \in cohort /\ Decision(eng, seq[k]) \in Verdicts
             /\ ~Rejects(h[k - 1], seq[k], Decision(eng, seq[k]))
             /\ h[k] = processOne(h[k - 1], seq[k], Decision(eng, seq[k]))
  BY <1>2, <1>3 DEF ProcessNext
<1>4. Bad = {}
  <2> SUFFICES ASSUME Bad # {} PROVE FALSE
    OBVIOUS
  <2>1. PICK k \in Bad : \A m \in Bad : k <= m
    <3> HIDE DEF Fine
    <3> QED
      BY NatLeast
  <2>2. k # 0
    <3>1. \A j : j \notin 1..0
      OBVIOUS
    <3>2. Fine(0)
      BY <1>2, <3>1 DEF Recorded
    <3> HIDE DEF Fine
    <3> QED
      BY <2>1, <3>2
  <2>3. k \in 1..n /\ k - 1 \in Nat /\ k - 1 <= n /\ k - 1 < k /\ h[k] # None
    <3> HIDE DEF Fine
    <3> QED
      BY <2>1, <2>2
  <2>4. h[k - 1] # None /\ seq[k] \in Records /\ Decision(eng, seq[k]) \in Verdicts
    BY <1>3, <2>3
  <2>5. Fine(k - 1)
    <3> HIDE DEF Fine
    <3> QED
      BY <2>1, <2>3, <2>4
  <2>6. /\ DbInv(h[k]) /\ Persisted(h[k], seq[k])
        /\ \A q \in Records : Persisted(h[k - 1], q) => Persisted(h[k], q)
        /\ \A q \in Records :
             h[k].seen[q] # h[k - 1].seen[q]
               => q = seq[k] /\ ~Persisted(h[k - 1], q) /\ h[k].seen[q] = Decision(eng, seq[k])
    BY <1>3, <2>3, <2>4, <2>5, ProcessOneKeeps
  <2>7. \A j \in 1..k : j = k \/ j \in 1..(k - 1)
    BY <2>3
  <2>8. \A j \in 1..(k - 1) : seq[j] \in Records
    BY <1>2, <2>3
  <2>9. ASSUME NEW q \in Records PROVE Recorded(d, h[k], cohort, q)
    <3>1. CASE h[k].seen[q] = h[k - 1].seen[q]
      BY <2>5, <3>1 DEF Recorded
    <3>2. CASE h[k].seen[q] # h[k - 1].seen[q]
      <4>1. q = seq[k] /\ ~Persisted(h[k - 1], q) /\ h[k].seen[q] = Decision(eng, q)
        BY <2>6, <3>2
      <4>2. q \in cohort /\ ~Persisted(d, q)
        BY <1>3, <2>3, <2>5, <4>1
      <4> QED
        BY <4>1, <4>2 DEF Recorded
    <3> QED
      BY <3>1, <3>2
  <2>10. Fine(k)
    BY <2>5, <2>6, <2>7, <2>8, <2>9
  <2> HIDE DEF Fine
  <2> QED
    BY <2>1, <2>10
<1>5. Fine(n)
  <2> HIDE DEF Fine
  <2> QED
    BY <1>2, <1>4
<1> QED
  BY <1>2, <1>5

-----------------------------------------------------------------------------
(* The rule engine keeps to its types.                                     *)

\* An episode, and one that is of the deployment of its records and begins no
\* later than any of them.
Shapes == [deployment      : {DeploymentOf[r] : r \in Records},
           records         : SUBSET Records,
           firstOccurrence : {EventTime[r] : r \in Records},
           lastActivity    : Nat]
Gens == {g \in Shapes : \A r \in g.records :
                          g.deployment = DeploymentOf[r] /\ g.firstOccurrence <= EventTime[r]}

\* The record is in one of the episodes.
Files(generations, r) == \E i \in DOMAIN generations : r \in generations[i].records

Families ==
  [events : SUBSET Records, evidence : SUBSET Records, attached : SUBSET Records,
   generations : Seq(Gens), prunedGenerations : Nat,
   maxEventTime : Nat, watermark : Int, finalizedThrough : Int, advancedTo : Nat,
   lastActivity : Nat, activeInvestigation : BOOLEAN]

\* Records in the order they are folded in, none left out.
LEMMA TimesInOrder ==
  ASSUME NEW S \in SUBSET Records
  PROVE  /\ Cardinality(S) \in Nat /\ byTime(S) \in [1..Cardinality(S) -> S]
         /\ \A r \in S : \E k \in 1..Cardinality(S) : byTime(S)[k] = r
<1>1. IsFiniteSet(S) /\ Cardinality(S) \in Nat
  BY RecordsAssumption, FS_Subset, FS_CardinalityType
<1>2. PICK P \in [S -> SUBSET S] : \A i \in S : P[i] = {j \in S : sortsBefore(j, i)}
  <2>1. [i \in S |-> {j \in S : sortsBefore(j, i)}] \in [S -> SUBSET S]
    OBVIOUS
  <2> QED
    BY <2>1
<1>3. /\ \A k \in 1..Cardinality(S) : \E i \in S : Cardinality(P[i]) = k - 1
      /\ \A i \in S : Cardinality(P[i]) + 1 \in 1..Cardinality(S)
      /\ \A i, j \in S : Cardinality(P[i]) = Cardinality(P[j]) => i = j
  <2>0. \A i \in S : i \in Nat /\ EventTime[i] \in Nat /\ DeploymentOf[i] \in Nat
    BY RecordsAssumption, Numbers
  <2>1. \A i \in S : i \notin P[i]
    BY <1>2, <2>0 DEF sortsBefore
  <2>2. \A i, j \in S : i # j => i \in P[j] \/ j \in P[i]
    BY <1>2, <2>0 DEF sortsBefore
  <2>3. \A i, j \in S : i \in P[j] => P[i] \subseteq P[j]
    <3> SUFFICES ASSUME NEW i \in S, NEW j \in S, sortsBefore(i, j),
                        NEW q \in S, sortsBefore(q, i)
                 PROVE  sortsBefore(q, j)
      BY <1>2
    <3> QED
      BY <2>0 DEF sortsBefore
  <2> QED
    BY <1>1, <2>1, <2>2, <2>3, Ranks
<1>4. byTime(S) = [k \in 1..Cardinality(S) |->
                    CHOOSE i \in S : Cardinality({j \in S : sortsBefore(j, i)}) = k - 1]
  BY DEF byTime, inOrder
<1>5. ASSUME NEW k \in 1..Cardinality(S)
      PROVE  byTime(S)[k] \in S /\ Cardinality(P[byTime(S)[k]]) = k - 1
  <2>1. PICK i \in S : Cardinality(P[i]) = k - 1
    BY <1>3
  <2>2. Cardinality({j \in S : sortsBefore(j, i)}) = k - 1
    BY <1>2, <2>1
  <2>3. byTime(S)[k] \in S /\ Cardinality({j \in S : sortsBefore(j, byTime(S)[k])}) = k - 1
    BY <1>4, <2>2
  <2> QED
    BY <1>2, <2>3
<1>6. ASSUME NEW r \in S PROVE \E k \in 1..Cardinality(S) : byTime(S)[k] = r
  <2>1. PICK k \in 1..Cardinality(S) : k = Cardinality(P[r]) + 1
    BY <1>3
  <2>2. Cardinality(P[r]) \in Nat
    BY <1>1, FS_Subset, FS_CardinalityType
  <2>3. Cardinality(P[byTime(S)[k]]) = Cardinality(P[r]) /\ byTime(S)[k] \in S
    BY <1>5, <2>1, <2>2
  <2> QED
    BY <1>3, <2>3
<1> QED
  BY <1>1, <1>4, <1>5, <1>6

\* The parts of an episode.
LEMMA GenTypes ==
  ASSUME NEW g \in Gens
  PROVE  /\ g.deployment \in {DeploymentOf[r] : r \in Records} /\ g.deployment \in Nat
         /\ g.records \in SUBSET Records
         /\ g.firstOccurrence \in {EventTime[r] : r \in Records} /\ g.firstOccurrence \in Nat \ {0}
         /\ g.lastActivity \in Nat
         /\ \A r \in g.records : g.deployment = DeploymentOf[r] /\ g.firstOccurrence <= EventTime[r]
         /\ g = [deployment |-> g.deployment, records |-> g.records,
                 firstOccurrence |-> g.firstOccurrence, lastActivity |-> g.lastActivity]
<1>1. /\ g.deployment \in {DeploymentOf[r] : r \in Records} /\ g.records \in SUBSET Records
      /\ g.firstOccurrence \in {EventTime[r] : r \in Records} /\ g.lastActivity \in Nat
  BY DEF Gens, Shapes
<1>2. g.deployment \in Nat /\ g.firstOccurrence \in Nat \ {0}
  BY <1>1, Numbers
<1>3. \A r \in g.records : g.deployment = DeploymentOf[r] /\ g.firstOccurrence <= EventTime[r]
  BY DEF Gens
<1>4. g = [deployment |-> g.deployment, records |-> g.records,
           firstOccurrence |-> g.firstOccurrence, lastActivity |-> g.lastActivity]
  BY DEF Gens, Shapes
<1> QED
  BY <1>1, <1>2, <1>3, <1>4

\* An episode is made of its parts.
LEMMA GenMade ==
  ASSUME NEW deployment \in {DeploymentOf[r] : r \in Records}, NEW records \in SUBSET Records,
         NEW first \in {EventTime[r] : r \in Records}, NEW last \in Nat,
         \A r \in records : deployment = DeploymentOf[r] /\ first <= EventTime[r]
  PROVE  [deployment |-> deployment, records |-> records, firstOccurrence |-> first,
          lastActivity |-> last] \in Gens
<1>1. PICK g : g = [deployment |-> deployment, records |-> records, firstOccurrence |-> first,
                    lastActivity |-> last]
  OBVIOUS
<1>2. g \in Shapes /\ g.records = records /\ g.deployment = deployment /\ g.firstOccurrence = first
  BY <1>1 DEF Shapes
<1> QED
  BY <1>1, <1>2 DEF Gens

\* The positions of a list of episodes in the order the episodes begin, none left
\* out.
LEMMA StartsInOrder ==
  ASSUME NEW generations \in Seq(Gens)
  PROVE  /\ byStart(generations) \in [1..Len(generations) -> 1..Len(generations)]
         /\ \A i \in 1..Len(generations) :
              \E k \in 1..Len(generations) : byStart(generations)[k] = i
<1>1. PICK n \in Nat : n = Len(generations) /\ DOMAIN generations = 1..n
  OBVIOUS
<1>2. IsFiniteSet(1..n) /\ Cardinality(1..n) = n
  BY FS_Interval
<1>3. PICK P \in [1..n -> SUBSET (1..n)] :
        \A i \in 1..n : P[i] = {j \in 1..n : beginsBefore(generations, j, i)}
  <2>1. [i \in 1..n |-> {j \in 1..n : beginsBefore(generations, j, i)}] \in [1..n -> SUBSET (1..n)]
    OBVIOUS
  <2> QED
    BY <2>1
<1>4. /\ \A k \in 1..Cardinality(1..n) : \E i \in 1..n : Cardinality(P[i]) = k - 1
      /\ \A i \in 1..n : Cardinality(P[i]) + 1 \in 1..Cardinality(1..n)
      /\ \A i, j \in 1..n : Cardinality(P[i]) = Cardinality(P[j]) => i = j
  <2>0. \A i \in 1..n : /\ generations[i].firstOccurrence \in Nat
                        /\ generations[i].deployment \in Nat
    BY <1>1, GenTypes
  <2>1. \A i \in 1..n : i \notin P[i]
    BY <1>3, <2>0 DEF beginsBefore
  <2>2. \A i, j \in 1..n : i # j => i \in P[j] \/ j \in P[i]
    <3> SUFFICES ASSUME NEW i \in 1..n, NEW j \in 1..n, i # j
                 PROVE  beginsBefore(generations, i, j) \/ beginsBefore(generations, j, i)
      BY <1>3
    <3> QED
      BY <2>0 DEF beginsBefore
  <2>3. \A i, j \in 1..n : i \in P[j] => P[i] \subseteq P[j]
    <3> SUFFICES ASSUME NEW i \in 1..n, NEW j \in 1..n, beginsBefore(generations, i, j),
                        NEW q \in 1..n, beginsBefore(generations, q, i)
                 PROVE  beginsBefore(generations, q, j)
      BY <1>3
    <3>1. PICK sq \in Nat, dq \in Nat :
            sq = generations[q].firstOccurrence /\ dq = generations[q].deployment
      BY <2>0
    <3>2. PICK si \in Nat, di \in Nat :
            si = generations[i].firstOccurrence /\ di = generations[i].deployment
      BY <2>0
    <3>3. PICK sj \in Nat, dj \in Nat :
            sj = generations[j].firstOccurrence /\ dj = generations[j].deployment
      BY <2>0
    <3>4. sq < si \/ (sq = si /\ (dq < di \/ (dq = di /\ q < i)))
      BY <3>1, <3>2 DEF beginsBefore
    <3>5. si < sj \/ (si = sj /\ (di < dj \/ (di = dj /\ i < j)))
      BY <3>2, <3>3 DEF beginsBefore
    <3>6. sq < sj \/ (sq = sj /\ (dq < dj \/ (dq = dj /\ q < j)))
      BY <3>4, <3>5
    <3> QED
      BY <3>1, <3>3, <3>6 DEF beginsBefore
  <2> QED
    BY <1>2, <2>1, <2>2, <2>3, Ranks
<1>5. byStart(generations)
        = [k \in 1..Cardinality(1..n) |->
             CHOOSE i \in 1..n : Cardinality({j \in 1..n : beginsBefore(generations, j, i)}) = k - 1]
  BY <1>1 DEF byStart, inOrder
<1>6. ASSUME NEW k \in 1..n
      PROVE  byStart(generations)[k] \in 1..n /\ Cardinality(P[byStart(generations)[k]]) = k - 1
  <2>1. PICK i \in 1..n : Cardinality(P[i]) = k - 1
    BY <1>2, <1>4
  <2>2. Cardinality({j \in 1..n : beginsBefore(generations, j, i)}) = k - 1
    BY <1>3, <2>1
  <2>3. PICK b : b = byStart(generations)[k]
    OBVIOUS
  <2>4. b \in 1..n /\ Cardinality({j \in 1..n : beginsBefore(generations, j, b)}) = k - 1
    BY <1>2, <1>5, <2>2, <2>3
  <2> QED
    BY <1>3, <2>3, <2>4
<1>7. ASSUME NEW i \in 1..n PROVE \E k \in 1..n : byStart(generations)[k] = i
  <2>1. PICK k \in 1..n : k = Cardinality(P[i]) + 1
    BY <1>2, <1>4
  <2>2. Cardinality(P[i]) \in Nat
    <3>1. P[i] \in SUBSET (1..n)
      BY <1>3
    <3> QED
      BY <1>2, <3>1, FS_Subset, FS_CardinalityType
  <2>3. Cardinality(P[byStart(generations)[k]]) = Cardinality(P[i]) /\ byStart(generations)[k] \in 1..n
    BY <1>6, <2>1, <2>2
  <2> QED
    BY <1>4, <2>3
<1> QED
  BY <1>1, <1>2, <1>5, <1>6, <1>7

\* What a contribution changes of an episode.
LEMMA ContributionFields ==
  ASSUME NEW deployment, NEW records, NEW first, NEW last, NEW r
  PROVE  addContribution([deployment |-> deployment, records |-> records,
                          firstOccurrence |-> first, lastActivity |-> last], r)
           = [deployment |-> deployment, records |-> records \cup {r},
              firstOccurrence |-> IF first = Zero THEN EventTime[r] ELSE Earlier(first, EventTime[r]),
              lastActivity |-> Later(last, boundedActivity(r))]
<1>1. PICK g : g = [deployment |-> deployment, records |-> records, firstOccurrence |-> first,
                    lastActivity |-> last]
  OBVIOUS
<1>2. PICK more : more = records \cup {r}
  OBVIOUS
<1>3. PICK start : start = IF first = Zero THEN EventTime[r] ELSE Earlier(first, EventTime[r])
  OBVIOUS
<1>4. PICK end : end = Later(last, boundedActivity(r))
  OBVIOUS
<1>5. /\ g.records = records /\ g.firstOccurrence = first /\ g.lastActivity = last
  BY <1>1
<1>6. addContribution(g, r) = [g EXCEPT !.records = more, !.firstOccurrence = start,
                                        !.lastActivity = end]
  BY <1>2, <1>3, <1>4, <1>5 DEF addContribution
<1>7. [g EXCEPT !.records = more, !.firstOccurrence = start, !.lastActivity = end]
        = [deployment |-> deployment, records |-> more, firstOccurrence |-> start,
           lastActivity |-> end]
  <2>1. PICK a : a = [g EXCEPT !.records = more]
    OBVIOUS
  <2>2. a = [deployment |-> deployment, records |-> more, firstOccurrence |-> first,
             lastActivity |-> last]
    BY <1>1, <2>1
  <2>3. PICK b : b = [a EXCEPT !.firstOccurrence = start]
    OBVIOUS
  <2>4. b = [deployment |-> deployment, records |-> more, firstOccurrence |-> start,
             lastActivity |-> last]
    BY <2>2, <2>3
  <2>5. [b EXCEPT !.lastActivity = end]
          = [deployment |-> deployment, records |-> more, firstOccurrence |-> start,
             lastActivity |-> end]
    BY <2>4
  <2> QED
    BY <2>1, <2>3, <2>5
<1> QED
  BY <1>1, <1>2, <1>3, <1>4, <1>6, <1>7

\* A contribution to an episode of its deployment, its first included, leaves an
\* episode that holds it.
LEMMA ContributionKeeps ==
  ASSUME NEW r \in Records
  PROVE  /\ addContribution(newGeneration(DeploymentOf[r]), r) \in Gens
         /\ addContribution(newGeneration(DeploymentOf[r]), r).records = {r}
         /\ \A g \in Gens : /\ addContribution(g, r).records = g.records \cup {r}
                            /\ g.deployment = DeploymentOf[r] => addContribution(g, r) \in Gens
<1>1. /\ EventTime[r] \in Nat \ {0} /\ boundedActivity(r) \in Nat
  BY Numbers DEF boundedActivity, Earlier
<1>2. addContribution(newGeneration(DeploymentOf[r]), r)
        = [deployment |-> DeploymentOf[r], records |-> {r}, firstOccurrence |-> EventTime[r],
           lastActivity |-> Later(0, boundedActivity(r))]
  <2>1. addContribution([deployment |-> DeploymentOf[r], records |-> {}, firstOccurrence |-> 0,
                          lastActivity |-> 0], r)
          = [deployment |-> DeploymentOf[r], records |-> {} \cup {r},
             firstOccurrence |-> IF 0 = Zero THEN EventTime[r] ELSE Earlier(0, EventTime[r]),
             lastActivity |-> Later(0, boundedActivity(r))]
    BY ContributionFields
  <2> QED
    BY <2>1 DEF newGeneration, Zero
<1>3. addContribution(newGeneration(DeploymentOf[r]), r) \in Gens
  <2>1. Later(0, boundedActivity(r)) \in Nat
    BY <1>1 DEF Later
  <2>2. /\ DeploymentOf[r] \in {DeploymentOf[q] : q \in Records} /\ {r} \in SUBSET Records
        /\ EventTime[r] \in {EventTime[q] : q \in Records}
        /\ \A q \in {r} : DeploymentOf[r] = DeploymentOf[q] /\ EventTime[r] <= EventTime[q]
    BY <1>1
  <2> QED
    BY <1>2, <2>1, <2>2, GenMade
<1>4. addContribution(newGeneration(DeploymentOf[r]), r).records = {r}
  BY <1>2
<1>5. ASSUME NEW g \in Gens
      PROVE  /\ addContribution(g, r).records = g.records \cup {r}
             /\ g.deployment = DeploymentOf[r] => addContribution(g, r) \in Gens
  <2>1. PICK deployment, records, first, last :
          /\ g = [deployment |-> deployment, records |-> records, firstOccurrence |-> first,
                  lastActivity |-> last]
          /\ deployment = g.deployment /\ records = g.records /\ first = g.firstOccurrence
          /\ last = g.lastActivity
    BY GenTypes
  <2>2. /\ deployment \in {DeploymentOf[q] : q \in Records} /\ records \in SUBSET Records
        /\ first \in {EventTime[q] : q \in Records} /\ first \in Nat \ {0} /\ last \in Nat
        /\ \A q \in records : deployment = DeploymentOf[q] /\ first <= EventTime[q]
    BY <2>1, GenTypes
  <2>3. PICK more, start, end :
          /\ more = records \cup {r} /\ start = Earlier(first, EventTime[r])
          /\ end = Later(last, boundedActivity(r))
    OBVIOUS
  <2>4. addContribution(g, r) = [deployment |-> deployment, records |-> more,
                                 firstOccurrence |-> start, lastActivity |-> end]
    BY <2>1, <2>2, <2>3, ContributionFields DEF Zero
  <2>5. start \in {EventTime[q] : q \in Records} /\ start <= first /\ start <= EventTime[r]
    BY <1>1, <2>2, <2>3 DEF Earlier
  <2>6. end \in Nat
    BY <1>1, <2>2, <2>3 DEF Later
  <2>7. ASSUME deployment = DeploymentOf[r], NEW q \in more
        PROVE  deployment = DeploymentOf[q] /\ start <= EventTime[q]
    <3>1. q \in records \/ q = r
      BY <2>3
    <3>2. q \in Records /\ EventTime[q] \in Nat /\ start \in Nat
      BY <2>2, <2>5, <3>1, Numbers
    <3> QED
      BY <2>2, <2>5, <2>7, <3>1, <3>2
  <2>8. more \in SUBSET Records
    BY <2>2, <2>3
  <2>9. ASSUME g.deployment = DeploymentOf[r] PROVE addContribution(g, r) \in Gens
    <3>1. \A q \in more : deployment = DeploymentOf[q] /\ start <= EventTime[q]
      BY <2>1, <2>7, <2>9
    <3> QED
      BY <2>2, <2>4, <2>5, <2>6, <2>8, <3>1, GenMade
  <2> QED
    BY <2>1, <2>3, <2>4, <2>9
<1> QED
  BY <1>3, <1>4, <1>5

\* One fold step leaves a list of episodes with the record in one of them, and
\* with every record that was in one before.
LEMMA ExtendKeeps ==
  ASSUME NEW generations \in Seq(Gens), NEW r \in Records
  PROVE  /\ extend(generations, r) \in Seq(Gens) /\ Files(extend(generations, r), r)
         /\ \A q : Files(generations, q) => Files(extend(generations, r), q)
<1>0. PICK n \in Nat : n = Len(generations) /\ DOMAIN generations = 1..n
  OBVIOUS
<1>1. PICK g : g = addContribution(newGeneration(DeploymentOf[r]), r)
  OBVIOUS
<1>2. g \in Gens /\ r \in g.records
  BY <1>1, ContributionKeeps
<1>3. PICK grown : grown = Append(generations, g)
  OBVIOUS
<1>4. /\ grown \in Seq(Gens) /\ DOMAIN grown = 1..(n + 1) /\ grown[n + 1] = g
      /\ \A i \in 1..n : grown[i] = generations[i]
  BY <1>0, <1>2, <1>3
<1>5. Files(grown, r) /\ \A q : Files(generations, q) => Files(grown, q)
  <2>1. n + 1 \in 1..(n + 1) /\ \A i \in 1..n : i \in 1..(n + 1)
    BY <1>0
  <2> QED
    BY <1>0, <1>2, <1>4, <2>1 DEF Files
<1>6. CASE extend(generations, r) = grown
  BY <1>4, <1>5, <1>6
<1>7. CASE extend(generations, r) # grown
  <2>1. generations # <<>> /\ Last(generations).deployment = DeploymentOf[r]
    BY <1>1, <1>3, <1>7 DEF extend
  <2>2. n \in 1..n /\ Last(generations) = generations[n] /\ generations[n] \in Gens
    BY <1>0, <2>1 DEF Last
  <2>3. PICK e : e = addContribution(generations[n], r)
    OBVIOUS
  <2>4. e \in Gens /\ e.records = generations[n].records \cup {r}
    BY <2>1, <2>2, <2>3, ContributionKeeps
  <2>5. PICK longer : longer = [generations EXCEPT ![n] = e]
    OBVIOUS
  <2>6. extend(generations, r) = longer
    BY <1>0, <1>1, <1>3, <1>7, <2>2, <2>3, <2>5 DEF extend
  <2>7. /\ longer \in Seq(Gens) /\ DOMAIN longer = 1..n /\ longer[n] = e
        /\ \A i \in 1..n : i # n => longer[i] = generations[i]
    BY <1>0, <2>2, <2>4, <2>5
  <2>8. Files(longer, r) /\ \A q : Files(generations, q) => Files(longer, q)
    BY <1>0, <2>2, <2>4, <2>7 DEF Files
  <2> QED
    BY <2>6, <2>7, <2>8
<1> QED
  BY <1>6, <1>7

\* The fold that makes episodes of records.
EpisodeFold(seq) ==
  CHOOSE it : it = [s \in SUBSET DOMAIN seq |->
                     IF s = {} THEN <<>> ELSE extend(it[s \ {Max(s)}], seq[Max(s)])]

\* Whatever the records, what they are folded into are episodes that hold them
\* all.
LEMMA EpisodesFolded ==
  ASSUME NEW events \in SUBSET Records
  PROVE  episodesOf(events) \in Seq(Gens) /\ \A r \in events : Files(episodesOf(events), r)
<1>0. PICK n \in Nat : n = Cardinality(events) /\ byTime(events) \in [1..n -> Records]
  BY TimesInOrder
<1>1. PICK seq \in [1..n -> Records] :
        seq = byTime(events) /\ \A r \in events : \E k \in 1..n : seq[k] = r
  BY <1>0, TimesInOrder
<1> DEFINE A == Seq(Gens)
           Solves(it) == it = [s \in SUBSET DOMAIN seq |->
                                IF s = {} THEN <<>> ELSE extend(it[s \ {Max(s)}], seq[Max(s)])]
<1>2. <<>> \in A
  OBVIOUS
<1>3. \A a \in A, i \in 1..n : extend(a, seq[i]) \in A
  BY ExtendKeeps
<1> HIDE DEF A
<1>4. PICK F : F = [ai \in A \X (1..n) |-> extend(ai[1], seq[ai[2]])]
  OBVIOUS
<1>5. F \in [A \X (1..n) -> A] /\ \A a \in A, i \in 1..n : F[a, i] = extend(a, seq[i])
  BY <1>3, <1>4
<1>6. PICK it \in [SUBSET (1..n) -> A] : IsFold(it, <<>>, F, n)
  BY <1>2, <1>5, FoldExists
<1>7. \A s \in SUBSET (1..n) : s # {} => Max(s) \in 1..n /\ s \ {Max(s)} \in SUBSET (1..n)
  BY MaxOfPositions
<1>8. Solves(it)
  <2>1. ASSUME NEW s \in SUBSET (1..n), s # {}
        PROVE  F[it[s \ {Max(s)}], Max(s)] = extend(it[s \ {Max(s)}], seq[Max(s)])
    <3>1. Max(s) \in 1..n /\ it[s \ {Max(s)}] \in A
      BY <1>7, <2>1
    <3> QED
      BY <1>5, <3>1
  <2> QED
    BY <1>6, <2>1 DEF IsFold
<1>9. PICK g : Solves(g) /\ g = EpisodeFold(seq)
  <2>1. EpisodeFold(seq) = CHOOSE x : Solves(x)
    BY DEF EpisodeFold
  <2> HIDE DEF Solves
  <2> QED
    BY <1>8, <2>1
<1>10. episodesOf(events) = g[1..n]
  <2>1. episodesOf(events) = EpisodeFold(byTime(events))[DOMAIN byTime(events)]
    BY DEF episodesOf, FoldLeft, MapThenFoldSet, EpisodeFold
  <2> QED
    BY <1>1, <1>9, <2>1
<1>11. g[{}] \in A
  BY <1>2, <1>9
<1>12. ASSUME NEW s \in SUBSET (1..n), s # {}, g[s \ {Max(s)}] \in A PROVE g[s] \in A
  BY <1>3, <1>7, <1>9, <1>12
<1>13. g[1..n] \in A
  BY <1>11, <1>12, FoldStays
<1>14. ASSUME NEW r \in events PROVE Files(g[1..n], r)
  <2>1. PICK m \in 1..n : seq[m] = r
    BY <1>1
  <2>2. PICK B : B = {a \in A : Files(a, r)}
    OBVIOUS
  <2>3. ASSUME NEW s \in SUBSET (1..n), s # {}, g[s \ {Max(s)}] \in A
        PROVE  /\ Max(s) = m => g[s] \in B
               /\ g[s \ {Max(s)}] \in B => g[s] \in B
    <3>1. PICK a \in A, i \in 1..n : a = g[s \ {Max(s)}] /\ i = Max(s)
      BY <1>7, <2>3
    <3>2. g[s] = extend(a, seq[i]) /\ seq[i] \in Records
      BY <1>9, <2>3, <3>1
    <3>3. /\ extend(a, seq[i]) \in A /\ Files(extend(a, seq[i]), seq[i])
          /\ \A q : Files(a, q) => Files(extend(a, seq[i]), q)
      BY <3>2, ExtendKeeps DEF A
    <3> QED
      BY <2>1, <2>2, <3>1, <3>2, <3>3
  <2>4. B \subseteq A
    BY <2>2
  <2>5. g[1..n] \in B
    <3>1. \A s \in SUBSET (1..n) :
            s # {} /\ Max(s) = m /\ g[s \ {Max(s)}] \in A => g[s] \in B
      BY <2>3
    <3>2. \A s \in SUBSET (1..n) : s # {} /\ g[s \ {Max(s)}] \in B => g[s] \in B
      BY <2>3, <2>4
    <3> QED
      BY <1>11, <1>12, <3>1, <3>2, FoldEnters
  <2> QED
    BY <2>2, <2>5
<1> QED
  BY <1>10, <1>13, <1>14 DEF A

\* What the adoption of earlier assignments carries along.
Adoptions(prior) ==
  [folded : Seq(Gens), cursor : Nat, adopted : SUBSET (DOMAIN prior)]

\* Of a nonempty set of positions the least is one of them.
LEMMA LeastPosition ==
  ASSUME NEW n \in Nat, NEW s \in SUBSET (1..n), s # {}
  PROVE  Min(s) \in s /\ \A y \in s : Min(s) <= y
<1>1. s \in SUBSET Nat
  OBVIOUS
<1>2. \E x \in s : \A y \in s : x <= y
  BY <1>1, NatLeast
<1> QED
  BY <1>2 DEF Min

\* An adoption changes nothing of an episode but lowers its start.
LEMMA AdoptedKeeps ==
  ASSUME NEW g \in Gens, NEW p \in Gens
  PROVE  adopt(g, p) \in Gens /\ adopt(g, p).records = g.records
<1>1. PICK deployment, records, first, last :
        /\ g = [deployment |-> deployment, records |-> records, firstOccurrence |-> first,
                lastActivity |-> last]
        /\ deployment = g.deployment /\ records = g.records /\ first = g.firstOccurrence
        /\ last = g.lastActivity
  BY GenTypes
<1>2. /\ deployment \in {DeploymentOf[q] : q \in Records} /\ records \in SUBSET Records
      /\ first \in {EventTime[q] : q \in Records} /\ first \in Nat /\ last \in Nat
      /\ \A q \in records : deployment = DeploymentOf[q] /\ first <= EventTime[q]
  BY <1>1, GenTypes
<1>3. PICK begun : begun = p.firstOccurrence /\ begun \in {EventTime[q] : q \in Records} /\ begun \in Nat
  BY GenTypes
<1>4. PICK start : start = Earlier(first, begun)
  OBVIOUS
<1>5. adopt(g, p) = [deployment |-> deployment, records |-> records, firstOccurrence |-> start,
                     lastActivity |-> last]
  <2>1. adopt(g, p) = [g EXCEPT !.firstOccurrence = start]
    BY <1>1, <1>3, <1>4 DEF adopt
  <2> QED
    BY <1>1, <2>1
<1>6. start \in {EventTime[q] : q \in Records} /\ start \in Nat /\ start <= first
  BY <1>2, <1>3, <1>4 DEF Earlier
<1>7. ASSUME NEW q \in records PROVE deployment = DeploymentOf[q] /\ start <= EventTime[q]
  <2>1. q \in Records /\ EventTime[q] \in Nat
    BY <1>2, Numbers
  <2> QED
    BY <1>2, <1>6, <2>1
<1> QED
  BY <1>1, <1>2, <1>5, <1>6, <1>7, GenMade

\* A list with one more episode holds the records of both.
LEMMA AppendFiles ==
  ASSUME NEW generations \in Seq(Gens), NEW g \in Gens
  PROVE  /\ Append(generations, g) \in Seq(Gens)
         /\ \A q : q \in g.records => Files(Append(generations, g), q)
         /\ \A q : Files(generations, q) => Files(Append(generations, g), q)
<1>0. PICK n \in Nat : n = Len(generations) /\ DOMAIN generations = 1..n
  OBVIOUS
<1>1. PICK grown : grown = Append(generations, g)
  OBVIOUS
<1>2. /\ grown \in Seq(Gens) /\ DOMAIN grown = 1..(n + 1) /\ grown[n + 1] = g
      /\ \A i \in 1..n : grown[i] = generations[i]
  BY <1>0, <1>1
<1>3. n + 1 \in 1..(n + 1) /\ \A i \in 1..n : i \in 1..(n + 1)
  BY <1>0
<1> QED
  BY <1>0, <1>1, <1>2, <1>3 DEF Files

\* An adoption leaves episodes, that hold what they held and the records of the
\* one that adopts.
LEMMA AdoptionKeeps ==
  ASSUME NEW prior \in Seq(Gens), NEW a \in Adoptions(prior), NEW g \in Gens
  PROVE  /\ adoptNext(prior, a, g) \in Adoptions(prior)
         /\ \A q : q \in g.records => Files(adoptNext(prior, a, g).folded, q)
         /\ \A q : Files(a.folded, q) => Files(adoptNext(prior, a, g).folded, q)
<1>1. PICK folded, cursor, adopted :
        /\ a = [folded |-> folded, cursor |-> cursor, adopted |-> adopted] /\ folded = a.folded
        /\ folded \in Seq(Gens) /\ cursor \in Nat /\ adopted \in SUBSET (DOMAIN prior)
  BY DEF Adoptions
<1>2. PICK held : held = {i \in DOMAIN prior : i > cursor /\ prior[i].records \cap g.records # {}}
  OBVIOUS
<1>3. PICK n \in Nat : n = Len(prior) /\ DOMAIN prior = 1..n
  OBVIOUS
<1>4. CASE held = {}
  <2>1. PICK more : more = Append(folded, g)
    OBVIOUS
  <2>2. adoptNext(prior, a, g) = [a EXCEPT !.folded = more]
    BY <1>1, <1>2, <1>4, <2>1 DEF adoptNext
  <2>3. [a EXCEPT !.folded = more]
          = [folded |-> more, cursor |-> cursor, adopted |-> adopted]
    BY <1>1
  <2>4. /\ more \in Seq(Gens) /\ \A q : q \in g.records => Files(more, q)
        /\ \A q : Files(folded, q) => Files(more, q)
    BY <1>1, <2>1, AppendFiles
  <2> QED
    BY <1>1, <2>2, <2>3, <2>4 DEF Adoptions
<1>5. CASE held # {}
  <2>1. Min(held) \in 1..n
    BY <1>2, <1>3, <1>5, LeastPosition
  <2>2. PICK e : e = adopt(g, prior[Min(held)])
    OBVIOUS
  <2>3. e \in Gens /\ e.records = g.records
    <3>1. prior[Min(held)] \in Gens
      BY <1>3, <2>1
    <3> QED
      BY <2>2, <3>1, AdoptedKeeps
  <2>4. PICK more : more = Append(folded, e)
    OBVIOUS
  <2>5. /\ more \in Seq(Gens) /\ \A q : q \in g.records => Files(more, q)
        /\ \A q : Files(folded, q) => Files(more, q)
    BY <1>1, <2>3, <2>4, AppendFiles
  <2>6. adoptNext(prior, a, g)
          = [folded |-> more, cursor |-> Min(held), adopted |-> adopted \cup {Min(held)}]
    BY <1>1, <1>2, <1>5, <2>2, <2>4 DEF adoptNext
  <2>7. Min(held) \in Nat /\ adopted \cup {Min(held)} \in SUBSET (DOMAIN prior)
    BY <1>1, <1>3, <2>1
  <2> QED
    BY <1>1, <2>5, <2>6, <2>7 DEF Adoptions
<1> QED
  BY <1>4, <1>5

\* The fold that hands the assignments on.
AdoptionFold(prior, base, seq) ==
  CHOOSE it : it = [s \in SUBSET DOMAIN seq |->
                     IF s = {} THEN base ELSE adoptNext(prior, it[s \ {Max(s)}], seq[Max(s)])]

\* Whatever the episodes, with what is adopted they are episodes that hold the
\* same records.
LEMMA AdoptionsFolded ==
  ASSUME NEW prior \in Seq(Gens), NEW n \in Nat, NEW seq \in [1..n -> Gens]
  PROVE  /\ adoptAll(prior, seq) \in Adoptions(prior)
         /\ \A r : Files(seq, r) => Files(adoptAll(prior, seq).folded, r)
<1>0. PICK base : base = [folded |-> <<>>, cursor |-> 0, adopted |-> {}]
  OBVIOUS
<1> DEFINE A == Adoptions(prior)
           Solves(it) == it = [s \in SUBSET DOMAIN seq |->
                                IF s = {} THEN base ELSE adoptNext(prior, it[s \ {Max(s)}], seq[Max(s)])]
<1>1. base \in A
  BY <1>0 DEF Adoptions
<1>2. \A a \in A, i \in 1..n : adoptNext(prior, a, seq[i]) \in A
  BY AdoptionKeeps
<1> HIDE DEF A
<1>3. PICK F : F = [ai \in A \X (1..n) |-> adoptNext(prior, ai[1], seq[ai[2]])]
  OBVIOUS
<1>4. F \in [A \X (1..n) -> A] /\ \A a \in A, i \in 1..n : F[a, i] = adoptNext(prior, a, seq[i])
  BY <1>2, <1>3
<1>5. PICK it \in [SUBSET (1..n) -> A] : IsFold(it, base, F, n)
  BY <1>1, <1>4, FoldExists
<1>6. \A s \in SUBSET (1..n) : s # {} => Max(s) \in 1..n /\ s \ {Max(s)} \in SUBSET (1..n)
  BY MaxOfPositions
<1>7. Solves(it)
  <2>1. ASSUME NEW s \in SUBSET (1..n), s # {}
        PROVE  F[it[s \ {Max(s)}], Max(s)] = adoptNext(prior, it[s \ {Max(s)}], seq[Max(s)])
    <3>1. Max(s) \in 1..n /\ it[s \ {Max(s)}] \in A
      BY <1>6, <2>1
    <3> QED
      BY <1>4, <3>1
  <2> QED
    BY <1>5, <2>1 DEF IsFold
<1>8. PICK g : Solves(g) /\ g = AdoptionFold(prior, base, seq)
  <2>1. AdoptionFold(prior, base, seq) = CHOOSE x : Solves(x)
    BY DEF AdoptionFold
  <2> HIDE DEF Solves
  <2> QED
    BY <1>7, <2>1
<1>9. adoptAll(prior, seq) = g[1..n]
  <2>1. adoptAll(prior, seq)
          = AdoptionFold(prior, [folded |-> <<>>, cursor |-> 0, adopted |-> {}], seq)[DOMAIN seq]
    BY DEF adoptAll, FoldLeft, MapThenFoldSet, AdoptionFold
  <2> QED
    BY <1>0, <1>8, <2>1
<1>10. g[{}] \in A
  BY <1>1, <1>8
<1>11. ASSUME NEW s \in SUBSET (1..n), s # {}, g[s \ {Max(s)}] \in A PROVE g[s] \in A
  BY <1>2, <1>6, <1>8, <1>11
<1>12. g[1..n] \in A
  BY <1>10, <1>11, FoldStays
<1>13. ASSUME NEW r, Files(seq, r) PROVE Files(g[1..n].folded, r)
  <2>1. PICK m \in 1..n : r \in seq[m].records
    BY <1>13 DEF Files
  <2>2. PICK B : B = {a \in A : Files(a.folded, r)}
    OBVIOUS
  <2>3. ASSUME NEW s \in SUBSET (1..n), s # {}, g[s \ {Max(s)}] \in A
        PROVE  /\ Max(s) = m => g[s] \in B
               /\ g[s \ {Max(s)}] \in B => g[s] \in B
    <3>1. PICK a \in A, i \in 1..n : a = g[s \ {Max(s)}] /\ i = Max(s)
      BY <1>6, <2>3
    <3>2. g[s] = adoptNext(prior, a, seq[i]) /\ seq[i] \in Gens
      BY <1>8, <2>3, <3>1
    <3>3. /\ adoptNext(prior, a, seq[i]) \in A
          /\ \A q : q \in seq[i].records => Files(adoptNext(prior, a, seq[i]).folded, q)
          /\ \A q : Files(a.folded, q) => Files(adoptNext(prior, a, seq[i]).folded, q)
      BY <3>2, AdoptionKeeps DEF A
    <3> QED
      BY <2>1, <2>2, <3>1, <3>2, <3>3
  <2>4. B \subseteq A
    BY <2>2
  <2>5. g[1..n] \in B
    <3>1. \A s \in SUBSET (1..n) :
            s # {} /\ Max(s) = m /\ g[s \ {Max(s)}] \in A => g[s] \in B
      BY <2>3
    <3>2. \A s \in SUBSET (1..n) : s # {} /\ g[s \ {Max(s)}] \in B => g[s] \in B
      BY <2>3, <2>4
    <3> QED
      BY <1>10, <1>11, <3>1, <3>2, FoldEnters
  <2> QED
    BY <2>2, <2>5
<1> QED
  BY <1>9, <1>12, <1>13 DEF A

\* What is left of an episode is one.
LEMMA ShellKeeps ==
  ASSUME NEW g \in Gens
  PROVE  shellOf(g) \in Gens
<1>1. PICK deployment, records, first, last :
        /\ g = [deployment |-> deployment, records |-> records, firstOccurrence |-> first,
                lastActivity |-> last]
        /\ deployment = g.deployment /\ first = g.firstOccurrence /\ last = g.lastActivity
  BY GenTypes
<1>2. shellOf(g) = [deployment |-> deployment, records |-> {}, firstOccurrence |-> first,
                    lastActivity |-> last]
  BY <1>1 DEF shellOf
<1>3. /\ deployment \in {DeploymentOf[q] : q \in Records} /\ {} \in SUBSET Records
      /\ first \in {EventTime[q] : q \in Records} /\ last \in Nat
      /\ \A q \in {} : deployment = DeploymentOf[q] /\ first <= EventTime[q]
  BY <1>1, GenTypes
<1> QED
  BY <1>2, <1>3, GenMade

\* A list put in another order holds the same records.
LEMMA Reordered ==
  ASSUME NEW all \in Seq(Gens)
  PROVE  /\ [k \in DOMAIN all |-> all[byStart(all)[k]]] \in Seq(Gens)
         /\ \A r : Files(all, r) => Files([k \in DOMAIN all |-> all[byStart(all)[k]]], r)
<1>1. PICK n \in Nat : n = Len(all) /\ DOMAIN all = 1..n
  OBVIOUS
<1>2. /\ \A k \in 1..n : byStart(all)[k] \in 1..n
      /\ \A i \in 1..n : \E k \in 1..n : byStart(all)[k] = i
  BY <1>1, StartsInOrder
<1>3. PICK sorted : sorted = [k \in 1..n |-> all[byStart(all)[k]]]
  OBVIOUS
<1>4. \A k \in 1..n : all[byStart(all)[k]] \in Gens
  BY <1>1, <1>2
<1>5. sorted \in [1..n -> Gens]
  BY <1>3, <1>4
<1>6. ASSUME NEW r, Files(all, r) PROVE Files(sorted, r)
  <2>1. PICK i \in 1..n : r \in all[i].records
    BY <1>1, <1>6 DEF Files
  <2>2. PICK k \in 1..n : byStart(all)[k] = i
    BY <1>2
  <2>3. k \in DOMAIN sorted /\ r \in sorted[k].records
    BY <1>3, <2>1, <2>2
  <2> QED
    BY <2>3 DEF Files
<1> QED
  BY <1>1, <1>3, <1>5, <1>6

\* A list that goes on holds the records it held.
LEMMA ConcatFiles ==
  ASSUME NEW front \in Seq(Gens), NEW back \in Seq(Gens)
  PROVE  front \o back \in Seq(Gens) /\ \A r : Files(front, r) => Files(front \o back, r)
<1>1. PICK n \in Nat, m \in Nat : n = Len(front) /\ DOMAIN front = 1..n /\ m = Len(back)
  OBVIOUS
<1>2. PICK all : all = front \o back
  OBVIOUS
<1>3. all \in Seq(Gens) /\ DOMAIN all = 1..(n + m) /\ \A i \in 1..n : all[i] = front[i]
  BY <1>1, <1>2
<1>4. \A i \in 1..n : i \in 1..(n + m)
  BY <1>1
<1> QED
  BY <1>1, <1>2, <1>3, <1>4 DEF Files

\* The episodes of a family are refolded into episodes that hold every record.
LEMMA EpisodesRefolded ==
  ASSUME NEW f, f.generations \in Seq(Gens), NEW events \in SUBSET Records
  PROVE  /\ foldEpisodes(f, events) \in Seq(Gens)
         /\ \A r \in events : Files(foldEpisodes(f, events), r)
<1>1. PICK prior \in Seq(Gens) : prior = f.generations
  OBVIOUS
<1>2. PICK begun \in Seq(Gens) : begun = episodesOf(events) /\ \A r \in events : Files(begun, r)
  BY EpisodesFolded
<1>3. PICK acc \in Adoptions(prior) :
        acc = adoptAll(prior, begun) /\ \A r : Files(begun, r) => Files(acc.folded, r)
  <2>1. Len(begun) \in Nat /\ begun \in [1..Len(begun) -> Gens]
    OBVIOUS
  <2> QED
    BY <2>1, AdoptionsFolded
<1>4. PICK gone : gone = {i \in DOMAIN prior \ acc.adopted : prior[i].records \cap events = {}}
  OBVIOUS
<1>5. PICK shells \in Seq(Gens) :
        shells = [k \in 1..Cardinality(gone) |-> shellOf(prior[byId(gone)[k]])]
  <2>1. PICK n \in Nat : n = Len(prior) /\ DOMAIN prior = 1..n
    OBVIOUS
  <2>2. gone \in SUBSET (1..n) /\ IsFiniteSet(1..n)
    BY <1>4, <2>1, FS_Interval
  <2>3. gone \in SUBSET Nat /\ IsFiniteSet(gone)
    <3>1. gone \in SUBSET Nat
      BY <2>2
    <3>2. IsFiniteSet(gone)
      BY <2>2, FS_Subset
    <3> QED
      BY <3>1, <3>2
  <2>4. PICK m \in Nat : m = Cardinality(gone) /\ \A k \in 1..m : byId(gone)[k] \in gone
    <3>1. Cardinality(gone) \in Nat /\ byId(gone) \in [1..Cardinality(gone) -> gone]
      BY ONLY <2>3, IdsInOrder
    <3> QED
      BY <3>1
  <2>5. ASSUME NEW k \in 1..m PROVE shellOf(prior[byId(gone)[k]]) \in Gens
    <3>1. PICK i \in 1..n : i = byId(gone)[k]
      BY <2>2, <2>4
    <3>2. prior[i] \in Gens
      BY <2>1
    <3> QED
      BY <3>1, <3>2, ShellKeeps
  <2>6. PICK shelled : shelled = [k \in 1..m |-> shellOf(prior[byId(gone)[k]])]
    OBVIOUS
  <2>7. shelled \in [1..m -> Gens]
    BY <2>5, <2>6
  <2>8. shelled \in Seq(Gens)
    BY <2>7
  <2> QED
    BY <2>4, <2>6, <2>8
<1>6. PICK all \in Seq(Gens) :
        all = acc.folded \o shells /\ \A r : Files(acc.folded, r) => Files(all, r)
  <2>1. PICK front \in Seq(Gens) : front = acc.folded
    BY DEF Adoptions
  <2>2. front \o shells \in Seq(Gens) /\ \A r : Files(front, r) => Files(front \o shells, r)
    BY ConcatFiles
  <2> QED
    BY <2>1, <2>2
<1>7. foldEpisodes(f, events) = [k \in DOMAIN all |-> all[byStart(all)[k]]]
  BY <1>1, <1>2, <1>3, <1>4, <1>5, <1>6 DEF foldEpisodes
<1>8. \A r \in events : Files(all, r)
  BY <1>2, <1>3, <1>6
<1> QED
  BY <1>7, <1>8, Reordered

\* Evidence finds an episode of its deployment there is, or none.
LEMMA EvidencePlaced ==
  ASSUME NEW generations \in Seq(Gens), NEW r
  PROVE  /\ generationForEvidence(generations, r) \in 0..Len(generations)
         /\ generationForEvidence(generations, r) # 0
              => /\ generationForEvidence(generations, r) \in DOMAIN generations
                 /\ generations[generationForEvidence(generations, r)].deployment = DeploymentOf[r]
<1>1. PICK n \in Nat : n = Len(generations) /\ DOMAIN generations = 1..n
  OBVIOUS
<1>2. PICK same \in SUBSET (1..n) :
        same = {i \in DOMAIN generations : generations[i].deployment = DeploymentOf[r]}
  BY <1>1
<1>3. PICK begun \in SUBSET (1..n) :
        begun = {i \in same : generations[i].firstOccurrence <= EventTime[r]}
  OBVIOUS
<1>4. generationForEvidence(generations, r)
        = IF begun # {} THEN Max(begun) ELSE IF same # {} THEN Min(same) ELSE 0
  BY <1>2, <1>3 DEF generationForEvidence
<1>5. begun # {} => Max(begun) \in 1..n /\ Max(begun) \in same
  BY <1>3, MaxOfPositions
<1>6. same # {} => Min(same) \in 1..n /\ Min(same) \in same
  BY LeastPosition
<1>7. PICK i : i = generationForEvidence(generations, r)
  OBVIOUS
<1>8. i \in 0..n /\ (i # 0 => i \in same)
  BY <1>4, <1>5, <1>6, <1>7
<1> QED
  BY <1>1, <1>2, <1>7, <1>8

\* Only leading episodes there are, and that hold no record, are released.
LEMMA LeadReleased ==
  ASSUME NEW generations \in Seq(Gens), NEW attached
  PROVE  /\ releaseLeadingEmptyEpisodes(generations, attached) \in 0..Len(generations)
         /\ \A i \in DOMAIN generations :
              i <= releaseLeadingEmptyEpisodes(generations, attached) => generations[i].records = {}
<1>1. PICK n \in Nat : n = Len(generations) /\ DOMAIN generations = 1..n
  OBVIOUS
<1>2. attachRetainedEvidence(generations, attached) \subseteq 1..n
  BY <1>1, EvidencePlaced DEF attachRetainedEvidence
<1>3. PICK kept : kept = {i \in DOMAIN generations : generations[i].records # {}}
                           \cup attachRetainedEvidence(generations, attached)
  OBVIOUS
<1>4. kept \in SUBSET (1..n)
  BY <1>1, <1>2, <1>3
<1>5. releaseLeadingEmptyEpisodes(generations, attached) = IF kept = {} THEN n ELSE Min(kept) - 1
  BY <1>1, <1>3 DEF releaseLeadingEmptyEpisodes
<1>6. kept # {} => Min(kept) \in 1..n /\ \A i \in kept : Min(kept) <= i
  BY <1>4, LeastPosition
<1>7. PICK lead : lead = releaseLeadingEmptyEpisodes(generations, attached)
  OBVIOUS
<1>8. lead \in 0..n
  BY <1>5, <1>6, <1>7
<1>9. ASSUME NEW i \in 1..n, i <= lead PROVE generations[i].records = {}
  <2>1. i \notin kept
    BY <1>5, <1>6, <1>7, <1>9
  <2> QED
    BY <1>1, <1>3, <2>1
<1> QED
  BY <1>1, <1>7, <1>8, <1>9

\* The parts of a family.
LEMMA FamilyTypes ==
  ASSUME NEW f \in Families
  PROVE  /\ f.events \in SUBSET Records /\ f.evidence \in SUBSET Records
         /\ f.attached \in SUBSET Records /\ f.generations \in Seq(Gens)
         /\ f.prunedGenerations \in Nat /\ f.maxEventTime \in Nat /\ f.watermark \in Int
         /\ f.finalizedThrough \in Int /\ f.advancedTo \in Nat /\ f.lastActivity \in Nat
         /\ f.activeInvestigation \in BOOLEAN
BY DEF Families

\* A family refolded over other records: its frontier stays, and its episodes
\* hold every contributing record.
LEMMA RebuildKeeps ==
  ASSUME NEW f \in Families, NEW events \in SUBSET Records, NEW evidence \in SUBSET Records
  PROVE  /\ rebuild(f, events, evidence) \in Families
         /\ rebuild(f, events, evidence).events = events
         /\ rebuild(f, events, evidence).evidence = evidence
         /\ rebuild(f, events, evidence).finalizedThrough = f.finalizedThrough
         /\ \A r \in events : Files(rebuild(f, events, evidence).generations, r)
<1>1. PICK folded \in Seq(Gens) :
        folded = foldEpisodes(f, events) /\ \A r \in events : Files(folded, r)
  BY FamilyTypes, EpisodesRefolded
<1>2. PICK lead \in 0..Len(folded) :
        /\ lead = releaseLeadingEmptyEpisodes(folded, evidence \cap f.attached)
        /\ \A i \in DOMAIN folded : i <= lead => folded[i].records = {}
  BY LeadReleased
<1>3. PICK attached \in SUBSET Records : attached = f.attached \cap evidence
  OBVIOUS
<1>4. PICK generations \in Seq(Gens) : generations = SubSeq(folded, lead + 1, Len(folded))
  <2>1. SubSeq(folded, lead + 1, Len(folded)) \in Seq(Gens)
    OBVIOUS
  <2> QED
    BY <2>1
<1>5. PICK pruned \in Nat : pruned = f.prunedGenerations + lead
  BY FamilyTypes
<1>6. rebuild(f, events, evidence)
        = [f EXCEPT !.events = events, !.evidence = evidence, !.attached = attached,
                    !.generations = generations, !.prunedGenerations = pruned]
  BY <1>1, <1>2, <1>3, <1>4, <1>5 DEF rebuild
<1>7. PICK g : g = [f EXCEPT !.events = events, !.evidence = evidence, !.attached = attached,
                             !.generations = generations, !.prunedGenerations = pruned]
  OBVIOUS
<1>8. /\ g \in Families /\ g.events = events /\ g.evidence = evidence
      /\ g.finalizedThrough = f.finalizedThrough /\ g.generations = generations
  BY <1>7 DEF Families
<1>9. ASSUME NEW r \in events PROVE Files(generations, r)
  <2>1. PICK n \in Nat : n = Len(folded) /\ DOMAIN folded = 1..n
    OBVIOUS
  <2>2. PICK i \in 1..n : r \in folded[i].records /\ lead < i
    <3>1. PICK i \in 1..n : r \in folded[i].records
      BY <1>1, <2>1 DEF Files
    <3>2. folded[i].records # {} /\ i \in DOMAIN folded
      BY <2>1, <3>1
    <3>3. ~(i <= lead)
      BY <1>2, <3>2
    <3> QED
      BY <3>1, <3>3
  <2>3. DOMAIN generations = 1..(n - lead) /\ \A k \in 1..(n - lead) : generations[k] = folded[lead + k]
    BY <1>4, <2>1
  <2>4. i - lead \in 1..(n - lead) /\ lead + (i - lead) = i
    BY <2>1, <2>2
  <2>5. generations[i - lead] = folded[i]
    BY <2>3, <2>4
  <2> QED
    BY <2>2, <2>3, <2>4, <2>5 DEF Files
<1> QED
  BY <1>6, <1>7, <1>8, <1>9

\* Of the engine's state: the types, that no record is filed twice, and that every
\* contributing one is in an episode.
EngInv(f) ==
  /\ f \in Families /\ f.events \cap f.evidence = {}
  /\ \A r \in f.events : Files(f.generations, r)

\* What a step of the engine leaves of the records that contribute already: their
\* place, and a frontier no lower.
Onward(f, g, S) == S \subseteq g.events /\ f.finalizedThrough <= g.finalizedThrough

\* A family not seen yet.
LEMMA NoFamilyFine == EngInv(NoFamily)
<1>1. <<>> \in Seq(Gens) /\ 0 \in Nat /\ 0 \in Int /\ FALSE \in BOOLEAN
  OBVIOUS
<1>2. NoFamily.events = {} /\ NoFamily.evidence = {}
  BY DEF NoFamily
<1> QED
  BY <1>1, <1>2 DEF EngInv, Families, NoFamily, Zero

\* An investigation launched changes nothing else.
LEMMA LaunchKeeps ==
  ASSUME NEW f, EngInv(f)
  PROVE  /\ EngInv(launch(f)) /\ launch(f).events = f.events /\ launch(f).evidence = f.evidence
         /\ launch(f).finalizedThrough = f.finalizedThrough
<1>0. f \in Families
  BY DEF EngInv
<1>1. PICK active \in BOOLEAN : active = (f.activeInvestigation \/ thresholdGeneration(f))
  OBVIOUS
<1>2. launch(f) = [f EXCEPT !.activeInvestigation = active]
  BY <1>1 DEF launch
<1>3. PICK g : g = [f EXCEPT !.activeInvestigation = active]
  OBVIOUS
<1>4. /\ g \in Families /\ g.events = f.events /\ g.evidence = f.evidence
      /\ g.generations = f.generations /\ g.finalizedThrough = f.finalizedThrough
  BY <1>0, <1>3 DEF Families
<1>5. EngInv(g)
  BY <1>4 DEF EngInv
<1> QED
  BY <1>2, <1>3, <1>4, <1>5

\* The watermark moves: only times change, and the frontier is no lower.
LEMMA SeenAtKeeps ==
  ASSUME NEW f \in Families, NEW r \in Records
  PROVE  /\ seenAt(f, r) \in Families
         /\ seenAt(f, r).events = f.events /\ seenAt(f, r).evidence = f.evidence
         /\ seenAt(f, r).generations = f.generations
         /\ f.finalizedThrough <= seenAt(f, r).finalizedThrough
<1> DEFINE newest == f.maxEventTime = Zero \/ EventTime[r] > f.maxEventTime
           mark   == EventTime[r] - AllowedLateness
<1>0. /\ EventTime[r] \in Nat /\ ObservedTime[r] \in Nat /\ mark \in Int
      /\ boundedActivity(r) \in Nat
  BY Numbers DEF boundedActivity, Earlier
<1>1. PICK top \in Nat : top = IF newest THEN EventTime[r] ELSE f.maxEventTime
  BY <1>0, FamilyTypes
<1>2. PICK water \in Int : water = IF newest THEN mark ELSE f.watermark
  BY <1>0, FamilyTypes
<1>3. PICK through \in Int :
        /\ through = IF newest THEN Later(f.finalizedThrough, mark) ELSE f.finalizedThrough
        /\ f.finalizedThrough <= through
  BY <1>0, FamilyTypes DEF Later
<1>4. PICK activity \in Nat : activity = Later(f.lastActivity, boundedActivity(r))
  BY <1>0, FamilyTypes DEF Later
<1>5. seenAt(f, r) = [f EXCEPT !.maxEventTime = top, !.watermark = water,
                               !.finalizedThrough = through, !.lastActivity = activity]
  BY <1>1, <1>2, <1>3, <1>4 DEF seenAt
<1>6. PICK g : g = [f EXCEPT !.maxEventTime = top, !.watermark = water,
                             !.finalizedThrough = through, !.lastActivity = activity]
  OBVIOUS
<1>7. /\ g \in Families /\ g.events = f.events /\ g.evidence = f.evidence
      /\ g.generations = f.generations /\ g.finalizedThrough = through
  BY <1>6 DEF Families
<1> QED
  BY <1>3, <1>5, <1>6, <1>7

\* A record observed is filed once, as contribution or as evidence, beside those
\* that were.
LEMMA ObserveKeeps ==
  ASSUME NEW f, EngInv(f), NEW r \in Records
  PROVE  EngInv(Observe(f, r)) /\ Onward(f, Observe(f, r), f.events)
<1>0. /\ f \in Families /\ f.events \cap f.evidence = {} /\ f.finalizedThrough \in Int
      /\ \A q \in f.events : Files(f.generations, q)
  BY FamilyTypes DEF EngInv
<1>1. CASE r \in Seen(f)
  BY <1>0, <1>1 DEF Observe, Onward
<1>2. CASE r \notin Seen(f)
  <2>1. PICK g : g = seenAt(f, r)
    OBVIOUS
  <2>2. /\ g \in Families /\ g.events = f.events /\ g.evidence = f.evidence
        /\ r \notin g.events /\ r \notin g.evidence /\ g.events \cap g.evidence = {}
        /\ g.events \in SUBSET Records /\ g.evidence \in SUBSET Records
        /\ \A q \in g.events : Files(g.generations, q)
        /\ f.finalizedThrough <= g.finalizedThrough
    BY <1>0, <1>2, <2>1, SeenAtKeeps, FamilyTypes DEF Seen
  <2>3. EngInv(attachEvidence(g, r)) /\ Onward(f, attachEvidence(g, r), f.events)
    <3>1. PICK evidence \in SUBSET Records : evidence = g.evidence \cup {r}
      BY <2>2
    <3>2. PICK attached \in SUBSET Records :
            attached = IF attaches(g, r) THEN g.attached \cup {r} ELSE g.attached
      <4>1. g.attached \in SUBSET Records
        BY <2>2, FamilyTypes
      <4> QED
        BY <4>1
    <3>3. attachEvidence(g, r) = [g EXCEPT !.evidence = evidence, !.attached = attached]
      BY <3>1, <3>2 DEF attachEvidence
    <3>4. PICK e : e = [g EXCEPT !.evidence = evidence, !.attached = attached]
      OBVIOUS
    <3>5. /\ e \in Families /\ e.events = g.events /\ e.evidence = evidence
          /\ e.generations = g.generations /\ e.finalizedThrough = g.finalizedThrough
      BY <2>2, <3>4 DEF Families
    <3>6. EngInv(e) /\ Onward(f, e, f.events)
      BY <2>2, <3>1, <3>5 DEF EngInv, Onward
    <3> QED
      BY <3>3, <3>4, <3>6
  <2>4. PICK grown : grown = [g EXCEPT !.events = @ \cup {r}, !.generations = extend(@, r)]
    OBVIOUS
  <2>5. EngInv(launch(grown)) /\ Onward(f, launch(grown), f.events)
    <3>1. PICK events \in SUBSET Records : events = g.events \cup {r}
      BY <2>2
    <3>2. PICK generations \in Seq(Gens) :
            /\ generations = extend(g.generations, r)
            /\ Files(generations, r) /\ \A q : Files(g.generations, q) => Files(generations, q)
      BY <2>2, FamilyTypes, ExtendKeeps
    <3>3. grown = [g EXCEPT !.events = events, !.generations = generations]
      BY <2>4, <3>1, <3>2
    <3>4. /\ grown \in Families /\ grown.events = events /\ grown.evidence = g.evidence
          /\ grown.generations = generations /\ grown.finalizedThrough = g.finalizedThrough
      BY <2>2, <3>3 DEF Families
    <3>5. \A q \in events : Files(generations, q)
      BY <2>2, <3>1, <3>2
    <3>6. EngInv(grown)
      BY <2>2, <3>1, <3>4, <3>5 DEF EngInv
    <3> QED
      BY <2>2, <3>1, <3>4, <3>6, LaunchKeeps DEF Onward
  <2>6. PICK refolded : refolded = rebuild(g, g.events \cup {r}, g.evidence)
    OBVIOUS
  <2>7. EngInv(launch(refolded)) /\ Onward(f, launch(refolded), f.events)
    <3>1. PICK events \in SUBSET Records : events = g.events \cup {r}
      BY <2>2
    <3>2. /\ refolded \in Families /\ refolded.events = events /\ refolded.evidence = g.evidence
          /\ refolded.finalizedThrough = g.finalizedThrough
          /\ \A q \in events : Files(refolded.generations, q)
      BY <2>2, <2>6, <3>1, RebuildKeeps
    <3>3. EngInv(refolded)
      BY <2>2, <3>1, <3>2 DEF EngInv
    <3> QED
      BY <2>2, <3>1, <3>2, <3>3, LaunchKeeps DEF Onward
  <2>8. Observe(f, r) = IF isEvidence(g, r) THEN attachEvidence(g, r)
                        ELSE launch(IF \A q \in g.events : sortsBefore(q, r) THEN grown ELSE refolded)
    BY <1>2, <2>1, <2>4, <2>6 DEF Observe
  <2> QED
    BY <2>3, <2>5, <2>7, <2>8
<1> QED
  BY <1>1, <1>2

\* Neither the frontier nor compaction files anything anew, and what is held when
\* they move keeps its place.
LEMMA AdvanceKeeps ==
  ASSUME NEW f, EngInv(f), NEW time \in Nat, NEW pinned \in SUBSET Records
  PROVE  /\ EngInv(Advance(f, time, pinned))
         /\ f.events \cap pinned # {} => Onward(f, Advance(f, time, pinned), f.events \cap pinned)
<1>0. /\ f \in Families /\ f.events \cap f.evidence = {} /\ f.finalizedThrough \in Int
      /\ \A q \in f.events : Files(f.generations, q)
  BY FamilyTypes DEF EngInv
<1>1. EngInv(NoFamily)
  BY NoFamilyFine
<1>2. PICK frontier \in Int : frontier = Earlier(time - AllowedLateness, f.maxEventTime + 1)
  <2>1. time - AllowedLateness \in Int /\ f.maxEventTime + 1 \in Int
    BY <1>0, Numbers, FamilyTypes
  <2> QED
    BY <2>1 DEF Earlier
<1>3. PICK to \in Nat : to = Later(f.advancedTo, time)
  BY <1>0, FamilyTypes DEF Later
<1>4. PICK through \in Int :
        through = Later(f.finalizedThrough, frontier) /\ f.finalizedThrough <= through
  BY <1>0 DEF Later
<1>5. PICK ahead : ahead = [f EXCEPT !.advancedTo = to, !.finalizedThrough = through]
  OBVIOUS
<1>6. /\ ahead \in Families /\ ahead.events = f.events /\ ahead.evidence = f.evidence
      /\ ahead.generations = f.generations /\ ahead.finalizedThrough = through
  BY <1>0, <1>5 DEF Families
<1>7. PICK moved : /\ moved = launch(ahead) /\ EngInv(moved) /\ moved.events = f.events
                   /\ moved.finalizedThrough = through
  <2>1. EngInv(ahead)
    BY <1>0, <1>6 DEF EngInv
  <2> QED
    BY <1>6, <2>1, LaunchKeeps
<1>8. PICK pruned : pruned = prune(moved, time, pinned)
  OBVIOUS
<1>9. EngInv(pruned) /\ Onward(f, pruned, f.events \cap pinned)
  <2>1. PICK kept : kept = {r \in Seen(moved) : EventTime[r] >= retentionHorizon(moved, time) \/ r \in pinned}
    OBVIOUS
  <2>2. prune(moved, time, pinned)
          = IF kept = Seen(moved) THEN moved
            ELSE rebuild(moved, moved.events \cap kept, moved.evidence \cap kept)
    BY <2>1 DEF prune
  <2>3. moved \in Families /\ moved.events \cap moved.evidence = {}
    BY <1>7 DEF EngInv
  <2>4. PICK events \in SUBSET Records, evidence \in SUBSET Records :
          events = moved.events \cap kept /\ evidence = moved.evidence \cap kept
    BY <2>3, FamilyTypes
  <2>5. PICK g : g = rebuild(moved, events, evidence)
    OBVIOUS
  <2>6. /\ g \in Families /\ g.events = events /\ g.evidence = evidence
        /\ g.finalizedThrough = moved.finalizedThrough
        /\ \A q \in events : Files(g.generations, q)
    BY <2>3, <2>5, RebuildKeeps
  <2>7. EngInv(g)
    BY <2>3, <2>4, <2>6 DEF EngInv
  <2>8. f.events \cap pinned \subseteq kept
    BY <1>7, <2>1 DEF Seen
  <2>9. Onward(f, g, f.events \cap pinned) /\ Onward(f, moved, f.events \cap pinned)
    BY <1>4, <1>7, <2>4, <2>6, <2>8 DEF Onward
  <2> QED
    BY <1>7, <1>8, <2>2, <2>4, <2>5, <2>7, <2>9
<1>10. Advance(f, time, pinned)
         = IF f = NoFamily THEN f ELSE IF released(pruned, time) THEN NoFamily ELSE pruned
  <2>1. [f EXCEPT !.advancedTo = Later(@, time),
                  !.finalizedThrough = Later(@, Earlier(time - AllowedLateness, f.maxEventTime + 1))]
          = ahead
    BY <1>2, <1>3, <1>4, <1>5
  <2> QED
    BY <1>7, <1>8, <2>1 DEF Advance
<1>11. EngInv(Advance(f, time, pinned))
  BY <1>1, <1>9, <1>10
<1>12. ASSUME f.events \cap pinned # {}
       PROVE  Onward(f, Advance(f, time, pinned), f.events \cap pinned)
  <2>1. f # NoFamily
    BY <1>12 DEF NoFamily
  <2>2. ~released(pruned, time)
    BY <1>9, <1>12 DEF Onward, released, Seen
  <2> QED
    BY <1>9, <1>10, <2>1, <2>2
<1> QED
  BY <1>11, <1>12

\* A contribution is decided exactly when it lies behind the frontier: the episode
\* that holds it begins no later than it.
LEMMA DecidedBehindFrontier ==
  ASSUME NEW f, EngInv(f), NEW r \in f.events
  PROVE  Decided(f, r) <=> EventTime[r] < f.finalizedThrough
<1>1. PICK generations \in Seq(Gens) :
        generations = f.generations /\ Files(generations, r) /\ r \in Records /\ r \notin f.evidence
  BY FamilyTypes DEF EngInv
<1>2. PICK n \in Nat : n = Len(generations) /\ DOMAIN generations = 1..n
  OBVIOUS
<1>3. PICK holds \in SUBSET (1..n) : holds = {k \in DOMAIN generations : r \in generations[k].records}
  BY <1>2
<1>4. PICK i \in 1..n : i = Min(holds) /\ i \in holds
  <2>1. holds # {}
    BY <1>1, <1>3 DEF Files
  <2> QED
    BY <2>1, LeastPosition
<1>5. generationContaining(f, r) = i /\ i # 0
  <2>1. generationContaining(f, r) = IF holds = {} THEN 0 ELSE Min(holds)
    BY <1>1, <1>3 DEF generationContaining
  <2>2. holds # {} /\ i # 0
    BY <1>4
  <2> QED
    BY <1>4, <2>1, <2>2
<1>6. PICK start \in Nat : start = generations[i].firstOccurrence /\ start <= EventTime[r]
  <2>1. generations[i] \in Gens /\ r \in generations[i].records
    BY <1>2, <1>3, <1>4
  <2> QED
    BY <2>1, GenTypes
<1>7. EventTime[r] \in Nat /\ f.finalizedThrough \in Int /\ r \in Seen(f)
  BY <1>1, Numbers, FamilyTypes DEF EngInv, Seen
<1>8. Decided(f, r) <=> EventTime[r] < f.finalizedThrough /\ start < f.finalizedThrough
  BY <1>1, <1>5, <1>6, <1>7 DEF Decided
<1> QED
  BY <1>6, <1>7, <1>8

\* A verdict names an episode of the record's deployment, and one a contribution
\* is counted to begins no later than it.
Rightful(r, verdict) ==
  /\ verdict.generation[1] = DeploymentOf[r]
  /\ verdict.evidenceOnly \/ verdict.generation[2] <= EventTime[r]

\* Whoever has a decision has one that can be persisted, and a rightful one.
LEMMA DecisionFound ==
  ASSUME NEW f, EngInv(f), NEW r \in Records, Decided(f, r)
  PROVE  Decision(f, r) \in Verdicts /\ Rightful(r, Decision(f, r))
<1>1. PICK generations \in Seq(Gens) : generations = f.generations
  BY FamilyTypes DEF EngInv
<1>2. PICK n \in Nat : n = Len(generations) /\ DOMAIN generations = 1..n
  OBVIOUS
<1>3. PICK i : i = generationContaining(f, r)
  OBVIOUS
<1>4. i # 0
  BY <1>3 DEF Decided
<1>5. PICK holds \in SUBSET (1..n) :
        holds = {k \in DOMAIN f.generations : r \in f.generations[k].records}
  BY <1>1, <1>2
<1>6. /\ i \in 1..n /\ generations[i].deployment = DeploymentOf[r]
      /\ r \in f.evidence \/ generations[i].firstOccurrence <= EventTime[r]
  <2>1. CASE r \in f.evidence
    <3>1. i = generationForEvidence(generations, r)
      BY <1>1, <1>3, <1>4, <2>1 DEF generationContaining
    <3> QED
      BY <1>2, <1>4, <2>1, <3>1, EvidencePlaced
  <2>2. CASE r \notin f.evidence
    <3>1. i = IF holds = {} THEN 0 ELSE Min(holds)
      BY <1>3, <1>5, <2>2 DEF generationContaining
    <3>2. i \in holds
      BY <1>4, <3>1, LeastPosition
    <3>3. i \in 1..n /\ generations[i] \in Gens /\ r \in generations[i].records
      BY <1>1, <1>2, <1>5, <3>2
    <3> QED
      BY <3>3, GenTypes
  <2> QED
    BY <2>1, <2>2
<1>7. PICK g \in Gens : g = generations[i]
  BY <1>2, <1>6
<1>8. PICK deployment, start : deployment = g.deployment /\ start = g.firstOccurrence
  OBVIOUS
<1>9. Decision(f, r) = [generation |-> <<deployment, start>>, evidenceOnly |-> r \in f.evidence]
  BY <1>1, <1>3, <1>7, <1>8 DEF Decision, GenerationKey
<1>10. <<deployment, start>> \in Keys
  BY <1>8, GenTypes DEF Keys
<1>11. (r \in f.evidence) \in BOOLEAN
  OBVIOUS
<1>12. Decision(f, r) \in Verdicts
  BY <1>9, <1>10, <1>11 DEF Verdicts
<1>13. deployment = DeploymentOf[r] /\ (r \in f.evidence \/ start <= EventTime[r])
  BY <1>6, <1>7, <1>8
<1>14. Decision(f, r).evidenceOnly <=> r \in f.evidence
  BY DEF Decision
<1>15. /\ Decision(f, r).generation[1] = DeploymentOf[r]
       /\ Decision(f, r).generation[2] = start
  BY <1>9, <1>13
<1> QED
  BY <1>12, <1>13, <1>14, <1>15 DEF Rightful

\* The fold that replays the retained records.
ReplayFold(seq) ==
  CHOOSE it : it = [s \in SUBSET DOMAIN seq |->
                     IF s = {} THEN NoFamily ELSE Observe(it[s \ {Max(s)}], seq[Max(s)])]

\* What New rebuilds is a state of the engine.
LEMMA ReplayFine ==
  ASSUME NEW S \in SUBSET Records
  PROVE  EngInv(replayOf(S))
<1> S \in SUBSET Nat /\ IsFiniteSet(S)
  BY RecordsAssumption, FS_Subset
<1>0. PICK n \in Nat : n = Cardinality(S)
  BY IdsInOrder
<1>1. PICK seq \in [1..n -> Records] : seq = byId(S)
  <2>1. byId(S) \in [1..n -> S]
    BY <1>0, IdsInOrder
  <2> QED
    BY <2>1
<1> DEFINE A == {f \in Families : EngInv(f)}
           Solves(it) == it = [s \in SUBSET DOMAIN seq |->
                                IF s = {} THEN NoFamily ELSE Observe(it[s \ {Max(s)}], seq[Max(s)])]
<1>2. NoFamily \in A
  BY NoFamilyFine DEF EngInv
<1>3. \A a \in A, i \in 1..n : Observe(a, seq[i]) \in A
  <2> SUFFICES ASSUME NEW a \in A, NEW i \in 1..n PROVE Observe(a, seq[i]) \in A
    OBVIOUS
  <2>1. EngInv(Observe(a, seq[i]))
    BY ObserveKeeps
  <2> QED
    BY <2>1 DEF EngInv
<1>4. \A a \in A : EngInv(a)
  OBVIOUS
<1> HIDE DEF A
<1>5. PICK F : F = [ai \in A \X (1..n) |-> Observe(ai[1], seq[ai[2]])]
  OBVIOUS
<1>6. F \in [A \X (1..n) -> A] /\ \A a \in A, i \in 1..n : F[a, i] = Observe(a, seq[i])
  BY <1>3, <1>5
<1>7. PICK it \in [SUBSET (1..n) -> A] : IsFold(it, NoFamily, F, n)
  BY <1>2, <1>6, FoldExists
<1>8. \A s \in SUBSET (1..n) : s # {} => Max(s) \in 1..n /\ s \ {Max(s)} \in SUBSET (1..n)
  BY MaxOfPositions
<1>9. Solves(it)
  <2>1. ASSUME NEW s \in SUBSET (1..n), s # {}
        PROVE  F[it[s \ {Max(s)}], Max(s)] = Observe(it[s \ {Max(s)}], seq[Max(s)])
    <3>1. Max(s) \in 1..n /\ it[s \ {Max(s)}] \in A
      BY <1>8, <2>1
    <3> QED
      BY <1>6, <3>1
  <2> QED
    BY <1>7, <2>1 DEF IsFold
<1>10. PICK g : Solves(g) /\ g = ReplayFold(seq)
  <2>1. ReplayFold(seq) = CHOOSE x : Solves(x)
    BY DEF ReplayFold
  <2> HIDE DEF Solves
  <2> QED
    BY <1>9, <2>1
<1>11. replayOf(S) = g[1..n]
  <2>1. replayOf(S) = ReplayFold(byId(S))[DOMAIN byId(S)]
    BY DEF replayOf, FoldLeft, MapThenFoldSet, ReplayFold
  <2> QED
    BY <1>1, <1>10, <2>1
<1>12. g[{}] \in A
  BY <1>2, <1>10
<1>13. ASSUME NEW s \in SUBSET (1..n), s # {}, g[s \ {Max(s)}] \in A PROVE g[s] \in A
  <2>1. PICK i \in 1..n, a \in A : i = Max(s) /\ a = g[s \ {Max(s)}]
    BY <1>8, <1>13
  <2>2. s \in SUBSET DOMAIN seq
    BY <1>1
  <2>3. g[s] = Observe(a, seq[i])
    BY <1>10, <1>13, <2>1, <2>2
  <2> QED
    BY <1>3, <2>1, <2>3
<1>14. g[1..n] \in A
  BY <1>12, <1>13, FoldStays
<1> QED
  BY <1>4, <1>11, <1>14

-----------------------------------------------------------------------------
(* The invariant.                                                          *)

\* The journal and the clocks.
JournalInv ==
  /\ now \in StartTime..MaxTime /\ stalls \in 0..MaxStalls /\ crashes \in 0..MaxCrashes
  /\ status \in [Records -> {"absent", "pending", "claimed", "committed", "quarantined"}]
  /\ left \in [Records -> 0..TTL]
  /\ cycleNow \in {Zero} \cup StartTime..MaxTime

\* The worker's sets, each in use only in its stage.
WorkerInv ==
  /\ pc \in Steps
  /\ claimed \subseteq Records /\ due \subseteq claimed /\ fresh \subseteq Records
  /\ pc # "renew" => due = {}
  /\ pc # "cohort" => fresh = {}
  /\ pc = "down" => claimed = {}

\* The cohorts still to persist hold different records, each held by the worker
\* and decided; the first is persisted once its turn to be marked comes.
TodoFine(t, held, f) ==
  /\ t \in Seq(SUBSET Records)
  /\ \A i \in DOMAIN t : t[i] # {} /\ t[i] \subseteq held
  /\ \A i \in DOMAIN t : \A r \in t[i] : Decided(f, r)
  /\ \A i, j \in DOMAIN t : i # j => t[i] \cap t[j] = {}
TodoInv ==
  /\ TodoFine(todo, claimed, eng)
  /\ todo # <<>> <=> pc \in {"persist", "mark"}
  /\ pc = "mark" => \A r \in Head(todo) : Persisted(db, r)

IInv ==
  /\ JournalInv /\ WorkerInv /\ EngInv(eng) /\ DbInv(db) /\ TodoInv
  /\ CommittedPersisted

-----------------------------------------------------------------------------
(* The cohorts still to persist.                                           *)

\* None, or one.
LEMMA TodoStarts ==
  ASSUME NEW held \in SUBSET Records, NEW f
  PROVE  /\ TodoFine(<<>>, held, f)
         /\ \A cohort \in SUBSET held : cohort # {} /\ (\A r \in cohort : Decided(f, r))
              => TodoFine(<<cohort>>, held, f)
<1>1. <<>> \in Seq(SUBSET Records) /\ DOMAIN <<>> = {}
  OBVIOUS
<1>2. ASSUME NEW cohort \in SUBSET held, cohort # {}, \A r \in cohort : Decided(f, r)
      PROVE  TodoFine(<<cohort>>, held, f)
  <2>1. PICK t : t = <<cohort>>
    OBVIOUS
  <2>2. t \in Seq(SUBSET Records) /\ DOMAIN t = {1} /\ t[1] = cohort
    BY <2>1
  <2>3. TodoFine(t, held, f)
    BY <1>2, <2>2 DEF TodoFine
  <2> QED
    BY <2>1, <2>3
<1>3. TodoFine(<<>>, held, f)
  BY <1>1 DEF TodoFine
<1> QED
  BY <1>2, <1>3

\* What is known of the cohort whose turn it is, and of those after it.
LEMMA TodoTurn ==
  ASSUME NEW t, NEW held \in SUBSET Records, NEW f, TodoFine(t, held, f), t # <<>>
  PROVE  /\ Head(t) \in SUBSET Records /\ Head(t) # {} /\ Head(t) \subseteq held
         /\ \A r \in Head(t) : Decided(f, r)
         /\ Tail(t) \in Seq(SUBSET Records)
         /\ TodoFine(Tail(t), held, f) /\ TodoFine(Tail(t), held \ Head(t), f)
         /\ \A i \in DOMAIN Tail(t) : Tail(t)[i] \cap Head(t) = {}
<1>0. t \in Seq(SUBSET Records)
  BY DEF TodoFine
<1>1. PICK n \in Nat : Len(t) = n + 1 /\ DOMAIN t = 1..(n + 1)
  <2>1. Len(t) \in Nat /\ Len(t) # 0 /\ DOMAIN t = 1..Len(t)
    BY <1>0
  <2>2. Len(t) - 1 \in Nat /\ Len(t) = (Len(t) - 1) + 1
    BY <2>1
  <2> QED
    BY <2>1, <2>2
<1>2. PICK rest \in Seq(SUBSET Records) : rest = Tail(t)
  BY <1>0, HeadTailProperties
<1>3. DOMAIN rest = 1..n /\ \A i \in 1..n : rest[i] = t[i + 1]
  <2>1. Len(rest) = n /\ \A i \in 1..Len(rest) : rest[i] = t[i + 1]
    BY <1>0, <1>1, <1>2, HeadTailProperties
  <2> QED
    BY <2>1
<1>4. Head(t) = t[1] /\ 1 \in DOMAIN t
  BY <1>0, <1>1
<1>5. \A i \in DOMAIN rest : rest[i] = t[i + 1] /\ i + 1 \in DOMAIN t /\ i + 1 # 1
  BY <1>1, <1>3
<1>6. \A i \in DOMAIN rest : rest[i] # {} /\ rest[i] \subseteq held \ Head(t)
  BY <1>4, <1>5 DEF TodoFine
<1>7. \A i \in DOMAIN rest : \A r \in rest[i] : Decided(f, r)
  BY <1>5 DEF TodoFine
<1>8. \A i, j \in DOMAIN rest : i # j => rest[i] \cap rest[j] = {}
  <2> SUFFICES ASSUME NEW i \in DOMAIN rest, NEW j \in DOMAIN rest, i # j
               PROVE  rest[i] \cap rest[j] = {}
    OBVIOUS
  <2>1. i + 1 # j + 1
    BY <1>3
  <2> QED
    BY <1>5, <2>1 DEF TodoFine
<1>9. TodoFine(rest, held, f) /\ TodoFine(rest, held \ Head(t), f)
  BY <1>2, <1>6, <1>7, <1>8 DEF TodoFine
<1>10. /\ Head(t) \in SUBSET Records /\ Head(t) # {} /\ Head(t) \subseteq held
       /\ \A r \in Head(t) : Decided(f, r)
  BY <1>4 DEF TodoFine
<1>11. \A i \in DOMAIN rest : rest[i] \cap Head(t) = {}
  BY <1>6
<1> QED
  BY <1>2, <1>9, <1>10, <1>11

\* The cohort whose turn it is in two.
LEMMA TodoHalved ==
  ASSUME NEW t, NEW held \in SUBSET Records, NEW f, TodoFine(t, held, f), t # <<>>,
         NEW front \in SUBSET Head(t), front # {}, front # Head(t)
  PROVE  /\ TodoFine(<<front, Head(t) \ front>> \o Tail(t), held, f)
         /\ <<front, Head(t) \ front>> \o Tail(t) # <<>>
<1>1. PICK batch \in SUBSET Records : batch = Head(t)
  BY TodoTurn
<1>2. PICK rest \in Seq(SUBSET Records) : rest = Tail(t)
  BY TodoTurn
<1>3. /\ batch \subseteq held /\ \A r \in batch : Decided(f, r)
      /\ TodoFine(rest, held, f)
      /\ \A i \in DOMAIN rest : rest[i] \cap batch = {}
  BY <1>1, <1>2, TodoTurn
<1>4. PICK n \in Nat : Len(rest) = n /\ DOMAIN rest = 1..n
  OBVIOUS
<1>5. PICK two : two = <<front, batch \ front>>
  OBVIOUS
<1>6. /\ two \in Seq(SUBSET Records) /\ Len(two) = 2
      /\ two[1] = front /\ two[2] = batch \ front
  BY <1>1, <1>5
<1>7. PICK u : u = two \o rest
  OBVIOUS
<1>8. /\ u \in Seq(SUBSET Records) /\ Len(u) = 2 + n
      /\ \A i \in 1..(2 + n) : u[i] = IF i <= 2 THEN two[i] ELSE rest[i - 2]
  <2>1. PICK SR : SR = SUBSET Records
    OBVIOUS
  <2>2. two \in Seq(SR) /\ rest \in Seq(SR) /\ Len(two) = 2 /\ Len(rest) = n
    BY <1>4, <1>6, <2>1
  <2>3. /\ two \o rest \in Seq(SR) /\ Len(two \o rest) = Len(two) + Len(rest)
        /\ \A i \in 1..(Len(two) + Len(rest)) :
             (two \o rest)[i] = IF i <= Len(two) THEN two[i] ELSE rest[i - Len(two)]
    BY <2>2, ConcatProperties
  <2>4. u \in Seq(SUBSET Records) /\ Len(u) = 2 + n
    BY <1>7, <2>1, <2>2, <2>3
  <2>5. \A i \in 1..(2 + n) : u[i] = IF i <= 2 THEN two[i] ELSE rest[i - 2]
    BY <1>7, <2>2, <2>3
  <2> QED
    BY <2>4, <2>5
<1>9. DOMAIN u = 1..(2 + n)
  BY <1>8
<1>10. /\ u[1] = front /\ u[2] = batch \ front
       /\ \A i \in 3..(2 + n) : u[i] = rest[i - 2] /\ i - 2 \in DOMAIN rest
  <2>1. \A i \in 1..(2 + n) : u[i] = IF i <= 2 THEN two[i] ELSE rest[i - 2]
    BY <1>8
  <2>2. 1 \in 1..(2 + n) /\ 2 \in 1..(2 + n)
    OBVIOUS
  <2>3. \A i \in 3..(2 + n) : i \in 1..(2 + n) /\ ~(i <= 2) /\ i - 2 \in 1..n
    OBVIOUS
  <2> QED
    BY <1>4, <1>6, <2>1, <2>2, <2>3
<1>11. \A i \in DOMAIN u : i = 1 \/ i = 2 \/ i \in 3..(2 + n)
  BY <1>9
<1>12. \A i \in DOMAIN u : u[i] # {} /\ u[i] \subseteq held
  <2>1. \A i \in DOMAIN rest : rest[i] # {} /\ rest[i] \subseteq held
    BY <1>3 DEF TodoFine
  <2>2. /\ u[1] # {} /\ u[1] \subseteq held /\ u[2] # {} /\ u[2] \subseteq held
    BY <1>1, <1>3, <1>10
  <2> QED
    BY <1>10, <1>11, <2>1, <2>2
<1>13. \A i \in DOMAIN u : \A r \in u[i] : Decided(f, r)
  BY <1>1, <1>3, <1>10, <1>11 DEF TodoFine
<1>14. \A i, j \in DOMAIN u : i # j => u[i] \cap u[j] = {}
  <2>1. \A i, j \in 3..(2 + n) : i # j => i - 2 # j - 2
    OBVIOUS
  <2>2. \A i, j \in 3..(2 + n) : i # j => u[i] \cap u[j] = {}
    <3>1. \A i, j \in DOMAIN rest : i # j => rest[i] \cap rest[j] = {}
      BY <1>3 DEF TodoFine
    <3> SUFFICES ASSUME NEW i \in 3..(2 + n), NEW j \in 3..(2 + n), i # j
                 PROVE  u[i] \cap u[j] = {}
      OBVIOUS
    <3>2. /\ u[i] = rest[i - 2] /\ i - 2 \in DOMAIN rest
          /\ u[j] = rest[j - 2] /\ j - 2 \in DOMAIN rest
      BY <1>10
    <3>3. PICK x \in DOMAIN rest, y \in DOMAIN rest : x = i - 2 /\ y = j - 2 /\ x # y
      BY <2>1, <3>2
    <3> QED
      BY <3>1, <3>2, <3>3
  <2>3. u[1] \cap u[2] = {}
    BY <1>10
  <2>4. \A i \in 3..(2 + n) : u[i] \cap u[1] = {} /\ u[i] \cap u[2] = {}
    BY <1>1, <1>3, <1>10
  <2> QED
    BY <1>11, <2>2, <2>3, <2>4
<1>15. TodoFine(u, held, f) /\ u # <<>>
  BY <1>8, <1>12, <1>13, <1>14 DEF TodoFine
<1> QED
  BY <1>1, <1>2, <1>5, <1>7, <1>15

\* Half a cohort of several is neither none nor all of it.
LEMMA HalfProper ==
  ASSUME NEW S \in SUBSET Records, Cardinality(S) > 1
  PROVE  /\ firstOf(S, middle(Cardinality(S))) \in SUBSET S
         /\ firstOf(S, middle(Cardinality(S))) # {} /\ firstOf(S, middle(Cardinality(S))) # S
<1>1. S \in SUBSET Nat /\ IsFiniteSet(S)
  BY RecordsAssumption, FS_Subset
<1>2. PICK n \in Nat : n = Cardinality(S)
  BY <1>1, FS_CardinalityType
<1>3. PICK P \in [S -> SUBSET S] : \A i \in S : P[i] = {j \in S : j < i}
  <2>1. [i \in S |-> {j \in S : j < i}] \in [S -> SUBSET S]
    OBVIOUS
  <2> QED
    BY <2>1
<1>4. PICK m \in Nat : m = middle(n) /\ 1 <= m /\ m <= n - 1
  BY <1>2 DEF middle
<1>5. \A k \in 1..n : \E i \in S : Cardinality(P[i]) = k - 1
  BY <1>1, <1>2, <1>3, NumberRanks
<1>6. PICK i \in S : Cardinality(P[i]) = 0
  <2>1. 1 \in 1..n /\ 1 - 1 = 0
    BY <1>2
  <2> QED
    BY <1>5, <2>1
<1>7. PICK j \in S : Cardinality(P[j]) = n - 1
  <2>1. n \in 1..n
    BY <1>2
  <2> QED
    BY <1>5, <2>1
<1>8. firstOf(S, m) = {r \in S : Cardinality(P[r]) < m}
  BY <1>3 DEF firstOf
<1>9. i \in firstOf(S, m)
  BY <1>4, <1>6, <1>8
<1>10. j \notin firstOf(S, m)
  BY <1>2, <1>4, <1>7, <1>8
<1> QED
  BY <1>2, <1>4, <1>8, <1>9, <1>10

-----------------------------------------------------------------------------
(* Every step keeps the invariant.                                         *)

\* The bounds are numbers.
LEMMA BoundsFound ==
  /\ TTL \in Nat \ {0} /\ Limit \in Nat \ {0}
  /\ StartTime \in Nat /\ MaxTime \in Nat /\ MaxStalls \in Nat /\ MaxCrashes \in Nat
  /\ StartTime <= MaxTime
<1>1. {StartTime, MaxTime, MaxStalls, MaxCrashes} \subseteq Nat
  BY LimitsAssumption
<1> QED
  BY <1>1, LimitsAssumption

\* An empty journal, an idle worker and a database of others' records.
LEMMA InitFine == Init => IInv
<1> SUFFICES ASSUME Init PROVE IInv
  OBVIOUS
<1>1. JournalInv
  BY BoundsFound DEF Init, JournalInv
<1>2. WorkerInv
  BY DEF Init, WorkerInv, Steps
<1>3. EngInv(eng)
  BY NoFamilyFine DEF Init
<1>4. DbInv(db)
  <2>1. PICK seen : seen = [r \in Records |-> IF r \in Conflicting THEN Foreign ELSE None]
    OBVIOUS
  <2>2. PICK d : d = [seen |-> seen, occurrences |-> <<>>, active |-> FALSE]
    OBVIOUS
  <2>3. db = d
    BY <2>1, <2>2 DEF Init
  <2>4. d \in Databases
    <3>1. <<>> \in [{} -> Nat] /\ {} \in SUBSET Keys
      OBVIOUS
    <3>2. <<>> \in UNION {[G -> Nat] : G \in SUBSET Keys}
      BY <3>1
    <3>3. seen \in [Records -> Verdicts \cup {None, Foreign}]
      BY <2>1
    <3> QED
      BY <2>2, <3>2, <3>3 DEF Databases
  <2>5. \A r \in Records : ~Persisted(d, r)
    BY <2>1, <2>2 DEF Persisted
  <2>6. DOMAIN d.occurrences = {} /\ d.active = FALSE
    BY <2>2
  <2>7. OnlyOthersForeign(d)
    BY <2>1, <2>2, NoneAssumption DEF OnlyOthersForeign
  <2> QED
    BY <2>3, <2>4, <2>5, <2>6, <2>7 DEF DbInv, KnownGenerations, CountsAgree, Investigated
<1>5. TodoInv
  BY TodoStarts DEF Init, TodoInv
<1>6. CommittedPersisted
  BY DEF Init, CommittedPersisted
<1> QED
  BY <1>1, <1>2, <1>3, <1>4, <1>5, <1>6 DEF IInv

\* An append changes neither the worker nor the database and commits nothing.
LEMMA IngestKeeps == ASSUME IInv, NEW r \in Records, Ingest(r) PROVE IInv'
<1>1. JournalInv'
  BY DEF IInv, JournalInv, Ingest, memory
<1>2. WorkerInv' /\ EngInv(eng)' /\ DbInv(db)' /\ TodoInv'
  BY DEF IInv, WorkerInv, TodoInv, Ingest, memory
<1>3. CommittedPersisted'
  BY DEF IInv, JournalInv, CommittedPersisted, Ingest
<1> QED
  BY <1>1, <1>2, <1>3 DEF IInv

\* Time moves, and leases with it.
LEMMA TickKeeps == ASSUME IInv, Tick PROVE IInv'
<1>1. JournalInv'
  <2>1. now' \in StartTime..MaxTime
    BY BoundsFound DEF IInv, JournalInv, Tick, Earlier
  <2>2. stalls' \in 0..MaxStalls
    BY BoundsFound DEF IInv, JournalInv, Tick
  <2>3. left' \in [Records -> 0..TTL]
    BY BoundsFound DEF IInv, JournalInv, Tick
  <2> QED
    BY <2>1, <2>2, <2>3 DEF IInv, JournalInv, Tick, memory
<1>2. WorkerInv' /\ EngInv(eng)' /\ DbInv(db)' /\ TodoInv'
  BY DEF IInv, WorkerInv, TodoInv, Tick, memory
<1>3. CommittedPersisted'
  BY DEF IInv, CommittedPersisted, Tick
<1> QED
  BY <1>1, <1>2, <1>3 DEF IInv

\* holdClaims drops what lapsed, before there is a cohort.
LEMMA HoldKeeps == ASSUME IInv, holdClaims PROVE IInv'
<1>1. JournalInv' /\ EngInv(eng)' /\ DbInv(db)' /\ CommittedPersisted'
  BY DEF IInv, JournalInv, CommittedPersisted, holdClaims
<1>2. WorkerInv'
  BY DEF IInv, WorkerInv, holdClaims, Steps
<1>3. TodoInv'
  <2>1. todo = <<>> /\ todo' = <<>> /\ claimed' \in SUBSET Records
    BY DEF IInv, TodoInv, WorkerInv, holdClaims
  <2>2. pc' \notin {"persist", "mark"}
    BY DEF holdClaims
  <2> QED
    BY <2>1, <2>2, TodoStarts DEF TodoInv
<1> QED
  BY <1>1, <1>2, <1>3 DEF IInv

\* A renewal forgets what is no longer held, before there is a cohort.
LEMMA RenewKeeps == ASSUME IInv, RenewClaims PROVE IInv'
<1>1. JournalInv'
  BY BoundsFound DEF IInv, JournalInv, RenewClaims, Lease
<1>2. EngInv(eng)' /\ DbInv(db)' /\ CommittedPersisted'
  BY DEF IInv, CommittedPersisted, RenewClaims
<1>3. WorkerInv'
  BY DEF IInv, WorkerInv, RenewClaims, Steps
<1>4. TodoInv'
  <2>1. todo = <<>> /\ todo' = <<>> /\ claimed' \in SUBSET Records
    BY DEF IInv, TodoInv, WorkerInv, RenewClaims
  <2>2. pc' \notin {"persist", "mark"}
    BY DEF RenewClaims
  <2> QED
    BY <2>1, <2>2, TodoStarts DEF TodoInv
<1> QED
  BY <1>1, <1>2, <1>3, <1>4 DEF IInv

\* Claim leases what waits, none of which is committed.
LEMMA ClaimKeeps == ASSUME IInv, Claim PROVE IInv'
<1>1. JournalInv' /\ fresh' \in SUBSET Records /\ \A r \in Records : status'[r] = "committed" => status[r] = "committed"
  <2>1. CASE UNCHANGED <<status, left, fresh>>
    BY <2>1 DEF IInv, JournalInv, WorkerInv, Claim
  <2>2. CASE \E taken \in kSubset(Earlier(Limit - Cardinality(claimed), Cardinality(waiting)), waiting) :
               /\ status' = [r \in Records |-> IF r \in taken THEN "claimed"
                                               ELSE IF r \in waiting THEN "pending" ELSE status[r]]
               /\ left' = Lease(taken, TTL)
               /\ fresh' = taken
    <3>1. PICK taken \in SUBSET Records :
            /\ status' = [r \in Records |-> IF r \in taken THEN "claimed"
                                            ELSE IF r \in waiting THEN "pending" ELSE status[r]]
            /\ left' = Lease(taken, TTL)
            /\ fresh' = taken
      <4>1. \A k : kSubset(k, waiting) \subseteq SUBSET waiting
        BY DEF kSubset
      <4>2. waiting \subseteq Records
        BY DEF waiting
      <4> QED
        BY <2>2, <4>1, <4>2
    <3>2. status' \in [Records -> {"absent", "pending", "claimed", "committed", "quarantined"}]
      BY <3>1 DEF IInv, JournalInv
    <3>3. left' \in [Records -> 0..TTL]
      BY <3>1, BoundsFound DEF IInv, JournalInv, Lease
    <3>4. \A r \in Records : status'[r] = "committed" => status[r] = "committed"
      BY <3>1
    <3> QED
      BY <3>1, <3>2, <3>3, <3>4 DEF IInv, JournalInv, Claim
  <2> QED
    BY <2>1, <2>2 DEF Claim
<1>2. EngInv(eng)' /\ DbInv(db)' /\ CommittedPersisted'
  BY <1>1 DEF IInv, CommittedPersisted, Claim
<1>3. WorkerInv'
  BY <1>1 DEF IInv, WorkerInv, Claim, Steps
<1>4. TodoInv'
  <2>1. todo = <<>> /\ todo' = <<>> /\ claimed' \in SUBSET Records
    BY DEF IInv, TodoInv, WorkerInv, Claim
  <2>2. pc' \notin {"persist", "mark"}
    BY DEF Claim
  <2> QED
    BY <2>1, <2>2, TodoStarts DEF TodoInv
<1> QED
  BY <1>1, <1>2, <1>3, <1>4 DEF IInv

\* A claim looked at is observed, or quarantined, or ends the cycle.
LEMMA ObserveClaimKeeps == ASSUME IInv, NEW r \in Records, ObserveClaim(r) PROVE IInv'
<1>1. JournalInv'
  BY DEF IInv, JournalInv, ObserveClaim, Quarantine
<1>2. EngInv(eng)'
  BY ObserveKeeps DEF IInv, ObserveClaim
<1>3. DbInv(db)' /\ CommittedPersisted'
  BY DEF IInv, JournalInv, CommittedPersisted, ObserveClaim, Quarantine
<1>4. WorkerInv'
  BY DEF IInv, WorkerInv, ObserveClaim, Quarantine, Return, Steps
<1>5. TodoInv'
  <2>1. todo = <<>> /\ todo' = <<>> /\ claimed' \in SUBSET Records
    BY DEF IInv, TodoInv, WorkerInv, ObserveClaim, Quarantine, Return
  <2>2. pc' \notin {"persist", "mark"}
    BY DEF ObserveClaim, Return
  <2> QED
    BY <2>1, <2>2, TodoStarts DEF TodoInv
<1> QED
  BY <1>1, <1>2, <1>3, <1>4, <1>5 DEF IInv

\* What the engine has decided makes the first cohort.
LEMMA DecideKeeps == ASSUME IInv, Decide PROVE IInv'
<1>1. JournalInv' /\ DbInv(db)' /\ CommittedPersisted'
  BY DEF IInv, JournalInv, CommittedPersisted, Decide
<1>2. EngInv(eng)'
  <2>1. cycleNow \in Nat /\ claimed \in SUBSET Records
    BY BoundsFound DEF IInv, JournalInv, WorkerInv, Zero
  <2> QED
    BY <2>1, AdvanceKeeps DEF IInv, Decide
<1>3. PICK cohort \in SUBSET claimed :
        /\ cohort = {r \in claimed : Decided(eng', r)}
        /\ todo' = IF cohort = {} THEN <<>> ELSE <<cohort>>
        /\ pc' = IF cohort = {} THEN "idle" ELSE "persist"
  BY DEF Decide
<1>4. WorkerInv'
  BY <1>3 DEF IInv, WorkerInv, Decide, Steps
<1>5. TodoInv'
  <2>0. claimed \in SUBSET Records /\ claimed' = claimed
    BY DEF IInv, WorkerInv, Decide
  <2>1. CASE cohort = {}
    BY <1>3, <2>0, <2>1, TodoStarts DEF TodoInv
  <2>2. CASE cohort # {}
    <3>1. TodoFine(<<cohort>>, claimed, eng')
      BY <1>3, <2>0, <2>2, TodoStarts
    <3>2. <<cohort>> # <<>>
      OBVIOUS
    <3> QED
      BY <1>3, <2>0, <2>2, <3>1, <3>2 DEF TodoInv
  <2> QED
    BY <2>1, <2>2
<1> QED
  BY <1>1, <1>2, <1>3, <1>4, <1>5 DEF IInv

\* What is known when it is a cohort's turn.
LEMMA TurnFound ==
  ASSUME IInv, pc \in {"persist", "mark"}
  PROVE  /\ claimed \in SUBSET Records /\ TodoFine(todo, claimed, eng) /\ todo # <<>>
         /\ Batch \in SUBSET Records /\ Batch # {} /\ Batch \subseteq claimed
         /\ \A r \in Batch : Decision(eng, r) \in Verdicts /\ Rightful(r, Decision(eng, r))
         /\ due = {} /\ fresh = {}
<1>1. /\ claimed \in SUBSET Records /\ TodoFine(todo, claimed, eng) /\ todo # <<>>
      /\ due = {} /\ fresh = {}
  BY DEF IInv, WorkerInv, TodoInv
<1>2. /\ Batch \in SUBSET Records /\ Batch # {} /\ Batch \subseteq claimed
      /\ \A r \in Batch : Decided(eng, r)
  BY <1>1, TodoTurn DEF Batch
<1>3. EngInv(eng)
  BY DEF IInv
<1> QED
  BY <1>1, <1>2, <1>3, DecisionFound

\* The transaction commits its cohort.
LEMMA PersistKeeps == ASSUME IInv, PersistCohort PROVE IInv'
<1>0. pc = "persist" /\ ProcessBatch(db, Batch) # None /\ db' = ProcessBatch(db, Batch) /\ pc' = "mark"
  BY DEF PersistCohort, Turn
<1>1. JournalInv' /\ EngInv(eng)'
  BY DEF IInv, JournalInv, PersistCohort
<1>2. WorkerInv'
  BY <1>0 DEF IInv, WorkerInv, PersistCohort, Steps
<1>3. /\ DbInv(db') /\ \A r \in Batch : Persisted(db', r)
      /\ \A r \in Records : Persisted(db, r) => Persisted(db', r)
  BY <1>0, TurnFound, BatchKeeps DEF IInv
<1>4. CommittedPersisted'
  BY <1>3 DEF IInv, CommittedPersisted, PersistCohort
<1>5. TodoInv'
  BY <1>0, <1>3, TurnFound DEF TodoInv, Batch, PersistCohort
<1> QED
  BY <1>1, <1>2, <1>3, <1>4, <1>5 DEF IInv

\* The transaction commits or not, and the cycle ends either way.
LEMMA FailKeeps == ASSUME IInv, PersistFails PROVE IInv'
<1>0. /\ pc = "persist" /\ Return
      /\ db' = db \/ (ProcessBatch(db, Batch) # None /\ db' = ProcessBatch(db, Batch))
  BY DEF PersistFails, Turn
<1>1. JournalInv' /\ EngInv(eng)'
  BY DEF IInv, JournalInv, PersistFails
<1>2. WorkerInv'
  BY DEF IInv, WorkerInv, PersistFails, Return, Steps
<1>3. DbInv(db') /\ \A r \in Records : Persisted(db, r) => Persisted(db', r)
  BY <1>0, TurnFound, BatchKeeps DEF IInv
<1>4. CommittedPersisted'
  BY <1>3 DEF IInv, CommittedPersisted, PersistFails
<1>5. TodoInv'
  <2>1. todo' = <<>> /\ claimed' \in SUBSET Records /\ pc' \notin {"persist", "mark"}
    BY <1>0, TurnFound DEF Return, PersistFails
  <2> QED
    BY <2>1, TodoStarts DEF TodoInv
<1> QED
  BY <1>1, <1>2, <1>3, <1>4, <1>5 DEF IInv

\* A cohort falls into two, neither of them empty.
LEMMA BisectKeeps == ASSUME IInv, Bisect PROVE IInv'
<1>0. pc = "persist" /\ pc' = "persist"
  BY DEF Bisect, Turn
<1>1. JournalInv' /\ EngInv(eng)' /\ DbInv(db)' /\ CommittedPersisted' /\ WorkerInv'
  BY DEF IInv, JournalInv, CommittedPersisted, WorkerInv, Bisect
<1>2. PICK front : front = firstOf(Batch, middle(Cardinality(Batch)))
  OBVIOUS
<1>3. todo' = <<front, Batch \ front>> \o Tail(todo) /\ Cardinality(Batch) > 1
  BY <1>2 DEF Bisect
<1>4. front \in SUBSET Batch /\ front # {} /\ front # Batch
  BY <1>0, <1>2, <1>3, TurnFound, HalfProper
<1>5. TodoFine(todo', claimed, eng) /\ todo' # <<>>
  BY <1>0, <1>3, <1>4, TurnFound, TodoHalved DEF Batch
<1>6. TodoInv'
  BY <1>0, <1>5 DEF TodoInv, Bisect
<1> QED
  BY <1>1, <1>6 DEF IInv

\* The next cohort's turn, after a step that let go of at most this one's claims.
LEMMA ProceedKeeps ==
  ASSUME IInv, pc \in {"persist", "mark"}, Proceed, eng' = eng,
         claimed' = claimed \ Batch
  PROVE  WorkerInv' /\ TodoInv'
<1>1. TodoFine(Tail(todo), claimed', eng)
  BY TurnFound, TodoTurn DEF Batch
<1>2. WorkerInv'
  BY TurnFound DEF IInv, WorkerInv, Proceed, Steps
<1>3. TodoInv'
  BY <1>1 DEF TodoInv, Proceed
<1> QED
  BY <1>2, <1>3

\* The end of a cycle that lets no claim go.
LEMMA ReturnKeeps ==
  ASSUME IInv, Return, claimed' = claimed
  PROVE  WorkerInv' /\ TodoInv'
<1>1. claimed' \in SUBSET Records
  BY DEF IInv, WorkerInv
<1> QED
  BY <1>1, TodoStarts DEF IInv, WorkerInv, TodoInv, Return, Steps

\* Isolation quarantines one record, which is the whole cohort, or nothing.
LEMMA IsolateKeeps == ASSUME IInv, Isolate PROVE IInv'
<1>0. pc = "persist" /\ eng' = eng
  BY DEF Isolate, Turn
<1>1. JournalInv'
  BY DEF IInv, JournalInv, Isolate, Quarantine
<1>2. EngInv(eng)' /\ DbInv(db)'
  BY DEF IInv, Isolate
<1>3. CommittedPersisted'
  BY DEF IInv, JournalInv, CommittedPersisted, Isolate, Quarantine
<1>4. \/ Proceed /\ claimed' = claimed \ Batch
      \/ Return /\ claimed' = claimed
  BY DEF Isolate, Quarantine
<1>5. WorkerInv' /\ TodoInv'
  BY <1>0, <1>4, ProceedKeeps, ReturnKeeps
<1> QED
  BY <1>1, <1>2, <1>3, <1>5 DEF IInv

\* Only what is persisted is committed.
LEMMA MarkKeeps == ASSUME IInv, MarkCommitted PROVE IInv'
<1>0. pc = "mark" /\ eng' = eng /\ \A r \in Batch : Persisted(db, r)
  BY DEF MarkCommitted, IInv, TodoInv, Batch
<1>1. JournalInv'
  BY DEF IInv, JournalInv, MarkCommitted, Become
<1>2. EngInv(eng)' /\ DbInv(db)'
  BY DEF IInv, MarkCommitted
<1>3. CommittedPersisted'
  BY <1>0 DEF IInv, JournalInv, CommittedPersisted, MarkCommitted, Become
<1>4. \/ Proceed /\ claimed' = claimed \ Batch
      \/ Return /\ claimed' = claimed
  BY DEF MarkCommitted
<1>5. WorkerInv' /\ TodoInv'
  BY <1>0, <1>4, ProceedKeeps, ReturnKeeps
<1> QED
  BY <1>1, <1>2, <1>3, <1>5 DEF IInv

\* A record rejected alone contradicts what is persisted under its id, or is
\* evidence whose episode has no row.
LEMMA RejectedAlone ==
  ASSUME NEW d, DbInv(d), NEW r \in Records, Decision(eng, r) \in Verdicts,
         ProcessBatch(d, {r}) = None
  PROVE  r \in Conflicting \cup eng.evidence
<1>1. PICK n \in Nat : \E h, seq : IsBatch(d, {r}, n, h, seq)
  <2>1. {r} \in SUBSET Records /\ \A q \in {r} : Decision(eng, q) \in Verdicts
    OBVIOUS
  <2> QED
    BY <2>1, BatchSteps
<1>2. PICK h, seq :
        /\ seq \in [1..n -> {r}] /\ \E k \in 1..n : seq[k] = r
        /\ \A i, j \in 1..n : seq[i] = seq[j] => i = j
        /\ h[0] = d /\ \A k \in 1..n : h[k] = ProcessNext(h[k - 1], seq[k])
        /\ ProcessBatch(d, {r}) = h[n]
  BY <1>1 DEF IsBatch
<1>3. n = 1 /\ seq[1] = r
  <2>1. 1 \in 1..n /\ seq[1] = r
    BY <1>2
  <2>2. 2 \in 1..n => seq[2] = r
    BY <1>2
  <2>3. 2 \notin 1..n
    BY <1>2, <2>1, <2>2
  <2> QED
    BY <2>1, <2>3
<1>4. ProcessNext(d, r) = None
  <2>1. 1 \in 1..n /\ 1 - 1 = 0
    BY <1>3
  <2> QED
    BY <1>2, <1>3, <2>1
<1>5. Rejects(d, r, Decision(eng, r))
  <2> SUFFICES ASSUME ~Rejects(d, r, Decision(eng, r)) PROVE FALSE
    OBVIOUS
  <2>1. d # None
    BY NoneAssumption DEF DbInv
  <2>2. processOne(d, r, Decision(eng, r)) = None
    BY <1>4, <2>1 DEF ProcessNext
  <2>3. processOne(d, r, Decision(eng, r)) \in Databases
    BY ProcessOneKeeps DEF DbInv
  <2> QED
    BY <2>2, <2>3, NoneAssumption
<1>6. Decision(eng, r).evidenceOnly <=> r \in eng.evidence
  BY DEF Decision
<1> QED
  BY <1>5, <1>6 DEF Rejects, DbInv, OnlyOthersForeign

\* The process dies with all it holds in memory.
LEMMA CrashKeeps == ASSUME IInv, Crash PROVE IInv'
<1>1. JournalInv'
  BY BoundsFound DEF IInv, JournalInv, Crash
<1>2. EngInv(eng)'
  BY NoFamilyFine DEF Crash
<1>3. DbInv(db)' /\ CommittedPersisted'
  BY DEF IInv, CommittedPersisted, Crash
<1>4. WorkerInv'
  BY DEF IInv, WorkerInv, Crash, Steps
<1>5. TodoInv'
  BY TodoStarts DEF TodoInv, Crash
<1> QED
  BY <1>1, <1>2, <1>3, <1>4, <1>5 DEF IInv

\* A restart rebuilds the engine and adopts the claims.
LEMMA NewKeeps == ASSUME IInv, New PROVE IInv'
<1>1. JournalInv' /\ DbInv(db)' /\ CommittedPersisted'
  BY DEF IInv, JournalInv, CommittedPersisted, New
<1>2. EngInv(eng)'
  <2>1. Retained \ Unsupported \in SUBSET Records
    BY DEF Retained
  <2> QED
    BY <2>1, ReplayFine DEF New
<1>3. claimed' \in SUBSET Records
  BY DEF New, Adopted
<1>4. WorkerInv'
  BY <1>3 DEF IInv, WorkerInv, New, Steps
<1>5. TodoInv'
  <2>1. todo' = <<>> /\ pc' \notin {"persist", "mark"}
    BY DEF IInv, TodoInv, New
  <2> QED
    BY <1>3, <2>1, TodoStarts DEF TodoInv
<1> QED
  BY <1>1, <1>2, <1>4, <1>5 DEF IInv

-----------------------------------------------------------------------------
(* The theorems.                                                           *)

\* The invariant: the journal, the worker, the engine and the database agree
\* in every state, whatever fails, lapses, is halved, retried or restarted.
THEOREM Invariant == Spec => []IInv
<1>1. IInv /\ [Next]_vars => IInv'
  <2> SUFFICES ASSUME IInv, [Next]_vars PROVE IInv'
    OBVIOUS
  <2>1. CASE Work
    BY <2>1, HoldKeeps, RenewKeeps, ClaimKeeps, DecideKeeps, ObserveClaimKeeps, PersistKeeps,
       FailKeeps, BisectKeeps, IsolateKeeps, MarkKeeps DEF Work
  <2>2. CASE \E r \in Records : Ingest(r)
    BY <2>2, IngestKeeps
  <2>3. CASE Crash
    BY <2>3, CrashKeeps
  <2>4. CASE New
    BY <2>4, NewKeeps
  <2>5. CASE Tick
    BY <2>5, TickKeeps
  <2>6. CASE UNCHANGED vars
    BY <2>6 DEF IInv, JournalInv, WorkerInv, TodoInv, CommittedPersisted, vars, memory
  <2> QED
    BY <2>1, <2>2, <2>3, <2>4, <2>5, <2>6 DEF Next
<1> QED
  BY <1>1, InitFine, PTL DEF Spec

\* Every variable has its type, and the engine's bookkeeping names records.
THEOREM TypeCorrect == Spec => []TypeOK
<1>1. IInv => TypeOK
  <2> SUFFICES ASSUME IInv PROVE TypeOK
    OBVIOUS
  <2>1. db \in Databases /\ eng \in Families /\ eng.events \cap eng.evidence = {}
    BY DEF IInv, DbInv, EngInv
  <2>2. db.seen \in [Records -> Verdicts \cup {None, Foreign}] /\ DOMAIN db.occurrences \subseteq Keys
    BY <2>1, DbTypes
  <2>3. Seen(eng) \subseteq Records
    BY <2>1, FamilyTypes DEF Seen
  <2>4. \A i \in DOMAIN todo : todo[i] \subseteq claimed /\ todo[i] # {}
    BY DEF IInv, TodoInv, TodoFine
  <2> QED
    BY <2>1, <2>2, <2>3, <2>4 DEF IInv, JournalInv, WorkerInv, TypeOK
<1> QED
  BY <1>1, Invariant, PTL

\* Whatever failed, lapsed, was halved or retried, a record the journal calls
\* committed is in the database.
THEOREM CommittedIsPersisted == Spec => []CommittedPersisted
<1>1. IInv => CommittedPersisted
  BY DEF IInv
<1> QED
  BY <1>1, Invariant, PTL

\* However often a record is persisted again, the occurrence counts are those
\* of the records.
THEOREM OccurrencesCountedOnce == Spec => []CountedOnce
<1>1. IInv => CountedOnce
  BY DEF IInv, DbInv, CountsAgree, CountedOnce
<1> QED
  BY <1>1, Invariant, PTL

\* Whatever the worker does, of the records that contribute to an episode it
\* quarantines only those that cannot be identified or contradict what is
\* persisted under their id.
THEOREM OnlyInvalidContributionsQuarantined == Spec => ContributionsKept
<1> DEFINE Kept == \A r \in Records :
                     status[r] # "quarantined" /\ status'[r] = "quarantined"
                       => r \in Unsupported \cup Conflicting \cup eng.evidence
<1>1. IInv /\ [Next]_vars => [Kept]_vars
  <2> SUFFICES ASSUME IInv, Next, NEW r \in Records,
                      status[r] # "quarantined", status'[r] = "quarantined"
               PROVE  r \in Unsupported \cup Conflicting \cup eng.evidence
    OBVIOUS
  <2>0. status \in [Records -> {"absent", "pending", "claimed", "committed", "quarantined"}]
    BY DEF IInv, JournalInv
  <2>1. CASE \E q \in Records : ObserveClaim(q)
    BY <2>0, <2>1 DEF ObserveClaim, Quarantine
  <2>2. CASE Isolate
    <3>1. PICK q \in Records : Batch = {q} /\ (Quarantine(q) \/ status' = status)
      BY <2>2 DEF Isolate
    <3>2. q = r
      BY <2>0, <3>1 DEF Quarantine
    <3>3. pc = "persist" /\ ProcessBatch(db, {r}) = None
      BY <2>2, <3>1, <3>2 DEF Isolate, Turn
    <3>4. Decision(eng, r) \in Verdicts
      BY <3>1, <3>2, <3>3, TurnFound
    <3> QED
      BY <3>3, <3>4, RejectedAlone DEF IInv
  <2>3. CASE \E q \in Records : Ingest(q)
    BY <2>0, <2>3 DEF Ingest
  <2>4. CASE Claim
    BY <2>0, <2>4 DEF Claim
  <2>5. CASE MarkCommitted
    BY <2>0, <2>5 DEF MarkCommitted, Become
  <2>6. CASE holdClaims \/ RenewClaims \/ Decide \/ PersistCohort \/ PersistFails \/ Bisect
             \/ Crash \/ New \/ Tick
    BY <2>6 DEF holdClaims, RenewClaims, Decide, PersistCohort, PersistFails, Bisect, Crash, New, Tick
  <2> QED
    BY <2>1, <2>2, <2>3, <2>4, <2>5, <2>6 DEF Next, Work
<1> QED
  BY <1>1, Invariant, PTL DEF Spec, ContributionsKept

\* Whatever order records are persisted in, an investigation is active exactly
\* when some window of a generation is full.
THEOREM InvestigatedWhateverTheOrder == Spec => []InvestigatedInAnyOrder
<1>1. IInv => InvestigatedInAnyOrder
  BY DEF IInv, DbInv, Investigated, Full, WindowOf, InvestigatedInAnyOrder
<1> QED
  BY <1>1, Invariant, PTL

-----------------------------------------------------------------------------
(* What the engine decides, and what the database keeps of it.             *)

\* Pin comes before Advance so that compaction leaves a held record its decision:
\* while the worker holds a contribution and does not die, neither a late arrival,
\* a refold nor compaction takes back the decision it has.
HeldStaysDecided ==
  [][\A r \in claimed \cap claimed' :
       pc' # "down" /\ r \in eng.events /\ Decided(eng, r)
         => r \in eng'.events /\ Decided(eng', r)]_vars

\* The verdict persisted first stands: a record persisted again, after a lost answer
\* or a restart whose engine decides it otherwise, keeps the one it has.
VerdictStands ==
  [][\A r \in Records : Persisted(db, r) => db'.seen[r] = db.seen[r]]_vars

\* A record is persisted under an episode of its own deployment, and a contribution
\* under one that begins no later than it.
OwnEpisode == \A r \in Records : Persisted(db, r) => Rightful(r, db.seen[r])

\* What the database may gain in a step.
LEMMA DbSteps ==
  ASSUME IInv, [Next]_vars
  PROVE  \A r \in Records :
           db'.seen[r] # db.seen[r] => ~Persisted(db, r) /\ Rightful(r, db'.seen[r])
<1>1. CASE PersistCohort \/ PersistFails
  <2>1. pc = "persist" /\ (db' = db \/ (ProcessBatch(db, Batch) # None /\ db' = ProcessBatch(db, Batch)))
    BY <1>1 DEF PersistCohort, PersistFails, Turn
  <2>2. CASE ProcessBatch(db, Batch) # None /\ db' = ProcessBatch(db, Batch)
    <3>1. /\ DbInv(db) /\ Batch \in SUBSET Records
          /\ \A r \in Batch : Decision(eng, r) \in Verdicts /\ Rightful(r, Decision(eng, r))
      BY <2>1, TurnFound DEF IInv
    <3>2. \A r \in Records : Recorded(db, db', Batch, r)
      BY <2>2, <3>1, BatchKeeps
    <3> QED
      BY <3>1, <3>2 DEF Recorded
  <2> QED
    BY <2>1, <2>2
<1>2. CASE holdClaims \/ RenewClaims \/ Claim \/ Decide \/ Bisect \/ Isolate \/ MarkCommitted
             \/ (\E r \in Records : ObserveClaim(r))
  BY <1>2 DEF holdClaims, RenewClaims, Claim, Decide, Bisect, Isolate, MarkCommitted, ObserveClaim
<1>3. CASE (\E r \in Records : Ingest(r)) \/ Crash \/ New \/ Tick \/ UNCHANGED vars
  BY <1>3 DEF Ingest, Crash, New, Tick, vars
<1> QED
  BY <1>1, <1>2, <1>3 DEF Next, Work

\* The verdict persisted first stands, however often and however differently the
\* record is decided again.
THEOREM FirstVerdictStands == Spec => VerdictStands
<1>1. IInv /\ [Next]_vars => [\A r \in Records : Persisted(db, r) => db'.seen[r] = db.seen[r]]_vars
  BY DbSteps
<1> QED
  BY <1>1, Invariant, PTL DEF Spec, VerdictStands

\* No record is counted to another deployment's episode, nor to one that began
\* after it.
THEOREM PersistedInOwnEpisode == Spec => []OwnEpisode
<1>1. Init => OwnEpisode
  <2> SUFFICES ASSUME Init, NEW r \in Records PROVE ~Persisted(db, r)
    BY DEF OwnEpisode
  <2>1. db.seen[r] \in {None, Foreign}
    BY DEF Init
  <2> QED
    BY <2>1 DEF Persisted
<1>2. IInv /\ OwnEpisode /\ [Next]_vars => OwnEpisode'
  <2> SUFFICES ASSUME IInv, OwnEpisode, [Next]_vars, NEW r \in Records, Persisted(db', r)
               PROVE  Rightful(r, db'.seen[r])
    BY DEF OwnEpisode
  <2>1. db'.seen[r] # db.seen[r] => Rightful(r, db'.seen[r])
    BY DbSteps
  <2>2. CASE db'.seen[r] = db.seen[r]
    BY <2>2 DEF OwnEpisode, Persisted
  <2> QED
    BY <2>1, <2>2
<1> QED
  BY <1>1, <1>2, Invariant, PTL DEF Spec

\* Whatever arrives late, is refolded or released, a contribution the worker holds
\* keeps the decision it has.
THEOREM HeldKeepsItsDecision == Spec => HeldStaysDecided
<1> DEFINE Stays == \A r \in claimed \cap claimed' :
                      pc' # "down" /\ r \in eng.events /\ Decided(eng, r)
                        => r \in eng'.events /\ Decided(eng', r)
<1>1. IInv /\ IInv' /\ [Next]_vars => [Stays]_vars
  <2> SUFFICES ASSUME IInv, IInv', Next, NEW r \in claimed, pc' # "down",
                      r \in eng.events, Decided(eng, r)
               PROVE  r \in eng'.events /\ Decided(eng', r)
    OBVIOUS
  <2>0. EngInv(eng) /\ EngInv(eng') /\ claimed \in SUBSET Records /\ r \in Records
    BY DEF IInv, WorkerInv
  <2>1. ASSUME eng' = eng PROVE r \in eng'.events /\ Decided(eng', r)
    <3>1. Decided(eng, r) <=> Decided(eng', r)
      BY <2>1
    <3> QED
      BY <2>1, <3>1
  <2>2. ASSUME Onward(eng, eng', eng.events \cap claimed)
        PROVE  r \in eng'.events /\ Decided(eng', r)
    <3>1. r \in eng'.events /\ eng.finalizedThrough <= eng'.finalizedThrough
      BY <2>2 DEF Onward
    <3>2. EventTime[r] < eng.finalizedThrough
      BY <2>0, DecidedBehindFrontier
    <3>3. EventTime[r] \in Nat /\ eng.finalizedThrough \in Int /\ eng'.finalizedThrough \in Int
      BY <2>0, Numbers, FamilyTypes DEF EngInv
    <3>4. EventTime[r] < eng'.finalizedThrough
      BY <3>1, <3>2, <3>3
    <3> QED
      BY <2>0, <3>1, <3>4, DecidedBehindFrontier
  <2>3. CASE \E q \in Records : ObserveClaim(q)
    <3>1. PICK q \in Records : eng' = Observe(eng, q) \/ eng' = eng
      BY <2>3 DEF ObserveClaim
    <3>2. Onward(eng, Observe(eng, q), eng.events)
      BY <2>0, ObserveKeeps
    <3>3. eng' = Observe(eng, q) => Onward(eng, eng', eng.events \cap claimed)
      BY <3>2 DEF Onward
    <3> QED
      BY <2>1, <2>2, <3>1, <3>3
  <2>4. CASE Decide
    <3>1. eng' = Advance(eng, cycleNow, claimed) /\ cycleNow \in Nat
      BY <2>4, BoundsFound DEF Decide, IInv, JournalInv, Zero
    <3>2. eng.events \cap claimed # {}
      OBVIOUS
    <3>3. Onward(eng, eng', eng.events \cap claimed)
      BY <2>0, <3>1, <3>2, AdvanceKeeps
    <3> QED
      BY <2>2, <3>3
  <2>5. CASE New
    BY <2>5 DEF New, IInv, WorkerInv
  <2>6. CASE Crash
    BY <2>6 DEF Crash
  <2>7. CASE holdClaims \/ RenewClaims \/ Claim \/ PersistCohort \/ PersistFails \/ Bisect
             \/ Isolate \/ MarkCommitted \/ (\E q \in Records : Ingest(q)) \/ Tick
    <3>1. eng' = eng
      BY <2>7 DEF holdClaims, RenewClaims, Claim, PersistCohort, PersistFails, Bisect, Isolate,
                  MarkCommitted, Ingest, Tick, memory
    <3> QED
      BY <2>1, <3>1
  <2> QED
    BY <2>3, <2>4, <2>5, <2>6, <2>7 DEF Next, Work
<1> QED
  BY <1>1, Invariant, PTL DEF Spec, HeldStaysDecided

=============================================================================
