---------------------------- MODULE ReplicaProofs ----------------------------
(***************************************************************************)
(* Theorems about one replica, for every value of its constants: any       *)
(* exports of any shape, any services, any bounds on what is in flight, in *)
(* the cache, in the journal and outstanding at the provider.              *)
(***************************************************************************)
EXTENDS Replica, SumTheorems

-----------------------------------------------------------------------------
(* The records of a request in wire order are a sequence.                  *)

IsFlat(f, ss) ==
  f = [i \in 1..Len(ss) |-> IF i = 1 THEN ss[i] ELSE f[i - 1] \o ss[i]]

\* FlattenSeq of SequencesExt, with its definition expanded.
LEMMA FlattenIs ==
  ASSUME NEW ss
  PROVE  FlattenSeq(ss) = IF Len(ss) = 0 THEN ss ELSE (CHOOSE f : IsFlat(f, ss))[Len(ss)]
BY DEF FlattenSeq, IsFlat

\* Its recursion has a solution, built up from the front.
LEMMA FlatExists ==
  ASSUME NEW ss, Len(ss) \in Nat
  PROVE  \E f : IsFlat(f, ss)
<1> DEFINE Upto(f, m) ==
             f = [i \in 1..m |-> IF i = 1 THEN ss[i] ELSE f[i - 1] \o ss[i]]
           Bad == {m \in Nat : \A f : ~Upto(f, m)}
<1>1. Bad = {}
  <2> SUFFICES ASSUME Bad # {} PROVE FALSE
    OBVIOUS
  <2>1. PICK m \in Bad : \A k \in Bad : m <= k
    BY NatLeast
  <2>2. CASE m = 0
    <3>1. Upto([i \in 1..0 |-> 0], 0)
      OBVIOUS
    <3> QED
      BY <2>1, <2>2, <3>1
  <2>3. CASE m # 0
    <3>1. PICK f : Upto(f, m - 1)
      <4>1. m \in Nat /\ m - 1 \in Nat /\ ~(m <= m - 1)
        BY <2>1, <2>3
      <4>2. m - 1 \notin Bad
        BY <2>1, <4>1
      <4> HIDE DEF Upto
      <4> QED
        BY <4>1, <4>2
    <3>2. PICK g : g = [i \in 1..m |-> IF i = 1 THEN ss[i] ELSE f[i - 1] \o ss[i]]
      OBVIOUS
    <3>3. m \in Nat /\ m > 0
      BY <2>1, <2>3
    <3>4. \A i \in 1..(m - 1) : i \in 1..m
      BY <3>3
    <3>5. \A i \in 1..(m - 1) : g[i] = f[i]
      <4> SUFFICES ASSUME NEW i \in 1..(m - 1) PROVE g[i] = f[i]
        OBVIOUS
      <4>1. f[i] = IF i = 1 THEN ss[i] ELSE f[i - 1] \o ss[i]
        BY <3>1
      <4>2. g[i] = IF i = 1 THEN ss[i] ELSE f[i - 1] \o ss[i]
        BY <3>2, <3>4
      <4> QED
        BY <4>1, <4>2
    <3>6. \A i \in 1..m : i # 1 => i - 1 \in 1..(m - 1)
      BY <3>3
    <3>7. \A i \in 1..m : (IF i = 1 THEN ss[i] ELSE f[i - 1] \o ss[i])
                          = (IF i = 1 THEN ss[i] ELSE g[i - 1] \o ss[i])
      BY <3>5, <3>6
    <3>8. Upto(g, m)
      BY <3>2, <3>7
    <3> QED
      BY <2>1, <3>8
  <2> QED
    BY <2>2, <2>3
<1>2. PICK f : Upto(f, Len(ss))
  <2>1. Len(ss) \notin Bad
    BY <1>1
  <2> HIDE DEF Upto
  <2> QED
    BY <2>1
<1> QED
  BY <1>2 DEF IsFlat

\* A sequence of sequences flattens to a sequence.
LEMMA FlattenType ==
  ASSUME NEW V, NEW ss \in Seq(Seq(V))
  PROVE  FlattenSeq(ss) \in Seq(V)
<1>1. CASE Len(ss) = 0
  <2>1. ss = <<>> /\ <<>> \in Seq(V)
    BY <1>1
  <2>2. FlattenSeq(ss) = ss
    BY <1>1, FlattenIs
  <2> QED
    BY <2>1, <2>2
<1>2. CASE Len(ss) # 0
  <2>1. Len(ss) \in Nat /\ 1 <= Len(ss) /\ \A i \in 1..Len(ss) : ss[i] \in Seq(V)
    BY <1>2
  <2>2. PICK f : f = (CHOOSE g : IsFlat(g, ss))
    OBVIOUS
  <2>3. IsFlat(f, ss)
    BY <2>1, <2>2, FlatExists
  <2> DEFINE Bad == {i \in 1..Len(ss) : f[i] \notin Seq(V)}
  <2>4. Bad = {}
    <3> SUFFICES ASSUME Bad # {} PROVE FALSE
      OBVIOUS
    <3>1. PICK i \in Bad : \A k \in Bad : i <= k
      <4>1. Bad \subseteq Nat
        BY <2>1
      <4> QED
        BY <4>1, NatLeast
    <3>2. CASE i = 1
      BY <2>1, <2>3, <3>1, <3>2 DEF IsFlat
    <3>3. CASE i # 1
      <4>1. i - 1 \in 1..Len(ss) /\ ~(i <= i - 1) /\ i \in 1..Len(ss)
        BY <2>1, <3>1, <3>3
      <4>2. f[i - 1] \in Seq(V)
        BY <3>1, <4>1
      <4>3. f[i] = f[i - 1] \o ss[i]
        BY <2>3, <3>3, <4>1 DEF IsFlat
      <4>4. ss[i] \in Seq(V)
        BY <2>1, <4>1
      <4>5. \A a, b \in Seq(V) : a \o b \in Seq(V)
        OBVIOUS
      <4>6. f[i] \in Seq(V)
        BY <4>2, <4>3, <4>4, <4>5
      <4> QED
        BY <3>1, <4>6
    <3> QED
      BY <3>2, <3>3
  <2>5. f[Len(ss)] \in Seq(V)
    <3>1. Len(ss) \in 1..Len(ss) /\ Len(ss) \notin Bad
      BY <2>1, <2>4
    <3> QED
      BY <3>1
  <2> QED
    BY <1>2, <2>2, <2>5, FlattenIs
<1> QED
  BY <1>1, <1>2

\* What Flatten is made of.
Views(request) ==
  LET groups == Range(request.resources)
      scopes == UNION {Range(g.scopes) : g \in groups}
  IN  [resource : groups, scope : scopes, record : UNION {Range(s.records) : s \in scopes}]

\* The wire of a well-formed request is a sequence.
LEMMA FlattenRequest ==
  ASSUME NEW request, IsRequest(request)
  PROVE  Flatten(request) \in Seq(Views(request))
<1> DEFINE resources == request.resources
           Below(g, s) == [k \in DOMAIN resources[g].scopes[s].records |->
                             [resource |-> resources[g], scope |-> resources[g].scopes[s],
                              record |-> resources[g].scopes[s].records[k]]]
           Group(g) == [s \in DOMAIN resources[g].scopes |-> Below(g, s)]
           V == Views(request)
<1>1. \A S, s : s \in Seq(S) => Len(s) \in Nat /\ DOMAIN s = 1..Len(s)
  OBVIOUS
<1>2. \A g \in DOMAIN resources : /\ resources[g] \in Range(resources)
                                  /\ IsSequence(resources[g].scopes)
  BY DEF IsRequest, Range
<1>3. \A g \in DOMAIN resources : \A s \in DOMAIN resources[g].scopes :
        /\ resources[g].scopes[s] \in Range(resources[g].scopes)
        /\ IsSequence(resources[g].scopes[s].records)
  BY DEF IsRequest, Range
<1>4. \A g \in DOMAIN resources : \A s \in DOMAIN resources[g].scopes : Below(g, s) \in Seq(V)
  <2> SUFFICES ASSUME NEW g \in DOMAIN resources, NEW s \in DOMAIN resources[g].scopes
               PROVE  Below(g, s) \in Seq(V)
    OBVIOUS
  <2>1. PICK records : records = resources[g].scopes[s].records
    OBVIOUS
  <2>2. Len(records) \in Nat /\ DOMAIN records = 1..Len(records)
    BY <1>1, <1>3, <2>1 DEF IsSequence
  <2>3. PICK scope : scope = resources[g].scopes[s]
    OBVIOUS
  <2>4. scope \in UNION {Range(h.scopes) : h \in Range(resources)} /\ records = scope.records
    BY <1>2, <1>3, <2>1, <2>3
  <2>5. \A k \in DOMAIN records :
          records[k] \in UNION {Range(c.records) :
                                   c \in UNION {Range(h.scopes) : h \in Range(resources)}}
    BY <2>4 DEF Range
  <2>6. \A k \in DOMAIN records :
          [resource |-> resources[g], scope |-> scope, record |-> records[k]] \in V
    BY <1>2, <2>4, <2>5 DEF Views
  <2>7. [k \in 1..Len(records) |->
           [resource |-> resources[g], scope |-> scope, record |-> records[k]]] \in Seq(V)
    <3> HIDE DEF V
    <3>1. PICK n \in Nat : n = Len(records)
      BY <2>2
    <3>2. [k \in 1..n |-> [resource |-> resources[g], scope |-> scope,
                           record |-> records[k]]] \in [1..n -> V]
      BY <2>2, <2>6, <3>1
    <3>3. \A f \in [1..n -> V] : f \in Seq(V)
      OBVIOUS
    <3> QED
      BY <3>1, <3>2, <3>3
  <2> QED
    BY <2>1, <2>2, <2>3, <2>7
<1> HIDE DEF Below, V
<1>5. \A g \in DOMAIN resources : FlattenSeq(Group(g)) \in Seq(V)
  <2> SUFFICES ASSUME NEW g \in DOMAIN resources PROVE FlattenSeq(Group(g)) \in Seq(V)
    OBVIOUS
  <2>1. PICK n \in Nat : DOMAIN resources[g].scopes = 1..n
    BY <1>1, <1>2 DEF IsSequence
  <2>2. Group(g) \in Seq(Seq(V))
    BY <1>4, <2>1
  <2> QED
    BY <2>2, FlattenType
<1>6. PICK n \in Nat : DOMAIN resources = 1..n
  BY <1>1 DEF IsRequest, IsSequence
<1>7. [g \in DOMAIN resources |-> FlattenSeq(Group(g))] \in Seq(Seq(V))
  <2> HIDE DEF Group
  <2> QED
    BY <1>5, <1>6
<1>8. FlattenSeq([g \in DOMAIN resources |-> FlattenSeq(Group(g))]) \in Seq(V)
  BY <1>7, FlattenType
<1>9. Flatten(request) = FlattenSeq([g \in DOMAIN resources |-> FlattenSeq(Group(g))])
  BY DEF Flatten, Below
<1> QED
  BY <1>8, <1>9 DEF V

-----------------------------------------------------------------------------
(* What Decode leaves of them.                                             *)

NothingRead == [request |-> <<>>, acceptedOriginalIndexes |-> <<>>, rejected |-> {}]
Reads(before, flat, n) ==
  IF TooDeep(flat[n])
  THEN [before EXCEPT !.rejected = @ \cup {n}]
  ELSE [before EXCEPT !.request = Append(@, flat[n]),
                      !.acceptedOriginalIndexes = Append(@, n)]
IsDecoded(d, flat) ==
  d = [n \in 0..Len(flat) |-> IF n = 0 THEN NothingRead ELSE Reads(d[n - 1], flat, n)]

\* Decode, with its definition expanded.
LEMMA DecodeIs ==
  ASSUME NEW request
  PROVE  Decode(request)
           = (CHOOSE d : IsDecoded(d, Flatten(request)))[Len(Flatten(request))]
BY DEF Decode, IsDecoded, NothingRead, Reads

\* Its recursion has a solution, built up record by record.
LEMMA DecodedExists ==
  ASSUME NEW flat, Len(flat) \in Nat
  PROVE  \E d : IsDecoded(d, flat)
<1> DEFINE Upto(d, m) ==
             d = [n \in 0..m |-> IF n = 0 THEN NothingRead ELSE Reads(d[n - 1], flat, n)]
           Bad == {m \in Nat : \A d : ~Upto(d, m)}
<1>1. Bad = {}
  <2> SUFFICES ASSUME Bad # {} PROVE FALSE
    OBVIOUS
  <2>1. PICK m \in Bad : \A k \in Bad : m <= k
    BY NatLeast
  <2>2. CASE m = 0
    <3>1. Upto([n \in 0..0 |-> NothingRead], 0)
      OBVIOUS
    <3> QED
      BY <2>1, <2>2, <3>1
  <2>3. CASE m # 0
    <3>1. PICK d : Upto(d, m - 1)
      <4>1. m \in Nat /\ m - 1 \in Nat /\ ~(m <= m - 1)
        BY <2>1, <2>3
      <4>2. m - 1 \notin Bad
        BY <2>1, <4>1
      <4> HIDE DEF Upto
      <4> QED
        BY <4>1, <4>2
    <3>2. PICK e : e = [n \in 0..m |-> IF n = 0 THEN NothingRead
                                               ELSE Reads(d[n - 1], flat, n)]
      OBVIOUS
    <3>3. m \in Nat /\ m > 0
      BY <2>1, <2>3
    <3>4. \A n \in 0..(m - 1) : n \in 0..m
      BY <3>3
    <3>5. \A n \in 0..(m - 1) : e[n] = d[n]
      <4> SUFFICES ASSUME NEW n \in 0..(m - 1) PROVE e[n] = d[n]
        OBVIOUS
      <4>1. d[n] = IF n = 0 THEN NothingRead ELSE Reads(d[n - 1], flat, n)
        BY <3>1
      <4>2. e[n] = IF n = 0 THEN NothingRead ELSE Reads(d[n - 1], flat, n)
        BY <3>2, <3>4
      <4> QED
        BY <4>1, <4>2
    <3>6. \A n \in 0..m : n # 0 => n - 1 \in 0..(m - 1)
      BY <3>3
    <3>7. \A n \in 0..m : (IF n = 0 THEN NothingRead ELSE Reads(d[n - 1], flat, n))
                          = (IF n = 0 THEN NothingRead ELSE Reads(e[n - 1], flat, n))
      BY <3>5, <3>6
    <3>8. Upto(e, m)
      BY <3>2, <3>7
    <3> QED
      BY <2>1, <3>8
  <2> QED
    BY <2>2, <2>3
<1>2. PICK d : Upto(d, Len(flat))
  <2>1. Len(flat) \notin Bad
    BY <1>1
  <2> HIDE DEF Upto
  <2> QED
    BY <2>1
<1> QED
  BY <1>2 DEF IsDecoded

\* What was read of the first n records: every one of them was kept, at some
\* place of the filtered request with its position noted at the same place, or
\* was too deep and reported.
Faithful(d, flat, n, S) ==
  /\ d = [request |-> d.request, acceptedOriginalIndexes |-> d.acceptedOriginalIndexes,
          rejected |-> d.rejected]
  /\ d.request \in Seq(S) /\ d.acceptedOriginalIndexes \in Seq(1..n)
  /\ Len(d.request) = Len(d.acceptedOriginalIndexes)
  /\ \A k \in 1..Len(d.request) :
        /\ d.request[k] = flat[d.acceptedOriginalIndexes[k]]
        /\ ~TooDeep(d.request[k])
        /\ \A l \in 1..Len(d.request) :
              d.acceptedOriginalIndexes[k] = d.acceptedOriginalIndexes[l] => k = l
  /\ \A i \in 1..n : \/ TooDeep(flat[i])
                     \/ \E k \in 1..Len(d.request) : d.acceptedOriginalIndexes[k] = i
  /\ d.rejected = {i \in 1..n : TooDeep(flat[i])}

\* Reading one record more keeps it so.
LEMMA ReadsFaithful ==
  ASSUME NEW S, NEW flat \in Seq(S), NEW n \in 1..Len(flat), NEW d,
         Faithful(d, flat, n - 1, S)
  PROVE  Faithful(Reads(d, flat, n), flat, n, S)
<1> USE DEF Faithful
<1>1. /\ n \in Nat /\ n - 1 \in Nat /\ n \in 1..n /\ flat[n] \in S
      /\ \A i \in 1..(n - 1) : i \in 1..n /\ i # n
      /\ \A i \in 1..n : i # n => i \in 1..(n - 1)
  OBVIOUS
<1>2. PICK q, p, r :
        /\ q \in Seq(S) /\ p \in Seq(1..(n - 1))
        /\ d = [request |-> q, acceptedOriginalIndexes |-> p, rejected |-> r]
  OBVIOUS
<1>3. /\ d.request = q /\ d.acceptedOriginalIndexes = p /\ d.rejected = r
      /\ Len(q) \in Nat /\ Len(p) = Len(q) /\ DOMAIN q = 1..Len(q) /\ DOMAIN p = 1..Len(q)
      /\ \A k \in 1..Len(q) : p[k] \in 1..(n - 1)
  BY <1>2
<1>4. p \in Seq(1..n)
  <2>1. PICK A, B : A = 1..(n - 1) /\ B = 1..n
    OBVIOUS
  <2>2. A \subseteq B /\ p \in Seq(A)
    BY <1>1, <1>2, <2>1
  <2>3. \A s \in Seq(A) : s \in Seq(B)
    BY <2>2
  <2> QED
    BY <2>1, <2>2, <2>3
<1>5. CASE TooDeep(flat[n])
  <2>1. Reads(d, flat, n) = [request |-> q, acceptedOriginalIndexes |-> p,
                             rejected |-> r \cup {n}]
    BY <1>2, <1>5 DEF Reads
  <2>2. r \cup {n} = {i \in 1..n : TooDeep(flat[i])}
    BY <1>1, <1>3, <1>5
  <2>3. \A i \in 1..n : TooDeep(flat[i]) \/ \E k \in 1..Len(q) : p[k] = i
    BY <1>1, <1>3, <1>5
  <2> QED
    BY <1>3, <1>4, <2>1, <2>2, <2>3
<1>6. CASE ~TooDeep(flat[n])
  <2>1. PICK a, b : a = Append(q, flat[n]) /\ b = Append(p, n)
    OBVIOUS
  <2>2. Reads(d, flat, n) = [request |-> a, acceptedOriginalIndexes |-> b, rejected |-> r]
    BY <1>2, <1>6, <2>1 DEF Reads
  <2>3. /\ a \in Seq(S) /\ Len(a) = Len(q) + 1 /\ a[Len(q) + 1] = flat[n]
        /\ \A k \in 1..Len(q) : a[k] = q[k]
    BY <1>1, <1>3, <2>1
  <2>4. /\ b \in Seq(1..n) /\ Len(b) = Len(q) + 1 /\ b[Len(q) + 1] = n
        /\ \A k \in 1..Len(q) : b[k] = p[k]
    <3>1. PICK T : T = 1..n
      OBVIOUS
    <3>2. p \in Seq(T) /\ n \in T
      BY <1>1, <1>4, <3>1
    <3>3. /\ b \in Seq(T) /\ Len(b) = Len(p) + 1 /\ b[Len(p) + 1] = n
          /\ \A k \in 1..Len(p) : b[k] = p[k]
      BY <2>1, <3>2
    <3> QED
      BY <1>3, <3>1, <3>3
  <2>5. /\ \A k \in 1..Len(a) : k \in 1..Len(q) \/ k = Len(q) + 1
        /\ Len(q) + 1 \in 1..Len(a) /\ \A k \in 1..Len(q) : k \in 1..Len(a)
    BY <1>3, <2>3
  <2>6. \A k \in 1..Len(a) : a[k] = flat[b[k]] /\ ~TooDeep(a[k])
    <3>1. \A k \in 1..Len(q) : a[k] = flat[b[k]] /\ ~TooDeep(a[k])
      <4> SUFFICES ASSUME NEW k \in 1..Len(q) PROVE a[k] = flat[b[k]] /\ ~TooDeep(a[k])
        OBVIOUS
      <4>1. q[k] = flat[p[k]] /\ ~TooDeep(q[k])
        BY <1>3
      <4>2. a[k] = q[k] /\ b[k] = p[k]
        BY <2>3, <2>4
      <4> QED
        BY <4>1, <4>2
    <3>2. a[Len(q) + 1] = flat[b[Len(q) + 1]] /\ ~TooDeep(a[Len(q) + 1])
      BY <1>6, <2>3, <2>4
    <3> QED
      BY <2>5, <3>1, <3>2
  <2>7. \A i \in 1..n : TooDeep(flat[i]) \/ \E k \in 1..Len(a) : b[k] = i
    <3> SUFFICES ASSUME NEW i \in 1..n, ~TooDeep(flat[i])
                 PROVE  \E k \in 1..Len(a) : b[k] = i
      OBVIOUS
    <3>1. CASE i = n
      BY <2>4, <2>5, <3>1
    <3>2. CASE i # n
      BY <1>1, <1>3, <2>4, <2>5, <3>2
    <3> QED
      BY <3>1, <3>2
  <2>8. r = {i \in 1..n : TooDeep(flat[i])}
    BY <1>1, <1>3, <1>6
  <2>9. \A k, l \in 1..Len(a) : b[k] = b[l] => k = l
    <3> SUFFICES ASSUME NEW k \in 1..Len(a), NEW l \in 1..Len(a), b[k] = b[l]
                 PROVE  k = l
      OBVIOUS
    <3>1. \A j \in 1..Len(q) : b[j] # n
      BY <1>1, <1>3, <2>4
    <3>2. CASE k \in 1..Len(q) /\ l \in 1..Len(q)
      BY <1>3, <2>4, <3>2
    <3>3. CASE k \notin 1..Len(q) \/ l \notin 1..Len(q)
      BY <2>4, <2>5, <3>1, <3>3
    <3> QED
      BY <3>2, <3>3
  <2> QED
    BY <2>2, <2>3, <2>4, <2>6, <2>7, <2>8, <2>9
<1> QED
  BY <1>5, <1>6

\* Decode is faithful to all of the wire.
LEMMA DecodeFaithful ==
  ASSUME NEW request, IsRequest(request)
  PROVE  Faithful(Decode(request), Flatten(request), Len(Flatten(request)), Views(request))
<1>1. PICK S, flat : S = Views(request) /\ flat = Flatten(request)
  OBVIOUS
<1>2. flat \in Seq(S) /\ Len(flat) \in Nat
  BY <1>1, FlattenRequest
<1>3. PICK d : d = (CHOOSE e : IsDecoded(e, flat))
  OBVIOUS
<1>4. IsDecoded(d, flat)
  BY <1>2, <1>3, DecodedExists
<1> DEFINE Bad == {n \in 0..Len(flat) : ~Faithful(d[n], flat, n, S)}
<1>5. Bad = {}
  <2> SUFFICES ASSUME Bad # {} PROVE FALSE
    OBVIOUS
  <2>1. PICK n \in Bad : \A k \in Bad : n <= k
    <3>1. Bad \subseteq Nat
      BY <1>2
    <3> QED
      BY <3>1, NatLeast
  <2>2. n \in 0..Len(flat) /\ ~Faithful(d[n], flat, n, S) /\ n \in Nat
    BY <1>2, <2>1
  <2>3. CASE n = 0
    <3>1. d[0] = NothingRead
      BY <1>2, <1>4 DEF IsDecoded
    <3>2. Faithful(NothingRead, flat, 0, S)
      <4>1. \A i \in 1..0 : FALSE
        OBVIOUS
      <4> QED
        BY <4>1 DEF Faithful, NothingRead
    <3> QED
      BY <2>2, <2>3, <3>1, <3>2
  <2>4. CASE n # 0
    <3>1. n - 1 \in 0..Len(flat) /\ ~(n <= n - 1) /\ n \in 1..Len(flat)
      BY <1>2, <2>2, <2>4
    <3>2. Faithful(d[n - 1], flat, n - 1, S)
      BY <2>1, <3>1
    <3>3. d[n] = Reads(d[n - 1], flat, n)
      BY <1>4, <2>2, <2>4 DEF IsDecoded
    <3> QED
      BY <1>2, <2>2, <3>1, <3>2, <3>3, ReadsFaithful
  <2> QED
    BY <2>3, <2>4
<1>6. Faithful(d[Len(flat)], flat, Len(flat), S)
  BY <1>2, <1>5
<1> QED
  BY <1>1, <1>3, <1>6, DecodeIs

-----------------------------------------------------------------------------
(* The deployment cache.                                                   *)

Entry == [status : {"pending", "available", "not_available"},
          deployment : {Declared[t] : t \in Services} \cup {"none"},
          due : BOOLEAN, inFlight : BOOLEAN]
Calls == [waiting : 0..MaxCalls, running : 0..MaxCalls]

\* The cache has its type, and no service more than MaxCalls calls.
CacheTyped ==
  /\ DOMAIN entries \subseteq Services
  /\ entries \in [DOMAIN entries -> Entry]
  /\ earlier \subseteq (DOMAIN entries) \X (DOMAIN entries)
  /\ Cardinality(DOMAIN entries) <= MaxEntries
  /\ calls \in [Services -> Calls]
  /\ closed \in BOOLEAN
  /\ \A s \in Services : Outstanding(s) <= MaxCalls

CacheInv == CacheTyped /\ StillBeingAsked

\* The configured numbers, one by one.
LEMMA CacheConfig ==
  /\ IsFiniteSet(Services) /\ MaxEntries \in Nat /\ MaxEntries > 0
  /\ Concurrency \in Nat /\ MaxCalls \in Nat
BY EnrichmentAssumption

\* The typed cache satisfies the type invariant of the module.
LEMMA CacheHasType ==
  ASSUME CacheInv
  PROVE  EnrichmentTypeOK
BY DEF CacheInv, CacheTyped, EnrichmentTypeOK, Entry, Calls

\* The calls of one service are natural numbers, no more than all of them.
LEMMA CallsCounted ==
  ASSUME CacheTyped, NEW s \in Services
  PROVE  /\ calls[s].waiting \in Nat /\ calls[s].running \in Nat
         /\ Outstanding(s) \in Nat /\ Outstanding(s) <= AllOutstanding
         /\ AllOutstanding \in Nat
         /\ calls[s] = [waiting |-> calls[s].waiting, running |-> calls[s].running]
<1>1. \A t \in Services : calls[t] \in Calls
  BY DEF CacheTyped
<1>2. \A t \in Services : /\ calls[t].waiting \in Nat /\ calls[t].running \in Nat
                          /\ Outstanding(t) \in Nat
  BY <1>1, CacheConfig DEF Calls, Outstanding
<1>3. PICK f : f = [t \in Services |-> Outstanding(t)]
  OBVIOUS
<1>4. \A t \in Services : f[t] \in Nat /\ f[t] = Outstanding(t)
  BY <1>2, <1>3
<1>5. SumFunctionOnSet(f, Services) \in Nat
  BY <1>4, CacheConfig, SumNat
<1>6. f[s] <= SumFunctionOnSet(f, Services)
  BY <1>4, CacheConfig, SumMember
<1>7. AllOutstanding = SumFunctionOnSet(f, Services)
  BY <1>3 DEF AllOutstanding
<1>8. calls[s] = [waiting |-> calls[s].waiting, running |-> calls[s].running]
  BY <1>1 DEF Calls
<1> QED
  BY <1>2, <1>4, <1>5, <1>6, <1>7, <1>8

\* The calls of one service change, all others stay; the entries keep their
\* type and an entry in flight has a call.
LEMMA CallsStep ==
  ASSUME CacheInv, NEW s \in Services, NEW w \in 0..MaxCalls, NEW r \in 0..MaxCalls,
         w + r <= MaxCalls,
         calls' = [calls EXCEPT ![s] = [waiting |-> w, running |-> r]],
         closed' \in BOOLEAN,
         DOMAIN entries' \subseteq Services, entries' \in [DOMAIN entries' -> Entry],
         earlier' \subseteq (DOMAIN entries') \X (DOMAIN entries'),
         Cardinality(DOMAIN entries') <= MaxEntries,
         \A t \in DOMAIN entries' : t # s /\ entries'[t].inFlight =>
            t \in DOMAIN entries /\ entries[t].inFlight,
         s \in DOMAIN entries' /\ entries'[s].inFlight => w + r > 0
  PROVE  CacheInv'
<1>1. CacheTyped /\ StillBeingAsked
  BY DEF CacheInv
<1>2. [waiting |-> w, running |-> r] \in Calls
  BY DEF Calls
<1>3. calls' \in [Services -> Calls]
  BY <1>1, <1>2 DEF CacheTyped
<1>4. calls'[s] = [waiting |-> w, running |-> r] /\ \A t \in Services : t # s => calls'[t] = calls[t]
  BY <1>1 DEF CacheTyped
<1>5. Outstanding(s)' = w + r
  BY <1>4 DEF Outstanding
<1>6. \A t \in Services : t # s => Outstanding(t)' = Outstanding(t)
  BY <1>4 DEF Outstanding
<1>7. \A t \in Services : Outstanding(t)' <= MaxCalls
  BY <1>1, <1>5, <1>6 DEF CacheTyped
<1>8. CacheTyped'
  BY <1>3, <1>7 DEF CacheTyped
<1>9. StillBeingAsked'
  <2> SUFFICES ASSUME NEW t \in DOMAIN entries', entries'[t].inFlight
               PROVE  Outstanding(t)' > 0
    BY DEF StillBeingAsked
  <2>1. CASE t = s
    BY <1>5, <2>1
  <2>2. CASE t # s
    BY <1>1, <1>6, <2>2 DEF StillBeingAsked
  <2> QED
    BY <2>1, <2>2
<1> QED
  BY <1>8, <1>9 DEF CacheInv

\* Nothing of the cache changes but that it is closed.
LEMMA CacheFrame ==
  ASSUME CacheInv, UNCHANGED <<entries, earlier, calls>>, closed' \in BOOLEAN
  PROVE  CacheInv'
<1>1. \A t : Outstanding(t)' = Outstanding(t)
  BY DEF Outstanding
<1> QED
  BY <1>1 DEF CacheInv, CacheTyped, StillBeingAsked

\* A new process starts with an empty cache.
LEMMA CacheEmpty ==
  /\ EnrichmentInit => CacheInv
  /\ entries' = <<>> /\ earlier' = {} /\ closed' = FALSE
     /\ calls' = [s \in Services |-> [waiting |-> 0, running |-> 0]]
     => CacheInv'
<1>1. Cardinality({}) = 0 /\ {} \subseteq Services /\ DOMAIN <<>> = {}
  BY FS_EmptySet
<1>2. <<>> \in [{} -> Entry]
  OBVIOUS
<1>3. [s \in Services |-> [waiting |-> 0, running |-> 0]] \in [Services -> Calls]
  BY CacheConfig DEF Calls
<1>4. EnrichmentInit => CacheInv
  <2> SUFFICES ASSUME EnrichmentInit PROVE CacheInv
    OBVIOUS
  <2>1. \A s \in Services : Outstanding(s) = 0
    BY DEF EnrichmentInit, Outstanding
  <2>2. DOMAIN entries = {} /\ entries \in [DOMAIN entries -> Entry]
    BY <1>1, <1>2 DEF EnrichmentInit
  <2>3. Cardinality(DOMAIN entries) <= MaxEntries
    BY <1>1, <2>2, CacheConfig
  <2>4. calls \in [Services -> Calls] /\ closed \in BOOLEAN
        /\ earlier \subseteq (DOMAIN entries) \X (DOMAIN entries)
    BY <1>3 DEF EnrichmentInit
  <2>5. \A s \in Services : Outstanding(s) <= MaxCalls
    BY <2>1, CacheConfig
  <2> QED
    BY <1>1, <2>2, <2>3, <2>4, <2>5 DEF CacheInv, CacheTyped, StillBeingAsked
<1>5. ASSUME entries' = <<>>, earlier' = {}, closed' = FALSE,
             calls' = [s \in Services |-> [waiting |-> 0, running |-> 0]]
      PROVE  CacheInv'
  <2>1. \A s \in Services : Outstanding(s)' = 0
    BY <1>5 DEF Outstanding
  <2>2. DOMAIN entries' = {} /\ entries' \in [DOMAIN entries' -> Entry]
    BY <1>1, <1>2, <1>5
  <2>3. Cardinality(DOMAIN entries') <= MaxEntries
    BY <1>1, <2>2, CacheConfig
  <2>4. calls' \in [Services -> Calls] /\ closed' \in BOOLEAN
        /\ earlier' \subseteq (DOMAIN entries') \X (DOMAIN entries')
    BY <1>3, <1>5
  <2>5. \A s \in Services : Outstanding(s)' <= MaxCalls
    BY <2>1, CacheConfig
  <2> QED
    BY <1>1, <2>2, <2>3, <2>4, <2>5 DEF CacheInv, CacheTyped, StillBeingAsked
<1> QED
  BY <1>4, <1>5

\* What an entry given up leaves room for.
LEMMA RoomForOne ==
  ASSUME CacheInv, NEW s \in Services,
         NEW gone \in IF s \in DOMAIN entries THEN {{}} ELSE Evicted
  PROVE  /\ (DOMAIN entries \ (gone \cup {s})) \cup {s} \subseteq Services
         /\ Cardinality((DOMAIN entries \ (gone \cup {s})) \cup {s}) <= MaxEntries
<1>1. PICK held : held = DOMAIN entries
  OBVIOUS
<1>2. held \subseteq Services /\ IsFiniteSet(held) /\ Cardinality(held) <= MaxEntries
  BY <1>1, CacheConfig, FS_Subset DEF CacheInv, CacheTyped
<1>3. Cardinality(held) \in Nat
  BY <1>2, FS_CardinalityType
<1>4. CASE s \in held
  <2>1. (held \ (gone \cup {s})) \cup {s} = held
    BY <1>1, <1>4
  <2> QED
    BY <1>1, <1>2, <2>1
<1>5. CASE s \notin held /\ Cardinality(held) < MaxEntries
  <2>1. gone = {}
    BY <1>1, <1>5 DEF Evicted
  <2>2. (held \ (gone \cup {s})) \cup {s} = held \cup {s}
    BY <2>1, <1>5
  <2>3. Cardinality(held \cup {s}) = Cardinality(held) + 1
    BY <1>2, <1>5, FS_AddElement
  <2>4. Cardinality(held \cup {s}) <= MaxEntries
    BY <1>3, <1>5, <2>3, CacheConfig
  <2> QED
    BY <1>1, <1>2, <2>2, <2>4
<1>6. CASE s \notin held /\ ~(Cardinality(held) < MaxEntries)
  <2>1. PICK o \in held : gone = {o}
    BY <1>1, <1>6 DEF Evicted, Oldest, Idle
  <2>2. PICK rest : rest = held \ {o}
    OBVIOUS
  <2>3. (held \ (gone \cup {s})) \cup {s} = rest \cup {s} /\ s \notin rest
        /\ IsFiniteSet(rest) /\ rest \subseteq Services
    BY <1>2, <1>6, <2>1, <2>2, FS_Subset
  <2>4. Cardinality(rest) = Cardinality(held) - 1
    BY <1>2, <2>1, <2>2, FS_RemoveElement
  <2>5. Cardinality(rest \cup {s}) = Cardinality(rest) + 1
    BY <2>3, FS_AddElement
  <2>6. Cardinality(rest \cup {s}) <= MaxEntries
    BY <1>2, <1>3, <2>4, <2>5, CacheConfig
  <2> QED
    BY <1>1, <2>3, <2>6
<1> QED
  BY <1>1, <1>4, <1>5, <1>6

\* A lookup: the entry it marks has the call it starts, or had one already.
LEMMA LookupKeeps ==
  ASSUME CacheInv, NEW s \in Services, Lookup(s)
  PROVE  CacheInv'
<1>1. CacheTyped /\ StillBeingAsked
  BY DEF CacheInv
<1>2. PICK found : found = IF s \in DOMAIN entries THEN entries[s] ELSE NewEntry
  OBVIOUS
<1>3. found \in Entry /\ (s \notin DOMAIN entries => ~found.inFlight)
  BY <1>1, <1>2 DEF CacheTyped, NewEntry, Entry
<1>4. PICK starts \in BOOLEAN : starts = (ShouldResolve(found) /\ ~closed)
  BY DEF ShouldResolve
<1>5. PICK touched :
        touched = [found EXCEPT !.inFlight = @ \/ (ShouldResolve(found) /\ ~closed),
                                !.due = @ /\ ~(ShouldResolve(found) /\ closed
                                                /\ found.status = "pending")]
  OBVIOUS
<1>6. touched \in Entry /\ (touched.inFlight => found.inFlight \/ starts)
  BY <1>3, <1>4, <1>5 DEF Entry
<1>7. PICK gone \in IF s \in DOMAIN entries THEN {{}} ELSE Evicted :
        \E tied : LET others == DOMAIN entries \ (gone \cup {s})
                  IN  /\ entries' = [t \in others \cup {s} |-> IF t = s THEN touched ELSE entries[t]]
                      /\ earlier' = (earlier \cap (others \X others)) \cup ((others \ tied) \X {s})
  BY <1>2, <1>5 DEF Lookup
<1>8. PICK others : others = DOMAIN entries \ (gone \cup {s})
  OBVIOUS
<1>9. PICK tied :
      /\ entries' = [t \in others \cup {s} |-> IF t = s THEN touched ELSE entries[t]]
      /\ earlier' = (earlier \cap (others \X others)) \cup ((others \ tied) \X {s})
  BY <1>7, <1>8
<1>10. /\ DOMAIN entries' = others \cup {s}
       /\ others \cup {s} \subseteq Services /\ Cardinality(others \cup {s}) <= MaxEntries
  BY <1>7, <1>8, <1>9, RoomForOne
<1>11. entries' \in [DOMAIN entries' -> Entry]
  BY <1>1, <1>6, <1>8, <1>9 DEF CacheTyped
<1>12. earlier' \subseteq (DOMAIN entries') \X (DOMAIN entries')
  BY <1>9, <1>10
<1>13. /\ \A t \in DOMAIN entries' : t # s /\ entries'[t].inFlight =>
            t \in DOMAIN entries /\ entries[t].inFlight
       /\ entries'[s].inFlight => found.inFlight \/ starts
  BY <1>6, <1>8, <1>9
<1>14. closed' \in BOOLEAN
  BY <1>1 DEF CacheTyped, Lookup
<1>15. PICK w, r : /\ w = calls[s].waiting /\ r = calls[s].running
                   /\ w \in Nat /\ r \in Nat /\ w + r <= MaxCalls
                   /\ calls[s] = [waiting |-> w, running |-> r]
                   /\ w + r <= AllOutstanding /\ AllOutstanding \in Nat
  BY <1>1, CallsCounted DEF CacheTyped, Outstanding
<1>16. CASE starts
  <2>1. AllOutstanding < MaxCalls
    BY <1>2, <1>4, <1>16 DEF Lookup
  <2>2. calls' = [calls EXCEPT ![s].waiting = @ + 1]
    BY <1>2, <1>4, <1>16 DEF Lookup
  <2>3. calls' = [calls EXCEPT ![s] = [waiting |-> w + 1, running |-> r]]
    <3>1. PICK call : call = [waiting |-> w, running |-> r] /\ calls[s] = call
      BY <1>15
    <3>2. [call EXCEPT !.waiting = @ + 1] = [waiting |-> w + 1, running |-> r]
      BY <3>1
    <3>3. calls' = [calls EXCEPT ![s] = [call EXCEPT !.waiting = @ + 1]]
      BY <2>2, <3>1
    <3> QED
      BY <3>2, <3>3
  <2>4. w + 1 \in 0..MaxCalls /\ r \in 0..MaxCalls /\ w + 1 + r <= MaxCalls /\ w + 1 + r > 0
    BY <1>15, <2>1, CacheConfig
  <2> QED
    BY <1>10, <1>11, <1>12, <1>13, <1>14, <2>3, <2>4, CallsStep
<1>17. CASE ~starts
  <2>1. calls' = calls
    BY <1>2, <1>4, <1>17 DEF Lookup
  <2>2. calls' = [calls EXCEPT ![s] = [waiting |-> w, running |-> r]]
    BY <1>1, <1>15, <2>1 DEF CacheTyped
  <2>3. found.inFlight => w + r > 0
    BY <1>1, <1>2, <1>3, <1>15 DEF StillBeingAsked, Outstanding
  <2>4. w \in 0..MaxCalls /\ r \in 0..MaxCalls
    BY <1>15, CacheConfig
  <2> QED
    BY <1>10, <1>11, <1>12, <1>13, <1>14, <1>15, <1>17, <2>2, <2>3, <2>4, CallsStep
<1> QED
  BY <1>16, <1>17

\* A call that ends unmarks the entry it comes back to.
LEMMA CallEnds ==
  ASSUME CacheInv, NEW s \in Services, NEW entry,
         s \in DOMAIN entries => entry \in Entry /\ ~entry.inFlight,
         Record(s, entry), UNCHANGED <<earlier, closed>>,
         \/ calls[s].running > 0 /\ calls' = [calls EXCEPT ![s].running = @ - 1]
         \/ calls[s].waiting > 0 /\ calls' = [calls EXCEPT ![s].waiting = @ - 1]
  PROVE  CacheInv'
<1>1. CacheTyped /\ StillBeingAsked
  BY DEF CacheInv
<1>2. DOMAIN entries' = DOMAIN entries /\ entries' \in [DOMAIN entries' -> Entry]
  BY <1>1 DEF Record, CacheTyped
<1>3. /\ \A t \in DOMAIN entries' : t # s /\ entries'[t].inFlight =>
            t \in DOMAIN entries /\ entries[t].inFlight
      /\ s \in DOMAIN entries' => ~entries'[s].inFlight
  BY <1>1, <1>2 DEF Record, CacheTyped
<1>4. PICK w, r : /\ w = calls[s].waiting /\ r = calls[s].running
                  /\ w \in Nat /\ r \in Nat /\ w + r <= MaxCalls
                  /\ calls[s] = [waiting |-> w, running |-> r]
  BY <1>1, CallsCounted DEF CacheTyped, Outstanding
<1>5. /\ DOMAIN entries' \subseteq Services /\ closed' \in BOOLEAN
      /\ earlier' \subseteq (DOMAIN entries') \X (DOMAIN entries')
      /\ Cardinality(DOMAIN entries') <= MaxEntries
  BY <1>1, <1>2 DEF CacheTyped
<1>6. CASE r > 0 /\ calls' = [calls EXCEPT ![s].running = @ - 1]
  <2>1. calls' = [calls EXCEPT ![s] = [waiting |-> w, running |-> r - 1]]
    BY <1>1, <1>4, <1>6 DEF CacheTyped
  <2>2. w \in 0..MaxCalls /\ r - 1 \in 0..MaxCalls /\ w + (r - 1) <= MaxCalls
    BY <1>4, <1>6, CacheConfig
  <2> QED
    BY <1>2, <1>3, <1>5, <2>1, <2>2, CallsStep
<1>7. CASE w > 0 /\ calls' = [calls EXCEPT ![s].waiting = @ - 1]
  <2>1. calls' = [calls EXCEPT ![s] = [waiting |-> w - 1, running |-> r]]
    BY <1>1, <1>4, <1>7 DEF CacheTyped
  <2>2. w - 1 \in 0..MaxCalls /\ r \in 0..MaxCalls /\ (w - 1) + r <= MaxCalls
    BY <1>4, <1>7, CacheConfig
  <2> QED
    BY <1>2, <1>3, <1>5, <2>1, <2>2, CallsStep
<1> QED
  BY <1>4, <1>6, <1>7

\* Every other step of the cache.
LEMMA CacheStepKeeps ==
  ASSUME CacheInv, NEW s \in Services,
         \/ StartCall(s) \/ ProviderAnswers(s) \/ ProviderFails(s) \/ GiveUpCall(s) \/ Ages(s)
  PROVE  CacheInv'
<1>1. CacheTyped /\ StillBeingAsked
  BY DEF CacheInv
<1>2. s \in DOMAIN entries => entries[s] \in Entry
  BY <1>1 DEF CacheTyped
<1>3. s \in DOMAIN entries => /\ Resolved(entries[s], Declared[s]) \in Entry
                             /\ ~Resolved(entries[s], Declared[s]).inFlight
  BY <1>2 DEF Resolved, Entry
<1>4. s \in DOMAIN entries => Failed(entries[s]) \in Entry /\ ~Failed(entries[s]).inFlight
  BY <1>2 DEF Failed, Entry
<1>5. PICK w, r : /\ w = calls[s].waiting /\ r = calls[s].running
                  /\ w \in Nat /\ r \in Nat /\ w + r <= MaxCalls
                  /\ calls[s] = [waiting |-> w, running |-> r]
  BY <1>1, CallsCounted DEF CacheTyped, Outstanding
<1>6. CASE StartCall(s)
  <2>1. w > 0 /\ UNCHANGED <<entries, earlier, closed>>
    BY <1>5, <1>6 DEF StartCall
  <2>2. calls' = [calls EXCEPT ![s] = [waiting |-> w - 1, running |-> r + 1]]
    BY <1>1, <1>5, <1>6 DEF StartCall, CacheTyped
  <2>3. w - 1 \in 0..MaxCalls /\ r + 1 \in 0..MaxCalls /\ (w - 1) + (r + 1) <= MaxCalls
        /\ (w - 1) + (r + 1) > 0
    BY <1>5, <2>1, CacheConfig
  <2> QED
    BY <1>1, <2>1, <2>2, <2>3, CallsStep DEF CacheTyped
<1>7. CASE ProviderAnswers(s)
  BY <1>3, <1>7, CallEnds DEF ProviderAnswers
<1>8. CASE ProviderFails(s)
  BY <1>4, <1>8, CallEnds DEF ProviderFails
<1>9. CASE GiveUpCall(s)
  BY <1>4, <1>9, CallEnds DEF GiveUpCall
<1>10. CASE Ages(s)
  <2>1. s \in DOMAIN entries /\ entries' = [entries EXCEPT ![s].due = TRUE]
        /\ UNCHANGED <<earlier, calls, closed>>
    BY <1>10 DEF Ages
  <2>2. /\ DOMAIN entries' = DOMAIN entries /\ entries' \in [DOMAIN entries' -> Entry]
        /\ \A t \in DOMAIN entries' : entries'[t].inFlight = entries[t].inFlight
    BY <1>1, <2>1 DEF CacheTyped, Entry
  <2>3. \A t : Outstanding(t)' = Outstanding(t)
    BY <2>1 DEF Outstanding
  <2> QED
    BY <1>1, <2>1, <2>2, <2>3 DEF CacheInv, CacheTyped, StillBeingAsked
<1> QED
  BY <1>6, <1>7, <1>8, <1>9, <1>10

-----------------------------------------------------------------------------
(* The invariant of the replica.                                           *)

Names == {"not_applicable", "pending", "unknown", "none"} \cup {Declared[t] : t \in Services}
Takens == [index : Nat, at : Nat, deployment : Names]
Handlers ==
  [export : Exports, transport : {Transport[x] : x \in Exports}, connected : BOOLEAN,
   stage : {"ingest", "normalize", "append", "answer"}, at : Nat, taken : SUBSET Takens,
   rejected : SUBSET Nat, shed : SUBSET Nat,
   answer : {"none", "ok", "unavailable", "inadmissible", "conflicting"}]
Senders == [state : {"queued", "waiting", "acked", "inadmissible", "conflicting"},
            reported : SUBSET Nat, shed : SUBSET Nat]

Places(x) == 1..Len(Decoded[x].request)
Refused(x, k) == Refusal(Decoded[x].request[k]) # ""

\* A taken record knows its place in the filtered request and on the wire, and
\* no place is taken twice.
WellPlaced(h, places) ==
  /\ \A t \in h.taken : t.at \in places /\ t.index = OriginalIndex(h.export, t.at)
  /\ \A t, u \in h.taken : t.at = u.at => t = u

BeforeIngest(h) ==
  h.stage = "ingest" => h.taken = {} /\ h.rejected = {} /\ h.shed = {}

\* Up to where it is, a handler has taken or rejected every record.
Normalizing(h) ==
  h.stage = "normalize" =>
    /\ h.at \in 1..(Len(Decoded[h.export].request) + 1) /\ h.shed = {}
    /\ WellPlaced(h, 1..(h.at - 1))
    /\ \A t \in h.taken : ~Refused(h.export, t.at)
    /\ \A k \in 1..(h.at - 1) : Refused(h.export, k) \/ \E t \in h.taken : t.at = k
    /\ h.rejected = Decoded[h.export].rejected \cup
         {OriginalIndex(h.export, k) : k \in {j \in 1..(h.at - 1) : Refused(h.export, j)}}

\* The verdicts of a handler are those its export deserves.
Judged(h) == h.rejected = Deserved[h.export] /\ h.shed \subseteq MightGo[h.export]

\* What is neither rejected nor shed is in the batch to append.
Appending(h) ==
  h.stage = "append" =>
    /\ Judged(h) /\ WellPlaced(h, Places(h.export))
    /\ \A i \in DOMAIN Wire[h.export] :
          i \in h.rejected \cup h.shed \/ \E t \in h.taken : t.index = i

\* What is about to be said is true.
Answering(h) ==
  h.stage = "answer" =>
    /\ h.answer # "none"
    /\ h.answer = "ok" =>
         /\ Judged(h)
         /\ \A i \in DOMAIN Wire[h.export] :
               i \in h.rejected \cup h.shed \/ Kept(h.export, i)
    /\ h.answer = "inadmissible" => ~h.connected \/ h.export \in Barred
    /\ h.answer = "conflicting" =>
         SentTwice(h.export) \/ \E i \in DOMAIN Wire[h.export] : Kept(h.export, i)

HandlerInv(h) == BeforeIngest(h) /\ Normalizing(h) /\ Appending(h) /\ Answering(h)

HandlersInv ==
  /\ handlers \subseteq Handlers /\ IsFiniteSet(handlers)
  /\ Cardinality(handlers) <= MaxInFlight
  /\ \A h \in handlers : HandlerInv(h)

\* AnsweredAsKept, of one sender.
SenderInv(x) ==
  /\ collector[x].state = "acked" =>
        /\ collector[x].reported = Deserved[x]
        /\ collector[x].shed \subseteq MightGo[x]
        /\ \A i \in DOMAIN Wire[x] :
              i \in collector[x].reported \cup collector[x].shed \/ Kept(x, i)
  /\ collector[x].state = "inadmissible" => x \in Barred
  /\ collector[x].state = "conflicting" =>
        SentTwice(x) \/ \E i \in DOMAIN Wire[x] : Kept(x, i)

SendersInv ==
  /\ DOMAIN collector \in Offered[role]
  /\ collector \in [DOMAIN collector -> Senders]
  /\ \A x \in DOMAIN collector : SenderInv(x)

JournalInv ==
  \A i \in DOMAIN journal :
    /\ "state" \in DOMAIN journal[i] /\ "content" \in DOMAIN journal[i]
    /\ journal[i].state \in {"pending", "claimed", "finished"}

Modes ==
  /\ role \in Roles /\ faults \in 0..MaxFaults
  /\ server \in {"up", "receiver", "source", "worker", "enrichment", "database",
                 "journal", "down"}
  /\ drain \in {"none", "receiver", "source", "stats", "process", "drained", "failed"}
  /\ worker \in {"pause", "cycle", "done"}
  /\ poller \in {"pause", "append", "commit", "done"}
  /\ lock \in {"free", "worker", "drain"}
  /\ open \in BOOLEAN /\ accepting \in BOOLEAN /\ spent \in BOOLEAN /\ hung \in BOOLEAN
  /\ cancelled \in BOOLEAN /\ checkpointed \in BOOLEAN

\* Drain closes the ways in one after the other.
DrainOrder ==
  /\ drain # "none" => ~accepting
  /\ drain \notin {"none", "receiver"} => \A h \in handlers : ~h.connected
  /\ drain \in {"stats", "process", "drained", "failed"} => cancelled
  /\ lock = "drain" => drain = "process"

\* The poller commits what it journaled.
PolledKept == poller = "commit" \/ checkpointed => Polled \in DOMAIN journal

\* The inductive invariant.
IInv ==
  /\ CacheInv /\ HandlersInv /\ SendersInv /\ JournalInv
  /\ Modes /\ DrainOrder /\ PolledKept /\ DrainedHoldsNothing

-----------------------------------------------------------------------------
(* Exports and their wire.                                                 *)

\* The configured numbers and exports.
LEMMA Config ==
  /\ MaxInFlight \in Nat /\ MaxFaults \in Nat /\ AllowedServices \subseteq Services
  /\ \A r \in Roles : Offered[r] \subseteq SUBSET Exports
  /\ \A x \in Exports : IsRequest(Sent[x])
BY ReplicaAssumption

\* Each record of the filtered request is the one at its position of the wire.
LEMMA WireDecoded ==
  ASSUME NEW x \in Exports
  PROVE  /\ DOMAIN Wire[x] \subseteq Nat
         /\ Len(Decoded[x].request) \in Nat
         /\ \A k \in Places(x) :
               /\ OriginalIndex(x, k) \in DOMAIN Wire[x]
               /\ Wire[x][OriginalIndex(x, k)] = Decoded[x].request[k]
               /\ ~TooDeep(Decoded[x].request[k])
         /\ \A k, l \in Places(x) : OriginalIndex(x, k) = OriginalIndex(x, l) => k = l
         /\ \A i \in DOMAIN Wire[x] :
               TooDeep(Wire[x][i]) \/ \E k \in Places(x) : OriginalIndex(x, k) = i
         /\ Decoded[x].rejected = {i \in DOMAIN Wire[x] : TooDeep(Wire[x][i])}
<1>1. PICK flat, d, S : flat = Flatten(Sent[x]) /\ d = Decode(Sent[x]) /\ S = Views(Sent[x])
  OBVIOUS
<1>2. Wire[x] = flat /\ Decoded[x] = d
  BY <1>1 DEF Wire, Decoded
<1>3. flat \in Seq(S) /\ Faithful(d, flat, Len(flat), S)
  BY <1>1, Config, FlattenRequest, DecodeFaithful
<1>4. DOMAIN flat = 1..Len(flat) /\ Len(flat) \in Nat
  BY <1>3
<1>5. PICK q, p : /\ q = d.request /\ p = d.acceptedOriginalIndexes
                  /\ q \in Seq(S) /\ p \in Seq(1..Len(flat)) /\ Len(q) = Len(p)
  BY <1>3 DEF Faithful
<1>6. Len(q) \in Nat /\ \A k \in 1..Len(q) : p[k] \in 1..Len(flat)
  BY <1>5
<1>7. Places(x) = 1..Len(q) /\ \A k : OriginalIndex(x, k) = p[k]
  BY <1>2, <1>5 DEF Places, OriginalIndex
<1>8. /\ \A k \in 1..Len(q) : q[k] = flat[p[k]] /\ ~TooDeep(q[k])
      /\ \A k, l \in 1..Len(q) : p[k] = p[l] => k = l
      /\ \A i \in 1..Len(flat) : TooDeep(flat[i]) \/ \E k \in 1..Len(q) : p[k] = i
      /\ d.rejected = {i \in 1..Len(flat) : TooDeep(flat[i])}
  BY <1>3, <1>5 DEF Faithful
<1>9. DOMAIN Wire[x] = 1..Len(flat) /\ Decoded[x].request = q /\ Decoded[x].rejected = d.rejected
  BY <1>2, <1>4, <1>5
<1>10. DOMAIN Wire[x] \subseteq Nat /\ Len(Decoded[x].request) \in Nat
  BY <1>4, <1>6, <1>9
<1>11. \A k \in Places(x) : /\ OriginalIndex(x, k) \in DOMAIN Wire[x]
                            /\ Wire[x][OriginalIndex(x, k)] = Decoded[x].request[k]
                            /\ ~TooDeep(Decoded[x].request[k])
  BY <1>2, <1>6, <1>7, <1>8, <1>9
<1>12. \A k, l \in Places(x) : OriginalIndex(x, k) = OriginalIndex(x, l) => k = l
  BY <1>7, <1>8
<1>13. \A i \in DOMAIN Wire[x] :
          TooDeep(Wire[x][i]) \/ \E k \in Places(x) : OriginalIndex(x, k) = i
  BY <1>2, <1>7, <1>8, <1>9
<1>14. Decoded[x].rejected = {i \in DOMAIN Wire[x] : TooDeep(Wire[x][i])}
  BY <1>2, <1>8, <1>9
<1> QED
  BY <1>10, <1>11, <1>12, <1>13, <1>14

\* The reference, position by position.
LEMMA ReferenceIs ==
  ASSUME NEW x \in Exports
  PROVE  /\ Deserved[x] = {i \in DOMAIN Wire[x] : Rejects(Wire[x][i])}
         /\ MightGo[x] = {i \in DOMAIN Wire[x] : Sheddable(Wire[x][i])}
         /\ \A i \in DOMAIN Wire[x] : IDs[x][i] = RecordID(Wire[x][i])
BY DEF Deserved, MightGo, IDs

-----------------------------------------------------------------------------
(* The handlers.                                                           *)

\* Nothing is lost from the journal, and what is finished stays finished.
JournalGrows ==
  \A i \in DOMAIN journal :
    i \in DOMAIN journal' /\ (journal[i].state = "finished" => journal'[i].state = "finished")

\* A handler and a sender that do nothing keep their invariant.
LEMMA HandlerStays ==
  ASSUME NEW h, HandlerInv(h), JournalGrows
  PROVE  HandlerInv(h)'
<1>1. \A x, i : Kept(x, i) => Kept(x, i)'
  BY DEF JournalGrows, Kept
<1>2. BeforeIngest(h)' /\ Normalizing(h)' /\ Appending(h)'
  BY DEF HandlerInv, BeforeIngest, Normalizing, Appending, WellPlaced, Judged, Refused, Places
<1>3. Answering(h)'
  BY <1>1 DEF HandlerInv, Answering, Judged, SentTwice
<1> QED
  BY <1>2, <1>3 DEF HandlerInv

\* Connections do not come back.
NoneConnects ==
  \A g \in handlers' : g.connected => \E h \in handlers : h.connected

\* One handler moves on, or ends.
LEMMA HandlerMoves ==
  ASSUME HandlersInv, JournalGrows, NEW h \in handlers, NEW next,
         next.connected => h.connected, next \in Handlers, HandlerInv(next)',
         Becomes(h, next) \/ handlers' = handlers \ {h}
  PROVE  HandlersInv' /\ NoneConnects
<1>1. /\ handlers' \subseteq (handlers \ {h}) \cup {next}
      /\ IsFiniteSet(handlers) /\ Cardinality(handlers) <= MaxInFlight
  BY DEF Becomes, HandlersInv
<1>2. PICK rest : rest = handlers \ {h}
  OBVIOUS
<1>3. /\ IsFiniteSet(rest) /\ Cardinality(rest) = Cardinality(handlers) - 1
      /\ Cardinality(handlers) \in Nat /\ Cardinality(rest) \in Nat
  BY <1>1, <1>2, FS_RemoveElement, FS_CardinalityType
<1>4. IsFiniteSet(rest \cup {next}) /\ Cardinality(rest \cup {next}) <= Cardinality(rest) + 1
      /\ Cardinality(rest \cup {next}) \in Nat
  <2>1. PICK n \in Nat : n = Cardinality(rest)
    BY <1>3
  <2>2. IsFiniteSet(rest \cup {next}) /\ Cardinality(rest \cup {next}) \in {n, n + 1}
    BY <1>3, <2>1, FS_AddElement, Zenon
  <2> QED
    BY <2>1, <2>2
<1>5. IsFiniteSet(handlers') /\ Cardinality(handlers') <= Cardinality(rest \cup {next})
      /\ Cardinality(handlers') \in Nat
  BY <1>1, <1>2, <1>4, FS_Subset, FS_CardinalityType
<1>6. Cardinality(handlers') <= MaxInFlight
  BY <1>1, <1>3, <1>4, <1>5, Config
<1>7. \A g \in handlers' : g \in Handlers /\ HandlerInv(g)'
  BY <1>1, HandlerStays DEF HandlersInv
<1>8. NoneConnects
  BY <1>1 DEF NoneConnects
<1> QED
  BY <1>5, <1>6, <1>7, <1>8 DEF HandlersInv

\* The handlers stay as they are.
LEMMA HandlersFrame ==
  ASSUME HandlersInv, JournalGrows, UNCHANGED handlers
  PROVE  HandlersInv' /\ NoneConnects
BY HandlerStays DEF HandlersInv, NoneConnects

\* So do the senders, or one of them hears something true.
LEMMA SenderStays ==
  ASSUME NEW x, SenderInv(x), JournalGrows, collector'[x] = collector[x]
  PROVE  SenderInv(x)'
<1>1. \A i : Kept(x, i) => Kept(x, i)'
  BY DEF JournalGrows, Kept
<1> QED
  BY <1>1 DEF SenderInv, SentTwice

\* Nothing is said of a record to a sender that is to ask again.
LEMMA SenderAsks ==
  ASSUME NEW x, collector'[x] \in {Queued, Waiting}
  PROVE  SenderInv(x)'
BY DEF SenderInv, Queued, Waiting

-----------------------------------------------------------------------------
(* What one handler does.                                                  *)

\* A handler, field by field.
LEMMA HandlerFields ==
  ASSUME HandlersInv, NEW h \in handlers
  PROVE  /\ h \in Handlers /\ HandlerInv(h) /\ h.export \in Exports /\ h.at \in Nat
         /\ h.taken \in SUBSET Takens /\ h.rejected \in SUBSET Nat /\ h.shed \in SUBSET Nat
BY DEF HandlersInv, Handlers

\* What a handler is about to say is told from the journal, the rest is not.
LEMMA HandlerTold ==
  ASSUME NEW h, BeforeIngest(h), Normalizing(h), Appending(h), Answering(h)'
  PROVE  HandlerInv(h)'
<1>1. BeforeIngest(h)' /\ Normalizing(h)' /\ Appending(h)'
  BY DEF BeforeIngest, Normalizing, Appending, WellPlaced, Judged, Refused, Places
<1> QED
  BY <1>1 DEF HandlerInv

\* An export that is let in is normalized from its first record.
LEMMA BeginIngestKeeps ==
  ASSUME HandlersInv, NEW h \in handlers, BeginIngest(h)
  PROVE  HandlersInv' /\ NoneConnects
<1>1. /\ h \in Handlers /\ HandlerInv(h) /\ h.export \in Exports /\ h.stage = "ingest"
      /\ JournalGrows
  BY HandlerFields DEF BeginIngest, JournalGrows
<1>2. h.taken = {} /\ h.rejected = {} /\ h.shed = {}
  BY <1>1 DEF HandlerInv, BeforeIngest
<1>3. CASE ~h.connected \/ h.export \in Barred
  <2>1. PICK next : next = [h EXCEPT !.stage = "answer", !.answer = "inadmissible"]
    OBVIOUS
  <2>2. /\ next \in Handlers /\ next.stage = "answer" /\ next.answer = "inadmissible"
        /\ next.connected = h.connected /\ next.export = h.export
    BY <1>1, <2>1 DEF Handlers
  <2>3. HandlerInv(next)'
    BY <1>3, <2>2 DEF HandlerInv, BeforeIngest, Normalizing, Appending, Answering
  <2>4. Becomes(h, next)
    BY <1>3, <2>1 DEF BeginIngest, Answers
  <2> QED
    BY <1>1, <2>2, <2>3, <2>4, HandlerMoves
<1>4. CASE ~(~h.connected \/ h.export \in Barred)
  <2>1. PICK next : next = [h EXCEPT !.stage = "normalize", !.at = 1,
                                     !.rejected = Decoded[h.export].rejected]
    OBVIOUS
  <2>2. Decoded[h.export].rejected \in SUBSET Nat /\ Len(Decoded[h.export].request) \in Nat
    BY <1>1, WireDecoded
  <2>3. /\ next \in Handlers /\ next.stage = "normalize" /\ next.at = 1
        /\ next.connected = h.connected /\ next.export = h.export
        /\ next.taken = {} /\ next.shed = {} /\ next.rejected = Decoded[h.export].rejected
    BY <1>1, <1>2, <2>1, <2>2 DEF Handlers
  <2>4. 1 \in 1..(Len(Decoded[h.export].request) + 1) /\ 1..(1 - 1) = {}
    BY <2>2
  <2>5. Normalizing(next)'
    BY <2>3, <2>4 DEF Normalizing, WellPlaced
  <2>6. HandlerInv(next)'
    BY <2>3, <2>5 DEF HandlerInv, BeforeIngest, Appending, Answering
  <2>7. Becomes(h, next)
    BY <1>4, <2>1 DEF BeginIngest
  <2> QED
    BY <1>1, <2>3, <2>6, <2>7, HandlerMoves
<1> QED
  BY <1>3, <1>4

\* What a lookup answers is a name.
LEMMA AnswerNamed ==
  ASSUME CacheInv, NEW s
  PROVE  Answer(s) \in Names
<1>1. s \in DOMAIN entries => entries[s] \in Entry
  BY DEF CacheInv, CacheTyped
<1>2. NewEntry \in Entry
  BY DEF NewEntry, Entry
<1>3. \A e \in Entry : Known(e) \in Names
  BY DEF Entry, Known, Names
<1> QED
  BY <1>1, <1>2, <1>3 DEF Answer

\* One more record is taken or refused, whatever the cache does meanwhile.
LEMMA NormalizeKeeps ==
  ASSUME HandlersInv, CacheInv, NEW h \in handlers, Normalize(h)
  PROVE  HandlersInv' /\ NoneConnects
<1>1. /\ h \in Handlers /\ HandlerInv(h) /\ h.stage = "normalize" /\ h.at \in Nat
      /\ h.taken \in SUBSET Takens /\ h.rejected \in SUBSET Nat /\ JournalGrows
  BY HandlerFields DEF Normalize, JournalGrows
<1>2. PICK x \in Exports, k \in Nat : x = h.export /\ k = h.at
  BY HandlerFields
<1>3. k \in Places(x) /\ Len(Decoded[x].request) \in Nat
  <2>1. k \in 1..(Len(Decoded[x].request) + 1) /\ k <= Len(Decoded[x].request)
    BY <1>1, <1>2 DEF HandlerInv, Normalizing, Normalize
  <2>2. Len(Decoded[x].request) \in Nat
    BY WireDecoded
  <2> QED
    BY <2>1, <2>2 DEF Places
<1>4. PICK index \in Nat : index = OriginalIndex(x, k)
  BY <1>3, WireDecoded
<1>5. /\ h.shed = {}
      /\ WellPlaced(h, 1..(k - 1))
      /\ \A t \in h.taken : ~Refused(x, t.at)
      /\ \A j \in 1..(k - 1) : Refused(x, j) \/ \E t \in h.taken : t.at = j
      /\ h.rejected = Decoded[x].rejected \cup
           {OriginalIndex(x, j) : j \in {i \in 1..(k - 1) : Refused(x, i)}}
  BY <1>1, <1>2 DEF HandlerInv, Normalizing
<1>6. /\ 1..((k + 1) - 1) = 1..(k - 1) \cup {k} /\ k \notin 1..(k - 1)
      /\ k + 1 \in 1..(Len(Decoded[x].request) + 1)
  BY <1>3 DEF Places
<1>7. CASE Refused(x, k)
  <2>1. PICK next : next = [h EXCEPT !.at = @ + 1, !.rejected = @ \cup {index}]
    OBVIOUS
  <2>2. /\ next \in Handlers /\ next.stage = "normalize" /\ next.at = k + 1
        /\ next.connected = h.connected /\ next.export = x
        /\ next.taken = h.taken /\ next.shed = {} /\ next.rejected = h.rejected \cup {index}
    <3>1. PICK at \in Nat : at = k + 1
      OBVIOUS
    <3>2. PICK rejected \in SUBSET Nat : rejected = h.rejected \cup {index}
      BY <1>1
    <3>3. next = [h EXCEPT !.at = at, !.rejected = rejected]
      BY <1>2, <2>1, <3>1, <3>2
    <3>4. /\ next \in Handlers /\ next.stage = h.stage /\ next.at = at
          /\ next.connected = h.connected /\ next.export = h.export
          /\ next.taken = h.taken /\ next.shed = h.shed /\ next.rejected = rejected
      BY <1>1, <3>3 DEF Handlers
    <3> QED
      BY <1>1, <1>2, <1>5, <3>1, <3>2, <3>4
  <2>3. next.rejected = Decoded[x].rejected \cup
          {OriginalIndex(x, j) : j \in {i \in 1..((k + 1) - 1) : Refused(x, i)}}
    BY <1>4, <1>5, <1>6, <1>7, <2>2
  <2>4. WellPlaced(next, 1..((k + 1) - 1))
    BY <1>2, <1>5, <1>6, <2>2 DEF WellPlaced
  <2>5. \A j \in 1..((k + 1) - 1) : Refused(x, j) \/ \E t \in next.taken : t.at = j
    BY <1>5, <1>6, <1>7, <2>2
  <2>6. \A t \in next.taken : ~Refused(x, t.at)
    BY <1>5, <2>2
  <2>7. Normalizing(next)
    <3>1. PICK at, s : at = k + 1 /\ s = 1..(at - 1)
      OBVIOUS
    <3>2. /\ next.at = at /\ next.export = x /\ next.shed = {}
          /\ at \in 1..(Len(Decoded[x].request) + 1)
          /\ WellPlaced(next, s) /\ \A t \in next.taken : ~Refused(x, t.at)
          /\ \A j \in s : Refused(x, j) \/ \E t \in next.taken : t.at = j
          /\ next.rejected = Decoded[x].rejected \cup
               {OriginalIndex(x, j) : j \in {i \in s : Refused(x, i)}}
      BY <1>6, <2>2, <2>3, <2>4, <2>5, <2>6, <3>1
    <3> QED
      BY <3>1, <3>2 DEF Normalizing
  <2>8. HandlerInv(next)'
    BY <2>2, <2>7, HandlerTold DEF BeforeIngest, Appending, Answering
  <2>9. Becomes(h, next)
    BY <1>2, <1>4, <1>7, <2>1 DEF Normalize, Refused
  <2> QED
    BY <1>1, <2>2, <2>8, <2>9, HandlerMoves
<1>8. CASE ~Refused(x, k)
  <2>1. PICK deployment \in Names :
          deployment = IF ServiceOf(Decoded[x].request[k].resource).name = ""
                       THEN "not_applicable"
                       ELSE Answer(ServiceOf(Decoded[x].request[k].resource).name)
    BY AnswerNamed DEF Names
  <2>2. PICK t : t = [index |-> index, at |-> k, deployment |-> deployment]
    OBVIOUS
  <2>3. t \in Takens /\ t.index = index /\ t.at = k
    BY <2>2 DEF Takens
  <2>4. PICK next : next = [h EXCEPT !.at = @ + 1, !.taken = @ \cup {t}]
    OBVIOUS
  <2>5. /\ next \in Handlers /\ next.stage = "normalize" /\ next.at = k + 1
        /\ next.connected = h.connected /\ next.export = x
        /\ next.taken = h.taken \cup {t} /\ next.shed = {} /\ next.rejected = h.rejected
    <3>1. PICK at \in Nat : at = k + 1
      OBVIOUS
    <3>2. PICK taken \in SUBSET Takens : taken = h.taken \cup {t}
      BY <1>1, <2>3
    <3>3. next = [h EXCEPT !.at = at, !.taken = taken]
      BY <1>2, <2>4, <3>1, <3>2
    <3>4. /\ next \in Handlers /\ next.stage = h.stage /\ next.at = at
          /\ next.connected = h.connected /\ next.export = h.export
          /\ next.taken = taken /\ next.shed = h.shed /\ next.rejected = h.rejected
      BY <1>1, <3>3 DEF Handlers
    <3> QED
      BY <1>1, <1>2, <1>5, <3>1, <3>2, <3>4
  <2>6. next.rejected = Decoded[x].rejected \cup
          {OriginalIndex(x, j) : j \in {i \in 1..((k + 1) - 1) : Refused(x, i)}}
    BY <1>5, <1>6, <1>8, <2>5
  <2>7. WellPlaced(next, 1..((k + 1) - 1))
    BY <1>2, <1>4, <1>5, <1>6, <2>3, <2>5 DEF WellPlaced
  <2>8. \A j \in 1..((k + 1) - 1) : Refused(x, j) \/ \E u \in next.taken : u.at = j
    BY <1>5, <1>6, <2>3, <2>5
  <2>9. \A u \in next.taken : ~Refused(x, u.at)
    BY <1>5, <1>8, <2>3, <2>5
  <2>10. Normalizing(next)
    <3>1. PICK at, s : at = k + 1 /\ s = 1..(at - 1)
      OBVIOUS
    <3>2. /\ next.at = at /\ next.export = x /\ next.shed = {}
          /\ at \in 1..(Len(Decoded[x].request) + 1)
          /\ WellPlaced(next, s) /\ \A u \in next.taken : ~Refused(x, u.at)
          /\ \A j \in s : Refused(x, j) \/ \E u \in next.taken : u.at = j
          /\ next.rejected = Decoded[x].rejected \cup
               {OriginalIndex(x, j) : j \in {i \in s : Refused(x, i)}}
      BY <1>6, <2>5, <2>6, <2>7, <2>8, <2>9, <3>1
    <3> QED
      BY <3>1, <3>2 DEF Normalizing
  <2>11. HandlerInv(next)'
    BY <2>5, <2>10, HandlerTold DEF BeforeIngest, Appending, Answering
  <2>12. Becomes(h, next)
    BY <1>2, <1>4, <1>8, <2>1, <2>2, <2>4 DEF Normalize, Refused
  <2> QED
    BY <1>1, <2>5, <2>11, <2>12, HandlerMoves
<1> QED
  BY <1>7, <1>8

-----------------------------------------------------------------------------
(* The verdicts of Judge.                                                  *)

\* The sets Judge is stated with.
Large(h)   == {t \in h.taken : Taken(h, t).record.size > MaxNormalized}
Act(h, a)  == {t \in h.taken \ Large(h) : CapacityAction(Taken(h, t).record, Capacity) = a}
Indexes(set) == {t.index : t \in set}

\* At the end of the filtered request every record has its verdict.
LEMMA AllJudged ==
  ASSUME HandlersInv, NEW h \in handlers, h.stage = "normalize",
         h.at > Len(Decoded[h.export].request), Act(h, "backpressure") = {}
  PROVE  /\ h.rejected \cup Indexes(Large(h)) = Deserved[h.export]
         /\ Indexes(Act(h, "shed")) \subseteq MightGo[h.export]
         /\ Indexes(Large(h)) \subseteq Nat /\ Indexes(Act(h, "shed")) \subseteq Nat
         /\ \A i \in DOMAIN Wire[h.export] :
               \/ i \in Deserved[h.export] \cup Indexes(Act(h, "shed"))
               \/ \E t \in Act(h, "admit") : t.index = i
         /\ WellPlaced(h, Places(h.export))
<1>1. /\ HandlerInv(h) /\ h.at \in Nat /\ h.taken \in SUBSET Takens
  BY HandlerFields
<1>2. PICK x \in Exports, n \in Nat : x = h.export /\ n = Len(Decoded[x].request)
  <2>1. PICK x \in Exports : x = h.export
    BY HandlerFields
  <2> QED
    BY <2>1, WireDecoded
<1>3. h.at = n + 1 /\ 1..(h.at - 1) = Places(x)
  <2>1. h.at \in 1..(n + 1) /\ h.at > n
    BY <1>1, <1>2 DEF HandlerInv, Normalizing
  <2> QED
    BY <1>1, <1>2, <2>1 DEF Places
<1>4. /\ WellPlaced(h, Places(x))
      /\ \A t \in h.taken : ~Refused(x, t.at)
      /\ \A k \in Places(x) : Refused(x, k) \/ \E t \in h.taken : t.at = k
      /\ h.rejected = Decoded[x].rejected \cup
           {OriginalIndex(x, k) : k \in {j \in Places(x) : Refused(x, j)}}
  BY <1>1, <1>2, <1>3 DEF HandlerInv, Normalizing
<1>5. /\ \A k \in Places(x) : /\ OriginalIndex(x, k) \in DOMAIN Wire[x]
                              /\ Wire[x][OriginalIndex(x, k)] = Decoded[x].request[k]
                              /\ ~TooDeep(Decoded[x].request[k])
      /\ \A i \in DOMAIN Wire[x] :
            TooDeep(Wire[x][i]) \/ \E k \in Places(x) : OriginalIndex(x, k) = i
      /\ Decoded[x].rejected = {i \in DOMAIN Wire[x] : TooDeep(Wire[x][i])}
      /\ DOMAIN Wire[x] \subseteq Nat
  BY WireDecoded
<1>6. \A t \in h.taken : /\ t.at \in Places(x) /\ t.index = OriginalIndex(x, t.at)
                        /\ t.index \in DOMAIN Wire[x] /\ t.index \in Nat
                        /\ Taken(h, t) = Wire[x][t.index] /\ ~TooDeep(Wire[x][t.index])
                        /\ Refusal(Wire[x][t.index]) = ""
  <2> SUFFICES ASSUME NEW t \in h.taken
               PROVE  /\ t.at \in Places(x) /\ t.index = OriginalIndex(x, t.at)
                      /\ t.index \in DOMAIN Wire[x] /\ t.index \in Nat
                      /\ Taken(h, t) = Wire[x][t.index] /\ ~TooDeep(Wire[x][t.index])
                      /\ Refusal(Wire[x][t.index]) = ""
    OBVIOUS
  <2>1. t.at \in Places(x) /\ t.index = OriginalIndex(x, t.at)
    BY <1>2, <1>4 DEF WellPlaced
  <2>2. /\ t.index \in DOMAIN Wire[x] /\ t.index \in Nat
        /\ Wire[x][t.index] = Decoded[x].request[t.at] /\ ~TooDeep(Wire[x][t.index])
    BY <1>5, <2>1
  <2>3. Taken(h, t) = Wire[x][t.index]
    BY <1>2, <2>2 DEF Taken
  <2>4. Refusal(Wire[x][t.index]) = ""
    BY <1>4, <2>2 DEF Refused
  <2> QED
    BY <2>1, <2>2, <2>3, <2>4
<1>7. \A t \in h.taken : t \in Large(h) <=> Rejects(Wire[x][t.index])
  BY <1>6 DEF Large, Rejects
<1>8. \A i \in DOMAIN Wire[x] :
        \/ i \in h.rejected /\ Rejects(Wire[x][i])
        \/ \E t \in h.taken : t.index = i
  <2> SUFFICES ASSUME NEW i \in DOMAIN Wire[x]
               PROVE  \/ i \in h.rejected /\ Rejects(Wire[x][i])
                      \/ \E t \in h.taken : t.index = i
    OBVIOUS
  <2>1. CASE TooDeep(Wire[x][i])
    BY <1>4, <1>5, <2>1 DEF Rejects
  <2>2. CASE ~TooDeep(Wire[x][i])
    <3>1. PICK k \in Places(x) : OriginalIndex(x, k) = i
      BY <1>5, <2>2
    <3>2. CASE Refused(x, k)
      BY <1>4, <1>5, <3>1, <3>2 DEF Refused, Rejects
    <3>3. CASE ~Refused(x, k)
      BY <1>4, <1>6, <3>1, <3>3
    <3> QED
      BY <3>2, <3>3
  <2> QED
    BY <2>1, <2>2
<1>9. \A i \in h.rejected : i \in DOMAIN Wire[x] /\ Rejects(Wire[x][i])
  <2> SUFFICES ASSUME NEW i \in h.rejected
               PROVE  i \in DOMAIN Wire[x] /\ Rejects(Wire[x][i])
    OBVIOUS
  <2>1. CASE i \in Decoded[x].rejected
    BY <1>5, <2>1 DEF Rejects
  <2>2. CASE i \notin Decoded[x].rejected
    <3>1. PICK k \in Places(x) : Refused(x, k) /\ i = OriginalIndex(x, k)
      BY <1>4, <2>2
    <3> QED
      BY <1>5, <3>1 DEF Refused, Rejects
  <2> QED
    BY <2>1, <2>2
<1>10. h.rejected \cup Indexes(Large(h)) = Deserved[x]
  <2>1. \A i \in h.rejected \cup Indexes(Large(h)) : i \in DOMAIN Wire[x] /\ Rejects(Wire[x][i])
    BY <1>6, <1>7, <1>9 DEF Indexes, Large
  <2>2. \A i \in DOMAIN Wire[x] : Rejects(Wire[x][i]) => i \in h.rejected \cup Indexes(Large(h))
    BY <1>7, <1>8 DEF Indexes
  <2> QED
    BY <2>1, <2>2, ReferenceIs
<1>11. \A t \in Act(h, "shed") : t.index \in MightGo[x]
  <2> SUFFICES ASSUME NEW t \in Act(h, "shed") PROVE t.index \in MightGo[x]
    OBVIOUS
  <2>1. t \in h.taken /\ t \notin Large(h)
    BY DEF Act
  <2>2. MayShed(Wire[x][t.index].record)
    BY <1>6, <2>1 DEF Act, CapacityAction
  <2>3. Sheddable(Wire[x][t.index])
    BY <1>7, <2>1, <2>2 DEF Sheddable
  <2> QED
    BY <1>6, <2>1, <2>3, ReferenceIs
<1>12. \A t \in h.taken : t \in Large(h) \/ t \in Act(h, "shed") \/ t \in Act(h, "admit")
  <2> SUFFICES ASSUME NEW t \in h.taken, t \notin Large(h), t \notin Act(h, "shed")
               PROVE  t \in Act(h, "admit")
    OBVIOUS
  <2>1. CapacityAction(Taken(h, t).record, Capacity) \in {"admit", "shed", "backpressure"}
    BY DEF CapacityAction
  <2>2. t \notin Act(h, "backpressure")
    OBVIOUS
  <2> QED
    BY <2>1, <2>2 DEF Act
<1>13. \A i \in DOMAIN Wire[x] : \/ i \in Deserved[x] \cup Indexes(Act(h, "shed"))
                                \/ \E t \in Act(h, "admit") : t.index = i
  BY <1>8, <1>10, <1>12 DEF Indexes
<1>14. Indexes(Large(h)) \subseteq Nat /\ Indexes(Act(h, "shed")) \subseteq Nat
       /\ Indexes(Act(h, "shed")) \subseteq MightGo[x]
  BY <1>6, <1>11 DEF Indexes, Large, Act
<1> QED
  BY <1>2, <1>4, <1>10, <1>13, <1>14

\* A judged batch goes to the journal, or its sender is told.
LEMMA JudgeKeeps ==
  ASSUME HandlersInv, NEW h \in handlers, Judge(h)
  PROVE  HandlersInv' /\ NoneConnects
<1>1. /\ h \in Handlers /\ HandlerInv(h) /\ h.stage = "normalize" /\ h.at \in Nat
      /\ h.taken \in SUBSET Takens /\ h.rejected \in SUBSET Nat /\ JournalGrows
      /\ h.at > Len(Decoded[h.export].request) /\ h.export \in Exports
      /\ UNCHANGED journal
  BY HandlerFields DEF Judge, JournalGrows
<1>2. CASE Act(h, "backpressure") # {}
  <2>1. PICK next : next = [h EXCEPT !.stage = "answer", !.answer = "unavailable"]
    OBVIOUS
  <2>2. /\ next \in Handlers /\ next.stage = "answer" /\ next.answer = "unavailable"
        /\ next.connected = h.connected
    BY <1>1, <2>1 DEF Handlers
  <2>3. HandlerInv(next)'
    BY <2>2, HandlerTold DEF BeforeIngest, Normalizing, Appending, Answering
  <2>4. Becomes(h, next)
    BY <1>2, <2>1 DEF Judge, Answers, Act, Large
  <2> QED
    BY <1>1, <2>2, <2>3, <2>4, HandlerMoves
<1>3. CASE Act(h, "backpressure") = {}
  <2>1. PICK stage, answer, taken, rejected, shed :
          /\ stage = IF Act(h, "admit") = {} THEN "answer" ELSE "append"
          /\ answer = IF Act(h, "admit") = {} THEN "ok" ELSE "none"
          /\ taken = Act(h, "admit")
          /\ rejected = h.rejected \cup Indexes(Large(h))
          /\ shed = Indexes(Act(h, "shed"))
    OBVIOUS
  <2>2. PICK next : next = [h EXCEPT !.stage = stage, !.answer = answer, !.taken = taken,
                                     !.rejected = rejected, !.shed = shed]
    OBVIOUS
  <2>3. Becomes(h, next)
    BY <1>3, <2>1, <2>2 DEF Judge, Act, Large, Indexes
  <2>4. /\ rejected = Deserved[h.export] /\ shed \subseteq MightGo[h.export]
        /\ rejected \in SUBSET Nat /\ shed \in SUBSET Nat
        /\ \A i \in DOMAIN Wire[h.export] :
              i \in rejected \cup shed \/ \E t \in taken : t.index = i
        /\ WellPlaced(h, Places(h.export))
    BY <1>1, <1>3, <2>1, AllJudged
  <2>5. taken \subseteq h.taken
    BY <2>1 DEF Act
  <2>6. /\ next \in Handlers /\ next.stage = stage /\ next.answer = answer
        /\ next.connected = h.connected /\ next.export = h.export
        /\ next.taken = taken /\ next.rejected = rejected /\ next.shed = shed
    <3>1. /\ stage \in {"append", "answer"} /\ answer \in {"ok", "none"}
          /\ taken \in SUBSET Takens
      BY <1>1, <2>1, <2>5 DEF Handlers
    <3> QED
      BY <1>1, <2>2, <2>4, <3>1 DEF Handlers
  <2>7. Judged(next) /\ WellPlaced(next, Places(next.export))
    BY <2>4, <2>5, <2>6 DEF Judged, WellPlaced
  <2>8. Appending(next) /\ BeforeIngest(next) /\ Normalizing(next)
    BY <2>1, <2>4, <2>6, <2>7 DEF Appending, BeforeIngest, Normalizing
  <2>9. stage = "answer" => taken = {} /\ answer = "ok"
    BY <2>1
  <2>10. Answering(next)
    BY <2>4, <2>6, <2>7, <2>9 DEF Answering
  <2>11. Answering(next)'
    BY <1>1, <2>10 DEF Answering, Judged, Kept, SentTwice
  <2> QED
    BY <1>1, <2>3, <2>6, <2>8, <2>11, HandlerTold, HandlerMoves
<1> QED
  BY <1>2, <1>3

-----------------------------------------------------------------------------
(* The journal.                                                            *)

\* An append keeps what was there, and holds every id of its batch.
LEMMA AppendedKeeps ==
  ASSUME JournalInv, NEW batch, journal' = Appended(batch)
  PROVE  JournalInv' /\ JournalGrows /\ \A a \in batch : a.id \in DOMAIN journal'
<1>1. PICK ids : ids = {a.id : a \in batch}
  OBVIOUS
<1>2. PICK new : new = ids \ DOMAIN journal
  OBVIOUS
<1>3. PICK f : f = [i \in new |-> [content |-> (CHOOSE a \in batch : a.id = i).content,
                                  state |-> "pending"]]
  OBVIOUS
<1>4. \A i \in new : "state" \in DOMAIN f[i] /\ "content" \in DOMAIN f[i] /\ f[i].state = "pending"
  BY <1>3
<1>5. /\ DOMAIN journal' = DOMAIN journal \cup new
      /\ \A i \in DOMAIN journal : journal'[i] = journal[i]
      /\ \A i \in new : journal'[i] = f[i]
  BY <1>1, <1>2, <1>3 DEF Appended
<1>6. JournalInv'
  BY <1>4, <1>5 DEF JournalInv
<1>7. JournalGrows
  BY <1>5 DEF JournalGrows
<1> QED
  BY <1>1, <1>2, <1>5, <1>6, <1>7

\* A move of some records takes none back from being finished.
LEMMA MovedKeeps ==
  ASSUME JournalInv, NEW ids, NEW state \in {"claimed", "finished"},
         journal' = Moved(ids, state),
         \A i \in DOMAIN journal \cap ids : journal[i].state # "finished"
  PROVE  JournalInv' /\ JournalGrows /\ DOMAIN journal' = DOMAIN journal
<1>1. /\ DOMAIN journal' = DOMAIN journal
      /\ \A i \in DOMAIN journal :
            journal'[i] = IF i \in ids THEN [journal[i] EXCEPT !.state = state] ELSE journal[i]
  BY DEF Moved
<1>2. \A i \in DOMAIN journal : i \in ids =>
         /\ DOMAIN journal'[i] = DOMAIN journal[i] /\ journal'[i].state = state
  BY <1>1 DEF JournalInv
<1>3. JournalInv'
  BY <1>1, <1>2 DEF JournalInv
<1>4. JournalGrows
  BY <1>1 DEF JournalGrows
<1> QED
  BY <1>1, <1>3, <1>4

\* A conflict is about a record sent, or journaled, twice.
LEMMA ConflictIs ==
  ASSUME NEW h, h.export \in Exports, WellPlaced(h, Places(h.export)),
         Conflicting(Admissions(h))
  PROVE  SentTwice(h.export) \/ \E i \in DOMAIN Wire[h.export] : Kept(h.export, i)
<1>1. PICK x \in Exports : x = h.export
  OBVIOUS
<1>2. \A t \in h.taken : /\ t.at \in Places(x) /\ t.index = OriginalIndex(x, t.at)
                        /\ t.index \in DOMAIN Wire[x] /\ IDs[x][t.index] = RecordID(Taken(h, t))
  <2> SUFFICES ASSUME NEW t \in h.taken
               PROVE  /\ t.at \in Places(x) /\ t.index = OriginalIndex(x, t.at)
                      /\ t.index \in DOMAIN Wire[x]
                      /\ IDs[x][t.index] = RecordID(Taken(h, t))
    OBVIOUS
  <2>1. t.at \in Places(x) /\ t.index = OriginalIndex(x, t.at)
    BY <1>1 DEF WellPlaced
  <2>2. t.index \in DOMAIN Wire[x] /\ Wire[x][t.index] = Taken(h, t)
    BY <1>1, <2>1, WireDecoded DEF Taken
  <2> QED
    BY <2>1, <2>2, ReferenceIs
<1>3. \A a \in Admissions(h) : \E t \in h.taken :
        a = [id |-> RecordID(Taken(h, t)), content |-> <<Evidence(Taken(h, t)), t.deployment>>]
  BY DEF Admissions
<1>4. CASE \E a, b \in Admissions(h) : a.id = b.id /\ a.content # b.content
  <2>1. PICK a \in Admissions(h), b \in Admissions(h) : a.id = b.id /\ a.content # b.content
    BY <1>4
  <2>2. PICK t \in h.taken :
          a = [id |-> RecordID(Taken(h, t)), content |-> <<Evidence(Taken(h, t)), t.deployment>>]
    BY <1>3
  <2>3. PICK u \in h.taken :
          b = [id |-> RecordID(Taken(h, u)), content |-> <<Evidence(Taken(h, u)), u.deployment>>]
    BY <1>3
  <2>4. t # u
    BY <2>1, <2>2, <2>3
  <2>5. t.index # u.index
    BY <1>1, <1>2, <2>4, WireDecoded DEF WellPlaced
  <2>6. IDs[x][t.index] = IDs[x][u.index]
    BY <1>2, <2>1, <2>2, <2>3
  <2> QED
    BY <1>1, <1>2, <2>5, <2>6 DEF SentTwice
<1>5. CASE \E a \in Admissions(h) : a.id \in DOMAIN journal
  <2>1. PICK a \in Admissions(h) : a.id \in DOMAIN journal
    BY <1>5
  <2>2. PICK t \in h.taken :
          a = [id |-> RecordID(Taken(h, t)), content |-> <<Evidence(Taken(h, t)), t.deployment>>]
    BY <1>3
  <2> QED
    BY <1>1, <1>2, <2>1, <2>2 DEF Kept
<1> QED
  BY <1>4, <1>5 DEF Conflicting

\* The answer an append leads to is true of the journal it leaves.
LEMMA AppendKeeps ==
  ASSUME HandlersInv, JournalInv, NEW h \in handlers, AppendToJournal(h)
  PROVE  HandlersInv' /\ NoneConnects /\ JournalInv' /\ JournalGrows
<1>1. /\ h \in Handlers /\ HandlerInv(h) /\ h.stage = "append" /\ h.export \in Exports
  BY HandlerFields DEF AppendToJournal
<1>2. /\ Judged(h) /\ WellPlaced(h, Places(h.export))
      /\ \A i \in DOMAIN Wire[h.export] :
            i \in h.rejected \cup h.shed \/ \E t \in h.taken : t.index = i
  BY <1>1 DEF HandlerInv, Appending
<1>3. PICK outcome \in {"ok", "unavailable", "conflicting"} : outcome = AppendOutcome(h)
  BY DEF AppendOutcome
<1>4. /\ JournalInv' /\ JournalGrows
      /\ outcome = "ok" => \A a \in Admissions(h) : a.id \in DOMAIN journal'
  <2>1. CASE outcome = "ok"
    <3>1. journal' = Appended(Admissions(h))
      BY <1>3, <2>1 DEF AppendToJournal
    <3> QED
      BY <3>1, AppendedKeeps
  <2>2. CASE outcome # "ok"
    <3>1. UNCHANGED journal
      BY <1>3, <2>2 DEF AppendToJournal
    <3> QED
      BY <2>2, <3>1 DEF JournalInv, JournalGrows
  <2> QED
    BY <2>1, <2>2
<1>5. PICK next : next = [h EXCEPT !.stage = "answer", !.answer = outcome]
  OBVIOUS
<1>6. /\ next \in Handlers /\ next.stage = "answer" /\ next.answer = outcome
      /\ next.connected = h.connected /\ next.export = h.export
      /\ next.rejected = h.rejected /\ next.shed = h.shed
  BY <1>1, <1>5 DEF Handlers
<1>7. ASSUME outcome = "ok", NEW t \in h.taken
      PROVE  Kept(h.export, t.index)'
  <2>1. PICK x \in Exports : x = h.export
    BY <1>1
  <2>2. t.at \in Places(x) /\ t.index = OriginalIndex(x, t.at)
    BY <1>2, <2>1 DEF WellPlaced
  <2>3. t.index \in DOMAIN Wire[x] /\ Wire[x][t.index] = Taken(h, t)
    BY <2>1, <2>2, WireDecoded DEF Taken
  <2>4. IDs[x][t.index] = RecordID(Taken(h, t))
    BY <2>3, ReferenceIs
  <2>5. PICK a \in Admissions(h) : a.id = RecordID(Taken(h, t))
    <3>1. PICK a : a = [id |-> RecordID(Taken(h, t)),
                        content |-> <<Evidence(Taken(h, t)), t.deployment>>]
      OBVIOUS
    <3>2. a \in Admissions(h)
      BY <1>7, <3>1, Zenon DEF Admissions
    <3> QED
      BY <3>1, <3>2
  <2>6. RecordID(Taken(h, t)) \in DOMAIN journal'
    BY <1>4, <1>7, <2>5
  <2> QED
    BY <2>1, <2>4, <2>6 DEF Kept
<1>8. Judged(next)'
  BY <1>2, <1>6 DEF Judged
<1>9. outcome = "ok" => \A i \in DOMAIN Wire[h.export] :
        i \in h.rejected \cup h.shed \/ Kept(h.export, i)'
  BY <1>2, <1>7
<1>10. outcome = "conflicting" =>
         SentTwice(h.export)' \/ \E i \in DOMAIN Wire[h.export] : Kept(h.export, i)'
  <2> SUFFICES ASSUME outcome = "conflicting"
               PROVE  SentTwice(h.export)' \/ \E i \in DOMAIN Wire[h.export] : Kept(h.export, i)'
    OBVIOUS
  <2>1. Conflicting(Admissions(h))
    BY <1>3 DEF AppendOutcome
  <2>2. SentTwice(h.export) \/ \E i \in DOMAIN Wire[h.export] : Kept(h.export, i)
    BY <1>1, <1>2, <2>1, ConflictIs
  <2> QED
    BY <1>4, <2>2 DEF SentTwice, Kept, JournalGrows
<1>11. Answering(next)'
  BY <1>6, <1>8, <1>9, <1>10 DEF Answering
<1>12. HandlerInv(next)'
  BY <1>6, <1>11, HandlerTold DEF BeforeIngest, Normalizing, Appending
<1>13. Becomes(h, next)
  BY <1>3, <1>5 DEF AppendToJournal, Answers
<1> QED
  BY <1>4, <1>6, <1>12, <1>13, HandlerMoves

-----------------------------------------------------------------------------
(* The senders.                                                            *)

\* A sender hears of a success over a connection only.
NoneHears ==
  (\A h \in handlers : ~h.connected) =>
    \A x \in DOMAIN collector' : collector'[x].state = "acked" => collector'[x] = collector[x]

\* One sender hears something true, or asks again.
LEMMA SenderMoves ==
  ASSUME SendersInv, JournalGrows, role' = role, NEW x, NEW v,
         collector' = [collector EXCEPT ![x] = v],
         x \in DOMAIN collector => v \in Senders /\ SenderInv(x)'
  PROVE  SendersInv' /\ DOMAIN collector' = DOMAIN collector
<1>1. /\ DOMAIN collector \in Offered[role] /\ collector \in [DOMAIN collector -> Senders]
      /\ \A y \in DOMAIN collector : SenderInv(y)
  BY DEF SendersInv
<1>2. DOMAIN collector' = DOMAIN collector
  BY <1>1
<1>3. collector' \in [DOMAIN collector' -> Senders]
  BY <1>1, <1>2
<1>4. \A y \in DOMAIN collector' : SenderInv(y)'
  <2> SUFFICES ASSUME NEW y \in DOMAIN collector' PROVE SenderInv(y)'
    OBVIOUS
  <2>1. CASE y = x
    BY <1>2, <2>1
  <2>2. CASE y # x
    <3>1. collector'[y] = collector[y]
      BY <1>1, <1>2, <2>2
    <3> QED
      BY <1>1, <1>2, <3>1, SenderStays
  <2> QED
    BY <2>1, <2>2
<1> QED
  BY <1>1, <1>2, <1>3, <1>4 DEF SendersInv

\* A sender that is to ask again, or waits, heard nothing.
LEMMA SenderRequeued ==
  ASSUME SendersInv, JournalGrows, role' = role, NEW x, NEW v \in {Queued, Waiting},
         collector' = [collector EXCEPT ![x] = v]
  PROVE  SendersInv' /\ DOMAIN collector' = DOMAIN collector /\ NoneHears
<1>1. v \in Senders /\ v.state # "acked"
  BY DEF Queued, Waiting, Senders
<1>2. collector \in [DOMAIN collector -> Senders]
  BY DEF SendersInv
<1>3. x \in DOMAIN collector => collector'[x] = v /\ SenderInv(x)'
  BY <1>2, SenderAsks
<1>4. NoneHears
  BY <1>1, <1>2 DEF NoneHears
<1> QED
  BY <1>1, <1>3, <1>4, SenderMoves

\* The senders stay as they are.
LEMMA SendersFrame ==
  ASSUME SendersInv, JournalGrows, role' = role, UNCHANGED collector
  PROVE  SendersInv' /\ DOMAIN collector' = DOMAIN collector /\ NoneHears
BY SenderStays DEF SendersInv, NoneHears

\* All that waited are to ask again.
LEMMA SendersCut ==
  ASSUME SendersInv, JournalGrows, role' = role,
         collector' = [x \in DOMAIN collector |->
                         IF collector[x].state = "waiting" THEN Queued ELSE collector[x]]
  PROVE  SendersInv' /\ DOMAIN collector' = DOMAIN collector /\ NoneHears
<1>1. /\ DOMAIN collector \in Offered[role] /\ collector \in [DOMAIN collector -> Senders]
      /\ \A x \in DOMAIN collector : SenderInv(x)
  BY DEF SendersInv
<1>2. Queued \in Senders /\ Queued.state # "acked"
  BY DEF Queued, Senders
<1>3. \A x \in DOMAIN collector' : SenderInv(x)'
  <2> SUFFICES ASSUME NEW x \in DOMAIN collector' PROVE SenderInv(x)'
    OBVIOUS
  <2>1. CASE collector[x].state = "waiting"
    BY <2>1, SenderAsks
  <2>2. CASE collector[x].state # "waiting"
    BY <1>1, <2>2, SenderStays
  <2> QED
    BY <2>1, <2>2
<1>4. DOMAIN collector' = DOMAIN collector /\ collector' \in [DOMAIN collector' -> Senders]
  BY <1>1, <1>2
<1>5. NoneHears
  BY <1>2 DEF NoneHears
<1> QED
  BY <1>1, <1>3, <1>4, <1>5 DEF SendersInv

\* What a sender hears is what its handler knew.
LEMMA RespondKeeps ==
  ASSUME HandlersInv, SendersInv, NEW h \in handlers, Respond(h)
  PROVE  /\ HandlersInv' /\ NoneConnects
         /\ SendersInv' /\ DOMAIN collector' = DOMAIN collector /\ NoneHears
<1>1. /\ h \in Handlers /\ HandlerInv(h) /\ h.stage = "answer" /\ handlers' = handlers \ {h}
      /\ UNCHANGED <<role, journal>> /\ JournalGrows
      /\ collector' = [collector EXCEPT ![h.export] = Hears(h)]
  BY HandlerFields DEF Respond, JournalGrows
<1>2. HandlersInv' /\ NoneConnects
  BY <1>1, HandlerStays, HandlerMoves
<1>3. collector \in [DOMAIN collector -> Senders]
  BY DEF SendersInv
<1>4. CASE ~h.connected
  <2>1. collector' = collector
    BY <1>1, <1>3, <1>4 DEF Hears
  <2> QED
    BY <1>1, <1>2, <2>1, SendersFrame
<1>5. CASE h.connected /\ h.answer = "unavailable"
  <2>1. Hears(h) = Queued
    BY <1>5 DEF Hears
  <2> QED
    BY <1>1, <1>2, <2>1, SenderRequeued
<1>6. CASE h.connected /\ h.answer = "ok"
  <2>1. PICK v : v = [state |-> "acked", reported |-> h.rejected, shed |-> h.shed]
    OBVIOUS
  <2>2. Hears(h) = v /\ v \in Senders
    BY <1>1, <1>6, <2>1, HandlerFields DEF Hears, Senders
  <2>3. /\ Judged(h)
        /\ \A i \in DOMAIN Wire[h.export] : i \in h.rejected \cup h.shed \/ Kept(h.export, i)
    BY <1>1, <1>6 DEF HandlerInv, Answering
  <2>4. h.export \in DOMAIN collector => collector'[h.export] = v
    BY <1>1, <1>3, <2>2
  <2>5. h.export \in DOMAIN collector => SenderInv(h.export)'
    BY <1>1, <2>1, <2>3, <2>4 DEF SenderInv, Judged, Kept
  <2>6. NoneHears
    BY <1>6 DEF NoneHears
  <2> QED
    BY <1>1, <1>2, <2>2, <2>5, <2>6, SenderMoves
<1>7. CASE h.connected /\ h.answer \in {"inadmissible", "conflicting"}
  <2>1. PICK v : v = [Queued EXCEPT !.state = h.answer]
    OBVIOUS
  <2>2. Hears(h) = v /\ v \in Senders /\ v.state = h.answer
    BY <1>7, <2>1 DEF Hears, Senders, Queued
  <2>3. /\ h.answer = "inadmissible" => h.export \in Barred
        /\ h.answer = "conflicting" =>
             SentTwice(h.export) \/ \E i \in DOMAIN Wire[h.export] : Kept(h.export, i)
    BY <1>1, <1>7 DEF HandlerInv, Answering
  <2>4. h.export \in DOMAIN collector => collector'[h.export] = v
    BY <1>1, <1>3, <2>2
  <2>5. h.export \in DOMAIN collector => SenderInv(h.export)'
    BY <1>1, <1>7, <2>2, <2>3, <2>4 DEF SenderInv, SentTwice, Kept
  <2>6. NoneHears
    BY <1>7 DEF NoneHears
  <2> QED
    BY <1>1, <1>2, <2>2, <2>5, <2>6, SenderMoves
<1>8. h.answer \in {"ok", "unavailable", "inadmissible", "conflicting"}
  BY <1>1 DEF HandlerInv, Answering, Handlers
<1> QED
  BY <1>4, <1>5, <1>6, <1>7, <1>8

\* A handler that panics, or whose sender is gone, or that the disk fails.
LEMMA HandlerFaultKeeps ==
  ASSUME HandlersInv, SendersInv, NEW h \in handlers,
         AppendFails(h) \/ Panic(h) \/ AnswerLost(h)
  PROVE  /\ HandlersInv' /\ NoneConnects
         /\ SendersInv' /\ DOMAIN collector' = DOMAIN collector /\ NoneHears
<1>1. /\ h \in Handlers /\ HandlerInv(h) /\ UNCHANGED <<role, journal>> /\ JournalGrows
  BY HandlerFields DEF AppendFails, Panic, AnswerLost, JournalGrows
<1>2. HandlerInv(h)'
  BY <1>1, HandlerStays
<1>3. collector \in [DOMAIN collector -> Senders]
  BY DEF SendersInv
<1>4. CASE AppendFails(h)
  <2>1. PICK next : next = [h EXCEPT !.stage = "answer", !.answer = "unavailable"]
    OBVIOUS
  <2>2. /\ next \in Handlers /\ next.stage = "answer" /\ next.answer = "unavailable"
        /\ next.connected = h.connected
    BY <1>1, <2>1 DEF Handlers
  <2>3. HandlerInv(next)'
    BY <2>2, HandlerTold DEF BeforeIngest, Normalizing, Appending, Answering
  <2>4. Becomes(h, next) /\ UNCHANGED collector
    BY <1>4, <2>1 DEF AppendFails, Answers
  <2> QED
    BY <1>1, <2>2, <2>3, <2>4, HandlerMoves, SendersFrame
<1>5. CASE Panic(h)
  <2>1. handlers' = handlers \ {h}
    BY <1>5 DEF Panic
  <2>2. HandlersInv' /\ NoneConnects
    BY <1>1, <1>2, <2>1, HandlerMoves
  <2>3. CASE h.connected
    <3>1. collector' = [collector EXCEPT ![h.export] = Queued]
      BY <1>5, <2>3 DEF Panic
    <3> QED
      BY <1>1, <2>2, <3>1, SenderRequeued
  <2>4. CASE ~h.connected
    <3>1. UNCHANGED collector
      BY <1>3, <1>5, <2>4 DEF Panic
    <3> QED
      BY <1>1, <2>2, <3>1, SendersFrame
  <2> QED
    BY <2>3, <2>4
<1>6. CASE AnswerLost(h)
  <2>1. PICK next : next = [h EXCEPT !.connected = FALSE]
    OBVIOUS
  <2>2. /\ next \in Handlers /\ next.connected = FALSE /\ next.stage = h.stage
        /\ next.answer = h.answer /\ next.export = h.export /\ next.at = h.at
        /\ next.taken = h.taken /\ next.rejected = h.rejected /\ next.shed = h.shed
    BY <1>1, <2>1 DEF Handlers
  <2>3. BeforeIngest(next) /\ Normalizing(next) /\ Appending(next)
    BY <1>1, <2>2 DEF HandlerInv, BeforeIngest, Normalizing, Appending, WellPlaced, Judged
  <2>4. Answering(next)'
    BY <1>2, <2>2 DEF HandlerInv, Answering, Judged
  <2>5. Becomes(h, next) /\ collector' = [collector EXCEPT ![h.export] = Queued]
    BY <1>6, <2>1 DEF AnswerLost
  <2> QED
    BY <1>1, <2>2, <2>3, <2>4, <2>5, HandlerTold, HandlerMoves, SenderRequeued
<1> QED
  BY <1>4, <1>5, <1>6

\* An export that is let in begins at the beginning.
LEMMA ArriveKeeps ==
  ASSUME HandlersInv, SendersInv, role \in Roles, NEW x \in DOMAIN collector, Arrive(x)
  PROVE  HandlersInv' /\ SendersInv' /\ DOMAIN collector' = DOMAIN collector /\ NoneHears
<1>1. /\ accepting /\ UNCHANGED <<role, journal>> /\ JournalGrows
      /\ Cardinality(handlers) < MaxInFlight /\ IsFiniteSet(handlers)
      /\ handlers' = handlers \cup {NewHandler(x)}
      /\ collector' = [collector EXCEPT ![x] = Waiting]
  BY DEF Arrive, JournalGrows, HandlersInv
<1>2. x \in Exports
  BY Config DEF SendersInv
<1>3. PICK new : new = NewHandler(x)
  OBVIOUS
<1>4. /\ new \in Handlers /\ new.stage = "ingest" /\ new.taken = {}
      /\ new.rejected = {} /\ new.shed = {}
  BY <1>2, <1>3 DEF NewHandler, Handlers
<1>5. HandlerInv(new)'
  BY <1>4, HandlerTold DEF BeforeIngest, Normalizing, Appending, Answering
<1>6. \A g \in handlers' : g \in Handlers /\ HandlerInv(g)'
  BY <1>1, <1>3, <1>4, <1>5, HandlerStays DEF HandlersInv
<1>7. PICK n \in Nat : n = Cardinality(handlers)
  BY <1>1, FS_CardinalityType
<1>8. IsFiniteSet(handlers') /\ Cardinality(handlers') \in {n, n + 1}
  BY <1>1, <1>7, FS_AddElement, Zenon
<1>9. Cardinality(handlers') <= MaxInFlight
  BY <1>1, <1>7, <1>8, Config
<1> QED
  BY <1>1, <1>6, <1>8, <1>9, SenderRequeued DEF HandlersInv

\* A forced stop closes every connection.
LEMMA CutKeeps ==
  ASSUME HandlersInv, SendersInv, CutConnections
  PROVE  /\ HandlersInv' /\ NoneConnects
         /\ SendersInv' /\ DOMAIN collector' = DOMAIN collector /\ NoneHears
<1>1. /\ UNCHANGED <<role, journal>> /\ JournalGrows
      /\ handlers' = {[h EXCEPT !.connected = FALSE] : h \in handlers}
      /\ handlers \subseteq Handlers /\ IsFiniteSet(handlers)
      /\ Cardinality(handlers) <= MaxInFlight
  BY DEF CutConnections, JournalGrows, HandlersInv
<1>2. \A g \in handlers' : g \in Handlers /\ g.connected = FALSE /\ HandlerInv(g)'
  <2> SUFFICES ASSUME NEW g \in handlers'
               PROVE  g \in Handlers /\ g.connected = FALSE /\ HandlerInv(g)'
    OBVIOUS
  <2>1. PICK h \in handlers : g = [h EXCEPT !.connected = FALSE]
    BY <1>1
  <2>2. h \in Handlers /\ HandlerInv(h) /\ HandlerInv(h)'
    BY <1>1, HandlerStays DEF HandlersInv
  <2>3. /\ g \in Handlers /\ g.connected = FALSE /\ g.stage = h.stage
        /\ g.answer = h.answer /\ g.export = h.export /\ g.at = h.at
        /\ g.taken = h.taken /\ g.rejected = h.rejected /\ g.shed = h.shed
    BY <2>1, <2>2 DEF Handlers
  <2>4. BeforeIngest(g) /\ Normalizing(g) /\ Appending(g)
    BY <2>2, <2>3 DEF HandlerInv, BeforeIngest, Normalizing, Appending, WellPlaced, Judged
  <2>5. Answering(g)'
    BY <2>2, <2>3 DEF HandlerInv, Answering, Judged
  <2> QED
    BY <2>3, <2>4, <2>5, HandlerTold
<1>3. PICK f : f = [h \in handlers |-> [h EXCEPT !.connected = FALSE]]
  OBVIOUS
<1>4. handlers' = {f[h] : h \in handlers}
  BY <1>1, <1>3
<1>5. f \in Surjection(handlers, handlers')
  BY <1>3, <1>4 DEF Surjection
<1>6. IsFiniteSet(handlers') /\ Cardinality(handlers') <= Cardinality(handlers)
  BY <1>1, <1>5, FS_Surjection
<1>7. Cardinality(handlers') \in Nat /\ Cardinality(handlers) \in Nat
  BY <1>1, <1>6, FS_CardinalityType
<1>8. HandlersInv' /\ NoneConnects
  BY <1>1, <1>2, <1>6, <1>7, Config DEF HandlersInv, NoneConnects
<1>9. collector' = [x \in DOMAIN collector |->
                      IF collector[x].state = "waiting" THEN Queued ELSE collector[x]]
  BY DEF CutConnections
<1> QED
  BY <1>1, <1>8, <1>9, SendersCut

-----------------------------------------------------------------------------
(* The steps.                                                              *)

\* What Drain found persisted stays so, and nothing is acknowledged after it:
\* no connection is left, and no poll cycle that may still commit.
LEMMA DrainedStays ==
  ASSUME SendersInv, DrainOrder, PolledKept, DrainedHoldsNothing,
         JournalGrows, NoneHears, DOMAIN collector' = DOMAIN collector,
         drain' = "drained" => drain = "drained" /\ (checkpointed' => checkpointed)
  PROVE  DrainedHoldsNothing'
<1> SUFFICES ASSUME drain' = "drained" PROVE DrainedHoldsNothing'
  BY DEF DrainedHoldsNothing
<1>1. drain = "drained" /\ (checkpointed' => checkpointed)
  OBVIOUS
<1>2. \A h \in handlers : ~h.connected
  BY <1>1 DEF DrainOrder
<1>3. ASSUME NEW x \in DOMAIN collector', collector'[x].state = "acked",
             NEW i \in DOMAIN Wire[x] \ collector'[x].reported
      PROVE  i \in collector'[x].shed \/ journal'[IDs[x][i]].state = "finished"
  <2>1. x \in DOMAIN collector /\ collector'[x] = collector[x]
    BY <1>2, <1>3 DEF NoneHears
  <2>2. i \in collector[x].shed \/ (Kept(x, i) /\ journal[IDs[x][i]].state = "finished")
    BY <1>1, <1>3, <2>1 DEF DrainedHoldsNothing, SendersInv, SenderInv
  <2> QED
    BY <2>1, <2>2 DEF JournalGrows, Kept
<1>4. checkpointed' => journal'[Polled].state = "finished"
  BY <1>1 DEF DrainedHoldsNothing, PolledKept, JournalGrows
<1> QED
  BY <1>3, <1>4 DEF DrainedHoldsNothing

\* A fault is counted.
LEMMA FaultsCounted ==
  ASSUME Modes, Fault \/ NoFault
  PROVE  faults' \in 0..MaxFaults
BY Config DEF Modes, Fault, NoFault

\* A step of the receiver, its handlers or the cache.
LEMMA IntakeStep ==
  ASSUME IInv, UNCHANGED <<role, open, lifecycle, loops>>, Fault \/ NoFault,
         CacheInv', HandlersInv', SendersInv', JournalInv', JournalGrows,
         drain # "none" => NoneConnects,
         DOMAIN collector' = DOMAIN collector, NoneHears
  PROVE  IInv'
<1>1. Modes /\ SendersInv /\ DrainOrder /\ PolledKept /\ DrainedHoldsNothing
  BY DEF IInv
<1>2. /\ role' = role /\ open' = open /\ server' = server /\ drain' = drain
      /\ accepting' = accepting /\ spent' = spent /\ cancelled' = cancelled
      /\ worker' = worker /\ poller' = poller /\ lock' = lock /\ hung' = hung
      /\ checkpointed' = checkpointed
  BY DEF lifecycle, loops
<1>3. Modes'
  BY <1>1, <1>2, FaultsCounted DEF Modes
<1>4. DrainOrder'
  BY <1>1, <1>2 DEF DrainOrder, NoneConnects
<1>5. PolledKept'
  BY <1>1, <1>2 DEF PolledKept, JournalGrows
<1>6. DrainedHoldsNothing'
  BY <1>1, <1>2, DrainedStays
<1> QED
  BY <1>3, <1>4, <1>5, <1>6 DEF IInv

\* An export arrives.
LEMMA ArriveStep ==
  ASSUME IInv, NEW x \in DOMAIN collector, Arrive(x)
  PROVE  IInv'
<1>1. /\ CacheInv /\ HandlersInv /\ SendersInv /\ JournalInv /\ Modes /\ DrainOrder
      /\ UNCHANGED <<role, open, lifecycle, loops>> /\ NoFault
      /\ UNCHANGED cacheVars /\ UNCHANGED journal /\ accepting
  BY DEF IInv, Arrive
<1>2. HandlersInv' /\ SendersInv' /\ DOMAIN collector' = DOMAIN collector /\ NoneHears
  BY <1>1, ArriveKeeps DEF Modes
<1>3. CacheInv'
  BY <1>1, CacheFrame DEF cacheVars, CacheInv, CacheTyped
<1>4. JournalInv' /\ JournalGrows
  BY <1>1 DEF JournalInv, JournalGrows
<1>5. drain = "none"
  BY <1>1 DEF DrainOrder
<1> QED
  BY <1>1, <1>2, <1>3, <1>4, <1>5, IntakeStep

\* A handler normalizes, or only moves on.
LEMMA NormalizeStep ==
  ASSUME IInv, NEW h \in handlers, Normalize(h)
  PROVE  IInv'
<1>1. /\ CacheInv /\ HandlersInv /\ SendersInv /\ JournalInv
      /\ UNCHANGED <<role, open, lifecycle, loops>> /\ NoFault
      /\ UNCHANGED collector /\ UNCHANGED journal
  BY DEF IInv, Normalize
<1>2. HandlersInv' /\ NoneConnects
  BY <1>1, NormalizeKeeps
<1>3. CacheInv'
  <2>1. PICK v : v = Decoded[h.export].request[h.at]
    OBVIOUS
  <2>2. CASE Consults(v)
    <3>1. PICK s : s = ServiceOf(v.resource).name
      OBVIOUS
    <3>2. PermitsClaims(v.resource)
      BY <2>2 DEF Consults, Refusal
    <3>3. s \in AllowedServices
      BY <2>2, <3>1, <3>2 DEF Consults, PermitsClaims, ServiceOf
    <3>4. Lookup(s)
      BY <2>1, <2>2, <3>1 DEF Normalize
    <3> QED
      BY <1>1, <3>3, <3>4, Config, LookupKeeps
  <2>3. CASE ~Consults(v)
    <3>1. UNCHANGED cacheVars
      BY <2>1, <2>3 DEF Normalize
    <3> QED
      BY <1>1, <3>1, CacheFrame DEF cacheVars, CacheInv, CacheTyped
  <2> QED
    BY <2>2, <2>3
<1>4. JournalInv' /\ JournalGrows /\ role' = role
  BY <1>1 DEF JournalInv, JournalGrows
<1> QED
  BY <1>1, <1>2, <1>3, <1>4, SendersFrame, IntakeStep

\* The other steps of a handler leave the cache alone.
LEMMA HandlerStepKeeps ==
  ASSUME IInv, HandlerStep
  PROVE  IInv'
<1>1. CacheInv /\ HandlersInv /\ SendersInv /\ JournalInv
  BY DEF IInv
<1>2. PICK h \in handlers :
        BeginIngest(h) \/ Normalize(h) \/ Judge(h) \/ AppendToJournal(h) \/ Respond(h)
  BY DEF HandlerStep
<1>3. UNCHANGED cacheVars => CacheInv'
  BY <1>1, CacheFrame DEF cacheVars, CacheInv, CacheTyped
<1>4. UNCHANGED journal => JournalInv' /\ JournalGrows
  BY <1>1 DEF JournalInv, JournalGrows
<1>5. CASE BeginIngest(h)
  <2>1. /\ UNCHANGED <<role, open, lifecycle, loops>> /\ NoFault /\ role' = role
        /\ UNCHANGED cacheVars /\ UNCHANGED journal /\ UNCHANGED collector
    BY <1>5 DEF BeginIngest
  <2> QED
    BY <1>1, <1>3, <1>4, <1>5, <2>1, BeginIngestKeeps, SendersFrame, IntakeStep
<1>6. CASE Normalize(h)
  BY <1>6, NormalizeStep
<1>7. CASE Judge(h)
  <2>1. /\ UNCHANGED <<role, open, lifecycle, loops>> /\ NoFault /\ role' = role
        /\ UNCHANGED cacheVars /\ UNCHANGED journal /\ UNCHANGED collector
    BY <1>7 DEF Judge
  <2> QED
    BY <1>1, <1>3, <1>4, <1>7, <2>1, JudgeKeeps, SendersFrame, IntakeStep
<1>8. CASE AppendToJournal(h)
  <2>1. /\ UNCHANGED <<role, open, lifecycle, loops>> /\ NoFault /\ role' = role
        /\ UNCHANGED cacheVars /\ UNCHANGED collector
    BY <1>8 DEF AppendToJournal
  <2> QED
    BY <1>1, <1>3, <1>8, <2>1, AppendKeeps, SendersFrame, IntakeStep
<1>9. CASE Respond(h)
  <2>1. /\ UNCHANGED <<role, open, lifecycle, loops>> /\ NoFault
        /\ UNCHANGED cacheVars /\ UNCHANGED journal
    BY <1>9 DEF Respond
  <2> QED
    BY <1>1, <1>3, <1>4, <1>9, <2>1, RespondKeeps, IntakeStep
<1> QED
  BY <1>2, <1>5, <1>6, <1>7, <1>8, <1>9

\* Faults of a handler, and the forced stop.
LEMMA HandlerFaultStep ==
  ASSUME IInv,
         \/ \E h \in handlers : AppendFails(h) \/ Panic(h) \/ AnswerLost(h)
         \/ CutConnections
  PROVE  IInv'
<1>1. CacheInv /\ HandlersInv /\ SendersInv /\ JournalInv
  BY DEF IInv
<1>2. /\ UNCHANGED <<role, open, lifecycle, loops>> /\ (Fault \/ NoFault)
      /\ UNCHANGED cacheVars /\ UNCHANGED journal
  BY DEF AppendFails, Panic, AnswerLost, CutConnections
<1>3. /\ HandlersInv' /\ NoneConnects
      /\ SendersInv' /\ DOMAIN collector' = DOMAIN collector /\ NoneHears
  BY <1>1, HandlerFaultKeeps, CutKeeps
<1>4. CacheInv'
  BY <1>1, <1>2, CacheFrame DEF cacheVars, CacheInv, CacheTyped
<1>5. JournalInv' /\ JournalGrows
  BY <1>1, <1>2 DEF JournalInv, JournalGrows
<1> QED
  BY <1>2, <1>3, <1>4, <1>5, IntakeStep

\* The cache, beside everything else.
LEMMA CacheStepStep ==
  ASSUME IInv, CacheStep \/ CacheFaults \/ CacheAges
  PROVE  IInv'
<1>1. CacheInv /\ HandlersInv /\ SendersInv /\ JournalInv
  BY DEF IInv
<1>2. /\ UNCHANGED <<role, open, lifecycle, loops>> /\ (Fault \/ NoFault)
      /\ UNCHANGED ingress /\ UNCHANGED journal
  BY DEF CacheStep, CacheFaults, CacheAges
<1>3. PICK s \in Services :
        StartCall(s) \/ ProviderAnswers(s) \/ ProviderFails(s) \/ GiveUpCall(s) \/ Ages(s)
  BY DEF CacheStep, CacheFaults, CacheAges
<1>4. CacheInv'
  BY <1>1, <1>3, CacheStepKeeps
<1>5. JournalInv' /\ JournalGrows /\ role' = role
  BY <1>1, <1>2 DEF JournalInv, JournalGrows
<1>6. UNCHANGED handlers /\ UNCHANGED collector
  BY <1>2 DEF ingress
<1> QED
  BY <1>1, <1>2, <1>4, <1>5, <1>6, HandlersFrame, SendersFrame, IntakeStep

\* A step of the loops, of Drain or of Shutdown leaves the receiver alone.
LEMMA LoopStep ==
  ASSUME IInv, role' = role, UNCHANGED ingress,
         UNCHANGED <<entries, earlier, calls>>, closed' \in BOOLEAN,
         JournalInv', JournalGrows, Modes', DrainOrder', PolledKept',
         drain' = "drained" => \/ drain = "drained" /\ (checkpointed' => checkpointed)
                               \/ DrainedHoldsNothing'
  PROVE  IInv'
<1>1. /\ CacheInv /\ HandlersInv /\ SendersInv /\ DrainOrder /\ PolledKept
      /\ DrainedHoldsNothing
  BY DEF IInv
<1>2. UNCHANGED handlers /\ UNCHANGED collector
  BY DEF ingress
<1>3. CacheInv'
  BY <1>1, CacheFrame
<1>4. HandlersInv'
  BY <1>1, <1>2, HandlersFrame
<1>5. SendersInv' /\ DOMAIN collector' = DOMAIN collector /\ NoneHears
  BY <1>1, <1>2, SendersFrame
<1>6. DrainedHoldsNothing'
  <2>1. CASE drain' = "drained" => drain = "drained" /\ (checkpointed' => checkpointed)
    BY <1>1, <1>5, <2>1, DrainedStays
  <2> QED
    BY <2>1
<1> QED
  BY <1>3, <1>4, <1>5, <1>6 DEF IInv

\* The journal, and the cache, stay as they are.
LEMMA RestStays ==
  ASSUME IInv
  PROVE  /\ UNCHANGED journal => JournalInv' /\ JournalGrows
         /\ UNCHANGED cacheVars => /\ UNCHANGED <<entries, earlier, calls>>
                                   /\ closed' \in BOOLEAN
BY DEF IInv, JournalInv, JournalGrows, cacheVars, CacheInv, CacheTyped

\* A loop begins or ends, or stands still.
LEMMA QuietStep ==
  ASSUME IInv,
         \/ WorkerBegins \/ WorkerStops \/ QueryHangs
         \/ PollReads \/ PollerStops \/ BudgetSpent
  PROVE  IInv'
<1>1. Modes /\ DrainOrder /\ PolledKept
  BY DEF IInv
<1>2. /\ UNCHANGED <<ingress, cacheVars>> /\ role' = role /\ journal' = journal
      /\ open' = open /\ server' = server /\ drain' = drain /\ accepting' = accepting
      /\ cancelled' = cancelled /\ lock' = lock /\ checkpointed' = checkpointed
      /\ Fault \/ NoFault
  BY DEF WorkerBegins, WorkerStops, QueryHangs, PollReads, PollerStops, BudgetSpent,
         lifecycle, loops
<1>3. /\ worker' \in {"pause", "cycle", "done"} /\ poller' \in {"pause", "append", "commit", "done"}
      /\ hung' \in BOOLEAN /\ spent' \in BOOLEAN
      /\ poller' = "commit" => poller = "commit"
  BY <1>1 DEF WorkerBegins, WorkerStops, QueryHangs, PollReads, PollerStops, BudgetSpent,
              lifecycle, loops, Modes
<1>4. Modes'
  BY <1>1, <1>2, <1>3, FaultsCounted DEF Modes
<1>5. DrainOrder'
  BY <1>1, <1>2 DEF DrainOrder, ingress
<1>6. PolledKept'
  BY <1>1, <1>2, <1>3 DEF PolledKept
<1> QED
  BY <1>2, <1>4, <1>5, <1>6, LoopStep, RestStays

\* Process claims what is pending.
LEMMA ClaimStep ==
  ASSUME IInv, NEW who \in {"worker", "drain"}, ClaimPending(who)
  PROVE  IInv'
<1>1. JournalInv /\ Modes /\ DrainOrder /\ PolledKept
  BY DEF IInv
<1>2. /\ UNCHANGED <<ingress, cacheVars>> /\ role' = role /\ open' = open
      /\ server' = server /\ drain' = drain /\ accepting' = accepting /\ spent' = spent
      /\ cancelled' = cancelled /\ worker' = worker /\ poller' = poller /\ hung' = hung
      /\ checkpointed' = checkpointed /\ lock' = who /\ NoFault
      /\ who = "drain" => drain = "process"
  BY DEF ClaimPending, lifecycle
<1>3. JournalInv' /\ JournalGrows /\ DOMAIN journal' = DOMAIN journal
  <2>1. CASE open
    <3>1. PICK ids : ids = InStates({"pending"})
      OBVIOUS
    <3>2. journal' = Moved(ids, "claimed")
      BY <2>1, <3>1 DEF ClaimPending
    <3>3. \A i \in DOMAIN journal \cap ids : journal[i].state # "finished"
      BY <3>1 DEF InStates
    <3> QED
      BY <1>1, <3>2, <3>3, MovedKeeps
  <2>2. CASE ~open
    <3>1. UNCHANGED journal
      BY <2>2 DEF ClaimPending
    <3> QED
      BY <3>1, RestStays
  <2> QED
    BY <2>1, <2>2
<1>4. Modes'
  BY <1>1, <1>2, FaultsCounted DEF Modes
<1>5. DrainOrder'
  BY <1>1, <1>2 DEF DrainOrder, ingress
<1>6. PolledKept'
  BY <1>1, <1>2, <1>3 DEF PolledKept
<1> QED
  BY <1>2, <1>3, <1>4, <1>5, <1>6, LoopStep, RestStays

\* Process persists some of what it claimed.
LEMMA PersistStep ==
  ASSUME IInv, Persist
  PROVE  IInv'
<1>1. JournalInv /\ Modes /\ DrainOrder /\ PolledKept
  BY DEF IInv
<1>2. /\ UNCHANGED <<ingress, cacheVars>> /\ role' = role /\ open' = open
      /\ server' = server /\ accepting' = accepting /\ spent' = spent
      /\ cancelled' = cancelled /\ poller' = poller /\ hung' = hung
      /\ checkpointed' = checkpointed /\ lock' = "free" /\ NoFault
      /\ worker' = IF lock = "worker" THEN "pause" ELSE worker
      /\ drain' = IF lock = "drain" THEN "stats" ELSE drain
  BY DEF Persist
<1>3. JournalInv' /\ JournalGrows /\ DOMAIN journal' = DOMAIN journal
  <2>1. PICK ids : ids \subseteq InStates({"claimed"}) /\ journal' = Moved(ids, "finished")
    BY DEF Persist
  <2>2. \A i \in DOMAIN journal \cap ids : journal[i].state # "finished"
    BY <2>1 DEF InStates
  <2> QED
    BY <1>1, <2>1, <2>2, MovedKeeps
<1>4. Modes'
  BY <1>1, <1>2, FaultsCounted DEF Modes
<1>5. DrainOrder'
  BY <1>1, <1>2 DEF DrainOrder, ingress
<1>6. PolledKept'
  BY <1>1, <1>2, <1>3 DEF PolledKept
<1>7. drain' = "drained" => drain = "drained"
  BY <1>2
<1> QED
  BY <1>2, <1>3, <1>4, <1>5, <1>6, <1>7, LoopStep, RestStays

\* The poller journals what it read, and only then commits its position; once
\* its context is cancelled the commit is refused.
LEMMA PollStep ==
  ASSUME IInv, PollAppends \/ PollCommits
  PROVE  IInv'
<1>1. JournalInv /\ Modes /\ DrainOrder /\ PolledKept
  BY DEF IInv
<1>2. /\ UNCHANGED <<ingress, cacheVars>> /\ role' = role /\ open' = open
      /\ server' = server /\ drain' = drain /\ accepting' = accepting /\ spent' = spent
      /\ cancelled' = cancelled /\ worker' = worker /\ lock' = lock /\ hung' = hung
      /\ NoFault
  BY DEF PollAppends, PollCommits, lifecycle
<1>3. /\ poller' \in {"pause", "append", "commit", "done"} /\ checkpointed' \in BOOLEAN
      /\ drain' = "drained" => (checkpointed' => checkpointed)
  <2>1. CASE PollAppends
    <3>1. poller' \in {"commit", "pause"} /\ checkpointed' = checkpointed
      BY <2>1 DEF PollAppends
    <3> QED
      BY <1>1, <3>1 DEF Modes
  <2>2. CASE PollCommits
    <3>1. poller' = "pause" /\ checkpointed' = ~cancelled
      BY <2>2 DEF PollCommits
    <3>2. drain = "drained" => cancelled
      BY <1>1 DEF DrainOrder
    <3> QED
      BY <1>1, <1>2, <3>1, <3>2 DEF Modes
  <2> QED
    BY <2>1, <2>2
<1>4. JournalInv' /\ JournalGrows /\ PolledKept'
  <2>1. PICK batch : batch = {[id |-> Polled, content |-> Polled]}
    OBVIOUS
  <2>2. CASE PollAppends /\ open /\ Fits(batch)
    <3>1. journal' = Appended(batch)
      BY <2>1, <2>2 DEF PollAppends
    <3>2. JournalInv' /\ JournalGrows /\ \A a \in batch : a.id \in DOMAIN journal'
      BY <1>1, <3>1, AppendedKeeps
    <3> QED
      BY <2>1, <3>2 DEF PolledKept
  <2>3. CASE PollAppends /\ ~(open /\ Fits(batch))
    <3>1. UNCHANGED journal /\ poller' = "pause" /\ UNCHANGED checkpointed
      BY <2>1, <2>3 DEF PollAppends
    <3> QED
      BY <1>1, <3>1, RestStays DEF PolledKept
  <2>4. CASE PollCommits
    <3>1. UNCHANGED journal /\ poller = "commit"
      BY <2>4 DEF PollCommits
    <3> QED
      BY <1>1, <3>1, RestStays DEF PolledKept
  <2> QED
    BY <2>2, <2>3, <2>4
<1>5. Modes'
  BY <1>1, <1>2, <1>3, FaultsCounted DEF Modes
<1>6. DrainOrder'
  BY <1>1, <1>2 DEF DrainOrder, ingress
<1> QED
  BY <1>2, <1>3, <1>4, <1>5, <1>6, LoopStep, RestStays

\* Drain begins with the receiver, which no longer accepts; a shutdown too.
LEMMA BeginStep ==
  ASSUME IInv, BeginDrain \/ BeginShutdown
  PROVE  IInv'
<1>1. Modes /\ DrainOrder /\ PolledKept
  BY DEF IInv
<1>2. /\ UNCHANGED <<ingress, cacheVars>> /\ role' = role /\ open' = open
      /\ journal' = journal /\ accepting' = FALSE /\ spent' = FALSE
      /\ cancelled' = cancelled /\ worker' = worker /\ poller' = poller /\ lock' = lock
      /\ hung' = hung /\ checkpointed' = checkpointed /\ NoFault
      /\ server' \in {server, "receiver"}
      /\ drain' = drain \/ (drain = "none" /\ drain' = "receiver")
  BY DEF BeginDrain, BeginShutdown, loops
<1>3. Modes'
  <2>1. server' \in {"up", "receiver", "source", "worker", "enrichment", "database",
                      "journal", "down"}
    BY <1>1, <1>2 DEF Modes
  <2>2. drain' \in {"none", "receiver", "source", "stats", "process", "drained", "failed"}
    BY <1>1, <1>2 DEF Modes
  <2>3. /\ faults' = faults /\ role' = role /\ worker' = worker /\ poller' = poller /\ lock' = lock
        /\ open' = open /\ accepting' = FALSE /\ spent' = FALSE /\ hung' = hung
        /\ cancelled' = cancelled /\ checkpointed' = checkpointed
    BY <1>2 DEF NoFault
  <2> QED
    BY <1>1, <2>1, <2>2, <2>3 DEF Modes
<1>4. DrainOrder'
  BY <1>1, <1>2 DEF DrainOrder, ingress
<1>5. PolledKept'
  BY <1>1, <1>2 DEF PolledKept
<1> QED
  BY <1>2, <1>3, <1>4, <1>5, LoopStep, RestStays

\* Drain goes on to its next step, and says drained when nothing is held.
LEMMA DrainStep ==
  ASSUME IInv, DrainAdvances
  PROVE  IInv'
<1>1. SendersInv /\ JournalInv /\ Modes /\ DrainOrder /\ PolledKept
  BY DEF IInv
<1>2. /\ UNCHANGED <<ingress, cacheVars>> /\ role' = role /\ open' = open
      /\ journal' = journal /\ server' = server /\ accepting' = accepting
      /\ spent' = spent /\ worker' = worker /\ poller' = poller /\ lock' = lock
      /\ hung' = hung /\ checkpointed' = checkpointed /\ NoFault
      /\ handlers' = handlers /\ collector' = collector
  BY DEF DrainAdvances, loops, ingress
<1>3. \/ /\ drain = "receiver" /\ drain' = "source" /\ ReceiverStopped
         /\ cancelled' = cancelled
      \/ drain = "source" /\ drain' = "stats" /\ cancelled' = TRUE
      \/ /\ drain = "stats" /\ drain' \in {"drained", "failed", "process"}
         /\ drain' = "drained" => NothingHeld
         /\ cancelled' = cancelled
  BY DEF DrainAdvances
<1>4. Modes'
  <2>1. drain' \in {"source", "stats", "drained", "failed", "process"}
    BY <1>3
  <2>2. cancelled' \in BOOLEAN
    BY <1>1, <1>3 DEF Modes
  <2>3. faults' \in 0..MaxFaults
    BY <1>1, <1>2, FaultsCounted
  <2> QED
    BY <1>1, <1>2, <2>1, <2>2, <2>3 DEF Modes
<1>5. ReceiverStopped => \A h \in handlers : ~h.connected
  BY DEF ReceiverStopped
<1>6. DrainOrder'
  BY <1>1, <1>2, <1>3, <1>5 DEF DrainOrder
<1>7. PolledKept'
  BY <1>1, <1>2 DEF PolledKept
<1>8. ASSUME drain' = "drained"
      PROVE  DrainedHoldsNothing'
  <2>1. \A i \in DOMAIN journal : journal[i].state = "finished"
    BY <1>1, <1>3, <1>8 DEF NothingHeld, InStates, JournalInv
  <2>2. \A x \in DOMAIN collector : collector[x].state = "acked" =>
           \A i \in DOMAIN Wire[x] \ collector[x].reported :
              i \in collector[x].shed \/ journal[IDs[x][i]].state = "finished"
    BY <1>1, <2>1 DEF SendersInv, SenderInv, Kept
  <2>3. checkpointed => journal[Polled].state = "finished"
    BY <1>1, <2>1 DEF PolledKept
  <2> QED
    BY <1>2, <2>2, <2>3 DEF DrainedHoldsNothing
<1> QED
  BY <1>2, <1>4, <1>6, <1>7, <1>8, LoopStep, RestStays

\* Shutdown goes on to its next step.
LEMMA ShutdownStepKeeps ==
  ASSUME IInv, ShutdownStep
  PROVE  IInv'
<1>1. Modes /\ DrainOrder /\ PolledKept
  BY DEF IInv
<1>2. CASE CutConnections
  BY <1>2, HandlerFaultStep
<1>3. CASE \/ StopReceiver \/ StopSource \/ StopWorker
           \/ CloseEnrichment \/ CloseDatabase \/ CloseJournal
  <2>1. /\ UNCHANGED ingress /\ role' = role /\ journal' = journal /\ drain' = drain
        /\ accepting' = accepting /\ spent' = spent /\ NoFault
        /\ worker' = worker /\ poller' = poller /\ lock' = lock
        /\ hung' = hung /\ checkpointed' = checkpointed
    BY <1>3 DEF StopReceiver, StopSource, StopWorker, CloseEnrichment, CloseDatabase,
                CloseJournal, loops
  <2>2. /\ server' \in {"source", "worker", "enrichment", "database", "journal", "down"}
        /\ cancelled' \in BOOLEAN /\ (cancelled => cancelled') /\ open' \in BOOLEAN
    BY <1>1, <1>3 DEF StopReceiver, StopSource, StopWorker, CloseEnrichment,
                      CloseDatabase, CloseJournal, Modes
  <2>3. UNCHANGED <<entries, earlier, calls>> /\ closed' \in BOOLEAN
    <3>1. CASE StopWorker
      BY <3>1 DEF StopWorker
    <3>2. CASE ~StopWorker
      BY <1>3, <3>2, RestStays DEF StopReceiver, StopSource, CloseEnrichment,
                                   CloseDatabase, CloseJournal
    <3> QED
      BY <3>1, <3>2
  <2>4. Modes'
    BY <1>1, <2>1, <2>2, FaultsCounted DEF Modes
  <2>5. DrainOrder'
    BY <1>1, <2>1, <2>2 DEF DrainOrder, ingress
  <2>6. PolledKept'
    BY <1>1, <2>1 DEF PolledKept
  <2> QED
    BY <2>1, <2>3, <2>4, <2>5, <2>6, LoopStep, RestStays
<1> QED
  BY <1>2, <1>3 DEF ShutdownStep

\* A new process begins with the journal and the checkpoint of the last one.
LEMMA RestartStep ==
  ASSUME IInv, Restart \/ Crash
  PROVE  IInv'
<1>1. SendersInv /\ JournalInv /\ Modes /\ PolledKept
  BY DEF IInv
<1>2. Restarted /\ (Fault \/ NoFault)
  BY DEF Restart, Crash
<1>3. /\ handlers' = {} /\ role' = role /\ journal' = journal
      /\ checkpointed' = checkpointed /\ drain' = "none" /\ lock' = "free"
      /\ open' = TRUE /\ server' = "up" /\ accepting' = Listening /\ spent' = FALSE
      /\ cancelled' = FALSE /\ worker' = Started.worker /\ poller' = Started.poller
      /\ hung' = FALSE
  BY <1>2 DEF Restarted
<1>4. CacheInv'
  BY <1>2, CacheEmpty DEF Restarted
<1>5. JournalInv' /\ JournalGrows
  BY <1>3, RestStays
<1>6. SendersInv'
  BY <1>1, <1>2, <1>3, <1>5, SendersCut DEF Restarted
<1>7. HandlersInv'
  BY <1>3, Config, FS_EmptySet DEF HandlersInv
<1>8. /\ Listening \in BOOLEAN /\ Started.worker \in {"pause", "done"}
      /\ Started.poller \in {"pause", "done"}
  BY DEF Listening, Ingests, Started
<1>9. Modes'
  BY <1>1, <1>2, <1>3, <1>8, FaultsCounted DEF Modes
<1>10. DrainOrder' /\ PolledKept' /\ DrainedHoldsNothing'
  BY <1>1, <1>3, <1>8 DEF DrainOrder, PolledKept, DrainedHoldsNothing
<1> QED
  BY <1>4, <1>5, <1>6, <1>7, <1>9, <1>10 DEF IInv

-----------------------------------------------------------------------------
(* The theorems.                                                           *)

\* A replica starts with nothing accepted.
LEMMA ReplicaInit ==
  ASSUME Init
  PROVE  IInv
<1>1. CacheInv
  BY CacheEmpty DEF Init
<1>2. HandlersInv
  BY Config, FS_EmptySet DEF Init, HandlersInv
<1>3. SendersInv
  <2>1. PICK offered \in Offered[role] : collector = [x \in offered |-> Queued]
    BY DEF Init
  <2>2. Queued \in Senders
    BY DEF Queued, Senders
  <2>3. \A x \in DOMAIN collector : SenderInv(x)
    BY <2>1 DEF SenderInv, Queued
  <2> QED
    BY <2>1, <2>2, <2>3 DEF SendersInv
<1>4. JournalInv
  BY DEF Init, JournalInv
<1>5. Modes
  <2>1. /\ Listening \in BOOLEAN /\ Started.worker \in {"pause", "done"}
        /\ Started.poller \in {"pause", "done"} /\ 0 \in 0..MaxFaults
    BY Config DEF Listening, Ingests, Started
  <2> QED
    BY <2>1 DEF Init, Modes
<1>6. DrainOrder /\ PolledKept /\ DrainedHoldsNothing
  BY DEF Init, DrainOrder, PolledKept, DrainedHoldsNothing, Started
<1> QED
  BY <1>1, <1>2, <1>3, <1>4, <1>5, <1>6 DEF IInv

\* Every step of the replica keeps its invariant.
LEMMA ReplicaStep ==
  ASSUME IInv, [Next]_vars
  PROVE  IInv'
<1>1. CASE \E x \in DOMAIN collector : Arrive(x)
  BY <1>1, ArriveStep
<1>2. CASE HandlerStep
  BY <1>2, HandlerStepKeeps
<1>3. CASE \E h \in handlers : AppendFails(h) \/ Panic(h) \/ AnswerLost(h)
  BY <1>3, HandlerFaultStep
<1>4. CASE CacheStep \/ CacheFaults \/ CacheAges
  BY <1>4, CacheStepStep
<1>5. CASE \/ WorkerBegins \/ WorkerStops \/ QueryHangs
           \/ PollReads \/ PollerStops \/ BudgetSpent
  BY <1>5, QuietStep
<1>6. CASE Persist
  BY <1>6, PersistStep
<1>7. CASE \E who \in {"worker", "drain"} : ClaimPending(who)
  BY <1>7, ClaimStep
<1>8. CASE PollAppends \/ PollCommits
  BY <1>8, PollStep
<1>9. CASE BeginDrain \/ BeginShutdown
  BY <1>9, BeginStep
<1>10. CASE DrainAdvances
  BY <1>10, DrainStep
<1>11. CASE ShutdownStep
  BY <1>11, ShutdownStepKeeps
<1>12. CASE Restart \/ Crash
  BY <1>12, RestartStep
<1>13. CASE UNCHANGED vars
  <2>1. /\ UNCHANGED <<role, open, lifecycle, loops>> /\ NoFault
        /\ UNCHANGED ingress /\ UNCHANGED journal /\ UNCHANGED cacheVars
    BY <1>13 DEF vars, NoFault
  <2>2. CacheInv /\ HandlersInv /\ SendersInv
    BY DEF IInv
  <2>3. JournalInv' /\ JournalGrows /\ CacheInv'
    BY <2>1, <2>2, RestStays, CacheFrame
  <2>4. UNCHANGED handlers /\ UNCHANGED collector /\ role' = role
    BY <2>1 DEF ingress
  <2> QED
    BY <2>1, <2>2, <2>3, <2>4, HandlersFrame, SendersFrame, IntakeStep
<1> QED
  BY <1>1, <1>2, <1>3, <1>4, <1>5, <1>6, <1>7, <1>8, <1>9, <1>10, <1>11, <1>12, <1>13
     DEF Next

\* What the invariant says of the replica.
LEMMA ReplicaImplies ==
  ASSUME IInv
  PROVE  TypeOK /\ StillBeingAsked /\ AnsweredAsKept /\ DrainedHoldsNothing
<1>1. /\ CacheInv /\ HandlersInv /\ SendersInv /\ JournalInv /\ Modes /\ PolledKept
      /\ DrainedHoldsNothing
  BY DEF IInv
<1>2. TypeOK
  <2>1. EnrichmentTypeOK
    BY <1>1, CacheHasType
  <2>2. \A x \in DOMAIN collector : collector[x].state \in
           {"queued", "waiting", "acked", "inadmissible", "conflicting"}
    BY <1>1 DEF SendersInv, Senders
  <2>3. \A h \in handlers :
          /\ h.stage \in {"ingest", "normalize", "append", "answer"}
          /\ h.answer \in {"none", "ok", "unavailable", "inadmissible", "conflicting"}
    BY <1>1 DEF HandlersInv, Handlers
  <2>4. DOMAIN collector \in Offered[role] /\ Cardinality(handlers) <= MaxInFlight
    BY <1>1 DEF SendersInv, HandlersInv
  <2>5. \A i \in DOMAIN journal : journal[i].state \in {"pending", "claimed", "finished"}
    BY <1>1 DEF JournalInv
  <2> QED
    BY <1>1, <2>1, <2>2, <2>3, <2>4, <2>5 DEF TypeOK, Modes
<1>3. AnsweredAsKept
  BY <1>1 DEF AnsweredAsKept, SendersInv, SenderInv, PolledKept
<1> QED
  BY <1>1, <1>2, <1>3 DEF CacheInv

\* The invariant of one replica holds for any exports, configuration and
\* number of faults: handlers (pipeline.go Ingest), cache (enrich.go), Drain
\* and Shutdown (runtime.go) together keep it.
THEOREM ReplicaInvariant == Spec => []IInv
<1>1. Init => IInv
  BY ReplicaInit
<1>2. IInv /\ [Next]_vars => IInv'
  BY ReplicaStep
<1> QED
  BY <1>1, <1>2, PTL DEF Spec

\* Every variable of a replica keeps its type, the deployment cache stays
\* within its bound, and no more exports are in flight than the receiver admits.
THEOREM ReplicaTypeCorrect == Spec => []TypeOK
<1>1. IInv => TypeOK
  BY ReplicaImplies
<1> QED
  BY <1>1, ReplicaInvariant, PTL

\* An entry of the cache that is marked as being asked about has a provider
\* call that will come back to it, through evictions, failures and Close.
THEOREM EntriesAreAsked == Spec => []StillBeingAsked
<1>1. IInv => StillBeingAsked
  BY ReplicaImplies
<1> QED
  BY <1>1, ReplicaInvariant, PTL

\* Every sender was told, position by position of its export, what became of
\* its records, and a source position is checkpointed for journaled records only.
THEOREM SendersAreToldTheTruth == Spec => []AnsweredAsKept
<1>1. IInv => AnsweredAsKept
  BY ReplicaImplies
<1> QED
  BY <1>1, ReplicaInvariant, PTL

\* Drain says drained when everything acknowledged or checkpointed is
\* persisted, and it stays true: the volume may be detached on that word.
THEOREM DrainedMeansEmpty == Spec => []DrainedHoldsNothing
<1>1. IInv => DrainedHoldsNothing
  BY ReplicaImplies
<1> QED
  BY <1>1, ReplicaInvariant, PTL
=============================================================================
