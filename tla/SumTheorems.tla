------------------------------ MODULE SumTheorems -----------------------------
(***************************************************************************)
(* What the sums and the folds of the models are: the bytes of a journal's *)
(* records and the provider calls of a cache's services; the inputs of a   *)
(* transaction, the records of an episode, the lines of a script's output. *)
(* The library defines both by recursion over the sets left to go through; *)
(* each fact here is proved for a smallest set, or a least number, that    *)
(* would lack it.                                                          *)
(***************************************************************************)
EXTENDS Integers, FiniteSets, FiniteSetsExt, Functions, FiniteSetTheorems,
        WellFoundedInduction, TLAPS

\* A set of natural numbers has a least one: what every induction rests on.
LEMMA NatLeast ==
  ASSUME NEW S, S \subseteq Nat, S # {}
  PROVE  \E n \in S : \A m \in S : n <= m
<1>1. IsWellFoundedOn(OpToRel(<, Nat), Nat)
  BY NatLessThanWellFounded
<1>2. PICK n \in S : \A m \in S : ~(<<m, n>> \in OpToRel(<, Nat))
  BY <1>1, WFMin
<1>3. \A m \in S : m < n => <<m, n>> \in OpToRel(<, Nat)
  BY DEF OpToRel
<1>4. \A m \in S : ~(m < n)
  BY <1>2, <1>3
<1> QED
  BY <1>4

\* A collection of finite sets that is not empty has a smallest member.
LEMMA SmallestSet ==
  ASSUME NEW F, F # {}, \A T \in F : IsFiniteSet(T)
  PROVE  \E T \in F : \A U \in F : Cardinality(T) <= Cardinality(U)
<1>1. \A T \in F : Cardinality(T) \in Nat
  BY FS_CardinalityType
<1>2. PICK n \in {Cardinality(T) : T \in F} : \A m \in {Cardinality(T) : T \in F} : n <= m
  BY <1>1, NatLeast
<1>3. PICK T \in F : n = Cardinality(T)
  BY <1>2
<1> QED
  BY <1>2, <1>3

-----------------------------------------------------------------------------
(* The function a sum is read from.                                        *)

Chosen(s) == CHOOSE x \in s : TRUE
IsSum(g, f, S) ==
  g = [s \in SUBSET S |-> IF s = {} THEN 0 ELSE f[Chosen(s)] + g[s \ {Chosen(s)}]]

\* The sum of Functions, with its definitions expanded.
LEMMA SumIs ==
  ASSUME NEW f, NEW S
  PROVE  SumFunctionOnSet(f, S) = (CHOOSE g : IsSum(g, f, S))[S]
BY DEF SumFunctionOnSet, FoldFunctionOnSet, MapThenFoldSet, IsSum, Chosen

\* The element to add next is in the set, and what is left is smaller.
LEMMA ChosenLeaves ==
  ASSUME NEW s, IsFiniteSet(s), s # {}
  PROVE  /\ Chosen(s) \in s /\ IsFiniteSet(s \ {Chosen(s)})
         /\ Cardinality(s) \in Nat \ {0}
         /\ Cardinality(s \ {Chosen(s)}) = Cardinality(s) - 1
<1>1. Chosen(s) \in s
  BY DEF Chosen
<1>2. Cardinality(s) \in Nat /\ Cardinality(s) # 0
  BY FS_CardinalityType, FS_EmptySet
<1> QED
  BY <1>1, <1>2, FS_RemoveElement

\* Without one of its members a set is smaller.
LEMMA Smaller ==
  ASSUME NEW s, IsFiniteSet(s), NEW x \in s
  PROVE  ~(Cardinality(s) <= Cardinality(s \ {x}))
<1>1. Cardinality(s) \in Nat
  BY FS_CardinalityType
<1>2. Cardinality(s \ {x}) = Cardinality(s) - 1
  BY FS_RemoveElement
<1> QED
  BY <1>1, <1>2

\* The recursion has a solution, built up from the smaller sets.
LEMMA SumExists ==
  ASSUME NEW S, IsFiniteSet(S), NEW f
  PROVE  \E g : IsSum(g, f, S)
<1> DEFINE Below(n) == {s \in SUBSET S : Cardinality(s) <= n}
           Upto(g, n) ==
             g = [s \in Below(n) |-> IF s = {} THEN 0 ELSE f[Chosen(s)] + g[s \ {Chosen(s)}]]
           Bad == {n \in Nat : \A g : ~Upto(g, n)}
<1>1. \A s \in SUBSET S : IsFiniteSet(s) /\ Cardinality(s) \in Nat /\ Cardinality(s) <= Cardinality(S)
  BY FS_Subset, FS_CardinalityType
<1>2. \A s \in SUBSET S : s # {} => /\ s \ {Chosen(s)} \in SUBSET S
                                    /\ Cardinality(s \ {Chosen(s)}) = Cardinality(s) - 1
  BY <1>1, ChosenLeaves
<1>3. Bad = {}
  <2> SUFFICES ASSUME Bad # {} PROVE FALSE
    OBVIOUS
  <2>1. PICK n \in Bad : \A m \in Bad : n <= m
    BY NatLeast
  <2>2. CASE n = 0
    <3>1. \A s \in Below(0) : s = {}
      BY <1>1, FS_EmptySet
    <3>2. Upto([s \in Below(0) |-> 0], 0)
      BY <3>1
    <3> QED
      BY <2>1, <2>2, <3>2
  <2>3. CASE n # 0
    <3>1. PICK g : Upto(g, n - 1)
      <4>1. n \in Nat /\ n - 1 \in Nat /\ ~(n <= n - 1)
        BY <2>1, <2>3
      <4>2. n - 1 \notin Bad
        BY <2>1, <4>1
      <4> HIDE DEF Upto
      <4> QED
        BY <4>1, <4>2
    <3>2. PICK h : h = [s \in Below(n) |->
                          IF s = {} THEN 0 ELSE f[Chosen(s)] + g[s \ {Chosen(s)}]]
      OBVIOUS
    <3>3. \A s \in Below(n - 1) : s \in Below(n) /\ h[s] = g[s]
      <4> SUFFICES ASSUME NEW s \in Below(n - 1) PROVE s \in Below(n) /\ h[s] = g[s]
        OBVIOUS
      <4>1. s \in Below(n)
        BY <1>1, <2>1
      <4> QED
        BY <3>1, <3>2, <4>1
    <3>4. \A s \in Below(n) : s # {} => s \ {Chosen(s)} \in Below(n - 1)
      BY <1>1, <1>2, <2>1, <2>3
    <3>5. Upto(h, n)
      BY <3>2, <3>3, <3>4
    <3> QED
      BY <2>1, <3>5
  <2> QED
    BY <2>2, <2>3
<1>4. PICK g : Upto(g, Cardinality(S))
  <2>1. Cardinality(S) \in Nat /\ Cardinality(S) \notin Bad
    BY <1>1, <1>3
  <2> HIDE DEF Upto
  <2> QED
    BY <2>1
<1>5. Below(Cardinality(S)) = SUBSET S
  BY <1>1
<1> QED
  BY <1>4, <1>5 DEF IsSum

\* Two solutions agree wherever both are defined.
LEMMA SumUnique ==
  ASSUME NEW S, IsFiniteSet(S), NEW T, T \subseteq S, NEW f, NEW g, NEW h,
         IsSum(g, f, S), IsSum(h, f, T)
  PROVE  g[T] = h[T]
<1> DEFINE Bad == {s \in SUBSET T : g[s] # h[s]}
<1>1. \A s \in SUBSET T : IsFiniteSet(s)
  BY FS_Subset
<1>2. Bad = {}
  <2> SUFFICES ASSUME Bad # {} PROVE FALSE
    OBVIOUS
  <2>1. PICK s \in Bad : \A u \in Bad : Cardinality(s) <= Cardinality(u)
    BY <1>1, SmallestSet
  <2>2. s \in SUBSET S /\ s \in SUBSET T /\ g[s] # h[s] /\ IsFiniteSet(s)
    BY <1>1, <2>1
  <2>3. s # {}
    BY <2>2 DEF IsSum
  <2>4. /\ g[s] = f[Chosen(s)] + g[s \ {Chosen(s)}]
        /\ h[s] = f[Chosen(s)] + h[s \ {Chosen(s)}]
    BY <2>2, <2>3 DEF IsSum
  <2>5. s \ {Chosen(s)} \in Bad
    BY <2>2, <2>4
  <2>6. Cardinality(s) <= Cardinality(s \ {Chosen(s)})
    BY <2>1, <2>5
  <2> QED
    BY <2>2, <2>3, <2>6, ChosenLeaves
<1> QED
  BY <1>2

-----------------------------------------------------------------------------
(* What a sum does.                                                        *)

\* Nothing adds up to nothing; anything else is one element and the rest.
LEMMA SumStep ==
  ASSUME NEW S, IsFiniteSet(S), NEW f
  PROVE  /\ SumFunctionOnSet(f, {}) = 0
         /\ S # {} => SumFunctionOnSet(f, S)
                        = f[Chosen(S)] + SumFunctionOnSet(f, S \ {Chosen(S)})
<1> DEFINE G(T) == CHOOSE g : IsSum(g, f, T)
<1>1. \A T \in SUBSET S : IsSum(G(T), f, T)
  <2> SUFFICES ASSUME NEW T \in SUBSET S PROVE IsSum(G(T), f, T)
    OBVIOUS
  <2>1. \E g : IsSum(g, f, T)
    BY FS_Subset, SumExists
  <2> QED
    BY <2>1
<1>2. \A T : SumFunctionOnSet(f, T) = G(T)[T]
  BY SumIs
<1> HIDE DEF G
<1>3. SumFunctionOnSet(f, {}) = 0
  BY <1>1, <1>2 DEF IsSum
<1>4. ASSUME S # {}
      PROVE  SumFunctionOnSet(f, S) = f[Chosen(S)] + SumFunctionOnSet(f, S \ {Chosen(S)})
  <2>1. G(S)[S] = f[Chosen(S)] + G(S)[S \ {Chosen(S)}]
    BY <1>1, <1>4 DEF IsSum
  <2>2. G(S)[S \ {Chosen(S)}] = G(S \ {Chosen(S)})[S \ {Chosen(S)}]
    BY <1>1, SumUnique
  <2> QED
    BY <1>2, <2>1, <2>2
<1> QED
  BY <1>3, <1>4

\* Natural numbers add up to one.
LEMMA SumNat ==
  ASSUME NEW S, IsFiniteSet(S), NEW f, \A x \in S : f[x] \in Nat
  PROVE  SumFunctionOnSet(f, S) \in Nat
<1> DEFINE Bad == {T \in SUBSET S : SumFunctionOnSet(f, T) \notin Nat}
<1>1. \A T \in SUBSET S : IsFiniteSet(T)
  BY FS_Subset
<1>2. Bad = {}
  <2> SUFFICES ASSUME Bad # {} PROVE FALSE
    OBVIOUS
  <2>1. PICK T \in Bad : \A u \in Bad : Cardinality(T) <= Cardinality(u)
    BY <1>1, SmallestSet
  <2>2. T \in SUBSET S /\ SumFunctionOnSet(f, T) \notin Nat /\ IsFiniteSet(T)
    BY <1>1, <2>1
  <2>3. T # {}
    <3>1. SumFunctionOnSet(f, {}) = 0
      BY <2>2, SumStep
    <3> QED
      BY <2>2, <3>1
  <2>4. SumFunctionOnSet(f, T) = f[Chosen(T)] + SumFunctionOnSet(f, T \ {Chosen(T)})
    BY <2>2, <2>3, SumStep
  <2>5. Chosen(T) \in T /\ ~(Cardinality(T) <= Cardinality(T \ {Chosen(T)}))
    BY <2>2, <2>3, ChosenLeaves
  <2>6. T \ {Chosen(T)} \notin Bad
    BY <2>1, <2>5
  <2> QED
    BY <2>2, <2>4, <2>5, <2>6
<1> QED
  BY <1>2

\* Any element may be added last.
LEMMA SumSplit ==
  ASSUME NEW S, IsFiniteSet(S), NEW f, \A x \in S : f[x] \in Nat, NEW y \in S
  PROVE  SumFunctionOnSet(f, S) = f[y] + SumFunctionOnSet(f, S \ {y})
<1> DEFINE Bad == {T \in SUBSET S : \E z \in T :
                     SumFunctionOnSet(f, T) # f[z] + SumFunctionOnSet(f, T \ {z})}
<1>1. \A T \in SUBSET S : IsFiniteSet(T) /\ SumFunctionOnSet(f, T) \in Nat
  BY FS_Subset, SumNat
<1>2. Bad = {}
  <2> SUFFICES ASSUME Bad # {} PROVE FALSE
    OBVIOUS
  <2>1. PICK T \in Bad : \A u \in Bad : Cardinality(T) <= Cardinality(u)
    BY <1>1, SmallestSet
  <2>2. PICK z \in T : SumFunctionOnSet(f, T) # f[z] + SumFunctionOnSet(f, T \ {z})
    BY <2>1
  <2>3. T \in SUBSET S /\ IsFiniteSet(T) /\ T # {}
    BY <1>1, <2>1, <2>2
  <2>4. PICK x \in T : x = Chosen(T)
    BY <2>3, ChosenLeaves
  <2>5. SumFunctionOnSet(f, T) = f[x] + SumFunctionOnSet(f, T \ {x})
    BY <2>3, <2>4, SumStep
  <2>6. x # z
    BY <2>2, <2>5
  <2>7. \A v \in T : T \ {v} \notin Bad
    <3> SUFFICES ASSUME NEW v \in T PROVE T \ {v} \notin Bad
      OBVIOUS
    <3>1. ~(Cardinality(T) <= Cardinality(T \ {v}))
      BY <2>3, Smaller
    <3> QED
      BY <2>1, <3>1
  <2>8. SumFunctionOnSet(f, T \ {x}) = f[z] + SumFunctionOnSet(f, (T \ {x}) \ {z})
    BY <2>3, <2>6, <2>7
  <2>9. SumFunctionOnSet(f, T \ {z}) = f[x] + SumFunctionOnSet(f, (T \ {z}) \ {x})
    BY <2>3, <2>6, <2>7
  <2>10. PICK n \in Nat : /\ n = SumFunctionOnSet(f, (T \ {x}) \ {z})
                          /\ n = SumFunctionOnSet(f, (T \ {z}) \ {x})
    <3>1. (T \ {x}) \ {z} = (T \ {z}) \ {x} /\ (T \ {x}) \ {z} \in SUBSET S
      BY <2>3
    <3> QED
      BY <1>1, <3>1
  <2>11. f[x] \in Nat /\ f[z] \in Nat
    BY <2>3
  <2> QED
    BY <2>2, <2>5, <2>8, <2>9, <2>10, <2>11
<1> QED
  BY <1>2

\* No summand is more than the sum.
LEMMA SumMember ==
  ASSUME NEW S, IsFiniteSet(S), NEW f, \A x \in S : f[x] \in Nat, NEW y \in S
  PROVE  f[y] <= SumFunctionOnSet(f, S)
<1>1. IsFiniteSet(S \ {y}) /\ SumFunctionOnSet(f, S \ {y}) \in Nat
  BY FS_Subset, SumNat
<1>2. SumFunctionOnSet(f, S) = f[y] + SumFunctionOnSet(f, S \ {y})
  BY SumSplit
<1> QED
  BY <1>1, <1>2

\* Smaller summands, smaller sum.
LEMMA SumMonotone ==
  ASSUME NEW S, IsFiniteSet(S), NEW f, NEW g,
         \A x \in S : f[x] \in Nat /\ g[x] \in Nat /\ f[x] <= g[x]
  PROVE  SumFunctionOnSet(f, S) <= SumFunctionOnSet(g, S)
<1> DEFINE Bad == {T \in SUBSET S : ~(SumFunctionOnSet(f, T) <= SumFunctionOnSet(g, T))}
<1>1. \A T \in SUBSET S : /\ IsFiniteSet(T) /\ SumFunctionOnSet(f, T) \in Nat
                          /\ SumFunctionOnSet(g, T) \in Nat
  BY FS_Subset, SumNat
<1>2. Bad = {}
  <2> SUFFICES ASSUME Bad # {} PROVE FALSE
    OBVIOUS
  <2>1. PICK T \in Bad : \A u \in Bad : Cardinality(T) <= Cardinality(u)
    BY <1>1, SmallestSet
  <2>2. T \in SUBSET S /\ IsFiniteSet(T) /\ ~(SumFunctionOnSet(f, T) <= SumFunctionOnSet(g, T))
    BY <1>1, <2>1
  <2>3. T # {}
    <3>1. SumFunctionOnSet(f, {}) = 0 /\ SumFunctionOnSet(g, {}) = 0
      BY <2>2, SumStep
    <3> QED
      BY <2>2, <3>1
  <2>4. PICK x \in T : /\ x = Chosen(T)
                       /\ ~(Cardinality(T) <= Cardinality(T \ {x}))
    <3>1. Chosen(T) \in T
      BY <2>2, <2>3, ChosenLeaves
    <3> QED
      BY <2>2, <3>1, Smaller
  <2>5. /\ SumFunctionOnSet(f, T) = f[x] + SumFunctionOnSet(f, T \ {x})
        /\ SumFunctionOnSet(g, T) = g[x] + SumFunctionOnSet(g, T \ {x})
    BY <2>2, <2>3, <2>4, SumStep
  <2>6. SumFunctionOnSet(f, T \ {x}) <= SumFunctionOnSet(g, T \ {x})
    BY <2>1, <2>2, <2>4
  <2>7. SumFunctionOnSet(f, T \ {x}) \in Nat /\ SumFunctionOnSet(g, T \ {x}) \in Nat
    BY <1>1, <2>2
  <2> QED
    BY <2>2, <2>5, <2>6, <2>7
<1> QED
  BY <1>2

\* Equal summands, equal sum.
LEMMA SumEqual ==
  ASSUME NEW S, IsFiniteSet(S), NEW f, NEW g, \A x \in S : f[x] \in Nat /\ g[x] = f[x]
  PROVE  SumFunctionOnSet(g, S) = SumFunctionOnSet(f, S)
<1>1. \A x \in S : f[x] \in Nat /\ g[x] \in Nat /\ f[x] <= g[x] /\ g[x] <= f[x]
  OBVIOUS
<1>2. SumFunctionOnSet(f, S) \in Nat /\ SumFunctionOnSet(g, S) \in Nat
  BY <1>1, SumNat
<1>3. /\ SumFunctionOnSet(f, S) <= SumFunctionOnSet(g, S)
      /\ SumFunctionOnSet(g, S) <= SumFunctionOnSet(f, S)
  BY <1>1, SumMonotone
<1> QED
  BY <1>2, <1>3

\* The sum over a set is the sum over a part of it and the sum over the rest.
LEMMA SumParts ==
  ASSUME NEW S, IsFiniteSet(S), NEW f, \A x \in S : f[x] \in Nat, NEW P \in SUBSET S
  PROVE  SumFunctionOnSet(f, S) = SumFunctionOnSet(f, P) + SumFunctionOnSet(f, S \ P)
<1> DEFINE Bad == {T \in SUBSET S : SumFunctionOnSet(f, S)
                     # SumFunctionOnSet(f, T) + SumFunctionOnSet(f, S \ T)}
<1>1. \A T \in SUBSET S : IsFiniteSet(T) /\ SumFunctionOnSet(f, T) \in Nat
  BY FS_Subset, SumNat
<1>2. Bad = {}
  <2> SUFFICES ASSUME Bad # {} PROVE FALSE
    OBVIOUS
  <2>1. PICK T \in Bad : \A u \in Bad : Cardinality(T) <= Cardinality(u)
    BY <1>1, SmallestSet
  <2>2. /\ T \in SUBSET S /\ IsFiniteSet(T)
        /\ SumFunctionOnSet(f, S) # SumFunctionOnSet(f, T) + SumFunctionOnSet(f, S \ T)
    BY <1>1, <2>1
  <2>3. T # {}
    <3>1. SumFunctionOnSet(f, {}) = 0 /\ S \ {} = S /\ SumFunctionOnSet(f, S) \in Nat
      BY <1>1, SumStep
    <3> QED
      BY <2>2, <3>1
  <2>4. PICK x \in T : x = Chosen(T) /\ ~(Cardinality(T) <= Cardinality(T \ {x}))
    <3>1. Chosen(T) \in T
      BY <2>2, <2>3, ChosenLeaves
    <3> QED
      BY <2>2, <3>1, Smaller
  <2>5. T \ {x} \in SUBSET S /\ S \ (T \ {x}) \in SUBSET S /\ S \ T \in SUBSET S
    BY <2>2
  <2>6. SumFunctionOnSet(f, S) = SumFunctionOnSet(f, T \ {x}) + SumFunctionOnSet(f, S \ (T \ {x}))
    BY <2>1, <2>4, <2>5
  <2>7. SumFunctionOnSet(f, T) = f[x] + SumFunctionOnSet(f, T \ {x})
    BY <2>2, <2>3, <2>4, SumStep
  <2>8. SumFunctionOnSet(f, S \ (T \ {x})) = f[x] + SumFunctionOnSet(f, S \ T)
    <3>1. PICK U : U = S \ (T \ {x})
      OBVIOUS
    <3>2. IsFiniteSet(U) /\ x \in U /\ U \ {x} = S \ T /\ \A y \in U : f[y] \in Nat
      BY <1>1, <2>2, <2>5, <3>1
    <3>3. SumFunctionOnSet(f, U) = f[x] + SumFunctionOnSet(f, U \ {x})
      BY <3>2, SumSplit
    <3> QED
      BY <3>1, <3>2, <3>3
  <2>9. /\ f[x] \in Nat /\ SumFunctionOnSet(f, T \ {x}) \in Nat
        /\ SumFunctionOnSet(f, S \ T) \in Nat
    BY <1>1, <2>2, <2>5
  <2> QED
    BY <2>2, <2>6, <2>7, <2>8, <2>9
<1> QED
  BY <1>2

\* A sum follows a change of its summands by the part that changed.
LEMMA SumChange ==
  ASSUME NEW S, IsFiniteSet(S), NEW f, NEW g, \A x \in S : f[x] \in Nat /\ g[x] \in Nat,
         NEW P \in SUBSET S, \A x \in S \ P : g[x] = f[x]
  PROVE  /\ SumFunctionOnSet(g, S) + SumFunctionOnSet(f, P)
               = SumFunctionOnSet(f, S) + SumFunctionOnSet(g, P)
         /\ SumFunctionOnSet(f, P) \in Nat /\ SumFunctionOnSet(g, P) \in Nat
<1>1. P \in SUBSET S /\ S \ P \in SUBSET S /\ IsFiniteSet(P) /\ IsFiniteSet(S \ P)
  BY FS_Subset
<1>2. SumFunctionOnSet(g, S \ P) = SumFunctionOnSet(f, S \ P)
  BY <1>1, SumEqual
<1>3. /\ SumFunctionOnSet(f, S) = SumFunctionOnSet(f, P) + SumFunctionOnSet(f, S \ P)
      /\ SumFunctionOnSet(g, S) = SumFunctionOnSet(g, P) + SumFunctionOnSet(g, S \ P)
  BY SumParts
<1>4. /\ SumFunctionOnSet(f, P) \in Nat /\ SumFunctionOnSet(g, P) \in Nat
      /\ SumFunctionOnSet(f, S \ P) \in Nat
  BY <1>1, SumNat
<1> QED
  BY <1>2, <1>3, <1>4

\* A charge on the members of a subset adds up to its size times the charge.
LEMMA SumCharged ==
  ASSUME NEW S, IsFiniteSet(S), NEW R \in SUBSET S, NEW c \in Nat, NEW f, NEW g,
         \A x \in S : f[x] \in Nat /\ g[x] = f[x] + (IF x \in R THEN c ELSE 0)
  PROVE  SumFunctionOnSet(g, S) = SumFunctionOnSet(f, S) + c * Cardinality(R)
<1> DEFINE Bad == {T \in SUBSET S : SumFunctionOnSet(g, T)
                     # SumFunctionOnSet(f, T) + c * Cardinality(R \cap T)}
<1>1. \A T \in SUBSET S : /\ IsFiniteSet(T) /\ SumFunctionOnSet(f, T) \in Nat
                          /\ SumFunctionOnSet(g, T) \in Nat
                          /\ IsFiniteSet(R \cap T) /\ Cardinality(R \cap T) \in Nat
  <2> SUFFICES ASSUME NEW T \in SUBSET S
               PROVE  /\ IsFiniteSet(T) /\ SumFunctionOnSet(f, T) \in Nat
                      /\ SumFunctionOnSet(g, T) \in Nat
                      /\ IsFiniteSet(R \cap T) /\ Cardinality(R \cap T) \in Nat
    OBVIOUS
  <2>1. IsFiniteSet(T) /\ IsFiniteSet(R \cap T)
    BY FS_Subset
  <2>2. Cardinality(R \cap T) \in Nat
    BY <2>1, FS_CardinalityType
  <2>3. \A x \in T : f[x] \in Nat /\ g[x] \in Nat
    OBVIOUS
  <2> QED
    BY <2>1, <2>2, <2>3, SumNat
<1>2. Bad = {}
  <2> SUFFICES ASSUME Bad # {} PROVE FALSE
    OBVIOUS
  <2>1. PICK T \in Bad : \A u \in Bad : Cardinality(T) <= Cardinality(u)
    BY <1>1, SmallestSet
  <2>2. /\ T \in SUBSET S /\ IsFiniteSet(T)
        /\ SumFunctionOnSet(g, T) # SumFunctionOnSet(f, T) + c * Cardinality(R \cap T)
    BY <1>1, <2>1
  <2>3. T # {}
    <3>1. SumFunctionOnSet(f, {}) = 0 /\ SumFunctionOnSet(g, {}) = 0
      BY <2>2, SumStep
    <3>2. Cardinality(R \cap {}) = 0
      BY FS_EmptySet, R \cap {} = {}
    <3> QED
      BY <2>2, <3>1, <3>2
  <2>4. PICK x \in T : /\ x = Chosen(T)
                       /\ ~(Cardinality(T) <= Cardinality(T \ {x}))
    <3>1. Chosen(T) \in T
      BY <2>2, <2>3, ChosenLeaves
    <3> QED
      BY <2>2, <3>1, Smaller
  <2>5. /\ SumFunctionOnSet(f, T) = f[x] + SumFunctionOnSet(f, T \ {x})
        /\ SumFunctionOnSet(g, T) = g[x] + SumFunctionOnSet(g, T \ {x})
    BY <2>2, <2>3, <2>4, SumStep
  <2>6. PICK m \in Nat, n \in Nat, k \in Nat :
          /\ m = SumFunctionOnSet(f, T \ {x}) /\ n = Cardinality(R \cap (T \ {x}))
          /\ k = f[x] /\ SumFunctionOnSet(g, T \ {x}) = m + c * n
    BY <1>1, <2>1, <2>2, <2>4
  <2>7. g[x] = k + (IF x \in R THEN c ELSE 0)
    BY <2>2, <2>6
  <2>71. n = Cardinality(R \cap (T \ {x})) /\ n \in Nat /\ Cardinality(R \cap T) \in Nat
    BY <1>1, <2>2, <2>6
  <2>8. /\ x \in R => Cardinality(R \cap T) = n + 1
        /\ x \notin R => Cardinality(R \cap T) = n
    <3>1. ASSUME x \in R PROVE Cardinality(R \cap T) = n + 1
      <4>1. PICK both : both = R \cap T
        OBVIOUS
      <4>2. /\ R \cap (T \ {x}) = both \ {x} /\ x \in both /\ IsFiniteSet(both)
            /\ Cardinality(both) \in Nat
        BY <1>1, <2>2, <3>1, <4>1
      <4>3. Cardinality(both \ {x}) = Cardinality(both) - 1
        BY <4>2, FS_RemoveElement
      <4>4. n = Cardinality(both) - 1
        BY <2>71, <4>2, <4>3
      <4> QED
        BY <2>71, <4>1, <4>2, <4>4
    <3>2. ASSUME x \notin R PROVE Cardinality(R \cap T) = n
      <4>1. R \cap (T \ {x}) = R \cap T
        BY <3>2
      <4> QED
        BY <2>71, <4>1
    <3> QED
      BY <3>1, <3>2
  <2>9. c * (n + 1) = c * n + c
    OBVIOUS
  <2>10. c * n \in Nat
    OBVIOUS
  <2>11. CASE x \in R
    BY <2>2, <2>5, <2>6, <2>7, <2>8, <2>9, <2>10, <2>11
  <2>12. CASE x \notin R
    BY <2>2, <2>5, <2>6, <2>7, <2>8, <2>10, <2>12
  <2> QED
    BY <2>11, <2>12
<1>3. SumFunctionOnSet(g, S) = SumFunctionOnSet(f, S) + c * Cardinality(R \cap S)
  BY <1>2
<1>4. R \cap S = R
  OBVIOUS
<1> QED
  BY <1>3, <1>4

-----------------------------------------------------------------------------
(* Folds.                                                                  *)

\* In a set of positions there is a last one.
LEMMA MaxOfPositions ==
  ASSUME NEW n \in Nat, NEW s \in SUBSET (1..n), s # {}
  PROVE  Max(s) \in s /\ \A y \in s : y <= Max(s)
<1> DEFINE T == {n - y : y \in s}
<1>0. \A y \in s : y \in Nat /\ y <= n
  OBVIOUS
<1>1. T \subseteq Nat /\ T # {}
  <2>1. \A y \in s : n - y \in Nat
    BY <1>0
  <2>2. PICK y \in s : TRUE
    OBVIOUS
  <2>3. n - y \in T
    OBVIOUS
  <2> QED
    BY <2>1, <2>3
<1>2. PICK t \in T : \A u \in T : t <= u
  BY <1>1, NatLeast
<1>3. PICK x \in s : t = n - x
  BY <1>2
<1>4. \A y \in s : n - x <= n - y
  BY <1>2, <1>3
<1>5. \A y \in s : x >= y
  BY <1>0, <1>4
<1> QED
  BY <1>5 DEF Max

\* The first k positions without the last are the first k - 1.
LEMMA FirstPositions ==
  ASSUME NEW n \in Nat, NEW k \in 1..n
  PROVE  /\ 1..k \in SUBSET (1..n) /\ 1..k # {}
         /\ Max(1..k) = k /\ (1..k) \ {Max(1..k)} = 1..(k - 1)
<1>1. k \in Nat /\ 1..k \in SUBSET (1..k) /\ k \in 1..k
  OBVIOUS
<1>2. Max(1..k) \in 1..k /\ k <= Max(1..k)
  BY <1>1, MaxOfPositions
<1> QED
  BY <1>1, <1>2

\* The recursion a fold is read from.
IsFold(it, base, F, n) ==
  it = [s \in SUBSET (1..n) |-> IF s = {} THEN base ELSE F[it[s \ {Max(s)}], Max(s)]]

\* It has a solution when each step stays in a set.
LEMMA FoldExists ==
  ASSUME NEW n \in Nat, NEW A, NEW base \in A, NEW F \in [A \X (1..n) -> A]
  PROVE  \E it \in [SUBSET (1..n) -> A] : IsFold(it, base, F, n)
<1> DEFINE Good(k) == \E it \in [SUBSET (1..k) -> A] : IsFold(it, base, F, k)
           Bad == {k \in Nat : k <= n /\ ~Good(k)}
<1>1. Bad = {}
  <2> SUFFICES ASSUME Bad # {} PROVE FALSE
    OBVIOUS
  <2>1. PICK k \in Bad : \A m \in Bad : k <= m
    BY NatLeast
  <2>2. CASE k = 0
    <3>1. \A s \in SUBSET (1..0) : s = {}
      OBVIOUS
    <3>2. PICK it : it = [s \in SUBSET (1..0) |-> base]
      OBVIOUS
    <3>3. it \in [SUBSET (1..0) -> A] /\ IsFold(it, base, F, 0)
      BY <3>1, <3>2 DEF IsFold
    <3> QED
      BY <2>1, <2>2, <3>3
  <2>3. CASE k # 0
    <3>0. k \in Nat /\ k - 1 \in Nat /\ k <= n /\ ~(k <= k - 1)
      BY <2>1, <2>3
    <3>1. PICK g \in [SUBSET (1..(k - 1)) -> A] : IsFold(g, base, F, k - 1)
      <4>1. k - 1 \notin Bad
        BY <2>1, <3>0
      <4>2. Good(k - 1)
        <5> HIDE DEF Good
        <5> QED
          BY <3>0, <4>1
      <4> QED
        BY <4>2
    <3>2. PICK h : h = [s \in SUBSET (1..k) |->
                          IF s = {} THEN base ELSE F[g[s \ {Max(s)}], Max(s)]]
      OBVIOUS
    <3>3. ASSUME NEW s \in SUBSET (1..k), s # {}
          PROVE  Max(s) \in 1..k /\ s \ {Max(s)} \in SUBSET (1..(k - 1))
      <4>1. Max(s) \in s /\ \A y \in s : y <= Max(s)
        BY <3>0, <3>3, MaxOfPositions
      <4>2. \A y \in s : y \in Nat /\ 1 <= y /\ y <= k
        BY <3>0
      <4>3. ASSUME NEW y \in s \ {Max(s)} PROVE y \in 1..(k - 1)
        <5>1. PICK x \in s : x = Max(s) /\ y <= x /\ y # x
          BY <4>1
        <5> QED
          BY <3>0, <4>2, <5>1
      <4> QED
        BY <4>1, <4>2, <4>3
    <3>4. ASSUME NEW s \in SUBSET (1..(k - 1))
          PROVE  s \in SUBSET (1..k) /\ h[s] = g[s]
      <4>1. s \in SUBSET (1..k)
        BY <3>0
      <4>2. g[s] = IF s = {} THEN base ELSE F[g[s \ {Max(s)}], Max(s)]
        BY <3>1 DEF IsFold
      <4> QED
        BY <3>2, <4>1, <4>2
    <3>5. h \in [SUBSET (1..k) -> A]
      <4>1. ASSUME NEW s \in SUBSET (1..k), s # {}
            PROVE  F[g[s \ {Max(s)}], Max(s)] \in A
        <5>1. g[s \ {Max(s)}] \in A /\ Max(s) \in 1..n
          BY <3>0, <3>1, <3>3, <4>1
        <5> QED
          BY <5>1
      <4> QED
        BY <3>2, <4>1
    <3>6. IsFold(h, base, F, k)
      BY <3>2, <3>3, <3>4 DEF IsFold
    <3> QED
      BY <2>1, <3>5, <3>6
  <2> QED
    BY <2>2, <2>3
<1>2. Good(n)
  <2> HIDE DEF Good
  <2> QED
    BY <1>1
<1> QED
  BY <1>2

\* A sequence of steps that each keep to a set keeps to it throughout.
LEMMA StaysIn ==
  ASSUME NEW n \in Nat, NEW h, NEW A, h[0] \in A,
         \A k \in 1..n : h[k - 1] \in A => h[k] \in A
  PROVE  \A k \in 0..n : h[k] \in A
<1> DEFINE Bad == {k \in Nat : k <= n /\ h[k] \notin A}
<1> SUFFICES ASSUME Bad # {} PROVE FALSE
  OBVIOUS
<1>1. PICK k \in Bad : \A m \in Bad : k <= m
  BY NatLeast
<1>2. k # 0 /\ k \in 1..n /\ k - 1 \in Nat /\ k - 1 \notin Bad
  BY <1>1
<1> QED
  BY <1>1, <1>2

\* A fold whose steps keep to a set yields a member of it.
LEMMA FoldStays ==
  ASSUME NEW n \in Nat, NEW A, NEW g, g[{}] \in A,
         \A s \in SUBSET (1..n) : s # {} /\ g[s \ {Max(s)}] \in A => g[s] \in A
  PROVE  g[1..n] \in A
<1>1. PICK h : h = [k \in 0..n |-> g[1..k]]
  OBVIOUS
<1>2. h[0] \in A
  <2>1. 1..0 = {} /\ 0 \in 0..n
    OBVIOUS
  <2> QED
    BY <1>1, <2>1
<1>3. ASSUME NEW k \in 1..n, h[k - 1] \in A PROVE h[k] \in A
  <2>1. /\ 1..k \in SUBSET (1..n) /\ 1..k # {}
        /\ (1..k) \ {Max(1..k)} = 1..(k - 1) /\ k \in 0..n /\ k - 1 \in 0..n
    BY FirstPositions
  <2>2. g[(1..k) \ {Max(1..k)}] \in A
    BY <1>1, <1>3, <2>1
  <2> QED
    BY <1>1, <2>1, <2>2
<1>4. \A k \in 0..n : h[k] \in A
  BY <1>2, <1>3, StaysIn
<1> QED
  BY <1>1, <1>4

\* A fold whose steps enter a set at one position and keep to it from there on
\* yields a member of it.
LEMMA FoldEnters ==
  ASSUME NEW n \in Nat, NEW A, NEW B, NEW m \in 1..n, NEW g, g[{}] \in A,
         \A s \in SUBSET (1..n) : s # {} /\ g[s \ {Max(s)}] \in A => g[s] \in A,
         \A s \in SUBSET (1..n) :
           s # {} /\ Max(s) = m /\ g[s \ {Max(s)}] \in A => g[s] \in B,
         \A s \in SUBSET (1..n) : s # {} /\ g[s \ {Max(s)}] \in B => g[s] \in B
  PROVE  g[1..n] \in B
<1>1. PICK h : h = [k \in 0..n |-> g[1..k]]
  OBVIOUS
<1>2. \A k \in 1..n : /\ 1..k \in SUBSET (1..n) /\ 1..k # {} /\ Max(1..k) = k
                     /\ (1..k) \ {Max(1..k)} = 1..(k - 1) /\ k \in 0..n /\ k - 1 \in 0..n
  BY FirstPositions
<1>3. h[0] \in A
  <2>1. 1..0 = {} /\ 0 \in 0..n
    OBVIOUS
  <2> QED
    BY <1>1, <2>1
<1>4. \A k \in 1..n : h[k - 1] \in A => h[k] \in A
  BY <1>1, <1>2
<1>5. \A k \in 0..n : h[k] \in A
  BY <1>3, <1>4, StaysIn
<1>6. h[m] \in B
  <2>1. m \in 1..n /\ m - 1 \in 0..n
    OBVIOUS
  <2>2. h[m - 1] \in A
    BY <1>5, <2>1
  <2> QED
    BY <1>1, <1>2, <2>1, <2>2
<1>7. \A k \in 1..n : h[k - 1] \in B => h[k] \in B
  BY <1>1, <1>2
<1>8. h[n] \in B
  <2>1. PICK e : e = [k \in 0..(n - m) |-> h[m + k]]
    OBVIOUS
  <2>2. n - m \in Nat /\ m + 0 = m /\ m + (n - m) = n /\ 0 \in 0..(n - m) /\ n - m \in 0..(n - m)
    OBVIOUS
  <2>3. e[0] \in B /\ e[n - m] = h[n]
    BY <1>6, <2>1, <2>2
  <2>4. ASSUME NEW k \in 1..(n - m), e[k - 1] \in B PROVE e[k] \in B
    <3>1. m + k \in 1..n /\ (m + k) - 1 = m + (k - 1) /\ k - 1 \in 0..(n - m) /\ k \in 0..(n - m)
      BY <2>2
    <3>2. h[(m + k) - 1] \in B
      BY <2>1, <2>4, <3>1
    <3> QED
      BY <1>7, <2>1, <3>1, <3>2
  <2>5. \A k \in 0..(n - m) : e[k] \in B
    BY <2>2, <2>3, <2>4, StaysIn
  <2> QED
    BY <2>2, <2>3, <2>5
<1> QED
  BY <1>1, <1>8

\* A recursion over the numbers up to n.
IsRecursion(f, base, F, n) == f = [k \in 0..n |-> IF k = 0 THEN base ELSE F[f[k - 1], k]]

\* It has a solution when each step stays in a set.
LEMMA RecursionExists ==
  ASSUME NEW n \in Nat, NEW A, NEW base \in A, NEW F \in [A \X (1..n) -> A]
  PROVE  \E f \in [0..n -> A] : IsRecursion(f, base, F, n)
<1>1. PICK it \in [SUBSET (1..n) -> A] : IsFold(it, base, F, n)
  BY FoldExists
<1>2. PICK f : f = [k \in 0..n |-> it[1..k]]
  OBVIOUS
<1>3. f \in [0..n -> A]
  <2>1. \A k \in 0..n : 1..k \in SUBSET (1..n)
    OBVIOUS
  <2> QED
    BY <1>2, <2>1
<1>4. f[0] = base
  <2>1. 1..0 = {} /\ {} \in SUBSET (1..n) /\ 0 \in 0..n
    OBVIOUS
  <2> QED
    BY <1>1, <1>2, <2>1 DEF IsFold
<1>5. ASSUME NEW k \in 1..n PROVE f[k] = F[f[k - 1], k]
  <2>1. /\ 1..k \in SUBSET (1..n) /\ 1..k # {} /\ Max(1..k) = k
        /\ (1..k) \ {Max(1..k)} = 1..(k - 1) /\ k \in 0..n /\ k - 1 \in 0..n
    BY FirstPositions
  <2>2. it[1..k] = F[it[1..(k - 1)], k]
    BY <1>1, <2>1 DEF IsFold
  <2> QED
    BY <1>2, <2>1, <2>2
<1>6. \A k \in 0..n : k = 0 \/ k \in 1..n
  OBVIOUS
<1>7. IsRecursion(f, base, F, n)
  BY <1>3, <1>4, <1>5, <1>6 DEF IsRecursion
<1> QED
  BY <1>3, <1>7

=============================================================================
