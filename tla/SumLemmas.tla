------------------------------ MODULE SumLemmas ------------------------------
(***************************************************************************)
(* Facts about natural numbers, finite sets and the sums of the community  *)
(* modules (SumFunctionOnSet), on which the proofs about money rest: a sum *)
(* grows by what is added to it, whichever order it is added up in.        *)
(*                                                                         *)
(* A sum is defined by recursion over finite sets.  Each lemma that would  *)
(* be proved by induction is proved by a least counterexample: of the      *)
(* subsets of a finite set for which it fails, one has none below it.      *)
(***************************************************************************)
EXTENDS FiniteSetsExt, FiniteSetTheorems, WellFoundedInduction, TLAPS

(* A nonempty set of natural numbers has a least element, which Min is.    *)
LEMMA MinIsLeast ==
  ASSUME NEW S \in SUBSET Nat, S # {}
  PROVE  Min(S) \in S /\ \A x \in S : Min(S) <= x
<1>1. \E x \in S : \A y \in S : ~(<<y, x>> \in OpToRel(<, Nat))
  BY NatLessThanWellFounded, WFMin
<1>2. \A x, y \in S : ~(<<y, x>> \in OpToRel(<, Nat)) <=> x <= y
  BY DEF OpToRel
<1>3. \E x \in S : \A y \in S : x <= y
  BY <1>1, <1>2
<1> QED
  BY <1>3 DEF Min

(* Of some subsets of a finite set, one has none of the others below it.   *)
LEMMA LeastSet ==
  ASSUME NEW U, IsFiniteSet(U), NEW C \in SUBSET (SUBSET U), C # {}
  PROVE  \E T \in C : \A V \in C : V \subseteq T => V = T
<1> DEFINE sizes == {Cardinality(T) : T \in C}
<1>1. \A T \in C : IsFiniteSet(T) /\ Cardinality(T) \in Nat
  BY FS_Subset, FS_CardinalityType
<1>2. sizes \in SUBSET Nat /\ sizes # {}
  BY <1>1
<1>3. PICK T \in C : \A V \in C : Cardinality(T) <= Cardinality(V)
  <2>1. Min(sizes) \in sizes /\ \A n \in sizes : Min(sizes) <= n
    BY <1>2, MinIsLeast
  <2> QED
    BY <2>1
<1>4. \A V \in C : V \subseteq T => V = T
  <2> SUFFICES ASSUME NEW V \in C, V \subseteq T PROVE V = T
    OBVIOUS
  <2>1. Cardinality(V) <= Cardinality(T) /\ (Cardinality(V) = Cardinality(T) => V = T)
    BY <1>1, FS_Subset
  <2> QED
    BY <1>1, <1>3, <2>1
<1> QED
  BY <1>3, <1>4

-----------------------------------------------------------------------------
(* What the recursive function in the definition of a sum satisfies.       *)
Picked(s) == CHOOSE x \in s : TRUE

Sums(g, f, S) ==
  g = [s \in SUBSET S |-> IF s = {} THEN 0 ELSE f[Picked(s)] + g[s \ {Picked(s)}]]

Table(f, S) == CHOOSE g : Sums(g, f, S)

(* A sum is the entry of the table of sums.                                *)
LEMMA SumIsTable ==
  ASSUME NEW f, NEW S
  PROVE  SumFunctionOnSet(f, S) = Table(f, S)[S]
  BY DEF SumFunctionOnSet, FoldFunctionOnSet, MapThenFoldSet, Sums, Picked, Table

(* What is picked from a set is in it.                                     *)
LEMMA PickedIsIn == ASSUME NEW s, s # {} PROVE Picked(s) \in s
  BY DEF Picked

(* Two such functions agree where both are defined.                        *)
LEMMA TablesAgree ==
  ASSUME NEW U, IsFiniteSet(U), NEW S \in SUBSET U, NEW T \in SUBSET U, NEW f,
         NEW g, Sums(g, f, S), NEW h, Sums(h, f, T),
         NEW s \in SUBSET (S \cap T)
  PROVE  g[s] = h[s]
<1> DEFINE C == {t \in SUBSET (S \cap T) : g[t] # h[t]}
<1> SUFFICES ASSUME C # {} PROVE FALSE
  OBVIOUS
<1>1. C \in SUBSET (SUBSET U) /\ C # {}
  OBVIOUS
<1> HIDE DEF C
<1>2. PICK t \in C : \A v \in C : v \subseteq t => v = t
  BY <1>1, LeastSet
<1> USE DEF C
<1>3. /\ g[t] = IF t = {} THEN 0 ELSE f[Picked(t)] + g[t \ {Picked(t)}]
      /\ h[t] = IF t = {} THEN 0 ELSE f[Picked(t)] + h[t \ {Picked(t)}]
  BY <1>2 DEF Sums
<1>4. CASE t = {}
  BY <1>2, <1>3, <1>4
<1>5. CASE t # {}
  <2>1. Picked(t) \in t
    BY <1>5, PickedIsIn
  <2>2. t \ {Picked(t)} \in SUBSET (S \cap T) /\ t \ {Picked(t)} \notin C
    BY <1>2, <2>1
  <2>3. g[t \ {Picked(t)}] = h[t \ {Picked(t)}]
    BY <2>2
  <2> QED
    BY <1>2, <1>3, <1>5, <2>3
<1> QED
  BY <1>4, <1>5

(* There is such a function: the recursion is well founded.                *)
LEMMA TableExists ==
  ASSUME NEW S, IsFiniteSet(S), NEW f
  PROVE  Sums(Table(f, S), f, S)
<1> DEFINE C == {t \in SUBSET S : ~Sums(Table(f, t), f, t)}
<1> SUFFICES ASSUME C # {} PROVE FALSE
  OBVIOUS
<1>0. C \in SUBSET (SUBSET S) /\ C # {}
  OBVIOUS
<1> HIDE DEF C
<1>1. PICK T \in C : \A v \in C : v \subseteq T => v = T
  BY <1>0, LeastSet
<1> USE DEF C
<1> DEFINE value(s) == Table(f, s)[s]
<1>2. \A s \in SUBSET T : s # T => Sums(Table(f, s), f, s)
  BY <1>1
<1>3. \A s \in SUBSET T : s # T =>
        value(s) = IF s = {} THEN 0 ELSE f[Picked(s)] + value(s \ {Picked(s)})
  <2> SUFFICES ASSUME NEW s \in SUBSET T, s # T
               PROVE  value(s) = IF s = {} THEN 0 ELSE f[Picked(s)] + value(s \ {Picked(s)})
    OBVIOUS
  <2>1. Sums(Table(f, s), f, s)
    BY <1>2
  <2>2. value(s) = IF s = {} THEN 0 ELSE f[Picked(s)] + Table(f, s)[s \ {Picked(s)}]
    BY <2>1 DEF Sums
  <2>3. CASE s # {}
    <3> DEFINE r == s \ {Picked(s)}
    <3>1. Picked(s) \in s
      BY <2>3, PickedIsIn
    <3>2. r \in SUBSET T /\ r # T /\ r \in SUBSET s
      BY <3>1
    <3>3. Sums(Table(f, r), f, r)
      BY <1>2, <3>2
    <3> HIDE DEF r
    <3>4. Table(f, s)[r] = Table(f, r)[r]
      <4>1. s \in SUBSET S /\ r \in SUBSET S /\ r \in SUBSET (s \cap r)
        BY <3>2
      <4> QED
        BY <2>1, <3>3, <4>1, TablesAgree
    <3> QED
      BY <2>2, <2>3, <3>4 DEF r
  <2> QED
    BY <2>2, <2>3
<1> DEFINE g == [s \in SUBSET T |->
                   IF s = {} THEN 0 ELSE f[Picked(s)] + value(s \ {Picked(s)})]
<1>4. \A s \in SUBSET T : s # {} => g[s \ {Picked(s)}] = value(s \ {Picked(s)})
  <2> SUFFICES ASSUME NEW s \in SUBSET T, s # {}
               PROVE  g[s \ {Picked(s)}] = value(s \ {Picked(s)})
    OBVIOUS
  <2>1. Picked(s) \in s
    BY PickedIsIn
  <2>2. s \ {Picked(s)} \in SUBSET T /\ s \ {Picked(s)} # T
    BY <2>1
  <2> HIDE DEF value
  <2> QED
    BY <1>3, <2>2
<1> HIDE DEF value
<1>5. g = [s \in SUBSET T |-> IF s = {} THEN 0 ELSE f[Picked(s)] + g[s \ {Picked(s)}]]
  BY <1>4
<1> HIDE DEF g
<1>6. Sums(g, f, T)
  BY <1>5 DEF Sums
<1>7. Sums(Table(f, T), f, T)
  BY <1>6 DEF Table
<1> QED
  BY <1>1, <1>7

-----------------------------------------------------------------------------
(* Nothing adds up to zero.                                                *)
LEMMA SumOfNone == ASSUME NEW f PROVE SumFunctionOnSet(f, {}) = 0
<1>1. Sums(Table(f, {}), f, {})
  BY FS_EmptySet, TableExists
<1> QED
  BY <1>1, SumIsTable DEF Sums

(* A sum is its picked element and the sum of the rest.                    *)
LEMMA SumStep ==
  ASSUME NEW S, IsFiniteSet(S), S # {}, NEW f
  PROVE  SumFunctionOnSet(f, S) = f[Picked(S)] + SumFunctionOnSet(f, S \ {Picked(S)})
<1> DEFINE R == S \ {Picked(S)}
<1>1. Sums(Table(f, S), f, S)
  BY TableExists
<1>2. Table(f, S)[S] = f[Picked(S)] + Table(f, S)[R]
  BY <1>1 DEF Sums
<1>3. R \in SUBSET S /\ IsFiniteSet(R)
  BY FS_Subset
<1> HIDE DEF R
<1>4. Sums(Table(f, R), f, R)
  BY <1>3, TableExists
<1>5. Table(f, S)[R] = Table(f, R)[R]
  <2>1. PICK U : IsFiniteSet(U) /\ S \in SUBSET U /\ R \in SUBSET U
    BY <1>3
  <2>2. R \in SUBSET (S \cap R)
    BY <1>3
  <2> QED
    BY <1>1, <1>4, <2>1, <2>2, TablesAgree
<1> QED
  BY <1>2, <1>5, SumIsTable DEF R

(* Functions that agree on a set have the same sum there.                  *)
LEMMA SumOfSame ==
  ASSUME NEW S, IsFiniteSet(S), NEW f, NEW h, \A x \in S : f[x] = h[x]
  PROVE  SumFunctionOnSet(f, S) = SumFunctionOnSet(h, S)
<1> DEFINE C == {T \in SUBSET S : SumFunctionOnSet(f, T) # SumFunctionOnSet(h, T)}
<1> SUFFICES ASSUME C # {} PROVE FALSE
  OBVIOUS
<1>0. C \in SUBSET (SUBSET S) /\ C # {}
  OBVIOUS
<1> HIDE DEF C
<1>1. PICK T \in C : \A V \in C : V \subseteq T => V = T
  BY <1>0, LeastSet
<1>2. T \in SUBSET S /\ IsFiniteSet(T) /\ SumFunctionOnSet(f, T) # SumFunctionOnSet(h, T)
  BY <1>1, FS_Subset DEF C
<1>3. T # {}
  BY <1>2, SumOfNone
<1>4. Picked(T) \in T
  BY <1>3, PickedIsIn
<1>5. T \ {Picked(T)} \in SUBSET S /\ T \ {Picked(T)} \notin C
  BY <1>1, <1>2, <1>4
<1>6. SumFunctionOnSet(f, T \ {Picked(T)}) = SumFunctionOnSet(h, T \ {Picked(T)})
  BY <1>5 DEF C
<1>7. f[Picked(T)] = h[Picked(T)]
  BY <1>2, <1>4
<1> QED
  BY <1>2, <1>3, <1>6, <1>7, SumStep

(* A sum of naturals is a natural, a sum of integers an integer.           *)
LEMMA SumType ==
  ASSUME NEW N \in {Nat, Int}, NEW S, IsFiniteSet(S), NEW f, \A x \in S : f[x] \in N
  PROVE  SumFunctionOnSet(f, S) \in N
<1> DEFINE C == {T \in SUBSET S : SumFunctionOnSet(f, T) \notin N}
<1> SUFFICES ASSUME C # {} PROVE FALSE
  OBVIOUS
<1>0. C \in SUBSET (SUBSET S) /\ C # {}
  OBVIOUS
<1> HIDE DEF C
<1>1. PICK T \in C : \A V \in C : V \subseteq T => V = T
  BY <1>0, LeastSet
<1>2. T \in SUBSET S /\ IsFiniteSet(T) /\ SumFunctionOnSet(f, T) \notin N
  BY <1>1, FS_Subset DEF C
<1>3. T # {}
  BY <1>2, SumOfNone
<1>4. Picked(T) \in T
  BY <1>3, PickedIsIn
<1>5. T \ {Picked(T)} \in SUBSET S /\ T \ {Picked(T)} \notin C
  BY <1>1, <1>2, <1>4
<1>6. SumFunctionOnSet(f, T \ {Picked(T)}) \in N /\ f[Picked(T)] \in N
  BY <1>2, <1>4, <1>5 DEF C
<1>7. SumFunctionOnSet(f, T) = f[Picked(T)] + SumFunctionOnSet(f, T \ {Picked(T)})
  BY <1>2, <1>3, SumStep
<1> QED
  BY <1>2, <1>6, <1>7

(* The order does not matter: any element may be taken out of a sum.       *)
LEMMA SumWithout ==
  ASSUME NEW S, IsFiniteSet(S), NEW f, \A x \in S : f[x] \in Int, NEW e \in S
  PROVE  SumFunctionOnSet(f, S) = f[e] + SumFunctionOnSet(f, S \ {e})
<1> DEFINE Bad(T, x) == SumFunctionOnSet(f, T) # f[x] + SumFunctionOnSet(f, T \ {x})
<1> DEFINE C == {T \in SUBSET S : \E x \in T : Bad(T, x)}
<1> SUFFICES ASSUME C # {} PROVE FALSE
  OBVIOUS
<1>0. C \in SUBSET (SUBSET S) /\ C # {}
  OBVIOUS
<1>t. \A T \in SUBSET S : IsFiniteSet(T) /\ SumFunctionOnSet(f, T) \in Int
  BY FS_Subset, SumType
<1> HIDE DEF C
<1>1. PICK T \in C : \A V \in C : V \subseteq T => V = T
  BY <1>0, LeastSet
<1>2. PICK x \in T : Bad(T, x)
  BY <1>1 DEF C
<1>3. T \in SUBSET S
  BY <1>0, <1>1
<1> DEFINE p == Picked(T)
<1>4. p \in T
  BY <1>2, PickedIsIn
<1>5. SumFunctionOnSet(f, T) = f[p] + SumFunctionOnSet(f, T \ {p})
  BY <1>t, <1>2, <1>3, SumStep
<1> HIDE DEF p
<1>6. p # x
  BY <1>2, <1>5
<1>7. T \ {p} \notin C /\ T \ {x} \notin C
  BY <1>1, <1>2, <1>4
<1>8. SumFunctionOnSet(f, T \ {p}) = f[x] + SumFunctionOnSet(f, (T \ {p}) \ {x})
  <2>1. T \ {p} \in SUBSET S /\ x \in T \ {p}
    BY <1>2, <1>3, <1>6
  <2>2. ~Bad(T \ {p}, x)
    BY <1>7, <2>1 DEF C
  <2> QED
    BY <2>2
<1>9. SumFunctionOnSet(f, T \ {x}) = f[p] + SumFunctionOnSet(f, (T \ {x}) \ {p})
  <2>1. T \ {x} \in SUBSET S /\ p \in T \ {x}
    BY <1>3, <1>4, <1>6
  <2>2. ~Bad(T \ {x}, p)
    BY <1>7, <2>1 DEF C
  <2> QED
    BY <2>2
<1>10. (T \ {p}) \ {x} = (T \ {x}) \ {p} /\ (T \ {p}) \ {x} \in SUBSET S
  BY <1>3
<1>11. SumFunctionOnSet(f, T) = f[x] + SumFunctionOnSet(f, T \ {x})
  <2> DEFINE rest == SumFunctionOnSet(f, (T \ {p}) \ {x})
  <2>1. f[p] \in Int /\ f[x] \in Int /\ rest \in Int
    BY <1>t, <1>2, <1>3, <1>4, <1>10
  <2>2. SumFunctionOnSet(f, T) = f[p] + (f[x] + rest)
    BY <1>5, <1>8
  <2>3. SumFunctionOnSet(f, T \ {x}) = f[p] + rest
    BY <1>9, <1>10
  <2> HIDE DEF rest
  <2> QED
    BY <2>1, <2>2, <2>3
<1> QED
  BY <1>2, <1>11

(* A new element adds its value.                                           *)
LEMMA SumWith ==
  ASSUME NEW S, IsFiniteSet(S), NEW f, NEW e, e \notin S, \A x \in S \cup {e} : f[x] \in Int
  PROVE  SumFunctionOnSet(f, S \cup {e}) = f[e] + SumFunctionOnSet(f, S)
<1>1. IsFiniteSet(S \cup {e})
  BY FS_AddElement
<1>2. (S \cup {e}) \ {e} = S /\ e \in S \cup {e}
  OBVIOUS
<1> QED
  BY <1>1, <1>2, SumWithout

(* A function changed at one element changes the sum by as much.           *)
LEMMA SumWithChange ==
  ASSUME NEW S, IsFiniteSet(S), NEW f, NEW h, NEW e \in S,
         \A x \in S : f[x] \in Int /\ h[x] \in Int,
         \A x \in S \ {e} : h[x] = f[x]
  PROVE  SumFunctionOnSet(h, S) = SumFunctionOnSet(f, S) + (h[e] - f[e])
<1>1. IsFiniteSet(S \ {e})
  BY FS_Subset
<1>2. SumFunctionOnSet(h, S \ {e}) = SumFunctionOnSet(f, S \ {e})
  BY <1>1, SumOfSame
<1>3. SumFunctionOnSet(f, S \ {e}) \in Int
  BY <1>1, SumType
<1>4. /\ SumFunctionOnSet(f, S) = f[e] + SumFunctionOnSet(f, S \ {e})
      /\ SumFunctionOnSet(h, S) = h[e] + SumFunctionOnSet(h, S \ {e})
  BY SumWithout
<1> QED
  BY <1>2, <1>3, <1>4

(* Zeros add up to zero.                                                   *)
LEMMA SumOfZeros ==
  ASSUME NEW S, IsFiniteSet(S), NEW f, \A x \in S : f[x] = 0
  PROVE  SumFunctionOnSet(f, S) = 0
<1> DEFINE C == {T \in SUBSET S : SumFunctionOnSet(f, T) # 0}
<1> SUFFICES ASSUME C # {} PROVE FALSE
  OBVIOUS
<1>0. C \in SUBSET (SUBSET S) /\ C # {}
  OBVIOUS
<1> HIDE DEF C
<1>1. PICK T \in C : \A V \in C : V \subseteq T => V = T
  BY <1>0, LeastSet
<1>2. T \in SUBSET S /\ IsFiniteSet(T) /\ SumFunctionOnSet(f, T) # 0
  BY <1>1, FS_Subset DEF C
<1>3. T # {}
  BY <1>2, SumOfNone
<1>4. Picked(T) \in T
  BY <1>3, PickedIsIn
<1>5. T \ {Picked(T)} \in SUBSET S /\ T \ {Picked(T)} \notin C
  BY <1>1, <1>2, <1>4
<1>6. SumFunctionOnSet(f, T \ {Picked(T)}) = 0 /\ f[Picked(T)] = 0
  BY <1>2, <1>4, <1>5 DEF C
<1> QED
  BY <1>2, <1>3, <1>6, SumStep

(* The sum of a pointwise sum.                                             *)
LEMMA SumPlus ==
  ASSUME NEW S, IsFiniteSet(S), NEW f, NEW g, NEW h,
         \A x \in S : f[x] \in Int /\ g[x] \in Int /\ h[x] = f[x] + g[x]
  PROVE  SumFunctionOnSet(h, S) = SumFunctionOnSet(f, S) + SumFunctionOnSet(g, S)
<1> DEFINE C == {T \in SUBSET S :
       SumFunctionOnSet(h, T) # SumFunctionOnSet(f, T) + SumFunctionOnSet(g, T)}
<1> SUFFICES ASSUME C # {} PROVE FALSE
  OBVIOUS
<1>0. C \in SUBSET (SUBSET S) /\ C # {}
  OBVIOUS
<1> HIDE DEF C
<1>1. PICK T \in C : \A V \in C : V \subseteq T => V = T
  BY <1>0, LeastSet
<1>2. /\ T \in SUBSET S /\ IsFiniteSet(T)
      /\ SumFunctionOnSet(h, T) # SumFunctionOnSet(f, T) + SumFunctionOnSet(g, T)
  BY <1>1, FS_Subset DEF C
<1>3. T # {}
  <2>1. SumFunctionOnSet(h, {}) = SumFunctionOnSet(f, {}) + SumFunctionOnSet(g, {})
    BY SumOfNone
  <2> QED
    BY <1>2, <2>1
<1> DEFINE p == Picked(T)
           R == T \ {p}
<1>4. p \in T
  BY <1>3, PickedIsIn
<1>5. R \in SUBSET S /\ R \notin C /\ IsFiniteSet(R)
  BY <1>1, <1>2, <1>4, FS_Subset
<1>6. SumFunctionOnSet(h, R) = SumFunctionOnSet(f, R) + SumFunctionOnSet(g, R)
  BY <1>5 DEF C
<1>7. /\ SumFunctionOnSet(f, T) = f[p] + SumFunctionOnSet(f, R)
      /\ SumFunctionOnSet(g, T) = g[p] + SumFunctionOnSet(g, R)
      /\ SumFunctionOnSet(h, T) = h[p] + SumFunctionOnSet(h, R)
  BY <1>2, <1>3, SumStep
<1>8. f[p] \in Int /\ g[p] \in Int /\ h[p] = f[p] + g[p]
  BY <1>2, <1>4
<1>9. SumFunctionOnSet(f, R) \in Int /\ SumFunctionOnSet(g, R) \in Int
  BY <1>5, SumType
<1> HIDE DEF p, R
<1> QED
  BY <1>2, <1>6, <1>7, <1>8, <1>9

(* A sum is at least the sum of a function that is nowhere greater.        *)
LEMMA SumMonotone ==
  ASSUME NEW S, IsFiniteSet(S), NEW f, NEW h,
         \A x \in S : f[x] \in Int /\ h[x] \in Int /\ f[x] <= h[x]
  PROVE  SumFunctionOnSet(f, S) <= SumFunctionOnSet(h, S)
<1> DEFINE d == [x \in S |-> h[x] - f[x]]
<1>1. \A x \in S : d[x] \in Nat /\ d[x] \in Int /\ h[x] = f[x] + d[x]
  OBVIOUS
<1> HIDE DEF d
<1>2. SumFunctionOnSet(h, S) = SumFunctionOnSet(f, S) + SumFunctionOnSet(d, S)
  BY <1>1, SumPlus
<1>3. SumFunctionOnSet(d, S) \in Nat
  BY <1>1, SumType
<1>4. SumFunctionOnSet(f, S) \in Int
  BY SumType
<1> QED
  BY <1>2, <1>3, <1>4

(* The sum over two sets without a common element.                         *)
LEMMA SumOfUnion ==
  ASSUME NEW S, IsFiniteSet(S), NEW T, IsFiniteSet(T), S \cap T = {}, NEW f,
         \A x \in S \cup T : f[x] \in Int
  PROVE  SumFunctionOnSet(f, S \cup T) = SumFunctionOnSet(f, S) + SumFunctionOnSet(f, T)
<1> DEFINE C == {V \in SUBSET T :
       SumFunctionOnSet(f, S \cup V) # SumFunctionOnSet(f, S) + SumFunctionOnSet(f, V)}
<1> SUFFICES ASSUME C # {} PROVE FALSE
  OBVIOUS
<1>0. C \in SUBSET (SUBSET T) /\ C # {}
  OBVIOUS
<1>t. SumFunctionOnSet(f, S) \in Int
  BY SumType
<1> HIDE DEF C
<1>1. PICK V \in C : \A W \in C : W \subseteq V => W = V
  BY <1>0, LeastSet
<1>2. /\ V \in SUBSET T /\ IsFiniteSet(V)
      /\ SumFunctionOnSet(f, S \cup V) # SumFunctionOnSet(f, S) + SumFunctionOnSet(f, V)
  BY <1>1, FS_Subset DEF C
<1>3. V # {}
  <2> SUFFICES ASSUME V = {} PROVE FALSE
    OBVIOUS
  <2>1. S \cup V = S /\ SumFunctionOnSet(f, V) = 0
    BY SumOfNone
  <2> QED
    BY <1>t, <1>2, <2>1
<1> PICK e \in V : TRUE
  BY <1>3
<1> DEFINE R == V \ {e}
<1>4. R \in SUBSET T /\ R \notin C /\ IsFiniteSet(R) /\ e \notin S \cup R /\ IsFiniteSet(S \cup R)
  BY <1>1, <1>2, FS_Subset, FS_Union
<1>5. SumFunctionOnSet(f, S \cup R) = SumFunctionOnSet(f, S) + SumFunctionOnSet(f, R)
  BY <1>4 DEF C
<1>6. S \cup V = (S \cup R) \cup {e} /\ V = R \cup {e} /\ e \notin R
  OBVIOUS
<1>7. f[e] \in Int /\ \A x \in (S \cup R) \cup {e} : f[x] \in Int
  BY <1>2
<1> HIDE DEF R
<1>8. SumFunctionOnSet(f, S \cup V) = f[e] + SumFunctionOnSet(f, S \cup R)
  BY <1>4, <1>6, <1>7, SumWith
<1>9. SumFunctionOnSet(f, V) = f[e] + SumFunctionOnSet(f, R)
  BY <1>4, <1>6, <1>7, SumWith
<1>10. SumFunctionOnSet(f, R) \in Int
  BY <1>4, <1>7, SumType
<1> QED
  BY <1>t, <1>2, <1>5, <1>7, <1>8, <1>9, <1>10
=============================================================================
