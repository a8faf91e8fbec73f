----------------------------- MODULE BAC001Proofs -----------------------------
(***************************************************************************)
(* The books of BAC001 balance, for any accounts and amounts.              *)
(*                                                                         *)
(* What is said of sums here is shown by looking at a least set for which  *)
(* it fails. A transaction of the asset changes one value, two, or, when   *)
(* it sends in batches, adds to all.                                       *)
(***************************************************************************)
EXTENDS BAC001, FiniteSetTheorems, WellFoundedInduction, TLAPS

-----------------------------------------------------------------------------
(* Sums.                                                                   *)

(* The numbers are well-founded.                                           *)
LEMMA SmallestOf ==
  ASSUME NEW T \in SUBSET Nat, T # {} PROVE \E m \in T : \A n \in T : m <= n
  <1>1. IsWellFoundedOn(OpToRel(<, Nat), Nat)
    BY NatLessThanWellFounded, Zenon
  <1>2. PICK m \in T : \A n \in T : ~(<<n, m>> \in OpToRel(<, Nat))
    BY <1>1, WFMin, Zenon
  <1>3. \A n \in T : ~(n < m)
    BY <1>2 DEF OpToRel
  <1>4. \A n \in T : n \in Nat
    OBVIOUS
  <1> QED BY <1>3, <1>4

(* Among subsets of a finite set there is one that contains no other of    *)
(* them: what fails for some subset fails for a least one.                 *)
LEMMA MinimalSet ==
  ASSUME NEW D, IsFiniteSet(D), NEW C \in SUBSET SUBSET D, C # {}
  PROVE  \E S \in C : \A s \in C : s \subseteq S => s = S
  <1> DEFINE sizes == {Cardinality(S) : S \in C}
  <1>1. ASSUME NEW S \in C PROVE IsFiniteSet(S) /\ Cardinality(S) \in Nat
    BY FS_Subset, FS_CardinalityType
  <1>2. sizes \in SUBSET Nat /\ sizes # {}
    BY <1>1
  <1>3. PICK m \in sizes : \A n \in sizes : m <= n
    BY <1>2, SmallestOf
  <1>4. PICK S \in C : Cardinality(S) = m
    BY <1>3
  <1>5. ASSUME NEW s \in C, s \subseteq S PROVE s = S
    <2>1. Cardinality(s) \in sizes
      OBVIOUS
    <2>2. Cardinality(S) <= Cardinality(s)
      BY <1>3, <1>4, <2>1
    <2>3. s # S => Cardinality(s) < Cardinality(S)
      BY <1>1, <1>5, FS_Subset
    <2> QED BY <1>1, <2>2, <2>3
  <1> QED BY <1>5

(* SumFunctionOnSet takes the element that CHOOSE names, and goes on with   *)
(* the others, by a recursive function on the subsets.                     *)
Chosen(s) == CHOOSE x \in s : TRUE

Iter(f, S, g) ==
  g = [s \in SUBSET S |-> IF s = {} THEN 0 ELSE f[Chosen(s)] + g[s \ {Chosen(s)}]]

(* This is how the community modules define it.                            *)
LEMMA SumByIter ==
  ASSUME NEW f, NEW S PROVE SumFunctionOnSet(f, S) = (CHOOSE g : Iter(f, S, g))[S]
  BY Zenon DEF SumFunctionOnSet, FoldFunctionOnSet, MapThenFoldSet, Iter, Chosen

(* The element taken is one of the set.                                    *)
LEMMA ChosenIn == ASSUME NEW s, s # {} PROVE Chosen(s) \in s
  BY DEF Chosen

(* Such a function takes one step after the other.                         *)
LEMMA IterAt ==
  ASSUME NEW f, NEW S, NEW g, Iter(f, S, g), NEW s \in SUBSET S
  PROVE  /\ s = {} => g[s] = 0
         /\ s # {} => g[s] = f[Chosen(s)] + g[s \ {Chosen(s)}]
  <1>1. g[s] = IF s = {} THEN 0 ELSE f[Chosen(s)] + g[s \ {Chosen(s)}]
    BY Zenon DEF Iter
  <1> QED BY <1>1

(* Two such functions agree where both are defined.                        *)
LEMMA IterUnique ==
  ASSUME NEW f, NEW S, NEW T, IsFiniteSet(S), NEW g, NEW h, Iter(f, S, g), Iter(f, T, h),
         NEW s \in SUBSET S, s \in SUBSET T
  PROVE  g[s] = h[s]
  <1> DEFINE C == {r \in SUBSET S : r \in SUBSET T /\ g[r] # h[r]}
  <1>1. SUFFICES ASSUME C # {} PROVE FALSE
    OBVIOUS
  <1>2. PICK r \in C : \A q \in C : q \subseteq r => q = r
    <2>1. C \in SUBSET SUBSET S
      OBVIOUS
    <2> HIDE DEF C
    <2> QED BY <1>1, <2>1, MinimalSet
  <1>3. r # {}
    BY IterAt
  <1>4. Chosen(r) \in r
    BY <1>3, ChosenIn
  <1>5. g[r \ {Chosen(r)}] = h[r \ {Chosen(r)}]
    BY <1>2, <1>4
  <1>6. g[r] = f[Chosen(r)] + g[r \ {Chosen(r)}]
    BY <1>3, IterAt
  <1>7. h[r] = f[Chosen(r)] + h[r \ {Chosen(r)}]
    BY <1>3, IterAt
  <1> QED BY <1>5, <1>6, <1>7

(* There is one for every finite set: those for the sets that lack an      *)
(* element are extended.                                                   *)
LEMMA IterExists ==
  ASSUME NEW f, NEW S, IsFiniteSet(S)
  PROVE  \E g : Iter(f, S, g)
  <1> DEFINE C == {T \in SUBSET S : ~\E g : Iter(f, T, g)}
  <1>1. SUFFICES ASSUME C # {} PROVE FALSE
    OBVIOUS
  <1>2. PICK T \in C : \A q \in C : q \subseteq T => q = T
    <2>1. C \in SUBSET SUBSET S
      OBVIOUS
    <2> HIDE DEF C
    <2> QED BY <1>1, <2>1, MinimalSet
  <1> DEFINE G(s) == CHOOSE g : Iter(f, s, g)
             h == [s \in SUBSET T |->
                     IF s = {} THEN 0
                     ELSE f[Chosen(s)] + G(s \ {Chosen(s)})[s \ {Chosen(s)}]]
  <1>3. ASSUME NEW s \in SUBSET T, s # T PROVE Iter(f, s, G(s))
    <2>1. \E g : Iter(f, s, g)
      BY <1>2, <1>3
    <2> QED BY <2>1
  <1>4. ASSUME NEW s \in SUBSET T, s # T PROVE h[s] = G(s)[s]
    <2>1. CASE s = {}
      <3>1. G(s)[s] = 0
        BY <1>3, <1>4, <2>1, IterAt
      <3> QED BY <2>1, <3>1
    <2>2. CASE s # {}
      <3> DEFINE r == s \ {Chosen(s)}
      <3>1. Chosen(s) \in s
        BY <2>2, ChosenIn
      <3>2. r \in SUBSET T /\ r # T /\ r \in SUBSET s
        BY <3>1
      <3>3. Iter(f, s, G(s)) /\ Iter(f, r, G(r))
        BY <1>3, <1>4, <3>2
      <3>4. IsFiniteSet(s)
        BY FS_Subset
      <3>5. G(s)[r] = G(r)[r]
        <4> HIDE DEF G, r
        <4> QED BY <3>2, <3>3, <3>4, IterUnique
      <3>6. G(s)[s] = f[Chosen(s)] + G(s)[r]
        <4> HIDE DEF G
        <4> QED BY <2>2, <3>3, IterAt
      <3>7. h[s] = f[Chosen(s)] + G(r)[r]
        <4> HIDE DEF G
        <4> QED BY <2>2
      <3> QED BY <3>5, <3>6, <3>7
    <2> QED BY <2>1, <2>2
  <1>5. ASSUME NEW s \in SUBSET T, s # {} PROVE h[s \ {Chosen(s)}] = G(s \ {Chosen(s)})[s \ {Chosen(s)}]
    <2>1. Chosen(s) \in s
      BY <1>5, ChosenIn
    <2>2. s \ {Chosen(s)} \in SUBSET T /\ s \ {Chosen(s)} # T
      BY <2>1
    <2> HIDE DEF h, G
    <2> QED BY <1>4, <2>2
  <1>6. Iter(f, T, h)
    <2>1. h = [s \in SUBSET T |-> IF s = {} THEN 0 ELSE f[Chosen(s)] + h[s \ {Chosen(s)}]]
      <3>1. \A s \in SUBSET T :
              (IF s = {} THEN 0 ELSE f[Chosen(s)] + h[s \ {Chosen(s)}])
              = (IF s = {} THEN 0 ELSE f[Chosen(s)] + G(s \ {Chosen(s)})[s \ {Chosen(s)}])
        <4> HIDE DEF h, G
        <4> QED BY <1>5
      <3> DEFINE A(s) == IF s = {} THEN 0 ELSE f[Chosen(s)] + h[s \ {Chosen(s)}]
                 B(s) == IF s = {} THEN 0 ELSE f[Chosen(s)] + G(s \ {Chosen(s)})[s \ {Chosen(s)}]
      <3>2. \A s \in SUBSET T : A(s) = B(s)
        BY <3>1, Zenon
      <3>3. h = [s \in SUBSET T |-> B(s)]
        BY Zenon
      <3>4. h = [s \in SUBSET T |-> A(s)]
        <4> HIDE DEF A, B, h
        <4> QED BY <3>2, <3>3
      <3> QED BY <3>4, Zenon
    <2> HIDE DEF h
    <2> QED BY <2>1 DEF Iter
  <1> QED BY <1>6

(* The sum over a set from the sum over what is left of it.                *)
LEMMA SumStep ==
  ASSUME NEW f, NEW S, IsFiniteSet(S)
  PROVE  /\ S = {} => SumFunctionOnSet(f, S) = 0
         /\ S # {} => SumFunctionOnSet(f, S)
                      = f[Chosen(S)] + SumFunctionOnSet(f, S \ {Chosen(S)})
  <1> DEFINE G(s) == CHOOSE g : Iter(f, s, g)
             r == S \ {Chosen(S)}
  <1>1. IsFiniteSet(r)
    BY FS_Subset
  <1>2. Iter(f, S, G(S)) /\ Iter(f, r, G(r))
    BY <1>1, IterExists
  <1>3. SumFunctionOnSet(f, S) = G(S)[S] /\ SumFunctionOnSet(f, r) = G(r)[r]
    BY SumByIter
  <1>4. G(S)[r] = G(r)[r]
    <2>1. r \in SUBSET S /\ r \in SUBSET r
      OBVIOUS
    <2> HIDE DEF G, r
    <2> QED BY <1>2, <2>1, IterUnique
  <1>5. S \in SUBSET S
    OBVIOUS
  <1>6. S = {} => G(S)[S] = 0
    <2> HIDE DEF G
    <2> QED BY <1>2, <1>5, IterAt
  <1>7. S # {} => G(S)[S] = f[Chosen(S)] + G(S)[r]
    <2> HIDE DEF G
    <2> QED BY <1>2, <1>5, IterAt
  <1> HIDE DEF G
  <1> QED BY <1>3, <1>4, <1>6, <1>7

NatOn(f, S) == \A x \in S : f[x] \in Nat

(* A sum of naturals is one.                                               *)
LEMMA SumType ==
  ASSUME NEW S, IsFiniteSet(S), NEW f, NatOn(f, S)
  PROVE  SumFunctionOnSet(f, S) \in Nat
  <1> DEFINE C == {s \in SUBSET S : SumFunctionOnSet(f, s) \notin Nat}
  <1>1. SUFFICES ASSUME C # {} PROVE FALSE
    BY DEF C
  <1>2. PICK s \in C : \A q \in C : q \subseteq s => q = s
    <2>1. C \in SUBSET SUBSET S
      OBVIOUS
    <2> HIDE DEF C
    <2> QED BY <1>1, <2>1, MinimalSet
  <1>3. IsFiniteSet(s)
    BY FS_Subset
  <1>4. CASE s = {}
    <2>1. SumFunctionOnSet(f, s) = 0
      BY <1>3, <1>4, SumStep
    <2> QED BY <2>1
  <1>5. CASE s # {}
    <2>1. Chosen(s) \in s
      BY <1>5, ChosenIn
    <2>2. SumFunctionOnSet(f, s) = f[Chosen(s)] + SumFunctionOnSet(f, s \ {Chosen(s)})
      BY <1>3, <1>5, SumStep
    <2>3. SumFunctionOnSet(f, s \ {Chosen(s)}) \in Nat
      BY <1>2, <2>1
    <2>4. f[Chosen(s)] \in Nat
      BY <2>1 DEF NatOn
    <2> QED BY <2>2, <2>3, <2>4
  <1> QED BY <1>4, <1>5

(* Any element may be taken first.                                         *)
LEMMA SumWithout ==
  ASSUME NEW S, IsFiniteSet(S), NEW f, NatOn(f, S), NEW x \in S
  PROVE  SumFunctionOnSet(f, S) = f[x] + SumFunctionOnSet(f, S \ {x})
  <1> DEFINE Sum(s) == SumFunctionOnSet(f, s)
             C == {s \in SUBSET S : \E y \in s : Sum(s) # f[y] + Sum(s \ {y})}
  <1>1. SUFFICES ASSUME C # {} PROVE FALSE
    <2>1. S \in SUBSET S
      OBVIOUS
    <2> QED BY <2>1
  <1>2. PICK s \in C : \A q \in C : q \subseteq s => q = s
    <2>1. C \in SUBSET SUBSET S
      OBVIOUS
    <2> HIDE DEF C
    <2> QED BY <1>1, <2>1, MinimalSet
  <1>3. PICK y \in s : Sum(s) # f[y] + Sum(s \ {y})
    BY <1>2
  <1> DEFINE c == Chosen(s)
             r == (s \ {y}) \ {c}
  <1>4. c \in s /\ y \in s /\ s \in SUBSET S
    BY <1>3, ChosenIn
  <1>5. Sum(s) = f[c] + Sum(s \ {c})
    <2>1. IsFiniteSet(s)
      BY FS_Subset
    <2> QED BY <1>4, <2>1, SumStep
  <1>6. c # y
    <2> HIDE DEF c, Sum
    <2> QED BY <1>3, <1>5
  <1>7. \A q \in SUBSET S : \A z \in q : q \subseteq s /\ q # s => Sum(q) = f[z] + Sum(q \ {z})
    <2> HIDE DEF Sum
    <2> QED BY <1>2
  <1>8. (s \ {c}) \ {y} = r
    OBVIOUS
  <1>9. Sum(s \ {c}) = f[y] + Sum(r)
    <2>1. s \ {c} \in SUBSET S /\ y \in s \ {c} /\ s \ {c} \subseteq s /\ s \ {c} # s
      BY <1>4, <1>6
    <2> HIDE DEF Sum, r, c
    <2> QED BY <1>7, <1>8, <2>1
  <1>10. Sum(s \ {y}) = f[c] + Sum(r)
    <2>1. s \ {y} \in SUBSET S /\ c \in s \ {y} /\ s \ {y} \subseteq s /\ s \ {y} # s
      BY <1>4, <1>6
    <2>2. r = (s \ {y}) \ {c}
      OBVIOUS
    <2> HIDE DEF Sum, r, c
    <2> QED BY <1>7, <2>1, <2>2
  <1>11. f[c] \in Nat /\ f[y] \in Nat
    BY <1>4 DEF NatOn
  <1>12. Sum(r) \in Nat
    <2>1. IsFiniteSet(r)
      BY FS_Subset
    <2>2. NatOn(f, r)
      BY <1>4 DEF NatOn
    <2> QED BY <2>1, <2>2, SumType
  <1> HIDE DEF Sum, c, r
  <1> QED BY <1>3, <1>5, <1>9, <1>10, <1>11, <1>12

(* A sum depends on the values only.                                       *)
LEMMA SumAgree ==
  ASSUME NEW S, IsFiniteSet(S), NEW f, NEW g, \A x \in S : f[x] = g[x]
  PROVE  SumFunctionOnSet(f, S) = SumFunctionOnSet(g, S)
  <1> DEFINE C == {s \in SUBSET S : SumFunctionOnSet(f, s) # SumFunctionOnSet(g, s)}
  <1>1. SUFFICES ASSUME C # {} PROVE FALSE
    BY DEF C
  <1>2. PICK s \in C : \A q \in C : q \subseteq s => q = s
    <2>1. C \in SUBSET SUBSET S
      OBVIOUS
    <2> HIDE DEF C
    <2> QED BY <1>1, <2>1, MinimalSet
  <1>3. IsFiniteSet(s)
    BY FS_Subset
  <1>4. CASE s = {}
    BY <1>3, <1>4, SumStep
  <1>5. CASE s # {}
    <2>1. Chosen(s) \in s
      BY <1>5, ChosenIn
    <2>2. /\ SumFunctionOnSet(f, s) = f[Chosen(s)] + SumFunctionOnSet(f, s \ {Chosen(s)})
          /\ SumFunctionOnSet(g, s) = g[Chosen(s)] + SumFunctionOnSet(g, s \ {Chosen(s)})
      BY <1>3, <1>5, SumStep
    <2>3. SumFunctionOnSet(f, s \ {Chosen(s)}) = SumFunctionOnSet(g, s \ {Chosen(s)})
      BY <1>2, <2>1
    <2>4. f[Chosen(s)] = g[Chosen(s)]
      BY <2>1
    <2> QED BY <2>2, <2>3, <2>4
  <1> QED BY <1>4, <1>5

(* Sums are added value by value.                                          *)
LEMMA SumPlus ==
  ASSUME NEW S, IsFiniteSet(S), NEW f, NEW g, NEW h, NatOn(f, S), NatOn(g, S),
         \A x \in S : h[x] = f[x] + g[x]
  PROVE  SumFunctionOnSet(h, S) = SumFunctionOnSet(f, S) + SumFunctionOnSet(g, S)
  <1> DEFINE Sum(k, s) == SumFunctionOnSet(k, s)
             C == {s \in SUBSET S : Sum(h, s) # Sum(f, s) + Sum(g, s)}
  <1>1. SUFFICES ASSUME C # {} PROVE FALSE
    BY DEF C
  <1>2. PICK s \in C : \A q \in C : q \subseteq s => q = s
    <2>1. C \in SUBSET SUBSET S
      OBVIOUS
    <2> HIDE DEF C
    <2> QED BY <1>1, <2>1, MinimalSet
  <1>3. IsFiniteSet(s)
    BY FS_Subset
  <1>4. CASE s = {}
    <2>1. Sum(f, s) = 0 /\ Sum(g, s) = 0 /\ Sum(h, s) = 0
      BY <1>3, <1>4, SumStep
    <2>2. Sum(h, s) = Sum(f, s) + Sum(g, s)
      <3> HIDE DEF Sum
      <3> QED BY <2>1
    <2> QED BY <2>2
  <1>5. CASE s # {}
    <2> DEFINE c == Chosen(s)
               r == s \ {c}
    <2>1. c \in s
      BY <1>5, ChosenIn
    <2>2. /\ Sum(f, s) = f[c] + Sum(f, r)
          /\ Sum(g, s) = g[c] + Sum(g, r)
          /\ Sum(h, s) = h[c] + Sum(h, r)
      BY <1>3, <1>5, SumStep
    <2>3. Sum(h, r) = Sum(f, r) + Sum(g, r)
      <3>1. r \in SUBSET S /\ r \subseteq s /\ r # s
        BY <2>1
      <3> HIDE DEF Sum, r
      <3> QED BY <1>2, <3>1
    <2>4. h[c] = f[c] + g[c] /\ f[c] \in Nat /\ g[c] \in Nat
      BY <2>1 DEF NatOn
    <2>5. Sum(f, r) \in Nat /\ Sum(g, r) \in Nat
      <3>1. IsFiniteSet(r) /\ NatOn(f, r) /\ NatOn(g, r)
        BY FS_Subset DEF NatOn
      <3> QED BY <3>1, SumType
    <2>6. Sum(h, s) = Sum(f, s) + Sum(g, s)
      <3> HIDE DEF Sum, c, r
      <3> QED BY <2>2, <2>3, <2>4, <2>5
    <2> QED BY <2>6
  <1> QED BY <1>4, <1>5

(* Natural numbers have a sum that is one. *)
LEMMA SumInNat ==
  ASSUME NEW S, IsFiniteSet(S), NEW f, f \in [S -> Nat]
  PROVE  SumFunction(f) \in Nat
  <1>1. NatOn(f, S) /\ SumFunction(f) = SumFunctionOnSet(f, S)
    BY DEF NatOn, SumFunction
  <1> QED BY <1>1, SumType

(* No value is above the sum of all.                                       *)
LEMMA SumAtLeast ==
  ASSUME NEW S, IsFiniteSet(S), NEW f \in [S -> Nat], NEW x \in S
  PROVE  SumFunction(f) \in Nat /\ f[x] <= SumFunction(f)
  <1>1. NatOn(f, S) /\ IsFiniteSet(S \ {x}) /\ NatOn(f, S \ {x})
    BY FS_Subset DEF NatOn
  <1>2. SumFunctionOnSet(f, S) \in Nat /\ SumFunctionOnSet(f, S \ {x}) \in Nat
    BY <1>1, SumType
  <1>3. SumFunctionOnSet(f, S) = f[x] + SumFunctionOnSet(f, S \ {x})
    BY <1>1, SumWithout
  <1>4. SumFunction(f) = SumFunctionOnSet(f, S)
    BY DEF SumFunction
  <1> QED BY <1>2, <1>3, <1>4

(* What a change of one value does to the sum.                             *)
LEMMA SumChange ==
  ASSUME NEW S, IsFiniteSet(S), NEW f, f \in [S -> Nat], NEW g, g \in [S -> Nat], NEW x \in S,
         \A y \in S : y # x => g[y] = f[y]
  PROVE  SumFunction(g) = (SumFunction(f) - f[x]) + g[x]
  <1> DEFINE rest == SumFunctionOnSet(f, S \ {x})
  <1>1. NatOn(f, S) /\ NatOn(g, S) /\ IsFiniteSet(S \ {x}) /\ NatOn(f, S \ {x})
    BY FS_Subset DEF NatOn
  <1>2. rest \in Nat
    BY <1>1, SumType
  <1>3. SumFunctionOnSet(f, S) = f[x] + rest
    BY <1>1, SumWithout
  <1>4. SumFunctionOnSet(g, S) = g[x] + SumFunctionOnSet(g, S \ {x})
    BY <1>1, SumWithout
  <1>5. SumFunctionOnSet(g, S \ {x}) = rest
    BY <1>1, SumAgree
  <1>6. SumFunction(f) = SumFunctionOnSet(f, S) /\ SumFunction(g) = SumFunctionOnSet(g, S)
    BY DEF SumFunction
  <1> HIDE DEF rest
  <1> QED BY <1>2, <1>3, <1>4, <1>5, <1>6

(* An update of one value changes the sum by the difference. *)
LEMMA SumExcept ==
  ASSUME NEW S, IsFiniteSet(S), NEW f \in [S -> Nat], NEW x \in S, NEW v \in Nat
  PROVE  SumFunction([f EXCEPT ![x] = v]) = (SumFunction(f) - f[x]) + v
  <1> DEFINE g == [f EXCEPT ![x] = v]
  <1>1. g \in [S -> Nat] /\ g[x] = v /\ \A y \in S : y # x => g[y] = f[y]
    OBVIOUS
  <1> HIDE DEF g
  <1>2. SumFunction(g) = (SumFunction(f) - f[x]) + g[x]
    BY <1>1, SumChange
  <1> QED BY <1>1, <1>2 DEF g

(* Nothing adds up to nothing.                                             *)
LEMMA SumOfZeros ==
  ASSUME NEW S, IsFiniteSet(S)
  PROVE  SumFunction([x \in S |-> 0]) = 0
  <1> DEFINE f == [x \in S |-> 0]
  <1>1. f \in [S -> Nat]
    OBVIOUS
  <1>2. NatOn(f, S) /\ \A x \in S : f[x] = f[x] + f[x]
    BY DEF NatOn
  <1>3. SumFunctionOnSet(f, S) = SumFunctionOnSet(f, S) + SumFunctionOnSet(f, S)
    <2> HIDE DEF f
    <2> QED BY <1>2, SumPlus
  <1>4. SumFunctionOnSet(f, S) \in Nat
    <2> HIDE DEF f
    <2> QED BY <1>2, SumType
  <1>5. SumFunction(f) = SumFunctionOnSet(f, S)
    BY <1>1 DEF SumFunction
  <1>6. \A n \in Nat : n = n + n => n = 0
    OBVIOUS
  <1>7. SumFunction(f) = 0
    <2> HIDE DEF f
    <2>1. SumFunctionOnSet(f, S) = 0
      BY <1>3, <1>4, <1>6, Zenon
    <2> QED BY <2>1, <1>5, Zenon
  <1> QED BY <1>7 DEF f

-----------------------------------------------------------------------------
(* What transactions do to the books.                                      *)

BooksInv ==
  /\ balances \in [Accounts -> Nat]
  /\ allowed \in [Accounts -> [Accounts -> Nat]]
  /\ totalAmount \in 0..MaxTotal
  /\ BooksBalance

(* The books start with what the deployer is issued.                       *)
LEMMA InitBooksInv == Init => BooksInv
  <1> SUFFICES ASSUME Init PROVE BooksInv
    OBVIOUS
  <1>1. Deployer \in Accounts /\ IsFiniteSet(Accounts) /\ Supply \in 0..MaxTotal /\ MaxTotal \in Nat
    BY PartiesAssumption, TermsAssumption
  <1> DEFINE empty == [a \in Accounts |-> 0]
  <1>2. balances = [empty EXCEPT ![Deployer] = Supply]
    BY DEF Init
  <1>3. empty \in [Accounts -> Nat] /\ empty[Deployer] = 0 /\ Supply \in Nat
    BY <1>1
  <1>4. SumFunction(empty) = 0
    BY <1>1, SumOfZeros
  <1> HIDE DEF empty
  <1>5. SumFunction(balances) = Supply
    <2>1. SumFunction(balances) = (SumFunction(empty) - empty[Deployer]) + Supply
      BY <1>1, <1>2, <1>3, SumExcept
    <2> QED BY <1>3, <1>4, <2>1
  <1>6. balances \in [Accounts -> Nat]
    BY <1>2, <1>3
  <1> QED BY <1>1, <1>5, <1>6 DEF Init, BooksInv, BooksBalance

(* _send, also of an account to itself.                                    *)
LEMMA SentBalance ==
  ASSUME NEW held \in [Accounts -> Nat], NEW from \in Accounts, NEW to \in Accounts,
         NEW value \in Nat, value <= held[from]
  PROVE  /\ Sent(held, from, to, value) \in [Accounts -> Nat]
         /\ SumFunction(Sent(held, from, to, value)) = SumFunction(held)
         /\ \A a \in Accounts :
              /\ a # from => Sent(held, from, to, value)[a] >= held[a]
              /\ a # from /\ a # to => Sent(held, from, to, value)[a] = held[a]
         /\ from # to => /\ Sent(held, from, to, value)[from] = held[from] - value
                         /\ Sent(held, from, to, value)[to] = held[to] + value
         /\ from = to => Sent(held, from, to, value)[to] = held[to]
  <1> DEFINE left == held[from] - value
             taken == [held EXCEPT ![from] = left]
             more == taken[to] + value
             sent == [taken EXCEPT ![to] = more]
  <1>1. IsFiniteSet(Accounts)
    BY PartiesAssumption
  <1>2. Sent(held, from, to, value) = sent
    BY DEF Sent
  <1>3. left \in Nat /\ left + value = held[from] /\ held[from] \in Nat
    OBVIOUS
  <1>4. /\ taken \in [Accounts -> Nat] /\ taken[from] = left
        /\ \A a \in Accounts : a # from => taken[a] = held[a]
    <2> HIDE DEF left
    <2> QED BY <1>3
  <1>5. SumFunction(taken) = (SumFunction(held) - held[from]) + left
    <2> HIDE DEF left
    <2> QED BY <1>1, <1>3, SumExcept
  <1>6. more \in Nat /\ taken[to] \in Nat
    <2> HIDE DEF taken
    <2> QED BY <1>4
  <1>7. /\ sent \in [Accounts -> Nat] /\ sent[to] = more
        /\ \A a \in Accounts : a # to => sent[a] = taken[a]
    <2> HIDE DEF more, taken
    <2> QED BY <1>4, <1>6
  <1>8. SumFunction(sent) = (SumFunction(taken) - taken[to]) + more
    <2> HIDE DEF more, taken
    <2> QED BY <1>1, <1>4, <1>6, SumExcept
  <1>9. SumFunction(held) \in Nat /\ SumFunction(taken) \in Nat
    <2> HIDE DEF taken
    <2> QED BY <1>1, <1>4, SumAtLeast
  <1>10. more = taken[to] + value
    OBVIOUS
  <1> HIDE DEF left, taken, more, sent
  <1>11. SumFunction(sent) = SumFunction(held)
    BY <1>3, <1>5, <1>6, <1>8, <1>9, <1>10
  <1>12. left = held[from] - value
    BY DEF left
  <1>13. \A a \in Accounts : held[a] \in Nat
    OBVIOUS
  <1>14. \A a \in Accounts : (a # from => sent[a] >= held[a]) /\ (a # from /\ a # to => sent[a] = held[a])
    BY <1>4, <1>7, <1>10, <1>13
  <1>15. from # to => sent[from] = held[from] - value /\ sent[to] = held[to] + value
    BY <1>4, <1>7, <1>10, <1>12
  <1>16. from = to => sent[to] = held[to]
    BY <1>3, <1>4, <1>7, <1>10
  <1> QED BY <1>2, <1>7, <1>11, <1>14, <1>15, <1>16

(* batchSend.                                                              *)
LEMMA PaidOutBalance ==
  ASSUME NEW held \in [Accounts -> Nat], NEW from \in Accounts,
         NEW due \in [Accounts -> Nat], due[from] = 0, SumFunction(due) <= held[from]
  PROVE  /\ PaidOut(held, from, due) \in [Accounts -> Nat]
         /\ SumFunction(PaidOut(held, from, due)) = SumFunction(held)
         /\ PaidOut(held, from, due)[from] = held[from] - SumFunction(due)
         /\ \A a \in Accounts : a # from => PaidOut(held, from, due)[a] >= held[a]
  <1> DEFINE total == SumFunction(due)
             added == [a \in Accounts |-> held[a] + due[a]]
             paid == [added EXCEPT ![from] = held[from] - total]
  <1>1. IsFiniteSet(Accounts)
    BY PartiesAssumption
  <1>2. total \in Nat /\ SumFunction(held) \in Nat
    BY <1>1, SumAtLeast
  <1>3. added \in [Accounts -> Nat] /\ added[from] = held[from] /\ held[from] - total \in Nat
    <2>1. held[from] \in Nat /\ total <= held[from]
      OBVIOUS
    <2>2. held[from] - total \in Nat
      <3> HIDE DEF total
      <3> QED BY <1>2, <2>1
    <2>3. added \in [Accounts -> Nat] /\ added[from] = held[from] + 0
      OBVIOUS
    <2> QED BY <2>1, <2>2, <2>3
  <1>4. SumFunction(added) = SumFunction(held) + total
    <2>1. NatOn(held, Accounts) /\ NatOn(due, Accounts)
      BY DEF NatOn
    <2>2. \A a \in Accounts : added[a] = held[a] + due[a]
      OBVIOUS
    <2>3. DOMAIN held = Accounts /\ DOMAIN due = Accounts /\ DOMAIN added = Accounts
      OBVIOUS
    <2> HIDE DEF added
    <2>4. SumFunctionOnSet(added, Accounts)
          = SumFunctionOnSet(held, Accounts) + SumFunctionOnSet(due, Accounts)
      BY <1>1, <2>1, <2>2, SumPlus
    <2> QED BY <2>3, <2>4 DEF SumFunction
  <1>5. SumFunction(paid) = (SumFunction(added) - added[from]) + (held[from] - total)
    <2> HIDE DEF added, total
    <2> QED BY <1>1, <1>3, SumExcept
  <1>6. SumFunction(paid) = SumFunction(held)
    <2> HIDE DEF added, total, paid
    <2> QED BY <1>2, <1>3, <1>4, <1>5
  <1>7. PaidOut(held, from, due) = paid
    BY <1>3 DEF PaidOut
  <1>8. paid \in [Accounts -> Nat] /\ paid[from] = held[from] - total
    <2> HIDE DEF added, total
    <2> QED BY <1>3
  <1>9. \A a \in Accounts : a # from => paid[a] >= held[a]
    OBVIOUS
  <1> QED BY <1>6, <1>7, <1>8, <1>9

(* What one account sends and another receives leaves the sum as it was. *)
LEMMA TransferBooks ==
  ASSUME BooksInv, NEW from \in Accounts, NEW to \in Accounts, NEW value \in Nat,
         value <= balances[from], balances' = Sent(balances, from, to, value),
         allowed' \in [Accounts -> [Accounts -> Nat]], totalAmount' = totalAmount
  PROVE  BooksInv'
  BY SentBalance DEF BooksInv, BooksBalance

(* A batch takes the sum of its amounts from the sender, and nothing from others. *)
LEMMA BatchBooks ==
  ASSUME BooksInv, NEW caller \in Accounts, NEW due \in [Accounts -> Nat],
         BatchSend(caller, due)
  PROVE  /\ BooksInv' /\ allowed' = allowed
         /\ balances'[caller] = balances[caller] - SumFunction(due)
         /\ \A a \in Accounts : a # caller => balances'[a] >= balances[a]
  <1>1. /\ due[caller] = 0 /\ SumFunction(due) <= balances[caller]
        /\ balances' = PaidOut(balances, caller, due)
        /\ UNCHANGED <<allowed, totalAmount>>
    BY DEF BatchSend
  <1> QED BY <1>1, PaidOutBalance DEF BooksInv, BooksBalance

(* An allowance is spent as the balance is.                                *)
LEMMA SendFromBooks ==
  ASSUME BooksInv, NEW caller \in Accounts, NEW from \in Accounts, NEW to \in Accounts,
         NEW value \in Nat, SendFrom(caller, from, to, value)
  PROVE  /\ BooksInv' /\ value <= allowed[from][caller]
         /\ balances' = Sent(balances, from, to, value) /\ value <= balances[from]
         /\ \A a, b \in Accounts : a # from => allowed'[a][b] = allowed[a][b]
         /\ \A b \in Accounts : allowed'[from][b] <= allowed[from][b]
  <1>1. /\ value <= balances[from] /\ value <= allowed[from][caller]
        /\ balances' = Sent(balances, from, to, value) /\ totalAmount' = totalAmount
        /\ allowed' = [allowed EXCEPT ![from][caller] = @ - value]
    BY DEF SendFrom
  <1>2. /\ allowed' \in [Accounts -> [Accounts -> Nat]]
        /\ \A a, b \in Accounts : a # from => allowed'[a][b] = allowed[a][b]
        /\ \A b \in Accounts : allowed'[from][b] <= allowed[from][b]
    BY <1>1 DEF BooksInv
  <1>3. BooksInv'
    BY <1>1, <1>2, TransferBooks
  <1> QED BY <1>1, <1>2, <1>3

(* _destroy and _issue change one balance and the total alike.             *)
LEMMA TotalBooks ==
  ASSUME BooksInv, NEW account \in Accounts, NEW v \in Nat,
         balances' = [balances EXCEPT ![account] = v],
         totalAmount' = (totalAmount - balances[account]) + v, totalAmount' <= MaxTotal,
         allowed' \in [Accounts -> [Accounts -> Nat]]
  PROVE  BooksInv'
  <1>1. IsFiniteSet(Accounts) /\ MaxTotal \in Nat
    BY PartiesAssumption, TermsAssumption
  <1>2. /\ balances \in [Accounts -> Nat] /\ totalAmount = SumFunction(balances)
        /\ balances' \in [Accounts -> Nat]
    BY DEF BooksInv, BooksBalance
  <1>3. SumFunction(balances') = (SumFunction(balances) - balances[account]) + v
    <2>1. balances'[account] = v /\ \A a \in Accounts : a # account => balances'[a] = balances[a]
      BY <1>2
    <2>2. PICK before, after : before = balances /\ after = balances'
      OBVIOUS
    <2>3. /\ before \in [Accounts -> Nat] /\ after \in [Accounts -> Nat]
          /\ \A a \in Accounts : a # account => after[a] = before[a]
      BY <1>2, <2>1, <2>2
    <2>4. SumFunction(after) = (SumFunction(before) - before[account]) + after[account]
      BY <1>1, <2>3, SumChange, SMTT(20)
    <2> QED BY <2>1, <2>2, <2>4
  <1>4. SumFunction(balances') \in Nat
    BY <1>1, <1>2, SumAtLeast
  <1>5. totalAmount' = SumFunction(balances')
    BY <1>2, <1>3
  <1> QED BY <1>1, <1>2, <1>4, <1>5 DEF BooksInv, BooksBalance

(* Destruction takes the same from an account and from the total. *)
LEMMA DestroyedBooks ==
  ASSUME BooksInv, NEW account \in Accounts, NEW value \in Nat, Destroyed(account, value),
         allowed' \in [Accounts -> [Accounts -> Nat]]
  PROVE  /\ BooksInv'
         /\ \A a \in Accounts : a # account \/ value = 0 => balances'[a] = balances[a]
  <1>1. /\ value <= balances[account]
        /\ balances' = [balances EXCEPT ![account] = @ - value]
        /\ totalAmount' = totalAmount - value
    BY DEF Destroyed
  <1>2. /\ balances \in [Accounts -> Nat] /\ totalAmount \in 0..MaxTotal /\ MaxTotal \in Nat
        /\ balances[account] \in Nat
    BY TermsAssumption DEF BooksInv
  <1> DEFINE v == balances[account] - value
  <1>3. /\ v \in Nat /\ totalAmount' = (totalAmount - balances[account]) + v
        /\ totalAmount' <= MaxTotal
    BY <1>1, <1>2
  <1>4. balances' = [balances EXCEPT ![account] = v]
    BY <1>1
  <1>5. \A a \in Accounts : a # account \/ value = 0 => balances'[a] = balances[a]
    BY <1>1, <1>2
  <1>6. BooksInv'
    <2> HIDE DEF v
    <2> QED BY <1>3, <1>4, TotalBooks
  <1> QED BY <1>5, <1>6

(* An issue adds the same to an account and to the total. *)
LEMMA IssueBooks ==
  ASSUME BooksInv, NEW caller, NEW to \in Accounts, NEW value \in Nat,
         Issue(caller, to, value)
  PROVE  /\ BooksInv' /\ allowed' = allowed
         /\ \A a \in Accounts : balances'[a] >= balances[a]
  <1>1. /\ totalAmount + value <= MaxTotal /\ totalAmount' = totalAmount + value
        /\ balances' = [balances EXCEPT ![to] = @ + value] /\ allowed' = allowed
    BY DEF Issue
  <1>2. /\ balances \in [Accounts -> Nat] /\ totalAmount \in 0..MaxTotal /\ MaxTotal \in Nat
        /\ balances[to] \in Nat
    BY TermsAssumption DEF BooksInv
  <1> DEFINE v == balances[to] + value
  <1>3. /\ v \in Nat /\ totalAmount' = (totalAmount - balances[to]) + v
        /\ totalAmount' <= MaxTotal
    BY <1>1, <1>2
  <1>4. balances' = [balances EXCEPT ![to] = v]
    BY <1>1
  <1>5. \A a \in Accounts : balances'[a] >= balances[a]
    BY <1>1, <1>2
  <1>6. allowed' \in [Accounts -> [Accounts -> Nat]]
    BY <1>1 DEF BooksInv
  <1>7. BooksInv'
    <2> HIDE DEF v
    <2> QED BY <1>3, <1>4, <1>6, TotalBooks
  <1> QED BY <1>1, <1>5, <1>7

(* approve, increaseAllowance and decreaseAllowance.                       *)
LEMMA AllowanceBooks ==
  ASSUME BooksInv, NEW caller \in Accounts, NEW spender \in Accounts, NEW value \in Nat,
         \/ Approve(caller, spender, value)
         \/ IncreaseAllowance(caller, spender, value)
         \/ DecreaseAllowance(caller, spender, value)
  PROVE  /\ BooksInv' /\ balances' = balances
         /\ \A a, b \in Accounts : a # caller => allowed'[a][b] = allowed[a][b]
  <1> DEFINE now == allowed[caller][spender]
  <1>1. now \in Nat
    BY DEF BooksInv
  <1>2. PICK amount \in Nat : SetAllowance(caller, spender, amount)
    <2>1. CASE Approve(caller, spender, value)
      BY <2>1 DEF Approve
    <2>2. CASE IncreaseAllowance(caller, spender, value)
      <3>1. now + value \in Nat /\ SetAllowance(caller, spender, now + value)
        BY <1>1, <2>2 DEF IncreaseAllowance
      <3> QED BY <3>1
    <2>3. CASE DecreaseAllowance(caller, spender, value)
      <3>1. now - value \in Nat /\ SetAllowance(caller, spender, now - value)
        BY <1>1, <2>3 DEF DecreaseAllowance
      <3> QED BY <3>1
    <2> QED BY <2>1, <2>2, <2>3
  <1> QED BY <1>2 DEF SetAllowance, BooksInv, BooksBalance

(* An account that sends no transactions and approved no spender keeps what *)
(* it holds.                                                               *)
ApprovesNobody(holder) == \A a \in Accounts : allowed[holder][a] = 0

Retains(holder) ==
  ApprovesNobody(holder) => ApprovesNobody(holder)' /\ balances'[holder] >= balances[holder]

(* Whatever users do to the asset keeps the books and robs no contract.    *)
LEMMA NextBooks ==
  ASSUME BooksInv, Next
  PROVE  BooksInv' /\ \A holder \in Accounts \ Users : Retains(holder)
  <1> DEFINE Kept == BooksInv' /\ \A holder \in Accounts \ Users : Retains(holder)
  <1>1. Users \subseteq Accounts /\ Values \subseteq Nat
    BY PartiesAssumption, TermsAssumption
  <1>2. \A a \in Accounts : balances[a] \in Nat /\ balances[a] >= balances[a]
    BY DEF BooksInv
  <1>3. ASSUME UNCHANGED <<balances, allowed, totalAmount>> PROVE Kept
    BY <1>2, <1>3 DEF BooksInv, BooksBalance, Retains, ApprovesNobody
  <1>4. ASSUME NEW caller \in Users, NEW value \in Values, Destroy(caller, value)
        PROVE  Kept
    <2>1. Destroyed(caller, value) /\ allowed' = allowed /\ caller \in Accounts /\ value \in Nat
      BY <1>1, <1>4 DEF Destroy
    <2>2. allowed' \in [Accounts -> [Accounts -> Nat]]
      BY <2>1 DEF BooksInv
    <2> QED BY <1>2, <2>1, <2>2, DestroyedBooks DEF Retains, ApprovesNobody
  <1>5. ASSUME NEW caller \in Users, NEW to \in Accounts, NEW value \in Values,
               Send(caller, to, value)
        PROVE  Kept
    <2>1. /\ caller \in Accounts /\ value \in Nat /\ value <= balances[caller]
          /\ balances' = Sent(balances, caller, to, value)
          /\ allowed' = allowed /\ totalAmount' = totalAmount
      BY <1>1, <1>5 DEF Send
    <2>2. balances \in [Accounts -> Nat] /\ allowed' \in [Accounts -> [Accounts -> Nat]]
      BY <2>1 DEF BooksInv
    <2>3. BooksInv'
      BY <2>1, <2>2, TransferBooks
    <2>4. \A a \in Accounts : a # caller => balances'[a] >= balances[a]
      BY <2>1, <2>2, SentBalance
    <2> QED BY <2>1, <2>3, <2>4 DEF Retains, ApprovesNobody
  <1>6. ASSUME NEW caller \in Users, NEW from \in Accounts, NEW value \in Values,
               DestroyFrom(caller, from, value)
        PROVE  Kept
    <2>1. /\ caller \in Accounts /\ value \in Nat /\ Destroyed(from, value)
          /\ value <= allowed[from][caller]
          /\ allowed' = [allowed EXCEPT ![from][caller] = @ - value]
      BY <1>1, <1>6 DEF DestroyFrom
    <2>2. allowed' \in [Accounts -> [Accounts -> Nat]]
      BY <2>1 DEF BooksInv
    <2>3. BooksInv' /\ \A a \in Accounts : a # from \/ value = 0 => balances'[a] = balances[a]
      BY <2>1, <2>2, DestroyedBooks
    <2>4. ASSUME NEW holder \in Accounts \ Users, ApprovesNobody(holder)
          PROVE  ApprovesNobody(holder)' /\ balances'[holder] = balances[holder]
      <3>1. holder = from => value = 0
        BY <2>1, <2>4 DEF ApprovesNobody
      <3>2. ApprovesNobody(holder)'
        BY <2>1, <2>4, <3>1 DEF ApprovesNobody, BooksInv
      <3> QED BY <2>3, <3>1, <3>2
    <2> QED BY <1>2, <2>3, <2>4 DEF Retains
  <1>7. ASSUME NEW caller \in Users, NEW from \in Accounts, NEW to \in Accounts,
               NEW value \in Values, SendFrom(caller, from, to, value)
        PROVE  Kept
    <2>1. caller \in Accounts /\ value \in Nat
      BY <1>1
    <2>2. /\ BooksInv' /\ value <= allowed[from][caller]
          /\ balances' = Sent(balances, from, to, value) /\ value <= balances[from]
          /\ \A a, b \in Accounts : a # from => allowed'[a][b] = allowed[a][b]
          /\ \A b \in Accounts : allowed'[from][b] <= allowed[from][b]
      BY <1>7, <2>1, SendFromBooks
    <2>3. /\ balances \in [Accounts -> Nat] /\ balances' \in [Accounts -> Nat]
          /\ \A a, b \in Accounts : allowed'[a][b] \in Nat /\ allowed[a][b] \in Nat
      BY <2>2 DEF BooksInv
    <2>4. ASSUME NEW holder \in Accounts \ Users, ApprovesNobody(holder)
          PROVE  ApprovesNobody(holder)' /\ balances'[holder] >= balances[holder]
      <3>1. holder = from => value = 0
        BY <2>1, <2>2, <2>4 DEF ApprovesNobody
      <3>2. ApprovesNobody(holder)'
        BY <2>2, <2>3, <2>4 DEF ApprovesNobody
      <3>3. CASE holder # from
        <4>1. balances'[holder] >= balances[holder]
          BY <2>1, <2>2, <2>3, <3>3, SentBalance
        <4> QED BY <3>2, <4>1
      <3>4. CASE holder = from
        <4>1. value = 0
          BY <3>1, <3>4
        <4>2. from # to => balances'[from] = balances[from] - value
          BY <2>1, <2>2, <2>3, SentBalance, SMTT(20)
        <4>3. from = to => balances'[from] = balances[from]
          BY <2>1, <2>2, <2>3, SentBalance
        <4> QED BY <1>2, <3>2, <3>4, <4>1, <4>2, <4>3
      <3> QED BY <3>2, <3>3, <3>4
    <2> QED BY <2>2, <2>4 DEF Retains
  <1>8. ASSUME NEW caller \in Users, NEW spender \in Accounts, NEW value \in Values,
               \/ Approve(caller, spender, value)
               \/ IncreaseAllowance(caller, spender, value)
               \/ DecreaseAllowance(caller, spender, value)
        PROVE  Kept
    <2>1. caller \in Accounts /\ value \in Nat
      BY <1>1
    <2>2. /\ BooksInv' /\ balances' = balances
          /\ \A a, b \in Accounts : a # caller => allowed'[a][b] = allowed[a][b]
      BY <1>8, <2>1, AllowanceBooks
    <2> QED BY <1>2, <2>2 DEF Retains, ApprovesNobody
  <1>9. ASSUME NEW caller \in Users, NEW due \in [Accounts -> Values \cup {0}],
               BatchSend(caller, due)
        PROVE  Kept
    <2>1. Values \cup {0} \subseteq Nat
      BY <1>1
    <2>2. caller \in Accounts /\ due \in [Accounts -> Nat]
      BY <1>1, <2>1
    <2> QED BY <1>9, <2>2, BatchBooks DEF Retains, ApprovesNobody
  <1>10. ASSUME NEW caller \in Users, NEW to \in Accounts, NEW value \in Values,
                Issue(caller, to, value)
         PROVE  Kept
    <2>1. value \in Nat
      BY <1>1
    <2> QED BY <1>10, <2>1, IssueBooks DEF Retains, ApprovesNobody
  <1>11. ASSUME RolesNext, UNCHANGED assetVars PROVE Kept
    BY <1>3, <1>11 DEF assetVars
  <1> HIDE DEF Kept
  <1>12. Kept
    <2>1. CASE HolderNext
      BY <1>4, <1>5, <1>6, <1>7, <1>8, <1>9, <2>1 DEF HolderNext
    <2>2. CASE OwnerNext
      BY <1>10, <1>11, <2>2 DEF OwnerNext
    <2> QED BY <2>1, <2>2 DEF Next
  <1> QED BY <1>12 DEF Kept

-----------------------------------------------------------------------------
(* Roles are held by users.                                                *)
LEMMA RolesTypes == RolesTypeOK /\ [RolesNext]_roleVars => RolesTypeOK'
  BY DEF RolesTypeOK, RolesNext, roleVars, AddIssuer, RenounceIssuer, AddSuspender,
         RenounceSuspender, Suspend, UnSuspend

(* The inductive invariant: the types, and the books.                      *)
AssetInv == RolesTypeOK /\ BooksInv

(* The supply is all in the hands of the deployer. *)
LEMMA InitAssetInv == Init => AssetInv
  BY InitBooksInv, PartiesAssumption DEF AssetInv, Init, RolesInit, RolesTypeOK

(* Every transaction keeps the books, and what contracts hold. *)
LEMMA NextAssetInv ==
  AssetInv /\ [Next]_vars
    => AssetInv' /\ \A holder \in Accounts \ Users : Retains(holder)
  <1> SUFFICES ASSUME AssetInv, [Next]_vars
               PROVE  AssetInv' /\ \A holder \in Accounts \ Users : Retains(holder)
    OBVIOUS
  <1>1. RolesTypeOK'
    <2>1. [RolesNext]_roleVars
      BY DEF Next, HolderNext, OwnerNext, vars, Send, SendFrom, BatchSend, Approve,
             IncreaseAllowance, DecreaseAllowance, SetAllowance, Destroy, DestroyFrom, Issue
    <2> QED BY <2>1, RolesTypes DEF AssetInv
  <1>2. CASE Next
    BY <1>1, <1>2, NextBooks DEF AssetInv
  <1>3. CASE UNCHANGED vars
    <2>1. \A a \in Accounts : balances[a] \in Nat /\ balances[a] >= balances[a]
      BY DEF AssetInv, BooksInv
    <2> QED BY <1>1, <1>3, <2>1 DEF vars, assetVars, AssetInv, BooksInv, BooksBalance, Retains,
                                    ApprovesNobody
  <1> QED BY <1>2, <1>3

(* The invariant holds in every reachable state. *)
LEMMA SpecAssetInv == Spec => []AssetInv
  BY InitAssetInv, NextAssetInv, PTL DEF Spec

(* The asset's variables hold values of their types: nothing is sent,      *)
(* destroyed or taken off an allowance that is not there.                  *)
THEOREM FungibleTypes == Spec => []TypeOK
  <1>1. AssetInv => TypeOK
    BY DEF AssetInv, BooksInv, TypeOK
  <1> QED BY SpecAssetInv, <1>1, PTL

(* What the accounts hold is what was issued and not destroyed.            *)
THEOREM BooksAlwaysBalance == Spec => []BooksBalance
  <1>1. AssetInv => BooksBalance
    BY DEF AssetInv, BooksInv
  <1> QED BY SpecAssetInv, <1>1, PTL

(* No two accounts together hold more than the greatest uint256: the        *)
(* addition to a balance, which the model leaves unchecked, cannot fail.   *)
THEOREM AdditionsDoNotOverflow ==
  Spec => [](\A from, to \in Accounts : from # to => balances[from] + balances[to] <= MaxTotal)
  <1> DEFINE Fits == \A from, to \in Accounts : from # to => balances[from] + balances[to] <= MaxTotal
  <1>1. ASSUME AssetInv, NEW from \in Accounts, NEW to \in Accounts, from # to
        PROVE  balances[from] + balances[to] <= MaxTotal
    <2> DEFINE emptied == [balances EXCEPT ![from] = 0]
    <2>1. /\ IsFiniteSet(Accounts) /\ MaxTotal \in Nat /\ balances \in [Accounts -> Nat]
          /\ SumFunction(balances) = totalAmount /\ totalAmount <= MaxTotal
          /\ balances[from] \in Nat /\ balances[to] \in Nat /\ totalAmount \in Nat
      BY <1>1, PartiesAssumption, TermsAssumption DEF AssetInv, BooksInv, BooksBalance
    <2>2. /\ emptied \in [Accounts -> Nat] /\ emptied[from] = 0 /\ emptied[to] = balances[to]
          /\ \A a \in Accounts : a # from => emptied[a] = balances[a]
      BY <1>1, <2>1
    <2> HIDE DEF emptied
    <2>3. SumFunction(emptied) = (SumFunction(balances) - balances[from]) + 0
      BY <2>1, <2>2, SumChange
    <2>4. emptied[to] <= SumFunction(emptied)
      BY <2>1, <2>2, SumAtLeast
    <2> QED BY <2>1, <2>2, <2>3, <2>4
  <1>2. AssetInv => Fits
    BY <1>1
  <1> QED BY SpecAssetInv, <1>2, PTL

(* Nothing is taken from a contract that approved no spender, whatever      *)
(* users send and destroy on behalf of others.                             *)
THEOREM ContractsAreNotRobbed ==
  Spec => [][\A holder \in Accounts \ Users : Retains(holder)]_vars
  BY InitAssetInv, NextAssetInv, PTL DEF Spec
=============================================================================
