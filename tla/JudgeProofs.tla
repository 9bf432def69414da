------------------------------ MODULE JudgeProofs ------------------------------
(* What is proved of the judging, for every rubric, every call and every   *)
(* answer the judge and its server can give: sums over finite sets, which  *)
(* the model folds, the budget of a prompt, the merge of the samples, the  *)
(* total, the steps that are left, the cards a report counts, what the     *)
(* management report may show, that its figures add up, and that it names  *)
(* no banker on the wrong side.                                            *)
EXTENDS Judge, FiniteSetTheorems, WellFoundedInduction, TLAPS

\* A set of natural numbers that is not empty has a smallest element.
LEMMA SmallestIn ==
    ASSUME NEW S \in SUBSET Nat, S # {}
    PROVE  \E x \in S : \A y \in S : x <= y
<1> DEFINE R == OpToRel(<, Nat)
<1>1. IsWellFoundedOn(R, Nat)
    BY NatLessThanWellFounded
<1>2. PICK x \in S : \A y \in S : <<y, x>> \notin R
  <2> HIDE DEF R
  <2> QED BY <1>1, WFMin
<1>3. \A y \in S : y < x => <<y, x>> \in R
    BY DEF OpToRel
<1>4. \A y \in S : ~(y < x)
  <2> HIDE DEF R
  <2> QED BY <1>2, <1>3
<1> QED BY <1>4

\* Induction over the finite sets: of some subsets of a finite set, one has
\* no other one of them inside.
LEMMA MinimalSet ==
    ASSUME NEW U, IsFiniteSet(U), NEW Bad \in SUBSET (SUBSET U), Bad # {}
    PROVE  \E s \in Bad : \A t \in SUBSET s : t # s => t \notin Bad
<1> DEFINE Sizes == {Cardinality(s) : s \in Bad}
<1>1. \A s \in SUBSET U : IsFiniteSet(s) /\ Cardinality(s) \in Nat
    BY FS_Subset, FS_CardinalityType
<1>2. Sizes \in SUBSET Nat /\ Sizes # {}
    BY <1>1
<1>3. PICK n \in Sizes : \A m \in Sizes : n <= m
  <2> HIDE DEF Sizes
  <2> QED BY <1>2, SmallestIn
<1>4. PICK s \in Bad : Cardinality(s) = n
    BY <1>3
<1>5. ASSUME NEW t \in SUBSET s, t # s, t \in Bad PROVE FALSE
  <2>1. Cardinality(t) < Cardinality(s)
    BY <1>1, <1>5, FS_Subset
  <2>2. Cardinality(t) \in Sizes
    BY <1>5
  <2>3. Cardinality(t) \in Nat /\ Cardinality(s) \in Nat
    BY <1>1, <1>5
  <2> QED BY <1>3, <1>4, <2>1, <2>2, <2>3
<1> QED BY <1>5

-----------------------------------------------------------------------------
(* Sums over finite sets.                                                  *)

Choice(s) == CHOOSE x \in s : TRUE

\* `it` sums F over every subset of S, one chosen element at a time.
Adds(it, F, S) ==
    it = [s \in SUBSET S |->
            IF s = {} THEN 0 ELSE F[Choice(s)] + it[s \ {Choice(s)}]]

Iter(F, S) == CHOOSE it : Adds(it, F, S)
SumOf(F, S) == Iter(F, S)[S]
Integral(F, S) == IsFiniteSet(S) /\ \A x \in S : F[x] \in Int

\* The model's sums are these.
LEMMA SumIs == ASSUME NEW f PROVE Sum(f) = SumOf(f, DOMAIN f)
BY DEF Sum, FoldFunction, FoldFunctionOnSet, MapThenFoldSet, SumOf, Iter, Adds, Choice

LEMMA Chosen == ASSUME NEW s, s # {} PROVE Choice(s) \in s
BY DEF Choice

\* There is such a function: built up over the subsets of one size after
\* another.
LEMMA IterExists ==
    ASSUME NEW F, NEW S, IsFiniteSet(S)
    PROVE  Adds(Iter(F, S), F, S)
<1> DEFINE Small(n) == {s \in SUBSET S : Cardinality(s) <= n}
           Up(it, n) == [s \in Small(n) |->
                           IF s = {} THEN 0 ELSE F[Choice(s)] + it[s \ {Choice(s)}]]
           Bad == {n \in Nat : \A it : it # Up(it, n)}
<1>1. \A s \in SUBSET S : IsFiniteSet(s) /\ Cardinality(s) \in Nat
    BY FS_Subset, FS_CardinalityType
<1>2. 0 \notin Bad
  <2>1. \A s \in Small(0) : s = {}
    BY <1>1, FS_EmptySet
  <2> DEFINE it == [s \in Small(0) |-> 0]
  <2>2. it = Up(it, 0)
    BY <2>1
  <2> QED BY <2>2
<1>3. ASSUME NEW n \in Nat, n \notin Bad PROVE n + 1 \notin Bad
  <2>1. PICK f : f = Up(f, n)
    BY <1>3
  <2> DEFINE g == Up(f, n + 1)
  <2>2. \A s \in SUBSET S : s # {} =>
           /\ s \ {Choice(s)} \in SUBSET S
           /\ Cardinality(s \ {Choice(s)}) = Cardinality(s) - 1
    BY <1>1, Chosen, FS_RemoveElement
  <2>3. \A s \in Small(n) : s \in Small(n + 1) /\ g[s] = f[s]
    <3>1. \A s \in Small(n) : s \in Small(n + 1)
        BY <1>1
    <3>2. \A s \in Small(n) : f[s] = IF s = {} THEN 0 ELSE F[Choice(s)] + f[s \ {Choice(s)}]
      <4> HIDE DEF Small
      <4> QED BY <2>1
    <3> HIDE DEF Small
    <3> QED BY <3>1, <3>2
  <2>4. \A s \in Small(n + 1) : s # {} => s \ {Choice(s)} \in Small(n)
    BY <1>1, <2>2
  <2>5. g = Up(g, n + 1)
    <3> HIDE DEF Small
    <3> QED BY <2>3, <2>4
  <2>6. g = Up(g, n + 1) => n + 1 \notin Bad
    <3> HIDE DEF Small
    <3> QED OBVIOUS
  <2> QED BY <2>5, <2>6
<1>4. Bad = {}
  <2> SUFFICES ASSUME Bad # {} PROVE FALSE
    OBVIOUS
  <2>1. Bad \in SUBSET Nat
    OBVIOUS
  <2> HIDE DEF Bad
  <2>2. PICK n \in Bad : \A m \in Bad : n <= m
    BY <2>1, SmallestIn
  <2>3. n \in Nat /\ n # 0
    BY <1>2, <2>1, <2>2
  <2>4. n - 1 \in Nat /\ n - 1 \notin Bad
    BY <2>2, <2>3
  <2>5. (n - 1) + 1 \notin Bad
    BY <1>3, <2>4
  <2> QED BY <2>2, <2>3, <2>5
<1>5. Small(Cardinality(S)) = SUBSET S
    BY <1>1, FS_Subset
<1>6. Cardinality(S) \in Nat
    BY <1>1
<1>7. \E it : it = Up(it, Cardinality(S))
  <2>1. \A n \in Nat : n \notin Bad => \E it : it = Up(it, n)
    <3> HIDE DEF Up
    <3> QED OBVIOUS
  <2> HIDE DEF Bad, Up
  <2> QED BY <1>4, <1>6, <2>1
<1>8. \E it : Adds(it, F, S)
  <2> HIDE DEF Small
  <2> QED BY <1>5, <1>7 DEF Adds
<1> QED BY <1>8 DEF Iter

LEMMA SumIn ==
    ASSUME NEW F, NEW S, IsFiniteSet(S), NEW s \in SUBSET S
    PROVE  Iter(F, S)[s] = IF s = {} THEN 0
                           ELSE F[Choice(s)] + Iter(F, S)[s \ {Choice(s)}]
<1>1. Adds(Iter(F, S), F, S)
    BY IterExists
<1> DEFINE it == Iter(F, S)
<1>2. it = [t \in SUBSET S |->
              IF t = {} THEN 0 ELSE F[Choice(t)] + it[t \ {Choice(t)}]]
    BY <1>1 DEF Adds
<1> HIDE DEF it
<1>3. it[s] = IF s = {} THEN 0 ELSE F[Choice(s)] + it[s \ {Choice(s)}]
    BY <1>2
<1> QED BY <1>3 DEF it

\* A sum does not depend on the set of which a set is a part.
LEMMA SumInside ==
    ASSUME NEW F, NEW U, IsFiniteSet(U), NEW V \in SUBSET U, NEW v \in SUBSET V
    PROVE  Iter(F, V)[v] = SumOf(F, v)
<1> DEFINE Bad == {s \in SUBSET U : \E S \in SUBSET U : s \subseteq S /\ Iter(F, S)[s] # SumOf(F, s)}
<1> SUFFICES ASSUME Bad # {} PROVE FALSE
    OBVIOUS
<1>1. PICK s \in Bad : \A t \in SUBSET s : t # s => t \notin Bad
  <2>1. Bad \in SUBSET (SUBSET U)
    OBVIOUS
  <2> HIDE DEF Bad
  <2> QED BY <2>1, MinimalSet
<1>2. PICK S \in SUBSET U : s \subseteq S /\ Iter(F, S)[s] # SumOf(F, s)
    OBVIOUS
<1>3. IsFiniteSet(S) /\ IsFiniteSet(s)
    BY <1>2, FS_Subset
<1>4. CASE s = {}
    BY <1>2, <1>3, <1>4, SumIn DEF SumOf
<1>5. CASE s # {}
  <2> DEFINE rest == s \ {Choice(s)}
  <2>1. rest \in SUBSET s /\ rest # s
    BY <1>5, Chosen
  <2>2. rest \notin Bad
  <3> HIDE DEF Bad, rest
  <3> QED BY <1>1, <2>1
  <2>3. Iter(F, S)[rest] = SumOf(F, rest) /\ Iter(F, s)[rest] = SumOf(F, rest)
    BY <1>1, <1>2, <2>1, <2>2
  <2>4. Iter(F, S)[s] = F[Choice(s)] + Iter(F, S)[rest]
    BY <1>2, <1>3, <1>5, SumIn
  <2>5. SumOf(F, s) = F[Choice(s)] + Iter(F, s)[rest]
    BY <1>3, <1>5, SumIn DEF SumOf
  <2> QED BY <1>2, <2>3, <2>4, <2>5
<1> QED BY <1>4, <1>5

LEMMA SumStep ==
    ASSUME NEW F, NEW S, IsFiniteSet(S)
    PROVE  SumOf(F, S) = IF S = {} THEN 0
                         ELSE F[Choice(S)] + SumOf(F, S \ {Choice(S)})
<1>1. SumOf(F, S) = IF S = {} THEN 0
                    ELSE F[Choice(S)] + Iter(F, S)[S \ {Choice(S)}]
    BY SumIn DEF SumOf
<1>2. Iter(F, S)[S \ {Choice(S)}] = SumOf(F, S \ {Choice(S)})
    BY SumInside
<1> QED BY <1>1, <1>2

\* Only what is given on the set counts.
LEMMA SumSame ==
    ASSUME NEW F, NEW G, NEW S, IsFiniteSet(S), \A x \in S : F[x] = G[x]
    PROVE  SumOf(F, S) = SumOf(G, S)
<1> DEFINE Bad == {s \in SUBSET S : SumOf(F, s) # SumOf(G, s)}
<1> SUFFICES ASSUME Bad # {} PROVE FALSE
    OBVIOUS
<1>1. PICK s \in Bad : \A t \in SUBSET s : t # s => t \notin Bad
  <2>1. Bad \in SUBSET (SUBSET S)
    OBVIOUS
  <2> HIDE DEF Bad
  <2> QED BY <2>1, MinimalSet
<1>2. IsFiniteSet(s)
    BY FS_Subset
<1>3. s # {}
  <2> SUFFICES ASSUME s = {} PROVE FALSE
    OBVIOUS
  <2>1. SumOf(F, s) = 0 /\ SumOf(G, s) = 0
    BY <1>2, SumStep
  <2> QED BY <1>1, <2>1
<1> DEFINE c == Choice(s)
           rest == s \ {c}
<1>4. SumOf(F, s) = F[c] + SumOf(F, rest) /\ SumOf(G, s) = G[c] + SumOf(G, rest)
    BY <1>2, <1>3, SumStep
<1>5. c \in S /\ rest \in SUBSET s /\ rest # s
    BY <1>3, Chosen
<1>6. rest \notin Bad
  <2> HIDE DEF Bad, rest
  <2> QED BY <1>1, <1>5
<1>7. SumOf(F, rest) = SumOf(G, rest) /\ F[c] = G[c]
    BY <1>5, <1>6
<1>8. SumOf(F, s) # SumOf(G, s)
    BY <1>1
<1> HIDE DEF rest, c
<1> QED BY <1>4, <1>7, <1>8

LEMMA SumType ==
    ASSUME NEW F, NEW S, Integral(F, S) PROVE SumOf(F, S) \in Int
<1> DEFINE Bad == {s \in SUBSET S : SumOf(F, s) \notin Int}
<1> SUFFICES ASSUME Bad # {} PROVE FALSE
    OBVIOUS
<1>1. PICK s \in Bad : \A t \in SUBSET s : t # s => t \notin Bad
  <2>1. Bad \in SUBSET (SUBSET S) /\ IsFiniteSet(S)
    BY DEF Integral
  <2> HIDE DEF Bad
  <2> QED BY <2>1, MinimalSet
<1>2. IsFiniteSet(s)
    BY FS_Subset DEF Integral
<1>3. s # {}
  <2> SUFFICES ASSUME s = {} PROVE FALSE
    OBVIOUS
  <2>1. SumOf(F, s) = 0
    BY <1>2, SumStep
  <2> QED BY <1>1, <2>1
<1>4. SumOf(F, s) = F[Choice(s)] + SumOf(F, s \ {Choice(s)})
    BY <1>2, <1>3, SumStep
<1>5. F[Choice(s)] \in Int
    BY <1>3, Chosen DEF Integral
<1>6. s \ {Choice(s)} \notin Bad
  <2>1. s \ {Choice(s)} \in SUBSET s /\ s \ {Choice(s)} # s
    BY <1>3, Chosen
  <2> HIDE DEF Bad
  <2> QED BY <1>1, <2>1
<1>7. SumOf(F, s \ {Choice(s)}) \in Int
    BY <1>6
<1> QED BY <1>1, <1>4, <1>5, <1>7

\* Any element may be taken out first.
LEMMA SumWithout ==
    ASSUME NEW F, NEW S, Integral(F, S), NEW e \in S
    PROVE  SumOf(F, S) = F[e] + SumOf(F, S \ {e})
<1> DEFINE Bad == {s \in SUBSET S : \E x \in s : SumOf(F, s) # F[x] + SumOf(F, s \ {x})}
<1> SUFFICES ASSUME Bad # {} PROVE FALSE
    OBVIOUS
<1>1. PICK s \in Bad : \A t \in SUBSET s : t # s => t \notin Bad
  <2>1. Bad \in SUBSET (SUBSET S) /\ IsFiniteSet(S)
    BY DEF Integral
  <2> HIDE DEF Bad
  <2> QED BY <2>1, MinimalSet
<1>2. PICK x \in s : SumOf(F, s) # F[x] + SumOf(F, s \ {x})
    OBVIOUS
<1> DEFINE c == Choice(s)
<1>3. c \in s
    BY <1>2, Chosen
<1> HIDE DEF c
<1>4. IsFiniteSet(s) /\ IsFiniteSet(s \ {x}) /\ Integral(F, (s \ {c}) \ {x})
    BY FS_Subset DEF Integral
<1>5. SumOf(F, s) = F[c] + SumOf(F, s \ {c})
    BY <1>2, <1>4, SumStep DEF c
<1>6. c # x
    BY <1>2, <1>5
<1>7. s \ {c} \notin Bad /\ s \ {x} \notin Bad
  <2> HIDE DEF Bad
  <2> QED BY <1>1, <1>2, <1>3
<1>8. SumOf(F, s \ {c}) = F[x] + SumOf(F, (s \ {c}) \ {x})
    BY <1>6, <1>7
<1>9. SumOf(F, s \ {x}) = F[c] + SumOf(F, (s \ {x}) \ {c})
    BY <1>3, <1>6, <1>7
<1>10. (s \ {x}) \ {c} = (s \ {c}) \ {x}
    OBVIOUS
<1>11. F[x] \in Int /\ F[c] \in Int /\ SumOf(F, (s \ {c}) \ {x}) \in Int
  <2>1. SumOf(F, (s \ {c}) \ {x}) \in Int
    BY <1>4, SumType
  <2> QED BY <1>3, <2>1 DEF Integral
<1>12. \A m, n, r \in Int : m + (n + r) = n + (m + r)
    OBVIOUS
<1>13. F[c] + (F[x] + SumOf(F, (s \ {c}) \ {x})) = F[x] + (F[c] + SumOf(F, (s \ {c}) \ {x}))
    BY <1>11, <1>12
<1> QED BY <1>2, <1>5, <1>8, <1>9, <1>10, <1>13

\* The sum over two sets that have nothing in common.
LEMMA SumSplit ==
    ASSUME NEW F, NEW A, NEW B, Integral(F, A \cup B), A \cap B = {}
    PROVE  SumOf(F, A \cup B) = SumOf(F, A) + SumOf(F, B)
<1> DEFINE Bad == {s \in SUBSET A : SumOf(F, s \cup B) # SumOf(F, s) + SumOf(F, B)}
<1> SUFFICES ASSUME Bad # {} PROVE FALSE
    OBVIOUS
<1>0. IsFiniteSet(A) /\ IsFiniteSet(B) /\ Integral(F, B)
    BY FS_Subset DEF Integral
<1>1. PICK s \in Bad : \A t \in SUBSET s : t # s => t \notin Bad
  <2>1. Bad \in SUBSET (SUBSET A)
    OBVIOUS
  <2> HIDE DEF Bad
  <2> QED BY <1>0, <2>1, MinimalSet
<1>2. /\ Integral(F, s \cup B) /\ Integral(F, s)
      /\ \A x : Integral(F, s \ {x})
    BY FS_Subset DEF Integral
<1>3. SumOf(F, B) \in Int /\ \A x : SumOf(F, s \ {x}) \in Int
    BY <1>0, <1>2, SumType
<1>6. SumOf(F, s \cup B) # SumOf(F, s) + SumOf(F, B)
    BY <1>1
<1>4. CASE s = {}
  <2>1. SumOf(F, s) = 0
    BY <1>2, <1>4, SumStep DEF Integral
  <2>2. s \cup B = B
    BY <1>4
  <2>3. \A n \in Int : 0 + n = n
    OBVIOUS
  <2> QED BY <1>3, <1>6, <2>1, <2>2, <2>3
<1>5. CASE s # {}
  <2>1. PICK x : x \in s
    BY <1>5
  <2>2. SumOf(F, s) = F[x] + SumOf(F, s \ {x})
    BY <1>2, <2>1, SumWithout
  <2>3. SumOf(F, s \cup B) = F[x] + SumOf(F, (s \cup B) \ {x})
    BY <1>2, <2>1, SumWithout
  <2>4. (s \cup B) \ {x} = (s \ {x}) \cup B
    BY <2>1
  <2>5. s \ {x} \notin Bad
    <3> HIDE DEF Bad
    <3> QED BY <1>1, <2>1
  <2>6. SumOf(F, (s \ {x}) \cup B) = SumOf(F, s \ {x}) + SumOf(F, B)
    BY <2>5
  <2>7. F[x] \in Int
    BY <1>2, <2>1 DEF Integral
  <2>8. \A m, n, r \in Int : m + (n + r) = (m + n) + r
    OBVIOUS
  <2>9. F[x] + (SumOf(F, s \ {x}) + SumOf(F, B)) = (F[x] + SumOf(F, s \ {x})) + SumOf(F, B)
    <3>1. SumOf(F, s \ {x}) \in Int /\ SumOf(F, B) \in Int
        BY <1>3
    <3> QED BY <2>7, <2>8, <3>1
  <2>10. SumOf(F, s \cup B) = F[x] + SumOf(F, (s \ {x}) \cup B)
    BY <2>3, <2>4
  <2>11. SumOf(F, s \cup B) = (F[x] + SumOf(F, s \ {x})) + SumOf(F, B)
    BY <2>6, <2>9, <2>10
  <2> QED BY <1>6, <2>2, <2>11
<1> QED BY <1>4, <1>5

\* What is larger everywhere has the larger sum.
LEMMA SumGrows ==
    ASSUME NEW F, NEW G, NEW S, Integral(F, S), Integral(G, S),
           \A x \in S : F[x] <= G[x]
    PROVE  SumOf(F, S) <= SumOf(G, S)
<1> DEFINE Bad == {s \in SUBSET S : ~(SumOf(F, s) <= SumOf(G, s))}
<1> SUFFICES ASSUME Bad # {} PROVE FALSE
    OBVIOUS
<1>1. PICK s \in Bad : \A t \in SUBSET s : t # s => t \notin Bad
  <2>1. Bad \in SUBSET (SUBSET S) /\ IsFiniteSet(S)
    BY DEF Integral
  <2> HIDE DEF Bad
  <2> QED BY <2>1, MinimalSet
<1>2. IsFiniteSet(s)
    BY FS_Subset DEF Integral
<1>3. s # {}
  <2> SUFFICES ASSUME s = {} PROVE FALSE
    OBVIOUS
  <2>1. SumOf(F, s) = 0 /\ SumOf(G, s) = 0
    BY <1>2, SumStep
  <2> QED BY <1>1, <2>1
<1> DEFINE c == Choice(s)
           rest == s \ {c}
<1>4. SumOf(F, s) = F[c] + SumOf(F, rest) /\ SumOf(G, s) = G[c] + SumOf(G, rest)
    BY <1>2, <1>3, SumStep
<1>5. c \in S /\ rest \in SUBSET s /\ rest # s
    BY <1>3, Chosen
<1>6. rest \notin Bad
  <2> HIDE DEF Bad, rest
  <2> QED BY <1>1, <1>5
<1>7. SumOf(F, rest) <= SumOf(G, rest)
    BY <1>5, <1>6
<1>8. SumOf(F, rest) \in Int /\ SumOf(G, rest) \in Int
  <2>1. Integral(F, rest) /\ Integral(G, rest)
    BY <1>2, FS_Subset DEF Integral
  <2> HIDE DEF rest
  <2> QED BY <2>1, SumType
<1>9. F[c] \in Int /\ G[c] \in Int /\ F[c] <= G[c]
    BY <1>5 DEF Integral
<1>10. ~(SumOf(F, s) <= SumOf(G, s))
    BY <1>1
<1> HIDE DEF rest, c
<1> QED BY <1>4, <1>7, <1>8, <1>9, <1>10

\* A sum of natural numbers is one.
LEMMA SumNat ==
    ASSUME NEW F, NEW S, IsFiniteSet(S), \A x \in S : F[x] \in Nat
    PROVE  SumOf(F, S) \in Nat
<1> DEFINE Bad == {s \in SUBSET S : SumOf(F, s) \notin Nat}
<1> SUFFICES ASSUME Bad # {} PROVE FALSE
    OBVIOUS
<1>1. PICK s \in Bad : \A t \in SUBSET s : t # s => t \notin Bad
  <2>1. Bad \in SUBSET (SUBSET S)
    OBVIOUS
  <2> HIDE DEF Bad
  <2> QED BY <2>1, MinimalSet
<1>2. IsFiniteSet(s)
    BY FS_Subset
<1>3. s # {}
  <2> SUFFICES ASSUME s = {} PROVE FALSE
    OBVIOUS
  <2>1. SumOf(F, s) = 0
    BY <1>2, SumStep
  <2> QED BY <1>1, <2>1
<1>4. SumOf(F, s) = F[Choice(s)] + SumOf(F, s \ {Choice(s)})
    BY <1>2, <1>3, SumStep
<1>5. F[Choice(s)] \in Nat
    BY <1>3, Chosen
<1>6. s \ {Choice(s)} \notin Bad
  <2>1. s \ {Choice(s)} \in SUBSET s /\ s \ {Choice(s)} # s
    BY <1>3, Chosen
  <2> HIDE DEF Bad
  <2> QED BY <1>1, <2>1
<1>7. SumOf(F, s \ {Choice(s)}) \in Nat
    BY <1>6
<1> QED BY <1>1, <1>4, <1>5, <1>7

\* The sum of sums,
LEMMA SumAdd ==
    ASSUME NEW F, NEW G, NEW H, NEW S, Integral(F, S), Integral(G, S),
           \A x \in S : H[x] = F[x] + G[x]
    PROVE  SumOf(H, S) = SumOf(F, S) + SumOf(G, S)
<1> DEFINE Bad == {s \in SUBSET S : SumOf(H, s) # SumOf(F, s) + SumOf(G, s)}
<1> SUFFICES ASSUME Bad # {} PROVE FALSE
    OBVIOUS
<1>1. PICK s \in Bad : \A t \in SUBSET s : t # s => t \notin Bad
  <2>1. Bad \in SUBSET (SUBSET S) /\ IsFiniteSet(S)
    BY DEF Integral
  <2> HIDE DEF Bad
  <2> QED BY <2>1, MinimalSet
<1>2. IsFiniteSet(s)
    BY FS_Subset DEF Integral
<1>3. s # {}
  <2> SUFFICES ASSUME s = {} PROVE FALSE
    OBVIOUS
  <2>1. SumOf(F, s) = 0 /\ SumOf(G, s) = 0 /\ SumOf(H, s) = 0
    BY <1>2, SumStep
  <2> QED BY <1>1, <2>1
<1> DEFINE c == Choice(s)
           rest == s \ {c}
<1>4. /\ SumOf(F, s) = F[c] + SumOf(F, rest) /\ SumOf(G, s) = G[c] + SumOf(G, rest)
      /\ SumOf(H, s) = H[c] + SumOf(H, rest)
    BY <1>2, <1>3, SumStep
<1>5. c \in S /\ rest \in SUBSET s /\ rest # s
    BY <1>3, Chosen
<1>6. rest \notin Bad
  <2> HIDE DEF Bad, rest
  <2> QED BY <1>1, <1>5
<1>7. SumOf(H, rest) = SumOf(F, rest) + SumOf(G, rest)
    BY <1>5, <1>6
<1>8. SumOf(F, rest) \in Int /\ SumOf(G, rest) \in Int
  <2>1. Integral(F, rest) /\ Integral(G, rest)
    BY <1>2, FS_Subset DEF Integral
  <2> HIDE DEF rest
  <2> QED BY <2>1, SumType
<1>9. F[c] \in Int /\ G[c] \in Int /\ H[c] = F[c] + G[c]
    BY <1>5 DEF Integral
<1>10. SumOf(H, s) # SumOf(F, s) + SumOf(G, s)
    BY <1>1
<1> HIDE DEF rest, c
<1> QED BY <1>4, <1>7, <1>8, <1>9, <1>10

\* of multiples,
LEMMA SumTimes ==
    ASSUME NEW k \in Int, NEW F, NEW H, NEW S, Integral(F, S), \A x \in S : H[x] = k * F[x]
    PROVE  SumOf(H, S) = k * SumOf(F, S)
<1> DEFINE Bad == {s \in SUBSET S : SumOf(H, s) # k * SumOf(F, s)}
<1> SUFFICES ASSUME Bad # {} PROVE FALSE
    OBVIOUS
<1>1. PICK s \in Bad : \A t \in SUBSET s : t # s => t \notin Bad
  <2>1. Bad \in SUBSET (SUBSET S) /\ IsFiniteSet(S)
    BY DEF Integral
  <2> HIDE DEF Bad
  <2> QED BY <2>1, MinimalSet
<1>2. IsFiniteSet(s)
    BY FS_Subset DEF Integral
<1>3. s # {}
  <2> SUFFICES ASSUME s = {} PROVE FALSE
    OBVIOUS
  <2>1. SumOf(F, s) = 0 /\ SumOf(H, s) = 0
    BY <1>2, SumStep
  <2>2. k * 0 = 0
    OBVIOUS
  <2> QED BY <1>1, <2>1, <2>2
<1> DEFINE c == Choice(s)
           rest == s \ {c}
<1>4. SumOf(F, s) = F[c] + SumOf(F, rest) /\ SumOf(H, s) = H[c] + SumOf(H, rest)
    BY <1>2, <1>3, SumStep
<1>5. c \in S /\ rest \in SUBSET s /\ rest # s
    BY <1>3, Chosen
<1>6. rest \notin Bad
  <2> HIDE DEF Bad, rest
  <2> QED BY <1>1, <1>5
<1>7. SumOf(H, rest) = k * SumOf(F, rest)
    BY <1>5, <1>6
<1>8. SumOf(F, rest) \in Int
  <2>1. Integral(F, rest)
    BY <1>2, FS_Subset DEF Integral
  <2> HIDE DEF rest
  <2> QED BY <2>1, SumType
<1>9. F[c] \in Int /\ H[c] = k * F[c]
    BY <1>5 DEF Integral
<1>10. SumOf(H, s) # k * SumOf(F, s)
    BY <1>1
<1>11. \A a, b \in Int : k * (a + b) = k * a + k * b
    OBVIOUS
<1> HIDE DEF rest, c
<1> QED BY <1>4, <1>7, <1>8, <1>9, <1>10, <1>11

\* and of one number again and again.
LEMMA SumConstant ==
    ASSUME NEW k \in Int, NEW F, NEW S, IsFiniteSet(S), \A x \in S : F[x] = k
    PROVE  SumOf(F, S) = Cardinality(S) * k
<1> DEFINE Bad == {s \in SUBSET S : SumOf(F, s) # Cardinality(s) * k}
<1> SUFFICES ASSUME Bad # {} PROVE FALSE
    OBVIOUS
<1>1. PICK s \in Bad : \A t \in SUBSET s : t # s => t \notin Bad
  <2>1. Bad \in SUBSET (SUBSET S)
    OBVIOUS
  <2> HIDE DEF Bad
  <2> QED BY <2>1, MinimalSet
<1>2. IsFiniteSet(s)
    BY FS_Subset
<1>3. s # {}
  <2> SUFFICES ASSUME s = {} PROVE FALSE
    OBVIOUS
  <2>1. SumOf(F, s) = 0 /\ Cardinality(s) = 0 /\ 0 * k = 0
    BY <1>2, SumStep, FS_EmptySet
  <2> QED BY <1>1, <2>1
<1> DEFINE c == Choice(s)
           rest == s \ {c}
<1>4. SumOf(F, s) = F[c] + SumOf(F, rest)
    BY <1>2, <1>3, SumStep
<1>5. c \in s /\ c \in S /\ rest \in SUBSET s /\ rest # s
    BY <1>3, Chosen
<1>6. rest \notin Bad
  <2> HIDE DEF Bad, rest
  <2> QED BY <1>1, <1>5
<1>7. SumOf(F, rest) = Cardinality(rest) * k
    BY <1>5, <1>6
<1>8. Cardinality(rest) = Cardinality(s) - 1 /\ Cardinality(s) \in Nat
    BY <1>2, <1>5, FS_RemoveElement, FS_CardinalityType
<1>9. F[c] = k
    BY <1>5
<1>10. SumOf(F, s) # Cardinality(s) * k
    BY <1>1
<1>11. \A n \in Nat : k + (n - 1) * k = n * k
    OBVIOUS
<1> HIDE DEF rest, c
<1> QED BY <1>4, <1>7, <1>8, <1>9, <1>10, <1>11

\* What is zero need not be counted.
LEMMA SumPart ==
    ASSUME NEW F, NEW G, NEW S, Integral(G, S), NEW T \in SUBSET S,
           \A x \in S : F[x] = IF x \in T THEN G[x] ELSE 0
    PROVE  SumOf(F, S) = SumOf(G, T)
<1>1. IsFiniteSet(S) /\ IsFiniteSet(T) /\ IsFiniteSet(S \ T) /\ Integral(G, T)
    BY FS_Subset DEF Integral
<1>2. Integral(F, T \cup (S \ T))
  <2>1. T \cup (S \ T) = S
    OBVIOUS
  <2>2. \A x \in S : F[x] \in Int
    BY DEF Integral
  <2> QED BY <1>1, <2>1, <2>2 DEF Integral
<1>3. SumOf(F, T \cup (S \ T)) = SumOf(F, T) + SumOf(F, S \ T)
    BY <1>2, SumSplit
<1>4. SumOf(F, S \ T) = 0
  <2>1. SumOf(F, S \ T) = Cardinality(S \ T) * 0
    BY <1>1, SumConstant
  <2>2. Cardinality(S \ T) \in Nat
    BY <1>1, FS_CardinalityType
  <2> QED BY <2>1, <2>2
<1>5. SumOf(F, T) = SumOf(G, T) /\ SumOf(G, T) \in Int
    BY <1>1, SumSame, SumType
<1>6. T \cup (S \ T) = S
    OBVIOUS
<1>7. SumOf(F, S) = SumOf(F, T) + SumOf(F, S \ T)
    BY <1>3, <1>6
<1> QED BY <1>4, <1>5, <1>7

\* The sums of a table along its rows, and down its columns.
Rows(M, A, B) == [a \in A |-> SumOf(M[a], B)]
Columns(M, A, B) == [b \in B |-> SumOf([a \in A |-> M[a][b]], A)]

LEMMA ColumnsType ==
    ASSUME NEW M, NEW A, NEW B, IsFiniteSet(A), IsFiniteSet(B),
           \A a \in A : \A b \in B : M[a][b] \in Int
    PROVE  Integral(Columns(M, A, B), B)
<1>1. ASSUME NEW b \in B PROVE Columns(M, A, B)[b] \in Int
  <2> DEFINE F == [a \in A |-> M[a][b]]
  <2>1. Integral(F, A)
    BY DEF Integral
  <2> HIDE DEF F
  <2>2. SumOf(F, A) \in Int
    BY <2>1, SumType
  <2> QED BY <2>2 DEF F, Columns
<1> QED BY <1>1 DEF Integral

\* A table has the same sum by its rows and by its columns.
LEMMA SumSwap ==
    ASSUME NEW M, NEW A, NEW B, IsFiniteSet(A), IsFiniteSet(B),
           \A a \in A : \A b \in B : M[a][b] \in Int
    PROVE  SumOf(Rows(M, A, B), A) = SumOf(Columns(M, A, B), B)
<1> DEFINE Col(s) == Columns(M, s, B)
           R == Rows(M, A, B)
           Bad == {s \in SUBSET A : SumOf(R, s) # SumOf(Col(s), B)}
<1> SUFFICES ASSUME Bad # {} PROVE FALSE
    OBVIOUS
<1>1. PICK s \in Bad : \A t \in SUBSET s : t # s => t \notin Bad
  <2>1. Bad \in SUBSET (SUBSET A)
    OBVIOUS
  <2> HIDE DEF Bad
  <2> QED BY <2>1, MinimalSet
<1>2. IsFiniteSet(s)
    BY FS_Subset
<1>0. ASSUME NEW t \in SUBSET A PROVE Integral(Col(t), B)
  <2>1. IsFiniteSet(t) /\ \A a \in t : \A b \in B : M[a][b] \in Int
    BY FS_Subset
  <2> QED BY <2>1, ColumnsType
<1>3. s # {}
  <2> SUFFICES ASSUME s = {} PROVE FALSE
    OBVIOUS
  <2>1. SumOf(R, s) = 0
    BY <1>2, SumStep
  <2>2. ASSUME NEW b \in B PROVE Col(s)[b] = 0
    <3> DEFINE F == [a \in s |-> M[a][b]]
    <3> HIDE DEF F
    <3>1. SumOf(F, s) = 0
      BY <1>2, SumStep
    <3> QED BY <3>1 DEF F, Columns
  <2>3. SumOf(Col(s), B) = Cardinality(B) * 0 /\ Cardinality(B) \in Nat
    <3> HIDE DEF Col
    <3> QED BY <2>2, SumConstant, FS_CardinalityType
  <2>4. SumOf(Col(s), B) = 0
    BY <2>3
  <2> QED BY <1>1, <2>1, <2>4
<1> DEFINE c == Choice(s)
           rest == s \ {c}
<1>4. SumOf(R, s) = R[c] + SumOf(R, rest)
    BY <1>2, <1>3, SumStep
<1>5. c \in A /\ c \in s /\ rest \in SUBSET s /\ rest \in SUBSET A /\ rest # s
    BY <1>3, Chosen
<1>6. rest \notin Bad
  <2> HIDE DEF Bad, rest
  <2> QED BY <1>1, <1>5
<1>7. SumOf(R, rest) = SumOf(Col(rest), B)
    BY <1>5, <1>6
<1>8. R[c] = SumOf(M[c], B)
    BY <1>5 DEF Rows
<1>9. \A b \in B : Col(s)[b] = M[c][b] + Col(rest)[b]
  <2> TAKE b \in B
  <2> DEFINE F == [a \in s |-> M[a][b]]
             G == [a \in rest |-> M[a][b]]
  <2>1. /\ \A a \in s : F[a] = M[a][b]
        /\ \A a \in rest : G[a] = M[a][b]
    OBVIOUS
  <2>2. Col(s)[b] = SumOf(F, s) /\ Col(rest)[b] = SumOf(G, rest)
    BY DEF Columns
  <2>3. IsFiniteSet(rest)
    BY <1>2, FS_Subset
  <2> HIDE DEF F, G, Col
  <2>4. SumOf(F, s) = F[c] + SumOf(F, rest)
    BY <1>2, <1>3, SumStep
  <2>5. \A a \in rest : F[a] = G[a]
    BY <2>1, <1>5
  <2>6. SumOf(F, rest) = SumOf(G, rest)
    <3> HIDE DEF rest
    <3> QED BY <2>3, <2>5, SumSame
  <2> QED BY <1>5, <2>1, <2>2, <2>4, <2>6
<1>10. Integral(M[c], B) /\ Integral(Col(rest), B)
    BY <1>0, <1>5 DEF Integral
<1>11. SumOf(Col(s), B) = SumOf(M[c], B) + SumOf(Col(rest), B)
  <2> HIDE DEF Col, rest, c
  <2> QED BY <1>9, <1>10, SumAdd
<1>12. SumOf(R, s) # SumOf(Col(s), B)
    BY <1>1
<1> HIDE DEF Col, R, rest, c
<1> QED BY <1>4, <1>7, <1>8, <1>11, <1>12

\* The largest of some of the numbers from 0 to n.
LEMMA LargestIn ==
    ASSUME NEW n \in Nat, NEW S \in SUBSET (0 .. n), S # {}
    PROVE  Max(S) \in S /\ \A y \in S : y <= Max(S)
<1> DEFINE Below == {n - x : x \in S}
<1>1. Below \in SUBSET Nat /\ Below # {}
  <2>1. \A x \in 0 .. n : n - x \in Nat
    OBVIOUS
  <2> QED BY <2>1
<1>2. PICK m \in Below : \A k \in Below : m <= k
  <2> HIDE DEF Below
  <2> QED BY <1>1, SmallestIn
<1>3. PICK x \in S : m = n - x
    BY <1>2
<1>4. \A y \in S : x >= y
    BY <1>2, <1>3
<1>5. Max(S) \in S /\ \A y \in S : Max(S) >= y
    BY <1>4 DEF Max
<1> QED BY <1>5

-----------------------------------------------------------------------------
(* The prompt of a long call.                                              *)

\* What each line takes in the prompt, its end included.
LineCosts(turns) == [i \in 1 .. Len(turns) |-> LineSize(turns[i]) + 1]

LEMMA WeighType ==
    ASSUME NEW words \in Seq(DOMAIN Size) PROVE Weigh(words) \in Nat
<1> DEFINE F == [i \in DOMAIN words |-> Size[words[i]]]
<1>1. IsFiniteSet(DOMAIN words) /\ \A i \in DOMAIN words : F[i] \in Nat
  <2>1. DOMAIN words = 1 .. Len(words) /\ Len(words) \in Nat
    OBVIOUS
  <2>2. \A i \in DOMAIN words : words[i] \in DOMAIN Size
    OBVIOUS
  <2> QED BY <2>1, <2>2, FS_Interval, JudgeAssumption DEF JudgeAssumption
<1>2. Weigh(words) = SumOf(F, DOMAIN words)
    BY SumIs DEF Weigh
<1> HIDE DEF F
<1> QED BY <1>1, <1>2, SumNat

LEMMA LineSizeType ==
    ASSUME NEW turns \in Seq(Turns), NEW i \in 1 .. Len(turns)
    PROVE  LineSize(turns[i]) \in Nat
<1>1. turns[i] \in Turns
    OBVIOUS
<1>2. turns[i].said \in Seq(DOMAIN Size)
    BY <1>1 DEF Turns
<1> QED BY <1>2, WeighType DEF LineSize

\* The cost of some lines, as ElideMiddle and PromptFits compute it.
LEMMA CostIs ==
    ASSUME NEW turns \in Seq(Turns), NEW I \in SUBSET (1 .. Len(turns))
    PROVE  /\ Sum([i \in I |-> LineSizes(turns)[i] + 1]) = SumOf(LineCosts(turns), I)
           /\ Sum([i \in I |-> LineSize(turns[i]) + 1]) = SumOf(LineCosts(turns), I)
<1> DEFINE F == [i \in I |-> LineSize(turns[i]) + 1]
<1>1. F = [i \in I |-> LineSizes(turns)[i] + 1]
    BY DEF LineSizes
<1>2. Sum(F) = SumOf(F, I)
    BY SumIs
<1>3. \A i \in I : F[i] = LineCosts(turns)[i]
    BY DEF LineCosts
<1>4. IsFiniteSet(I)
  <2>1. Len(turns) \in Nat /\ IsFiniteSet(1 .. Len(turns))
    BY FS_Interval
  <2> QED BY <2>1, FS_Subset
<1> HIDE DEF F
<1>5. SumOf(F, I) = SumOf(LineCosts(turns), I)
    BY <1>3, <1>4, SumSame
<1> QED BY <1>1, <1>2, <1>5 DEF F

\* What a shortened transcript may take without its marker, and the part of
\* that for the opening.
Room(limit) == IF limit >= MarkerSize + 2 THEN limit - MarkerSize - 2 ELSE 0
HeadRoom(limit) == (Room(limit) * 2) \div 3

LEMMA RoomIs ==
    ASSUME NEW limit \in Nat
    PROVE  /\ Max({0, limit - MarkerSize - 2}) = Room(limit)
           /\ Room(limit) \in Nat /\ Room(limit) <= limit
           /\ HeadRoom(limit) \in Nat /\ HeadRoom(limit) <= Room(limit)
<1>1. MarkerSize \in Nat
    BY JudgeAssumption DEF JudgeAssumption
<1>2. CASE limit >= MarkerSize + 2
    BY <1>1, <1>2 DEF Max, Room, HeadRoom
<1>3. CASE ~(limit >= MarkerSize + 2)
    BY <1>1, <1>3 DEF Max, Room, HeadRoom
<1> QED BY <1>2, <1>3

\* The opening and the closing do not meet, each fits its part of the budget,
\* and neither could be a line longer.
LEMMA ElideFits ==
    ASSUME NEW turns \in Seq(Turns), NEW limit \in Nat, NEW cut,
           cut = ElideMiddle(LineSizes(turns), limit)
    PROVE  LET n == Len(turns)
               F == LineCosts(turns)
           IN  /\ cut.head \in 0 .. n /\ cut.tail \in 0 .. n - cut.head
               /\ SumOf(F, 1 .. cut.head \cup n - cut.tail + 1 .. n) <= Room(limit)
               /\ SumOf(F, 1 .. cut.head) <= HeadRoom(limit)
               /\ \A k \in 0 .. n : SumOf(F, 1 .. k) <= HeadRoom(limit) => k <= cut.head
               /\ \A k \in 0 .. n - cut.head :
                    SumOf(F, n - k + 1 .. n) <= Room(limit) - HeadRoom(limit) => k <= cut.tail
<1> DEFINE sizes == LineSizes(turns)
           n == Len(turns)
           F == LineCosts(turns)
           Cost(I) == Sum([i \in I |-> sizes[i] + 1])
           budget == Max({0, limit - MarkerSize - 2})
           headBudget == (budget * 2) \div 3
           heads == {k \in 0 .. n : Cost(1 .. k) <= headBudget}
           tails(h) == {k \in 0 .. n - h : Cost(n - k + 1 .. n) <= budget - headBudget}
<1>1. n \in Nat /\ Len(sizes) = n
    BY DEF LineSizes
<1>2. /\ cut.head = Max(heads)
      /\ cut.tail = Max(tails(cut.head))
    BY <1>1 DEF ElideMiddle
<1>3. budget = Room(limit) /\ headBudget = HeadRoom(limit)
    BY RoomIs DEF HeadRoom
<1>4. budget \in Nat
    BY <1>3, RoomIs
<1>5. headBudget \in Nat /\ budget - headBudget \in Nat
  <2>1. /\ Room(limit) \in Nat /\ HeadRoom(limit) \in Nat
        /\ HeadRoom(limit) <= Room(limit)
    BY RoomIs
  <2> HIDE DEF budget, headBudget
  <2> QED BY <1>3, <2>1
<1>6. \A I \in SUBSET (1 .. n) : Cost(I) = SumOf(F, I)
    BY CostIs
<1>7. \A I \in SUBSET (1 .. n) : Integral(F, I)
  <2>1. \A i \in 1 .. n : F[i] \in Int
    BY LineSizeType DEF LineCosts
  <2>2. IsFiniteSet(1 .. n)
    BY <1>1, FS_Interval
  <2> HIDE DEF F, n
  <2> QED BY <2>1, <2>2, FS_Subset DEF Integral
<1>8. SumOf(F, {}) = 0
  <2> HIDE DEF F
  <2> QED BY SumStep, FS_EmptySet
<1> HIDE DEF headBudget, budget, F, n, sizes, Cost
<1>9. /\ cut.head \in 0 .. n /\ Cost(1 .. cut.head) <= headBudget
      /\ \A k \in heads : k <= cut.head
  <2>1. 1 .. 0 = {} /\ Cost({}) = 0
    BY <1>6, <1>8
  <2>2. 0 \in heads
    BY <1>1, <1>5, <2>1
  <2>3. heads \in SUBSET (0 .. n) /\ heads # {}
    BY <2>2
  <2>4. Max(heads) \in heads /\ \A k \in heads : k <= Max(heads)
    <3> HIDE DEF heads
    <3> QED BY <1>1, <2>3, LargestIn
  <2> QED BY <1>2, <2>4
<1>10. /\ cut.tail \in 0 .. n - cut.head /\ Cost(n - cut.tail + 1 .. n) <= budget - headBudget
       /\ \A k \in tails(cut.head) : k <= cut.tail
  <2> DEFINE m == n - cut.head
  <2>0. m \in Nat
    BY <1>1, <1>9
  <2>1. n - 0 + 1 .. n = {} /\ Cost({}) = 0
    BY <1>1, <1>6, <1>8
  <2>2. 0 \in tails(cut.head)
    BY <1>1, <1>5, <2>0, <2>1
  <2>3. tails(cut.head) \in SUBSET (0 .. m) /\ tails(cut.head) # {}
    BY <2>2
  <2>4. /\ Max(tails(cut.head)) \in tails(cut.head)
        /\ \A k \in tails(cut.head) : k <= Max(tails(cut.head))
    <3> HIDE DEF tails, m
    <3> QED BY <2>0, <2>3, LargestIn
  <2> QED BY <1>2, <2>4
<1> DEFINE A == 1 .. cut.head
           B == n - cut.tail + 1 .. n
<1>11. A \in SUBSET (1 .. n) /\ B \in SUBSET (1 .. n) /\ A \cap B = {}
    BY <1>1, <1>9, <1>10
<1>12. SumOf(F, A) <= headBudget /\ SumOf(F, B) <= budget - headBudget
    BY <1>6, <1>9, <1>10, <1>11
<1> HIDE DEF A, B
<1>13. SumOf(F, A \cup B) = SumOf(F, A) + SumOf(F, B)
  <2>1. Integral(F, A \cup B)
    BY <1>7, <1>11
  <2> QED BY <1>11, <2>1, SumSplit
<1>14. SumOf(F, A) \in Int /\ SumOf(F, B) \in Int
    BY <1>7, <1>11, SumType
<1>15. SumOf(F, A \cup B) <= budget
    BY <1>4, <1>5, <1>12, <1>13, <1>14
<1>16. \A k \in 0 .. n : SumOf(F, 1 .. k) <= headBudget => k <= cut.head
  <2> SUFFICES ASSUME NEW k \in 0 .. n, SumOf(F, 1 .. k) <= headBudget PROVE k <= cut.head
    OBVIOUS
  <2>1. 1 .. k \in SUBSET (1 .. n)
    BY <1>1
  <2> QED BY <1>6, <1>9, <2>1
<1>17. \A k \in 0 .. n - cut.head :
         SumOf(F, n - k + 1 .. n) <= budget - headBudget => k <= cut.tail
  <2> SUFFICES ASSUME NEW k \in 0 .. n - cut.head,
                      SumOf(F, n - k + 1 .. n) <= budget - headBudget
               PROVE  k <= cut.tail
    OBVIOUS
  <2>1. n - k + 1 .. n \in SUBSET (1 .. n)
    BY <1>1, <1>9
  <2> QED BY <1>6, <1>10, <2>1
<1>18. /\ SumOf(F, 1 .. cut.head) <= headBudget
       /\ SumOf(F, 1 .. cut.head \cup n - cut.tail + 1 .. n) <= budget
    BY <1>12, <1>15 DEF A, B
<1> QED BY <1>3, <1>9, <1>10, <1>16, <1>17, <1>18 DEF n, F

\* A transcript that is shortened has lines, and more in them than the limit.
LEMMA TooLong ==
    ASSUME NEW turns \in Seq(Turns), Truncated(turns)
    PROVE  Len(turns) > 0 /\ SumOf(LineCosts(turns), 1 .. Len(turns)) > MaxChars
<1> DEFINE n == Len(turns)
           I == 1 .. n
           L == LineSizes(turns)
           C == LineCosts(turns)
           One == [i \in I |-> 1]
<1>1. n \in Nat /\ MaxChars \in Nat /\ DOMAIN L = I /\ Len(L) = n
    BY JudgeAssumption DEF JudgeAssumption, LineSizes
<1>2. IsFiniteSet(I) /\ Cardinality(I) = n
  <2> HIDE DEF n
  <2> QED BY <1>1, FS_Interval
<1>3. Integral(L, I) /\ Integral(One, I)
  <2>1. \A i \in I : L[i] \in Int /\ One[i] \in Int
    BY LineSizeType DEF LineSizes
  <2> QED BY <1>2, <2>1 DEF Integral
<1>4. /\ \A i \in I : C[i] = L[i] + One[i]
      /\ \A i \in I : One[i] = 1
    BY DEF LineCosts, LineSizes
<1>5. Sum(L) + Max({0, n - 1}) > MaxChars
    BY <1>1 DEF Truncated, Joined
<1> HIDE DEF L, C, One, I
<1>6. Sum(L) = SumOf(L, I) /\ SumOf(L, I) \in Int
    BY <1>1, <1>3, SumIs, SumType
<1>7. SumOf(C, I) = SumOf(L, I) + SumOf(One, I)
    BY <1>3, <1>4, SumAdd
<1>8. SumOf(One, I) = Cardinality(I) * 1
  <2>1. \A i \in I : One[i] = 1
    BY <1>4
  <2> QED BY <1>2, <2>1, SumConstant
<1> HIDE DEF n
<1>9. n > 0
  <2> SUFFICES ASSUME n = 0 PROVE FALSE
    BY <1>1
  <2>1. I = {} /\ Max({0, n - 1}) = 0
    BY DEF Max, I
  <2>2. SumOf(L, I) = 0
    BY <1>2, <2>1, SumStep
  <2> QED BY <1>1, <1>5, <1>6, <2>1, <2>2
<1>10. Max({0, n - 1}) = n - 1
    BY <1>1, <1>9 DEF Max
<1>11. SumOf(C, I) > MaxChars
    BY <1>1, <1>2, <1>5, <1>6, <1>7, <1>8, <1>10
<1> QED BY <1>9, <1>11 DEF n, I, C

-----------------------------------------------------------------------------
(* What the judging keeps.                                                 *)

\* The call is one of the instance, and only a shortened transcript is judged
\* in two parts.
CallIs == call \in Calls /\ part \in 1 .. Len(Parts)

LEMMA CallKept == Spec => []CallIs
<1>1. Init => CallIs
    BY DEF Init, CallIs, Parts
<1>2. CallIs /\ [Next]_vars => CallIs'
  <2> SUFFICES ASSUME CallIs, [Next]_vars PROVE CallIs'
    OBVIOUS
  <2>1. call' = call
    BY DEF Next, vars, Accept, Reject, TransportFails, Assemble, Report, Finished
  <2>2. Parts' = Parts /\ Len(Parts) \in 1 .. 2
    BY <2>1 DEF Parts
  <2>3. part' \in {part, 1} \/ (part < Len(Parts) /\ part' = part + 1)
    BY DEF Next, vars, Accept, Reject, TransportFails, Assemble, Report, Finished
  <2> HIDE DEF Parts
  <2> QED BY <2>1, <2>2, <2>3 DEF CallIs
<1> QED BY <1>1, <1>2, PTL DEF Spec

\* A server that lacks a part of the protocol is asked without it, unless it
\* lacks both parts and names the second one first.
LEMMA Degrades == CallIs => ServerDegrades
<1> SUFFICES ASSUME CallIs PROVE ServerDegrades
    OBVIOUS
<1> DEFINE server == call.server
           speaks == server.speaks
<1>1. \A c : (CHOOSE x \in {c} : TRUE) = c
    OBVIOUS
<1>2. server.names \in {"schema", "system"}
    BY JudgeAssumption DEF JudgeAssumption, CallIs
<1> HIDE DEF server
<1>3. CASE server.room = "none"
  <2>1. \A schema, merged \in BOOLEAN : Chat(server, schema, merged) # "answer"
    <3> SUFFICES ASSUME NEW schema \in BOOLEAN, NEW merged \in BOOLEAN
                 PROVE  Chat(server, schema, merged) # "answer"
        OBVIOUS
    <3> DEFINE complaints == (IF schema THEN {"schema"} \ speaks ELSE {})
                             \cup (IF merged THEN {} ELSE {"system"} \ speaks)
    <3>1. complaints \subseteq {"schema", "system"}
        OBVIOUS
    <3>2. complaints # {} => (CHOOSE c \in complaints : TRUE) \in complaints
        OBVIOUS
    <3>3. Chat(server, schema, merged) =
            IF server.names \in complaints THEN server.names
            ELSE IF complaints # {} THEN CHOOSE c \in complaints : TRUE
            ELSE IF server.room = "none" THEN "context" ELSE "answer"
        BY DEF Chat
    <3> HIDE DEF complaints
    <3>4. CASE complaints = {}
        BY <1>3, <3>3, <3>4
    <3>5. CASE complaints # {}
        BY <1>2, <3>1, <3>2, <3>3, <3>5
    <3> QED BY <3>4, <3>5
  <2>2. ChatJson(server) # "answer"
    BY <2>1 DEF ChatJson, ChatWithRoleFallback
  <2> QED BY <1>3, <2>2 DEF ServerDegrades, server
<1>4. CASE server.room # "none" /\ "schema" \in speaks /\ "system" \in speaks
  <2>1. ChatJson(server) = "answer"
    BY <1>4 DEF ChatJson, Chat
  <2> QED BY <1>4, <2>1 DEF ServerDegrades, server
<1>5. CASE server.room # "none" /\ "schema" \in speaks /\ "system" \notin speaks
  <2>1. Chat(server, TRUE, FALSE) = "system"
    BY <1>1, <1>5 DEF Chat
  <2>2. Chat(server, TRUE, TRUE) = "answer"
    BY <1>5 DEF Chat
  <2>3. ChatJson(server) = "answer"
    BY <2>1, <2>2 DEF ChatJson
  <2> QED BY <1>5, <2>3 DEF ServerDegrades, server
<1>6. CASE server.room # "none" /\ "schema" \notin speaks /\ "system" \in speaks
  <2>1. Chat(server, TRUE, FALSE) = "schema"
    BY <1>1, <1>6 DEF Chat
  <2>2. Chat(server, FALSE, FALSE) = "answer"
    BY <1>6 DEF Chat
  <2>3. ChatJson(server) = "answer"
    BY <2>1, <2>2 DEF ChatJson, ChatWithRoleFallback
  <2> QED BY <1>6, <2>3 DEF ServerDegrades, server
<1>7. CASE server.room # "none" /\ "schema" \notin speaks /\ "system" \notin speaks
  <2>1. Chat(server, TRUE, FALSE) = server.names
    BY <1>2, <1>7 DEF Chat
  <2>2. Chat(server, TRUE, TRUE) = "schema" /\ Chat(server, FALSE, FALSE) = "system"
    BY <1>1, <1>7 DEF Chat
  <2>3. Chat(server, FALSE, TRUE) = "answer"
    BY <1>7 DEF Chat
  <2>4. ChatJson(server) = "answer" <=> server.names = "schema"
    BY <1>2, <2>1, <2>2, <2>3 DEF ChatJson, ChatWithRoleFallback
  <2>5. {"schema", "system"} \cap speaks = {}
    BY <1>7
  <2> QED BY <1>7, <2>4, <2>5 DEF ServerDegrades, server
<1> QED BY <1>3, <1>4, <1>5, <1>6, <1>7

LEMMA Fits == CallIs => PromptFits
<1> SUFFICES ASSUME CallIs, Parts[part] = "others"
             PROVE  LET text == Prompt
                        sizes == Sum([i \in text.shown |-> LineSize(call.turns[i]) + 1])
                    IN  sizes + (IF text.marked THEN MarkerSize ELSE -1) <= MaxChars
    BY DEF PromptFits
<1> DEFINE turns == call.turns
           n == Len(turns)
           cut == ElideMiddle(LineSizes(turns), MaxChars)
           shown == 1 .. cut.head \cup n - cut.tail + 1 .. n
           sum == SumOf(LineCosts(turns), shown)
<1>1. turns \in Seq(Turns) /\ n \in Nat /\ MaxChars \in Nat /\ MarkerSize \in Nat
    BY JudgeAssumption DEF JudgeAssumption, CallIs
<1>2. Truncated(turns)
    BY DEF CallIs, Parts
<1>3. Prompt.shown = shown /\ Prompt.marked = (cut.tail > 0)
    BY <1>2 DEF Prompt, FormatTranscript
<1>4. /\ cut.head \in 0 .. n /\ cut.tail \in 0 .. n - cut.head
      /\ sum <= Room(MaxChars)
  <2> HIDE DEF cut
  <2>1. cut = ElideMiddle(LineSizes(turns), MaxChars)
    BY DEF cut
  <2> HIDE DEF turns
  <2> QED BY <1>1, <2>1, ElideFits
<1>5. shown \in SUBSET (1 .. n)
    BY <1>1, <1>4
<1>6. Sum([i \in shown |-> LineSize(call.turns[i]) + 1]) = sum
  <2> HIDE DEF shown
  <2> QED BY <1>1, <1>5, CostIs
<1>7. \A i \in shown : LineCosts(turns)[i] \in Nat /\ LineCosts(turns)[i] >= 1
  <2>1. \A i \in 1 .. n : LineCosts(turns)[i] \in Nat /\ LineCosts(turns)[i] >= 1
    BY <1>1, LineSizeType DEF LineCosts
  <2> HIDE DEF shown
  <2> QED BY <1>5, <2>1
<1>8. IsFiniteSet(shown)
  <2>1. IsFiniteSet(1 .. n)
    BY <1>1, FS_Interval
  <2> HIDE DEF shown, n
  <2> QED BY <1>5, <2>1, FS_Subset
<1>9. sum \in Nat
  <2> HIDE DEF shown
  <2> QED BY <1>7, <1>8, SumNat
<1> SUFFICES sum + (IF cut.tail > 0 THEN MarkerSize ELSE -1) <= MaxChars
  <2> HIDE DEF sum, shown, cut
  <2> QED BY <1>3, <1>6
<1>10. CASE MaxChars >= MarkerSize + 2
  <2> HIDE DEF sum, cut
  <2> QED BY <1>1, <1>4, <1>9, <1>10 DEF Room
<1>11. CASE ~(MaxChars >= MarkerSize + 2)
  <2>1. sum = 0
    <3> HIDE DEF sum
    <3> QED BY <1>4, <1>9, <1>11 DEF Room
  <2>2. shown = {}
    <3> SUFFICES ASSUME NEW i \in shown PROVE FALSE
        OBVIOUS
    <3> DEFINE F == LineCosts(turns)
    <3>1. Integral(F, shown) /\ F[i] \in Nat /\ F[i] >= 1
        BY <1>7, <1>8 DEF Integral
    <3>2. IsFiniteSet(shown \ {i}) /\ \A x \in shown \ {i} : F[x] \in Nat
        BY <1>7, <1>8, FS_Subset
    <3> HIDE DEF shown, F
    <3>3. SumOf(F, shown) = F[i] + SumOf(F, shown \ {i})
        BY <3>1, SumWithout
    <3>4. SumOf(F, shown \ {i}) \in Nat
        BY <3>2, SumNat
    <3>5. SumOf(F, shown) = 0
        BY <2>1 DEF F
    <3> QED BY <3>1, <3>3, <3>4, <3>5
  <2>3. ~(cut.tail > 0)
    <3> HIDE DEF cut
    <3> SUFFICES ASSUME cut.tail > 0 PROVE FALSE
        OBVIOUS
    <3>1. n \in shown
        BY <1>1, <1>4
    <3> QED BY <2>2, <3>1
  <2> HIDE DEF sum, cut
  <2> QED BY <1>1, <2>1, <2>3
<1> QED BY <1>10, <1>11

LEMMA Survives == CallIs => EndsSurvive
<1> SUFFICES ASSUME CallIs, Parts[part] = "others" PROVE EndsSurvive
    BY DEF EndsSurvive
<1> DEFINE turns == call.turns
           n == Len(turns)
           F == LineCosts(turns)
           cut == ElideMiddle(LineSizes(turns), MaxChars)
           shown == 1 .. cut.head \cup n - cut.tail + 1 .. n
           Cost(I) == Sum([i \in I |-> LineSize(turns[i]) + 1])
<1>1. turns \in Seq(Turns) /\ n \in Nat /\ MaxChars \in Nat
    BY JudgeAssumption DEF JudgeAssumption, CallIs
<1>2. Truncated(turns)
    BY DEF CallIs, Parts
<1>3. Prompt.shown = shown /\ Prompt.marked = (cut.tail > 0)
    BY <1>2 DEF Prompt, FormatTranscript
<1>4. /\ cut.head \in 0 .. n /\ cut.tail \in 0 .. n - cut.head
      /\ SumOf(F, 1 .. cut.head) <= HeadRoom(MaxChars)
      /\ \A k \in 0 .. n : SumOf(F, 1 .. k) <= HeadRoom(MaxChars) => k <= cut.head
      /\ \A k \in 0 .. n - cut.head :
           SumOf(F, n - k + 1 .. n) <= Room(MaxChars) - HeadRoom(MaxChars) => k <= cut.tail
  <2> HIDE DEF cut
  <2>1. cut = ElideMiddle(LineSizes(turns), MaxChars)
    BY DEF cut
  <2> HIDE DEF turns
  <2> QED BY <1>1, <2>1, ElideFits
<1>5. n > 0 /\ SumOf(F, 1 .. n) > MaxChars
  <2> HIDE DEF turns
  <2> QED BY <1>1, <1>2, TooLong
<1>6. /\ Max({0, MaxChars - MarkerSize - 2}) = Room(MaxChars)
      /\ Room(MaxChars) \in Nat /\ Room(MaxChars) <= MaxChars
      /\ HeadRoom(MaxChars) \in Nat /\ HeadRoom(MaxChars) <= Room(MaxChars)
    BY <1>1, RoomIs
<1>7. \A I \in SUBSET (1 .. n) : Cost(I) = SumOf(F, I) /\ SumOf(F, I) \in Int
  <2>1. \A i \in 1 .. n : F[i] \in Int
    BY <1>1, LineSizeType DEF LineCosts
  <2>2. \A I \in SUBSET (1 .. n) : IsFiniteSet(I)
    <3>1. IsFiniteSet(1 .. n)
        BY <1>1, FS_Interval
    <3> HIDE DEF n
    <3> QED BY <3>1, FS_Subset
  <2>3. \A I \in SUBSET (1 .. n) : Cost(I) = SumOf(F, I)
    <3> HIDE DEF turns
    <3> QED BY <1>1, CostIs
  <2> HIDE DEF F, n, Cost
  <2> QED BY <2>1, <2>2, <2>3, SumType DEF Integral
<1> HIDE DEF cut, F, Cost
<1>8. ASSUME NEW i \in (1 .. n) \ shown
      PROVE  /\ Cost(1 .. i) > HeadRoom(MaxChars)
             /\ Cost(i .. n) > Room(MaxChars) - HeadRoom(MaxChars)
  <2> DEFINE k == n - i + 1
  <2>1. i > cut.head /\ i <= n - cut.tail /\ i \in 1 .. n
    BY <1>1, <1>4
  <2>2. k \in 0 .. n - cut.head /\ k > cut.tail /\ n - k + 1 = i
    BY <1>1, <1>4, <2>1
  <2>3. 1 .. i \in SUBSET (1 .. n) /\ i .. n \in SUBSET (1 .. n)
    BY <1>1, <2>1
  <2>4. ~(SumOf(F, 1 .. i) <= HeadRoom(MaxChars))
    BY <1>1, <1>4, <2>1
  <2>5. ~(SumOf(F, i .. n) <= Room(MaxChars) - HeadRoom(MaxChars))
    <3>1. SumOf(F, n - k + 1 .. n) = SumOf(F, i .. n)
        BY <2>2
    <3> HIDE DEF k
    <3> QED BY <1>4, <2>2, <3>1
  <2> QED BY <1>6, <1>7, <2>3, <2>4, <2>5
<1>9. cut.tail > 0 <=> n \in shown
  <2>1. CASE cut.tail > 0
    BY <1>1, <1>4, <1>5, <2>1
  <2>2. CASE ~(cut.tail > 0)
    <3>1. cut.tail = 0
        BY <1>1, <1>4, <2>2
    <3>2. n - 0 + 1 .. n = {}
        BY <1>1
    <3>3. cut.head # n
        <4> SUFFICES ASSUME cut.head = n PROVE FALSE
            OBVIOUS
        <4>1. SumOf(F, 1 .. n) <= HeadRoom(MaxChars)
            BY <1>4
        <4> QED BY <1>1, <1>5, <1>6, <1>7, <4>1
    <3> QED BY <1>1, <1>4, <2>2, <3>1, <3>2, <3>3
  <2> QED BY <2>1, <2>2
<1> HIDE DEF shown, n
<1> QED
    BY <1>3, <1>6, <1>8, <1>9 DEF EndsSurvive, n, Cost, HeadRoom

\* A shortened transcript keeps all that fits of its two ends within the budget,
\* and says that something is missing if its last line is there, and a server
\* answers unless it lacks both structured output and a system role and
\* complains of the role first (prompts.py:71-103, vllm_judge.py:201-278).
THEOREM LongCallsAndOldServers == Spec => []DegradesAsPromised
<1>1. CallIs => DegradesAsPromised
    BY Degrades, Fits, Survives DEF DegradesAsPromised
<1> QED BY <1>1, CallKept, PTL

-----------------------------------------------------------------------------
(* The merge of the samples.                                               *)

\* The evidence a reading can have, a reading, and a sample that is whole.
Wordings ==
    {[i \in DOMAIN a.scores[d].evidence |-> Scrubbed(a.scores[d].evidence[i], c.turns)] :
       c \in Calls, a \in UNION {c.answers : c \in Calls}, d \in Dim}
Reading == [score : 1 .. 5, evidence : Wordings]
Sample == [Dim -> Reading]

\* The low median is one of the values, and no larger than a number that half
\* of them, or more, do not exceed.
LEMMA MedianIs ==
    ASSUME NEW n \in Nat \ {0}, NEW values \in [1 .. n -> 1 .. 5]
    PROVE  /\ \E i \in 1 .. n : values[i] = MedianLow(values)
           /\ \A m \in Int : 2 * Cardinality({i \in 1 .. n : values[i] <= m}) >= n
                               => MedianLow(values) <= m
<1> DEFINE AtMost(v) == {i \in 1 .. n : values[i] <= v}
           Half(v) == 2 * Cardinality(AtMost(v)) >= n
           all == {values[i] : i \in 1 .. n}
           low == {v \in all : Half(v)}
<1>1. MedianLow(values) = Min(low)
  <2>1. values \in Seq(1 .. 5) /\ Len(values) = n /\ DOMAIN values = 1 .. n
    OBVIOUS
  <2>2. ToSet(values) = all
    BY <2>1 DEF ToSet, Range
  <2> QED BY <2>1, <2>2 DEF MedianLow
<1>2. \A v : IsFiniteSet(AtMost(v)) /\ Cardinality(AtMost(v)) \in Nat
  <2>1. IsFiniteSet(1 .. n)
    BY FS_Interval
  <2>2. \A v : AtMost(v) \in SUBSET (1 .. n)
    OBVIOUS
  <2> HIDE DEF AtMost
  <2> QED BY <2>1, <2>2, FS_Subset, FS_CardinalityType
<1>3. all \in SUBSET (0 .. 5) /\ values[1] \in all
    OBVIOUS
\* The largest of the values up to m stands for m.
<1>4. ASSUME NEW m \in Int, Half(m) PROVE \E v \in low : v <= m
  <2> DEFINE few == {v \in all : v <= m}
  <2>1. AtMost(m) # {}
    <3>1. Cardinality(AtMost(m)) # 0
      <4> HIDE DEF AtMost
      <4> QED BY <1>2, <1>4
    <3> HIDE DEF AtMost
    <3> QED BY <3>1, FS_EmptySet
  <2>2. few \in SUBSET (0 .. 5) /\ few # {}
    BY <1>3, <2>1
  <2>3. Max(few) \in few /\ \A v \in few : v <= Max(few)
    <3> HIDE DEF few
    <3> QED BY <2>2, LargestIn
  <2>4. AtMost(Max(few)) = AtMost(m)
    <3>1. \A i \in 1 .. n : values[i] <= m <=> values[i] <= Max(few)
      <4>1. ASSUME NEW i \in 1 .. n, values[i] <= m PROVE values[i] <= Max(few)
        <5>1. values[i] \in few
            BY <4>1
        <5> HIDE DEF few
        <5> QED BY <2>3, <5>1
      <4>2. Max(few) \in Int /\ Max(few) <= m
        <5>1. \A v \in few : v \in Int /\ v <= m
            BY <1>3
        <5> HIDE DEF few
        <5> QED BY <2>3, <5>1
      <4>3. ASSUME NEW i \in 1 .. n, values[i] <= Max(few) PROVE values[i] <= m
        <5>1. values[i] \in Int
            OBVIOUS
        <5> HIDE DEF few
        <5> QED BY <4>2, <4>3, <5>1
      <4> HIDE DEF few
      <4> QED BY <4>1, <4>3
    <3> HIDE DEF few
    <3> QED BY <3>1
  <2>5. Max(few) \in low
    BY <1>4, <2>3, <2>4
  <2>6. Max(few) <= m
    BY <2>3
  <2> QED BY <2>5, <2>6
<1>5. Half(5)
  <2>1. AtMost(5) = 1 .. n
    OBVIOUS
  <2>2. Cardinality(1 .. n) = n
    BY FS_Interval
  <2>3. Cardinality(AtMost(5)) = n
    BY <2>1, <2>2
  <2> HIDE DEF AtMost
  <2> QED BY <2>3
<1>6. low \in SUBSET Nat /\ low # {}
  <2>1. \E v \in low : v <= 5
    <3> HIDE DEF Half, low
    <3> QED BY <1>4, <1>5
  <2>2. low \in SUBSET Nat
    BY <1>3
  <2> HIDE DEF low
  <2> QED BY <2>1, <2>2
<1>7. Min(low) \in low /\ \A v \in low : Min(low) <= v
  <2> HIDE DEF low
  <2>1. PICK x \in low : \A y \in low : x <= y
    BY <1>6, SmallestIn
  <2> QED BY <2>1 DEF Min
<1>8. \E i \in 1 .. n : values[i] = Min(low)
    BY <1>7
<1>9. ASSUME NEW m \in Int, Half(m) PROVE Min(low) <= m
  <2>1. PICK v \in low : v <= m
    BY <1>4, <1>9
  <2> HIDE DEF low
  <2>2. v \in Nat /\ Min(low) \in Nat /\ Min(low) <= v
    BY <1>6, <1>7
  <2> QED BY <2>1, <2>2
<1> HIDE DEF low
<1> QED BY <1>1, <1>8, <1>9

\* Every reading of the merge is one of a sample, and does not exceed a number
\* that half of the samples do not exceed.
LEMMA MergedIs ==
    ASSUME NEW ss \in Seq(Sample), ss # <<>>
    PROVE  /\ MergeSamples(ss) \in Sample
           /\ \A d \in Dim : \E i \in DOMAIN ss : ss[i][d] = MergeSamples(ss)[d]
           /\ \A d \in Dim : \A m \in Int :
                2 * Cardinality({i \in DOMAIN ss : ss[i][d].score <= m}) >= Len(ss)
                  => MergeSamples(ss)[d].score <= m
<1> DEFINE n == Len(ss)
           Values(d) == [i \in DOMAIN ss |-> ss[i][d].score]
           Median(d) == MedianLow(Values(d))
           Off(i, d) == Distance(ss[i][d].score, Median(d))
           Closest(d) == CHOOSE i \in DOMAIN ss : \A j \in DOMAIN ss :
             LET a == Distance(ss[i][d].score, Median(d))
                 b == Distance(ss[j][d].score, Median(d))
             IN  a < b \/ (a = b /\ i <= j)
<1>1. /\ n \in Nat \ {0} /\ DOMAIN ss = 1 .. n
      /\ \A i \in 1 .. n : ss[i] \in Sample
    OBVIOUS
<1>2. MergeSamples(ss) = [d \in Dim |-> [ss[Closest(d)][d] EXCEPT !.score = Median(d)]]
  <2>1. DOMAIN ss[1] = Dim
    BY <1>1 DEF Sample
  <2> QED BY <2>1 DEF MergeSamples
<1>3. ASSUME NEW d \in Dim
      PROVE  /\ Closest(d) \in 1 .. n /\ ss[Closest(d)][d].score = Median(d)
             /\ \A m \in Int : 2 * Cardinality({i \in DOMAIN ss : ss[i][d].score <= m}) >= n
                                 => Median(d) <= m
  <2>1. \A i \in 1 .. n : ss[i][d].score \in 1 .. 5
    BY <1>1 DEF Sample, Reading
  <2>2. Values(d) \in [1 .. n -> 1 .. 5]
    BY <1>1, <2>1
  <2>3. /\ \E i \in 1 .. n : Values(d)[i] = Median(d)
        /\ \A m \in Int : 2 * Cardinality({i \in 1 .. n : Values(d)[i] <= m}) >= n
                            => Median(d) <= m
    <3> HIDE DEF Values, n
    <3> QED BY <1>1, <2>2, MedianIs
  <2>4. \A i \in 1 .. n : Values(d)[i] = ss[i][d].score
    BY <1>1
  <2> HIDE DEF n, Values, Median
  <2>5. \A m \in Int : 2 * Cardinality({i \in DOMAIN ss : ss[i][d].score <= m}) >= n
                         => Median(d) <= m
    <3>1. \A m \in Int : {i \in DOMAIN ss : ss[i][d].score <= m} = {i \in 1 .. n : Values(d)[i] <= m}
        BY <1>1, <2>4
    <3> QED BY <2>3, <3>1
  <2> DEFINE exact == {i \in 1 .. n : ss[i][d].score = Median(d)}
  <2>6. exact \in SUBSET Nat /\ exact # {}
    BY <1>1, <2>3, <2>4
  <2>7. PICK e \in exact : \A i \in exact : e <= i
    <3> HIDE DEF exact
    <3> QED BY <2>6, SmallestIn
  <2>8. Median(d) \in 1 .. 5
    BY <2>1, <2>7
  <2>9. \A i \in 1 .. n : /\ Off(i, d) \in Nat
                          /\ Off(i, d) = 0 <=> ss[i][d].score = Median(d)
    BY <2>1, <2>8 DEF Distance
  <2> HIDE DEF Off
  <2>10. \A j \in 1 .. n : Off(e, d) < Off(j, d) \/ (Off(e, d) = Off(j, d) /\ e <= j)
    BY <2>7, <2>9
  <2>11. Closest(d) = CHOOSE i \in 1 .. n : \A j \in 1 .. n :
           Off(i, d) < Off(j, d) \/ (Off(i, d) = Off(j, d) /\ i <= j)
    BY <1>1 DEF Off
  <2> HIDE DEF Closest
  <2>12. /\ Closest(d) \in 1 .. n
         /\ \A j \in 1 .. n : \/ Off(Closest(d), d) < Off(j, d)
                              \/ Off(Closest(d), d) = Off(j, d) /\ Closest(d) <= j
    BY <2>7, <2>10, <2>11
  <2>13. Off(Closest(d), d) = 0
    <3>1. e \in 1 .. n /\ Off(e, d) = 0
        BY <2>7, <2>9
    <3>2. Off(Closest(d), d) < Off(e, d) \/ Off(Closest(d), d) = Off(e, d)
        BY <2>12, <3>1
    <3>3. Off(Closest(d), d) \in Nat
        BY <2>9, <2>12
    <3> QED BY <3>1, <3>2, <3>3
  <2> QED BY <2>5, <2>9, <2>12, <2>13
<1> HIDE DEF Closest, Median
<1>4. ASSUME NEW d \in Dim
      PROVE  ss[Closest(d)][d] \in Reading
               /\ [ss[Closest(d)][d] EXCEPT !.score = Median(d)] = ss[Closest(d)][d]
  <2> DEFINE r == ss[Closest(d)][d]
  <2>1. r \in Reading /\ r.score = Median(d)
    BY <1>1, <1>3 DEF Sample
  <2> HIDE DEF r
  <2>2. [r EXCEPT !.score = r.score] = r
    BY <2>1 DEF Reading
  <2> QED BY <2>1, <2>2 DEF r
<1>5. MergeSamples(ss) = [d \in Dim |-> ss[Closest(d)][d]]
    BY <1>2, <1>4
<1>6. MergeSamples(ss) \in Sample
    BY <1>4, <1>5 DEF Sample
<1>7. \A d \in Dim : Closest(d) \in DOMAIN ss /\ ss[Closest(d)][d] = MergeSamples(ss)[d]
    BY <1>1, <1>3, <1>5
<1>8. \A d \in Dim : MergeSamples(ss)[d].score = Median(d)
    BY <1>3, <1>5
<1> QED BY <1>3, <1>6, <1>7, <1>8

-----------------------------------------------------------------------------
(* The total of a call.                                                    *)

PointsOn(scores) == [d \in Dim |-> Weight[d] * (scores[d].score - 1) * 25]

LEMMA WeightSumType == WeightSum = SumOf(Weight, Dim) /\ WeightSum \in Int
<1> DEFINE F == [d \in Dim |-> Weight[d]]
<1>1. WeightSum = SumOf(F, Dim)
    BY SumIs DEF WeightSum
<1>2. IsFiniteSet(Dim) /\ \A d \in Dim : F[d] = Weight[d]
    BY ScoresAssumption DEF ScoresAssumption
<1> HIDE DEF F
<1>3. SumOf(F, Dim) = SumOf(Weight, Dim)
    BY <1>2, SumSame
<1>4. Integral(Weight, Dim)
    BY ScoresAssumption DEF ScoresAssumption, Integral
<1> QED BY <1>1, <1>3, <1>4, SumType

LEMMA TotalIs ==
    ASSUME NEW scores, \A d \in Dim : scores[d].score \in Int
    PROVE  /\ SumOf(PointsOn(scores), Dim) \in Int /\ GateCap * WeightSum \in Int
           /\ Integral(PointsOn(scores), Dim)
           /\ WeightedTotal(scores) =
                IF FailedGates(scores) # {} /\ SumOf(PointsOn(scores), Dim) > GateCap * WeightSum
                THEN GateCap * WeightSum ELSE SumOf(PointsOn(scores), Dim)
<1>1. \A d \in Dim : PointsOn(scores)[d] \in Int
  <2>1. \A w, s \in Int : w * (s - 1) * 25 \in Int
    OBVIOUS
  <2> QED BY <2>1, ScoresAssumption DEF ScoresAssumption, PointsOn
<1>2. Integral(PointsOn(scores), Dim)
    BY <1>1, ScoresAssumption DEF ScoresAssumption, Integral
<1>3. SumOf(PointsOn(scores), Dim) \in Int
    BY <1>2, SumType
<1>4. GateCap * WeightSum \in Int
    BY WeightSumType DEF GateCap
<1>5. WeightedTotal(scores) =
        IF FailedGates(scores) # {} /\ SumOf(PointsOn(scores), Dim) > GateCap * WeightSum
        THEN GateCap * WeightSum ELSE SumOf(PointsOn(scores), Dim)
  <2> DEFINE sum == Sum([d \in Dim |-> Weight[d] * (scores[d].score - 1) * 25])
  <2>1. WeightedTotal(scores) =
          IF FailedGates(scores) # {} /\ sum > GateCap * WeightSum
          THEN GateCap * WeightSum ELSE sum
    BY DEF WeightedTotal
  <2>2. sum = SumOf(PointsOn(scores), Dim)
    BY SumIs DEF PointsOn
  <2> HIDE DEF sum
  <2> QED BY <2>1, <2>2
<1> QED BY <1>2, <1>3, <1>4, <1>5

\* A failed gate caps the total.
LEMMA Capped ==
    ASSUME NEW scores, \A d \in Dim : scores[d].score \in Int, FailedGates(scores) # {}
    PROVE  WeightedTotal(scores) <= GateCap * WeightSum
BY TotalIs

\* Scores that are no lower anywhere give no lower total: they may lift the cap
\* and never bring it on.
LEMMA NoLower ==
    ASSUME NEW scores, NEW better,
           \A d \in Dim : /\ scores[d].score \in Int /\ better[d].score \in Int
                          /\ scores[d].score <= better[d].score
    PROVE  WeightedTotal(better) >= WeightedTotal(scores)
<1> DEFINE F == PointsOn(scores)
           G == PointsOn(better)
<1>1. FailedGates(better) \subseteq FailedGates(scores)
  <2>1. \A d \in Dim : better[d].score <= 2 => scores[d].score <= 2
    OBVIOUS
  <2>2. Gates \subseteq Dim
    BY ScoresAssumption DEF ScoresAssumption
  <2> QED BY <2>1, <2>2 DEF FailedGates
<1>2. \A d \in Dim : F[d] <= G[d]
  <2>1. \A w \in Nat : \A s, t \in Int : s <= t => w * (s - 1) * 25 <= w * (t - 1) * 25
    OBVIOUS
  <2> QED BY <2>1, ScoresAssumption DEF ScoresAssumption, PointsOn
<1>3. SumOf(F, Dim) <= SumOf(G, Dim)
  <2>1. Integral(F, Dim) /\ Integral(G, Dim)
    BY TotalIs
  <2> HIDE DEF F, G
  <2> QED BY <1>2, <2>1, SumGrows
<1> DEFINE cap == GateCap * WeightSum
<1>4. /\ SumOf(F, Dim) \in Int /\ SumOf(G, Dim) \in Int /\ cap \in Int
      /\ WeightedTotal(scores) = IF FailedGates(scores) # {} /\ SumOf(F, Dim) > cap
                                 THEN cap ELSE SumOf(F, Dim)
      /\ WeightedTotal(better) = IF FailedGates(better) # {} /\ SumOf(G, Dim) > cap
                                 THEN cap ELSE SumOf(G, Dim)
    BY TotalIs
<1> HIDE DEF F, G, cap
<1> QED BY <1>1, <1>3, <1>4

\* A better score in one dimension never lowers the total.
LEMMA NeverWorse ==
    ASSUME NEW scores \in Sample, NEW e \in Dim
    PROVE  WeightedTotal([scores EXCEPT ![e].score = @ + 1]) >= WeightedTotal(scores)
<1> DEFINE better == [scores EXCEPT ![e].score = @ + 1]
<1>1. \A d \in Dim : scores[d].score \in 1 .. 5
    BY DEF Sample, Reading
<1>2. \A d \in Dim : better[d].score = IF d = e THEN scores[d].score + 1 ELSE scores[d].score
  <2>1. DOMAIN scores = Dim /\ "score" \in DOMAIN scores[e]
    BY DEF Sample, Reading
  <2> QED BY <2>1
<1> HIDE DEF better
<1>3. \A d \in Dim : /\ better[d].score \in Int /\ scores[d].score \in Int
                     /\ scores[d].score <= better[d].score
    BY <1>1, <1>2
<1>4. WeightedTotal(better) >= WeightedTotal(scores)
    BY <1>3, NoLower
<1> QED BY <1>4 DEF better

-----------------------------------------------------------------------------
(* What is known of the judging at each of its steps.                      *)

\* The parts of samples that have been answered.
Answered == Len(samples) * Len(Parts) + part - 1

SamplesAre ==
    /\ samples \in Seq(Sample) /\ Len(samples) <= call.samples
    /\ Len(samples) = call.samples => part = 1 /\ attempt = 0

\* The first half of a sample that is asked for in two parts.
GotIs ==
    IF result # NoValue THEN got = None
    ELSE /\ report = NoValue
         /\ part = 1 => got = None
         /\ part = 2 => got \in [Gates -> Reading]

TriesAre ==
    /\ attempt \in 0 .. MaxRetries /\ feedback \in BOOLEAN
    /\ retries \in Nat /\ retries <= MaxRetries * Answered

CardIs ==
    HasCard => /\ samples # <<>>
               /\ result.scores = MergeSamples(samples)
               /\ result.total = WeightedTotal(result.scores)

JInv == CallIs /\ SamplesAre /\ GotIs /\ TriesAre /\ CardIs

LEMMA PartsAre ==
    ASSUME CallIs
    PROVE  \/ part = 1 /\ Len(Parts) = 2 /\ Asked = Gates
           \/ part = 2 /\ Len(Parts) = 2 /\ Asked = Dim \ Gates
           \/ part = 1 /\ Len(Parts) = 1 /\ Asked = Dim
<1>1. CASE Truncated(call.turns)
  <2>1. Parts = <<"gates", "others">> /\ part \in 1 .. 2
    BY <1>1 DEF Parts, CallIs
  <2> HIDE DEF Parts
  <2> QED BY <2>1 DEF Asked
<1>2. CASE ~Truncated(call.turns)
  <2>1. Parts = <<"whole">> /\ part = 1
    BY <1>2 DEF Parts, CallIs
  <2> HIDE DEF Parts
  <2> QED BY <2>1 DEF Asked
<1> QED BY <1>1, <1>2

\* A sample is whole once its last part is read.
LEMMA ReadIsWhole ==
    ASSUME CallIs, GotIs, result = NoValue, NEW answer \in call.answers,
           Valid(answer, Asked, call.turns),
           NEW all,
           all = [d \in DOMAIN got \cup Asked |->
                    IF d \in DOMAIN got THEN got[d] ELSE Read(answer, Asked, call.turns)[d]]
    PROVE  IF part < Len(Parts) THEN part = 1 /\ all \in [Gates -> Reading]
           ELSE all \in Sample
<1> DEFINE read == Read(answer, Asked, call.turns)
<1>1. Gates \subseteq Dim
    BY ScoresAssumption DEF ScoresAssumption
<1>2. Asked \subseteq Dim /\ part \in 1 .. 2 /\ part <= Len(Parts)
    BY <1>1, PartsAre DEF CallIs
<1>3. \A d \in Dim : answer.scores[d].score \in 1 .. 5
  <2>1. answer.readable /\ call \in Calls
    BY DEF Valid, CallIs
  <2> QED BY <2>1, JudgeAssumption DEF JudgeAssumption
<1>4. read \in [Asked -> Reading]
  <2> SUFFICES ASSUME NEW d \in Asked
               PROVE  [score |-> answer.scores[d].score,
                       evidence |-> [i \in DOMAIN answer.scores[d].evidence |->
                         Scrubbed(answer.scores[d].evidence[i], call.turns)]] \in Reading
    BY DEF Read
  <2>1. [i \in DOMAIN answer.scores[d].evidence |->
           Scrubbed(answer.scores[d].evidence[i], call.turns)] \in Wordings
    BY <1>2 DEF Wordings, CallIs
  <2> QED BY <1>2, <1>3, <2>1 DEF Reading
<1>5. all = [d \in DOMAIN got \cup Asked |-> IF d \in DOMAIN got THEN got[d] ELSE read[d]]
    OBVIOUS
<1> HIDE DEF read
<1>6. CASE part = 1
  <2>1. DOMAIN got = {}
    BY <1>6 DEF GotIs, None
  <2>2. all \in [Asked -> Reading]
    BY <1>4, <1>5, <2>1
  <2>3. CASE Len(Parts) = 2
    <3>1. Asked = Gates
        BY <1>6, <2>3, PartsAre
    <3> QED BY <1>6, <2>2, <2>3, <3>1
  <2>4. CASE Len(Parts) = 1
    <3>1. Asked = Dim
        BY <1>6, <2>4, PartsAre
    <3> QED BY <1>6, <2>2, <2>4, <3>1 DEF Sample
  <2> QED BY <2>3, <2>4, PartsAre
<1>7. CASE part = 2
  <2>1. got \in [Gates -> Reading]
    BY <1>7 DEF GotIs
  <2>2. Asked = Dim \ Gates /\ Len(Parts) = 2
    BY <1>2, <1>7, PartsAre
  <2>3. DOMAIN got \cup Asked = Dim
    BY <1>1, <2>1, <2>2
  <2>4. \A d \in Dim : (IF d \in DOMAIN got THEN got[d] ELSE read[d]) \in Reading
    BY <1>4, <2>1, <2>2
  <2>5. all \in Sample
    BY <1>5, <2>3, <2>4 DEF Sample
  <2> QED BY <1>7, <2>2, <2>5
<1> QED BY <1>2, <1>6, <1>7

\* An answer that is accepted is one more part answered.
LEMMA AcceptAdds ==
    ASSUME JInv, NEW answer \in call.answers, Accept(answer)
    PROVE  /\ call' = call /\ Parts' = Parts /\ result' = result /\ report' = report
           /\ part' \in 1 .. Len(Parts)
           /\ SamplesAre' /\ GotIs'
           /\ Answered \in Nat /\ Answered' = Answered + 1
           /\ Answered < call.samples * Len(Parts)
<1> DEFINE all == [d \in DOMAIN got \cup Asked |->
                     IF d \in DOMAIN got THEN got[d] ELSE Read(answer, Asked, call.turns)[d]]
<1>1. /\ call' = call /\ result' = result /\ report' = report /\ attempt' = 0
      /\ result = NoValue /\ Len(samples) < call.samples
      /\ Valid(answer, Asked, call.turns)
      /\ IF part < Len(Parts)
         THEN part' = part + 1 /\ got' = all /\ samples' = samples
         ELSE part' = 1 /\ got' = None /\ samples' = Append(samples, all)
    BY DEF Accept, Judging
<1>2. Parts' = Parts /\ Len(Parts) \in 1 .. 2 /\ part \in 1 .. Len(Parts)
    BY <1>1 DEF Parts, JInv, CallIs
<1>3. IF part < Len(Parts) THEN part = 1 /\ all \in [Gates -> Reading] ELSE all \in Sample
  <2>1. CallIs /\ GotIs
    BY DEF JInv
  <2>2. all = [d \in DOMAIN got \cup Asked |->
                 IF d \in DOMAIN got THEN got[d] ELSE Read(answer, Asked, call.turns)[d]]
    OBVIOUS
  <2> HIDE DEF all
  <2> QED BY <1>1, <2>1, <2>2, ReadIsWhole
<1>4. samples \in Seq(Sample) /\ Len(samples) \in Nat /\ call.samples \in Nat
    BY JudgeAssumption DEF JudgeAssumption, JInv, SamplesAre, CallIs
<1> HIDE DEF all
<1>5. CASE part < Len(Parts)
  <2>1. part = 1 /\ part' = 2 /\ samples' = samples /\ got' \in [Gates -> Reading] /\ Len(Parts) = 2
    <3>1. part = 1 /\ all \in [Gates -> Reading]
        BY <1>3, <1>5
    <3>2. part' = part + 1 /\ got' = all /\ samples' = samples
        BY <1>1, <1>5
    <3>3. Len(Parts) = 2
      <4> DEFINE n == Len(Parts)
      <4>1. n \in 1 .. 2 /\ 1 < n
        BY <1>2, <1>5, <3>1
      <4> HIDE DEF n
      <4>2. n = 2
        BY <4>1
      <4> QED BY <4>2 DEF n
    <3> QED BY <3>1, <3>2, <3>3
  <2>2. SamplesAre' /\ GotIs'
    BY <1>1, <1>4, <2>1 DEF SamplesAre, GotIs, JInv
  <2>3. Answered = Len(samples) * 2 /\ Answered' = Len(samples) * 2 + 1
    BY <1>2, <1>4, <2>1 DEF Answered
  <2>4. Answered \in Nat /\ Answered < call.samples * 2
    BY <1>1, <1>4, <2>3
  <2>5. Answered' = Answered + 1 /\ part' \in 1 .. Len(Parts)
    BY <1>4, <2>1, <2>3
  <2> QED BY <1>1, <1>2, <2>1, <2>2, <2>4, <2>5
<1>6. CASE ~(part < Len(Parts))
  <2>1. part = Len(Parts) /\ part' = 1 /\ got' = None /\ all \in Sample
        /\ samples' = Append(samples, all)
    <3>1. all \in Sample
        BY <1>3, <1>6
    <3>2. part' = 1 /\ got' = None /\ samples' = Append(samples, all)
        BY <1>1, <1>6
    <3>3. part = Len(Parts)
      <4> DEFINE n == Len(Parts)
      <4>1. n \in 1 .. 2 /\ part \in 1 .. n /\ ~(part < n)
        BY <1>2, <1>6
      <4> HIDE DEF n
      <4>2. part = n
        BY <4>1
      <4> QED BY <4>2 DEF n
    <3> QED BY <3>1, <3>2, <3>3
  <2>2. samples' \in Seq(Sample) /\ Len(samples') = Len(samples) + 1
    BY <1>4, <2>1
  <2>3. SamplesAre' /\ GotIs'
    <3>1. Len(samples') <= call.samples
        BY <1>1, <1>4, <2>2
    <3> QED BY <1>1, <2>1, <2>2, <3>1 DEF SamplesAre, GotIs, JInv
  <2>4. CASE Len(Parts) = 1
    <3>1. Answered = Len(samples) /\ Answered' = Len(samples) + 1
        BY <1>2, <1>4, <2>1, <2>2, <2>4 DEF Answered
    <3>2. Answered < call.samples * 1
        BY <1>1, <1>4, <3>1
    <3> QED BY <1>1, <1>2, <1>4, <2>1, <2>3, <2>4, <3>1, <3>2
  <2>5. CASE Len(Parts) = 2
    <3>1. Answered = Len(samples) * 2 + 1 /\ Answered' = (Len(samples) + 1) * 2
        BY <1>2, <1>4, <2>1, <2>2, <2>5 DEF Answered
    <3>2. Answered < call.samples * 2 /\ Answered' = Answered + 1 /\ Answered \in Nat
        BY <1>1, <1>4, <3>1
    <3> QED BY <1>1, <1>2, <2>1, <2>3, <2>5, <3>2
  <2> QED BY <1>2, <2>4, <2>5
<1> QED BY <1>5, <1>6

\* A failed attempt changes what was asked for in nothing.
LEMMA FailureKeeps ==
    ASSUME JInv, NEW wrong \in BOOLEAN, Judging, FailAttempt(wrong),
           UNCHANGED <<call, samples, part, retries, report>>
    PROVE  JInv'
<1>1. /\ result = NoValue /\ Len(samples) < call.samples /\ Parts' = Parts
      /\ Answered' = Answered
    BY DEF Judging, Parts, Answered
<1>2. call.samples \in Nat /\ Len(samples) \in Nat /\ MaxRetries \in Nat
    BY JudgeAssumption DEF JudgeAssumption, JInv, SamplesAre, CallIs
<1>3. CallIs'
    BY <1>1 DEF JInv, CallIs
<1>4. SamplesAre'
    BY <1>1, <1>2 DEF JInv, SamplesAre
<1>5. CASE attempt < MaxRetries
  <2>1. /\ attempt' = attempt + 1 /\ feedback' = wrong /\ got' = got /\ result' = result
    BY <1>5 DEF FailAttempt
  <2>2. TriesAre'
    BY <1>1, <1>2, <1>5, <2>1 DEF JInv, TriesAre
  <2>3. GotIs' /\ CardIs'
    BY <1>1, <2>1 DEF JInv, GotIs, CardIs, HasCard
  <2> QED BY <1>3, <1>4, <2>2, <2>3 DEF JInv
<1>6. CASE ~(attempt < MaxRetries)
  <2>1. /\ attempt' = attempt /\ feedback' = feedback /\ got' = None /\ result' = Held
    BY <1>6 DEF FailAttempt
  <2>2. TriesAre'
    BY <1>1, <2>1 DEF JInv, TriesAre
  <2>3. GotIs' /\ CardIs'
    BY <2>1, JudgeAssumption DEF JudgeAssumption, GotIs, CardIs, HasCard
  <2> QED BY <1>3, <1>4, <2>2, <2>3 DEF JInv
<1> QED BY <1>5, <1>6

LEMMA JudgingKeeps == Spec => []JInv
<1>1. Init => JInv
  <2> SUFFICES ASSUME Init PROVE JInv
    OBVIOUS
  <2>1. CallIs
    BY DEF Init, CallIs, Parts
  <2>2. call.samples \in Nat \ {0} /\ MaxRetries \in Nat
    BY <2>1, JudgeAssumption DEF JudgeAssumption, CallIs
  <2>3. samples = <<>> /\ samples \in Seq(Sample) /\ Len(samples) = 0
    BY DEF Init
  <2>4. SamplesAre /\ GotIs /\ CardIs
    BY <2>2, <2>3 DEF Init, SamplesAre, GotIs, CardIs, HasCard
  <2>5. Answered = 0
    <3>1. part = 1 /\ Len(Parts) \in Int
        BY DEF Init, Parts
    <3> QED BY <2>3, <3>1 DEF Answered
  <2>6. TriesAre
    <3>1. \A m \in Nat : 0 \in 0 .. m /\ 0 <= m * 0
        OBVIOUS
    <3> QED BY <2>2, <2>5, <3>1 DEF Init, TriesAre
  <2> QED BY <2>1, <2>4, <2>6 DEF JInv
<1>2. JInv /\ [Next]_vars => JInv'
  <2> SUFFICES ASSUME JInv, [Next]_vars PROVE JInv'
    OBVIOUS
  <2>1. ASSUME NEW answer \in call.answers, Accept(answer) PROVE JInv'
    <3>1. /\ call' = call /\ Parts' = Parts /\ result' = result /\ report' = report
          /\ part' \in 1 .. Len(Parts) /\ SamplesAre' /\ GotIs'
          /\ Answered \in Nat /\ Answered' = Answered + 1
        BY <2>1, AcceptAdds
    <3>2. attempt' = 0 /\ feedback' = FALSE /\ retries' = retries + attempt
          /\ result = NoValue
        BY <2>1 DEF Accept, Judging
    <3>3. CallIs'
        BY <3>1 DEF JInv, CallIs
    <3>4. TriesAre'
      <4>1. /\ attempt \in 0 .. MaxRetries /\ MaxRetries \in Nat
            /\ retries \in Nat /\ retries <= MaxRetries * Answered
          BY JudgeAssumption DEF JudgeAssumption, JInv, TriesAre
      <4>2. \A m, n \in Nat : m * (n + 1) = m * n + m /\ m * n \in Nat
          OBVIOUS
      <4> DEFINE before == MaxRetries * Answered
                 after == MaxRetries * (Answered + 1)
      <4>4. after = before + MaxRetries /\ before \in Nat
          BY <3>1, <4>1, <4>2
      <4>3. retries' \in Nat /\ retries' <= after
        <5> HIDE DEF before, after
        <5>1. retries <= before
            BY <4>1 DEF before
        <5> QED BY <3>2, <4>1, <4>4, <5>1
      <4>5. after = MaxRetries * Answered'
          BY <3>1
      <4>6. attempt' \in 0 .. MaxRetries /\ feedback' \in BOOLEAN
        <5>1. 0 \in 0 .. MaxRetries
            BY <4>1
        <5>2. feedback' \in BOOLEAN
            BY <3>2
        <5> QED BY <3>2, <5>1, <5>2
      <4> HIDE DEF after, before
      <4> QED BY <4>3, <4>5, <4>6 DEF TriesAre
    <3>5. CardIs'
        BY <3>1, <3>2 DEF CardIs, HasCard
    <3> QED BY <3>1, <3>3, <3>4, <3>5 DEF JInv
  <2>2. ASSUME NEW answer \in call.answers, Reject(answer) PROVE JInv'
    BY <2>2, FailureKeeps DEF Reject
  <2>3. CASE TransportFails
    BY <2>3, FailureKeeps DEF TransportFails
  <2>4. CASE Assemble
    <3>1. UNCHANGED <<call, samples, got, part, attempt, feedback, retries, report>>
          /\ result = NoValue /\ Len(samples) = call.samples
        BY <2>4 DEF Assemble
    <3>2. result' = [banker |-> call.banker, scores |-> MergeSamples(samples),
                     total |-> WeightedTotal(MergeSamples(samples)), rubric |-> call.rubric,
                     at |-> call.at]
        BY <2>4 DEF Assemble
    <3>3. Parts' = Parts /\ Answered' = Answered
        BY <3>1 DEF Parts, Answered
    <3>4. CallIs' /\ SamplesAre' /\ TriesAre'
        BY <3>1, <3>3 DEF JInv, CallIs, SamplesAre, TriesAre
    <3>5. part = 1 /\ got = None
        BY <3>1 DEF JInv, SamplesAre, GotIs
    <3>6. GotIs'
        BY <3>1, <3>5 DEF JInv, GotIs
    <3>7. samples # <<>>
        BY <3>1, JudgeAssumption DEF JudgeAssumption, JInv, CallIs
    <3>8. CardIs'
        BY <3>1, <3>2, <3>7 DEF CardIs
    <3> QED BY <3>4, <3>6, <3>8 DEF JInv
  <2>5. CASE Report \/ UNCHANGED vars
    <3>1. UNCHANGED <<call, samples, got, part, attempt, feedback, retries, result>>
          /\ (report' = report \/ result # NoValue)
        BY <2>5 DEF Report, vars
    <3>2. Parts' = Parts /\ Answered' = Answered
        BY <3>1 DEF Parts, Answered
    <3> QED BY <3>1, <3>2
            DEF JInv, CallIs, SamplesAre, GotIs, TriesAre, CardIs, HasCard
  <2> QED BY <2>1, <2>2, <2>3, <2>4, <2>5 DEF Next, Finished
<1> QED BY <1>1, <1>2, PTL DEF Spec

\* The bookkeeping of the retries keeps its bounds.
THEOREM Typing == Spec => []TypeOK
<1>1. JInv => TypeOK
  <2> SUFFICES ASSUME JInv PROVE TypeOK
    OBVIOUS
  <2>1. /\ call.samples \in Nat /\ MaxRetries \in Nat /\ Len(samples) \in Nat
        /\ Len(samples) <= call.samples
    BY JudgeAssumption DEF JudgeAssumption, JInv, CallIs, SamplesAre
  <2>2. Len(Parts) \in 1 .. 2 /\ part \in 1 .. Len(Parts)
    BY PartsAre DEF JInv, CallIs
  <2>3. Answered \in Nat /\ Answered <= 2 * call.samples
    <3>1. Len(samples) = call.samples => part = 1
        BY DEF JInv, SamplesAre
    <3>2. CASE Len(Parts) = 1
        BY <2>1, <2>2, <3>2 DEF Answered
    <3>3. CASE Len(Parts) = 2
        BY <2>1, <2>2, <3>1, <3>3 DEF Answered
    <3> QED BY <2>2, <3>2, <3>3
  <2>4. retries <= MaxRetries * 2 * call.samples
    <3>1. \A m, a, b \in Nat : a <= 2 * b => m * a <= m * 2 * b
        OBVIOUS
    <3>2. \A m, a \in Nat : m * a \in Nat
        OBVIOUS
    <3> DEFINE most == MaxRetries * Answered
               bound == MaxRetries * 2 * call.samples
    <3>3. most <= bound /\ most \in Nat /\ bound \in Nat
        BY <2>1, <2>3, <3>1, <3>2
    <3>4. retries \in Nat /\ retries <= most
        BY DEF JInv, TriesAre
    <3> HIDE DEF most, bound
    <3>5. retries <= bound
        BY <3>3, <3>4
    <3> QED BY <3>5 DEF bound
  <2>5. DOMAIN got \subseteq Dim
    <3>1. Gates \subseteq Dim
        BY ScoresAssumption DEF ScoresAssumption
    <3>2. part = 1 \/ part = 2
        BY PartsAre DEF JInv
    <3>3. GotIs
        BY DEF JInv
    <3>4. CASE got = None
        BY <3>4 DEF None
    <3>5. CASE got \in [Gates -> Reading]
        BY <3>1, <3>5
    <3> QED BY <3>2, <3>3, <3>4, <3>5 DEF GotIs
  <2>6. part \in 1 .. 2
    <3>1. part = 1 \/ part = 2
        BY PartsAre DEF JInv
    <3> QED BY <3>1
  <2>7. result # NoValue => got = None
    BY DEF JInv, GotIs
  <2>8. attempt \in 0 .. MaxRetries /\ feedback \in BOOLEAN
    BY DEF JInv, TriesAre
  <2> QED BY <2>1, <2>4, <2>5, <2>6, <2>7, <2>8 DEF TypeOK
<1> QED BY <1>1, JudgingKeeps, PTL

\* However many samples disagree, and however, the score of a call is on the
\* safe side of its gates, each dimension's number is one that was given with
\* the words beside it, and a better number never costs points
\* (runner.py:129-153, rubric.py:84-101).
THEOREM TheSafeScore == Spec => []ScoreIsSafe
<1>1. JInv => ScoreIsSafe
  <2> SUFFICES ASSUME JInv, HasCard PROVE ScoreIsSafe
    BY DEF ScoreIsSafe, GateSafe, WordsFitTheScore, BetterIsNotWorse
  <2>1. /\ samples \in Seq(Sample) /\ samples # <<>>
        /\ result.scores = MergeSamples(samples)
        /\ result.total = WeightedTotal(result.scores)
    BY DEF JInv, SamplesAre, CardIs
  <2>2. /\ result.scores \in Sample
        /\ \A d \in Dim : \E i \in DOMAIN samples : samples[i][d] = result.scores[d]
        /\ \A d \in Dim : \A m \in Int :
             2 * Cardinality({i \in DOMAIN samples : samples[i][d].score <= m}) >= Len(samples)
               => result.scores[d].score <= m
    BY <2>1, MergedIs
  <2>3. Gates \subseteq Dim
    BY ScoresAssumption DEF ScoresAssumption
  <2>4. GateSafe
    <3> SUFFICES ASSUME NEW g \in Gates,
                        2 * Cardinality({i \in DOMAIN samples : samples[i][g].score <= 2})
                          >= Len(samples)
                 PROVE  result.total <= GateCap * WeightSum
        BY DEF GateSafe
    <3>1. result.scores[g].score <= 2
        BY <2>2, <2>3
    <3>2. FailedGates(result.scores) # {}
        BY <3>1 DEF FailedGates
    <3>3. \A d \in Dim : result.scores[d].score \in Int
        BY <2>2 DEF Sample, Reading
    <3> QED BY <2>1, <3>2, <3>3, Capped
  <2>5. WordsFitTheScore
    BY <2>2 DEF WordsFitTheScore
  <2>6. BetterIsNotWorse
    BY <2>1, <2>2, NeverWorse DEF BetterIsNotWorse
  <2> QED BY <2>4, <2>5, <2>6 DEF ScoreIsSafe
<1> QED BY <1>1, JudgingKeeps, PTL

\* Python's None is neither a scorecard nor a report.
NoneIsApart ==
    /\ \A b, s, t, r, a : NoValue # [banker |-> b, scores |-> s, total |-> t, rubric |-> r,
                                     at |-> a]
    /\ \A b, p, e : NoValue # [bankers |-> b, passes |-> p, executive |-> e]

\* Whatever the judge and its server answer, and however often they do not,
\* every step of the judging uses up one of a number of steps that is known
\* at its start (runner.py:54-96).
THEOREM JudgingComesToAnEnd ==
    ASSUME NoneIsApart PROVE Spec => JudgingEnds
<1>1. JInv /\ [Next]_vars => [StepsLeft' < StepsLeft /\ StepsLeft' >= 0]_vars
  <2> SUFFICES ASSUME JInv, Next
               PROVE  (StepsLeft' < StepsLeft /\ StepsLeft' >= 0) \/ UNCHANGED vars
    BY DEF vars
  <2> DEFINE todo == call.samples * Len(Parts) - Answered
  <2>1. /\ call.samples \in Nat /\ MaxRetries \in Nat /\ Len(samples) \in Nat
        /\ Len(samples) <= call.samples /\ attempt \in 0 .. MaxRetries
    BY JudgeAssumption DEF JudgeAssumption, JInv, CallIs, SamplesAre, TriesAre
  <2>2. Len(Parts) \in 1 .. 2 /\ part \in 1 .. Len(Parts)
    BY PartsAre DEF JInv, CallIs
  <2>3. todo \in Nat /\ (Len(samples) < call.samples => todo >= 1)
    <3>1. Len(samples) = call.samples => part = 1
        BY DEF JInv, SamplesAre
    <3>2. CASE Len(Parts) = 1
        BY <2>1, <2>2, <3>2 DEF Answered
    <3>3. CASE Len(Parts) = 2
        BY <2>1, <2>2, <3>1, <3>3 DEF Answered
    <3> QED BY <2>2, <3>2, <3>3
  <2>4. \A k \in Nat : /\ k * (MaxRetries + 2) \in Nat
                       /\ (k + 1) * (MaxRetries + 2) = k * (MaxRetries + 2) + MaxRetries + 2
    BY <2>1
  <2>5. result = NoValue => StepsLeft = 2 + todo * (MaxRetries + 2) - attempt
    BY DEF StepsLeft, Answered, JInv, GotIs
  <2>6. ASSUME NEW answer \in call.answers, Accept(answer) PROVE StepsLeft' < StepsLeft /\ StepsLeft' >= 0
    <3>1. /\ call' = call /\ Parts' = Parts /\ result' = result /\ report' = report
          /\ Answered \in Nat /\ Answered' = Answered + 1
        BY <2>6, AcceptAdds
    <3>2. result = NoValue /\ attempt' = 0 /\ report = NoValue /\ todo >= 1
        BY <2>3, <2>6 DEF Accept, Judging, JInv, GotIs
    <3>3. StepsLeft' = 2 + (todo - 1) * (MaxRetries + 2)
      <4>1. StepsLeft' = 2 + (call.samples * Len(Parts) - Answered') * (MaxRetries + 2) - attempt'
          BY <3>1, <3>2 DEF StepsLeft, Answered
      <4>2. call.samples * Len(Parts) \in Int
          BY <2>1, <2>2
      <4>3. call.samples * Len(Parts) - Answered' = todo - 1
          BY <3>1, <4>2
      <4>4. (todo - 1) * (MaxRetries + 2) \in Int
          BY <2>1, <2>3
      <4> HIDE DEF todo
      <4> QED BY <3>2, <4>1, <4>3, <4>4
    <3> HIDE DEF todo
    <3> DEFINE k == todo - 1
               rest == k * (MaxRetries + 2)
    <3>4. k \in Nat /\ todo = k + 1
        BY <2>3, <3>2
    <3>5. rest \in Nat /\ todo * (MaxRetries + 2) = rest + MaxRetries + 2
      <4> HIDE DEF k
      <4> QED BY <2>4, <3>4
    <3>6. StepsLeft = 2 + (rest + MaxRetries + 2) - attempt /\ StepsLeft' = 2 + rest
        BY <2>5, <3>2, <3>3, <3>5
    <3> HIDE DEF rest
    <3> QED BY <2>1, <3>5, <3>6
  <2>7. ASSUME NEW wrong \in BOOLEAN, Judging, FailAttempt(wrong),
               UNCHANGED <<call, samples, part, retries, report>>
        PROVE  StepsLeft' < StepsLeft /\ StepsLeft' >= 0
    <3>1. /\ result = NoValue /\ report = NoValue /\ todo >= 1 /\ Parts' = Parts
          /\ Answered' = Answered
        BY <2>3, <2>7 DEF Judging, JInv, GotIs, Parts, Answered
    <3> DEFINE rest == todo * (MaxRetries + 2)
    <3>2. rest \in Nat /\ rest >= MaxRetries + 2
      <4> DEFINE k == todo - 1
      <4>1. k \in Nat /\ todo = k + 1
          BY <2>3, <3>1
      <4> HIDE DEF k, todo
      <4>2. todo * (MaxRetries + 2) = k * (MaxRetries + 2) + MaxRetries + 2 /\ k * (MaxRetries + 2) \in Nat
          BY <2>4, <4>1
      <4> QED BY <2>1, <4>2
    <3>3. StepsLeft = 2 + rest - attempt
        BY <2>5, <3>1
    <3>4. CASE attempt < MaxRetries
      <4>1. attempt' = attempt + 1 /\ result' = NoValue
          BY <2>7, <3>1, <3>4 DEF FailAttempt
      <4>2. StepsLeft' = 2 + rest - (attempt + 1)
          BY <2>7, <3>1, <4>1 DEF StepsLeft, Answered
      <4> HIDE DEF rest
      <4> QED BY <2>1, <3>2, <3>3, <3>4, <4>2
    <3>5. CASE ~(attempt < MaxRetries)
      <4>1. result' = Held
          BY <2>7, <3>5 DEF FailAttempt
      <4>2. StepsLeft' = 1
          BY <2>7, <3>1, <4>1, JudgeAssumption DEF JudgeAssumption, StepsLeft
      <4> HIDE DEF rest
      <4> QED BY <2>1, <3>2, <3>3, <4>2
    <3> QED BY <3>4, <3>5
  <2>8. ASSUME NEW answer \in call.answers, Reject(answer) PROVE StepsLeft' < StepsLeft /\ StepsLeft' >= 0
    BY <2>7, <2>8 DEF Reject
  <2>9. CASE TransportFails
    BY <2>7, <2>9 DEF TransportFails
  <2>10. CASE Assemble
    <3>1. result = NoValue /\ Len(samples) = call.samples /\ report' = report
        BY <2>10 DEF Assemble
    <3>2. result' # NoValue
        BY <2>10, NoneIsApart DEF Assemble, NoneIsApart
    <3>3. attempt = 0 /\ report = NoValue
        BY <3>1 DEF JInv, SamplesAre, GotIs
    <3>4. StepsLeft' = 1
        BY <3>1, <3>2, <3>3 DEF StepsLeft
    <3> DEFINE rest == todo * (MaxRetries + 2)
    <3>5. StepsLeft = 2 + rest - attempt /\ rest \in Nat
        BY <2>3, <2>4, <2>5, <3>1
    <3> HIDE DEF rest
    <3> QED BY <3>3, <3>4, <3>5
  <2>11. CASE Report
    <3>1. result # NoValue /\ report = NoValue /\ report' # NoValue
        BY <2>11, NoneIsApart DEF Report, NoneIsApart
    <3> QED BY <3>1 DEF StepsLeft
  <2> QED BY <2>6, <2>8, <2>9, <2>10, <2>11 DEF Next, Finished
<1> QED BY <1>1, JudgingKeeps, PTL DEF Spec, JudgingEnds

-----------------------------------------------------------------------------
(* What the reports are made of.                                           *)

\* A card is that of its samples, and a report that of the cards on disk.
WholeCard ==
    HasCard => result = [banker |-> call.banker, scores |-> MergeSamples(samples),
                         total |-> WeightedTotal(MergeSamples(samples)),
                         rubric |-> call.rubric, at |-> call.at]

Loaded == LoadScorecards(CardsAfter, StatusAfter)
Passed == Passes(HumanScores(call.raters), call.machine)
BatchOf == LoadBatch(call.folder, CardsAfter, StatusAfter, call.filter)
AnalysisOf == Analyse(BatchOf, Groups(BatchOf))
FindingsOf == Findings(AnalysisOf, Passed)
ExecutiveOf ==
    [batch |-> BatchOf, analysis |-> AnalysisOf, findings |-> FindingsOf,
     top |-> ExecutiveFive(InOrder(FindingsOf)), actions |-> Actions(Candidates(AnalysisOf))]
ReportOf ==
    [bankers |-> AggregateBankers(Loaded), passes |-> Passed,
     executive |-> IF call.folder = NoValue THEN NoValue ELSE ExecutiveOf]

ReportIs == WholeCard /\ (report # NoValue => result # NoValue /\ report = ReportOf)

\* A report is made of what is on disk then,
LEMMA FreshReport ==
    ASSUME Report PROVE result # NoValue /\ report' = ReportOf
<1> USE DEF ReportOf, Loaded, Passed
<1>1. CASE call.folder = NoValue
    BY <1>1 DEF Report
<1>2. CASE call.folder # NoValue
    BY <1>2 DEF Report, ExecutiveOf, FindingsOf, AnalysisOf, BatchOf
<1> QED BY <1>1, <1>2

\* and that stays as it is.
LEMMA SameReport ==
    ASSUME UNCHANGED <<call, result>> PROVE ReportOf' = ReportOf
BY DEF ReportOf, Loaded, Passed, ExecutiveOf, FindingsOf, AnalysisOf, BatchOf,
       CardsAfter, StatusAfter

LEMMA ReportKeeps == Spec => [](JInv /\ ReportIs)
<1>1. Init => ReportIs
    BY DEF Init, ReportIs, WholeCard, HasCard
<1>2. JInv /\ ReportIs /\ [Next]_vars => ReportIs'
  <2> SUFFICES ASSUME JInv, ReportIs, [Next]_vars PROVE ReportIs'
    OBVIOUS
  <2>1. ASSUME NEW wrong, Judging, FailAttempt(wrong),
               UNCHANGED <<call, samples, report>>
        PROVE ReportIs'
    <3>1. result = NoValue /\ report = NoValue /\ (result' = result \/ result' = Held)
      BY <2>1 DEF Judging, FailAttempt, JInv, GotIs
    <3> QED BY <2>1, <3>1 DEF ReportIs, WholeCard, HasCard
  <2>2. ASSUME NEW answer, Accept(answer) PROVE ReportIs'
    <3>1. result = NoValue /\ report = NoValue /\ UNCHANGED <<result, report>>
      BY <2>2 DEF Accept, Judging, JInv, GotIs
    <3> QED BY <3>1 DEF ReportIs, WholeCard, HasCard
  <2>3. CASE Assemble
    <3>1. report = NoValue /\ report' = NoValue /\ UNCHANGED <<call, samples>>
      BY <2>3 DEF Assemble, JInv, GotIs
    <3>2. result' = [banker |-> call.banker, scores |-> MergeSamples(samples),
                     total |-> WeightedTotal(MergeSamples(samples)),
                     rubric |-> call.rubric, at |-> call.at]
      BY <2>3 DEF Assemble
    <3> QED BY <3>1, <3>2 DEF ReportIs, WholeCard
  <2>4. CASE Report
    <3>1. UNCHANGED <<call, samples, result>>
      BY <2>4 DEF Report
    <3>2. result # NoValue /\ report' = ReportOf /\ ReportOf' = ReportOf
      BY <2>4, <3>1, FreshReport, SameReport
    <3>3. WholeCard'
      BY <3>1 DEF ReportIs, WholeCard, HasCard
    <3> QED BY <3>1, <3>2, <3>3 DEF ReportIs
  <2>5. CASE UNCHANGED vars
    <3>1. UNCHANGED <<call, samples, result, report>>
      BY <2>5 DEF vars
    <3>2. ReportOf' = ReportOf
      BY <3>1, SameReport
    <3> QED BY <3>1, <3>2 DEF ReportIs, WholeCard, HasCard
  <2> QED BY <2>1, <2>2, <2>3, <2>4, <2>5 DEF Next, Reject, TransportFails, Finished
<1> QED BY <1>1, <1>2, JudgingKeeps, PTL DEF Spec

-----------------------------------------------------------------------------
(* Orders on finite sets, given as what comes after each element.         *)

\* A strict order that tells any two elements of S apart.
Orders(R, S) ==
    /\ \A x \in S : x \notin R[x]
    /\ \A x, y, z \in S : y \in R[x] /\ z \in R[y] => z \in R[x]
    /\ \A x, y \in S : x # y => y \in R[x] \/ x \in R[y]

\* One of them comes first.
LEMMA FirstIn ==
    ASSUME NEW S, IsFiniteSet(S), S # {}, NEW R, Orders(R, S)
    PROVE  \E x \in S : \A y \in S : y # x => y \in R[x]
<1> DEFINE Without == {s \in SUBSET S : s # {} /\ \A x \in s : \E y \in s : y # x /\ y \notin R[x]}
<1> SUFFICES ASSUME Without # {} PROVE FALSE
  <2>1. S \in SUBSET S
    OBVIOUS
  <2> QED BY <2>1
<1>1. PICK s \in Without : \A t \in SUBSET s : t # s => t \notin Without
  <2>1. Without \in SUBSET (SUBSET S)
    OBVIOUS
  <2> HIDE DEF Without
  <2> QED BY <2>1, MinimalSet
<1>2. PICK e \in s : TRUE
    OBVIOUS
<1> DEFINE rest == s \ {e}
<1>3. rest \notin Without
  <2>1. rest \in SUBSET s /\ rest # s
    OBVIOUS
  <2> HIDE DEF Without, rest
  <2> QED BY <1>1, <2>1
<1>4. PICK z \in s : z # e /\ z \notin R[e]
    BY <1>2
<1>5. rest # {}
    BY <1>4
<1>6. PICK x \in rest : \A y \in rest : y = x \/ y \in R[x]
    BY <1>3, <1>5
<1>7. s \subseteq S
    OBVIOUS
<1>8. e \in R[x]
  <2> SUFFICES ASSUME e \notin R[x] PROVE FALSE
    OBVIOUS
  <2>1. x \in R[e]
    BY <1>2, <1>6, <1>7 DEF Orders
  <2>2. z \in R[e]
    BY <1>2, <1>4, <1>6, <1>7, <2>1 DEF Orders
  <2> QED BY <1>4, <2>2
<1>9. \A y \in s : y = x \/ y \in R[x]
    BY <1>6, <1>8
<1> QED BY <1>6, <1>9

-----------------------------------------------------------------------------
(* The cards that count.                                                   *)

\* Cards on disk, by the numbers of their calls.
CardFile(cards) ==
    /\ IsFiniteSet(DOMAIN cards) /\ DOMAIN cards \subseteq Int
    /\ \A c \in DOMAIN cards : IsCard(cards[c])

OfRubric(cards, r) == {c \in DOMAIN cards : cards[c].rubric = r}

LEMMA RestrictedFile ==
    ASSUME NEW cards, CardFile(cards), NEW S \in SUBSET DOMAIN cards
    PROVE  /\ CardFile(Restrict(cards, S)) /\ DOMAIN Restrict(cards, S) = S
           /\ \A c \in S : Restrict(cards, S)[c] = cards[c]
<1>1. DOMAIN Restrict(cards, S) = S /\ \A c \in S : Restrict(cards, S)[c] = cards[c]
    BY DEF Restrict
<1>2. IsFiniteSet(S)
    BY FS_Subset DEF CardFile
<1> QED BY <1>1, <1>2 DEF CardFile

\* Of cards of one time, that of the first file counts as the newest.
Newer(cards, c, x) == \/ cards[c].at > cards[x].at
                      \/ cards[c].at = cards[x].at /\ c <= x
NewerThan(cards) ==
    [c \in DOMAIN cards |-> {x \in DOMAIN cards : c # x /\ Newer(cards, c, x)}]

LEMMA NewerOrders ==
    ASSUME NEW cards, CardFile(cards) PROVE Orders(NewerThan(cards), DOMAIN cards)
<1>1. \A c \in DOMAIN cards : c \in Int /\ cards[c].at \in Int
    BY DEF CardFile, IsCard
<1>2. ASSUME NEW x \in DOMAIN cards, NEW y \in DOMAIN cards
      PROVE  y \in NewerThan(cards)[x] <=> x # y /\ Newer(cards, x, y)
    BY DEF NewerThan
<1>3. ASSUME NEW x \in DOMAIN cards, NEW y \in DOMAIN cards, NEW z \in DOMAIN cards,
             y \in NewerThan(cards)[x], z \in NewerThan(cards)[y]
      PROVE  z \in NewerThan(cards)[x]
    BY <1>1, <1>2, <1>3 DEF Newer
<1>4. ASSUME NEW x \in DOMAIN cards, NEW y \in DOMAIN cards, x # y
      PROVE  y \in NewerThan(cards)[x] \/ x \in NewerThan(cards)[y]
    BY <1>1, <1>2, <1>4 DEF Newer
<1> QED BY <1>2, <1>3, <1>4 DEF Orders

\* The newest card says which rubric counts.
LEMMA CohortIs ==
    ASSUME NEW cards, CardFile(cards), DOMAIN cards # {}
    PROVE  \E n \in DOMAIN cards :
             SingleRubricCohort(cards) = Restrict(cards, OfRubric(cards, cards[n].rubric))
<1> DEFINE newest == CHOOSE c \in DOMAIN cards : \A x \in DOMAIN cards : Newer(cards, c, x)
<1>1. \A c \in DOMAIN cards : c \in Int /\ cards[c].at \in Int
    BY DEF CardFile, IsCard
<1>3. PICK c \in DOMAIN cards : \A x \in DOMAIN cards : x # c => x \in NewerThan(cards)[c]
    BY NewerOrders, FirstIn DEF CardFile
<1>4. \A x \in DOMAIN cards : Newer(cards, c, x)
  <2>1. Newer(cards, c, c)
    BY <1>1 DEF Newer
  <2>2. \A x \in DOMAIN cards : x # c => Newer(cards, c, x)
    BY <1>3 DEF NewerThan
  <2> QED BY <2>1, <2>2
<1>5. newest \in DOMAIN cards
    BY <1>4
<1>6. SingleRubricCohort(cards) = Restrict(cards, OfRubric(cards, cards[newest].rubric))
    BY DEF SingleRubricCohort, OfRubric, Newer
<1> HIDE DEF newest
<1> QED BY <1>5, <1>6

LEMMA EmptyCohort ==
    ASSUME NEW cards, DOMAIN cards = {}
    PROVE  DOMAIN SingleRubricCohort(cards) = {}
BY DEF SingleRubricCohort, Restrict

\* The cards of one rubric are taken as they are.
LEMMA CohortAgain ==
    ASSUME NEW cards, CardFile(cards), NEW r, \A c \in DOMAIN cards : cards[c].rubric = r
    PROVE  /\ DOMAIN SingleRubricCohort(cards) = DOMAIN cards
           /\ \A c \in DOMAIN cards : SingleRubricCohort(cards)[c] = cards[c]
<1>1. CASE DOMAIN cards = {}
    BY <1>1, EmptyCohort
<1>2. CASE DOMAIN cards # {}
  <2>1. PICK n \in DOMAIN cards :
          SingleRubricCohort(cards) = Restrict(cards, OfRubric(cards, cards[n].rubric))
    BY <1>2, CohortIs
  <2>2. OfRubric(cards, cards[n].rubric) = DOMAIN cards
    BY DEF OfRubric
  <2> QED BY <2>1, <2>2, RestrictedFile
<1> QED BY <1>1, <1>2

\* Cards that may count: none whose envelope says that the call is held.
Standing(cards, status) == {c \in DOMAIN cards : status[c] \in {NoValue, "success"}}

LEMMA LoadedIs ==
    ASSUME NEW cards, CardFile(cards), NEW status, NEW q \in Rubrics
    PROVE  \E r \in Rubrics :
             /\ DOMAIN LoadScorecards(cards, status) =
                  {c \in Standing(cards, status) : cards[c].rubric = r}
             /\ \A c \in DOMAIN LoadScorecards(cards, status) :
                  LoadScorecards(cards, status)[c] = cards[c]
<1> DEFINE may == Restrict(cards, Standing(cards, status))
<1>1. /\ CardFile(may) /\ DOMAIN may = Standing(cards, status)
      /\ \A c \in Standing(cards, status) : may[c] = cards[c]
    BY RestrictedFile DEF Standing
<1>2. LoadScorecards(cards, status) = SingleRubricCohort(may)
    BY DEF LoadScorecards, Standing
<1> HIDE DEF may
<1>3. CASE Standing(cards, status) = {}
    BY <1>1, <1>2, <1>3, EmptyCohort
<1>4. CASE Standing(cards, status) # {}
  <2>1. PICK n \in DOMAIN may :
          SingleRubricCohort(may) = Restrict(may, OfRubric(may, may[n].rubric))
    BY <1>1, <1>4, CohortIs
  <2>2. may[n].rubric \in Rubrics
    BY <1>1 DEF CardFile, IsCard
  <2> DEFINE of == OfRubric(may, may[n].rubric)
  <2>3. of = {c \in Standing(cards, status) : cards[c].rubric = may[n].rubric}
    BY <1>1 DEF OfRubric
  <2>4. of \subseteq DOMAIN may
    BY DEF OfRubric
  <2> HIDE DEF of
  <2>5. DOMAIN Restrict(may, of) = of /\ \A c \in of : Restrict(may, of)[c] = cards[c]
    BY <1>1, <2>3, <2>4, RestrictedFile
  <2>6. SingleRubricCohort(may) = Restrict(may, of)
    BY <2>1 DEF of
  <2> QED BY <1>2, <2>2, <2>3, <2>5, <2>6
<1> QED BY <1>3, <1>4

\* What a banker's report says of the cards that count.
LEMMA BankerIs ==
    ASSUME NEW load, CardFile(load), NEW r, \A c \in DOMAIN load : load[c].rubric = r,
           NEW b \in DOMAIN AggregateBankers(load)
    PROVE  LET own == {c \in DOMAIN load : load[c].banker = b}
           IN  /\ AggregateBankers(load)[b].n = Cardinality(own)
               /\ AggregateBankers(load)[b].total = Sum([c \in own |-> load[c].total])
<1> DEFINE cohort == SingleRubricCohort(load)
           own == {c \in DOMAIN load : load[c].banker = b}
           mine == CardsOf(cohort, b)
<1>1. AggregateBankers(load) =
        [x \in {cohort[c].banker : c \in DOMAIN cohort} |->
           [n |-> Cardinality(DOMAIN CardsOf(cohort, x)),
            total |-> Sum([c \in DOMAIN CardsOf(cohort, x) |-> CardsOf(cohort, x)[c].total]),
            strongest |-> Strongest(CardsOf(cohort, x)),
            weakest |-> Weakest(CardsOf(cohort, x)),
            strength |-> PickEvidence(CardsOf(cohort, x), Strongest(CardsOf(cohort, x)), TRUE),
            development |-> PickEvidence(CardsOf(cohort, x), Weakest(CardsOf(cohort, x)), FALSE)]]
    BY DEF AggregateBankers
<1>2. DOMAIN cohort = DOMAIN load /\ \A c \in DOMAIN load : cohort[c] = load[c]
    BY CohortAgain
<1>3. /\ AggregateBankers(load)[b].n = Cardinality(DOMAIN mine)
      /\ AggregateBankers(load)[b].total = Sum([c \in DOMAIN mine |-> mine[c].total])
    BY <1>1
<1> HIDE DEF cohort
<1>4. DOMAIN mine = own /\ \A c \in own : mine[c] = load[c]
    BY <1>2 DEF CardsOf, Restrict
<1> HIDE DEF mine
<1>5. [c \in DOMAIN mine |-> mine[c].total] = [c \in own |-> load[c].total]
    BY <1>4
<1> QED BY <1>3, <1>4, <1>5

\* What a banker's report counts.
LEMMA BankersAre ==
    ASSUME NEW cards, CardFile(cards), NEW status, NEW q \in Rubrics
    PROVE  \E r \in Rubrics : \A b \in DOMAIN AggregateBankers(LoadScorecards(cards, status)) :
             AggregateBankers(LoadScorecards(cards, status))[b].n =
               Cardinality({c \in Standing(cards, status) :
                              cards[c].banker = b /\ cards[c].rubric = r})
<1> DEFINE load == LoadScorecards(cards, status)
<1>1. PICK r \in Rubrics :
        /\ DOMAIN load = {c \in Standing(cards, status) : cards[c].rubric = r}
        /\ \A c \in DOMAIN load : load[c] = cards[c]
    BY LoadedIs
<1>2. CardFile(load) /\ \A c \in DOMAIN load : load[c].rubric = r
  <2>1. DOMAIN load \subseteq DOMAIN cards
    BY <1>1 DEF Standing
  <2>2. IsFiniteSet(DOMAIN load)
    BY <2>1, FS_Subset DEF CardFile
  <2> HIDE DEF load
  <2> QED BY <1>1, <2>1, <2>2 DEF CardFile
<1> HIDE DEF load
<1>3. ASSUME NEW b \in DOMAIN AggregateBankers(load)
      PROVE  AggregateBankers(load)[b].n =
               Cardinality({c \in Standing(cards, status) :
                              cards[c].banker = b /\ cards[c].rubric = r})
  <2>1. AggregateBankers(load)[b].n = Cardinality({c \in DOMAIN load : load[c].banker = b})
    BY <1>2, BankerIs
  <2>2. {c \in DOMAIN load : load[c].banker = b} =
          {c \in Standing(cards, status) : cards[c].banker = b /\ cards[c].rubric = r}
    BY <1>1
  <2> QED BY <2>1, <2>2
<1> QED BY <1>3 DEF load

LEMMA CallFacts ==
    ASSUME CallIs
    PROVE  /\ call.id \in DOMAIN call.status /\ DOMAIN call.status \subseteq Int
           /\ IsFiniteSet(DOMAIN call.status)
           /\ call.banker \in Int /\ call.rubric \in Rubrics /\ call.at \in Int
           /\ DOMAIN call.cards \subseteq DOMAIN call.status
           /\ \A x \in DOMAIN call.cards : IsCard(call.cards[x])
           /\ \A d \in Dim : /\ call.machine[d] \in Seq(1 .. 5)
                             /\ call.raters[d] \in Seq(Seq(1 .. 5))
                             /\ Len(call.machine[d]) = Len(call.raters[d])
BY RecordsAssumption DEF RecordsAssumption, CallIs

\* The judge's own card is a card like those on disk.
LEMMA OwnCard ==
    ASSUME JInv, WholeCard, HasCard PROVE IsCard(result) /\ WeighedNow(result)
<1>1. samples \in Seq(Sample) /\ samples # <<>>
    BY DEF JInv, SamplesAre, CardIs
<1> DEFINE scores == MergeSamples(samples)
<1>2. scores \in Sample
    BY <1>1, MergedIs
<1>3. /\ result.banker = call.banker /\ result.scores = scores
      /\ result.total = WeightedTotal(scores) /\ result.rubric = call.rubric
      /\ result.at = call.at /\ result # NoValue
    BY DEF WholeCard, HasCard
<1> HIDE DEF scores
<1>4. DOMAIN scores = Dim /\ \A d \in Dim : scores[d].score \in 1 .. 5
    BY <1>2 DEF Sample, Reading
<1>5. WeightedTotal(scores) \in Int
    BY <1>4, TotalIs
<1> QED BY <1>3, <1>4, <1>5, CallFacts DEF IsCard, JInv, WeighedNow

LEMMA CardsAre ==
    ASSUME JInv, WholeCard, result # NoValue
    PROVE  CardFile(CardsAfter) /\ DOMAIN StatusAfter = DOMAIN call.status
           /\ DOMAIN CardsAfter \subseteq DOMAIN call.status
<1>1. DOMAIN StatusAfter = DOMAIN call.status
    BY DEF StatusAfter
<1>2. DOMAIN CardsAfter \subseteq DOMAIN call.status
    BY CallFacts DEF CardsAfter, JInv
<1>3. IsFiniteSet(DOMAIN CardsAfter) /\ DOMAIN CardsAfter \subseteq Int
    BY <1>2, CallFacts, FS_Subset DEF JInv
<1>4. ASSUME NEW c \in DOMAIN CardsAfter PROVE IsCard(CardsAfter[c])
  <2>1. CASE result = Held
    BY <2>1, CallFacts DEF CardsAfter, JInv
  <2>2. CASE result # Held
    <3>1. IsCard(result)
      BY <2>2, OwnCard DEF HasCard
    <3>2. CardsAfter[c] = result \/ (c \in DOMAIN call.cards /\ CardsAfter[c] = call.cards[c])
      BY <2>2 DEF CardsAfter
    <3> QED BY <3>1, <3>2, CallFacts DEF JInv
  <2> QED BY <2>1, <2>2
<1> QED BY <1>1, <1>2, <1>3, <1>4 DEF CardFile

-----------------------------------------------------------------------------
(* What the reports count.                                                 *)

\* Ratings that do not differ among the calls have no kappa, and then any
\* difference flags the dimension.
LEMMA NoSpread ==
    ASSUME CallIs, Passed, NEW d \in Dim,
           Len(call.machine[d]) >= MinCalls, Cardinality(ToSet(call.machine[d])) = 1
    PROVE  HumanScores(call.raters)[d] = call.machine[d]
<1> DEFINE human == HumanScores(call.raters)[d]
           machine == call.machine[d]
           n == Len(machine)
<1>1. ~Flagged(human, machine)
    BY DEF Passed, Passes
<1>2. SafeQwk(human, machine) = NoValue
    BY DEF SafeQwk
<1>3. machine \in Seq(1 .. 5) /\ call.raters[d] \in Seq(Seq(1 .. 5)) /\ n = Len(call.raters[d])
    BY CallFacts
<1>4. human = [i \in 1 .. n |-> MeanRounded(call.raters[d][i])]
    BY <1>3 DEF HumanScores
<1>5. Len(human) = n
  <2>1. n \in Nat /\ DOMAIN human = 1 .. n
    BY <1>3, <1>4
  <2> HIDE DEF human, n
  <2> QED BY <1>4, <2>1
<1> HIDE DEF human
<1>6. ~Disagree(human, machine)
    BY <1>1, <1>2, <1>5 DEF Flagged
<1>7. \A i \in 1 .. n : human[i] = machine[i]
    BY <1>4, <1>6 DEF Disagree
<1>8. machine = [i \in 1 .. n |-> machine[i]]
    BY <1>3
<1>9. human = [i \in 1 .. n |-> human[i]]
    BY <1>4
<1> QED BY <1>7, <1>8, <1>9 DEF human

\* However cards, envelopes and ratings stand, every number of a banker's report
\* is of calls of one rubric that were published, a call that is held is not
\* among them, and a judge without spread does not pass a calibration it differs
\* in (aggregation.py:20-75, calibration.py:216-266).
THEOREM ReportsCountWhatStands == Spec => []CountsWhatStands
<1>1. JInv /\ ReportIs => CountsWhatStands
  <2> SUFFICES ASSUME JInv, ReportIs, report # NoValue PROVE CountsWhatStands
    BY DEF CountsWhatStands, OneRubric, HeldIsNotCounted, CalibrationNeedsSpread
  <2>1. /\ report.bankers = AggregateBankers(LoadScorecards(CardsAfter, StatusAfter))
        /\ report.passes = Passed /\ result # NoValue
    BY DEF ReportIs, ReportOf, Loaded
  <2>2. CardFile(CardsAfter) /\ call.rubric \in Rubrics /\ call.id \in DOMAIN call.status
    BY <2>1, CardsAre, CallFacts DEF ReportIs, JInv
  <2>3. PICK r \in Rubrics : \A b \in DOMAIN report.bankers :
          report.bankers[b].n =
            Cardinality({c \in Standing(CardsAfter, StatusAfter) :
                           CardsAfter[c].banker = b /\ CardsAfter[c].rubric = r})
    BY <2>1, <2>2, BankersAre
  <2>4. OneRubric
    <3> SUFFICES ASSUME NEW b \in DOMAIN report.bankers
                 PROVE  report.bankers[b].n =
                          Cardinality({c \in DOMAIN CardsAfter :
                            /\ CardsAfter[c].banker = b /\ CardsAfter[c].rubric = r
                            /\ StatusAfter[c] \in {NoValue, "success"}})
      BY DEF OneRubric
    <3>1. {c \in DOMAIN CardsAfter :
             /\ CardsAfter[c].banker = b /\ CardsAfter[c].rubric = r
             /\ StatusAfter[c] \in {NoValue, "success"}}
          = {c \in Standing(CardsAfter, StatusAfter) :
               CardsAfter[c].banker = b /\ CardsAfter[c].rubric = r}
      BY DEF Standing
    <3> QED BY <2>3, <3>1
  <2>5. HeldIsNotCounted
    <3> SUFFICES ASSUME StatusAfter[call.id] = "needs_human_review",
                        NEW b \in DOMAIN report.bankers
                 PROVE  report.bankers[b].n <=
                          Cardinality({c \in DOMAIN CardsAfter \ {call.id} :
                                         CardsAfter[c].banker = b})
      BY DEF HeldIsNotCounted
    <3> DEFINE counted == {c \in Standing(CardsAfter, StatusAfter) :
                             CardsAfter[c].banker = b /\ CardsAfter[c].rubric = r}
               others == {c \in DOMAIN CardsAfter \ {call.id} : CardsAfter[c].banker = b}
    <3>1. "needs_human_review" # "success" /\ call.id \notin Standing(CardsAfter, StatusAfter)
      BY JudgeAssumption DEF JudgeAssumption, Standing
    <3>2. counted \subseteq others
      BY <3>1 DEF Standing
    <3>3. IsFiniteSet(others)
      BY <2>2, FS_Subset DEF CardFile
    <3> HIDE DEF counted, others
    <3>4. Cardinality(counted) <= Cardinality(others)
      BY <3>2, <3>3, FS_Subset
    <3> QED BY <2>3, <3>4 DEF counted, others
  <2>6. CalibrationNeedsSpread
    BY <2>1, NoSpread DEF CalibrationNeedsSpread, JInv
  <2> QED BY <2>4, <2>5, <2>6 DEF CountsWhatStands
<1> QED BY <1>1, ReportKeeps, PTL

\* What stands last in an order.
LEMMA LastIn ==
    ASSUME NEW S, IsFiniteSet(S), S # {}, NEW R, Orders(R, S)
    PROVE  \E z \in S : \A y \in S : y # z => z \in R[y]
<1> DEFINE Back == [x \in S |-> {y \in S : x \in R[y]}]
<1>1. \A x, y \in S : y \in Back[x] <=> x \in R[y]
    OBVIOUS
<1> HIDE DEF Back
<1>2. Orders(Back, S)
    BY <1>1 DEF Orders
<1>3. PICK z \in S : \A y \in S : y # z => y \in Back[z]
    BY <1>2, FirstIn
<1> QED BY <1>1, <1>3

\* Every rank is that of an element.
LEMMA RankExists ==
    ASSUME NEW S, IsFiniteSet(S), NEW R, Orders(R, S), NEW k \in 1 .. Cardinality(S)
    PROVE  \E x \in S : Cardinality({y \in S : x \in R[y]}) = k - 1
<1> DEFINE Rank(s, x) == Cardinality({y \in s : x \in R[y]})
           Bad == {s \in SUBSET S : \E n \in 1 .. Cardinality(s) : \A x \in s : Rank(s, x) # n - 1}
<1> SUFFICES ASSUME Bad # {} PROVE FALSE
  <2>1. S \notin Bad => \E x \in S : Rank(S, x) = k - 1
    OBVIOUS
  <2> QED BY <2>1
<1>1. PICK s \in Bad : \A t \in SUBSET s : t # s => t \notin Bad
  <2>1. Bad \in SUBSET (SUBSET S)
    OBVIOUS
  <2> HIDE DEF Bad
  <2> QED BY <2>1, MinimalSet
<1>2. s \subseteq S /\ IsFiniteSet(s) /\ Cardinality(s) \in Nat
    BY FS_Subset, FS_CardinalityType
<1>3. PICK n \in 1 .. Cardinality(s) : \A x \in s : Rank(s, x) # n - 1
    BY <1>1
<1>4. s # {}
    BY <1>2, <1>3, FS_EmptySet
<1>5. Orders(R, s)
    BY <1>2 DEF Orders
<1>6. PICK z \in s : \A y \in s : y # z => z \in R[y]
    BY <1>2, <1>4, <1>5, LastIn
<1> DEFINE t == s \ {z}
<1>7. t \in SUBSET S /\ t \in SUBSET s /\ t # s /\ Cardinality(t) = Cardinality(s) - 1
    BY <1>2, FS_RemoveElement
<1>8. t \notin Bad
  <2> HIDE DEF Bad, t
  <2> QED BY <1>1, <1>7
<1>9. {y \in s : z \in R[y]} = t
    BY <1>5, <1>6 DEF Orders
<1>10. n # Cardinality(s)
  <2>1. Rank(s, z) = Cardinality(s) - 1
    BY <1>7, <1>9
  <2> HIDE DEF Rank
  <2> QED BY <1>3, <2>1
<1>11. n \in 1 .. Cardinality(t)
    BY <1>2, <1>7, <1>10
<1>12. PICK x \in t : Rank(t, x) = n - 1
  <2> HIDE DEF t, Rank
  <2> QED BY <1>7, <1>8, <1>11
<1>13. {y \in s : x \in R[y]} = {y \in t : x \in R[y]}
  <2>1. x \notin R[z]
    BY <1>5, <1>6 DEF Orders
  <2> QED BY <2>1
<1>14. Rank(s, x) = n - 1
    BY <1>12, <1>13
<1> QED BY <1>3, <1>12, <1>14

-----------------------------------------------------------------------------
(* The calls of a batch.                                                   *)


LEMMA RecordIs ==
    ASSUME NEW c \in DOMAIN BatchOf
    PROVE  BatchOf[c] = Record(call.folder, CardsAfter, StatusAfter, c)
           /\ c \in DOMAIN StatusAfter
BY DEF BatchOf, LoadBatch, InBatch

LEMMA ScoredIs ==
    ASSUME JInv, ReportIs, result # NoValue, NEW c \in Scored(BatchOf)
    PROVE  /\ c \in DOMAIN BatchOf /\ c \in Int
           /\ c \in DOMAIN CardsAfter /\ BatchOf[c].card = CardsAfter[c]
           /\ IsCard(BatchOf[c].card) /\ BatchOf[c].raw = BatchOf[c].card.banker
           /\ BatchOf[c].banker = Shown(BatchOf[c].card.banker)
           /\ StatusAfter[c] \in {NoValue, "success"}
<1> DEFINE cards == CardsAfter
           status == StatusAfter
           card == CardOf(cards, status, c)
           rec == Record(call.folder, cards, status, c)
<1>1. c \in DOMAIN BatchOf /\ BatchOf[c] = rec /\ c \in DOMAIN status /\ BatchOf[c].card # NoValue
    BY RecordIs DEF Scored
<1>2. rec.card = card /\ (card # NoValue => rec.raw = card.banker) /\ rec.banker = Shown(rec.raw)
    BY DEF Record
<1> HIDE DEF rec
<1>3. card # NoValue
    BY <1>1, <1>2
<1>4. /\ status[c] \in {NoValue, "success"} /\ c \in DOMAIN LoadScorecards(cards, status)
      /\ card = LoadScorecards(cards, status)[c]
    BY <1>3 DEF CardOf
<1>5. CardFile(cards) /\ call.rubric \in Rubrics /\ DOMAIN status \subseteq Int
    BY CardsAre, CallFacts DEF ReportIs, JInv
<1> HIDE DEF card, cards, status
<1>6. card = cards[c] /\ c \in DOMAIN cards
  <2>1. PICK r \in Rubrics :
          /\ DOMAIN LoadScorecards(cards, status) =
               {x \in Standing(cards, status) : cards[x].rubric = r}
          /\ \A x \in DOMAIN LoadScorecards(cards, status) :
               LoadScorecards(cards, status)[x] = cards[x]
    BY <1>5, LoadedIs
  <2> QED BY <1>4, <2>1 DEF Standing
<1>7. IsCard(card)
    BY <1>5, <1>6 DEF CardFile
<1> QED BY <1>1, <1>2, <1>3, <1>4, <1>5, <1>6, <1>7 DEF card, cards, status

\* The text of a call is told only where its transcript is its own and says it.
LEMMA TextIs ==
    ASSUME NEW c \in DOMAIN BatchOf, BatchOf[c].text \/ BatchOf[c].page
    PROVE  /\ call.folder.redacted[c] # NoValue
           /\ call.folder.redacted[c].call = c /\ call.folder.redacted[c].enabled = "on"
<1>1. TextGate(call.folder, c).allowed
    BY RecordIs DEF Record
<1> QED BY <1>1 DEF TextGate

LEMMA PageIs ==
    ASSUME NEW c \in DOMAIN BatchOf, BatchOf[c].page PROVE c \in Scored(BatchOf)
BY RecordIs DEF Record, Scored

LEMMA NobodyShown ==
    ASSUME NEW b \in Int PROVE Shown(b) \notin Identifying
BY BatchAssumption DEF BatchAssumption, Shown

\* An example is one of those it is chosen from.
LEMMA ExamplesIn ==
    ASSUME NEW batch, NEW order, NEW k, NEW S, \A i \in DOMAIN order : order[i] \in S
    PROVE  DistinctBankers(batch, order, k) \subseteq S
BY DEF DistinctBankers

LEMMA BatchIs ==
    ASSUME JInv, ReportIs, result # NoValue
    PROVE  IsFiniteSet(DOMAIN BatchOf) /\ IsFiniteSet(Scored(BatchOf))
<1>1. DOMAIN BatchOf \subseteq DOMAIN StatusAfter
    BY RecordIs
<1>2. IsFiniteSet(DOMAIN StatusAfter)
    BY CardsAre, CallFacts DEF ReportIs, JInv
<1> QED BY <1>1, <1>2, FS_Subset DEF Scored

LEMMA FiguresAre ==
    ASSUME JInv, ReportIs, result # NoValue, NEW c \in Scored(BatchOf), NEW d \in Dim
    PROVE  c \in Int /\ BatchOf[c].card.total \in Int /\ ScoreIn(BatchOf, c, d) \in 1 .. 5
<1>1. c \in Int /\ IsCard(BatchOf[c].card)
    BY ScoredIs
<1>2. \A e \in Dim : BatchOf[c].card.scores[e].score \in 1 .. 5
    BY <1>1 DEF IsCard
<1> QED BY <1>1, <1>2 DEF IsCard, ScoreIn

LEMMA BestIn ==
    ASSUME JInv, ReportIs, result # NoValue, NEW d \in Dim
    PROVE  Best(BatchOf, d) \subseteq Pool(BatchOf, d)
<1> DEFINE S == {c \in Pool(BatchOf, d) : ScoreIn(BatchOf, c, d) = 5}
           Total(c) == BatchOf[c].card.total
           Ahead(a, b) == Total(a) > Total(b) \/ (Total(a) = Total(b) /\ a < b)
           R == [a \in S |-> {b \in S : Ahead(a, b)}]
           order == [k \in 1 .. Cardinality(S) |->
                       CHOOSE x \in S : Cardinality({y \in S : Ahead(y, x)}) = k - 1]
<1>1. Best(BatchOf, d) = DistinctBankers(BatchOf, order, 3)
    BY DEF Best, Ranked
<1>2. S \subseteq Scored(BatchOf) /\ S \subseteq Pool(BatchOf, d)
    BY DEF Pool
<1>3. IsFiniteSet(S)
    BY <1>2, BatchIs, FS_Subset
<1>4. \A c \in S : c \in Int /\ Total(c) \in Int
    BY <1>2, FiguresAre
<1> HIDE DEF S, Total
<1>5. Orders(R, S)
    BY <1>4 DEF Orders
<1>6. \A x \in S : {y \in S : Ahead(y, x)} = {y \in S : x \in R[y]}
  <2> HIDE DEF Ahead
  <2> QED OBVIOUS
<1> HIDE DEF Ahead, R
<1>7. ASSUME NEW k \in 1 .. Cardinality(S) PROVE order[k] \in S
  <2>1. \E x \in S : Cardinality({y \in S : x \in R[y]}) = k - 1
    BY <1>3, <1>5, RankExists
  <2>2. \E x \in S : Cardinality({y \in S : Ahead(y, x)}) = k - 1
    BY <1>6, <2>1
  <2> QED BY <2>2
<1>8. \A k \in DOMAIN order : order[k] \in S
    BY <1>7
<1> HIDE DEF order
<1> QED BY <1>1, <1>2, <1>8, ExamplesIn

LEMMA WorstIn ==
    ASSUME JInv, ReportIs, result # NoValue, NEW d \in Dim
    PROVE  Worst(BatchOf, d) \subseteq Pool(BatchOf, d)
<1> DEFINE S == {c \in Pool(BatchOf, d) : ScoreIn(BatchOf, c, d) <= 2}
           Total(c) == BatchOf[c].card.total
           Score(c) == ScoreIn(BatchOf, c, d)
           Ahead(a, b) == \/ Score(a) < Score(b)
                          \/ /\ Score(a) = Score(b)
                             /\ Total(a) < Total(b) \/ (Total(a) = Total(b) /\ a < b)
           R == [a \in S |-> {b \in S : Ahead(a, b)}]
           order == [k \in 1 .. Cardinality(S) |->
                       CHOOSE x \in S : Cardinality({y \in S : Ahead(y, x)}) = k - 1]
<1>1. Worst(BatchOf, d) = DistinctBankers(BatchOf, order, 3)
    BY DEF Worst, Ranked
<1>2. S \subseteq Scored(BatchOf) /\ S \subseteq Pool(BatchOf, d)
    BY DEF Pool
<1>3. IsFiniteSet(S)
    BY <1>2, BatchIs, FS_Subset
<1>4. \A c \in S : c \in Int /\ Total(c) \in Int /\ Score(c) \in Int
    BY <1>2, FiguresAre
<1> HIDE DEF S, Total, Score
<1>5. Orders(R, S)
    BY <1>4 DEF Orders
<1>6. \A x \in S : {y \in S : Ahead(y, x)} = {y \in S : x \in R[y]}
  <2> HIDE DEF Ahead
  <2> QED OBVIOUS
<1> HIDE DEF Ahead, R
<1>7. ASSUME NEW k \in 1 .. Cardinality(S) PROVE order[k] \in S
  <2>1. \E x \in S : Cardinality({y \in S : x \in R[y]}) = k - 1
    BY <1>3, <1>5, RankExists
  <2>2. \E x \in S : Cardinality({y \in S : Ahead(y, x)}) = k - 1
    BY <1>6, <2>1
  <2> QED BY <2>2
<1>8. \A k \in DOMAIN order : order[k] \in S
    BY <1>7
<1> HIDE DEF order
<1> QED BY <1>1, <1>2, <1>8, ExamplesIn

-----------------------------------------------------------------------------
(* Who is named.                                                           *)

\* Nobody is named but these.
NamesIn(findings, people) == \A f \in findings : f.names \subseteq people

LEMMA FoundNames ==
    ASSUME NEW kind, NEW of, NEW severity, NEW weight, NEW people
    PROVE  NamesIn(Found(kind, of, severity, weight), people)
BY DEF Found, NamesIn

LEMMA FoundIfNames ==
    ASSUME NEW condition, NEW findings, NEW people, NamesIn(findings, people)
    PROVE  NamesIn(FoundIf(condition, findings), people)
BY DEF FoundIf, NamesIn

LEMMA NamingNames ==
    ASSUME NEW kind, NEW of, NEW severity, NEW weight, NEW people, NEW named \in SUBSET people
    PROVE  NamesIn(Naming(Found(kind, of, severity, weight), named), people)
BY DEF Found, Naming, NamesIn

LEMMA BankerNames ==
    ASSUME NEW a PROVE NamesIn(BankerFindings(a), DOMAIN a.bankers)
<1> DEFINE bad == BankersFlagged(a, "bad")
           ok == BankersFlagged(a, "ok")
           B == DOMAIN a.bankers
           below == FoundIf(bad # {}, Naming(Found("bankers-bad", 0, "high", 5 * Cardinality(bad) * Unit), bad))
           above == FoundIf(ok # {} /\ ~(Cardinality(Rated(a)) = 2 /\ bad # {}),
                            Naming(Found("bankers-ok", 0, "positive", 2 * Cardinality(ok) * Unit), ok))
           apart(spread) == FoundIf(spread >= 10 * WeightSum * Unit,
                                    Found("bankers-spread", 0, "medium", Points(spread) \div 2))
<1>1. bad \in SUBSET B /\ ok \in SUBSET B
    BY DEF BankersFlagged
<1> HIDE DEF bad, ok, B
<1>2. NamesIn(below, B) /\ NamesIn(above, B)
    BY <1>1, NamingNames, FoundIfNames
<1>3. \A spread \in {Spread(a)} : NamesIn(apart(spread), B)
    BY FoundNames, FoundIfNames
<1>4. BankerFindings(a) = below \cup above
        \cup IF Cardinality(Rated(a)) < SpreadBankers THEN {}
             ELSE UNION {apart(spread) : spread \in {Spread(a)}}
    BY DEF BankerFindings, bad, ok
<1> HIDE DEF below, above, apart
<1> QED BY <1>2, <1>3, <1>4 DEF NamesIn, B

LEMMA OtherNames ==
    ASSUME NEW a, NEW passed, NEW people
    PROVE  /\ NamesIn(GateFindings(a), people) /\ NamesIn(PointsFindings(a), people)
           /\ NamesIn(DimensionFindings(a), people) /\ NamesIn(TrendFindings(a), people)
           /\ NamesIn(SegmentFindings(a), people) /\ NamesIn(DriverFindings(a), people)
           /\ NamesIn(CoverageFindings(a, passed), people)
<1>1. NamesIn(GateFindings(a), people)
    BY FoundNames DEF GateFindings
<1>2. NamesIn(PointsFindings(a), people)
  <2> DEFINE told(top) ==
               FoundIf(LostWithGate(a, top) > 0,
                 Found("pareto", top,
                       IF AtLeast(LostWithGate(a, top), AllLost(a), 25) THEN "high" ELSE "medium",
                       Percent(LostWithGate(a, top), AllLost(a))))
  <2>1. \A top : NamesIn(told(top), people)
    BY FoundNames, FoundIfNames
  <2>2. PointsFindings(a) = UNION {told(top) : top \in {ParetoTop(a)}}
    BY DEF PointsFindings
  <2> HIDE DEF told
  <2> QED BY <2>1, <2>2 DEF NamesIn
<1>3. NamesIn(DimensionFindings(a), people)
  <2> DEFINE Weak(d) == FoundIf(d # ParetoTop(a) /\ AtLeast(a.dims[d].low, a.n, 15),
                          Found("weak", d, "medium", Percent(a.dims[d].low, a.n) \div 2))
             Strong(d) == FoundIf(AtLeast(a.dims[d].high, a.n, 60),
                            Found("strong", d, "positive", Percent(a.dims[d].high, a.n) \div 10))
  <2>1. \A d : NamesIn(Weak(d), people) /\ NamesIn(Strong(d), people)
    BY FoundNames, FoundIfNames
  <2>2. DimensionFindings(a) =
          IF Cardinality(Dim) < 2 THEN {}
          ELSE (UNION {Weak(d) : d \in {WeakestDimension(a)}})
               \cup (UNION {Strong(d) : d \in {StrongestDimension(a)}})
    BY DEF DimensionFindings
  <2> HIDE DEF Weak, Strong
  <2> QED BY <2>1, <2>2 DEF NamesIn
<1>4. NamesIn(TrendFindings(a), people)
    BY DEF TrendFindings, FoundIf, Found, NamesIn
<1>5. NamesIn(SegmentFindings(a), people)
    BY FoundNames DEF SegmentFindings, NamesIn
<1>6. NamesIn(DriverFindings(a), people)
    BY DEF DriverFindings, Found, NamesIn
<1>7. NamesIn(CoverageFindings(a, passed), people)
    BY DEF CoverageFindings, FoundIf, Found, NamesIn
<1> QED BY <1>1, <1>2, <1>3, <1>4, <1>5, <1>6, <1>7

LEMMA FindingsNames ==
    ASSUME NEW a, NEW passed PROVE NamesIn(Findings(a, passed), DOMAIN a.bankers)
BY BankerNames, OtherNames DEF Findings, NamesIn

\* Some of the numbers from 1 to n, in their order.
LEMMA NumbersRanked ==
    ASSUME NEW n \in Nat, NEW S, S \subseteq 1 .. n
    PROVE  /\ Cardinality(S) \in Nat
           /\ \A k \in 1 .. Cardinality(S) :
                (CHOOSE x \in S : Cardinality({y \in S : y < x}) = k - 1) \in S
<1> DEFINE R == [i \in S |-> {j \in S : i < j}]
<1>1. IsFiniteSet(S)
  <2>1. IsFiniteSet(1 .. n)
    BY FS_Interval
  <2> QED BY <2>1, FS_Subset
<1>2. Orders(R, S)
    BY DEF Orders
<1>3. \A x \in S : {y \in S : y < x} = {y \in S : x \in R[y]}
    OBVIOUS
<1> HIDE DEF R
<1>4. ASSUME NEW k \in 1 .. Cardinality(S)
      PROVE  (CHOOSE x \in S : Cardinality({y \in S : y < x}) = k - 1) \in S
  <2>1. \E x \in S : Cardinality({y \in S : x \in R[y]}) = k - 1
    BY ONLY <1>1, <1>2, k \in 1 .. Cardinality(S), RankExists
  <2>2. \E x \in S : Cardinality({y \in S : y < x}) = k - 1
    BY <1>3, <2>1
  <2> QED BY <2>2
<1>5. Cardinality(S) \in Nat
    BY <1>1, FS_CardinalityType
<1> QED BY <1>4, <1>5

\* What is proposed for a dimension names those with most of its low scores,
\* and what is proposed for bankers those below the median.
LEMMA CandidatesNames ==
    ASSUME NEW a, \A d \in Dim : a.dims[d].focus.bankers \subseteq DOMAIN a.bankers
    PROVE  \A k \in DOMAIN Candidates(a) : Candidates(a)[k].names \subseteq DOMAIN a.bankers
<1> DEFINE worthy(i) == \/ 20 * a.dims[Dims[i]].floor.gain > WeightSum * a.n
                        \/ a.dims[Dims[i]].floor.removed > 0
           S == {i \in DOMAIN Dims : worthy(i)}
           worth == [k \in 1 .. Cardinality(S) |->
                       CHOOSE x \in S : Cardinality({y \in S : y < x}) = k - 1]
           PerCall(gain) == gain \div (WeightSum * a.n)
           ForDimension(d) ==
             [of |-> d, section |-> IF d \in Gates THEN "risk" ELSE "dims",
              names |-> NamedFor(a.dims[d].focus, a.n),
              gain |-> PerCall(a.dims[d].floor.gain * Unit),
              score |-> PerCall(a.dims[d].floor.gain * Unit)
                          + IF d \in Gates THEN 2 * Percent(a.dims[d].floor.removed, a.n) ELSE 0]
           ForBankers(gain) ==
             [of |-> "bankers", section |-> "bankers", names |-> BankersFlagged(a, "bad"),
              gain |-> gain, score |-> gain]
           first == [k \in DOMAIN worth |-> ForDimension(Dims[worth[k]])]
           then == IF BankersFlagged(a, "bad") = {} THEN <<>>
                   ELSE <<ForBankers(PerCall(BankerGain(a)))>>
<1>1. Candidates(a) = IF a.n = 0 THEN <<>> ELSE first \o then
    BY DEF Candidates, Ranked
<1>2. S \subseteq DOMAIN Dims /\ DOMAIN Dims = 1 .. Len(Dims) /\ Len(Dims) \in Nat
      /\ \A i \in DOMAIN Dims : Dims[i] \in Dim
    BY ScoresAssumption DEF ScoresAssumption
<1> HIDE DEF S
<1>3. Cardinality(S) \in Nat
    BY <1>2, NumbersRanked
<1>5. ASSUME NEW k \in 1 .. Cardinality(S) PROVE worth[k] \in S
  <2>1. (CHOOSE x \in S : Cardinality({y \in S : y < x}) = k - 1) \in S
    BY <1>2, NumbersRanked
  <2> QED BY <2>1
<1>6. \A d : ForDimension(d).names = NamedFor(a.dims[d].focus, a.n)
    OBVIOUS
<1>7. \A gain : ForBankers(gain).names = BankersFlagged(a, "bad")
    OBVIOUS
<1> DEFINE n == Cardinality(S)
<1>8. first = [k \in 1 .. n |-> ForDimension(Dims[worth[k]])]
    OBVIOUS
<1> HIDE DEF ForDimension, ForBankers, worth, n
<1>9. \A k \in 1 .. n : first[k].names \subseteq DOMAIN a.bankers
  <2> SUFFICES ASSUME NEW k \in 1 .. n PROVE first[k].names \subseteq DOMAIN a.bankers
    OBVIOUS
  <2>1. Dims[worth[k]] \in Dim
    BY <1>2, <1>5 DEF n
  <2>2. first[k].names = NamedFor(a.dims[Dims[worth[k]]].focus, a.n)
    BY <1>6, <1>8
  <2> QED BY <2>1, <2>2 DEF NamedFor
<1>10. \A k \in DOMAIN then : then[k].names \subseteq DOMAIN a.bankers
  <2>1. BankersFlagged(a, "bad") \subseteq DOMAIN a.bankers
    BY DEF BankersFlagged
  <2> QED BY <1>7, <2>1
<1>11. n \in Nat /\ first \in Seq(ToSet(first)) /\ Len(first) = n
  <2>1. n \in Nat /\ DOMAIN first = 1 .. n
    BY <1>3, <1>8 DEF n
  <2>2. \A k \in 1 .. n : first[k] \in ToSet(first)
    BY <2>1 DEF ToSet
  <2>3. first = [k \in 1 .. n |-> first[k]]
    BY <1>8
  <2> HIDE DEF first
  <2>4. first \in [1 .. n -> ToSet(first)]
    BY <2>2, <2>3
  <2>5. first \in Seq(ToSet(first))
    BY <2>1, <2>4
  <2>6. Len(first) = n
    BY <2>1, <2>5
  <2> QED BY <2>1, <2>5, <2>6
<1>12. then \in Seq(ToSet(then)) /\ DOMAIN then = 1 .. Len(then) /\ Len(then) \in Nat
  <2> DEFINE last == ForBankers(PerCall(BankerGain(a)))
  <2>1. then = <<>> \/ then = <<last>>
    OBVIOUS
  <2> HIDE DEF last, then
  <2>2. CASE then = <<>>
    BY <2>2
  <2>3. CASE then = <<last>>
    <3>1. ToSet(then) = {last}
      BY <2>3 DEF ToSet
    <3> QED BY <2>3, <3>1
  <2> QED BY <2>1, <2>2, <2>3
<1> HIDE DEF first, then
<1>13. \A k \in DOMAIN (first \o then) :
         \/ k \in 1 .. n /\ (first \o then)[k] = first[k]
         \/ k - n \in DOMAIN then /\ (first \o then)[k] = then[k - n]
    BY <1>11, <1>12
<1>14. \A k \in DOMAIN (first \o then) : (first \o then)[k].names \subseteq DOMAIN a.bankers
    BY <1>9, <1>10, <1>13
<1> QED BY <1>1, <1>14

LEMMA ActionsNames ==
    ASSUME NEW candidates, NEW people,
           \A k \in DOMAIN candidates : candidates[k].names \subseteq people
    PROVE  NamesIn(Actions(candidates), people)
BY DEF Actions, NamesIn

\* Who is in the analysis.
LEMMA AnalysisPeople ==
    /\ DOMAIN AnalysisOf.bankers = BankersOf(BatchOf, Scored(BatchOf))
    /\ \A d \in Dim : /\ AnalysisOf.dims[d].best = Best(BatchOf, d)
                      /\ AnalysisOf.dims[d].worst = Worst(BatchOf, d)
                      /\ AnalysisOf.dims[d].focus.bankers \subseteq DOMAIN AnalysisOf.bankers
<1> DEFINE batch == BatchOf
           groups == Groups(batch)
<1>1. DOMAIN groups = BankersOf(batch, Scored(batch))
    BY DEF Groups
<1>2. /\ AnalysisOf.dims = [d \in Dim |-> DimStat(batch, d)]
      /\ AnalysisOf.bankers = [b \in DOMAIN groups |-> AgainstTypical(batch, groups, b)]
    BY DEF AnalysisOf, Analyse
<1> HIDE DEF batch, groups
<1>3. \A d \in Dim : DimStat(batch, d).focus = FocusBankers(batch, d)
                     /\ DimStat(batch, d).best = Best(batch, d)
                     /\ DimStat(batch, d).worst = Worst(batch, d)
    BY DEF DimStat
<1>4. \A d \in Dim : FocusBankers(batch, d).bankers \subseteq BankersOf(batch, Scored(batch))
    BY DEF FocusBankers
<1> QED BY <1>1, <1>2, <1>3, <1>4 DEF batch

\* Whatever is in the output directory, the management report quotes and links
\* only calls whose own transcript says that it is redacted and whose last result
\* counts, and names no one by an id like a person's (dataset.py:248-258,400-436,
\* findings.py).
THEOREM NothingUnprovenIsShown == Spec => []NothingUnproven
<1>1. JInv /\ ReportIs => NothingUnproven
  <2> SUFFICES ASSUME JInv, ReportIs, Executive PROVE NothingUnproven
    BY DEF NothingUnproven
  <2>1. result # NoValue /\ report.executive = ExecutiveOf
    BY DEF ReportIs, ReportOf, Executive
  <2>2. /\ Batch = BatchOf /\ Analysis = AnalysisOf
        /\ report.executive.findings = FindingsOf
        /\ report.executive.actions = Actions(Candidates(AnalysisOf))
    BY <2>1 DEF Batch, Analysis, ExecutiveOf
  <2>3. ASSUME NEW c \in Opened
        PROVE  /\ call.folder.redacted[c] # NoValue
               /\ call.folder.redacted[c].call = c /\ call.folder.redacted[c].enabled = "on"
               /\ StatusAfter[c] \in {NoValue, "success"}
    <3>1. \/ \E d \in Dim : c \in AnalysisOf.dims[d].best \/ c \in AnalysisOf.dims[d].worst
          \/ c \in DOMAIN BatchOf /\ BatchOf[c].page
      BY <2>2, <2>3 DEF Opened
    <3>2. c \in Scored(BatchOf) /\ (BatchOf[c].text \/ BatchOf[c].page)
      <4>1. \A d \in Dim : Best(BatchOf, d) \cup Worst(BatchOf, d) \subseteq Pool(BatchOf, d)
        BY <2>1, BestIn, WorstIn
      <4>2. \A d \in Dim : \A x \in Pool(BatchOf, d) : x \in Scored(BatchOf) /\ BatchOf[x].text
        BY DEF Pool
      <4> QED BY <3>1, <4>1, <4>2, AnalysisPeople, PageIs
    <3> QED BY <2>1, <3>2, ScoredIs, TextIs
  <2>4. DOMAIN AnalysisOf.bankers \cap Identifying = {}
    <3>1. ASSUME NEW c \in Scored(BatchOf) PROVE BatchOf[c].banker \notin Identifying
      BY <2>1, ScoredIs, NobodyShown DEF IsCard
    <3> QED BY <3>1, AnalysisPeople DEF BankersOf
  <2>5. ASSUME NEW x \in FindingsOf \cup Actions(Candidates(AnalysisOf))
        PROVE  x.names \subseteq DOMAIN AnalysisOf.bankers
    <3>1. NamesIn(FindingsOf, DOMAIN AnalysisOf.bankers)
      BY FindingsNames DEF FindingsOf
    <3>2. NamesIn(Actions(Candidates(AnalysisOf)), DOMAIN AnalysisOf.bankers)
      BY AnalysisPeople, CandidatesNames, ActionsNames
    <3> QED BY <3>1, <3>2 DEF NamesIn
  <2> QED BY <2>2, <2>3, <2>4, <2>5 DEF NothingUnproven
<1> QED BY <1>1, ReportKeeps, PTL

-----------------------------------------------------------------------------
(* Where the points of a batch went.                                      *)

\* The parts a penalty is counted in.
LEMMA SharesType == Shares \in Nat
<1>1. IsFiniteSet(Gates) /\ Gates # {}
    BY ScoresAssumption, FS_Subset DEF ScoresAssumption
<1>2. Cardinality(Gates) \in Nat /\ Cardinality(Gates) # 0
    BY <1>1, FS_CardinalityType, FS_EmptySet
<1>3. 1 \in 1 .. Cardinality(Gates)
    BY <1>2
<1>4. \E m \in 1 .. Shares : Shares = 1 * m
    BY <1>3, BatchAssumption DEF BatchAssumption
<1> QED BY <1>4

\* What is divided out comes back in full.
LEMMA SharedOut ==
    ASSUME NEW p \in Int, NEW n \in 1 .. Cardinality(Gates)
    PROVE  /\ (p * Shares) \div n \in Int
           /\ n * ((p * Shares) \div n) = p * Shares
<1>1. Cardinality(Gates) \in Nat
  <2>1. IsFiniteSet(Gates)
    BY ScoresAssumption, FS_Subset DEF ScoresAssumption
  <2> QED BY <2>1, FS_CardinalityType
<1>2. PICK m \in 1 .. Shares : Shares = n * m
    BY BatchAssumption DEF BatchAssumption
<1>3. n \in Nat /\ n > 0 /\ m \in Int
    BY <1>1
<1>4. p * Shares = n * (p * m)
  <2>1. \A a, b, c \in Int : a * (b * c) = b * (a * c)
    OBVIOUS
  <2> QED BY <1>2, <1>3, <2>1
<1>5. \A q \in Int : (n * q) \div n = q
    BY <1>3
<1>6. p * m \in Int
    BY <1>3
<1> QED BY <1>4, <1>5, <1>6

\* A card that was written with the weights of now.
Fitting(card) == IsCard(card) /\ WeighedNow(card)

LEMMA FittingIs ==
    ASSUME JInv, ReportIs, result # NoValue, NEW c \in Scored(BatchOf)
    PROVE  Fitting(BatchOf[c].card)
<1>1. /\ IsCard(BatchOf[c].card) /\ c \in DOMAIN CardsAfter
      /\ BatchOf[c].card = CardsAfter[c]
    BY ScoredIs
<1>2. WeighedNow(CardsAfter[c])
  <2>1. \A x \in DOMAIN call.cards : WeighedNow(call.cards[x])
    BY RubricAssumption DEF RubricAssumption, JInv, CallIs
  <2>2. CASE result = Held
    BY <1>1, <2>1, <2>2 DEF CardsAfter
  <2>3. CASE result # Held
    <3>1. WeighedNow(result)
      BY <2>3, OwnCard DEF HasCard, ReportIs
    <3>2. CardsAfter[c] = result \/ (c \in DOMAIN call.cards /\ CardsAfter[c] = call.cards[c])
      BY <1>1, <2>3 DEF CardsAfter
    <3> QED BY <2>1, <3>1, <3>2
  <2> QED BY <2>2, <2>3
<1> QED BY <1>1, <1>2 DEF Fitting

\* What the report takes from one call: where its points went.
LEMMA PointsGone ==
    ASSUME NEW card, Fitting(card)
    PROVE  /\ card.total \in Int /\ Penalty(card) \in Int
           /\ FailedGates(card.scores) = {} => Penalty(card) = 0
           /\ Integral([d \in Dim |-> LostOn(card, d)], Dim)
           /\ 100 * WeightSum - card.total =
                Penalty(card) + SumOf([d \in Dim |-> LostOn(card, d)], Dim)
<1> DEFINE scores == card.scores
           P == PointsOn(scores)
           L == [d \in Dim |-> LostOn(card, d)]
           H == [d \in Dim |-> 100 * Weight[d]]
           raw == SumOf(P, Dim)
           cap == GateCap * WeightSum
<1>1. \A d \in Dim : scores[d].score \in Int /\ Weight[d] \in Nat
    BY ScoresAssumption DEF Fitting, IsCard, ScoresAssumption
<1>2. /\ raw \in Int /\ cap \in Int /\ Integral(P, Dim)
      /\ WeightedTotal(scores) = IF FailedGates(scores) # {} /\ raw > cap THEN cap ELSE raw
    BY <1>1, TotalIs
<1>3. card.total = WeightedTotal(scores)
    BY DEF Fitting, IsCard, WeighedNow
<1>4. Penalty(card) = IF FailedGates(scores) # {} /\ raw > cap THEN raw - cap ELSE 0
  <2>1. Sum([d \in Dim |-> Weight[d] * (card.scores[d].score - 1) * 25]) = raw
    BY SumIs DEF PointsOn
  <2> HIDE DEF raw
  <2> QED BY <2>1 DEF Penalty
<1>5. Integral(L, Dim)
  <2>1. \A w, s \in Int : w * (5 - s) * 25 \in Int
    OBVIOUS
  <2>2. \A d \in Dim : L[d] \in Int
    BY <1>1, <2>1 DEF LostOn
  <2> QED BY <2>2, ScoresAssumption DEF ScoresAssumption, Integral
<1>6. \A d \in Dim : H[d] = P[d] + L[d]
  <2>1. \A w, s \in Int : 100 * w = w * (s - 1) * 25 + w * (5 - s) * 25
    OBVIOUS
  <2> QED BY <1>1, <2>1 DEF PointsOn, LostOn
<1>7. SumOf(H, Dim) = 100 * WeightSum
  <2>1. Integral(Weight, Dim)
    BY <1>1, ScoresAssumption DEF ScoresAssumption, Integral
  <2>2. \A d \in Dim : H[d] = 100 * Weight[d]
    OBVIOUS
  <2> HIDE DEF H
  <2>3. SumOf(H, Dim) = 100 * SumOf(Weight, Dim)
    BY <2>1, <2>2, SumTimes
  <2> QED BY <2>3, WeightSumType
<1> HIDE DEF P, L, H
<1>8. SumOf(H, Dim) = SumOf(P, Dim) + SumOf(L, Dim) /\ SumOf(L, Dim) \in Int
    BY <1>2, <1>5, <1>6, SumAdd, SumType
<1> HIDE DEF cap, scores
<1>9. 100 * WeightSum = raw + SumOf(L, Dim)
    BY <1>7, <1>8
<1> HIDE DEF raw
<1>10. 100 * WeightSum - card.total = Penalty(card) + SumOf(L, Dim)
    BY <1>2, <1>3, <1>4, <1>8, <1>9
<1> QED BY <1>2, <1>3, <1>4, <1>5, <1>10 DEF L, scores

\* The gates that failed in a call, and what each of them is charged.
Charge(card) == (Penalty(card) * Shares) \div Cardinality(FailedGates(card.scores))
Charged(card, d) == IF d \in FailedGates(card.scores) THEN Charge(card) ELSE 0

LEMMA ChargedInFull ==
    ASSUME NEW card, Fitting(card)
    PROVE  /\ Integral([d \in Dim |-> Charged(card, d)], Dim)
           /\ SumOf([d \in Dim |-> Charged(card, d)], Dim) = Shares * Penalty(card)
<1> DEFINE T == FailedGates(card.scores)
           C == [d \in Dim |-> Charged(card, d)]
           p == Penalty(card)
           k == Charge(card)
           n == Cardinality(T)
<1>1. p \in Int /\ (T = {} => p = 0)
    BY PointsGone
<1>2. Shares \in Int
    BY SharesType
<1>3. T \subseteq Dim /\ T \subseteq Gates /\ IsFiniteSet(Gates) /\ IsFiniteSet(Dim)
    BY ScoresAssumption, FS_Subset DEF ScoresAssumption, FailedGates
<1>4. IsFiniteSet(T) /\ n \in Nat /\ (T # {} => n \in 1 .. Cardinality(Gates))
  <2>1. IsFiniteSet(T) /\ n \in Nat /\ n <= Cardinality(Gates) /\ Cardinality(Gates) \in Nat
    BY <1>3, FS_Subset, FS_CardinalityType
  <2>2. T # {} => n # 0
    BY <2>1, FS_EmptySet
  <2> HIDE DEF T, n
  <2> QED BY <2>1, <2>2
<1>5. \A d \in Dim : C[d] = IF d \in T THEN k ELSE 0
    BY DEF Charged
<1>6. CASE T = {}
  <2>1. \A d \in Dim : C[d] = 0
    BY <1>5, <1>6
  <2>2. SumOf(C, Dim) = Cardinality(Dim) * 0 /\ Cardinality(Dim) \in Nat
    <3> HIDE DEF C
    <3> QED BY <1>3, <2>1, SumConstant, FS_CardinalityType
  <2>3. SumOf(C, Dim) = 0
    BY <2>2
  <2>4. Shares * p = 0
    BY <1>1, <1>2, <1>6
  <2>5. Integral(C, Dim)
    <3> HIDE DEF C
    <3> QED BY <1>3, <2>1 DEF Integral
  <2> QED BY <2>3, <2>4, <2>5
<1>7. CASE T # {}
  <2>1. k \in Int /\ n * k = p * Shares
    <3>1. n \in 1 .. Cardinality(Gates)
      BY <1>4, <1>7
    <3>2. k = (p * Shares) \div n
      BY DEF Charge
    <3> HIDE DEF n, k, p
    <3> QED BY <1>1, <3>1, <3>2, SharedOut
  <2> DEFINE G == [d \in Dim |-> k]
  <2>2. Integral(G, Dim) /\ \A d \in Dim : G[d] = k
    BY <1>3, <2>1 DEF Integral
  <2> HIDE DEF C, G, T, k
  <2>3. \A d \in Dim : C[d] = IF d \in T THEN G[d] ELSE 0
    BY <1>5, <2>2
  <2>4. SumOf(C, Dim) = SumOf(G, T)
    BY <1>3, <2>2, <2>3, SumPart
  <2>5. SumOf(G, T) = n * k
    BY <1>3, <1>4, <2>1, <2>2, SumConstant
  <2>6. Integral(C, Dim)
    BY <1>3, <1>5, <2>1 DEF Integral
  <2>7. p * Shares = Shares * p
    <3> HIDE DEF p
    <3> QED BY <1>1, <1>2
  <2> QED BY <2>1, <2>4, <2>5, <2>6, <2>7 DEF C
<1> QED BY <1>6, <1>7

\* A batch all of whose cards are cards.
CardsIn(batch) == IsFiniteSet(Scored(batch)) /\ \A c \in Scored(batch) : Fitting(batch[c].card)

MissingIn(batch) == [c \in Scored(batch) |-> 100 * WeightSum - batch[c].card.total]
PenaltyIn(batch) == [c \in Scored(batch) |-> Penalty(batch[c].card)]
LostIn(batch) == [c \in Scored(batch) |-> [d \in Dim |-> LostOn(batch[c].card, d)]]
ChargedIn(batch) == [c \in Scored(batch) |-> [d \in Dim |-> Charged(batch[c].card, d)]]

\* Over a batch, what is missing is lost on the dimensions, or a penalty.
LEMMA MissingIs ==
    ASSUME NEW batch, CardsIn(batch)
    PROVE  /\ Integral(PenaltyIn(batch), Scored(batch))
           /\ Integral(Columns(LostIn(batch), Scored(batch), Dim), Dim)
           /\ SumOf(MissingIn(batch), Scored(batch)) =
                SumOf(PenaltyIn(batch), Scored(batch))
                  + SumOf(Columns(LostIn(batch), Scored(batch), Dim), Dim)
<1> DEFINE S == Scored(batch)
           M == LostIn(batch)
           F == MissingIn(batch)
           P == PenaltyIn(batch)
           R == Rows(M, S, Dim)
<1>0. IsFiniteSet(S) /\ IsFiniteSet(Dim)
    BY ScoresAssumption DEF CardsIn, ScoresAssumption
<1>1. ASSUME NEW c \in S
      PROVE  /\ P[c] \in Int /\ R[c] \in Int /\ F[c] = P[c] + R[c]
             /\ \A d \in Dim : M[c][d] \in Int
  <2> DEFINE card == batch[c].card
             L == [d \in Dim |-> LostOn(card, d)]
  <2>1. Fitting(card)
    BY DEF CardsIn
  <2>2. M[c] = L /\ P[c] = Penalty(card) /\ F[c] = 100 * WeightSum - card.total
    BY DEF LostIn, PenaltyIn, MissingIn
  <2>3. R[c] = SumOf(M[c], Dim)
    BY DEF Rows
  <2> HIDE DEF card
  <2>4. /\ Penalty(card) \in Int /\ Integral(L, Dim)
        /\ 100 * WeightSum - card.total = Penalty(card) + SumOf(L, Dim)
    BY <2>1, PointsGone
  <2> HIDE DEF L, M, P, F, R
  <2>5. SumOf(L, Dim) \in Int /\ \A d \in Dim : L[d] \in Int
    BY <2>4, SumType DEF Integral
  <2> QED BY <2>2, <2>3, <2>4, <2>5
<1> HIDE DEF S, M, F, P
<1>2. Integral(P, S) /\ Integral(R, S)
  <2> HIDE DEF R
  <2> QED BY <1>0, <1>1 DEF Integral
<1>3. SumOf(F, S) = SumOf(P, S) + SumOf(R, S)
  <2> HIDE DEF R
  <2> QED BY <1>1, <1>2, SumAdd
<1>4. SumOf(R, S) = SumOf(Columns(M, S, Dim), Dim)
    BY <1>0, <1>1, SumSwap
<1>5. Integral(Columns(M, S, Dim), Dim)
    BY <1>0, <1>1, ColumnsType
<1> QED BY <1>2, <1>3, <1>4, <1>5 DEF S, M, F, P

\* Over a batch, the gates are charged all of the penalties.
LEMMA ChargedIs ==
    ASSUME NEW batch, CardsIn(batch)
    PROVE  /\ Integral(Columns(ChargedIn(batch), Scored(batch), Dim), Dim)
           /\ SumOf(Columns(ChargedIn(batch), Scored(batch), Dim), Dim) =
                Shares * SumOf(PenaltyIn(batch), Scored(batch))
<1> DEFINE S == Scored(batch)
           M == ChargedIn(batch)
           P == PenaltyIn(batch)
           R == Rows(M, S, Dim)
<1>0. IsFiniteSet(S) /\ IsFiniteSet(Dim) /\ Shares \in Int
    BY ScoresAssumption, SharesType DEF CardsIn, ScoresAssumption
<1>1. ASSUME NEW c \in S
      PROVE  P[c] \in Int /\ R[c] = Shares * P[c] /\ \A d \in Dim : M[c][d] \in Int
  <2> DEFINE card == batch[c].card
             L == [d \in Dim |-> Charged(card, d)]
  <2>1. Fitting(card)
    BY DEF CardsIn
  <2>2. M[c] = L /\ P[c] = Penalty(card)
    BY DEF ChargedIn, PenaltyIn
  <2>3. R[c] = SumOf(M[c], Dim)
    BY DEF Rows
  <2> HIDE DEF card
  <2>4. Penalty(card) \in Int /\ Integral(L, Dim) /\ SumOf(L, Dim) = Shares * Penalty(card)
    BY <2>1, PointsGone, ChargedInFull
  <2> HIDE DEF L, M, P, R
  <2> QED BY <2>2, <2>3, <2>4 DEF Integral
<1> HIDE DEF S, M, P
<1>2. Integral(P, S)
    BY <1>0, <1>1 DEF Integral
<1>3. SumOf(R, S) = Shares * SumOf(P, S)
  <2> HIDE DEF R
  <2> QED BY <1>0, <1>1, <1>2, SumTimes
<1>4. SumOf(R, S) = SumOf(Columns(M, S, Dim), Dim)
    BY <1>0, <1>1, SumSwap
<1>5. Integral(Columns(M, S, Dim), Dim)
    BY <1>0, <1>1, ColumnsType
<1> QED BY <1>3, <1>4, <1>5 DEF S, M, P

\* What the analysis says of a dimension is a column of those tables.
LEMMA ColumnIs ==
    ASSUME NEW batch, CardsIn(batch), NEW d \in Dim
    PROVE  /\ DimStat(batch, d).lost = Columns(LostIn(batch), Scored(batch), Dim)[d]
           /\ DimStat(batch, d).caused = Columns(ChargedIn(batch), Scored(batch), Dim)[d]
<1> DEFINE S == Scored(batch)
           T == FailedOn(batch, d)
           F == [c \in S |-> LostOn(batch[c].card, d)]
           G == [c \in S |-> LostIn(batch)[c][d]]
           H == [c \in S |-> ChargedIn(batch)[c][d]]
           K == [c \in T |-> (Penalty(batch[c].card) * Shares)
                               \div Cardinality(FailedGates(batch[c].card.scores))]
<1>1. F = G
    BY DEF LostIn
<1>2. DimStat(batch, d).lost = Sum(F) /\ DimStat(batch, d).caused = Caused(batch, d)
    BY DEF DimStat
<1>3. Columns(LostIn(batch), S, Dim)[d] = SumOf(G, S) /\ Columns(ChargedIn(batch), S, Dim)[d] = SumOf(H, S)
    BY DEF Columns
<1>4. Sum(F) = SumOf(F, S)
    BY SumIs
<1>5. Caused(batch, d) = SumOf(K, T)
    BY SumIs DEF Caused
<1>6. T \subseteq S /\ IsFiniteSet(S) /\ IsFiniteSet(T)
    BY FS_Subset DEF FailedOn, CardsIn
<1>7. \A c \in S : H[c] \in Int /\ (c \notin T => H[c] = 0) /\ (c \in T => H[c] = K[c])
  <2> TAKE c \in S
  <2> DEFINE card == batch[c].card
             C == [e \in Dim |-> Charged(card, e)]
  <2>1. Fitting(card) /\ H[c] = Charged(card, d) /\ C[d] = Charged(card, d)
    BY DEF CardsIn, ChargedIn
  <2>2. C[d] \in Int
    <3>1. Integral(C, Dim)
      <4> HIDE DEF card
      <4> QED BY <2>1, ChargedInFull
    <3> HIDE DEF C
    <3> QED BY <3>1 DEF Integral
  <2>3. c \in T <=> d \in FailedGates(card.scores)
    BY DEF FailedOn
  <2>4. c \in T => K[c] = Charge(card)
    BY DEF Charge
  <2> QED BY <2>1, <2>2, <2>3, <2>4 DEF Charged
<1> HIDE DEF H, K, T
<1>8. Integral(H, S) /\ \A c \in S : H[c] = IF c \in T THEN H[c] ELSE 0
    BY <1>6, <1>7 DEF Integral
<1> HIDE DEF S
<1>9. SumOf(H, S) = SumOf(H, T)
    BY <1>6, <1>8, SumPart
<1>10. SumOf(H, T) = SumOf(K, T)
    BY <1>6, <1>7, SumSame
<1> HIDE DEF F, G
<1> QED BY <1>1, <1>2, <1>3, <1>4, <1>5, <1>9, <1>10 DEF S

\* Lifting the low scores of a dimension never loses points.
LEMMA FloorIs ==
    ASSUME NEW batch, CardsIn(batch), NEW d \in Dim
    PROVE  DimStat(batch, d).floor.gain >= 0
<1> DEFINE low == {c \in Scored(batch) : ScoreIn(batch, c, d) < 3}
           F == [c \in low |-> WeightedTotal(Lifted(batch[c].card, d)) - batch[c].card.total]
<1>1. DimStat(batch, d).floor.gain = SumOf(F, low)
    BY SumIs DEF DimStat, FloorGain
<1>2. IsFiniteSet(low)
    BY FS_Subset DEF CardsIn
<1>3. ASSUME NEW c \in low PROVE F[c] \in Nat
  <2> DEFINE card == batch[c].card
             old == card.scores
             new == Lifted(card, d)
  <2>1. Fitting(card) /\ old[d].score < 3
    BY DEF CardsIn, ScoreIn
  <2>2. DOMAIN old = Dim /\ (\A e \in Dim : old[e].score \in 1 .. 5)
        /\ card.total = WeightedTotal(old)
    BY <2>1 DEF Fitting, IsCard, WeighedNow
  <2>3. \A e \in Dim : new[e] = IF e = d THEN [score |-> 3, evidence |-> <<>>] ELSE old[e]
    BY <2>2 DEF Lifted
  <2>4. F[c] = WeightedTotal(new) - card.total
    OBVIOUS
  <2> HIDE DEF card, old, new, F
  <2>5. \A e \in Dim : /\ old[e].score \in Int /\ new[e].score \in Int
                       /\ old[e].score <= new[e].score
    BY <2>1, <2>2, <2>3
  <2>6. WeightedTotal(new) >= WeightedTotal(old)
    BY <2>5, NoLower
  <2>7. WeightedTotal(new) \in Int /\ WeightedTotal(old) \in Int
    BY <2>5, TotalIs
  <2> QED BY <2>2, <2>4, <2>6, <2>7
<1> HIDE DEF F, low
<1>4. SumOf(F, low) \in Nat
    BY <1>2, <1>3, SumNat
<1> QED BY <1>1, <1>4

\* The index and its parts.
LEMMA IndexIs ==
    ASSUME JInv, ReportIs, Executive PROVE IndexAddsUp
<1> DEFINE S == Scored(BatchOf)
           L == Columns(LostIn(BatchOf), S, Dim)
           C == Columns(ChargedIn(BatchOf), S, Dim)
           missing == SumOf(MissingIn(BatchOf), S)
           penalties == SumOf(PenaltyIn(BatchOf), S)
           H == [d \in Dim |-> LostWithGate(AnalysisOf, d)]
           T == [d \in Dim |-> Shares * L[d]]
<1>1. result # NoValue /\ Batch = BatchOf /\ Analysis = AnalysisOf
  <2>1. result # NoValue /\ report.executive = ExecutiveOf
    BY DEF ReportIs, ReportOf, Executive
  <2> QED BY <2>1 DEF Batch, Analysis, ExecutiveOf
<1>2. CardsIn(BatchOf)
    BY <1>1, BatchIs, FittingIs DEF CardsIn
<1>3. /\ Integral(L, Dim) /\ Integral(C, Dim) /\ Integral(PenaltyIn(BatchOf), S)
      /\ missing = penalties + SumOf(L, Dim)
      /\ SumOf(C, Dim) = Shares * penalties
    BY <1>2, MissingIs, ChargedIs
<1>4. \A d \in Dim : AnalysisOf.dims[d] = DimStat(BatchOf, d)
    BY DEF AnalysisOf, Analyse
<1>5. \A d \in Dim : /\ AnalysisOf.dims[d].lost = L[d] /\ AnalysisOf.dims[d].caused = C[d]
                     /\ AnalysisOf.dims[d].floor.gain >= 0
    BY <1>2, <1>4, ColumnIs, FloorIs
<1>6. Sum([c \in S |-> 100 * WeightSum - BatchOf[c].card.total]) = missing
      /\ Sum([c \in S |-> Penalty(BatchOf[c].card)]) = penalties
    BY SumIs DEF MissingIn, PenaltyIn
<1>7. IsFiniteSet(Dim) /\ Shares \in Int /\ penalties \in Int /\ SumOf(L, Dim) \in Int
  <2> HIDE DEF L, S
  <2> QED BY <1>3, ScoresAssumption, SharesType, SumType DEF ScoresAssumption
<1>8. Sum([d \in Dim |-> AnalysisOf.dims[d].lost]) = SumOf(L, Dim)
  <2> DEFINE K == [d \in Dim |-> AnalysisOf.dims[d].lost]
  <2>1. Sum(K) = SumOf(K, Dim) /\ \A d \in Dim : K[d] = AnalysisOf.dims[d].lost
    BY SumIs
  <2> HIDE DEF K, L
  <2>2. SumOf(K, Dim) = SumOf(L, Dim)
    BY <1>5, <1>7, <2>1, SumSame
  <2> QED BY <2>1, <2>2 DEF K
<1>9. AllLost(AnalysisOf) = SumOf(H, Dim)
    BY SumIs DEF AllLost
<1>10. \A d \in Dim : H[d] = T[d] + C[d] /\ T[d] = Shares * L[d]
  <2> HIDE DEF C, L
  <2> QED BY <1>5 DEF LostWithGate
<1> HIDE DEF S, L, C, missing, penalties, H
<1>11. Integral(T, Dim)
    BY <1>3, <1>7 DEF Integral
<1> HIDE DEF T
<1>12. SumOf(H, Dim) = SumOf(T, Dim) + SumOf(C, Dim)
    BY <1>3, <1>10, <1>11, SumAdd
<1>13. SumOf(T, Dim) = Shares * SumOf(L, Dim)
    BY <1>3, <1>7, <1>10, SumTimes
<1>14. Shares * missing = AllLost(AnalysisOf)
  <2>1. \A s, p, l \in Int : s * (p + l) = s * l + s * p
    OBVIOUS
  <2>2. Shares * (penalties + SumOf(L, Dim)) = Shares * SumOf(L, Dim) + Shares * penalties
    BY <1>7, <2>1
  <2> QED BY <1>3, <1>9, <1>12, <1>13, <2>2
<1> QED BY <1>1, <1>3, <1>5, <1>6, <1>8, <1>14 DEF IndexAddsUp, S

-----------------------------------------------------------------------------
(* The groups that are compared.                                          *)

\* Values of calls, each call with one.
Measures(values) ==
    /\ IsFiniteSet(values) /\ values \subseteq Int \X Int
    /\ \A p, q \in values : p[2] = q[2] => p = q

Below(q, p) == q[1] < p[1] \/ (q[1] = p[1] /\ q[2] < p[2])
RankIn(values, p) == Cardinality({q \in values : Below(q, p)})
NthIn(values, n) == (CHOOSE p \in values : RankIn(values, p) = n)[1]

\* The n-th value is there, and those after it are no smaller.
LEMMA NthIs ==
    ASSUME NEW values, Measures(values), NEW n \in 0 .. Cardinality(values) - 1
    PROVE  \E p \in values : NthIn(values, n) = p[1] /\ RankIn(values, p) = n
<1> DEFINE R == [p \in values |-> {q \in values : Below(p, q)}]
<1>1. \A p, q \in values : q \in R[p] <=> Below(p, q)
    OBVIOUS
<1>2. \A p \in values : p[1] \in Int /\ p[2] \in Int /\ p = <<p[1], p[2]>>
    BY DEF Measures
<1> HIDE DEF R
<1>3. Orders(R, values)
  <2>1. \A p \in values : p \notin R[p]
    BY <1>1, <1>2 DEF Below
  <2>2. \A p, q, r \in values : q \in R[p] /\ r \in R[q] => r \in R[p]
    BY <1>1, <1>2 DEF Below
  <2>3. \A p, q \in values : p # q => q \in R[p] \/ p \in R[q]
    BY <1>1, <1>2 DEF Below
  <2> QED BY <2>1, <2>2, <2>3 DEF Orders
<1>4. n + 1 \in 1 .. Cardinality(values) /\ (n + 1) - 1 = n
  <2>1. Cardinality(values) \in Nat
    BY FS_CardinalityType DEF Measures
  <2> QED BY <2>1
<1>5. IsFiniteSet(values)
    BY DEF Measures
<1>6. \E x \in values : Cardinality({y \in values : x \in R[y]}) = (n + 1) - 1
  <2>1. n + 1 \in 1 .. Cardinality(values)
    BY <1>4
  <2> QED BY ONLY <1>3, <1>5, <2>1, RankExists
<1>7. \A x \in values : {y \in values : x \in R[y]} = {y \in values : Below(y, x)}
    BY <1>1
<1>8. \E x \in values : RankIn(values, x) = n
  <2>1. PICK x \in values : Cardinality({y \in values : x \in R[y]}) = n
    BY <1>4, <1>6
  <2> QED BY <1>7, <2>1 DEF RankIn
<1> QED BY <1>8 DEF NthIn

\* Later values are no smaller.
LEMMA NthGrows ==
    ASSUME NEW values, Measures(values), NEW n \in 0 .. Cardinality(values) - 1,
           NEW m \in 0 .. Cardinality(values) - 1, m <= n
    PROVE  NthIn(values, m) \in Int /\ NthIn(values, n) \in Int /\ NthIn(values, m) <= NthIn(values, n)
<1>1. PICK p \in values : NthIn(values, m) = p[1] /\ RankIn(values, p) = m
    BY NthIs
<1>2. PICK q \in values : NthIn(values, n) = q[1] /\ RankIn(values, q) = n
    BY NthIs
<1>3. \A x \in values : x[1] \in Int /\ x[2] \in Int
    BY DEF Measures
<1>4. ASSUME q[1] < p[1] PROVE FALSE
  <2> DEFINE A == {x \in values : Below(x, q)}
             B == {x \in values : Below(x, p)}
  <2>1. A \subseteq B /\ q \in B /\ q \notin A
    BY <1>3, <1>4 DEF Below
  <2>2. IsFiniteSet(B)
    BY FS_Subset DEF Measures
  <2>3. Cardinality(A) < Cardinality(B)
    <3> HIDE DEF A, B
    <3>1. A # B
      BY <2>1
    <3>2. Cardinality(A) \in Nat /\ Cardinality(B) \in Nat
      BY <2>1, <2>2, FS_Subset, FS_CardinalityType
    <3> QED BY <2>1, <2>2, <3>1, <3>2, FS_Subset
  <2>4. Cardinality(A) = n /\ Cardinality(B) = m
    BY <1>1, <1>2 DEF RankIn
  <2> HIDE DEF A, B
  <2>5. m \in Int /\ n \in Int
    OBVIOUS
  <2> QED BY <2>3, <2>4, <2>5
<1> QED BY <1>1, <1>2, <1>3, <1>4

\* Between two values, so many quarters of the way.
LEMMA Between ==
    ASSUME NEW a \in Int, NEW b \in Int, a <= b, NEW r \in 0 .. 3
    PROVE  /\ (a * (4 - r) + b * r) \div 4 \in Int
           /\ a <= (a * (4 - r) + b * r) \div 4 /\ (a * (4 - r) + b * r) \div 4 <= b
<1>1. CASE r = 0
    BY <1>1
<1>2. CASE r = 1
    BY <1>2
<1>3. CASE r = 2
    BY <1>3
<1>4. CASE r = 3
    BY <1>4
<1> QED BY <1>1, <1>2, <1>3, <1>4

\* The first quarter is not above the third.
LEMMA QuartersGrow ==
    ASSUME NEW values, Measures(values), values # {}
    PROVE  /\ Quantile(values, 1) \in Int /\ Quantile(values, 3) \in Int
           /\ Quantile(values, 1) <= Quantile(values, 3)
<1> DEFINE N == Cardinality(values)
           Nth(n) == NthIn(values, n)
           at == (N - 1) * 1
           to == (N - 1) * 3
           A == Nth(at \div 4)
           B == Nth((at + 3) \div 4)
           C == Nth(to \div 4)
           D == Nth((to + 3) \div 4)
<1>1. /\ Quantile(values, 1) = (A * (4 - (at % 4)) + B * (at % 4)) \div 4
      /\ Quantile(values, 3) = (C * (4 - (to % 4)) + D * (to % 4)) \div 4
    BY DEF Quantile, NthIn, RankIn, Below
<1>2. N \in Nat /\ N >= 1
  <2>1. N \in Nat /\ N # 0
    BY FS_CardinalityType, FS_EmptySet DEF Measures
  <2> QED BY <2>1
<1>3. ASSUME NEW m \in 0 .. N - 1, NEW n \in 0 .. N - 1, m <= n
      PROVE  Nth(m) \in Int /\ Nth(n) \in Int /\ Nth(m) <= Nth(n)
    BY <1>3, NthGrows
<1> HIDE DEF N, Nth
<1>4. /\ at \div 4 \in 0 .. N - 1 /\ (at + 3) \div 4 \in 0 .. N - 1
      /\ to \div 4 \in 0 .. N - 1 /\ (to + 3) \div 4 \in 0 .. N - 1
      /\ at \div 4 <= (at + 3) \div 4 /\ to \div 4 <= (to + 3) \div 4
      /\ at % 4 \in 0 .. 3 /\ to % 4 \in 0 .. 3
    BY <1>2
<1>5. A \in Int /\ B \in Int /\ A <= B /\ C \in Int /\ D \in Int /\ C <= D
    BY <1>3, <1>4
<1>6. /\ Quantile(values, 1) \in Int /\ Quantile(values, 1) <= B
      /\ Quantile(values, 3) \in Int /\ C <= Quantile(values, 3)
  <2> HIDE DEF A, B, C, D, at, to
  <2> QED BY <1>1, <1>4, <1>5, Between
<1>7. CASE N >= 3
  <2>1. (at + 3) \div 4 <= to \div 4
    BY <1>2, <1>7
  <2>2. B <= C
    BY <1>3, <1>4, <2>1
  <2> HIDE DEF A, B, C, D, at, to
  <2> QED BY <1>5, <1>6, <2>2
<1>8. CASE N = 2
  <2>1. /\ at \div 4 = 0 /\ (at + 3) \div 4 = 1 /\ at % 4 = 1
        /\ to \div 4 = 0 /\ (to + 3) \div 4 = 1 /\ to % 4 = 3
    BY <1>8
  <2>2. C = A /\ D = B
    BY <2>1
  <2>3. /\ Quantile(values, 1) = (A * (4 - 1) + B * 1) \div 4
        /\ Quantile(values, 3) = (A * (4 - 3) + B * 3) \div 4
    <3> HIDE DEF A, B, C, D, at, to
    <3> QED BY <1>1, <2>1, <2>2
  <2>4. A * (4 - 1) + B * 1 <= A * (4 - 3) + B * 3
    <3> HIDE DEF A, B
    <3> QED BY <1>5
  <2>5. \A x, y \in Int : x <= y => x \div 4 <= y \div 4
    OBVIOUS
  <2> HIDE DEF A, B, C, D, at, to
  <2>6. A * (4 - 1) + B * 1 \in Int /\ A * (4 - 3) + B * 3 \in Int
    BY <1>5
  <2> QED BY <1>6, <2>3, <2>4, <2>5, <2>6
<1>9. CASE N = 1
  <2>1. at \div 4 = 0 /\ (at + 3) \div 4 = 0 /\ to \div 4 = 0 /\ (to + 3) \div 4 = 0
    BY <1>9
  <2>2. B = C
    BY <2>1
  <2> HIDE DEF A, B, C, D, at, to
  <2> QED BY <1>5, <1>6, <2>2
<1>10. N >= 3 \/ N = 2 \/ N = 1
    BY <1>2
<1> QED BY <1>6, <1>7, <1>8, <1>9, <1>10

\* No call is both in the lowest and in the highest quarter.
LEMMA QuartersApart ==
    ASSUME NEW values, Measures(values)
    PROVE  Quarters(values).low \cap Quarters(values).high = {}
<1>1. CASE values = {} \/ Quantile(values, 1) = Quantile(values, 3)
    BY <1>1 DEF Quarters
<1>2. CASE values # {} /\ Quantile(values, 1) # Quantile(values, 3)
  <2> DEFINE a == Quantile(values, 1)
             b == Quantile(values, 3)
             low == {p \in values : p[1] <= a}
             high == {p \in values : p[1] >= b}
  <2>1. a \in Int /\ b \in Int /\ a < b
    BY <1>2, QuartersGrow
  <2>2. Quarters(values).low = {p[2] : p \in low} /\ Quarters(values).high = {p[2] : p \in high}
    BY <1>2 DEF Quarters
  <2> HIDE DEF a, b
  <2>3. ASSUME NEW p \in low, NEW q \in high, p[2] = q[2] PROVE FALSE
    <3>1. p = q /\ p[1] \in Int
      BY <2>3 DEF Measures
    <3> QED BY <2>1, <3>1
  <2> QED BY <2>2, <2>3
<1> QED BY <1>1, <1>2

\* What the features of a folder give a driver.
LEMMA FolderFacts ==
    ASSUME CallIs, call.folder # NoValue, NEW x \in DOMAIN call.status,
           call.folder.features[x] # NoValue, NEW k \in ToSet(Drivers)
    PROVE  call.folder.features[x].value[k] \in Int \cup {NoValue}
BY RecordsAssumption DEF RecordsAssumption, CallIs

\* What a driver is measured by.
LEMMA DriversMeasured ==
    ASSUME JInv, ReportIs, result # NoValue, call.folder # NoValue, NEW key \in ToSet(Drivers)
    PROVE  Measures(DriverValues(BatchOf, key))
<1> DEFINE calls == DriverCalls(BatchOf, key)
           Value(c) == DriverValue(BatchOf[c].features, key)
           values == {<<Value(c) * Unit, c>> : c \in calls}
<1>1. ASSUME NEW c \in calls PROVE c \in Int /\ Value(c) \in Int
  <2>1. c \in Scored(BatchOf) /\ BatchOf[c].features # NoValue /\ Value(c) # NoValue
    BY DEF DriverCalls
  <2>2. c \in Int /\ c \in DOMAIN BatchOf
    BY <2>1, ScoredIs
  <2>3. BatchOf[c] = Record(call.folder, CardsAfter, StatusAfter, c) /\ c \in DOMAIN StatusAfter
    BY <2>2, RecordIs
  <2>4. BatchOf[c].features = IF call.folder.features[c] # NoValue /\ call.folder.features[c].call = c
                              THEN call.folder.features[c] ELSE NoValue
    BY <2>3 DEF Record
  <2>5. call.folder.features[c] # NoValue /\ BatchOf[c].features = call.folder.features[c]
    BY <2>1, <2>4
  <2>6. c \in DOMAIN call.status
    BY <2>3, CardsAre DEF ReportIs
  <2>7. call.folder.features[c].value[key] \in Int \cup {NoValue}
    BY <2>5, <2>6, FolderFacts DEF JInv
  <2>8. Value(c) = BatchOf[c].features.value[key]
    BY <2>1 DEF DriverValue
  <2> QED BY <2>1, <2>2, <2>5, <2>7, <2>8
<1>2. DriverValues(BatchOf, key) = values
    BY DEF DriverValues
<1>3. IsFiniteSet(calls)
    BY BatchIs, FS_Subset DEF DriverCalls
<1> HIDE DEF calls, Value
<1>4. values \subseteq Int \X Int
  <2>1. \A c \in calls : Value(c) * Unit \in Int
    BY <1>1, BatchAssumption DEF BatchAssumption
  <2> QED BY <1>1, <2>1
<1>5. \A p, q \in values : p[2] = q[2] => p = q
    OBVIOUS
<1>6. IsFiniteSet(values)
  <2> DEFINE at == [p \in values |-> p[2]]
  <2>1. \A p \in values : p[2] \in calls
    OBVIOUS
  <2> HIDE DEF values
  <2>2. at \in Injection(values, calls)
    BY <1>5, <2>1 DEF Injection, IsInjective
  <2> QED BY <1>3, <2>2, FS_Injection
<1> QED BY <1>2, <1>4, <1>5, <1>6 DEF Measures

\* No call is in both quarters of a driver.
LEMMA DriversApart ==
    ASSUME JInv, ReportIs, result # NoValue, call.folder # NoValue,
           NEW d \in ToSet(AnalysisOf.drivers)
    PROVE  d.quarters.low \cap d.quarters.high = {}
<1>1. AnalysisOf.drivers =
        [k \in DOMAIN Drivers |->
           CHOOSE x \in {Driver(BatchOf, Drivers[k], q) :
                           q \in {Quarters(v) : v \in {DriverValues(BatchOf, Drivers[k])}}} : TRUE]
    BY DEF AnalysisOf, Analyse
<1>2. PICK k \in DOMAIN Drivers : d = AnalysisOf.drivers[k]
    BY <1>1 DEF ToSet
<1>3. d = Driver(BatchOf, Drivers[k], Quarters(DriverValues(BatchOf, Drivers[k])))
  <2> DEFINE one == Driver(BatchOf, Drivers[k], Quarters(DriverValues(BatchOf, Drivers[k])))
             all == {Driver(BatchOf, Drivers[k], q) :
                       q \in {Quarters(v) : v \in {DriverValues(BatchOf, Drivers[k])}}}
  <2>1. d = CHOOSE x \in all : TRUE
    BY <1>1, <1>2
  <2>2. all = {one}
    OBVIOUS
  <2> HIDE DEF one, all
  <2>3. d = one
    BY <2>1, <2>2
  <2> QED BY <2>3 DEF one
<1>4. d.quarters = Quarters(DriverValues(BatchOf, Drivers[k]))
    BY <1>3 DEF Driver
<1>5. Drivers[k] \in ToSet(Drivers)
    BY DEF ToSet
<1> QED BY <1>4, <1>5, DriversMeasured, QuartersApart

\* The calls of a segment, and the others.
InSegment(batch, kind, key) == {c \in Scored(batch) : SegmentKey(batch, kind, c) = key}

LEMMA SegmentIs ==
    ASSUME NEW g \in AnalysisOf.segments
    PROVE  g.members = InSegment(BatchOf, g.kind, g.key) /\ g.members \cap g.rest = {}
<1>1. AnalysisOf.segments =
        {Compared(BatchOf, h) : h \in UNION {Segments(BatchOf, k) : k \in SegmentKinds}}
    BY DEF AnalysisOf, Analyse
<1>2. PICK kind \in SegmentKinds : \E h \in Segments(BatchOf, kind) : g = Compared(BatchOf, h)
    BY <1>1
<1>3. PICK h \in Segments(BatchOf, kind) : g = Compared(BatchOf, h)
    BY <1>2
<1> DEFINE In(k) == InSegment(BatchOf, kind, k)
           Rest(k) == {c \in Scored(BatchOf) \ In(k) :
                         kind = "layout" => BatchOf[c].layout # NoValue}
<1>4. PICK k : h = [kind |-> kind, key |-> k, members |-> In(k), rest |-> Rest(k),
                    diff |-> NoValue, flag |-> "none"]
    BY DEF Segments, InSegment
<1>5. In(k) \cap Rest(k) = {}
    OBVIOUS
<1> HIDE DEF In, Rest
<1>6. g.kind = kind /\ g.key = k /\ g.members = In(k) /\ g.rest = Rest(k)
    BY <1>3, <1>4 DEF Compared
<1> QED BY <1>5, <1>6 DEF In

\* Without a filter, the batch has the cards that count.
LEMMA AllLoaded ==
    ASSUME JInv, ReportIs, result # NoValue, call.filter = NoFilter
    PROVE  /\ Scored(BatchOf) = DOMAIN Loaded
           /\ \A c \in DOMAIN Loaded :
                BatchOf[c].card = Loaded[c] /\ BatchOf[c].raw = Loaded[c].banker
<1> DEFINE cards == CardsAfter
           status == StatusAfter
           Of(c) == Record(call.folder, cards, status, c)
<1>1. CardFile(cards) /\ call.rubric \in Rubrics /\ DOMAIN cards \subseteq DOMAIN status
    BY CardsAre, CallFacts DEF ReportIs, JInv
<1>2. PICK r \in Rubrics :
        /\ DOMAIN Loaded = {c \in Standing(cards, status) : cards[c].rubric = r}
        /\ \A c \in DOMAIN Loaded : Loaded[c] = cards[c]
  <2>1. CardFile(CardsAfter) /\ call.rubric \in Rubrics
    BY <1>1
  <2>2. \E r \in Rubrics :
          /\ DOMAIN Loaded = {c \in Standing(CardsAfter, StatusAfter) : CardsAfter[c].rubric = r}
          /\ \A c \in DOMAIN Loaded : Loaded[c] = CardsAfter[c]
    BY <2>1, LoadedIs DEF Loaded
  <2> QED BY <2>2
<1>3. ASSUME NEW c \in DOMAIN Loaded
      PROVE  /\ c \in DOMAIN status /\ status[c] \in {NoValue, "success"}
             /\ Loaded[c] # NoValue /\ CardOf(cards, status, c) = Loaded[c]
  <2>1. c \in DOMAIN cards /\ status[c] \in {NoValue, "success"} /\ Loaded[c] = cards[c]
    BY <1>2 DEF Standing
  <2>2. Loaded[c] # NoValue
    BY <1>1, <2>1 DEF CardFile, IsCard
  <2> QED BY <1>1, <2>1, <2>2 DEF CardOf, Loaded
<1>4. ASSUME NEW c \in DOMAIN Loaded
      PROVE  Of(c).card = Loaded[c] /\ Of(c).raw = Loaded[c].banker
  <2>1. Of(c).card = CardOf(cards, status, c)
    BY DEF Record
  <2>2. CardOf(cards, status, c) # NoValue => Of(c).raw = CardOf(cards, status, c).banker
    BY DEF Record
  <2> HIDE DEF Of
  <2> QED BY <1>3, <2>1, <2>2
<1>5. \A x : Matches(x, call.filter)
    BY DEF Matches, NoFilter
<1>6. DOMAIN BatchOf = {c \in DOMAIN status : status[c] # NoValue \/ c \in DOMAIN Loaded}
  <2>1. call.filter.run = NoValue
    BY DEF NoFilter
  <2> QED BY <1>5, <2>1 DEF BatchOf, LoadBatch, InBatch, Loaded
<1>7. \A c \in DOMAIN BatchOf : BatchOf[c] = Of(c)
    BY RecordIs
<1>8. ASSUME NEW c \in DOMAIN BatchOf, c \notin DOMAIN Loaded PROVE Of(c).card = NoValue
    BY <1>8 DEF Record, CardOf, Loaded
<1> HIDE DEF Of, cards, status
<1>9. \A c \in DOMAIN Loaded : c \in DOMAIN BatchOf
    BY <1>3, <1>6
<1>10. \A c \in DOMAIN Loaded : BatchOf[c].card # NoValue
    BY <1>3, <1>4, <1>7, <1>9
<1>11. \A c \in DOMAIN BatchOf : BatchOf[c].card # NoValue => c \in DOMAIN Loaded
    BY <1>7, <1>8
<1>12. Scored(BatchOf) = DOMAIN Loaded
    BY <1>9, <1>10, <1>11 DEF Scored
<1> QED BY <1>4, <1>7, <1>9, <1>12

\* Each call that counts is counted once.
LEMMA CountedOnce ==
    ASSUME JInv, ReportIs, Executive PROVE EachCallOnce
<1>1. /\ result # NoValue /\ Batch = BatchOf /\ Analysis = AnalysisOf
      /\ call.folder # NoValue /\ report.bankers = AggregateBankers(Loaded)
  <2>1. /\ result # NoValue /\ report.executive = ExecutiveOf /\ call.folder # NoValue
        /\ report.bankers = AggregateBankers(Loaded)
    BY DEF ReportIs, ReportOf, Executive
  <2> QED BY <2>1 DEF Batch, Analysis, ExecutiveOf
<1>2. ASSUME NEW g \in AnalysisOf.segments, NEW h \in AnalysisOf.segments
      PROVE  /\ g.members \cap g.rest = {}
             /\ g.kind = h.kind /\ g.key # h.key => g.members \cap h.members = {}
    BY SegmentIs DEF InSegment
<1>3. \A d \in ToSet(AnalysisOf.drivers) : d.quarters.low \cap d.quarters.high = {}
    BY <1>1, DriversApart
<1>4. ASSUME call.filter = NoFilter, NEW b \in DOMAIN report.bankers
      PROVE  LET own == {c \in Scored(BatchOf) : BatchOf[c].raw = b}
             IN  /\ Cardinality(own) = report.bankers[b].n
                 /\ Sum([c \in own |-> BatchOf[c].card.total]) = report.bankers[b].total
  <2> DEFINE own == {c \in Scored(BatchOf) : BatchOf[c].raw = b}
             theirs == {c \in DOMAIN Loaded : Loaded[c].banker = b}
  <2>1. /\ Scored(BatchOf) = DOMAIN Loaded
        /\ \A c \in DOMAIN Loaded :
             BatchOf[c].card = Loaded[c] /\ BatchOf[c].raw = Loaded[c].banker
    BY <1>1, <1>4, AllLoaded
  <2>2. own = theirs
    BY <2>1
  <2>3. [c \in own |-> BatchOf[c].card.total] = [c \in theirs |-> Loaded[c].total]
    BY <2>1, <2>2
  <2>4. CardFile(CardsAfter) /\ call.rubric \in Rubrics
    BY <1>1, CardsAre, CallFacts DEF ReportIs, JInv
  <2>5. PICK r \in Rubrics :
          /\ DOMAIN Loaded = {c \in Standing(CardsAfter, StatusAfter) : CardsAfter[c].rubric = r}
          /\ \A c \in DOMAIN Loaded : Loaded[c] = CardsAfter[c]
    BY <2>4, LoadedIs DEF Loaded
  <2>6. CardFile(Loaded) /\ \A c \in DOMAIN Loaded : Loaded[c].rubric = r
    <3>1. DOMAIN Loaded \subseteq DOMAIN CardsAfter
      BY <2>5 DEF Standing
    <3>2. IsFiniteSet(DOMAIN Loaded)
      BY <2>4, <3>1, FS_Subset DEF CardFile
    <3> QED BY <2>4, <2>5, <3>1, <3>2 DEF CardFile
  <2>7. /\ report.bankers[b].n = Cardinality(theirs)
        /\ report.bankers[b].total = Sum([c \in theirs |-> Loaded[c].total])
    BY <1>1, <2>6, BankerIs
  <2> HIDE DEF own, theirs
  <2>8. /\ Cardinality(own) = report.bankers[b].n
        /\ Sum([c \in own |-> BatchOf[c].card.total]) = report.bankers[b].total
    BY <2>2, <2>3, <2>7
  <2> QED BY <2>8 DEF own
<1> QED BY <1>1, <1>2, <1>3, <1>4 DEF EachCallOnce

\* Whatever cards and files there are, the points missing from the index are
\* those lost on the dimensions with the gates' penalties, groups that are
\* compared share no call, and each call that counts is in the management
\* report once, as in the bankers' reports (analysis.py:11-13,253-334,
\* dataset.py:385-397).
THEOREM TheReportAddsUp == Spec => []ReportAddsUp
<1>1. JInv /\ ReportIs => ReportAddsUp
    BY IndexIs, CountedOnce DEF ReportAddsUp, IndexAddsUp, EachCallOnce
<1> QED BY <1>1, ReportKeeps, PTL


\* The median lies between the values in the middle.
LEMMA MedianBetween ==
    ASSUME NEW values, Measures(values), values # {}
    PROVE  /\ Quantile(values, 2) \in Int /\ Cardinality(values) \in Nat \ {0}
           /\ \E p \in values : /\ RankIn(values, p) = (Cardinality(values) - 1) \div 2
                                /\ p[1] <= Quantile(values, 2)
           /\ \E p \in values : /\ RankIn(values, p) = Cardinality(values) \div 2
                                /\ p[1] >= Quantile(values, 2)
<1> DEFINE N == Cardinality(values)
           Nth(n) == NthIn(values, n)
           at == (N - 1) * 2
           A == Nth(at \div 4)
           B == Nth((at + 3) \div 4)
<1>1. Quantile(values, 2) = (A * (4 - (at % 4)) + B * (at % 4)) \div 4
    BY DEF Quantile, NthIn, RankIn, Below
<1>2. N \in Nat \ {0}
    BY FS_CardinalityType, FS_EmptySet DEF Measures
<1>3. ASSUME NEW m \in 0 .. N - 1, NEW n \in 0 .. N - 1, m <= n
      PROVE  Nth(m) \in Int /\ Nth(n) \in Int /\ Nth(m) <= Nth(n)
    BY <1>3, NthGrows
<1>4. ASSUME NEW n \in 0 .. N - 1
      PROVE  \E p \in values : Nth(n) = p[1] /\ RankIn(values, p) = n
    BY NthIs
<1> HIDE DEF N, Nth
<1>5. /\ at \div 4 = (N - 1) \div 2 /\ (at + 3) \div 4 = N \div 2
      /\ (N - 1) \div 2 \in 0 .. N - 1 /\ N \div 2 \in 0 .. N - 1
      /\ (N - 1) \div 2 <= N \div 2 /\ at % 4 \in 0 .. 3
    BY <1>2
<1>6. A \in Int /\ B \in Int /\ A <= B
    BY <1>3, <1>5
<1>7. Quantile(values, 2) \in Int /\ A <= Quantile(values, 2) /\ Quantile(values, 2) <= B
  <2> HIDE DEF A, B, at
  <2> QED BY <1>1, <1>5, <1>6, Between
<1>8. PICK p \in values : A = p[1] /\ RankIn(values, p) = (N - 1) \div 2
    BY <1>4, <1>5
<1>9. PICK q \in values : B = q[1] /\ RankIn(values, q) = N \div 2
    BY <1>4, <1>5
<1> HIDE DEF A, B, at
<1>10. \E mid \in values : RankIn(values, mid) = (N - 1) \div 2 /\ mid[1] <= Quantile(values, 2)
    BY <1>7, <1>8
<1>11. \E mid \in values : RankIn(values, mid) = N \div 2 /\ mid[1] >= Quantile(values, 2)
    BY <1>6, <1>7, <1>9
<1> QED BY <1>2, <1>7, <1>10, <1>11 DEF N

\* Of some sets, one has at least so many more elements.
LEMMA TwoMore ==
    ASSUME NEW S, NEW T, IsFiniteSet(T), S \subseteq T,
           NEW x \in T, NEW y \in T, x # y, x \notin S, y \notin S
    PROVE  Cardinality(S) + 2 <= Cardinality(T) /\ Cardinality(S) \in Nat
<1>1. IsFiniteSet(S) /\ Cardinality(S) \in Nat /\ Cardinality(T) \in Nat
    BY FS_Subset, FS_CardinalityType
<1>2. IsFiniteSet(S \cup {x}) /\ Cardinality(S \cup {x}) = Cardinality(S) + 1
    BY <1>1, FS_AddElement
<1> DEFINE U == S \cup {x}
<1>3. y \notin U /\ U \cup {y} \subseteq T
    OBVIOUS
<1> HIDE DEF U
<1>4. Cardinality(U \cup {y}) = Cardinality(U) + 1
    BY <1>2, <1>3, FS_AddElement DEF U
<1>5. Cardinality(U \cup {y}) <= Cardinality(T)
    BY <1>3, FS_Subset
<1>6. Cardinality(U) = Cardinality(S) + 1
    BY <1>2 DEF U
<1> QED BY <1>1, <1>4, <1>5, <1>6

LEMMA OneMore ==
    ASSUME NEW S, NEW T, IsFiniteSet(T), S \subseteq T, NEW x \in T, x \notin S
    PROVE  Cardinality(S) + 1 <= Cardinality(T) /\ Cardinality(S) \in Nat
<1>1. IsFiniteSet(S) /\ Cardinality(S) \in Nat /\ Cardinality(T) \in Nat
    BY FS_Subset, FS_CardinalityType
<1>2. Cardinality(S \cup {x}) = Cardinality(S) + 1
    BY <1>1, FS_AddElement
<1>3. S \cup {x} \subseteq T
    OBVIOUS
<1>4. Cardinality(S \cup {x}) <= Cardinality(T)
    BY <1>3, FS_Subset
<1> QED BY <1>1, <1>2, <1>4

\* One who is not below the median of the others is not below the median of all.
LEMMA MediansMeet ==
    ASSUME NEW all, Measures(all), NEW p \in all, all \ {p} # {}
    PROVE  LET others == all \ {p}
           IN  /\ Quantile(all, 2) \in Int /\ Quantile(others, 2) \in Int /\ p[1] \in Int
               /\ p[1] >= Quantile(others, 2) => p[1] >= Quantile(all, 2)
               /\ p[1] <= Quantile(others, 2) => p[1] <= Quantile(all, 2)
<1> DEFINE W == all \ {p}
           n == Cardinality(W)
<1>1. Measures(W) /\ IsFiniteSet(all) /\ IsFiniteSet(W)
    BY FS_Subset DEF Measures
<1>2. \A q \in all : q[1] \in Int /\ q[2] \in Int
    BY DEF Measures
<1>3. Cardinality(all) = n + 1 /\ n \in Nat \ {0}
  <2>1. n = Cardinality(all) - 1 /\ Cardinality(all) \in Nat /\ n \in Nat
    BY <1>1, FS_RemoveElement, FS_CardinalityType
  <2>2. n # 0
    BY <1>1, FS_EmptySet
  <2> QED BY <2>1, <2>2
<1>4. /\ Quantile(all, 2) \in Int /\ Quantile(W, 2) \in Int
      /\ \E x \in all : RankIn(all, x) = n \div 2 /\ x[1] <= Quantile(all, 2)
      /\ \E x \in all : RankIn(all, x) = (n + 1) \div 2 /\ x[1] >= Quantile(all, 2)
      /\ \E x \in W : RankIn(W, x) = (n - 1) \div 2 /\ x[1] <= Quantile(W, 2)
      /\ \E x \in W : RankIn(W, x) = n \div 2 /\ x[1] >= Quantile(W, 2)
  <2>1. (n + 1) - 1 = n /\ all # {}
    BY <1>3
  <2> HIDE DEF W
  <2>2. /\ Quantile(all, 2) \in Int
        /\ \E x \in all : RankIn(all, x) = n \div 2 /\ x[1] <= Quantile(all, 2)
        /\ \E x \in all : RankIn(all, x) = (n + 1) \div 2 /\ x[1] >= Quantile(all, 2)
    BY <1>3, <2>1, MedianBetween
  <2>3. /\ Quantile(W, 2) \in Int
        /\ \E x \in W : RankIn(W, x) = (n - 1) \div 2 /\ x[1] <= Quantile(W, 2)
        /\ \E x \in W : RankIn(W, x) = n \div 2 /\ x[1] >= Quantile(W, 2)
    BY <1>1, MedianBetween DEF W
  <2> QED BY <2>2, <2>3
<1>5. ASSUME p[1] >= Quantile(W, 2), p[1] < Quantile(all, 2) PROVE FALSE
  <2>1. PICK x \in all : RankIn(all, x) = (n + 1) \div 2 /\ x[1] >= Quantile(all, 2)
    BY <1>4
  <2>2. PICK w \in W : RankIn(W, w) = (n - 1) \div 2 /\ w[1] <= Quantile(W, 2)
    BY <1>4
  <2> DEFINE S == {q \in W : Below(q, w)}
             T == {q \in all : Below(q, x)}
  <2>3. p[1] < x[1] /\ w[1] < x[1]
    BY <1>2, <1>4, <1>5, <2>1, <2>2
  <2>4. S \subseteq T /\ w \in T /\ p \in T /\ w # p /\ w \notin S /\ p \notin S
    BY <1>2, <2>3 DEF Below
  <2>5. IsFiniteSet(T) /\ Cardinality(S) = (n - 1) \div 2 /\ Cardinality(T) = (n + 1) \div 2
    BY <1>1, <2>1, <2>2, FS_Subset DEF RankIn
  <2> HIDE DEF S, T
  <2>6. Cardinality(S) + 2 <= Cardinality(T)
    BY <2>4, <2>5, TwoMore
  <2> HIDE DEF n
  <2> QED BY <1>3, <2>5, <2>6
<1>6. ASSUME p[1] <= Quantile(W, 2), p[1] > Quantile(all, 2) PROVE FALSE
  <2>1. PICK x \in all : RankIn(all, x) = n \div 2 /\ x[1] <= Quantile(all, 2)
    BY <1>4
  <2>2. PICK w \in W : RankIn(W, w) = n \div 2 /\ w[1] >= Quantile(W, 2)
    BY <1>4
  <2> DEFINE S == {q \in all : Below(q, x)}
             T == {q \in W : Below(q, w)}
  <2>3. x[1] < p[1] /\ x[1] < w[1] /\ x # p
    BY <1>2, <1>4, <1>6, <2>1, <2>2
  <2>4. S \subseteq T /\ x \in T /\ x \notin S
    BY <1>2, <2>3 DEF Below
  <2>5. IsFiniteSet(T) /\ Cardinality(S) = n \div 2 /\ Cardinality(T) = n \div 2
    BY <1>1, <2>1, <2>2, FS_Subset DEF RankIn
  <2> HIDE DEF S, T
  <2>6. Cardinality(S) + 1 <= Cardinality(T) /\ Cardinality(S) \in Nat
    BY <2>4, <2>5, OneMore
  <2> HIDE DEF n
  <2> QED BY <2>5, <2>6
<1>7. p[1] \in Int
    BY <1>2
<1> HIDE DEF n, W
<1>8. /\ p[1] >= Quantile(W, 2) => p[1] >= Quantile(all, 2)
      /\ p[1] <= Quantile(W, 2) => p[1] <= Quantile(all, 2)
    BY <1>4, <1>5, <1>6, <1>7
<1> QED BY <1>4, <1>7, <1>8 DEF W


\* The bankers' figures are numbers.
LEMMA GroupsAre ==
    ASSUME JInv, ReportIs, result # NoValue, NEW b \in DOMAIN Groups(BatchOf)
    PROVE  LET group == Groups(BatchOf)[b]
           IN  /\ b \in Int /\ group.n \in Nat /\ group.mean \in Int
               /\ group = [n |-> group.n, mean |-> group.mean, flag |-> "none"]
<1> DEFINE calls == CallsOf(BatchOf, b)
           totals == Totals(BatchOf, calls)
           F == [p \in totals |-> p[2]]
<1>1. /\ \E c \in Scored(BatchOf) : b = BatchOf[c].banker
      /\ Groups(BatchOf)[b] = [n |-> Cardinality(calls), mean |-> Mean(totals), flag |-> "none"]
    BY DEF Groups, BankersOf
<1>2. b \in Int /\ calls # {}
  <2>1. PICK c \in Scored(BatchOf) : b = BatchOf[c].banker
    BY <1>1
  <2>2. IsCard(BatchOf[c].card) /\ b = Shown(BatchOf[c].card.banker)
    BY <2>1, ScoredIs
  <2>3. BatchOf[c].card.banker \in Int
    BY <2>2 DEF IsCard
  <2>4. \A x \in Int : Shown(x) \in Int
    BY DEF Shown
  <2>5. c \in calls
    BY <2>1 DEF CallsOf
  <2> QED BY <2>2, <2>3, <2>4, <2>5
<1>3. calls \subseteq Scored(BatchOf) /\ IsFiniteSet(calls)
    BY BatchIs, FS_Subset DEF CallsOf
<1>4. ASSUME NEW c \in calls PROVE BatchOf[c].card.total \in Int
  <2>1. IsCard(BatchOf[c].card)
    BY <1>3, ScoredIs
  <2> QED BY <2>1 DEF IsCard
<1> HIDE DEF calls
<1>5. IsFiniteSet(totals) /\ totals # {}
  <2>1. \A p, q \in totals : p[1] = q[1] => p = q
    BY DEF Totals
  <2>2. \A p \in totals : p[1] \in calls
    BY DEF Totals
  <2>3. totals # {}
    BY <1>2 DEF Totals
  <2> DEFINE at == [p \in totals |-> p[1]]
  <2> HIDE DEF totals
  <2>4. at \in Injection(totals, calls)
    BY <2>1, <2>2 DEF Injection, IsInjective
  <2> QED BY <1>3, <2>3, <2>4, FS_Injection
<1>6. \A p \in totals : p[2] \in Int
    BY <1>4 DEF Totals
<1> HIDE DEF totals
<1>7. Sum(F) = SumOf(F, totals)
    BY SumIs
<1>8. Integral(F, totals)
    BY <1>5, <1>6 DEF Integral
<1>9. Sum(F) \in Int
  <2> HIDE DEF F
  <2> QED BY <1>7, <1>8, SumType
<1>10. Cardinality(totals) \in Nat \ {0} /\ Cardinality(calls) \in Nat
  <2>1. Cardinality(totals) \in Nat /\ Cardinality(totals) # 0 /\ Cardinality(calls) \in Nat
    BY <1>3, <1>5, FS_CardinalityType, FS_EmptySet
  <2> QED BY <2>1
<1>11. Mean(totals) \in Int
  <2>1. Mean(totals) = (Sum(F) * Unit) \div Cardinality(totals)
    BY DEF Mean
  <2>2. Unit \in Nat
    BY BatchAssumption DEF BatchAssumption
  <2> HIDE DEF F
  <2> QED BY <1>9, <1>10, <2>1, <2>2
<1> QED BY <1>1, <1>2, <1>10, <1>11

\* The bankers with enough calls, and their means.
Eligible(groups) == {b \in DOMAIN groups : groups[b].n >= MinGroup}
MeansOf(groups, people) == {<<groups[b].mean, b>> : b \in people}

LEMMA TypicalIs ==
    ASSUME NEW groups, NEW x
    PROVE  LET people == Eligible(groups) \ {x}
           IN  /\ Typical(groups, x).n = Cardinality(people)
               /\ Typical(groups, x).value =
                    IF people = {} THEN NoValue ELSE Quantile(MeansOf(groups, people), 2)
<1> DEFINE people == {b \in DOMAIN groups \ {x} : groups[b].n >= MinGroup}
<1>1. people = Eligible(groups) \ {x}
    BY DEF Eligible
<1>2. /\ Typical(groups, x).n = Cardinality(people)
      /\ Typical(groups, x).value =
           IF people = {} THEN NoValue ELSE Quantile(MeansOf(groups, people), 2)
    BY DEF Typical, MeansOf
<1> HIDE DEF people
<1> QED BY <1>1, <1>2

\* What is said of a banker fits the median of all.
LEMMA FlagsAreFair ==
    ASSUME JInv, ReportIs, result # NoValue, NEW b \in DOMAIN AnalysisOf.bankers
    PROVE  LET banker == AnalysisOf.bankers[b]
           IN  /\ banker.flag \in {"ok", "bad"} => banker.n >= MinGroup
               /\ banker.flag = "ok" => banker.mean >= AnalysisOf.median
               /\ banker.flag = "bad" => banker.mean <= AnalysisOf.median
<1> DEFINE groups == Groups(BatchOf)
           own == Totals(BatchOf, CallsOf(BatchOf, b))
           others == Typical(groups, b)
           diff == IF others.n < 2 \/ groups[b].n < 2 THEN NoValue
                   ELSE [clear |-> Significant("mean", own, others.value),
                         gap |-> groups[b].mean - others.value]
           flag == Flag(diff, groups[b].n)
<1>1. /\ DOMAIN AnalysisOf.bankers = DOMAIN groups
      /\ AnalysisOf.bankers = [x \in DOMAIN groups |-> AgainstTypical(BatchOf, groups, x)]
      /\ AnalysisOf.median = Typical(groups, NoValue).value
    BY DEF AnalysisOf, Analyse
<1>2. \A x \in DOMAIN groups :
        /\ x \in Int /\ groups[x].n \in Nat /\ groups[x].mean \in Int
        /\ groups[x] = [n |-> groups[x].n, mean |-> groups[x].mean, flag |-> "none"]
    BY GroupsAre
<1>3. AgainstTypical(BatchOf, groups, b) = [groups[b] EXCEPT !.flag = flag]
    BY DEF AgainstTypical
<1>4. b \in DOMAIN groups /\ IsFiniteSet(DOMAIN groups)
  <2>1. b \in DOMAIN groups
    BY <1>1
  <2>2. IsFiniteSet(DOMAIN groups)
    <3> DEFINE S == Scored(BatchOf)
               f == [c \in S |-> BatchOf[c].banker]
    <3>1. DOMAIN groups = {BatchOf[c].banker : c \in S} /\ IsFiniteSet(S)
      BY BatchIs DEF Groups, BankersOf
    <3> HIDE DEF S, groups
    <3>2. f \in Surjection(S, DOMAIN groups)
      BY <3>1 DEF Surjection
    <3> HIDE DEF f
    <3> QED BY <3>1, <3>2, FS_Surjection
  <2> QED BY <2>1, <2>2
<1> HIDE DEF groups, flag, diff, others
<1>5. /\ AnalysisOf.bankers[b].flag = flag /\ AnalysisOf.bankers[b].n = groups[b].n
      /\ AnalysisOf.bankers[b].mean = groups[b].mean
    BY <1>1, <1>2, <1>3, <1>4
<1>6. ASSUME flag \in {"ok", "bad"}
      PROVE  /\ groups[b].n >= MinGroup /\ diff # NoValue
             /\ flag = "ok" => diff.gap > 0
             /\ flag = "bad" => ~(diff.gap > 0)
  <2>1. flag # "few" /\ flag # "none"
    BY <1>6
  <2>2. ~(groups[b].n < MinGroup) /\ diff # NoValue
    BY <2>1 DEF Flag, flag
  <2>3. groups[b].n \in Nat /\ MinGroup \in Nat
    BY <1>2, <1>4, BatchAssumption DEF BatchAssumption
  <2>4. /\ flag = "ok" => diff.gap > 0
        /\ flag = "bad" => ~(diff.gap > 0)
    BY <2>1, <2>2 DEF Flag, flag
  <2> QED BY <2>2, <2>3, <2>4
<1>7. ASSUME flag \in {"ok", "bad"}
      PROVE  /\ groups[b].n >= MinGroup
             /\ flag = "ok" => groups[b].mean >= AnalysisOf.median
             /\ flag = "bad" => groups[b].mean <= AnalysisOf.median
  <2> DEFINE E == Eligible(groups)
             V == MeansOf(groups, E)
             p == <<groups[b].mean, b>>
             R == MeansOf(groups, E \ {b})
  <2>1. b \in E /\ E \subseteq DOMAIN groups /\ IsFiniteSet(E) /\ NoValue \notin E
    <3>1. NoValue \notin Int
      BY BatchAssumption DEF BatchAssumption
    <3>2. NoValue \notin DOMAIN groups
      BY <1>2, <3>1
    <3> QED BY <1>4, <1>6, <1>7, <3>2, FS_Subset DEF Eligible
  <2>2. ~(others.n < 2) /\ diff.gap = groups[b].mean - others.value
    BY <1>6, <1>7 DEF diff
  <2>3. others.n = Cardinality(E \ {b})
    BY TypicalIs DEF others
  <2>4. E \ {b} # {}
    <3> HIDE DEF E
    <3> SUFFICES ASSUME E \ {b} = {} PROVE FALSE
      OBVIOUS
    <3>1. others.n = 0
      BY <2>3, FS_EmptySet
    <3> QED BY <2>2, <3>1
  <2>5. others.value = Quantile(R, 2)
    BY <2>4, TypicalIs DEF others
  <2>6. AnalysisOf.median = Quantile(V, 2)
    <3>1. E \ {NoValue} = E /\ E # {}
      BY <2>1
    <3> HIDE DEF E
    <3>2. Typical(groups, NoValue).value = Quantile(V, 2)
      BY <3>1, TypicalIs DEF E
    <3> QED BY <1>1, <3>2
  <2>7. Measures(V) /\ p \in V /\ V \ {p} = R /\ R # {}
    <3>1. \A x \in E : x \in Int /\ groups[x].mean \in Int
      BY <1>2, <2>1
    <3>2. V \subseteq Int \X Int /\ (\A q, r \in V : q[2] = r[2] => q = r) /\ \A q \in V : q[2] \in E
      BY <3>1 DEF MeansOf
    <3>3. p \in V /\ V \ {p} = R /\ R # {}
      <4> HIDE DEF E
      <4>1. p \in V /\ R # {}
        BY <2>1, <2>4 DEF MeansOf
      <4>2. \A x \in E : <<groups[x].mean, x>> = p => x = b
        OBVIOUS
      <4>3. \A q \in V : q # p => q \in R
        BY DEF MeansOf
      <4>4. \A q \in R : q \in V /\ q # p
        BY DEF MeansOf
      <4> HIDE DEF V, R, p
      <4> QED BY <4>1, <4>3, <4>4
    <3>4. IsFiniteSet(V)
      <4> DEFINE at == [q \in V |-> q[2]]
      <4> HIDE DEF V, E
      <4>1. at \in Injection(V, E)
        BY <3>2 DEF Injection, IsInjective
      <4> QED BY <2>1, <4>1, FS_Injection
    <3> QED BY <3>2, <3>3, <3>4 DEF Measures
  <2>8. p[1] = groups[b].mean
    OBVIOUS
  <2> HIDE DEF V, R, p, E
  <2>9. /\ Quantile(V, 2) \in Int /\ Quantile(R, 2) \in Int /\ p[1] \in Int
        /\ p[1] >= Quantile(R, 2) => p[1] >= Quantile(V, 2)
        /\ p[1] <= Quantile(R, 2) => p[1] <= Quantile(V, 2)
    BY <2>7, MediansMeet
  <2>10. flag = "ok" => p[1] >= Quantile(R, 2)
    BY <1>6, <1>7, <2>2, <2>5, <2>8, <2>9
  <2>11. flag = "bad" => p[1] <= Quantile(R, 2)
    BY <1>6, <1>7, <2>2, <2>5, <2>8, <2>9
  <2> QED BY <1>6, <1>7, <2>6, <2>8, <2>9, <2>10, <2>11
<1> QED BY <1>5, <1>7

\* Names are those of the bankers that are flagged.
LEMMA NamesAreFlags ==
    ASSUME NEW a, NEW passed, NEW f \in Findings(a, passed), f.names # {}
    PROVE  \/ f.kind = "bankers-bad" /\ f.names = BankersFlagged(a, "bad")
           \/ f.kind = "bankers-ok" /\ f.names = BankersFlagged(a, "ok")
<1> DEFINE bad == BankersFlagged(a, "bad")
           ok == BankersFlagged(a, "ok")
           below == FoundIf(bad # {}, Naming(Found("bankers-bad", 0, "high", 5 * Cardinality(bad) * Unit), bad))
           above == FoundIf(ok # {} /\ ~(Cardinality(Rated(a)) = 2 /\ bad # {}),
                            Naming(Found("bankers-ok", 0, "positive", 2 * Cardinality(ok) * Unit), ok))
           apart(spread) == FoundIf(spread >= 10 * WeightSum * Unit,
                                    Found("bankers-spread", 0, "medium", Points(spread) \div 2))
<1>1. f \in BankerFindings(a)
  <2>1. ASSUME NEW S, NamesIn(S, {}) PROVE f \notin S
    BY <2>1 DEF NamesIn
  <2>2. /\ f \notin GateFindings(a) /\ f \notin PointsFindings(a) /\ f \notin DimensionFindings(a)
        /\ f \notin TrendFindings(a) /\ f \notin SegmentFindings(a) /\ f \notin DriverFindings(a)
        /\ f \notin CoverageFindings(a, passed)
    BY <2>1, OtherNames
  <2> QED BY <2>2 DEF Findings
<1>2. BankerFindings(a) = below \cup above
        \cup IF Cardinality(Rated(a)) < SpreadBankers THEN {}
             ELSE UNION {apart(spread) : spread \in {Spread(a)}}
    BY DEF BankerFindings
<1>3. \A spread : f \notin apart(spread)
  <2> TAKE spread
  <2>1. NamesIn(apart(spread), {})
    BY FoundNames, FoundIfNames
  <2> HIDE DEF apart
  <2> QED BY <2>1 DEF NamesIn
<1>4. f \in below => f.kind = "bankers-bad" /\ f.names = bad
    BY DEF FoundIf, Naming, Found
<1>5. f \in above => f.kind = "bankers-ok" /\ f.names = ok
    BY DEF FoundIf, Naming, Found
<1> HIDE DEF below, above, apart
<1> QED BY <1>1, <1>2, <1>3, <1>4, <1>5

LEMMA TheyFit ==
    ASSUME JInv, ReportIs, Executive PROVE FlagsFit
<1>1. result # NoValue /\ Analysis = AnalysisOf /\ report.executive.findings = FindingsOf
  <2>1. result # NoValue /\ report.executive = ExecutiveOf
    BY DEF ReportIs, ReportOf, Executive
  <2> QED BY <2>1 DEF Analysis, ExecutiveOf
<1> SUFFICES ASSUME NEW f \in FindingsOf, NEW b \in f.names
             PROVE  /\ AnalysisOf.bankers[b].n >= MinGroup
                    /\ f.kind = "bankers-ok" => AnalysisOf.bankers[b].mean >= AnalysisOf.median
                    /\ f.kind = "bankers-bad" => AnalysisOf.bankers[b].mean <= AnalysisOf.median
    BY <1>1 DEF FlagsFit
<1>2. \/ f.kind = "bankers-bad" /\ f.names = BankersFlagged(AnalysisOf, "bad")
      \/ f.kind = "bankers-ok" /\ f.names = BankersFlagged(AnalysisOf, "ok")
    BY NamesAreFlags DEF FindingsOf
<1>3. /\ b \in DOMAIN AnalysisOf.bankers
      /\ f.kind = "bankers-bad" => AnalysisOf.bankers[b].flag = "bad"
      /\ f.kind = "bankers-ok" => AnalysisOf.bankers[b].flag = "ok"
    BY <1>2 DEF BankersFlagged
<1> QED BY <1>1, <1>2, <1>3, FlagsAreFair

\* Whatever the batch, a banker whom a finding names has enough calls and is on
\* the side the finding says.  The flag is set against the median of the other
\* bankers and the finding quotes the median of all: who is not below the one is
\* not below the other (analysis.py:508-543, findings.py:448-483).
THEOREM TheFlagsFit == Spec => []FlagsFit
<1>1. JInv /\ ReportIs => FlagsFit
  <2>1. ~Executive => FlagsFit
    BY DEF FlagsFit
  <2> QED BY <2>1, TheyFit
<1> QED BY <1>1, ReportKeeps, PTL
=============================================================================
