----------------------------------- MODULE Sums -----------------------------------
(***************************************************************************)
(* Sums over finite sets (SumFunctionOnSet of module Functions).  The      *)
(* library's induction theorems take a predicate; here induction is over a *)
(* set of sets, of which one is least (WFMin), and so within reach of      *)
(* first-order provers.                                                    *)
(***************************************************************************)
EXTENDS Integers, FiniteSets, Functions, FiniteSetTheorems, WellFoundedInduction, TLAPS

\* Of some subsets of a finite set one contains no other.
LEMMA LeastSubset ==
  ASSUME NEW S, IsFiniteSet(S), NEW P \in SUBSET (SUBSET S), P # {}
  PROVE  \E A \in P : \A B \in P : B \subseteq A => B = A
<1>1. IsWellFoundedOn(StrictSubsetOrdering(S), FiniteSubsetsOf(S))
  BY FS_StrictSubsetOrderingWellFounded
<1>2. P \subseteq FiniteSubsetsOf(S)
  BY FS_FiniteSubsetsOfFinite
<1>3. PICK A \in P : \A B \in P : ~(<<B, A>> \in StrictSubsetOrdering(S))
  BY <1>1, <1>2, WFMin
<1>. QED  BY <1>3 DEF StrictSubsetOrdering

\* Induction over the subsets of a finite set.
LEMMA FiniteInduction ==
  ASSUME NEW S, IsFiniteSet(S), NEW P,
         \A A \in SUBSET S : (\A B \in SUBSET A : B # A => B \in P) => A \in P
  PROVE  S \in P
<1>. DEFINE Missing == (SUBSET S) \ P
<1>. SUFFICES ASSUME Missing # {} PROVE FALSE
  OBVIOUS
<1>1. PICK A \in Missing : \A B \in Missing : B \subseteq A => B = A
  <2>1. Missing \in SUBSET (SUBSET S)
    OBVIOUS
  <2>. HIDE DEF Missing
  <2>. QED  BY <2>1, LeastSubset
<1>. QED  BY <1>1

\* The same, one element at a time.
LEMMA ElementInduction ==
  ASSUME NEW S, IsFiniteSet(S), NEW P, {} \in P,
         \A A \in SUBSET S : \A x \in S \ A : A \in P => A \cup {x} \in P
  PROVE  S \in P
<1>1. ASSUME NEW A \in SUBSET S, \A B \in SUBSET A : B # A => B \in P
      PROVE  A \in P
  <2>1. CASE A = {}
    BY <2>1
  <2>2. CASE A # {}
    <3>1. PICK x \in A : TRUE
      BY <2>2
    <3>2. A \ {x} \in P /\ A = (A \ {x}) \cup {x} /\ x \in S \ (A \ {x}) /\ A \ {x} \in SUBSET S
      BY <1>1
    <3>. QED  BY <3>2
  <2>. QED  BY <2>1, <2>2
<1>. QED  BY <1>1, FiniteInduction

---------------------------------------------------------------------------------
(* The recursion of a sum.                                                   *)

Pick(s) == CHOOSE x \in s : TRUE

\* g gives the sum of f over each subset of S.
SumsUp(f, S, g) ==
    g = [s \in SUBSET S |-> IF s = {} THEN 0 ELSE f[Pick(s)] + g[s \ {Pick(s)}]]

LEMMA SumUnfolded ==
  ASSUME NEW f, NEW S
  PROVE  SumFunctionOnSet(f, S) = (CHOOSE g : SumsUp(f, S, g))[S]
BY DEF SumFunctionOnSet, FoldFunctionOnSet, MapThenFoldSet, SumsUp, Pick

\* The equation has one solution,
LEMMA SumsUpOnce ==
  ASSUME NEW f, NEW S, IsFiniteSet(S), NEW g, NEW h, SumsUp(f, S, g), SumsUp(f, S, h)
  PROVE  g = h
<1>. DEFINE P == {A \in SUBSET S : g[A] = h[A]}
<1>1. ASSUME NEW T \in SUBSET S PROVE T \in P
  <2>1. ASSUME NEW A \in SUBSET T, \A B \in SUBSET A : B # A => B \in P
        PROVE  A \in P
    <3>1. CASE A = {}
      BY <3>1 DEF SumsUp
    <3>2. CASE A # {}
      <4>1. Pick(A) \in A
        BY <3>2 DEF Pick
      <4>2. A \ {Pick(A)} \in P
        BY <2>1, <4>1
      <4>3. /\ g[A] = f[Pick(A)] + g[A \ {Pick(A)}]
            /\ h[A] = f[Pick(A)] + h[A \ {Pick(A)}]
        BY <3>2 DEF SumsUp
      <4>. QED  BY <4>2, <4>3
    <3>. QED  BY <3>1, <3>2
  <2>2. IsFiniteSet(T)
    BY FS_Subset
  <2>. HIDE DEF P
  <2>. QED  BY <2>1, <2>2, FiniteInduction
<1>2. \A T \in SUBSET S : g[T] = h[T]
  BY <1>1
<1>. QED  BY <1>2, Zenon DEF SumsUp

\* and it has one at all.
LEMMA SumStep ==
  ASSUME NEW f, NEW S, IsFiniteSet(S)
  PROVE  SumFunctionOnSet(f, S) =
           IF S = {} THEN 0 ELSE f[Pick(S)] + SumFunctionOnSet(f, S \ {Pick(S)})
<1>. DEFINE V(s) == SumFunctionOnSet(f, s)
            P == {A \in SUBSET S :
                    V(A) = IF A = {} THEN 0 ELSE f[Pick(A)] + V(A \ {Pick(A)})}
<1>1. ASSUME NEW A \in SUBSET S, \A B \in SUBSET A : B # A => B \in P
      PROVE  A \in P
  <2>. DEFINE g == [s \in SUBSET A |-> IF s = {} THEN 0 ELSE f[Pick(s)] + V(s \ {Pick(s)})]
  <2>1. \A B \in SUBSET A : B # A => g[B] = V(B)
    BY <1>1
  <2>2. \A s \in SUBSET A : s # {} => Pick(s) \in s
    BY DEF Pick
  <2>3. \A s \in SUBSET A : s # {} => g[s \ {Pick(s)}] = V(s \ {Pick(s)})
    BY <2>1, <2>2
  <2>4. SumsUp(f, A, g)
    BY <2>3, Zenon DEF SumsUp
  <2>5. g[A] = IF A = {} THEN 0 ELSE f[Pick(A)] + V(A \ {Pick(A)})
    OBVIOUS
  <2>6. V(A) = g[A]
    <3>. HIDE DEF g
    <3>1. IsFiniteSet(A)
      BY FS_Subset
    <3>2. SumsUp(f, A, CHOOSE h : SumsUp(f, A, h))
      BY <2>4, Zenon
    <3>3. (CHOOSE h : SumsUp(f, A, h)) = g
      BY <2>4, <3>1, <3>2, SumsUpOnce
    <3>. QED  BY <3>3, SumUnfolded
  <2>. QED  BY <2>5, <2>6
<1>2. S \in P
  <2>. HIDE DEF P
  <2>. QED  BY <1>1, FiniteInduction
<1>. QED  BY <1>2

---------------------------------------------------------------------------------
(* What sums do.                                                             *)

LEMMA SumEmpty == \A f : SumFunctionOnSet(f, {}) = 0
BY SumStep, FS_EmptySet

LEMMA SumType ==
  ASSUME NEW f, NEW S, IsFiniteSet(S), \A x \in S : f[x] \in Int
  PROVE  SumFunctionOnSet(f, S) \in Int
<1>. DEFINE P == {A \in SUBSET S : SumFunctionOnSet(f, A) \in Int}
<1>1. ASSUME NEW A \in SUBSET S, \A B \in SUBSET A : B # A => B \in P
      PROVE  A \in P
  <2>1. IsFiniteSet(A)
    BY FS_Subset
  <2>2. CASE A = {}
    BY <2>2, SumEmpty
  <2>3. CASE A # {}
    <3>1. Pick(A) \in A
      BY <2>3 DEF Pick
    <3>2. A \ {Pick(A)} \in P
      BY <1>1, <3>1
    <3>3. SumFunctionOnSet(f, A) = f[Pick(A)] + SumFunctionOnSet(f, A \ {Pick(A)})
      BY <2>1, <2>3, SumStep
    <3>. QED  BY <3>1, <3>2, <3>3
  <2>. QED  BY <2>2, <2>3
<1>2. S \in P
  <2>. HIDE DEF P
  <2>. QED  BY <1>1, FiniteInduction
<1>. QED  BY <1>2

\* Any element may come first.
LEMMA SumRemove ==
  ASSUME NEW f, NEW S, IsFiniteSet(S), \A x \in S : f[x] \in Int, NEW x \in S
  PROVE  SumFunctionOnSet(f, S) = f[x] + SumFunctionOnSet(f, S \ {x})
<1>. DEFINE V(s) == SumFunctionOnSet(f, s)
            P == {A \in SUBSET S : \A y \in A : V(A) = f[y] + V(A \ {y})}
<1>1. ASSUME NEW A \in SUBSET S, \A B \in SUBSET A : B # A => B \in P,
             NEW y \in A, NEW c, c = Pick(A)
      PROVE  V(A) = f[y] + V(A \ {y})
  <2>1. \A B \in SUBSET A : IsFiniteSet(B) /\ V(B) \in Int
    BY FS_Subset, SumType
  <2>2. c \in A
    BY <1>1 DEF Pick
  <2>3. V(A) = f[c] + V(A \ {c})
    BY <1>1, <2>1, SumStep
  <2>4. CASE y = c
    BY <2>3, <2>4
  <2>5. CASE y # c
    <3>1. V(A \ {c}) = f[y] + V((A \ {c}) \ {y})
      BY <1>1, <2>2, <2>5
    <3>2. V(A \ {y}) = f[c] + V((A \ {y}) \ {c})
      BY <1>1, <2>2, <2>5
    <3>3. V((A \ {c}) \ {y}) = V((A \ {y}) \ {c})
      <4>1. (A \ {c}) \ {y} = (A \ {y}) \ {c}
        OBVIOUS
      <4>. QED  BY <4>1, Zenon
    <3>4. V((A \ {y}) \ {c}) \in Int /\ f[c] \in Int /\ f[y] \in Int
      BY <2>1, <2>2
    <3>. QED  BY <2>3, <3>1, <3>2, <3>3, <3>4
  <2>. QED  BY <2>4, <2>5
<1>2. \A A \in SUBSET S : (\A B \in SUBSET A : B # A => B \in P) => A \in P
  BY <1>1
<1>3. S \in P
  <2>. HIDE DEF P
  <2>. QED  BY <1>2, FiniteInduction
<1>. QED  BY <1>3

LEMMA SumAdd ==
  ASSUME NEW f, NEW S, IsFiniteSet(S), NEW x, x \notin S, \A y \in S \cup {x} : f[y] \in Int
  PROVE  SumFunctionOnSet(f, S \cup {x}) = f[x] + SumFunctionOnSet(f, S)
<1>1. IsFiniteSet(S \cup {x})
  BY FS_AddElement
<1>2. (S \cup {x}) \ {x} = S
  OBVIOUS
<1>. QED  BY <1>1, <1>2, SumRemove

\* A sum depends on the summands alone.
LEMMA SumEqual ==
  ASSUME NEW f, NEW g, NEW S, IsFiniteSet(S), \A x \in S : f[x] = g[x]
  PROVE  SumFunctionOnSet(f, S) = SumFunctionOnSet(g, S)
<1>. DEFINE P == {A \in SUBSET S : SumFunctionOnSet(f, A) = SumFunctionOnSet(g, A)}
<1>1. ASSUME NEW A \in SUBSET S, \A B \in SUBSET A : B # A => B \in P
      PROVE  A \in P
  <2>1. IsFiniteSet(A)
    BY FS_Subset
  <2>2. CASE A = {}
    BY <2>2, SumEmpty
  <2>3. CASE A # {}
    <3>1. Pick(A) \in A
      BY <2>3 DEF Pick
    <3>2. A \ {Pick(A)} \in P
      BY <1>1, <3>1
    <3>3. /\ SumFunctionOnSet(f, A) = f[Pick(A)] + SumFunctionOnSet(f, A \ {Pick(A)})
          /\ SumFunctionOnSet(g, A) = g[Pick(A)] + SumFunctionOnSet(g, A \ {Pick(A)})
      BY <2>1, <2>3, SumStep
    <3>. QED  BY <3>1, <3>2, <3>3
  <2>. QED  BY <2>2, <2>3
<1>2. S \in P
  <2>. HIDE DEF P
  <2>. QED  BY <1>1, FiniteInduction
<1>. QED  BY <1>2

\* Disjoint parts sum up apart.
LEMMA SumUnion ==
  ASSUME NEW f, NEW S, NEW T, IsFiniteSet(S), IsFiniteSet(T), S \cap T = {},
         \A x \in S \cup T : f[x] \in Int
  PROVE  SumFunctionOnSet(f, S \cup T) = SumFunctionOnSet(f, S) + SumFunctionOnSet(f, T)
<1>. DEFINE V(s) == SumFunctionOnSet(f, s)
            P == {A \in SUBSET T : V(S \cup A) = V(S) + V(A)}
<1>0. V(S) \in Int
  BY SumType
<1>1. {} \in P
  <2>1. S \cup {} = S
    OBVIOUS
  <2>2. V(S \cup {}) = V(S) + V({})
    BY <1>0, <2>1, SumEmpty
  <2>. QED  BY <2>2
<1>2. ASSUME NEW A \in SUBSET T, NEW x \in T \ A, A \in P PROVE A \cup {x} \in P
  <2>1. IsFiniteSet(A) /\ IsFiniteSet(S \cup A)
    BY FS_Subset, FS_Union
  <2>2. V(A \cup {x}) = f[x] + V(A)
    BY <2>1, SumAdd
  <2>3. V((S \cup A) \cup {x}) = f[x] + V(S \cup A)
    <3>1. x \notin S \cup A /\ \A y \in (S \cup A) \cup {x} : f[y] \in Int
      OBVIOUS
    <3>. QED  BY <2>1, <3>1, SumAdd
  <2>4. V(S \cup (A \cup {x})) = V((S \cup A) \cup {x})
    <3>1. S \cup (A \cup {x}) = (S \cup A) \cup {x}
      OBVIOUS
    <3>. QED  BY <3>1, Zenon
  <2>5. V(A) \in Int /\ f[x] \in Int
    BY <2>1, SumType
  <2>6. V(S \cup A) = V(S) + V(A)
    BY <1>2
  <2>7. V(S \cup (A \cup {x})) = V(S) + V(A \cup {x})
    <3>. QED  BY <1>0, <2>2, <2>3, <2>4, <2>5, <2>6
  <2>. QED  BY <2>7
<1>3. T \in P
  <2>. HIDE DEF P
  <2>. QED  BY <1>1, <1>2, ElementInduction
<1>. QED  BY <1>3

\* Sums of naturals: natural, and no summand is above them; a sum that is zero has none but zeros.
LEMMA SumNat ==
  ASSUME NEW f, NEW S, IsFiniteSet(S), \A x \in S : f[x] \in Nat
  PROVE  /\ SumFunctionOnSet(f, S) \in Nat
         /\ \A x \in S : f[x] <= SumFunctionOnSet(f, S)
<1>. DEFINE P == {A \in SUBSET S : SumFunctionOnSet(f, A) \in Nat}
<1>1. {} \in P
  BY SumEmpty
<1>2. ASSUME NEW A \in SUBSET S, NEW x \in S \ A, A \in P PROVE A \cup {x} \in P
  <2>1. IsFiniteSet(A)
    BY FS_Subset
  <2>2. SumFunctionOnSet(f, A \cup {x}) = f[x] + SumFunctionOnSet(f, A)
    BY <2>1, SumAdd
  <2>. QED  BY <1>2, <2>2
<1>3. ASSUME NEW T \in SUBSET S PROVE SumFunctionOnSet(f, T) \in Nat
  <2>1. IsFiniteSet(T)
    BY FS_Subset
  <2>2. T \in P
    <3>1. \A A \in SUBSET T : \A x \in T \ A : A \in P => A \cup {x} \in P
      BY <1>2
    <3>. HIDE DEF P
    <3>. QED  BY <1>1, <2>1, <3>1, ElementInduction
  <2>. QED  BY <2>2
<1>4. ASSUME NEW x \in S PROVE f[x] <= SumFunctionOnSet(f, S)
  <2>1. SumFunctionOnSet(f, S) = f[x] + SumFunctionOnSet(f, S \ {x})
    BY SumRemove
  <2>2. SumFunctionOnSet(f, S \ {x}) \in Nat
    BY <1>3
  <2>. QED  BY <2>1, <2>2
<1>. QED  BY <1>3, <1>4

\* Where there is a finite choice, one is best.
LEMMA FiniteMax ==
  ASSUME NEW f, NEW S, IsFiniteSet(S), S # {}, \A x \in S : f[x] \in Int
  PROVE  \E x \in S : \A y \in S : f[y] <= f[x]
<1>. DEFINE P == {A \in SUBSET S : A # {} => \E x \in A : \A y \in A : f[y] <= f[x]}
<1>1. {} \in P
  OBVIOUS
<1>2. ASSUME NEW A \in SUBSET S, NEW z \in S \ A, A \in P PROVE A \cup {z} \in P
  <2>1. CASE A = {}
    BY <2>1
  <2>2. CASE A # {}
    <3>1. PICK x \in A : \A y \in A : f[y] <= f[x]
      BY <1>2, <2>2
    <3>2. CASE f[z] <= f[x]
      BY <3>1, <3>2
    <3>3. CASE ~(f[z] <= f[x])
      <4>1. \A y \in A \cup {z} : f[y] <= f[z]
        BY <3>1, <3>3
      <4>. QED  BY <4>1
    <3>. QED  BY <3>2, <3>3
  <2>. QED  BY <2>1, <2>2
<1>3. S \in P
  <2>. HIDE DEF P
  <2>. QED  BY <1>1, <1>2, ElementInduction
<1>. QED  BY <1>3
\* A total order of a finite set has a least element.
LEMMA FiniteLeast ==
  ASSUME NEW S, IsFiniteSet(S), S # {}, NEW R,
         \A x, y \in S : x # y => <<x, y>> \in R \/ <<y, x>> \in R,
         \A x, y, z \in S : <<x, y>> \in R /\ <<y, z>> \in R => <<x, z>> \in R
  PROVE  \E x \in S : \A y \in S \ {x} : <<x, y>> \in R
<1>. DEFINE P == {A \in SUBSET S : A # {} => \E x \in A : \A y \in A \ {x} : <<x, y>> \in R}
<1>1. {} \in P
  OBVIOUS
<1>2. ASSUME NEW A \in SUBSET S, NEW z \in S \ A, A \in P PROVE A \cup {z} \in P
  <2>1. CASE A = {}
    BY <2>1
  <2>2. CASE A # {}
    <3>1. PICK x \in A : \A y \in A \ {x} : <<x, y>> \in R
      BY <1>2, <2>2
    <3>2. CASE <<x, z>> \in R
      BY <3>1, <3>2
    <3>3. CASE <<z, x>> \in R
      <4>1. \A y \in (A \cup {z}) \ {z} : <<z, y>> \in R
        BY <3>1, <3>3
      <4>. QED  BY <4>1
    <3>. QED  BY <3>2, <3>3
  <2>. QED  BY <2>1, <2>2
<1>3. S \in P
  <2>. HIDE DEF P
  <2>. QED  BY <1>1, <1>2, ElementInduction
<1>. QED  BY <1>3

\* What a part of the summands is raised by, the sum is.
LEMMA SumRaised ==
  ASSUME NEW f, NEW g, NEW h, NEW S, IsFiniteSet(S), NEW A \in SUBSET S,
         \A x \in S : f[x] \in Int /\ g[x] \in Int,
         \A x \in S : h[x] = IF x \in A THEN f[x] + g[x] ELSE f[x]
  PROVE  SumFunctionOnSet(h, S) = SumFunctionOnSet(f, S) + SumFunctionOnSet(g, A)
<1>. DEFINE V(e, s) == SumFunctionOnSet(e, s)
            P == {T \in SUBSET S : V(h, T) = V(f, T) + V(g, A \cap T)}
<1>0. \A x \in S : h[x] \in Int
  OBVIOUS
<1>1. {} \in P
  <2>1. A \cap {} = {}
    OBVIOUS
  <2>2. V(g, A \cap {}) = 0
    BY <2>1, SumEmpty, Zenon
  <2>. QED  BY <2>2, SumEmpty
<1>2. ASSUME NEW T \in SUBSET S, NEW x \in S \ T, T \in P PROVE T \cup {x} \in P
  <2>1. IsFiniteSet(T) /\ IsFiniteSet(A \cap T)
    BY FS_Subset
  <2>2. V(h, T \cup {x}) = h[x] + V(h, T) /\ V(f, T \cup {x}) = f[x] + V(f, T)
    BY <1>0, <2>1, SumAdd
  <2>3. V(h, T) \in Int /\ V(f, T) \in Int /\ V(g, A \cap T) \in Int
    BY <1>0, <2>1, SumType
  <2>4. V(g, A \cap (T \cup {x})) = IF x \in A THEN g[x] + V(g, A \cap T) ELSE V(g, A \cap T)
    <3>1. CASE x \in A
      <4>1. A \cap (T \cup {x}) = (A \cap T) \cup {x}
        BY <3>1
      <4>2. V(g, (A \cap T) \cup {x}) = g[x] + V(g, A \cap T)
        BY <2>1, SumAdd
      <4>3. V(g, A \cap (T \cup {x})) = V(g, (A \cap T) \cup {x})
        BY <4>1, Zenon
      <4>. QED  BY <3>1, <4>2, <4>3
    <3>2. CASE x \notin A
      <4>1. A \cap (T \cup {x}) = A \cap T
        BY <3>2
      <4>2. V(g, A \cap (T \cup {x})) = V(g, A \cap T)
        BY <4>1, Zenon
      <4>. QED  BY <3>2, <4>2
    <3>. QED  BY <3>1, <3>2
  <2>5. V(h, T) = V(f, T) + V(g, A \cap T)
    BY <1>2
  <2>6. V(h, T \cup {x}) = V(f, T \cup {x}) + V(g, A \cap (T \cup {x}))
    <3>. HIDE DEF V
    <3>. QED  BY <2>2, <2>3, <2>4, <2>5
  <2>. QED  BY <2>6
<1>3. S \in P
  <2>. HIDE DEF P
  <2>. QED  BY <1>1, <1>2, ElementInduction
<1>4. A \cap S = A
  OBVIOUS
<1>5. V(g, A \cap S) = V(g, A)
  BY <1>4, Zenon
<1>. QED  BY <1>3, <1>5

\* Where no summand counts, nothing does.
LEMMA SumZero ==
  ASSUME NEW f, NEW S, IsFiniteSet(S), \A x \in S : f[x] = 0
  PROVE  SumFunctionOnSet(f, S) = 0
<1>. DEFINE P == {A \in SUBSET S : SumFunctionOnSet(f, A) = 0}
<1>1. {} \in P
  BY SumEmpty
<1>2. ASSUME NEW A \in SUBSET S, NEW x \in S \ A, A \in P PROVE A \cup {x} \in P
  <2>1. IsFiniteSet(A)
    BY FS_Subset
  <2>2. SumFunctionOnSet(f, A \cup {x}) = f[x] + SumFunctionOnSet(f, A)
    BY <2>1, SumAdd
  <2>. QED  BY <1>2, <2>2
<1>3. S \in P
  <2>. HIDE DEF P
  <2>. QED  BY <1>1, <1>2, ElementInduction
<1>. QED  BY <1>3

\* Summands that do not count may be left out.
LEMMA SumWithin ==
  ASSUME NEW f, NEW S, IsFiniteSet(S), NEW T \in SUBSET S,
         \A x \in S : f[x] \in Int, \A x \in S \ T : f[x] = 0
  PROVE  SumFunctionOnSet(f, S) = SumFunctionOnSet(f, T)
<1>1. IsFiniteSet(T) /\ IsFiniteSet(S \ T)
  BY FS_Subset
<1>2. SumFunctionOnSet(f, S \ T) = 0
  BY <1>1, SumZero
<1>3. SumFunctionOnSet(f, T) \in Int
  BY <1>1, SumType
<1>4. SumFunctionOnSet(f, T \cup (S \ T)) = SumFunctionOnSet(f, T) + SumFunctionOnSet(f, S \ T)
  BY <1>1, SumUnion
<1>5. T \cup (S \ T) = S
  OBVIOUS
<1>6. SumFunctionOnSet(f, T \cup (S \ T)) = SumFunctionOnSet(f, S)
  BY <1>5, Zenon
<1>. QED  BY <1>2, <1>3, <1>4, <1>6

\* One summand may be all there is.
LEMMA SumOnly ==
  ASSUME NEW f, NEW S, IsFiniteSet(S), NEW t \in S, NEW a \in Int,
         \A x \in S : f[x] = IF x = t THEN a ELSE 0
  PROVE  SumFunctionOnSet(f, S) = a
<1>1. SumFunctionOnSet(f, S) = f[t] + SumFunctionOnSet(f, S \ {t})
  BY SumRemove
<1>2. SumFunctionOnSet(f, S \ {t}) = 0
  <2>1. IsFiniteSet(S \ {t})
    BY FS_Subset
  <2>. QED  BY <2>1, SumZero
<1>. QED  BY <1>1, <1>2

\* h tells the part in L that an element of S is in, g what the part sums to.
Parts(f, S, g, L, h) ==
    /\ IsFiniteSet(S) /\ IsFiniteSet(L)
    /\ \A x \in S : f[x] \in Int /\ h[x] \in L
    /\ \A l \in L : g[l] = SumFunctionOnSet(f, {x \in S : h[x] = l})

\* A sum by parts.
LEMMA SumByParts ==
  ASSUME NEW f, NEW S, NEW L, NEW g, NEW h, Parts(f, S, g, L, h)
  PROVE  SumFunctionOnSet(g, L) = SumFunctionOnSet(f, S)
<1>9. /\ IsFiniteSet(S) /\ IsFiniteSet(L)
      /\ \A x \in S : f[x] \in Int /\ h[x] \in L
      /\ \A l \in L : g[l] = SumFunctionOnSet(f, {x \in S : h[x] = l})
  BY Zenon DEF Parts
<1>. DEFINE Of(A) == {x \in S : h[x] \in A}
            P == {A \in SUBSET L : SumFunctionOnSet(g, A) = SumFunctionOnSet(f, Of(A))}
<1>0. \A A \in SUBSET S : IsFiniteSet(A) /\ SumFunctionOnSet(f, A) \in Int
  BY <1>9, FS_Subset, SumType
<1>1. {} \in P
  <2>1. Of({}) = {}
    OBVIOUS
  <2>2. SumFunctionOnSet(f, Of({})) = SumFunctionOnSet(f, {})
    BY <2>1, Zenon
  <2>. QED  BY <2>2, SumEmpty
<1>2. ASSUME NEW A \in SUBSET L, NEW l \in L \ A, A \in P PROVE A \cup {l} \in P
  <2>. DEFINE Part == {x \in S : h[x] = l}
  <2>1. IsFiniteSet(A)
    BY <1>9, FS_Subset
  <2>2. \A m \in A \cup {l} : g[m] \in Int
    <3>. SUFFICES ASSUME NEW m \in A \cup {l} PROVE g[m] \in Int
      OBVIOUS
    <3>1. {x \in S : h[x] = m} \in SUBSET S /\ m \in L
      OBVIOUS
    <3>. QED  BY <1>0, <1>9, <3>1
  <2>3. SumFunctionOnSet(g, A \cup {l}) = g[l] + SumFunctionOnSet(g, A)
    BY <2>1, <2>2, SumAdd
  <2>4. /\ Of(A) \in SUBSET S /\ Part \in SUBSET S /\ Of(A) \cap Part = {}
        /\ Of(A) \cup Part \in SUBSET S
    OBVIOUS
  <2>5. SumFunctionOnSet(f, Of(A) \cup Part)
          = SumFunctionOnSet(f, Of(A)) + SumFunctionOnSet(f, Part)
    <3>1. \A x \in Of(A) \cup Part : f[x] \in Int
      BY <1>9
    <3>. HIDE DEF Of, Part
    <3>2. IsFiniteSet(Of(A)) /\ IsFiniteSet(Part)
      BY <1>0, <2>4
    <3>. QED  BY <2>4, <3>1, <3>2, SumUnion
  <2>6. SumFunctionOnSet(f, Of(A \cup {l})) = SumFunctionOnSet(f, Of(A) \cup Part)
    <3>1. Of(A \cup {l}) = Of(A) \cup Part
      OBVIOUS
    <3>. QED  BY <3>1, Zenon
  <2>7. SumFunctionOnSet(g, A) = SumFunctionOnSet(f, Of(A)) /\ g[l] = SumFunctionOnSet(f, Part)
    BY <1>9, <1>2
  <2>8. SumFunctionOnSet(f, Of(A)) \in Int /\ SumFunctionOnSet(f, Part) \in Int
    BY <1>0, <2>4
  <2>9. SumFunctionOnSet(g, A \cup {l}) = SumFunctionOnSet(f, Of(A \cup {l}))
    <3>. HIDE DEF Of, Part
    <3>. QED  BY <2>3, <2>5, <2>6, <2>7, <2>8
  <2>. QED  BY <2>9
<1>3. L \in P
  <2>. HIDE DEF P
  <2>. QED  BY <1>9, <1>1, <1>2, ElementInduction
<1>4. SumFunctionOnSet(g, L) = SumFunctionOnSet(f, Of(L))
  BY <1>3
<1>5. Of(L) = S
  BY <1>9
<1>6. SumFunctionOnSet(f, Of(L)) = SumFunctionOnSet(f, S)
  BY <1>5, Zenon
<1>. QED  BY <1>4, <1>6

\* What is handed out in order, to each x as much as it asks for while the amount
\* a lasts.
LEMMA SumHandedOut ==
  ASSUME NEW S, IsFiniteSet(S), S \subseteq Int, NEW a \in Nat, NEW f, NEW g,
         \A x \in S : f[x] \in Nat,
         \A x \in S : LET left == a - SumFunctionOnSet(f, {y \in S : y < x})
                      IN  g[x] = IF left <= 0 THEN 0 ELSE IF left < f[x] THEN left ELSE f[x]
  PROVE  /\ \A x \in S : g[x] \in Nat /\ g[x] <= f[x]
         /\ SumFunctionOnSet(g, S) =
              IF a <= SumFunctionOnSet(f, S) THEN a ELSE SumFunctionOnSet(f, S)
<1>. DEFINE F(A) == SumFunctionOnSet(f, A)
            G(A) == SumFunctionOnSet(g, A)
            Before(x) == {y \in S : y < x}
            Lower(A) == \A x \in A : \A y \in S : y < x => y \in A
            P == {A \in SUBSET S : Lower(A) => G(A) = IF a <= F(A) THEN a ELSE F(A)}
<1>0. \A A \in SUBSET S : IsFiniteSet(A) /\ F(A) \in Nat
  BY FS_Subset, SumNat
<1>1. ASSUME NEW x \in S
      PROVE  /\ g[x] = IF a - F(Before(x)) <= 0 THEN 0
                       ELSE IF a - F(Before(x)) < f[x] THEN a - F(Before(x)) ELSE f[x]
             /\ g[x] \in Nat /\ g[x] <= f[x]
  <2>1. F(Before(x)) \in Nat
    <3>1. Before(x) \in SUBSET S
      OBVIOUS
    <3>. QED  BY <1>0, <3>1
  <2>2. g[x] = IF a - F(Before(x)) <= 0 THEN 0
               ELSE IF a - F(Before(x)) < f[x] THEN a - F(Before(x)) ELSE f[x]
    OBVIOUS
  <2>3. f[x] \in Nat
    OBVIOUS
  <2>. HIDE DEF F, Before
  <2>. QED  BY <2>1, <2>2, <2>3
<1>2. ASSUME NEW A \in SUBSET S, \A B \in SUBSET A : B # A => B \in P
      PROVE  A \in P
  <2>. SUFFICES ASSUME Lower(A) PROVE G(A) = IF a <= F(A) THEN a ELSE F(A)
    OBVIOUS
  <2>1. CASE A = {}
    <3>1. G(A) = 0 /\ F(A) = 0
      BY <2>1, SumEmpty, Zenon
    <3>. QED  BY <3>1
  <2>2. CASE A # {}
    <3>1. PICK m \in A : \A y \in A : y <= m
      <4>. DEFINE id == [x \in S |-> x]
      <4>1. IsFiniteSet(A) /\ \A x \in A : id[x] \in Int
        BY <1>0
      <4>2. \E x \in A : \A y \in A : id[y] <= id[x]
        <5>. HIDE DEF id
        <5>. QED  BY <2>2, <4>1, FiniteMax
      <4>. QED  BY <4>2
    <3>2. A \ {m} = Before(m)
      <4>1. \A y \in S : y \in Int
        OBVIOUS
      <4>2. ASSUME NEW y \in A \ {m} PROVE y \in S /\ y < m
        BY <3>1, <4>1
      <4>3. ASSUME NEW y \in S, y < m PROVE y \in A /\ y # m
        BY <4>1, <4>3
      <4>. QED  BY <4>2, <4>3
    <3>3. Lower(A \ {m}) /\ A \ {m} \in SUBSET A /\ A \ {m} # A
      BY <3>2
    <3>4. G(A \ {m}) = IF a <= F(A \ {m}) THEN a ELSE F(A \ {m})
      BY <1>2, <3>3
    <3>5. F(Before(m)) = F(A \ {m})
      BY <3>2, Zenon
    <3>6. g[m] = IF a - F(A \ {m}) <= 0 THEN 0
                 ELSE IF a - F(A \ {m}) < f[m] THEN a - F(A \ {m}) ELSE f[m]
      <4>. HIDE DEF F, Before
      <4>. QED  BY <1>1, <3>5
    <3>7. \A x \in A : f[x] \in Nat /\ g[x] \in Nat
      <4>. HIDE DEF F, Before
      <4>. QED  BY <1>1
    <3>8. IsFiniteSet(A)
      BY <1>0
    <3>9. F(A) = f[m] + F(A \ {m})
      <4>1. \A x \in A : f[x] \in Int
        BY <3>7
      <4>. QED  BY <3>8, <4>1, SumRemove, ZenonT(60)
    <3>10. G(A) = g[m] + G(A \ {m})
      <4>1. \A x \in A : g[x] \in Int
        BY <3>7
      <4>. QED  BY <3>8, <4>1, SumRemove, ZenonT(60)
    <3>11. F(A \ {m}) \in Nat /\ f[m] \in Nat
      BY <1>0
    <3>. HIDE DEF F, G, P, Lower, Before
    <3>. QED  BY <3>4, <3>6, <3>9, <3>10, <3>11
  <2>. QED  BY <2>1, <2>2
<1>3. S \in P
  <2>. HIDE DEF P
  <2>. QED  BY <1>2, FiniteInduction
<1>4. Lower(S)
  OBVIOUS
<1>. QED  BY <1>1, <1>3, <1>4

\* A difference summed up.
LEMMA SumLess ==
  ASSUME NEW f, NEW g, NEW h, NEW S, IsFiniteSet(S),
         \A x \in S : f[x] \in Int /\ g[x] \in Int /\ h[x] = f[x] - g[x]
  PROVE  SumFunctionOnSet(h, S) = SumFunctionOnSet(f, S) - SumFunctionOnSet(g, S)
<1>. DEFINE V(e, s) == SumFunctionOnSet(e, s)
            P == {A \in SUBSET S : V(h, A) = V(f, A) - V(g, A)}
<1>0. \A x \in S : f[x] \in Int /\ g[x] \in Int /\ h[x] \in Int
  OBVIOUS
<1>1. {} \in P
  BY SumEmpty
<1>2. ASSUME NEW A \in SUBSET S, NEW x \in S \ A, A \in P PROVE A \cup {x} \in P
  <2>1. IsFiniteSet(A)
    BY FS_Subset
  <2>2. /\ V(h, A \cup {x}) = h[x] + V(h, A) /\ V(f, A \cup {x}) = f[x] + V(f, A)
        /\ V(g, A \cup {x}) = g[x] + V(g, A)
    BY <1>0, <2>1, SumAdd
  <2>3. V(f, A) \in Int /\ V(g, A) \in Int
    BY <1>0, <2>1, SumType
  <2>4. V(h, A) = V(f, A) - V(g, A) /\ h[x] = f[x] - g[x]
    BY <1>2
  <2>5. V(h, A \cup {x}) = V(f, A \cup {x}) - V(g, A \cup {x})
    <3>. HIDE DEF V
    <3>. QED  BY <1>0, <2>2, <2>3, <2>4
  <2>. QED  BY <2>5
<1>3. S \in P
  <2>. HIDE DEF P
  <2>. QED  BY <1>1, <1>2, ElementInduction
<1>. QED  BY <1>3

\* A part of a sum of natural numbers.
LEMMA SumPart ==
  ASSUME NEW f, NEW S, IsFiniteSet(S), NEW T \in SUBSET S, \A x \in S : f[x] \in Nat
  PROVE  SumFunctionOnSet(f, T) <= SumFunctionOnSet(f, S)
<1>1. IsFiniteSet(T) /\ IsFiniteSet(S \ T)
  BY FS_Subset
<1>2. \A x \in T \cup (S \ T) : f[x] \in Int
  OBVIOUS
<1>3. SumFunctionOnSet(f, T \cup (S \ T)) = SumFunctionOnSet(f, T) + SumFunctionOnSet(f, S \ T)
  BY <1>1, <1>2, SumUnion
<1>4. T \cup (S \ T) = S
  OBVIOUS
<1>5. SumFunctionOnSet(f, T \cup (S \ T)) = SumFunctionOnSet(f, S)
  BY <1>4, Zenon
<1>6. SumFunctionOnSet(f, S \ T) \in Nat /\ SumFunctionOnSet(f, T) \in Nat
  BY <1>1, SumNat
<1>. QED  BY <1>3, <1>5, <1>6

\* Induction up to a number.
LEMMA UpTo ==
  ASSUME NEW N \in Nat, NEW P, 0 \in P,
         \A n \in 0..N : n # N /\ n \in P => n + 1 \in P
  PROVE  \A n \in 0..N : n \in P
<1>. DEFINE Missing == {n \in 0..N : n \notin P}
            down == [n \in Missing |-> -n]
<1>. SUFFICES ASSUME Missing # {} PROVE FALSE
  OBVIOUS
<1>1. IsFiniteSet(Missing)
  <2>1. IsFiniteSet(0..N)
    BY FS_Interval
  <2>. QED  BY <2>1, FS_Subset
<1>2. \E n \in Missing : \A k \in Missing : down[k] <= down[n]
  <2>1. \A n \in Missing : down[n] \in Int
    OBVIOUS
  <2>. HIDE DEF down, Missing
  <2>. QED  BY <1>1, <2>1, FiniteMax
<1>3. PICK n \in Missing : \A k \in Missing : n <= k
  BY <1>2
<1>4. n # 0 /\ n - 1 \in 0..N /\ n - 1 # N /\ (n - 1) + 1 = n
  OBVIOUS
<1>5. n - 1 \in P
  BY <1>3, <1>4
<1>. QED  BY <1>4, <1>5
=================================================================================
