----------------------------- MODULE FiniteSums -----------------------------
(***************************************************************************)
(* Sums over finite sets.  SumFunctionOnSet folds a function over a set in *)
(* an order CHOOSE picks; the sum does not depend on it.  Every proof by   *)
(* induction takes the smallest subset that refutes the claim: there is    *)
(* one because the subsets of a finite set are well founded.               *)
(***************************************************************************)
EXTENDS Functions, FiniteSetTheorems, WellFoundedInduction, TLAPS

\* g computes the sum of f over every subset of S by its defining equation.
SumsUp(g, f, S) ==
    g = [s \in SUBSET S |->
            IF s = {} THEN 0
            ELSE f[CHOOSE x \in s : TRUE] + g[s \ {CHOOSE x \in s : TRUE}]]

\* SumFunctionOnSet is the value of that function at S.
LEMMA SumUnfolded ==
    ASSUME NEW f, NEW S
    PROVE  SumFunctionOnSet(f, S) = (CHOOSE g : SumsUp(g, f, S))[S]
  BY DEF SumFunctionOnSet, FoldFunctionOnSet, MapThenFoldSet, SumsUp

\* A set of natural numbers has a least element.
LEMMA LeastNumber ==
    ASSUME NEW S \in SUBSET Nat, S # {}
    PROVE  \E m \in S : \A n \in S : m <= n
<1> DEFINE Less == {p \in Nat \X Nat : p[1] < p[2]}
<1>1. IsWellFoundedOn(Less, Nat)
  BY NatLessThanWellFounded DEF OpToRel
<1>2. PICK m \in S : \A n \in S : <<n, m>> \notin Less
  BY <1>1, WFMin
<1>3. ASSUME NEW n \in S PROVE m <= n
  <2>1. m \in Nat /\ n \in Nat /\ <<n, m>> \in Nat \X Nat
    OBVIOUS
  <2>2. ~(n < m)
    BY <1>2, <2>1
  <2>3. QED
    BY <2>1, <2>2
<1>4. QED
  BY <1>3

\* A set of subsets of a finite set has a smallest one.
LEMMA SmallestSubset ==
    ASSUME NEW S, IsFiniteSet(S), NEW Bad \in SUBSET (SUBSET S), Bad # {}
    PROVE  \E s \in Bad : \A t \in SUBSET s : t # s => t \notin Bad
<1>1. IsWellFoundedOn(StrictSubsetOrdering(S), SUBSET S)
  BY FS_FiniteSubsetsOfFinite, FS_StrictSubsetOrderingWellFounded
<1>2. PICK s \in Bad : \A t \in Bad : <<t, s>> \notin StrictSubsetOrdering(S)
  BY <1>1, WFMin
<1>3. QED
  BY <1>2 DEF StrictSubsetOrdering

\* The defining equation has at most one solution, whatever the set it ranges over.
LEMMA SumsUpUnique ==
    ASSUME NEW f, NEW S, NEW T, IsFiniteSet(S), S \subseteq T,
           NEW g, NEW h, SumsUp(g, f, S), SumsUp(h, f, T)
    PROVE  \A s \in SUBSET S : g[s] = h[s]
<1> DEFINE Bad == {s \in SUBSET S : g[s] # h[s]}
<1>1. SUFFICES ASSUME Bad # {} PROVE FALSE
  OBVIOUS
<1>2. PICK s \in Bad : \A t \in SUBSET s : t # s => t \notin Bad
  <2> Bad \in SUBSET (SUBSET S)
    OBVIOUS
  <2> HIDE DEF Bad
  <2> QED BY <1>1, SmallestSubset
<1>3. s \in SUBSET S /\ s \in SUBSET T /\ g[s] # h[s]
  OBVIOUS
<1>4. CASE s = {}
  BY <1>3, <1>4 DEF SumsUp
<1>5. CASE s # {}
  <2> DEFINE x == CHOOSE y \in s : TRUE
  <2>1. x \in s
    BY <1>5
  <2>2. s \ {x} \in SUBSET s /\ s \ {x} # s /\ s \ {x} \in SUBSET S
    BY <2>1, <1>3
  <2>3. g[s \ {x}] = h[s \ {x}]
    BY <2>2, <1>2
  <2>4. g[s] = f[x] + g[s \ {x}]
    BY <1>3, <1>5 DEF SumsUp
  <2>5. h[s] = f[x] + h[s \ {x}]
    BY <1>3, <1>5 DEF SumsUp
  <2>6. QED
    BY <1>3, <2>3, <2>4, <2>5
<1>6. QED
  BY <1>4, <1>5

\* The defining equation has a solution over every finite set.
LEMMA SumsUpExists ==
    ASSUME NEW f, NEW S, IsFiniteSet(S)
    PROVE  \E g : SumsUp(g, f, S)
<1> DEFINE Bad == {s \in SUBSET S : ~ \E g : SumsUp(g, f, s)}
<1>1. SUFFICES ASSUME Bad # {} PROVE FALSE
  OBVIOUS
<1>2. PICK s \in Bad : \A t \in SUBSET s : t # s => t \notin Bad
  <2> Bad \in SUBSET (SUBSET S)
    OBVIOUS
  <2> HIDE DEF Bad
  <2> QED BY <1>1, SmallestSubset
<1>3. s \in SUBSET S /\ ~ \E g : SumsUp(g, f, s)
  OBVIOUS
<1> DEFINE first(t) == CHOOSE x \in t : TRUE
           sol(t) == CHOOSE g : SumsUp(g, f, t)
           G == [t \in SUBSET s |->
                   IF t = {} THEN 0 ELSE f[first(t)] + sol(t \ {first(t)})[t \ {first(t)}]]
<1>4. ASSUME NEW t \in SUBSET s, t # s PROVE SumsUp(sol(t), f, t)
  <2>1. \E g : SumsUp(g, f, t)
    BY <1>2, <1>3, <1>4
  <2>2. QED
    BY <2>1
<1>5. ASSUME NEW t \in SUBSET s, t # s PROVE G[t] = sol(t)[t]
  <2>1. SumsUp(sol(t), f, t)
    BY <1>4, <1>5
  <2> HIDE DEF sol
  <2>2. CASE t = {}
    BY <2>1, <2>2 DEF SumsUp
  <2>3. CASE t # {}
    <3>1. first(t) \in t
      BY <2>3
    <3> DEFINE r == t \ {first(t)}
    <3>2. r \in SUBSET s /\ r # s /\ r \subseteq t /\ IsFiniteSet(r)
      BY <3>1, <1>3, FS_Subset
    <3>3. SumsUp(sol(r), f, r)
      BY <3>2, <1>4
    <3> HIDE DEF r
    <3>4. sol(r)[r] = sol(t)[r]
      BY <3>2, <3>3, <2>1, SumsUpUnique
    <3>5. sol(t)[t] = f[first(t)] + sol(t)[r]
      BY <2>1, <2>3 DEF SumsUp, r
    <3>6. G[t] = f[first(t)] + sol(r)[r]
      BY <2>3 DEF r
    <3>7. QED
      BY <3>4, <3>5, <3>6
  <2>4. QED
    BY <2>2, <2>3
<1>6. SumsUp(G, f, s)
  <2>1. ASSUME NEW t \in SUBSET s, t # {} PROVE G[t] = f[first(t)] + G[t \ {first(t)}]
    <3>1. first(t) \in t
      BY <2>1
    <3>2. t \ {first(t)} \in SUBSET s /\ t \ {first(t)} # s
      BY <3>1
    <3>3. G[t \ {first(t)}] = sol(t \ {first(t)})[t \ {first(t)}]
      BY <3>2, <1>5
    <3>4. QED
      BY <3>3, <2>1
  <2> DEFINE H == [t \in SUBSET s |-> IF t = {} THEN 0 ELSE f[first(t)] + G[t \ {first(t)}]]
  <2>2. ASSUME NEW t \in SUBSET s PROVE G[t] = H[t]
    <3>1. CASE t = {}
      BY <3>1
    <3>2. CASE t # {}
      <4>1. G[t] = f[first(t)] + G[t \ {first(t)}]
        BY <2>1, <3>2
      <4> HIDE DEF G, first
      <4>2. QED
        BY <4>1, <3>2
    <3>3. QED
      BY <3>1, <3>2
  <2>3. G = H
    <3>1. \A t \in SUBSET s : G[t] = H[t]
      BY <2>2
    <3>2. QED
      BY <3>1
  <2>4. QED
    BY <2>3 DEF SumsUp
<1>7. QED
  BY <1>3, <1>6

\* The fold of Functions solves the equation, on every subset of S.
LEMMA SumsUpSum ==
    ASSUME NEW f, NEW S, IsFiniteSet(S)
    PROVE  \E g : SumsUp(g, f, S) /\ \A s \in SUBSET S : SumFunctionOnSet(f, s) = g[s]
<1>1. PICK g : SumsUp(g, f, S)
  BY SumsUpExists
<1>2. ASSUME NEW s \in SUBSET S PROVE SumFunctionOnSet(f, s) = g[s]
  <2>1. IsFiniteSet(s)
    BY FS_Subset
  <2> DEFINE h == CHOOSE h : SumsUp(h, f, s)
  <2>2. SumsUp(h, f, s)
    BY <2>1, SumsUpExists
  <2>3. SumFunctionOnSet(f, s) = h[s]
    BY SumUnfolded
  <2> HIDE DEF h
  <2>4. h[s] = g[s]
    BY <1>1, <2>1, <2>2, SumsUpUnique
  <2>5. QED
    BY <2>3, <2>4
<1>3. QED
  BY <1>1, <1>2

\* The empty sum.
LEMMA SumEmpty ==
    ASSUME NEW f
    PROVE  SumFunctionOnSet(f, {}) = 0
<1>1. PICK g : SumsUp(g, f, {}) /\ \A s \in SUBSET {} : SumFunctionOnSet(f, s) = g[s]
  BY FS_EmptySet, SumsUpSum
<1>2. QED
  BY <1>1 DEF SumsUp

\* The sum takes out some element first.
LEMMA SumStep ==
    ASSUME NEW f, NEW S, IsFiniteSet(S), S # {}
    PROVE  \E x \in S : SumFunctionOnSet(f, S) = f[x] + SumFunctionOnSet(f, S \ {x})
<1>1. PICK g : SumsUp(g, f, S) /\ \A s \in SUBSET S : SumFunctionOnSet(f, s) = g[s]
  BY SumsUpSum
<1> DEFINE x == CHOOSE y \in S : TRUE
<1>2. x \in S
  OBVIOUS
<1>3. g[S] = f[x] + g[S \ {x}]
  BY <1>1 DEF SumsUp
<1> HIDE DEF x
<1>4. QED
  BY <1>1, <1>2, <1>3

\* A sum of integers is one.
LEMMA SumInt ==
    ASSUME NEW f, NEW S, IsFiniteSet(S), \A x \in S : f[x] \in Int
    PROVE  SumFunctionOnSet(f, S) \in Int
<1> DEFINE Bad == {s \in SUBSET S : SumFunctionOnSet(f, s) \notin Int}
<1>1. SUFFICES ASSUME Bad # {} PROVE FALSE
  OBVIOUS
<1>2. PICK s \in Bad : \A t \in SUBSET s : t # s => t \notin Bad
  <2> Bad \in SUBSET (SUBSET S)
    OBVIOUS
  <2> HIDE DEF Bad
  <2> QED BY <1>1, SmallestSubset
<1>3. IsFiniteSet(s) /\ s # {}
  <2>1. SumFunctionOnSet(f, {}) \in Int
    BY SumEmpty
  <2>2. QED
    BY <2>1, FS_Subset
<1>4. PICK x \in s : SumFunctionOnSet(f, s) = f[x] + SumFunctionOnSet(f, s \ {x})
  BY <1>3, SumStep
<1>5. SumFunctionOnSet(f, s \ {x}) \in Int
  BY <1>2
<1>6. QED
  BY <1>4, <1>5

\* A sum of natural numbers is one.
LEMMA SumNat ==
    ASSUME NEW f, NEW S, IsFiniteSet(S), \A x \in S : f[x] \in Nat
    PROVE  SumFunctionOnSet(f, S) \in Nat
<1> DEFINE Bad == {s \in SUBSET S : SumFunctionOnSet(f, s) \notin Nat}
<1>1. SUFFICES ASSUME Bad # {} PROVE FALSE
  OBVIOUS
<1>2. PICK s \in Bad : \A t \in SUBSET s : t # s => t \notin Bad
  <2> Bad \in SUBSET (SUBSET S)
    OBVIOUS
  <2> HIDE DEF Bad
  <2> QED BY <1>1, SmallestSubset
<1>3. IsFiniteSet(s) /\ s # {}
  <2>1. SumFunctionOnSet(f, {}) \in Nat
    BY SumEmpty
  <2>2. QED
    BY <2>1, FS_Subset
<1>4. PICK x \in s : SumFunctionOnSet(f, s) = f[x] + SumFunctionOnSet(f, s \ {x})
  BY <1>3, SumStep
<1>5. SumFunctionOnSet(f, s \ {x}) \in Nat
  BY <1>2
<1>6. QED
  BY <1>4, <1>5

\* Any element may be taken first.
LEMMA SumRemove ==
    ASSUME NEW f, NEW S, IsFiniteSet(S), \A x \in S : f[x] \in Int, NEW x \in S
    PROVE  SumFunctionOnSet(f, S) = f[x] + SumFunctionOnSet(f, S \ {x})
<1> DEFINE Bad == {s \in SUBSET S :
                     \E y \in s : SumFunctionOnSet(f, s) # f[y] + SumFunctionOnSet(f, s \ {y})}
<1>1. SUFFICES ASSUME Bad # {} PROVE FALSE
  OBVIOUS
<1>2. PICK s \in Bad : \A t \in SUBSET s : t # s => t \notin Bad
  <2> Bad \in SUBSET (SUBSET S)
    OBVIOUS
  <2> HIDE DEF Bad
  <2> QED BY <1>1, SmallestSubset
<1>3. PICK y \in s : SumFunctionOnSet(f, s) # f[y] + SumFunctionOnSet(f, s \ {y})
  OBVIOUS
<1>4. IsFiniteSet(s) /\ s # {}
  BY <1>3, FS_Subset
<1>5. PICK z \in s : SumFunctionOnSet(f, s) = f[z] + SumFunctionOnSet(f, s \ {z})
  BY <1>4, SumStep
<1>6. y # z
  BY <1>3, <1>5
<1>7. SumFunctionOnSet(f, s \ {z}) = f[y] + SumFunctionOnSet(f, (s \ {z}) \ {y})
  BY <1>2, <1>6
<1>8. SumFunctionOnSet(f, s \ {y}) = f[z] + SumFunctionOnSet(f, (s \ {y}) \ {z})
  BY <1>2, <1>6
<1>9. (s \ {z}) \ {y} = (s \ {y}) \ {z}
  OBVIOUS
<1>10. SumFunctionOnSet(f, (s \ {y}) \ {z}) \in Int
  <2>1. IsFiniteSet((s \ {y}) \ {z})
    BY <1>4, FS_Subset
  <2>2. QED
    BY <2>1, SumInt
<1>11. f[y] \in Int /\ f[z] \in Int
  OBVIOUS
<1>12. QED
  <2> DEFINE rest == SumFunctionOnSet(f, (s \ {y}) \ {z})
  <2>1. SumFunctionOnSet(f, s) = f[z] + (f[y] + rest)
    BY <1>5, <1>7, <1>9
  <2>2. SumFunctionOnSet(f, s \ {y}) = f[z] + rest
    BY <1>8
  <2>3. rest \in Int
    BY <1>10
  <2> HIDE DEF rest, Bad
  <2>4. f[z] + (f[y] + rest) = f[y] + (f[z] + rest)
    BY <2>3, <1>11
  <2>5. QED
    BY <1>3, <2>1, <2>2, <2>4

\* The sums of two functions that are pointwise ordered.
LEMMA SumMono ==
    ASSUME NEW f, NEW h, NEW S, IsFiniteSet(S),
           \A x \in S : f[x] \in Int /\ h[x] \in Int /\ f[x] <= h[x]
    PROVE  SumFunctionOnSet(f, S) <= SumFunctionOnSet(h, S)
<1> DEFINE Bad == {s \in SUBSET S : ~ (SumFunctionOnSet(f, s) <= SumFunctionOnSet(h, s))}
<1>1. SUFFICES ASSUME Bad # {} PROVE FALSE
  OBVIOUS
<1>2. PICK s \in Bad : \A t \in SUBSET s : t # s => t \notin Bad
  <2> Bad \in SUBSET (SUBSET S)
    OBVIOUS
  <2> HIDE DEF Bad
  <2> QED BY <1>1, SmallestSubset
<1>3. IsFiniteSet(s) /\ s # {}
  <2>1. SumFunctionOnSet(f, {}) <= SumFunctionOnSet(h, {})
    BY SumEmpty
  <2>2. QED
    BY <2>1, FS_Subset
<1>4. PICK x \in s : TRUE
  BY <1>3
<1>5. IsFiniteSet(s \ {x})
  BY <1>3, FS_Subset
<1>6. /\ SumFunctionOnSet(f, s) = f[x] + SumFunctionOnSet(f, s \ {x})
      /\ SumFunctionOnSet(h, s) = h[x] + SumFunctionOnSet(h, s \ {x})
  BY <1>3, SumRemove
<1>7. SumFunctionOnSet(f, s \ {x}) <= SumFunctionOnSet(h, s \ {x})
  BY <1>2
<1>8. SumFunctionOnSet(f, s \ {x}) \in Int /\ SumFunctionOnSet(h, s \ {x}) \in Int
  BY <1>5, SumInt
<1>9. f[x] \in Int /\ h[x] \in Int /\ f[x] <= h[x]
  OBVIOUS
<1>10. QED
  BY <1>6, <1>7, <1>8, <1>9

\* The sum depends only on the values on the set.
LEMMA SumSame ==
    ASSUME NEW f, NEW h, NEW S, IsFiniteSet(S),
           \A x \in S : f[x] \in Int /\ f[x] = h[x]
    PROVE  SumFunctionOnSet(f, S) = SumFunctionOnSet(h, S)
<1>1. SumFunctionOnSet(f, S) \in Int /\ SumFunctionOnSet(h, S) \in Int
  BY SumInt
<1>2. SumFunctionOnSet(f, S) <= SumFunctionOnSet(h, S)
  BY SumMono
<1>3. SumFunctionOnSet(h, S) <= SumFunctionOnSet(f, S)
  BY SumMono
<1>4. QED
  BY <1>1, <1>2, <1>3

\* A sum of zeros.
LEMMA SumZero ==
    ASSUME NEW f, NEW S, IsFiniteSet(S), \A x \in S : f[x] = 0
    PROVE  SumFunctionOnSet(f, S) = 0
<1> DEFINE Bad == {s \in SUBSET S : SumFunctionOnSet(f, s) # 0}
<1>1. SUFFICES ASSUME Bad # {} PROVE FALSE
  OBVIOUS
<1>2. PICK s \in Bad : \A t \in SUBSET s : t # s => t \notin Bad
  <2> Bad \in SUBSET (SUBSET S)
    OBVIOUS
  <2> HIDE DEF Bad
  <2> QED BY <1>1, SmallestSubset
<1>3. IsFiniteSet(s) /\ s # {}
  BY FS_Subset, SumEmpty
<1>4. PICK x \in s : SumFunctionOnSet(f, s) = f[x] + SumFunctionOnSet(f, s \ {x})
  BY <1>3, SumStep
<1>5. SumFunctionOnSet(f, s \ {x}) = 0
  BY <1>2
<1>6. QED
  BY <1>4, <1>5

\* Two functions that differ at one element only.
LEMMA SumChange ==
    ASSUME NEW f, NEW h, NEW S, IsFiniteSet(S), NEW x \in S,
           \A y \in S : f[y] \in Int /\ h[y] \in Int,
           \A y \in S \ {x} : h[y] = f[y]
    PROVE  SumFunctionOnSet(h, S) = SumFunctionOnSet(f, S) + h[x] - f[x]
<1>1. IsFiniteSet(S \ {x})
  BY FS_Subset
<1>2. /\ SumFunctionOnSet(f, S) = f[x] + SumFunctionOnSet(f, S \ {x})
      /\ SumFunctionOnSet(h, S) = h[x] + SumFunctionOnSet(h, S \ {x})
  BY SumRemove
<1>3. SumFunctionOnSet(f, S \ {x}) = SumFunctionOnSet(h, S \ {x})
  BY <1>1, SumSame
<1>4. SumFunctionOnSet(f, S \ {x}) \in Int
  BY <1>1, SumInt
<1>5. QED
  BY <1>2, <1>3, <1>4

\* No element of a sum of naturals exceeds the sum.
LEMMA SumBoundsElement ==
    ASSUME NEW f, NEW S, IsFiniteSet(S), NEW x \in S, \A y \in S : f[y] \in Nat
    PROVE  f[x] <= SumFunctionOnSet(f, S)
<1>1. SumFunctionOnSet(f, S) = f[x] + SumFunctionOnSet(f, S \ {x})
  BY SumRemove
<1>2. SumFunctionOnSet(f, S \ {x}) \in Nat
  <2>1. IsFiniteSet(S \ {x})
    BY FS_Subset
  <2>2. QED
    BY <2>1, SumNat
<1>3. QED
  BY <1>1, <1>2

\* The sum of the pointwise sum of two functions.
LEMMA SumPlus ==
    ASSUME NEW f, NEW h, NEW k, NEW S, IsFiniteSet(S),
           \A x \in S : f[x] \in Int /\ h[x] \in Int /\ k[x] = f[x] + h[x]
    PROVE  SumFunctionOnSet(k, S) = SumFunctionOnSet(f, S) + SumFunctionOnSet(h, S)
<1> DEFINE Bad == {s \in SUBSET S :
                     SumFunctionOnSet(k, s) # SumFunctionOnSet(f, s) + SumFunctionOnSet(h, s)}
<1>1. SUFFICES ASSUME Bad # {} PROVE FALSE
  OBVIOUS
<1>2. PICK s \in Bad : \A t \in SUBSET s : t # s => t \notin Bad
  <2> Bad \in SUBSET (SUBSET S)
    OBVIOUS
  <2> HIDE DEF Bad
  <2> QED BY <1>1, SmallestSubset
<1>3. IsFiniteSet(s) /\ s # {}
  <2>1. SumFunctionOnSet(k, {}) = SumFunctionOnSet(f, {}) + SumFunctionOnSet(h, {})
    BY SumEmpty
  <2>2. QED
    BY <2>1, FS_Subset
<1>4. PICK x \in s : TRUE
  BY <1>3
<1>5. IsFiniteSet(s \ {x})
  BY <1>3, FS_Subset
<1>6. \A y \in s : f[y] \in Int /\ h[y] \in Int /\ k[y] \in Int /\ k[y] = f[y] + h[y]
  OBVIOUS
<1>7. /\ SumFunctionOnSet(f, s) = f[x] + SumFunctionOnSet(f, s \ {x})
      /\ SumFunctionOnSet(h, s) = h[x] + SumFunctionOnSet(h, s \ {x})
      /\ SumFunctionOnSet(k, s) = k[x] + SumFunctionOnSet(k, s \ {x})
  BY <1>3, <1>6, SumRemove
<1>8. SumFunctionOnSet(k, s \ {x}) = SumFunctionOnSet(f, s \ {x}) + SumFunctionOnSet(h, s \ {x})
  BY <1>2
<1>9. SumFunctionOnSet(f, s \ {x}) \in Int /\ SumFunctionOnSet(h, s \ {x}) \in Int
  BY <1>5, <1>6, SumInt
<1>10. SumFunctionOnSet(k, s) # SumFunctionOnSet(f, s) + SumFunctionOnSet(h, s)
  OBVIOUS
<1> HIDE DEF Bad
<1>11. QED
  BY <1>6, <1>7, <1>8, <1>9, <1>10

\* One more element.
LEMMA SumAdd ==
    ASSUME NEW f, NEW S, IsFiniteSet(S), NEW x, x \notin S,
           \A y \in S \cup {x} : f[y] \in Int
    PROVE  SumFunctionOnSet(f, S \cup {x}) = f[x] + SumFunctionOnSet(f, S)
<1>1. IsFiniteSet(S \cup {x})
  BY FS_AddElement
<1>2. SumFunctionOnSet(f, S \cup {x}) = f[x] + SumFunctionOnSet(f, (S \cup {x}) \ {x})
  BY <1>1, SumRemove
<1>3. (S \cup {x}) \ {x} = S
  OBVIOUS
<1>4. QED
  BY <1>2, <1>3

\* The sum over a set split in two.
LEMMA SumSplit ==
    ASSUME NEW f, NEW S, NEW T, IsFiniteSet(S), T \subseteq S, \A x \in S : f[x] \in Int
    PROVE  SumFunctionOnSet(f, S) = SumFunctionOnSet(f, T) + SumFunctionOnSet(f, S \ T)
<1> DEFINE Bad == {t \in SUBSET T :
              SumFunctionOnSet(f, S) # SumFunctionOnSet(f, t) + SumFunctionOnSet(f, S \ t)}
<1>1. SUFFICES ASSUME Bad # {} PROVE FALSE
  OBVIOUS
<1>2. IsFiniteSet(T)
  BY FS_Subset
<1>3. PICK s \in Bad : \A t \in SUBSET s : t # s => t \notin Bad
  <2> Bad \in SUBSET (SUBSET T)
    OBVIOUS
  <2> HIDE DEF Bad
  <2> QED BY <1>1, <1>2, SmallestSubset
<1>4. s \subseteq T /\ IsFiniteSet(s)
  BY <1>2, FS_Subset
<1>5. s # {}
  <2>1. SumFunctionOnSet(f, S) \in Int
    BY SumInt
  <2>2. SumFunctionOnSet(f, S) = SumFunctionOnSet(f, {}) + SumFunctionOnSet(f, S \ {})
    <3>1. S \ {} = S
      OBVIOUS
    <3>2. QED
      BY <2>1, <3>1, SumEmpty
  <2>3. QED
    BY <2>2
<1>6. PICK x \in s : TRUE
  BY <1>5
<1> DEFINE r == s \ {x}
<1>7. /\ SumFunctionOnSet(f, S) = SumFunctionOnSet(f, r) + SumFunctionOnSet(f, S \ r)
      /\ SumFunctionOnSet(f, S) # SumFunctionOnSet(f, s) + SumFunctionOnSet(f, S \ s)
  BY <1>3
<1>8. SumFunctionOnSet(f, s) = f[x] + SumFunctionOnSet(f, r)
  BY <1>4, SumRemove
<1>9. SumFunctionOnSet(f, S \ r) = f[x] + SumFunctionOnSet(f, S \ s)
  <2>1. (S \ r) \ {x} = S \ s /\ x \in S \ r
    BY <1>4
  <2>2. IsFiniteSet(S \ r)
    BY FS_Subset
  <2> HIDE DEF r
  <2>3. QED
    BY <2>1, <2>2, SumRemove
<1>10. SumFunctionOnSet(f, r) \in Int /\ SumFunctionOnSet(f, S \ s) \in Int /\ f[x] \in Int
  <2>1. IsFiniteSet(r) /\ IsFiniteSet(S \ s)
    BY <1>4, FS_Subset
  <2>2. QED
    BY <1>4, <2>1, SumInt
<1> HIDE DEF Bad, r
<1>11. QED
  BY <1>7, <1>8, <1>9, <1>10

\* A larger set has a larger sum of naturals.
LEMMA SumSubset ==
    ASSUME NEW f, NEW S, NEW T, IsFiniteSet(S), T \subseteq S, \A x \in S : f[x] \in Nat
    PROVE  SumFunctionOnSet(f, T) <= SumFunctionOnSet(f, S)
<1>1. IsFiniteSet(T) /\ IsFiniteSet(S \ T)
  BY FS_Subset
<1>2. SumFunctionOnSet(f, S) = SumFunctionOnSet(f, T) + SumFunctionOnSet(f, S \ T)
  BY SumSplit
<1>3. SumFunctionOnSet(f, T) \in Nat /\ SumFunctionOnSet(f, S \ T) \in Nat
  BY <1>1, SumNat
<1>4. QED
  BY <1>2, <1>3

\* The sum of the multiples of a function.
LEMMA SumScale ==
    ASSUME NEW f, NEW h, NEW S, IsFiniteSet(S), NEW c \in Int,
           \A x \in S : f[x] \in Int /\ h[x] = c * f[x]
    PROVE  SumFunctionOnSet(h, S) = c * SumFunctionOnSet(f, S)
<1> DEFINE Bad == {s \in SUBSET S : SumFunctionOnSet(h, s) # c * SumFunctionOnSet(f, s)}
<1>1. SUFFICES ASSUME Bad # {} PROVE FALSE
  OBVIOUS
<1>2. PICK s \in Bad : \A t \in SUBSET s : t # s => t \notin Bad
  <2> Bad \in SUBSET (SUBSET S)
    OBVIOUS
  <2> HIDE DEF Bad
  <2> QED BY <1>1, SmallestSubset
<1>3. IsFiniteSet(s) /\ s # {}
  <2>1. SumFunctionOnSet(h, {}) = c * SumFunctionOnSet(f, {})
    BY SumEmpty
  <2>2. QED
    BY <2>1, FS_Subset
<1>4. PICK x \in s : TRUE
  BY <1>3
<1>5. IsFiniteSet(s \ {x})
  BY <1>3, FS_Subset
<1>6. \A y \in s : f[y] \in Int /\ h[y] \in Int /\ h[y] = c * f[y]
  OBVIOUS
<1>7. /\ SumFunctionOnSet(f, s) = f[x] + SumFunctionOnSet(f, s \ {x})
      /\ SumFunctionOnSet(h, s) = h[x] + SumFunctionOnSet(h, s \ {x})
  BY <1>3, <1>6, SumRemove
<1>8. SumFunctionOnSet(h, s \ {x}) = c * SumFunctionOnSet(f, s \ {x})
  BY <1>2
<1>9. SumFunctionOnSet(f, s \ {x}) \in Int
  BY <1>5, <1>6, SumInt
<1>10. SumFunctionOnSet(h, s) # c * SumFunctionOnSet(f, s)
  OBVIOUS
<1> HIDE DEF Bad
<1>11. \A a, b \in Int : c * (a + b) = c * a + c * b
  OBVIOUS
<1>12. QED
  BY <1>6, <1>7, <1>8, <1>9, <1>10, <1>11

\* A sum written with a function of its own.
LEMMA SumOver ==
    ASSUME NEW f, NEW h, NEW S, IsFiniteSet(S), DOMAIN h = S,
           \A x \in S : f[x] \in Int /\ h[x] = f[x]
    PROVE  SumFunction(h) = SumFunctionOnSet(f, S)
<1>1. SumFunctionOnSet(f, S) = SumFunctionOnSet(h, S)
  BY SumSame
<1>2. QED
  BY <1>1 DEF SumFunction

\* The sum over one element.
LEMMA SumSingle ==
    ASSUME NEW f, NEW x, f[x] \in Int
    PROVE  SumFunctionOnSet(f, {x}) = f[x]
<1>1. IsFiniteSet({x})
  BY FS_Singleton
<1>2. SumFunctionOnSet(f, {x}) = f[x] + SumFunctionOnSet(f, {x} \ {x})
  BY <1>1, SumRemove
<1>3. {x} \ {x} = {}
  OBVIOUS
<1>4. SumFunctionOnSet(f, {}) = 0
  BY SumEmpty
<1>5. QED
  BY <1>2, <1>3, <1>4

\* The sum of a constant.
LEMMA SumConstant ==
    ASSUME NEW f, NEW S, IsFiniteSet(S), NEW c \in Int, \A x \in S : f[x] = c
    PROVE  SumFunctionOnSet(f, S) = Cardinality(S) * c
<1> DEFINE Bad == {s \in SUBSET S : SumFunctionOnSet(f, s) # Cardinality(s) * c}
<1>1. SUFFICES ASSUME Bad # {} PROVE FALSE
  OBVIOUS
<1>2. PICK s \in Bad : \A t \in SUBSET s : t # s => t \notin Bad
  <2> Bad \in SUBSET (SUBSET S)
    OBVIOUS
  <2> HIDE DEF Bad
  <2> QED BY <1>1, SmallestSubset
<1>3. IsFiniteSet(s) /\ s # {}
  <2>1. SumFunctionOnSet(f, {}) = 0 /\ Cardinality({}) = 0
    BY SumEmpty, FS_EmptySet
  <2>2. SumFunctionOnSet(f, {}) = Cardinality({}) * c
    BY <2>1
  <2>3. QED
    BY <2>2, FS_Subset
<1>4. PICK x \in s : TRUE
  BY <1>3
<1>5. /\ IsFiniteSet(s \ {x}) /\ Cardinality(s) \in Nat
      /\ Cardinality(s \ {x}) = Cardinality(s) - 1
  BY <1>3, FS_RemoveElement, FS_CardinalityType
<1>6. SumFunctionOnSet(f, s) = c + SumFunctionOnSet(f, s \ {x})
  BY <1>3, SumRemove
<1>7. SumFunctionOnSet(f, s \ {x}) = Cardinality(s \ {x}) * c
  BY <1>2
<1>8. SumFunctionOnSet(f, s) # Cardinality(s) * c
  OBVIOUS
<1> HIDE DEF Bad
<1>9. \A n \in Nat : c + (n - 1) * c = n * c
  OBVIOUS
<1>10. QED
  BY <1>5, <1>6, <1>7, <1>8, <1>9

\* The sum over a set that is grouped by a key.
LEMMA SumGrouped ==
    ASSUME NEW f, NEW S, IsFiniteSet(S), \A x \in S : f[x] \in Int,
           NEW key, NEW K, IsFiniteSet(K), \A x \in S : key[x] \in K,
           NEW group, \A k \in K : group[k] \subseteq S,
           \A k \in K : \A x \in S : x \in group[k] <=> key[x] = k,
           NEW g, \A k \in K : g[k] = SumFunctionOnSet(f, group[k])
    PROVE  SumFunctionOnSet(g, K) = SumFunctionOnSet(f, S)
<1> DEFINE Keyed(T) == {x \in S : key[x] \in T}
           Bad == {T \in SUBSET K :
                      SumFunctionOnSet(g, T) # SumFunctionOnSet(f, Keyed(T))}
<1>1. ASSUME Bad # {} PROVE FALSE
  <2>1. PICK T \in Bad : \A t \in SUBSET T : t # T => t \notin Bad
    <3> Bad \in SUBSET (SUBSET K)
      OBVIOUS
    <3> HIDE DEF Bad
    <3> QED BY <1>1, SmallestSubset
  <2>2. T # {} /\ T \subseteq K /\ IsFiniteSet(T)
    <3>1. Keyed({}) = {}
      OBVIOUS
    <3>2. SumFunctionOnSet(g, {}) = SumFunctionOnSet(f, Keyed({}))
      BY <3>1, SumEmpty
    <3>3. T # {} /\ T \subseteq K
      BY <3>2
    <3>4. QED
      BY <3>3, FS_Subset
  <2>3. PICK k \in T : TRUE
    BY <2>2
  <2>4. k \in K /\ \A x \in Keyed(T) : f[x] \in Int
    BY <2>2
  <2>5. \A j \in K : g[j] \in Int
    <3> SUFFICES ASSUME NEW j \in K PROVE g[j] \in Int
      OBVIOUS
    <3>1. IsFiniteSet(group[j])
      BY FS_Subset
    <3>2. \A x \in group[j] : f[x] \in Int
      OBVIOUS
    <3>3. QED
      BY <3>1, <3>2, SumInt
  <2>6. SumFunctionOnSet(g, T) = g[k] + SumFunctionOnSet(g, T \ {k})
    BY <2>2, <2>5, SumRemove
  <2>7. SumFunctionOnSet(g, T \ {k}) = SumFunctionOnSet(f, Keyed(T \ {k}))
    BY <2>1, <2>2, <2>3
  <2>8. SumFunctionOnSet(f, Keyed(T)) = SumFunctionOnSet(f, group[k])
                                      + SumFunctionOnSet(f, Keyed(T \ {k}))
    <3>1. group[k] \subseteq Keyed(T)
      BY <2>3, <2>4
    <3>2. Keyed(T \ {k}) = Keyed(T) \ group[k]
      <4>1. ASSUME NEW x \in S
            PROVE  x \in Keyed(T \ {k}) <=> x \in Keyed(T) \ group[k]
        <5>1. x \in group[k] <=> key[x] = k
          BY <2>4
        <5>2. QED
          BY <5>1
      <4>2. QED
        BY <4>1
    <3>3. IsFiniteSet(Keyed(T))
      BY FS_Subset
    <3> DEFINE part == group[k]
               whole == Keyed(T)
    <3>4. /\ IsFiniteSet(whole) /\ part \subseteq whole
          /\ \A x \in whole : f[x] \in Int
      BY <3>1, <3>3, <2>4
    <3> HIDE DEF part, whole
    <3>5. SumFunctionOnSet(f, whole)
             = SumFunctionOnSet(f, part) + SumFunctionOnSet(f, whole \ part)
      BY <3>4, SumSplit
    <3>6. QED
      BY <3>2, <3>5 DEF part, whole
  <2>9. SumFunctionOnSet(g, T) # SumFunctionOnSet(f, Keyed(T))
    BY <2>1
  <2>10. QED
    BY <2>4, <2>6, <2>7, <2>8, <2>9
<1>2. Keyed(K) = S
  OBVIOUS
<1>3. SumFunctionOnSet(g, K) = SumFunctionOnSet(f, Keyed(K))
  BY <1>1
<1>4. QED
  BY <1>2, <1>3
=============================================================================
