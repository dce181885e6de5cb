------------------------------ MODULE SumTheorems ------------------------------
(***************************************************************************)
(* Facts about SumFunctionOnSet, the sum of a function over a finite set.   *)
(* The community modules define it by recursion over the subsets of the     *)
(* set.  Induction is done here without an operator for what is proved: the *)
(* subsets for which a fact fails form a set, and if that is not empty it   *)
(* has a member none of whose proper subsets is in it (MinimalSubset).      *)
(***************************************************************************)
EXTENDS Integers, Functions, FiniteSetTheorems, WellFoundedInduction, TLAPS

\* The element with which the recursion goes on.
Chosen(s) == CHOOSE x \in s : TRUE

\* g is a solution of the recursion for f on all subsets of S.
Solves(g, f, S) ==
    g = [s \in SUBSET S |-> IF s = {} THEN 0 ELSE f[Chosen(s)] + g[s \ {Chosen(s)}]]
Solution(f, S) == CHOOSE g : Solves(g, f, S)

\* The sum is defined as such a solution.
LEMMA SumIsSolution ==
    ASSUME NEW f, NEW S
    PROVE  SumFunctionOnSet(f, S) = Solution(f, S)[S]
  BY Zenon DEF SumFunctionOnSet, FoldFunctionOnSet, MapThenFoldSet, Solution, Solves, Chosen

\* Among subsets of a finite set there is one that contains none of the others.
LEMMA MinimalSubset ==
    ASSUME NEW S, IsFiniteSet(S), NEW T, T \subseteq SUBSET S, T # {}
    PROVE  \E s \in T : \A u \in SUBSET s : u # s => u \notin T
  <1> DEFINE R == StrictSubsetOrdering(S)
  <1>1. IsWellFoundedOn(R, SUBSET S)
    BY FS_StrictSubsetOrderingWellFounded, FS_FiniteSubsetsOfFinite
  <1>2. PICK s \in T : \A u \in T : ~(<<u, s>> \in R)
    <2> HIDE DEF R
    <2> QED BY <1>1, WFMin
  <1>3. \A u \in SUBSET s : u # s => u \notin T
    BY <1>2 DEF R, StrictSubsetOrdering
  <1> QED BY <1>3

\* Two solutions agree where both are defined.
LEMMA SolutionsAgree ==
    ASSUME NEW S, IsFiniteSet(S), NEW T \in SUBSET S, NEW f, NEW g, NEW h,
           Solves(g, f, S), Solves(h, f, T)
    PROVE  \A s \in SUBSET T : g[s] = h[s]
  <1> DEFINE Bad == {s \in SUBSET T : g[s] # h[s]}
  <1>1. SUFFICES ASSUME Bad # {} PROVE FALSE
    OBVIOUS
  <1>2. IsFiniteSet(T)
    BY FS_Subset
  <1>3. PICK s \in Bad : \A u \in SUBSET s : u # s => u \notin Bad
    <2> HIDE DEF Bad
    <2>1. Bad \subseteq SUBSET T
      BY DEF Bad
    <2> QED
      BY <1>1, <1>2, <2>1, MinimalSubset
  <1>4. /\ g[s] = IF s = {} THEN 0 ELSE f[Chosen(s)] + g[s \ {Chosen(s)}]
        /\ h[s] = IF s = {} THEN 0 ELSE f[Chosen(s)] + h[s \ {Chosen(s)}]
    BY <1>3 DEF Solves
  <1>5. CASE s = {}
    BY <1>3, <1>4, <1>5
  <1>6. CASE s # {}
    <2>1. Chosen(s) \in s
      BY <1>6 DEF Chosen
    <2>2. s \ {Chosen(s)} \notin Bad
      BY <1>3, <2>1
    <2> QED
      BY <1>3, <1>4, <1>6, <2>2
  <1> QED
    BY <1>5, <1>6

\* There is a solution for every finite set: it is put together from those for
\* its proper subsets.
LEMMA SolutionExists ==
    ASSUME NEW S, IsFiniteSet(S), NEW f
    PROVE  \E g : Solves(g, f, S)
  <1> DEFINE Bad == {s \in SUBSET S : ~\E g : Solves(g, f, s)}
  <1>1. SUFFICES ASSUME Bad # {} PROVE FALSE
    OBVIOUS
  <1>2. PICK s \in Bad : \A u \in SUBSET s : u # s => u \notin Bad
    <2> HIDE DEF Bad
    <2>1. Bad \subseteq SUBSET S
      BY DEF Bad
    <2> QED
      BY <1>1, <2>1, MinimalSubset
  <1> DEFINE V(u) == Solution(f, u)[u]
             G == [u \in SUBSET s |->
                      IF u = {} THEN 0 ELSE f[Chosen(u)] + V(u \ {Chosen(u)})]
  <1>3. \A u \in SUBSET s : u # s => Solves(Solution(f, u), f, u)
    <2> TAKE u \in SUBSET s
    <2> HAVE u # s
    <2>1. \E g : Solves(g, f, u)
      BY <1>2
    <2> QED
      BY <2>1, Zenon DEF Solution
  <1>4. \A u \in SUBSET s : u # {} => Chosen(u) \in u
    BY DEF Chosen
  <1>5. \A u \in SUBSET s : u # s => V(u) = G[u]
    <2> TAKE u \in SUBSET s
    <2> HAVE u # s
    <2>1. Solves(Solution(f, u), f, u)
      BY <1>3
    <2>2. Solution(f, u)[u] =
             IF u = {} THEN 0 ELSE f[Chosen(u)] + Solution(f, u)[u \ {Chosen(u)}]
      BY <2>1 DEF Solves
    <2>3. CASE u = {}
      BY <2>2, <2>3
    <2>4. CASE u # {}
      <3> DEFINE w == u \ {Chosen(u)}
      <3>1. w \in SUBSET u /\ w # s
        BY <1>4, <2>4
      <3>2. Solves(Solution(f, w), f, w)
        BY <1>3, <3>1
      <3>3. IsFiniteSet(u)
        BY <1>2, FS_Subset
      <3>4. Solution(f, u)[w] = Solution(f, w)[w]
        <4> HIDE DEF w
        <4>1. \A x \in SUBSET w : Solution(f, u)[x] = Solution(f, w)[x]
          BY <2>1, <3>1, <3>2, <3>3, SolutionsAgree
        <4> QED
          BY <4>1
      <3> QED
        BY <2>2, <2>4, <3>4
    <2> QED
      BY <2>3, <2>4
  <1>6. \A u \in SUBSET s : u # {} => V(u \ {Chosen(u)}) = G[u \ {Chosen(u)}]
    BY <1>4, <1>5
  <1>7. Solves(G, f, s)
    <2>1. \A u \in SUBSET s :
             G[u] = IF u = {} THEN 0 ELSE f[Chosen(u)] + G[u \ {Chosen(u)}]
      <3> TAKE u \in SUBSET s
      <3>1. G[u] = IF u = {} THEN 0 ELSE f[Chosen(u)] + V(u \ {Chosen(u)})
        OBVIOUS
      <3> HIDE DEF G, V
      <3> QED
        BY <3>1, <1>6
    <2>2. G = [u \in SUBSET s |-> G[u]]
      OBVIOUS
    <2> HIDE DEF G, V
    <2> QED
      BY <2>1, <2>2, Zenon DEF Solves
  <1> QED
    BY <1>2, <1>7

\* The sum over a finite set, one element after the other.
LEMMA SumUnfolds ==
    ASSUME NEW S, IsFiniteSet(S), NEW f
    PROVE  SumFunctionOnSet(f, S) =
              IF S = {} THEN 0
              ELSE f[Chosen(S)] + SumFunctionOnSet(f, S \ {Chosen(S)})
  <1> DEFINE w == S \ {Chosen(S)}
  <1>1. \A u \in SUBSET S : Solves(Solution(f, u), f, u)
    <2> TAKE u \in SUBSET S
    <2>1. \E g : Solves(g, f, u)
      BY FS_Subset, SolutionExists
    <2> QED
      BY <2>1, Zenon DEF Solution
  <1>2. Solution(f, S)[S] = IF S = {} THEN 0 ELSE f[Chosen(S)] + Solution(f, S)[w]
    BY <1>1 DEF Solves
  <1>3. Solution(f, S)[w] = Solution(f, w)[w]
    <2> HIDE DEF w
    <2>1. w \in SUBSET S
      BY DEF w
    <2>2. \A x \in SUBSET w : Solution(f, S)[x] = Solution(f, w)[x]
      BY <1>1, <2>1, SolutionsAgree
    <2> QED
      BY <2>2
  <1> QED
    BY <1>2, <1>3, SumIsSolution

------------------------------------------------------------------------------
\* What users of a sum cite.

LEMMA SumEmpty ==
    ASSUME NEW f
    PROVE  SumFunctionOnSet(f, {}) = 0
  BY SumUnfolds, FS_EmptySet

\* The sum depends on nothing but the values on the set.
LEMMA SumSame ==
    ASSUME NEW S, IsFiniteSet(S), NEW f, NEW g, \A x \in S : f[x] = g[x]
    PROVE  SumFunctionOnSet(f, S) = SumFunctionOnSet(g, S)
  <1> DEFINE Bad == {s \in SUBSET S : SumFunctionOnSet(f, s) # SumFunctionOnSet(g, s)}
  <1>1. SUFFICES ASSUME Bad # {} PROVE FALSE
    OBVIOUS
  <1>2. PICK s \in Bad : \A u \in SUBSET s : u # s => u \notin Bad
    <2>1. Bad \subseteq SUBSET S
      OBVIOUS
    <2> HIDE DEF Bad
    <2> QED
      BY <1>1, <2>1, MinimalSubset
  <1>3. IsFiniteSet(s)
    BY <1>2, FS_Subset
  <1>4. CASE s = {}
    BY <1>2, <1>4, SumEmpty
  <1>5. CASE s # {}
    <2>1. Chosen(s) \in s
      BY <1>5 DEF Chosen
    <2>2. SumFunctionOnSet(f, s \ {Chosen(s)}) = SumFunctionOnSet(g, s \ {Chosen(s)})
      BY <1>2, <2>1
    <2>3. /\ SumFunctionOnSet(f, s) = f[Chosen(s)] + SumFunctionOnSet(f, s \ {Chosen(s)})
          /\ SumFunctionOnSet(g, s) = g[Chosen(s)] + SumFunctionOnSet(g, s \ {Chosen(s)})
      BY <1>3, <1>5, SumUnfolds
    <2>4. f[Chosen(s)] = g[Chosen(s)]
      BY <1>2, <2>1
    <2> QED
      BY <1>2, <2>2, <2>3, <2>4
  <1> QED
    BY <1>4, <1>5

\* A sum of integers is an integer.
LEMMA SumInt ==
    ASSUME NEW S, IsFiniteSet(S), NEW f, \A x \in S : f[x] \in Int
    PROVE  SumFunctionOnSet(f, S) \in Int
  <1> DEFINE Bad == {s \in SUBSET S : SumFunctionOnSet(f, s) \notin Int}
  <1>1. SUFFICES ASSUME Bad # {} PROVE FALSE
    OBVIOUS
  <1>2. PICK s \in Bad : \A u \in SUBSET s : u # s => u \notin Bad
    <2>1. Bad \subseteq SUBSET S
      OBVIOUS
    <2> HIDE DEF Bad
    <2> QED
      BY <1>1, <2>1, MinimalSubset
  <1>3. IsFiniteSet(s)
    BY <1>2, FS_Subset
  <1>4. CASE s = {}
    BY <1>2, <1>4, SumEmpty
  <1>5. CASE s # {}
    <2>1. Chosen(s) \in s
      BY <1>5 DEF Chosen
    <2>2. SumFunctionOnSet(f, s \ {Chosen(s)}) \in Int
      BY <1>2, <2>1
    <2>3. SumFunctionOnSet(f, s) = f[Chosen(s)] + SumFunctionOnSet(f, s \ {Chosen(s)})
      BY <1>3, <1>5, SumUnfolds
    <2> QED
      BY <1>2, <2>1, <2>2, <2>3
  <1> QED
    BY <1>4, <1>5

\* Any element may be taken out first, not only the chosen one.
LEMMA SumRemove ==
    ASSUME NEW S, IsFiniteSet(S), NEW f, \A x \in S : f[x] \in Int, NEW a \in S
    PROVE  SumFunctionOnSet(f, S) = f[a] + SumFunctionOnSet(f, S \ {a})
  <1> DEFINE Bad == {s \in SUBSET S : \E x \in s :
                SumFunctionOnSet(f, s) # f[x] + SumFunctionOnSet(f, s \ {x})}
  <1>1. SUFFICES ASSUME Bad # {} PROVE FALSE
    OBVIOUS
  <1>2. PICK s \in Bad : \A u \in SUBSET s : u # s => u \notin Bad
    <2>1. Bad \subseteq SUBSET S
      OBVIOUS
    <2> HIDE DEF Bad
    <2> QED
      BY <1>1, <2>1, MinimalSubset
  <1>3. PICK x \in s : SumFunctionOnSet(f, s) # f[x] + SumFunctionOnSet(f, s \ {x})
    BY <1>2
  <1> DEFINE c == Chosen(s)
  <1>4. c \in s
    BY <1>3 DEF Chosen
  <1>5. \A u \in SUBSET s : IsFiniteSet(u)
    BY <1>2, FS_Subset
  <1>6. SumFunctionOnSet(f, s) = f[c] + SumFunctionOnSet(f, s \ {c})
    BY <1>3, <1>5, SumUnfolds
  <1> HIDE DEF c
  <1>7. x # c
    BY <1>3, <1>6
  <1>8. /\ SumFunctionOnSet(f, s \ {c}) = f[x] + SumFunctionOnSet(f, (s \ {c}) \ {x})
        /\ SumFunctionOnSet(f, s \ {x}) = f[c] + SumFunctionOnSet(f, (s \ {x}) \ {c})
    BY <1>2, <1>3, <1>4, <1>7
  <1>9. (s \ {c}) \ {x} = (s \ {x}) \ {c}
    OBVIOUS
  <1>10. /\ f[c] \in Int /\ f[x] \in Int
         /\ SumFunctionOnSet(f, (s \ {x}) \ {c}) \in Int
    <2>1. IsFiniteSet((s \ {x}) \ {c}) /\ \A y \in (s \ {x}) \ {c} : f[y] \in Int
      BY <1>2, <1>5
    <2> QED
      BY <1>2, <1>3, <1>4, <2>1, SumInt
  <1> DEFINE rest == SumFunctionOnSet(f, (s \ {x}) \ {c})
  <1>11. /\ SumFunctionOnSet(f, s) = f[c] + (f[x] + rest)
         /\ SumFunctionOnSet(f, s) # f[x] + (f[c] + rest)
    BY <1>3, <1>6, <1>8, <1>9, Zenon
  <1>12. f[c] \in Int /\ f[x] \in Int /\ rest \in Int
    BY <1>10
  <1> HIDE DEF rest
  <1>13. f[c] + (f[x] + rest) = f[x] + (f[c] + rest)
    BY <1>12
  <1> QED
    BY <1>11, <1>13

\* One more element.
LEMMA SumAdd ==
    ASSUME NEW S, IsFiniteSet(S), NEW a, a \notin S,
           NEW f, \A x \in S \cup {a} : f[x] \in Int
    PROVE  SumFunctionOnSet(f, S \cup {a}) = f[a] + SumFunctionOnSet(f, S)
  <1>1. IsFiniteSet(S \cup {a}) /\ (S \cup {a}) \ {a} = S
    BY FS_AddElement
  <1> QED
    BY <1>1, SumRemove

\* One value changes.
LEMMA SumChange ==
    ASSUME NEW S, IsFiniteSet(S), NEW f, NEW g, NEW a \in S,
           \A x \in S : f[x] \in Int /\ g[x] \in Int,
           \A x \in S : x # a => g[x] = f[x]
    PROVE  SumFunctionOnSet(g, S) = SumFunctionOnSet(f, S) + (g[a] - f[a])
  <1>1. IsFiniteSet(S \ {a})
    BY FS_RemoveElement
  <1>2. SumFunctionOnSet(f, S \ {a}) = SumFunctionOnSet(g, S \ {a})
    BY <1>1, SumSame
  <1>3. SumFunctionOnSet(f, S \ {a}) \in Int
    BY <1>1, SumInt
  <1>4. /\ SumFunctionOnSet(f, S) = f[a] + SumFunctionOnSet(f, S \ {a})
        /\ SumFunctionOnSet(g, S) = g[a] + SumFunctionOnSet(g, S \ {a})
    BY SumRemove
  <1> QED
    BY <1>2, <1>3, <1>4

\* Sums of functions that are ordered, and of their sum.
LEMMA SumMonotone ==
    ASSUME NEW S, IsFiniteSet(S), NEW f, NEW g,
           \A x \in S : f[x] \in Int /\ g[x] \in Int /\ f[x] <= g[x]
    PROVE  SumFunctionOnSet(f, S) <= SumFunctionOnSet(g, S)
  <1> DEFINE Bad == {s \in SUBSET S : ~(SumFunctionOnSet(f, s) <= SumFunctionOnSet(g, s))}
  <1>1. SUFFICES ASSUME Bad # {} PROVE FALSE
    OBVIOUS
  <1>2. PICK s \in Bad : \A u \in SUBSET s : u # s => u \notin Bad
    <2>1. Bad \subseteq SUBSET S
      OBVIOUS
    <2> HIDE DEF Bad
    <2> QED
      BY <1>1, <2>1, MinimalSubset
  <1>3. IsFiniteSet(s)
    BY <1>2, FS_Subset
  <1>4. CASE s = {}
    <2>1. SumFunctionOnSet(f, {}) = 0 /\ SumFunctionOnSet(g, {}) = 0
      BY SumEmpty
    <2> QED
      BY <1>2, <1>4, <2>1
  <1>5. CASE s # {}
    <2>1. Chosen(s) \in s
      BY <1>5 DEF Chosen
    <2> DEFINE w == s \ {Chosen(s)}
    <2>2. SumFunctionOnSet(f, w) <= SumFunctionOnSet(g, w)
      BY <1>2, <2>1
    <2>3. /\ SumFunctionOnSet(f, s) = f[Chosen(s)] + SumFunctionOnSet(f, w)
          /\ SumFunctionOnSet(g, s) = g[Chosen(s)] + SumFunctionOnSet(g, w)
      BY <1>3, <1>5, SumUnfolds
    <2>4. SumFunctionOnSet(f, w) \in Int /\ SumFunctionOnSet(g, w) \in Int
      <3>1. IsFiniteSet(w) /\ \A x \in w : x \in S
        BY <1>2, <1>3, FS_RemoveElement
      <3> HIDE DEF w
      <3> QED
        BY <3>1, SumInt
    <2>5. /\ f[Chosen(s)] \in Int /\ g[Chosen(s)] \in Int
          /\ f[Chosen(s)] <= g[Chosen(s)]
      BY <1>2, <2>1
    <2>6. ~(SumFunctionOnSet(f, s) <= SumFunctionOnSet(g, s))
      BY <1>2
    <2> HIDE DEF w
    <2> QED
      BY <2>2, <2>3, <2>4, <2>5, <2>6
  <1> QED
    BY <1>4, <1>5

LEMMA SumZero ==
    ASSUME NEW S, IsFiniteSet(S), NEW f, \A x \in S : f[x] = 0
    PROVE  SumFunctionOnSet(f, S) = 0
  <1> DEFINE Bad == {s \in SUBSET S : SumFunctionOnSet(f, s) # 0}
  <1>1. SUFFICES ASSUME Bad # {} PROVE FALSE
    OBVIOUS
  <1>2. PICK s \in Bad : \A u \in SUBSET s : u # s => u \notin Bad
    <2>1. Bad \subseteq SUBSET S
      OBVIOUS
    <2> HIDE DEF Bad
    <2> QED
      BY <1>1, <2>1, MinimalSubset
  <1>3. IsFiniteSet(s)
    BY <1>2, FS_Subset
  <1>4. CASE s = {}
    BY <1>2, <1>4, SumEmpty
  <1>5. CASE s # {}
    <2>1. Chosen(s) \in s
      BY <1>5 DEF Chosen
    <2>2. SumFunctionOnSet(f, s \ {Chosen(s)}) = 0 /\ f[Chosen(s)] = 0
      BY <1>2, <2>1
    <2>3. SumFunctionOnSet(f, s) = f[Chosen(s)] + SumFunctionOnSet(f, s \ {Chosen(s)})
      BY <1>3, <1>5, SumUnfolds
    <2> QED
      BY <1>2, <2>2, <2>3
  <1> QED
    BY <1>4, <1>5

LEMMA SumNat ==
    ASSUME NEW S, IsFiniteSet(S), NEW f, \A x \in S : f[x] \in Nat
    PROVE  SumFunctionOnSet(f, S) \in Nat
  <1> DEFINE z == [x \in S |-> 0]
  <1>1. SumFunctionOnSet(z, S) = 0
    BY SumZero
  <1>2. SumFunctionOnSet(f, S) \in Int
    BY SumInt
  <1>3. \A x \in S : z[x] \in Int /\ f[x] \in Int /\ z[x] <= f[x]
    OBVIOUS
  <1> HIDE DEF z
  <1>4. SumFunctionOnSet(z, S) <= SumFunctionOnSet(f, S)
    BY <1>3, SumMonotone
  <1> QED
    BY <1>1, <1>2, <1>4

\* The sum over a set is that over two parts of it.
LEMMA SumSplit ==
    ASSUME NEW S, IsFiniteSet(S), NEW f, \A x \in S : f[x] \in Int, NEW T
    PROVE  SumFunctionOnSet(f, S) = SumFunctionOnSet(f, S \cap T) + SumFunctionOnSet(f, S \ T)
  <1> DEFINE Bad == {s \in SUBSET S : SumFunctionOnSet(f, s) #
                        SumFunctionOnSet(f, s \cap T) + SumFunctionOnSet(f, s \ T)}
  <1>1. SUFFICES ASSUME Bad # {} PROVE FALSE
    OBVIOUS
  <1>2. PICK s \in Bad : \A u \in SUBSET s : u # s => u \notin Bad
    <2>1. Bad \subseteq SUBSET S
      OBVIOUS
    <2> HIDE DEF Bad
    <2> QED
      BY <1>1, <2>1, MinimalSubset
  <1>3. /\ s \subseteq S
        /\ SumFunctionOnSet(f, s) #
              SumFunctionOnSet(f, s \cap T) + SumFunctionOnSet(f, s \ T)
    BY <1>2
  <1>4. ASSUME NEW x \in s
        PROVE  SumFunctionOnSet(f, s \ {x}) =
                  SumFunctionOnSet(f, (s \ {x}) \cap T) + SumFunctionOnSet(f, (s \ {x}) \ T)
    <2>1. s \ {x} \in SUBSET s /\ s \ {x} # s /\ s \ {x} \in SUBSET S
      BY <1>3
    <2> QED
      BY <1>2, <2>1
  <1> HIDE DEF Bad
  <1>5. \A u \in SUBSET s : IsFiniteSet(u) /\ SumFunctionOnSet(f, u) \in Int
    BY <1>3, FS_Subset, SumInt
  <1>6. s # {}
    <2>1. CASE s = {}
      <3>1. s \cap T = {} /\ s \ T = {}
        BY <2>1
      <3> QED
        BY <1>3, <2>1, <3>1, SumEmpty
    <2> QED
      BY <2>1
  <1>7. PICK x \in s : TRUE
    BY <1>6
  <1> DEFINE all == SumFunctionOnSet(f, s \ {x})
             inn == SumFunctionOnSet(f, (s \ {x}) \cap T)
             out == SumFunctionOnSet(f, (s \ {x}) \ T)
  <1>8. /\ all \in Int /\ inn \in Int /\ out \in Int /\ f[x] \in Int
        /\ all = inn + out
        /\ SumFunctionOnSet(f, s) = f[x] + all
    <2>1. SumFunctionOnSet(f, s) = f[x] + all
      BY <1>3, <1>5, SumRemove
    <2>2. s \ {x} \in SUBSET s /\ (s \ {x}) \cap T \in SUBSET s /\ (s \ {x}) \ T \in SUBSET s
      OBVIOUS
    <2> QED
      BY <1>3, <1>4, <1>5, <2>1, <2>2
  <1>9. CASE x \in T
    <2>1. (s \cap T) \ {x} = (s \ {x}) \cap T /\ s \ T = (s \ {x}) \ T
      BY <1>9
    <2>2. SumFunctionOnSet(f, s \cap T) = f[x] + SumFunctionOnSet(f, (s \cap T) \ {x})
      BY <1>3, <1>5, <1>9, SumRemove
    <2>3. /\ SumFunctionOnSet(f, s \cap T) = f[x] + inn
          /\ SumFunctionOnSet(f, s \ T) = out
      BY <2>1, <2>2
    <2> HIDE DEF all, inn, out
    <2> QED
      BY <1>3, <1>8, <2>3
  <1>10. CASE x \notin T
    <2>1. (s \ T) \ {x} = (s \ {x}) \ T /\ s \cap T = (s \ {x}) \cap T
      BY <1>10
    <2>2. SumFunctionOnSet(f, s \ T) = f[x] + SumFunctionOnSet(f, (s \ T) \ {x})
      BY <1>3, <1>5, <1>10, SumRemove
    <2>3. /\ SumFunctionOnSet(f, s \ T) = f[x] + out
          /\ SumFunctionOnSet(f, s \cap T) = inn
      BY <2>1, <2>2
    <2> HIDE DEF all, inn, out
    <2> QED
      BY <1>3, <1>8, <2>3
  <1> QED
    BY <1>9, <1>10

\* Numbers that are each covered by a number of their own have a sum that is
\* covered by the sum of those: m names the number that covers.
LEMMA SumCovered ==
    ASSUME NEW S, IsFiniteSet(S), NEW T, IsFiniteSet(T), NEW f, NEW g, NEW m,
           \A x \in S : f[x] \in Nat,
           \A y \in T : g[y] \in Nat,
           \A x \in S : f[x] # 0 => m[x] \in T /\ f[x] <= g[m[x]],
           \A x, y \in S : f[x] # 0 /\ f[y] # 0 /\ x # y => m[x] # m[y]
    PROVE  SumFunctionOnSet(f, S) <= SumFunctionOnSet(g, T)
  <1> DEFINE Used(s) == {y \in T : \E x \in s : f[x] # 0 /\ m[x] = y}
             Bad == {s \in SUBSET S :
                       ~(SumFunctionOnSet(f, s) <= SumFunctionOnSet(g, Used(s)))}
  <1>0. \A u \in SUBSET T : /\ IsFiniteSet(u) /\ IsFiniteSet(T \ u)
                            /\ SumFunctionOnSet(g, u) \in Nat
    BY FS_Subset, SumNat
  <1>1. Bad = {}
    <2>1. SUFFICES ASSUME Bad # {} PROVE FALSE
      OBVIOUS
    <2>2. PICK s \in Bad : \A u \in SUBSET s : u # s => u \notin Bad
      <3>1. Bad \subseteq SUBSET S
        OBVIOUS
      <3> HIDE DEF Bad
      <3> QED
        BY <2>1, <3>1, MinimalSubset
    <2>3. /\ s \subseteq S
          /\ ~(SumFunctionOnSet(f, s) <= SumFunctionOnSet(g, Used(s)))
      BY <2>2
    <2>4. ASSUME NEW x \in s
          PROVE  SumFunctionOnSet(f, s \ {x}) <= SumFunctionOnSet(g, Used(s \ {x}))
      <3>1. s \ {x} \in SUBSET s /\ s \ {x} # s /\ s \ {x} \in SUBSET S
        BY <2>3
      <3> QED
        BY <2>2, <3>1
    <2>5. \A u \in SUBSET s : IsFiniteSet(u) /\ SumFunctionOnSet(f, u) \in Nat
      BY <2>3, FS_Subset, SumNat
    <2>6. \A u : Used(u) \in SUBSET T /\ SumFunctionOnSet(g, Used(u)) \in Nat
      BY <1>0
    <2>7. s # {}
      <3>1. CASE s = {}
        <4>1. SumFunctionOnSet(f, s) = 0
          BY <3>1, SumEmpty
        <4> HIDE DEF Used
        <4> QED
          BY <2>3, <2>6, <4>1
      <3> QED
        BY <3>1
    <2>8. PICK x \in s : TRUE
      BY <2>7
    <2> DEFINE r == SumFunctionOnSet(f, s \ {x})
               before == SumFunctionOnSet(g, Used(s \ {x}))
    <2>9. /\ SumFunctionOnSet(f, s) = f[x] + r
          /\ r \in Nat /\ before \in Nat /\ f[x] \in Nat /\ r <= before
      <3>1. SumFunctionOnSet(f, s) = f[x] + SumFunctionOnSet(f, s \ {x})
        BY <2>3, <2>5, SumRemove
      <3> HIDE DEF Used
      <3> QED
        BY <2>3, <2>4, <2>5, <2>6, <3>1
    <2>10. CASE f[x] = 0
      <3>1. Used(s) = Used(s \ {x})
        BY <2>10
      <3> HIDE DEF Used
      <3> QED
        BY <2>3, <2>9, <2>10, <3>1
    <2>11. CASE f[x] # 0
      <3>1. m[x] \in T /\ f[x] <= g[m[x]] /\ g[m[x]] \in Nat
        BY <2>3, <2>11
      <3>2. Used(s) = Used(s \ {x}) \cup {m[x]}
        BY <2>3, <2>11, <3>1
      <3>3. m[x] \notin Used(s \ {x})
        BY <2>3, <2>11
      <3> DEFINE U == Used(s \ {x})
      <3>4. U \in SUBSET T /\ IsFiniteSet(U) /\ \A y \in U \cup {m[x]} : g[y] \in Int
        <4>1. U \in SUBSET T
          OBVIOUS
        <4>2. IsFiniteSet(U)
          BY <1>0, <4>1
        <4> HIDE DEF U, Used, Bad
        <4>3. \A y \in T : g[y] \in Int
          OBVIOUS
        <4>4. U \cup {m[x]} \subseteq T
          BY <3>1, <4>1
        <4> QED
          BY <4>1, <4>2, <4>3, <4>4
      <3>5. SumFunctionOnSet(g, U \cup {m[x]}) = g[m[x]] + SumFunctionOnSet(g, U)
        <4> HIDE DEF U
        <4>1. m[x] \notin U
          BY <3>3 DEF U
        <4> QED
          BY <3>4, <4>1, SumAdd
      <3>6. SumFunctionOnSet(g, Used(s)) = g[m[x]] + before
        BY <3>2, <3>5
      <3> HIDE DEF Used, before, r
      <3> QED
        BY <2>3, <2>9, <3>1, <3>6
    <2> QED
      BY <2>10, <2>11
  <1>2. SumFunctionOnSet(f, S) <= SumFunctionOnSet(g, Used(S))
    BY <1>1
  <1>3. Used(S) \subseteq T
    OBVIOUS
  <1> HIDE DEF Used, Bad
  <1>4. T \cap Used(S) = Used(S)
    BY <1>3
  <1>5. SumFunctionOnSet(g, T) = SumFunctionOnSet(g, Used(S)) + SumFunctionOnSet(g, T \ Used(S))
    <2> DEFINE U == Used(S)
    <2>1. \A y \in T : g[y] \in Int
      OBVIOUS
    <2> HIDE DEF U
    <2>2. SumFunctionOnSet(g, T) = SumFunctionOnSet(g, T \cap U) + SumFunctionOnSet(g, T \ U)
      BY <2>1, SumSplit
    <2> QED
      BY <1>4, <2>2 DEF U
  <1>6. SumFunctionOnSet(g, Used(S)) \in Nat /\ SumFunctionOnSet(g, T \ Used(S)) \in Nat
    BY <1>0, <1>3
  <1>7. SumFunctionOnSet(f, S) \in Nat
    BY SumNat
  <1> QED
    BY <1>2, <1>5, <1>6, <1>7

\* A common factor.
LEMMA SumScale ==
    ASSUME NEW S, IsFiniteSet(S), NEW c \in Int, NEW f, NEW g,
           \A x \in S : f[x] \in Int /\ g[x] = c * f[x]
    PROVE  SumFunctionOnSet(g, S) = c * SumFunctionOnSet(f, S)
  <1> DEFINE Bad == {s \in SUBSET S : SumFunctionOnSet(g, s) # c * SumFunctionOnSet(f, s)}
  <1>1. SUFFICES ASSUME Bad # {} PROVE FALSE
    OBVIOUS
  <1>2. PICK s \in Bad : \A u \in SUBSET s : u # s => u \notin Bad
    <2>1. Bad \subseteq SUBSET S
      OBVIOUS
    <2> HIDE DEF Bad
    <2> QED
      BY <1>1, <2>1, MinimalSubset
  <1>3. IsFiniteSet(s)
    BY <1>2, FS_Subset
  <1>4. CASE s = {}
    <2>1. SumFunctionOnSet(f, {}) = 0 /\ SumFunctionOnSet(g, {}) = 0
      BY SumEmpty
    <2> QED
      BY <1>2, <1>4, <2>1
  <1>5. CASE s # {}
    <2>1. Chosen(s) \in s
      BY <1>5 DEF Chosen
    <2> DEFINE w == s \ {Chosen(s)}
               a == f[Chosen(s)]
               r == SumFunctionOnSet(f, w)
    <2>2. SumFunctionOnSet(g, w) = c * r
      BY <1>2, <2>1
    <2>3. /\ SumFunctionOnSet(f, s) = a + r
          /\ SumFunctionOnSet(g, s) = g[Chosen(s)] + SumFunctionOnSet(g, w)
      BY <1>3, <1>5, SumUnfolds
    <2>4. r \in Int
      <3>1. IsFiniteSet(w) /\ \A x \in w : f[x] \in Int
        BY <1>2, <1>3, FS_RemoveElement
      <3> HIDE DEF w
      <3> QED
        BY <3>1, SumInt
    <2>5. a \in Int /\ g[Chosen(s)] = c * a
      BY <1>2, <2>1
    <2>6. SumFunctionOnSet(g, s) # c * SumFunctionOnSet(f, s)
      BY <1>2
    <2> HIDE DEF w, a, r
    <2>7. c * (a + r) = c * a + c * r
      BY <2>4, <2>5
    <2> QED
      BY <2>2, <2>3, <2>5, <2>6, <2>7
  <1> QED
    BY <1>4, <1>5

\* The same when the element that changes need not be in the set.
LEMMA SumChangeIn ==
    ASSUME NEW S, IsFiniteSet(S), NEW f, NEW g, NEW a,
           \A x \in S : f[x] \in Int /\ g[x] \in Int,
           \A x \in S : x # a => g[x] = f[x]
    PROVE  SumFunctionOnSet(g, S) =
              SumFunctionOnSet(f, S) + IF a \in S THEN g[a] - f[a] ELSE 0
  <1>1. CASE a \in S
    <2>1. SumFunctionOnSet(g, S) = SumFunctionOnSet(f, S) + (g[a] - f[a])
      BY <1>1, SumChange
    <2> QED
      BY <1>1, <2>1
  <1>2. CASE a \notin S
    <2>1. \A x \in S : f[x] = g[x]
      BY <1>2
    <2>2. SumFunctionOnSet(f, S) = SumFunctionOnSet(g, S)
      BY <2>1, SumSame
    <2>3. SumFunctionOnSet(f, S) \in Int
      BY SumInt
    <2> QED
      BY <1>2, <2>2, <2>3
  <1> QED
    BY <1>1, <1>2

=============================================================================
