-------------------------- MODULE DemoServers_proofs --------------------------
(***************************************************************************)
(* Proofs about DemoServers, for any number of records.  The first part is *)
(* about sums over finite sets, which the ledger's summary and the size of *)
(* an itinerary are: each lemma takes a counterexample with as few         *)
(* elements as possible and finds a smaller one.  The second part is one   *)
(* invariant per server and one lemma per server's step.                   *)
(***************************************************************************)
EXTENDS DemoServers, FiniteSetTheorems, SequenceTheorems, TLAPS

\* Of any subsets of a finite set there is a smallest.
LEMMA MinimalSubset ==
  ASSUME NEW S, IsFiniteSet(S), NEW T \in SUBSET (SUBSET S), T # {}
  PROVE  \E x \in T : \A y \in T : y \subseteq x => y = x
<1>1. IsWellFoundedOn(StrictSubsetOrdering(S), SUBSET S)
  BY FS_StrictSubsetOrderingWellFounded, FS_FiniteSubsetsOfFinite
<1>2. \E x \in T : \A y \in T : ~ (<<y, x>> \in StrictSubsetOrdering(S))
  BY <1>1, WFMin
<1>3. \A x, y \in T : <<y, x>> \in StrictSubsetOrdering(S) <=> y \subseteq x /\ y # x
  BY DEF StrictSubsetOrdering
<1>4. QED  BY <1>2, <1>3

\* The sum of the values f[x] for x in S.
Sum(f, S) == SumFunctionOnSet(f, S)

\* The element a sum begins with, and what the function that a sum is defined
\* by has to satisfy.
First(s) == CHOOSE x \in s : TRUE
Solves(f, g, S) ==
  g = [s \in SUBSET S |-> IF s = {} THEN 0 ELSE f[First(s)] + g[s \ {First(s)}]]

LEMMA FirstIn == \A s : s # {} => First(s) \in s
BY DEF First

LEMMA OneSolution ==
  ASSUME NEW f, NEW S, IsFiniteSet(S), NEW T \in SUBSET S,
         NEW g, NEW h, Solves(f, g, S), Solves(f, h, T)
  PROVE  \A s \in SUBSET T : g[s] = h[s]
<1> DEFINE Bad == {s \in SUBSET T : g[s] # h[s]}
<1>1. SUFFICES ASSUME Bad # {} PROVE FALSE
  OBVIOUS
<1>2. IsFiniteSet(T) /\ Bad \in SUBSET (SUBSET T)
  BY FS_Subset
<1> HIDE DEF Bad
<1>3. PICK s \in Bad : \A y \in Bad : y \subseteq s => y = s
  BY <1>1, <1>2, MinimalSubset
<1>4. s \in SUBSET T /\ g[s] # h[s]
  BY <1>3 DEF Bad
<1>5. \A u \in SUBSET S : g[u] = IF u = {} THEN 0 ELSE f[First(u)] + g[u \ {First(u)}]
  BY DEF Solves
<1>6. \A u \in SUBSET T : h[u] = IF u = {} THEN 0 ELSE f[First(u)] + h[u \ {First(u)}]
  BY DEF Solves
<1>7. s # {}
  BY <1>4, <1>5, <1>6
<1>8. s \ {First(s)} \subseteq s /\ s \ {First(s)} # s /\ s \ {First(s)} \in SUBSET T
  BY <1>4, <1>7, FirstIn
<1>9. g[s \ {First(s)}] = h[s \ {First(s)}]
  BY <1>3, <1>8 DEF Bad
<1>10. QED  BY <1>4, <1>5, <1>6, <1>7, <1>9

LEMMA SolutionExists ==
  ASSUME NEW f, NEW S, IsFiniteSet(S)
  PROVE  \E g : Solves(f, g, S)
<1> DEFINE Bad == {s \in SUBSET S : ~ \E g : Solves(f, g, s)}
<1>1. SUFFICES ASSUME Bad # {} PROVE FALSE
  OBVIOUS
<1>a. Bad \in SUBSET (SUBSET S)
  OBVIOUS
<1> HIDE DEF Bad
<1>2. PICK B \in Bad : \A y \in Bad : y \subseteq B => y = B
  BY <1>1, <1>a, MinimalSubset
<1>3. \A t \in SUBSET B : t # B => \E g : Solves(f, g, t)
  BY <1>2, <1>a DEF Bad
<1>4. IsFiniteSet(B) /\ ~ \E g : Solves(f, g, B)
  BY <1>2, <1>a, FS_Subset DEF Bad
<1> DEFINE G(t) == CHOOSE g : Solves(f, g, t)
           Rest(s) == s \ {First(s)}
           h == [s \in SUBSET B |-> IF s = {} THEN 0 ELSE f[First(s)] + G(Rest(s))[Rest(s)]]
<1>5. \A t \in SUBSET B : t # B => Solves(f, G(t), t)
  BY <1>3
<1>6. \A s \in SUBSET B : s # {} => Rest(s) \in SUBSET B /\ Rest(s) # B /\ Rest(s) \subseteq s
  BY FirstIn
<1>7. \A s \in SUBSET B : s = {} => h[s] = 0
  OBVIOUS
<1>8. \A s \in SUBSET B : s # {} => h[s] = f[First(s)] + G(Rest(s))[Rest(s)]
  OBVIOUS
<1>h. h = [s \in SUBSET B |-> h[s]]
  OBVIOUS
<1> HIDE DEF G, h
<1>9. ASSUME NEW u \in SUBSET B, u # B
      PROVE  h[u] = G(u)[u]
  <2>1. Solves(f, G(u), u)
    BY <1>5, <1>9
  <2>2. \A s \in SUBSET u : G(u)[s] = IF s = {} THEN 0 ELSE f[First(s)] + G(u)[Rest(s)]
    BY <2>1 DEF Solves
  <2>3. CASE u = {}
    BY <2>2, <2>3, <1>7
  <2>4. CASE u # {}
    <3>1. Rest(u) \in SUBSET u /\ Rest(u) \in SUBSET B /\ Rest(u) # B
      BY <1>6, <2>4
    <3>2. Solves(f, G(Rest(u)), Rest(u))
      BY <1>5, <3>1
    <3>3. IsFiniteSet(u)
      BY <1>4, FS_Subset
    <3> HIDE DEF Rest
    <3>4. G(u)[Rest(u)] = G(Rest(u))[Rest(u)]
      BY <2>1, <3>1, <3>2, <3>3, OneSolution
    <3>5. QED  BY <1>8, <2>2, <2>4, <3>4
  <2>5. QED  BY <2>3, <2>4
<1>10. \A s \in SUBSET B : h[s] = IF s = {} THEN 0 ELSE f[First(s)] + h[Rest(s)]
  BY <1>6, <1>7, <1>8, <1>9
<1>11. h = [s \in SUBSET B |-> IF s = {} THEN 0 ELSE f[First(s)] + h[Rest(s)]]
  BY <1>10, <1>h
<1>12. Solves(f, h, B)
  BY <1>11 DEF Solves
<1>13. QED  BY <1>4, <1>12

LEMMA SumSolves ==
  ASSUME NEW f, NEW S, IsFiniteSet(S)
  PROVE  \E g : Solves(f, g, S) /\ Sum(f, S) = g[S]
<1> DEFINE g == CHOOSE g : Solves(f, g, S)
<1>1. Solves(f, g, S)
  BY SolutionExists
<1>2. Sum(f, S) = g[S]
  BY DEF Sum, SumFunctionOnSet, FoldFunctionOnSet, MapThenFoldSet, Solves, First
<1>3. QED  BY <1>1, <1>2

LEMMA SumUnfolds ==
  ASSUME NEW f, NEW S, IsFiniteSet(S)
  PROVE  /\ S = {} => Sum(f, S) = 0
         /\ S # {} => Sum(f, S) = f[First(S)] + Sum(f, S \ {First(S)})
<1>1. PICK g : Solves(f, g, S) /\ Sum(f, S) = g[S]
  BY SumSolves
<1>2. \A s \in SUBSET S : g[s] = IF s = {} THEN 0 ELSE f[First(s)] + g[s \ {First(s)}]
  BY <1>1 DEF Solves
<1>3. ASSUME NEW T \in SUBSET S
      PROVE  Sum(f, T) = g[T]
  <2>1. IsFiniteSet(T)
    BY FS_Subset
  <2>2. PICK h : Solves(f, h, T) /\ Sum(f, T) = h[T]
    BY <2>1, SumSolves
  <2>3. QED  BY <1>1, <2>2, OneSolution
<1>4. QED  BY <1>1, <1>2, <1>3

\* Everything about sums is by taking a minimal counterexample.
LEMMA SumIsInt ==
  ASSUME NEW f, NEW S, IsFiniteSet(S), \A x \in S : f[x] \in Int
  PROVE  Sum(f, S) \in Int
<1> DEFINE Bad == {T \in SUBSET S : Sum(f, T) \notin Int}
<1>1. SUFFICES ASSUME Bad # {} PROVE FALSE
  OBVIOUS
<1>2. Bad \in SUBSET (SUBSET S)
  OBVIOUS
<1> HIDE DEF Bad
<1>3. PICK T \in Bad : \A U \in Bad : U \subseteq T => U = T
  BY <1>1, <1>2, MinimalSubset
<1>4. T \subseteq S /\ IsFiniteSet(T) /\ Sum(f, T) \notin Int
  BY <1>2, <1>3, FS_Subset DEF Bad
<1>5. T # {} /\ Sum(f, T) = f[First(T)] + Sum(f, T \ {First(T)})
  BY <1>4, SumUnfolds
<1>6. Sum(f, T \ {First(T)}) \in Int
  BY <1>3, <1>4, <1>5, FirstIn DEF Bad
<1>7. QED  BY <1>4, <1>5, <1>6, FirstIn

LEMMA SumTakesOut ==
  ASSUME NEW f, NEW S, IsFiniteSet(S), \A x \in S : f[x] \in Int, NEW x \in S
  PROVE  Sum(f, S) = f[x] + Sum(f, S \ {x})
<1> DEFINE Bad == {T \in SUBSET S :
                     \E y \in T : Sum(f, T) # f[y] + Sum(f, T \ {y})}
<1>1. SUFFICES ASSUME Bad # {} PROVE FALSE
  OBVIOUS
<1>2. Bad \in SUBSET (SUBSET S)
  OBVIOUS
<1> HIDE DEF Bad
<1>3. PICK T \in Bad : \A U \in Bad : U \subseteq T => U = T
  BY <1>1, <1>2, MinimalSubset
<1>4. T \subseteq S /\ IsFiniteSet(T)
  BY <1>2, <1>3, FS_Subset
<1>5. PICK y \in T : Sum(f, T) # f[y] + Sum(f, T \ {y})
  BY <1>3 DEF Bad
<1> DEFINE z == First(T)
<1>6. z \in T /\ Sum(f, T) = f[z] + Sum(f, T \ {z})
  BY <1>4, <1>5, SumUnfolds, FirstIn
<1> HIDE DEF z
<1>7. \A u \in SUBSET T : u # T => \A w \in u : Sum(f, u) = f[w] + Sum(f, u \ {w})
  BY <1>3, <1>4 DEF Bad
<1>8. y # z
  BY <1>5, <1>6
<1>9. Sum(f, T \ {z}) = f[y] + Sum(f, (T \ {z}) \ {y})
  BY <1>6, <1>7, <1>8
<1>10. Sum(f, T \ {y}) = f[z] + Sum(f, (T \ {y}) \ {z})
  BY <1>6, <1>7, <1>8
<1>11. (T \ {z}) \ {y} = (T \ {y}) \ {z}
  OBVIOUS
<1>12. f[y] \in Int /\ f[z] \in Int /\ Sum(f, (T \ {y}) \ {z}) \in Int
  <2>1. IsFiniteSet((T \ {y}) \ {z})
    BY <1>4, FS_Subset
  <2>2. QED  BY <2>1, <1>4, <1>6, SumIsInt
<1>13. Sum(f, T) = f[z] + (f[y] + Sum(f, (T \ {y}) \ {z}))
  BY <1>6, <1>9, <1>11
<1>14. f[y] + Sum(f, T \ {y}) = f[y] + (f[z] + Sum(f, (T \ {y}) \ {z}))
  BY <1>10
<1>15. \A i, j, k \in Int : i + (j + k) = j + (i + k)
  OBVIOUS
<1>16. QED  BY <1>5, <1>12, <1>13, <1>14, <1>15

LEMMA SumAgrees ==
  ASSUME NEW f, NEW g, NEW S, IsFiniteSet(S), \A x \in S : f[x] = g[x]
  PROVE  Sum(f, S) = Sum(g, S)
<1> DEFINE Bad == {T \in SUBSET S : Sum(f, T) # Sum(g, T)}
<1>1. SUFFICES ASSUME Bad # {} PROVE FALSE
  OBVIOUS
<1>2. Bad \in SUBSET (SUBSET S)
  OBVIOUS
<1> HIDE DEF Bad
<1>3. PICK T \in Bad : \A U \in Bad : U \subseteq T => U = T
  BY <1>1, <1>2, MinimalSubset
<1>4. T \subseteq S /\ IsFiniteSet(T) /\ Sum(f, T) # Sum(g, T)
  BY <1>2, <1>3, FS_Subset DEF Bad
<1>5. /\ T # {}
      /\ Sum(f, T) = f[First(T)] + Sum(f, T \ {First(T)})
      /\ Sum(g, T) = g[First(T)] + Sum(g, T \ {First(T)})
  BY <1>4, SumUnfolds
<1>6. Sum(f, T \ {First(T)}) = Sum(g, T \ {First(T)})
  BY <1>3, <1>4, <1>5, FirstIn DEF Bad
<1>7. f[First(T)] = g[First(T)]
  BY <1>4, <1>5, FirstIn
<1>8. QED  BY <1>4, <1>5, <1>6, <1>7

LEMMA SumAdds ==
  ASSUME NEW f, NEW S, IsFiniteSet(S), \A x \in S : f[x] \in Int, NEW A \in SUBSET S
  PROVE  Sum(f, S) = Sum(f, A) + Sum(f, S \ A)
<1> DEFINE Bad == {T \in SUBSET S :
                     Sum(f, T) # Sum(f, T \cap A) + Sum(f, T \ A)}
<1>1. SUFFICES ASSUME Bad # {} PROVE FALSE
  <2>1. S \notin Bad
    BY <1>1
  <2>2. S \cap A = A
    OBVIOUS
  <2>3. QED  BY <2>1, <2>2
<1>2. Bad \in SUBSET (SUBSET S)
  OBVIOUS
<1> HIDE DEF Bad
<1>3. PICK T \in Bad : \A U \in Bad : U \subseteq T => U = T
  BY <1>1, <1>2, MinimalSubset
<1>4. /\ T \in SUBSET S
      /\ Sum(f, T) # Sum(f, T \cap A) + Sum(f, T \ A)
  BY <1>2, <1>3 DEF Bad
<1>5. \A U \in SUBSET S : IsFiniteSet(U) /\ Sum(f, U) \in Int
  <2>1. ASSUME NEW U \in SUBSET S
        PROVE  IsFiniteSet(U) /\ Sum(f, U) \in Int
    <3>1. IsFiniteSet(U)
      BY FS_Subset
    <3>2. QED  BY <3>1, SumIsInt
  <2>2. QED  BY <2>1
<1>6. T # {}
  <2>1. Sum(f, {}) = 0
    BY <1>5, SumUnfolds
  <2>2. SUFFICES ASSUME T = {} PROVE FALSE
    OBVIOUS
  <2>3. T \cap A = {} /\ T \ A = {}
    BY <2>2
  <2>4. QED  BY <1>4, <2>1, <2>2, <2>3
<1>7. PICK x : x \in T
  BY <1>6
<1> DEFINE U == T \ {x}
<1>8. /\ U \in SUBSET S /\ U \cap A \in SUBSET S /\ U \ A \in SUBSET S
      /\ f[x] \in Int
  BY <1>4, <1>7
<1>9. Sum(f, U) = Sum(f, U \cap A) + Sum(f, U \ A)
  BY <1>3, <1>4, <1>7 DEF Bad
<1>10. Sum(f, T) = f[x] + Sum(f, U)
  BY <1>4, <1>5, <1>7, SumTakesOut
<1>11. CASE x \in A
  <2>1. Sum(f, T \cap A) = f[x] + Sum(f, (T \cap A) \ {x})
    <3>1. IsFiniteSet(T \cap A) /\ \A y \in T \cap A : f[y] \in Int
      BY <1>4, <1>5
    <3>2. QED  BY <3>1, <1>7, <1>11, SumTakesOut
  <2>2. (T \cap A) \ {x} = U \cap A /\ T \ A = U \ A
    BY <1>11
  <2>3. Sum(f, T) = f[x] + (Sum(f, U \cap A) + Sum(f, U \ A))
    BY <1>9, <1>10
  <2>4. /\ Sum(f, T \cap A) = f[x] + Sum(f, U \cap A)
        /\ Sum(f, T \ A) = Sum(f, U \ A)
    BY <2>1, <2>2
  <2> HIDE DEF U
  <2>5. Sum(f, U \cap A) \in Int /\ Sum(f, U \ A) \in Int
    BY <1>5, <1>8
  <2> DEFINE a == Sum(f, U \cap A)
             b == Sum(f, U \ A)
             c == Sum(f, T \cap A)
             d == Sum(f, T \ A)
  <2>6. c = f[x] + a /\ d = b
    BY <2>4
  <2>7. Sum(f, T) = f[x] + (a + b) /\ Sum(f, T) # c + d /\ a \in Int /\ b \in Int
    BY <1>4, <2>3, <2>5
  <2> HIDE DEF a, b, c, d
  <2>8. QED  BY <1>8, <2>6, <2>7
<1>12. CASE x \notin A
  <2>1. Sum(f, T \ A) = f[x] + Sum(f, (T \ A) \ {x})
    <3>1. IsFiniteSet(T \ A) /\ \A y \in T \ A : f[y] \in Int
      BY <1>4, <1>5
    <3>2. QED  BY <3>1, <1>7, <1>12, SumTakesOut
  <2>2. (T \ A) \ {x} = U \ A /\ T \cap A = U \cap A
    BY <1>12
  <2>3. Sum(f, T) = f[x] + (Sum(f, U \cap A) + Sum(f, U \ A))
    BY <1>9, <1>10
  <2>4. /\ Sum(f, T \ A) = f[x] + Sum(f, U \ A)
        /\ Sum(f, T \cap A) = Sum(f, U \cap A)
    BY <2>1, <2>2
  <2> HIDE DEF U
  <2>5. Sum(f, U \cap A) \in Int /\ Sum(f, U \ A) \in Int
    BY <1>5, <1>8
  <2> DEFINE a == Sum(f, U \cap A)
             b == Sum(f, U \ A)
             c == Sum(f, T \cap A)
             d == Sum(f, T \ A)
  <2>6. c = a /\ d = f[x] + b
    BY <2>4
  <2>7. Sum(f, T) = f[x] + (a + b) /\ Sum(f, T) # c + d /\ a \in Int /\ b \in Int
    BY <1>4, <2>3, <2>5
  <2> HIDE DEF a, b, c, d
  <2>8. QED  BY <1>8, <2>6, <2>7
<1>13. QED  BY <1>11, <1>12

KeysOf(k, S)     == {k[x] : x \in S}
Group(k, S, c)   == {x \in S : k[x] = c}
GroupSums(f, k, S) == [c \in KeysOf(k, S) |-> Sum(f, Group(k, S, c))]

LEMMA SumByGroups ==
  ASSUME NEW f, NEW k, NEW S, IsFiniteSet(S), \A x \in S : f[x] \in Int
  PROVE  Sum(GroupSums(f, k, S), KeysOf(k, S)) = Sum(f, S)
<1> DEFINE Bad == {T \in SUBSET S :
                     Sum(GroupSums(f, k, T), KeysOf(k, T)) # Sum(f, T)}
<1>1. SUFFICES ASSUME Bad # {} PROVE FALSE
  OBVIOUS
<1>2. Bad \in SUBSET (SUBSET S)
  OBVIOUS
<1> HIDE DEF Bad
<1>3. PICK T \in Bad : \A U \in Bad : U \subseteq T => U = T
  BY <1>1, <1>2, MinimalSubset
<1>4. /\ T \in SUBSET S /\ IsFiniteSet(T)
      /\ Sum(GroupSums(f, k, T), KeysOf(k, T)) # Sum(f, T)
  BY <1>2, <1>3, FS_Subset DEF Bad
<1>5. ASSUME NEW U \in SUBSET S
      PROVE  Sum(f, U) \in Int
  <2>1. IsFiniteSet(U) /\ \A y \in U : f[y] \in Int
    BY FS_Subset
  <2>2. QED  BY <2>1, SumIsInt
<1>6. T # {}
  <2>1. SUFFICES ASSUME T = {} PROVE FALSE
    OBVIOUS
  <2>2. KeysOf(k, T) = {} /\ IsFiniteSet({})
    BY <2>1, FS_EmptySet DEF KeysOf
  <2>3. /\ Sum(GroupSums(f, k, T), {}) = 0
        /\ Sum(f, {}) = 0
    BY <2>2, SumUnfolds
  <2>4. QED  BY <1>4, <2>1, <2>2, <2>3
<1>7. PICK x : x \in T
  BY <1>6
<1> DEFINE c == k[x]
           A == Group(k, T, c)
           U == T \ A
           K == KeysOf(k, T)
           F == GroupSums(f, k, T)
<1>8. /\ A \in SUBSET T /\ A \in SUBSET S /\ U \in SUBSET S /\ U \subseteq T
      /\ U # T /\ c \in K
  BY <1>4, <1>7 DEF Group, KeysOf
<1>9. IsFiniteSet(K)
  <2>1. [y \in T |-> k[y]] \in Surjection(T, K)
    BY DEF Surjection, KeysOf
  <2>2. QED  BY <1>4, <2>1, FS_Surjection
<1>10. KeysOf(k, U) = K \ {c}
  BY DEF KeysOf, Group
<1>11. \A d \in K \ {c} : F[d] = GroupSums(f, k, U)[d]
  <2>1. \A d \in K \ {c} : Group(k, T, d) = Group(k, U, d)
    BY DEF Group
  <2>2. \A d \in K \ {c} : F[d] = Sum(f, Group(k, T, d))
    BY DEF GroupSums
  <2>3. \A d \in KeysOf(k, U) : GroupSums(f, k, U)[d] = Sum(f, Group(k, U, d))
    BY DEF GroupSums
  <2>4. QED  BY <1>10, <2>1, <2>2, <2>3
<1>12. F[c] = Sum(f, A)
  BY <1>8 DEF GroupSums
<1>13. \A d \in K : F[d] \in Int
  <2>1. \A d \in K : F[d] = Sum(f, Group(k, T, d)) /\ Group(k, T, d) \in SUBSET S
    BY <1>4 DEF GroupSums, Group
  <2>2. QED  BY <1>5, <2>1
<1>14. Sum(GroupSums(f, k, U), KeysOf(k, U)) = Sum(f, U)
  BY <1>3, <1>8 DEF Bad
<1>15. Sum(f, T) = Sum(f, A) + Sum(f, U)
  BY <1>4, <1>8, SumAdds
<1> HIDE DEF c, A, U, K, F
<1>16. Sum(F, K) = F[c] + Sum(F, K \ {c})
  BY <1>8, <1>9, <1>13, SumTakesOut
<1>17. Sum(F, K \ {c}) = Sum(GroupSums(f, k, U), K \ {c})
  <2>1. IsFiniteSet(K \ {c})
    BY <1>9, FS_Subset
  <2>2. QED  BY <2>1, <1>11, SumAgrees
<1>18. Sum(F, K) = Sum(f, T)
  BY <1>10, <1>12, <1>14, <1>15, <1>16, <1>17
<1>19. QED  BY <1>4, <1>18 DEF F, K

\* A sum of which one term changes.
LEMMA SumChanges ==
  ASSUME NEW f, NEW g, NEW S, IsFiniteSet(S), NEW x \in S,
         \A y \in S : f[y] \in Int /\ g[y] \in Int,
         \A y \in S \ {x} : f[y] = g[y]
  PROVE  /\ Sum(f, S) \in Int /\ Sum(g, S) \in Int
         /\ f[x] <= g[x] => Sum(f, S) <= Sum(g, S)
<1>1. IsFiniteSet(S \ {x})
  BY FS_Subset
<1>2. Sum(f, S \ {x}) = Sum(g, S \ {x}) /\ Sum(f, S \ {x}) \in Int
  BY <1>1, SumAgrees, SumIsInt
<1>3. Sum(f, S) = f[x] + Sum(f, S \ {x}) /\ Sum(g, S) = g[x] + Sum(g, S \ {x})
  BY SumTakesOut
<1>4. QED  BY <1>2, <1>3

LEMMA MaxExists ==
  ASSUME NEW S, IsFiniteSet(S), S # {}, S \subseteq Int
  PROVE  Max(S) \in S /\ \A x \in S : x <= Max(S)
<1> DEFINE Bad == {T \in SUBSET S : T # {} /\ \A m \in T : \E x \in T : ~ (x <= m)}
<1>1. SUFFICES ASSUME Bad # {} PROVE FALSE
  <2>1. S \notin Bad
    BY <1>1
  <2>2. \E m \in S : \A x \in S : m >= x
    BY <2>1
  <2>3. QED  BY <2>2 DEF Max
<1>2. Bad \in SUBSET (SUBSET S)
  OBVIOUS
<1> HIDE DEF Bad
<1>3. PICK T \in Bad : \A U \in Bad : U \subseteq T => U = T
  <2>1. IsFiniteSet(S) /\ Bad # {}
    BY <1>1
  <2>2. \E T \in Bad : \A U \in Bad : U \subseteq T => U = T
    BY ONLY <1>2, <2>1, MinimalSubset
  <2>3. QED  BY <2>2
<1>4. T \in SUBSET S /\ T # {} /\ \A m \in T : \E x \in T : ~ (x <= m)
  BY <1>3 DEF Bad
<1>5. PICK y \in T : y \in Int
  BY <1>4
<1>6. PICK m \in T \ {y} : \A x \in T \ {y} : x <= m
  <2>1. T \ {y} \in SUBSET S /\ T \ {y} # T /\ T \ {y} \subseteq T
    BY <1>4, <1>5
  <2>2. T \ {y} # {}
    BY <1>4, <1>5
  <2>3. T \ {y} \notin Bad
    BY <1>3, <2>1
  <2>4. QED  BY <2>1, <2>2, <2>3 DEF Bad
<1>7. \A x \in T : x <= IF m <= y THEN y ELSE m
  BY <1>4, <1>5, <1>6
<1>8. QED  BY <1>4, <1>5, <1>6, <1>7
-----------------------------------------------------------------------------
(* The invariant.  Ids given out are below the next one; the latest call   *)
(* has had its effect.                                                     *)

CommonInv ==
  /\ server \in Servers
  /\ next \in Int
  /\ IsFiniteSet(DOMAIN items)
  /\ server # "travel_planner" =>
       \A i \in DOMAIN items \cup gone : i \in Int /\ i < next

Task == [status : ActiveStatuses \cup {"archived"}, archived : BOOLEAN, activity : Nat]

TaskBoardInv ==
  /\ items \in [DOMAIN items -> Task]
  /\ \A i \in DOMAIN items : items[i].archived <=> items[i].status = "archived"
  /\ \A i, status : last = <<"task_update_status", <<i, status>>>> =>
       i \in DOMAIN items /\ items[i].status = status
  /\ \A i : last = <<"task_archive", i>> =>
       i \in DOMAIN items /\ items[i].archived

BookmarkInv ==
  /\ items = [i \in DOMAIN items |-> items[i]]
  /\ DOMAIN items \cap gone = {}
  /\ \A i : last = <<"bookmark_delete", i>> => i \in gone

Asset == [status : {"active", "deprecated"}, component : BOOLEAN]

DesignInv ==
  /\ items \in [DOMAIN items -> Asset]
  /\ parts \in [{i \in DOMAIN items : items[i].component} -> {"active", "deprecated"}]
  /\ \A i \in DOMAIN parts : parts[i] = items[i].status
  /\ \A i : last = <<"asset_deprecate", i>> =>
       i \in DOMAIN items /\ items[i].status = "deprecated"

LedgerInv ==
  \A i \in DOMAIN items : items[i].amount \in Int /\ items[i].amount # 0

VaultInv ==
  /\ gone \cap DOMAIN items = {}
  /\ IsFiniteSet(gone) /\ IsFiniteSet(events)
  /\ \A e \in events : e.about \in gone
  /\ Cardinality(events) = Cardinality(gone)
  /\ given = gone \cup DOMAIN items

OpsInv ==
  /\ parts \in [{"gateway", "backup-agent"} -> {"healthy", "warning"}]
  /\ WarningIsAnswered

LabInv ==
  /\ items \in [DOMAIN items -> Devices]
  /\ parts \in [{"smb", "dns"} -> Nat]
  /\ IsFiniteSet(events)
  /\ \A e \in events : /\ e.kind = "log"
                       /\ e.number \in Int
                       /\ e.number <= Cardinality(events)
  /\ RestartsAreLogged

Stop == [place : Places, day : Int]

TravelInv ==
  /\ items \in [{"tokyo", "seoul"} -> Seq(Stop)]
  /\ \A t \in DOMAIN items : \A j, k \in DOMAIN items[t] :
       items[t][j].place = items[t][k].place => j = k

DemoInv ==
  /\ CommonInv
  /\ server = "task_board" => TaskBoardInv
  /\ server = "bookmark_research" => BookmarkInv
  /\ server = "design_assets" => DesignInv
  /\ server = "finance_ledger" => LedgerInv
  /\ server = "knowledge_vault" => VaultInv
  /\ server = "personal_ops" => OpsInv
  /\ server = "home_lab" => LabInv
  /\ server = "travel_planner" => TravelInv

LEMMA ServersAre ==
  Servers = {"task_board", "bookmark_research", "design_assets", "finance_ledger",
             "knowledge_vault", "personal_ops", "home_lab", "travel_planner"}
BY DEF Servers, Tools

-----------------------------------------------------------------------------
(* The records a server starts from.                                       *)

LEMMA StartsWell == Init => DemoInv
<1> SUFFICES ASSUME Init PROVE DemoInv
  OBVIOUS
<1>0. /\ server \in Servers /\ items = StartItems /\ parts = StartParts /\ gone = {}
      /\ next = StartNext /\ events = StartEvents /\ last = NoCall
      /\ given = DOMAIN items
  BY DEF Init
<1>i. \A i, j \in Int : /\ IsFiniteSet(i..j)
                        /\ Cardinality(i..j) = IF i > j THEN 0 ELSE j-i+1
  BY FS_Interval
<1>c. Cardinality({}) = 0 /\ Cardinality({1}) = 1 /\ Cardinality(1..2) = 2
  <2>1. 1 \in Int /\ 2 \in Int /\ (IF 1 > 2 THEN 0 ELSE 2-1+1) = 2
    OBVIOUS
  <2>2. ASSUME NEW n \in Int, n = 2
        PROVE  Cardinality(1..n) = 2
    BY <1>i, <2>1, <2>2
  <2>3. Cardinality(1..2) = 2
    BY <2>1, <2>2, Zenon
  <2>4. QED  BY <2>3, FS_EmptySet, FS_Singleton, Zenon
<1>f. /\ IsFiniteSet({}) /\ IsFiniteSet({1}) /\ IsFiniteSet(1..2)
      /\ IsFiniteSet(-1..0) /\ IsFiniteSet(-2..0)
  <2>1. 1 \in Int /\ 2 \in Int /\ -1 \in Int /\ -2 \in Int /\ 0 \in Int
    OBVIOUS
  <2>2. IsFiniteSet(1..2) /\ IsFiniteSet(-1..0) /\ IsFiniteSet(-2..0)
    BY <1>i, <2>1, Zenon
  <2>3. QED  BY <2>2, FS_EmptySet, FS_Singleton, Zenon
<1>n. server # "travel_planner" =>
        next = Cardinality({i \in DOMAIN StartItems : i > 0}) + 1
  BY <1>0 DEF StartNext
<1>1. CASE server = "task_board"
  <2>1. items = TaskFixtures /\ next = 3
    <3>1. items = TaskFixtures
      BY <1>0, <1>1 DEF StartItems
    <3>2. {i \in DOMAIN StartItems : i > 0} = 1..2
      BY <1>0, <3>1 DEF TaskFixtures
    <3>3. QED  BY <1>1, <1>c, <1>n, <3>1, <3>2
  <2>2. CommonInv
    BY <1>0, <1>f, <2>1 DEF CommonInv, TaskFixtures
  <2>3. TaskBoardInv
    BY <1>0, <2>1 DEF TaskBoardInv, TaskFixtures, Task, ActiveStatuses, NoCall
  <2>4. QED  BY <1>1, <2>2, <2>3 DEF DemoInv
<1>2. CASE server = "bookmark_research"
  <2>1. items = BookmarkFixtures /\ next = 3
    <3>1. items = BookmarkFixtures
      BY <1>0, <1>2 DEF StartItems
    <3>2. {i \in DOMAIN StartItems : i > 0} = 1..2
      BY <1>0, <3>1 DEF BookmarkFixtures
    <3>3. QED  BY <1>2, <1>c, <1>n, <3>1, <3>2
  <2>2. CommonInv
    BY <1>0, <1>f, <2>1 DEF CommonInv, BookmarkFixtures
  <2>3. BookmarkInv
    BY <1>0, <2>1 DEF BookmarkInv, BookmarkFixtures, NoCall
  <2>4. QED  BY <1>2, <2>2, <2>3 DEF DemoInv
<1>3. CASE server = "design_assets"
  <2>1. items = AssetFixtures /\ next = 1 /\ parts = ComponentFixtures
    <3>1. items = AssetFixtures /\ parts = ComponentFixtures
      BY <1>0, <1>3 DEF StartItems, StartParts
    <3>2. {i \in DOMAIN StartItems : i > 0} = {}
      BY <1>0, <3>1 DEF AssetFixtures
    <3>3. QED  BY <1>3, <1>c, <1>n, <3>1, <3>2
  <2>2. CommonInv
    BY <1>0, <1>f, <2>1 DEF CommonInv, AssetFixtures
  <2>3. DesignInv
    <3>1. \A i \in -2..0 : AssetFixtures[i].component <=> i # 0
      BY Zenon DEF AssetFixtures
    <3>2. DOMAIN items = -2..0 /\ {i \in DOMAIN items : items[i].component} = {-2, -1}
      <4>1. DOMAIN items = -2..0
        BY <2>1 DEF AssetFixtures
      <4>2. {i \in -2..0 : i # 0} = {-2, -1}
        OBVIOUS
      <4>3. {i \in DOMAIN items : items[i].component} = {i \in -2..0 : i # 0}
        BY <2>1, <3>1, <4>1, Zenon
      <4>4. QED  BY <4>1, <4>2, <4>3
    <3>3. items \in [DOMAIN items -> Asset]
      BY <2>1 DEF AssetFixtures, Asset
    <3>4. parts \in [{-2, -1} -> {"active", "deprecated"}]
      BY <2>1 DEF ComponentFixtures, AssetFixtures
    <3>5. \A i \in {-2, -1} : parts[i] = items[i].status
      BY <2>1 DEF ComponentFixtures
    <3>6. QED  BY <1>0, <3>2, <3>3, <3>4, <3>5 DEF DesignInv, NoCall
  <2>4. QED  BY <1>3, <2>2, <2>3 DEF DemoInv
<1>4. CASE server = "finance_ledger"
  <2>1. items = TransactionFixtures /\ next = 1
    <3>1. items = TransactionFixtures
      BY <1>0, <1>4 DEF StartItems
    <3>2. {i \in DOMAIN StartItems : i > 0} = {}
      BY <1>0, <3>1 DEF TransactionFixtures
    <3>3. QED  BY <1>4, <1>c, <1>n, <3>1, <3>2
  <2>2. CommonInv
    BY <1>0, <1>f, <2>1 DEF CommonInv, TransactionFixtures
  <2>3. LedgerInv
    BY <2>1 DEF LedgerInv, TransactionFixtures
  <2>4. QED  BY <1>4, <2>2, <2>3 DEF DemoInv
<1>5. CASE server = "knowledge_vault"
  <2>1. items = VaultFixtures /\ next = 3 /\ events = {}
    <3>1. items = VaultFixtures /\ events = {}
      BY <1>0, <1>5 DEF StartItems, StartEvents
    <3>2. {i \in DOMAIN StartItems : i > 0} = 1..2
      BY <1>0, <3>1 DEF VaultFixtures
    <3>3. QED  BY <1>5, <1>c, <1>n, <3>1, <3>2
  <2>2. CommonInv
    BY <1>0, <1>f, <2>1 DEF CommonInv, VaultFixtures
  <2>3. VaultInv
    BY <1>0, <1>c, <1>f, <2>1 DEF VaultInv
  <2>4. QED  BY <1>5, <2>2, <2>3 DEF DemoInv
<1>6. CASE server = "personal_ops"
  <2>1. items = Nothing /\ next = 1 /\ parts = OpsServices /\ events = {}
    <3>1. items = Nothing /\ parts = OpsServices /\ events = {}
      BY <1>0, <1>6 DEF StartItems, StartParts, StartEvents
    <3>2. {i \in DOMAIN StartItems : i > 0} = {}
      BY <1>0, <3>1 DEF Nothing
    <3>3. QED  BY <1>6, <1>c, <1>n, <3>1, <3>2
  <2>2. CommonInv
    BY <1>0, <1>f, <2>1 DEF CommonInv, Nothing
  <2>3. OpsInv
    BY <2>1 DEF OpsInv, OpsServices, WarningIsAnswered
  <2>4. QED  BY <1>6, <2>2, <2>3 DEF DemoInv
<1>7. CASE server = "home_lab"
  <2>1. items = LabNotes /\ next = 2 /\ parts = LabServices /\ events = LabLogs
    <3>1. items = LabNotes /\ parts = LabServices /\ events = LabLogs
      BY <1>0, <1>7 DEF StartItems, StartParts, StartEvents
    <3>2. {i \in DOMAIN StartItems : i > 0} = {1}
      BY <1>0, <3>1 DEF LabNotes
    <3>3. QED  BY <1>7, <1>c, <1>n, <3>1, <3>2
  <2>2. CommonInv
    BY <1>0, <1>f, <2>1 DEF CommonInv, LabNotes
  <2>3. LabInv
    <3>1. items \in [DOMAIN items -> Devices] /\ parts \in [{"smb", "dns"} -> Nat]
      BY <2>1 DEF LabNotes, LabServices, Devices
    <3>2. IsFiniteSet(events) /\ Cardinality(events) = 2
      <4> DEFINE a == [kind |-> "log", about |-> "smb", number |-> 1]
                 b == [kind |-> "log", about |-> "dns", number |-> 2]
      <4>1. events = {a} \cup {b} /\ b \notin {a}
        BY <2>1 DEF LabLogs
      <4> HIDE DEF a, b
      <4>2. IsFiniteSet({a}) /\ Cardinality({a}) = 1
        BY FS_Singleton
      <4>3. QED  BY <4>1, <4>2, FS_AddElement
    <3>3. \A e \in events : e.kind = "log" /\ e.number \in Int /\ e.number <= Cardinality(events)
      BY <2>1, <3>2 DEF LabLogs
    <3>4. RestartsAreLogged
      <4>1. \A service \in DOMAIN parts :
              Cardinality(ServiceLogs(service)) =
                parts[service] + Cardinality({e \in LabLogs : e.about = service})
        <5>1. ASSUME NEW service \in DOMAIN parts
              PROVE  Cardinality(ServiceLogs(service)) =
                       parts[service] + Cardinality({e \in LabLogs : e.about = service})
          <6>1. parts[service] = 0
            BY <2>1, <5>1 DEF LabServices
          <6>2. ServiceLogs(service) = {e \in LabLogs : e.about = service}
            BY <2>1 DEF ServiceLogs
          <6>3. Cardinality({e \in LabLogs : e.about = service}) \in Nat
            <7>1. IsFiniteSet({e \in LabLogs : e.about = service})
              BY <2>1, <3>2, FS_Subset
            <7>2. QED  BY <7>1, FS_CardinalityType
          <6>4. QED  BY <6>1, <6>2, <6>3
        <5>2. QED  BY <5>1
      <4>2. \A e, f \in events : e.number = f.number => e = f
        BY <2>1 DEF LabLogs
      <4>3. UNION {OpenAlerts(device) : device \in Devices} = DOMAIN items
        BY <3>1 DEF OpenAlerts
      <4>4. QED  BY <4>1, <4>2, <4>3 DEF RestartsAreLogged
    <3>5. QED  BY <3>1, <3>2, <3>3, <3>4 DEF LabInv
  <2>4. QED  BY <1>7, <2>2, <2>3 DEF DemoInv
<1>8. CASE server = "travel_planner"
  <2>1. items = Itineraries /\ next = 1
    BY <1>0, <1>8 DEF StartItems, StartNext
  <2>2. CommonInv
    <3>1. IsFiniteSet({"tokyo", "seoul"})
      <4>1. IsFiniteSet({"tokyo"} \cup {"seoul"})
        BY FS_Singleton, FS_AddElement
      <4>2. {"tokyo", "seoul"} = {"tokyo"} \cup {"seoul"}
        OBVIOUS
      <4>3. QED  BY <4>1, <4>2
    <3>2. QED  BY <1>0, <1>8, <2>1, <3>1 DEF CommonInv, Itineraries
  <2>3. TravelInv
    BY <2>1 DEF TravelInv, Itineraries, Stop, Places
  <2>4. QED  BY <1>8, <2>2, <2>3 DEF DemoInv
<1>9. QED
  BY <1>0, <1>1, <1>2, <1>3, <1>4, <1>5, <1>6, <1>7, <1>8, ServersAre

-----------------------------------------------------------------------------
(* What the steps share.                                                   *)

LEMMA SizeIs ==
  ASSUME CommonInv, server # "travel_planner"
  PROVE  Size = Cardinality(DOMAIN items) /\ Size \in Nat
BY FS_CardinalityType DEF Size, CommonInv

\* A handler that adds a record.
LEMMA AddKeeps ==
  ASSUME CommonInv, server # "travel_planner", server' = server,
         NEW record, Add(record), gone' \subseteq gone
  PROVE  /\ CommonInv'
         /\ DOMAIN items' = DOMAIN items \cup {next}
         /\ next \notin DOMAIN items \cup gone
         /\ items' = [i \in DOMAIN items' |-> items'[i]]
         /\ items'[next] = record
         /\ \A i \in DOMAIN items : items'[i] = items[i]
         /\ ~ (Size' < Size)
<1>1. next \in Int /\ next' = next + 1 /\ \A i \in DOMAIN items \cup gone : i \in Int /\ i < next
  BY DEF CommonInv, Add
<1>2. items' = [j \in DOMAIN items \cup {next} |-> IF j = next THEN record ELSE items[j]]
  BY DEF Add, With
<1>3. DOMAIN items' = DOMAIN items \cup {next} /\ next \notin DOMAIN items \cup gone
  BY <1>1, <1>2
<1>4. /\ items' = [i \in DOMAIN items' |-> items'[i]]
      /\ items'[next] = record
      /\ \A i \in DOMAIN items : items'[i] = items[i]
  BY <1>2, <1>3
<1>5. /\ IsFiniteSet(DOMAIN items')
      /\ Cardinality(DOMAIN items') = Cardinality(DOMAIN items) + 1
  BY <1>3, FS_AddElement DEF CommonInv
<1>6. CommonInv'
  BY <1>1, <1>3, <1>5 DEF CommonInv
<1>7. Size = Cardinality(DOMAIN items) /\ Size \in Nat
  BY SizeIs
<1>8. Size' = Cardinality(DOMAIN items')
  BY DEF Size
<1>9. QED  BY <1>3, <1>4, <1>5, <1>6, <1>7, <1>8

\* A handler that changes records in place.
LEMMA ChangeKeeps ==
  ASSUME CommonInv, server # "travel_planner", server' = server,
         DOMAIN items' = DOMAIN items, next' = next, gone' = gone
  PROVE  CommonInv' /\ ~ (Size' < Size)
<1>1. CommonInv'
  BY DEF CommonInv
<1>2. Size = Cardinality(DOMAIN items) /\ Size \in Nat /\ Size' = Cardinality(DOMAIN items)
  BY SizeIs DEF Size
<1>3. QED  BY <1>1, <1>2

\* A handler that deletes a record, if it is there.
LEMMA DeleteKeeps ==
  ASSUME CommonInv, server # "travel_planner", server' = server, next' = next,
         NEW i \in DOMAIN items \cup gone,
         items' = Without(items, i), gone' \subseteq gone \cup {i}
  PROVE  /\ CommonInv'
         /\ DOMAIN items' = DOMAIN items \ {i}
         /\ items' = [j \in DOMAIN items' |-> items'[j]]
         /\ \A j \in DOMAIN items' : items'[j] = items[j]
<1>1. items' = [j \in DOMAIN items \ {i} |-> items[j]]
  BY DEF Without
<1>2. DOMAIN items' = DOMAIN items \ {i}
  BY <1>1
<1>3. IsFiniteSet(DOMAIN items')
  BY <1>2, FS_Subset DEF CommonInv
<1>4. CommonInv'
  BY <1>2, <1>3 DEF CommonInv
<1>5. QED  BY <1>1, <1>2, <1>4

-----------------------------------------------------------------------------
(* One lemma per server.                                                   *)

LEMMA TaskBoardStep ==
  ASSUME DemoInv, TaskBoard
  PROVE  DemoInv' /\ HintKept
<1>0. server = "task_board" /\ server' = server
  BY DEF TaskBoard, TaskCreate, TaskUpdateStatus, TaskArchive
<1>1. CommonInv /\ TaskBoardInv
  BY <1>0 DEF DemoInv
<1>2. Tools[server] = TaskBoardTools
  BY <1>0 DEF Tools
<1>3. SUFFICES CommonInv' /\ TaskBoardInv' /\ HintKept
  BY <1>0 DEF DemoInv
<1>4. CASE \E status \in ActiveStatuses : TaskCreate(status)
  <2>1. PICK status \in ActiveStatuses : TaskCreate(status)
    BY <1>4
  <2> DEFINE new == [status |-> status, archived |-> FALSE, activity |-> 1]
  <2>2. /\ Add(new) /\ gone' = gone
        /\ last' = <<"task_create", status>>
    BY <2>1 DEF TaskCreate, Called
  <2>n. new \in Task /\ ~ new.archived /\ new.status # "archived"
    BY <2>1 DEF Task, ActiveStatuses
  <2> HIDE DEF new
  <2>3. /\ CommonInv'
        /\ DOMAIN items' = DOMAIN items \cup {next}
        /\ items' = [i \in DOMAIN items' |-> items'[i]]
        /\ items'[next] = new
        /\ \A i \in DOMAIN items : items'[i] = items[i]
        /\ ~ (Size' < Size)
    BY <1>0, <1>1, <2>2, AddKeeps
  <2>4. TaskBoardInv'
    <3>1. items' \in [DOMAIN items' -> Task]
      BY <1>1, <2>n, <2>3 DEF TaskBoardInv
    <3>2. \A i \in DOMAIN items' : items'[i].archived <=> items'[i].status = "archived"
      BY <1>1, <2>n, <2>3 DEF TaskBoardInv
    <3>3. QED  BY <2>2, <3>1, <3>2 DEF TaskBoardInv
  <2>5. HintKept
    BY <1>2, <2>2, <2>3 DEF HintKept, TaskBoardTools, Hints
  <2>6. QED  BY <2>3, <2>4, <2>5
<1>5. CASE \E i \in DOMAIN items, status \in ActiveStatuses : TaskUpdateStatus(i, status)
  <2>1. PICK i \in DOMAIN items, status \in ActiveStatuses : TaskUpdateStatus(i, status)
    BY <1>5
  <2>2. /\ ~ items[i].archived
        /\ items' = [items EXCEPT ![i].status = status, ![i].activity = @ + 1]
        /\ last' = <<"task_update_status", <<i, status>>>>
        /\ UNCHANGED <<parts, gone, next, events>>
    BY <2>1 DEF TaskUpdateStatus, Called
  <2>3. CommonInv' /\ ~ (Size' < Size)
    BY <1>0, <1>1, <2>2, ChangeKeeps
  <2>4. TaskBoardInv'
    <3>1. /\ items' \in [DOMAIN items -> Task] /\ items'[i].status = status
          /\ \A j \in DOMAIN items : /\ items'[j].archived = items[j].archived
                                     /\ j # i => items'[j] = items[j]
      BY <1>1, <2>2 DEF TaskBoardInv, Task
    <3>2. status # "archived"
      BY <2>1 DEF ActiveStatuses
    <3>3. DOMAIN items' = DOMAIN items
      BY <2>2
    <3>4. \A j \in DOMAIN items' : items'[j].archived <=> items'[j].status = "archived"
      BY <1>1, <2>2, <3>1, <3>2, <3>3 DEF TaskBoardInv
    <3>5. QED  BY <2>2, <3>1, <3>3, <3>4 DEF TaskBoardInv
  <2>5. last' = last => OnlyActivityGrows
    <3>1. SUFFICES ASSUME last' = last PROVE OnlyActivityGrows
      OBVIOUS
    <3>2. items[i].status = status
      BY <1>1, <2>2, <3>1 DEF TaskBoardInv
    <3>3. items[i] \in Task /\ DOMAIN items' = DOMAIN items
      BY <1>1, <2>2 DEF TaskBoardInv
    <3>4. items'[i] = [items[i] EXCEPT !.activity = @ + 1]
      BY <2>2, <3>2, <3>3 DEF Task
    <3>5. \A j \in DOMAIN items : j # i => items'[j] = items[j]
      BY <2>2
    <3>6. \A j \in DOMAIN items : items[j] \in Task
      BY <1>1 DEF TaskBoardInv
    <3>7. \A j \in DOMAIN items :
            /\ items'[j] = [items[j] EXCEPT !.activity = items'[j].activity]
            /\ items'[j].activity >= items[j].activity
      BY <3>3, <3>4, <3>5, <3>6 DEF Task
    <3>8. QED  BY <2>2, <3>3, <3>7 DEF OnlyActivityGrows
  <2>6. HintKept
    BY <1>2, <2>2, <2>3, <2>5 DEF HintKept, TaskBoardTools, Hints
  <2>7. QED  BY <2>3, <2>4, <2>6
<1>6. CASE \E i \in DOMAIN items : TaskArchive(i)
  <2>1. PICK i \in DOMAIN items : TaskArchive(i)
    BY <1>6
  <2>2. /\ items' = [items EXCEPT ![i] = IF @.archived THEN @ ELSE
             [status |-> "archived", archived |-> TRUE, activity |-> @.activity + 1]]
        /\ last' = <<"task_archive", i>>
        /\ UNCHANGED <<parts, gone, next, events>>
    BY <2>1 DEF TaskArchive, Called
  <2>3. CommonInv' /\ ~ (Size' < Size)
    BY <1>0, <1>1, <2>2, ChangeKeeps
  <2>4. TaskBoardInv'
    BY <1>1, <2>2 DEF TaskBoardInv, Task, ActiveStatuses
  <2>5. last' = last => items' = items
    BY <1>1, <2>2 DEF TaskBoardInv
  <2>6. HintKept
    BY <1>2, <2>2, <2>3, <2>5 DEF HintKept, TaskBoardTools, Hints
  <2>7. QED  BY <2>3, <2>4, <2>6
<1>7. QED  BY <1>4, <1>5, <1>6 DEF TaskBoard

LEMMA BookmarkStep ==
  ASSUME DemoInv, BookmarkResearch
  PROVE  DemoInv' /\ HintKept
<1>0. server = "bookmark_research" /\ server' = server
  BY DEF BookmarkResearch, BookmarkCreate, BookmarkDelete
<1>1. CommonInv /\ BookmarkInv
  BY <1>0 DEF DemoInv
<1>2. Tools[server] = BookmarkTools
  BY <1>0 DEF Tools
<1>3. SUFFICES CommonInv' /\ BookmarkInv' /\ HintKept
  BY <1>0 DEF DemoInv
<1>4. CASE BookmarkCreate
  <2>2. /\ Add([tags |-> {"mcp"}]) /\ gone' = gone \ {next}
        /\ last' = <<"bookmark_create", "bookmark">>
    BY <1>4 DEF BookmarkCreate, Called
  <2>3. /\ CommonInv'
        /\ DOMAIN items' = DOMAIN items \cup {next}
        /\ items' = [i \in DOMAIN items' |-> items'[i]]
        /\ ~ (Size' < Size)
    BY <1>0, <1>1, <2>2, AddKeeps
  <2>4. BookmarkInv'
    BY <1>1, <2>2, <2>3 DEF BookmarkInv
  <2>5. HintKept
    BY <1>2, <2>2, <2>3 DEF HintKept, BookmarkTools, Hints
  <2>6. QED  BY <2>3, <2>4, <2>5
<1>5. CASE \E i \in DOMAIN items \cup gone : BookmarkDelete(i)
  <2>1. PICK i \in DOMAIN items \cup gone : BookmarkDelete(i)
    BY <1>5
  <2>2. /\ items' = Without(items, i) /\ gone' = gone \cup {i}
        /\ last' = <<"bookmark_delete", i>>
        /\ UNCHANGED <<parts, next, events>>
    BY <2>1 DEF BookmarkDelete, Called
  <2>3. /\ CommonInv'
        /\ DOMAIN items' = DOMAIN items \ {i}
        /\ items' = [j \in DOMAIN items' |-> items'[j]]
        /\ \A j \in DOMAIN items' : items'[j] = items[j]
    BY <1>0, <1>1, <2>2, DeleteKeeps
  <2>4. BookmarkInv'
    BY <1>1, <2>2, <2>3 DEF BookmarkInv
  <2>5. last' = last => items' = items /\ gone' = gone
    <3>1. SUFFICES ASSUME last' = last PROVE items' = items /\ gone' = gone
      OBVIOUS
    <3>2. i \in gone /\ DOMAIN items' = DOMAIN items /\ gone' = gone
      BY <1>1, <2>2, <2>3, <3>1 DEF BookmarkInv
    <3>3. QED  BY <1>1, <2>3, <3>2 DEF BookmarkInv
  <2>6. HintKept
    BY <1>2, <2>2, <2>5 DEF HintKept, BookmarkTools, Hints
  <2>7. QED  BY <2>3, <2>4, <2>6
<1>7. QED  BY <1>4, <1>5 DEF BookmarkResearch

LEMMA DesignStep ==
  ASSUME DemoInv, DesignAssets
  PROVE  DemoInv' /\ HintKept
<1>0. server = "design_assets" /\ server' = server
  BY DEF DesignAssets, AssetRegister, AssetDeprecate
<1>1. CommonInv /\ DesignInv
  BY <1>0 DEF DemoInv
<1>2. Tools[server] = DesignTools
  BY <1>0 DEF Tools
<1>3. SUFFICES CommonInv' /\ DesignInv' /\ HintKept
  BY <1>0 DEF DemoInv
<1>4. CASE \E isComponent \in BOOLEAN : AssetRegister(isComponent)
  <2>1. PICK isComponent \in BOOLEAN : AssetRegister(isComponent)
    BY <1>4
  <2> DEFINE new == [status |-> "active", component |-> isComponent]
  <2>2. /\ Add(new) /\ gone' = gone
        /\ parts' = IF isComponent THEN With(parts, next, "active") ELSE parts
        /\ last' = <<"asset_register", isComponent>>
    BY <2>1 DEF AssetRegister, Called
  <2>3. /\ CommonInv'
        /\ DOMAIN items' = DOMAIN items \cup {next}
        /\ next \notin DOMAIN items
        /\ items' = [i \in DOMAIN items' |-> items'[i]]
        /\ items'[next] = new
        /\ \A i \in DOMAIN items : items'[i] = items[i]
        /\ ~ (Size' < Size)
    BY <1>0, <1>1, <2>2, AddKeeps
  <2>4. new \in Asset /\ new.status = "active" /\ new.component = isComponent
    BY DEF Asset
  <2> HIDE DEF new
  <2>5. items' \in [DOMAIN items' -> Asset]
    BY <1>1, <2>3, <2>4 DEF DesignInv
  <2>6. {i \in DOMAIN items' : items'[i].component} =
          {i \in DOMAIN items : items[i].component} \cup (IF isComponent THEN {next} ELSE {})
    BY <2>3, <2>4
  <2>7. /\ parts' \in [{i \in DOMAIN items' : items'[i].component} -> {"active", "deprecated"}]
        /\ \A i \in DOMAIN parts' : parts'[i] = items'[i].status
    <3>1. CASE isComponent
      <4>1. /\ DOMAIN parts = {i \in DOMAIN items : items[i].component}
            /\ \A i \in DOMAIN parts : /\ parts[i] \in {"active", "deprecated"}
                                       /\ parts[i] = items[i].status
        BY <1>1 DEF DesignInv
      <4>2. parts' = [j \in DOMAIN parts \cup {next} |-> IF j = next THEN "active" ELSE parts[j]]
        BY <2>2, <3>1 DEF With
      <4>3. DOMAIN parts' = {i \in DOMAIN items' : items'[i].component}
        BY <2>6, <3>1, <4>1, <4>2
      <4>4. \A i \in DOMAIN parts' : parts'[i] \in {"active", "deprecated"}
        BY <4>1, <4>2
      <4>5. parts' \in [DOMAIN parts' -> {"active", "deprecated"}]
        BY <4>2, <4>4
      <4>6. \A i \in DOMAIN parts' : parts'[i] = items'[i].status
        BY <2>3, <2>4, <4>1, <4>2
      <4>7. QED  BY <4>3, <4>5, <4>6
    <3>2. CASE ~ isComponent
      BY <1>1, <2>2, <2>3, <2>6, <3>2 DEF DesignInv
    <3>3. QED  BY <3>1, <3>2
  <2>8. DesignInv'
    BY <2>2, <2>5, <2>7 DEF DesignInv
  <2>9. HintKept
    BY <1>2, <2>2, <2>3 DEF HintKept, DesignTools, Hints
  <2>10. QED  BY <2>3, <2>8, <2>9
<1>5. CASE \E i \in DOMAIN items : AssetDeprecate(i)
  <2>1. PICK i \in DOMAIN items : AssetDeprecate(i)
    BY <1>5
  <2>2. /\ items' = [items EXCEPT ![i].status = "deprecated"]
        /\ parts' = IF items[i].component THEN [parts EXCEPT ![i] = "deprecated"] ELSE parts
        /\ last' = <<"asset_deprecate", i>>
        /\ UNCHANGED <<gone, next, events>>
    BY <2>1 DEF AssetDeprecate, Called
  <2>3. CommonInv' /\ ~ (Size' < Size)
    BY <1>0, <1>1, <2>2, ChangeKeeps
  <2>4. /\ items' \in [DOMAIN items -> Asset] /\ items'[i].status = "deprecated"
        /\ \A j \in DOMAIN items : /\ items'[j].component = items[j].component
                                   /\ j # i => items'[j] = items[j]
    BY <1>1, <2>2 DEF DesignInv, Asset
  <2>5. {j \in DOMAIN items' : items'[j].component} = {j \in DOMAIN items : items[j].component}
    BY <2>2, <2>4
  <2>6. DesignInv'
    BY <1>1, <2>2, <2>4, <2>5 DEF DesignInv
  <2>7. last' = last => items' = items /\ parts' = parts
    BY <1>1, <2>2 DEF DesignInv, Asset
  <2>8. HintKept
    BY <1>2, <2>2, <2>3, <2>7 DEF HintKept, DesignTools, Hints
  <2>9. QED  BY <2>3, <2>6, <2>8
<1>7. QED  BY <1>4, <1>5 DEF DesignAssets

LEMMA LedgerStep ==
  ASSUME DemoInv, FinanceLedger
  PROVE  DemoInv' /\ HintKept
<1>0. server = "finance_ledger" /\ server' = server
  BY DEF FinanceLedger, TransactionCreate, TransactionCategorize, TransactionDelete
<1>1. CommonInv /\ LedgerInv
  BY <1>0 DEF DemoInv
<1>2. Tools[server] = LedgerTools
  BY <1>0 DEF Tools
<1>3. SUFFICES CommonInv' /\ LedgerInv' /\ HintKept
  BY <1>0 DEF DemoInv
<1>4. CASE \E amount \in Amounts : TransactionCreate(amount)
  <2>1. PICK amount \in Amounts : TransactionCreate(amount)
    BY <1>4
  <2> DEFINE new == [amount |-> amount, category |-> "new"]
  <2>2. /\ amount # 0 /\ Add(new) /\ gone' = gone
        /\ last' = <<"transaction_create", amount>>
    BY <2>1 DEF TransactionCreate, Called
  <2>3. /\ CommonInv'
        /\ DOMAIN items' = DOMAIN items \cup {next}
        /\ items'[next] = new
        /\ \A i \in DOMAIN items : items'[i] = items[i]
        /\ ~ (Size' < Size)
    BY <1>0, <1>1, <2>2, AddKeeps
  <2>4. LedgerInv'
    BY <1>1, <2>2, <2>3 DEF LedgerInv, Amounts
  <2>5. HintKept
    BY <1>2, <2>2, <2>3 DEF HintKept, LedgerTools, Hints
  <2>6. QED  BY <2>3, <2>4, <2>5
<1>5. CASE \E i \in DOMAIN items, category \in {"fixture", "new"} : TransactionCategorize(i, category)
  <2>1. PICK i \in DOMAIN items, category \in {"fixture", "new"} : TransactionCategorize(i, category)
    BY <1>5
  <2>2. /\ items' = [items EXCEPT ![i].category = category]
        /\ last' = <<"transaction_categorize", <<i, category>>>>
        /\ UNCHANGED <<parts, gone, next, events>>
    BY <2>1 DEF TransactionCategorize, Called
  <2>3. DOMAIN items' = DOMAIN items /\ \A j \in DOMAIN items : items'[j].amount = items[j].amount
    BY <2>2
  <2>4. CommonInv' /\ ~ (Size' < Size)
    BY <1>0, <1>1, <2>2, <2>3, ChangeKeeps
  <2>5. LedgerInv'
    BY <1>1, <2>3 DEF LedgerInv
  <2>6. HintKept
    BY <1>2, <2>2, <2>4 DEF HintKept, LedgerTools, Hints
  <2>7. QED  BY <2>4, <2>5, <2>6
<1>6. CASE \E i \in DOMAIN items : TransactionDelete(i)
  <2>1. PICK i \in DOMAIN items : TransactionDelete(i)
    BY <1>6
  <2>2. /\ items' = Without(items, i) /\ last' = <<"transaction_delete", i>>
        /\ UNCHANGED <<parts, gone, next, events>>
    BY <2>1 DEF TransactionDelete, Called
  <2>3. /\ CommonInv' /\ DOMAIN items' = DOMAIN items \ {i}
        /\ \A j \in DOMAIN items' : items'[j] = items[j]
    BY <1>0, <1>1, <2>2, DeleteKeeps
  <2>4. LedgerInv'
    BY <1>1, <2>3 DEF LedgerInv
  <2>5. HintKept
    BY <1>2, <2>2 DEF HintKept, LedgerTools, Hints
  <2>6. QED  BY <2>3, <2>4, <2>5
<1>7. QED  BY <1>4, <1>5, <1>6 DEF FinanceLedger

LEMMA VaultStep ==
  ASSUME DemoInv, KnowledgeVault
  PROVE  DemoInv' /\ HintKept
<1>0. server = "knowledge_vault" /\ server' = server
  BY DEF KnowledgeVault, VaultNoteCreate, VaultNoteTag, VaultNoteDelete
<1>1. CommonInv /\ VaultInv
  BY <1>0 DEF DemoInv
<1>2. Tools[server] = VaultTools
  BY <1>0 DEF Tools
<1>3. SUFFICES CommonInv' /\ VaultInv' /\ HintKept
  BY <1>0 DEF DemoInv
<1>4. CASE VaultNoteCreate({"mcp"})
  <2>2. /\ Add({"mcp"}) /\ UNCHANGED <<gone, events>> /\ given' = given \cup {next}
        /\ last' = <<"note_create", {"mcp"}>>
    BY <1>4 DEF VaultNoteCreate, Called, Add
  <2>3. /\ CommonInv'
        /\ DOMAIN items' = DOMAIN items \cup {next}
        /\ next \notin DOMAIN items \cup gone
        /\ ~ (Size' < Size)
    BY <1>0, <1>1, <2>2, AddKeeps
  <2>4. VaultInv'
    BY <1>1, <2>2, <2>3 DEF VaultInv
  <2>5. HintKept
    BY <1>2, <2>2, <2>3 DEF HintKept, VaultTools, Hints
  <2>6. QED  BY <2>3, <2>4, <2>5
<1>5. CASE \E i \in DOMAIN items, mode \in {"add", "remove", "replace"},
             tags \in SUBSET {"mcp", "ops"} : VaultNoteTag(i, mode, tags)
  <2>1. PICK i \in DOMAIN items, mode \in {"add", "remove", "replace"},
             tags \in SUBSET {"mcp", "ops"} : VaultNoteTag(i, mode, tags)
    BY <1>5
  <2>2. /\ DOMAIN items' = DOMAIN items
        /\ last' = <<"note_tag", <<i, mode, tags>>>>
        /\ UNCHANGED <<parts, gone, next, events, given>>
    BY <2>1 DEF VaultNoteTag, Called
  <2>3. CommonInv' /\ ~ (Size' < Size)
    BY <1>0, <1>1, <2>2, ChangeKeeps
  <2>4. VaultInv'
    BY <1>1, <2>2 DEF VaultInv
  <2>5. HintKept
    BY <1>2, <2>2, <2>3 DEF HintKept, VaultTools, Hints
  <2>6. QED  BY <2>3, <2>4, <2>5
<1>6. CASE \E i \in DOMAIN items : VaultNoteDelete(i)
  <2>1. PICK i \in DOMAIN items : VaultNoteDelete(i)
    BY <1>6
  <2> DEFINE e == [kind |-> "delete", about |-> i,
                   number |-> Cardinality({f \in events : f.kind = "delete"}) + 1]
  <2>2. /\ items' = Without(items, i) /\ gone' = gone \cup {i}
        /\ events' = events \cup {e}
        /\ last' = <<"note_delete", i>>
        /\ UNCHANGED <<parts, next, given>>
    BY <2>1 DEF VaultNoteDelete, Called, Record
  <2>e. e.about = i
    OBVIOUS
  <2> HIDE DEF e
  <2>3. /\ CommonInv' /\ DOMAIN items' = DOMAIN items \ {i}
        /\ \A j \in DOMAIN items' : items'[j] = items[j]
    BY <1>0, <1>1, <2>2, DeleteKeeps
  <2>4. i \notin gone /\ e \notin events
    BY <1>1, <2>1, <2>e DEF VaultInv
  <2>5. /\ IsFiniteSet(gone') /\ IsFiniteSet(events')
        /\ Cardinality(gone') = Cardinality(gone) + 1
        /\ Cardinality(events') = Cardinality(events) + 1
    BY <1>1, <2>2, <2>4, FS_AddElement DEF VaultInv
  <2>6. VaultInv'
    BY <1>1, <2>1, <2>2, <2>3, <2>5, <2>e DEF VaultInv
  <2>7. HintKept
    BY <1>2, <2>2 DEF HintKept, VaultTools, Hints
  <2>8. QED  BY <2>3, <2>6, <2>7
<1>7. QED  BY <1>4, <1>5, <1>6 DEF KnowledgeVault

LEMMA OpsStep ==
  ASSUME DemoInv, PersonalOps
  PROVE  DemoInv' /\ HintKept
<1>0. server = "personal_ops" /\ server' = server
  BY DEF PersonalOps, OpsNoteCreate, BackupRun, OpsServiceRestart
<1>1. CommonInv /\ OpsInv
  BY <1>0 DEF DemoInv
<1>2. Tools[server] = OpsTools
  BY <1>0 DEF Tools
<1>3. SUFFICES CommonInv' /\ OpsInv' /\ HintKept
  BY <1>0 DEF DemoInv
<1>4. CASE OpsNoteCreate
  <2>2. /\ Add("note") /\ UNCHANGED <<gone, parts, events>>
        /\ last' = <<"note_create", "note">>
    BY <1>4 DEF OpsNoteCreate, Called
  <2>3. CommonInv' /\ ~ (Size' < Size)
    BY <1>0, <1>1, <2>2, AddKeeps
  <2>4. OpsInv'
    BY <1>1, <2>2 DEF OpsInv, WarningIsAnswered
  <2>5. HintKept
    BY <1>2, <2>2, <2>3 DEF HintKept, OpsTools, Hints
  <2>6. QED  BY <2>3, <2>4, <2>5
<1>5. CASE \E target \in {"photos", "documents"} : BackupRun(target)
  <2>1. PICK target \in {"photos", "documents"} : BackupRun(target)
    BY <1>5
  <2> DEFINE e == [kind |-> "backup", about |-> target,
                   number |-> Cardinality({f \in events : f.kind = "backup"}) + 1]
  <2>2. /\ events' = events \cup {e}
        /\ parts' = IF target = "photos" THEN [parts EXCEPT !["backup-agent"] = "healthy"]
                    ELSE parts
        /\ last' = <<"backup_run", target>>
        /\ UNCHANGED <<items, gone, next>>
    BY <2>1 DEF BackupRun, Called, Record
  <2>e. e.about = target
    OBVIOUS
  <2> HIDE DEF e
  <2>3. CommonInv' /\ ~ (Size' < Size)
    BY <1>0, <1>1, <2>2, ChangeKeeps
  <2>4. OpsInv'
    BY <1>1, <2>1, <2>2, <2>e DEF OpsInv, WarningIsAnswered
  <2>5. HintKept
    BY <1>2, <2>2, <2>3 DEF HintKept, OpsTools, Hints
  <2>6. QED  BY <2>3, <2>4, <2>5
<1>6. CASE \E service \in DOMAIN parts : OpsServiceRestart(service)
  <2>1. PICK service \in DOMAIN parts : OpsServiceRestart(service)
    BY <1>6
  <2> DEFINE e == [kind |-> "restart", about |-> service,
                   number |-> Cardinality({f \in events : f.kind = "restart"}) + 1]
  <2>2. /\ events' = events \cup {e}
        /\ parts' = [parts EXCEPT ![service] = "healthy"]
        /\ last' = <<"service_restart", service>>
        /\ UNCHANGED <<items, gone, next>>
    BY <2>1 DEF OpsServiceRestart, Called, Record
  <2>e. e.about = service
    OBVIOUS
  <2> HIDE DEF e
  <2>3. CommonInv' /\ ~ (Size' < Size)
    BY <1>0, <1>1, <2>2, ChangeKeeps
  <2>4. OpsInv'
    BY <1>1, <2>1, <2>2, <2>e DEF OpsInv, WarningIsAnswered
  <2>5. HintKept
    BY <1>2, <2>2, <2>3 DEF HintKept, OpsTools, Hints
  <2>6. QED  BY <2>3, <2>4, <2>5
<1>7. QED  BY <1>4, <1>5, <1>6 DEF PersonalOps

LEMMA LabStep ==
  ASSUME DemoInv, HomeLab
  PROVE  DemoInv' /\ HintKept
<1>0. server = "home_lab" /\ server' = server
  BY DEF HomeLab, MaintenanceNoteCreate, LabServiceRestart
<1>1. CommonInv /\ LabInv
  BY <1>0 DEF DemoInv
<1>2. Tools[server] = LabTools
  BY <1>0 DEF Tools
<1>3. SUFFICES CommonInv' /\ LabInv' /\ HintKept
  BY <1>0 DEF DemoInv
<1>4. CASE \E device \in Devices : MaintenanceNoteCreate(device)
  <2>1. PICK device \in Devices : MaintenanceNoteCreate(device)
    BY <1>4
  <2>2. /\ Add(device) /\ UNCHANGED <<gone, parts, events>>
        /\ last' = <<"maintenance_note_create", device>>
    BY <2>1 DEF MaintenanceNoteCreate, Called
  <2>3. /\ CommonInv' /\ ~ (Size' < Size)
        /\ DOMAIN items' = DOMAIN items \cup {next}
        /\ items' = [i \in DOMAIN items' |-> items'[i]]
        /\ items'[next] = device
        /\ \A i \in DOMAIN items : items'[i] = items[i]
    BY <1>0, <1>1, <2>2, AddKeeps
  <2>4. items' \in [DOMAIN items' -> Devices]
    BY <1>1, <2>1, <2>3 DEF LabInv
  <2>5. UNION {{i \in DOMAIN items' : items'[i] = d} : d \in Devices} = DOMAIN items'
    BY <2>4
  <2>6. RestartsAreLogged'
    BY <1>1, <2>2, <2>5 DEF LabInv, RestartsAreLogged, OpenAlerts, ServiceLogs
  <2>7. LabInv'
    BY <1>1, <2>2, <2>4, <2>6 DEF LabInv
  <2>8. HintKept
    BY <1>2, <2>2, <2>3 DEF HintKept, LabTools, Hints
  <2>9. QED  BY <2>3, <2>7, <2>8
<1>5. CASE \E service \in DOMAIN parts : LabServiceRestart(service)
  <2>1. PICK service \in DOMAIN parts : LabServiceRestart(service)
    BY <1>5
  <2> DEFINE e == [kind |-> "log", about |-> service,
                   number |-> Cardinality({f \in events : f.kind = "log"}) + 1]
  <2>2. /\ events' = events \cup {e}
        /\ parts' = [parts EXCEPT ![service] = @ + 1]
        /\ last' = <<"service_restart", service>>
        /\ UNCHANGED <<items, gone, next>>
    BY <2>1 DEF LabServiceRestart, Called, Record
  <2>a. {f \in events : f.kind = "log"} = events
    BY <1>1 DEF LabInv
  <2>e. e.about = service /\ e.kind = "log" /\ e.number = Cardinality(events) + 1
    BY <2>a
  <2> HIDE DEF e
  <2>3. CommonInv' /\ ~ (Size' < Size)
    BY <1>0, <1>1, <2>2, ChangeKeeps
  <2>n. Cardinality(events) \in Nat
    BY <1>1, FS_CardinalityType DEF LabInv
  <2>4. e \notin events
    BY <1>1, <2>e, <2>n DEF LabInv
  <2>5. IsFiniteSet(events') /\ Cardinality(events') = Cardinality(events) + 1
    BY <1>1, <2>2, <2>4, FS_AddElement DEF LabInv
  <2>6. \A f \in events' : f.kind = "log" /\ f.number \in Int /\ f.number <= Cardinality(events')
    BY <1>1, <2>2, <2>5, <2>e, <2>n DEF LabInv
  <2>7. \A f, g \in events' : f.number = g.number => f = g
    <3>1. \A f \in events : f.number # e.number
      BY <1>1, <2>e, <2>n DEF LabInv
    <3>2. \A f, g \in events : f.number = g.number => f = g
      BY <1>1 DEF LabInv, RestartsAreLogged
    <3>3. QED  BY <2>2, <3>1, <3>2
  <2>8. parts' \in [{"smb", "dns"} -> Nat]
    BY <1>1, <2>2 DEF LabInv
  <2>9. ASSUME NEW s \in DOMAIN parts
        PROVE  Cardinality({f \in events' : f.about = s}) =
                 parts'[s] + Cardinality({f \in LabLogs : f.about = s})
    <3> DEFINE L == {f \in events : f.about = s}
               n == Cardinality({f \in LabLogs : f.about = s})
    <3>1. IsFiniteSet(L) /\ Cardinality(L) = parts[s] + n /\ parts[s] \in Nat
      BY <1>1, FS_Subset DEF LabInv, RestartsAreLogged, ServiceLogs
    <3>2. CASE s = service
      <4>1. {f \in events' : f.about = s} = L \cup {e} /\ e \notin L
        BY <2>2, <2>4, <2>e, <3>2
      <4> HIDE DEF L
      <4>2. Cardinality(L \cup {e}) = Cardinality(L) + 1
        BY <3>1, <4>1, FS_AddElement
      <4>3. parts'[s] = parts[s] + 1
        BY <1>1, <2>2, <3>2 DEF LabInv
      <4>4. n \in Nat
        <5>1. IsFiniteSet(LabLogs)
          <6>1. LabLogs = {[kind |-> "log", about |-> "smb", number |-> 1]} \cup
                          {[kind |-> "log", about |-> "dns", number |-> 2]}
            BY DEF LabLogs
          <6>2. QED  BY <6>1, FS_Singleton, FS_Union
        <5>2. IsFiniteSet({f \in LabLogs : f.about = s})
          BY <5>1, FS_Subset
        <5>3. QED  BY <5>2, FS_CardinalityType
      <4> HIDE DEF n
      <4>5. Cardinality(L \cup {e}) = parts'[s] + n
        BY <3>1, <4>2, <4>3, <4>4
      <4>6. QED  BY <4>1, <4>5 DEF n
    <3>3. CASE s # service
      <4>1. {f \in events' : f.about = s} = L
        BY <2>2, <2>e, <3>3
      <4>2. parts'[s] = parts[s]
        BY <1>1, <2>2, <3>3 DEF LabInv
      <4>3. QED  BY <3>1, <4>1, <4>2
    <3>4. QED  BY <3>2, <3>3
  <2>10. RestartsAreLogged'
    <3>1. DOMAIN parts' = DOMAIN parts
      BY <2>2
    <3>2. \A s \in DOMAIN parts' : Cardinality({f \in events' : f.about = s}) =
                 parts'[s] + Cardinality({f \in LabLogs : f.about = s})
      BY <2>9, <3>1
    <3>3. UNION {{i \in DOMAIN items' : items'[i] = d} : d \in Devices} = DOMAIN items'
      BY <1>1, <2>2 DEF LabInv
    <3>4. QED  BY <2>7, <3>2, <3>3 DEF RestartsAreLogged, ServiceLogs, OpenAlerts
  <2>11. LabInv'
    BY <1>1, <2>2, <2>5, <2>6, <2>8, <2>10 DEF LabInv
  <2>12. HintKept
    BY <1>2, <2>2, <2>3 DEF HintKept, LabTools, Hints
  <2>13. QED  BY <2>3, <2>11, <2>12
<1>7. QED  BY <1>4, <1>5 DEF HomeLab

LEMMA RestAfter ==
  ASSUME NEW n \in Nat, NEW k \in Int, 1 <= k, k <= n
  PROVE  /\ n - (k + 1) + 1 = n - k
         /\ (IF k + 1 <= n THEN n - (k + 1) + 1 ELSE 0) = n - k
         /\ \A i \in 1..(n - k) : (k + 1) + i - 1 = k + i
OBVIOUS

\* A sequence without its k-th element.
LEMMA RemoveAt ==
  ASSUME NEW S, NEW s \in Seq(S), NEW k \in 1..Len(s)
  PROVE  LET r == SubSeq(s, 1, k - 1) \o SubSeq(s, k + 1, Len(s))
         IN  /\ r \in Seq(S)
             /\ Len(r) = Len(s) - 1
             /\ \A j \in DOMAIN r : /\ j \in Nat
                                    /\ (IF j < k THEN j ELSE j + 1) \in DOMAIN s
                                    /\ r[j] = s[IF j < k THEN j ELSE j + 1]
<1> DEFINE a == SubSeq(s, 1, k - 1)
           b == SubSeq(s, k + 1, Len(s))
<1>0. Len(s) \in Nat /\ DOMAIN s = 1..Len(s) /\ k \in Int /\ 1 <= k /\ k <= Len(s)
  BY LenProperties
<1>1. /\ a \in Seq(S) /\ Len(a) = k - 1
      /\ \A i \in 1..(k - 1) : a[i] = s[i]
  <2>1. \A i \in 1..(k - 1) : s[i] \in S
    BY <1>0, ElementOfSeq
  <2>2. 1 \in Int /\ k - 1 \in Int
    BY <1>0
  <2>3. /\ a \in Seq(S) /\ Len(a) = IF 1 <= k - 1 THEN (k - 1) - 1 + 1 ELSE 0
        /\ \A i \in 1..((k - 1) - 1 + 1) : a[i] = s[1 + i - 1]
    BY <2>1, <2>2, SubSeqProperties
  <2>4. QED  BY <1>0, <2>3
<1>2. /\ b \in Seq(S) /\ Len(b) = Len(s) - k
      /\ \A i \in 1..(Len(s) - k) : b[i] = s[k + i]
  <2>1. \A i \in (k + 1)..Len(s) : s[i] \in S
    BY <1>0, ElementOfSeq
  <2>2. k + 1 \in Int /\ Len(s) \in Int
    BY <1>0
  <2>3. /\ b \in Seq(S) /\ Len(b) = IF k + 1 <= Len(s) THEN Len(s) - (k + 1) + 1 ELSE 0
        /\ \A i \in 1..(Len(s) - (k + 1) + 1) : b[i] = s[(k + 1) + i - 1]
    BY <2>1, <2>2, SubSeqProperties
  <2> HIDE DEF b
  <2>4. /\ Len(s) - (k + 1) + 1 = Len(s) - k
        /\ (IF k + 1 <= Len(s) THEN Len(s) - (k + 1) + 1 ELSE 0) = Len(s) - k
        /\ \A i \in 1..(Len(s) - k) : (k + 1) + i - 1 = k + i
    BY ONLY <1>0, RestAfter
  <2>5. \A i \in 1..(Len(s) - k) : b[i] = s[(k + 1) + i - 1]
    BY <2>3, <2>4
  <2>6. \A i \in 1..(Len(s) - k) : b[i] = s[k + i]
    BY <2>4, <2>5
  <2>7. QED  BY <2>3, <2>4, <2>6
<1> HIDE DEF a, b
<1>3. /\ a \o b \in Seq(S) /\ Len(a \o b) = Len(a) + Len(b)
      /\ \A i \in 1..(Len(a) + Len(b)) :
           (a \o b)[i] = IF i <= Len(a) THEN a[i] ELSE b[i - Len(a)]
  BY <1>1, <1>2, ConcatProperties
<1>4. DOMAIN (a \o b) = 1..Len(a \o b)
  BY <1>3, LenProperties
<1>5. Len(a \o b) = Len(s) - 1
  BY <1>0, <1>1, <1>2, <1>3
<1>6. ASSUME NEW j \in DOMAIN (a \o b)
      PROVE  /\ j \in Nat
             /\ (IF j < k THEN j ELSE j + 1) \in DOMAIN s
             /\ (a \o b)[j] = s[IF j < k THEN j ELSE j + 1]
  <2>0. j \in 1..(Len(s) - 1)
    BY <1>4, <1>5, <1>6
  <2>1. j \in Int /\ 1 <= j /\ j <= Len(s) - 1
    BY <1>0, <2>0
  <2>2. (a \o b)[j] = IF j <= k - 1 THEN a[j] ELSE b[j - (k - 1)]
    <3>1. k - 1 + (Len(s) - k) = Len(s) - 1
      BY <1>0
    <3>2. j \in 1..(Len(a) + Len(b))
      BY <1>1, <1>2, <2>0, <3>1
    <3>3. (a \o b)[j] = IF j <= Len(a) THEN a[j] ELSE b[j - Len(a)]
      BY <1>3, <3>2
    <3>4. QED  BY <1>1, <3>3
  <2>3. CASE j < k
    BY <1>0, <1>1, <2>1, <2>2, <2>3
  <2>4. CASE ~ (j < k)
    <3>1. j - (k - 1) \in 1..(Len(s) - k) /\ k + (j - (k - 1)) = j + 1
      BY <1>0, <2>1, <2>4
    <3>2. b[j - (k - 1)] = s[j + 1]
      BY <1>2, <3>1
    <3>3. QED  BY <1>0, <2>1, <2>2, <2>4, <3>2
  <2>5. QED  BY <2>3, <2>4
<1>7. QED  BY <1>3, <1>5, <1>6 DEF a, b

LEMMA TravelStep ==
  ASSUME DemoInv, TravelPlanner
  PROVE  DemoInv' /\ HintKept
<1>0. server = "travel_planner" /\ server' = server
  BY DEF TravelPlanner, ItineraryAddPlace, ItineraryRemovePlace
<1>1. CommonInv /\ TravelInv
  BY <1>0 DEF DemoInv
<1>2. Tools[server] = TravelTools
  BY <1>0 DEF Tools
<1>3. SUFFICES CommonInv' /\ TravelInv' /\ HintKept
  BY <1>0 DEF DemoInv
<1>t. /\ DOMAIN items = {"tokyo", "seoul"} /\ items = [t \in DOMAIN items |-> items[t]]
      /\ \A t \in DOMAIN items : items[t] \in Seq(Stop)
  BY <1>1 DEF TravelInv
<1>4. CASE \E t \in DOMAIN items, place \in Places, day \in 0..1 : ItineraryAddPlace(t, place, day)
  <2>1. PICK t \in DOMAIN items, place \in Places, day \in 0..1 : ItineraryAddPlace(t, place, day)
    BY <1>4
  <2> DEFINE s == items[t]
             D == {items[t][k].day : k \in DOMAIN items[t]}
             d == IF day > 0 THEN day ELSE Max(D \cup {0}) + 1
             stop == [place |-> place, day |-> d]
  <2>2. /\ StopsAt(t, place) = {} /\ next' = next + 1
        /\ items' = [items EXCEPT ![t] = Append(s, stop)]
        /\ last' = <<"itinerary_add_place", <<t, place, day>>>>
        /\ UNCHANGED <<parts, gone, events>>
    BY <2>1 DEF ItineraryAddPlace, Called
  <2>3. s \in Seq(Stop) /\ Len(s) \in Nat /\ DOMAIN s = 1..Len(s) /\ \A k \in DOMAIN s : s[k] \in Stop
    BY <1>t, LenProperties, ElementOfSeq
  <2>4. stop \in Stop /\ stop.place = place
    <3>1. D \cup {0} \subseteq Int /\ D \cup {0} # {}
      BY <2>3 DEF Stop
    <3>2. IsFiniteSet(D \cup {0})
      <4>1. [k \in DOMAIN s |-> s[k].day] \in Surjection(DOMAIN s, D)
        BY DEF Surjection
      <4>2. IsFiniteSet(DOMAIN s)
        BY <2>3, FS_Interval
      <4>3. IsFiniteSet(D)
        BY <4>1, <4>2, FS_Surjection
      <4>4. QED  BY <4>3, FS_AddElement
    <3> HIDE DEF D
    <3>3. Max(D \cup {0}) \in Int
      BY <3>1, <3>2, MaxExists
    <3>4. d \in Int
      BY <3>3
    <3> HIDE DEF d
    <3>5. QED  BY <3>4 DEF Stop
  <2> HIDE DEF stop
  <2>5. \A k \in DOMAIN s : s[k].place # place
    BY <2>2 DEF StopsAt
  <2> DEFINE r == Append(s, stop)
  <2>6. /\ r \in Seq(Stop) /\ Len(r) = Len(s) + 1 /\ DOMAIN r = 1..(Len(s) + 1)
        /\ \A k \in 1..Len(s) : r[k] = s[k]
        /\ r[Len(s) + 1] = stop
    BY <2>3, <2>4, AppendProperties
  <2> HIDE DEF r
  <2>7. \A j, k \in DOMAIN r : r[j].place = r[k].place => j = k
    <3>1. \A j, k \in DOMAIN s : s[j].place = s[k].place => j = k
      BY <1>1 DEF TravelInv
    <3> HIDE DEF s
    <3>2. \A j \in DOMAIN r : j \in DOMAIN s \/ j = Len(s) + 1
      BY <2>3, <2>6
    <3>3. QED  BY <2>3, <2>4, <2>5, <2>6, <3>1, <3>2
  <2>8. /\ DOMAIN items' = DOMAIN items /\ items' = [u \in DOMAIN items |-> items'[u]]
        /\ items'[t] = r
        /\ \A u \in DOMAIN items : u # t => items'[u] = items[u]
    BY <2>2 DEF r
  <2>9. TravelInv'
    <3>1. items' \in [{"tokyo", "seoul"} -> Seq(Stop)]
      BY <1>t, <2>6, <2>8
    <3>2. \A u \in DOMAIN items' : \A j, k \in DOMAIN items'[u] :
            items'[u][j].place = items'[u][k].place => j = k
      BY <1>1, <2>7, <2>8 DEF TravelInv
    <3>3. QED  BY <3>1, <3>2 DEF TravelInv
  <2>10. CommonInv'
    BY <1>0, <1>1, <2>2, <2>8 DEF CommonInv
  <2>11. ~ (Size' < Size)
    <3> DEFINE f == [u \in DOMAIN items |-> Len(items[u])]
               g == [u \in DOMAIN items' |-> Len(items'[u])]
    <3>1. Size = Sum(f, DOMAIN items) /\ Size' = Sum(g, DOMAIN items)
      BY <1>0, <2>8 DEF Size, SumFunction, Sum
    <3>2. \A u \in DOMAIN items : f[u] \in Int /\ g[u] \in Int
      <4>1. \A u \in DOMAIN items : Len(items[u]) \in Int
        BY <1>t, LenProperties
      <4>2. \A u \in DOMAIN items : Len(items'[u]) \in Int
        BY <2>3, <2>6, <2>8, <4>1
      <4>3. QED  BY <2>8, <4>1, <4>2
    <3>3. \A u \in DOMAIN items \ {t} : f[u] = g[u]
      BY <2>8
    <3>4. f[t] <= g[t]
      BY <2>3, <2>6, <2>8
    <3>5. IsFiniteSet(DOMAIN items)
      BY <1>1 DEF CommonInv
    <3> HIDE DEF f, g
    <3>6. Sum(f, DOMAIN items) \in Int /\ Sum(g, DOMAIN items) \in Int
          /\ Sum(f, DOMAIN items) <= Sum(g, DOMAIN items)
      BY <3>2, <3>3, <3>4, <3>5, SumChanges
    <3>7. QED  BY <3>1, <3>6
  <2>12. HintKept
    BY <1>2, <2>2, <2>11 DEF HintKept, TravelTools, Hints
  <2>13. QED  BY <2>9, <2>10, <2>12
<1>5. CASE \E t \in DOMAIN items, place \in Places : ItineraryRemovePlace(t, place)
  <2>1. PICK t \in DOMAIN items, place \in Places : ItineraryRemovePlace(t, place)
    BY <1>5
  <2> DEFINE s == items[t]
             k == Min(StopsAt(t, place))
             r == SubSeq(s, 1, k - 1) \o SubSeq(s, k + 1, Len(s))
  <2>2. /\ StopsAt(t, place) # {}
        /\ items' = [items EXCEPT ![t] = r]
        /\ last' = <<"itinerary_remove_place", <<t, place>>>>
        /\ UNCHANGED <<parts, gone, next, events>>
    BY <2>1 DEF ItineraryRemovePlace, Called
  <2>3. s \in Seq(Stop) /\ Len(s) \in Nat /\ DOMAIN s = 1..Len(s)
    BY <1>t, LenProperties
  <2>4. k \in 1..Len(s)
    <3>1. PICK m \in DOMAIN s : s[m].place = place
      BY <2>2 DEF StopsAt
    <3>2. StopsAt(t, place) = {m}
      BY <1>1, <3>1 DEF StopsAt, TravelInv
    <3>3. m <= m /\ m \in 1..Len(s)
      BY <2>3, <3>1
    <3>4. k = m
      BY <3>2, <3>3 DEF Min
    <3>5. QED  BY <3>3, <3>4
  <2>6. /\ r \in Seq(Stop)
        /\ \A j \in DOMAIN r : /\ j \in Nat
                               /\ (IF j < k THEN j ELSE j + 1) \in DOMAIN s
                               /\ r[j] = s[IF j < k THEN j ELSE j + 1]
    <3> HIDE DEF k, s
    <3>1. QED  BY <2>3, <2>4, RemoveAt
  <2> HIDE DEF r, k
  <2>7. \A i, j \in DOMAIN r : r[i].place = r[j].place => i = j
    <3>1. \A i, j \in DOMAIN s : s[i].place = s[j].place => i = j
      BY <1>1 DEF TravelInv
    <3> HIDE DEF s
    <3>2. QED  BY <2>4, <2>6, <3>1
  <2>8. /\ DOMAIN items' = DOMAIN items /\ items' = [u \in DOMAIN items |-> items'[u]]
        /\ items'[t] = r
        /\ \A u \in DOMAIN items : u # t => items'[u] = items[u]
    BY <2>2
  <2>9. TravelInv'
    <3>1. items' \in [{"tokyo", "seoul"} -> Seq(Stop)]
      BY <1>t, <2>6, <2>8
    <3>2. \A u \in DOMAIN items' : \A i, j \in DOMAIN items'[u] :
            items'[u][i].place = items'[u][j].place => i = j
      BY <1>1, <2>7, <2>8 DEF TravelInv
    <3>3. QED  BY <3>1, <3>2 DEF TravelInv
  <2>10. CommonInv'
    BY <1>0, <1>1, <2>2, <2>8 DEF CommonInv
  <2>12. HintKept
    BY <1>2, <2>2 DEF HintKept, TravelTools, Hints
  <2>13. QED  BY <2>9, <2>10, <2>12
<1>7. QED  BY <1>4, <1>5 DEF TravelPlanner

-----------------------------------------------------------------------------
(* What the invariant gives.                                               *)

LEMMA LedgerSums ==
  ASSUME IsFiniteSet(DOMAIN items), LedgerInv
  PROVE  LedgerAddsUp
<1> DEFINE f == [i \in DOMAIN items |-> items[i].amount]
           k == [i \in DOMAIN items |-> items[i].category]
           in == {i \in DOMAIN items : items[i].amount > 0}
           out == {i \in DOMAIN items : items[i].amount < 0}
           S == DOMAIN items
<1>1. \A i \in S : f[i] \in Int /\ f[i] # 0
  BY DEF LedgerInv
<1>2. in \in SUBSET S /\ out = S \ in /\ S = in \cup out
  <2>1. \A i \in S : items[i].amount > 0 <=> ~ (items[i].amount < 0)
    BY DEF LedgerInv
  <2>2. QED  BY <2>1, Zenon
<1>3. TransactionSearch("income") = in /\ TransactionSearch("expense") = out
  BY DEF TransactionSearch
<1>4. LedgerSummary.income = Sum(f, in) /\ LedgerSummary.expense = - Sum(f, out)
  BY DEF LedgerSummary, Total, Sum
<1>5. LedgerSummary.by_category = GroupSums(f, k, S) /\ DOMAIN GroupSums(f, k, S) = KeysOf(k, S)
  <2>1. KeysOf(k, S) = {items[i].category : i \in S}
    BY DEF KeysOf
  <2>2. \A c : Group(k, S, c) = {i \in S : items[i].category = c}
    BY DEF Group
  <2>3. LedgerSummary.by_category = [c \in {items[i].category : i \in S} |->
            Sum(f, {i \in S : items[i].category = c})]
    BY DEF LedgerSummary, Total, Sum
  <2> HIDE DEF f, k, S
  <2>4. QED  BY <2>1, <2>2, <2>3 DEF GroupSums
<1> HIDE DEF f, k, in, out, S
<1>6. IsFiniteSet(S) /\ IsFiniteSet(in) /\ IsFiniteSet(out)
  BY <1>2, FS_Subset DEF S
<1>7. Sum(GroupSums(f, k, S), KeysOf(k, S)) = Sum(f, S)
  BY <1>1, <1>6, SumByGroups
<1>8. Sum(f, S) = Sum(f, in) + Sum(f, out)
  BY <1>1, <1>2, <1>6, SumAdds
<1>9. Sum(f, in) \in Int /\ Sum(f, out) \in Int
  BY <1>1, <1>2, <1>6, SumIsInt
<1>10. SumFunction(LedgerSummary.by_category) = Sum(f, S)
  BY <1>5, <1>7 DEF SumFunction, Sum
<1>11. LedgerSummary.income - LedgerSummary.expense = Sum(f, in) + Sum(f, out)
  BY <1>4, <1>9
<1>12. QED  BY <1>2, <1>3, <1>8, <1>10, <1>11 DEF LedgerAddsUp, S

LEMMA InvGivesAgreement == DemoInv => ReadersAgree
<1> SUFFICES ASSUME DemoInv PROVE ReadersAgree
  OBVIOUS
<1>0. CommonInv /\ server \in Servers
  BY DEF DemoInv, CommonInv
<1>1. CASE server = "task_board"
  <2>1. TaskBoardInv
    BY <1>1 DEF DemoInv
  <2>2. TasksListedOnce
    BY <2>1 DEF TaskBoardInv, TasksListedOnce, TaskList, ActiveStatuses, Task
  <2>3. QED  BY <1>1, <2>2 DEF ReadersAgree
<1>2. CASE server = "bookmark_research"
  <2>1. BookmarkInv
    BY <1>2 DEF DemoInv
  <2>2. DeletedStayUnlisted
    BY <2>1 DEF BookmarkInv, DeletedStayUnlisted, BookmarkSearch
  <2>3. QED  BY <1>2, <2>2 DEF ReadersAgree
<1>3. CASE server = "design_assets"
  <2>1. DesignInv
    BY <1>3 DEF DemoInv
  <2>2. ComponentFollowsAsset
    <3>1. ASSUME NEW i \in DOMAIN parts
          PROVE  parts[i] = "active" <=> i \in AssetSearch(FALSE)
      <4>1. i \in DOMAIN items /\ parts[i] = items[i].status /\ parts[i] \in {"active", "deprecated"}
        BY <2>1 DEF DesignInv
      <4>2. QED  BY <4>1 DEF AssetSearch
    <3>2. QED  BY <3>1 DEF ComponentFollowsAsset, ComponentGet
  <2>3. QED  BY <1>3, <2>2 DEF ReadersAgree
<1>4. CASE server = "finance_ledger"
  <2>1. LedgerInv /\ IsFiniteSet(DOMAIN items)
    BY <1>0, <1>4 DEF DemoInv, CommonInv
  <2>2. LedgerAddsUp
    BY <2>1, LedgerSums
  <2>3. QED  BY <1>4, <2>2 DEF ReadersAgree
<1>5. CASE server = "knowledge_vault"
  <2>1. VaultInv
    BY <1>5 DEF DemoInv
  <2>2. NotesAccounted
    BY <2>1 DEF VaultInv, NotesAccounted, NoteSearch
  <2>3. QED  BY <1>5, <2>2 DEF ReadersAgree
<1>6. CASE server = "personal_ops"
  BY <1>6 DEF DemoInv, OpsInv, ReadersAgree
<1>7. CASE server = "home_lab"
  BY <1>7 DEF DemoInv, LabInv, ReadersAgree
<1>8. CASE server = "travel_planner"
  <2>1. TravelInv
    BY <1>8 DEF DemoInv
  <2>2. ASSUME NEW t \in DOMAIN items, NEW place \in Places
        PROVE  Cardinality(StopsAt(t, place)) <= 1
    <3>1. \A j, k \in StopsAt(t, place) : j = k
      BY <2>1 DEF TravelInv, StopsAt
    <3>2. CASE StopsAt(t, place) = {}
      <4>1. Cardinality(StopsAt(t, place)) = 0
        BY <3>2, FS_EmptySet
      <4>2. QED  BY <4>1
    <3>3. CASE StopsAt(t, place) # {}
      <4>1. PICK k : StopsAt(t, place) = {k}
        BY <3>1, <3>3
      <4>2. Cardinality(StopsAt(t, place)) = 1
        BY <4>1, FS_Singleton
      <4>3. QED  BY <4>2
    <3>4. QED  BY <3>2, <3>3
  <2>3. QED  BY <1>8, <2>2 DEF ReadersAgree, PlacesOnce
<1>9. QED
  BY <1>0, <1>1, <1>2, <1>3, <1>4, <1>5, <1>6, <1>7, <1>8, ServersAre

LEMMA ResetStarts ==
  ASSUME DemoInv, Reset
  PROVE  DemoInv' /\ HintKept
<1>1. server \in Servers /\ server' = server
  BY DEF DemoInv, CommonInv, Reset
<1>2. Init'
  BY <1>1 DEF Reset, Init, StartItems, StartParts, StartNext, StartEvents
<1>3. Init' => DemoInv'
  BY StartsWell, PTL
<1>4. HintKept
  BY DEF Reset, HintKept
<1>5. QED  BY <1>2, <1>3, <1>4

LEMMA StepKeeps ==
  ASSUME DemoInv, [Next]_vars
  PROVE  DemoInv' /\ [HintKept]_vars
<1>1. CASE TaskBoard         BY <1>1, TaskBoardStep
<1>2. CASE BookmarkResearch  BY <1>2, BookmarkStep
<1>3. CASE DesignAssets      BY <1>3, DesignStep
<1>4. CASE FinanceLedger     BY <1>4, LedgerStep
<1>5. CASE KnowledgeVault    BY <1>5, VaultStep
<1>6. CASE PersonalOps       BY <1>6, OpsStep
<1>7. CASE HomeLab           BY <1>7, LabStep
<1>8. CASE TravelPlanner     BY <1>8, TravelStep
<1>9. CASE Reset             BY <1>9, ResetStarts
<1>10. CASE UNCHANGED vars
  BY <1>10 DEF vars, DemoInv, CommonInv, TaskBoardInv, BookmarkInv, DesignInv, LedgerInv,
               VaultInv, OpsInv, LabInv, TravelInv, WarningIsAnswered, RestartsAreLogged,
               ServiceLogs, OpenAlerts
<1>11. QED
  BY <1>1, <1>2, <1>3, <1>4, <1>5, <1>6, <1>7, <1>8, <1>9, <1>10 DEF Next

LEMMA DemoInvHolds == Spec => []DemoInv
<1>1. Init => DemoInv
  BY StartsWell
<1>2. DemoInv /\ [Next]_vars => DemoInv'
  BY StepKeeps
<1>3. QED  BY <1>1, <1>2, PTL DEF Spec

-----------------------------------------------------------------------------

\* What the reading tools of each of the eight servers answer agrees with what
\* its changing tools did, however many records there are: among others, the
\* ledger's categories add up to its income less its expenses
\* (finance_ledger.py, ledger_summary), and every restart of the home lab is in
\* its service's log under a number of its own (home_lab.py, service_restart).
THEOREM RecordsAgree == Spec => []ReadersAgree
<1>1. Spec => []DemoInv
  BY DemoInvHolds
<1>2. DemoInv => ReadersAgree
  BY InvGivesAgreement
<1>3. QED  BY <1>1, <1>2, PTL

\* No handler does what the hints of its tool exclude: a reading tool changes no
\* record, a tool not said to be destructive takes none away, and a repeatable
\* one called again at once changes nothing; task_update_status, which is listed
\* as repeatable, adds to the task's activity and changes nothing else
\* (runtime.py, the tool lists of servers/*.py, task_board.py:307-309).
THEOREM HintsKept == Spec => HintsAreKept
<1>1. Spec => []DemoInv
  BY DemoInvHolds
<1>2. DemoInv /\ [Next]_vars => [HintKept]_vars
  BY StepKeeps
<1>3. QED  BY <1>1, <1>2, PTL DEF Spec, HintsAreKept
=============================================================================
