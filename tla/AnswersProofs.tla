---------------------------- MODULE AnswersProofs ----------------------------
(***************************************************************************)
(* What two parts of the connector service answer is complete: the repeats  *)
(* of a submission (NavLinks), on every form, depth and failure, and the    *)
(* pages of a listing (RunListing), whatever happens to its rows meanwhile. *)
(* ConnectorServiceProofs takes them from here for the service.             *)
(***************************************************************************)
EXTENDS Integers, Sequences, FiniteSets, FiniteSetTheorems, SequenceTheorems, FunctionTheorems,
        NaturalsInduction, WellFoundedInduction, TLAPS

CONSTANTS NULL, Root, Trees, Depths, Tables, Arriving, Ranks, Limit, MaxTime

VARIABLES
    tree, allowed, broken, gone, depth, result,
    kind, rows, query, offset, seen, total, due, shifted

links   == <<tree, allowed, broken, gone, depth, result>>
listing == <<kind, rows, query, offset, seen, total, due, shifted>>

Repeats == INSTANCE NavLinks
Listing == INSTANCE RunListing WITH Names <- Ranks, Unset <- NULL

-----------------------------------------------------------------------------
(* Numbers have a least.                                                    *)

LEMMA LeastExists ==
    ASSUME NEW S, S \subseteq Nat, S # {}
    PROVE  \E x \in S : \A y \in S : x <= y
  <1>1. IsWellFoundedOn(OpToRel(<, Nat), Nat)
    BY NatLessThanWellFounded, Zenon
  <1>2. PICK x \in S : \A y \in S : ~(<<y, x>> \in OpToRel(<, Nat))
    BY <1>1, WFMin, Zenon
  <1>3. \A y \in S : x <= y
    <2> SUFFICES ASSUME NEW y \in S
                 PROVE  x <= y
      OBVIOUS
    <2>1. x \in Nat /\ y \in Nat
      OBVIOUS
    <2>2. ~(<<y, x>> \in OpToRel(<, Nat))
      BY <1>2, Zenon
    <2>3. ~(y < x)
      BY <2>1, <2>2, Zenon DEF OpToRel
    <2> QED
      BY <2>1, <2>3
  <1> QED
    BY <1>3

-----------------------------------------------------------------------------
(* Repeating a step from a beginning, which is what a function that is      *)
(* defined by itself does: there is such a function.                        *)

UpTo(h, m, V, z, g) ==
    h \in [0 .. m -> V] /\ h[0] = z /\ \A k \in 0 .. m - 1 : h[k + 1] = g[h[k]]

LEMMA UpToExists ==
    ASSUME NEW V, NEW z \in V, NEW g \in [V -> V], NEW m \in Nat
    PROVE  \E h : UpTo(h, m, V, z, g)
  <1> DEFINE Bad == {n \in Nat : ~ \E h : UpTo(h, n, V, z, g)}
  <1> SUFFICES ASSUME m \in Bad PROVE FALSE
    OBVIOUS
  <1>1. PICK n \in Bad : \A k \in Bad : n <= k
    <2>1. Bad \subseteq Nat /\ Bad # {}
      OBVIOUS
    <2>2. QED
      BY ONLY <2>1, LeastExists
  <1>2. n # 0
    <2>1. UpTo([k \in 0 .. 0 |-> z], 0, V, z, g)
      BY DEF UpTo
    <2>2. QED
      BY <1>1, <2>1
  <1>3. n \in Nat /\ n - 1 \in Nat /\ ~(n <= n - 1)
    BY <1>1, <1>2
  <1>4. PICK h : UpTo(h, n - 1, V, z, g)
    <2>1. n - 1 \notin Bad
      BY <1>1, <1>3
    <2>2. QED
      BY <1>3, <2>1
  <1> DEFINE e == [k \in 0 .. n |-> IF k = n THEN g[h[n - 1]] ELSE h[k]]
  <1>5. UpTo(e, n, V, z, g)
    <2>1. h \in [0 .. n - 1 -> V] /\ h[0] = z /\ \A k \in 0 .. n - 2 : h[k + 1] = g[h[k]]
      BY <1>3, <1>4 DEF UpTo
    <2>2. g[h[n - 1]] \in V
      BY <1>3, <2>1
    <2>3. e \in [0 .. n -> V]
      BY <1>3, <2>1, <2>2
    <2>4. e[0] = z
      BY <1>2, <1>3, <2>1
    <2>5. ASSUME NEW k \in 0 .. n - 1 PROVE e[k + 1] = g[e[k]]
      <3>1. e[k] = h[k]
        BY <1>3
      <3>2. CASE k = n - 1
        BY <1>3, <3>1, <3>2
      <3>3. CASE k # n - 1
        <4>1. k \in 0 .. n - 2 /\ k + 1 \in 0 .. n /\ k + 1 # n
          BY <1>3, <3>3
        <4>2. QED
          BY <2>1, <3>1, <4>1
      <3>4. QED
        BY <3>2, <3>3
    <2> HIDE DEF e
    <2>6. QED
      BY <2>3, <2>4, <2>5 DEF UpTo
  <1>6. QED
    BY <1>1, <1>5

LEMMA UpToAgree ==
    ASSUME NEW V, NEW z, NEW g, NEW m \in Nat, NEW n \in Nat,
           NEW h, UpTo(h, m, V, z, g), NEW e, UpTo(e, n, V, z, g),
           NEW k \in Nat, k <= m, k <= n
    PROVE  h[k] = e[k]
  <1> DEFINE Bad == {i \in Nat : i <= m /\ i <= n /\ h[i] # e[i]}
  <1> SUFFICES ASSUME k \in Bad PROVE FALSE
    OBVIOUS
  <1>1. PICK i \in Bad : \A j \in Bad : i <= j
    <2>1. Bad \subseteq Nat /\ Bad # {}
      OBVIOUS
    <2>2. QED
      BY ONLY <2>1, LeastExists
  <1>2. i # 0
    BY <1>1 DEF UpTo
  <1>3. i - 1 \in Nat /\ i - 1 <= m /\ i - 1 <= n /\ ~(i <= i - 1)
    BY <1>1, <1>2
  <1>4. h[i - 1] = e[i - 1]
    BY <1>1, <1>3
  <1>5. i - 1 \in 0 .. m - 1 /\ i - 1 \in 0 .. n - 1 /\ (i - 1) + 1 = i
    BY <1>1, <1>3
  <1>6. h[i] = g[h[i - 1]] /\ e[i] = g[e[i - 1]]
    BY <1>5 DEF UpTo
  <1>7. QED
    BY <1>1, <1>4, <1>6

LEMMA RepeatedStep ==
    ASSUME NEW V, NEW z \in V, NEW g \in [V -> V]
    PROVE  \E f \in [Nat -> V] : f[0] = z /\ \A n \in Nat : f[n + 1] = g[f[n]]
  <1> DEFINE sol(n) == CHOOSE h : UpTo(h, n, V, z, g)
             f == [n \in Nat |-> sol(n)[n]]
  <1>1. \A n \in Nat : UpTo(sol(n), n, V, z, g)
    BY UpToExists
  <1> HIDE DEF sol
  <1>2. f \in [Nat -> V]
    <2>1. ASSUME NEW n \in Nat PROVE sol(n)[n] \in V
      <3>1. sol(n) \in [0 .. n -> V] /\ n \in 0 .. n
        BY <1>1 DEF UpTo
      <3>2. QED
        BY <3>1
    <2>2. QED
      BY <2>1
  <1>3. f[0] = z
    BY <1>1 DEF UpTo
  <1>4. ASSUME NEW n \in Nat PROVE f[n + 1] = g[f[n]]
    <2>1. n + 1 \in Nat /\ n <= n + 1 /\ n <= n /\ n \in 0 .. (n + 1) - 1
      OBVIOUS
    <2>2. sol(n + 1)[n + 1] = g[sol(n + 1)[n]]
      BY <1>1, <2>1 DEF UpTo
    <2>3. sol(n + 1)[n] = sol(n)[n]
      BY <1>1, <2>1, UpToAgree
    <2>4. QED
      BY <2>1, <2>2, <2>3
  <1>5. QED
    BY <1>2, <1>3, <1>4

-----------------------------------------------------------------------------
(* Sums of the values of a function over finite sets.                       *)

Pick(s) == CHOOSE x \in s : TRUE
Adds(g, f, S) == g = [s \in SUBSET S |-> IF s = {} THEN 0 ELSE f[Pick(s)] + g[s \ {Pick(s)}]]

\* The set without the one that is picked.
LEMMA Rest ==
    ASSUME NEW s, IsFiniteSet(s), s # {}
    PROVE  /\ Pick(s) \in s /\ IsFiniteSet(s \ {Pick(s)}) /\ Cardinality(s) \in Nat
           /\ Cardinality(s \ {Pick(s)}) \in Nat
           /\ Cardinality(s \ {Pick(s)}) < Cardinality(s)
  <1>1. Pick(s) \in s
    BY DEF Pick
  <1>2. /\ IsFiniteSet(s \ {Pick(s)})
        /\ Cardinality(s \ {Pick(s)}) = Cardinality(s) - 1
    BY <1>1, FS_RemoveElement
  <1>3. Cardinality(s) \in Nat /\ Cardinality(s \ {Pick(s)}) \in Nat
    BY <1>2, FS_CardinalityType
  <1>4. QED
    BY <1>1, <1>2, <1>3

LEMMA AddsAgree ==
    ASSUME NEW f, NEW S, NEW T, IsFiniteSet(S), NEW g, Adds(g, f, S), NEW k, Adds(k, f, T),
           NEW s \in SUBSET (S \cap T)
    PROVE  g[s] = k[s]
  <1> DEFINE Bad == {n \in Nat : \E t \in SUBSET (S \cap T) : Cardinality(t) = n /\ g[t] # k[t]}
  <1> SUFFICES ASSUME g[s] # k[s] PROVE FALSE
    OBVIOUS
  <1>1. Cardinality(s) \in Bad
    BY FS_Subset, FS_CardinalityType
  <1>2. PICK n \in Bad : \A m \in Bad : n <= m
    BY <1>1, LeastExists
  <1>3. PICK t \in SUBSET (S \cap T) : Cardinality(t) = n /\ g[t] # k[t]
    BY <1>2
  <1>4. /\ \A u \in SUBSET S : g[u] = IF u = {} THEN 0 ELSE f[Pick(u)] + g[u \ {Pick(u)}]
        /\ \A u \in SUBSET T : k[u] = IF u = {} THEN 0 ELSE f[Pick(u)] + k[u \ {Pick(u)}]
    BY DEF Adds
  <1>5. t # {}
    BY <1>3, <1>4
  <1>6. IsFiniteSet(t)
    BY FS_Subset
  <1>7. g[t \ {Pick(t)}] # k[t \ {Pick(t)}]
    BY <1>3, <1>4, <1>5
  <1>8. Cardinality(t \ {Pick(t)}) \in Bad
    BY <1>5, <1>6, <1>7, Rest
  <1> QED
    BY <1>2, <1>3, <1>5, <1>6, <1>8, Rest

LEMMA AddsExists ==
    ASSUME NEW f, NEW S, IsFiniteSet(S)
    PROVE  \E g : Adds(g, f, S)
  <1> DEFINE Bad == {n \in Nat : \E t \in SUBSET S : Cardinality(t) = n /\ ~ \E g : Adds(g, f, t)}
  <1> SUFFICES ASSUME ~ \E g : Adds(g, f, S) PROVE FALSE
    OBVIOUS
  <1>1. Cardinality(S) \in Bad
    BY FS_CardinalityType
  <1>2. PICK n \in Bad : \A m \in Bad : n <= m
    BY <1>1, LeastExists
  <1>3. PICK T \in SUBSET S : Cardinality(T) = n /\ ~ \E g : Adds(g, f, T)
    BY <1>2
  <1>4. IsFiniteSet(T)
    BY FS_Subset
  <1>5. ASSUME NEW u \in SUBSET T, u # T
        PROVE  IsFiniteSet(u) /\ \E g : Adds(g, f, u)
    <2>1. IsFiniteSet(u) /\ Cardinality(u) \in Nat /\ Cardinality(u) < Cardinality(T)
      BY <1>4, <1>5, FS_Subset, FS_CardinalityType
    <2>2. Cardinality(u) \notin Bad
      BY <1>2, <1>3, <2>1
    <2> QED
      BY <2>1, <2>2
  <1> DEFINE sol(u) == CHOOSE g : Adds(g, f, u)
             sum(u) == sol(u)[u]
             G == [s \in SUBSET T |-> IF s = {} THEN 0 ELSE f[Pick(s)] + sum(s \ {Pick(s)})]
  <1>6. \A u \in SUBSET T : u # T => Adds(sol(u), f, u)
    BY <1>5
  <1>7. \A u \in SUBSET T : u # {} => Pick(u) \in u
    BY DEF Pick
  <1> HIDE DEF sol
  <1>8. ASSUME NEW u \in SUBSET T, u # T
        PROVE  G[u] = sum(u)
    <2>1. sum(u) = IF u = {} THEN 0 ELSE f[Pick(u)] + sol(u)[u \ {Pick(u)}]
      BY <1>6, <1>8 DEF Adds
    <2>2. ASSUME u # {} PROVE sol(u)[u \ {Pick(u)}] = sum(u \ {Pick(u)})
      <3> DEFINE w == u \ {Pick(u)}
      <3>1. w \in SUBSET T /\ w # T /\ w \in SUBSET (u \cap w)
        BY <1>7, <1>8, <2>2
      <3> HIDE DEF w
      <3>2. Adds(sol(u), f, u) /\ Adds(sol(w), f, w) /\ IsFiniteSet(u)
        BY <1>5, <1>6, <1>8, <3>1
      <3>3. sol(u)[w] = sol(w)[w]
        BY <3>1, <3>2, AddsAgree
      <3> QED
        BY <3>3 DEF w
    <2>3. G[u] = IF u = {} THEN 0 ELSE f[Pick(u)] + sum(u \ {Pick(u)})
      OBVIOUS
    <2> HIDE DEF G, sum
    <2> QED
      BY <2>1, <2>2, <2>3
  <1>9. ASSUME NEW s \in SUBSET T, s # {}
        PROVE  G[s \ {Pick(s)}] = sum(s \ {Pick(s)})
    <2>1. s \ {Pick(s)} \in SUBSET T /\ s \ {Pick(s)} # T
      BY <1>7, <1>9
    <2> QED
      BY <1>8, <2>1
  <1>10. Adds(G, f, T)
    <2>1. \A s \in SUBSET T : G[s] = IF s = {} THEN 0 ELSE f[Pick(s)] + G[s \ {Pick(s)}]
      <3>1. \A s \in SUBSET T : G[s] = IF s = {} THEN 0 ELSE f[Pick(s)] + sum(s \ {Pick(s)})
        OBVIOUS
      <3> HIDE DEF G, sum
      <3> QED
        BY <1>9, <3>1
    <2>2. G = [s \in SUBSET T |-> G[s]]
      OBVIOUS
    <2> HIDE DEF G, sum
    <2> QED
      BY <2>1, <2>2 DEF Adds
  <1> QED
    BY <1>3, <1>10

\* The function that sums the values of f over the subsets of S.
Sums(f, S) == CHOOSE g : Adds(g, f, S)

\* Of sets with finitely many members, one that no member can be taken from.
LEMMA SmallestSet ==
    ASSUME NEW S, IsFiniteSet(S), NEW F, F \subseteq SUBSET S, F # {}
    PROVE  \E T \in F : \A x \in T : T \ {x} \notin F
  <1> DEFINE C == {Cardinality(T) : T \in F}
  <1>1. \A T \in F : IsFiniteSet(T) /\ Cardinality(T) \in Nat
    BY FS_Subset, FS_CardinalityType
  <1>2. C \subseteq Nat /\ C # {}
    BY <1>1
  <1>3. PICK n \in C : \A m \in C : n <= m
    BY ONLY <1>2, LeastExists
  <1>4. PICK T \in F : Cardinality(T) = n
    OBVIOUS
  <1>5. ASSUME NEW x \in T, T \ {x} \in F PROVE FALSE
    <2>1. Cardinality(T \ {x}) = n - 1
      BY <1>1, <1>4, FS_RemoveElement
    <2>2. n \in Nat /\ n <= n - 1
      BY <1>2, <1>3, <1>5, <2>1
    <2>3. QED
      BY <2>2
  <1>6. QED
    BY <1>5

LEMMA SumsAdd ==
    ASSUME NEW S, IsFiniteSet(S), NEW f
    PROVE  \A u \in SUBSET S :
              Sums(f, S)[u] = IF u = {} THEN 0 ELSE f[Pick(u)] + Sums(f, S)[u \ {Pick(u)}]
  <1>1. Adds(Sums(f, S), f, S)
    BY AddsExists DEF Sums
  <1> DEFINE g == Sums(f, S)
  <1> HIDE DEF g
  <1>2. g = [s \in SUBSET S |-> IF s = {} THEN 0 ELSE f[Pick(s)] + g[s \ {Pick(s)}]]
    BY <1>1 DEF Adds, g
  <1>3. \A u \in SUBSET S : g[u] = IF u = {} THEN 0 ELSE f[Pick(u)] + g[u \ {Pick(u)}]
    BY <1>2
  <1>4. QED
    BY <1>3 DEF g

\* A sum may begin with any member.
LEMMA AnyFirst ==
    ASSUME NEW S, IsFiniteSet(S), NEW f, \A x \in S : f[x] \in Nat
    PROVE  /\ Sums(f, S)[{}] = 0
           /\ \A T \in SUBSET S : Sums(f, S)[T] \in Nat
           /\ \A T \in SUBSET S : \A x \in T : Sums(f, S)[T] = f[x] + Sums(f, S)[T \ {x}]
  <1> DEFINE g == Sums(f, S)
             F == {T \in SUBSET S : g[T] \notin Nat}
             G == {T \in SUBSET S : \E x \in T : g[T] # f[x] + g[T \ {x}]}
  <1>1. \A u \in SUBSET S : g[u] = IF u = {} THEN 0 ELSE f[Pick(u)] + g[u \ {Pick(u)}]
    BY SumsAdd
  <1>2. \A u \in SUBSET S : u # {} => Pick(u) \in u
    BY DEF Pick
  <1> HIDE DEF g
  <1>3. F = {}
    <2> SUFFICES ASSUME F # {} PROVE FALSE
      OBVIOUS
    <2>1. PICK T \in F : \A x \in T : T \ {x} \notin F
      BY SmallestSet
    <2>2. T \in SUBSET S /\ g[T] \notin Nat
      BY <2>1
    <2>3. T # {} /\ g[T] = f[Pick(T)] + g[T \ {Pick(T)}]
      <3>1. g[T] = IF T = {} THEN 0 ELSE f[Pick(T)] + g[T \ {Pick(T)}]
        BY <1>1, <2>2
      <3>2. QED
        BY <2>2, <3>1
    <2>4. Pick(T) \in T /\ T \ {Pick(T)} \in SUBSET S
      BY <1>2, <2>2, <2>3
    <2>5. g[T \ {Pick(T)}] \in Nat /\ f[Pick(T)] \in Nat
      BY <2>1, <2>2, <2>4
    <2>6. QED
      BY <2>2, <2>3, <2>5
  <1>4. G = {}
    <2> SUFFICES ASSUME G # {} PROVE FALSE
      OBVIOUS
    <2>1. PICK T \in G : \A x \in T : T \ {x} \notin G
      BY SmallestSet
    <2>2. PICK x \in T : g[T] # f[x] + g[T \ {x}]
      OBVIOUS
    <2> DEFINE p == Pick(T)
    <2>3. p \in T /\ g[T] = f[p] + g[T \ {p}]
      BY <1>1, <1>2, <2>2
    <2> HIDE DEF p
    <2>4. p # x
      BY <2>2, <2>3
    <2>5. T \ {p} \notin G /\ T \ {x} \notin G /\ T \ {p} \in SUBSET S /\ T \ {x} \in SUBSET S
      BY <2>1, <2>3
    <2>6. g[T \ {p}] = f[x] + g[(T \ {p}) \ {x}]
      BY <2>4, <2>5
    <2>7. g[T \ {x}] = f[p] + g[(T \ {x}) \ {p}]
      BY <2>3, <2>4, <2>5
    <2> DEFINE U == (T \ {p}) \ {x}
    <2>8. (T \ {x}) \ {p} = U /\ U \in SUBSET S
      OBVIOUS
    <2>9. g[U] \in Nat /\ f[x] \in Nat /\ f[p] \in Nat
      BY <1>3, <2>3, <2>8
    <2> HIDE DEF U
    <2>10. g[T \ {p}] = f[x] + g[U] /\ g[T \ {x}] = f[p] + g[U]
      BY <2>6, <2>7, <2>8 DEF U
    <2>11. QED
      BY <2>2, <2>3, <2>9, <2>10
  <1>5. g[{}] = 0
    BY <1>1
  <1>6. QED
    BY <1>3, <1>4, <1>5 DEF g

\* One value that is not zero is the sum, and fewer values are less.
LEMMA SumFacts ==
    ASSUME NEW S, IsFiniteSet(S), NEW f, \A x \in S : f[x] \in Nat
    PROVE  /\ \A T \in SUBSET S : (\A x \in T : f[x] = 0) => Sums(f, S)[T] = 0
           /\ \A T \in SUBSET S : \A y \in T :
                 (\A x \in T \ {y} : f[x] = 0) => Sums(f, S)[T] = f[y]
           /\ \A T \in SUBSET S : \A U \in SUBSET T : Sums(f, S)[U] <= Sums(f, S)[T]
  <1> DEFINE g == Sums(f, S)
             F == {T \in SUBSET S : (\A x \in T : f[x] = 0) /\ g[T] # 0}
             G == {T \in SUBSET S : \E U \in SUBSET T : ~(g[U] <= g[T])}
  <1>1. /\ g[{}] = 0 /\ \A T \in SUBSET S : g[T] \in Nat
        /\ \A T \in SUBSET S : \A x \in T : g[T] = f[x] + g[T \ {x}]
    BY AnyFirst
  <1> HIDE DEF g
  <1>2. F = {}
    <2> SUFFICES ASSUME F # {} PROVE FALSE
      OBVIOUS
    <2>1. PICK T \in F : \A x \in T : T \ {x} \notin F
      BY SmallestSet
    <2>2. PICK x \in T : TRUE
      <3>1. T # {}
        BY <1>1
      <3>2. QED
        BY <3>1
    <2>3. T \in SUBSET S /\ T \ {x} \in SUBSET S /\ f[x] = 0 /\ g[T] # 0
      BY <2>2
    <2>4. g[T \ {x}] = 0
      BY <2>1, <2>2, <2>3
    <2>5. g[T] = f[x] + g[T \ {x}]
      BY <1>1, <2>2, <2>3
    <2>6. QED
      BY <2>3, <2>4, <2>5
  <1>3. G = {}
    <2> SUFFICES ASSUME G # {} PROVE FALSE
      OBVIOUS
    <2>1. PICK T \in G : \A x \in T : T \ {x} \notin G
      <3>1. G \subseteq SUBSET S
        OBVIOUS
      <3> HIDE DEF G
      <3>2. QED
        BY <3>1, SmallestSet
    <2>2. PICK U \in SUBSET T : ~(g[U] <= g[T])
      OBVIOUS
    <2>3. T \in SUBSET S /\ U \in SUBSET S /\ g[T] \in Nat /\ g[U] \in Nat
      BY <1>1
    <2>4. PICK x \in T : x \notin U
      <3>1. U # T
        BY <2>2, <2>3
      <3>2. QED
        BY <3>1
    <2>5. T \ {x} \notin G /\ T \ {x} \in SUBSET S /\ U \in SUBSET (T \ {x})
      BY <2>1, <2>4
    <2>6. g[U] <= g[T \ {x}]
      BY <2>5
    <2>7. g[T] = f[x] + g[T \ {x}] /\ f[x] \in Nat /\ g[T \ {x}] \in Nat
      BY <1>1, <2>3, <2>5
    <2>8. QED
      BY <2>2, <2>3, <2>6, <2>7
  <1>4. ASSUME NEW T \in SUBSET S, NEW y \in T, \A x \in T \ {y} : f[x] = 0
        PROVE  g[T] = f[y]
    <2>1. T \ {y} \in SUBSET S /\ f[y] \in Nat
      OBVIOUS
    <2>2. g[T \ {y}] = 0
      BY <1>2, <1>4, <2>1
    <2>3. g[T] = f[y] + g[T \ {y}]
      BY <1>1
    <2>4. QED
      BY <2>1, <2>2, <2>3
  <1>5. QED
    BY <1>2, <1>3, <1>4 DEF g

-----------------------------------------------------------------------------
(* Powers of two, counted by subsets.                                       *)

LEMMA Doubles ==
    ASSUME NEW S, IsFiniteSet(S), NEW x, x \notin S
    PROVE  /\ 2 ^ Cardinality(S) \in Nat
           /\ 2 ^ Cardinality(S \cup {x}) = 2 * 2 ^ Cardinality(S)
  <1> DEFINE A == SUBSET S
             B == {T \cup {x} : T \in A}
             f == [T \in A |-> T \cup {x}]
  <1>1. IsFiniteSet(A) /\ Cardinality(A) = 2 ^ Cardinality(S) /\ Cardinality(A) \in Nat
    BY FS_SUBSET, FS_CardinalityType
  <1>2. IsFiniteSet(S \cup {x}) /\ Cardinality(SUBSET (S \cup {x})) = 2 ^ Cardinality(S \cup {x})
    BY FS_AddElement, FS_SUBSET
  <1>3. f \in Bijection(A, B)
    <2>1. f \in [A -> B]
      OBVIOUS
    <2>2. \A T, U \in A : T # U => f[T] # f[U]
      <3> SUFFICES ASSUME NEW T \in A, NEW U \in A, T \cup {x} = U \cup {x}
                   PROVE  T = U
        OBVIOUS
      <3>1. x \notin T /\ x \notin U
        OBVIOUS
      <3>2. \A y : y \in T <=> y \in T \cup {x} /\ y # x
        BY <3>1
      <3>3. \A y : y \in U <=> y \in U \cup {x} /\ y # x
        BY <3>1
      <3>4. \A y : y \in T <=> y \in U
        BY <3>2, <3>3
      <3>5. QED
        BY <3>4
    <2>3. \A U \in B : \E T \in A : f[T] = U
      OBVIOUS
    <2> HIDE DEF f, A, B
    <2>4. QED
      BY <2>1, <2>2, <2>3 DEF Bijection, Injection, IsInjective, Surjection
  <1>4. IsFiniteSet(B) /\ Cardinality(B) = Cardinality(A)
    BY <1>1, <1>3, FS_Bijection DEF ExistsBijection
  <1>5. A \cap B = {}
    OBVIOUS
  <1>6. SUBSET (S \cup {x}) = A \cup B
    <2>1. ASSUME NEW T \in SUBSET (S \cup {x}) PROVE T \in A \cup B
      <3>1. CASE x \in T
        <4>1. T \ {x} \in A /\ T = (T \ {x}) \cup {x}
          BY <3>1
        <4>2. QED
          BY <4>1
      <3>2. CASE x \notin T
        BY <3>2
      <3>3. QED
        BY <3>1, <3>2
    <2>2. QED
      BY <2>1
  <1>7. Cardinality(A \cup B) = Cardinality(A) + Cardinality(B)
    <2> HIDE DEF A, B
    <2>1. Cardinality(A \cup B) = Cardinality(A) + Cardinality(B) - Cardinality(A \cap B)
      BY <1>1, <1>4, FS_Union
    <2>2. Cardinality(A \cap B) = 0
      BY <1>5, FS_EmptySet
    <2>3. QED
      BY <1>1, <1>4, <2>1, <2>2
  <1>8. Cardinality(SUBSET (S \cup {x})) = Cardinality(A) + Cardinality(A)
    BY <1>4, <1>6, <1>7
  <1> HIDE DEF A, B
  <1>9. QED
    BY <1>1, <1>2, <1>8

-----------------------------------------------------------------------------
(* RunListing.                                                              *)

\* The values of f on E, or none, have a greatest.
HasTop(f, E) == \E m \in {f[x] : x \in E} \cup {0} : \A n \in {f[x] : x \in E} \cup {0} : m >= n

LEMMA GreatestExists ==
    ASSUME NEW D, IsFiniteSet(D), NEW f \in [D -> Nat]
    PROVE  HasTop(f, D)
  <1> DEFINE Bad == {n \in Nat : \E E \in SUBSET D : Cardinality(E) = n /\ ~HasTop(f, E)}
  <1> SUFFICES ASSUME ~HasTop(f, D) PROVE FALSE
    OBVIOUS
  <1>1. Cardinality(D) \in Bad
    BY FS_CardinalityType
  <1>2. PICK n \in Bad : \A k \in Bad : n <= k
    <2>1. Bad \subseteq Nat /\ Bad # {}
      BY <1>1
    <2>2. QED
      BY ONLY <2>1, LeastExists
  <1>3. PICK E \in SUBSET D : Cardinality(E) = n /\ ~HasTop(f, E)
    OBVIOUS
  <1>4. IsFiniteSet(E)
    BY FS_Subset
  <1>5. PICK x \in E : TRUE
    <2>1. E = {} => HasTop(f, E)
      BY DEF HasTop
    <2>2. QED
      BY <1>3, <2>1
  <1>6. Cardinality(E \ {x}) = n - 1 /\ IsFiniteSet(E \ {x})
    BY <1>3, <1>4, <1>5, FS_RemoveElement
  <1>7. n - 1 \in Nat
    BY <1>6, FS_CardinalityType
  <1>8. HasTop(f, E \ {x})
    <2>1. ~(n <= n - 1)
      BY <1>7
    <2>2. n - 1 \notin Bad
      BY <1>2, <2>1
    <2>3. QED
      BY <1>6, <1>7, <2>2
  <1>9. PICK m \in {f[y] : y \in E \ {x}} \cup {0} : \A k \in {f[y] : y \in E \ {x}} \cup {0} : m >= k
    BY <1>8 DEF HasTop
  <1>10. m \in Nat /\ f[x] \in Nat
    BY <1>5, <1>9
  <1>11. {f[y] : y \in E} \cup {0} = {f[y] : y \in E \ {x}} \cup {0, f[x]}
    BY <1>5
  <1>12. CASE m >= f[x]
    <2>1. \A k \in {f[y] : y \in E} \cup {0} : m >= k
      BY <1>9, <1>11, <1>12
    <2>2. m \in {f[y] : y \in E} \cup {0}
      BY <1>9
    <2>3. QED
      BY <1>3, <2>1, <2>2 DEF HasTop
  <1>13. CASE f[x] > m
    <2>1. \A k \in {f[y] : y \in E \ {x}} \cup {0} : f[x] >= k
      <3> SUFFICES ASSUME NEW k \in {f[y] : y \in E \ {x}} \cup {0} PROVE f[x] >= k
        OBVIOUS
      <3>1. k \in Nat /\ m >= k
        BY <1>9
      <3>2. QED
        BY <1>10, <1>13, <3>1
    <2>2. \A k \in {f[y] : y \in E} \cup {0} : f[x] >= k
      BY <1>10, <1>11, <2>1
    <2>3. f[x] \in {f[y] : y \in E} \cup {0}
      BY <1>5
    <2>4. QED
      BY <1>3, <2>2, <2>3 DEF HasTop
  <1>14. QED
    BY <1>10, <1>12, <1>13

\* A row of a table, and the order of two rows.
Rows == [connector : STRING, status : STRING, created : Nat, time : Nat]

\* Rows have a connector, a status and times; names sort by rank.
ListingInputs ==
    /\ MaxTime \in Nat /\ Limit \in Nat \ {0} /\ NULL \notin Nat
    /\ Ranks \in [DOMAIN Ranks -> Int]
    /\ \A t \in Tables : IsFiniteSet(DOMAIN t) /\ t \in [DOMAIN t -> Rows]
    /\ Arriving \in [DOMAIN Arriving -> [connector : STRING, status : STRING]]

Sooner(q, a, b) ==
    \/ q.order = "connector" /\ Listing!NameBefore(a, b)
    \/ /\ ~(q.order = "connector" /\ Listing!NameBefore(b, a))
       /\ IF q.sort = "asc" THEN a.time < b.time ELSE a.time > b.time

\* Only time orders them.
Together(q, a, b) ==
    q.order = "connector" => ~Listing!NameBefore(a, b) /\ ~Listing!NameBefore(b, a)

LEMMA SoonerOrders ==
    ASSUME ListingInputs, NEW q, NEW a \in Rows, NEW b \in Rows
    PROVE  /\ ~Sooner(q, a, a) /\ Together(q, a, a)
           /\ Together(q, a, b) => Together(q, b, a)
           /\ Sooner(q, a, b) /\ ~Together(q, a, b) <=>
                 q.order = "connector" /\ Listing!NameBefore(a, b)
           /\ Together(q, a, b) =>
                 (Sooner(q, a, b) <=> IF q.sort = "asc" THEN a.time < b.time ELSE a.time > b.time)
           /\ \A c \in Rows : /\ Sooner(q, a, b) /\ Sooner(q, b, c) => Sooner(q, a, c)
                              /\ Together(q, a, b) /\ Together(q, b, c) => Together(q, a, c)
  <1>1. /\ a.time \in Nat /\ b.time \in Nat
        /\ \A c \in Rows : c.time \in Nat
        /\ \A n \in DOMAIN Ranks : Ranks[n] \in Int
    BY DEF ListingInputs, Rows
  <1>2. /\ ~Listing!NameBefore(a, a)
        /\ ~(Listing!NameBefore(a, b) /\ Listing!NameBefore(b, a))
    BY <1>1 DEF Listing!NameBefore
  <1>3. \A c \in Rows : /\ Listing!NameBefore(a, b) => Listing!NameBefore(a, c) \/ Listing!NameBefore(c, b)
                        /\ Listing!NameBefore(a, c) => Listing!NameBefore(a, b) \/ Listing!NameBefore(b, c)
                        /\ Listing!NameBefore(c, a) => Listing!NameBefore(c, b) \/ Listing!NameBefore(b, a)
                        /\ Listing!NameBefore(a, b) /\ Listing!NameBefore(b, c) => Listing!NameBefore(a, c)
    BY <1>1 DEF Listing!NameBefore
  <1>4. /\ ~Sooner(q, a, a) /\ Together(q, a, a)
        /\ Together(q, a, b) => Together(q, b, a)
    BY <1>1, <1>2 DEF Sooner, Together
  <1>5. /\ Sooner(q, a, b) /\ ~Together(q, a, b) <=>
                 q.order = "connector" /\ Listing!NameBefore(a, b)
        /\ Together(q, a, b) =>
                 (Sooner(q, a, b) <=> IF q.sort = "asc" THEN a.time < b.time ELSE a.time > b.time)
    BY <1>2 DEF Sooner, Together
  <1>6. ASSUME NEW c \in Rows
        PROVE  /\ Sooner(q, a, b) /\ Sooner(q, b, c) => Sooner(q, a, c)
               /\ Together(q, a, b) /\ Together(q, b, c) => Together(q, a, c)
    <2>1. c.time \in Nat /\ ~(Listing!NameBefore(b, c) /\ Listing!NameBefore(c, b))
      BY <1>1 DEF Listing!NameBefore
    <2>2. Together(q, a, b) /\ Together(q, b, c) => Together(q, a, c)
      BY <1>3 DEF Together
    <2>3. Sooner(q, a, b) /\ Sooner(q, b, c) => Sooner(q, a, c)
      <3> DEFINE ab == Listing!NameBefore(a, b)  ba == Listing!NameBefore(b, a)
                 bc == Listing!NameBefore(b, c)  cb == Listing!NameBefore(c, b)
                 ac == Listing!NameBefore(a, c)  ca == Listing!NameBefore(c, a)
      <3>1. /\ ~(ab /\ ba) /\ ~(bc /\ cb)
            /\ (ab => ac \/ cb) /\ (ca => cb \/ ba) /\ (bc => ba \/ ac) /\ (ab /\ bc => ac)
        <4>1. bc => ba \/ ac
          BY <1>1 DEF Listing!NameBefore
        <4>2. QED
          BY <1>2, <1>3, <2>1, <4>1
      <3>2. a.time \in Nat /\ b.time \in Nat /\ c.time \in Nat
        BY <1>1
      <3> HIDE DEF ab, ba, bc, cb, ac, ca
      <3>3. /\ Sooner(q, a, b) <=> \/ q.order = "connector" /\ ab
                                  \/ /\ ~(q.order = "connector" /\ ba)
                                     /\ IF q.sort = "asc" THEN a.time < b.time ELSE a.time > b.time
            /\ Sooner(q, b, c) <=> \/ q.order = "connector" /\ bc
                                  \/ /\ ~(q.order = "connector" /\ cb)
                                     /\ IF q.sort = "asc" THEN b.time < c.time ELSE b.time > c.time
            /\ Sooner(q, a, c) <=> \/ q.order = "connector" /\ ac
                                  \/ /\ ~(q.order = "connector" /\ ca)
                                     /\ IF q.sort = "asc" THEN a.time < c.time ELSE a.time > c.time
        BY DEF Sooner, ab, ba, bc, cb, ac, ca
      <3>4. QED
        BY <3>1, <3>2, <3>3
    <2>4. QED
      BY <2>2, <2>3
  <1>7. QED
    BY <1>4, <1>5, <1>6

\* What comes before a row, and how many rows that is.
AheadOf(j) == {i \in Listing!Matching : Sooner(query, rows[i], rows[j])}
Ahead(j) == Cardinality(AheadOf(j))

\* Rows that are due, and not read, are on the pages to come; in ascending
\* order, where a row moves back when it is updated, so are the rows that are
\* ahead of them and might: those of their connector which are not read.
StillAhead ==
    /\ due \subseteq Listing!Matching
    /\ ~shifted =>
          /\ seen \subseteq Listing!Matching
          /\ total # NULL /\ offset >= total => due \subseteq seen
          /\ \A j \in due \ seen : Ahead(j) >= offset
          /\ query.sort = "asc" =>
                \A j \in due \ seen, i \in Listing!Matching \ seen :
                    Together(query, rows[i], rows[j]) => Ahead(i) >= offset

ListingInv ==
    /\ Listing!TypeOK
    /\ IsFiniteSet(DOMAIN rows) /\ rows \in [DOMAIN rows -> Rows]
    /\ StillAhead

LEMMA CountAhead ==
    ASSUME IsFiniteSet(DOMAIN rows)
    PROVE  \A j : IsFiniteSet(AheadOf(j)) /\ Ahead(j) \in Nat
  BY FS_Subset, FS_CardinalityType DEF AheadOf, Ahead, Listing!Matching

LEMMA ListingInit ==
    ASSUME ListingInputs, Listing!Init
    PROVE  ListingInv
  <1>1. IsFiniteSet(DOMAIN rows) /\ rows \in [DOMAIN rows -> Rows]
    <2>1. rows \in Tables
      BY DEF Listing!Init
    <2>2. QED
      BY <2>1 DEF Rows, ListingInputs
  <1>2. Listing!TypeOK
    BY DEF Listing!Init, Listing!TypeOK, Listing!Matching
  <1>3. StillAhead
    <2>1. \A j : Ahead(j) >= offset
      BY <1>1, CountAhead DEF Listing!Init
    <2>2. QED
      BY <2>1 DEF Listing!Init, StillAhead
  <1>4. QED
    BY <1>1, <1>2, <1>3 DEF ListingInv

\* What a page takes: the rows that as many rows are ahead of.
LEMMA PageTaken ==
    ASSUME ListingInputs, ListingInv, ~Listing!Ties, NEW s \in Listing!Orders
    PROVE  \A j \in Listing!Matching :
              /\ Ahead(j) + 1 \in DOMAIN s /\ s[Ahead(j) + 1] = j
              /\ Ahead(j) < Cardinality(Listing!Matching)
  <1> DEFINE M == Listing!Matching
             n == Cardinality(M)
  <1>1. M \subseteq DOMAIN rows /\ IsFiniteSet(M) /\ n \in Nat
    BY FS_Subset, FS_CardinalityType DEF ListingInv, Listing!Matching
  <1>2. \A i \in M : rows[i] \in Rows
    BY <1>1 DEF ListingInv
  <1>3. \A i, j \in M : Listing!Before(i, j) <=> Sooner(query, rows[i], rows[j])
    BY DEF Listing!Before, Sooner
  <1>4. /\ s \in [1 .. n -> M]
        /\ \A k, l \in 1 .. n : k # l => s[k] # s[l]
        /\ \A k, l \in 1 .. n : k < l => ~Listing!Before(s[l], s[k])
    <2>1. Listing!Cardinality(M) = n
      BY DEF Listing!Cardinality, Cardinality
    <2>2. s \in Listing!SetToSeqs(M) /\ \A k, l \in DOMAIN s : k < l => ~Listing!Before(s[l], s[k])
      BY DEF Listing!Orders
    <2>3. s \in [1 .. n -> M] /\ \A k, l \in 1 .. n : k # l => s[k] # s[l]
      BY <2>1, <2>2 DEF Listing!SetToSeqs
    <2>4. QED
      BY <2>2, <2>3
  <1>5. \A k, l \in 1 .. n : k < l <=> Sooner(query, rows[s[k]], rows[s[l]])
    <2> SUFFICES ASSUME NEW k \in 1 .. n, NEW l \in 1 .. n
                 PROVE  k < l <=> Sooner(query, rows[s[k]], rows[s[l]])
      OBVIOUS
    <2>1. s[k] \in M /\ s[l] \in M /\ k \in Int /\ l \in Int
      BY <1>4
    <2>2. rows[s[k]] \in Rows /\ rows[s[l]] \in Rows
      BY <1>2, <2>1
    <2>3. CASE k < l
      <3>1. s[k] # s[l] /\ ~Listing!Before(s[l], s[k])
        BY <1>4, <2>1, <2>3
      <3>2. Listing!Before(s[k], s[l])
        BY <2>1, <3>1 DEF Listing!Ties
      <3>3. QED
        BY <1>3, <2>1, <2>3, <3>2
    <2>4. CASE l < k
      <3>1. ~Listing!Before(s[k], s[l])
        BY <1>4, <2>4
      <3>2. QED
        BY <1>3, <2>1, <2>4, <3>1
    <2>5. CASE l = k
      BY <2>1, <2>2, <2>5, SoonerOrders
    <2>6. QED
      BY <2>1, <2>3, <2>4, <2>5
  <1>6. IsFiniteSet(1 .. n) /\ Cardinality(1 .. n) = n
    BY <1>1, FS_Interval
  <1>7. s \in Surjection(1 .. n, M)
    <2>1. s \in Injection(1 .. n, M)
      BY <1>4 DEF Injection, IsInjective
    <2>2. QED
      BY <1>1, <1>6, <2>1, FS_Injection
  <1> SUFFICES ASSUME NEW j \in M
               PROVE  Ahead(j) + 1 \in 1 .. n /\ s[Ahead(j) + 1] = j /\ Ahead(j) < n
    BY <1>4
  <1>8. PICK k \in 1 .. n : s[k] = j
    BY <1>7 DEF Surjection
  <1>9. Ahead(j) = k - 1
    <2> DEFINE B == 1 .. (k - 1)
               t == [l \in B |-> s[l]]
    <2>1. k \in Nat /\ k - 1 \in Nat /\ B \subseteq 1 .. n
      BY <1>1
    <2>2. IsFiniteSet(B) /\ Cardinality(B) = k - 1
      BY <2>1, FS_Interval
    <2>3. \A l \in B : s[l] \in AheadOf(j)
      <3> SUFFICES ASSUME NEW l \in B PROVE s[l] \in AheadOf(j)
        OBVIOUS
      <3>1. l \in 1 .. n /\ l < k
        BY <2>1
      <3>2. s[l] \in M
        BY <1>4, <3>1
      <3>3. QED
        BY <1>5, <1>8, <3>1, <3>2 DEF AheadOf
    <2>4. \A i \in AheadOf(j) : \E l \in B : s[l] = i
      <3> SUFFICES ASSUME NEW i \in AheadOf(j) PROVE \E l \in B : s[l] = i
        OBVIOUS
      <3>1. PICK l \in 1 .. n : s[l] = i
        BY <1>7 DEF AheadOf, Surjection
      <3>2. l < k
        BY <1>5, <1>8, <3>1 DEF AheadOf
      <3>3. QED
        BY <2>1, <3>1, <3>2
    <2>5. t \in Bijection(B, AheadOf(j))
      <3>1. t \in [B -> AheadOf(j)]
        BY <2>3
      <3>2. \A l, m \in B : l # m => t[l] # t[m]
        BY <1>4, <2>1
      <3>3. \A i \in AheadOf(j) : \E l \in B : t[l] = i
        BY <2>4
      <3> HIDE DEF t, B
      <3>4. QED
        BY <3>1, <3>2, <3>3 DEF Bijection, Injection, IsInjective, Surjection
    <2>6. Cardinality(AheadOf(j)) = Cardinality(B)
      BY <2>2, <2>5, FS_Bijection DEF ExistsBijection
    <2>7. QED
      BY <2>2, <2>6 DEF Ahead
  <1>10. QED
    BY <1>1, <1>8, <1>9

LEMMA ListHolds ==
    ASSUME ListingInputs, ListingInv, Listing!List
    PROVE  ListingInv'
  <1> DEFINE M == Listing!Matching
             n == Cardinality(M)
  <1>1. M \subseteq DOMAIN rows /\ IsFiniteSet(M) /\ n \in Nat
    BY FS_Subset, FS_CardinalityType DEF ListingInv, Listing!Matching
  <1>2. Listing!Cardinality(M) = n
    BY DEF Listing!Cardinality, Cardinality
  <1>3. PICK s \in Listing!Orders :
           seen' = seen \cup {s[k] : k \in DOMAIN s \cap (offset + 1)..(offset + Limit)}
    BY Zenon DEF Listing!List
  <1>4. /\ total' = n /\ offset' = offset + Limit
        /\ shifted' = (shifted \/ Listing!Ties) /\ UNCHANGED <<kind, rows, query, due>>
    BY <1>2, Zenon DEF Listing!List, Listing!NextOffset
  <1>5. M' = M /\ \A j : Ahead(j)' = Ahead(j)
    BY <1>4 DEF Listing!Matching, Ahead, AheadOf
  <1>6. offset \in Nat /\ Limit \in Nat /\ \A j : Ahead(j) \in Nat
    BY CountAhead DEF ListingInputs, ListingInv, Listing!TypeOK
  <1>7. Listing!TypeOK'
    <2>1. shifted' \in BOOLEAN
      BY <1>4
    <2>2. QED
      BY <1>1, <1>4, <1>6, <2>1 DEF ListingInv, Listing!TypeOK
  <1>8. StillAhead'
    <2> SUFFICES ASSUME ~shifted'
                 PROVE  /\ seen' \subseteq M
                        /\ offset' >= n => due \subseteq seen'
                        /\ \A j \in due \ seen' : Ahead(j) >= offset'
                        /\ query.sort = "asc" =>
                              \A j \in due \ seen', i \in M \ seen' :
                                  Together(query, rows[i], rows[j]) => Ahead(i) >= offset'
      BY <1>4, <1>5 DEF ListingInv, StillAhead
    <2>1. ~shifted /\ ~Listing!Ties
      BY <1>4
    <2>2. /\ due \subseteq M /\ seen \subseteq M
          /\ \A j \in due \ seen : Ahead(j) >= offset
          /\ query.sort = "asc" =>
                \A j \in due \ seen, i \in M \ seen :
                    Together(query, rows[i], rows[j]) => Ahead(i) >= offset
      BY <2>1 DEF ListingInv, StillAhead
    <2>3. \A j \in M : /\ Ahead(j) + 1 \in DOMAIN s /\ s[Ahead(j) + 1] = j
                       /\ Ahead(j) < n
      BY <2>1, PageTaken
    <2>4. seen' \subseteq M
      <3>1. \A k \in DOMAIN s : s[k] \in M
        BY DEF Listing!Orders, Listing!SetToSeqs
      <3>2. QED
        BY <1>3, <2>2, <3>1
    <2>5. \A j \in M \ seen' : j \notin seen /\ (Ahead(j) >= offset => Ahead(j) >= offset')
      <3> SUFFICES ASSUME NEW j \in M \ seen', Ahead(j) >= offset, ~(Ahead(j) >= offset')
                   PROVE  FALSE
        BY <1>3
      <3>1. Ahead(j) + 1 \in (offset + 1)..(offset + Limit)
        BY <1>4, <1>6
      <3>2. QED
        BY <1>3, <2>3, <3>1
    <2>6. \A j \in due \ seen' : Ahead(j) >= offset'
      BY <2>2, <2>5
    <2>7. offset' >= n => due \subseteq seen'
      <3> SUFFICES ASSUME offset' >= n, NEW j \in due \ seen' PROVE FALSE
        OBVIOUS
      <3>1. Ahead(j) >= offset' /\ Ahead(j) < n
        BY <2>2, <2>3, <2>6
      <3>2. QED
        BY <1>1, <1>4, <1>6, <3>1
    <2>8. QED
      BY <2>2, <2>4, <2>5, <2>6, <2>7
  <1>9. QED
    BY <1>4, <1>7, <1>8 DEF ListingInv

\* No row is later than the newest.
LEMMA NewestOfAll ==
    ASSUME IsFiniteSet(DOMAIN rows), rows \in [DOMAIN rows -> Rows]
    PROVE  Listing!Newest \in Nat /\ \A i \in DOMAIN rows : Listing!Newest >= rows[i].time
  <1> DEFINE f == [i \in DOMAIN rows |-> rows[i].time]
             T == {rows[i].time : i \in DOMAIN rows} \cup {0}
  <1>1. f \in [DOMAIN rows -> Nat]
    BY DEF Rows
  <1>2. {f[i] : i \in DOMAIN rows} \cup {0} = T
    OBVIOUS
  <1>3. HasTop(f, DOMAIN rows)
    BY <1>1, GreatestExists
  <1>4. \E m \in T : \A n \in T : m >= n
    BY <1>2, <1>3 DEF HasTop
  <1>5. Listing!Newest = CHOOSE m \in T : \A n \in T : m >= n
    BY DEF Listing!Newest, Listing!Max
  <1>6. Listing!Newest \in T /\ \A n \in T : Listing!Newest >= n
    BY <1>4, <1>5
  <1>7. T \subseteq Nat /\ \A i \in DOMAIN rows : rows[i].time \in T
    BY DEF Rows
  <1>8. QED
    BY <1>6, <1>7

\* A row has as many ahead of it as any row has whose rows ahead it keeps.
LEMMA AsManyAhead ==
    ASSUME IsFiniteSet(DOMAIN rows)', NEW i, NEW A, A \subseteq AheadOf(i)', Cardinality(A) >= offset,
           offset \in Nat
    PROVE  Ahead(i)' >= offset
  <1>1. IsFiniteSet(AheadOf(i)')
    BY FS_Subset DEF AheadOf, Listing!Matching
  <1>2. Cardinality(A) <= Cardinality(AheadOf(i)')
    BY <1>1, FS_Subset
  <1>3. Cardinality(A) \in Nat /\ Cardinality(AheadOf(i)') \in Nat
    BY <1>1, FS_Subset, FS_CardinalityType
  <1>4. QED
    BY <1>2, <1>3 DEF Ahead

LEMMA TouchHolds ==
    ASSUME ListingInputs, ListingInv, NEW k \in DOMAIN rows, Listing!Touch(k)
    PROVE  ListingInv'
  <1> DEFINE M == Listing!Matching
             m == Listing!Newest
  <1>1. /\ rows' = [rows EXCEPT ![k].time = m + 1]
        /\ due' = IF query.sort = "desc" THEN due \ ({k} \ seen) ELSE due
        /\ shifted' = (shifted \/ (query.sort = "asc" /\ k \in seen))
        /\ UNCHANGED <<kind, query, offset, seen, total>>
    BY Zenon DEF Listing!Touch
  <1>2. IsFiniteSet(DOMAIN rows) /\ rows \in [DOMAIN rows -> Rows] /\ Listing!TypeOK
    BY DEF ListingInv
  <1>3. m \in Nat /\ \A i \in DOMAIN rows : m >= rows[i].time
    BY <1>2, NewestOfAll
  <1>4. /\ DOMAIN rows' = DOMAIN rows /\ rows' \in [DOMAIN rows -> Rows]
        /\ \A i \in DOMAIN rows \ {k} : rows'[i] = rows[i]
        /\ rows'[k].time = m + 1 /\ rows'[k].connector = rows[k].connector
        /\ rows'[k].status = rows[k].status /\ rows'[k].created = rows[k].created
    BY <1>1, <1>2, <1>3 DEF Rows
  <1>5. M' = M
    BY <1>1, <1>4 DEF Listing!Matching, Listing!Matches
  <1>6. Listing!TypeOK'
    <2>1. shifted' \in BOOLEAN
      BY <1>1
    <2>2. QED
      BY <1>1, <1>2, <1>4, <2>1 DEF Listing!TypeOK
  <1>7. StillAhead'
    <2>1. due' \subseteq due /\ due \subseteq M /\ M \subseteq DOMAIN rows
      BY <1>1 DEF ListingInv, StillAhead, Listing!Matching
    <2> SUFFICES ASSUME ~shifted'
                 PROVE  /\ seen \subseteq M
                        /\ total # NULL /\ offset >= total => due \subseteq seen
                        /\ \A j \in due' \ seen : Ahead(j)' >= offset
                        /\ query.sort = "asc" =>
                              \A j \in due' \ seen, i \in M \ seen :
                                  Together(query, rows'[i], rows'[j]) => Ahead(i)' >= offset
      BY <1>1, <1>5, <2>1 DEF StillAhead, Together
    <2>2. ~shifted /\ (query.sort = "asc" => k \notin seen)
      BY <1>1
    <2>3. /\ seen \subseteq M /\ (total # NULL /\ offset >= total => due \subseteq seen)
          /\ \A j \in due \ seen : Ahead(j) >= offset
          /\ query.sort = "asc" =>
                \A j \in due \ seen, i \in M \ seen :
                    Together(query, rows[i], rows[j]) => Ahead(i) >= offset
      BY <2>2 DEF ListingInv, StillAhead
    <2>4. /\ query.sort \in {"asc", "desc"} /\ offset \in Nat
          /\ \A i \in DOMAIN rows : rows[i] \in Rows /\ rows'[i] \in Rows
      BY <1>2, <1>4 DEF Listing!TypeOK, Listing!Queries
    <2>5. \A i, j \in DOMAIN rows : Together(query, rows'[i], rows'[j]) <=> Together(query, rows[i], rows[j])
      BY <1>4 DEF Together, Listing!NameBefore
    <2>6. \A i, j \in DOMAIN rows : i # k /\ j # k =>
             (Sooner(query, rows'[i], rows'[j]) <=> Sooner(query, rows[i], rows[j]))
      BY <1>4
    <2>7. \A i, j \in DOMAIN rows : ~Together(query, rows[i], rows[j]) =>
             (Sooner(query, rows'[i], rows'[j]) <=> Sooner(query, rows[i], rows[j]))
      BY <1>4 DEF Together, Sooner, Listing!NameBefore
    <2>8. \A i, j \in DOMAIN rows : Together(query, rows[i], rows[j]) =>
             /\ Sooner(query, rows[i], rows[j]) <=>
                   IF query.sort = "asc" THEN rows[i].time < rows[j].time ELSE rows[i].time > rows[j].time
             /\ Sooner(query, rows'[i], rows'[j]) <=>
                   IF query.sort = "asc" THEN rows'[i].time < rows'[j].time ELSE rows'[i].time > rows'[j].time
      BY <2>4, <2>5, SoonerOrders
    <2>9. \A i \in DOMAIN rows : rows[i].time \in Nat /\ rows[i].time < m + 1
      BY <1>3, <2>4 DEF Rows
    \* In descending order no row has lost one ahead of it but the updated one.
    <2>10. CASE query.sort = "desc"
      <3>1. k \notin due' \ seen
        BY <1>1, <2>10
      <3>2. ASSUME NEW j \in due' \ seen
            PROVE  Ahead(j)' >= offset
        <4>1. j \in DOMAIN rows /\ j # k /\ Ahead(j) >= offset
          BY <2>1, <2>3, <3>1
        <4>2. AheadOf(j) \subseteq AheadOf(j)'
          <5> SUFFICES ASSUME NEW i \in M, Sooner(query, rows[i], rows[j])
                       PROVE  Sooner(query, rows'[i], rows'[j])
            BY <1>1, <1>5 DEF AheadOf
          <5>1. CASE i # k \/ ~Together(query, rows[i], rows[j])
            BY <2>1, <2>6, <2>7, <4>1, <5>1
          <5>2. CASE i = k /\ Together(query, rows[i], rows[j])
            <6>1. rows'[i].time > rows'[j].time
              BY <1>4, <2>9, <4>1, <5>2
            <6>2. QED
              BY <2>1, <2>8, <2>10, <4>1, <5>2, <6>1
          <5>3. QED
            BY <5>1, <5>2
        <4>3. QED
          BY <1>2, <1>4, <2>4, <4>1, <4>2, AsManyAhead DEF Ahead
      <3>3. QED
        BY <2>1, <2>3, <2>10, <3>2
    \* In ascending order the updated row is behind the pages read already.
    <2>11. CASE query.sort = "asc"
      <3>1. ASSUME NEW i \in M, Ahead(i) >= offset,
                   k \in M /\ Together(query, rows[k], rows[i]) => Ahead(k) >= offset
            PROVE  Ahead(i)' >= offset
        <4>1. CASE i # k /\ k \in M /\ Together(query, rows[k], rows[i]) /\ Sooner(query, rows[k], rows[i])
          <5>1. AheadOf(k) \subseteq AheadOf(i)'
            <6> SUFFICES ASSUME NEW l \in M, Sooner(query, rows[l], rows[k])
                         PROVE  Sooner(query, rows'[l], rows'[i])
              BY <1>1, <1>5 DEF AheadOf
            <6>1. Sooner(query, rows[l], rows[i]) /\ l # k
              BY <2>1, <2>4, <4>1, SoonerOrders
            <6>2. QED
              BY <2>1, <2>6, <4>1, <6>1
          <5>2. QED
            BY <1>2, <1>4, <2>4, <3>1, <4>1, <5>1, AsManyAhead DEF Ahead
        <4>2. CASE i = k \/ k \notin M \/ ~Together(query, rows[k], rows[i]) \/ ~Sooner(query, rows[k], rows[i])
          <5>1. AheadOf(i) \subseteq AheadOf(i)'
            <6> SUFFICES ASSUME NEW l \in M, Sooner(query, rows[l], rows[i])
                         PROVE  Sooner(query, rows'[l], rows'[i])
              BY <1>1, <1>5 DEF AheadOf
            <6>1. CASE ~Together(query, rows[l], rows[i])
              BY <2>1, <2>7, <6>1
            <6>2. CASE Together(query, rows[l], rows[i]) /\ i = k
              <7>1. l # k
                BY <2>1, <2>4, <6>2, SoonerOrders
              <7>2. rows'[l].time < rows'[i].time
                BY <1>4, <2>1, <2>9, <6>2, <7>1
              <7>3. QED
                BY <2>1, <2>8, <2>11, <6>2, <7>2
            <6>3. CASE Together(query, rows[l], rows[i]) /\ i # k
              <7>1. l # k
                BY <4>2, <6>3
              <7>2. QED
                BY <2>1, <2>6, <6>3, <7>1
            <6>4. QED
              BY <6>1, <6>2, <6>3
          <5>2. QED
            BY <1>2, <1>4, <2>4, <3>1, <5>1, AsManyAhead DEF Ahead
        <4>3. QED
          BY <4>1, <4>2
      <3>2. \A j \in due \ seen : k \in M /\ Together(query, rows[k], rows[j]) => Ahead(k) >= offset
        BY <2>2, <2>3, <2>11
      <3>3. \A j \in due' \ seen : Ahead(j)' >= offset
        BY <2>1, <2>3, <3>1, <3>2
      <3>4. ASSUME NEW j \in due' \ seen, NEW i \in M \ seen, Together(query, rows'[i], rows'[j])
            PROVE  Ahead(i)' >= offset
        <4>1. i \in DOMAIN rows /\ j \in DOMAIN rows /\ j \in due \ seen
          BY <2>1
        <4>2. Together(query, rows[i], rows[j])
          BY <2>5, <3>4, <4>1
        <4>3. Ahead(i) >= offset
          BY <2>3, <2>11, <4>1, <4>2
        <4>4. k \in M /\ Together(query, rows[k], rows[i]) => Ahead(k) >= offset
          BY <2>4, <3>2, <4>1, <4>2, SoonerOrders
        <4>5. QED
          BY <3>1, <4>3, <4>4
      <3>5. QED
        BY <2>3, <3>3, <3>4
    <2>12. QED
      BY <2>4, <2>10, <2>11
  <1>8. QED
    BY <1>2, <1>4, <1>6, <1>7 DEF ListingInv

LEMMA ArriveHolds ==
    ASSUME ListingInputs, ListingInv, NEW k \in DOMAIN Arriving, Listing!Arrive(k)
    PROVE  ListingInv'
  <1> DEFINE M == Listing!Matching
             m == Listing!Newest
             new == [connector |-> Arriving[k].connector, status |-> Arriving[k].status,
                     created |-> m + 1, time |-> m + 1]
  <1>1. /\ rows' = [j \in DOMAIN rows \cup {k} |-> IF j = k THEN new ELSE rows[j]]
        /\ k \notin DOMAIN rows
        /\ UNCHANGED <<kind, query, offset, seen, total, due, shifted>>
    BY Zenon DEF Listing!Arrive
  <1>2. IsFiniteSet(DOMAIN rows) /\ rows \in [DOMAIN rows -> Rows] /\ Listing!TypeOK
    BY DEF ListingInv
  <1>3. m \in Nat /\ \A i \in DOMAIN rows : m >= rows[i].time
    BY <1>2, NewestOfAll
  <1>4. new \in Rows
    BY <1>3 DEF ListingInputs, Rows
  <1>5. /\ DOMAIN rows' = DOMAIN rows \cup {k} /\ rows' \in [DOMAIN rows' -> Rows]
        /\ \A i \in DOMAIN rows : rows'[i] = rows[i]
        /\ rows'[k].time = m + 1
    <2> HIDE DEF m
    <2>1. DOMAIN rows' = DOMAIN rows \cup {k} /\ rows'[k] = new
          /\ \A i \in DOMAIN rows : rows'[i] = rows[i]
      BY <1>1
    <2>2. rows' = [i \in DOMAIN rows' |-> rows'[i]]
      BY <1>1
    <2>3. \A i \in DOMAIN rows' : rows'[i] \in Rows
      BY <1>2, <1>4, <2>1
    <2>4. QED
      BY <2>1, <2>2, <2>3
  <1>6. IsFiniteSet(DOMAIN rows')
    BY <1>2, <1>5, FS_AddElement
  <1>7. M \subseteq M' /\ M' \subseteq M \cup {k} /\ M \subseteq DOMAIN rows
    BY <1>1, <1>5 DEF Listing!Matching
  <1>8. Listing!TypeOK'
    BY <1>1, <1>2, <1>5 DEF Listing!TypeOK
  <1>9. \A i \in M : AheadOf(i) \subseteq AheadOf(i)'
    BY <1>1, <1>5, <1>7 DEF AheadOf
  <1>10. \A i \in M : Ahead(i) >= offset => Ahead(i)' >= offset
    BY <1>2, <1>6, <1>9, AsManyAhead DEF Ahead, Listing!TypeOK
  <1>11. StillAhead'
    <2>1. due \subseteq M /\ due \subseteq M'
      BY <1>7 DEF ListingInv, StillAhead
    <2> SUFFICES ASSUME ~shifted
                 PROVE  /\ seen \subseteq M'
                        /\ total # NULL /\ offset >= total => due \subseteq seen
                        /\ \A j \in due \ seen : Ahead(j)' >= offset
                        /\ query.sort = "asc" =>
                              \A j \in due \ seen, i \in M' \ seen :
                                  Together(query, rows'[i], rows'[j]) => Ahead(i)' >= offset
      BY <1>1, <2>1 DEF StillAhead, Together
    <2>2. /\ seen \subseteq M /\ (total # NULL /\ offset >= total => due \subseteq seen)
          /\ \A j \in due \ seen : Ahead(j) >= offset
          /\ query.sort = "asc" =>
                \A j \in due \ seen, i \in M \ seen :
                    Together(query, rows[i], rows[j]) => Ahead(i) >= offset
      BY DEF ListingInv, StillAhead
    <2>3. ASSUME query.sort = "asc", NEW j \in due \ seen, NEW i \in M' \ seen,
                 Together(query, rows'[i], rows'[j])
          PROVE  Ahead(i)' >= offset
      <3>1. j \in M /\ j \in DOMAIN rows /\ rows'[j] = rows[j] /\ rows[j] \in Rows
        BY <1>2, <1>5, <1>7, <2>1
      <3>2. CASE i \in M
        <4>1. Ahead(i) >= offset
          BY <1>5, <1>7, <2>2, <2>3, <3>1, <3>2
        <4>2. QED
          BY <1>10, <3>2, <4>1
      <3>3. CASE i = k
        <4>1. rows'[k] \in Rows /\ rows'[j].time < rows'[k].time
          <5>1. rows[j].time \in Nat /\ m >= rows[j].time
            BY <1>3, <3>1 DEF Rows
          <5>2. QED
            BY <1>3, <1>5, <3>1, <5>1
        <4>2. Together(query, rows'[j], rows'[k])
          BY <2>3, <3>1, <3>3, <4>1, SoonerOrders
        <4>3. Sooner(query, rows'[j], rows'[k])
          BY <2>3, <3>1, <4>1, <4>2, SoonerOrders
        <4>4. AheadOf(j) \subseteq AheadOf(k)'
          <5> SUFFICES ASSUME NEW l \in M, Sooner(query, rows[l], rows[j])
                       PROVE  Sooner(query, rows'[l], rows'[k])
            BY <1>1, <1>7 DEF AheadOf
          <5>1. rows'[l] = rows[l] /\ rows[l] \in Rows
            BY <1>2, <1>5, <1>7
          <5>2. QED
            BY <3>1, <4>1, <4>3, <5>1, SoonerOrders
        <4>5. Ahead(j) >= offset /\ offset \in Nat
          BY <1>2, <2>2 DEF Listing!TypeOK
        <4>6. QED
          BY <1>6, <3>3, <4>4, <4>5, AsManyAhead DEF Ahead
      <3>4. QED
        BY <1>7, <3>2, <3>3
    <2>4. QED
      BY <1>7, <1>10, <2>1, <2>2, <2>3
  <1>12. QED
    BY <1>5, <1>6, <1>8, <1>11 DEF ListingInv

LEMMA ReplayedHolds ==
    ASSUME ListingInputs, ListingInv, NEW k \in DOMAIN rows, Listing!Replayed(k)
    PROVE  ListingInv'
  <1> DEFINE M == Listing!Matching
  <1>1. /\ rows' = [j \in DOMAIN rows \ {k} |-> rows[j]]
        /\ due' = due \ {k} /\ shifted' = (shifted \/ k \in seen \/ k \notin due)
        /\ UNCHANGED <<kind, query, offset, seen, total>>
    BY Zenon DEF Listing!Replayed
  <1>2. IsFiniteSet(DOMAIN rows) /\ rows \in [DOMAIN rows -> Rows] /\ Listing!TypeOK
    BY DEF ListingInv
  <1>3. /\ DOMAIN rows' = DOMAIN rows \ {k} /\ rows' \in [DOMAIN rows' -> Rows]
        /\ \A i \in DOMAIN rows' : rows'[i] = rows[i]
    BY <1>1, <1>2
  <1>4. IsFiniteSet(DOMAIN rows')
    BY <1>2, <1>3, FS_Subset
  <1>5. M' = M \ {k} /\ M \subseteq DOMAIN rows
    BY <1>1, <1>3 DEF Listing!Matching
  <1>6. Listing!TypeOK'
    <2>1. shifted' \in BOOLEAN
      BY <1>1
    <2>2. QED
      BY <1>1, <1>2, <1>3, <2>1 DEF Listing!TypeOK
  <1>7. StillAhead'
    <2>1. due' \subseteq M' /\ due' \subseteq due /\ due \subseteq M
      BY <1>1, <1>5 DEF ListingInv, StillAhead
    <2> SUFFICES ASSUME ~shifted'
                 PROVE  /\ seen \subseteq M'
                        /\ total # NULL /\ offset >= total => due' \subseteq seen
                        /\ \A j \in due' \ seen : Ahead(j)' >= offset
                        /\ query.sort = "asc" =>
                              \A j \in due' \ seen, i \in M' \ seen :
                                  Together(query, rows'[i], rows'[j]) => Ahead(i)' >= offset
      BY <1>1, <2>1 DEF StillAhead, Together
    <2>2. ~shifted /\ k \in due \ seen
      BY <1>1
    <2>3. /\ seen \subseteq M /\ (total # NULL /\ offset >= total => due \subseteq seen)
          /\ \A j \in due \ seen : Ahead(j) >= offset
          /\ query.sort = "asc" =>
                \A j \in due \ seen, i \in M \ seen :
                    Together(query, rows[i], rows[j]) => Ahead(i) >= offset
      BY <2>2 DEF ListingInv, StillAhead
    <2>4. \A i \in M : rows[i] \in Rows
      BY <1>2, <1>5
    \* The row that is gone was on the pages to come itself.
    <2>5. ASSUME NEW i \in M', Ahead(i) >= offset
          PROVE  Ahead(i)' >= offset
      <3>1. CASE Sooner(query, rows[k], rows[i])
        <4>1. AheadOf(k) \subseteq AheadOf(i)'
          <5> SUFFICES ASSUME NEW l \in M, Sooner(query, rows[l], rows[k])
                       PROVE  l # k /\ Sooner(query, rows'[l], rows'[i])
            BY <1>1, <1>5 DEF AheadOf
          <5>1. k \in M /\ rows[k] \in Rows /\ rows[l] \in Rows /\ rows[i] \in Rows
            BY <1>5, <2>1, <2>2, <2>4
          <5>2. l # k /\ Sooner(query, rows[l], rows[i])
            BY <3>1, <5>1, SoonerOrders
          <5>3. QED
            BY <1>3, <1>5, <5>2
        <4>2. Ahead(k) >= offset
          BY <2>2, <2>3
        <4>3. QED
          BY <1>2, <1>4, <4>1, <4>2, AsManyAhead DEF Ahead, Listing!TypeOK
      <3>2. CASE ~Sooner(query, rows[k], rows[i])
        <4>1. AheadOf(i) \subseteq AheadOf(i)'
          BY <1>1, <1>3, <1>5, <3>2 DEF AheadOf
        <4>2. QED
          BY <1>2, <1>4, <2>5, <4>1, AsManyAhead DEF Ahead, Listing!TypeOK
      <3>3. QED
        BY <3>1, <3>2
    <2>6. \A j \in due' \ seen : Ahead(j)' >= offset
      BY <2>1, <2>3, <2>5
    <2>7. query.sort = "asc" =>
             \A j \in due' \ seen, i \in M' \ seen :
                 Together(query, rows'[i], rows'[j]) => Ahead(i)' >= offset
      <3> SUFFICES ASSUME query.sort = "asc", NEW j \in due' \ seen, NEW i \in M' \ seen,
                          Together(query, rows'[i], rows'[j])
                   PROVE  Ahead(i)' >= offset
        OBVIOUS
      <3>1. Together(query, rows[i], rows[j])
        BY <1>3, <1>5, <2>1
      <3>2. Ahead(i) >= offset
        BY <1>5, <2>1, <2>3, <3>1
      <3>3. QED
        BY <2>5, <3>2
    <2>8. QED
      BY <1>5, <2>1, <2>2, <2>3, <2>6, <2>7
  <1>8. QED
    BY <1>3, <1>4, <1>6, <1>7 DEF ListingInv

LEMMA ListingStep ==
    ASSUME ListingInputs, ListingInv, Listing!Next \/ UNCHANGED listing
    PROVE  ListingInv'
  <1>1. CASE UNCHANGED listing
    BY <1>1 DEF listing, ListingInv, StillAhead, Ahead, AheadOf, Listing!TypeOK, Listing!Matching
  <1>2. QED
    BY <1>1, ListHolds, TouchHolds, ArriveHolds, ReplayedHolds DEF Listing!Next

LEMMA ListingHolds == ListingInv => Listing!ListingComplete
  BY DEF ListingInv, StillAhead, Listing!ListingComplete, Listing!Matching, Listing!Matches

-----------------------------------------------------------------------------
(* NavLinks.  A form is a tree: the nodes around one are its parent and     *)
(* those around that, and a walk has one way down to a node.                *)

\* A form is a finite tree: no node is below itself.
FormsAreTrees ==
    /\ Depths \subseteq Int
    /\ \A t \in Trees :
          /\ IsFiniteSet(DOMAIN t) /\ Root \notin DOMAIN t
          /\ t \in [DOMAIN t -> [parent : DOMAIN t \cup {Root}, kind : {"group", "link"}]]
          /\ \A S \in SUBSET DOMAIN t : S # {} => \E n \in S : t[n].parent \notin S

Anc(n) == Repeats!Ancestors(n)
Parent(n) == tree[n].parent
Dicts == Repeats!Nodes \cup {Root}

Form ==
    /\ IsFiniteSet(Repeats!Nodes) /\ Root \notin Repeats!Nodes
    /\ tree \in [Repeats!Nodes -> [parent : Repeats!Nodes \cup {Root}, kind : {"group", "link"}]]
    /\ \A S \in SUBSET Repeats!Nodes : S # {} => \E n \in S : Parent(n) \notin S

\* A set of nodes that has, with each of them and with n, the parent.
Above(S, n) ==
    S \in SUBSET Repeats!Nodes /\ \A m \in S \cup {n} : Parent(m) \in S \cup {Root}

LEMMA AncestorsAre ==
    \A n : /\ Anc(n) \subseteq Repeats!Nodes
           /\ \A a \in Repeats!Nodes : a \in Anc(n) <=> \A S : Above(S, n) => a \in S
  BY DEF Anc, Repeats!Ancestors, Above, Parent

LEMMA AncestorsFurther ==
    ASSUME NEW n, NEW a \in Anc(n)
    PROVE  Anc(a) \subseteq Anc(n)
  <1> SUFFICES ASSUME NEW b \in Anc(a), NEW S, Above(S, n) PROVE b \in S
    BY AncestorsAre
  <1>1. a \in S
    BY AncestorsAre
  <1>2. Above(S, a)
    BY <1>1 DEF Above
  <1>3. QED
    BY <1>2, AncestorsAre

LEMMA AncestorsOfNode ==
    ASSUME Form, NEW n \in Repeats!Nodes
    PROVE  Anc(n) = IF Parent(n) = Root THEN {} ELSE {Parent(n)} \cup Anc(Parent(n))
  <1>1. Parent(n) \in Repeats!Nodes \cup {Root}
    BY DEF Form, Parent
  <1>2. CASE Parent(n) = Root
    <2>1. Above({}, n)
      BY <1>2 DEF Above
    <2>2. QED
      BY <1>2, <2>1, AncestorsAre
  <1>3. CASE Parent(n) # Root
    <2> DEFINE p == Parent(n)
               A == {p} \cup Anc(p)
    <2>1. p \in Anc(n)
      BY <1>1, <1>3, AncestorsAre DEF Above
    <2>2. A \subseteq Anc(n)
      BY <2>1, AncestorsFurther
    <2>3. Above(A, n)
      <3>1. A \in SUBSET Repeats!Nodes
        BY <1>1, <1>3, AncestorsAre
      <3>2. ASSUME NEW m \in A PROVE Parent(m) \in A \cup {Root}
        <4>1. Parent(m) \in Repeats!Nodes \cup {Root}
          BY <3>1 DEF Form, Parent
        <4>2. ASSUME NEW S, Above(S, p), Parent(m) # Root PROVE Parent(m) \in S
          <5>1. CASE m = p
            BY <4>2, <5>1 DEF Above
          <5>2. CASE m \in Anc(p)
            <6>1. m \in S
              BY <4>2, <5>2, AncestorsAre
            <6>2. QED
              BY <4>2, <6>1 DEF Above
          <5>3. QED
            BY <5>1, <5>2
        <4>3. QED
          BY <4>1, <4>2, AncestorsAre
      <3>3. Parent(n) \in A
        OBVIOUS
      <3> HIDE DEF A
      <3>4. QED
        BY <3>1, <3>2, <3>3 DEF Above
    <2>4. Anc(n) \subseteq A
      <3> HIDE DEF A
      <3>1. QED
        BY <2>3, AncestorsAre
    <2>5. QED
      BY <1>3, <2>2, <2>4
  <1>4. QED
    BY <1>2, <1>3

LEMMA NeverOwnAncestor ==
    ASSUME Form, NEW n \in Repeats!Nodes
    PROVE  n \notin Anc(n)
  <1> DEFINE S == {m \in Repeats!Nodes : m \in Anc(m)}
  <1> SUFFICES ASSUME n \in S PROVE FALSE
    OBVIOUS
  <1>1. PICK m \in S : Parent(m) \notin S
    BY DEF Form
  <1>2. m \in Repeats!Nodes /\ m \in Anc(m)
    OBVIOUS
  <1>3. Parent(m) # Root /\ Parent(m) \in Repeats!Nodes /\ Anc(m) = {Parent(m)} \cup Anc(Parent(m))
    <2>1. Parent(m) # Root
      BY <1>2, AncestorsOfNode
    <2>2. Parent(m) \in Repeats!Nodes
      BY <1>2, <2>1 DEF Form, Parent
    <2>3. QED
      BY <1>2, <2>1, <2>2, AncestorsOfNode
  <1>4. m # Parent(m)
    BY <1>1
  <1>5. m \in Anc(Parent(m))
    BY <1>2, <1>3, <1>4
  <1>6. Parent(m) \in Anc(Parent(m))
    BY <1>3, <1>5, AncestorsFurther
  <1>7. QED
    BY <1>1, <1>3, <1>6

\* Nodes below a dict; those among them that are around l.
Under(n, l) == n = Root \/ n \in Anc(l)
Between(n, l) == IF n = Root THEN Anc(l) ELSE {a \in Anc(l) : n \in Anc(a)}

LEMMA ParentAbove ==
    ASSUME Form, NEW c \in Repeats!Nodes
    PROVE  /\ Parent(c) \in Dicts /\ Under(Parent(c), c)
           /\ \A l : c \in Anc(l) => Under(Parent(c), l)
  <1>1. Parent(c) \in Dicts
    BY DEF Form, Parent, Dicts
  <1>2. Under(Parent(c), c)
    BY AncestorsOfNode DEF Under
  <1>3. QED
    BY <1>1, <1>2, AncestorsFurther DEF Under

LEMMA WayDown ==
    ASSUME Form, NEW l \in Repeats!Nodes, NEW n \in Dicts, Under(n, l), Parent(l) # n
    PROVE  \E c \in Anc(l) : Parent(c) = n
  <1> DEFINE S == {m \in Repeats!Nodes : Under(n, m) /\ Parent(m) # n
                                         /\ ~ \E c \in Anc(m) : Parent(c) = n}
  <1> SUFFICES ASSUME l \in S PROVE FALSE
    OBVIOUS
  <1>1. PICK m \in S : Parent(m) \notin S
    BY DEF Form
  <1>2. m \in Repeats!Nodes /\ Under(n, m) /\ Parent(m) # n /\ ~ \E c \in Anc(m) : Parent(c) = n
    OBVIOUS
  <1>3. Parent(m) # Root
    BY <1>2, AncestorsOfNode DEF Under
  <1>4. Parent(m) \in Repeats!Nodes /\ Anc(m) = {Parent(m)} \cup Anc(Parent(m))
    BY <1>2, <1>3, AncestorsOfNode DEF Form, Parent
  <1>5. Under(n, Parent(m))
    BY <1>2, <1>4 DEF Under
  <1>6. Parent(Parent(m)) # n
    BY <1>2, <1>4
  <1>7. ~ \E c \in Anc(Parent(m)) : Parent(c) = n
    BY <1>2, <1>4
  <1>8. QED
    BY <1>1, <1>4, <1>5, <1>6, <1>7

LEMMA OneWayDown ==
    ASSUME Form, NEW l \in Repeats!Nodes, NEW c \in Anc(l) \cup {l}, NEW e \in Anc(l) \cup {l},
           Parent(c) = Parent(e)
    PROVE  c = e
  <1> DEFINE Two(m) == \E x, y \in Anc(m) \cup {m} : x # y /\ Parent(x) = Parent(y)
             S == {m \in Repeats!Nodes : Two(m)}
  <1> SUFFICES ASSUME l \in S PROVE FALSE
    BY Zenon
  <1>1. PICK m \in S : Parent(m) \notin S
    BY DEF Form
  <1>2. PICK x \in Anc(m) \cup {m}, y \in Anc(m) \cup {m} : x # y /\ Parent(x) = Parent(y)
    OBVIOUS
  <1>3. m \in Repeats!Nodes
    OBVIOUS
  <1>4. Parent(m) # Root
    BY <1>2, <1>3, AncestorsOfNode
  <1> DEFINE p == Parent(m)
  <1>5. p \in Repeats!Nodes /\ Anc(m) = {p} \cup Anc(p)
    BY <1>3, <1>4, AncestorsOfNode DEF Form, Parent
  <1>6. \A z \in Anc(m) : Parent(z) # p
    <2> SUFFICES ASSUME NEW z \in Anc(m), Parent(z) = p PROVE FALSE
      OBVIOUS
    <2>1. z \in Repeats!Nodes
      BY AncestorsAre
    <2>2. p \in Anc(z)
      BY <1>4, <2>1, AncestorsOfNode
    <2>3. p \in Anc(p)
      BY <1>5, <2>2, AncestorsFurther
    <2>4. QED
      BY <1>5, <2>3, NeverOwnAncestor
  <1>7. x \in Anc(m) /\ y \in Anc(m)
    BY <1>2, <1>6
  <1>8. Two(p)
    BY <1>2, <1>5, <1>7
  <1>9. QED
    BY <1>1, <1>5, <1>8

LEMMA BetweenFirst ==
    ASSUME Form, NEW l \in Repeats!Nodes
    PROVE  /\ Between(Parent(l), l) = {}
           /\ ~Under(l, l)
           /\ \A c \in Anc(l) : /\ Between(Parent(c), l) = {c} \cup Between(c, l)
                                /\ c \notin Between(c, l) /\ Under(c, l)
           /\ \A n : Between(n, l) \in SUBSET Anc(l) /\ IsFiniteSet(Between(n, l))
  <1>1. Between(Parent(l), l) = {}
    <2>1. CASE Parent(l) = Root
      BY <2>1, AncestorsOfNode DEF Between
    <2>2. CASE Parent(l) # Root
      <3> DEFINE p == Parent(l)
      <3>1. Anc(l) = {p} \cup Anc(p) /\ p \in Repeats!Nodes
        BY <2>2, AncestorsOfNode DEF Form, Parent
      <3>2. p \notin Anc(p)
        BY <3>1, NeverOwnAncestor
      <3>3. \A a \in Anc(p) : p \notin Anc(a)
        BY <3>2, AncestorsFurther
      <3>4. QED
        BY <2>2, <3>1, <3>2, <3>3 DEF Between
    <2>3. QED
      BY <2>1, <2>2
  <1>2. ~Under(l, l)
    BY NeverOwnAncestor DEF Under, Form
  <1>3. ASSUME NEW c \in Anc(l)
        PROVE  /\ Between(Parent(c), l) = {c} \cup Between(c, l)
               /\ c \notin Between(c, l) /\ Under(c, l)
    <2>1. c \in Repeats!Nodes /\ c # Root
      BY AncestorsAre DEF Form
    <2>2. c \notin Between(c, l) /\ Under(c, l)
      BY <2>1, NeverOwnAncestor DEF Between, Under
    <2>3. ASSUME NEW a \in Between(Parent(c), l), a # c PROVE a \in Between(c, l)
      <3>1. a \in Anc(l) /\ a \in Repeats!Nodes /\ Under(Parent(c), a)
        BY AncestorsAre DEF Between, Under
      <3>2. Parent(a) # Parent(c)
        BY <2>3, <3>1, OneWayDown
      <3>3. PICK e \in Anc(a) : Parent(e) = Parent(c)
        BY <2>1, <3>1, <3>2, WayDown, ParentAbove
      <3>4. e \in Anc(l)
        BY <3>1, AncestorsFurther
      <3>5. e = c
        BY <3>3, <3>4, OneWayDown
      <3>6. QED
        BY <2>1, <3>1, <3>3, <3>5 DEF Between
    <2>4. ASSUME NEW a \in Between(c, l) PROVE a \in Between(Parent(c), l)
      <3>1. a \in Anc(l) /\ c \in Anc(a)
        BY <2>1 DEF Between
      <3>2. Under(Parent(c), a)
        BY <2>1, <3>1, ParentAbove
      <3>3. QED
        BY <3>1, <3>2 DEF Between, Under
    <2>5. c \in Between(Parent(c), l)
      BY <2>1, ParentAbove DEF Between, Under
    <2>6. QED
      BY <2>2, <2>3, <2>4, <2>5
  <1>4. \A n : Between(n, l) \in SUBSET Anc(l) /\ IsFiniteSet(Between(n, l))
    <2>1. IsFiniteSet(Anc(l))
      BY AncestorsAre, FS_Subset DEF Form
    <2>2. \A n : Between(n, l) \in SUBSET Anc(l)
      BY DEF Between
    <2>3. QED
      BY <2>1, <2>2, FS_Subset
  <1>5. QED
    BY <1>1, <1>2, <1>3, <1>4

-----------------------------------------------------------------------------
(* What the walk counts at every depth.                                     *)

Visits == [expanded : SUBSET Repeats!Links, asked : [Repeats!Links -> Nat]]
NoVisits == [n \in Dicts |-> Repeats!Nothing]
IsWalk(w) ==
    w = [d \in Int |-> [n \in Dicts |->
            IF d <= 0 THEN Repeats!Nothing ELSE Repeats!AtDict(n, w[d - 1], w[d - 2])]]
Walk == CHOOSE w : IsWalk(w)

LEMMA SumIs ==
    ASSUME NEW f, NEW T
    PROVE  Repeats!SumFunctionOnSet(f, T) = Sums(f, T)[T]
  BY Zenon DEF Repeats!SumFunctionOnSet, Repeats!FoldFunctionOnSet, Repeats!MapThenFoldSet, Sums, Adds, Pick

LEMMA NothingTyped == Repeats!Nothing \in Visits
  BY DEF Repeats!Nothing, Visits

LEMMA AllTyped ==
    ASSUME NEW parts, IsFiniteSet(DOMAIN parts), \A n \in DOMAIN parts : parts[n] \in Visits
    PROVE  Repeats!All(parts) \in Visits
  <1>1. UNION {parts[n].expanded : n \in DOMAIN parts} \subseteq Repeats!Links
    BY DEF Visits
  <1>2. ASSUME NEW l \in Repeats!Links
        PROVE  Repeats!SumFunction([n \in DOMAIN parts |-> parts[n].asked[l]]) \in Nat
    <2> DEFINE f == [n \in DOMAIN parts |-> parts[n].asked[l]]
    <2>1. DOMAIN f = DOMAIN parts /\ \A n \in DOMAIN parts : f[n] \in Nat
      BY DEF Visits
    <2> HIDE DEF f
    <2>2. Sums(f, DOMAIN parts)[DOMAIN parts] \in Nat
      BY <2>1, AnyFirst
    <2>3. QED
      BY <2>1, <2>2, SumIs DEF Repeats!SumFunction, f
  <1>3. QED
    BY <1>1, <1>2 DEF Repeats!All, Visits

LEMMA PlusTyped ==
    ASSUME NEW a \in Visits, NEW b \in Visits
    PROVE  Repeats!Plus(a, b) \in Visits
  BY DEF Visits, Repeats!Plus

LEMMA LinkTyped ==
    ASSUME NEW l \in Repeats!Links, NEW item \in Visits
    PROVE  /\ Repeats!Asked(l) \in Visits /\ Repeats!Expanded(l) \in Visits
           /\ Repeats!AtLink(l, item) \in Visits
           /\ Repeats!Asked(l).expanded = {} /\ Repeats!Expanded(l).expanded = {l}
           /\ \A k \in Repeats!Links : /\ Repeats!Asked(l).asked[k] = IF k = l THEN 1 ELSE 0
                                       /\ Repeats!Expanded(l).asked[k] = IF k = l THEN 1 ELSE 0
  <1>1. Repeats!Asked(l) = [expanded |-> {}, asked |-> [k \in Repeats!Links |-> IF k = l THEN 1 ELSE 0]]
    BY DEF Repeats!Asked, Repeats!Nothing
  <1>2. Repeats!Expanded(l) = [expanded |-> {l}, asked |-> [k \in Repeats!Links |-> IF k = l THEN 1 ELSE 0]]
    BY <1>1 DEF Repeats!Expanded
  <1>3. Repeats!Asked(l) \in Visits /\ Repeats!Expanded(l) \in Visits
    BY <1>1, <1>2 DEF Visits
  <1>4. Repeats!AtLink(l, item) \in Visits
    BY <1>3, NothingTyped, PlusTyped DEF Repeats!AtLink
  <1>5. QED
    BY <1>1, <1>2, <1>3, <1>4

LEMMA DictTyped ==
    ASSUME Form, NEW a \in [Dicts -> Visits], NEW b \in [Dicts -> Visits], NEW n \in Dicts
    PROVE  Repeats!AtDict(n, a, b) \in Visits
  <1> DEFINE L == Repeats!ChildrenOf(n, "link")
             G == Repeats!ChildrenOf(n, "group")
             p == [l \in L |-> Repeats!AtLink(l, b[l])]
             q == [g \in G |-> a[g]]
  <1>1. L \subseteq Repeats!Links /\ L \subseteq Dicts /\ G \subseteq Dicts /\ IsFiniteSet(L) /\ IsFiniteSet(G)
    BY FS_Subset DEF Form, Repeats!ChildrenOf, Repeats!Links, Dicts
  <1>2. DOMAIN p = L /\ \A l \in L : p[l] \in Visits
    BY <1>1, LinkTyped
  <1>3. DOMAIN q = G /\ \A g \in G : q[g] \in Visits
    BY <1>1
  <1> HIDE DEF p, q
  <1>4. Repeats!All(p) \in Visits /\ Repeats!All(q) \in Visits
    BY <1>1, <1>2, <1>3, AllTyped
  <1>5. QED
    BY <1>4, PlusTyped DEF Repeats!AtDict, p, q

LEMMA WalkExists ==
    ASSUME Form
    PROVE  IsWalk(Walk) /\ Walk \in [Int -> [Dicts -> Visits]]
  <1> DEFINE V == [Dicts -> Visits]
             N == NoVisits
             At(a, b) == [n \in Dicts |-> Repeats!AtDict(n, a, b)]
             g == [p \in V \X V |-> <<At(p[1], p[2]), p[1]>>]
  <1>1. N \in V
    BY NothingTyped DEF NoVisits
  <1>2. \A a, b \in V : At(a, b) \in V
    BY DictTyped
  <1>3. g \in [V \X V -> V \X V] /\ <<N, N>> \in V \X V
    BY <1>1, <1>2
  <1>4. PICK f \in [Nat -> V \X V] : f[0] = <<N, N>> /\ \A n \in Nat : f[n + 1] = g[f[n]]
    <2> DEFINE P == V \X V
               z == <<N, N>>
    <2>1. g \in [P -> P] /\ z \in P
      BY <1>3
    <2> HIDE DEF g, P, z
    <2>2. \E f \in [Nat -> P] : f[0] = z /\ \A n \in Nat : f[n + 1] = g[f[n]]
      BY <2>1, RepeatedStep
    <2>3. QED
      BY <2>2 DEF P, z
  <1> DEFINE w == [d \in Int |-> IF d <= 0 THEN N ELSE f[d][1]]
  <1>5. \A n \in Nat : f[n][1] \in V /\ f[n][2] \in V /\ f[n] = <<f[n][1], f[n][2]>>
    BY <1>4
  <1>6. \A n \in Nat : f[n + 1] = <<At(f[n][1], f[n][2]), f[n][1]>>
    BY <1>4, <1>5
  <1>7. \A n \in Nat : w[n] = f[n][1]
    BY <1>4
  <1>8. \A n \in Nat : w[n - 1] = f[n][2]
    <2> SUFFICES ASSUME NEW n \in Nat PROVE w[n - 1] = f[n][2]
      OBVIOUS
    <2>1. CASE n = 0
      BY <1>4, <2>1
    <2>2. CASE n # 0
      <3>1. n - 1 \in Nat /\ (n - 1) + 1 = n
        BY <2>2
      <3>2. f[(n - 1) + 1] = <<At(f[n - 1][1], f[n - 1][2]), f[n - 1][1]>>
        BY <1>6, <3>1
      <3>3. f[n][2] = f[n - 1][1]
        BY <3>1, <3>2
      <3>4. QED
        BY <1>7, <3>1, <3>3
    <2>3. QED
      BY <2>1, <2>2
  <1>9. ASSUME NEW d \in Int
        PROVE  w[d] = [n \in Dicts |->
                  IF d <= 0 THEN Repeats!Nothing ELSE Repeats!AtDict(n, w[d - 1], w[d - 2])]
    <2>1. CASE d <= 0
      BY <2>1 DEF NoVisits
    <2>2. CASE ~(d <= 0)
      <3>1. d - 1 \in Nat /\ (d - 1) + 1 = d /\ (d - 1) - 1 = d - 2
        BY <2>2
      <3>2. w[d] = f[d][1]
        BY <2>2
      <3>3. f[d][1] = At(f[d - 1][1], f[d - 1][2])
        BY <1>6, <3>1
      <3>4. f[d - 1][1] = w[d - 1] /\ f[d - 1][2] = w[d - 2]
        BY <1>7, <1>8, <3>1
      <3> HIDE DEF w
      <3>5. QED
        BY <2>2, <3>2, <3>3, <3>4
    <2>3. QED
      BY <2>1, <2>2
  <1>10. IsWalk(w)
    <2>1. w = [d \in Int |-> w[d]]
      OBVIOUS
    <2> HIDE DEF w
    <2>2. QED
      BY <1>9, <2>1 DEF IsWalk
  <1>11. IsWalk(Walk)
    BY <1>10 DEF Walk
  <1>12. \A n \in Nat : Walk[n] \in V /\ Walk[n - 1] \in V
    <2> DEFINE Bad == {n \in Nat : ~(Walk[n] \in V /\ Walk[n - 1] \in V)}
    <2> SUFFICES ASSUME Bad # {} PROVE FALSE
      OBVIOUS
    <2>1. PICK n \in Bad : \A m \in Bad : n <= m
      <3>1. Bad \subseteq Nat
        OBVIOUS
      <3> HIDE DEF Bad
      <3>2. QED
        BY <3>1, LeastExists
    <2>2. n \in Nat /\ ~(Walk[n] \in V /\ Walk[n - 1] \in V)
      BY <2>1
    <2>3. \A d \in Int : Walk[d] = [m \in Dicts |->
             IF d <= 0 THEN Repeats!Nothing ELSE Repeats!AtDict(m, Walk[d - 1], Walk[d - 2])]
      BY <1>11 DEF IsWalk
    <2>4. \A d \in Int : d <= 0 => Walk[d] \in V
      BY <1>1, <2>3 DEF NoVisits
    <2>5. n # 0
      BY <2>2, <2>4
    <2>6. n - 1 \in Nat /\ n - 1 \notin Bad /\ (n - 1) - 1 = n - 2
      <3>1. n - 1 \in Nat /\ ~(n <= n - 1)
        BY <2>2, <2>5
      <3>2. QED
        BY <2>1, <3>1
    <2>7. Walk[n - 1] \in V /\ Walk[n - 2] \in V
      BY <2>6
    <2>8. Walk[n] = At(Walk[n - 1], Walk[n - 2])
      BY <2>2, <2>3, <2>5
    <2>9. QED
      BY <1>2, <2>2, <2>7, <2>8
  <1>13. Walk \in [Int -> V]
    <2>1. \A d \in Int : d <= 0 => Walk[d] \in V
      BY <1>1, <1>11 DEF IsWalk, NoVisits
    <2>2. \A d \in Int : Walk[d] \in V
      BY <1>12, <2>1
    <2>3. Walk = [d \in Int |-> Walk[d]]
      BY <1>11 DEF IsWalk
    <2>4. QED
      BY <2>2, <2>3
  <1>14. QED
    BY <1>11, <1>13

\* What the nodes T take of the depth.
CostOf(T) == Sums(Repeats!Costs, Repeats!Nodes)[T]

LEMMA CostFacts ==
    ASSUME Form
    PROVE  /\ CostOf({}) = 0
           /\ \A T \in SUBSET Repeats!Nodes :
                 /\ CostOf(T) \in Nat
                 /\ Repeats!SumFunctionOnSet(Repeats!Costs, T) = CostOf(T)
                 /\ \A U \in SUBSET T : CostOf(U) <= CostOf(T)
                 /\ \A c \in Repeats!Nodes \ T :
                       CostOf({c} \cup T) = (IF c \in Repeats!Links THEN 2 ELSE 1) + CostOf(T)
  <1>1. \A c \in Repeats!Nodes : Repeats!Costs[c] = (IF c \in Repeats!Links THEN 2 ELSE 1)
    BY DEF Repeats!Costs, Repeats!Links
  <1>2. \A c \in Repeats!Nodes : Repeats!Costs[c] \in Nat
    BY <1>1
  <1>3. /\ CostOf({}) = 0 /\ \A T \in SUBSET Repeats!Nodes : CostOf(T) \in Nat
        /\ \A T \in SUBSET Repeats!Nodes : \A c \in T : CostOf(T) = Repeats!Costs[c] + CostOf(T \ {c})
    BY <1>2, AnyFirst DEF CostOf, Form
  <1>4. \A T \in SUBSET Repeats!Nodes : \A U \in SUBSET T : CostOf(U) <= CostOf(T)
    BY <1>2, SumFacts DEF CostOf, Form
  <1>5. ASSUME NEW T \in SUBSET Repeats!Nodes, NEW c \in Repeats!Nodes \ T
        PROVE  CostOf({c} \cup T) = (IF c \in Repeats!Links THEN 2 ELSE 1) + CostOf(T)
    <2>1. ({c} \cup T) \ {c} = T /\ c \in {c} \cup T /\ {c} \cup T \in SUBSET Repeats!Nodes
      OBVIOUS
    <2>2. CostOf({c} \cup T) = Repeats!Costs[c] + CostOf(({c} \cup T) \ {c})
      BY <1>3, <2>1
    <2>3. QED
      BY <1>1, <2>1, <2>2
  <1>6. ASSUME NEW T \in SUBSET Repeats!Nodes
        PROVE  Repeats!SumFunctionOnSet(Repeats!Costs, T) = CostOf(T)
    <2> DEFINE f == Repeats!Costs
               S == Repeats!Nodes
    <2>1. IsFiniteSet(S) /\ IsFiniteSet(T)
      BY FS_Subset DEF Form
    <2> HIDE DEF f, S
    <2>2. Adds(Sums(f, S), f, S) /\ Adds(Sums(f, T), f, T)
      BY <2>1, AddsExists DEF Sums
    <2>3. T \in SUBSET (T \cap S)
      BY DEF S
    <2>4. Sums(f, T)[T] = Sums(f, S)[T]
      BY <2>1, <2>2, <2>3, AddsAgree
    <2>5. QED
      BY <2>4, SumIs DEF CostOf, f, S
  <1>7. QED
    BY <1>3, <1>4, <1>5, <1>6

\* When the walk asks for l, with d of the depth left at the dict n around it,
\* how often, and that this is what it does.
Open == (allowed \ broken) \ gone

Reach(d, n, l) ==
    /\ l \in allowed /\ Between(n, l) \cap Repeats!Links \subseteq Open
    /\ d > CostOf(Between(n, l))

Want(d, n, l) ==
    IF Reach(d, n, l) THEN 2 ^ Cardinality(Between(n, l) \cap Repeats!Links) ELSE 0

Right(d) ==
    \A n \in Dicts, l \in Repeats!Links :
        /\ Walk[d][n].asked[l] = IF Under(n, l) THEN Want(d, n, l) ELSE 0
        /\ l \in Walk[d][n].expanded <=> Under(n, l) /\ Reach(d, n, l) /\ l \notin broken

LEMMA WantIsNumber ==
    ASSUME Form, NEW l \in Repeats!Links
    PROVE  \A d, n : Want(d, n, l) \in Nat
  <1>1. \A n : IsFiniteSet(Between(n, l) \cap Repeats!Links)
    BY BetweenFirst, FS_Subset DEF Repeats!Links
  <1>2. \A S : IsFiniteSet(S) => 2 ^ Cardinality(S) \in Nat
    BY FS_SUBSET, FS_CardinalityType
  <1>3. QED
    BY <1>1, <1>2 DEF Want

\* The part of a dict's count that comes from one group or link in it.
Part(d, c) ==
    IF c \in Repeats!Links THEN Repeats!AtLink(c, Walk[d - 2][c]) ELSE Walk[d - 1][c]

LEMMA PartRight ==
    ASSUME Form, NEW d \in Int, d > 0, Right(d - 1), Right(d - 2),
           NEW c \in Repeats!Nodes, NEW l \in Repeats!Links
    PROVE  /\ Part(d, c) \in Visits
           /\ Part(d, c).asked[l] = IF c \in Anc(l) \cup {l} THEN Want(d, Parent(c), l) ELSE 0
           /\ l \in Part(d, c).expanded
                <=> c \in Anc(l) \cup {l} /\ Reach(d, Parent(c), l) /\ l \notin broken
  <1> DEFINE n == Parent(c)
             item == Walk[d - 2][c]
             inner == Walk[d - 1][c]
  <1>1. l \in Repeats!Nodes /\ c \in Dicts /\ c # Root
    BY DEF Repeats!Links, Dicts, Form
  <1>2. item \in Visits /\ inner \in Visits
    <2>1. d - 2 \in Int /\ d - 1 \in Int
      OBVIOUS
    <2>2. QED
      BY <1>1, <2>1, WalkExists
  <1>3. /\ item.asked[l] = IF Under(c, l) THEN Want(d - 2, c, l) ELSE 0
        /\ l \in item.expanded <=> Under(c, l) /\ Reach(d - 2, c, l) /\ l \notin broken
        /\ inner.asked[l] = IF Under(c, l) THEN Want(d - 1, c, l) ELSE 0
        /\ l \in inner.expanded <=> Under(c, l) /\ Reach(d - 1, c, l) /\ l \notin broken
    BY <1>1 DEF Right
  <1>4. Under(c, l) <=> c \in Anc(l)
    BY <1>1 DEF Under
  <1>5. Part(d, c) \in Visits
    BY <1>2, LinkTyped DEF Part
  <1> HIDE DEF item, inner
  <1>6. c \in Repeats!Links =>
           /\ Repeats!Asked(c).asked[l] = (IF l = c THEN 1 ELSE 0)
           /\ Repeats!Expanded(c).asked[l] = (IF l = c THEN 1 ELSE 0)
           /\ Repeats!Asked(c).expanded = {} /\ Repeats!Expanded(c).expanded = {c}
           /\ Repeats!Asked(c) \in Visits /\ Repeats!Expanded(c) \in Visits
    BY <1>2, LinkTyped
  <1>7. item.asked[l] \in Nat /\ inner.asked[l] \in Nat
    BY <1>2 DEF Visits
  <1>8. \A a, b \in Visits : /\ Repeats!Plus(a, b).asked[l] = a.asked[l] + b.asked[l]
                             /\ Repeats!Plus(a, b).expanded = a.expanded \cup b.expanded
                             /\ Repeats!Plus(a, b) \in Visits
    BY PlusTyped DEF Repeats!Plus
  <1>9. Repeats!Nothing.asked[l] = 0 /\ Repeats!Nothing.expanded = {}
    BY DEF Repeats!Nothing
  <1>10. c \in Repeats!Links =>
            /\ Part(d, c).asked[l] =
                  IF c \notin allowed THEN 0
                  ELSE (IF l = c THEN 1 ELSE 0) + (IF c \in Open THEN item.asked[l] + item.asked[l] ELSE 0)
            /\ l \in Part(d, c).expanded <=>
                  c \in allowed /\ c \notin broken /\ (l = c \/ (c \in Open /\ l \in item.expanded))
    <2> SUFFICES ASSUME c \in Repeats!Links
                 PROVE  /\ Part(d, c).asked[l] =
                              IF c \notin allowed THEN 0
                              ELSE (IF l = c THEN 1 ELSE 0)
                                   + (IF c \in Open THEN item.asked[l] + item.asked[l] ELSE 0)
                        /\ l \in Part(d, c).expanded <=>
                              c \in allowed /\ c \notin broken /\ (l = c \/ (c \in Open /\ l \in item.expanded))
      OBVIOUS
    <2>1. Part(d, c) = IF c \notin allowed THEN Repeats!Nothing
                       ELSE IF c \in broken THEN Repeats!Asked(c)
                       ELSE IF c \in gone THEN Repeats!Expanded(c)
                       ELSE Repeats!Plus(Repeats!Expanded(c), Repeats!Plus(item, item))
      BY DEF Part, Repeats!AtLink, Repeats!Passes, item
    <2>2. CASE c \notin allowed
      BY <1>9, <2>1, <2>2
    <2>3. CASE c \in allowed /\ c \in broken
      BY <1>6, <2>1, <2>3 DEF Open
    <2>4. CASE c \in allowed /\ c \notin broken /\ c \in gone
      BY <1>6, <2>1, <2>4 DEF Open
    <2>5. CASE c \in Open
      <3>1. Part(d, c) = Repeats!Plus(Repeats!Expanded(c), Repeats!Plus(item, item))
        BY <2>1, <2>5 DEF Open
      <3>2. Repeats!Plus(item, item).asked[l] = item.asked[l] + item.asked[l]
            /\ Repeats!Plus(item, item).expanded = item.expanded
            /\ Repeats!Plus(item, item) \in Visits
        <4>1. item.expanded \cup item.expanded = item.expanded
          OBVIOUS
        <4>2. QED
          BY <1>2, <1>8, <4>1
      <3>3. Part(d, c).asked[l] = (IF l = c THEN 1 ELSE 0) + (item.asked[l] + item.asked[l])
            /\ Part(d, c).expanded = {c} \cup item.expanded
        BY <1>6, <1>8, <3>1, <3>2
      <3>4. QED
        BY <2>5, <3>3 DEF Open
    <2>6. QED
      BY <2>2, <2>3, <2>4, <2>5 DEF Open
  <1>11. c \notin Repeats!Links => Part(d, c) = inner
    BY DEF Part, inner
  \* The dict is not on the way to l.
  <1>12. CASE c \notin Anc(l) \cup {l}
    <2>1. item.asked[l] = 0 /\ inner.asked[l] = 0 /\ l \notin item.expanded /\ l \notin inner.expanded
      BY <1>3, <1>4, <1>12
    <2>2. l # c
      BY <1>12
    <2>3. QED
      BY <1>5, <1>10, <1>11, <1>12, <2>1, <2>2
  \* It is l.
  <1>13. CASE c = l
    <2>1. item.asked[l] = 0 /\ l \notin item.expanded
      BY <1>1, <1>3, <1>13, BetweenFirst
    <2>2. Between(n, l) = {} /\ CostOf({}) = 0
      BY <1>1, <1>13, BetweenFirst, CostFacts
    <2>3. Reach(d, n, l) <=> l \in allowed
      BY <2>2 DEF Reach
    <2>4. Cardinality({}) = 0 /\ {} \cap Repeats!Links = {} /\ 2 ^ 0 = 1
      BY FS_EmptySet
    <2>5. Want(d, n, l) = IF l \in allowed THEN 1 ELSE 0
      BY <2>2, <2>3, <2>4 DEF Want
    <2>6. /\ Part(d, c).asked[l] = IF l \in allowed THEN 1 ELSE 0
          /\ l \in Part(d, c).expanded <=> l \in allowed /\ l \notin broken
      BY <1>10, <1>13, <2>1
    <2>7. QED
      BY <1>5, <1>13, <2>3, <2>5, <2>6
  \* It is on the way.
  <1>14. CASE c \in Anc(l) /\ c # l
    <2>1. /\ Between(n, l) = {c} \cup Between(c, l) /\ c \notin Between(c, l) /\ Under(c, l)
          /\ Between(c, l) \in SUBSET Repeats!Nodes /\ IsFiniteSet(Between(c, l))
      BY <1>1, <1>14, BetweenFirst, AncestorsAre
    <2>2. CostOf(Between(n, l)) = (IF c \in Repeats!Links THEN 2 ELSE 1) + CostOf(Between(c, l))
          /\ CostOf(Between(c, l)) \in Nat
      BY <2>1, CostFacts
    <2>3. CASE c \in Repeats!Links
      <3>1. Reach(d, n, l) <=> c \in Open /\ Reach(d - 2, c, l)
        <4>1. d > CostOf(Between(n, l)) <=> d - 2 > CostOf(Between(c, l))
          BY <2>2, <2>3
        <4>2. Between(n, l) \cap Repeats!Links \subseteq Open
                <=> c \in Open /\ Between(c, l) \cap Repeats!Links \subseteq Open
          BY <2>1, <2>3
        <4>3. QED
          BY <4>1, <4>2 DEF Reach
      <3>2. /\ 2 ^ Cardinality(Between(n, l) \cap Repeats!Links)
                 = 2 * 2 ^ Cardinality(Between(c, l) \cap Repeats!Links)
            /\ 2 ^ Cardinality(Between(c, l) \cap Repeats!Links) \in Nat
        <4> DEFINE B == Between(c, l) \cap Repeats!Links
        <4>1. IsFiniteSet(B) /\ c \notin B /\ Between(n, l) \cap Repeats!Links = B \cup {c}
          BY <2>1, <2>3, FS_Subset
        <4> HIDE DEF B
        <4>2. 2 ^ Cardinality(B) \in Nat /\ 2 ^ Cardinality(B \cup {c}) = 2 * 2 ^ Cardinality(B)
          BY <4>1, Doubles
        <4>3. QED
          BY <4>1, <4>2 DEF B
      <3>3. Want(d, n, l) = IF c \in Open THEN item.asked[l] + item.asked[l] ELSE 0
        <4> DEFINE x == 2 ^ Cardinality(Between(c, l) \cap Repeats!Links)
                   y == 2 ^ Cardinality(Between(n, l) \cap Repeats!Links)
        <4>1. y = 2 * x /\ x \in Nat
          BY <3>2
        <4>2. item.asked[l] = IF Reach(d - 2, c, l) THEN x ELSE 0
          BY <1>3, <2>1 DEF Want
        <4>3. Want(d, n, l) = IF Reach(d, n, l) THEN y ELSE 0
          BY DEF Want
        <4> HIDE DEF x, y
        <4>4. QED
          BY <3>1, <4>1, <4>2, <4>3
      <3>4. /\ Part(d, c).asked[l] = IF c \in Open THEN item.asked[l] + item.asked[l] ELSE 0
            /\ l \in Part(d, c).expanded <=> c \in Open /\ l \in item.expanded
        BY <1>7, <1>10, <1>14, <2>3 DEF Open
      <3>5. l \in item.expanded <=> Reach(d - 2, c, l) /\ l \notin broken
        BY <1>3, <2>1
      <3>6. QED
        BY <1>5, <1>14, <3>1, <3>3, <3>4, <3>5
    <2>4. CASE c \notin Repeats!Links
      <3>1. Between(n, l) \cap Repeats!Links = Between(c, l) \cap Repeats!Links
        BY <2>1, <2>4
      <3>2. d > CostOf(Between(n, l)) <=> d - 1 > CostOf(Between(c, l))
        BY <2>2, <2>4
      <3>3. Reach(d, n, l) <=> Reach(d - 1, c, l)
        BY <3>1, <3>2 DEF Reach
      <3>4. Want(d, n, l) = Want(d - 1, c, l)
        BY <3>1, <3>3 DEF Want
      <3>5. QED
        BY <1>3, <1>5, <1>11, <1>14, <2>1, <2>4, <3>3, <3>4
    <2>5. QED
      BY <2>3, <2>4
  <1>15. QED
    BY <1>12, <1>13, <1>14

LEMMA DictRight ==
    ASSUME Form, NEW d \in Int, d > 0, Right(d - 1), Right(d - 2)
    PROVE  Right(d)
  <1> SUFFICES ASSUME NEW n \in Dicts, NEW l \in Repeats!Links
               PROVE  /\ Walk[d][n].asked[l] = IF Under(n, l) THEN Want(d, n, l) ELSE 0
                      /\ l \in Walk[d][n].expanded <=> Under(n, l) /\ Reach(d, n, l) /\ l \notin broken
    BY DEF Right
  <1> DEFINE L == Repeats!ChildrenOf(n, "link")
             G == Repeats!ChildrenOf(n, "group")
             p == [c \in L |-> Repeats!AtLink(c, Walk[d - 2][c])]
             q == [c \in G |-> Walk[d - 1][c]]
             f == [c \in L |-> p[c].asked[l]]
             g == [c \in G |-> q[c].asked[l]]
             hit == Reach(d, n, l) /\ l \notin broken
  <1>1. /\ L \subseteq Repeats!Nodes /\ G \subseteq Repeats!Nodes /\ IsFiniteSet(L) /\ IsFiniteSet(G)
        /\ L \subseteq Repeats!Links /\ G \cap Repeats!Links = {}
        /\ \A c \in Repeats!Nodes : Parent(c) = n <=> c \in L \/ c \in G
    BY FS_Subset DEF Form, Repeats!ChildrenOf, Repeats!Links, Parent
  <1>2. l \in Repeats!Nodes
    BY DEF Repeats!Links
  <1>3. \A c \in L \cup G :
           /\ Part(d, c) \in Visits
           /\ Part(d, c).asked[l] = IF c \in Anc(l) \cup {l} THEN Want(d, n, l) ELSE 0
           /\ l \in Part(d, c).expanded <=> c \in Anc(l) \cup {l} /\ hit
    BY <1>1, PartRight
  <1>4. (\A c \in L : p[c] = Part(d, c)) /\ (\A c \in G : q[c] = Part(d, c))
    BY <1>1 DEF Part
  <1>5. Walk[d][n] = Repeats!Plus(Repeats!All(p), Repeats!All(q))
    <2>1. Walk[d] = [m \in Dicts |->
             IF d <= 0 THEN Repeats!Nothing ELSE Repeats!AtDict(m, Walk[d - 1], Walk[d - 2])]
      BY WalkExists DEF IsWalk
    <2>2. Walk[d][n] = Repeats!AtDict(n, Walk[d - 1], Walk[d - 2])
      BY <2>1
    <2>3. QED
      BY <2>2 DEF Repeats!AtDict
  <1>6. DOMAIN p = L /\ DOMAIN q = G
    OBVIOUS
  <1> HIDE DEF p, q, L, G, hit
  <1>7. /\ \A c \in L : f[c] = (IF c \in Anc(l) \cup {l} THEN Want(d, n, l) ELSE 0)
        /\ \A c \in G : g[c] = (IF c \in Anc(l) \cup {l} THEN Want(d, n, l) ELSE 0)
        /\ DOMAIN f = L /\ DOMAIN g = G
    BY <1>3, <1>4
  <1>8. /\ Walk[d][n].asked[l] = Sums(f, L)[L] + Sums(g, G)[G]
        /\ l \in Walk[d][n].expanded <=> \E c \in L \cup G : l \in Part(d, c).expanded
    <2>1. /\ Repeats!All(p).asked[l] = Repeats!SumFunction(f)
          /\ Repeats!All(q).asked[l] = Repeats!SumFunction(g)
      BY <1>6 DEF Repeats!All
    <2>2. Repeats!SumFunction(f) = Sums(f, L)[L] /\ Repeats!SumFunction(g) = Sums(g, G)[G]
      BY <1>7, SumIs DEF Repeats!SumFunction
    <2>3. /\ l \in Repeats!All(p).expanded <=> \E c \in L : l \in p[c].expanded
          /\ l \in Repeats!All(q).expanded <=> \E c \in G : l \in q[c].expanded
      BY <1>6 DEF Repeats!All
    <2>4. /\ Walk[d][n].asked[l] = Repeats!All(p).asked[l] + Repeats!All(q).asked[l]
          /\ Walk[d][n].expanded = Repeats!All(p).expanded \cup Repeats!All(q).expanded
      BY <1>5 DEF Repeats!Plus
    <2>5. QED
      BY <1>4, <2>1, <2>2, <2>3, <2>4
  <1> HIDE DEF f, g
  <1>9. Want(d, n, l) \in Nat
    BY WantIsNumber
  <1>10. /\ \A c \in L : f[c] \in Nat
         /\ \A c \in G : g[c] \in Nat
    BY <1>7, <1>9
  <1>11. CASE ~Under(n, l)
    <2>1. \A c \in L \cup G : c \notin Anc(l) \cup {l}
      BY <1>1, <1>11, <1>2, ParentAbove
    <2>2. Sums(f, L)[L] = 0 /\ Sums(g, G)[G] = 0
      BY <1>1, <1>7, <1>10, <2>1, SumFacts
    <2>3. QED
      BY <1>3, <1>8, <1>11, <2>1, <2>2
  <1>12. CASE Under(n, l)
    <2>1. PICK e \in Anc(l) \cup {l} : Parent(e) = n
      BY <1>2, <1>12, WayDown
    <2>2. e \in L \cup G
      BY <1>1, <1>2, <2>1, AncestorsAre
    <2>3. \A c \in L \cup G : c # e => c \notin Anc(l) \cup {l}
      BY <1>1, <1>2, <2>1, OneWayDown
    <2>4. Sums(f, L)[L] + Sums(g, G)[G] = Want(d, n, l)
      <3>1. CASE e \in L
        <4>1. e \notin G
          BY <1>1, <3>1
        <4>2. Sums(f, L)[L] = f[e]
          BY <1>1, <1>7, <1>10, <2>3, <3>1, SumFacts
        <4>3. Sums(g, G)[G] = 0
          BY <1>1, <1>7, <1>10, <2>3, <4>1, SumFacts
        <4>4. QED
          BY <1>7, <1>9, <2>1, <3>1, <4>2, <4>3
      <3>2. CASE e \in G
        <4>1. e \notin L
          BY <1>1, <3>2
        <4>2. Sums(g, G)[G] = g[e]
          BY <1>1, <1>7, <1>10, <2>3, <3>2, SumFacts
        <4>3. Sums(f, L)[L] = 0
          BY <1>1, <1>7, <1>10, <2>3, <4>1, SumFacts
        <4>4. QED
          BY <1>7, <1>9, <2>1, <3>2, <4>2, <4>3
      <3>3. QED
        BY <2>2, <3>1, <3>2
    <2>5. (\E c \in L \cup G : l \in Part(d, c).expanded) <=> hit
      BY <1>3, <2>1, <2>2
    <2>6. QED
      BY <1>8, <1>12, <2>4, <2>5 DEF hit
  <1>13. QED
    BY <1>11, <1>12

LEMMA WalkRight ==
    ASSUME Form
    PROVE  \A d \in Int : Right(d)
  <1>1. \A d \in Int : d <= 0 => Right(d)
    <2> SUFFICES ASSUME NEW d \in Int, d <= 0, NEW n \in Dicts, NEW l \in Repeats!Links
                 PROVE  /\ Walk[d][n].asked[l] = IF Under(n, l) THEN Want(d, n, l) ELSE 0
                        /\ l \in Walk[d][n].expanded
                              <=> Under(n, l) /\ Reach(d, n, l) /\ l \notin broken
      BY DEF Right
    <2>1. Walk[d][n] = Repeats!Nothing
      BY WalkExists DEF IsWalk
    <2>2. CostOf(Between(n, l)) \in Nat
      BY BetweenFirst, AncestorsAre, CostFacts DEF Repeats!Links
    <2>3. ~Reach(d, n, l)
      BY <2>2 DEF Reach
    <2>4. QED
      BY <2>1, <2>3 DEF Want, Repeats!Nothing
  <1> DEFINE Bad == {n \in Nat : ~Right(n)}
  <1>2. Bad = {}
    <2> SUFFICES ASSUME Bad # {} PROVE FALSE
      OBVIOUS
    <2>1. PICK d \in Bad : \A m \in Bad : d <= m
      <3>1. Bad \subseteq Nat
        OBVIOUS
      <3> HIDE DEF Bad
      <3>2. QED
        BY <3>1, LeastExists
    <2>2. d \in Nat /\ ~Right(d) /\ d > 0
      BY <1>1
    <2>3. \A m \in Nat : m < d => Right(m)
      BY <2>1, <2>2
    <2>4. Right(d - 1)
      BY <2>2, <2>3
    <2>5. Right(d - 2)
      <3>1. d - 2 \in Int /\ (d - 2 <= 0 \/ (d - 2 \in Nat /\ d - 2 < d))
        BY <2>2
      <3>2. QED
        BY <1>1, <2>3, <3>1
    <2>6. QED
      BY <2>2, <2>4, <2>5, DictRight
  <1>3. \A d \in Int : d <= 0 \/ d \in Nat
    OBVIOUS
  <1>4. QED
    BY <1>1, <1>2, <1>3

-----------------------------------------------------------------------------
\* A result that has the links that can be reached, as often as they are asked.
Meets(r, l) ==
    LET reached == /\ l \in allowed /\ Repeats!Ancestors(l) \cap Repeats!Links \subseteq r.expanded \ gone
                   /\ depth > Repeats!SumFunctionOnSet(Repeats!Costs, Repeats!Ancestors(l))
    IN /\ l \in r.expanded <=> (reached /\ l \notin broken)
       /\ r.asked[l] = IF reached THEN 2 ^ Cardinality(Repeats!Ancestors(l) \cap Repeats!Links) ELSE 0

\* What there is to resolve is a form, and what was resolved has what it must.
LinksInv ==
    /\ Form /\ depth \in Int
    /\ result # NULL => \A l \in Repeats!Links : Meets(result, l)

LEMMA ResolvedMeets ==
    ASSUME Form, depth \in Int, NEW l \in Repeats!Links
    PROVE  Meets(Repeats!ResolveNavLinks, l)
  <1> DEFINE r == Repeats!ResolveNavLinks
             around == Anc(l) \cap Repeats!Links
  <1>1. Root \in Dicts
    BY DEF Dicts
  <1>2. r = Walk[depth][Root]
    BY Zenon DEF Repeats!ResolveNavLinks, Walk, IsWalk, Dicts
  <1>3. \A k \in Repeats!Links :
           /\ r.asked[k] = Want(depth, Root, k)
           /\ k \in r.expanded <=> Reach(depth, Root, k) /\ k \notin broken
    BY <1>1, <1>2, WalkRight DEF Right, Under
  <1> HIDE DEF r
  <1>4. \A k : Between(Root, k) = Anc(k)
    BY DEF Between
  <1>5. /\ l \in Repeats!Nodes /\ Anc(l) \in SUBSET Repeats!Nodes
        /\ Repeats!SumFunctionOnSet(Repeats!Costs, Anc(l)) = CostOf(Anc(l))
    BY AncestorsAre, CostFacts DEF Repeats!Links
  <1>6. ASSUME Reach(depth, Root, l)
        PROVE  around \subseteq r.expanded \ gone
    <2> SUFFICES ASSUME NEW a \in around PROVE a \in r.expanded /\ a \notin gone
      OBVIOUS
    <2>1. a \in Open
      BY <1>4, <1>6 DEF Reach
    <2>2. Anc(a) \subseteq Anc(l)
      BY AncestorsFurther
    <2>3. CostOf(Anc(a)) <= CostOf(Anc(l)) /\ CostOf(Anc(a)) \in Nat /\ CostOf(Anc(l)) \in Nat
      BY <1>5, <2>2, CostFacts, AncestorsAre
    <2>4. Reach(depth, Root, a)
      BY <1>4, <1>6, <2>1, <2>2, <2>3 DEF Reach, Open
    <2>5. QED
      BY <1>3, <2>1, <2>4 DEF Open
  <1>7. ASSUME around \subseteq r.expanded \ gone
        PROVE  around \subseteq Open
    BY <1>3, <1>7 DEF Open, Reach
  <1>8. Reach(depth, Root, l) <=>
           /\ l \in allowed /\ around \subseteq r.expanded \ gone
           /\ depth > Repeats!SumFunctionOnSet(Repeats!Costs, Anc(l))
    BY <1>4, <1>5, <1>6, <1>7 DEF Reach
  <1>9. Want(depth, Root, l) = IF Reach(depth, Root, l) THEN 2 ^ Cardinality(around) ELSE 0
    BY <1>4 DEF Want
  <1>10. Meets(r, l)
    BY <1>3, <1>8, <1>9 DEF Anc, Meets
  <1>11. QED
    BY <1>10 DEF r

LEMMA LinksInit ==
    ASSUME FormsAreTrees, Repeats!Init
    PROVE  LinksInv
  <1>1. tree \in Trees /\ depth \in Depths /\ result = NULL
    BY DEF Repeats!Init
  <1>2. Form
    BY <1>1 DEF FormsAreTrees, Form, Parent, Repeats!Nodes
  <1>3. QED
    BY <1>1, <1>2 DEF FormsAreTrees, LinksInv

LEMMA LinksStep ==
    ASSUME LinksInv, Repeats!Next \/ UNCHANGED links
    PROVE  LinksInv'
  <1>1. UNCHANGED <<tree, allowed, broken, gone, depth>>
        /\ (result' = result \/ result' = Repeats!ResolveNavLinks)
    BY DEF Repeats!Next, Repeats!Resolve, links
  <1>2. Form'
    BY <1>1 DEF LinksInv, Form, Parent, Repeats!Nodes
  <1>3. Repeats!Nodes' = Repeats!Nodes /\ Repeats!Links' = Repeats!Links
    BY <1>1 DEF Repeats!Nodes, Repeats!Links
  <1>4. Repeats!Costs' = Repeats!Costs
    BY <1>1, <1>3 DEF Repeats!Costs
  <1>5. \A l : Repeats!Ancestors(l)' = Repeats!Ancestors(l)
    BY <1>1, <1>3 DEF Repeats!Ancestors
  <1>6. \A l : Meets(result, l)' <=> Meets(result', l)
    BY <1>1, <1>3, <1>4, <1>5 DEF Meets
  <1>7. result' # NULL => \A l \in Repeats!Links : Meets(result', l)
    BY <1>1, ResolvedMeets DEF LinksInv
  <1>8. QED
    BY <1>1, <1>2, <1>3, <1>6, <1>7 DEF LinksInv

LEMMA LinksHold == LinksInv => Repeats!LinksExpanded
  <1>1. \A S : Repeats!Cardinality(S) = Cardinality(S)
    BY DEF Repeats!Cardinality, Cardinality
  <1>2. QED
    BY <1>1, Zenon DEF LinksInv, Meets, Repeats!LinksExpanded

=============================================================================
