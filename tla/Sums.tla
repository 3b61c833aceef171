--------------------------------- MODULE Sums ---------------------------------
(***************************************************************************)
(* Facts about SumFunctionOnSet(f, S) for a finite set S.  The sum is      *)
(* defined by recursion on the subsets of S, taking one chosen member out  *)
(* at a time; the facts are proved by looking at a smallest subset for     *)
(* which they would fail.                                                  *)
(***************************************************************************)
EXTENDS FiniteSetsExt, FiniteSetTheorems, TLAPS

Pick(s) == CHOOSE x \in s : TRUE

(* g is the table of the sums over the subsets of S. *)
Tabulates(g, f, S) ==
  g = [s \in SUBSET S |-> IF s = {} THEN 0 ELSE f[Pick(s)] + g[s \ {Pick(s)}]]

LEMMA SumIsTabulated ==
  ASSUME NEW f, NEW S
  PROVE  SumFunctionOnSet(f, S) = (CHOOSE g : Tabulates(g, f, S))[S]
BY Zenon DEF SumFunctionOnSet, FoldFunctionOnSet, MapThenFoldSet, Tabulates, Pick

(* A set of subsets of a finite set has a minimal member. *)
LEMMA SmallestSubset ==
  ASSUME NEW S, IsFiniteSet(S), NEW B \in SUBSET (SUBSET S), B # {}
  PROVE  \E T \in B : \A U \in B : U \subseteq T => U = T
<1>1. B \subseteq FiniteSubsetsOf(S)
  BY FS_FiniteSubsetsOfFinite, FS_Subset DEF FiniteSubsetsOf
<1>2. PICK T \in B : \A U \in B : ~ (<<U, T>> \in StrictSubsetOrdering(S))
  BY <1>1, WFMin, FS_StrictSubsetOrderingWellFounded
<1>3. \A U \in B : U \subseteq T => U = T
  BY <1>2 DEF StrictSubsetOrdering
<1> QED
  BY <1>3

(* A set of natural numbers has a least member. *)
LEMMA LeastNatural ==
  ASSUME NEW S \in SUBSET Nat, S # {}
  PROVE  \E n \in S : \A k \in S : n <= k
<1>1. PICK n \in S : n \in Nat
  OBVIOUS
<1> DEFINE D == 0..n
           B == {T \in SUBSET D : \E k \in S : T = 0..k}
<1>2. B \in SUBSET (SUBSET D) /\ B # {}
  <2>1. 0..n \in B
    BY <1>1
  <2> QED
    BY <2>1
<1>3. IsFiniteSet(D)
  BY <1>1, FS_Interval
<1>4. PICK T \in B : \A U \in B : U \subseteq T => U = T
  <2> HIDE DEF B, D
  <2> QED
    BY <1>2, <1>3, SmallestSubset
<1>5. PICK m \in S : T = 0..m
  OBVIOUS
<1>6. ASSUME NEW k \in S, k < m
      PROVE  FALSE
  <2>1. k \in Nat /\ m \in Nat /\ n \in Nat
    BY <1>1
  <2>2. 0..k \subseteq T /\ m \in T /\ m \notin 0..k
    BY <1>5, <1>6, <2>1
  <2>3. 0..k \in B
    BY <2>2
  <2> QED
    BY <1>4, <2>2, <2>3
<1>7. \A k \in S : m <= k
  BY <1>6
<1> QED
  BY <1>7

LEMMA PickIsMember ==
  ASSUME NEW s, s # {}
  PROVE  Pick(s) \in s
BY DEF Pick

LEMMA TableEntries ==
  ASSUME NEW f, NEW g, NEW S, Tabulates(g, f, S), NEW s \in SUBSET S
  PROVE  g[s] = IF s = {} THEN 0 ELSE f[Pick(s)] + g[s \ {Pick(s)}]
<1> DEFINE entry(x) == IF x = {} THEN 0 ELSE f[Pick(x)] + g[x \ {Pick(x)}]
<1>1. g = [x \in SUBSET S |-> entry(x)]
  BY DEF Tabulates
<1> HIDE DEF entry
<1>2. g[s] = entry(s)
  BY <1>1
<1> QED
  BY <1>2 DEF entry

LEMMA TablesAgree ==
  ASSUME NEW f, NEW g, NEW h, NEW S, IsFiniteSet(S), NEW T \in SUBSET S,
         Tabulates(g, f, S), Tabulates(h, f, T)
  PROVE  \A s \in SUBSET T : g[s] = h[s]
<1> DEFINE B == {s \in SUBSET T : g[s] # h[s]}
<1>1. SUFFICES ASSUME B # {} PROVE FALSE
  OBVIOUS
<1>2. PICK s \in B : \A u \in B : u \subseteq s => u = s
  <2>1. B \in SUBSET (SUBSET T) /\ IsFiniteSet(T)
    BY FS_Subset
  <2> HIDE DEF B
  <2> QED BY <1>1, <2>1, SmallestSubset
<1>3. s \in SUBSET T /\ s \in SUBSET S
  OBVIOUS
<1>4. s # {}
  BY <1>3, TableEntries
<1> DEFINE r == s \ {Pick(s)}
<1>5. r \in SUBSET T /\ r # s /\ r \subseteq s
  BY <1>3, <1>4, PickIsMember
<1>6. g[r] = h[r]
  BY <1>2, <1>5
<1>7. g[s] = h[s]
  BY <1>3, <1>4, <1>6, TableEntries
<1> QED
  BY <1>7

LEMMA TableExists ==
  ASSUME NEW f, NEW S, IsFiniteSet(S)
  PROVE  \E g : Tabulates(g, f, S)
<1> DEFINE B == {s \in SUBSET S : ~ \E g : Tabulates(g, f, s)}
<1>1. SUFFICES ASSUME B # {} PROVE FALSE
  OBVIOUS
<1>2. PICK T \in B : \A u \in B : u \subseteq T => u = T
  <2>1. B \in SUBSET (SUBSET S)
    OBVIOUS
  <2> HIDE DEF B
  <2> QED BY <1>1, <2>1, SmallestSubset
<1>3. T \in SUBSET S /\ IsFiniteSet(T)
  BY FS_Subset
<1> DEFINE rest(s) == s \ {Pick(s)}
           table(s) == CHOOSE g : Tabulates(g, f, s)
           entry(s) == IF s = {} THEN 0 ELSE f[Pick(s)] + table(rest(s))[rest(s)]
           h == [s \in SUBSET T |-> entry(s)]
<1>4. \A s \in SUBSET T : s # {} => Tabulates(table(rest(s)), f, rest(s))
  <2> SUFFICES ASSUME NEW s \in SUBSET T, s # {}
               PROVE  Tabulates(table(rest(s)), f, rest(s))
    OBVIOUS
  <2>1. rest(s) \in SUBSET S /\ rest(s) \subseteq T /\ rest(s) # T
    BY <1>3, PickIsMember
  <2>2. \E g : Tabulates(g, f, rest(s))
    BY <1>2, <2>1
  <2> HIDE DEF rest
  <2> QED
    BY <2>2
<1>5. \A s \in SUBSET T : s # {} => h[rest(s)] = table(rest(s))[rest(s)]
  <2> SUFFICES ASSUME NEW s \in SUBSET T, s # {}
               PROVE  h[rest(s)] = table(rest(s))[rest(s)]
    OBVIOUS
  <2>1. CASE rest(s) = {}
    <3>1. Tabulates(table({}), f, {})
      BY <1>4, <2>1
    <3>2. table({})[{}] = 0
      <4> HIDE DEF table
      <4> QED BY <3>1, TableEntries
    <3>3. h[{}] = 0
      OBVIOUS
    <3> QED
      BY <2>1, <3>2, <3>3
  <2>2. CASE rest(s) # {}
    <3> DEFINE r == rest(s)
               q == rest(r)
    <3>1. r \in SUBSET T /\ r # {} /\ q \in SUBSET r /\ r \in SUBSET r /\ q \in SUBSET q
      BY <2>2
    <3>2. Tabulates(table(r), f, r) /\ Tabulates(table(q), f, q)
      BY <1>4, <3>1
    <3>3. IsFiniteSet(r)
      BY <1>3, <3>1, FS_Subset
    <3>4. h[r] = f[Pick(r)] + table(q)[q]
      BY <3>1
    <3> HIDE DEF table, h
    <3>5. table(r)[q] = table(q)[q]
      <4> HIDE DEF r, q
      <4> QED BY <3>1, <3>2, <3>3, TablesAgree
    <3>6. table(r)[r] = f[Pick(r)] + table(r)[r \ {Pick(r)}]
      <4> HIDE DEF r, q
      <4> QED BY <3>1, <3>2, TableEntries
    <3> QED
      BY <3>4, <3>5, <3>6
  <2> QED
    BY <2>1, <2>2
<1>6. h = [s \in SUBSET T |-> IF s = {} THEN 0 ELSE f[Pick(s)] + h[s \ {Pick(s)}]]
  <2>1. \A s \in SUBSET T : entry(s) = IF s = {} THEN 0 ELSE f[Pick(s)] + h[s \ {Pick(s)}]
    <3> SUFFICES ASSUME NEW s \in SUBSET T
                 PROVE  entry(s) = IF s = {} THEN 0 ELSE f[Pick(s)] + h[s \ {Pick(s)}]
      OBVIOUS
    <3>1. s # {} => h[s \ {Pick(s)}] = table(rest(s))[rest(s)]
      BY <1>5
    <3> HIDE DEF h, table
    <3> QED BY <3>1
  <2> DEFINE other(s) == IF s = {} THEN 0 ELSE f[Pick(s)] + h[s \ {Pick(s)}]
  <2>2. h = [s \in SUBSET T |-> other(s)]
    <3> HIDE DEF entry, other
    <3> QED BY <2>1 DEF other
  <2> QED
    BY <2>2
<1>7. Tabulates(h, f, T)
  <2> HIDE DEF h
  <2> QED BY <1>6 DEF Tabulates
<1> QED
  BY <1>2, <1>7

(* The sum takes out a chosen member and goes on with the others. *)
LEMMA SumStep ==
  ASSUME NEW f, NEW S, IsFiniteSet(S)
  PROVE  SumFunctionOnSet(f, S) =
           IF S = {} THEN 0 ELSE f[Pick(S)] + SumFunctionOnSet(f, S \ {Pick(S)})
<1> DEFINE table(T) == CHOOSE g : Tabulates(g, f, T)
           R == S \ {Pick(S)}
<1>1. Tabulates(table(S), f, S) /\ Tabulates(table(R), f, R)
  BY TableExists, FS_Subset
<1>2. SumFunctionOnSet(f, S) = table(S)[S] /\ SumFunctionOnSet(f, R) = table(R)[R]
  BY SumIsTabulated
<1> HIDE DEF table
<1>3. table(S)[R] = table(R)[R]
  BY <1>1, TablesAgree
<1>4. table(S)[S] = IF S = {} THEN 0 ELSE f[Pick(S)] + table(S)[R]
  BY <1>1, TableEntries
<1> QED
  BY <1>2, <1>3, <1>4

LEMMA SumOfNothing ==
  ASSUME NEW f
  PROVE  SumFunctionOnSet(f, {}) = 0
BY SumStep, FS_EmptySet

(* For proofs about all sums over subsets of S: it is enough to show that  *)
(* taking the chosen member out of a set in B leaves a smaller set in B.   *)
LEMMA NoSmallest ==
  ASSUME NEW S, IsFiniteSet(S), NEW B \in SUBSET (SUBSET S),
         \A T \in B : \E U \in B : U \subseteq T /\ U # T
  PROVE  B = {}
BY SmallestSubset

LEMMA SumIsInt ==
  ASSUME NEW f, NEW S, IsFiniteSet(S), \A x \in S : f[x] \in Int
  PROVE  SumFunctionOnSet(f, S) \in Int
<1> DEFINE B == {T \in SUBSET S : SumFunctionOnSet(f, T) \notin Int}
<1>1. ASSUME NEW T \in B PROVE \E U \in B : U \subseteq T /\ U # T
  <2>1. T \in SUBSET S /\ IsFiniteSet(T)
    BY FS_Subset
  <2>2. T # {} /\ Pick(T) \in T
    BY SumOfNothing, PickIsMember
  <2>3. SumFunctionOnSet(f, T) = f[Pick(T)] + SumFunctionOnSet(f, T \ {Pick(T)})
    BY <2>1, <2>2, SumStep
  <2>4. T \ {Pick(T)} \in B
    BY <2>1, <2>2, <2>3
  <2> QED
    BY <2>2, <2>4
<1>2. B = {}
  <2>1. B \in SUBSET (SUBSET S)
    OBVIOUS
  <2> HIDE DEF B
  <2> QED BY <1>1, <2>1, NoSmallest
<1> QED
  BY <1>2

LEMMA SumIsNat ==
  ASSUME NEW f, NEW S, IsFiniteSet(S), \A x \in S : f[x] \in Nat
  PROVE  SumFunctionOnSet(f, S) \in Nat
<1> DEFINE B == {T \in SUBSET S : SumFunctionOnSet(f, T) \notin Nat}
<1>1. ASSUME NEW T \in B PROVE \E U \in B : U \subseteq T /\ U # T
  <2>1. T \in SUBSET S /\ IsFiniteSet(T)
    BY FS_Subset
  <2>2. T # {} /\ Pick(T) \in T
    BY SumOfNothing, PickIsMember
  <2>3. SumFunctionOnSet(f, T) = f[Pick(T)] + SumFunctionOnSet(f, T \ {Pick(T)})
    BY <2>1, <2>2, SumStep
  <2>4. T \ {Pick(T)} \in B
    BY <2>1, <2>2, <2>3
  <2> QED
    BY <2>2, <2>4
<1>2. B = {}
  <2>1. B \in SUBSET (SUBSET S)
    OBVIOUS
  <2> HIDE DEF B
  <2> QED BY <1>1, <2>1, NoSmallest
<1> QED
  BY <1>2

(* Functions that agree on the set have one sum. *)
LEMMA SumAgrees ==
  ASSUME NEW f, NEW g, NEW S, IsFiniteSet(S), \A x \in S : f[x] = g[x]
  PROVE  SumFunctionOnSet(f, S) = SumFunctionOnSet(g, S)
<1> DEFINE B == {T \in SUBSET S : SumFunctionOnSet(f, T) # SumFunctionOnSet(g, T)}
<1>1. ASSUME NEW T \in B PROVE \E U \in B : U \subseteq T /\ U # T
  <2>1. T \in SUBSET S /\ IsFiniteSet(T)
    BY FS_Subset
  <2>2. T # {} /\ Pick(T) \in T
    BY SumOfNothing, PickIsMember
  <2>3. /\ SumFunctionOnSet(f, T) = f[Pick(T)] + SumFunctionOnSet(f, T \ {Pick(T)})
        /\ SumFunctionOnSet(g, T) = g[Pick(T)] + SumFunctionOnSet(g, T \ {Pick(T)})
    BY <2>1, <2>2, SumStep
  <2>4. T \ {Pick(T)} \in B
    BY <2>1, <2>2, <2>3
  <2> QED
    BY <2>2, <2>4
<1>2. B = {}
  <2>1. B \in SUBSET (SUBSET S)
    OBVIOUS
  <2> HIDE DEF B
  <2> QED BY <1>1, <2>1, NoSmallest
<1> QED
  BY <1>2

(* Any member may be taken out first. *)
LEMMA SumWithout ==
  ASSUME NEW f, NEW S, IsFiniteSet(S), \A x \in S : f[x] \in Int
  PROVE  \A y \in S : SumFunctionOnSet(f, S) = f[y] + SumFunctionOnSet(f, S \ {y})
<1> DEFINE Good(T, y) == SumFunctionOnSet(f, T) = f[y] + SumFunctionOnSet(f, T \ {y})
           B == {T \in SUBSET S : \E y \in T : ~ Good(T, y)}
<1>1. ASSUME NEW T \in B, \A U \in B : U \subseteq T => U = T PROVE FALSE
  <2>1. PICK y \in T : ~ Good(T, y)
    OBVIOUS
  <2> DEFINE p == Pick(T)
  <2>2. T \in SUBSET S /\ IsFiniteSet(T) /\ p \in T /\ y \in S /\ p \in S
    BY FS_Subset, PickIsMember
  <2>3. SumFunctionOnSet(f, T) = f[p] + SumFunctionOnSet(f, T \ {p})
    BY <2>2, SumStep
  <2>4. p # y
    BY <2>1, <2>3
  <2>5. T \ {p} \notin B /\ T \ {y} \notin B
    BY <1>1, <2>1, <2>2
  <2>6. Good(T \ {p}, y) /\ Good(T \ {y}, p)
    <3>1. T \ {p} \in SUBSET S /\ T \ {y} \in SUBSET S /\ y \in T \ {p} /\ p \in T \ {y}
      BY <2>2, <2>4
    <3> HIDE DEF Good, p
    <3> QED BY <2>5, <3>1
  <2>7. (T \ {p}) \ {y} = (T \ {y}) \ {p}
    OBVIOUS
  <2>8. SumFunctionOnSet(f, (T \ {p}) \ {y}) \in Int
    BY <2>2, SumIsInt, FS_Subset
  <2>9. f[p] \in Int /\ f[y] \in Int
    BY <2>2
  <2>10. SumFunctionOnSet(f, T) = f[p] + (f[y] + SumFunctionOnSet(f, (T \ {p}) \ {y}))
    BY <2>3, <2>6
  <2>11. SumFunctionOnSet(f, T \ {y}) = f[p] + SumFunctionOnSet(f, (T \ {p}) \ {y})
    BY <2>6, <2>7
  <2> HIDE DEF p
  <2>12. SumFunctionOnSet(f, T) = f[y] + SumFunctionOnSet(f, T \ {y})
    BY <2>8, <2>9, <2>10, <2>11
  <2> QED
    BY <2>1, <2>12
<1>2. B = {}
  <2>1. B \in SUBSET (SUBSET S)
    OBVIOUS
  <2> HIDE DEF B
  <2> QED BY <1>1, <2>1, SmallestSubset
<1> QED
  BY <1>2

(* Where two functions differ at most at y, the sums differ by as much. *)
LEMMA SumChange ==
  ASSUME NEW f, NEW g, NEW S, IsFiniteSet(S), NEW y \in S,
         \A x \in S : f[x] \in Int /\ g[x] \in Int,
         \A x \in S \ {y} : f[x] = g[x]
  PROVE  SumFunctionOnSet(g, S) = SumFunctionOnSet(f, S) + g[y] - f[y]
<1>1. /\ SumFunctionOnSet(f, S) = f[y] + SumFunctionOnSet(f, S \ {y})
      /\ SumFunctionOnSet(g, S) = g[y] + SumFunctionOnSet(g, S \ {y})
  BY SumWithout
<1>2. IsFiniteSet(S \ {y})
  BY FS_Subset
<1>3. SumFunctionOnSet(f, S \ {y}) = SumFunctionOnSet(g, S \ {y})
  BY <1>2, SumAgrees
<1>4. SumFunctionOnSet(f, S \ {y}) \in Int
  BY <1>2, SumIsInt
<1> QED
  BY <1>1, <1>3, <1>4

LEMMA SumWith ==
  ASSUME NEW f, NEW S, IsFiniteSet(S), NEW y, y \notin S,
         \A x \in S \cup {y} : f[x] \in Int
  PROVE  SumFunctionOnSet(f, S \cup {y}) = SumFunctionOnSet(f, S) + f[y]
<1>1. IsFiniteSet(S \cup {y}) /\ (S \cup {y}) \ {y} = S
  BY FS_AddElement
<1>2. SumFunctionOnSet(f, S \cup {y}) = f[y] + SumFunctionOnSet(f, S)
  BY <1>1, SumWithout
<1> QED
  BY <1>2, SumIsInt

(* A sum of natural numbers is no less than each of them. *)
LEMMA SumCovers ==
  ASSUME NEW f, NEW S, IsFiniteSet(S), \A x \in S : f[x] \in Nat
  PROVE  \A y \in S : f[y] <= SumFunctionOnSet(f, S)
<1> SUFFICES ASSUME NEW y \in S PROVE f[y] <= SumFunctionOnSet(f, S)
  OBVIOUS
<1>1. SumFunctionOnSet(f, S) = f[y] + SumFunctionOnSet(f, S \ {y})
  BY SumWithout
<1>2. SumFunctionOnSet(f, S \ {y}) \in Nat
  BY SumIsNat, FS_Subset
<1> QED
  BY <1>1, <1>2

(* Bounds on all terms, by the same factors, bound the sums. *)
LEMMA SumScaled ==
  ASSUME NEW f, NEW g, NEW S, IsFiniteSet(S), NEW c \in Nat, NEW d \in Nat,
         \A x \in S : f[x] \in Nat /\ g[x] \in Nat /\ c * f[x] <= d * g[x]
  PROVE  c * SumFunctionOnSet(f, S) <= d * SumFunctionOnSet(g, S)
<1> DEFINE Good(T) == c * SumFunctionOnSet(f, T) <= d * SumFunctionOnSet(g, T)
           B == {T \in SUBSET S : ~ Good(T)}
<1>1. ASSUME NEW T \in B PROVE \E U \in B : U \subseteq T /\ U # T
  <2>1. T \in SUBSET S /\ IsFiniteSet(T) /\ ~ Good(T)
    BY FS_Subset
  <2>2. Good({})
    BY SumOfNothing
  <2>3. T # {}
    BY <2>1, <2>2
  <2> DEFINE p == Pick(T)
             R == T \ {p}
             F == SumFunctionOnSet(f, R)
             G == SumFunctionOnSet(g, R)
  <2>4. p \in T /\ p \in S /\ R \in SUBSET S /\ IsFiniteSet(R)
    BY <2>1, <2>3, PickIsMember, FS_Subset
  <2>5. SumFunctionOnSet(f, T) = f[p] + F /\ SumFunctionOnSet(g, T) = g[p] + G
    BY <2>1, <2>3, SumStep
  <2>6. F \in Nat /\ G \in Nat
    BY <2>4, SumIsNat
  <2>7. f[p] \in Nat /\ g[p] \in Nat /\ c * f[p] <= d * g[p]
    BY <2>4
  <2>8. c * (f[p] + F) > d * (g[p] + G)
    <3>1. f[p] + F \in Nat /\ g[p] + G \in Nat
      BY <2>6, <2>7
    <3>2. c * (f[p] + F) \in Int /\ d * (g[p] + G) \in Int
      BY <3>1
    <3> QED BY <2>1, <2>5, <3>2
  <2>9. \A a, b, e \in Nat : a * (b + e) = a * b + a * e /\ a * b \in Int
    OBVIOUS
  <2>10. ~ Good(R)
    <3> HIDE DEF F, G, p, R
    <3>1. c * (f[p] + F) = c * f[p] + c * F /\ d * (g[p] + G) = d * g[p] + d * G
      BY <2>6, <2>7, <2>9
    <3>2. c * f[p] \in Int /\ c * F \in Int /\ d * g[p] \in Int /\ d * G \in Int
      BY <2>6, <2>7, <2>9
    <3>3. ~ (c * F <= d * G)
      BY <2>7, <2>8, <3>1, <3>2
    <3> QED BY <3>3 DEF F, G
  <2>11. R \in B /\ R \subseteq T /\ R # T
    BY <2>4, <2>10
  <2> QED
    BY <2>11
<1>2. B = {}
  <2>1. B \in SUBSET (SUBSET S)
    OBVIOUS
  <2> HIDE DEF B
  <2> QED BY <1>1, <2>1, NoSmallest
<1> QED
  BY <1>2

(* The sum of a function is the sum over its domain. *)
LEMMA SumOfFunction ==
  ASSUME NEW S, NEW T, NEW f \in [S -> T]
  PROVE  SumFunction(f) = SumFunctionOnSet(f, S)
BY DEF SumFunction

(* Shares rounded down, of a number of parts, come to no more than the whole. *)
LEMMA FloorShare ==
  ASSUME NEW whole \in Nat, NEW parts \in Nat, NEW all \in Nat \ {0}
  PROVE  /\ (whole * parts) \div all \in Nat
         /\ all * ((whole * parts) \div all) <= whole * parts
<1>1. \A n \in Nat : n \div all \in Nat /\ all * (n \div all) <= n
  OBVIOUS
<1>2. whole * parts \in Nat
  OBVIOUS
<1> QED
  BY <1>1, <1>2

LEMMA FloorShares ==
  ASSUME NEW share, NEW parts, NEW S, IsFiniteSet(S), NEW whole \in Nat,
         \A x \in S : share[x] \in Nat /\ parts[x] \in Nat,
         NEW all \in Nat \ {0}, all = SumFunctionOnSet(parts, S),
         \A x \in S : share[x] = 0 \/ share[x] = (whole * parts[x]) \div all
  PROVE  SumFunctionOnSet(share, S) <= whole
<1>1. \A x \in S : all * share[x] <= whole * parts[x]
  <2> SUFFICES ASSUME NEW x \in S PROVE all * share[x] <= whole * parts[x]
    OBVIOUS
  <2>1. parts[x] \in Nat
    OBVIOUS
  <2>2. CASE share[x] = 0
    <3>1. whole * parts[x] \in Nat
      BY <2>1
    <3> QED BY <2>2, <3>1
  <2>3. CASE share[x] = (whole * parts[x]) \div all
    BY <2>1, <2>3, FloorShare
  <2> QED
    BY <2>2, <2>3
<1>2. all * SumFunctionOnSet(share, S) <= whole * all
  BY <1>1, SumScaled
<1>3. SumFunctionOnSet(share, S) \in Nat
  BY SumIsNat
<1>4. \A n \in Nat : all * n <= whole * all => n <= whole
  OBVIOUS
<1> QED
  BY <1>2, <1>3, <1>4

LEMMA SumOfZeros ==
  ASSUME NEW f, NEW S, IsFiniteSet(S), \A x \in S : f[x] = 0
  PROVE  SumFunctionOnSet(f, S) = 0
<1>1. 1 * SumFunctionOnSet(f, S) <= 0 * SumFunctionOnSet(f, S)
  BY SumScaled
<1>2. SumFunctionOnSet(f, S) \in Nat
  BY SumIsNat
<1> QED
  BY <1>1, <1>2
=============================================================================
