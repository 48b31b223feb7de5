----------------------------- MODULE Induction -----------------------------
(***************************************************************************)
(* Induction over the naturals for a set of numbers in place of a          *)
(* predicate, which is what the provers can use, and what follows from it  *)
(* for the sums SumFunctionOnSet of module Functions (a sum does not       *)
(* depend on the order in which its terms are taken) and for loops.  Last, *)
(* lists: sequences that hold an element once.                             *)
(***************************************************************************)
EXTENDS Integers, Sequences, FiniteSets, Functions, SequencesExt, FiniteSetTheorems,
        SequenceTheorems, WellFoundedInduction, TLAPS

(* A set of naturals has a least element. *)
LEMMA LeastNatural ==
  ASSUME NEW S \in SUBSET Nat, S # {}
  PROVE  \E m \in S : \A n \in S : m <= n
  <1> DEFINE Less == {ss \in Nat \X Nat : ss[1] < ss[2]}
  <1>1. IsWellFoundedOn(Less, Nat)
    BY NatLessThanWellFounded DEF OpToRel
  <1>2. \A m, n \in Nat : <<n, m>> \in Less <=> n < m
    OBVIOUS
  <1> HIDE DEF Less
  <1>3. \E m \in S : \A n \in S : ~ (<<n, m>> \in Less)
    BY <1>1, WFMin
  <1>4. PICK m \in S : \A n \in S : ~ (<<n, m>> \in Less)
    BY <1>3
  <1>5. \A n \in S : ~ (n < m)
    BY <1>2, <1>4
  <1> QED
    BY <1>5

(* A set that has 0 and with each number the next one has every number. *)
LEMMA EveryNatural ==
  ASSUME NEW S, 0 \in S, \A n \in Nat : n \in S => n + 1 \in S
  PROVE  \A n \in Nat : n \in S
  <1> DEFINE T == Nat \ S
  <1>1. SUFFICES ASSUME T # {} PROVE FALSE
    OBVIOUS
  <1>2. PICK m \in T : \A n \in T : m <= n
    BY <1>1, LeastNatural
  <1>3. m # 0 /\ m \in Nat
    BY <1>2
  <1>4. m - 1 \in Nat /\ m - 1 \notin T
    BY <1>2, <1>3
  <1> QED
    BY <1>2, <1>3, <1>4

-----------------------------------------------------------------------------
(* Sums *)

(* The element a sum over s takes next. *)
Pick(s) == CHOOSE x \in s : TRUE

(* What is defined of the sums over the subsets of S, of the sums it. *)
OneOn(f, it, s) == IF s = {} THEN 0 ELSE f[Pick(s)] + it[s \ {Pick(s)}]
Sums(f, S, it) == it = [s \in SUBSET S |-> OneOn(f, it, s)]

(* SumFunctionOnSet is one of the sums over the subsets of its set. *)
LEMMA SumIs ==
  ASSUME NEW f, NEW S
  PROVE  SumFunctionOnSet(f, S) = (CHOOSE it : Sums(f, S, it))[S]
  BY DEF SumFunctionOnSet, FoldFunctionOnSet, MapThenFoldSet, Sums, OneOn, Pick

(* One element less. *)
LEMMA Smaller ==
  ASSUME NEW S, IsFiniteSet(S), NEW x \in S
  PROVE  /\ IsFiniteSet(S \ {x}) /\ Cardinality(S) \in Nat \ {0}
         /\ Cardinality(S \ {x}) = Cardinality(S) - 1
  BY FS_RemoveElement, FS_CardinalityType, FS_EmptySet

(* The sums are there. *)
LEMMA SumsExist ==
  ASSUME NEW f, NEW S, IsFiniteSet(S)
  PROVE  \E it : Sums(f, S, it)
  <1> DEFINE Upto(n, it) == \A s \in SUBSET S : Cardinality(s) <= n => it[s] = OneOn(f, it, s)
             P == {n \in Nat : \E it : Upto(n, it)}
  <1>0. \A s \in SUBSET S : IsFiniteSet(s) /\ Cardinality(s) \in Nat
    BY FS_Subset, FS_CardinalityType
  <1>1. 0 \in P
    <2> DEFINE it == [s \in SUBSET S |-> 0]
    <2>1. \A s \in SUBSET S : Cardinality(s) <= 0 => s = {}
      BY <1>0, FS_EmptySet
    <2>2. Upto(0, it)
      BY <2>1 DEF OneOn
    <2> QED
      BY <2>2
  <1>2. ASSUME NEW n \in Nat, n \in P PROVE n + 1 \in P
    <2>1. PICK it : Upto(n, it)
      BY <1>2
    <2> DEFINE jt == [s \in SUBSET S |-> OneOn(f, it, s)]
    <2>2. ASSUME NEW s \in SUBSET S, Cardinality(s) <= n + 1
          PROVE  jt[s] = OneOn(f, jt, s)
      <3>1. CASE s = {}
        BY <3>1 DEF OneOn
      <3>2. CASE s # {}
        <4> DEFINE t == s \ {Pick(s)}
        <4>1. Pick(s) \in s
          BY <3>2 DEF Pick
        <4>2. t \in SUBSET S /\ Cardinality(t) <= n
          BY <1>0, <2>2, <4>1, Smaller
        <4>3. it[t] = OneOn(f, it, t) /\ jt[t] = OneOn(f, it, t)
          BY <2>1, <4>2
        <4>4. jt[s] = OneOn(f, it, s)
          OBVIOUS
        <4> HIDE DEF jt
        <4> QED
          BY <3>2, <4>3, <4>4 DEF OneOn
      <3> QED
        BY <3>1, <3>2
    <2>3. Upto(n + 1, jt)
      BY <2>2
    <2> HIDE DEF Upto, jt
    <2>4. \E i : Upto(n + 1, i)
      BY <2>3
    <2> QED
      BY <2>4
  <1>3. Cardinality(S) \in P
    <2> HIDE DEF P
    <2>1. \A n \in Nat : n \in P
      BY <1>1, <1>2, EveryNatural
    <2> QED
      BY <2>1, FS_CardinalityType
  <1>4. PICK it : Upto(Cardinality(S), it)
    BY <1>3
  <1>5. \A s \in SUBSET S : Cardinality(s) <= Cardinality(S)
    BY FS_Subset
  <1>6. \A s \in SUBSET S : it[s] = OneOn(f, it, s)
    BY <1>4, <1>5
  <1> DEFINE jt == [s \in SUBSET S |-> it[s]]
  <1>7. \A s \in SUBSET S : OneOn(f, jt, s) = OneOn(f, it, s)
    BY DEF OneOn, Pick
  <1>8. jt = [s \in SUBSET S |-> OneOn(f, jt, s)]
    BY <1>6, <1>7
  <1> QED
    BY <1>8 DEF Sums

(* Sums over the subsets of a set and of a larger one agree. *)
LEMMA SumsAgree ==
  ASSUME NEW f, NEW g, NEW S, NEW T, IsFiniteSet(S), T \subseteq S,
         \A x \in T : f[x] = g[x],
         NEW it, Sums(f, S, it), NEW jt, Sums(g, T, jt)
  PROVE  it[T] = jt[T]
  <1> DEFINE P == {n \in Nat : \A s \in SUBSET T : Cardinality(s) = n => it[s] = jt[s]}
  <1>0. \A s \in SUBSET T : IsFiniteSet(s) /\ Cardinality(s) \in Nat
    BY FS_Subset, FS_CardinalityType
  <1>1. \A s \in SUBSET T : it[s] = OneOn(f, it, s) /\ jt[s] = OneOn(g, jt, s)
    BY DEF Sums
  <1>2. 0 \in P
    BY <1>0, <1>1, FS_EmptySet DEF OneOn
  <1>3. ASSUME NEW n \in Nat, n \in P PROVE n + 1 \in P
    <2>1. ASSUME NEW s \in SUBSET T, Cardinality(s) = n + 1 PROVE it[s] = jt[s]
      <3> DEFINE t == s \ {Pick(s)}
      <3>1. s # {}
        BY <2>1, FS_EmptySet
      <3>2. Pick(s) \in s
        BY <3>1 DEF Pick
      <3>3. t \in SUBSET T /\ Cardinality(t) = n
        BY <1>0, <2>1, <3>2, Smaller
      <3>4. it[t] = jt[t]
        BY <1>3, <3>3
      <3> QED
        BY <1>1, <3>1, <3>2, <3>4 DEF OneOn
    <2> QED
      BY <2>1
  <1>4. Cardinality(T) \in P
    <2> HIDE DEF P
    <2>1. \A n \in Nat : n \in P
      BY <1>2, <1>3, EveryNatural
    <2> QED
      BY <1>0, <2>1
  <1> QED
    BY <1>4

(* How a sum goes on. *)
LEMMA SumStep ==
  ASSUME NEW f, NEW S, IsFiniteSet(S)
  PROVE  SumFunctionOnSet(f, S) = IF S = {} THEN 0
            ELSE f[Pick(S)] + SumFunctionOnSet(f, S \ {Pick(S)})
  <1> DEFINE it == CHOOSE i : Sums(f, S, i)
             T == S \ {Pick(S)}
             jt == CHOOSE i : Sums(f, T, i)
  <1>1. IsFiniteSet(T)
    BY FS_Subset
  <1>2. Sums(f, S, it)
    BY SumsExist
  <1>3. Sums(f, T, jt)
    BY <1>1, SumsExist
  <1>4. SumFunctionOnSet(f, S) = it[S] /\ SumFunctionOnSet(f, T) = jt[T]
    BY SumIs
  <1> HIDE DEF it, jt
  <1>5. it[T] = jt[T]
    BY <1>2, <1>3, SumsAgree
  <1>6. it[S] = OneOn(f, it, S)
    BY <1>2 DEF Sums
  <1> QED
    BY <1>4, <1>5, <1>6 DEF OneOn

(* A sum of integers is one, of naturals too. *)
LEMMA SumType ==
  ASSUME NEW f, NEW S, IsFiniteSet(S), NEW N, N \in {Nat, Int}, \A x \in S : f[x] \in N
  PROVE  SumFunctionOnSet(f, S) \in N
  <1> DEFINE Sum(s) == SumFunctionOnSet(f, s)
             P == {n \in Nat : \A s \in SUBSET S : Cardinality(s) = n => Sum(s) \in N}
  <1>0. \A s \in SUBSET S : IsFiniteSet(s) /\ Cardinality(s) \in Nat
    BY FS_Subset, FS_CardinalityType
  <1>1. \A s \in SUBSET S : s = {} => Sum(s) = 0
    BY <1>0, SumStep
  <1>2. \A s \in SUBSET S : s # {} => /\ Pick(s) \in s
                                     /\ Sum(s) = f[Pick(s)] + Sum(s \ {Pick(s)})
    BY <1>0, SumStep DEF Pick
  <1> HIDE DEF Sum
  <1>3. 0 \in P
    <2>1. \A s \in SUBSET S : Cardinality(s) = 0 => s = {}
      BY <1>0, FS_EmptySet
    <2>2. 0 \in N
      OBVIOUS
    <2> QED
      BY <1>1, <2>1, <2>2
  <1>4. ASSUME NEW n \in Nat, n \in P PROVE n + 1 \in P
    <2>1. ASSUME NEW s \in SUBSET S, Cardinality(s) = n + 1 PROVE Sum(s) \in N
      <3>1. s # {}
        BY <2>1, FS_EmptySet
      <3>2. Pick(s) \in s /\ Sum(s) = f[Pick(s)] + Sum(s \ {Pick(s)})
        BY <1>2, <3>1
      <3>3. Cardinality(s \ {Pick(s)}) = n /\ s \ {Pick(s)} \in SUBSET S
        BY <1>0, <2>1, <3>2, Smaller
      <3>4. Sum(s \ {Pick(s)}) \in N /\ f[Pick(s)] \in N
        BY <1>4, <3>2, <3>3
      <3> QED
        BY <3>2, <3>4
    <2> QED
      BY <2>1
  <1>5. Cardinality(S) \in P
    <2> HIDE DEF P
    <2>1. \A n \in Nat : n \in P
      BY <1>3, <1>4, EveryNatural
    <2> QED
      BY <1>0, <2>1
  <1>6. Sum(S) \in N
    BY <1>5
  <1> QED
    BY <1>6 DEF Sum

(* Any element may be taken first. *)
LEMMA SumAny ==
  ASSUME NEW f, NEW S, IsFiniteSet(S), \A x \in S : f[x] \in Int, NEW x \in S
  PROVE  SumFunctionOnSet(f, S) = f[x] + SumFunctionOnSet(f, S \ {x})
  <1> DEFINE Sum(s) == SumFunctionOnSet(f, s)
             First(s) == \A y \in s : Sum(s) = f[y] + Sum(s \ {y})
             P == {n \in Nat : \A s \in SUBSET S : Cardinality(s) = n => First(s)}
  <1>0. \A s \in SUBSET S : IsFiniteSet(s) /\ Cardinality(s) \in Nat
    BY FS_Subset, FS_CardinalityType
  <1>1. \A s \in SUBSET S : Sum(s) \in Int
    BY <1>0, SumType
  <1>2. \A s \in SUBSET S : s # {} => /\ Pick(s) \in s
                                     /\ Sum(s) = f[Pick(s)] + Sum(s \ {Pick(s)})
    BY <1>0, SumStep DEF Pick
  <1> HIDE DEF Sum
  <1>3. 0 \in P
    <2>1. \A s \in SUBSET S : Cardinality(s) = 0 => s = {}
      BY <1>0, FS_EmptySet
    <2> QED
      BY <2>1
  <1>4. ASSUME NEW n \in Nat, n \in P PROVE n + 1 \in P
    <2>1. ASSUME NEW s \in SUBSET S, Cardinality(s) = n + 1, NEW y \in s
          PROVE  Sum(s) = f[y] + Sum(s \ {y})
      <3> DEFINE p == Pick(s)
      <3>1. p \in s /\ Sum(s) = f[p] + Sum(s \ {p})
        BY <1>2
      <3> HIDE DEF p
      <3>2. /\ Cardinality(s \ {p}) = n /\ s \ {p} \in SUBSET S
            /\ Cardinality(s \ {y}) = n /\ s \ {y} \in SUBSET S
        BY <1>0, <2>1, <3>1, Smaller
      <3>3. CASE p = y
        BY <3>1, <3>3
      <3>4. CASE p # y
        <4>1. /\ y \in s \ {p} /\ p \in s \ {y} /\ (s \ {p}) \ {y} = (s \ {y}) \ {p}
              /\ (s \ {p}) \ {y} \in SUBSET S
          BY <3>1, <3>4
        <4>2. First(s \ {p}) /\ First(s \ {y})
          BY <1>4, <3>2
        <4>3. /\ Sum(s \ {p}) = f[y] + Sum((s \ {p}) \ {y})
              /\ Sum(s \ {y}) = f[p] + Sum((s \ {p}) \ {y})
          BY <4>1, <4>2
        <4>4. /\ Sum((s \ {p}) \ {y}) \in Int /\ f[p] \in Int /\ f[y] \in Int
          BY <1>1, <3>1, <4>1
        <4> QED
          BY <3>1, <4>3, <4>4
      <3> QED
        BY <3>3, <3>4
    <2>2. \A s \in SUBSET S : Cardinality(s) = n + 1 => First(s)
      BY <2>1
    <2> QED
      BY <2>2
  <1>5. Cardinality(S) \in P
    <2> HIDE DEF P
    <2>1. \A n \in Nat : n \in P
      BY <1>3, <1>4, EveryNatural
    <2> QED
      BY <1>0, <2>1
  <1>6. Sum(S) = f[x] + Sum(S \ {x})
    BY <1>5
  <1> QED
    BY <1>6 DEF Sum

(* Functions that agree on a set have the same sum over it. *)
LEMMA SumSame ==
  ASSUME NEW f, NEW g, NEW S, IsFiniteSet(S), \A x \in S : f[x] = g[x]
  PROVE  SumFunctionOnSet(f, S) = SumFunctionOnSet(g, S)
  <1> DEFINE it == CHOOSE i : Sums(f, S, i)
             jt == CHOOSE i : Sums(g, S, i)
  <1>1. Sums(f, S, it) /\ Sums(g, S, jt)
    BY SumsExist
  <1>2. SumFunctionOnSet(f, S) = it[S] /\ SumFunctionOnSet(g, S) = jt[S]
    BY SumIs
  <1> HIDE DEF it, jt
  <1> QED
    BY <1>1, <1>2, SumsAgree

(* f and g are integers on S, and the same but at x. *)
SameBut(f, g, S, x) ==
    /\ \A y \in S : f[y] \in Int /\ g[y] \in Int
    /\ \A y \in S \ {x} : f[y] = g[y]

(* One term changes. *)
LEMMA SumChange ==
  ASSUME NEW f, NEW g, NEW S, IsFiniteSet(S), NEW x \in S, SameBut(f, g, S, x)
  PROVE  SumFunctionOnSet(g, S) = (SumFunctionOnSet(f, S) - f[x]) + g[x]
  <1> DEFINE T == S \ {x}
  <1>1. IsFiniteSet(T)
    BY FS_Subset
  <1>2. SumFunctionOnSet(f, T) = SumFunctionOnSet(g, T)
    BY <1>1, SumSame DEF SameBut
  <1>3. SumFunctionOnSet(f, T) \in Int
    BY <1>1, SumType DEF SameBut
  <1>4. /\ SumFunctionOnSet(f, S) = f[x] + SumFunctionOnSet(f, T)
        /\ SumFunctionOnSet(g, S) = g[x] + SumFunctionOnSet(g, T)
    BY SumAny DEF SameBut
  <1> QED
    BY <1>2, <1>3, <1>4 DEF SameBut

(* One term more. *)
LEMMA SumMore ==
  ASSUME NEW f, NEW S, IsFiniteSet(S), NEW x, x \notin S,
         \A y \in S \cup {x} : f[y] \in Int
  PROVE  SumFunctionOnSet(f, S \cup {x}) = SumFunctionOnSet(f, S) + f[x]
  <1>1. IsFiniteSet(S \cup {x}) /\ (S \cup {x}) \ {x} = S
    BY FS_AddElement
  <1>2. SumFunctionOnSet(f, S \cup {x}) = f[x] + SumFunctionOnSet(f, S)
    BY <1>1, SumAny
  <1>3. SumFunctionOnSet(f, S) \in Int
    BY SumType
  <1> QED
    BY <1>2, <1>3

(* A sum of naturals is at least each of its terms. *)
LEMMA SumBound ==
  ASSUME NEW f, NEW S, IsFiniteSet(S), \A y \in S : f[y] \in Nat, NEW x \in S
  PROVE  f[x] <= SumFunctionOnSet(f, S)
  <1>1. IsFiniteSet(S \ {x})
    BY FS_Subset
  <1>2. SumFunctionOnSet(f, S \ {x}) \in Nat
    BY <1>1, SumType
  <1>3. SumFunctionOnSet(f, S) = f[x] + SumFunctionOnSet(f, S \ {x})
    BY SumAny
  <1> QED
    BY <1>2, <1>3

(* A sum of zeros is zero. *)
LEMMA SumZero ==
  ASSUME NEW f, NEW S, IsFiniteSet(S), \A y \in S : f[y] = 0
  PROVE  SumFunctionOnSet(f, S) = 0
  <1> DEFINE z == [y \in S |-> 0]
             it == [s \in SUBSET S |-> 0]
             jt == CHOOSE i : Sums(z, S, i)
  <1>1. Sums(z, S, it)
    BY DEF Sums, OneOn, Pick
  <1>2. Sums(z, S, jt)
    BY <1>1
  <1>3. it[S] = 0
    OBVIOUS
  <1>4. SumFunctionOnSet(z, S) = jt[S]
    BY SumIs
  <1>5. SumFunctionOnSet(f, S) = SumFunctionOnSet(z, S)
    BY SumSame
  <1> HIDE DEF it, jt, z
  <1> QED
    BY <1>1, <1>2, <1>3, <1>4, <1>5, SumsAgree

-----------------------------------------------------------------------------
(* Loops *)

(* What every turn of a loop preserves holds after each of its turns. *)
LEMMA Iterated ==
  ASSUME NEW n \in Nat, NEW f, NEW K, <<0, f[0]>> \in K,
         \A i \in 1 .. n : <<i - 1, f[i - 1]>> \in K => <<i, f[i]>> \in K
  PROVE  \A i \in 0 .. n : <<i, f[i]>> \in K
  <1> DEFINE P == {i \in Nat : i <= n => <<i, f[i]>> \in K}
  <1>1. 0 \in P
    OBVIOUS
  <1>2. ASSUME NEW i \in Nat, i \in P PROVE i + 1 \in P
    <2>1. SUFFICES ASSUME i + 1 <= n PROVE <<i + 1, f[i + 1]>> \in K
      OBVIOUS
    <2>2. i + 1 \in 1 .. n /\ (i + 1) - 1 = i /\ <<i, f[i]>> \in K
      BY <1>2, <2>1
    <2> QED
      BY <2>2
  <1> HIDE DEF P
  <1>3. \A i \in Nat : i \in P
    BY <1>1, <1>2, EveryNatural
  <1> QED
    BY <1>3 DEF P

(* The values of a loop: s at first, then what g makes of the one before. *)
Turns(n, s, g, f) == f = [i \in 0 .. n |-> IF i = 0 THEN s ELSE g[<<i, f[i - 1]>>]]

(* They are there. *)
LEMMA TurnsExist ==
  ASSUME NEW n \in Nat, NEW s, NEW g
  PROVE  \E f : Turns(n, s, g, f)
  <1> DEFINE Upto(k, f) == \A i \in 0 .. k : f[i] = IF i = 0 THEN s ELSE g[<<i, f[i - 1]>>]
             P == {k \in Nat : \E f : Upto(k, f)}
  <1>1. 0 \in P
    <2> DEFINE f == [i \in {0} |-> s]
    <2>1. Upto(0, f)
      OBVIOUS
    <2> HIDE DEF Upto, f
    <2> QED
      BY <2>1
  <1>2. ASSUME NEW k \in Nat, k \in P PROVE k + 1 \in P
    <2>1. PICK f : Upto(k, f)
      BY <1>2
    <2> DEFINE h == [i \in 0 .. k + 1 |-> IF i <= k THEN f[i] ELSE g[<<i, f[k]>>]]
    <2>2. ASSUME NEW i \in 0 .. k + 1
          PROVE  h[i] = IF i = 0 THEN s ELSE g[<<i, h[i - 1]>>]
      <3>1. CASE i <= k
        <4>1. i # 0 => h[i - 1] = f[i - 1]
          BY <3>1
        <4>2. h[i] = f[i] /\ i \in 0 .. k
          BY <3>1
        <4>3. f[i] = IF i = 0 THEN s ELSE g[<<i, f[i - 1]>>]
          BY <2>1, <4>2
        <4> HIDE DEF h
        <4> QED
          BY <4>1, <4>2, <4>3
      <3>2. CASE i = k + 1
        <4>1. h[i - 1] = f[k] /\ i # 0
          BY <3>2
        <4>2. h[i] = g[<<i, f[k]>>]
          BY <3>2
        <4> QED
          BY <4>1, <4>2
      <3> QED
        BY <3>1, <3>2
    <2>3. Upto(k + 1, h)
      BY <2>2
    <2> HIDE DEF Upto, h
    <2> QED
      BY <2>3
  <1>3. \A k \in Nat : k \in P
    <2> HIDE DEF P
    <2> QED
      BY <1>1, <1>2, EveryNatural
  <1>4. PICK f : Upto(n, f)
    BY <1>3
  <1> DEFINE h == [i \in 0 .. n |-> f[i]]
  <1>5. ASSUME NEW i \in 0 .. n
        PROVE  h[i] = IF i = 0 THEN s ELSE g[<<i, h[i - 1]>>]
    <2>1. i # 0 => h[i - 1] = f[i - 1]
      OBVIOUS
    <2> QED
      BY <1>4, <2>1
  <1>6. h = [i \in 0 .. n |-> IF i = 0 THEN s ELSE g[<<i, h[i - 1]>>]]
    BY <1>5
  <1> QED
    BY <1>6 DEF Turns

(* The turns g of a loop take K, a set of turns and values in B, from turn to turn. *)
Keeping(n, s, g, B, K) ==
    /\ <<0, s>> \in K
    /\ \A i \in Nat : \A x : <<i, x>> \in K => x \in B
    /\ \A i \in 1 .. n, x \in B : <<i - 1, x>> \in K => <<i, g[<<i, x>>]>> \in K

(* f starts at s, and goes on by g from a value in B. *)
Going(n, s, g, B, f) ==
    /\ f[0] = s
    /\ \A i \in 1 .. n : f[i - 1] \in B => f[i] = g[<<i, f[i - 1]>>]

(* A loop whose turns take K from turn to turn stays in it. *)
LEMMA LoopStays ==
  ASSUME NEW n \in Nat, NEW s, NEW g, NEW B, NEW K, Keeping(n, s, g, B, K),
         NEW f, Going(n, s, g, B, f)
  PROVE  \A i \in 0 .. n : <<i, f[i]>> \in K
  <1>1. <<0, f[0]>> \in K
    BY DEF Keeping, Going
  <1>2. ASSUME NEW i \in 1 .. n, <<i - 1, f[i - 1]>> \in K PROVE <<i, f[i]>> \in K
    <2>1. i - 1 \in Nat
      OBVIOUS
    <2>2. f[i - 1] \in B
      BY <1>2, <2>1 DEF Keeping
    <2>3. f[i] = g[<<i, f[i - 1]>>]
      BY <2>2 DEF Going
    <2> QED
      BY <1>2, <2>2, <2>3 DEF Keeping
  <1> QED
    BY <1>1, <1>2, Iterated

(* Such a loop has values. *)
LEMMA LoopValues ==
  ASSUME NEW n \in Nat, NEW s, NEW g, NEW B, NEW K, Keeping(n, s, g, B, K)
  PROVE  \E f : /\ f = [i \in 0 .. n |-> IF i = 0 THEN s ELSE g[<<i, f[i - 1]>>]]
                /\ \A i \in 1 .. n : f[i - 1] \in B /\ f[i] = g[<<i, f[i - 1]>>]
  <1>1. PICK f : Turns(n, s, g, f)
    BY TurnsExist
  <1>2. f = [i \in 0 .. n |-> IF i = 0 THEN s ELSE g[<<i, f[i - 1]>>]]
    BY <1>1 DEF Turns
  <1>3. f[0] = s /\ \A i \in 1 .. n : f[i] = g[<<i, f[i - 1]>>]
    <2>1. \A i \in 0 .. n : f[i] = IF i = 0 THEN s ELSE g[<<i, f[i - 1]>>]
      BY <1>2
    <2>2. 0 \in 0 .. n /\ \A i \in 1 .. n : i \in 0 .. n /\ i # 0
      OBVIOUS
    <2> QED
      BY <2>1, <2>2, Zenon
  <1>4. \A i \in 0 .. n : <<i, f[i]>> \in K
    <2>1. Going(n, s, g, B, f)
      BY <1>3 DEF Going
    <2> QED
      BY <2>1, LoopStays
  <1>5. ASSUME NEW i \in 1 .. n PROVE f[i - 1] \in B
    <2>1. i - 1 \in Nat /\ i - 1 \in 0 .. n
      OBVIOUS
    <2> QED
      BY <1>4, <2>1 DEF Keeping
  <1> QED
    BY <1>2, <1>3, <1>5

-----------------------------------------------------------------------------
(* Lists *)

(* q is a sequence over S of n different elements, those of T. *)
IsList(q, S, n, T) == q \in Seq(S) /\ Len(q) = n /\ ToSet(q) = T /\ IsInjective(q)

(* The places of a sequence. *)
LEMMA Places ==
  ASSUME NEW S, NEW q \in Seq(S)
  PROVE  /\ DOMAIN q = 1 .. Len(q) /\ Len(q) \in Nat /\ \A i \in 1 .. Len(q) : q[i] \in S
         /\ ToSet(q) \subseteq S /\ \A x : x \in ToSet(q) <=> \E i \in 1 .. Len(q) : q[i] = x
         /\ (q = <<>> <=> Len(q) = 0) /\ (q = <<>> <=> ToSet(q) = {})
  <1>1. DOMAIN q = 1 .. Len(q) /\ Len(q) \in Nat /\ \A i \in 1 .. Len(q) : q[i] \in S
    BY LenProperties, ElementOfSeq
  <1>2. q = <<>> <=> Len(q) = 0
    BY EmptySeq, LenProperties
  <1>3. \A x : x \in ToSet(q) <=> \E i \in 1 .. Len(q) : q[i] = x
    BY <1>1 DEF ToSet
  <1>4. ToSet(q) \subseteq S
    BY <1>1, <1>3
  <1>5. q = <<>> => ToSet(q) = {}
    BY <1>1, <1>2, <1>3
  <1>6. q # <<>> => ToSet(q) # {}
    <2>1. q # <<>> => q[1] \in ToSet(q)
      BY <1>1, <1>2, <1>3
    <2> QED
      BY <2>1
  <1> QED
    BY <1>1, <1>2, <1>3, <1>4, <1>5, <1>6

(* A part of a sequence. *)
LEMMA PartIs ==
  ASSUME NEW S, NEW q \in Seq(S), NEW a \in 1 .. Len(q) + 1, NEW b \in a - 1 .. Len(q)
  PROVE  /\ SubSeq(q, a, b) \in Seq(S) /\ Len(SubSeq(q, a, b)) = (b - a) + 1
         /\ \A i \in 1 .. (b - a) + 1 : SubSeq(q, a, b)[i] = q[(a + i) - 1]
  <1>1. Len(q) \in Nat /\ \A i \in 1 .. Len(q) : q[i] \in S
    BY Places
  <1>2. a \in Int /\ b \in Int /\ \A i \in a .. b : q[i] \in S
    BY <1>1
  <1>3. /\ SubSeq(q, a, b) \in Seq(S)
        /\ Len(SubSeq(q, a, b)) = IF a <= b THEN (b - a) + 1 ELSE 0
        /\ \A i \in 1 .. (b - a) + 1 : SubSeq(q, a, b)[i] = q[(a + i) - 1]
    BY <1>2, SubSeqProperties
  <1> QED
    BY <1>1, <1>3

(* One element more at the end. *)
LEMMA AppendKeeps ==
  ASSUME NEW S, NEW q \in Seq(S), NEW e \in S
  PROVE  /\ Append(q, e) \in Seq(S) /\ Len(Append(q, e)) = Len(q) + 1
         /\ ToSet(Append(q, e)) = ToSet(q) \cup {e}
         /\ IsInjective(q) /\ e \notin ToSet(q) => IsInjective(Append(q, e))
  <1> DEFINE n == Len(q)
             r == Append(q, e)
  <1>1. n \in Nat /\ DOMAIN q = 1 .. n
    BY Places
  <1>2. /\ r \in Seq(S) /\ Len(r) = n + 1 /\ r[n + 1] = e
        /\ \A i \in 1 .. n : r[i] = q[i]
    BY <1>1, AppendProperties
  <1> HIDE DEF r, n
  <1>3. DOMAIN r = 1 .. n + 1
    BY <1>2, Places
  <1>4. ToSet(r) = ToSet(q) \cup {e}
    BY <1>1, <1>2, <1>3 DEF ToSet
  <1>5. IsInjective(q) /\ e \notin ToSet(q) => IsInjective(r)
    BY <1>1, <1>2, <1>3 DEF IsInjective, ToSet
  <1> QED
    BY <1>2, <1>4, <1>5 DEF r, n

(* Without its first element. *)
LEMMA TailKeeps ==
  ASSUME NEW S, NEW q \in Seq(S), q # <<>>
  PROVE  /\ Tail(q) \in Seq(S) /\ Len(Tail(q)) = Len(q) - 1 /\ Len(q) \in Nat \ {0}
         /\ Head(q) = q[1] /\ Head(q) \in ToSet(q) /\ Head(q) \in S
         /\ IsInjective(q) => IsInjective(Tail(q)) /\ ToSet(Tail(q)) = ToSet(q) \ {Head(q)}
  <1> DEFINE n == Len(q)
             r == Tail(q)
  <1>1. n \in Nat /\ DOMAIN q = 1 .. n /\ n # 0
    BY Places
  <1>2. /\ r \in Seq(S) /\ Len(r) = n - 1 /\ Head(q) = q[1] /\ Head(q) \in S
        /\ \A i \in 1 .. n - 1 : r[i] = q[i + 1]
    BY <1>1, HeadTailProperties
  <1> HIDE DEF r, n
  <1>3. DOMAIN r = 1 .. n - 1
    BY <1>2, Places
  <1>4. Head(q) \in ToSet(q)
    BY <1>1, <1>2 DEF ToSet
  <1>5. ASSUME IsInjective(q) PROVE IsInjective(r)
    <2>1. \A i, j \in 1 .. n : q[i] = q[j] => i = j
      BY <1>1, <1>5 DEF IsInjective
    <2>2. ASSUME NEW i \in 1 .. n - 1, NEW j \in 1 .. n - 1, r[i] = r[j] PROVE i = j
      <3>1. r[i] = q[i + 1] /\ r[j] = q[j + 1] /\ i + 1 \in 1 .. n /\ j + 1 \in 1 .. n
        BY <1>1, <1>2
      <3>2. i + 1 = j + 1
        BY <2>1, <2>2, <3>1
      <3> QED
        BY <3>2
    <2> QED
      BY <1>3, <2>2 DEF IsInjective
  <1>6. ASSUME IsInjective(q) PROVE ToSet(r) = ToSet(q) \ {Head(q)}
    <2>1. \A i \in 1 .. n : i # 1 => i - 1 \in 1 .. n - 1 /\ r[i - 1] = q[i] /\ q[i] # q[1]
      <3> SUFFICES ASSUME NEW i \in 1 .. n, i # 1
                   PROVE  i - 1 \in 1 .. n - 1 /\ r[i - 1] = q[i] /\ q[i] # q[1]
        OBVIOUS
      <3>1. i - 1 \in 1 .. n - 1 /\ (i - 1) + 1 = i
        BY <1>1
      <3>2. r[i - 1] = q[i]
        BY <1>2, <3>1
      <3>3. q[i] # q[1]
        BY <1>1, <1>6 DEF IsInjective
      <3> QED
        BY <3>1, <3>2, <3>3
    <2>2. \A i \in 1 .. n - 1 : i + 1 \in 1 .. n /\ i + 1 # 1 /\ r[i] = q[i + 1]
      BY <1>1, <1>2
    <2>3. ASSUME NEW x \in ToSet(r) PROVE x \in ToSet(q) /\ x # q[1]
      <3>1. PICK i \in 1 .. n - 1 : x = r[i]
        BY <1>3 DEF ToSet
      <3>2. i + 1 \in 1 .. n /\ i + 1 # 1 /\ x = q[i + 1]
        BY <2>2, <3>1
      <3>3. q[i + 1] # q[1]
        BY <2>1, <3>2
      <3> QED
        BY <1>1, <3>2, <3>3 DEF ToSet
    <2>4. ASSUME NEW x \in ToSet(q), x # q[1] PROVE x \in ToSet(r)
      <3>1. PICK i \in 1 .. n : x = q[i]
        BY <1>1 DEF ToSet
      <3>2. i - 1 \in 1 .. n - 1 /\ x = r[i - 1]
        BY <2>1, <2>4, <3>1
      <3> QED
        BY <1>3, <3>2 DEF ToSet
    <2> QED
      BY <1>2, <2>3, <2>4
  <1> QED
    BY <1>1, <1>2, <1>4, <1>5, <1>6 DEF r, n

(* r is q without its element at i. *)
Skips(q, r, i, S) ==
    /\ r \in Seq(S) /\ Len(r) = Len(q) - 1
    /\ \A j \in 1 .. Len(q) - 1 : r[j] = q[IF j < i THEN j ELSE j + 1]

(* RemoveFirst takes an element away. *)
LEMMA RemoveIs ==
  ASSUME NEW S, NEW q \in Seq(S), NEW h, h \in ToSet(q)
  PROVE  \E i \in 1 .. Len(q) : q[i] = h /\ Skips(q, RemoveFirst(q, h), i, S)
  <1> DEFINE n == Len(q)
             I == {j \in 1 .. n : q[j] = h}
             r == RemoveFirst(q, h)
             to(j) == IF j < Min(I) THEN j ELSE j + 1
  <1>1. n \in Nat /\ DOMAIN q = 1 .. n
    BY Places
  <1>2. I # {} /\ I \in SUBSET Nat
    BY <1>1 DEF ToSet
  <1>3. Min(I) \in I
    BY <1>2, LeastNatural DEF Min
  <1>4. r = SubSeq(q, 1, Min(I) - 1) \o SubSeq(q, Min(I) + 1, n)
    BY <1>1, <1>2 DEF RemoveFirst, SelectInSeq, RemoveAt
  <1> DEFINE i == Min(I)
  <1>5. i \in 1 .. n /\ q[i] = h
    BY <1>3
  <1> HIDE DEF I, i
  <1>6. r \in Seq(S) /\ Len(r) = n - 1 /\ \A j \in 1 .. n - 1 : r[j] = q[to(j)]
    <2>1. r = SubSeq(q, 1, i - 1) \o SubSeq(q, i + 1, n)
      BY <1>4 DEF i
    <2>2. \A j : to(j) = IF j < i THEN j ELSE j + 1
      BY DEF i
    <2> DEFINE u == SubSeq(q, 1, i - 1)
               v == SubSeq(q, i + 1, n)
    <2>3. u \in Seq(S) /\ Len(u) = i - 1 /\ \A j \in 1 .. i - 1 : u[j] = q[(1 + j) - 1]
      <3>1. 1 \in 1 .. n + 1 /\ i - 1 \in 1 - 1 .. n /\ ((i - 1) - 1) + 1 = i - 1
        BY <1>1, <1>5
      <3> QED
        BY <3>1, PartIs
    <2>4. /\ v \in Seq(S) /\ Len(v) = n - i
          /\ \A j \in 1 .. n - i : v[j] = q[((i + 1) + j) - 1]
      <3>1. i + 1 \in 1 .. n + 1 /\ n \in (i + 1) - 1 .. n /\ (n - (i + 1)) + 1 = n - i
        BY <1>1, <1>5
      <3> QED
        BY <3>1, PartIs
    <2> HIDE DEF r, to, u, v
    <2>5. /\ r \in Seq(S) /\ Len(r) = (i - 1) + (n - i)
          /\ \A j \in 1 .. (i - 1) + (n - i) :
               r[j] = IF j <= i - 1 THEN u[j] ELSE v[j - (i - 1)]
      BY <2>1, <2>3, <2>4, ConcatProperties DEF u, v
    <2>6. ASSUME NEW j \in 1 .. n - 1 PROVE r[j] = q[to(j)]
      <3>1. CASE j < i
        <4>1. j \in 1 .. i - 1 /\ r[j] = u[j] /\ (1 + j) - 1 = j /\ to(j) = j
          BY <1>1, <1>5, <2>2, <2>5, <3>1
        <4> QED
          BY <2>3, <4>1
      <3>2. CASE ~ (j < i)
        <4>1. /\ j - (i - 1) \in 1 .. n - i /\ r[j] = v[j - (i - 1)]
              /\ ((i + 1) + (j - (i - 1))) - 1 = j + 1 /\ to(j) = j + 1
          BY <1>1, <1>5, <2>2, <2>5, <3>2
        <4> QED
          BY <2>4, <4>1
      <3> QED
        BY <3>1, <3>2
    <2> QED
      BY <1>1, <1>5, <2>5, <2>6
  <1> QED
    BY <1>5, <1>6 DEF Skips, n, r, to, i

(* Without an element of it. *)
LEMMA RemoveKeeps ==
  ASSUME NEW S, NEW q \in Seq(S), NEW h, h \in ToSet(q), IsInjective(q)
  PROVE  IsList(RemoveFirst(q, h), S, Len(q) - 1, ToSet(q) \ {h})
  <1> DEFINE n == Len(q)
             r == RemoveFirst(q, h)
  <1>1. n \in Nat /\ DOMAIN q = 1 .. n
    BY Places
  <1>5. PICK i \in 1 .. n : q[i] = h /\ Skips(q, r, i, S)
    BY RemoveIs
  <1> DEFINE to(j) == IF j < i THEN j ELSE j + 1
  <1>6. r \in Seq(S) /\ Len(r) = n - 1 /\ \A j \in 1 .. n - 1 : r[j] = q[to(j)]
    BY <1>5 DEF Skips
  <1>7. \A j : to(j) = IF j < i THEN j ELSE j + 1
    OBVIOUS
  <1> HIDE DEF r, to, n
  <1>8. DOMAIN r = 1 .. n - 1
    BY <1>1, <1>5, <1>6, Places
  <1>9. /\ \A j \in 1 .. n - 1 : to(j) \in 1 .. n /\ to(j) # i
        /\ \A j, k \in 1 .. n - 1 : to(j) = to(k) => j = k
    BY <1>1, <1>5, <1>7
  <1>10. \A k \in 1 .. n : k # i => \E j \in 1 .. n - 1 : to(j) = k
    <2> SUFFICES ASSUME NEW k \in 1 .. n, k # i PROVE \E j \in 1 .. n - 1 : to(j) = k
      OBVIOUS
    <2>1. CASE k < i
      BY <1>1, <1>5, <1>7, <2>1
    <2>2. CASE k > i
      <3>1. k - 1 \in 1 .. n - 1 /\ to(k - 1) = k
        BY <1>1, <1>5, <1>7, <2>2
      <3> QED
        BY <3>1
    <2> QED
      BY <1>1, <1>5, <2>1, <2>2
  <1>11. \A k \in 1 .. n : q[k] = h <=> k = i
    BY <1>1, <1>5 DEF IsInjective
  <1>12. IsInjective(r)
    BY <1>1, <1>6, <1>8, <1>9 DEF IsInjective
  <1>13. ToSet(r) = ToSet(q) \ {h}
    <2>1. \A x \in ToSet(r) : x \in ToSet(q) /\ x # h
      BY <1>1, <1>6, <1>8, <1>9, <1>11 DEF ToSet
    <2>2. \A x \in ToSet(q) : x # h => x \in ToSet(r)
      BY <1>1, <1>6, <1>8, <1>10, <1>11 DEF ToSet
    <2> QED
      BY <2>1, <2>2
  <1> QED
    BY <1>6, <1>12, <1>13 DEF IsList, r, n

(* One element more, behind the first. *)
LEMMA InsertKeeps ==
  ASSUME NEW S, NEW q \in Seq(S), NEW e \in S, e \notin ToSet(q), IsInjective(q)
  PROVE  IsList(IF q = <<>> THEN <<e>> ELSE <<Head(q), e>> \o Tail(q),
                S, Len(q) + 1, ToSet(q) \cup {e})
  <1> DEFINE n == Len(q)
  <1>1. n \in Nat /\ DOMAIN q = 1 .. n /\ (q = <<>> <=> n = 0)
        /\ \A i \in 1 .. n : q[i] \in S
    BY Places
  <1>2. CASE q = <<>>
    <2>1. n = 0 /\ ToSet(q) = {}
      BY <1>1, <1>2, Places
    <2>2. <<e>> \in Seq(S) /\ Len(<<e>>) = 1 /\ DOMAIN <<e>> = 1 .. 1 /\ <<e>>[1] = e
      OBVIOUS
    <2>3. ToSet(<<e>>) = {e} /\ IsInjective(<<e>>)
      BY <2>2 DEF ToSet, IsInjective
    <2> QED
      BY <1>2, <2>1, <2>2, <2>3 DEF IsList
  <1>3. CASE q # <<>>
    <2> DEFINE u == <<Head(q), e>>
               v == Tail(q)
               r == u \o v
               from(i) == IF i = 1 THEN 1 ELSE i + 1
    <2>1. /\ v \in Seq(S) /\ Len(v) = n - 1 /\ n \in Nat \ {0} /\ Head(q) = q[1]
          /\ \A i \in 1 .. n - 1 : v[i] = q[i + 1]
      BY <1>1, <1>3, HeadTailProperties
    <2>2. u \in Seq(S) /\ Len(u) = 2 /\ u[1] = q[1] /\ u[2] = e
      BY <1>1, <2>1
    <2> HIDE DEF u, v
    <2>3. /\ u \o v \in Seq(S) /\ Len(u \o v) = Len(u) + Len(v)
          /\ \A i \in 1 .. Len(u) + Len(v) :
               (u \o v)[i] = IF i <= Len(u) THEN u[i] ELSE v[i - Len(u)]
      BY <2>1, <2>2, ConcatProperties
    <2> HIDE DEF n
    <2>4. /\ r \in Seq(S) /\ Len(r) = n + 1
      BY <2>1, <2>2, <2>3
    <2>5. r[1] = q[1] /\ r[2] = e /\ \A i \in 2 .. n : r[i + 1] = q[i]
      <3>1. 1 \in 1 .. Len(u) + Len(v) /\ 2 \in 1 .. Len(u) + Len(v)
        BY <2>1, <2>2
      <3>2. r[1] = q[1] /\ r[2] = e
        BY <2>2, <2>3, <3>1
      <3>3. ASSUME NEW i \in 2 .. n PROVE r[i + 1] = q[i]
        <4>1. /\ i + 1 \in 1 .. Len(u) + Len(v) /\ ~(i + 1 <= Len(u))
              /\ (i + 1) - Len(u) = i - 1 /\ i - 1 \in 1 .. n - 1 /\ (i - 1) + 1 = i
          BY <2>1, <2>2
        <4>2. r[i + 1] = v[i - 1]
          BY <2>3, <4>1
        <4> QED
          BY <2>1, <4>1, <4>2
      <3> QED
        BY <3>2, <3>3
    <2> HIDE DEF r
    <2>6. DOMAIN r = 1 .. n + 1
      BY <2>4, Places
    <2>7. /\ \A i \in 1 .. n : from(i) \in 1 .. n + 1 /\ from(i) # 2 /\ r[from(i)] = q[i]
          /\ \A i, j \in 1 .. n : from(i) = from(j) => i = j
      <3>1. ASSUME NEW i \in 1 .. n
            PROVE  from(i) \in 1 .. n + 1 /\ from(i) # 2 /\ r[from(i)] = q[i]
        <4>1. CASE i = 1
          BY <2>1, <2>5, <4>1
        <4>2. CASE i # 1
          <5>1. i \in 2 .. n /\ from(i) = i + 1 /\ i + 1 \in 1 .. n + 1 /\ i + 1 # 2
            BY <2>1, <4>2
          <5> QED
            BY <2>5, <5>1
        <4> QED
          BY <4>1, <4>2
      <3>2. \A i, j \in 1 .. n : from(i) = from(j) => i = j
        BY <2>1
      <3> QED
        BY <3>1, <3>2
    <2>8. \A k \in 1 .. n + 1 : k # 2 => \E i \in 1 .. n : from(i) = k
      <3> SUFFICES ASSUME NEW k \in 1 .. n + 1, k # 2 PROVE \E i \in 1 .. n : from(i) = k
        OBVIOUS
      <3>1. CASE k = 1
        <4>1. 1 \in 1 .. n /\ from(1) = 1
          BY <2>1
        <4> QED
          BY <3>1, <4>1
      <3>2. CASE k # 1
        <4>1. k - 1 \in 1 .. n /\ from(k - 1) = k
          BY <2>1, <3>2
        <4> QED
          BY <4>1
      <3> QED
        BY <3>1, <3>2
    <2> HIDE DEF from
    <2>9. 2 \in 1 .. n + 1
      BY <2>1
    <2>10. ToSet(r) = ToSet(q) \cup {e}
      <3>1. \A x : x \in ToSet(q) <=> \E i \in 1 .. n : q[i] = x
        BY Places DEF n
      <3>2. \A x : x \in ToSet(r) <=> \E k \in 1 .. n + 1 : r[k] = x
        BY <2>6 DEF ToSet
      <3> QED
        BY <2>5, <2>7, <2>8, <2>9, <3>1, <3>2
    <2>11. IsInjective(r)
      <3>1. \A i \in 1 .. n : q[i] # e
        BY <1>1 DEF ToSet, n
      <3>2. \A i, j \in 1 .. n : q[i] = q[j] => i = j
        BY <1>1 DEF IsInjective, n
      <3>3. ASSUME NEW k \in 1 .. n + 1, NEW l \in 1 .. n + 1, r[k] = r[l] PROVE k = l
        BY <2>5, <2>7, <2>8, <3>1, <3>2, <3>3
      <3> QED
        BY <2>6, <3>3 DEF IsInjective
    <2>12. IsList(r, S, n + 1, ToSet(q) \cup {e})
      BY <2>4, <2>10, <2>11 DEF IsList
    <2> QED
      BY <1>3, <2>12 DEF r, n, u, v
  <1> QED
    BY <1>2, <1>3

(* One list after another one. *)
LEMMA ConcatKeeps ==
  ASSUME NEW S, NEW q \in Seq(S), NEW w \in Seq(S), IsInjective(q), IsInjective(w),
         ToSet(q) \cap ToSet(w) = {}
  PROVE  IsList(q \o w, S, Len(q) + Len(w), ToSet(q) \cup ToSet(w))
  <1> DEFINE a == Len(q)
             b == Len(w)
             r == q \o w
  <1>1. /\ a \in Nat /\ DOMAIN q = 1 .. a /\ b \in Nat /\ DOMAIN w = 1 .. b
    BY Places
  <1>2. /\ r \in Seq(S) /\ Len(r) = a + b
        /\ \A i \in 1 .. a + b : r[i] = IF i <= a THEN q[i] ELSE w[i - a]
    BY ConcatProperties
  <1> HIDE DEF a, b, r
  <1>3. DOMAIN r = 1 .. a + b
    BY <1>2, Places
  <1>4. \A i \in 1 .. a : i \in 1 .. a + b /\ r[i] = q[i]
    BY <1>1, <1>2
  <1>5. \A i \in 1 .. b : a + i \in 1 .. a + b /\ r[a + i] = w[i]
    <2> SUFFICES ASSUME NEW i \in 1 .. b PROVE a + i \in 1 .. a + b /\ r[a + i] = w[i]
      OBVIOUS
    <2>1. a + i \in 1 .. a + b /\ ~(a + i <= a) /\ (a + i) - a = i
      BY <1>1
    <2> QED
      BY <1>2, <2>1
  <1>6. \A k \in 1 .. a + b : k \in 1 .. a \/ \E i \in 1 .. b : k = a + i
    <2> SUFFICES ASSUME NEW k \in 1 .. a + b, k \notin 1 .. a PROVE \E i \in 1 .. b : k = a + i
      OBVIOUS
    <2>1. k - a \in 1 .. b /\ k = a + (k - a)
      BY <1>1
    <2> QED
      BY <2>1
  <1>7. ToSet(r) = ToSet(q) \cup ToSet(w)
    <2>1. /\ \A x : x \in ToSet(q) <=> \E i \in 1 .. a : q[i] = x
          /\ \A x : x \in ToSet(w) <=> \E i \in 1 .. b : w[i] = x
          /\ \A x : x \in ToSet(r) <=> \E i \in 1 .. a + b : r[i] = x
      BY <1>1, <1>3 DEF ToSet
    <2>2. \A x \in ToSet(q) : x \in ToSet(r)
      BY <1>4, <2>1
    <2>3. \A x \in ToSet(w) : x \in ToSet(r)
      BY <1>5, <2>1
    <2>4. \A x \in ToSet(r) : x \in ToSet(q) \/ x \in ToSet(w)
      BY <1>4, <1>5, <1>6, <2>1
    <2> QED
      BY <2>2, <2>3, <2>4
  <1>8. \A i \in 1 .. a, j \in 1 .. b : q[i] # w[j]
    BY <1>1 DEF ToSet
  <1>9. IsInjective(r)
    <2>1. /\ \A i, j \in 1 .. a : q[i] = q[j] => i = j
          /\ \A i, j \in 1 .. b : w[i] = w[j] => i = j
      BY <1>1 DEF IsInjective
    <2>2. ASSUME NEW k \in 1 .. a + b, NEW l \in 1 .. a + b, r[k] = r[l] PROVE k = l
      <3>1. CASE k \in 1 .. a /\ l \in 1 .. a
        BY <1>4, <2>1, <2>2, <3>1
      <3>2. CASE k \in 1 .. a /\ l \notin 1 .. a
        BY <1>4, <1>5, <1>6, <1>8, <2>2, <3>2
      <3>3. CASE k \notin 1 .. a /\ l \in 1 .. a
        BY <1>4, <1>5, <1>6, <1>8, <2>2, <3>3
      <3>4. CASE k \notin 1 .. a /\ l \notin 1 .. a
        BY <1>5, <1>6, <2>1, <2>2, <3>4
      <3> QED
        BY <3>1, <3>2, <3>3, <3>4
    <2> QED
      BY <1>3, <2>2 DEF IsInjective
  <1> QED
    BY <1>2, <1>7, <1>9 DEF IsList, a, b, r
=============================================================================
