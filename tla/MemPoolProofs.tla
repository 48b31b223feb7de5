--------------------------- MODULE MemPoolProofs ---------------------------
(***************************************************************************)
(* Proofs of MemPool's invariants, for any number of pools, any sizes and  *)
(* any limits.                                                             *)
(***************************************************************************)
EXTENDS MemPool, Induction

(***************************************************************************)
(* The pools w[1], ..., w[n] are linked in this order by next and prev.    *)
(***************************************************************************)
Line(l, w, n) ==
    /\ w \in [1 .. n -> All]
    /\ \A i, j \in 1 .. n : w[i] = w[j] => i = j
    /\ \A i \in 1 .. n : /\ l.next[w[i]] = IF i = n THEN NULL ELSE w[i + 1]
                         /\ l.prev[w[i]] = IF i = 1 THEN NULL ELSE w[i - 1]

(* The pools of a line. *)
On(w, n) == {w[i] : i \in 1 .. n}

ListType(l) ==
    l \in [next : [All -> All \cup {NULL}], prev : [All -> All \cup {NULL}],
           pooltail : Pools \cup {NULL}]

(***************************************************************************)
(* The list of pools is w, from the base pool to pooltail; the pools kept  *)
(* for reuse are v, from free on.                                          *)
(***************************************************************************)
Lists(l, free, w, n, v, m) ==
    /\ Line(l, w, n) /\ Line(l, v, m)
    /\ w[1] = Base
    /\ On(w, n) \cap On(v, m) = {}
    /\ l.pooltail = IF n = 1 THEN NULL ELSE w[n]
    /\ free = IF m = 0 THEN NULL ELSE v[1]

InLists(l, free, count, used, all) ==
    \E n \in Nat \ {0}, m \in Nat : \E w \in [1 .. n -> All], v \in [1 .. m -> All] :
       /\ Lists(l, free, w, n, v, m)
       /\ count = m
       /\ used = On(w, n)
       /\ all = used \cup On(v, m)

-----------------------------------------------------------------------------
(* Lines *)

Distinct == NULL \notin All /\ Base \notin Pools /\ Base \in All /\ NULL # Base

(* NULL, the base pool and the further pools differ. *)
LEMMA DistinctPools == Distinct
  BY MemPoolAssumption DEF Distinct, All

(* A line is as it was where no link of its pools was changed. *)
LEMMA LineFrame ==
  ASSUME NEW l, NEW k, NEW n \in Nat, NEW w, Line(l, w, n),
         \A i \in 1 .. n : k.next[w[i]] = l.next[w[i]] /\ k.prev[w[i]] = l.prev[w[i]]
  PROVE  Line(k, w, n)
  BY DEF Line

(* What Bypass does to the links. *)
LEMMA BypassLinks ==
  ASSUME NEW l, ListType(l), NEW q \in All, l.prev[q] # NULL, l.next[q] # l.prev[q]
  PROVE  /\ ListType(Bypass(l, q))
         /\ Bypass(l, q).pooltail = l.pooltail
         /\ \A x \in All : Bypass(l, q).next[x] = IF x = l.prev[q] THEN l.next[q] ELSE l.next[x]
         /\ \A x \in All : Bypass(l, q).prev[x] = IF x = l.next[q] THEN l.prev[q] ELSE l.prev[x]
  BY DistinctPools DEF Bypass, SetNext, SetPrev, ListType, Distinct

(* The line without its place i. *)
Without(w, n, i) == [j \in 1 .. n - 1 |-> IF j < i THEN w[j] ELSE w[j + 1]]

(* A line without its ith pool: its ends, and the pools on it. *)
LEMMA WithoutPlace ==
  ASSUME NEW n \in Nat, NEW w \in [1 .. n -> All], NEW i \in 2 .. n,
         \A a, b \in 1 .. n : w[a] = w[b] => a = b
  PROVE  /\ n - 1 \in Nat \ {0}
         /\ Without(w, n, i) \in [1 .. n - 1 -> All]
         /\ Without(w, n, i)[1] = w[1]
         /\ Without(w, n, i)[n - 1] = IF i = n THEN w[n - 1] ELSE w[n]
         /\ On(Without(w, n, i), n - 1) = On(w, n) \ {w[i]}
  <1> DEFINE u == Without(w, n, i)
  <1>1. n - 1 \in Nat \ {0} /\ u \in [1 .. n - 1 -> All] /\ u[1] = w[1]
        /\ u[n - 1] = IF i = n THEN w[n - 1] ELSE w[n]
    BY DEF Without
  <1>2. ASSUME NEW x \in On(u, n - 1) PROVE x \in On(w, n) \ {w[i]}
    <2>1. PICK j \in 1 .. n - 1 : x = u[j]
      BY <1>2 DEF On
    <2>2. PICK a \in 1 .. n : x = w[a] /\ a # i
      <3>1. CASE j < i
        BY <2>1, <3>1 DEF Without
      <3>2. CASE ~ (j < i)
        <4>1. x = w[j + 1] /\ j + 1 \in 1 .. n /\ j + 1 # i
          BY <2>1, <3>2 DEF Without
        <4> QED
          BY <4>1
      <3> QED
        BY <3>1, <3>2
    <2> QED
      BY <2>2 DEF On
  <1>3. ASSUME NEW x \in On(w, n) \ {w[i]} PROVE x \in On(u, n - 1)
    <2>1. PICK a \in 1 .. n : x = w[a] /\ a # i
      BY <1>3 DEF On
    <2>2. CASE a < i
      <3>1. a \in 1 .. n - 1 /\ u[a] = x
        BY <2>1, <2>2 DEF Without
      <3> QED
        BY <3>1 DEF On
    <2>3. CASE ~ (a < i)
      <3>1. a - 1 \in 1 .. n - 1 /\ u[a - 1] = x
        BY <2>1, <2>3 DEF Without
      <3> QED
        BY <3>1 DEF On
    <2> QED
      BY <2>2, <2>3
  <1> QED
    BY <1>1, <1>2, <1>3

(* A pool is taken out of a line. *)
LEMMA LineRemove ==
  ASSUME NEW l, ListType(l), NEW n \in Nat, NEW w, Line(l, w, n), NEW i \in 2 .. n
  PROVE  LET k == Bypass(l, w[i]) IN
         /\ ListType(k) /\ k.pooltail = l.pooltail
         /\ Line(k, Without(w, n, i), n - 1)
         /\ \A x \in All \ On(w, n) : k.next[x] = l.next[x] /\ k.prev[x] = l.prev[x]
  <1> DEFINE q == w[i]
             k == Bypass(l, q)
             u == Without(w, n, i)
  <1>1. w \in [1 .. n -> All] /\ (\A a, b \in 1 .. n : w[a] = w[b] => a = b)
    BY DEF Line
  <1>2. /\ q \in All /\ l.prev[q] = w[i - 1] /\ i - 1 \in 1 .. n
        /\ l.next[q] = IF i = n THEN NULL ELSE w[i + 1]
    BY DEF Line
  <1>3. l.prev[q] # NULL /\ l.next[q] # l.prev[q]
    BY <1>1, <1>2, DistinctPools DEF Distinct
  <1>4. /\ ListType(k) /\ k.pooltail = l.pooltail
        /\ \A x \in All : k.next[x] = IF x = w[i - 1] THEN l.next[q] ELSE l.next[x]
        /\ \A x \in All : k.prev[x] = IF x = l.next[q] THEN w[i - 1] ELSE l.prev[x]
    BY <1>2, <1>3, BypassLinks
  <1>5. u \in [1 .. n - 1 -> All]
    BY <1>1, WithoutPlace
  <1>6. \A a, b \in 1 .. n - 1 : u[a] = u[b] => a = b
    BY <1>1 DEF Without
  <1>7. ASSUME NEW j \in 1 .. n - 1
        PROVE  k.next[u[j]] = IF j = n - 1 THEN NULL ELSE u[j + 1]
    <2>1. CASE j < i - 1
      <3>1. u[j] = w[j] /\ j \in 1 .. n /\ u[j + 1] = w[j + 1] /\ j # n - 1 /\ j # n /\ w[j] # w[i - 1]
        BY <1>1, <1>2, <2>1 DEF Without
      <3> QED
        BY <1>1, <1>4, <3>1 DEF Line
    <2>2. CASE j = i - 1
      <3>1. u[j] = w[i - 1] /\ (j # n - 1 => u[j + 1] = w[i + 1])
        BY <2>2 DEF Without
      <3> QED
        BY <1>1, <1>2, <1>4, <2>2, <3>1
    <2>3. CASE j > i - 1
      <3>1. u[j] = w[j + 1] /\ j + 1 \in 1 .. n /\ (j # n - 1 => u[j + 1] = w[j + 2]) /\ w[j + 1] # w[i - 1]
        BY <1>1, <1>2, <2>3 DEF Without
      <3>2. l.next[w[j + 1]] = IF j + 1 = n THEN NULL ELSE w[j + 2]
        BY <3>1 DEF Line
      <3> QED
        BY <1>1, <1>4, <3>1, <3>2
    <2> QED
      BY <2>1, <2>2, <2>3
  <1>8. ASSUME NEW j \in 1 .. n - 1
        PROVE  k.prev[u[j]] = IF j = 1 THEN NULL ELSE u[j - 1]
    <2>1. CASE j < i
      <3>1. u[j] = w[j] /\ j \in 1 .. n /\ (j # 1 => u[j - 1] = w[j - 1]) /\ w[j] # l.next[q]
        BY <1>1, <1>2, <2>1, DistinctPools DEF Without, Distinct
      <3> QED
        BY <1>1, <1>4, <3>1 DEF Line
    <2>2. CASE j = i
      <3>1. u[j] = w[i + 1] /\ u[j - 1] = w[i - 1] /\ i # n /\ j # 1
        BY <2>2 DEF Without
      <3> QED
        BY <1>1, <1>2, <1>4, <2>2, <3>1
    <2>3. CASE j > i
      <3>1. /\ u[j] = w[j + 1] /\ j + 1 \in 1 .. n /\ u[j - 1] = w[j] /\ j # 1
            /\ w[j + 1] # l.next[q]
        BY <1>1, <1>2, <2>3 DEF Without
      <3>2. l.prev[w[j + 1]] = w[j]
        BY <3>1 DEF Line
      <3> QED
        BY <1>1, <1>4, <3>1, <3>2
    <2> QED
      BY <2>1, <2>2, <2>3
  <1>9. \A x \in All \ On(w, n) : x # w[i - 1] /\ x # l.next[q]
    BY <1>2, DistinctPools DEF On, Distinct
  <1> QED
    BY <1>4, <1>5, <1>6, <1>7, <1>8, <1>9 DEF Line

(* q comes in behind the base pool. *)
Second(w, n, q) == [j \in 1 .. n + 1 |-> IF j = 1 THEN w[1] ELSE IF j = 2 THEN q ELSE w[j - 1]]

(* A line with q behind its first pool: its ends, and the pools on it. *)
LEMMA SecondPlace ==
  ASSUME NEW n \in Nat \ {0}, NEW w \in [1 .. n -> All], NEW q \in All
  PROVE  /\ Second(w, n, q) \in [1 .. n + 1 -> All]
         /\ Second(w, n, q)[1] = w[1]
         /\ Second(w, n, q)[n + 1] = IF n = 1 THEN q ELSE w[n]
         /\ On(Second(w, n, q), n + 1) = On(w, n) \cup {q}
  <1> DEFINE u == Second(w, n, q)
  <1>1. u \in [1 .. n + 1 -> All] /\ u[1] = w[1] /\ u[n + 1] = IF n = 1 THEN q ELSE w[n]
    BY DEF Second
  <1>2. ASSUME NEW x \in On(u, n + 1) PROVE x \in On(w, n) \cup {q}
    <2>1. PICK j \in 1 .. n + 1 : x = u[j]
      BY <1>2 DEF On
    <2>2. CASE j = 1
      BY <2>1, <2>2 DEF Second, On
    <2>3. CASE j = 2
      BY <2>1, <2>3 DEF Second
    <2>4. CASE j > 2
      <3>1. x = w[j - 1] /\ j - 1 \in 1 .. n
        BY <2>1, <2>4 DEF Second
      <3> QED
        BY <3>1 DEF On
    <2> QED
      BY <2>2, <2>3, <2>4
  <1>3. ASSUME NEW x \in On(w, n) \cup {q} PROVE x \in On(u, n + 1)
    <2>1. CASE x = q
      <3>1. u[2] = x /\ 2 \in 1 .. n + 1
        BY <2>1 DEF Second
      <3> QED
        BY <3>1 DEF On
    <2>2. CASE x \in On(w, n)
      <3>1. PICK a \in 1 .. n : x = w[a]
        BY <2>2 DEF On
      <3>2. CASE a = 1
        BY <1>1, <3>1, <3>2 DEF On
      <3>3. CASE a > 1
        <4>1. u[a + 1] = x /\ a + 1 \in 1 .. n + 1
          BY <3>1, <3>3 DEF Second
        <4> QED
          BY <4>1 DEF On
      <3> QED
        BY <3>2, <3>3
    <2> QED
      BY <2>1, <2>2
  <1> QED
    BY <1>1, <1>2, <1>3

(* What InsertFirst does to the links. *)
LEMMA InsertFirstLinks ==
  ASSUME NEW l, ListType(l), NEW q \in All, q # Base, l.next[Base] # q
  PROVE  LET k == InsertFirst(l, q) IN
         /\ ListType(k) /\ k.pooltail = l.pooltail
         /\ \A x \in All : k.next[x] = IF x = q THEN l.next[Base]
                                       ELSE IF x = Base THEN q ELSE l.next[x]
         /\ \A x \in All : k.prev[x] = IF x = q THEN Base
                                       ELSE IF x = l.next[Base] THEN q ELSE l.prev[x]
  <1> DEFINE h == [l EXCEPT !.next[q] = l.next[Base], !.prev[q] = Base, !.next[Base] = q]
  <1>1. /\ ListType(h) /\ h.pooltail = l.pooltail
        /\ \A x \in All : h.next[x] = IF x = q THEN l.next[Base]
                                      ELSE IF x = Base THEN q ELSE l.next[x]
        /\ \A x \in All : h.prev[x] = IF x = q THEN Base ELSE l.prev[x]
    BY DistinctPools DEF ListType, Distinct
  <1>2. InsertFirst(l, q) = SetPrev(h, l.next[Base], q)
    BY DEF InsertFirst
  <1> HIDE DEF h
  <1>3. l.next[Base] \in All \cup {NULL}
    BY DistinctPools DEF ListType, Distinct
  <1> QED
    BY <1>1, <1>2, <1>3, DistinctPools DEF SetPrev, ListType, Distinct

(* InsertFirst makes the line with q behind its first pool. *)
LEMMA LineSecond ==
  ASSUME NEW l, ListType(l), NEW n \in Nat \ {0}, NEW w, Line(l, w, n), w[1] = Base,
         NEW q \in All \ On(w, n)
  PROVE  LET k == InsertFirst(l, q) IN
         /\ ListType(k) /\ k.pooltail = l.pooltail
         /\ Line(k, Second(w, n, q), n + 1)
         /\ \A x \in All \ (On(w, n) \cup {q}) : k.next[x] = l.next[x] /\ k.prev[x] = l.prev[x]
  <1> DEFINE k == InsertFirst(l, q)
             u == Second(w, n, q)
  <1>1. w \in [1 .. n -> All] /\ (\A a, b \in 1 .. n : w[a] = w[b] => a = b)
    BY DEF Line
  <1>2. l.next[Base] = IF n = 1 THEN NULL ELSE w[2]
    BY DEF Line
  <1>3. (\A a \in 1 .. n : w[a] # q) /\ q # Base /\ l.next[Base] # q
    BY <1>2, DistinctPools DEF On, Distinct
  <1>4. /\ ListType(k) /\ k.pooltail = l.pooltail
        /\ \A x \in All : k.next[x] = IF x = q THEN l.next[Base]
                                      ELSE IF x = Base THEN q ELSE l.next[x]
        /\ \A x \in All : k.prev[x] = IF x = q THEN Base
                                      ELSE IF x = l.next[Base] THEN q ELSE l.prev[x]
    BY <1>3, InsertFirstLinks
  <1> HIDE DEF k
  <1>5. u \in [1 .. n + 1 -> All]
    BY <1>1, SecondPlace
  <1>6. \A a, b \in 1 .. n + 1 : u[a] = u[b] => a = b
    BY <1>1, <1>3 DEF Second
  <1>7. ASSUME NEW j \in 1 .. n + 1
        PROVE  /\ k.next[u[j]] = IF j = n + 1 THEN NULL ELSE u[j + 1]
               /\ k.prev[u[j]] = IF j = 1 THEN NULL ELSE u[j - 1]
    <2>1. CASE j = 1
      <3>1. u[j] = Base /\ u[j + 1] = q /\ l.prev[Base] = NULL
        BY <2>1 DEF Second, Line
      <3>2. l.next[Base] # Base
        BY <1>1, <1>2, DistinctPools DEF Distinct
      <3> QED
        BY <1>3, <1>4, <2>1, <3>1, <3>2, DistinctPools DEF Distinct
    <2>2. CASE j = 2
      <3>1. u[j] = q /\ u[j - 1] = Base /\ (n # 1 => u[j + 1] = w[2])
        BY <2>2 DEF Second
      <3> QED
        BY <1>2, <1>4, <2>2, <3>1
    <2>3. CASE j > 2
      <3>1. /\ u[j] = w[j - 1] /\ j - 1 \in 2 .. n /\ (j # n + 1 => u[j + 1] = w[j])
            /\ u[j - 1] = IF j = 3 THEN q ELSE w[j - 2]
        BY <2>3 DEF Second
      <3>2. /\ l.next[w[j - 1]] = IF j - 1 = n THEN NULL ELSE w[j]
            /\ l.prev[w[j - 1]] = w[j - 2]
        BY <3>1 DEF Line
      <3>3. w[j - 1] # Base /\ w[j - 1] # q /\ w[j - 1] \in All /\ (w[j - 1] = l.next[Base] <=> j = 3)
        BY <1>1, <1>2, <1>3, <3>1
      <3> QED
        BY <1>4, <3>1, <3>2, <3>3
    <2> QED
      BY <2>1, <2>2, <2>3
  <1>8. \A x \in All \ (On(w, n) \cup {q}) : x # Base /\ x # q /\ x # l.next[Base]
    BY <1>2, DistinctPools DEF On, Distinct
  <1> QED
    BY <1>4, <1>5, <1>6, <1>7, <1>8 DEF Line, k

(* q comes in at the end. *)
Longer(w, n, q) == [j \in 1 .. n + 1 |-> IF j = n + 1 THEN q ELSE w[j]]

(* A line with q at its end: its ends, and the pools on it. *)
LEMMA LongerPlace ==
  ASSUME NEW n \in Nat \ {0}, NEW w \in [1 .. n -> All], NEW q \in All
  PROVE  /\ Longer(w, n, q) \in [1 .. n + 1 -> All]
         /\ Longer(w, n, q)[1] = w[1]
         /\ Longer(w, n, q)[n + 1] = q
         /\ On(Longer(w, n, q), n + 1) = On(w, n) \cup {q}
  <1> DEFINE u == Longer(w, n, q)
  <1>1. u \in [1 .. n + 1 -> All] /\ u[1] = w[1] /\ u[n + 1] = q /\ \A j \in 1 .. n : u[j] = w[j]
    BY DEF Longer
  <1> HIDE DEF u
  <1>2. On(u, n + 1) = On(w, n) \cup {q}
    BY <1>1 DEF On
  <1> QED
    BY <1>1, <1>2 DEF u

Tailed(l, t, q) ==
    [l EXCEPT !.next[t] = q, !.next[q] = NULL, !.prev[q] = t, !.pooltail = q]

(* What __mempool_move2tail writes makes the line with q at its end. *)
LEMMA LineLonger ==
  ASSUME NEW l, ListType(l), NEW n \in Nat \ {0}, NEW w, Line(l, w, n),
         NEW q \in Pools, q \notin On(w, n)
  PROVE  LET k == Tailed(l, w[n], q) IN
         /\ ListType(k) /\ k.pooltail = q
         /\ Line(k, Longer(w, n, q), n + 1)
         /\ \A x \in All \ (On(w, n) \cup {q}) : k.next[x] = l.next[x] /\ k.prev[x] = l.prev[x]
  <1> DEFINE k == Tailed(l, w[n], q)
             u == Longer(w, n, q)
  <1>0. q \in All
    BY DEF All
  <1>1. w \in [1 .. n -> All] /\ (\A a, b \in 1 .. n : w[a] = w[b] => a = b)
    BY DEF Line
  <1>2. \A a \in 1 .. n : w[a] # q
    BY DEF On
  <1>3. w[n] \in All
    BY <1>1
  <1>4. /\ ListType(k) /\ k.pooltail = q
        /\ \A x \in All : k.next[x] = IF x = q THEN NULL ELSE IF x = w[n] THEN q ELSE l.next[x]
        /\ \A x \in All : k.prev[x] = IF x = q THEN w[n] ELSE l.prev[x]
    BY <1>0, <1>2, <1>3, DistinctPools DEF ListType, Distinct, Tailed
  <1> HIDE DEF k
  <1>5. u \in [1 .. n + 1 -> All] /\ u[n + 1] = q /\ \A j \in 1 .. n : u[j] = w[j]
    BY <1>0, <1>1 DEF Longer
  <1> HIDE DEF u
  <1>6. \A a, b \in 1 .. n + 1 : u[a] = u[b] => a = b
    BY <1>1, <1>2, <1>5
  <1>7. ASSUME NEW j \in 1 .. n + 1
        PROVE  /\ k.next[u[j]] = IF j = n + 1 THEN NULL ELSE u[j + 1]
               /\ k.prev[u[j]] = IF j = 1 THEN NULL ELSE u[j - 1]
    <2>1. CASE j = n + 1
      BY <1>0, <1>4, <1>5, <2>1
    <2>2. CASE j # n + 1
      <3>1. /\ j \in 1 .. n /\ u[j] = w[j] /\ w[j] \in All /\ w[j] # q /\ (w[j] = w[n] <=> j = n)
            /\ (j # 1 => u[j - 1] = w[j - 1]) /\ (j # n => u[j + 1] = w[j + 1])
        BY <1>1, <1>2, <1>5, <2>2
      <3>2. /\ l.next[w[j]] = IF j = n THEN NULL ELSE w[j + 1]
            /\ l.prev[w[j]] = IF j = 1 THEN NULL ELSE w[j - 1]
        BY <3>1 DEF Line
      <3> QED
        BY <1>4, <1>5, <2>2, <3>1, <3>2
    <2> QED
      BY <2>1, <2>2
  <1>8. \A x \in All \ (On(w, n) \cup {q}) : x # w[n] /\ x # q
    BY DEF On
  <1> QED
    BY <1>4, <1>5, <1>6, <1>7, <1>8 DEF Line, k, u

(* The first pool of a line is taken. *)
Rest(v, m) == [j \in 1 .. m - 1 |-> v[j + 1]]

(* A line without its first pool, and the pools on it. *)
LEMMA RestPlaces ==
  ASSUME NEW m \in Nat \ {0}, NEW v \in [1 .. m -> All],
         \A a, b \in 1 .. m : v[a] = v[b] => a = b
  PROVE  /\ m - 1 \in Nat
         /\ Rest(v, m) \in [1 .. m - 1 -> All]
         /\ On(Rest(v, m), m - 1) = On(v, m) \ {v[1]}
  <1> DEFINE u == Rest(v, m)
  <1>1. m - 1 \in Nat /\ u \in [1 .. m - 1 -> All] /\ \A j \in 1 .. m - 1 : u[j] = v[j + 1]
    BY DEF Rest
  <1> HIDE DEF u
  <1>2. ASSUME NEW x \in On(u, m - 1) PROVE x \in On(v, m) \ {v[1]}
    <2>1. PICK j \in 1 .. m - 1 : x = v[j + 1]
      BY <1>1, <1>2 DEF On
    <2>2. j + 1 \in 1 .. m /\ j + 1 # 1 /\ 1 \in 1 .. m
      OBVIOUS
    <2> QED
      BY <2>1, <2>2 DEF On
  <1>3. ASSUME NEW x \in On(v, m) \ {v[1]} PROVE x \in On(u, m - 1)
    <2>1. PICK a \in 1 .. m : x = v[a] /\ a # 1
      BY <1>3 DEF On
    <2>2. a - 1 \in 1 .. m - 1 /\ u[a - 1] = x
      BY <1>1, <2>1
    <2> QED
      BY <2>2 DEF On
  <1> QED
    BY <1>1, <1>2, <1>3 DEF u

(* Taking the first of the pools kept for reuse leaves the rest of the line. *)
LEMMA LineRest ==
  ASSUME NEW l, ListType(l), NEW m \in Nat \ {0}, NEW v, Line(l, v, m)
  PROVE  LET k == SetPrev(l, l.next[v[1]], NULL) IN
         /\ ListType(k) /\ k.pooltail = l.pooltail /\ k.next = l.next
         /\ Line(k, Rest(v, m), m - 1)
         /\ \A x \in All \ On(v, m) : k.prev[x] = l.prev[x]
  <1> DEFINE k == SetPrev(l, l.next[v[1]], NULL)
             u == Rest(v, m)
  <1>1. v \in [1 .. m -> All] /\ (\A a, b \in 1 .. m : v[a] = v[b] => a = b)
    BY DEF Line
  <1>2. l.next[v[1]] = IF m = 1 THEN NULL ELSE v[2]
    BY DEF Line
  <1>3. /\ ListType(k) /\ k.pooltail = l.pooltail /\ k.next = l.next
        /\ \A x \in All : k.prev[x] = IF x = l.next[v[1]] THEN NULL ELSE l.prev[x]
    BY <1>1, <1>2, DistinctPools DEF SetPrev, ListType, Distinct
  <1> HIDE DEF k
  <1>4. u \in [1 .. m - 1 -> All] /\ \A j \in 1 .. m - 1 : u[j] = v[j + 1]
    BY <1>1 DEF Rest
  <1> HIDE DEF u
  <1>5. \A a, b \in 1 .. m - 1 : u[a] = u[b] => a = b
    BY <1>1, <1>4
  <1>6. ASSUME NEW j \in 1 .. m - 1
        PROVE  /\ k.next[u[j]] = IF j = m - 1 THEN NULL ELSE u[j + 1]
               /\ k.prev[u[j]] = IF j = 1 THEN NULL ELSE u[j - 1]
    <2>1. /\ j + 1 \in 1 .. m /\ u[j] = v[j + 1] /\ v[j + 1] \in All
          /\ (j # 1 => u[j - 1] = v[j]) /\ (j # m - 1 => u[j + 1] = v[j + 2])
          /\ (v[j + 1] = l.next[v[1]] <=> j = 1)
      <3>1. j + 1 \in 1 .. m /\ 2 \in 1 .. m /\ m # 1 /\ m \in Nat
        OBVIOUS
      <3>2. j # 1 => j - 1 \in 1 .. m - 1 /\ (j - 1) + 1 = j
        OBVIOUS
      <3>3. j # m - 1 => j + 1 \in 1 .. m - 1 /\ (j + 1) + 1 = j + 2
        OBVIOUS
      <3>4. j + 1 = 2 <=> j = 1
        OBVIOUS
      <3> QED
        BY <1>1, <1>2, <1>4, <3>1, <3>2, <3>3, <3>4
    <2>2. /\ l.next[v[j + 1]] = IF j + 1 = m THEN NULL ELSE v[j + 2]
          /\ l.prev[v[j + 1]] = v[j]
      BY <2>1 DEF Line
    <2> QED
      BY <1>3, <2>1, <2>2
  <1>7. \A x \in All \ On(v, m) : x # l.next[v[1]]
    BY <1>2, DistinctPools DEF On, Distinct
  <1> QED
    BY <1>3, <1>4, <1>5, <1>6, <1>7 DEF Line, k, u

(* q comes in front of a line. *)
Before(v, m, q) == [j \in 1 .. m + 1 |-> IF j = 1 THEN q ELSE v[j - 1]]

(* A line with q in front: its first pool, and the pools on it. *)
LEMMA BeforePlaces ==
  ASSUME NEW m \in Nat, NEW v \in [1 .. m -> All], NEW q \in All
  PROVE  /\ Before(v, m, q) \in [1 .. m + 1 -> All] /\ Before(v, m, q)[1] = q
         /\ On(Before(v, m, q), m + 1) = On(v, m) \cup {q}
  <1> DEFINE u == Before(v, m, q)
  <1>1. u \in [1 .. m + 1 -> All] /\ u[1] = q /\ \A j \in 2 .. m + 1 : u[j] = v[j - 1]
    BY DEF Before
  <1> HIDE DEF u
  <1>2. ASSUME NEW x \in On(u, m + 1) PROVE x \in On(v, m) \cup {q}
    <2>1. PICK j \in 1 .. m + 1 : x = u[j]
      BY <1>2 DEF On
    <2>2. CASE j = 1
      BY <1>1, <2>1, <2>2
    <2>3. CASE j # 1
      <3>1. x = v[j - 1] /\ j - 1 \in 1 .. m
        BY <1>1, <2>1, <2>3
      <3> QED
        BY <3>1 DEF On
    <2> QED
      BY <2>2, <2>3
  <1>3. ASSUME NEW x \in On(v, m) \cup {q} PROVE x \in On(u, m + 1)
    <2>1. CASE x = q
      BY <1>1, <2>1 DEF On
    <2>2. CASE x \in On(v, m)
      <3>1. PICK a \in 1 .. m : x = v[a]
        BY <2>2 DEF On
      <3>2. a + 1 \in 2 .. m + 1 /\ u[a + 1] = x
        BY <1>1, <3>1
      <3> QED
        BY <3>2 DEF On
    <2> QED
      BY <2>1, <2>2
  <1> QED
    BY <1>1, <1>2, <1>3 DEF u

Put(l, q, free) == SetPrev([l EXCEPT !.next[q] = free, !.prev[q] = NULL], free, q)

(* Putting q in front of the pools kept for reuse makes such a line. *)
LEMMA LineBefore ==
  ASSUME NEW l, ListType(l), NEW m \in Nat, NEW v, Line(l, v, m), NEW q \in All \ On(v, m),
         NEW free, free = IF m = 0 THEN NULL ELSE v[1]
  PROVE  LET k == Put(l, q, free) IN
         /\ ListType(k) /\ k.pooltail = l.pooltail
         /\ Line(k, Before(v, m, q), m + 1)
         /\ \A x \in All \ (On(v, m) \cup {q}) : k.next[x] = l.next[x] /\ k.prev[x] = l.prev[x]
  <1> DEFINE h == [l EXCEPT !.next[q] = free, !.prev[q] = NULL]
             k == Put(l, q, free)
             u == Before(v, m, q)
  <1>1. v \in [1 .. m -> All] /\ (\A a, b \in 1 .. m : v[a] = v[b] => a = b)
    BY DEF Line
  <1>2. free \in All \cup {NULL} /\ free # q /\ \A a \in 1 .. m : v[a] # q
    BY <1>1, DistinctPools DEF On, Distinct
  <1>3. /\ ListType(h) /\ h.pooltail = l.pooltail
        /\ \A x \in All : h.next[x] = IF x = q THEN free ELSE l.next[x]
        /\ \A x \in All : h.prev[x] = IF x = q THEN NULL ELSE l.prev[x]
    BY <1>2 DEF ListType
  <1>0. k = SetPrev(h, free, q)
    BY DEF Put
  <1> HIDE DEF h, k
  <1>4. /\ ListType(k) /\ k.pooltail = l.pooltail
        /\ \A x \in All : k.next[x] = IF x = q THEN free ELSE l.next[x]
        /\ \A x \in All : k.prev[x] = IF x = q THEN NULL
                                      ELSE IF x = free THEN q ELSE l.prev[x]
    BY <1>0, <1>2, <1>3, DistinctPools DEF SetPrev, ListType, Distinct
  <1>5. u \in [1 .. m + 1 -> All] /\ u[1] = q /\ \A j \in 2 .. m + 1 : u[j] = v[j - 1]
    BY <1>1 DEF Before
  <1> HIDE DEF u
  <1>6. \A a, b \in 1 .. m + 1 : u[a] = u[b] => a = b
    <2>1. \A a \in 2 .. m + 1 : a - 1 \in 1 .. m
      OBVIOUS
    <2> QED
      BY <1>1, <1>2, <1>5, <2>1
  <1>7. ASSUME NEW j \in 1 .. m + 1
        PROVE  /\ k.next[u[j]] = IF j = m + 1 THEN NULL ELSE u[j + 1]
               /\ k.prev[u[j]] = IF j = 1 THEN NULL ELSE u[j - 1]
    <2>1. CASE j = 1
      <3>1. m # 0 => u[2] = v[1]
        BY <1>5
      <3> QED
        BY <1>4, <1>5, <2>1, <3>1
    <2>2. CASE j # 1
      <3>1. /\ j - 1 \in 1 .. m /\ u[j] = v[j - 1] /\ v[j - 1] \in All /\ v[j - 1] # q
            /\ (j # m + 1 => u[j + 1] = v[j]) /\ u[j - 1] = (IF j = 2 THEN q ELSE v[j - 2])
            /\ (v[j - 1] = free <=> j = 2)
        BY <1>1, <1>2, <1>5, <2>2
      <3>2. /\ l.next[v[j - 1]] = IF j - 1 = m THEN NULL ELSE v[j]
            /\ l.prev[v[j - 1]] = IF j - 1 = 1 THEN NULL ELSE v[j - 2]
        BY <3>1 DEF Line
      <3> QED
        BY <1>4, <2>2, <3>1, <3>2
    <2> QED
      BY <2>1, <2>2
  <1>8. \A x \in All \ (On(v, m) \cup {q}) : x # q /\ x # free
    BY <1>2, DistinctPools DEF On, Distinct
  <1> QED
    BY <1>4, <1>5, <1>6, <1>7, <1>8 DEF Line, k, u, h

-----------------------------------------------------------------------------
(* What the operations do to the two lists *)

(* Behind the base pool there are further pools only. *)
LEMMA LastIsPool ==
  ASSUME NEW l, NEW n \in Nat \ {0}, NEW w, Line(l, w, n), w[1] = Base, NEW i \in 2 .. n
  PROVE  w[i] \in Pools /\ w[i] # Base /\ w[i] \in On(w, n)
  BY DistinctPools DEF Line, All, On

(* The links of the pools outside the set U are the same in l and k. *)
SameLinks(l, k, U) ==
    \A x \in All \ U : k.next[x] = l.next[x] /\ k.prev[x] = l.prev[x]

(* A pool leaves the list that begins with the base pool. *)
IsRemoved(l, k, w, n, i) ==
    /\ ListType(k) /\ k.pooltail = l.pooltail /\ SameLinks(l, k, On(w, n))
    /\ \E p \in Nat \ {0} : \E u :
          /\ n = p + 1 /\ Line(k, u, p) /\ u[1] = Base
          /\ u[p] = (IF i = n THEN w[n - 1] ELSE w[n])
          /\ On(u, p) = On(w, n) \ {w[i]}

(* Bypass takes a pool out of the list. *)
LEMMA Removed ==
  ASSUME NEW l, ListType(l), NEW n \in Nat \ {0}, NEW w, Line(l, w, n), w[1] = Base,
         NEW i \in 2 .. n
  PROVE  IsRemoved(l, Bypass(l, w[i]), w, n, i)
  <1> DEFINE k == Bypass(l, w[i])
             q == w[i]
  <1>1. n \in Nat /\ n = (n - 1) + 1
    OBVIOUS
  <1>2. LET c == Bypass(l, w[i]) IN
        /\ ListType(c) /\ c.pooltail = l.pooltail
        /\ Line(c, Without(w, n, i), n - 1)
        /\ \A x \in All \ On(w, n) : c.next[x] = l.next[x] /\ c.prev[x] = l.prev[x]
    BY <1>1, LineRemove
  <1>3. w \in [1 .. n -> All] /\ \A a, b \in 1 .. n : w[a] = w[b] => a = b
    BY DEF Line
  <1>4. /\ n - 1 \in Nat \ {0}
        /\ Without(w, n, i)[1] = w[1]
        /\ Without(w, n, i)[n - 1] = (IF i = n THEN w[n - 1] ELSE w[n])
        /\ On(Without(w, n, i), n - 1) = On(w, n) \ {w[i]}
    BY <1>1, <1>3, WithoutPlace
  <1>5. ListType(k) /\ k.pooltail = l.pooltail /\ SameLinks(l, k, On(w, n))
        /\ Line(k, Without(w, n, i), n - 1)
    BY <1>2 DEF SameLinks
  <1>6. /\ Without(w, n, i)[1] = Base /\ On(Without(w, n, i), n - 1) = On(w, n) \ {q}
    BY <1>4
  <1> HIDE DEF k
  <1> QED
    BY <1>1, <1>4, <1>5, <1>6 DEF IsRemoved, k

(* A pool comes behind the base pool. *)
IsInserted(l, k, u, p, q) ==
    /\ ListType(k) /\ k.pooltail = l.pooltail /\ SameLinks(l, k, On(u, p) \cup {q})
    /\ \E x : /\ Line(k, x, p + 1) /\ x[1] = Base
             /\ x[p + 1] = (IF p = 1 THEN q ELSE u[p])
             /\ On(x, p + 1) = On(u, p) \cup {q}

(* InsertFirst puts a pool behind the base pool. *)
LEMMA Inserted ==
  ASSUME NEW l, ListType(l), NEW p \in Nat \ {0}, NEW u, Line(l, u, p), u[1] = Base,
         NEW q \in All \ On(u, p)
  PROVE  IsInserted(l, InsertFirst(l, q), u, p, q)
  <1> DEFINE k == InsertFirst(l, q)
  <1>1. /\ ListType(k) /\ k.pooltail = l.pooltail
        /\ Line(k, Second(u, p, q), p + 1)
        /\ \A x \in All \ (On(u, p) \cup {q}) : k.next[x] = l.next[x] /\ k.prev[x] = l.prev[x]
    BY LineSecond
  <1>2. u \in [1 .. p -> All] /\ q \in All
    BY DEF Line
  <1>3. /\ Second(u, p, q)[1] = u[1]
        /\ Second(u, p, q)[p + 1] = (IF p = 1 THEN q ELSE u[p])
        /\ On(Second(u, p, q), p + 1) = On(u, p) \cup {q}
    BY <1>2, SecondPlace
  <1> HIDE DEF k
  <1> QED
    BY <1>1, <1>3 DEF SameLinks, IsInserted, k

(* A pool comes to the end. *)
IsAppended(l, k, u, p, q) ==
    /\ ListType(k) /\ k.pooltail = q /\ SameLinks(l, k, On(u, p) \cup {q})
    /\ \E x : /\ Line(k, x, p + 1) /\ x[1] = Base /\ x[p + 1] = q
             /\ On(x, p + 1) = On(u, p) \cup {q}

(* Tailed puts a pool behind the last one and makes it pooltail. *)
LEMMA Appended ==
  ASSUME NEW l, ListType(l), NEW p \in Nat \ {0}, NEW u, Line(l, u, p), u[1] = Base,
         NEW q \in Pools, q \notin On(u, p)
  PROVE  IsAppended(l, Tailed(l, u[p], q), u, p, q)
  <1> DEFINE k == Tailed(l, u[p], q)
  <1>1. LET c == Tailed(l, u[p], q) IN
        /\ ListType(c) /\ c.pooltail = q
        /\ Line(c, Longer(u, p, q), p + 1)
        /\ \A x \in All \ (On(u, p) \cup {q}) : c.next[x] = l.next[x] /\ c.prev[x] = l.prev[x]
    BY LineLonger
  <1>2. /\ ListType(k) /\ k.pooltail = q
        /\ Line(k, Longer(u, p, q), p + 1)
        /\ \A x \in All \ (On(u, p) \cup {q}) : k.next[x] = l.next[x] /\ k.prev[x] = l.prev[x]
    BY <1>1
  <1>3. u \in [1 .. p -> All] /\ q \in All
    BY DEF Line, All
  <1>4. /\ Longer(u, p, q)[1] = u[1] /\ Longer(u, p, q)[p + 1] = q
        /\ On(Longer(u, p, q), p + 1) = On(u, p) \cup {q}
    BY <1>3, LongerPlace
  <1> HIDE DEF k
  <1> QED
    BY <1>2, <1>4 DEF SameLinks, IsAppended, k

(* A line outside the links that changed. *)
LEMMA Kept ==
  ASSUME NEW l, NEW k, NEW m \in Nat, NEW v, Line(l, v, m), NEW U, SameLinks(l, k, U),
         U \cap On(v, m) = {}
  PROVE  Line(k, v, m)
  <1>1. \A i \in 1 .. m : v[i] \in All \ U
    BY DEF Line, On
  <1> QED
    BY <1>1, LineFrame DEF SameLinks

(* Two lines that are in order. *)
LEMMA TwoLists ==
  ASSUME NEW l, NEW free, NEW n \in Nat \ {0}, NEW w, NEW m \in Nat, NEW v,
         Lists(l, free, w, n, v, m)
  PROVE  InLists(l, free, m, On(w, n), On(w, n) \cup On(v, m))
  BY DEF InLists, Lists, Line

(* The lines of two lists. *)
TwoLines(l, free, count, used, all, n, w, v) ==
    /\ count \in Nat /\ Line(l, w, n) /\ Line(l, v, count) /\ w[1] = Base
    /\ used = On(w, n) /\ all = used \cup On(v, count)
    /\ used \cap On(v, count) = {}
    /\ l.pooltail = IF n = 1 THEN NULL ELSE w[n]
    /\ free = IF count = 0 THEN NULL ELSE v[1]

(* The lists in order are two lines. *)
LEMMA TheLists ==
  ASSUME NEW l, NEW free, NEW count, NEW used, NEW all, InLists(l, free, count, used, all)
  PROVE  \E n \in Nat \ {0} : \E w, v : TwoLines(l, free, count, used, all, n, w, v)
  BY DEF InLists, Lists, TwoLines

(* __mempool_move2tail *)
LEMMA Move2TailLists ==
  ASSUME NEW l, ListType(l), NEW free, NEW count, NEW used, NEW all,
         InLists(l, free, count, used, all), NEW q \in used
  PROVE  ListType(Move2Tail(l, q)) /\ InLists(Move2Tail(l, q), free, count, used, all)
  <1>a. PICK n \in Nat \ {0} : \E w, v : TwoLines(l, free, count, used, all, n, w, v)
    BY TheLists
  <1>1. PICK w, v :
            /\ count \in Nat /\ Line(l, w, n) /\ Line(l, v, count) /\ w[1] = Base
            /\ used = On(w, n) /\ all = used \cup On(v, count)
            /\ used \cap On(v, count) = {}
            /\ l.pooltail = IF n = 1 THEN NULL ELSE w[n]
            /\ free = IF count = 0 THEN NULL ELSE v[1]
    BY <1>a DEF TwoLines
  <1>2. CASE q = Base \/ q = l.pooltail
    BY <1>2 DEF Move2Tail
  <1>3. CASE ~ (q = Base \/ q = l.pooltail)
    <2>1. PICK i \in 1 .. n : q = w[i]
      BY <1>1 DEF On
    <2>2. i \in 2 .. n /\ i # n /\ l.pooltail = w[n]
      BY <1>1, <1>3, <2>1
    <2> DEFINE b == Bypass(l, q)
    <2>3. /\ ListType(b) /\ b.pooltail = l.pooltail /\ SameLinks(l, b, On(w, n))
          /\ \E p \in Nat \ {0} : \E u :
               /\ n = p + 1 /\ Line(b, u, p) /\ u[1] = Base
               /\ u[p] = (IF i = n THEN w[n - 1] ELSE w[n])
               /\ On(u, p) = On(w, n) \ {q}
      <3>1. IsRemoved(l, Bypass(l, w[i]), w, n, i)
        BY <1>1, <2>2, Removed
      <3> QED
        BY <2>1, <3>1 DEF IsRemoved
    <2>b. PICK p \in Nat \ {0} : \E u :
               /\ n = p + 1 /\ Line(b, u, p) /\ u[1] = Base /\ u[p] = w[n]
               /\ On(u, p) = On(w, n) \ {q}
      BY <2>2, <2>3
    <2>4. PICK u :
               /\ n = p + 1 /\ Line(b, u, p) /\ u[1] = Base /\ u[p] = w[n]
               /\ On(u, p) = On(w, n) \ {q}
      BY <2>b
    <2>5. q \in Pools /\ q \in On(w, n) /\ q \notin On(u, p) /\ l.pooltail = u[p]
      BY <1>1, <2>1, <2>2, <2>4, LastIsPool
    <2> DEFINE t == l.pooltail
               k == Tailed(b, t, q)
    <2>6. Move2Tail(l, q) = k
      BY <1>3 DEF Move2Tail, Tailed
    <2> HIDE DEF b, k
    <2>7. /\ ListType(k) /\ k.pooltail = q /\ SameLinks(b, k, On(u, p) \cup {q})
          /\ \E x : /\ Line(k, x, p + 1) /\ x[1] = Base /\ x[p + 1] = q
                    /\ On(x, p + 1) = On(u, p) \cup {q}
      <3>1. IsAppended(b, Tailed(b, u[p], q), u, p, q)
        BY <2>3, <2>4, <2>5, Appended
      <3>2. k = Tailed(b, u[p], q)
        BY <2>5 DEF k
      <3> QED
        BY <3>1, <3>2 DEF IsAppended
    <2>8. PICK x : /\ Line(k, x, n) /\ x[1] = Base /\ x[n] = q /\ On(x, n) = On(w, n)
      BY <2>4, <2>5, <2>7
    <2>9. SameLinks(l, k, On(w, n))
      BY <2>3, <2>4, <2>5, <2>7 DEF SameLinks
    <2>10. Line(k, v, count)
      BY <1>1, <2>9, Kept
    <2>11. Lists(k, free, x, n, v, count)
      BY <1>1, <2>2, <2>4, <2>7, <2>8, <2>10 DEF Lists
    <2>12. InLists(k, free, count, On(x, n), On(x, n) \cup On(v, count))
      BY <1>1, <2>11, TwoLists
    <2> QED
      BY <1>1, <2>6, <2>7, <2>8, <2>12
  <1> QED
    BY <1>2, <1>3

(* __mempool_move2header *)
LEMMA Move2HeaderLists ==
  ASSUME NEW l, ListType(l), NEW free, NEW count, NEW used, NEW all,
         InLists(l, free, count, used, all), NEW q \in used, NEW left
  PROVE  /\ ListType(Move2Header(l, q, left))
         /\ InLists(Move2Header(l, q, left), free, count, used, all)
  <1> DEFINE h == IF q = l.pooltail THEN [l EXCEPT !.pooltail = l.prev[q]] ELSE l
             b == Bypass(h, q)
             k == InsertFirst(b, q)
  <1>0. \/ Move2Header(l, q, left) = l
        \/ q # Base /\ q # l.next[Base] /\ Move2Header(l, q, left) = k
    BY DEF Move2Header
  <1>1. SUFFICES ASSUME q # Base, q # l.next[Base]
                 PROVE  ListType(k) /\ InLists(k, free, count, used, all)
    BY <1>0
  <1>a. PICK n \in Nat \ {0} : \E w, v : TwoLines(l, free, count, used, all, n, w, v)
    BY TheLists
  <1>2. PICK w, v :
            /\ count \in Nat /\ Line(l, w, n) /\ Line(l, v, count) /\ w[1] = Base
            /\ used = On(w, n) /\ all = used \cup On(v, count)
            /\ used \cap On(v, count) = {}
            /\ l.pooltail = IF n = 1 THEN NULL ELSE w[n]
            /\ free = IF count = 0 THEN NULL ELSE v[1]
    BY <1>a DEF TwoLines
  <1>3. PICK i \in 1 .. n : q = w[i]
    BY <1>2 DEF On
  <1>4. /\ i # 1 /\ l.next[w[1]] = (IF n = 1 THEN NULL ELSE w[2])
        /\ \A a, c \in 1 .. n : w[a] = w[c] => a = c
    BY <1>1, <1>2, <1>3 DEF Line
  <1>5. i # 2
    BY <1>1, <1>2, <1>3, <1>4
  <1>6. i \in 2 .. n /\ i \in 3 .. n /\ n # 1 /\ n # 2 /\ i - 1 \in 2 .. n
    BY <1>4, <1>5
  <1>7. l.prev[q] = w[i - 1]
    BY <1>2, <1>3, <1>6 DEF Line
  <1>8. w[i - 1] \in Pools
    BY <1>2, <1>6, LastIsPool
  <1>9. q \in Pools /\ q \in On(w, n)
    BY <1>2, <1>3, <1>6, LastIsPool
  <1>10. /\ ListType(h) /\ h.next = l.next /\ h.prev = l.prev
         /\ h.pooltail = IF i = n THEN w[n - 1] ELSE w[n]
    <2>1. q = l.pooltail <=> i = n
      BY <1>2, <1>3, <1>4, <1>6
    <2> QED
      BY <1>2, <1>6, <1>7, <1>8, <2>1 DEF ListType
  <1> HIDE DEF h, b, k
  <1>11. Line(h, w, n)
    BY <1>2, <1>10 DEF Line
  <1>12. /\ ListType(b) /\ b.pooltail = h.pooltail /\ SameLinks(h, b, On(w, n))
         /\ \E p \in Nat \ {0} : \E u :
               /\ n = p + 1 /\ Line(b, u, p) /\ u[1] = Base
               /\ u[p] = (IF i = n THEN w[n - 1] ELSE w[n])
               /\ On(u, p) = On(w, n) \ {q}
    <2>1. IsRemoved(h, Bypass(h, w[i]), w, n, i)
      BY <1>2, <1>6, <1>10, <1>11, Removed
    <2>2. b = Bypass(h, w[i])
      BY <1>3 DEF b
    <2> QED
      BY <1>3, <2>1, <2>2 DEF IsRemoved
  <1>b. PICK p \in Nat \ {0} : \E u :
               /\ n = p + 1 /\ Line(b, u, p) /\ u[1] = Base
               /\ u[p] = (IF i = n THEN w[n - 1] ELSE w[n])
               /\ On(u, p) = On(w, n) \ {q}
    BY <1>12
  <1>13. PICK u :
               /\ n = p + 1 /\ Line(b, u, p) /\ u[1] = Base
               /\ u[p] = (IF i = n THEN w[n - 1] ELSE w[n])
               /\ On(u, p) = On(w, n) \ {q}
    BY <1>b
  <1>14. q \in All \ On(u, p) /\ p # 1
    BY <1>6, <1>9, <1>13 DEF All
  <1>15. /\ ListType(k) /\ k.pooltail = b.pooltail /\ SameLinks(b, k, On(u, p) \cup {q})
         /\ \E x : /\ Line(k, x, p + 1) /\ x[1] = Base
                   /\ x[p + 1] = (IF p = 1 THEN q ELSE u[p])
                   /\ On(x, p + 1) = On(u, p) \cup {q}
    <2>1. IsInserted(b, InsertFirst(b, q), u, p, q)
      BY <1>12, <1>13, <1>14, Inserted
    <2> QED
      BY <2>1 DEF IsInserted, k
  <1>16. PICK x : Line(k, x, n) /\ x[1] = Base /\ x[n] = u[p] /\ On(x, n) = On(w, n)
    BY <1>9, <1>13, <1>14, <1>15
  <1>17. SameLinks(l, k, On(w, n))
    BY <1>9, <1>10, <1>12, <1>13, <1>15 DEF SameLinks
  <1>18. Line(k, v, count)
    BY <1>2, <1>17, Kept
  <1>19. k.pooltail = x[n]
    BY <1>10, <1>12, <1>13, <1>15, <1>16
  <1>20. Lists(k, free, x, n, v, count)
    BY <1>2, <1>6, <1>16, <1>18, <1>19 DEF Lists
  <1>21. InLists(k, free, count, On(x, n), On(x, n) \cup On(v, count))
    BY <1>2, <1>20, TwoLists
  <1> QED
    BY <1>2, <1>15, <1>16, <1>21

(* A pool leaves the list for good. *)
LEMMA UnlinkLists ==
  ASSUME NEW l, ListType(l), NEW free, NEW count, NEW used, NEW all,
         InLists(l, free, count, used, all), NEW q \in used, q # Base
  PROVE  /\ ListType(Unlink(l, q)) /\ q \in All
         /\ InLists(Unlink(l, q), free, count, used \ {q}, all \ {q})
  <1> DEFINE b == Bypass(l, q)
             k == Unlink(l, q)
             before == IF l.prev[q] = Base THEN NULL ELSE l.prev[q]
  <1>a. PICK n \in Nat \ {0} : \E w, v : TwoLines(l, free, count, used, all, n, w, v)
    BY TheLists
  <1>1. PICK w, v :
            /\ count \in Nat /\ Line(l, w, n) /\ Line(l, v, count) /\ w[1] = Base
            /\ used = On(w, n) /\ all = used \cup On(v, count)
            /\ used \cap On(v, count) = {}
            /\ l.pooltail = IF n = 1 THEN NULL ELSE w[n]
            /\ free = IF count = 0 THEN NULL ELSE v[1]
    BY <1>a DEF TwoLines
  <1>2. PICK i \in 1 .. n : q = w[i]
    BY <1>1 DEF On
  <1>3. i \in 2 .. n /\ i - 1 \in 1 .. n
    BY <1>1, <1>2
  <1>4. l.prev[q] = w[i - 1] /\ \A a, c \in 1 .. n : w[a] = w[c] => a = c
    BY <1>1, <1>2, <1>3 DEF Line
  <1>5. q \in Pools /\ q \in On(w, n) /\ q \in All
    BY <1>1, <1>2, <1>3, LastIsPool DEF All
  <1>6. /\ ListType(b) /\ b.pooltail = l.pooltail /\ SameLinks(l, b, On(w, n))
        /\ \E p \in Nat \ {0} : \E u :
               /\ n = p + 1 /\ Line(b, u, p) /\ u[1] = Base
               /\ u[p] = (IF i = n THEN w[n - 1] ELSE w[n])
               /\ On(u, p) = On(w, n) \ {q}
    <2>1. IsRemoved(l, Bypass(l, w[i]), w, n, i)
      BY <1>1, <1>3, Removed
    <2> QED
      BY <1>2, <2>1 DEF IsRemoved
  <1>b. PICK p \in Nat \ {0} : \E u :
               /\ n = p + 1 /\ Line(b, u, p) /\ u[1] = Base
               /\ u[p] = (IF i = n THEN w[n - 1] ELSE w[n])
               /\ On(u, p) = On(w, n) \ {q}
    BY <1>6
  <1>7. PICK u :
               /\ n = p + 1 /\ Line(b, u, p) /\ u[1] = Base
               /\ u[p] = (IF i = n THEN w[n - 1] ELSE w[n])
               /\ On(u, p) = On(w, n) \ {q}
    BY <1>b
  <1>8. before \in Pools \cup {NULL} /\ (i = n => before = IF p = 1 THEN NULL ELSE u[p])
    <2>1. w[i - 1] = Base <=> i = 2
      BY <1>1, <1>3, <1>4
    <2>2. i # 2 => w[i - 1] \in Pools
      <3>1. i # 2 => i - 1 \in 2 .. n
        BY <1>3
      <3> QED
        BY <1>1, <3>1, LastIsPool
    <2> QED
      BY <1>3, <1>4, <1>7, <2>1, <2>2
  <1>9. k = [b EXCEPT !.pooltail = IF q = b.pooltail THEN before ELSE b.pooltail]
    BY DEF Unlink
  <1>10. q = l.pooltail <=> i = n
    BY <1>1, <1>2, <1>3, <1>4
  <1> HIDE DEF b, k, before
  <1>11. /\ ListType(k) /\ k.next = b.next /\ k.prev = b.prev
         /\ k.pooltail = IF i = n THEN before ELSE l.pooltail
    BY <1>6, <1>8, <1>9, <1>10 DEF ListType
  <1>12. k.pooltail = IF p = 1 THEN NULL ELSE u[p]
    BY <1>1, <1>3, <1>7, <1>8, <1>11
  <1>13. Line(k, u, p)
    BY <1>7, <1>11 DEF Line
  <1>14. SameLinks(l, k, On(w, n))
    BY <1>6, <1>11 DEF SameLinks
  <1>15. Line(k, v, count)
    BY <1>1, <1>14, Kept
  <1>16. Lists(k, free, u, p, v, count)
    BY <1>1, <1>7, <1>12, <1>13, <1>15 DEF Lists
  <1>17. InLists(k, free, count, On(u, p), On(u, p) \cup On(v, count))
    BY <1>1, <1>16, TwoLists
  <1>18. On(u, p) = used \ {q} /\ On(u, p) \cup On(v, count) = all \ {q}
    BY <1>1, <1>5, <1>7
  <1> QED
    BY <1>5, <1>11, <1>17, <1>18 DEF k

(* A pool that is on no list is kept for reuse. *)
LEMMA PutLists ==
  ASSUME NEW l, ListType(l), NEW free, NEW count, NEW used, NEW all,
         InLists(l, free, count, used, all), NEW q \in All \ all
  PROVE  /\ ListType(Put(l, q, free)) /\ count + 1 \in Nat
         /\ InLists(Put(l, q, free), q, count + 1, used, all \cup {q})
  <1> DEFINE k == Put(l, q, free)
  <1>a. PICK n \in Nat \ {0} : \E w, v : TwoLines(l, free, count, used, all, n, w, v)
    BY TheLists
  <1>1. PICK w, v :
            /\ count \in Nat /\ Line(l, w, n) /\ Line(l, v, count) /\ w[1] = Base
            /\ used = On(w, n) /\ all = used \cup On(v, count)
            /\ used \cap On(v, count) = {}
            /\ l.pooltail = IF n = 1 THEN NULL ELSE w[n]
            /\ free = IF count = 0 THEN NULL ELSE v[1]
    BY <1>a DEF TwoLines
  <1>2. q \in All \ On(v, count)
    BY <1>1
  <1> DEFINE x == Before(v, count, q)
  <1>3. /\ ListType(k) /\ k.pooltail = l.pooltail /\ Line(k, x, count + 1)
        /\ \A y \in All \ (On(v, count) \cup {q}) : k.next[y] = l.next[y] /\ k.prev[y] = l.prev[y]
    <2>1. count \in Nat /\ Line(l, v, count) /\ free = (IF count = 0 THEN NULL ELSE v[1])
      BY <1>1
    <2> QED
      BY <1>2, <2>1, LineBefore
  <1>4. x[1] = q /\ On(x, count + 1) = On(v, count) \cup {q}
    <2>1. v \in [1 .. count -> All]
      BY <1>1 DEF Line
    <2> QED
      BY <1>1, <1>2, <2>1, BeforePlaces
  <1> HIDE DEF k, x
  <1>5. SameLinks(l, k, On(v, count) \cup {q})
    BY <1>3 DEF SameLinks
  <1>6. (On(v, count) \cup {q}) \cap On(w, n) = {} /\ n \in Nat
    BY <1>1
  <1>7. Line(k, w, n)
    BY <1>1, <1>5, <1>6, Kept
  <1>8. count + 1 \in Nat /\ count + 1 # 0
    BY <1>1
  <1>9. Lists(k, q, w, n, x, count + 1)
    BY <1>1, <1>3, <1>4, <1>6, <1>7, <1>8 DEF Lists
  <1>10. InLists(k, q, count + 1, On(w, n), On(w, n) \cup On(x, count + 1))
    BY <1>8, <1>9, TwoLists
  <1>11. On(w, n) \cup On(x, count + 1) = all \cup {q}
    BY <1>1, <1>4
  <1> QED
    BY <1>1, <1>3, <1>8, <1>10, <1>11 DEF k

(* The links of a pool that is on no list may be anything. *)
Cleared(l, q) == [l EXCEPT !.next[q] = NULL, !.prev[q] = NULL]

(* The lists are the same when the links of such a pool are cleared. *)
LEMMA ClearedLists ==
  ASSUME NEW l, ListType(l), NEW free, NEW count, NEW used, NEW all,
         InLists(l, free, count, used, all), NEW q \in All \ all
  PROVE  ListType(Cleared(l, q)) /\ InLists(Cleared(l, q), free, count, used, all)
  <1> DEFINE k == Cleared(l, q)
  <1>a. PICK n \in Nat \ {0} : \E w, v : TwoLines(l, free, count, used, all, n, w, v)
    BY TheLists
  <1>1. PICK w, v :
            /\ count \in Nat /\ Line(l, w, n) /\ Line(l, v, count) /\ w[1] = Base
            /\ used = On(w, n) /\ all = used \cup On(v, count)
            /\ used \cap On(v, count) = {}
            /\ l.pooltail = IF n = 1 THEN NULL ELSE w[n]
            /\ free = IF count = 0 THEN NULL ELSE v[1]
    BY <1>a DEF TwoLines
  <1>2. ListType(k) /\ k.pooltail = l.pooltail /\ SameLinks(l, k, {q})
    BY DEF ListType, SameLinks, Cleared
  <1>3. {q} \cap On(w, n) = {} /\ {q} \cap On(v, count) = {} /\ n \in Nat
    BY <1>1
  <1> HIDE DEF k
  <1>4. Line(k, w, n)
    BY <1>1, <1>2, <1>3, Kept
  <1>5. Line(k, v, count)
    BY <1>1, <1>2, <1>3, Kept
  <1>6. Lists(k, free, w, n, v, count)
    BY <1>1, <1>2, <1>4, <1>5 DEF Lists
  <1>7. InLists(k, free, count, On(w, n), On(w, n) \cup On(v, count))
    BY <1>1, <1>6, TwoLists
  <1> QED
    BY <1>1, <1>2, <1>7 DEF k

(* A further pool is linked behind the base pool. *)
Grown(l, q) == [InsertFirst(l, q) EXCEPT !.pooltail = IF @ = NULL THEN q ELSE @]

(* The lists with the pool palloc has added. *)
LEMMA GrownLists ==
  ASSUME NEW l, ListType(l), NEW free, NEW count, NEW used, NEW all,
         InLists(l, free, count, used, all), NEW q \in Pools \ all
  PROVE  /\ ListType(Grown(l, q))
         /\ InLists(Grown(l, q), free, count, used \cup {q}, all \cup {q})
  <1> DEFINE b == InsertFirst(l, q)
             k == Grown(l, q)
  <1>a. PICK n \in Nat \ {0} : \E w, v : TwoLines(l, free, count, used, all, n, w, v)
    BY TheLists
  <1>1. PICK w, v :
            /\ count \in Nat /\ Line(l, w, n) /\ Line(l, v, count) /\ w[1] = Base
            /\ used = On(w, n) /\ all = used \cup On(v, count)
            /\ used \cap On(v, count) = {}
            /\ l.pooltail = IF n = 1 THEN NULL ELSE w[n]
            /\ free = IF count = 0 THEN NULL ELSE v[1]
    BY <1>a DEF TwoLines
  <1>2. q \in All \ On(w, n)
    BY <1>1 DEF All
  <1>3. IsInserted(l, b, w, n, q)
    BY <1>1, <1>2, Inserted
  <1>4. k = [b EXCEPT !.pooltail = IF b.pooltail = NULL THEN q ELSE b.pooltail]
    BY DEF Grown
  <1> HIDE DEF b, k
  <1>5. /\ ListType(b) /\ b.pooltail = l.pooltail /\ SameLinks(l, b, On(w, n) \cup {q})
    BY <1>3 DEF IsInserted
  <1>6. PICK x : /\ Line(b, x, n + 1) /\ x[1] = Base
                 /\ x[n + 1] = (IF n = 1 THEN q ELSE w[n])
                 /\ On(x, n + 1) = On(w, n) \cup {q}
    BY <1>3 DEF IsInserted
  <1>7. w[n] # NULL
    BY <1>1, DistinctPools DEF Line, Distinct
  <1>8. /\ ListType(k) /\ k.next = b.next /\ k.prev = b.prev
        /\ k.pooltail = x[n + 1]
    BY <1>1, <1>4, <1>5, <1>6, <1>7 DEF ListType
  <1>9. Line(k, x, n + 1)
    BY <1>6, <1>8 DEF Line
  <1>10. SameLinks(l, k, On(w, n) \cup {q})
    BY <1>5, <1>8 DEF SameLinks
  <1>11. (On(w, n) \cup {q}) \cap On(v, count) = {}
    BY <1>1
  <1>12. Line(k, v, count)
    BY <1>1, <1>10, <1>11, Kept
  <1>13. n + 1 \in Nat \ {0} /\ n + 1 # 1
    OBVIOUS
  <1>14. On(x, n + 1) \cap On(v, count) = {}
    BY <1>6, <1>11
  <1>15. Lists(k, free, x, n + 1, v, count)
    BY <1>1, <1>6, <1>8, <1>9, <1>12, <1>13, <1>14 DEF Lists
  <1>16. InLists(k, free, count, On(x, n + 1), On(x, n + 1) \cup On(v, count))
    BY <1>1, <1>13, <1>15, TwoLists
  <1>17. On(x, n + 1) = used \cup {q} /\ On(x, n + 1) \cup On(v, count) = all \cup {q}
    BY <1>1, <1>6
  <1> QED
    BY <1>8, <1>16, <1>17 DEF k

(* The first of the pools kept for reuse is taken. *)
LEMMA TakenLists ==
  ASSUME NEW l, ListType(l), NEW free, NEW count, NEW used, NEW all,
         InLists(l, free, count, used, all), free # NULL
  PROVE  LET k == SetPrev(l, l.next[free], NULL) IN
         /\ free \in Pools /\ free \in all \ used /\ count \in Nat \ {0} /\ count - 1 \in Nat
         /\ l.next[free] \in Pools \cup {NULL}
         /\ ListType(k) /\ InLists(k, l.next[free], count - 1, used, all \ {free})
  <1> DEFINE k == SetPrev(l, l.next[free], NULL)
  <1>a. PICK n \in Nat \ {0} : \E w, v : TwoLines(l, free, count, used, all, n, w, v)
    BY TheLists
  <1>1. PICK w, v :
            /\ count \in Nat /\ Line(l, w, n) /\ Line(l, v, count) /\ w[1] = Base
            /\ used = On(w, n) /\ all = used \cup On(v, count)
            /\ used \cap On(v, count) = {}
            /\ l.pooltail = IF n = 1 THEN NULL ELSE w[n]
            /\ free = IF count = 0 THEN NULL ELSE v[1]
    BY <1>a DEF TwoLines
  <1>2. count \in Nat \ {0} /\ count - 1 \in Nat /\ free = v[1] /\ 1 \in 1 .. count
    BY <1>1
  <1>3. v \in [1 .. count -> All] /\ (\A a, b \in 1 .. count : v[a] = v[b] => a = b)
    BY <1>1 DEF Line
  <1>4. \A j \in 1 .. count : v[j] \in Pools /\ v[j] \in all \ used
    <2>1. \A j \in 1 .. count : v[j] \in On(v, count)
      BY DEF On
    <2>2. Base \in used
      BY <1>1 DEF On
    <2> QED
      BY <1>1, <1>3, <2>1, <2>2 DEF All
  <1> DEFINE u == Rest(v, count)
             p == count - 1
  <1>5. LET c == SetPrev(l, l.next[v[1]], NULL) IN
        /\ ListType(c) /\ c.pooltail = l.pooltail /\ c.next = l.next
        /\ Line(c, Rest(v, count), count - 1)
        /\ \A x \in All \ On(v, count) : c.prev[x] = l.prev[x]
    BY <1>1, <1>2, LineRest
  <1>6. /\ ListType(k) /\ k.pooltail = l.pooltail /\ k.next = l.next
        /\ Line(k, u, p) /\ SameLinks(l, k, On(v, count))
    BY <1>2, <1>5 DEF SameLinks
  <1>7. On(u, p) = On(v, count) \ {free}
    BY <1>2, <1>3, RestPlaces
  <1>8. l.next[free] = (IF p = 0 THEN NULL ELSE u[1]) /\ l.next[free] \in Pools \cup {NULL}
    <2>1. l.next[v[1]] = IF count = 1 THEN NULL ELSE v[2]
      BY <1>1, <1>2 DEF Line
    <2>2. count # 1 => u[1] = v[2] /\ 2 \in 1 .. count
      BY <1>2 DEF Rest
    <2> QED
      BY <1>2, <1>4, <2>1, <2>2
  <1> HIDE DEF k, u, p
  <1>9. On(v, count) \cap On(w, n) = {} /\ n \in Nat
    BY <1>1
  <1>10. Line(k, w, n)
    BY <1>1, <1>6, <1>9, Kept
  <1>11. p \in Nat
    BY <1>2 DEF p
  <1>12. Lists(k, l.next[free], w, n, u, p)
    BY <1>1, <1>6, <1>7, <1>8, <1>9, <1>10 DEF Lists
  <1>13. InLists(k, l.next[free], p, On(w, n), On(w, n) \cup On(u, p))
    BY <1>11, <1>12, TwoLists
  <1>14. On(w, n) \cup On(u, p) = all \ {free}
    BY <1>1, <1>2, <1>4, <1>7
  <1> QED
    BY <1>1, <1>2, <1>4, <1>6, <1>8, <1>13, <1>14 DEF k, p

-----------------------------------------------------------------------------
(* Walks *)

(* There are finitely many pools. *)
LEMMA FinitePools == IsFiniteSet(All) /\ Cardinality(All) \in Nat
  BY MemPoolAssumption, FS_AddElement, FS_CardinalityType DEF All

(* A line has as many pools as places. *)
LEMMA LineLength ==
  ASSUME NEW l, NEW n \in Nat, NEW w, Line(l, w, n)
  PROVE  /\ Cardinality(On(w, n)) = n /\ IsFiniteSet(On(w, n)) /\ On(w, n) \subseteq All
         /\ n <= Cardinality(All)
  <1>1. w \in Bijection(1 .. n, On(w, n))
    BY DEF Line, On, Bijection, Injection, Surjection, IsInjective
  <1>2. ExistsBijection(1 .. n, On(w, n))
    BY <1>1 DEF ExistsBijection
  <1>3. Cardinality(On(w, n)) = n
    BY <1>2, FS_CountingElements
  <1>4. On(w, n) \subseteq All
    BY DEF On, Line
  <1> QED
    BY <1>3, <1>4, FinitePools, FS_Subset

(* The walk along a line gives the line. *)
LEMMA WalkIs ==
  ASSUME NEW n \in Nat, NEW w, Line(list, w, n), NEW q, q = IF n = 0 THEN NULL ELSE w[1]
  PROVE  Walk(q) = w
  <1> DEFINE N == Cardinality(All) + 1
             Next1(f, i) == IF i = 1 THEN q ELSE IF f[i - 1] = NULL THEN NULL ELSE list.next[f[i - 1]]
             Eq(f) == f = [i \in 1 .. N |-> Next1(f, i)]
             f0 == [i \in 1 .. N |-> IF i <= n THEN w[i] ELSE NULL]
  <1>1. Walk(q) = [i \in 1 .. Cardinality({j \in 1 .. N : (CHOOSE f : Eq(f))[j] # NULL}) |->
                      (CHOOSE f : Eq(f))[i]]
    BY DEF Walk
  <1>2. N \in Nat /\ n < N
    BY FinitePools, LineLength
  <1>3. /\ w \in [1 .. n -> All]
        /\ \A i \in 1 .. n : w[i] # NULL /\ list.next[w[i]] = IF i = n THEN NULL ELSE w[i + 1]
    BY DistinctPools DEF Line, Distinct
  <1> HIDE DEF N
  <1>4. \A i \in 1 .. N : f0[i] = Next1(f0, i)
    <2> SUFFICES ASSUME NEW i \in 1 .. N PROVE f0[i] = Next1(f0, i)
      OBVIOUS
    <2>1. CASE i = 1
      BY <1>2, <2>1
    <2>2. CASE i # 1
      <3>1. i - 1 \in 1 .. N /\ f0[i - 1] = (IF i - 1 <= n THEN w[i - 1] ELSE NULL)
        BY <1>2, <2>2
      <3>2. CASE i - 1 <= n
        <4>1. i - 1 \in 1 .. n
          BY <3>1, <3>2
        <4>2. f0[i - 1] = w[i - 1] /\ w[i - 1] # NULL
              /\ list.next[w[i - 1]] = IF i - 1 = n THEN NULL ELSE w[(i - 1) + 1]
          BY <1>3, <3>1, <3>2, <4>1
        <4>3. (i - 1) + 1 = i /\ (i - 1 = n <=> ~ (i <= n))
          BY <4>1
        <4> QED
          BY <2>2, <4>2, <4>3
      <3>3. CASE ~ (i - 1 <= n)
        <4>1. f0[i - 1] = NULL /\ ~ (i <= n)
          BY <3>1, <3>3
        <4> QED
          BY <2>2, <4>1
      <3> QED
        BY <3>2, <3>3
    <2> QED
      BY <2>1, <2>2
  <1>5. Eq(f0)
    BY <1>4
  <1> HIDE DEF f0
  <1>6. ASSUME NEW f, Eq(f) PROVE f = f0
    <2> DEFINE P == {i \in Nat : i \in 1 .. N => f[i] = f0[i]}
    <2>1. 0 \in P
      BY <1>2
    <2>2. ASSUME NEW i \in Nat, i \in P PROVE i + 1 \in P
      <3>1. SUFFICES ASSUME i + 1 \in 1 .. N PROVE f[i + 1] = f0[i + 1]
        OBVIOUS
      <3>2. f[i + 1] = Next1(f, i + 1) /\ f0[i + 1] = Next1(f0, i + 1)
        BY <1>4, <1>6, <3>1
      <3>3. i + 1 # 1 => f[(i + 1) - 1] = f0[(i + 1) - 1]
        BY <1>2, <2>2, <3>1
      <3> QED
        BY <3>2, <3>3
    <2> HIDE DEF P
    <2>3. \A i \in Nat : i \in P
      BY <2>1, <2>2, EveryNatural
    <2>4. \A i \in 1 .. N : f[i] = f0[i]
      BY <1>2, <2>3 DEF P
    <2>5. f = [i \in 1 .. N |-> f[i]] /\ f0 = [i \in 1 .. N |-> f0[i]]
      BY <1>5, <1>6
    <2> QED
      BY <2>4, <2>5
  <1> HIDE DEF Eq
  <1>7. (CHOOSE f : Eq(f)) = f0
    BY <1>5, <1>6
  <1>8. {j \in 1 .. N : f0[j] # NULL} = 1 .. n
    BY <1>2, <1>3 DEF f0
  <1>9. Cardinality(1 .. n) = n
    BY FS_Interval
  <1>10. Walk(q) = [i \in 1 .. n |-> f0[i]]
    BY <1>1, <1>7, <1>8, <1>9
  <1>11. \A i \in 1 .. n : f0[i] = w[i]
    BY <1>2 DEF f0
  <1> QED
    BY <1>3, <1>10, <1>11

-----------------------------------------------------------------------------
(* Sizes *)

(* The configured sizes are natural numbers, and a pool has room for a header. *)
LEMMA Sizes ==
  /\ PoolSize \in Nat \ {0} /\ Area \in Nat \ {0} /\ Header \in Nat \ {0} /\ Header <= Area
  /\ LargeHeader \in Nat \ {0} /\ Align \in Nat \ {0} /\ MaxMem \in Nat /\ SingleMax \in Nat
  /\ MaxFree \in Nat /\ FailedSkip \in Nat /\ PoolSize <= MaxMem /\ PoolSize \in Int
  <1>1. Area \in Nat /\ PoolHeader \in Nat \ {0} /\ Header \in Nat \ {0} /\ Area >= Header
    BY MemPoolAssumption
  <1> QED
    BY <1>1, MemPoolAssumption DEF Area

(* Quotients *)
LEMMA Quotient ==
  ASSUME NEW a \in Nat, NEW d \in Nat \ {0}
  PROVE  /\ a \div d \in Nat
         /\ \A c \in Nat : d * c <= a => c <= a \div d
  <1>1. /\ a \div d \in Int /\ a % d \in 0 .. d - 1 /\ a = d * (a \div d) + (a % d)
    BY Z3
  <1> DEFINE e == a \div d
             r == a % d
  <1>2. e \in Int /\ r \in 0 .. d - 1 /\ a = d * e + r
    BY <1>1
  <1> HIDE DEF e, r
  <1>3. e >= 0
    <2>1. SUFFICES ASSUME e <= -1 PROVE FALSE
      BY <1>2
    <2>2. d * e <= d * (-1)
      BY <1>2, <2>1
    <2> QED
      BY <1>2, <2>2
  <1>4. ASSUME NEW c \in Nat, d * c <= a PROVE c <= e
    <2>1. SUFFICES ASSUME c >= e + 1 PROVE FALSE
      BY <1>2
    <2>2. d * c >= d * (e + 1) /\ d * (e + 1) = d * e + d
      BY <1>2, <2>1
    <2> QED
      BY <1>2, <1>4, <2>2
  <1> QED
    BY <1>2, <1>3, <1>4 DEF e

(* Quotients grow with the dividend. *)
LEMMA QuotientGrows ==
  ASSUME NEW a \in Nat, NEW b \in Nat, a <= b, NEW d \in Nat \ {0}
  PROVE  a \div d <= b \div d
  <1>1. a \div d \in Nat /\ d * (a \div d) <= a
    <2>1. /\ a % d \in 0 .. d - 1 /\ a = d * (a \div d) + (a % d)
      BY Z3
    <2>2. a \div d \in Nat
      BY Quotient
    <2> QED
      BY <2>1, <2>2
  <1>2. d * (a \div d) <= b
    <2> DEFINE e == d * (a \div d)
    <2>1. e \in Int
      BY <1>1
    <2> HIDE DEF e
    <2> QED
      BY <1>1, <2>1 DEF e
  <1> QED
    BY <1>1, <1>2, Quotient

(* The size of a large block is positive and grows with the request. *)
LEMMA LargeSizeGrows ==
  ASSUME NEW n \in Nat
  PROVE  /\ LargeSize(n) \in Nat \ {0}
         /\ \A k \in Nat : n <= k => LargeSize(n) <= LargeSize(k)
  <1> DEFINE Q(x) == (x + LargeHeader + Align - 1) \div Align
  <1>1. \A x \in Nat : x + LargeHeader + Align - 1 \in Nat /\ Align * 1 <= x + LargeHeader + Align - 1
    BY Sizes
  <1>2. \A x \in Nat : Q(x) \in Nat /\ 1 <= Q(x)
    BY <1>1, Sizes, Quotient
  <1>3. \A k \in Nat : n <= k => Q(n) <= Q(k)
    <2> SUFFICES ASSUME NEW k \in Nat, n <= k PROVE Q(n) <= Q(k)
      OBVIOUS
    <2>1. n + LargeHeader + Align - 1 <= k + LargeHeader + Align - 1
      BY Sizes
    <2> QED
      BY <1>1, <2>1, Sizes, QuotientGrows
  <1>4. \A x \in Nat : LargeSize(x) = Q(x) * Align
    BY DEF LargeSize
  <1> HIDE DEF Q
  <1>5. \A e, f \in Nat : e <= f => e * Align <= f * Align
    BY Sizes
  <1>6. \A e \in Nat : 1 <= e => e * Align \in Nat \ {0}
    BY Sizes
  <1> QED
    BY <1>2, <1>3, <1>4, <1>5, <1>6

(* There are finitely many sizes of blocks. *)
LEMMA FiniteSizes ==
  /\ IsFiniteSet(BlockSizes) /\ BlockSizes \subseteq Nat
  /\ IsFiniteSet(LargeSizes) /\ LargeSizes \subseteq Nat
  <1>1. IsFiniteSet(BlockSizes) /\ BlockSizes \subseteq Nat
    BY Sizes, FS_Interval DEF BlockSizes
  <1>2. Requests \subseteq Nat /\ IsFiniteSet(Requests)
    BY MemPoolAssumption
  <1> DEFINE f == [n \in Requests |-> LargeSize(n)]
  <1>3. f \in Surjection(Requests, LargeSizes)
    BY DEF LargeSizes, Surjection
  <1>4. IsFiniteSet(LargeSizes)
    BY <1>2, <1>3, FS_Surjection
  <1>5. LargeSizes \subseteq Nat
    BY <1>2, LargeSizeGrows DEF LargeSizes
  <1> QED
    BY <1>1, <1>4, <1>5

(* The table of pools has room for as many as fit into max_memsize. *)
LEMMA TableRoom == TableSize \in Nat /\ MaxMem \div PoolSize + 1 <= TableSize
  <1> DEFINE n == MaxMem \div PoolSize
             D(f, i) == IF i = 0 THEN 1 ELSE 2 * f[i - 1]
             Eq(f) == f = [i \in 0 .. n |-> D(f, i)]
             g == CHOOSE f : Eq(f)
  <1>1. TableSize = Min({d \in Range(g) : d >= n + 1})
    BY DEF TableSize
  <1>2. n \in Nat
    BY Sizes, Quotient
  <1> HIDE DEF n
  <1>3. \E f : Eq(f)
    <2> DEFINE Upto(k, f) == \A i \in 0 .. n : i <= k => f[i] = D(f, i)
               P == {k \in Nat : \E f : Upto(k, f)}
    <2>1. 0 \in P
      <3> DEFINE f == [i \in 0 .. n |-> 1]
      <3>1. \A i \in 0 .. n : i <= 0 => i = 0
        BY <1>2
      <3>2. Upto(0, f)
        BY <3>1
      <3> HIDE DEF f, Upto
      <3> QED
        BY <3>2
    <2>2. ASSUME NEW k \in Nat, k \in P PROVE k + 1 \in P
      <3>1. PICK f : Upto(k, f)
        BY <2>2
      <3> DEFINE h == [i \in 0 .. n |-> D(f, i)]
      <3>2. ASSUME NEW i \in 0 .. n, i <= k + 1 PROVE h[i] = D(h, i)
        <4>1. CASE i = 0
          BY <4>1
        <4>2. CASE i # 0
          <5>1. i - 1 \in 0 .. n /\ i - 1 <= k
            BY <1>2, <3>2, <4>2
          <5>2. f[i - 1] = D(f, i - 1) /\ h[i - 1] = D(f, i - 1)
            BY <3>1, <5>1
          <5>3. h[i] = D(f, i)
            OBVIOUS
          <5> HIDE DEF h
          <5> QED
            BY <4>2, <5>2, <5>3
        <4> QED
          BY <4>1, <4>2
      <3>3. Upto(k + 1, h)
        BY <3>2
      <3> HIDE DEF h, Upto
      <3> QED
        BY <3>3
    <2>3. n \in P
      <3> HIDE DEF P
      <3> QED
        BY <1>2, <2>1, <2>2, EveryNatural
    <2>4. PICK f : Upto(n, f)
      BY <2>3
    <2>5. \A i \in 0 .. n : f[i] = D(f, i)
      BY <1>2, <2>4
    <2> DEFINE h == [i \in 0 .. n |-> f[i]]
    <2>6. \A i \in 0 .. n : i # 0 => i - 1 \in 0 .. n
      BY <1>2
    <2>7. \A i \in 0 .. n : D(h, i) = D(f, i)
      BY <2>6
    <2>8. h = [i \in 0 .. n |-> D(h, i)]
      BY <2>5, <2>7
    <2> QED
      BY <2>8
  <1>4. Eq(g)
    BY <1>3
  <1> HIDE DEF g
  <1>5. \A i \in 0 .. n : g[i] = D(g, i)
    BY <1>4
  <1>6. \A i \in Nat : i \in 0 .. n => g[i] \in Nat /\ g[i] >= i + 1
    <2> DEFINE P == {i \in Nat : i \in 0 .. n => g[i] \in Nat /\ g[i] >= i + 1}
    <2>1. 0 \in P
      BY <1>5
    <2>2. ASSUME NEW i \in Nat, i \in P PROVE i + 1 \in P
      <3>1. i + 1 \in 0 .. n => i \in 0 .. n /\ g[i + 1] = 2 * g[i]
        BY <1>2, <1>5
      <3> QED
        BY <2>2, <3>1
    <2> HIDE DEF P
    <2>3. \A i \in Nat : i \in P
      BY <2>1, <2>2, EveryNatural
    <2> QED
      BY <2>3 DEF P
  <1> DEFINE S == {d \in Range(g) : d >= n + 1}
  <1>7. DOMAIN g = 0 .. n
    BY <1>4
  <1>8. S \in SUBSET Nat
    BY <1>2, <1>6, <1>7 DEF Range
  <1>9. g[n] \in S
    BY <1>2, <1>6, <1>7 DEF Range
  <1>10. \A d \in S : n + 1 <= d
    BY <1>8, <1>2
  <1> HIDE DEF S
  <1>11. \E d \in S : \A e \in S : d <= e
    BY <1>8, <1>9, LeastNatural
  <1>12. Min(S) \in S
    BY <1>11 DEF Min
  <1>13. TableSize \in S
    BY <1>1, <1>12 DEF S
  <1> QED
    BY <1>8, <1>10, <1>13 DEF n

-----------------------------------------------------------------------------
(* Bytes in blocks: b[s] of each size s of S. *)

Bytes(b, S) == SumFunction([s \in S |-> s * b[s]])

(* One block more or less changes the bytes by its size. *)
LEMMA BytesFacts ==
  ASSUME NEW S \in SUBSET Nat, IsFiniteSet(S), NEW b \in [S -> Nat]
  PROVE  /\ Bytes(b, S) \in Nat
         /\ \A t \in S : b[t] > 0 => t <= Bytes(b, S)
         /\ \A t \in S : Bytes([b EXCEPT ![t] = @ + 1], S) = Bytes(b, S) + t
         /\ \A t \in S : b[t] > 0 => Bytes([b EXCEPT ![t] = @ - 1], S) = Bytes(b, S) - t
         /\ (\A t \in S : b[t] = 0) => Bytes(b, S) = 0
  <1> DEFINE F(c) == [s \in S |-> s * c[s]]
  <1>1. \A c : Bytes(c, S) = SumFunctionOnSet(F(c), S)
    BY DEF Bytes, SumFunction
  <1>2. \A s, x \in Nat : s * x \in Nat
    OBVIOUS
  <1>3. \A t \in S : F(b)[t] = t * b[t] /\ F(b)[t] \in Nat
    BY <1>2
  <1>4. Bytes(b, S) \in Nat
    <2> HIDE DEF F
    <2> QED
      BY <1>1, <1>3, SumType
  <1>5. ASSUME NEW t \in S, b[t] > 0 PROVE t <= Bytes(b, S)
    <2>1. F(b)[t] <= SumFunctionOnSet(F(b), S)
      <3> HIDE DEF F
      <3> QED
        BY <1>3, SumBound
    <2>2. t <= t * b[t]
      BY <1>5
    <2>3. t * b[t] \in Nat /\ Bytes(b, S) \in Nat /\ t \in Nat
      BY <1>3, <1>4
    <2>4. t * b[t] <= Bytes(b, S)
      BY <1>1, <1>3, <2>1
    <2> DEFINE y == t * b[t]
    <2> HIDE DEF y
    <2> QED
      BY <2>2, <2>3, <2>4 DEF y
  <1>6. ASSUME NEW t \in S, NEW c \in [S -> Nat], \A s \in S \ {t} : c[s] = b[s]
        PROVE  Bytes(c, S) = (Bytes(b, S) - t * b[t]) + t * c[t]
    <2>1. /\ \A s \in S : F(b)[s] \in Int /\ F(c)[s] \in Int
          /\ \A s \in S \ {t} : F(b)[s] = F(c)[s]
          /\ F(b)[t] = t * b[t] /\ F(c)[t] = t * c[t]
      BY <1>2, <1>6
    <2> DEFINE f == F(b)
               g == F(c)
    <2>2. SameBut(f, g, S, t)
      BY <2>1 DEF SameBut
    <2>3. f[t] = t * b[t] /\ g[t] = t * c[t]
      BY <2>1
    <2>4. Bytes(b, S) = SumFunctionOnSet(f, S) /\ Bytes(c, S) = SumFunctionOnSet(g, S)
      BY <1>1
    <2> HIDE DEF f, g
    <2>5. SumFunctionOnSet(g, S) = (SumFunctionOnSet(f, S) - f[t]) + g[t]
      BY <2>2, SumChange
    <2> QED
      BY <2>3, <2>4, <2>5
  <1>7. ASSUME NEW t \in S PROVE Bytes([b EXCEPT ![t] = @ + 1], S) = Bytes(b, S) + t
    <2> DEFINE c == [b EXCEPT ![t] = @ + 1]
    <2>1. c \in [S -> Nat] /\ c[t] = b[t] + 1 /\ \A s \in S \ {t} : c[s] = b[s]
      OBVIOUS
    <2> HIDE DEF c
    <2>2. Bytes(c, S) = (Bytes(b, S) - t * b[t]) + t * (b[t] + 1)
      BY <1>6, <2>1
    <2>3. t * (b[t] + 1) = t * b[t] + t /\ t * b[t] \in Nat /\ t \in Nat
      BY <1>2
    <2> DEFINE y == t * b[t]
    <2> HIDE DEF y
    <2> QED
      BY <1>4, <2>2, <2>3 DEF y, c
  <1>8. ASSUME NEW t \in S, b[t] > 0
        PROVE  Bytes([b EXCEPT ![t] = @ - 1], S) = Bytes(b, S) - t
    <2> DEFINE c == [b EXCEPT ![t] = @ - 1]
    <2>1. c \in [S -> Nat] /\ c[t] = b[t] - 1 /\ \A s \in S \ {t} : c[s] = b[s]
      BY <1>8
    <2> HIDE DEF c
    <2>2. Bytes(c, S) = (Bytes(b, S) - t * b[t]) + t * (b[t] - 1)
      BY <1>6, <2>1
    <2>3. t * (b[t] - 1) = t * b[t] - t /\ t * b[t] \in Nat /\ t \in Nat
      BY <1>2
    <2> DEFINE y == t * b[t]
    <2> HIDE DEF y
    <2> QED
      BY <1>4, <2>2, <2>3 DEF y, c
  <1>9. ASSUME \A t \in S : b[t] = 0 PROVE Bytes(b, S) = 0
    <2>1. \A t \in S : F(b)[t] = 0
      BY <1>9
    <2> HIDE DEF F
    <2> QED
      BY <1>1, <2>1, SumZero
  <1> QED
    BY <1>4, <1>5, <1>7, <1>8, <1>9

-----------------------------------------------------------------------------
(***************************************************************************)
(* The inductive invariant.  Lines in place of walks; the blocks of each   *)
(* pool fill what is not left; the pool palloc stands on is in the list.   *)
(***************************************************************************)
Pooled == spc # "destroyed" => InLists(list, freepool, pfree_count, ht, heap)

Unused == \A q \in All \ ht : \A s \in BlockSizes : busy[q][s] = 0
Filled == \A q \in ht : leftsize[q] + Bytes(busy[q], BlockSizes) = Area

Totals ==
    /\ total_leftsize = SumFunctionOnSet(leftsize, ht)
    /\ spc # "destroyed" =>
          total_alloced = PoolSize * (Cardinality(ht) - 1) + Bytes(larges, LargeSizes)

Limits ==
    /\ PoolSize * Cardinality(ht) <= MaxMem
    /\ total_alloced + PoolSize < MaxMem + LargeSize(SingleMax)

Locals ==
    /\ spc \in {"search", "retry", "grow"} => req \in 1 .. Area
    /\ spc \in {"search", "retry"} => tmp \in ht \cup {NULL}
    /\ spc = "retry" => tmp # NULL

IInv ==
    /\ TypeOK /\ Pooled /\ Unused /\ Filled /\ Totals /\ Limits /\ Locals
    /\ DestroyFreesAll

(* The list goes on within the list. *)
LEMMA NextInUse ==
  ASSUME NEW l, NEW free, NEW count, NEW used, NEW all, InLists(l, free, count, used, all),
         NEW q \in used
  PROVE  l.next[q] \in used \cup {NULL}
  <1>a. PICK n \in Nat \ {0} : \E w, v : TwoLines(l, free, count, used, all, n, w, v)
    BY TheLists
  <1>1. PICK w, v :
 Line(l, w, n) /\ used = On(w, n)
    BY <1>a DEF TwoLines
  <1>2. PICK i \in 1 .. n : q = w[i]
    BY <1>1 DEF On
  <1>3. l.next[q] = IF i = n THEN NULL ELSE w[i + 1]
    BY <1>1, <1>2 DEF Line
  <1>4. i # n => i + 1 \in 1 .. n
    OBVIOUS
  <1> QED
    BY <1>1, <1>3, <1>4 DEF On

(* The base pool is in use, and the pools in use are some of malloc's. *)
LEMMA BaseInUse ==
  ASSUME NEW l, NEW free, NEW count, NEW used, NEW all, InLists(l, free, count, used, all)
  PROVE  Base \in used /\ used \subseteq All /\ all \subseteq All /\ used \subseteq all
  <1>a. PICK n \in Nat \ {0} : \E w, v : TwoLines(l, free, count, used, all, n, w, v)
    BY TheLists
  <1>1. PICK w, v :
            /\ count \in Nat /\ Line(l, w, n) /\ Line(l, v, count) /\ w[1] = Base
            /\ used = On(w, n) /\ all = used \cup On(v, count)
    BY <1>a DEF TwoLines
  <1>2. 1 \in 1 .. n
    OBVIOUS
  <1> QED
    BY <1>1, <1>2 DEF On, Line

(* The hash table holds finitely many pools. *)
LEMMA HtFinite ==
  ASSUME TypeOK
  PROVE  IsFiniteSet(ht) /\ Cardinality(ht) \in Nat /\ \A q \in ht : leftsize[q] \in Nat /\ q \in All
  <1>1. ht \in SUBSET All
    BY DEF TypeOK
  <1>2. IsFiniteSet(ht) /\ Cardinality(ht) \in Nat
    BY <1>1, FinitePools, FS_Subset, FS_CardinalityType
  <1>3. \A q \in ht : leftsize[q] \in Nat
    BY <1>1, Sizes DEF TypeOK
  <1> QED
    BY <1>1, <1>2, <1>3

(* Steps that change only the locals of palloc. *)
LEMMA LocalStep ==
  ASSUME IInv, UNCHANGED <<poolVars, fillVars, larges, totals>>, spc # "destroyed",
         spc' \in {"idle", "search", "retry", "grow", "crashed"}, tmp' \in All \cup {NULL},
         Locals'
  PROVE  IInv'
  <1>1. TypeOK'
    BY DEF IInv, TypeOK, poolVars, fillVars, totals
  <1>2. Pooled' /\ DestroyFreesAll'
    BY DEF IInv, Pooled, DestroyFreesAll, poolVars
  <1>3. Unused' /\ Filled'
    BY DEF IInv, Unused, Filled, poolVars, fillVars
  <1>4. Totals' /\ Limits'
    BY DEF IInv, Totals, Limits, poolVars, fillVars, totals
  <1> QED
    BY <1>1, <1>2, <1>3, <1>4 DEF IInv

(* The search begins at the base pool or behind it. *)
LEMMA PallocStep ==
  ASSUME IInv, NEW n \in Requests, Palloc(n)
  PROVE  IInv'
  <1>1. /\ spc = "idle" /\ n > 0 /\ n <= Area - Header /\ n \in Nat
        /\ spc' = "search" /\ req' = n + Header
        /\ tmp' = (IF leftsize[Base] > n + Header THEN Base ELSE list.next[Base])
        /\ UNCHANGED <<poolVars, fillVars, larges, totals>>
    BY MemPoolAssumption DEF Palloc, Accepted
  <1>2. InLists(list, freepool, pfree_count, ht, heap)
    BY <1>1 DEF IInv, Pooled
  <1>3. Base \in ht /\ list.next[Base] \in ht \cup {NULL} /\ ht \subseteq All
    BY <1>2, BaseInUse, NextInUse
  <1>4. tmp' \in ht \cup {NULL} /\ ht' = ht
    BY <1>1, <1>3 DEF poolVars
  <1>5. req' \in 1 .. Area
    BY <1>1, Sizes
  <1>6. Locals'
    BY <1>1, <1>4, <1>5 DEF Locals
  <1> QED
    BY <1>1, <1>3, <1>4, <1>6, LocalStep

(* The search ends with the list. *)
LEMMA SearchEndStep ==
  ASSUME IInv, SearchEnd
  PROVE  IInv'
  <1>1. Locals'
    BY DEF SearchEnd, IInv, Locals
  <1> QED
    BY <1>1, LocalStep DEF SearchEnd, IInv, TypeOK

(* The search goes on behind the pool it stopped at. *)
LEMMA RetryStep ==
  ASSUME IInv, Retry
  PROVE  IInv'
  <1>1. /\ spc = "retry" /\ UNCHANGED <<poolVars, fillVars, larges, totals, req>>
        /\ \/ spc' = "search" /\ tmp' = list.next[tmp]
           \/ spc' = "grow" /\ tmp' = tmp
    BY DEF Retry
  <1>2. InLists(list, freepool, pfree_count, ht, heap) /\ tmp \in ht /\ req \in 1 .. Area
    BY <1>1 DEF IInv, Pooled, Locals
  <1>3. list.next[tmp] \in ht \cup {NULL} /\ ht \subseteq All /\ ht' = ht
    BY <1>1, <1>2, BaseInUse, NextInUse DEF poolVars
  <1>4. Locals' /\ tmp' \in All \cup {NULL}
    BY <1>1, <1>2, <1>3 DEF Locals
  <1> QED
    BY <1>1, <1>4, LocalStep

(* palloc answers NULL at the limit. *)
LEMMA GrowRefusedStep ==
  ASSUME IInv, GrowRefused
  PROVE  IInv'
  <1>1. Locals'
    BY DEF GrowRefused, Locals
  <1> QED
    BY <1>1, LocalStep DEF GrowRefused

(* malloc fails. *)
LEMMA GrowCrashStep ==
  ASSUME IInv, GrowCrash
  PROVE  IInv'
  <1>1. Locals'
    BY DEF GrowCrash, Locals
  <1> QED
    BY <1>1, LocalStep DEF GrowCrash, IInv, TypeOK

(***************************************************************************)
(* The invariant says what PoolsOK and LimitRespected say.                 *)
(***************************************************************************)
LEMMA LinkedLine ==
  ASSUME NEW n \in Nat, NEW w, Line(list, w, n)
  PROVE  Len(w) = n /\ Range(w) = On(w, n) /\ Linked(w)
  <1>1. w \in [1 .. n -> All] /\ DOMAIN w = 1 .. n
    BY DEF Line
  <1>2. Len(w) = n
    BY <1>1
  <1>3. Range(w) = On(w, n)
    BY <1>1 DEF Range, On
  <1>4. Linked(w)
    BY <1>2 DEF Line, Linked
  <1> QED
    BY <1>2, <1>3, <1>4

(* Of PoolsOK: the lists. *)
LEMMA ListsLinked ==
  ASSUME IInv
  PROVE  PoolsLinked
  <1>1. SUFFICES ASSUME spc # "destroyed"
                 PROVE  LET used == Walk(Base)
                            kept == Walk(freepool)
                        IN  /\ Range(used) = ht /\ Cardinality(ht) = Len(used)
                            /\ Linked(used) /\ Linked(kept)
                            /\ list.pooltail = IF Len(used) = 1 THEN NULL ELSE used[Len(used)]
                            /\ pfree_count = Len(kept)
                            /\ ht \cap Range(kept) = {}
                            /\ heap = ht \cup Range(kept)
                            /\ \A q \in All \ ht : ~ HasBusy(q)
    BY DEF PoolsLinked
  <1>2. InLists(list, freepool, pfree_count, ht, heap)
    BY <1>1 DEF IInv, Pooled
  <1>a. PICK n \in Nat \ {0} : \E w, v : TwoLines(list, freepool, pfree_count, ht, heap, n, w, v)
    BY <1>2, TheLists
  <1>3. PICK w, v : TwoLines(list, freepool, pfree_count, ht, heap, n, w, v)
    BY <1>a
  <1>4. /\ pfree_count \in Nat /\ Line(list, w, n) /\ Line(list, v, pfree_count)
        /\ Base = (IF n = 0 THEN NULL ELSE w[1])
        /\ freepool = (IF pfree_count = 0 THEN NULL ELSE v[1])
    BY <1>3 DEF TwoLines
  <1>5. Walk(Base) = w /\ Walk(freepool) = v
    BY <1>4, WalkIs
  <1>6. /\ Len(w) = n /\ Range(w) = On(w, n) /\ Linked(w)
        /\ Len(v) = pfree_count /\ Range(v) = On(v, pfree_count) /\ Linked(v)
    BY <1>4, LinkedLine
  <1>7. Cardinality(On(w, n)) = n
    BY <1>4, LineLength
  <1>8. \A q \in All \ ht : ~ HasBusy(q)
    BY DEF IInv, Unused, HasBusy
  <1> QED
    BY <1>3, <1>5, <1>6, <1>7, <1>8 DEF TwoLines

(* All of PoolsOK and LimitRespected; the table is large enough by the limit. *)
LEMMA InvariantImplies ==
  ASSUME IInv
  PROVE  PoolsOK /\ LimitRespected
  <1>1. TotalsExact
    BY DEF IInv, Totals, Filled, TotalsExact, Bytes
  <1>2. PoolsOK
    BY <1>1, ListsLinked DEF IInv, PoolsOK
  <1>3. /\ Cardinality(ht) \in Nat /\ PoolSize * Cardinality(ht) <= MaxMem
        /\ total_alloced + PoolSize < MaxMem + LargeSize(SingleMax)
    BY HtFinite DEF IInv, Limits
  <1>4. Cardinality(ht) <= MaxMem \div PoolSize /\ MaxMem \div PoolSize \in Nat
    BY <1>3, Sizes, Quotient
  <1>5. Cardinality(ht) <= TableSize
    BY <1>3, <1>4, TableRoom
  <1> QED
    BY <1>2, <1>3, <1>5 DEF LimitRespected

-----------------------------------------------------------------------------
(* The steps that change more than locals *)

(* __alloc_large *)
LEMMA PallocLargeStep ==
  ASSUME IInv, NEW n \in Requests, PallocLarge(n)
  PROVE  IInv'
  <1> DEFINE L == LargeSize(n)
  <1>1. /\ spc = "idle" /\ n \in Nat /\ n <= SingleMax /\ total_alloced + PoolSize < MaxMem
        /\ larges' = [larges EXCEPT ![L] = @ + 1]
        /\ total_alloced' = total_alloced + L
        /\ UNCHANGED <<poolVars, fillVars, total_leftsize, locals>>
    BY MemPoolAssumption DEF PallocLarge, Accepted
  <1>2. L \in LargeSizes /\ L \in Nat /\ L <= LargeSize(SingleMax) /\ LargeSize(SingleMax) \in Nat
    BY <1>1, Sizes, LargeSizeGrows DEF LargeSizes
  <1>3. larges \in [LargeSizes -> Nat] /\ total_alloced \in Nat
    BY DEF IInv, TypeOK
  <1>4. Bytes(larges', LargeSizes) = Bytes(larges, LargeSizes) + L /\ Bytes(larges, LargeSizes) \in Nat
    BY <1>1, <1>2, <1>3, FiniteSizes, BytesFacts
  <1> HIDE DEF L
  <1>5. TypeOK'
    BY <1>1, <1>2, <1>3 DEF IInv, TypeOK, poolVars, fillVars, locals
  <1>6. Pooled' /\ DestroyFreesAll' /\ Locals' /\ Unused' /\ Filled'
    BY <1>1 DEF IInv, Pooled, DestroyFreesAll, Locals, Unused, Filled, poolVars, fillVars, locals
  <1>7. Totals'
    <2> DEFINE y == PoolSize * (Cardinality(ht) - 1)
    <2>1. total_alloced = y + Bytes(larges, LargeSizes) /\ y' = y /\ ht' = ht
      BY <1>1 DEF IInv, Totals, poolVars
    <2>2. y \in Int
      BY Sizes, HtFinite DEF IInv
    <2> HIDE DEF y
    <2>3. total_alloced' = y + Bytes(larges', LargeSizes)
      BY <1>1, <1>2, <1>4, <2>1, <2>2
    <2> QED
      BY <1>1, <2>1, <2>3 DEF y, IInv, Totals, fillVars
  <1>8. Limits'
    BY <1>1, <1>2, <1>3, Sizes DEF IInv, Limits, poolVars
  <1> QED
    BY <1>5, <1>6, <1>7, <1>8 DEF IInv

(* Steps that change the lists and the failure counts, and palloc's place. *)
LEMMA MoveStep ==
  ASSUME IInv, UNCHANGED <<freepool, pfree_count, ht, heap, leftsize, busy, larges, totals>>,
         ListType(list'), InLists(list', freepool, pfree_count, ht, heap),
         failed' \in [All -> 0 .. FailedSkip],
         spc' \in {"idle", "search", "retry"}, tmp' \in All \cup {NULL}, spc # "destroyed", Locals'
  PROVE  IInv'
  <1>1. TypeOK'
    BY DEF IInv, TypeOK, ListType, totals
  <1>2. Pooled' /\ DestroyFreesAll'
    BY DEF Pooled, DestroyFreesAll
  <1>3. Unused' /\ Filled'
    BY DEF IInv, Unused, Filled
  <1>4. Totals' /\ Limits'
    BY DEF IInv, Totals, Limits, totals
  <1> QED
    BY <1>1, <1>2, <1>3, <1>4 DEF IInv

(* Where the search goes on. *)
LEMMA MissLocals ==
  ASSUME IInv, spc = "search", tmp # NULL, NEW q \in ht \cup {NULL}, Miss(q), req' = req, ht' = ht
  PROVE  /\ Locals' /\ tmp' \in All \cup {NULL} /\ spc' \in {"idle", "search", "retry"}
         /\ tmp \in ht /\ tmp \in All
  <1>1. tmp \in ht /\ req \in 1 .. Area /\ ht \subseteq All
    BY DEF IInv, Locals, TypeOK
  <1>2. \/ spc' = "retry" /\ tmp' = tmp
        \/ spc' = "search" /\ tmp' = q
    BY DEF Miss
  <1>3. Locals'
    BY <1>1, <1>2 DEF Locals
  <1> QED
    BY <1>1, <1>2, <1>3

(* The search stands on a pool in use. *)
LEMMA SearchPlace ==
  ASSUME IInv, spc = "search", tmp # NULL
  PROVE  /\ InLists(list, freepool, pfree_count, ht, heap) /\ ListType(list)
         /\ tmp \in ht /\ list.next[tmp] \in ht \cup {NULL}
  <1>1. InLists(list, freepool, pfree_count, ht, heap) /\ ListType(list) /\ tmp \in ht
    BY DEF IInv, Pooled, Locals, TypeOK, ListType
  <1> QED
    BY <1>1, NextInUse

(* A pool with too little: it is counted, or moved to the tail. *)
LEMMA SearchShortStep ==
  ASSUME IInv, SearchShort
  PROVE  IInv'
  <1>1. /\ spc = "search" /\ tmp # NULL /\ Miss(list.next[tmp])
        /\ UNCHANGED <<freepool, pfree_count, ht, heap, leftsize, busy, larges, totals, req>>
    BY DEF SearchShort
  <1>2. /\ InLists(list, freepool, pfree_count, ht, heap) /\ ListType(list)
        /\ tmp \in ht /\ list.next[tmp] \in ht \cup {NULL}
    BY <1>1, SearchPlace
  <1>3. /\ Locals' /\ tmp' \in All \cup {NULL} /\ spc' \in {"idle", "search", "retry"} /\ tmp \in All
    BY <1>1, <1>2, MissLocals
  <1>4. CASE list' = list /\ failed' = [failed EXCEPT ![tmp] = IF Scarce(tmp) THEN @ + 1 ELSE @]
             /\ failed[tmp] < FailedSkip
    <2>1. failed' \in [All -> 0 .. FailedSkip]
      BY <1>3, <1>4, Sizes DEF IInv, TypeOK
    <2> QED
      BY <1>1, <1>2, <1>3, <1>4, <2>1, MoveStep
  <1>5. CASE list' = Move2Tail(list, tmp) /\ failed' = failed
    <2>1. ListType(list') /\ InLists(list', freepool, pfree_count, ht, heap)
      BY <1>2, <1>5, Move2TailLists
    <2>2. failed' \in [All -> 0 .. FailedSkip]
      BY <1>5 DEF IInv, TypeOK
    <2> QED
      BY <1>1, <1>3, <2>1, <2>2, MoveStep
  <1> QED
    BY <1>4, <1>5 DEF SearchShort

(* A pool without a block that fits is counted. *)
LEMMA SearchUnfitStep ==
  ASSUME IInv, SearchUnfit
  PROVE  IInv'
  <1>1. /\ spc = "search" /\ tmp # NULL /\ Miss(list.next[tmp]) /\ list' = list
        /\ UNCHANGED <<freepool, pfree_count, ht, heap, leftsize, busy, larges, totals, req>>
        /\ failed' = [failed EXCEPT ![tmp] = IF @ < FailedSkip /\ Scarce(tmp) THEN @ + 1 ELSE @]
    BY DEF SearchUnfit, poolVars
  <1>2. /\ InLists(list, freepool, pfree_count, ht, heap) /\ ListType(list)
        /\ tmp \in ht /\ list.next[tmp] \in ht \cup {NULL}
    BY <1>1, SearchPlace
  <1>3. /\ Locals' /\ tmp' \in All \cup {NULL} /\ spc' \in {"idle", "search", "retry"} /\ tmp \in All
    BY <1>1, <1>2, MissLocals
  <1>4. failed' \in [All -> 0 .. FailedSkip]
    BY <1>1, <1>3, Sizes DEF IInv, TypeOK
  <1> QED
    BY <1>1, <1>2, <1>3, <1>4, MoveStep

(* The sum of leftsize when that of one pool changes. *)
LEMMA LeftChange ==
  ASSUME TypeOK, NEW q \in ht, NEW y \in Nat
  PROVE  SumFunctionOnSet([leftsize EXCEPT ![q] = y], ht)
            = (SumFunctionOnSet(leftsize, ht) - leftsize[q]) + y
  <1> DEFINE g == [leftsize EXCEPT ![q] = y]
  <1>1. IsFiniteSet(ht) /\ \A p \in ht : leftsize[p] \in Nat /\ p \in All
    BY HtFinite
  <1>2. SameBut(leftsize, g, ht, q) /\ g[q] = y
    BY <1>1 DEF SameBut, TypeOK
  <1> HIDE DEF g
  <1>3. SumFunctionOnSet(g, ht) = (SumFunctionOnSet(leftsize, ht) - leftsize[q]) + g[q]
    BY <1>1, <1>2, SumChange
  <1> QED
    BY <1>2, <1>3 DEF g

(* Steps that change the blocks of one pool in use. *)
LEMMA FillStep ==
  ASSUME IInv, spc # "destroyed", NEW q \in ht, NEW b \in [BlockSizes -> Nat], NEW y \in 0 .. Area,
         y + Bytes(b, BlockSizes) = Area,
         busy' = [busy EXCEPT ![q] = b], leftsize' = [leftsize EXCEPT ![q] = y],
         total_leftsize' = (total_leftsize - leftsize[q]) + y,
         UNCHANGED <<freepool, pfree_count, ht, heap, larges, total_alloced>>,
         ListType(list'), InLists(list', freepool, pfree_count, ht, heap),
         failed' \in [All -> 0 .. FailedSkip], spc' = "idle", tmp' \in All \cup {NULL}
  PROVE  IInv'
  <1>1. q \in All /\ ht \subseteq All /\ y \in Nat
    BY Sizes DEF IInv, TypeOK
  <1>2. leftsize' \in [All -> 0 .. Area] /\ busy' \in [All -> [BlockSizes -> Nat]]
    BY <1>1 DEF IInv, TypeOK
  <1>3. total_leftsize' = SumFunctionOnSet(leftsize', ht')
    BY <1>1, LeftChange DEF IInv, Totals
  <1>4. total_leftsize' \in Nat
    <2>1. \A p \in ht : leftsize'[p] \in Nat
      BY <1>1, <1>2, Sizes
    <2> QED
      BY <1>3, <2>1, HtFinite, SumType DEF IInv
  <1>5. TypeOK'
    BY <1>2, <1>4 DEF IInv, TypeOK, ListType
  <1>6. Pooled' /\ DestroyFreesAll' /\ Locals' /\ Limits'
    BY DEF IInv, Pooled, DestroyFreesAll, Locals, Limits
  <1>7. Unused'
    <2>1. \A p \in All \ ht : p # q /\ busy'[p] = busy[p]
      BY DEF IInv, TypeOK
    <2> QED
      BY <2>1 DEF IInv, Unused
  <1>8. Filled'
    <2>1. ASSUME NEW p \in ht PROVE leftsize'[p] + Bytes(busy'[p], BlockSizes) = Area
      <3>1. CASE p = q
        <4>1. leftsize'[p] = y /\ busy'[p] = b
          BY <1>1, <3>1 DEF IInv, TypeOK
        <4> QED
          BY <4>1
      <3>2. CASE p # q
        <4>1. leftsize'[p] = leftsize[p] /\ busy'[p] = busy[p]
          BY <1>1, <3>2 DEF IInv, TypeOK
        <4> QED
          BY <4>1 DEF IInv, Filled
      <3> QED
        BY <3>1, <3>2
    <2> QED
      BY <2>1 DEF Filled
  <1>9. Totals'
    BY <1>3 DEF IInv, Totals
  <1> QED
    BY <1>5, <1>6, <1>7, <1>8, <1>9 DEF IInv

(* What is known of a pool in use. *)
LEMMA PoolFacts ==
  ASSUME IInv, NEW q \in ht
  PROVE  /\ q \in All /\ leftsize[q] \in 0 .. Area /\ busy[q] \in [BlockSizes -> Nat]
         /\ Bytes(busy[q], BlockSizes) \in Nat
         /\ leftsize[q] + Bytes(busy[q], BlockSizes) = Area
         /\ total_leftsize \in Nat /\ leftsize[q] <= total_leftsize
  <1>1. q \in All /\ leftsize[q] \in 0 .. Area /\ busy[q] \in [BlockSizes -> Nat]
    BY DEF IInv, TypeOK
  <1>2. Bytes(busy[q], BlockSizes) \in Nat
    BY <1>1, FiniteSizes, BytesFacts
  <1>3. leftsize[q] <= SumFunctionOnSet(leftsize, ht)
    BY HtFinite, SumBound DEF IInv
  <1> QED
    BY <1>1, <1>2, <1>3 DEF IInv, Filled, Totals, TypeOK

(* A block is split off: what is left and the bytes in blocks still fill the pool. *)
LEMMA SearchFoundStep ==
  ASSUME IInv, SearchFound
  PROVE  IInv'
  <1>1. /\ spc = "search" /\ tmp # NULL /\ leftsize[tmp] >= req
        /\ failed' = [failed EXCEPT ![tmp] = IF HasBusy(tmp) THEN 0 ELSE @]
        /\ spc' = "idle" /\ tmp' = NULL
        /\ UNCHANGED <<list, freepool, pfree_count, ht, heap, larges, total_alloced>>
    BY DEF SearchFound, poolVars
  <1>2. PICK t \in Taken(tmp) :
          /\ leftsize' = [leftsize EXCEPT ![tmp] = @ - t]
          /\ busy' = [busy EXCEPT ![tmp][t] = @ + 1]
          /\ total_leftsize' = total_leftsize - t
    BY DEF SearchFound
  <1>3. /\ InLists(list, freepool, pfree_count, ht, heap) /\ ListType(list)
        /\ tmp \in ht /\ req \in 1 .. Area
    BY <1>1, SearchPlace DEF IInv, Locals
  <1>4. /\ tmp \in All /\ leftsize[tmp] \in 0 .. Area /\ busy[tmp] \in [BlockSizes -> Nat]
        /\ Bytes(busy[tmp], BlockSizes) \in Nat
        /\ leftsize[tmp] + Bytes(busy[tmp], BlockSizes) = Area
        /\ total_leftsize \in Nat /\ leftsize[tmp] <= total_leftsize
    BY <1>3, PoolFacts
  <1>5. t \in 1 .. leftsize[tmp]
    <2>1. CASE HasBusy(tmp)
      BY <1>3, <1>4, <2>1, Sizes DEF Taken
    <2>2. CASE ~ HasBusy(tmp)
      <3>1. \A s \in BlockSizes : busy[tmp][s] = 0
        BY <1>4, <2>2 DEF HasBusy
      <3>2. Bytes(busy[tmp], BlockSizes) = 0
        BY <1>4, <3>1, FiniteSizes, BytesFacts
      <3>3. leftsize[tmp] = Area
        BY <1>4, <3>2, Sizes
      <3> QED
        BY <1>1, <1>3, <2>2, <3>3, Sizes DEF Taken
    <2> QED
      BY <2>1, <2>2
  <1>6. t \in BlockSizes /\ t \in Nat
    BY <1>4, <1>5, Sizes DEF BlockSizes
  <1> DEFINE b == [busy[tmp] EXCEPT ![t] = @ + 1]
             y == leftsize[tmp] - t
  <1>7. busy' = [busy EXCEPT ![tmp] = b] /\ leftsize' = [leftsize EXCEPT ![tmp] = y]
    BY <1>2, <1>4, <1>6 DEF IInv, TypeOK
  <1>8. Bytes(b, BlockSizes) = Bytes(busy[tmp], BlockSizes) + t /\ b \in [BlockSizes -> Nat]
    BY <1>4, <1>6, FiniteSizes, BytesFacts
  <1>9. y \in 0 .. Area /\ total_leftsize' = (total_leftsize - leftsize[tmp]) + y
    BY <1>2, <1>4, <1>5, Sizes
  <1> HIDE DEF b
  <1>10. y + Bytes(b, BlockSizes) = Area
    BY <1>4, <1>6, <1>8
  <1>11. failed' \in [All -> 0 .. FailedSkip]
    BY <1>1, <1>4, Sizes DEF IInv, TypeOK
  <1> HIDE DEF y
  <1> QED
    BY <1>1, <1>3, <1>7, <1>8, <1>9, <1>10, <1>11, FillStep

(* A busy block of size s is in a pool in use; what is left without it. *)
LEMMA FreedFacts ==
  ASSUME IInv, NEW q \in All, NEW s \in BlockSizes, busy[q][s] > 0
  PROVE  LET b == [busy[q] EXCEPT ![s] = @ - 1] IN
         /\ q \in ht /\ s \in Nat /\ leftsize[q] + s \in 0 .. Area
         /\ Remaining(q, s) = [busy EXCEPT ![q] = b] /\ b \in [BlockSizes -> Nat]
         /\ (leftsize[q] + s) + Bytes(b, BlockSizes) = Area
         /\ LastBlock(q, s) => Bytes(b, BlockSizes) = 0 /\ leftsize[q] + s = Area
                          /\ \A t \in BlockSizes : b[t] = 0
  <1> DEFINE b == [busy[q] EXCEPT ![s] = @ - 1]
  <1>1. q \in ht
    BY DEF IInv, Unused
  <1>2. /\ leftsize[q] \in 0 .. Area /\ busy[q] \in [BlockSizes -> Nat]
        /\ Bytes(busy[q], BlockSizes) \in Nat
        /\ leftsize[q] + Bytes(busy[q], BlockSizes) = Area
    BY <1>1, PoolFacts
  <1>3. s \in Nat /\ s <= Bytes(busy[q], BlockSizes)
    BY <1>2, FiniteSizes, BytesFacts
  <1>4. b \in [BlockSizes -> Nat] /\ Bytes(b, BlockSizes) = Bytes(busy[q], BlockSizes) - s
    BY <1>2, FiniteSizes, BytesFacts
  <1>5. Remaining(q, s) = [busy EXCEPT ![q] = b] /\ Remaining(q, s)[q] = b
    BY DEF IInv, TypeOK, Remaining
  <1>6. ASSUME LastBlock(q, s) PROVE Bytes(b, BlockSizes) = 0 /\ \A t \in BlockSizes : b[t] = 0
    <2>1. \A t \in BlockSizes : b[t] = 0
      BY <1>5, <1>6 DEF LastBlock
    <2> HIDE DEF b
    <2> QED
      BY <1>4, <2>1, FiniteSizes, BytesFacts
  <1> HIDE DEF b
  <1>7. leftsize[q] + s \in 0 .. Area /\ (leftsize[q] + s) + Bytes(b, BlockSizes) = Area
    BY <1>2, <1>3, <1>4, Sizes
  <1>8. LastBlock(q, s) => leftsize[q] + s = Area
    BY <1>3, <1>6, <1>7, Sizes
  <1> QED
    BY <1>1, <1>3, <1>4, <1>5, <1>6, <1>7, <1>8 DEF b

(* pfree of one block of several; the pool may move to the header. *)
LEMMA FreeBlockStep ==
  ASSUME IInv, NEW q \in All, NEW s \in BlockSizes, FreeBlock(q, s)
  PROVE  IInv'
  <1> DEFINE b == [busy[q] EXCEPT ![s] = @ - 1]
             y == leftsize[q] + s
             left == [leftsize EXCEPT ![q] = @ + s]
  <1>1. /\ spc = "idle" /\ busy[q][s] > 0 /\ busy' = Remaining(q, s)
        /\ leftsize' = left /\ failed' = [failed EXCEPT ![q] = 0]
        /\ list' = (IF leftsize[q] = 0 THEN Move2Header(list, q, left) ELSE list)
        /\ total_leftsize' = total_leftsize + s
        /\ UNCHANGED <<freepool, pfree_count, ht, heap, larges, total_alloced>>
        /\ spc' = "idle" /\ tmp' = tmp
    BY DEF FreeBlock, locals
  <1>2. /\ q \in ht /\ s \in Nat /\ y \in 0 .. Area
        /\ Remaining(q, s) = [busy EXCEPT ![q] = b] /\ b \in [BlockSizes -> Nat]
        /\ y + Bytes(b, BlockSizes) = Area
    BY <1>1, FreedFacts
  <1>3. leftsize' = [leftsize EXCEPT ![q] = y]
    BY <1>1 DEF IInv, TypeOK
  <1>4. total_leftsize' = (total_leftsize - leftsize[q]) + y
    BY <1>1, <1>2, PoolFacts
  <1>5. InLists(list, freepool, pfree_count, ht, heap) /\ ListType(list)
    BY <1>1 DEF IInv, Pooled, TypeOK, ListType
  <1> HIDE DEF left
  <1>6. ListType(list') /\ InLists(list', freepool, pfree_count, ht, heap)
    BY <1>1, <1>2, <1>5, Move2HeaderLists
  <1>7. failed' \in [All -> 0 .. FailedSkip] /\ tmp' \in All \cup {NULL}
    BY <1>1, Sizes DEF IInv, TypeOK
  <1>8. busy' = [busy EXCEPT ![q] = b] /\ spc # "destroyed"
    BY <1>1, <1>2
  <1> HIDE DEF b, y
  <1> QED
    BY <1>1, <1>2, <1>3, <1>4, <1>6, <1>7, <1>8, FillStep

(* pfree of the last block of the base pool. *)
LEMMA FreeLastOfBaseStep ==
  ASSUME IInv, NEW s \in BlockSizes, FreeLastOfBase(s)
  PROVE  IInv'
  <1> DEFINE b == [busy[Base] EXCEPT ![s] = @ - 1]
  <1>1. /\ spc = "idle" /\ busy[Base][s] > 0 /\ LastBlock(Base, s) /\ busy' = Remaining(Base, s)
        /\ leftsize' = [leftsize EXCEPT ![Base] = Area] /\ failed' = [failed EXCEPT ![Base] = 0]
        /\ total_leftsize' = total_leftsize + s
        /\ UNCHANGED <<list, freepool, pfree_count, ht, heap, larges, total_alloced>>
        /\ spc' = "idle" /\ tmp' = tmp
    BY DEF FreeLastOfBase, poolVars, locals
  <1>0. Base \in All
    BY DistinctPools DEF Distinct
  <1>2. /\ Base \in ht /\ s \in Nat
        /\ Remaining(Base, s) = [busy EXCEPT ![Base] = b] /\ b \in [BlockSizes -> Nat]
        /\ Bytes(b, BlockSizes) = 0 /\ leftsize[Base] + s = Area
    BY <1>0, <1>1, FreedFacts
  <1>3. Area \in 0 .. Area /\ Area + Bytes(b, BlockSizes) = Area
    BY <1>2, Sizes
  <1>4. total_leftsize' = (total_leftsize - leftsize[Base]) + Area
    BY <1>1, <1>2, PoolFacts
  <1>5. InLists(list', freepool, pfree_count, ht, heap) /\ ListType(list')
    BY <1>1 DEF IInv, Pooled, TypeOK, ListType
  <1>6. failed' \in [All -> 0 .. FailedSkip] /\ tmp' \in All \cup {NULL}
    BY <1>0, <1>1, Sizes DEF IInv, TypeOK
  <1>7. busy' = [busy EXCEPT ![Base] = b] /\ spc # "destroyed"
    BY <1>1, <1>2
  <1> HIDE DEF b
  <1> QED
    BY <1>1, <1>2, <1>3, <1>4, <1>5, <1>6, <1>7, FillStep

(* The pool __get_mempool returns, and the lists with it behind the base pool. *)
LEMMA GrowLists ==
  ASSUME IInv, NEW q \in Pools, Grow(q)
  PROVE  /\ q \notin ht /\ ListType(list') /\ InLists(list', freepool', pfree_count', ht', heap')
         /\ freepool' \in Pools \cup {NULL} /\ pfree_count' \in 0 .. MaxFree
         /\ heap' \subseteq All
  <1> DEFINE popped == IF freepool = NULL THEN list ELSE SetPrev(list, list.next[q], NULL)
  <1>1. /\ spc = "grow" /\ list' = Grown(popped, q) /\ ht' = ht \cup {q}
        /\ \/ /\ freepool = NULL /\ q \in Pools \ heap /\ heap' = heap \cup {q}
              /\ freepool' = freepool /\ pfree_count' = pfree_count
           \/ /\ freepool # NULL /\ q = freepool /\ heap' = heap
              /\ freepool' = list.next[q] /\ pfree_count' = pfree_count - 1
    BY DEF Grow, Grown
  <1>2. /\ InLists(list, freepool, pfree_count, ht, heap) /\ ListType(list)
        /\ pfree_count \in 0 .. MaxFree /\ heap \subseteq All /\ freepool \in Pools \cup {NULL}
    BY <1>1 DEF IInv, Pooled, TypeOK, ListType
  <1>3. ht \subseteq heap
    BY <1>2, BaseInUse
  <1>4. CASE freepool = NULL
    <2>1. popped = list
      BY <1>4
    <2>2. ListType(Grown(list, q)) /\ InLists(Grown(list, q), freepool, pfree_count, ht \cup {q}, heap \cup {q})
      BY <1>1, <1>2, <1>4, GrownLists
    <2> QED
      BY <1>1, <1>2, <1>3, <1>4, <2>1, <2>2 DEF All
  <1>5. CASE freepool # NULL
    <2> DEFINE k == SetPrev(list, list.next[freepool], NULL)
               rest == heap \ {q}
    <2>1. /\ freepool \in heap \ ht /\ pfree_count \in Nat \ {0}
          /\ list.next[freepool] \in Pools \cup {NULL}
          /\ ListType(k) /\ InLists(k, list.next[freepool], pfree_count - 1, ht, heap \ {freepool})
      BY <1>2, <1>5, TakenLists
    <2>2. q = freepool /\ popped = k /\ q \in Pools \ rest /\ rest \cup {q} = heap
      BY <1>1, <1>5, <2>1
    <2> HIDE DEF k, popped
    <2>3. InLists(k, list.next[q], pfree_count - 1, ht, rest)
      BY <2>1, <2>2
    <2> HIDE DEF rest
    <2>4. /\ ListType(Grown(k, q))
          /\ InLists(Grown(k, q), list.next[q], pfree_count - 1, ht \cup {q}, rest \cup {q})
      BY <2>1, <2>2, <2>3, GrownLists
    <2>5. pfree_count - 1 \in 0 .. MaxFree
      BY <1>2, <2>1, Sizes
    <2> QED
      BY <1>1, <1>2, <1>5, <2>1, <2>2, <2>4, <2>5
  <1> QED
    BY <1>4, <1>5

(* A further pool: one more in the list, the table and the totals, within the limit. *)
LEMMA GrowStep ==
  ASSUME IInv, NEW q \in Pools, Grow(q)
  PROVE  IInv'
  <1>1. /\ spc = "grow" /\ total_alloced + 2 * PoolSize < MaxMem
        /\ ht' = ht \cup {q} /\ leftsize' = [leftsize EXCEPT ![q] = Area]
        /\ failed' = [failed EXCEPT ![q] = 0]
        /\ total_alloced' = total_alloced + PoolSize
        /\ total_leftsize' = total_leftsize + Area
        /\ spc' = "search" /\ tmp' = q
        /\ UNCHANGED <<busy, larges, req>>
    BY DEF Grow
  <1>2. /\ q \notin ht /\ ListType(list') /\ InLists(list', freepool', pfree_count', ht', heap')
        /\ freepool' \in Pools \cup {NULL} /\ pfree_count' \in 0 .. MaxFree
        /\ heap' \subseteq All
    BY GrowLists
  <1>3. q \in All /\ ht \subseteq All /\ ht' \subseteq All
    BY <1>1 DEF IInv, TypeOK, All
  <1>4. leftsize' \in [All -> 0 .. Area] /\ failed' \in [All -> 0 .. FailedSkip]
    BY <1>1, <1>3, Sizes DEF IInv, TypeOK
  <1>5. total_alloced \in Nat /\ total_leftsize \in Nat /\ total_alloced' \in Nat /\ total_leftsize' \in Nat
    BY <1>1, Sizes DEF IInv, TypeOK
  <1>6. TypeOK'
    BY <1>1, <1>2, <1>3, <1>4, <1>5 DEF IInv, TypeOK, ListType
  <1>7. Pooled' /\ DestroyFreesAll'
    BY <1>1, <1>2 DEF Pooled, DestroyFreesAll
  <1>8. Locals'
    BY <1>1 DEF IInv, Locals
  <1>9. Unused'
    BY <1>1 DEF IInv, Unused
  <1>10. Filled'
    <2>1. ASSUME NEW p \in ht' PROVE leftsize'[p] + Bytes(busy[p], BlockSizes) = Area
      <3>1. CASE p = q
        <4>1. leftsize'[p] = Area
          BY <1>1, <1>3, <3>1 DEF IInv, TypeOK
        <4>2. busy[q] \in [BlockSizes -> Nat] /\ \A s \in BlockSizes : busy[q][s] = 0
          BY <1>2, <1>3 DEF IInv, Unused, TypeOK
        <4>3. Bytes(busy[q], BlockSizes) = 0
          BY <4>2, FiniteSizes, BytesFacts
        <4> QED
          BY <3>1, <4>1, <4>3, Sizes
      <3>2. CASE p # q
        <4>1. p \in ht /\ leftsize'[p] = leftsize[p]
          BY <1>1, <1>3, <2>1, <3>2 DEF IInv, TypeOK
        <4> QED
          BY <4>1 DEF IInv, Filled
      <3> QED
        BY <3>1, <3>2
    <2> QED
      BY <1>1, <2>1 DEF Filled
  <1>11. IsFiniteSet(ht) /\ Cardinality(ht) \in Nat /\ Cardinality(ht') = Cardinality(ht) + 1
    BY <1>1, <1>2, HtFinite, FS_AddElement DEF IInv
  <1>12. total_leftsize' = SumFunctionOnSet(leftsize', ht')
    <2> DEFINE g == [leftsize EXCEPT ![q] = Area]
    <2>1. /\ \A p \in ht : g[p] = leftsize[p]
          /\ \A p \in ht \cup {q} : g[p] \in Int
          /\ g[q] = Area
      BY <1>1, <1>2, <1>3, <1>4 DEF IInv, TypeOK
    <2> HIDE DEF g
    <2>2. SumFunctionOnSet(g, ht \cup {q}) = SumFunctionOnSet(g, ht) + g[q]
      BY <1>2, <1>11, <2>1, SumMore
    <2>3. SumFunctionOnSet(g, ht) = SumFunctionOnSet(leftsize, ht)
      BY <1>11, <2>1, SumSame
    <2> QED
      BY <1>1, <2>1, <2>2, <2>3 DEF g, IInv, Totals
  <1> DEFINE c == Cardinality(ht)
  <1>13. /\ PoolSize * ((c + 1) - 1) = PoolSize * (c - 1) + PoolSize
         /\ PoolSize * (c + 1) = PoolSize * (c - 1) + 2 * PoolSize
         /\ PoolSize * (c - 1) \in Int
    <2>1. \A d \in Nat, a \in Int : /\ d * ((a + 1) - 1) = d * (a - 1) + d
                                   /\ d * (a + 1) = d * (a - 1) + 2 * d
                                   /\ d * (a - 1) \in Int
      OBVIOUS
    <2>2. c \in Int
      BY <1>11
    <2> HIDE DEF c
    <2> QED
      BY <2>1, <2>2, Sizes
  <1>14. total_alloced = PoolSize * (c - 1) + Bytes(larges, LargeSizes)
    BY <1>1 DEF IInv, Totals
  <1>15. Bytes(larges, LargeSizes) \in Nat
    BY FiniteSizes, BytesFacts DEF IInv, TypeOK
  <1>16. LargeSize(SingleMax) \in Nat
    BY Sizes, LargeSizeGrows
  <1> DEFINE y == PoolSize * (c - 1)
             z == Bytes(larges, LargeSizes)
  <1>17. /\ total_alloced = y + z /\ y \in Int /\ z \in Nat
         /\ PoolSize * (Cardinality(ht') - 1) = y + PoolSize
         /\ PoolSize * Cardinality(ht') = y + 2 * PoolSize
    BY <1>11, <1>13, <1>14, <1>15
  <1> HIDE DEF y, z, c
  <1>18. /\ total_alloced' = PoolSize * (Cardinality(ht') - 1) + z
         /\ PoolSize * Cardinality(ht') <= MaxMem
         /\ total_alloced' + PoolSize < MaxMem + LargeSize(SingleMax)
    <2>1. total_alloced' = (y + PoolSize) + z
      BY <1>1, <1>17, Sizes
    <2>2. y + 2 * PoolSize <= MaxMem
      BY <1>1, <1>17, Sizes
    <2>3. total_alloced' + PoolSize < MaxMem + LargeSize(SingleMax)
      BY <1>1, <1>5, <1>16, Sizes
    <2> QED
      BY <1>17, <2>1, <2>2, <2>3
  <1>19. Totals' /\ Limits'
    BY <1>1, <1>12, <1>18 DEF Totals, Limits, z
  <1> QED
    BY <1>6, <1>7, <1>8, <1>9, <1>10, <1>19 DEF IInv

(* __mempool_internal_destroy: the lists without the pool. *)
LEMMA FreeLastLists ==
  ASSUME IInv, NEW q \in All, NEW s \in BlockSizes, FreeLast(q, s)
  PROVE  /\ q \in ht /\ Base \in ht /\ ListType(list')
         /\ InLists(list', freepool', pfree_count', ht', heap')
         /\ freepool' \in Pools \cup {NULL} /\ pfree_count' \in 0 .. MaxFree
         /\ heap' \subseteq All
  <1> DEFINE k == Unlink(list, q)
             rest == heap \ {q}
  <1>1. /\ spc = "idle" /\ q # Base /\ busy[q][s] > 0 /\ ht' = ht \ {q}
        /\ \/ /\ pfree_count < MaxFree /\ list' = Put(k, q, freepool)
              /\ freepool' = q /\ pfree_count' = pfree_count + 1 /\ heap' = heap
           \/ /\ list' = Cleared(k, q) /\ heap' = rest
              /\ freepool' = freepool /\ pfree_count' = pfree_count
    BY DEF FreeLast, Put, Cleared
  <1>2. /\ InLists(list, freepool, pfree_count, ht, heap) /\ ListType(list)
        /\ pfree_count \in 0 .. MaxFree /\ heap \subseteq All /\ freepool \in Pools \cup {NULL}
    BY <1>1 DEF IInv, Pooled, TypeOK, ListType
  <1>3. q \in ht /\ Base \in ht /\ ht \subseteq heap /\ q \in Pools
    BY <1>1, <1>2, FreedFacts, BaseInUse DEF All
  <1>4. ListType(k) /\ InLists(k, freepool, pfree_count, ht \ {q}, heap \ {q})
    BY <1>1, <1>2, <1>3, UnlinkLists
  <1>5. q \in All \ rest /\ rest \cup {q} = heap /\ rest \subseteq All
    BY <1>2, <1>3
  <1>6. InLists(k, freepool, pfree_count, ht \ {q}, rest)
    BY <1>4
  <1> HIDE DEF k, rest
  <1>7. /\ ListType(Put(k, q, freepool))
        /\ InLists(Put(k, q, freepool), q, pfree_count + 1, ht \ {q}, rest \cup {q})
    BY <1>4, <1>5, <1>6, PutLists
  <1>8. ListType(Cleared(k, q)) /\ InLists(Cleared(k, q), freepool, pfree_count, ht \ {q}, rest)
    BY <1>4, <1>5, <1>6, ClearedLists
  <1>9. pfree_count < MaxFree => pfree_count + 1 \in 0 .. MaxFree
    BY <1>2, Sizes
  <1> QED
    BY <1>1, <1>2, <1>3, <1>5, <1>7, <1>8, <1>9

(* pfree of the last block of another pool: one less in the list, the table and the totals. *)
LEMMA FreeLastStep ==
  ASSUME IInv, NEW q \in All, NEW s \in BlockSizes, FreeLast(q, s)
  PROVE  IInv'
  <1> DEFINE b == [busy[q] EXCEPT ![s] = @ - 1]
  <1>1. /\ spc = "idle" /\ q # Base /\ busy[q][s] > 0 /\ LastBlock(q, s) /\ busy' = Remaining(q, s)
        /\ ht' = ht \ {q} /\ leftsize' = [leftsize EXCEPT ![q] = Area]
        /\ failed' = [failed EXCEPT ![q] = 0]
        /\ total_alloced' = total_alloced - PoolSize
        /\ total_leftsize' = total_leftsize - leftsize[q]
        /\ larges' = larges /\ spc' = "idle" /\ tmp' = tmp
    BY DEF FreeLast, locals
  <1>2. /\ q \in ht /\ Base \in ht /\ ListType(list')
        /\ InLists(list', freepool', pfree_count', ht', heap')
        /\ freepool' \in Pools \cup {NULL} /\ pfree_count' \in 0 .. MaxFree
        /\ heap' \subseteq All
    BY FreeLastLists
  <1>3. /\ Remaining(q, s) = [busy EXCEPT ![q] = b] /\ b \in [BlockSizes -> Nat]
        /\ \A t \in BlockSizes : b[t] = 0
    BY <1>1, FreedFacts
  <1>4. /\ leftsize' \in [All -> 0 .. Area] /\ failed' \in [All -> 0 .. FailedSkip]
        /\ ht \subseteq All /\ ht' \subseteq All
    BY <1>1, Sizes DEF IInv, TypeOK
  <1> HIDE DEF b
  <1>5. busy' \in [All -> [BlockSizes -> Nat]]
    BY <1>1, <1>3 DEF IInv, TypeOK
  <1>6. \A p \in All \ {q} : leftsize'[p] = leftsize[p] /\ busy'[p] = busy[p]
    BY <1>1, <1>3 DEF IInv, TypeOK
  <1>7. Unused'
    <2>1. busy'[q] = b
      BY <1>1, <1>3 DEF IInv, TypeOK
    <2>2. ASSUME NEW p \in All \ ht', NEW t \in BlockSizes PROVE busy'[p][t] = 0
      <3>1. CASE p = q
        BY <1>3, <2>1, <3>1
      <3>2. CASE p # q
        BY <1>1, <1>6, <2>2, <3>2 DEF IInv, Unused
      <3> QED
        BY <3>1, <3>2
    <2> QED
      BY <2>2 DEF Unused
  <1>8. Filled'
    <2>1. \A p \in ht' : p \in ht /\ p \in All \ {q}
      BY <1>1, <1>4
    <2> QED
      BY <1>6, <2>1 DEF IInv, Filled
  <1>9. /\ IsFiniteSet(ht) /\ Cardinality(ht) \in Nat /\ IsFiniteSet(ht')
        /\ Cardinality(ht') = Cardinality(ht) - 1 /\ Cardinality(ht') \in Nat \ {0}
    <2>1. IsFiniteSet(ht) /\ Cardinality(ht) \in Nat
      BY HtFinite DEF IInv
    <2>2. IsFiniteSet(ht') /\ Cardinality(ht') = Cardinality(ht) - 1
      BY <1>1, <1>2, <2>1, Smaller
    <2>3. Base \in ht'
      BY <1>1, <1>2
    <2>4. Cardinality(ht') \in Nat \ {0}
      BY <2>2, <2>3, Smaller
    <2> QED
      BY <2>1, <2>2, <2>4
  <1>10. total_leftsize' = SumFunctionOnSet(leftsize', ht') /\ total_leftsize' \in Nat
    <2>1. \A p \in ht : leftsize[p] \in Nat /\ leftsize[p] \in Int
      BY HtFinite DEF IInv
    <2>2. SumFunctionOnSet(leftsize, ht) = leftsize[q] + SumFunctionOnSet(leftsize, ht \ {q})
      BY <1>2, <1>9, <2>1, SumAny
    <2>3. SumFunctionOnSet(leftsize, ht \ {q}) \in Nat
      BY <1>1, <1>9, <2>1, SumType
    <2>4. \A p \in ht' : leftsize'[p] = leftsize[p]
      BY <1>1, <1>4, <1>6
    <2>5. SumFunctionOnSet(leftsize', ht') = SumFunctionOnSet(leftsize, ht')
      BY <1>9, <2>4, SumSame
    <2>6. total_leftsize = SumFunctionOnSet(leftsize, ht)
      BY DEF IInv, Totals
    <2>7. total_leftsize' = SumFunctionOnSet(leftsize, ht \ {q})
      BY <1>1, <1>2, <2>1, <2>2, <2>3, <2>6
    <2> QED
      BY <1>1, <2>3, <2>5, <2>7
  <1> DEFINE y == PoolSize * (Cardinality(ht') - 1)
             z == Bytes(larges, LargeSizes)
  <1>11. /\ PoolSize * (Cardinality(ht) - 1) = y + PoolSize /\ y \in Nat
         /\ PoolSize * Cardinality(ht') <= PoolSize * Cardinality(ht)
         /\ PoolSize * Cardinality(ht') \in Int /\ PoolSize * Cardinality(ht) \in Int
    <2>1. \A d \in Nat, a \in Nat \ {0} : /\ d * ((a + 1) - 1) = d * (a - 1) + d
                                          /\ d * (a - 1) \in Nat
                                          /\ d * a <= d * (a + 1)
                                          /\ d * a \in Int /\ d * (a + 1) \in Int
      OBVIOUS
    <2>2. Cardinality(ht) = Cardinality(ht') + 1 /\ PoolSize \in Nat
      BY <1>9, Sizes
    <2> QED
      BY <1>9, <2>1, <2>2
  <1>12. total_alloced = (y + PoolSize) + z /\ z \in Nat
    BY <1>1, <1>11, FiniteSizes, BytesFacts DEF IInv, Totals, TypeOK
  <1>13. PoolSize * Cardinality(ht) <= MaxMem /\ total_alloced + PoolSize < MaxMem + LargeSize(SingleMax)
    BY DEF IInv, Limits
  <1>14. LargeSize(SingleMax) \in Nat
    BY Sizes, LargeSizeGrows
  <1> HIDE DEF y, z
  <1>15. total_alloced' = y + z /\ total_alloced' \in Nat
    BY <1>1, <1>11, <1>12, Sizes
  <1>16. /\ PoolSize * Cardinality(ht') <= MaxMem
         /\ total_alloced' + PoolSize < MaxMem + LargeSize(SingleMax)
    <2> DEFINE e == PoolSize * Cardinality(ht')
               f == PoolSize * Cardinality(ht)
    <2>1. e <= f /\ e \in Int /\ f \in Int /\ f <= MaxMem
      BY <1>11, <1>13
    <2> HIDE DEF e, f
    <2>2. e <= MaxMem
      BY <2>1, Sizes
    <2> QED
      BY <1>1, <1>11, <1>12, <1>13, <1>14, <1>15, <2>2, Sizes DEF e
  <1>17. TypeOK'
    BY <1>1, <1>2, <1>4, <1>5, <1>10, <1>15 DEF IInv, TypeOK, ListType
  <1>18. Pooled' /\ DestroyFreesAll' /\ Locals'
    BY <1>1, <1>2 DEF Pooled, DestroyFreesAll, Locals
  <1>19. Totals' /\ Limits'
    BY <1>1, <1>10, <1>15, <1>16 DEF Totals, Limits, y, z
  <1> QED
    BY <1>7, <1>8, <1>17, <1>18, <1>19 DEF IInv

(* __free_large *)
LEMMA FreeLargeStep ==
  ASSUME IInv, NEW s \in LargeSizes, FreeLarge(s)
  PROVE  IInv'
  <1>1. /\ spc = "idle" /\ larges[s] > 0 /\ larges' = [larges EXCEPT ![s] = @ - 1]
        /\ total_alloced' = total_alloced - s
        /\ UNCHANGED <<poolVars, fillVars, total_leftsize, locals>>
    BY DEF FreeLarge
  <1>2. larges \in [LargeSizes -> Nat] /\ larges' \in [LargeSizes -> Nat]
    BY <1>1 DEF IInv, TypeOK
  <1>3. /\ Bytes(larges', LargeSizes) = Bytes(larges, LargeSizes) - s
        /\ Bytes(larges, LargeSizes) \in Nat /\ s <= Bytes(larges, LargeSizes) /\ s \in Nat
    BY <1>1, <1>2, FiniteSizes, BytesFacts
  <1> DEFINE y == PoolSize * (Cardinality(ht) - 1)
  <1>4. total_alloced = y + Bytes(larges, LargeSizes) /\ y' = y /\ ht' = ht
    BY <1>1 DEF IInv, Totals, poolVars
  <1>5. y \in Nat
    <2>1. InLists(list, freepool, pfree_count, ht, heap)
      BY <1>1 DEF IInv, Pooled
    <2>2. Base \in ht
      BY <2>1, BaseInUse
    <2>3. Cardinality(ht) \in Nat \ {0}
      BY <2>2, HtFinite, Smaller DEF IInv
    <2>4. \A d \in Nat, a \in Nat \ {0} : d * (a - 1) \in Nat
      OBVIOUS
    <2> QED
      BY <2>3, <2>4, Sizes
  <1> HIDE DEF y
  <1>6. /\ total_alloced' = y + Bytes(larges', LargeSizes) /\ total_alloced' \in Nat
        /\ total_alloced' <= total_alloced /\ total_alloced \in Nat
    BY <1>1, <1>3, <1>4, <1>5
  <1>7. TypeOK'
    BY <1>1, <1>2, <1>6 DEF IInv, TypeOK, poolVars, fillVars, locals
  <1>8. Pooled' /\ DestroyFreesAll' /\ Locals' /\ Unused' /\ Filled'
    BY <1>1 DEF IInv, Pooled, DestroyFreesAll, Locals, Unused, Filled, poolVars, fillVars, locals
  <1>9. Totals'
    BY <1>1, <1>4, <1>6 DEF y, IInv, Totals, fillVars
  <1>10. LargeSize(SingleMax) \in Nat
    BY Sizes, LargeSizeGrows
  <1>11. Limits'
    BY <1>1, <1>4, <1>6, <1>10, Sizes DEF IInv, Limits
  <1> QED
    BY <1>7, <1>8, <1>9, <1>11 DEF IInv

(* mempool_destroy: the walks along the lists meet every pool. *)
LEMMA DestroyStep ==
  ASSUME IInv, Destroy
  PROVE  IInv'
  <1>1. /\ spc = "idle" /\ spc' = "destroyed" /\ larges' = [s \in LargeSizes |-> 0]
        /\ heap' = heap \ (Range(Walk(freepool)) \cup Range(Walk(Base)))
        /\ UNCHANGED <<list, freepool, pfree_count, ht, leftsize, failed, busy,
                       total_alloced, total_leftsize, req, tmp>>
    BY DEF Destroy, fillVars, totals
  <1>2. heap = ht \cup Range(Walk(freepool)) /\ ht = Range(Walk(Base))
    BY <1>1, ListsLinked DEF PoolsLinked
  <1>3. heap' = {}
    BY <1>1, <1>2
  <1>4. TypeOK'
    BY <1>1, <1>3 DEF IInv, TypeOK
  <1>5. Pooled' /\ DestroyFreesAll' /\ Locals'
    BY <1>1, <1>3 DEF Pooled, DestroyFreesAll, Locals
  <1>6. Unused' /\ Filled' /\ Totals' /\ Limits'
    BY <1>1 DEF IInv, Unused, Filled, Totals, Limits
  <1> QED
    BY <1>4, <1>5, <1>6 DEF IInv

(* mempool_init_extra *)
LEMMA InitInvariant ==
  ASSUME Init
  PROVE  IInv
  <1>1. Base \in All /\ Base \notin Pools /\ NULL \notin All
    BY DistinctPools DEF Distinct
  <1>2. TypeOK
    <2>1. /\ list \in [next : [All -> All \cup {NULL}], prev : [All -> All \cup {NULL}],
                       pooltail : Pools \cup {NULL}]
          /\ freepool \in Pools \cup {NULL} /\ tmp \in All \cup {NULL}
      BY DEF Init
    <2>2. /\ pfree_count \in 0 .. MaxFree /\ leftsize \in [All -> 0 .. Area]
          /\ failed \in [All -> 0 .. FailedSkip] /\ total_leftsize \in Nat
      BY Sizes DEF Init
    <2>3. busy \in [All -> [BlockSizes -> Nat]] /\ larges \in [LargeSizes -> Nat]
      BY DEF Init
    <2> QED
      BY <1>1, <2>1, <2>2, <2>3 DEF Init, TypeOK
  <1>3. Pooled /\ DestroyFreesAll
    <2> DEFINE w == [i \in 1 .. 1 |-> Base]
               v == [i \in 1 .. 0 |-> Base]
    <2>1. Line(list, w, 1)
      BY <1>1 DEF Init, Line
    <2>2. Line(list, v, 0)
      BY DEF Line
    <2>3. w[1] = Base /\ On(w, 1) = {Base} /\ On(v, 0) = {}
      BY DEF On
    <2> HIDE DEF w, v
    <2>4. Lists(list, freepool, w, 1, v, 0)
      BY <2>1, <2>2, <2>3 DEF Lists, Init
    <2>5. InLists(list, freepool, 0, On(w, 1), On(w, 1) \cup On(v, 0))
      BY <2>4, TwoLists
    <2> QED
      BY <2>3, <2>5 DEF Init, Pooled, DestroyFreesAll
  <1>4. Unused /\ Locals
    BY DEF Init, Unused, Locals
  <1>5. Filled
    <2>1. busy[Base] \in [BlockSizes -> Nat] /\ \A s \in BlockSizes : busy[Base][s] = 0
      BY <1>1 DEF Init
    <2>2. Bytes(busy[Base], BlockSizes) = 0
      BY <2>1, FiniteSizes, BytesFacts
    <2>3. leftsize[Base] = Area /\ ht = {Base}
      BY <1>1 DEF Init
    <2> QED
      BY <2>2, <2>3, Sizes DEF Filled
  <1>6. IsFiniteSet({}) /\ Cardinality(ht) = 1 /\ ht = {Base}
    BY FS_EmptySet, FS_Singleton DEF Init
  <1>7. Totals
    <2>1. leftsize[Base] = Area /\ leftsize[Base] \in Int /\ total_leftsize = Area
      BY <1>1, Sizes DEF Init
    <2>2. SumFunctionOnSet(leftsize, {} \cup {Base}) = SumFunctionOnSet(leftsize, {}) + leftsize[Base]
      BY <1>6, <2>1, SumMore
    <2>3. SumFunctionOnSet(leftsize, {}) = 0
      BY <1>6, SumZero
    <2>4. total_leftsize = SumFunctionOnSet(leftsize, ht)
      BY <1>6, <2>1, <2>2, <2>3, Sizes
    <2>5. larges \in [LargeSizes -> Nat] /\ \A s \in LargeSizes : larges[s] = 0
      BY DEF Init
    <2>6. Bytes(larges, LargeSizes) = 0
      BY <2>5, FiniteSizes, BytesFacts
    <2>7. PoolSize * (Cardinality(ht) - 1) = 0
      BY <1>6, Sizes
    <2> QED
      BY <2>4, <2>6, <2>7 DEF Init, Totals
  <1>8. Limits
    <2>1. LargeSize(SingleMax) \in Nat \ {0}
      BY Sizes, LargeSizeGrows
    <2>2. PoolSize * Cardinality(ht) = PoolSize /\ total_alloced = 0
      BY <1>6, Sizes DEF Init
    <2> QED
      BY <2>1, <2>2, Sizes DEF Limits
  <1> QED
    BY <1>2, <1>3, <1>4, <1>5, <1>7, <1>8 DEF IInv

(* Every step keeps the invariant. *)
LEMMA StepInvariant ==
  ASSUME IInv, [Next]_vars
  PROVE  IInv'
  <1>1. ASSUME NEW n \in Requests, Palloc(n) PROVE IInv'
    BY <1>1, PallocStep
  <1>2. ASSUME NEW n \in Requests, PallocLarge(n) PROVE IInv'
    BY <1>2, PallocLargeStep
  <1>3. CASE SearchShort
    BY <1>3, SearchShortStep
  <1>4. CASE SearchUnfit
    BY <1>4, SearchUnfitStep
  <1>5. CASE SearchFound
    BY <1>5, SearchFoundStep
  <1>6. CASE SearchEnd
    BY <1>6, SearchEndStep
  <1>7. CASE Retry
    BY <1>7, RetryStep
  <1>8. CASE GrowRefused
    BY <1>8, GrowRefusedStep
  <1>9. CASE GrowCrash
    BY <1>9, GrowCrashStep
  <1>10. ASSUME NEW q \in Pools, Grow(q) PROVE IInv'
    BY <1>10, GrowStep
  <1>11. ASSUME NEW q \in All, NEW s \in BlockSizes, FreeBlock(q, s) PROVE IInv'
    BY <1>11, FreeBlockStep
  <1>12. ASSUME NEW q \in All, NEW s \in BlockSizes, FreeLast(q, s) PROVE IInv'
    BY <1>12, FreeLastStep
  <1>13. ASSUME NEW s \in BlockSizes, FreeLastOfBase(s) PROVE IInv'
    BY <1>13, FreeLastOfBaseStep
  <1>14. ASSUME NEW s \in LargeSizes, FreeLarge(s) PROVE IInv'
    BY <1>14, FreeLargeStep
  <1>15. CASE Destroy
    BY <1>15, DestroyStep
  <1>16. CASE UNCHANGED vars
    <2>1. UNCHANGED <<list, freepool, pfree_count, ht, heap, leftsize, failed, busy, larges,
                      total_alloced, total_leftsize, spc, req, tmp>>
      BY <1>16 DEF vars, poolVars, fillVars, totals, locals
    <2> QED
      BY <2>1 DEF IInv, TypeOK, Pooled, Unused, Filled, Totals, Limits, Locals, DestroyFreesAll
  <1> QED
    BY <1>1, <1>2, <1>3, <1>4, <1>5, <1>6, <1>7, <1>8, <1>9, <1>10, <1>11, <1>12, <1>13,
       <1>14, <1>15, <1>16 DEF Next, SearchStep

(***************************************************************************)
(* For any number of pools, any sizes and any limits: the list of pools is *)
(* what the hash table holds and is linked both ways up to pooltail, the   *)
(* pools kept for reuse are counted, empty and none is lost, the totals of *)
(* the base pool are exact, and mempool_destroy frees every pool.          *)
(***************************************************************************)
THEOREM PoolsCorrect == Spec => []PoolsOK
  <1>1. Init => IInv
    BY InitInvariant
  <1>2. IInv /\ [Next]_vars => IInv'
    BY StepInvariant
  <1>3. IInv => PoolsOK
    BY InvariantImplies
  <1> QED
    BY <1>1, <1>2, <1>3, PTL DEF Spec

(***************************************************************************)
(* For any number of pools, any sizes and any limits: the pools stay       *)
(* within max_memsize, one large block at most goes past it, and the table *)
(* of pools has a bucket for each pool that palloc adds.                   *)
(***************************************************************************)
THEOREM LimitCorrect == Spec => []LimitRespected
  <1>1. Init => IInv
    BY InitInvariant
  <1>2. IInv /\ [Next]_vars => IInv'
    BY StepInvariant
  <1>3. IInv => LimitRespected
    BY InvariantImplies
  <1> QED
    BY <1>1, <1>2, <1>3, PTL DEF Spec
=============================================================================
