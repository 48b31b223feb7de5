------------------------ MODULE EventDispatchProofs ------------------------
(***************************************************************************)
(* What TLAPS proves of module EventDispatch, for every set of events,     *)
(* threads and priorities and any number of calls: BaseOK, WakesInTime and *)
(* QuietWhenGone.                                                          *)
(***************************************************************************)
EXTENDS EventDispatch, Induction

-----------------------------------------------------------------------------
(* The heap, as the sequence v of the times of its slots *)

Times(h, key) == [k \in 1 .. Len(h) |-> key[h[k]]]

Ordered(v, n) == \A j \in 2 .. n : v[j \div 2] <= v[j]

(* What is below the slot i is not before what is above it. *)
Between(v, n, i) == i > 1 => \A j \in 2 .. n : j \div 2 = i => v[i \div 2] <= v[j]

(* Only slot i may be earlier than its parent. *)
Rising(v, n, i) ==
    /\ \A j \in 2 .. n : j # i => v[j \div 2] <= v[j]
    /\ Between(v, n, i)

(* Only slot i may be later than its children. *)
Sinking(v, n, i) ==
    /\ \A j \in 2 .. n : j \div 2 # i => v[j \div 2] <= v[j]
    /\ Between(v, n, i)

Exchange(v, i, j) == [v EXCEPT ![i] = v[j], ![j] = v[i]]

(* The parent of a slot. *)
LEMMA Half ==
  ASSUME NEW n \in Nat, NEW j \in 2 .. n
  PROVE  j \div 2 \in 1 .. n /\ j \div 2 < j /\ (2 * (j \div 2) = j \/ 2 * (j \div 2) + 1 = j)
  OBVIOUS

(* A slot that is earlier than its parent takes its place. *)
LEMMA Rises ==
  ASSUME NEW n \in Nat, NEW v \in [1 .. n -> Nat], NEW i \in 2 .. n,
         Rising(v, n, i), v[i \div 2] > v[i]
  PROVE  Rising(Exchange(v, i, i \div 2), n, i \div 2)
  <1> DEFINE a == i \div 2
             w == Exchange(v, i, a)
  <1>1. a \in 1 .. n /\ a < i
    BY Half
  <1>2. w \in [1 .. n -> Nat] /\ w[i] = v[a] /\ w[a] = v[i]
        /\ \A k \in 1 .. n : k # i /\ k # a => w[k] = v[k]
    <2>1. i \in 1 .. n
      OBVIOUS
    <2> HIDE DEF a
    <2> QED
      BY <1>1, <2>1 DEF w, Exchange
  <1>3. v[a] > v[i]
    OBVIOUS
  <1>4. \A j \in 2 .. n : j # i => v[j \div 2] <= v[j]
    BY DEF Rising
  <1>5. \A j \in 2 .. n : j \div 2 = i => v[a] <= v[j]
    BY DEF Rising, Between
  <1>6. \A j \in 2 .. n : j \div 2 \in 1 .. n /\ j \div 2 < j
    BY Half
  <1>7. i \div 2 = a
    OBVIOUS
  <1> HIDE DEF a, w
  <1>8. ASSUME NEW j \in 2 .. n, j # a PROVE w[j \div 2] <= w[j]
    <2> DEFINE b == j \div 2
    <2>1. b \in 1 .. n /\ b < j
      BY <1>6
    <2>2. CASE j = i
      BY <1>2, <1>3, <1>7, <2>2
    <2>3. CASE j # i /\ b = i
      BY <1>2, <1>5, <1>8, <2>3
    <2>4. CASE j # i /\ b = a
      <3>1. v[a] <= v[j]
        BY <1>4, <2>4
      <3>2. w[j] = v[j] /\ w[b] = v[i]
        <4>1. j \in 1 .. n /\ j # i /\ j # a /\ b = a
          BY <1>8, <2>4
        <4> HIDE DEF b
        <4> QED
          BY <1>2, <4>1
      <3>3. v[a] \in Nat /\ v[i] \in Nat /\ v[j] \in Nat
        BY <1>1
      <3> QED
        BY <1>3, <3>1, <3>2, <3>3
    <2>5. CASE j # i /\ b # i /\ b # a
      BY <1>2, <1>4, <1>8, <2>1, <2>5
    <2> QED
      BY <2>2, <2>3, <2>4, <2>5
  <1>9. ASSUME a > 1, NEW j \in 2 .. n, j \div 2 = a PROVE w[a \div 2] <= w[j]
    <2> DEFINE b == a \div 2
    <2>1. b \in 1 .. n /\ b < a /\ a \in 2 .. n
      BY <1>1, <1>6, <1>9
    <2>2. w[b] = v[b] /\ v[b] <= v[a]
      <3>1. a # i => v[b] <= v[a]
        BY <1>4, <2>1
      <3>2. a # i /\ b # a /\ b # i
        BY <1>1, <1>7, <2>1
      <3> HIDE DEF b
      <3> QED
        BY <1>2, <2>1, <3>1, <3>2
    <2>3. v[b] \in Nat /\ v[a] \in Nat /\ v[j] \in Nat
      BY <1>1, <2>1
    <2>4. CASE j = i
      BY <1>2, <2>2, <2>4
    <2>5. CASE j # i
      <3>1. v[a] <= v[j]
        BY <1>4, <1>9, <2>5
      <3>2. w[j] = v[j]
        BY <1>2, <1>6, <1>9, <2>5
      <3>3. v[b] <= v[j]
        <4> HIDE DEF b
        <4> QED
          BY <2>2, <2>3, <3>1
      <3> QED
        BY <2>2, <3>2, <3>3
    <2> QED
      BY <2>4, <2>5
  <1> QED
    BY <1>8, <1>9 DEF Rising, Between, w, a

(* A slot that is later than its earlier child gives way to it. *)
LEMMA Sinks ==
  ASSUME NEW n \in Nat, NEW v \in [1 .. n -> Nat], NEW c \in 2 .. n,
         Sinking(v, n, c \div 2), v[c \div 2] > v[c],
         \A j \in 2 .. n : j \div 2 = c \div 2 => v[c] <= v[j]
  PROVE  Sinking(Exchange(v, c \div 2, c), n, c)
  <1> DEFINE i == c \div 2
             w == Exchange(v, i, c)
  <1>1. i \in 1 .. n /\ i < c
    BY Half
  <1>2. w \in [1 .. n -> Nat] /\ w[i] = v[c] /\ w[c] = v[i]
        /\ \A k \in 1 .. n : k # i /\ k # c => w[k] = v[k]
    <2>1. c \in 1 .. n
      OBVIOUS
    <2> HIDE DEF i
    <2> QED
      BY <1>1, <2>1 DEF w, Exchange
  <1>3. v[i] > v[c] /\ \A j \in 2 .. n : j \div 2 = i => v[c] <= v[j]
    OBVIOUS
  <1>4. \A j \in 2 .. n : j \div 2 # i => v[j \div 2] <= v[j]
    BY DEF Sinking
  <1>5. i > 1 => \A j \in 2 .. n : j \div 2 = i => v[i \div 2] <= v[j]
    BY DEF Sinking, Between
  <1>6. \A j \in 2 .. n : j \div 2 \in 1 .. n /\ j \div 2 < j
    BY Half
  <1>7. c \div 2 = i
    OBVIOUS
  <1> HIDE DEF i, w
  <1>8. ASSUME NEW j \in 2 .. n, j \div 2 # c PROVE w[j \div 2] <= w[j]
    <2> DEFINE b == j \div 2
    <2>1. b \in 1 .. n /\ b < j
      BY <1>6
    <2>2. CASE j = c
      <3>1. w[b] = v[c] /\ w[j] = v[i] /\ v[c] \in Nat /\ v[i] \in Nat
        <4>1. b = i
          BY <1>7, <2>2
        <4> HIDE DEF b
        <4> QED
          BY <1>1, <1>2, <2>2, <4>1
      <3> QED
        BY <1>3, <3>1
    <2>3. CASE j # c /\ b = i
      <3>1. w[b] = v[c] /\ w[j] = v[j]
        <4>1. j \in 1 .. n /\ j # i
          BY <2>1, <2>3
        <4> HIDE DEF b
        <4> QED
          BY <1>1, <1>2, <2>3, <4>1
      <3> QED
        BY <1>3, <2>3, <3>1
    <2>4. CASE j = i
      <3>1. w[b] = v[b] /\ w[j] = v[c]
        BY <1>1, <1>2, <2>1, <2>4
      <3>2. v[b] <= v[c]
        BY <1>5, <1>7, <2>4
      <3> QED
        BY <3>1, <3>2
    <2>5. CASE j # c /\ b # i /\ j # i
      <3>1. v[b] <= v[j] /\ b # c
        BY <1>4, <1>8, <2>5
      <3>2. j \in 1 .. n
        OBVIOUS
      <3>3. w[b] = v[b] /\ w[j] = v[j]
        <4> HIDE DEF b
        <4> QED
          BY <1>2, <2>1, <2>5, <3>1, <3>2
      <3> QED
        BY <3>1, <3>3
    <2> QED
      BY <2>2, <2>3, <2>4, <2>5
  <1>9. ASSUME NEW j \in 2 .. n, j \div 2 = c PROVE w[c \div 2] <= w[j]
    <2>1. w[c \div 2] = v[c]
      BY <1>2, <1>7
    <2>2. v[c] <= v[j]
      <3>1. j \div 2 # i
        BY <1>1, <1>9
      <3> QED
        BY <1>4, <1>9, <3>1
    <2>3. w[j] = v[j]
      BY <1>1, <1>2, <1>6, <1>9
    <2> QED
      BY <2>1, <2>2, <2>3
  <1> QED
    BY <1>8, <1>9 DEF Sinking, Between, w, i

(* No slot is earlier than the root. *)
LEMMA RootFirst ==
  ASSUME NEW n \in Nat, NEW v \in [1 .. n -> Nat], Ordered(v, n)
  PROVE  \A j \in 1 .. n : v[1] <= v[j]
  <1> DEFINE P == {m \in Nat : \A j \in 1 .. n : j <= m => v[1] <= v[j]}
  <1>1. 0 \in P
    OBVIOUS
  <1>2. ASSUME NEW m \in Nat, m \in P PROVE m + 1 \in P
    <2> SUFFICES ASSUME NEW j \in 1 .. n, j <= m + 1 PROVE v[1] <= v[j]
      OBVIOUS
    <2>1. CASE j <= m
      BY <1>2, <2>1
    <2>2. CASE j = 1
      BY <2>2
    <2>3. CASE j > 1 /\ j > m
      <3>1. j \div 2 \in 1 .. n /\ j \div 2 <= m /\ j \in 2 .. n
        BY <2>3, Half
      <3>2. v[1] <= v[j \div 2] /\ v[j \div 2] <= v[j]
        BY <1>2, <3>1 DEF Ordered
      <3>3. v[1] \in Nat /\ v[j \div 2] \in Nat /\ v[j] \in Nat
        BY <3>1
      <3> QED
        BY <3>2, <3>3
    <2> QED
      BY <2>1, <2>2, <2>3
  <1> HIDE DEF P
  <1>3. \A m \in Nat : m \in P
    BY <1>1, <1>2, EveryNatural
  <1> QED
    BY <1>3 DEF P

(* The times of a heap. *)
LEMMA TimesAre ==
  ASSUME NEW S, NEW h \in Seq(S), NEW key \in [S -> Nat]
  PROVE  /\ Times(h, key) \in [1 .. Len(h) -> Nat] /\ Len(h) \in Nat
         /\ \A k \in 1 .. Len(h) : Times(h, key)[k] = key[h[k]]
         /\ IsHeap(h, key) <=> Ordered(Times(h, key), Len(h))
  <1>1. Len(h) \in Nat /\ \A k \in 1 .. Len(h) : h[k] \in S
    BY Places
  <1>2. /\ Times(h, key) \in [1 .. Len(h) -> Nat]
        /\ \A k \in 1 .. Len(h) : Times(h, key)[k] = key[h[k]]
    BY <1>1 DEF Times
  <1>3. \A j \in 2 .. Len(h) : j \in 1 .. Len(h) /\ j \div 2 \in 1 .. Len(h)
    BY <1>1, Half
  <1> QED
    BY <1>1, <1>2, <1>3 DEF IsHeap, Ordered

(* A list as a function. *)
OneToOne(h, S, n, T) ==
    /\ h \in [1 .. n -> S] /\ T = {h[k] : k \in 1 .. n}
    /\ \A k, m \in 1 .. n : h[k] = h[m] => k = m

(* It is one. *)
LEMMA ListIs ==
  ASSUME NEW S, NEW n \in Nat, NEW T, NEW h
  PROVE  IsList(h, S, n, T) <=> OneToOne(h, S, n, T)
  <1>1. ASSUME IsList(h, S, n, T)
        PROVE  /\ h \in [1 .. n -> S] /\ T = {h[k] : k \in 1 .. n}
               /\ \A k, m \in 1 .. n : h[k] = h[m] => k = m
    <2>1. h \in Seq(S) /\ Len(h) = n
      BY <1>1 DEF IsList
    <2>2. h \in [1 .. n -> S] /\ DOMAIN h = 1 .. n
      BY <2>1, LenProperties
    <2> QED
      BY <1>1, <2>2 DEF IsList, ToSet, IsInjective
  <1>2. ASSUME h \in [1 .. n -> S], T = {h[k] : k \in 1 .. n},
               \A k, m \in 1 .. n : h[k] = h[m] => k = m
        PROVE  IsList(h, S, n, T)
    <2>1. h \in Seq(S) /\ DOMAIN h = 1 .. n
      BY <1>2, SeqDef
    <2>2. Len(h) = n
      BY <2>1, LenProperties
    <2> QED
      BY <1>2, <2>1, <2>2 DEF IsList, ToSet, IsInjective
  <1> QED
    BY <1>1, <1>2 DEF OneToOne

(* Exchanging two of its elements. *)
LEMMA ListExchange ==
  ASSUME NEW S, NEW T, NEW n \in Nat, NEW h, IsList(h, S, n, T),
         NEW i \in 1 .. n, NEW j \in 1 .. n
  PROVE  IsList(Exchange(h, i, j), S, n, T)
  <1> DEFINE r == Exchange(h, i, j)
             to(k) == IF k = i THEN j ELSE IF k = j THEN i ELSE k
  <1>1. /\ h \in [1 .. n -> S] /\ T = {h[k] : k \in 1 .. n}
        /\ \A k, m \in 1 .. n : h[k] = h[m] => k = m
    <2>1. OneToOne(h, S, n, T)
      BY ListIs
    <2> QED
      BY <2>1 DEF OneToOne
  <1>2. /\ r \in [1 .. n -> S] /\ r[i] = h[j] /\ r[j] = h[i]
        /\ \A k \in 1 .. n : k # i /\ k # j => r[k] = h[k]
    BY <1>1 DEF Exchange
  <1>3. \A k \in 1 .. n : to(k) \in 1 .. n /\ to(to(k)) = k
    OBVIOUS
  <1> HIDE DEF r
  <1>4. \A k \in 1 .. n : r[k] = h[to(k)]
    BY <1>2
  <1> HIDE DEF to
  <1>5. \A k, m \in 1 .. n : r[k] = r[m] => k = m
    <2> SUFFICES ASSUME NEW k \in 1 .. n, NEW m \in 1 .. n, r[k] = r[m] PROVE k = m
      OBVIOUS
    <2>1. to(k) = to(m)
      BY <1>1, <1>3, <1>4
    <2> QED
      BY <1>3, <2>1
  <1>6. T = {r[k] : k \in 1 .. n}
    <2>1. \A k \in 1 .. n : h[k] = r[to(k)]
      BY <1>3, <1>4
    <2> QED
      BY <1>1, <1>3, <1>4, <2>1
  <1>7. OneToOne(r, S, n, T)
    BY <1>2, <1>5, <1>6 DEF OneToOne
  <1> QED
    BY <1>7, ListIs DEF r

(* A heap over T with one slot out of place, n slots. *)
Holed(S, n) == [heap : Seq(S), hole : 1 .. n]

(* After k turns of min_heap_shift_up_ it is in order, or the hole has risen. *)
Climbing(p, k, S, n, T, key) ==
    /\ p \in Holed(S, n) /\ IsList(p.heap, S, n, T)
    /\ Rising(Times(p.heap, key), n, p.hole)
    /\ Ordered(Times(p.heap, key), n) \/ p.hole + k <= n

(* After k turns of min_heap_shift_down_ it is in order, or the hole has sunk. *)
Falling(p, k, S, n, T, key) ==
    /\ p \in Holed(S, n) /\ IsList(p.heap, S, n, T)
    /\ Sinking(Times(p.heap, key), n, p.hole)
    /\ Ordered(Times(p.heap, key), n) \/ k < p.hole

(* The hole has moved to slot j, the times of the two slots are exchanged. *)
MovesTo(p, q, j, S, n, T, key) ==
    /\ q \in Holed(S, n) /\ q.hole = j /\ IsList(q.heap, S, n, T)
    /\ Times(q.heap, key) = Exchange(Times(p.heap, key), p.hole, j)

(* What a hole leaves behind. *)
LEMMA MovedIs ==
  ASSUME NEW S, NEW T, NEW n \in Nat, NEW key \in [S -> Nat],
         NEW p \in Holed(S, n), IsList(p.heap, S, n, T), NEW j \in 1 .. n
  PROVE  MovesTo(p, Moved(p, j), j, S, n, T, key)
  <1> DEFINE h == p.heap
             i == p.hole
             r == Exchange(h, i, j)
             v == Times(h, key)
  <1>1. i \in 1 .. n /\ h \in Seq(S) /\ Len(h) = n
    BY DEF Holed, IsList
  <1>2. Moved(p, j) = [heap |-> r, hole |-> j]
    BY DEF Moved, Exchange
  <1>3. IsList(r, S, n, T)
    BY <1>1, ListExchange
  <1>4. r \in Seq(S) /\ Len(r) = n
    BY <1>3 DEF IsList
  <1>5. Times(r, key) = Exchange(v, i, j)
    <2>1. /\ Times(r, key) \in [1 .. n -> Nat] /\ v \in [1 .. n -> Nat]
          /\ \A k \in 1 .. n : Times(r, key)[k] = key[r[k]] /\ v[k] = key[h[k]]
      <3> HIDE DEF h, r
      <3>1. /\ Times(r, key) \in [1 .. n -> Nat]
            /\ \A k \in 1 .. n : Times(r, key)[k] = key[r[k]]
        BY <1>4, TimesAre
      <3>2. v \in [1 .. n -> Nat] /\ \A k \in 1 .. n : v[k] = key[h[k]]
        BY <1>1, TimesAre
      <3> QED
        BY <3>1, <3>2
    <2>2. /\ r[i] = h[j] /\ r[j] = h[i]
          /\ \A k \in 1 .. n : k # i /\ k # j => r[k] = h[k]
      <3>1. h \in [1 .. n -> S]
        BY ListIs DEF OneToOne
      <3> HIDE DEF h, i, r
      <3> QED
        BY <1>1, <3>1 DEF Exchange, r
    <2> HIDE DEF h, i, r, v
    <2>3. /\ Exchange(v, i, j) \in [1 .. n -> Nat]
          /\ Exchange(v, i, j)[i] = v[j] /\ Exchange(v, i, j)[j] = v[i]
          /\ \A k \in 1 .. n : k # i /\ k # j => Exchange(v, i, j)[k] = v[k]
      BY <1>1, <2>1 DEF Exchange
    <2>4. \A k \in 1 .. n : Times(r, key)[k] = Exchange(v, i, j)[k]
      <3> SUFFICES ASSUME NEW k \in 1 .. n PROVE Times(r, key)[k] = Exchange(v, i, j)[k]
        OBVIOUS
      <3>1. Times(r, key)[k] = key[r[k]] /\ v[k] = key[h[k]] /\ v[i] = key[h[i]]
            /\ v[j] = key[h[j]]
        BY <1>1, <2>1
      <3>2. CASE k = i
        BY <2>2, <2>3, <3>1, <3>2
      <3>3. CASE k = j
        BY <2>2, <2>3, <3>1, <3>3
      <3>4. CASE k # i /\ k # j
        BY <2>2, <2>3, <3>1, <3>4
      <3> QED
        BY <3>2, <3>3, <3>4
    <2> QED
      BY <2>1, <2>3, <2>4
  <1> QED
    BY <1>1, <1>2, <1>3, <1>4, <1>5 DEF Holed, MovesTo

(* One turn up. *)
LEMMA UpTurn ==
  ASSUME NEW S, NEW T, NEW n \in Nat, NEW key \in [S -> Nat], NEW k \in 0 .. n - 1,
         NEW p, Climbing(p, k, S, n, T, key)
  PROVE  Climbing(Up(p, key), k + 1, S, n, T, key)
  <1> DEFINE h == p.heap
             i == p.hole
             a == i \div 2
             v == Times(h, key)
  <1>1. /\ p \in Holed(S, n) /\ i \in 1 .. n /\ IsList(h, S, n, T) /\ h \in Seq(S)
        /\ Len(h) = n /\ Rising(v, n, i) /\ (Ordered(v, n) \/ i + k <= n)
    BY DEF Climbing, Holed, IsList
  <1>2. /\ v \in [1 .. n -> Nat] /\ \A m \in 1 .. n : v[m] = key[h[m]]
    BY <1>1, TimesAre
  <1>3. i > 1 => i \in 2 .. n /\ a \in 1 .. n /\ a < i
    <2>1. i > 1 => i \in 2 .. n
      BY <1>1
    <2> HIDE DEF i
    <2> QED
      BY <2>1, Half
  <1>4. CASE i > 1 /\ v[a] > v[i]
    <2>1. Up(p, key) = Moved(p, a)
      BY <1>1, <1>2, <1>3, <1>4 DEF Up
    <2>2. /\ Moved(p, a) \in Holed(S, n) /\ Moved(p, a).hole = a
          /\ IsList(Moved(p, a).heap, S, n, T)
          /\ Times(Moved(p, a).heap, key) = Exchange(v, i, a)
      <3>1. a \in 1 .. n
        BY <1>3, <1>4
      <3>2. MovesTo(p, Moved(p, a), a, S, n, T, key)
        <4> HIDE DEF a
        <4> QED
          BY <1>1, <3>1, MovedIs
      <3> QED
        BY <3>2 DEF MovesTo
    <2>3. Rising(Exchange(v, i, a), n, a)
      <3> HIDE DEF i, v
      <3> QED
        BY <1>1, <1>2, <1>3, <1>4, Rises
    <2>4. a + (k + 1) <= n
      <3>1. ~Ordered(v, n)
        <4>1. ~(v[a] <= v[i])
          <5>1. v[a] \in Nat /\ v[i] \in Nat
            BY <1>1, <1>2, <1>3, <1>4
          <5> QED
            BY <1>4, <5>1
        <4> QED
          BY <1>3, <1>4, <4>1 DEF Ordered
      <3> HIDE DEF v, i, a
      <3> QED
        BY <1>1, <1>3, <1>4, <3>1
    <2> QED
      BY <2>1, <2>2, <2>3, <2>4 DEF Climbing
  <1>5. CASE ~(i > 1 /\ v[a] > v[i])
    <2>1. Up(p, key) = p
      BY <1>1, <1>2, <1>3, <1>5 DEF Up
    <2>2. Ordered(v, n)
      <3> SUFFICES ASSUME NEW j \in 2 .. n PROVE v[j \div 2] <= v[j]
        BY DEF Ordered
      <3>1. CASE j # i
        BY <1>1, <3>1 DEF Rising
      <3>2. CASE j = i
        <4>1. i > 1 /\ ~(v[a] > v[i]) /\ v[a] \in Nat /\ v[i] \in Nat
          BY <1>2, <1>3, <1>5, <3>2
        <4> QED
          BY <3>2, <4>1
      <3> QED
        BY <3>1, <3>2
    <2> QED
      BY <1>1, <2>1, <2>2 DEF Climbing
  <1> QED
    BY <1>4, <1>5

(* One turn down. *)
LEMMA DownTurn ==
  ASSUME NEW S, NEW T, NEW n \in Nat, NEW key \in [S -> Nat], NEW k \in 0 .. n - 1,
         NEW p, Falling(p, k, S, n, T, key)
  PROVE  Falling(Down(p, key), k + 1, S, n, T, key)
  <1> DEFINE h == p.heap
             i == p.hole
             c == MinChild(h, key, i)
             v == Times(h, key)
  <1>1. /\ p \in Holed(S, n) /\ i \in 1 .. n /\ IsList(h, S, n, T) /\ h \in Seq(S)
        /\ Len(h) = n /\ Sinking(v, n, i) /\ (Ordered(v, n) \/ k < i)
    BY DEF Falling, Holed, IsList
  <1>2. /\ v \in [1 .. n -> Nat] /\ \A m \in 1 .. n : v[m] = key[h[m]]
    BY <1>1, TimesAre
  <1>3. ASSUME 2 * i <= n
        PROVE  /\ c \in 2 .. n /\ c \div 2 = i
               /\ \A j \in 2 .. n : j \div 2 = i => v[c] <= v[j]
    <2> DEFINE l == 2 * i
    <2>1. /\ l \in 2 .. n /\ l \div 2 = i /\ (l # n => l + 1 \in 2 .. n /\ (l + 1) \div 2 = i)
      <3> HIDE DEF i
      <3> QED
        BY <1>1, <1>3
    <2>2. \A j \in 2 .. n : j \div 2 = i => j = l \/ (l # n /\ j = l + 1)
      <3> HIDE DEF i
      <3> QED
        BY <1>1
    <2>3. c = IF l = n \/ key[h[l + 1]] > key[h[l]] THEN l ELSE l + 1
      BY <1>1 DEF MinChild
    <2> HIDE DEF l, c, i, h, v
    <2>4. l \in 1 .. n /\ (l # n => l + 1 \in 1 .. n)
      BY <2>1
    <2>5. v[l] \in Nat /\ (l # n => v[l + 1] \in Nat)
      BY <1>2, <2>4
    <2>6. c = IF l = n \/ v[l + 1] > v[l] THEN l ELSE l + 1
      <3>1. l # n => v[l + 1] = key[h[l + 1]] /\ v[l] = key[h[l]]
        BY <1>2, <2>4
      <3> QED
        BY <2>3, <3>1
    <2>7. CASE l = n \/ v[l + 1] > v[l]
      <3>1. c = l
        BY <2>6, <2>7
      <3>2. \A j \in 2 .. n : j \div 2 = i => v[c] <= v[j]
        BY <2>2, <2>5, <2>7, <3>1
      <3> QED
        BY <2>1, <3>1, <3>2
    <2>8. CASE ~(l = n \/ v[l + 1] > v[l])
      <3>1. c = l + 1 /\ v[l + 1] <= v[l]
        BY <2>5, <2>6, <2>8
      <3>2. \A j \in 2 .. n : j \div 2 = i => v[c] <= v[j]
        BY <2>2, <2>5, <3>1
      <3> QED
        BY <2>1, <2>8, <3>1, <3>2
    <2> QED
      BY <2>7, <2>8
  <1>4. CASE 2 * i <= n /\ v[i] > v[c]
    <2>1. Down(p, key) = Moved(p, c)
      <3>1. c \in 1 .. n
        BY <1>3, <1>4
      <3>2. v[i] = key[h[i]] /\ v[c] = key[h[c]]
        BY <1>1, <1>2, <3>1
      <3> HIDE DEF c, v
      <3> QED
        BY <1>1, <1>4, <3>2 DEF Down, c
    <2>2. /\ c \in 2 .. n /\ c \in 1 .. n /\ i < c
      <3>1. c \in 2 .. n /\ c \div 2 = i
        BY <1>3, <1>4
      <3> HIDE DEF c, i
      <3> QED
        BY <3>1
    <2>3. /\ Moved(p, c) \in Holed(S, n) /\ Moved(p, c).hole = c
          /\ IsList(Moved(p, c).heap, S, n, T)
          /\ Times(Moved(p, c).heap, key) = Exchange(v, i, c)
      <3>1. MovesTo(p, Moved(p, c), c, S, n, T, key)
        <4> HIDE DEF c
        <4> QED
          BY <1>1, <2>2, MovedIs
      <3> QED
        BY <3>1 DEF MovesTo
    <2>4. Sinking(Exchange(v, i, c), n, c)
      <3>1. c \div 2 = i /\ \A j \in 2 .. n : j \div 2 = i => v[c] <= v[j]
        BY <1>3, <1>4
      <3> HIDE DEF i, v, c
      <3> QED
        BY <1>1, <1>2, <1>4, <2>2, <3>1, Sinks
    <2>5. k + 1 < c
      <3>1. ~Ordered(v, n)
        <4>1. c \div 2 = i
          BY <1>3, <1>4
        <4>2. ~(v[i] <= v[c])
          <5>1. v[c] \in Nat /\ v[i] \in Nat
            BY <1>1, <1>2, <2>2
          <5> QED
            BY <1>4, <5>1
        <4> QED
          BY <2>2, <4>1, <4>2 DEF Ordered
      <3> HIDE DEF v, i, c
      <3> QED
        BY <1>1, <2>2, <3>1
    <2> QED
      BY <2>1, <2>3, <2>4, <2>5 DEF Falling
  <1>5. CASE ~(2 * i <= n /\ v[i] > v[c])
    <2>1. Down(p, key) = p
      <3>1. CASE ~(2 * i <= n)
        BY <1>1, <3>1 DEF Down
      <3>2. CASE 2 * i <= n
        <4>1. c \in 1 .. n
          BY <1>3, <3>2
        <4>2. v[i] = key[h[i]] /\ v[c] = key[h[c]]
          BY <1>1, <1>2, <4>1
        <4>3. ~(v[i] > v[c])
          BY <1>5, <3>2
        <4> HIDE DEF c, v
        <4> QED
          BY <1>1, <4>2, <4>3 DEF Down, c
      <3> QED
        BY <3>1, <3>2
    <2>2. Ordered(v, n)
      <3> SUFFICES ASSUME NEW j \in 2 .. n PROVE v[j \div 2] <= v[j]
        BY DEF Ordered
      <3>1. CASE j \div 2 # i
        BY <1>1, <3>1 DEF Sinking
      <3>2. CASE j \div 2 = i
        <4>1. 2 * i <= n
          <5> HIDE DEF i
          <5> QED
            BY <1>1, <3>2
        <4>2. c \in 1 .. n /\ i \in 1 .. n /\ j \in 1 .. n
          BY <1>1, <1>3, <4>1
        <4>3. v[c] \in Nat /\ v[i] \in Nat /\ v[j] \in Nat
          <5> HIDE DEF v, c, i
          <5> QED
            BY <1>2, <4>2
        <4>4. v[c] <= v[j]
          BY <1>3, <3>2, <4>1
        <4>5. ~(v[i] > v[c])
          BY <1>5, <4>1
        <4> HIDE DEF v, c, i
        <4> QED
          BY <3>2, <4>3, <4>4, <4>5
      <3> QED
        BY <3>1, <3>2
    <2> QED
      BY <1>1, <2>1, <2>2 DEF Falling
  <1> QED
    BY <1>4, <1>5

(* Shifting up ends in a heap. *)
LEMMA ShiftUp ==
  ASSUME NEW S, NEW T, NEW n \in Nat, NEW key \in [S -> Nat], NEW h \in Seq(S), Len(h) = n,
         NEW hole \in 1 .. n, NEW e, IsList([h EXCEPT ![hole] = e], S, n, T),
         Rising(Times([h EXCEPT ![hole] = e], key), n, hole)
  PROVE  /\ IsList(min_heap_shift_up_(h, key, hole, e), S, n, T)
         /\ IsHeap(min_heap_shift_up_(h, key, hole, e), key)
  <1> DEFINE N == Len(h)
             S0 == [heap |-> [h EXCEPT ![hole] = e], hole |-> hole]
             Turn(i, x) == Up(x, key)
             Eq(f) == f = [i \in 0 .. N |->
                             IF i = 0 THEN [heap |-> [h EXCEPT ![hole] = e], hole |-> hole]
                             ELSE Up(f[i - 1], key)]
             t == CHOOSE f : Eq(f)
             K == {p \in Nat \X Holed(S, n) : p[1] <= N /\ Climbing(p[2], p[1], S, n, T, key)}
             g == [p \in (1 .. N) \X Holed(S, n) |-> Turn(p[1], p[2])]
  <1>1. N \in Nat /\ N = n
    OBVIOUS
  <1>2. Climbing(S0, 0, S, n, T, key) /\ S0 \in Holed(S, n)
    <2>1. S0 \in Holed(S, n)
      BY DEF Holed, IsList
    <2> QED
      BY <2>1 DEF Climbing
  <1>3. \A i \in 1 .. N, x \in Holed(S, n) :
          Climbing(x, i - 1, S, n, T, key)
              => Climbing(Turn(i, x), i, S, n, T, key) /\ Turn(i, x) \in Holed(S, n)
    <2> SUFFICES ASSUME NEW i \in 1 .. N, NEW x \in Holed(S, n), Climbing(x, i - 1, S, n, T, key)
                 PROVE  Climbing(Turn(i, x), i, S, n, T, key) /\ Turn(i, x) \in Holed(S, n)
      OBVIOUS
    <2>1. Climbing(Up(x, key), i, S, n, T, key)
      <3> DEFINE k == i - 1
      <3>1. k \in 0 .. n - 1 /\ k + 1 = i
        BY <1>1
      <3>2. Climbing(x, k, S, n, T, key)
        OBVIOUS
      <3> HIDE DEF k
      <3>3. Climbing(Up(x, key), k + 1, S, n, T, key)
        BY <3>1, <3>2, UpTurn
      <3> QED
        BY <3>1, <3>3
    <2> HIDE DEF Climbing
    <2>2. Up(x, key) \in Holed(S, n)
      BY <2>1 DEF Climbing
    <2> QED
      BY <2>1, <2>2
  <1>4. \A f : Eq(f) <=> f = [i \in 0 .. N |-> IF i = 0 THEN S0 ELSE Turn(i, f[i - 1])]
    OBVIOUS
  <1> HIDE DEF N, S0, Turn, Eq
  <1>5. \A i \in 1 .. N, x \in Holed(S, n) : g[<<i, x>>] = Turn(i, x)
    OBVIOUS
  <1> HIDE DEF g
  <1>6. Keeping(N, S0, g, Holed(S, n), K)
    <2>1. <<0, S0>> \in K
      BY <1>1, <1>2
    <2>2. \A i \in Nat : \A x : <<i, x>> \in K => x \in Holed(S, n)
      OBVIOUS
    <2>3. ASSUME NEW i \in 1 .. N, NEW x \in Holed(S, n), <<i - 1, x>> \in K
          PROVE  <<i, g[<<i, x>>]>> \in K
      <3>1. Climbing(x, i - 1, S, n, T, key)
        BY <2>3
      <3>2. Climbing(Turn(i, x), i, S, n, T, key) /\ Turn(i, x) \in Holed(S, n)
        BY <1>3, <3>1
      <3>3. i \in Nat /\ i <= N
        BY <1>1
      <3> QED
        BY <1>5, <3>2, <3>3
    <2> HIDE DEF K
    <2> QED
      BY <2>1, <2>2, <2>3 DEF Keeping
  <1>7. PICK f : /\ f = [i \in 0 .. N |-> IF i = 0 THEN S0 ELSE g[<<i, f[i - 1]>>]]
                  /\ \A i \in 1 .. N : f[i - 1] \in Holed(S, n) /\ f[i] = g[<<i, f[i - 1]>>]
    <2> HIDE DEF K
    <2> QED
      BY <1>1, <1>6, LoopValues
  <1>8. Eq(f)
    <2>1. \A i \in 0 .. N : i # 0 => i \in 1 .. N
      BY <1>1
    <2>2. \A i \in 0 .. N : (IF i = 0 THEN S0 ELSE g[<<i, f[i - 1]>>])
                          = (IF i = 0 THEN S0 ELSE Turn(i, f[i - 1]))
      BY <1>5, <1>7, <2>1
    <2>3. f = [i \in 0 .. N |-> IF i = 0 THEN S0 ELSE Turn(i, f[i - 1])]
      BY <1>7, <2>2
    <2> QED
      BY <1>4, <2>3
  <1>9. Eq(t)
    BY <1>8
  <1>10. Climbing(t[N], N, S, n, T, key)
    <2> HIDE DEF t
    <2>1. Going(N, S0, g, Holed(S, n), t)
      <3>1. t[0] = S0 /\ \A i \in 1 .. N : t[i] = Turn(i, t[i - 1])
        BY <1>1, <1>4, <1>9
      <3> QED
        BY <1>5, <3>1 DEF Going
    <2>2. <<N, t[N]>> \in K
      <3> HIDE DEF K
      <3> QED
        BY <1>1, <1>6, <2>1, LoopStays
    <2> QED
      BY <2>2
  <1>11. min_heap_shift_up_(h, key, hole, e) = t[N].heap
    BY DEF min_heap_shift_up_, t, Eq, N
  <1> DEFINE r == t[N]
  <1>12. Climbing(r, n, S, n, T, key)
    BY <1>1, <1>10
  <1> HIDE DEF r
  <1>13. Ordered(Times(r.heap, key), n) /\ IsList(r.heap, S, n, T)
    BY <1>12 DEF Climbing, Holed
  <1>14. r.heap \in Seq(S) /\ Len(r.heap) = n
    BY <1>13 DEF IsList
  <1>15. IsHeap(r.heap, key)
    BY <1>13, <1>14, TimesAre
  <1> QED
    BY <1>11, <1>13, <1>15 DEF r

(* Shifting down ends in a heap. *)
LEMMA ShiftDown ==
  ASSUME NEW S, NEW T, NEW n \in Nat, NEW key \in [S -> Nat], NEW h \in Seq(S), Len(h) = n,
         NEW hole \in 1 .. n, NEW e, IsList([h EXCEPT ![hole] = e], S, n, T),
         Sinking(Times([h EXCEPT ![hole] = e], key), n, hole)
  PROVE  /\ IsList(min_heap_shift_down_(h, key, hole, e), S, n, T)
         /\ IsHeap(min_heap_shift_down_(h, key, hole, e), key)
  <1> DEFINE N == Len(h)
             S0 == [heap |-> [h EXCEPT ![hole] = e], hole |-> hole]
             Turn(i, x) == Down(x, key)
             Eq(f) == f = [i \in 0 .. N |->
                             IF i = 0 THEN [heap |-> [h EXCEPT ![hole] = e], hole |-> hole]
                             ELSE Down(f[i - 1], key)]
             t == CHOOSE f : Eq(f)
             K == {p \in Nat \X Holed(S, n) : p[1] <= N /\ Falling(p[2], p[1], S, n, T, key)}
             g == [p \in (1 .. N) \X Holed(S, n) |-> Turn(p[1], p[2])]
  <1>1. N \in Nat /\ N = n
    OBVIOUS
  <1>2. Falling(S0, 0, S, n, T, key) /\ S0 \in Holed(S, n)
    <2>1. S0 \in Holed(S, n)
      BY DEF Holed, IsList
    <2> QED
      BY <2>1 DEF Falling
  <1>3. \A i \in 1 .. N, x \in Holed(S, n) :
          Falling(x, i - 1, S, n, T, key)
              => Falling(Turn(i, x), i, S, n, T, key) /\ Turn(i, x) \in Holed(S, n)
    <2> SUFFICES ASSUME NEW i \in 1 .. N, NEW x \in Holed(S, n), Falling(x, i - 1, S, n, T, key)
                 PROVE  Falling(Turn(i, x), i, S, n, T, key) /\ Turn(i, x) \in Holed(S, n)
      OBVIOUS
    <2>1. Falling(Down(x, key), i, S, n, T, key)
      <3> DEFINE k == i - 1
      <3>1. k \in 0 .. n - 1 /\ k + 1 = i
        BY <1>1
      <3>2. Falling(x, k, S, n, T, key)
        OBVIOUS
      <3> HIDE DEF k
      <3>3. Falling(Down(x, key), k + 1, S, n, T, key)
        BY <3>1, <3>2, DownTurn
      <3> QED
        BY <3>1, <3>3
    <2> HIDE DEF Falling
    <2>2. Down(x, key) \in Holed(S, n)
      BY <2>1 DEF Falling
    <2> QED
      BY <2>1, <2>2
  <1>4. \A f : Eq(f) <=> f = [i \in 0 .. N |-> IF i = 0 THEN S0 ELSE Turn(i, f[i - 1])]
    OBVIOUS
  <1> HIDE DEF N, S0, Turn, Eq
  <1>5. \A i \in 1 .. N, x \in Holed(S, n) : g[<<i, x>>] = Turn(i, x)
    OBVIOUS
  <1> HIDE DEF g
  <1>6. Keeping(N, S0, g, Holed(S, n), K)
    <2>1. <<0, S0>> \in K
      BY <1>1, <1>2
    <2>2. \A i \in Nat : \A x : <<i, x>> \in K => x \in Holed(S, n)
      OBVIOUS
    <2>3. ASSUME NEW i \in 1 .. N, NEW x \in Holed(S, n), <<i - 1, x>> \in K
          PROVE  <<i, g[<<i, x>>]>> \in K
      <3>1. Falling(x, i - 1, S, n, T, key)
        BY <2>3
      <3>2. Falling(Turn(i, x), i, S, n, T, key) /\ Turn(i, x) \in Holed(S, n)
        BY <1>3, <3>1
      <3>3. i \in Nat /\ i <= N
        BY <1>1
      <3> QED
        BY <1>5, <3>2, <3>3
    <2> HIDE DEF K
    <2> QED
      BY <2>1, <2>2, <2>3 DEF Keeping
  <1>7. PICK f : /\ f = [i \in 0 .. N |-> IF i = 0 THEN S0 ELSE g[<<i, f[i - 1]>>]]
                  /\ \A i \in 1 .. N : f[i - 1] \in Holed(S, n) /\ f[i] = g[<<i, f[i - 1]>>]
    <2> HIDE DEF K
    <2> QED
      BY <1>1, <1>6, LoopValues
  <1>8. Eq(f)
    <2>1. \A i \in 0 .. N : i # 0 => i \in 1 .. N
      BY <1>1
    <2>2. \A i \in 0 .. N : (IF i = 0 THEN S0 ELSE g[<<i, f[i - 1]>>])
                          = (IF i = 0 THEN S0 ELSE Turn(i, f[i - 1]))
      BY <1>5, <1>7, <2>1
    <2>3. f = [i \in 0 .. N |-> IF i = 0 THEN S0 ELSE Turn(i, f[i - 1])]
      BY <1>7, <2>2
    <2> QED
      BY <1>4, <2>3
  <1>9. Eq(t)
    BY <1>8
  <1>10. Falling(t[N], N, S, n, T, key)
    <2> HIDE DEF t
    <2>1. Going(N, S0, g, Holed(S, n), t)
      <3>1. t[0] = S0 /\ \A i \in 1 .. N : t[i] = Turn(i, t[i - 1])
        BY <1>1, <1>4, <1>9
      <3> QED
        BY <1>5, <3>1 DEF Going
    <2>2. <<N, t[N]>> \in K
      <3> HIDE DEF K
      <3> QED
        BY <1>1, <1>6, <2>1, LoopStays
    <2> QED
      BY <2>2
  <1>11. min_heap_shift_down_(h, key, hole, e) = t[N].heap
    BY DEF min_heap_shift_down_, t, Eq, N
  <1> DEFINE r == t[N]
  <1>12. Falling(r, n, S, n, T, key)
    BY <1>1, <1>10
  <1> HIDE DEF r
  <1>13. Ordered(Times(r.heap, key), n) /\ IsList(r.heap, S, n, T)
    BY <1>12 DEF Falling, Holed
  <1>14. r.heap \in Seq(S) /\ Len(r.heap) = n
    BY <1>13 DEF IsList
  <1>15. IsHeap(r.heap, key)
    BY <1>13, <1>14, TimesAre
  <1> QED
    BY <1>11, <1>13, <1>15 DEF r

(* h is a heap of n different elements, those of T. *)
HeapOf(h, S, n, T, key) == IsList(h, S, n, T) /\ IsHeap(h, key)

(* min_heap_push_. *)
LEMMA PushKeeps ==
  ASSUME NEW S, NEW T, NEW n \in Nat, NEW key \in [S -> Nat], NEW h,
         HeapOf(h, S, n, T, key), NEW e \in S, e \notin T
  PROVE  HeapOf(min_heap_push_(h, key, e), S, n + 1, T \cup {e}, key)
  <1> DEFINE g == Append(h, e)
             w == Times(g, key)
             v == Times(h, key)
  <1>1. /\ h \in Seq(S) /\ Len(h) = n /\ ToSet(h) = T /\ IsInjective(h) /\ IsHeap(h, key)
    BY DEF HeapOf, IsList
  <1>2. IsList(g, S, n + 1, T \cup {e}) /\ g \in Seq(S) /\ Len(g) = n + 1
    BY <1>1, AppendKeeps DEF IsList
  <1>3. [g EXCEPT ![n + 1] = e] = g
    <2>1. g[n + 1] = e /\ DOMAIN g = 1 .. n + 1
      BY <1>1, <1>2, AppendProperties
    <2> HIDE DEF g
    <2> QED
      BY <1>2, <2>1
  <1>4. \A k \in 1 .. n : g[k] = h[k]
    BY <1>1, AppendProperties
  <1> HIDE DEF g
  <1>5. Ordered(v, n) /\ \A k \in 1 .. n : v[k] = key[h[k]]
    BY <1>1, TimesAre
  <1>6. \A k \in 1 .. n + 1 : w[k] = key[g[k]]
    BY <1>2, TimesAre
  <1> HIDE DEF v, w
  <1>7. \A k \in 1 .. n : w[k] = v[k]
    BY <1>4, <1>5, <1>6
  <1>8. \A j \in 2 .. n + 1 : j \div 2 \in 1 .. n + 1 /\ j \div 2 < j
    BY Half
  <1>9. Rising(w, n + 1, n + 1)
    <2>1. ASSUME NEW j \in 2 .. n + 1, j # n + 1 PROVE w[j \div 2] <= w[j]
      <3>1. j \in 2 .. n /\ j \in 1 .. n /\ j \div 2 \in 1 .. n
        BY <1>8, <2>1
      <3>2. v[j \div 2] <= v[j]
        BY <1>5, <3>1 DEF Ordered
      <3> QED
        BY <1>7, <3>1, <3>2
    <2>2. \A j \in 2 .. n + 1 : j \div 2 # n + 1
      BY <1>8
    <2> QED
      BY <2>1, <2>2 DEF Rising, Between
  <1> DEFINE m == n + 1
             r == min_heap_shift_up_(g, key, m, e)
  <1>10. m \in Nat /\ m \in 1 .. m /\ Len(g) = m /\ [g EXCEPT ![m] = e] = g
         /\ IsList(g, S, m, T \cup {e}) /\ Rising(Times(g, key), m, m)
    BY <1>2, <1>3, <1>9 DEF w
  <1>11. min_heap_push_(h, key, e) = r
    BY <1>1 DEF min_heap_push_, g
  <1> HIDE DEF m, r
  <1>12. IsList(min_heap_shift_up_(g, key, m, e), S, m, T \cup {e})
         /\ IsHeap(min_heap_shift_up_(g, key, m, e), key)
    BY <1>2, <1>10, ShiftUp
  <1> QED
    BY <1>11, <1>12 DEF HeapOf, m, r

(* The times of a heap whose last element has replaced the one in slot i. *)
Replaced(v, w, n, i) ==
    /\ v \in [1 .. n + 1 -> Nat] /\ Ordered(v, n + 1) /\ w \in [1 .. n -> Nat]
    /\ w[i] = v[n + 1] /\ \A k \in 1 .. n : k # i => w[k] = v[k]

(* They are in order but for that slot. *)
LEMMA OutOfPlace ==
  ASSUME NEW n \in Nat, NEW i \in 1 .. n, NEW v, NEW w, Replaced(v, w, n, i)
  PROVE  /\ i > 1 /\ v[i \div 2] > v[n + 1] => Rising(w, n, i)
         /\ ~(i > 1 /\ v[i \div 2] > v[n + 1]) => Sinking(w, n, i)
  <1>1. \A j \in 2 .. n + 1 : v[j \div 2] <= v[j]
    BY DEF Replaced, Ordered
  <1>2. \A j \in 2 .. n : j \in 1 .. n /\ j \in 2 .. n + 1 /\ j \div 2 \in 1 .. n /\ j \div 2 < j
    BY Half
  <1>3. (\A k \in 1 .. n + 1 : v[k] \in Nat) /\ (\A k \in 1 .. n : k \in 1 .. n + 1)
        /\ n + 1 \in 1 .. n + 1
    BY DEF Replaced
  <1>4. w[i] = v[n + 1] /\ \A k \in 1 .. n : k # i => w[k] = v[k]
    BY DEF Replaced
  <1>5. i > 1 => i \in 2 .. n
    OBVIOUS
  <1>6. Between(w, n, i)
    <2> SUFFICES ASSUME i > 1, NEW j \in 2 .. n, j \div 2 = i PROVE w[i \div 2] <= w[j]
      BY DEF Between
    <2> DEFINE a == i \div 2
    <2>1. i \in 2 .. n /\ a \in 1 .. n /\ a # i /\ j # i /\ j \in 1 .. n /\ i \in 1 .. n
      BY <1>2, <1>5
    <2>2. v[a] <= v[i] /\ v[i] <= v[j]
      BY <1>1, <1>2, <2>1
    <2>3. w[a] = v[a] /\ w[j] = v[j] /\ v[a] \in Nat /\ v[i] \in Nat /\ v[j] \in Nat
      BY <1>3, <1>4, <2>1
    <2> HIDE DEF a
    <2>4. w[a] <= w[j]
      BY <2>2, <2>3
    <2> QED
      BY <2>4 DEF a
  <1>7. ASSUME NEW j \in 2 .. n, j # i, j \div 2 # i PROVE w[j \div 2] <= w[j]
    BY <1>1, <1>2, <1>4, <1>7
  <1>8. ASSUME i > 1, v[i \div 2] > v[n + 1] PROVE Rising(w, n, i)
    <2>1. ASSUME NEW j \in 2 .. n, j # i PROVE w[j \div 2] <= w[j]
      <3>1. CASE j \div 2 # i
        BY <1>7, <2>1, <3>1
      <3>2. CASE j \div 2 = i
        <4> DEFINE a == i \div 2
        <4>1. i \in 2 .. n /\ a \in 1 .. n /\ j \in 1 .. n
          BY <1>2, <1>5, <1>8
        <4>2. v[a] <= v[i] /\ v[i] <= v[j] /\ v[a] > v[n + 1]
          BY <1>1, <1>2, <1>8, <3>2, <4>1
        <4>3. v[a] \in Nat /\ v[i] \in Nat /\ v[j] \in Nat /\ v[n + 1] \in Nat
          BY <1>3, <4>1
        <4>4. v[n + 1] <= v[j]
          <5> HIDE DEF a
          <5> QED
            BY <4>2, <4>3
        <4> QED
          BY <1>4, <2>1, <3>2, <4>1, <4>4
      <3> QED
        BY <3>1, <3>2
    <2> QED
      BY <1>6, <2>1 DEF Rising
  <1>9. ASSUME ~(i > 1 /\ v[i \div 2] > v[n + 1]) PROVE Sinking(w, n, i)
    <2>1. ASSUME NEW j \in 2 .. n, j \div 2 # i PROVE w[j \div 2] <= w[j]
      <3>1. CASE j # i
        BY <1>7, <2>1, <3>1
      <3>2. CASE j = i
        <4> DEFINE a == i \div 2
        <4>1. i > 1 /\ a \in 1 .. n /\ a # i
          BY <1>2, <3>2
        <4>2. ~(v[a] > v[n + 1])
          BY <1>9, <4>1
        <4>3. v[a] \in Nat /\ v[n + 1] \in Nat
          BY <1>3, <4>1
        <4> HIDE DEF a
        <4>4. v[a] <= v[n + 1]
          BY <4>2, <4>3
        <4>5. w[a] <= w[i]
          BY <1>4, <4>1, <4>4
        <4> QED
          BY <3>2, <4>5 DEF a
      <3> QED
        BY <3>1, <3>2
    <2> QED
      BY <1>6, <2>1 DEF Sinking
  <1> QED
    BY <1>8, <1>9

(* A list whose last element has replaced the one in slot i. *)
LEMMA ListReplace ==
  ASSUME NEW S, NEW T, NEW n \in Nat, NEW h, IsList(h, S, n + 1, T), NEW i \in 1 .. n,
         NEW rest \in [1 .. n -> S], \A k \in 1 .. n : rest[k] = h[k]
  PROVE  IsList([rest EXCEPT ![i] = h[n + 1]], S, n, T \ {h[i]})
  <1> DEFINE r == [rest EXCEPT ![i] = h[n + 1]]
  <1>1. /\ h \in [1 .. n + 1 -> S] /\ T = {h[k] : k \in 1 .. n + 1}
        /\ \A k, m \in 1 .. n + 1 : h[k] = h[m] => k = m
    <2> DEFINE m == n + 1
    <2>1. m \in Nat /\ IsList(h, S, m, T)
      OBVIOUS
    <2> HIDE DEF m
    <2>2. OneToOne(h, S, m, T)
      BY <2>1, ListIs
    <2> QED
      BY <2>2 DEF m, OneToOne
  <1>2. n + 1 \in 1 .. n + 1 /\ \A k \in 1 .. n : k \in 1 .. n + 1 /\ k # n + 1
    OBVIOUS
  <1>3. /\ r \in [1 .. n -> S] /\ r[i] = h[n + 1]
        /\ \A k \in 1 .. n : k # i => r[k] = h[k]
    BY <1>1, <1>2
  <1> HIDE DEF r
  <1>4. \A k, m \in 1 .. n : r[k] = r[m] => k = m
    <2> SUFFICES ASSUME NEW k \in 1 .. n, NEW m \in 1 .. n, r[k] = r[m] PROVE k = m
      OBVIOUS
    <2>1. CASE k = i
      BY <1>1, <1>2, <1>3, <2>1
    <2>2. CASE k # i /\ m = i
      BY <1>1, <1>2, <1>3, <2>2
    <2>3. CASE k # i /\ m # i
      BY <1>1, <1>2, <1>3, <2>3
    <2> QED
      BY <2>1, <2>2, <2>3
  <1>5. T \ {h[i]} = {r[k] : k \in 1 .. n}
    <2>1. ASSUME NEW k \in 1 .. n + 1, h[k] # h[i] PROVE \E m \in 1 .. n : r[m] = h[k]
      <3>1. CASE k = n + 1
        BY <1>3, <3>1
      <3>2. CASE k # n + 1
        <4>1. k \in 1 .. n /\ k # i
          BY <2>1, <3>2
        <4> QED
          BY <1>3, <4>1
      <3> QED
        BY <3>1, <3>2
    <2>2. ASSUME NEW m \in 1 .. n PROVE \E k \in 1 .. n + 1 : r[m] = h[k] /\ k # i
      <3>1. n + 1 # i
        OBVIOUS
      <3> QED
        BY <1>2, <1>3, <3>1
    <2>3. \A k \in 1 .. n + 1 : k # i => h[k] # h[i]
      BY <1>1, <1>2
    <2>4. \A x \in T \ {h[i]} : \E m \in 1 .. n : r[m] = x
      BY <1>1, <2>1
    <2>5. \A m \in 1 .. n : r[m] \in T /\ r[m] # h[i]
      BY <1>1, <2>2, <2>3
    <2> QED
      BY <2>4, <2>5
  <1>6. OneToOne(r, S, n, T \ {h[i]})
    BY <1>3, <1>4, <1>5 DEF OneToOne
  <1> QED
    BY <1>6, ListIs DEF r

(* min_heap_erase_. *)
LEMMA EraseKeeps ==
  ASSUME NEW S, NEW T, NEW n \in Nat, NEW key \in [S -> Nat], NEW h,
         HeapOf(h, S, n, T, key), NEW e \in T
  PROVE  n - 1 \in Nat /\ HeapOf(min_heap_erase_(h, key, e), S, n - 1, T \ {e}, key)
  <1> DEFINE i == CHOOSE j \in DOMAIN h : h[j] = e
             last == h[Len(h)]
             rest == SubSeq(h, 1, Len(h) - 1)
             m == n - 1
             r == min_heap_erase_(h, key, e)
  <1>1. /\ h \in Seq(S) /\ Len(h) = n /\ ToSet(h) = T /\ IsInjective(h) /\ IsHeap(h, key)
        /\ IsList(h, S, n, T)
    BY DEF HeapOf, IsList
  <1>2. DOMAIN h = 1 .. n /\ \A k \in 1 .. n : h[k] \in S
    BY <1>1, Places
  <1>3. i \in 1 .. n /\ h[i] = e
    <2>1. \E k \in 1 .. n : h[k] = e
      BY <1>1, <1>2 DEF ToSet
    <2> QED
      BY <1>2, <2>1
  <1>4. m \in Nat /\ n = m + 1 /\ n \in 1 .. n
    BY <1>3
  <1>5. r = IF e = last THEN rest
            ELSE IF i > 1 /\ key[h[i \div 2]] > key[last]
            THEN min_heap_shift_up_(rest, key, i, last)
            ELSE min_heap_shift_down_(rest, key, i, last)
    BY DEF min_heap_erase_
  <1>6. rest \in Seq(S) /\ Len(rest) = m /\ \A k \in 1 .. m : rest[k] = h[k]
    <2>1. 1 \in 1 .. Len(h) + 1 /\ m \in 1 - 1 .. Len(h) /\ (m - 1) + 1 = m
      BY <1>1, <1>4
    <2>2. /\ SubSeq(h, 1, m) \in Seq(S) /\ Len(SubSeq(h, 1, m)) = (m - 1) + 1
          /\ \A k \in 1 .. (m - 1) + 1 : SubSeq(h, 1, m)[k] = h[(1 + k) - 1]
      BY <1>1, <2>1, PartIs
    <2>3. \A k \in 1 .. m : (1 + k) - 1 = k
      OBVIOUS
    <2> HIDE DEF m
    <2> QED
      BY <1>1, <2>1, <2>2, <2>3 DEF m
  <1>7. last = h[n] /\ last \in S
    BY <1>1, <1>2, <1>4
  <1>8. rest \in [1 .. m -> S]
    BY <1>6, LenProperties
  <1> HIDE DEF i, last, rest, r, m
  <1>9. Ordered(Times(h, key), n) /\ Times(h, key) \in [1 .. n -> Nat]
        /\ \A k \in 1 .. n : Times(h, key)[k] = key[h[k]]
    BY <1>1, TimesAre
  <1>10. \A k, l \in 1 .. n : h[k] = h[l] => k = l
    BY <1>1, <1>2 DEF IsInjective
  <1>11. CASE e = last
    <2>1. i = n /\ r = rest
      BY <1>3, <1>4, <1>5, <1>7, <1>10, <1>11
    <2>2. OneToOne(rest, S, m, T \ {e})
      <3>1. OneToOne(h, S, n, T)
        BY <1>1, ListIs
      <3>2. \A k, l \in 1 .. m : rest[k] = rest[l] => k = l
        BY <1>4, <1>6, <1>10
      <3>3. T \ {e} = {rest[k] : k \in 1 .. m}
        <4>1. \A k \in 1 .. n : k \in 1 .. m \/ k = n
          BY <1>4
        <4>2. \A k \in 1 .. m : k \in 1 .. n /\ k # n
          BY <1>4
        <4>3. \A k \in 1 .. m : rest[k] \in T /\ rest[k] # e
          BY <1>3, <1>6, <1>10, <2>1, <3>1, <4>2 DEF OneToOne
        <4>4. \A x \in T \ {e} : \E k \in 1 .. m : rest[k] = x
          BY <1>3, <1>6, <2>1, <3>1, <4>1 DEF OneToOne
        <4> QED
          BY <4>3, <4>4
      <3> QED
        BY <1>8, <3>2, <3>3 DEF OneToOne
    <2>3. IsList(rest, S, m, T \ {e})
      BY <1>4, <2>2, ListIs
    <2>4. IsHeap(rest, key)
      <3> SUFFICES ASSUME NEW j \in 2 .. Len(rest)
                   PROVE  key[rest[j \div 2]] <= key[rest[j]]
        BY DEF IsHeap
      <3>1. j \in 2 .. m /\ j \in 1 .. m
        BY <1>6
      <3>2. j \div 2 \in 1 .. m
        BY <1>4, <3>1, Half
      <3>3. j \in 2 .. Len(h)
        BY <1>1, <1>4, <3>1
      <3>4. key[h[j \div 2]] <= key[h[j]]
        BY <1>1, <3>3 DEF IsHeap
      <3> QED
        BY <1>6, <3>1, <3>2, <3>4
    <2> QED
      BY <1>4, <2>1, <2>3, <2>4 DEF HeapOf, m, r
  <1>12. CASE e # last
    <2> DEFINE g == [rest EXCEPT ![i] = last]
               v == Times(h, key)
               w == Times(g, key)
    <2>1. i \in 1 .. m
      <3>1. i # n
        BY <1>3, <1>7, <1>12
      <3> QED
        BY <1>3, <1>4, <3>1
    <2>2. IsList(g, S, m, T \ {e})
      <3>1. IsList(h, S, m + 1, T) /\ last = h[m + 1]
        BY <1>1, <1>4, <1>7
      <3>2. IsList([rest EXCEPT ![i] = h[m + 1]], S, m, T \ {h[i]})
        BY <1>4, <1>6, <1>8, <2>1, <3>1, ListReplace
      <3> QED
        BY <1>3, <3>1, <3>2
    <2>3. g[i] = last /\ \A k \in 1 .. m : k # i => g[k] = h[k]
      BY <1>6, <1>8, <2>1
    <2>4. g \in Seq(S) /\ Len(g) = m
      BY <2>2 DEF IsList
    <2> HIDE DEF g
    <2>5. w \in [1 .. m -> Nat] /\ \A k \in 1 .. m : w[k] = key[g[k]]
      BY <2>4, TimesAre
    <2>6. v \in [1 .. n -> Nat] /\ Ordered(v, n) /\ \A k \in 1 .. n : v[k] = key[h[k]]
      BY <1>9
    <2> HIDE DEF v, w
    <2>7. Replaced(v, w, m, i)
      <3>1. w[i] = v[m + 1]
        <4>1. w[i] = key[last]
          BY <2>1, <2>3, <2>5
        <4>2. v[n] = key[last]
          BY <1>4, <1>7, <2>6
        <4> QED
          BY <1>4, <4>1, <4>2
      <3>2. ASSUME NEW k \in 1 .. m, k # i PROVE w[k] = v[k]
        <4>1. k \in 1 .. n
          BY <1>4
        <4>2. w[k] = key[h[k]]
          BY <2>3, <2>5, <3>2
        <4> QED
          BY <2>6, <4>1, <4>2
      <3> QED
        BY <1>4, <2>5, <2>6, <3>1, <3>2 DEF Replaced
    <2>8. /\ i > 1 /\ v[i \div 2] > v[m + 1] => Rising(w, m, i)
          /\ ~(i > 1 /\ v[i \div 2] > v[m + 1]) => Sinking(w, m, i)
      BY <1>4, <2>1, <2>7, OutOfPlace
    <2>9. i > 1 /\ v[i \div 2] > v[m + 1] <=> i > 1 /\ key[h[i \div 2]] > key[last]
      <3>1. v[m + 1] = key[last]
        BY <1>4, <1>7, <2>6
      <3>2. ASSUME i > 1 PROVE v[i \div 2] = key[h[i \div 2]]
        <4>1. i \in 2 .. n
          BY <1>3, <3>2
        <4>2. i \div 2 \in 1 .. n
          BY <4>1, Half
        <4> QED
          BY <2>6, <4>2
      <3> QED
        BY <3>1, <3>2
    <2>10. IsList(r, S, m, T \ {e}) /\ IsHeap(r, key)
      <3>1. CASE i > 1 /\ key[h[i \div 2]] > key[last]
        <4>1. Rising(Times(g, key), m, i)
          BY <2>8, <2>9, <3>1 DEF w
        <4>2. r = min_heap_shift_up_(rest, key, i, last)
          BY <1>5, <1>12, <3>1
        <4> HIDE <3>1
        <4> QED
          BY <1>4, <1>6, <2>1, <2>2, <4>1, <4>2, ShiftUp DEF g
      <3>2. CASE ~(i > 1 /\ key[h[i \div 2]] > key[last])
        <4>1. Sinking(Times(g, key), m, i)
          BY <2>8, <2>9, <3>2 DEF w
        <4>2. r = min_heap_shift_down_(rest, key, i, last)
          BY <1>5, <1>12, <3>2
        <4> HIDE <3>2
        <4> QED
          BY <1>4, <1>6, <2>1, <2>2, <4>1, <4>2, ShiftDown DEF g
      <3> QED
        BY <3>1, <3>2
    <2> QED
      BY <1>4, <2>10 DEF HeapOf, r, m
  <1> QED
    BY <1>11, <1>12

-----------------------------------------------------------------------------
(* Lists of events *)

(* q holds the events of T, each once. *)
ListOf(q, T) == q \in Seq(Ev) /\ ToSet(q) = T /\ IsInjective(q)

Sorted(q, key) == \A i, j \in 1 .. Len(q) : i <= j => key[q[i]] <= key[q[j]]

(* One more at the end. *)
LEMMA ListAppend ==
  ASSUME NEW q, NEW T, ListOf(q, T), NEW e \in Ev, e \notin T
  PROVE  ListOf(Append(q, e), T \cup {e})
  BY AppendKeeps DEF ListOf

(* One less. *)
LEMMA ListRemove ==
  ASSUME NEW q, NEW T, ListOf(q, T), NEW e \in T
  PROVE  ListOf(RemoveFirst(q, e), T \ {e})
  <1>1. IsList(RemoveFirst(q, e), Ev, Len(q) - 1, ToSet(q) \ {e})
    BY RemoveKeeps DEF ListOf
  <1> QED
    BY <1>1 DEF ListOf, IsList

(* Without the first one. *)
LEMMA ListTail ==
  ASSUME NEW q, NEW T, ListOf(q, T), q # <<>>
  PROVE  /\ Head(q) \in T /\ Head(q) \in Ev /\ ListOf(Tail(q), T \ {Head(q)})
         /\ Len(Tail(q)) = Len(q) - 1 /\ Len(q) \in Nat \ {0}
  BY TailKeeps DEF ListOf

(* An empty list is one of nothing. *)
LEMMA ListEmpty ==
  ASSUME NEW q, NEW T, ListOf(q, T)
  PROVE  (q = <<>> <=> T = {}) /\ Len(q) \in Nat
  BY Places DEF ListOf

(* A sorted list is sorted without one of its elements. *)
LEMMA SortedRemove ==
  ASSUME NEW q, NEW T, ListOf(q, T), NEW key, Sorted(q, key), NEW e \in T
  PROVE  Sorted(RemoveFirst(q, e), key)
  <1> DEFINE r == RemoveFirst(q, e)
             n == Len(q)
  <1>1. q \in Seq(Ev) /\ e \in ToSet(q) /\ n \in Nat
    BY Places DEF ListOf
  <1>2. PICK i \in 1 .. n : Skips(q, r, i, Ev)
    BY <1>1, RemoveIs
  <1> DEFINE to(j) == IF j < i THEN j ELSE j + 1
  <1>3. Len(r) = n - 1 /\ \A j \in 1 .. n - 1 : r[j] = q[to(j)]
    BY <1>2 DEF Skips
  <1>4. \A j \in 1 .. n : \A k \in 1 .. n : j <= k => key[q[j]] <= key[q[k]]
    BY DEF Sorted
  <1> HIDE DEF r, n
  <1>5. \A j, k \in 1 .. n - 1 : to(j) \in 1 .. n /\ (j <= k => to(j) <= to(k))
    BY <1>1
  <1> HIDE DEF to
  <1>6. \A j, k \in 1 .. n - 1 : j <= k => key[r[j]] <= key[r[k]]
    BY <1>3, <1>4, <1>5
  <1> QED
    BY <1>3, <1>6 DEF Sorted, r

(* r is q with e in place k + 1. *)
Gains(q, r, k, e) ==
    /\ r \in Seq(Ev) /\ Len(r) = Len(q) + 1 /\ r[k + 1] = e
    /\ \A j \in 1 .. Len(q) : r[IF j <= k THEN j ELSE j + 1] = q[j]

(* InsertAt. *)
LEMMA InsertIs ==
  ASSUME NEW q \in Seq(Ev), NEW e \in Ev, NEW k \in 0 .. Len(q)
  PROVE  Gains(q, InsertAt(q, k + 1, e), k, e)
  <1> DEFINE n == Len(q)
             r == InsertAt(q, k + 1, e)
             u == SubSeq(q, 1, k)
             v == SubSeq(q, k + 1, n)
             o == <<e>>
             x == u \o o
  <1>1. n \in Nat /\ k \in 0 .. n
    BY Places
  <1>2. r = x \o v
    <2>1. (k + 1) - 1 = k
      BY <1>1
    <2> QED
      BY <2>1 DEF InsertAt
  <1>3. u \in Seq(Ev) /\ Len(u) = k /\ \A j \in 1 .. k : u[j] = q[(1 + j) - 1]
    <2>1. 1 \in 1 .. n + 1 /\ k \in 1 - 1 .. n /\ (k - 1) + 1 = k
      BY <1>1
    <2> QED
      BY <2>1, PartIs
  <1>4. v \in Seq(Ev) /\ Len(v) = n - k /\ \A j \in 1 .. n - k : v[j] = q[((k + 1) + j) - 1]
    <2>1. k + 1 \in 1 .. n + 1 /\ n \in (k + 1) - 1 .. n /\ (n - (k + 1)) + 1 = n - k
      BY <1>1
    <2> QED
      BY <2>1, PartIs
  <1>5. o \in Seq(Ev) /\ Len(o) = 1 /\ o[1] = e
    OBVIOUS
  <1> HIDE DEF u, v, r, n, o
  <1>6. /\ x \in Seq(Ev) /\ Len(x) = Len(u) + Len(o)
        /\ \A j \in 1 .. Len(u) + Len(o) : x[j] = IF j <= Len(u) THEN u[j] ELSE o[j - Len(u)]
    BY <1>3, <1>5, ConcatProperties
  <1> HIDE DEF x
  <1>7. /\ r \in Seq(Ev) /\ Len(r) = Len(x) + Len(v)
        /\ \A j \in 1 .. Len(x) + Len(v) : r[j] = IF j <= Len(x) THEN x[j] ELSE v[j - Len(x)]
    <2>1. x \in Seq(Ev) /\ v \in Seq(Ev)
      BY <1>4, <1>6
    <2>2. /\ x \o v \in Seq(Ev) /\ Len(x \o v) = Len(x) + Len(v)
          /\ \A j \in 1 .. Len(x) + Len(v) :
               (x \o v)[j] = IF j <= Len(x) THEN x[j] ELSE v[j - Len(x)]
      BY <2>1, ConcatProperties
    <2> QED
      BY <1>2, <2>2
  <1>8. Len(x) = k + 1 /\ Len(x) + Len(v) = n + 1 /\ Len(u) + Len(o) = k + 1
    BY <1>1, <1>3, <1>4, <1>5, <1>6
  <1>9. x[k + 1] = e
    <2>1. k + 1 \in 1 .. k + 1 /\ ~(k + 1 <= k) /\ (k + 1) - k = 1
      BY <1>1
    <2> QED
      BY <1>3, <1>5, <1>6, <1>8, <2>1
  <1>10. r[k + 1] = e
    <2>1. k + 1 \in 1 .. n + 1 /\ k + 1 <= k + 1
      BY <1>1
    <2> QED
      BY <1>7, <1>8, <1>9, <2>1
  <1>11. ASSUME NEW j \in 1 .. n PROVE r[IF j <= k THEN j ELSE j + 1] = q[j]
    <2>1. CASE j <= k
      <3>1. j \in 1 .. n + 1 /\ j <= k + 1 /\ j \in 1 .. k /\ j \in 1 .. k + 1 /\ (1 + j) - 1 = j
        BY <1>1, <2>1
      <3>2. r[j] = x[j]
        BY <1>7, <1>8, <3>1
      <3>3. x[j] = u[j]
        BY <1>3, <1>6, <1>8, <2>1, <3>1
      <3> QED
        BY <1>3, <2>1, <3>1, <3>2, <3>3
    <2>2. CASE ~(j <= k)
      <3>1. /\ j + 1 \in 1 .. n + 1 /\ ~(j + 1 <= k + 1) /\ (j + 1) - (k + 1) = j - k
            /\ j - k \in 1 .. n - k /\ ((k + 1) + (j - k)) - 1 = j
        BY <1>1, <2>2
      <3>2. r[j + 1] = v[j - k]
        BY <1>7, <1>8, <3>1
      <3>3. v[j - k] = q[j]
        BY <1>4, <3>1
      <3> QED
        BY <2>2, <3>2, <3>3
    <2> QED
      BY <2>1, <2>2
  <1> QED
    BY <1>7, <1>8, <1>10, <1>11 DEF Gains, r, n

(* What a list gains. *)
LEMMA ListGains ==
  ASSUME NEW q, NEW T, ListOf(q, T), NEW e \in Ev, e \notin T, NEW k \in 0 .. Len(q),
         NEW r, Gains(q, r, k, e)
  PROVE  ListOf(r, T \cup {e})
  <1> DEFINE n == Len(q)
             to(j) == IF j <= k THEN j ELSE j + 1
  <1>1. /\ q \in Seq(Ev) /\ n \in Nat /\ k \in 0 .. n /\ DOMAIN q = 1 .. n
        /\ ToSet(q) = T /\ IsInjective(q)
    BY Places DEF ListOf
  <1>2. r \in Seq(Ev) /\ Len(r) = n + 1 /\ r[k + 1] = e /\ \A j \in 1 .. n : r[to(j)] = q[j]
    BY DEF Gains
  <1> HIDE DEF n
  <1>3. DOMAIN r = 1 .. n + 1
    BY <1>2, Places
  <1>4. k + 1 \in 1 .. n + 1 /\ \A j \in 1 .. n : to(j) \in 1 .. n + 1
    BY <1>1
  <1>5. ASSUME NEW m \in 1 .. n + 1, m # k + 1 PROVE \E j \in 1 .. n : to(j) = m
    <2>1. CASE m <= k
      <3>1. m \in 1 .. n /\ to(m) = m
        BY <1>1, <2>1
      <3> QED
        BY <3>1
    <2>2. CASE ~(m <= k)
      <3>1. m - 1 \in 1 .. n /\ to(m - 1) = m
        BY <1>1, <1>5, <2>2
      <3> QED
        BY <3>1
    <2> QED
      BY <2>1, <2>2
  <1> HIDE DEF to
  <1>6. \A x : x \in T <=> \E i \in 1 .. n : q[i] = x
    BY <1>1, Places DEF n
  <1>7. ToSet(r) = T \cup {e}
    <2>1. \A x : x \in ToSet(r) <=> \E m \in 1 .. n + 1 : r[m] = x
      BY <1>3 DEF ToSet
    <2>2. ASSUME NEW x \in ToSet(r) PROVE x \in T \cup {e}
      <3>1. PICK m \in 1 .. n + 1 : r[m] = x
        BY <2>1
      <3>2. CASE m = k + 1
        BY <1>2, <3>1, <3>2
      <3>3. CASE m # k + 1
        BY <1>2, <1>5, <1>6, <3>1, <3>3
      <3> QED
        BY <3>2, <3>3
    <2>3. ASSUME NEW x \in T PROVE x \in ToSet(r)
      BY <1>2, <1>4, <1>6, <2>1
    <2>4. e \in ToSet(r)
      BY <1>2, <1>4, <2>1
    <2> QED
      BY <2>2, <2>3, <2>4
  <1>8. IsInjective(r)
    <2>1. \A i \in 1 .. n : q[i] # e
      BY <1>6
    <2>2. \A i, j \in 1 .. n : q[i] = q[j] => i = j
      BY <1>1 DEF IsInjective
    <2>3. ASSUME NEW a \in 1 .. n + 1, NEW b \in 1 .. n + 1, r[a] = r[b] PROVE a = b
      <3>1. CASE a = k + 1 /\ b = k + 1
        BY <3>1
      <3>2. CASE a = k + 1 /\ b # k + 1
        BY <1>2, <1>5, <2>1, <2>3, <3>2
      <3>3. CASE a # k + 1 /\ b = k + 1
        BY <1>2, <1>5, <2>1, <2>3, <3>3
      <3>4. CASE a # k + 1 /\ b # k + 1
        BY <1>2, <1>5, <2>2, <2>3, <3>4
      <3> QED
        BY <3>1, <3>2, <3>3, <3>4
    <2> QED
      BY <1>3, <2>3 DEF IsInjective
  <1> QED
    BY <1>2, <1>7, <1>8 DEF ListOf

(* Those up to the place k of q are not later than e, the others are. *)
PlaceOf(q, key, e, k) ==
    /\ k > 0 => key[q[k]] <= key[e]
    /\ \A i \in 1 .. Len(q) : i > k => key[e] < key[q[i]]

(* A sorted list with one more where it belongs. *)
LEMMA SortedGains ==
  ASSUME NEW q \in Seq(Ev), NEW key \in [Ev -> Nat], Sorted(q, key), NEW e \in Ev,
         NEW k \in 0 .. Len(q), PlaceOf(q, key, e, k), NEW r, Gains(q, r, k, e)
  PROVE  Sorted(r, key)
  <1> DEFINE n == Len(q)
             to(j) == IF j <= k THEN j ELSE j + 1
  <1>1. n \in Nat /\ k \in 0 .. n /\ (\A i \in 1 .. n : key[q[i]] \in Nat) /\ key[e] \in Nat
    BY Places
  <1>2. Len(r) = n + 1 /\ r[k + 1] = e /\ \A j \in 1 .. n : r[to(j)] = q[j]
    BY DEF Gains
  <1>3. \A i, j \in 1 .. n : i <= j => key[q[i]] <= key[q[j]]
    BY DEF Sorted
  <1>4. (k > 0 => key[q[k]] <= key[e]) /\ \A i \in 1 .. n : i > k => key[e] < key[q[i]]
    BY DEF PlaceOf
  <1> HIDE DEF n
  <1>5. ASSUME NEW a \in 1 .. n + 1, NEW b \in 1 .. n + 1, a <= b
        PROVE  key[r[a]] <= key[r[b]]
    <2>1. CASE b <= k
      <3>1. a \in 1 .. n /\ b \in 1 .. n /\ to(a) = a /\ to(b) = b
        BY <1>1, <1>5, <2>1
      <3>2. r[a] = q[a] /\ r[b] = q[b]
        BY <1>2, <3>1
      <3> QED
        BY <1>3, <1>5, <3>1, <3>2
    <2>2. CASE a <= k /\ b = k + 1
      <3>1. a \in 1 .. n /\ k \in 1 .. n /\ to(a) = a /\ k > 0
        BY <1>1, <2>2
      <3>2. r[a] = q[a] /\ r[b] = e
        BY <1>2, <2>2, <3>1
      <3>3. key[q[a]] <= key[q[k]] /\ key[q[k]] <= key[e]
        BY <1>3, <1>4, <2>2, <3>1
      <3>4. key[q[a]] \in Nat /\ key[q[k]] \in Nat
        BY <1>1, <3>1
      <3> QED
        BY <1>1, <3>2, <3>3, <3>4
    <2>3. CASE a <= k /\ b > k + 1
      <3>1. a \in 1 .. n /\ b - 1 \in 1 .. n /\ to(a) = a /\ to(b - 1) = b /\ a <= b - 1
        BY <1>1, <2>3
      <3>2. r[a] = q[a] /\ r[b] = q[b - 1]
        BY <1>2, <3>1
      <3> QED
        BY <1>3, <3>1, <3>2
    <2>4. CASE a = k + 1 /\ b = k + 1
      BY <1>1, <1>2, <2>4
    <2>5. CASE a = k + 1 /\ b > k + 1
      <3>1. b - 1 \in 1 .. n /\ to(b - 1) = b /\ b - 1 > k
        BY <1>1, <2>5
      <3>2. r[a] = e /\ r[b] = q[b - 1]
        BY <1>2, <2>5, <3>1
      <3>3. key[e] < key[q[b - 1]] /\ key[q[b - 1]] \in Nat
        BY <1>1, <1>4, <3>1
      <3> QED
        BY <1>1, <3>2, <3>3
    <2>6. CASE a > k + 1
      <3>1. /\ a - 1 \in 1 .. n /\ to(a - 1) = a /\ b - 1 \in 1 .. n /\ to(b - 1) = b
            /\ a - 1 <= b - 1
        BY <1>1, <1>5, <2>6
      <3>2. r[a] = q[a - 1] /\ r[b] = q[b - 1]
        BY <1>2, <3>1
      <3> QED
        BY <1>3, <3>1, <3>2
    <2> QED
      BY <1>1, <1>5, <2>1, <2>2, <2>3, <2>4, <2>5, <2>6
  <1> QED
    BY <1>2, <1>5 DEF Sorted

(* Where insert_common_timeout_inorder puts an event. *)
LEMMA PlaceIs ==
  ASSUME NEW q \in Seq(Ev), NEW key \in [Ev -> Nat], NEW e \in Ev
  PROVE  LET k == Max({0} \cup {i \in DOMAIN q : key[e] >= key[q[i]]})
         IN  k \in 0 .. Len(q) /\ PlaceOf(q, key, e, k)
  <1> DEFINE n == Len(q)
             K == {0} \cup {i \in 1 .. n : key[e] >= key[q[i]]}
             k == Max(K)
             Y == {m \in Nat : \A i \in K : m >= i}
  <1>1. n \in Nat /\ DOMAIN q = 1 .. n /\ (\A i \in 1 .. n : key[q[i]] \in Nat) /\ key[e] \in Nat
    BY Places
  <1>2. \A i \in K : i \in 0 .. n
    BY <1>1
  <1>3. \E m \in K : \A i \in K : m >= i
    <2>1. n \in Y
      BY <1>1, <1>2
    <2>2. Y # {} /\ Y \in SUBSET Nat
      BY <2>1
    <2> HIDE DEF Y, K
    <2>3. PICK m \in Y : \A i \in Y : m <= i
      BY <2>2, LeastNatural
    <2>4. m \in Nat /\ \A i \in K : m >= i
      BY <2>3 DEF Y
    <2>5. ASSUME m \notin K PROVE FALSE
      <3>1. 0 \in K
        BY DEF K
      <3>2. m - 1 \in Nat /\ \A i \in K : m - 1 >= i
        BY <1>1, <1>2, <2>4, <2>5, <3>1
      <3>3. m - 1 \in Y
        BY <3>2 DEF Y
      <3>4. m <= m - 1
        BY <2>3, <3>3
      <3> QED
        BY <2>4, <3>4
    <2> QED
      BY <2>4, <2>5
  <1>4. k \in K /\ \A i \in K : k >= i
    BY <1>3 DEF Max
  <1> HIDE DEF k
  <1>5. k \in 0 .. n
    BY <1>2, <1>4
  <1>6. k > 0 => key[q[k]] <= key[e]
    BY <1>1, <1>4
  <1>7. ASSUME NEW i \in 1 .. n, i > k PROVE key[e] < key[q[i]]
    <2>1. i \notin K
      BY <1>4, <1>5, <1>7
    <2>2. ~(key[e] >= key[q[i]])
      BY <2>1
    <2> QED
      BY <1>1, <2>2
  <1> QED
    BY <1>1, <1>5, <1>6, <1>7 DEF PlaceOf, k

(* A sorted list with one more, behind those that are not later. *)
LEMMA InOrder ==
  ASSUME NEW b, b.tmo \in [Ev -> Nat], NEW T, ListOf(b.ctl, T), Sorted(b.ctl, b.tmo),
         NEW e \in Ev, e \notin T
  PROVE  LET r == insert_common_timeout_inorder(b, e)
         IN  ListOf(r, T \cup {e}) /\ Sorted(r, b.tmo)
  <1> DEFINE q == b.ctl
             k == Max({0} \cup {i \in DOMAIN q : b.tmo[e] >= b.tmo[q[i]]})
             r == InsertAt(q, k + 1, e)
  <1>1. insert_common_timeout_inorder(b, e) = r
    BY DEF insert_common_timeout_inorder
  <1>2. q \in Seq(Ev)
    BY DEF ListOf
  <1>3. k \in 0 .. Len(q) /\ PlaceOf(q, b.tmo, e, k)
    BY <1>2, PlaceIs
  <1> HIDE DEF k
  <1>4. Gains(q, r, k, e)
    BY <1>2, <1>3, InsertIs
  <1> HIDE DEF r
  <1>5. ListOf(r, T \cup {e})
    BY <1>3, <1>4, ListGains
  <1>6. Sorted(r, b.tmo)
    BY <1>2, <1>3, <1>4, SortedGains
  <1> QED
    BY <1>1, <1>5, <1>6

-----------------------------------------------------------------------------
(* A base *)

Fields == {"flags", "res", "tmo", "common", "io_timeout", "timeheap", "ctl", "io",
           "activequeues", "later", "event_count", "event_count_active",
           "n_deferreds_queued", "running_loop", "event_running_priority",
           "event_gotterm", "event_break", "event_continue", "current_event",
           "is_notify_pending", "th_notify", "tv_cache", "clock"}

Marks == Pending \cup {"FINALIZING"}
Delays == [d : Nat, common : BOOLEAN]

Typed(b) ==
    /\ DOMAIN b = Fields
    /\ b.flags \in [Ev -> SUBSET Marks]
    /\ b.tmo \in [Ev -> Nat]
    /\ b.common \in [Ev -> BOOLEAN]
    /\ b.io_timeout \in [Ev -> Delays]
    /\ b.activequeues \in [Priorities -> Seq(Ev)]
    /\ b.event_count \in Int /\ b.event_count_active \in Int
    /\ b.running_loop \in BOOLEAN /\ b.event_break \in BOOLEAN
    /\ b.is_notify_pending \in BOOLEAN /\ b.th_notify \in Nat
    /\ b.tv_cache \in Nat /\ b.clock \in Nat

(* The events on each list. *)
Timed(b) == {e \in Ev : "TIMEOUT" \in b.flags[e] /\ ~b.common[e]}
CommonTimed(b) == {e \in Ev : "TIMEOUT" \in b.flags[e] /\ b.common[e]}
OnIo(b) == {e \in IoEvents : "INSERTED" \in b.flags[e]}
ActiveIn(b, p) == {e \in Ev : Pri[e] = p /\ "ACTIVE" \in b.flags[e]}
PutOff(b) == {e \in Ev : "ACTIVE_LATER" \in b.flags[e]}

HeapOK(b) == HeapOf(b.timeheap, Ev, Len(b.timeheap), Timed(b), b.tmo)
CtlOK(b) == ListOf(b.ctl, CommonTimed(b)) /\ Sorted(b.ctl, b.tmo)
IoOK(b) == ListOf(b.io, OnIo(b))
ActiveOK(b) == \A p \in Priorities : ListOf(b.activequeues[p], ActiveIn(b, p))
LaterOK(b) == ListOf(b.later, PutOff(b))

CountOf(fl, S, f) == Cardinality({e \in S : f \in fl[e]})
Tally(fl) == CountOf(fl, User, "INSERTED") + CountOf(fl, User, "TIMEOUT")
             + CountOf(fl, User, "ACTIVE") + CountOf(fl, User, "ACTIVE_LATER")
ActiveTally(fl) == CountOf(fl, Ev, "ACTIVE") + CountOf(fl, Ev, "ACTIVE_LATER")
CountsOK(b) ==
    b.event_count = Tally(b.flags) /\ b.event_count_active = ActiveTally(b.flags)

(* Which marks an event can have. *)
KindsOK(b) ==
    /\ \A e \in Ev :
        /\ "INSERTED" \in b.flags[e] => e \in IoEvents \cup {NOTIFY}
        /\ ~("ACTIVE" \in b.flags[e] /\ "ACTIVE_LATER" \in b.flags[e])
        /\ "FINALIZING" \in b.flags[e] => /\ e \in IoEvents \cup Timers
                                          /\ b.flags[e] \subseteq {"FINALIZING", "ACTIVE"}
    /\ ~b.common[CTL] /\ "TIMEOUT" \notin b.flags[NOTIFY]

Good(b) ==
    /\ Typed(b) /\ HeapOK(b) /\ CtlOK(b) /\ IoOK(b) /\ ActiveOK(b) /\ LaterOK(b)
    /\ CountsOK(b) /\ KindsOK(b)

(* What the assumption says of the events. *)
LEMMA EventsAre ==
  /\ IsFiniteSet(Ev) /\ IsFiniteSet(User) /\ User \subseteq Ev /\ User \cap Internal = {}
  /\ IoEvents \subseteq User /\ Timers \subseteq User /\ Deferred \subseteq User
  /\ NOTIFY \in Ev /\ CTL \in Ev /\ EXIT \in User /\ CTL \notin User /\ NOTIFY \notin User
  /\ NOTIFY # CTL /\ NULL \notin Ev /\ Persist \subseteq IoEvents \cup Timers
  /\ EXIT \notin IoEvents \cup Timers \cup Deferred
  /\ (IoEvents \cup Timers) \cap Deferred = {} /\ IoEvents \cap Timers = {}
  /\ \A e \in Ev : Pri[e] \in Priorities /\ Pri[e] \in Nat
  <1>1. IsFiniteSet(User)
    BY EventAssumption, FS_Subset DEF Ev
  <1> QED
    BY <1>1, EventAssumption DEF Ev, User, Internal, Priorities

-----------------------------------------------------------------------------
(* Counts *)

(* e has f now, which changes nothing else. *)
Gets(fl, gl, e, f) ==
    /\ \A x \in Ev : x # e => gl[x] = fl[x]
    /\ f \notin fl[e] /\ gl[e] = fl[e] \cup {f}

(* One more event has f. *)
LEMMA CountMore ==
  ASSUME NEW fl, NEW gl, NEW e \in Ev, NEW f, Gets(fl, gl, e, f), NEW S \in SUBSET Ev, NEW g
  PROVE  /\ CountOf(fl, S, g) \in Nat
         /\ CountOf(gl, S, g) = CountOf(fl, S, g) + (IF g = f /\ e \in S THEN 1 ELSE 0)
  <1> DEFINE A == {x \in S : g \in fl[x]}
             B == {x \in S : g \in gl[x]}
  <1>1. IsFiniteSet(S)
    BY EventsAre, FS_Subset
  <1>2. IsFiniteSet(A) /\ Cardinality(A) \in Nat
    BY <1>1, FS_Subset, FS_CardinalityType
  <1>3. CASE g = f /\ e \in S
    <2>1. B = A \cup {e} /\ e \notin A
      BY <1>3 DEF Gets
    <2>2. Cardinality(A \cup {e}) = Cardinality(A) + 1
      BY <1>2, <2>1, FS_AddElement
    <2> QED
      BY <1>2, <1>3, <2>1, <2>2 DEF CountOf
  <1>4. CASE ~(g = f /\ e \in S)
    <2>1. B = A
      BY <1>4 DEF Gets
    <2> QED
      BY <1>2, <1>4, <2>1 DEF CountOf
  <1> QED
    BY <1>3, <1>4

(* The counts when an event gets a mark. *)
LEMMA TallyOn ==
  ASSUME NEW fl, NEW gl, NEW e \in Ev, NEW f \in Pending, Gets(fl, gl, e, f)
  PROVE  /\ Tally(gl) = Tally(fl) + Counted(e) /\ Tally(fl) \in Nat /\ Tally(gl) \in Nat
         /\ ActiveTally(gl) = ActiveTally(fl)
                              + (IF f \in {"ACTIVE", "ACTIVE_LATER"} THEN 1 ELSE 0)
         /\ ActiveTally(fl) \in Nat /\ ActiveTally(gl) \in Nat
  <1>1. User \in SUBSET Ev /\ Ev \in SUBSET Ev /\ (e \in User <=> Counted(e) = 1)
        /\ (e \notin User => Counted(e) = 0)
    BY EventsAre DEF Counted, Ev
  <1> DEFINE in == IF e \in User THEN 1 ELSE 0
             a(g) == CountOf(fl, User, g)
             c(g) == CountOf(gl, User, g)
             p(g) == CountOf(fl, Ev, g)
             q(g) == CountOf(gl, Ev, g)
  <1>2. \A g : a(g) \in Nat /\ c(g) = a(g) + (IF g = f THEN in ELSE 0)
    <2>1. \A g : a(g) \in Nat /\ c(g) = a(g) + (IF g = f /\ e \in User THEN 1 ELSE 0)
      BY <1>1, CountMore
    <2> HIDE DEF a, c
    <2> QED
      BY <2>1
  <1>3. \A g : p(g) \in Nat /\ q(g) = p(g) + (IF g = f THEN 1 ELSE 0)
    <2>1. \A g : p(g) \in Nat /\ q(g) = p(g) + (IF g = f /\ e \in Ev THEN 1 ELSE 0)
      BY <1>1, CountMore
    <2> HIDE DEF p, q
    <2> QED
      BY <2>1
  <1>4. /\ Tally(fl) = a("INSERTED") + a("TIMEOUT") + a("ACTIVE") + a("ACTIVE_LATER")
        /\ Tally(gl) = c("INSERTED") + c("TIMEOUT") + c("ACTIVE") + c("ACTIVE_LATER")
        /\ ActiveTally(fl) = p("ACTIVE") + p("ACTIVE_LATER")
        /\ ActiveTally(gl) = q("ACTIVE") + q("ACTIVE_LATER")
    BY DEF Tally, ActiveTally
  <1> HIDE DEF a, c, p, q
  <1>5. Counted(e) = in
    BY <1>1
  <1>6. in \in Nat
    OBVIOUS
  <1> HIDE DEF in
  <1>7. f \in {"INSERTED", "TIMEOUT", "ACTIVE", "ACTIVE_LATER"}
    BY DEF Pending
  <1>8. /\ a("INSERTED") \in Nat /\ a("TIMEOUT") \in Nat /\ a("ACTIVE") \in Nat
        /\ a("ACTIVE_LATER") \in Nat /\ p("ACTIVE") \in Nat /\ p("ACTIVE_LATER") \in Nat
    BY <1>2, <1>3
  <1>9. /\ c("INSERTED") = a("INSERTED") + (IF f = "INSERTED" THEN in ELSE 0)
        /\ c("TIMEOUT") = a("TIMEOUT") + (IF f = "TIMEOUT" THEN in ELSE 0)
        /\ c("ACTIVE") = a("ACTIVE") + (IF f = "ACTIVE" THEN in ELSE 0)
        /\ c("ACTIVE_LATER") = a("ACTIVE_LATER") + (IF f = "ACTIVE_LATER" THEN in ELSE 0)
        /\ q("ACTIVE") = p("ACTIVE") + (IF f = "ACTIVE" THEN 1 ELSE 0)
        /\ q("ACTIVE_LATER") = p("ACTIVE_LATER") + (IF f = "ACTIVE_LATER" THEN 1 ELSE 0)
    BY <1>2, <1>3
  <1>10. Tally(gl) = Tally(fl) + in /\ Tally(fl) \in Nat /\ Tally(gl) \in Nat
    BY <1>4, <1>6, <1>7, <1>8, <1>9
  <1>11. /\ ActiveTally(gl) = ActiveTally(fl)
                              + (IF f \in {"ACTIVE", "ACTIVE_LATER"} THEN 1 ELSE 0)
         /\ ActiveTally(fl) \in Nat /\ ActiveTally(gl) \in Nat
    BY <1>4, <1>7, <1>8, <1>9
  <1> QED
    BY <1>5, <1>10, <1>11

-----------------------------------------------------------------------------
(* The queues *)

(* One more in front. *)
LEMMA ListPut ==
  ASSUME NEW q, NEW T, ListOf(q, T), NEW e \in Ev, e \notin T
  PROVE  ListOf(<<e>> \o q, T \cup {e})
  <1> DEFINE o == <<e>>
  <1>1. o \in Seq(Ev) /\ Len(o) = 1 /\ o[1] = e /\ DOMAIN o = 1 .. 1
    OBVIOUS
  <1>2. ToSet(o) = {e} /\ IsInjective(o)
    BY <1>1 DEF ToSet, IsInjective
  <1> HIDE DEF o
  <1>3. q \in Seq(Ev) /\ ToSet(q) = T /\ IsInjective(q)
    BY DEF ListOf
  <1>4. ToSet(o) \cap ToSet(q) = {}
    BY <1>2, <1>3
  <1>5. IsList(o \o q, Ev, Len(o) + Len(q), ToSet(o) \cup ToSet(q))
    BY <1>1, <1>2, <1>3, <1>4, ConcatKeeps
  <1>6. ToSet(o) \cup ToSet(q) = T \cup {e}
    BY <1>2, <1>3
  <1> QED
    BY <1>5, <1>6 DEF ListOf, IsList, o

ListFields == {"flags", "timeheap", "ctl", "io", "activequeues", "later",
               "event_count", "event_count_active"}

(* From b to r only the fields F change. *)
Only(b, r, F) == DOMAIN r = Fields /\ \A f \in Fields \ F : r[f] = b[f]

(* A change of the lists that e is on. *)
Relisted(b, r, e) ==
    /\ Good(r) /\ Only(b, r, ListFields)
    /\ \A x \in Ev : x # e => r.flags[x] = b.flags[x]

(* The same events have f. *)
SameOn(b, r, f) == \A x \in Ev : f \in r.flags[x] <=> f \in b.flags[x]

(* The timer lists depend on nothing else. *)
LEMMA KeepTimes ==
  ASSUME NEW b, NEW r, r.timeheap = b.timeheap, r.ctl = b.ctl, r.tmo = b.tmo,
         r.common = b.common, SameOn(b, r, "TIMEOUT")
  PROVE  (HeapOK(b) => HeapOK(r)) /\ (CtlOK(b) => CtlOK(r))
  <1>1. Timed(r) = Timed(b) /\ CommonTimed(r) = CommonTimed(b)
    BY DEF Timed, CommonTimed, SameOn
  <1> QED
    BY <1>1 DEF HeapOK, CtlOK

(* Nor the list of the descriptor. *)
LEMMA KeepIo ==
  ASSUME NEW b, NEW r, r.io = b.io, SameOn(b, r, "INSERTED")
  PROVE  IoOK(b) => IoOK(r)
  <1>1. OnIo(r) = OnIo(b)
    BY EventsAre DEF OnIo, SameOn
  <1> QED
    BY <1>1 DEF IoOK

(* Nor the active queues. *)
LEMMA KeepActive ==
  ASSUME NEW b, NEW r, r.activequeues = b.activequeues, SameOn(b, r, "ACTIVE")
  PROVE  ActiveOK(b) => ActiveOK(r)
  <1>1. \A p : ActiveIn(r, p) = ActiveIn(b, p)
    BY DEF ActiveIn, SameOn
  <1> QED
    BY <1>1 DEF ActiveOK

(* Nor the callbacks put off. *)
LEMMA KeepLater ==
  ASSUME NEW b, NEW r, r.later = b.later, SameOn(b, r, "ACTIVE_LATER")
  PROVE  LaterOK(b) => LaterOK(r)
  <1>1. PutOff(r) = PutOff(b)
    BY DEF PutOff, SameOn
  <1> QED
    BY <1>1 DEF LaterOK

(* event_queue_remove_active. *)
LEMMA RemoveActive ==
  ASSUME NEW b, Good(b), NEW e \in Ev, "ACTIVE" \in b.flags[e]
  PROVE  LET r == event_queue_remove_active(b, e)
         IN  /\ Relisted(b, r, e) /\ r.flags[e] = b.flags[e] \ {"ACTIVE"}
             /\ Only(b, r, {"flags", "event_count", "event_count_active", "activequeues"})
  <1> DEFINE r == event_queue_remove_active(b, e)
  <1>1. /\ Only(b, r, {"flags", "event_count", "event_count_active", "activequeues"})
        /\ r.flags = [b.flags EXCEPT ![e] = @ \ {"ACTIVE"}]
        /\ r.event_count = b.event_count - Counted(e)
        /\ r.event_count_active = b.event_count_active - 1
        /\ r.activequeues = [b.activequeues EXCEPT ![Pri[e]] = RemoveFirst(@, e)]
    BY DEF Good, Typed, Only, Fields, event_queue_remove_active
  <1> HIDE DEF r
  <1>2. /\ r.tmo = b.tmo /\ r.common = b.common /\ r.io_timeout = b.io_timeout
        /\ r.timeheap = b.timeheap /\ r.ctl = b.ctl /\ r.io = b.io /\ r.later = b.later
        /\ r.running_loop = b.running_loop /\ r.event_break = b.event_break
        /\ r.is_notify_pending = b.is_notify_pending /\ r.th_notify = b.th_notify
        /\ r.tv_cache = b.tv_cache /\ r.clock = b.clock
    BY <1>1 DEF Only, Fields
  <1>3. /\ r.flags \in [Ev -> SUBSET Marks] /\ r.flags[e] = b.flags[e] \ {"ACTIVE"}
        /\ \A x \in Ev : x # e => r.flags[x] = b.flags[x]
    BY <1>1 DEF Good, Typed, Marks, Pending
  <1>4. Gets(r.flags, b.flags, e, "ACTIVE")
    BY <1>3 DEF Gets
  <1>5. CountsOK(r) /\ r.event_count \in Int /\ r.event_count_active \in Int
    <2>1. "ACTIVE" \in Pending
      BY DEF Pending
    <2>2. b.event_count = Tally(b.flags) /\ b.event_count_active = ActiveTally(b.flags)
      BY DEF Good, CountsOK
    <2>3. Counted(e) \in Int
      BY DEF Counted
    <2>4. /\ Tally(b.flags) = Tally(r.flags) + Counted(e)
          /\ ActiveTally(b.flags) = ActiveTally(r.flags) + 1
          /\ Tally(b.flags) \in Nat /\ Tally(r.flags) \in Nat
          /\ ActiveTally(b.flags) \in Nat /\ ActiveTally(r.flags) \in Nat
      BY <1>4, <2>1, TallyOn
    <2>5. r.event_count = Tally(r.flags) /\ r.event_count \in Int
      BY <1>1, <2>2, <2>3, <2>4
    <2>6. r.event_count_active = ActiveTally(r.flags) /\ r.event_count_active \in Int
      BY <1>1, <1>2, <2>2, <2>4
    <2> QED
      BY <2>5, <2>6 DEF CountsOK
  <1>6. Typed(r)
    <2>1. RemoveFirst(b.activequeues[Pri[e]], e) \in Seq(Ev)
      <3>1. ListOf(b.activequeues[Pri[e]], ActiveIn(b, Pri[e]))
        BY EventsAre DEF Good, ActiveOK
      <3>2. e \in ActiveIn(b, Pri[e])
        BY DEF ActiveIn
      <3>3. ListOf(RemoveFirst(b.activequeues[Pri[e]], e), ActiveIn(b, Pri[e]) \ {e})
        BY <3>1, <3>2, ListRemove
      <3> QED
        BY <3>3 DEF ListOf
    <2>2. r.activequeues \in [Priorities -> Seq(Ev)]
      BY <1>1, <2>1, EventsAre DEF Good, Typed
    <2> QED
      BY <1>1, <1>2, <1>3, <1>5, <2>2 DEF Good, Typed, Only
  <1>7. KindsOK(r)
    BY <1>2, <1>3, EventsAre DEF Good, KindsOK
  <1>8. HeapOK(r) /\ CtlOK(r)
    <2>1. SameOn(b, r, "TIMEOUT")
      BY <1>3 DEF SameOn
    <2> QED
      BY <1>2, <2>1, KeepTimes DEF Good
  <1>9. IoOK(r)
    <2>1. SameOn(b, r, "INSERTED")
      BY <1>3 DEF SameOn
    <2> QED
      BY <1>2, <2>1, KeepIo DEF Good
  <1>10. ActiveOK(r)
    <2>1. SUFFICES ASSUME NEW p \in Priorities
                   PROVE  ListOf(r.activequeues[p], ActiveIn(r, p))
      BY DEF ActiveOK
    <2>2. ListOf(b.activequeues[p], ActiveIn(b, p)) /\ b.activequeues \in [Priorities -> Seq(Ev)]
      BY DEF Good, ActiveOK, Typed
    <2>3. CASE p = Pri[e]
      <3>1. e \in ActiveIn(b, p) /\ ActiveIn(r, p) = ActiveIn(b, p) \ {e}
        BY <1>3, <2>3 DEF ActiveIn
      <3>2. r.activequeues[p] = RemoveFirst(b.activequeues[p], e)
        BY <1>1, <2>2, <2>3
      <3> QED
        BY <2>2, <3>1, <3>2, ListRemove
    <2>4. CASE p # Pri[e]
      <3>1. ActiveIn(r, p) = ActiveIn(b, p)
        BY <1>3, <2>4 DEF ActiveIn
      <3>2. r.activequeues[p] = b.activequeues[p]
        BY <1>1, <2>2, <2>4
      <3> QED
        BY <2>2, <3>1, <3>2
    <2> QED
      BY <2>3, <2>4
  <1>11. LaterOK(r)
    <2>1. SameOn(b, r, "ACTIVE_LATER")
      BY <1>3 DEF SameOn
    <2> QED
      BY <1>2, <2>1, KeepLater DEF Good
  <1>12. Only(b, r, ListFields)
    BY <1>1 DEF Only, ListFields
  <1>13. Good(r)
    BY <1>5, <1>6, <1>7, <1>8, <1>9, <1>10, <1>11 DEF Good
  <1> QED
    BY <1>1, <1>3, <1>12, <1>13 DEF Relisted, r

(* event_queue_remove_active_later. *)
LEMMA RemoveLater ==
  ASSUME NEW b, Good(b), NEW e \in Ev, "ACTIVE_LATER" \in b.flags[e]
  PROVE  LET r == event_queue_remove_active_later(b, e)
         IN  /\ Relisted(b, r, e) /\ r.flags[e] = b.flags[e] \ {"ACTIVE_LATER"}
             /\ Only(b, r, {"flags", "event_count", "event_count_active", "later"})
  <1> DEFINE r == event_queue_remove_active_later(b, e)
  <1>1. /\ Only(b, r, {"flags", "event_count", "event_count_active", "later"})
        /\ r.flags = [b.flags EXCEPT ![e] = @ \ {"ACTIVE_LATER"}]
        /\ r.event_count = b.event_count - Counted(e)
        /\ r.event_count_active = b.event_count_active - 1
        /\ r.later = RemoveFirst(b.later, e)
    BY DEF Good, Typed, Only, Fields, event_queue_remove_active_later
  <1> HIDE DEF r
  <1>2. /\ r.tmo = b.tmo /\ r.common = b.common /\ r.io_timeout = b.io_timeout
        /\ r.timeheap = b.timeheap /\ r.ctl = b.ctl /\ r.io = b.io
        /\ r.activequeues = b.activequeues /\ r.running_loop = b.running_loop
        /\ r.event_break = b.event_break /\ r.is_notify_pending = b.is_notify_pending
        /\ r.th_notify = b.th_notify /\ r.tv_cache = b.tv_cache /\ r.clock = b.clock
    BY <1>1 DEF Only, Fields
  <1>3. /\ r.flags \in [Ev -> SUBSET Marks] /\ r.flags[e] = b.flags[e] \ {"ACTIVE_LATER"}
        /\ \A x \in Ev : x # e => r.flags[x] = b.flags[x]
    BY <1>1 DEF Good, Typed, Marks, Pending
  <1>4. Gets(r.flags, b.flags, e, "ACTIVE_LATER")
    BY <1>3 DEF Gets
  <1>5. CountsOK(r) /\ r.event_count \in Int /\ r.event_count_active \in Int
    <2>1. "ACTIVE_LATER" \in Pending
      BY DEF Pending
    <2>2. b.event_count = Tally(b.flags) /\ b.event_count_active = ActiveTally(b.flags)
      BY DEF Good, CountsOK
    <2>3. Counted(e) \in Int
      BY DEF Counted
    <2>4. /\ Tally(b.flags) = Tally(r.flags) + Counted(e)
          /\ ActiveTally(b.flags) = ActiveTally(r.flags) + 1
          /\ Tally(b.flags) \in Nat /\ Tally(r.flags) \in Nat
          /\ ActiveTally(b.flags) \in Nat /\ ActiveTally(r.flags) \in Nat
      BY <1>4, <2>1, TallyOn
    <2>5. r.event_count = Tally(r.flags) /\ r.event_count \in Int
      BY <1>1, <2>2, <2>3, <2>4
    <2>6. r.event_count_active = ActiveTally(r.flags) /\ r.event_count_active \in Int
      BY <1>1, <1>2, <2>2, <2>4
    <2> QED
      BY <2>5, <2>6 DEF CountsOK
  <1>6. Typed(r)
    BY <1>1, <1>2, <1>3, <1>5, EventsAre DEF Good, Typed, Only
  <1>7. KindsOK(r)
    BY <1>2, <1>3, EventsAre DEF Good, KindsOK
  <1>8. HeapOK(r) /\ CtlOK(r)
    <2>1. SameOn(b, r, "TIMEOUT")
      BY <1>3 DEF SameOn
    <2> QED
      BY <1>2, <2>1, KeepTimes DEF Good
  <1>9. IoOK(r)
    <2>1. SameOn(b, r, "INSERTED")
      BY <1>3 DEF SameOn
    <2> QED
      BY <1>2, <2>1, KeepIo DEF Good
  <1>10. ActiveOK(r)
    <2>1. SameOn(b, r, "ACTIVE")
      BY <1>3 DEF SameOn
    <2> QED
      BY <1>2, <2>1, KeepActive DEF Good
  <1>11. LaterOK(r)
    <2>1. e \in PutOff(b) /\ PutOff(r) = PutOff(b) \ {e}
      BY <1>3 DEF PutOff
    <2> QED
      BY <1>1, <2>1, ListRemove DEF Good, LaterOK
  <1>12. Only(b, r, ListFields)
    BY <1>1 DEF Only, ListFields
  <1>13. Good(r)
    BY <1>5, <1>6, <1>7, <1>8, <1>9, <1>10, <1>11 DEF Good
  <1> QED
    BY <1>1, <1>3, <1>12, <1>13 DEF Relisted, r

(* event_queue_remove_timeout. *)
LEMMA RemoveTimeout ==
  ASSUME NEW b, Good(b), NEW e \in Ev, "TIMEOUT" \in b.flags[e]
  PROVE  LET r == event_queue_remove_timeout(b, e)
         IN  /\ Relisted(b, r, e) /\ r.flags[e] = b.flags[e] \ {"TIMEOUT"}
             /\ Only(b, r, {"flags", "event_count", "ctl", "timeheap"})
  <1> DEFINE r == event_queue_remove_timeout(b, e)
  <1>1. /\ Only(b, r, {"flags", "event_count", "ctl", "timeheap"})
        /\ r.flags = [b.flags EXCEPT ![e] = @ \ {"TIMEOUT"}]
        /\ r.event_count = b.event_count - Counted(e)
        /\ r.ctl = IF b.common[e] THEN RemoveFirst(b.ctl, e) ELSE b.ctl
        /\ r.timeheap = IF b.common[e] THEN b.timeheap ELSE min_heap_erase_(b.timeheap, b.tmo, e)
    BY DEF Good, Typed, Only, Fields, event_queue_remove_timeout
  <1> HIDE DEF r
  <1>2. /\ r.tmo = b.tmo /\ r.common = b.common /\ r.io_timeout = b.io_timeout
        /\ r.io = b.io /\ r.activequeues = b.activequeues /\ r.later = b.later
        /\ r.event_count_active = b.event_count_active /\ r.running_loop = b.running_loop
        /\ r.event_break = b.event_break /\ r.is_notify_pending = b.is_notify_pending
        /\ r.th_notify = b.th_notify /\ r.tv_cache = b.tv_cache /\ r.clock = b.clock
    BY <1>1 DEF Only, Fields
  <1>3. /\ r.flags \in [Ev -> SUBSET Marks] /\ r.flags[e] = b.flags[e] \ {"TIMEOUT"}
        /\ \A x \in Ev : x # e => r.flags[x] = b.flags[x]
    BY <1>1 DEF Good, Typed, Marks, Pending
  <1>4. Gets(r.flags, b.flags, e, "TIMEOUT")
    BY <1>3 DEF Gets
  <1>5. CountsOK(r) /\ r.event_count \in Int /\ r.event_count_active \in Int
    <2>1. "TIMEOUT" \in Pending
      BY DEF Pending
    <2>2. b.event_count = Tally(b.flags) /\ b.event_count_active = ActiveTally(b.flags)
      BY DEF Good, CountsOK
    <2>3. Counted(e) \in Int
      BY DEF Counted
    <2>4. /\ Tally(b.flags) = Tally(r.flags) + Counted(e)
          /\ ActiveTally(b.flags) = ActiveTally(r.flags) + 0
          /\ Tally(b.flags) \in Nat /\ Tally(r.flags) \in Nat
          /\ ActiveTally(b.flags) \in Nat /\ ActiveTally(r.flags) \in Nat
      BY <1>4, <2>1, TallyOn
    <2>5. r.event_count = Tally(r.flags) /\ r.event_count \in Int
      BY <1>1, <2>2, <2>3, <2>4
    <2>6. r.event_count_active = ActiveTally(r.flags) /\ r.event_count_active \in Int
      BY <1>1, <1>2, <2>2, <2>4
    <2> QED
      BY <2>5, <2>6 DEF CountsOK
  <1>6. Typed(r)
    BY <1>1, <1>2, <1>3, <1>5, EventsAre DEF Good, Typed, Only
  <1>7. KindsOK(r)
    BY <1>2, <1>3, EventsAre DEF Good, KindsOK
  <1>8. HeapOK(r) /\ CtlOK(r)
    <2>1. \A x \in Ev : "TIMEOUT" \in r.flags[x] <=> "TIMEOUT" \in b.flags[x] /\ x # e
      BY <1>3
    <2>2. /\ HeapOf(b.timeheap, Ev, Len(b.timeheap), Timed(b), b.tmo) /\ b.tmo \in [Ev -> Nat]
          /\ ListOf(b.ctl, CommonTimed(b)) /\ Sorted(b.ctl, b.tmo)
      BY DEF Good, HeapOK, CtlOK, Typed
    <2>3. CASE b.common[e]
      <3>1. /\ r.ctl = RemoveFirst(b.ctl, e) /\ r.timeheap = b.timeheap
            /\ Timed(r) = Timed(b) /\ e \in CommonTimed(b)
            /\ CommonTimed(r) = CommonTimed(b) \ {e}
        BY <1>1, <1>2, <2>1, <2>3 DEF Timed, CommonTimed
      <3>2. HeapOK(r)
        BY <1>2, <2>2, <3>1 DEF HeapOK
      <3>3. ListOf(r.ctl, CommonTimed(r)) /\ Sorted(r.ctl, b.tmo)
        BY <2>2, <3>1, ListRemove, SortedRemove
      <3> QED
        BY <1>2, <3>2, <3>3 DEF CtlOK
    <2>4. CASE ~b.common[e]
      <3>1. /\ r.timeheap = min_heap_erase_(b.timeheap, b.tmo, e) /\ r.ctl = b.ctl
            /\ CommonTimed(r) = CommonTimed(b) /\ e \in Timed(b)
            /\ Timed(r) = Timed(b) \ {e}
        BY <1>1, <1>2, <2>1, <2>4 DEF Timed, CommonTimed
      <3>2. CtlOK(r)
        BY <1>2, <2>2, <3>1 DEF CtlOK
      <3> DEFINE n == Len(b.timeheap)
      <3>3. n \in Nat
        BY <2>2, Places DEF HeapOf, IsList
      <3>4. HeapOf(b.timeheap, Ev, n, Timed(b), b.tmo)
        BY <2>2
      <3> HIDE DEF n
      <3>5. HeapOf(r.timeheap, Ev, n - 1, Timed(r), b.tmo)
        BY <2>2, <3>1, <3>3, <3>4, EraseKeeps
      <3>6. Len(r.timeheap) = n - 1
        BY <3>5 DEF HeapOf, IsList
      <3> QED
        BY <1>2, <3>2, <3>5, <3>6 DEF HeapOK
    <2> QED
      BY <2>3, <2>4
  <1>9. IoOK(r)
    <2>1. SameOn(b, r, "INSERTED")
      BY <1>3 DEF SameOn
    <2> QED
      BY <1>2, <2>1, KeepIo DEF Good
  <1>10. ActiveOK(r)
    <2>1. SameOn(b, r, "ACTIVE")
      BY <1>3 DEF SameOn
    <2> QED
      BY <1>2, <2>1, KeepActive DEF Good
  <1>11. LaterOK(r)
    <2>1. SameOn(b, r, "ACTIVE_LATER")
      BY <1>3 DEF SameOn
    <2> QED
      BY <1>2, <2>1, KeepLater DEF Good
  <1>12. Only(b, r, ListFields)
    BY <1>1 DEF Only, ListFields
  <1>13. Good(r)
    BY <1>5, <1>6, <1>7, <1>8, <1>9, <1>10, <1>11 DEF Good
  <1> QED
    BY <1>1, <1>3, <1>12, <1>13 DEF Relisted, r

(* event_queue_insert_timeout. *)
LEMMA InsertTimeout ==
  ASSUME NEW b, Good(b), NEW e \in Ev \ {NOTIFY}, "TIMEOUT" \notin b.flags[e],
         "FINALIZING" \notin b.flags[e]
  PROVE  LET r == event_queue_insert_timeout(b, e)
         IN  /\ Relisted(b, r, e) /\ r.flags[e] = b.flags[e] \cup {"TIMEOUT"}
             /\ Only(b, r, {"flags", "event_count", "ctl", "timeheap"})
  <1> DEFINE r == event_queue_insert_timeout(b, e)
  <1>1. /\ Only(b, r, {"flags", "event_count", "ctl", "timeheap"})
        /\ r.flags = [b.flags EXCEPT ![e] = @ \cup {"TIMEOUT"}]
        /\ r.event_count = b.event_count + Counted(e)
        /\ r.ctl = IF b.common[e] THEN insert_common_timeout_inorder(b, e) ELSE b.ctl
        /\ r.timeheap = IF b.common[e] THEN b.timeheap ELSE min_heap_push_(b.timeheap, b.tmo, e)
    BY DEF Good, Typed, Only, Fields, event_queue_insert_timeout
  <1> HIDE DEF r
  <1>2. /\ r.tmo = b.tmo /\ r.common = b.common /\ r.io_timeout = b.io_timeout
        /\ r.io = b.io /\ r.activequeues = b.activequeues /\ r.later = b.later
        /\ r.event_count_active = b.event_count_active /\ r.running_loop = b.running_loop
        /\ r.event_break = b.event_break /\ r.is_notify_pending = b.is_notify_pending
        /\ r.th_notify = b.th_notify /\ r.tv_cache = b.tv_cache /\ r.clock = b.clock
    BY <1>1 DEF Only, Fields
  <1>3. /\ r.flags \in [Ev -> SUBSET Marks] /\ r.flags[e] = b.flags[e] \cup {"TIMEOUT"}
        /\ \A x \in Ev : x # e => r.flags[x] = b.flags[x]
    BY <1>1 DEF Good, Typed, Marks, Pending
  <1>4. Gets(b.flags, r.flags, e, "TIMEOUT")
    BY <1>3 DEF Gets
  <1>5. CountsOK(r) /\ r.event_count \in Int /\ r.event_count_active \in Int
    <2>1. "TIMEOUT" \in Pending
      BY DEF Pending
    <2>2. b.event_count = Tally(b.flags) /\ b.event_count_active = ActiveTally(b.flags)
      BY DEF Good, CountsOK
    <2>3. Counted(e) \in Int
      BY DEF Counted
    <2>4. /\ Tally(r.flags) = Tally(b.flags) + Counted(e)
          /\ ActiveTally(r.flags) = ActiveTally(b.flags) + 0
          /\ Tally(b.flags) \in Nat /\ Tally(r.flags) \in Nat
          /\ ActiveTally(b.flags) \in Nat /\ ActiveTally(r.flags) \in Nat
      BY <1>4, <2>1, TallyOn
    <2>5. r.event_count = Tally(r.flags) /\ r.event_count \in Int
      BY <1>1, <2>2, <2>3, <2>4
    <2>6. r.event_count_active = ActiveTally(r.flags) /\ r.event_count_active \in Int
      BY <1>1, <1>2, <2>2, <2>4
    <2> QED
      BY <2>5, <2>6 DEF CountsOK
  <1>6. Typed(r)
    BY <1>1, <1>2, <1>3, <1>5, EventsAre DEF Good, Typed, Only
  <1>7. KindsOK(r)
    BY <1>2, <1>3, EventsAre DEF Good, KindsOK
  <1>8. HeapOK(r) /\ CtlOK(r)
    <2>1. \A x \in Ev : "TIMEOUT" \in r.flags[x] <=> "TIMEOUT" \in b.flags[x] \/ x = e
      BY <1>3
    <2>2. /\ HeapOf(b.timeheap, Ev, Len(b.timeheap), Timed(b), b.tmo) /\ b.tmo \in [Ev -> Nat]
          /\ ListOf(b.ctl, CommonTimed(b)) /\ Sorted(b.ctl, b.tmo)
      BY DEF Good, HeapOK, CtlOK, Typed
    <2>3. CASE b.common[e]
      <3>1. /\ r.ctl = insert_common_timeout_inorder(b, e) /\ r.timeheap = b.timeheap
            /\ Timed(r) = Timed(b) /\ e \notin CommonTimed(b)
            /\ CommonTimed(r) = CommonTimed(b) \cup {e}
        BY <1>1, <1>2, <2>1, <2>3 DEF Timed, CommonTimed
      <3>2. HeapOK(r)
        BY <1>2, <2>2, <3>1 DEF HeapOK
      <3>3. ListOf(r.ctl, CommonTimed(r)) /\ Sorted(r.ctl, b.tmo)
        BY <2>2, <3>1, InOrder
      <3> QED
        BY <1>2, <3>2, <3>3 DEF CtlOK
    <2>4. CASE ~b.common[e]
      <3>1. /\ r.timeheap = min_heap_push_(b.timeheap, b.tmo, e) /\ r.ctl = b.ctl
            /\ CommonTimed(r) = CommonTimed(b) /\ e \notin Timed(b)
            /\ Timed(r) = Timed(b) \cup {e}
        BY <1>1, <1>2, <2>1, <2>4 DEF Timed, CommonTimed
      <3>2. CtlOK(r)
        BY <1>2, <2>2, <3>1 DEF CtlOK
      <3> DEFINE n == Len(b.timeheap)
      <3>3. n \in Nat
        BY <2>2, Places DEF HeapOf, IsList
      <3>4. HeapOf(b.timeheap, Ev, n, Timed(b), b.tmo)
        BY <2>2
      <3> HIDE DEF n
      <3>5. HeapOf(r.timeheap, Ev, n + 1, Timed(r), b.tmo)
        BY <2>2, <3>1, <3>3, <3>4, PushKeeps
      <3>6. Len(r.timeheap) = n + 1
        BY <3>5 DEF HeapOf, IsList
      <3> QED
        BY <1>2, <3>2, <3>5, <3>6 DEF HeapOK
    <2> QED
      BY <2>3, <2>4
  <1>9. IoOK(r)
    <2>1. SameOn(b, r, "INSERTED")
      BY <1>3 DEF SameOn
    <2> QED
      BY <1>2, <2>1, KeepIo DEF Good
  <1>10. ActiveOK(r)
    <2>1. SameOn(b, r, "ACTIVE")
      BY <1>3 DEF SameOn
    <2> QED
      BY <1>2, <2>1, KeepActive DEF Good
  <1>11. LaterOK(r)
    <2>1. SameOn(b, r, "ACTIVE_LATER")
      BY <1>3 DEF SameOn
    <2> QED
      BY <1>2, <2>1, KeepLater DEF Good
  <1>12. Only(b, r, ListFields)
    BY <1>1 DEF Only, ListFields
  <1>13. Good(r)
    BY <1>5, <1>6, <1>7, <1>8, <1>9, <1>10, <1>11 DEF Good
  <1> QED
    BY <1>1, <1>3, <1>12, <1>13 DEF Relisted, r

(* event_queue_insert_active. *)
LEMMA InsertActive ==
  ASSUME NEW b, Good(b), NEW e \in Ev, "FINALIZING" \notin b.flags[e],
         b.flags[e] \cap {"ACTIVE", "ACTIVE_LATER"} = {}
  PROVE  LET r == event_queue_insert_active(b, e)
         IN  /\ Relisted(b, r, e) /\ r.flags[e] = b.flags[e] \cup {"ACTIVE"}
             /\ Only(b, r, {"flags", "event_count", "event_count_active", "activequeues"})
  <1> DEFINE r == event_queue_insert_active(b, e)
  <1>1. /\ Only(b, r, {"flags", "event_count", "event_count_active", "activequeues"})
        /\ r.flags = [b.flags EXCEPT ![e] = @ \cup {"ACTIVE"}]
        /\ r.event_count = b.event_count + Counted(e)
        /\ r.event_count_active = b.event_count_active + 1
        /\ r.activequeues = [b.activequeues EXCEPT ![Pri[e]] = Append(@, e)]
    BY DEF Good, Typed, Only, Fields, event_queue_insert_active, Has
  <1> HIDE DEF r
  <1>2. /\ r.tmo = b.tmo /\ r.common = b.common /\ r.io_timeout = b.io_timeout
        /\ r.timeheap = b.timeheap /\ r.ctl = b.ctl /\ r.io = b.io /\ r.later = b.later
        /\ r.running_loop = b.running_loop /\ r.event_break = b.event_break
        /\ r.is_notify_pending = b.is_notify_pending /\ r.th_notify = b.th_notify
        /\ r.tv_cache = b.tv_cache /\ r.clock = b.clock
    BY <1>1 DEF Only, Fields
  <1>3. /\ r.flags \in [Ev -> SUBSET Marks] /\ r.flags[e] = b.flags[e] \cup {"ACTIVE"}
        /\ \A x \in Ev : x # e => r.flags[x] = b.flags[x]
    BY <1>1 DEF Good, Typed, Marks, Pending
  <1>4. Gets(b.flags, r.flags, e, "ACTIVE")
    BY <1>3 DEF Gets
  <1>5. CountsOK(r) /\ r.event_count \in Int /\ r.event_count_active \in Int
    <2>1. "ACTIVE" \in Pending
      BY DEF Pending
    <2>2. b.event_count = Tally(b.flags) /\ b.event_count_active = ActiveTally(b.flags)
      BY DEF Good, CountsOK
    <2>3. Counted(e) \in Int
      BY DEF Counted
    <2>4. /\ Tally(r.flags) = Tally(b.flags) + Counted(e)
          /\ ActiveTally(r.flags) = ActiveTally(b.flags) + 1
          /\ Tally(b.flags) \in Nat /\ Tally(r.flags) \in Nat
          /\ ActiveTally(b.flags) \in Nat /\ ActiveTally(r.flags) \in Nat
      BY <1>4, <2>1, TallyOn
    <2>5. r.event_count = Tally(r.flags) /\ r.event_count \in Int
      BY <1>1, <2>2, <2>3, <2>4
    <2>6. r.event_count_active = ActiveTally(r.flags) /\ r.event_count_active \in Int
      BY <1>1, <1>2, <2>2, <2>4
    <2> QED
      BY <2>5, <2>6 DEF CountsOK
  <1>6. Typed(r)
    <2>1. Append(b.activequeues[Pri[e]], e) \in Seq(Ev)
      <3>1. ListOf(b.activequeues[Pri[e]], ActiveIn(b, Pri[e]))
        BY EventsAre DEF Good, ActiveOK
      <3>2. e \notin ActiveIn(b, Pri[e])
        BY DEF ActiveIn
      <3>3. ListOf(Append(b.activequeues[Pri[e]], e), ActiveIn(b, Pri[e]) \cup {e})
        BY <3>1, <3>2, ListAppend
      <3> QED
        BY <3>3 DEF ListOf
    <2>2. r.activequeues \in [Priorities -> Seq(Ev)]
      BY <1>1, <2>1, EventsAre DEF Good, Typed
    <2> QED
      BY <1>1, <1>2, <1>3, <1>5, <2>2 DEF Good, Typed, Only
  <1>7. KindsOK(r)
    BY <1>2, <1>3, EventsAre DEF Good, KindsOK
  <1>8. HeapOK(r) /\ CtlOK(r)
    <2>1. SameOn(b, r, "TIMEOUT")
      BY <1>3 DEF SameOn
    <2> QED
      BY <1>2, <2>1, KeepTimes DEF Good
  <1>9. IoOK(r)
    <2>1. SameOn(b, r, "INSERTED")
      BY <1>3 DEF SameOn
    <2> QED
      BY <1>2, <2>1, KeepIo DEF Good
  <1>10. ActiveOK(r)
    <2>1. SUFFICES ASSUME NEW p \in Priorities
                   PROVE  ListOf(r.activequeues[p], ActiveIn(r, p))
      BY DEF ActiveOK
    <2>2. ListOf(b.activequeues[p], ActiveIn(b, p)) /\ b.activequeues \in [Priorities -> Seq(Ev)]
      BY DEF Good, ActiveOK, Typed
    <2>3. CASE p = Pri[e]
      <3>1. e \notin ActiveIn(b, p) /\ ActiveIn(r, p) = ActiveIn(b, p) \cup {e}
        BY <1>3, <2>3 DEF ActiveIn
      <3>2. r.activequeues[p] = Append(b.activequeues[p], e)
        BY <1>1, <2>2, <2>3
      <3> QED
        BY <2>2, <3>1, <3>2, ListAppend
    <2>4. CASE p # Pri[e]
      <3>1. ActiveIn(r, p) = ActiveIn(b, p)
        BY <1>3, <2>4 DEF ActiveIn
      <3>2. r.activequeues[p] = b.activequeues[p]
        BY <1>1, <2>2, <2>4
      <3> QED
        BY <2>2, <3>1, <3>2
    <2> QED
      BY <2>3, <2>4
  <1>11. LaterOK(r)
    <2>1. SameOn(b, r, "ACTIVE_LATER")
      BY <1>3 DEF SameOn
    <2> QED
      BY <1>2, <2>1, KeepLater DEF Good
  <1>12. Only(b, r, ListFields)
    BY <1>1 DEF Only, ListFields
  <1>13. Good(r)
    BY <1>5, <1>6, <1>7, <1>8, <1>9, <1>10, <1>11 DEF Good
  <1> QED
    BY <1>1, <1>3, <1>12, <1>13 DEF Relisted, r

(* event_queue_insert_active_later. *)
LEMMA InsertLater ==
  ASSUME NEW b, Good(b), NEW e \in Ev, "FINALIZING" \notin b.flags[e],
         b.flags[e] \cap {"ACTIVE", "ACTIVE_LATER"} = {}
  PROVE  LET r == event_queue_insert_active_later(b, e)
         IN  /\ Relisted(b, r, e) /\ r.flags[e] = b.flags[e] \cup {"ACTIVE_LATER"}
             /\ Only(b, r, {"flags", "event_count", "event_count_active", "later"})
  <1> DEFINE r == event_queue_insert_active_later(b, e)
  <1>1. /\ Only(b, r, {"flags", "event_count", "event_count_active", "later"})
        /\ r.flags = [b.flags EXCEPT ![e] = @ \cup {"ACTIVE_LATER"}]
        /\ r.event_count = b.event_count + Counted(e)
        /\ r.event_count_active = b.event_count_active + 1
        /\ r.later = Append(b.later, e)
    BY DEF Good, Typed, Only, Fields, event_queue_insert_active_later
  <1> HIDE DEF r
  <1>2. /\ r.tmo = b.tmo /\ r.common = b.common /\ r.io_timeout = b.io_timeout
        /\ r.timeheap = b.timeheap /\ r.ctl = b.ctl /\ r.io = b.io
        /\ r.activequeues = b.activequeues /\ r.running_loop = b.running_loop
        /\ r.event_break = b.event_break /\ r.is_notify_pending = b.is_notify_pending
        /\ r.th_notify = b.th_notify /\ r.tv_cache = b.tv_cache /\ r.clock = b.clock
    BY <1>1 DEF Only, Fields
  <1>3. /\ r.flags \in [Ev -> SUBSET Marks] /\ r.flags[e] = b.flags[e] \cup {"ACTIVE_LATER"}
        /\ \A x \in Ev : x # e => r.flags[x] = b.flags[x]
    BY <1>1 DEF Good, Typed, Marks, Pending
  <1>4. Gets(b.flags, r.flags, e, "ACTIVE_LATER")
    BY <1>3 DEF Gets
  <1>5. CountsOK(r) /\ r.event_count \in Int /\ r.event_count_active \in Int
    <2>1. "ACTIVE_LATER" \in Pending
      BY DEF Pending
    <2>2. b.event_count = Tally(b.flags) /\ b.event_count_active = ActiveTally(b.flags)
      BY DEF Good, CountsOK
    <2>3. Counted(e) \in Int
      BY DEF Counted
    <2>4. /\ Tally(r.flags) = Tally(b.flags) + Counted(e)
          /\ ActiveTally(r.flags) = ActiveTally(b.flags) + 1
          /\ Tally(b.flags) \in Nat /\ Tally(r.flags) \in Nat
          /\ ActiveTally(b.flags) \in Nat /\ ActiveTally(r.flags) \in Nat
      BY <1>4, <2>1, TallyOn
    <2>5. r.event_count = Tally(r.flags) /\ r.event_count \in Int
      BY <1>1, <2>2, <2>3, <2>4
    <2>6. r.event_count_active = ActiveTally(r.flags) /\ r.event_count_active \in Int
      BY <1>1, <1>2, <2>2, <2>4
    <2> QED
      BY <2>5, <2>6 DEF CountsOK
  <1>6. Typed(r)
    BY <1>1, <1>2, <1>3, <1>5, EventsAre DEF Good, Typed, Only
  <1>7. KindsOK(r)
    BY <1>2, <1>3, EventsAre DEF Good, KindsOK
  <1>8. HeapOK(r) /\ CtlOK(r)
    <2>1. SameOn(b, r, "TIMEOUT")
      BY <1>3 DEF SameOn
    <2> QED
      BY <1>2, <2>1, KeepTimes DEF Good
  <1>9. IoOK(r)
    <2>1. SameOn(b, r, "INSERTED")
      BY <1>3 DEF SameOn
    <2> QED
      BY <1>2, <2>1, KeepIo DEF Good
  <1>10. ActiveOK(r)
    <2>1. SameOn(b, r, "ACTIVE")
      BY <1>3 DEF SameOn
    <2> QED
      BY <1>2, <2>1, KeepActive DEF Good
  <1>11. LaterOK(r)
    <2>1. e \notin PutOff(b) /\ PutOff(r) = PutOff(b) \cup {e}
      BY <1>3 DEF PutOff
    <2> QED
      BY <1>1, <2>1, ListAppend DEF Good, LaterOK
  <1>12. Only(b, r, ListFields)
    BY <1>1 DEF Only, ListFields
  <1>13. Good(r)
    BY <1>5, <1>6, <1>7, <1>8, <1>9, <1>10, <1>11 DEF Good
  <1> QED
    BY <1>1, <1>3, <1>12, <1>13 DEF Relisted, r

(* event_queue_remove_inserted and evmap_io_del_. *)
LEMMA RemoveInserted ==
  ASSUME NEW b, Good(b), NEW e \in Ev, "INSERTED" \in b.flags[e], e \in IoEvents
  PROVE  LET r == evmap_io_del_(event_queue_remove_inserted(b, e), e)
         IN  /\ Relisted(b, r, e) /\ r.flags[e] = b.flags[e] \ {"INSERTED"}
             /\ Only(b, r, {"flags", "event_count", "io"})
  <1> DEFINE r == evmap_io_del_(event_queue_remove_inserted(b, e), e)
  <1>1. /\ Only(b, r, {"flags", "event_count", "io"})
        /\ r.flags = [b.flags EXCEPT ![e] = @ \ {"INSERTED"}]
        /\ r.event_count = b.event_count - Counted(e)
        /\ r.io = RemoveFirst(b.io, e)
    BY DEF Good, Typed, Only, Fields, event_queue_remove_inserted, evmap_io_del_
  <1> HIDE DEF r
  <1>2. /\ r.tmo = b.tmo /\ r.common = b.common /\ r.io_timeout = b.io_timeout
        /\ r.timeheap = b.timeheap /\ r.ctl = b.ctl /\ r.activequeues = b.activequeues
        /\ r.later = b.later /\ r.event_count_active = b.event_count_active
        /\ r.running_loop = b.running_loop /\ r.event_break = b.event_break
        /\ r.is_notify_pending = b.is_notify_pending /\ r.th_notify = b.th_notify
        /\ r.tv_cache = b.tv_cache /\ r.clock = b.clock
    BY <1>1 DEF Only, Fields
  <1>3. /\ r.flags \in [Ev -> SUBSET Marks] /\ r.flags[e] = b.flags[e] \ {"INSERTED"}
        /\ \A x \in Ev : x # e => r.flags[x] = b.flags[x]
    BY <1>1 DEF Good, Typed, Marks, Pending
  <1>4. Gets(r.flags, b.flags, e, "INSERTED")
    BY <1>3 DEF Gets
  <1>5. CountsOK(r) /\ r.event_count \in Int /\ r.event_count_active \in Int
    <2>1. "INSERTED" \in Pending
      BY DEF Pending
    <2>2. b.event_count = Tally(b.flags) /\ b.event_count_active = ActiveTally(b.flags)
      BY DEF Good, CountsOK
    <2>3. Counted(e) \in Int
      BY DEF Counted
    <2>4. /\ Tally(b.flags) = Tally(r.flags) + Counted(e)
          /\ ActiveTally(b.flags) = ActiveTally(r.flags) + 0
          /\ Tally(b.flags) \in Nat /\ Tally(r.flags) \in Nat
          /\ ActiveTally(b.flags) \in Nat /\ ActiveTally(r.flags) \in Nat
      BY <1>4, <2>1, TallyOn
    <2>5. r.event_count = Tally(r.flags) /\ r.event_count \in Int
      BY <1>1, <2>2, <2>3, <2>4
    <2>6. r.event_count_active = ActiveTally(r.flags) /\ r.event_count_active \in Int
      BY <1>1, <1>2, <2>2, <2>4
    <2> QED
      BY <2>5, <2>6 DEF CountsOK
  <1>6. Typed(r)
    BY <1>1, <1>2, <1>3, <1>5, EventsAre DEF Good, Typed, Only
  <1>7. KindsOK(r)
    BY <1>2, <1>3, EventsAre DEF Good, KindsOK
  <1>8. HeapOK(r) /\ CtlOK(r)
    <2>1. SameOn(b, r, "TIMEOUT")
      BY <1>3 DEF SameOn
    <2> QED
      BY <1>2, <2>1, KeepTimes DEF Good
  <1>9. IoOK(r)
    <2>1. e \in OnIo(b) /\ OnIo(r) = OnIo(b) \ {e}
      BY <1>3, EventsAre DEF OnIo
    <2> QED
      BY <1>1, <2>1, ListRemove DEF Good, IoOK
  <1>10. ActiveOK(r)
    <2>1. SameOn(b, r, "ACTIVE")
      BY <1>3 DEF SameOn
    <2> QED
      BY <1>2, <2>1, KeepActive DEF Good
  <1>11. LaterOK(r)
    <2>1. SameOn(b, r, "ACTIVE_LATER")
      BY <1>3 DEF SameOn
    <2> QED
      BY <1>2, <2>1, KeepLater DEF Good
  <1>12. Only(b, r, ListFields)
    BY <1>1 DEF Only, ListFields
  <1>13. Good(r)
    BY <1>5, <1>6, <1>7, <1>8, <1>9, <1>10, <1>11 DEF Good
  <1> QED
    BY <1>1, <1>3, <1>12, <1>13 DEF Relisted, r

(* evmap_io_add_ and event_queue_insert_inserted. *)
LEMMA InsertInserted ==
  ASSUME NEW b, Good(b), NEW e \in Ev, "INSERTED" \notin b.flags[e], e \in IoEvents,
         "FINALIZING" \notin b.flags[e]
  PROVE  LET r == event_queue_insert_inserted(evmap_io_add_(b, e), e)
         IN  /\ Relisted(b, r, e) /\ r.flags[e] = b.flags[e] \cup {"INSERTED"}
             /\ Only(b, r, {"flags", "event_count", "io"})
  <1> DEFINE r == event_queue_insert_inserted(evmap_io_add_(b, e), e)
  <1>1. /\ Only(b, r, {"flags", "event_count", "io"})
        /\ r.flags = [b.flags EXCEPT ![e] = @ \cup {"INSERTED"}]
        /\ r.event_count = b.event_count + Counted(e)
        /\ r.io = <<e>> \o b.io
    BY DEF Good, Typed, Only, Fields, event_queue_insert_inserted, evmap_io_add_
  <1> HIDE DEF r
  <1>2. /\ r.tmo = b.tmo /\ r.common = b.common /\ r.io_timeout = b.io_timeout
        /\ r.timeheap = b.timeheap /\ r.ctl = b.ctl /\ r.activequeues = b.activequeues
        /\ r.later = b.later /\ r.event_count_active = b.event_count_active
        /\ r.running_loop = b.running_loop /\ r.event_break = b.event_break
        /\ r.is_notify_pending = b.is_notify_pending /\ r.th_notify = b.th_notify
        /\ r.tv_cache = b.tv_cache /\ r.clock = b.clock
    BY <1>1 DEF Only, Fields
  <1>3. /\ r.flags \in [Ev -> SUBSET Marks] /\ r.flags[e] = b.flags[e] \cup {"INSERTED"}
        /\ \A x \in Ev : x # e => r.flags[x] = b.flags[x]
    BY <1>1 DEF Good, Typed, Marks, Pending
  <1>4. Gets(b.flags, r.flags, e, "INSERTED")
    BY <1>3 DEF Gets
  <1>5. CountsOK(r) /\ r.event_count \in Int /\ r.event_count_active \in Int
    <2>1. "INSERTED" \in Pending
      BY DEF Pending
    <2>2. b.event_count = Tally(b.flags) /\ b.event_count_active = ActiveTally(b.flags)
      BY DEF Good, CountsOK
    <2>3. Counted(e) \in Int
      BY DEF Counted
    <2>4. /\ Tally(r.flags) = Tally(b.flags) + Counted(e)
          /\ ActiveTally(r.flags) = ActiveTally(b.flags) + 0
          /\ Tally(b.flags) \in Nat /\ Tally(r.flags) \in Nat
          /\ ActiveTally(b.flags) \in Nat /\ ActiveTally(r.flags) \in Nat
      BY <1>4, <2>1, TallyOn
    <2>5. r.event_count = Tally(r.flags) /\ r.event_count \in Int
      BY <1>1, <2>2, <2>3, <2>4
    <2>6. r.event_count_active = ActiveTally(r.flags) /\ r.event_count_active \in Int
      BY <1>1, <1>2, <2>2, <2>4
    <2> QED
      BY <2>5, <2>6 DEF CountsOK
  <1>6. Typed(r)
    BY <1>1, <1>2, <1>3, <1>5, EventsAre DEF Good, Typed, Only
  <1>7. KindsOK(r)
    BY <1>2, <1>3, EventsAre DEF Good, KindsOK
  <1>8. HeapOK(r) /\ CtlOK(r)
    <2>1. SameOn(b, r, "TIMEOUT")
      BY <1>3 DEF SameOn
    <2> QED
      BY <1>2, <2>1, KeepTimes DEF Good
  <1>9. IoOK(r)
    <2>1. e \notin OnIo(b) /\ OnIo(r) = OnIo(b) \cup {e}
      BY <1>3, EventsAre DEF OnIo
    <2>2. ListOf(<<e>> \o b.io, OnIo(b) \cup {e})
      BY <2>1, ListPut DEF Good, IoOK
    <2> QED
      BY <1>1, <2>1, <2>2 DEF IoOK
  <1>10. ActiveOK(r)
    <2>1. SameOn(b, r, "ACTIVE")
      BY <1>3 DEF SameOn
    <2> QED
      BY <1>2, <2>1, KeepActive DEF Good
  <1>11. LaterOK(r)
    <2>1. SameOn(b, r, "ACTIVE_LATER")
      BY <1>3 DEF SameOn
    <2> QED
      BY <1>2, <2>1, KeepLater DEF Good
  <1>12. Only(b, r, ListFields)
    BY <1>1 DEF Only, ListFields
  <1>13. Good(r)
    BY <1>5, <1>6, <1>7, <1>8, <1>9, <1>10, <1>11 DEF Good
  <1> QED
    BY <1>1, <1>3, <1>12, <1>13 DEF Relisted, r

-----------------------------------------------------------------------------
(* What a call does *)

(* All that the functions called under the lock change. *)
WorkFields == ListFields \cup {"res", "tmo", "common", "io_timeout", "n_deferreds_queued",
                               "event_continue", "is_notify_pending", "th_notify"}

(* What no list depends on. *)
Aside == {"res", "io_timeout", "n_deferreds_queued", "running_loop",
          "event_running_priority", "event_gotterm", "event_break", "event_continue",
          "current_event", "is_notify_pending", "th_notify", "tv_cache", "clock"}

(* At most one notification more, and none if one is pending. *)
Noted(b, r) ==
    \/ r.is_notify_pending = b.is_notify_pending /\ r.th_notify = b.th_notify
    \/ ~b.is_notify_pending /\ r.is_notify_pending /\ r.th_notify = b.th_notify + 1

Spared(b, r, x) ==
    r.flags[x] = b.flags[x] /\ r.tmo[x] = b.tmo[x] /\ r.common[x] = b.common[x]

(* A call that touches the events of X. *)
Does(b, r, X) ==
    /\ Good(r) /\ Only(b, r, WorkFields) /\ Noted(b, r)
    /\ \A x \in Ev \ X : Spared(b, r, x)

(* A notification that is pending is in the eventfd. *)
Woken(b) == b.is_notify_pending => b.th_notify > 0

(* Fields one by one. *)
LEMMA WorkKeeps ==
  ASSUME NEW b, NEW r, Only(b, r, WorkFields)
  PROVE  /\ r.running_loop = b.running_loop /\ r.event_gotterm = b.event_gotterm
         /\ r.event_break = b.event_break /\ r.current_event = b.current_event
         /\ r.tv_cache = b.tv_cache /\ r.clock = b.clock
         /\ r.event_running_priority = b.event_running_priority
  BY DEF Only, WorkFields, ListFields, Fields

(* The same. *)
LEMMA ListsKeep ==
  ASSUME NEW b, NEW r, Only(b, r, ListFields)
  PROVE  /\ Only(b, r, WorkFields)
         /\ r.tmo = b.tmo /\ r.common = b.common /\ r.res = b.res
         /\ r.io_timeout = b.io_timeout /\ r.n_deferreds_queued = b.n_deferreds_queued
         /\ r.event_continue = b.event_continue
         /\ r.is_notify_pending = b.is_notify_pending /\ r.th_notify = b.th_notify
         /\ r.running_loop = b.running_loop /\ r.clock = b.clock /\ r.tv_cache = b.tv_cache
  BY DEF Only, WorkFields, ListFields, Fields

(* A change of lists is such a call. *)
LEMMA RelistedDoes ==
  ASSUME NEW b, NEW r, NEW e, Relisted(b, r, e)
  PROVE  Does(b, r, {e})
  BY ListsKeep DEF Relisted, Does, Noted, Spared

(* Two calls. *)
LEMMA DoesTrans ==
  ASSUME NEW b, Typed(b), NEW r, NEW t, NEW X, NEW Y, NEW Z, Does(b, r, X), Does(r, t, Y),
         X \subseteq Z, Y \subseteq Z
  PROVE  Does(b, t, Z)
  <1>1. Only(b, t, WorkFields)
    BY DEF Does, Only
  <1>2. Noted(b, t)
    <2>1. /\ b.is_notify_pending \in BOOLEAN /\ b.th_notify \in Nat
          /\ r.is_notify_pending \in BOOLEAN /\ r.th_notify \in Nat
          /\ t.is_notify_pending \in BOOLEAN /\ t.th_notify \in Nat
      BY DEF Does, Good, Typed
    <2>2. Noted(b, r) /\ Noted(r, t)
      BY DEF Does
    <2> QED
      BY <2>1, <2>2 DEF Noted
  <1>3. \A x \in Ev \ Z : Spared(b, t, x)
    BY DEF Does, Spared
  <1> QED
    BY <1>1, <1>2, <1>3 DEF Does

(* No call. *)
LEMMA DoesRefl ==
  ASSUME NEW b, Good(b), NEW X
  PROVE  Does(b, b, X)
  BY DEF Does, Good, Typed, Only, Noted, Spared

(* What no list depends on may change. *)
LEMMA Touch ==
  ASSUME NEW b, Good(b), NEW r, Only(b, r, Aside), r.io_timeout \in [Ev -> Delays],
         r.running_loop \in BOOLEAN, r.event_break \in BOOLEAN,
         r.is_notify_pending \in BOOLEAN, r.th_notify \in Nat, r.tv_cache \in Nat,
         r.clock \in Nat
  PROVE  Good(r) /\ \A x \in Ev : Spared(b, r, x)
  <1>1. /\ r.flags = b.flags /\ r.tmo = b.tmo /\ r.common = b.common
        /\ r.timeheap = b.timeheap /\ r.ctl = b.ctl /\ r.io = b.io
        /\ r.activequeues = b.activequeues /\ r.later = b.later
        /\ r.event_count = b.event_count /\ r.event_count_active = b.event_count_active
    BY DEF Only, Aside, Fields
  <1>2. Typed(r)
    BY <1>1 DEF Good, Typed, Only
  <1>3. HeapOK(r) /\ CtlOK(r)
    BY <1>1, KeepTimes DEF SameOn, Good
  <1>4. IoOK(r) /\ ActiveOK(r) /\ LaterOK(r)
    BY <1>1, KeepIo, KeepActive, KeepLater DEF SameOn, Good
  <1>5. CountsOK(r) /\ KindsOK(r)
    BY <1>1 DEF Good, CountsOK, KindsOK
  <1> QED
    BY <1>1, <1>2, <1>3, <1>4, <1>5 DEF Good, Spared

(* EVBASE_NEED_NOTIFY and evthread_notify_base. *)
LEMMA NotifyIs ==
  ASSUME NEW b, Good(b), NEW c, NEW th
  PROVE  LET r == NotifyIf(c, b, th)
         IN  /\ Does(b, r, {}) /\ Only(b, r, {"is_notify_pending", "th_notify"})
             /\ (c /\ b.running_loop /\ th # LoopThread /\ Woken(b) => r.th_notify > 0)
             /\ (th = LoopThread => r = b)
  <1> DEFINE r == NotifyIf(c, b, th)
  <1>1. CASE r = b
    <2>1. Does(b, r, {})
      BY <1>1, DoesRefl
    <2>2. Only(b, r, {"is_notify_pending", "th_notify"})
      BY <1>1 DEF Only, Good, Typed
    <2>3. c /\ b.running_loop /\ th # LoopThread /\ Woken(b) => r.th_notify > 0
      <3>1. [b EXCEPT !.is_notify_pending = TRUE, !.th_notify = @ + 1].is_notify_pending
        BY DEF Good, Typed, Fields
      <3>2. c /\ b.running_loop /\ th # LoopThread => b.is_notify_pending
        BY <1>1, <3>1 DEF NotifyIf, evthread_notify_base, EVBASE_NEED_NOTIFY
      <3> QED
        BY <1>1, <3>2 DEF Woken
    <2> QED
      BY <1>1, <2>1, <2>2, <2>3
  <1>2. CASE r # b
    <2>1. /\ r = [b EXCEPT !.is_notify_pending = TRUE, !.th_notify = @ + 1]
          /\ ~b.is_notify_pending /\ th # LoopThread
      BY <1>2 DEF NotifyIf, evthread_notify_base, EVBASE_NEED_NOTIFY
    <2>2. /\ Only(b, r, {"is_notify_pending", "th_notify"})
          /\ r.is_notify_pending = TRUE /\ r.th_notify = b.th_notify + 1
      BY <2>1 DEF Good, Typed, Only, Fields
    <2> HIDE DEF r
    <2>3. b.th_notify \in Nat
      BY DEF Good, Typed
    <2>4. Only(b, r, Aside) /\ Only(b, r, WorkFields)
      BY <2>2 DEF Only, Aside, WorkFields
    <2>5. /\ r.io_timeout = b.io_timeout /\ r.running_loop = b.running_loop
          /\ r.event_break = b.event_break /\ r.tv_cache = b.tv_cache /\ r.clock = b.clock
      BY <2>2 DEF Only, Fields
    <2>6. Good(r) /\ \A x \in Ev : Spared(b, r, x)
      <3>1. r.is_notify_pending \in BOOLEAN /\ r.th_notify \in Nat
        <4>1. r.is_notify_pending \in BOOLEAN
          <5>1. r.is_notify_pending = TRUE
            BY <2>2
          <5> QED
            BY <5>1
        <4>2. r.th_notify \in Nat
          <5>1. r.th_notify = b.th_notify + 1
            BY <2>2
          <5> QED
            BY <2>3, <5>1
        <4> QED
          BY <4>1, <4>2
      <3>2. /\ b.io_timeout \in [Ev -> Delays] /\ b.running_loop \in BOOLEAN
            /\ b.event_break \in BOOLEAN /\ b.tv_cache \in Nat /\ b.clock \in Nat
        BY DEF Good, Typed
      <3> QED
        BY <2>4, <2>5, <3>1, <3>2, Touch
    <2>7. Noted(b, r) /\ r.th_notify > 0
      <3>1. ~b.is_notify_pending /\ r.is_notify_pending
        BY <2>1, <2>2
      <3>2. r.th_notify = b.th_notify + 1
        BY <2>2
      <3>3. r.th_notify > 0
        BY <2>3, <3>2
      <3> QED
        BY <3>1, <3>2, <3>3 DEF Noted
    <2> QED
      BY <2>1, <2>2, <2>4, <2>6, <2>7 DEF Does, r
  <1> QED
    BY <1>1, <1>2

(* The time of an event that no timer list holds. *)
Retimed(b, e, at, c) == [b EXCEPT !.tmo[e] = at, !.common[e] = c]

(* It may change. *)
LEMMA SetTime ==
  ASSUME NEW b, Good(b), NEW e \in Ev, "TIMEOUT" \notin b.flags[e], NEW at \in Nat,
         NEW c \in BOOLEAN, c => e # CTL
  PROVE  LET r == Retimed(b, e, at, c)
         IN  /\ Does(b, r, {e}) /\ r.flags = b.flags /\ r.tmo[e] = at /\ r.common[e] = c
             /\ Only(b, r, {"tmo", "common"})
  <1> DEFINE r == Retimed(b, e, at, c)
  <1>1. /\ Only(b, r, {"tmo", "common"}) /\ r.tmo = [b.tmo EXCEPT ![e] = at]
        /\ r.common = [b.common EXCEPT ![e] = c]
    BY DEF Good, Typed, Only, Fields, Retimed
  <1> HIDE DEF r
  <1>2. /\ r.flags = b.flags /\ r.timeheap = b.timeheap /\ r.ctl = b.ctl /\ r.io = b.io
        /\ r.activequeues = b.activequeues /\ r.later = b.later
        /\ r.event_count = b.event_count /\ r.event_count_active = b.event_count_active
        /\ r.io_timeout = b.io_timeout /\ r.running_loop = b.running_loop
        /\ r.event_break = b.event_break /\ r.is_notify_pending = b.is_notify_pending
        /\ r.th_notify = b.th_notify /\ r.tv_cache = b.tv_cache /\ r.clock = b.clock
    BY <1>1 DEF Only, Fields
  <1>3. /\ r.tmo \in [Ev -> Nat] /\ r.common \in [Ev -> BOOLEAN] /\ r.tmo[e] = at
        /\ r.common[e] = c
        /\ \A x \in Ev : x # e => r.tmo[x] = b.tmo[x] /\ r.common[x] = b.common[x]
    BY <1>1 DEF Good, Typed
  <1>4. Typed(r)
    BY <1>1, <1>2, <1>3 DEF Good, Typed, Only
  <1>5. /\ Timed(r) = Timed(b) /\ CommonTimed(r) = CommonTimed(b)
        /\ e \notin Timed(b) \cup CommonTimed(b)
    BY <1>2, <1>3 DEF Timed, CommonTimed
  <1>6. HeapOK(r)
    <2> DEFINE h == b.timeheap
    <2>1. /\ IsList(h, Ev, Len(h), Timed(b)) /\ IsHeap(h, b.tmo)
          /\ h \in Seq(Ev) /\ ToSet(h) = Timed(b)
      BY DEF Good, HeapOK, HeapOf, IsList
    <2>2. \A k \in 1 .. Len(h) : h[k] \in Timed(b) /\ h[k] \in Ev
      BY <2>1, Places
    <2>3. \A k \in 1 .. Len(h) : r.tmo[h[k]] = b.tmo[h[k]]
      BY <1>3, <1>5, <2>2
    <2>4. \A k \in 2 .. Len(h) : k \in 1 .. Len(h) /\ k \div 2 \in 1 .. Len(h)
      <3>1. Len(h) \in Nat
        BY <2>1, Places
      <3> DEFINE n == Len(h)
      <3> HIDE DEF n, h
      <3>2. \A k \in 2 .. n : k \in 1 .. n /\ k \div 2 \in 1 .. n
        BY <3>1, Half DEF n
      <3> QED
        BY <3>2 DEF n
    <2> HIDE DEF h
    <2>5. IsHeap(h, r.tmo)
      BY <2>1, <2>3, <2>4 DEF IsHeap
    <2> QED
      BY <1>2, <1>5, <2>1, <2>5 DEF HeapOK, HeapOf, h
  <1>7. CtlOK(r)
    <2> DEFINE h == b.ctl
    <2>1. /\ ListOf(h, CommonTimed(b)) /\ Sorted(h, b.tmo)
          /\ h \in Seq(Ev) /\ ToSet(h) = CommonTimed(b)
      BY DEF Good, CtlOK, ListOf
    <2>2. \A k \in 1 .. Len(h) : h[k] \in CommonTimed(b) /\ h[k] \in Ev
      BY <2>1, Places
    <2>3. \A k \in 1 .. Len(h) : r.tmo[h[k]] = b.tmo[h[k]]
      BY <1>3, <1>5, <2>2
    <2> HIDE DEF h
    <2>4. Sorted(h, r.tmo)
      BY <2>1, <2>3 DEF Sorted
    <2> QED
      BY <1>2, <1>5, <2>1, <2>4 DEF CtlOK, h
  <1>8. IoOK(r) /\ ActiveOK(r) /\ LaterOK(r)
    BY <1>2, KeepIo, KeepActive, KeepLater DEF SameOn, Good
  <1>9. CountsOK(r) /\ KindsOK(r)
    BY <1>2, <1>3, EventsAre DEF Good, CountsOK, KindsOK
  <1>10. Only(b, r, WorkFields) /\ Noted(b, r) /\ \A x \in Ev \ {e} : Spared(b, r, x)
    BY <1>1, <1>2, <1>3 DEF Only, WorkFields, Noted, Spared
  <1>11. Does(b, r, {e})
    BY <1>4, <1>6, <1>7, <1>8, <1>9, <1>10 DEF Does, Good
  <1> QED
    BY <1>1, <1>2, <1>3, <1>11 DEF r

-----------------------------------------------------------------------------
(* The earliest timers *)

(* What a lemma says of the heads of the timer lists. *)
HeapHead(b) ==
    /\ b.timeheap # <<>> => Head(b.timeheap) \in Timed(b)
    /\ \A x \in Timed(b) : b.timeheap # <<>> /\ b.tmo[Head(b.timeheap)] <= b.tmo[x]
CtlHead(b) ==
    /\ b.ctl # <<>> => Head(b.ctl) \in CommonTimed(b)
    /\ \A x \in CommonTimed(b) : b.ctl # <<>> /\ b.tmo[Head(b.ctl)] <= b.tmo[x]

(* The root of the heap is the earliest. *)
LEMMA HeapHeadIs ==
  ASSUME NEW b, Good(b)
  PROVE  HeapHead(b)
  <1> DEFINE h == b.timeheap
             n == Len(h)
             v == Times(h, b.tmo)
  <1>1. /\ h \in Seq(Ev) /\ ToSet(h) = Timed(b) /\ IsHeap(h, b.tmo) /\ b.tmo \in [Ev -> Nat]
    BY DEF Good, HeapOK, HeapOf, IsList, Typed
  <1>2. n \in Nat /\ (h = <<>> <=> n = 0) /\ \A x : x \in Timed(b) <=> \E i \in 1 .. n : h[i] = x
    BY <1>1, Places
  <1>3. /\ v \in [1 .. n -> Nat] /\ Ordered(v, n) /\ \A k \in 1 .. n : v[k] = b.tmo[h[k]]
    BY <1>1, TimesAre
  <1> HIDE DEF v
  <1>4. \A j \in 1 .. n : v[1] <= v[j]
    <2> HIDE DEF n
    <2> QED
      BY <1>2, <1>3, RootFirst
  <1>5. h # <<>> => Head(h) = h[1] /\ 1 \in 1 .. n
    BY <1>1, <1>2
  <1>6. \A j \in 1 .. n : h # <<>> /\ 1 \in 1 .. n
    BY <1>2
  <1> HIDE DEF h, n
  <1>7. h # <<>> => Head(h) \in Timed(b)
    BY <1>2, <1>5
  <1>8. ASSUME NEW x \in Timed(b) PROVE h # <<>> /\ b.tmo[Head(h)] <= b.tmo[x]
    <2>1. PICK j \in 1 .. n : h[j] = x
      BY <1>2
    <2>2. h # <<>> /\ 1 \in 1 .. n /\ Head(h) = h[1]
      BY <1>5, <1>6, <2>1
    <2>3. v[1] = b.tmo[Head(h)] /\ v[j] = b.tmo[x]
      BY <1>3, <2>1, <2>2
    <2> QED
      BY <1>4, <2>1, <2>2, <2>3
  <1> QED
    BY <1>7, <1>8 DEF HeapHead, h

(* So is the first of the common timeout list. *)
LEMMA CtlHeadIs ==
  ASSUME NEW b, Good(b)
  PROVE  CtlHead(b)
  <1> DEFINE h == b.ctl
             n == Len(h)
  <1>1. /\ h \in Seq(Ev) /\ ToSet(h) = CommonTimed(b) /\ Sorted(h, b.tmo)
    BY DEF Good, CtlOK, ListOf
  <1>2. n \in Nat /\ (h = <<>> <=> n = 0)
        /\ \A x : x \in CommonTimed(b) <=> \E i \in 1 .. n : h[i] = x
    BY <1>1, Places
  <1>3. \A j \in 1 .. n : b.tmo[h[1]] <= b.tmo[h[j]]
    BY <1>1, <1>2 DEF Sorted
  <1>4. h # <<>> => Head(h) = h[1] /\ 1 \in 1 .. n
    BY <1>1, <1>2
  <1>5. \A j \in 1 .. n : h # <<>> /\ 1 \in 1 .. n
    BY <1>2
  <1> HIDE DEF h, n
  <1> QED
    BY <1>2, <1>3, <1>4, <1>5 DEF CtlHead, h

HeapLater(b, r) ==
    r.timeheap # <<>> => /\ b.timeheap # <<>>
                         /\ b.tmo[Head(b.timeheap)] <= r.tmo[Head(r.timeheap)]
CtlLater(b, r) ==
    r.ctl # <<>> => b.ctl # <<>> /\ b.tmo[Head(b.ctl)] <= r.tmo[Head(r.ctl)]

(* x waits for nothing it did not wait for before. *)
Lasts(b, r, x) ==
    "TIMEOUT" \in r.flags[x] =>
        "TIMEOUT" \in b.flags[x] /\ r.tmo[x] = b.tmo[x] /\ r.common[x] = b.common[x]

(* The first of a list is no earlier if it was there before. *)
LEMMA HeadsLater ==
  ASSUME NEW b, Good(b), NEW r, Good(r)
  PROVE  /\ (r.timeheap # <<>> => Lasts(b, r, Head(r.timeheap))) => HeapLater(b, r)
         /\ (r.ctl # <<>> => Lasts(b, r, Head(r.ctl))) => CtlLater(b, r)
  <1>1. HeapHead(b) /\ HeapHead(r) /\ CtlHead(b) /\ CtlHead(r)
    BY HeapHeadIs, CtlHeadIs
  <1>2. ASSUME r.timeheap # <<>>, Lasts(b, r, Head(r.timeheap)) PROVE HeapLater(b, r)
    <2> DEFINE x == Head(r.timeheap)
    <2>1. x \in Timed(r)
      BY <1>1, <1>2 DEF HeapHead
    <2>2. x \in Timed(b) /\ r.tmo[x] = b.tmo[x]
      BY <1>2, <2>1 DEF Timed, Lasts
    <2> QED
      BY <1>1, <2>2 DEF HeapHead, HeapLater
  <1>3. ASSUME r.ctl # <<>>, Lasts(b, r, Head(r.ctl)) PROVE CtlLater(b, r)
    <2> DEFINE x == Head(r.ctl)
    <2>1. x \in CommonTimed(r)
      BY <1>1, <1>3 DEF CtlHead
    <2>2. x \in CommonTimed(b) /\ r.tmo[x] = b.tmo[x]
      BY <1>3, <2>1 DEF CommonTimed, Lasts
    <2> QED
      BY <1>1, <2>2 DEF CtlHead, CtlLater
  <1> QED
    BY <1>2, <1>3 DEF HeapLater, CtlLater

(* The timer of the common timeout list is set, or about to run. *)
Armed(b) ==
    b.ctl # <<>> => \/ "TIMEOUT" \in b.flags[CTL] /\ b.tmo[CTL] <= b.tmo[Head(b.ctl)]
                    \/ "ACTIVE" \in b.flags[CTL]

(* The head of a list is an event. *)
LEMMA HeadsAre ==
  ASSUME NEW b, Good(b)
  PROVE  /\ b.timeheap # <<>> => Head(b.timeheap) \in Ev /\ b.tmo[Head(b.timeheap)] \in Nat
         /\ b.ctl # <<>> => /\ Head(b.ctl) \in Ev /\ Head(b.ctl) # CTL
                            /\ b.tmo[Head(b.ctl)] \in Nat
  <1>1. HeapHead(b) /\ CtlHead(b)
    BY HeapHeadIs, CtlHeadIs
  <1>2. b.tmo \in [Ev -> Nat] /\ ~b.common[CTL]
    BY DEF Good, Typed, KindsOK
  <1> QED
    BY <1>1, <1>2 DEF HeapHead, CtlHead, Timed, CommonTimed

(* It stays set while the first of the list is one that was there. *)
LEMMA StaysArmed ==
  ASSUME NEW b, Good(b), NEW r, Good(r), Armed(b), Spared(b, r, CTL),
         r.ctl # <<>> => Lasts(b, r, Head(r.ctl))
  PROVE  Armed(r)
  <1>1. CtlLater(b, r)
    BY HeadsLater
  <1>2. /\ r.ctl # <<>> => r.tmo[Head(r.ctl)] \in Nat
        /\ b.ctl # <<>> => b.tmo[Head(b.ctl)] \in Nat
    BY HeadsAre
  <1>3. b.tmo[CTL] \in Nat
    BY EventsAre DEF Good, Typed
  <1> QED
    BY <1>1, <1>2, <1>3 DEF Armed, Spared, CtlLater

(* Later than later. *)
LEMMA LaterTrans ==
  ASSUME NEW b, Good(b), NEW r, Good(r), NEW t, Good(t), HeapLater(b, r), HeapLater(r, t)
  PROVE  HeapLater(b, t)
  <1>1. /\ b.timeheap # <<>> => b.tmo[Head(b.timeheap)] \in Nat
        /\ r.timeheap # <<>> => r.tmo[Head(r.timeheap)] \in Nat
        /\ t.timeheap # <<>> => t.tmo[Head(t.timeheap)] \in Nat
    BY HeadsAre
  <1> QED
    BY <1>1 DEF HeapLater

-----------------------------------------------------------------------------
(* Adding *)

(* More fields, and two changes. *)
LEMMA OnlyMore ==
  ASSUME NEW b, NEW r, NEW F, NEW G, Only(b, r, F), F \subseteq G
  PROVE  Only(b, r, G)
  BY DEF Only

(* Two changes. *)
LEMMA OnlyTrans ==
  ASSUME NEW b, NEW r, NEW t, NEW F, Only(b, r, F), Only(r, t, F)
  PROVE  Only(b, t, F)
  BY DEF Only

(* What AddTimeout changes. *)
TimeFields == ListFields \cup {"tmo", "common"}

(* e is off its timer list. *)
LEMMA TimeOff ==
  ASSUME NEW b, Good(b), NEW e \in Ev
  PROVE  LET r == IF Has(b, e, "TIMEOUT") THEN event_queue_remove_timeout(b, e) ELSE b
         IN  /\ Does(b, r, {e}) /\ Only(b, r, ListFields) /\ r.res = b.res
             /\ r.flags[e] = b.flags[e] \ {"TIMEOUT"}
             /\ r.event_count_active = b.event_count_active
  <1> DEFINE r == IF Has(b, e, "TIMEOUT") THEN event_queue_remove_timeout(b, e) ELSE b
  <1>1. CASE Has(b, e, "TIMEOUT")
    <2>1. r = event_queue_remove_timeout(b, e)
      BY <1>1
    <2> HIDE DEF r
    <2>2. /\ Relisted(b, r, e) /\ r.flags[e] = b.flags[e] \ {"TIMEOUT"}
          /\ Only(b, r, {"flags", "event_count", "ctl", "timeheap"})
      BY <1>1, <2>1, RemoveTimeout DEF Has
    <2>3. Does(b, r, {e}) /\ Only(b, r, ListFields)
      BY <2>2, RelistedDoes DEF Relisted
    <2>4. r.event_count_active = b.event_count_active
      BY <2>2 DEF Only, Fields
    <2>5. r.res = b.res
      BY <2>3, ListsKeep
    <2> QED
      BY <2>2, <2>3, <2>4, <2>5 DEF r
  <1>2. CASE ~Has(b, e, "TIMEOUT")
    <2>1. r = b
      BY <1>2
    <2>2. b.flags[e] = b.flags[e] \ {"TIMEOUT"}
      BY <1>2 DEF Has
    <2>3. Does(b, b, {e}) /\ Only(b, b, ListFields)
      BY DoesRefl DEF Only, Good, Typed
    <2> QED
      BY <2>1, <2>2, <2>3
  <1> QED
    BY <1>1, <1>2

(* e is off its active queue. *)
LEMMA ActiveOff ==
  ASSUME NEW b, Good(b), NEW e \in Ev, NEW c
  PROVE  LET r == IF Has(b, e, "ACTIVE") /\ c THEN event_queue_remove_active(b, e) ELSE b
         IN  /\ Does(b, r, {e}) /\ Only(b, r, ListFields)
             /\ r.flags[e] \subseteq b.flags[e] /\ b.flags[e] \ {"ACTIVE"} \subseteq r.flags[e]
  <1> DEFINE r == IF Has(b, e, "ACTIVE") /\ c THEN event_queue_remove_active(b, e) ELSE b
  <1>1. CASE Has(b, e, "ACTIVE") /\ c
    <2>1. r = event_queue_remove_active(b, e)
      BY <1>1
    <2> HIDE DEF r
    <2>2. Relisted(b, r, e) /\ r.flags[e] = b.flags[e] \ {"ACTIVE"}
      BY <1>1, <2>1, RemoveActive DEF Has
    <2>3. Does(b, r, {e}) /\ Only(b, r, ListFields)
      BY <2>2, RelistedDoes DEF Relisted
    <2> QED
      BY <2>2, <2>3 DEF r
  <1>2. CASE ~(Has(b, e, "ACTIVE") /\ c)
    <2>1. r = b
      BY <1>2
    <2>2. Does(b, b, {e}) /\ Only(b, b, ListFields)
      BY DoesRefl DEF Only, Good, Typed
    <2> QED
      BY <2>1, <2>2
  <1> QED
    BY <1>1, <1>2

(* What it makes of e. *)
Timing(b, r, e, at, c) ==
    /\ Does(b, r, {e}) /\ Only(b, r, TimeFields) /\ r.tmo[e] = at /\ r.common[e] = c
    /\ "TIMEOUT" \in r.flags[e] /\ r.flags[e] \subseteq b.flags[e] \cup {"TIMEOUT"}
    /\ b.flags[e] \ {"ACTIVE"} \subseteq r.flags[e]

(* AddTimeout. *)
LEMMA AddTimeoutIs ==
  ASSUME NEW b, Good(b), NEW e \in Ev \ {NOTIFY}, "FINALIZING" \notin b.flags[e], NEW at \in Nat,
         NEW c \in BOOLEAN, c => e # CTL
  PROVE  Timing(b, AddTimeout(b, e, at, c), e, at, c)
  <1> DEFINE off == IF Has(b, e, "TIMEOUT") THEN event_queue_remove_timeout(b, e) ELSE b
             old == "TIMEOUT" \in off.res[e]
             calm == IF Has(off, e, "ACTIVE") /\ old
                     THEN event_queue_remove_active(off, e) ELSE off
             mid == Retimed(calm, e, at, c)
             r == event_queue_insert_timeout(mid, e)
  <1>1. AddTimeout(b, e, at, c) = r
    BY DEF AddTimeout, Retimed
  <1>2. /\ Does(b, off, {e}) /\ Only(b, off, ListFields)
        /\ off.flags[e] = b.flags[e] \ {"TIMEOUT"}
    BY TimeOff
  <1> HIDE DEF off, old
  <1>3. /\ Does(off, calm, {e}) /\ Only(off, calm, ListFields)
        /\ calm.flags[e] \subseteq off.flags[e]
        /\ off.flags[e] \ {"ACTIVE"} \subseteq calm.flags[e]
    BY <1>2, ActiveOff DEF Does
  <1> HIDE DEF calm
  <1>4. /\ Does(calm, mid, {e}) /\ mid.flags = calm.flags /\ mid.tmo[e] = at
        /\ mid.common[e] = c /\ Only(calm, mid, {"tmo", "common"})
    <2>1. Good(calm) /\ "TIMEOUT" \notin calm.flags[e]
      BY <1>2, <1>3 DEF Does
    <2> QED
      BY <2>1, SetTime
  <1> HIDE DEF mid
  <1>5. /\ Relisted(mid, r, e) /\ r.flags[e] = mid.flags[e] \cup {"TIMEOUT"}
    BY <1>2, <1>3, <1>4, InsertTimeout DEF Does
  <1> HIDE DEF r
  <1>6. Does(mid, r, {e}) /\ Only(mid, r, ListFields) /\ r.tmo = mid.tmo /\ r.common = mid.common
    BY <1>5, RelistedDoes, ListsKeep DEF Relisted
  <1>7. Typed(b) /\ Typed(off) /\ Typed(calm) /\ Typed(mid)
    BY <1>2, <1>3, <1>4 DEF Does, Good
  <1>8. Does(b, r, {e})
    <2>1. Does(b, calm, {e})
      BY <1>2, <1>3, <1>7, DoesTrans
    <2>2. Does(b, mid, {e})
      BY <2>1, <1>4, <1>7, DoesTrans
    <2> QED
      BY <2>2, <1>6, <1>7, DoesTrans
  <1>9. Only(b, r, TimeFields)
    <2>1. Only(b, off, TimeFields) /\ Only(off, calm, TimeFields) /\ Only(calm, mid, TimeFields)
          /\ Only(mid, r, TimeFields)
      BY <1>2, <1>3, <1>4, <1>6, OnlyMore DEF TimeFields
    <2> QED
      BY <2>1, OnlyTrans
  <1> QED
    BY <1>1, <1>2, <1>3, <1>4, <1>5, <1>6, <1>8, <1>9 DEF Timing

(* What the counts tell the loop. *)
CountsTell(b) ==
    /\ b.event_count_active = 0
           <=> \A x \in Ev : "ACTIVE" \notin b.flags[x] /\ "ACTIVE_LATER" \notin b.flags[x]
    /\ event_haveevents(b) <=> \E x \in User : b.flags[x] \cap Pending # {}

(* A count is zero when no event has the mark. *)
LEMMA CountZero ==
  ASSUME NEW fl, NEW S \in SUBSET Ev, NEW f
  PROVE  /\ CountOf(fl, S, f) \in Nat
         /\ CountOf(fl, S, f) = 0 <=> \A x \in S : f \notin fl[x]
  <1> DEFINE A == {x \in S : f \in fl[x]}
  <1>1. IsFiniteSet(A)
    BY EventsAre, FS_Subset
  <1>2. Cardinality(A) \in Nat /\ (Cardinality(A) = 0 <=> A = {})
    BY <1>1, FS_CardinalityType, FS_EmptySet
  <1> QED
    BY <1>2 DEF CountOf

(* The counts are of the marks. *)
LEMMA CountsAre ==
  ASSUME NEW b, Good(b)
  PROVE  CountsTell(b)
  <1> DEFINE u(f) == CountOf(b.flags, User, f)
             a(f) == CountOf(b.flags, Ev, f)
  <1>1. \A f : u(f) \in Nat /\ (u(f) = 0 <=> \A x \in User : f \notin b.flags[x])
    BY CountZero, EventsAre
  <1>2. \A f : a(f) \in Nat /\ (a(f) = 0 <=> \A x \in Ev : f \notin b.flags[x])
    BY CountZero
  <1>3. /\ b.event_count = u("INSERTED") + u("TIMEOUT") + u("ACTIVE") + u("ACTIVE_LATER")
        /\ b.event_count_active = a("ACTIVE") + a("ACTIVE_LATER")
    BY DEF Good, CountsOK, Tally, ActiveTally
  <1> HIDE DEF u, a
  <1>4. b.event_count_active = 0 <=> a("ACTIVE") = 0 /\ a("ACTIVE_LATER") = 0
    BY <1>2, <1>3
  <1>5. b.event_count > 0 <=> ~(/\ u("INSERTED") = 0 /\ u("TIMEOUT") = 0
                               /\ u("ACTIVE") = 0 /\ u("ACTIVE_LATER") = 0)
    BY <1>1, <1>3
  <1>6. (\E x \in User : b.flags[x] \cap Pending # {})
            <=> ~(/\ u("INSERTED") = 0 /\ u("TIMEOUT") = 0
                  /\ u("ACTIVE") = 0 /\ u("ACTIVE_LATER") = 0)
    BY <1>1 DEF Pending
  <1> QED
    BY <1>2, <1>4, <1>5, <1>6 DEF CountsTell, event_haveevents

(* A thread that must wake the loop, which a pending notification would do. *)
Loud(b, th) == th # LoopThread /\ b.running_loop /\ Woken(b)

(* A loop that looked at b and slept may sleep on. *)
Calm(b, r) ==
    b.event_count_active = 0 =>
        /\ r.event_count_active = 0 /\ HeapLater(b, r)
        /\ (\A x \in Ev : "TIMEOUT" \notin b.flags[x]) /\ event_haveevents(b)
               => event_haveevents(r)

Alert(b, r, th) == Loud(b, th) => r.th_notify > 0 \/ Calm(b, r)

(* Notifications stay. *)
LEMMA StaysLoud ==
  ASSUME NEW b, Typed(b), NEW r, Only(b, r, WorkFields), Noted(b, r), NEW th
  PROVE  /\ Loud(b, th) => Loud(r, th)
         /\ Woken(b) => Woken(r)
         /\ b.th_notify > 0 => r.th_notify > 0
  <1>1. r.running_loop = b.running_loop
    BY WorkKeeps
  <1>2. b.th_notify \in Nat
    BY DEF Typed
  <1>3. CASE r.is_notify_pending = b.is_notify_pending /\ r.th_notify = b.th_notify
    BY <1>1, <1>3 DEF Loud, Woken
  <1>4. CASE ~b.is_notify_pending /\ r.is_notify_pending /\ r.th_notify = b.th_notify + 1
    <2>1. r.th_notify > 0
      BY <1>2, <1>4
    <2> QED
      BY <1>1, <2>1 DEF Loud, Woken
  <1> QED
    BY <1>3, <1>4 DEF Noted

(* A timer on the heap, and the wake-up if it is the first. *)
LEMMA TimerSet ==
  ASSUME NEW b, Good(b), NEW e \in Ev, NEW at, NEW s, Timing(b, s, e, at, FALSE), NEW th
  PROVE  LET r == NotifyIf(TopMoved(s, e), s, th)
         IN  /\ Does(b, r, {e}) /\ r.flags = s.flags /\ r.tmo = s.tmo /\ r.common = s.common
             /\ (Loud(b, th) => r.th_notify > 0 \/ HeapLater(b, r))
  <1> DEFINE r == NotifyIf(TopMoved(s, e), s, th)
  <1>1. Good(s) /\ Does(b, s, {e})
    BY DEF Timing, Does
  <1>2. /\ Does(s, r, {}) /\ Only(s, r, {"is_notify_pending", "th_notify"})
        /\ (TopMoved(s, e) /\ s.running_loop /\ th # LoopThread /\ Woken(s) => r.th_notify > 0)
    BY <1>1, NotifyIs
  <1> HIDE DEF r
  <1>4. Does(b, r, {e})
    BY <1>1, <1>2, DoesTrans DEF Good
  <1>5. /\ r.flags = s.flags /\ r.tmo = s.tmo /\ r.common = s.common
        /\ r.timeheap = s.timeheap
    BY <1>2 DEF Only, Fields
  <1>6. ASSUME ~TopMoved(s, e) PROVE HeapLater(b, r)
    <2>1. s.timeheap # <<>> => Head(s.timeheap) # e
      BY <1>6 DEF TopMoved
    <2>2. s.timeheap # <<>> => Lasts(b, s, Head(s.timeheap))
      BY <1>1, <2>1, HeadsAre DEF Does, Spared, Lasts
    <2>3. HeapLater(b, s)
      BY <1>1, <2>2, HeadsLater
    <2> QED
      BY <2>3, <1>5 DEF HeapLater
  <1>7. Loud(b, th) => r.th_notify > 0 \/ HeapLater(b, r)
    <2>1. Loud(b, th) => Loud(s, th)
      BY <1>1, StaysLoud DEF Does, Good
    <2> QED
      BY <1>2, <1>6, <2>1 DEF Loud
  <1> QED
    BY <1>4, <1>5, <1>7 DEF r

(* The list's timer is set for its first event. *)
LEMMA ScheduleIs ==
  ASSUME NEW b, Good(b), b.ctl # <<>>, NEW th
  PROVE  LET r == common_timeout_schedule(b, th)
         IN  /\ Does(b, r, {CTL}) /\ Armed(r)
             /\ "TIMEOUT" \in r.flags[CTL] /\ r.flags[CTL] \subseteq b.flags[CTL] \cup {"TIMEOUT"}
             /\ (Loud(b, th) => r.th_notify > 0 \/ HeapLater(b, r))
  <1> DEFINE at == b.tmo[Head(b.ctl)]
             s == AddTimeout(b, CTL, at, FALSE)
             r == NotifyIf(TopMoved(s, CTL), s, th)
  <1>1. common_timeout_schedule(b, th) = r
    BY DEF common_timeout_schedule
  <1>2. /\ CTL \in Ev \ {NOTIFY} /\ "FINALIZING" \notin b.flags[CTL] /\ at \in Nat
        /\ FALSE \in BOOLEAN /\ CTL \in Ev
    <2>1. CTL \in Ev /\ NOTIFY # CTL /\ CTL \notin IoEvents \cup Timers
      BY EventsAre
    <2> QED
      BY <2>1, HeadsAre DEF Good, KindsOK
  <1> HIDE DEF at
  <1>3. Timing(b, s, CTL, at, FALSE)
    BY <1>2, AddTimeoutIs
  <1> HIDE DEF s
  <1>4. /\ Does(b, r, {CTL}) /\ r.flags = s.flags /\ r.tmo = s.tmo /\ r.common = s.common
        /\ (Loud(b, th) => r.th_notify > 0 \/ HeapLater(b, r))
    BY <1>2, <1>3, TimerSet
  <1> HIDE DEF r
  <1>5. /\ "TIMEOUT" \in r.flags[CTL] /\ r.flags[CTL] \subseteq b.flags[CTL] \cup {"TIMEOUT"}
        /\ r.tmo[CTL] = at
    BY <1>3, <1>4 DEF Timing
  <1>6. CtlLater(b, r)
    <2>1. Good(r)
      BY <1>4 DEF Does
    <2>2. r.ctl # <<>> => Lasts(b, r, Head(r.ctl))
      BY <2>1, <1>4, HeadsAre DEF Does, Spared, Lasts
    <2> QED
      BY <2>1, <2>2, HeadsLater
  <1>7. Armed(r)
    BY <1>5, <1>6 DEF Armed, CtlLater, at
  <1> QED
    BY <1>1, <1>4, <1>5, <1>7

(* What AddTimer does. *)
TimerAdded(b, r, e, th) ==
    /\ Does(b, r, {e, CTL}) /\ (Armed(b) => Armed(r))
    /\ "TIMEOUT" \in r.flags[e]
    /\ \A x \in {e, CTL} : r.flags[x] \subseteq b.flags[x] \cup {"TIMEOUT"}
    /\ b.flags[e] \ {"ACTIVE"} \subseteq r.flags[e]
    /\ Loud(b, th) => r.th_notify > 0 \/ HeapLater(b, r)

(* The marks it leaves. *)
LEMMA AddedMarks ==
  ASSUME NEW b, NEW s, NEW r, NEW e, NEW at, NEW c, Timing(b, s, e, at, c), Spared(b, s, CTL),
         r.flags[e] = s.flags[e], r.flags[CTL] \subseteq s.flags[CTL] \cup {"TIMEOUT"}
  PROVE  /\ "TIMEOUT" \in r.flags[e]
         /\ \A x \in {e, CTL} : r.flags[x] \subseteq b.flags[x] \cup {"TIMEOUT"}
         /\ b.flags[e] \ {"ACTIVE"} \subseteq r.flags[e]
  <1>1. s.flags[CTL] = b.flags[CTL] /\ "TIMEOUT" \in s.flags[e]
        /\ s.flags[e] \subseteq b.flags[e] \cup {"TIMEOUT"}
        /\ b.flags[e] \ {"ACTIVE"} \subseteq s.flags[e]
    BY DEF Timing, Spared
  <1> QED
    BY <1>1

(* AddTimer. *)
LEMMA AddTimerIs ==
  ASSUME NEW b, Good(b), NEW e \in User, "FINALIZING" \notin b.flags[e], NEW at \in Nat,
         NEW c \in BOOLEAN, NEW th
  PROVE  TimerAdded(b, AddTimer(b, th, e, at, c), e, th)
  <1> DEFINE s == AddTimeout(b, e, at, c)
             m == NotifyIf(TopMoved(s, e), s, th)
             k == common_timeout_schedule(s, th)
  <1> DEFINE r == AddTimer(b, th, e, at, c)
  <1>1. r = IF ~c THEN m ELSE IF Head(s.ctl) = e THEN k ELSE s
    BY DEF AddTimer
  <1> HIDE DEF r
  <1>2. CTL \in Ev /\ e \in Ev /\ e \in Ev \ {NOTIFY} /\ e # CTL
    BY EventsAre
  <1>3. Timing(b, s, e, at, c)
    BY <1>2, AddTimeoutIs
  <1> HIDE DEF s
  <1>4. Good(s) /\ Does(b, s, {e}) /\ Spared(b, s, CTL) /\ Typed(b)
    BY <1>2, <1>3 DEF Timing, Does, Good
  <1>5. CASE ~c
    <2>1. r = m
      BY <1>1, <1>5
    <2>2. c = FALSE
      BY <1>5
    <2>3. /\ Does(b, m, {e}) /\ m.flags = s.flags /\ m.tmo = s.tmo /\ m.common = s.common
          /\ (Loud(b, th) => m.th_notify > 0 \/ HeapLater(b, m))
      BY <1>2, <1>3, <2>2, TimerSet
    <2> HIDE DEF m
    <2>4. Good(m) /\ Spared(b, m, CTL) /\ Does(m, m, {CTL})
      BY <1>2, <2>3, DoesRefl DEF Does
    <2>5. Does(b, m, {e, CTL})
      BY <1>4, <2>3, <2>4, DoesTrans
    <2>6. Armed(b) => Armed(m)
      <3>1. m.ctl # <<>> => Head(m.ctl) # e /\ Head(m.ctl) \in Ev
        <4>1. CtlHead(m)
          BY <2>4, CtlHeadIs
        <4>2. ~m.common[e]
          BY <2>2, <2>3, <1>3 DEF Timing
        <4> QED
          BY <4>1, <4>2 DEF CtlHead, CommonTimed
      <3>2. m.ctl # <<>> => Lasts(b, m, Head(m.ctl))
        BY <3>1, <2>3 DEF Does, Spared, Lasts
      <3> QED
        BY <3>2, <2>4, StaysArmed
    <2>7. m.flags[e] = s.flags[e] /\ m.flags[CTL] \subseteq s.flags[CTL] \cup {"TIMEOUT"}
      BY <2>3
    <2>8. TimerAdded(b, m, e, th)
      <3>1. /\ "TIMEOUT" \in m.flags[e]
            /\ \A x \in {e, CTL} : m.flags[x] \subseteq b.flags[x] \cup {"TIMEOUT"}
            /\ b.flags[e] \ {"ACTIVE"} \subseteq m.flags[e]
        BY <2>7, <1>3, <1>4, AddedMarks
      <3> QED
        BY <2>3, <2>5, <2>6, <3>1 DEF TimerAdded
    <2> QED
      BY <2>1, <2>8 DEF r
  <1>6. CASE c
    <2>1. c = TRUE
      BY <1>6
    <2>2. e \in CommonTimed(s) /\ s.ctl # <<>>
      <3>1. e \in CommonTimed(s)
        BY <1>2, <1>3, <2>1 DEF Timing, CommonTimed
      <3>2. CtlHead(s)
        BY <1>4, CtlHeadIs
      <3> QED
        BY <3>1, <3>2 DEF CtlHead
    <2>3. HeapLater(b, s)
      <3>1. HeapHead(s)
        BY <1>4, HeapHeadIs
      <3>2. s.timeheap # <<>> => Head(s.timeheap) # e /\ Head(s.timeheap) \in Ev
        BY <2>2, <3>1 DEF HeapHead, Timed, CommonTimed
      <3>3. s.timeheap # <<>> => Lasts(b, s, Head(s.timeheap))
        BY <3>2, <1>4 DEF Does, Spared, Lasts
      <3> QED
        BY <3>3, <1>4, HeadsLater
    <2>4. CASE Head(s.ctl) = e
      <3>1. r = k
        BY <1>1, <2>1, <2>4
      <3>2. /\ Does(s, k, {CTL}) /\ Armed(k)
            /\ "TIMEOUT" \in k.flags[CTL] /\ k.flags[CTL] \subseteq s.flags[CTL] \cup {"TIMEOUT"}
            /\ (Loud(s, th) => k.th_notify > 0 \/ HeapLater(s, k))
        BY <1>4, <2>2, ScheduleIs
      <3> HIDE DEF k
      <3>3. Does(b, k, {e, CTL})
        BY <1>4, <3>2, DoesTrans
      <3>4. k.flags[e] = s.flags[e]
        BY <1>2, <3>2 DEF Does, Spared
      <3>5. Loud(b, th) => k.th_notify > 0 \/ HeapLater(b, k)
        <4>1. Loud(b, th) => Loud(s, th)
          BY <1>4, StaysLoud DEF Does
        <4>2. Good(k)
          BY <3>2 DEF Does
        <4>3. HeapLater(s, k) => HeapLater(b, k)
          BY <1>4, <2>3, <4>2, LaterTrans
        <4> QED
          BY <3>2, <4>1, <4>3
      <3>6. TimerAdded(b, k, e, th)
        <4>1. /\ "TIMEOUT" \in k.flags[e]
              /\ \A x \in {e, CTL} : k.flags[x] \subseteq b.flags[x] \cup {"TIMEOUT"}
              /\ b.flags[e] \ {"ACTIVE"} \subseteq k.flags[e]
          BY <3>2, <3>4, <1>3, <1>4, AddedMarks
        <4> QED
          BY <3>2, <3>3, <3>5, <4>1 DEF TimerAdded
      <3> QED
        BY <3>1, <3>6 DEF r
    <2>5. CASE Head(s.ctl) # e
      <3>1. r = s
        BY <1>1, <2>1, <2>5
      <3>2. Does(s, s, {CTL})
        BY <1>4, DoesRefl
      <3>3. Does(b, s, {e, CTL})
        BY <1>4, <3>2, DoesTrans
      <3>4. Armed(b) => Armed(s)
        <4>1. s.ctl # <<>> => Lasts(b, s, Head(s.ctl))
          BY <2>5, <1>4, HeadsAre DEF Does, Spared, Lasts
        <4> QED
          BY <4>1, <1>4, StaysArmed
      <3>5. TimerAdded(b, s, e, th)
        <4>1. s.flags[CTL] \subseteq s.flags[CTL] \cup {"TIMEOUT"}
          OBVIOUS
        <4>2. /\ "TIMEOUT" \in s.flags[e]
              /\ \A x \in {e, CTL} : s.flags[x] \subseteq b.flags[x] \cup {"TIMEOUT"}
              /\ b.flags[e] \ {"ACTIVE"} \subseteq s.flags[e]
          BY <4>1, <1>3, <1>4, AddedMarks
        <4> QED
          BY <3>3, <3>4, <2>3, <4>2 DEF TimerAdded
      <3> QED
        BY <3>1, <3>5 DEF r
    <2> QED
      BY <2>4, <2>5
  <1> QED
    BY <1>5, <1>6

(* What the lists and the wake-ups do not depend on. *)
Notes == {"res", "io_timeout", "n_deferreds_queued", "event_continue"}

(* The lists stand as they were. *)
SameLists(b, r) ==
    /\ r.flags = b.flags /\ r.tmo = b.tmo /\ r.common = b.common
    /\ r.timeheap = b.timeheap /\ r.ctl = b.ctl /\ r.io = b.io
    /\ r.activequeues = b.activequeues /\ r.later = b.later
    /\ r.event_count = b.event_count /\ r.event_count_active = b.event_count_active

(* A change of those. *)
LEMMA TouchDoes ==
  ASSUME NEW b, Good(b), NEW r, Only(b, r, Notes), r.io_timeout \in [Ev -> Delays]
  PROVE  Does(b, r, {}) /\ SameLists(b, r)
  <1>1. Only(b, r, Aside) /\ Only(b, r, WorkFields)
    BY OnlyMore DEF Notes, Aside, WorkFields
  <1>2. /\ r.running_loop = b.running_loop /\ r.event_break = b.event_break
        /\ r.is_notify_pending = b.is_notify_pending /\ r.th_notify = b.th_notify
        /\ r.tv_cache = b.tv_cache /\ r.clock = b.clock /\ SameLists(b, r)
    BY DEF Only, Notes, Fields, SameLists
  <1>3. /\ r.running_loop \in BOOLEAN /\ r.event_break \in BOOLEAN
        /\ r.is_notify_pending \in BOOLEAN /\ r.th_notify \in Nat /\ r.tv_cache \in Nat
        /\ r.clock \in Nat
    BY <1>2 DEF Good, Typed
  <1>4. Good(r) /\ \A x \in Ev : Spared(b, r, x)
    BY <1>1, <1>3, Touch
  <1>5. Noted(b, r)
    BY <1>2 DEF Noted
  <1> QED
    BY <1>1, <1>2, <1>4, <1>5 DEF Does

(* Something is left to wait for, and nothing became active. *)
LEMMA CalmBy ==
  ASSUME NEW b, Good(b), NEW r, Good(r), HeapLater(b, r),
         \A x \in Ev : r.flags[x] \cap {"ACTIVE", "ACTIVE_LATER"} \subseteq b.flags[x],
         \/ \E x \in User : r.flags[x] \cap Pending # {}
         \/ \A x \in User : b.flags[x] \cap Pending # {} => r.flags[x] \cap Pending # {}
         \/ \E x \in Ev : "TIMEOUT" \in b.flags[x]
  PROVE  Calm(b, r)
  <1>1. CountsTell(b) /\ CountsTell(r)
    BY CountsAre
  <1>2. ASSUME b.event_count_active = 0 PROVE r.event_count_active = 0
    <2>1. \A x \in Ev : "ACTIVE" \notin b.flags[x] /\ "ACTIVE_LATER" \notin b.flags[x]
      BY <1>1, <1>2 DEF CountsTell
    <2>2. \A x \in Ev : "ACTIVE" \notin r.flags[x] /\ "ACTIVE_LATER" \notin r.flags[x]
      BY <2>1
    <2> QED
      BY <1>1, <2>2 DEF CountsTell
  <1>3. (\A x \in Ev : "TIMEOUT" \notin b.flags[x]) /\ event_haveevents(b) => event_haveevents(r)
    BY <1>1 DEF CountsTell
  <1> QED
    BY <1>2, <1>3 DEF Calm

(* A call on event e by thread th. *)
Served(b, r, e, th) ==
    /\ Does(b, r, {e, CTL}) /\ (Armed(b) => Armed(r))
    /\ "FINALIZING" \in b.flags[e] => r.flags[e] = b.flags[e]
    /\ Alert(b, r, th)

(* No call. *)
LEMMA ServedNot ==
  ASSUME NEW b, Good(b), NEW e, NEW th
  PROVE  Served(b, b, e, th)
  <1>1. HeapLater(b, b)
    <2>1. b.timeheap # <<>> => b.tmo[Head(b.timeheap)] \in Nat
      BY HeadsAre
    <2> QED
      BY <2>1 DEF HeapLater
  <1> QED
    BY <1>1, DoesRefl DEF Served, Alert, Calm

(* An event enters the backend. *)
LEMMA EntersIs ==
  ASSUME NEW b, Good(b), NEW e \in IoEvents, "INSERTED" \notin b.flags[e],
         "FINALIZING" \notin b.flags[e], NEW c, NEW th
  PROVE  LET in == event_queue_insert_inserted(evmap_io_add_(b, e), e)
             r == NotifyIf(c, in, th)
         IN  /\ Does(b, r, {e}) /\ r.flags[e] = b.flags[e] \cup {"INSERTED"}
             /\ r.timeheap = b.timeheap /\ r.ctl = b.ctl
             /\ r.tmo = b.tmo /\ r.common = b.common
  <1> DEFINE in == event_queue_insert_inserted(evmap_io_add_(b, e), e)
             r == NotifyIf(c, in, th)
  <1>1. e \in Ev
    BY EventsAre
  <1>2. /\ Relisted(b, in, e) /\ in.flags[e] = b.flags[e] \cup {"INSERTED"}
        /\ Only(b, in, {"flags", "event_count", "io"})
    BY <1>1, InsertInserted
  <1> HIDE DEF in
  <1>3. Does(b, in, {e}) /\ Good(in)
    BY <1>2, RelistedDoes DEF Does
  <1>4. /\ in.timeheap = b.timeheap /\ in.ctl = b.ctl
        /\ in.tmo = b.tmo /\ in.common = b.common
    BY <1>2 DEF Only, Fields
  <1>5. Does(in, r, {}) /\ Only(in, r, {"is_notify_pending", "th_notify"})
    BY <1>3, NotifyIs
  <1> HIDE DEF r
  <1>6. /\ r.timeheap = in.timeheap /\ r.ctl = in.ctl /\ r.flags = in.flags
        /\ r.tmo = in.tmo /\ r.common = in.common
    BY <1>5 DEF Only, Fields
  <1>7. Does(b, r, {e})
    BY <1>3, <1>5, DoesTrans DEF Good
  <1> QED
    BY <1>2, <1>4, <1>6, <1>7 DEF r, in

(* The event is in the backend if it may be, and nothing else has changed. *)
Entered(b, r, e) ==
    /\ Does(b, r, {e}) /\ b.flags[e] \subseteq r.flags[e]
    /\ r.flags[e] \subseteq b.flags[e] \cup {"INSERTED"}
    /\ r.timeheap = b.timeheap /\ r.ctl = b.ctl /\ r.tmo = b.tmo /\ r.common = b.common

(* A call that has entered an event. *)
LEMMA EnteredServes ==
  ASSUME NEW b, Good(b), NEW e \in User, "FINALIZING" \notin b.flags[e], NEW r,
         Entered(b, r, e), NEW th
  PROVE  Served(b, r, e, th)
  <1>1. e \in Ev /\ e # CTL /\ CTL \in Ev
    BY EventsAre
  <1>2. Good(r) /\ Does(r, r, {CTL})
    BY DoesRefl DEF Entered, Does
  <1>3. Does(b, r, {e, CTL})
    BY <1>2, DoesTrans DEF Entered, Good
  <1>4. HeapLater(b, r)
    <2>1. b.timeheap # <<>> => b.tmo[Head(b.timeheap)] \in Nat
      BY HeadsAre
    <2> QED
      BY <2>1 DEF HeapLater, Entered
  <1>5. Armed(b) => Armed(r)
    <2>1. r.flags[CTL] = b.flags[CTL]
      BY <1>1 DEF Entered, Does, Spared
    <2> QED
      BY <2>1 DEF Entered, Armed
  <1>6. \A x \in Ev : /\ b.flags[x] \subseteq r.flags[x]
                      /\ r.flags[x] \subseteq b.flags[x] \cup {"INSERTED"}
    BY DEF Entered, Does, Spared
  <1>7. Calm(b, r)
    <2>1. \A x \in Ev : r.flags[x] \cap {"ACTIVE", "ACTIVE_LATER"} \subseteq b.flags[x]
      BY <1>6
    <2>2. \A x \in User : b.flags[x] \cap Pending # {} => r.flags[x] \cap Pending # {}
      BY <1>6, EventsAre
    <2> QED
      BY <1>2, <1>4, <2>1, <2>2, CalmBy
  <1> QED
    BY <1>3, <1>5, <1>7 DEF Served, Alert

(* Then it gets its timer. *)
LEMMA TimerServes ==
  ASSUME NEW b, Good(b), NEW e \in User, "FINALIZING" \notin b.flags[e], NEW s,
         Entered(b, s, e), NEW th, NEW r, TimerAdded(s, r, e, th)
  PROVE  Served(b, r, e, th)
  <1>1. e \in Ev /\ e # CTL /\ CTL \in Ev
    BY EventsAre
  <1>2. Good(s) /\ Good(r) /\ Does(s, r, {e, CTL}) /\ Does(b, s, {e})
    BY DEF Entered, TimerAdded, Does
  <1>3. Does(b, r, {e, CTL})
    BY <1>2, DoesTrans DEF Good
  <1>4. Armed(b) => Armed(r)
    <2>1. s.flags[CTL] = b.flags[CTL]
      BY <1>1 DEF Entered, Does, Spared
    <2>2. Armed(b) => Armed(s)
      BY <2>1 DEF Entered, Armed
    <2> QED
      BY <2>2 DEF TimerAdded
  <1>5. ASSUME HeapLater(s, r) PROVE Calm(b, r)
    <2>1. HeapLater(b, r)
      BY <1>5 DEF Entered, HeapLater
    <2>2. \A x \in Ev : r.flags[x] \cap {"ACTIVE", "ACTIVE_LATER"} \subseteq b.flags[x]
      <3>1. \A x \in Ev : s.flags[x] \subseteq b.flags[x] \cup {"INSERTED"}
        BY DEF Entered, Does, Spared
      <3>2. \A x \in Ev : r.flags[x] \subseteq s.flags[x] \cup {"TIMEOUT"}
        BY DEF TimerAdded, Does, Spared
      <3> QED
        BY <3>1, <3>2
    <2>3. r.flags[e] \cap Pending # {}
      BY DEF TimerAdded, Pending
    <2> QED
      BY <1>2, <2>1, <2>2, <2>3, CalmBy
  <1>6. Alert(b, r, th)
    <2>1. Loud(b, th) => Loud(s, th)
      BY <1>2, StaysLoud DEF Does, Good
    <2> QED
      BY <1>5, <2>1 DEF Alert, TimerAdded
  <1> QED
    BY <1>3, <1>4, <1>6 DEF Served

(* The first half of event_add_nolock_. *)
LEMMA EntersOrNot ==
  ASSUME NEW b, Good(b), NEW e \in User, "FINALIZING" \notin b.flags[e], NEW th
  PROVE  LET enters == /\ e \in IoEvents
                       /\ b.flags[e] \cap {"INSERTED", "ACTIVE", "ACTIVE_LATER"} = {}
             r == IF enters
                  THEN NotifyIf(b.io = <<>>,
                                event_queue_insert_inserted(evmap_io_add_(b, e), e),
                                th)
                  ELSE b
         IN  Entered(b, r, e)
  <1> DEFINE enters == /\ e \in IoEvents
                       /\ b.flags[e] \cap {"INSERTED", "ACTIVE", "ACTIVE_LATER"} = {}
             in == event_queue_insert_inserted(evmap_io_add_(b, e), e)
             c == b.io = <<>>
             r == IF enters THEN NotifyIf(c, in, th) ELSE b
  <1>1. CASE enters
    <2>1. r = NotifyIf(c, in, th)
      BY <1>1
    <2> HIDE DEF r, c
    <2>2. "INSERTED" \notin b.flags[e]
      BY <1>1
    <2>3. /\ Does(b, r, {e}) /\ r.flags[e] = b.flags[e] \cup {"INSERTED"}
          /\ r.timeheap = b.timeheap /\ r.ctl = b.ctl
          /\ r.tmo = b.tmo /\ r.common = b.common
      BY <1>1, <2>1, <2>2, EntersIs
    <2> QED
      BY <2>3 DEF Entered, r, c
  <1>2. CASE ~enters
    <2>1. r = b
      BY <1>2
    <2>2. Entered(b, b, e)
      BY DoesRefl DEF Entered
    <2> QED
      BY <2>1, <2>2
  <1> QED
    BY <1>1, <1>2

(* The tv of an event with EV_PERSIST is kept. *)
KeptTv(b, e, tv) == IF e \in Persist THEN [b EXCEPT !.io_timeout[e] = tv] ELSE b

(* Which changes no list. *)
LEMMA KeptTvIs ==
  ASSUME NEW b, Good(b), NEW e \in Ev, NEW tv \in Delays
  PROVE  LET r == KeptTv(b, e, tv) IN Does(b, r, {}) /\ SameLists(b, r)
  <1> DEFINE r == KeptTv(b, e, tv)
  <1>1. Only(b, r, Notes) /\ r.io_timeout \in [Ev -> Delays]
    BY DEF Good, Typed, Only, Notes, Fields, KeptTv
  <1> HIDE DEF r
  <1> QED
    BY <1>1, TouchDoes DEF r

(* event_add_nolock_. *)
LEMMA AddServes ==
  ASSUME NEW b, Good(b), NEW e \in User, NEW tv \in Delays, NEW th
  PROVE  Served(b, event_add_nolock_(b, th, e, tv), e, th)
  <1> DEFINE enters == /\ e \in IoEvents
                       /\ b.flags[e] \cap {"INSERTED", "ACTIVE", "ACTIVE_LATER"} = {}
             in == IF enters
                   THEN NotifyIf(b.io = <<>>,
                                 event_queue_insert_inserted(evmap_io_add_(b, e), e),
                                 th)
                   ELSE b
             kept == KeptTv(in, e, tv)
             at == gettime(b) + tv.d
             k == AddTimer(kept, th, e, at, tv.common)
             r == event_add_nolock_(b, th, e, tv)
  <1>1. r = IF Has(b, e, "FINALIZING") THEN b ELSE IF tv = NoTv THEN in ELSE k
    BY DEF event_add_nolock_, KeptTv
  <1> HIDE DEF r
  <1>2. e \in Ev
    BY EventsAre
  <1>3. CASE Has(b, e, "FINALIZING")
    <2>1. r = b
      BY <1>1, <1>3
    <2>2. Served(b, b, e, th)
      BY ServedNot
    <2> QED
      BY <2>1, <2>2 DEF r
  <1>4. CASE ~Has(b, e, "FINALIZING")
    <2>1. "FINALIZING" \notin b.flags[e]
      BY <1>4 DEF Has
    <2>2. Entered(b, in, e)
      BY <2>1, EntersOrNot
    <2> HIDE DEF in
    <2>3. CASE tv = NoTv
      <3>1. r = in
        BY <1>1, <1>4, <2>3
      <3>2. Served(b, in, e, th)
        BY <2>1, <2>2, EnteredServes
      <3> QED
        BY <3>1, <3>2 DEF r
    <2>4. CASE tv # NoTv
      <3>1. r = k
        BY <1>1, <1>4, <2>4
      <3>2. Good(in)
        BY <2>2 DEF Entered, Does
      <3>3. Does(in, kept, {}) /\ SameLists(in, kept)
        BY <1>2, <3>2, KeptTvIs
      <3> HIDE DEF kept
      <3>4. Entered(b, kept, e)
        <4>1. Does(b, kept, {e})
          BY <2>2, <3>3, DoesTrans DEF Entered, Good
        <4> QED
          BY <4>1, <2>2, <3>3 DEF Entered, SameLists
      <3>5. Good(kept) /\ "FINALIZING" \notin kept.flags[e]
        BY <2>1, <3>4 DEF Entered, Does
      <3>6. at \in Nat /\ tv.common \in BOOLEAN
        <4>1. b.tv_cache \in Nat /\ b.clock \in Nat /\ tv.d \in Nat /\ tv.common \in BOOLEAN
          BY DEF Good, Typed, Delays
        <4>2. gettime(b) \in Nat
          BY <4>1 DEF gettime
        <4> QED
          BY <4>1, <4>2
      <3> HIDE DEF at
      <3>7. TimerAdded(kept, k, e, th)
        BY <1>2, <3>5, <3>6, AddTimerIs
      <3> HIDE DEF k
      <3>8. Served(b, k, e, th)
        BY <2>1, <3>4, <3>7, TimerServes
      <3> QED
        BY <3>1, <3>8 DEF r
    <2> QED
      BY <2>3, <2>4
  <1> QED
    BY <1>3, <1>4

-----------------------------------------------------------------------------
(* Deleting *)

(* e has lost its timer, if it had one. *)
LEMMA Shrinks ==
  ASSUME NEW b, Good(b), NEW e \in Ev, NEW r, Does(b, r, {e}), "TIMEOUT" \notin r.flags[e]
  PROVE  /\ HeapLater(b, r) /\ (e # CTL => (Armed(b) => Armed(r)))
  <1>1. Good(r) /\ HeapHead(r) /\ CtlHead(r)
    BY HeapHeadIs, CtlHeadIs DEF Does
  <1>2. /\ r.timeheap # <<>> => Head(r.timeheap) \in Ev /\ Head(r.timeheap) # e
        /\ r.ctl # <<>> => Head(r.ctl) \in Ev /\ Head(r.ctl) # e
    BY <1>1 DEF HeapHead, CtlHead, Timed, CommonTimed
  <1>3. /\ r.timeheap # <<>> => Lasts(b, r, Head(r.timeheap))
        /\ r.ctl # <<>> => Lasts(b, r, Head(r.ctl))
    BY <1>2 DEF Does, Spared, Lasts
  <1>4. e # CTL => Spared(b, r, CTL)
    BY EventsAre DEF Does
  <1> QED
    BY <1>1, <1>3, <1>4, HeadsLater, StaysArmed

(* The timer of an event taken off is forgotten. *)
Untimed(b, e) == [b EXCEPT !.io_timeout[e] = NoTv]

(* Which changes no list. *)
LEMMA UntimedIs ==
  ASSUME NEW b, Good(b), NEW e \in Ev
  PROVE  LET r == Untimed(b, e) IN Does(b, r, {}) /\ SameLists(b, r)
  <1> DEFINE r == Untimed(b, e)
  <1>1. NoTv \in Delays
    BY DEF NoTv, Delays
  <1>2. Only(b, r, Notes) /\ r.io_timeout \in [Ev -> Delays]
    BY <1>1 DEF Good, Typed, Only, Notes, Fields, Untimed
  <1> HIDE DEF r
  <1> QED
    BY <1>2, TouchDoes DEF r

(* event_remove_timer_nolock_. *)
LEMMA RemoveTimerServes ==
  ASSUME NEW b, Good(b), NEW e \in User, NEW th
  PROVE  LET r == event_remove_timer_nolock_(b, e)
         IN  Served(b, r, e, th) /\ r.flags[e] \subseteq b.flags[e]
  <1> DEFINE off == event_queue_remove_timeout(b, e)
             out == Untimed(off, e)
             r == event_remove_timer_nolock_(b, e)
  <1>1. r = IF Has(b, e, "TIMEOUT") THEN out ELSE b
    BY DEF event_remove_timer_nolock_, Untimed
  <1>2. e \in Ev /\ e # CTL /\ CTL \in Ev
    BY EventsAre
  <1> HIDE DEF r
  <1>3. CASE ~Has(b, e, "TIMEOUT")
    <2>1. r = b
      BY <1>1, <1>3
    <2>2. Served(b, b, e, th)
      BY ServedNot
    <2> QED
      BY <2>1, <2>2 DEF r
  <1>4. CASE Has(b, e, "TIMEOUT")
    <2>1. r = out
      BY <1>1, <1>4
    <2>2. "TIMEOUT" \in b.flags[e]
      BY <1>4 DEF Has
    <2>3. Relisted(b, off, e) /\ off.flags[e] = b.flags[e] \ {"TIMEOUT"}
      BY <1>2, <2>2, RemoveTimeout
    <2> HIDE DEF off
    <2>4. Does(b, off, {e}) /\ Good(off)
      BY <2>3, RelistedDoes DEF Does
    <2>5. Does(off, out, {}) /\ SameLists(off, out)
      BY <1>2, <2>4, UntimedIs
    <2> HIDE DEF out
    <2>6. out.flags[e] = b.flags[e] \ {"TIMEOUT"}
      BY <2>3, <2>5 DEF SameLists
    <2>7. Does(b, out, {e}) /\ Does(b, out, {e, CTL}) /\ Good(out)
      <3>1. Does(b, out, {e})
        BY <2>4, <2>5, DoesTrans DEF Good
      <3>2. Good(out) /\ Does(out, out, {CTL})
        BY <3>1, DoesRefl DEF Does
      <3> QED
        BY <3>1, <3>2, DoesTrans DEF Good
    <2>8. HeapLater(b, out) /\ (Armed(b) => Armed(out))
      BY <1>2, <2>6, <2>7, Shrinks
    <2>9. Calm(b, out)
      <3>1. \A x \in Ev : out.flags[x] \cap {"ACTIVE", "ACTIVE_LATER"} \subseteq b.flags[x]
        BY <2>6, <2>7 DEF Does, Spared
      <3> QED
        BY <1>2, <2>2, <2>7, <2>8, <3>1, CalmBy
    <2>10. "FINALIZING" \in b.flags[e] => out.flags[e] = b.flags[e]
      BY <1>2, <2>2 DEF Good, KindsOK
    <2>11. Served(b, out, e, th)
      BY <2>7, <2>8, <2>9, <2>10 DEF Served, Alert
    <2> QED
      BY <2>1, <2>6, <2>11 DEF r
  <1> QED
    BY <1>3, <1>4

(* e is off whichever active queue it is on. *)
LEMMA UnActive ==
  ASSUME NEW b, Good(b), NEW e \in Ev
  PROVE  LET r == IF Has(b, e, "ACTIVE") THEN event_queue_remove_active(b, e)
                  ELSE IF Has(b, e, "ACTIVE_LATER")
                  THEN event_queue_remove_active_later(b, e) ELSE b
         IN  /\ Does(b, r, {e}) /\ SameOn(b, r, "TIMEOUT") /\ r.ctl = b.ctl
             /\ r.timeheap = b.timeheap /\ r.tmo = b.tmo
             /\ r.flags[e] = b.flags[e] \ {"ACTIVE", "ACTIVE_LATER"}
             /\ (b.flags[e] \cap {"ACTIVE", "ACTIVE_LATER"} = {} => r = b)
  <1> DEFINE r == IF Has(b, e, "ACTIVE") THEN event_queue_remove_active(b, e)
                  ELSE IF Has(b, e, "ACTIVE_LATER")
                  THEN event_queue_remove_active_later(b, e) ELSE b
  <1>1. ~("ACTIVE" \in b.flags[e] /\ "ACTIVE_LATER" \in b.flags[e])
    BY DEF Good, KindsOK
  <1>2. CASE Has(b, e, "ACTIVE")
    <2>1. r = event_queue_remove_active(b, e)
      BY <1>2
    <2> HIDE DEF r
    <2>2. "ACTIVE" \in b.flags[e]
      BY <1>2 DEF Has
    <2>3. /\ Relisted(b, r, e) /\ r.flags[e] = b.flags[e] \ {"ACTIVE"}
          /\ Only(b, r, {"flags", "event_count", "event_count_active", "activequeues"})
      BY <2>1, <2>2, RemoveActive
    <2>4. Does(b, r, {e}) /\ r.ctl = b.ctl /\ r.timeheap = b.timeheap /\ r.tmo = b.tmo
      BY <2>3, RelistedDoes DEF Only, Fields
    <2>5. r.flags[e] = b.flags[e] \ {"ACTIVE", "ACTIVE_LATER"}
      BY <1>1, <2>2, <2>3
    <2>6. SameOn(b, r, "TIMEOUT")
      BY <2>3 DEF Relisted, SameOn
    <2> QED
      BY <2>2, <2>4, <2>5, <2>6 DEF r
  <1>3. CASE ~Has(b, e, "ACTIVE") /\ Has(b, e, "ACTIVE_LATER")
    <2>1. r = event_queue_remove_active_later(b, e)
      BY <1>3
    <2> HIDE DEF r
    <2>2. "ACTIVE_LATER" \in b.flags[e]
      BY <1>3 DEF Has
    <2>3. /\ Relisted(b, r, e) /\ r.flags[e] = b.flags[e] \ {"ACTIVE_LATER"}
          /\ Only(b, r, {"flags", "event_count", "event_count_active", "later"})
      BY <2>1, <2>2, RemoveLater
    <2>4. Does(b, r, {e}) /\ r.ctl = b.ctl /\ r.timeheap = b.timeheap /\ r.tmo = b.tmo
      BY <2>3, RelistedDoes DEF Only, Fields
    <2>5. r.flags[e] = b.flags[e] \ {"ACTIVE", "ACTIVE_LATER"}
      BY <1>1, <2>2, <2>3
    <2>6. SameOn(b, r, "TIMEOUT")
      BY <2>3 DEF Relisted, SameOn
    <2> QED
      BY <2>2, <2>4, <2>5, <2>6 DEF r
  <1>4. CASE ~Has(b, e, "ACTIVE") /\ ~Has(b, e, "ACTIVE_LATER")
    <2>1. r = b
      BY <1>4
    <2>2. b.flags[e] = b.flags[e] \ {"ACTIVE", "ACTIVE_LATER"}
      BY <1>4 DEF Has
    <2>3. Does(b, b, {e}) /\ SameOn(b, b, "TIMEOUT")
      BY DoesRefl DEF SameOn
    <2> QED
      BY <2>1, <2>2, <2>3
  <1> QED
    BY <1>2, <1>3, <1>4

(* What event_del_nolock_ does. *)
Deleted(b, r, e, th) ==
    /\ Does(b, r, {e}) /\ (e # CTL => (Armed(b) => Armed(r)))
    /\ "FINALIZING" \in b.flags[e] => r = b
    /\ "FINALIZING" \notin b.flags[e] => r.flags[e] = {}
    /\ r.flags[e] \subseteq b.flags[e]
    /\ Alert(b, r, th)

(* An event off its queues leaves the backend. *)
LEMMA LeavesIs ==
  ASSUME NEW a, Good(a), NEW e \in Ev \ {NOTIFY}, "INSERTED" \in a.flags[e], NEW c, NEW th
  PROVE  LET d == evmap_io_del_(event_queue_remove_inserted(a, e), e)
             r == NotifyIf(c, d, th)
         IN  /\ Does(a, r, {e}) /\ r.flags[e] = a.flags[e] \ {"INSERTED"}
             /\ (c /\ Loud(a, th) => r.th_notify > 0) /\ r.io = d.io
             /\ event_haveevents(r) = event_haveevents(d)
             /\ N_ACTIVE_CALLBACKS(r) = N_ACTIVE_CALLBACKS(d)
  <1> DEFINE d == evmap_io_del_(event_queue_remove_inserted(a, e), e)
             r == NotifyIf(c, d, th)
  <1>1. e \in Ev /\ e \in IoEvents
    BY DEF Good, KindsOK
  <1>2. Relisted(a, d, e) /\ d.flags[e] = a.flags[e] \ {"INSERTED"}
    BY <1>1, RemoveInserted
  <1> HIDE DEF d
  <1>3. Does(a, d, {e}) /\ Good(d)
    BY <1>2, RelistedDoes DEF Does
  <1>4. /\ Does(d, r, {}) /\ Only(d, r, {"is_notify_pending", "th_notify"})
        /\ (c /\ d.running_loop /\ th # LoopThread /\ Woken(d) => r.th_notify > 0)
    BY <1>3, NotifyIs
  <1> HIDE DEF r
  <1>5. Does(a, r, {e})
    BY <1>3, <1>4, DoesTrans DEF Good
  <1>6. c /\ Loud(a, th) => r.th_notify > 0
    <2>1. Loud(a, th) => Loud(d, th)
      BY <1>3, StaysLoud DEF Does, Good
    <2> QED
      BY <1>4, <2>1 DEF Loud
  <1>7. /\ r.flags = d.flags /\ r.io = d.io /\ r.event_count = d.event_count
        /\ r.event_count_active = d.event_count_active
    BY <1>4 DEF Only, Fields
  <1> QED
    BY <1>2, <1>5, <1>6, <1>7 DEF r, d, event_haveevents, N_ACTIVE_CALLBACKS

(* A deletion does not disturb a loop that sleeps. *)
LEMMA DeleteCalm ==
  ASSUME NEW b, Good(b), NEW e \in Ev \ {NOTIFY}, NEW r, Does(b, r, {e}), r.flags[e] = {},
         \/ r.io # <<>>
         \/ event_haveevents(r)
         \/ r.event_count_active # 0
         \/ b.flags[e] \subseteq {"TIMEOUT", "ACTIVE", "ACTIVE_LATER"}
  PROVE  Calm(b, r)
  <1>1. HeapLater(b, r) /\ Good(r)
    BY Shrinks DEF Does
  <1>2. \A x \in Ev : r.flags[x] \subseteq b.flags[x]
    BY DEF Does, Spared
  <1>3. \A x \in Ev : r.flags[x] \cap {"ACTIVE", "ACTIVE_LATER"} \subseteq b.flags[x]
    BY <1>2
  <1>4. CountsTell(b) /\ CountsTell(r)
    BY <1>1, CountsAre
  <1>5. CASE \E x \in User : r.flags[x] \cap Pending # {}
    BY <1>1, <1>3, <1>5, CalmBy
  <1>6. CASE "TIMEOUT" \in b.flags[e]
    BY <1>1, <1>3, <1>6, CalmBy
  <1>7. CASE r.io # <<>>
    <2>1. ListOf(r.io, OnIo(r))
      BY <1>1 DEF Good, IoOK
    <2>2. OnIo(r) # {}
      BY <2>1, <1>7, ListEmpty
    <2>3. \E x \in User : r.flags[x] \cap Pending # {}
      BY <2>2, EventsAre DEF OnIo, Pending
    <2> QED
      BY <2>3, <1>5
  <1>8. CASE event_haveevents(r)
    BY <1>8, <1>4, <1>5 DEF CountsTell
  <1>9. ASSUME b.event_count_active = 0 PROVE r.event_count_active = 0
    BY <1>9, <1>2, <1>4 DEF CountsTell
  <1>10. CASE r.event_count_active # 0
    BY <1>10, <1>9 DEF Calm
  <1>11. CASE b.flags[e] \subseteq {"ACTIVE", "ACTIVE_LATER"}
    <2>1. ASSUME b.event_count_active = 0 PROVE b.flags[e] = {}
      BY <2>1, <1>4, <1>11 DEF CountsTell
    <2>2. ASSUME b.event_count_active = 0 PROVE \A x \in User : r.flags[x] = b.flags[x]
      <3>1. b.flags[e] = {}
        BY <2>2, <2>1
      <3> QED
        BY <3>1, EventsAre DEF Does, Spared
    <2>3. ASSUME b.event_count_active = 0 PROVE Calm(b, r)
      <3>1. \A x \in User : b.flags[x] \cap Pending # {} => r.flags[x] \cap Pending # {}
        BY <2>2, <2>3
      <3> QED
        BY <1>1, <1>3, <3>1, CalmBy
    <2> QED
      BY <2>3 DEF Calm
  <1> QED
    BY <1>6, <1>7, <1>8, <1>10, <1>11

(* event_del_nolock_. *)
LEMMA DelIs ==
  ASSUME NEW b, Good(b), NEW e \in Ev \ {NOTIFY}, NEW th
  PROVE  Deleted(b, event_del_nolock_(b, th, e), e, th)
  <1> DEFINE t == IF Has(b, e, "TIMEOUT") THEN event_queue_remove_timeout(b, e) ELSE b
             a == IF Has(t, e, "ACTIVE") THEN event_queue_remove_active(t, e)
                  ELSE IF Has(t, e, "ACTIVE_LATER")
                  THEN event_queue_remove_active_later(t, e) ELSE t
             d == evmap_io_del_(event_queue_remove_inserted(a, e), e)
             c == \/ d.io = <<>>
                  \/ ~event_haveevents(d) /\ N_ACTIVE_CALLBACKS(d) = 0
             n == NotifyIf(c, d, th)
             r == event_del_nolock_(b, th, e)
  <1>1. r = IF Has(b, e, "FINALIZING") THEN b ELSE IF ~Has(a, e, "INSERTED") THEN a ELSE n
    BY DEF event_del_nolock_
  <1> HIDE DEF r
  <1>2. CASE Has(b, e, "FINALIZING")
    <2>1. r = b /\ "FINALIZING" \in b.flags[e]
      BY <1>1, <1>2 DEF Has
    <2>2. Does(b, b, {e})
      BY DoesRefl
    <2>3. Alert(b, b, th)
      BY ServedNot DEF Served
    <2> QED
      BY <2>1, <2>2, <2>3 DEF r, Deleted
  <1>3. CASE ~Has(b, e, "FINALIZING")
    <2>1. e \in Ev /\ b.flags[e] \subseteq Pending /\ b.flags[e] \in SUBSET Marks
          /\ "FINALIZING" \notin b.flags[e]
      BY <1>3 DEF Has, Good, Typed, Marks
    <2>2. Does(b, t, {e}) /\ t.flags[e] = b.flags[e] \ {"TIMEOUT"}
      BY <2>1, TimeOff
    <2> HIDE DEF t
    <2>3. Does(t, a, {e}) /\ a.flags[e] = t.flags[e] \ {"ACTIVE", "ACTIVE_LATER"}
      BY <2>1, <2>2, UnActive DEF Does
    <2> HIDE DEF a
    <2>4. Does(b, a, {e}) /\ Good(a)
      <3>1. Typed(b)
        BY DEF Good
      <3>2. Does(b, a, {e})
        BY <2>2, <2>3, <3>1, DoesTrans
      <3> QED
        BY <2>3, <3>2 DEF Does
    <2>5. a.flags[e] \subseteq {"INSERTED"}
      BY <2>1, <2>2, <2>3 DEF Pending
    <2>6. \/ r = a /\ a.flags[e] = {}
          \/ r = n /\ "INSERTED" \in a.flags[e]
      BY <1>1, <1>3, <2>5 DEF Has
    <2>7. CASE r = a /\ a.flags[e] = {}
      <3>1. b.flags[e] \subseteq {"TIMEOUT", "ACTIVE", "ACTIVE_LATER"}
        BY <2>2, <2>3, <2>7
      <3>2. Calm(b, a)
        BY <3>1, <2>4, <2>7, DeleteCalm
      <3>3. e # CTL => (Armed(b) => Armed(a))
        BY <2>1, <2>4, <2>7, Shrinks
      <3>4. Deleted(b, a, e, th)
        BY <2>1, <2>4, <2>7, <3>2, <3>3 DEF Deleted, Alert
      <3> QED
        BY <3>4, <2>7 DEF r
    <2>8. CASE r = n /\ "INSERTED" \in a.flags[e]
      <3> DEFINE io == d.io
                 he == event_haveevents(d)
                 na == N_ACTIVE_CALLBACKS(d)
      <3>1. c <=> io = <<>> \/ (~he /\ na = 0)
        OBVIOUS
      <3> HIDE DEF c
      <3>2. /\ Does(a, n, {e}) /\ n.flags[e] = a.flags[e] \ {"INSERTED"}
            /\ (c /\ Loud(a, th) => n.th_notify > 0) /\ n.io = io
            /\ event_haveevents(n) = he
            /\ N_ACTIVE_CALLBACKS(n) = na
        BY <2>4, <2>8, LeavesIs
      <3> HIDE DEF n, io, he, na, d
      <3>3. Does(b, n, {e}) /\ n.flags[e] = {}
        BY <2>4, <2>5, <3>2, DoesTrans DEF Good
      <3>4. e # CTL => (Armed(b) => Armed(n))
        BY <2>1, <3>3, Shrinks
      <3>5. Alert(b, n, th)
        <4>1. Loud(b, th) => Loud(a, th)
          BY <2>4, StaysLoud DEF Does, Good
        <4>2. ASSUME ~c PROVE Calm(b, n)
          <5>1. n.io # <<>> /\ (event_haveevents(n) \/ n.event_count_active # 0)
            BY <4>2, <3>1, <3>2 DEF N_ACTIVE_CALLBACKS
          <5> QED
            BY <5>1, <3>3, DeleteCalm
        <4> QED
          BY <3>2, <4>1, <4>2 DEF Alert
      <3>6. Deleted(b, n, e, th)
        BY <2>1, <3>3, <3>4, <3>5 DEF Deleted
      <3> QED
        BY <3>6, <2>8 DEF r, n, c, d
    <2> QED
      BY <2>6, <2>7, <2>8
  <1> QED
    BY <1>2, <1>3

(* event_callback_cancel_nolock_. *)
LEMMA CancelServes ==
  ASSUME NEW b, Good(b), NEW e \in Deferred, NEW th
  PROVE  LET r == event_callback_cancel_nolock_(b, e)
         IN  Served(b, r, e, th) /\ r.flags[e] \subseteq b.flags[e]
  <1> DEFINE r == event_callback_cancel_nolock_(b, e)
  <1>1. e \in Ev /\ e # CTL /\ CTL \in Ev /\ e \in User
    BY EventsAre
  <1>2. /\ Does(b, r, {e}) /\ SameOn(b, r, "TIMEOUT") /\ r.ctl = b.ctl
        /\ r.timeheap = b.timeheap /\ r.tmo = b.tmo
        /\ r.flags[e] = b.flags[e] \ {"ACTIVE", "ACTIVE_LATER"}
        /\ (b.flags[e] \cap {"ACTIVE", "ACTIVE_LATER"} = {} => r = b)
    BY <1>1, UnActive DEF event_callback_cancel_nolock_
  <1> HIDE DEF r
  <1>3. Good(r) /\ Does(b, r, {e, CTL})
    <2>1. Good(r) /\ Does(r, r, {CTL})
      BY <1>2, DoesRefl DEF Does
    <2> QED
      BY <1>2, <2>1, DoesTrans DEF Good
  <1>4. Armed(b) => Armed(r)
    <2>1. r.flags[CTL] = b.flags[CTL]
      BY <1>1, <1>2 DEF Does, Spared
    <2> QED
      BY <2>1, <1>2 DEF Armed
  <1>5. ASSUME b.event_count_active = 0 PROVE r = b
    <2>1. CountsTell(b)
      BY CountsAre
    <2>2. b.flags[e] \cap {"ACTIVE", "ACTIVE_LATER"} = {}
      BY <1>1, <1>5, <2>1 DEF CountsTell
    <2> QED
      BY <1>2, <2>2
  <1>6. Alert(b, r, th)
    <2>1. b.event_count_active # 0 => Calm(b, r)
      BY DEF Calm
    <2>2. Alert(b, b, th)
      BY ServedNot DEF Served
    <2> QED
      BY <1>5, <2>1, <2>2 DEF Alert
  <1>7. "FINALIZING" \in b.flags[e] => r.flags[e] = b.flags[e]
    BY <1>1, EventsAre DEF Good, KindsOK
  <1> QED
    BY <1>2, <1>3, <1>4, <1>6, <1>7 DEF Served, r

-----------------------------------------------------------------------------
(* Activating *)

(* e may be on an active queue now, and the loop is told if it is. *)
Raised(b, r, e, th) ==
    /\ Does(b, r, {e}) /\ (Armed(b) => Armed(r))
    /\ "FINALIZING" \in b.flags[e] => r.flags[e] = b.flags[e]
    /\ b.flags[e] \ {"ACTIVE_LATER"} \subseteq r.flags[e]
    /\ r.flags[e] \subseteq b.flags[e] \cup {"ACTIVE", "ACTIVE_LATER"}
    /\ Loud(b, th) => r.th_notify > 0 \/ SameLists(b, r)

(* Without a change. *)
LEMMA RaisedNot ==
  ASSUME NEW b, Good(b), NEW e, NEW th
  PROVE  Raised(b, b, e, th)
  BY DoesRefl DEF Raised, SameLists

(* After a note. *)
LEMMA RaisedAfter ==
  ASSUME NEW b, Good(b), NEW e, NEW th, NEW m, Does(b, m, {}), SameLists(b, m),
         NEW r, Raised(m, r, e, th)
  PROVE  Raised(b, r, e, th)
  <1>1. Does(b, r, {e})
    BY DoesTrans DEF Raised, Good
  <1>2. Armed(b) => Armed(m)
    BY DEF SameLists, Armed
  <1>3. Loud(b, th) => Loud(m, th)
    BY StaysLoud DEF Does, Good
  <1>4. SameLists(m, r) => SameLists(b, r)
    BY DEF SameLists
  <1>5. m.flags = b.flags
    BY DEF SameLists
  <1> QED
    BY <1>1, <1>2, <1>3, <1>4, <1>5 DEF Raised

(* Before a note. *)
LEMMA RaisedBefore ==
  ASSUME NEW b, Good(b), NEW e, NEW th, NEW m, Raised(b, m, e, th),
         NEW r, Does(m, r, {}), SameLists(m, r)
  PROVE  Raised(b, r, e, th)
  <1>1. Does(b, r, {e})
    BY DoesTrans DEF Raised, Good
  <1>2. Armed(m) => Armed(r)
    BY DEF SameLists, Armed
  <1>3. m.th_notify > 0 => r.th_notify > 0
    BY StaysLoud DEF Raised, Does, Good
  <1>4. SameLists(b, m) => SameLists(b, r)
    BY DEF SameLists
  <1>5. r.flags = m.flags
    BY DEF SameLists
  <1> QED
    BY <1>1, <1>2, <1>3, <1>4, <1>5 DEF Raised

(* Such a call serves. *)
LEMMA RaisedServes ==
  ASSUME NEW b, Good(b), NEW e \in Ev, NEW th, NEW r, Raised(b, r, e, th)
  PROVE  Served(b, r, e, th)
  <1>1. Does(b, r, {e, CTL})
    <2>1. Good(r) /\ Does(r, r, {CTL})
      BY DoesRefl DEF Raised, Does
    <2> QED
      BY <2>1, DoesTrans DEF Raised, Good
  <1>2. SameLists(b, r) => Calm(b, r)
    <2>1. b.timeheap # <<>> => b.tmo[Head(b.timeheap)] \in Nat
      BY HeadsAre
    <2> QED
      BY <2>1 DEF Calm, SameLists, HeapLater, event_haveevents
  <1> QED
    BY <1>1, <1>2 DEF Raised, Served, Alert

(* A mark of activity and the wake-up. *)
LEMMA RaiseIs ==
  ASSUME NEW b, Good(b), NEW e \in Ev, NEW m, Relisted(b, m, e),
         b.flags[e] \ {"ACTIVE_LATER"} \subseteq m.flags[e],
         m.flags[e] \subseteq b.flags[e] \cup {"ACTIVE", "ACTIVE_LATER"},
         "FINALIZING" \notin b.flags[e],
         m.timeheap = b.timeheap, m.ctl = b.ctl, NEW th
  PROVE  LET r == NotifyIf(TRUE, m, th)
         IN  /\ Raised(b, r, e, th) /\ r.flags = m.flags /\ (Loud(b, th) => r.th_notify > 0)
  <1> DEFINE r == NotifyIf(TRUE, m, th)
  <1>1. Does(b, m, {e}) /\ Good(m) /\ m.tmo = b.tmo
    BY RelistedDoes, ListsKeep DEF Does, Relisted
  <1>2. /\ Does(m, r, {}) /\ Only(m, r, {"is_notify_pending", "th_notify"})
        /\ (m.running_loop /\ th # LoopThread /\ Woken(m) => r.th_notify > 0)
    BY <1>1, NotifyIs
  <1> HIDE DEF r
  <1>3. r.flags = m.flags /\ r.ctl = m.ctl /\ r.tmo = m.tmo
    BY <1>2 DEF Only, Fields
  <1>4. Does(b, r, {e})
    BY <1>1, <1>2, DoesTrans DEF Good
  <1>5. Loud(b, th) => r.th_notify > 0
    <2>1. Loud(b, th) => Loud(m, th)
      BY <1>1, StaysLoud DEF Does, Good
    <2> QED
      BY <2>1, <1>2 DEF Loud
  <1>6. Armed(b) => Armed(r)
    <2>1. CTL \in Ev
      BY EventsAre
    <2>2. b.flags[CTL] \ {"ACTIVE_LATER"} \subseteq m.flags[CTL]
      BY <2>1 DEF Relisted
    <2> QED
      BY <2>2, <1>1, <1>3 DEF Armed
  <1> QED
    BY <1>3, <1>4, <1>5, <1>6 DEF Raised, r

(* Two changes of the lists that e is on. *)
LEMMA RelistedTrans ==
  ASSUME NEW b, NEW m, NEW r, NEW e, Relisted(b, m, e), Relisted(m, r, e)
  PROVE  Relisted(b, r, e)
  BY OnlyTrans DEF Relisted

(* e is off the list of those put off. *)
LEMMA LaterOff ==
  ASSUME NEW b, Good(b), NEW e \in Ev
  PROVE  LET r == IF Has(b, e, "ACTIVE_LATER")
                  THEN event_queue_remove_active_later(b, e) ELSE b
         IN  /\ Relisted(b, r, e) /\ r.flags[e] = b.flags[e] \ {"ACTIVE_LATER"}
             /\ r.timeheap = b.timeheap /\ r.ctl = b.ctl
  <1> DEFINE r == IF Has(b, e, "ACTIVE_LATER")
                  THEN event_queue_remove_active_later(b, e) ELSE b
  <1>1. CASE Has(b, e, "ACTIVE_LATER")
    <2>1. r = event_queue_remove_active_later(b, e) /\ "ACTIVE_LATER" \in b.flags[e]
      BY <1>1 DEF Has
    <2> HIDE DEF r
    <2>2. /\ Relisted(b, r, e) /\ r.flags[e] = b.flags[e] \ {"ACTIVE_LATER"}
          /\ Only(b, r, {"flags", "event_count", "event_count_active", "later"})
      BY <2>1, RemoveLater
    <2>3. r.timeheap = b.timeheap /\ r.ctl = b.ctl
      BY <2>2 DEF Only, Fields
    <2> QED
      BY <2>2, <2>3 DEF r
  <1>2. CASE ~Has(b, e, "ACTIVE_LATER")
    <2>1. r = b /\ b.flags[e] = b.flags[e] \ {"ACTIVE_LATER"}
      BY <1>2 DEF Has
    <2>2. Relisted(b, b, e)
      BY DEF Relisted, Only, Good, Typed
    <2> QED
      BY <2>1, <2>2
  <1> QED
    BY <1>1, <1>2

(* event_callback_activate_nolock_. *)
LEMMA ActivateIs ==
  ASSUME NEW b, Good(b), NEW e \in Ev, NEW th
  PROVE  LET r == event_callback_activate_nolock_(b, th, e)
         IN  /\ Raised(b, r, e, th)
             /\ ("FINALIZING" \notin b.flags[e] => "ACTIVE" \in r.flags[e])
  <1> DEFINE off == IF Has(b, e, "ACTIVE_LATER")
                    THEN event_queue_remove_active_later(b, e) ELSE b
             m == event_queue_insert_active(off, e)
             n == NotifyIf(TRUE, m, th)
             r == event_callback_activate_nolock_(b, th, e)
  <1>1. r = IF b.flags[e] \cap {"FINALIZING", "ACTIVE"} # {} THEN b ELSE n
    BY DEF event_callback_activate_nolock_
  <1> HIDE DEF r
  <1>2. CASE b.flags[e] \cap {"FINALIZING", "ACTIVE"} # {}
    <2>1. r = b
      BY <1>1, <1>2
    <2>2. Raised(b, b, e, th)
      BY RaisedNot
    <2> QED
      BY <2>1, <2>2, <1>2 DEF r
  <1>3. CASE b.flags[e] \cap {"FINALIZING", "ACTIVE"} = {}
    <2>1. r = n /\ "FINALIZING" \notin b.flags[e] /\ "ACTIVE" \notin b.flags[e]
      BY <1>1, <1>3
    <2>2. /\ Relisted(b, off, e) /\ off.flags[e] = b.flags[e] \ {"ACTIVE_LATER"}
          /\ off.timeheap = b.timeheap /\ off.ctl = b.ctl
      BY LaterOff
    <2> HIDE DEF off
    <2>3. /\ Good(off) /\ "FINALIZING" \notin off.flags[e]
          /\ off.flags[e] \cap {"ACTIVE", "ACTIVE_LATER"} = {}
      BY <2>1, <2>2 DEF Relisted
    <2>4. /\ Relisted(off, m, e) /\ m.flags[e] = off.flags[e] \cup {"ACTIVE"}
          /\ Only(off, m, {"flags", "event_count", "event_count_active", "activequeues"})
      BY <2>3, InsertActive
    <2> HIDE DEF m
    <2>5. Relisted(b, m, e) /\ m.timeheap = b.timeheap /\ m.ctl = b.ctl
      <3>1. m.timeheap = off.timeheap /\ m.ctl = off.ctl
        BY <2>4 DEF Only, Fields
      <3>2. Relisted(b, m, e)
        BY <2>2, <2>4, RelistedTrans
      <3> QED
        BY <2>2, <3>1, <3>2
    <2>6. /\ b.flags[e] \ {"ACTIVE_LATER"} \subseteq m.flags[e]
          /\ m.flags[e] \subseteq b.flags[e] \cup {"ACTIVE", "ACTIVE_LATER"}
          /\ "ACTIVE" \in m.flags[e]
      BY <2>2, <2>4
    <2>7. Raised(b, n, e, th) /\ n.flags = m.flags
      <3>1. "FINALIZING" \notin b.flags[e]
        BY <2>1
      <3>2. Relisted(b, m, e) /\ m.timeheap = b.timeheap /\ m.ctl = b.ctl
        BY <2>5
      <3>3. /\ b.flags[e] \ {"ACTIVE_LATER"} \subseteq m.flags[e]
            /\ m.flags[e] \subseteq b.flags[e] \cup {"ACTIVE", "ACTIVE_LATER"}
        BY <2>6
      <3> QED
        BY <3>1, <3>2, <3>3, RaiseIs
    <2> HIDE DEF n
    <2> QED
      BY <2>1, <2>6, <2>7 DEF r
  <1> QED
    BY <1>2, <1>3

(* event_callback_activate_later_nolock_. *)
LEMMA ActivateLaterIs ==
  ASSUME NEW b, Good(b), NEW e \in Ev, "FINALIZING" \notin b.flags[e], NEW th
  PROVE  Raised(b, event_callback_activate_later_nolock_(b, th, e), e, th)
  <1> DEFINE m == event_queue_insert_active_later(b, e)
             n == NotifyIf(TRUE, m, th)
             r == event_callback_activate_later_nolock_(b, th, e)
  <1>1. r = IF b.flags[e] \cap {"ACTIVE", "ACTIVE_LATER"} # {} THEN b ELSE n
    BY DEF event_callback_activate_later_nolock_
  <1> HIDE DEF r
  <1>2. CASE b.flags[e] \cap {"ACTIVE", "ACTIVE_LATER"} # {}
    <2>1. r = b
      BY <1>1, <1>2
    <2>2. Raised(b, b, e, th)
      BY RaisedNot
    <2> QED
      BY <2>1, <2>2 DEF r
  <1>3. CASE b.flags[e] \cap {"ACTIVE", "ACTIVE_LATER"} = {}
    <2>1. r = n
      BY <1>1, <1>3
    <2>2. /\ Relisted(b, m, e) /\ m.flags[e] = b.flags[e] \cup {"ACTIVE_LATER"}
          /\ Only(b, m, {"flags", "event_count", "event_count_active", "later"})
      BY <1>3, InsertLater
    <2> HIDE DEF m
    <2>3. m.timeheap = b.timeheap /\ m.ctl = b.ctl
      BY <2>2 DEF Only, Fields
    <2>4. /\ b.flags[e] \ {"ACTIVE_LATER"} \subseteq m.flags[e]
          /\ m.flags[e] \subseteq b.flags[e] \cup {"ACTIVE", "ACTIVE_LATER"}
      BY <2>2
    <2>5. Raised(b, n, e, th)
      BY <2>2, <2>3, <2>4, RaiseIs
    <2> HIDE DEF n
    <2> QED
      BY <2>1, <2>5 DEF r
  <1> QED
    BY <1>2, <1>3

(* event_active_nolock_ notes why, and that a callback is more urgent. *)
Reason(b, e, x) == [b EXCEPT !.res[e] = x]
ReasonNow(b, e, x) ==
    [b EXCEPT !.res[e] = x, !.event_continue = @ \/ Pri[e] < b.event_running_priority]

(* Which changes no list. *)
LEMMA ReasonIs ==
  ASSUME NEW b, Good(b), NEW e \in Ev, NEW x
  PROVE  /\ Does(b, Reason(b, e, x), {}) /\ SameLists(b, Reason(b, e, x))
         /\ Does(b, ReasonNow(b, e, x), {}) /\ SameLists(b, ReasonNow(b, e, x))
  <1> DEFINE r == Reason(b, e, x)
             n == ReasonNow(b, e, x)
  <1>1. b.io_timeout \in [Ev -> Delays]
    BY DEF Good, Typed
  <1>2. Only(b, r, Notes) /\ r.io_timeout = b.io_timeout
    BY DEF Good, Typed, Only, Notes, Fields, Reason
  <1>3. Only(b, n, Notes) /\ n.io_timeout = b.io_timeout
    BY DEF Good, Typed, Only, Notes, Fields, ReasonNow
  <1> HIDE DEF r, n
  <1> QED
    BY <1>1, <1>2, <1>3, TouchDoes DEF r, n

(* event_active_nolock_. *)
LEMMA ActiveIs ==
  ASSUME NEW b, Good(b), NEW e \in Ev, NEW th, NEW res
  PROVE  LET r == event_active_nolock_(b, th, e, res)
         IN  /\ Raised(b, r, e, th)
             /\ ("FINALIZING" \notin b.flags[e] => "ACTIVE" \in r.flags[e])
  <1> DEFINE x == b.res[e] \cup res
             y == IF Has(b, e, "ACTIVE_LATER") THEN b.res[e] \cup res ELSE res
             m == Reason(b, e, x)
             k == ReasonNow(b, e, y)
             n == event_callback_activate_nolock_(k, th, e)
             r == event_active_nolock_(b, th, e, res)
  <1>1. r = IF Has(b, e, "FINALIZING") THEN b ELSE IF Has(b, e, "ACTIVE") THEN m ELSE n
    BY DEF event_active_nolock_, Reason, ReasonNow
  <1> HIDE DEF r, x, y
  <1>2. /\ Does(b, m, {}) /\ SameLists(b, m) /\ Does(b, k, {}) /\ SameLists(b, k)
    BY ReasonIs
  <1> HIDE DEF m, k
  <1>3. Raised(b, b, e, th)
    BY RaisedNot
  <1>4. Raised(b, m, e, th)
    BY <1>2, <1>3, RaisedBefore
  <1>5. /\ Raised(k, n, e, th)
        /\ ("FINALIZING" \notin k.flags[e] => "ACTIVE" \in n.flags[e])
    BY <1>2, ActivateIs DEF Does
  <1> HIDE DEF n
  <1>6. Raised(b, n, e, th)
    BY <1>2, <1>5, RaisedAfter
  <1>7. m.flags = b.flags /\ k.flags = b.flags
    BY <1>2 DEF SameLists
  <1>8. \/ r = b /\ "FINALIZING" \in b.flags[e]
        \/ r = m /\ "ACTIVE" \in b.flags[e]
        \/ r = n
    BY <1>1 DEF Has
  <1> QED
    BY <1>3, <1>4, <1>5, <1>6, <1>7, <1>8 DEF r

(* event_active_later_nolock_. *)
LEMMA ActiveLaterServes ==
  ASSUME NEW b, Good(b), NEW e \in Ev, "FINALIZING" \notin b.flags[e], NEW th, NEW res
  PROVE  Served(b, event_active_later_nolock_(b, th, e, res), e, th)
  <1> DEFINE x == b.res[e] \cup res
             m == Reason(b, e, x)
             k == Reason(b, e, res)
             n == event_callback_activate_later_nolock_(k, th, e)
             r == event_active_later_nolock_(b, th, e, res)
  <1>1. r = m \/ r = n
    BY DEF event_active_later_nolock_, Reason
  <1> HIDE DEF r, x
  <1>2. /\ Does(b, m, {}) /\ SameLists(b, m) /\ Does(b, k, {}) /\ SameLists(b, k)
    BY ReasonIs
  <1> HIDE DEF m, k
  <1>3. Raised(b, b, e, th)
    BY RaisedNot
  <1>4. Raised(b, m, e, th)
    BY <1>2, <1>3, RaisedBefore
  <1>5. Raised(k, n, e, th)
    BY <1>2, ActivateLaterIs DEF Does, SameLists
  <1> HIDE DEF n
  <1>6. Raised(b, n, e, th)
    BY <1>2, <1>5, RaisedAfter
  <1>7. Raised(b, r, e, th)
    BY <1>1, <1>4, <1>6
  <1>8. Served(b, r, e, th)
    BY <1>7, RaisedServes
  <1> QED
    BY <1>8 DEF r

(* One more deferred callback is counted. *)
Queued(b, x) == [b EXCEPT !.n_deferreds_queued = @ + x]

(* Which changes no list. *)
LEMMA QueuedIs ==
  ASSUME NEW b, Good(b), NEW x
  PROVE  LET r == Queued(b, x) IN Does(b, r, {}) /\ SameLists(b, r)
  <1> DEFINE r == Queued(b, x)
  <1>1. Only(b, r, Notes) /\ r.io_timeout \in [Ev -> Delays]
    BY DEF Good, Typed, Only, Notes, Fields, Queued
  <1> HIDE DEF r
  <1> QED
    BY <1>1, TouchDoes DEF r

(* event_deferred_cb_schedule_. *)
LEMMA DeferredServes ==
  ASSUME NEW b, Good(b), NEW e \in Deferred, NEW th
  PROVE  Served(b, event_deferred_cb_schedule_(b, th, e), e, th)
  <1> DEFINE x == IF b.flags[e] \cap {"ACTIVE", "ACTIVE_LATER"} = {} THEN 1 ELSE 0
             l == event_callback_activate_later_nolock_(b, th, e)
             m == event_callback_activate_nolock_(b, th, e)
             n == Queued(m, x)
             r == event_deferred_cb_schedule_(b, th, e)
  <1>1. r = l \/ r = n
    BY DEF event_deferred_cb_schedule_, Queued
  <1> HIDE DEF r, x
  <1>2. e \in Ev /\ "FINALIZING" \notin b.flags[e]
    BY EventsAre DEF Good, KindsOK
  <1>3. Raised(b, l, e, th)
    BY <1>2, ActivateLaterIs
  <1>4. Raised(b, m, e, th)
    BY <1>2, ActivateIs
  <1> HIDE DEF l, m
  <1>5. Does(m, n, {}) /\ SameLists(m, n)
    BY <1>4, QueuedIs DEF Raised, Does
  <1> HIDE DEF n
  <1>6. Raised(b, n, e, th)
    BY <1>4, <1>5, RaisedBefore
  <1>7. Raised(b, r, e, th)
    BY <1>1, <1>3, <1>6
  <1>8. Served(b, r, e, th)
    BY <1>2, <1>7, RaisedServes
  <1> QED
    BY <1>8 DEF r

(* The mark of a finalized event. *)
Finalized(b, e) == [b EXCEPT !.flags[e] = @ \cup {"FINALIZING"}]

(* The counts do not count it. *)
LEMMA SameCounts ==
  ASSUME NEW b, NEW r, SameOn(b, r, "INSERTED"), SameOn(b, r, "TIMEOUT"),
         SameOn(b, r, "ACTIVE"), SameOn(b, r, "ACTIVE_LATER")
  PROVE  Tally(r.flags) = Tally(b.flags) /\ ActiveTally(r.flags) = ActiveTally(b.flags)
  <1>1. ASSUME NEW f, SameOn(b, r, f), NEW S \in SUBSET Ev
        PROVE  CountOf(r.flags, S, f) = CountOf(b.flags, S, f)
    <2>1. {x \in S : f \in r.flags[x]} = {x \in S : f \in b.flags[x]}
      BY <1>1 DEF SameOn
    <2> QED
      BY <2>1 DEF CountOf
  <1>2. User \in SUBSET Ev /\ Ev \in SUBSET Ev
    BY EventsAre
  <1>3. /\ CountOf(r.flags, User, "INSERTED") = CountOf(b.flags, User, "INSERTED")
        /\ CountOf(r.flags, User, "TIMEOUT") = CountOf(b.flags, User, "TIMEOUT")
        /\ CountOf(r.flags, User, "ACTIVE") = CountOf(b.flags, User, "ACTIVE")
        /\ CountOf(r.flags, User, "ACTIVE_LATER") = CountOf(b.flags, User, "ACTIVE_LATER")
        /\ CountOf(r.flags, Ev, "ACTIVE") = CountOf(b.flags, Ev, "ACTIVE")
        /\ CountOf(r.flags, Ev, "ACTIVE_LATER") = CountOf(b.flags, Ev, "ACTIVE_LATER")
    BY <1>1, <1>2
  <1> QED
    BY <1>3 DEF Tally, ActiveTally

(* An event that is active and nothing else may get it. *)
LEMMA FinalizedIs ==
  ASSUME NEW b, Good(b), NEW e \in IoEvents \cup Timers, b.flags[e] \subseteq {"ACTIVE"}
  PROVE  LET r == Finalized(b, e)
         IN  Does(b, r, {e}) /\ Only(b, r, {"flags"})
  <1> DEFINE r == Finalized(b, e)
  <1>1. e \in Ev /\ e # CTL /\ e # NOTIFY
    BY EventsAre
  <1>2. Only(b, r, {"flags"}) /\ r.flags = [b.flags EXCEPT ![e] = @ \cup {"FINALIZING"}]
    BY DEF Good, Typed, Only, Fields, Finalized
  <1> HIDE DEF r
  <1>3. /\ r.tmo = b.tmo /\ r.common = b.common /\ r.io_timeout = b.io_timeout
        /\ r.timeheap = b.timeheap /\ r.ctl = b.ctl /\ r.io = b.io
        /\ r.activequeues = b.activequeues /\ r.later = b.later
        /\ r.event_count = b.event_count /\ r.event_count_active = b.event_count_active
        /\ r.running_loop = b.running_loop /\ r.event_break = b.event_break
        /\ r.is_notify_pending = b.is_notify_pending /\ r.th_notify = b.th_notify
        /\ r.tv_cache = b.tv_cache /\ r.clock = b.clock
    BY <1>2 DEF Only, Fields
  <1>4. /\ r.flags \in [Ev -> SUBSET Marks] /\ r.flags[e] = b.flags[e] \cup {"FINALIZING"}
        /\ \A x \in Ev : x # e => r.flags[x] = b.flags[x]
    BY <1>1, <1>2 DEF Good, Typed, Marks
  <1>5. SameOn(b, r, "INSERTED") /\ SameOn(b, r, "TIMEOUT") /\ SameOn(b, r, "ACTIVE")
        /\ SameOn(b, r, "ACTIVE_LATER")
    BY <1>4 DEF SameOn
  <1>6. Typed(r)
    BY <1>2, <1>3, <1>4 DEF Good, Typed, Only
  <1>7. HeapOK(r) /\ CtlOK(r)
    BY <1>3, <1>5, KeepTimes DEF Good
  <1>8. IoOK(r) /\ ActiveOK(r) /\ LaterOK(r)
    BY <1>3, <1>5, KeepIo, KeepActive, KeepLater DEF Good
  <1>9. CountsOK(r)
    BY <1>3, <1>5, SameCounts DEF Good, CountsOK
  <1>10. KindsOK(r)
    <2>1. KindsOK(b)
      BY DEF Good
    <2>2. r.flags[e] \subseteq {"FINALIZING", "ACTIVE"}
      BY <1>4
    <2>3. \A x \in Ev : \/ x = e
                       \/ r.flags[x] = b.flags[x]
      BY <1>4
    <2>4. NOTIFY \in Ev /\ r.common = b.common
      BY <1>3, EventsAre
    <2>5. /\ "INSERTED" \notin r.flags[e] /\ "ACTIVE_LATER" \notin r.flags[e]
          /\ r.flags[NOTIFY] = b.flags[NOTIFY]
      BY <1>1, <2>2, <2>3, <2>4
    <2> QED
      BY <2>1, <2>2, <2>3, <2>4, <2>5 DEF KindsOK
  <1>11. Good(r)
    BY <1>6, <1>7, <1>8, <1>9, <1>10 DEF Good
  <1>12. Only(b, r, WorkFields)
    BY <1>2, OnlyMore DEF WorkFields, ListFields
  <1>13. Does(b, r, {e})
    BY <1>3, <1>4, <1>11, <1>12 DEF Does, Noted, Spared
  <1> QED
    BY <1>2, <1>13 DEF r

(* event_finalize_nolock_. *)
LEMMA FinalizeServes ==
  ASSUME NEW b, Good(b), NEW e \in IoEvents \cup Timers, "FINALIZING" \notin b.flags[e], NEW th
  PROVE  Served(b, event_finalize_nolock_(b, th, e), e, th)
  <1> DEFINE d == event_del_nolock_(b, th, e)
             a == event_active_nolock_(d, th, e, {"FINALIZE"})
             n == Finalized(a, e)
             r == event_finalize_nolock_(b, th, e)
  <1>1. r = n
    BY DEF event_finalize_nolock_, Finalized
  <1> HIDE DEF r
  <1>2. e \in Ev \ {NOTIFY} /\ e \in Ev /\ e # CTL /\ CTL \in Ev
    BY EventsAre
  <1>3. Deleted(b, d, e, th)
    BY <1>2, DelIs
  <1> HIDE DEF d
  <1>4. Good(d) /\ Does(b, d, {e}) /\ d.flags[e] = {} /\ (Armed(b) => Armed(d))
    BY <1>2, <1>3 DEF Deleted, Does
  <1>5. Raised(d, a, e, th) /\ "ACTIVE" \in a.flags[e]
    BY <1>2, <1>4, ActiveIs
  <1> HIDE DEF a
  <1>6. /\ Good(a) /\ Does(d, a, {e}) /\ (Armed(d) => Armed(a)) /\ a.flags[e] = {"ACTIVE"}
        /\ (Loud(d, th) => a.th_notify > 0)
    <2>1. a.flags[e] \subseteq {"ACTIVE", "ACTIVE_LATER"} /\ Good(a) /\ Does(d, a, {e})
      BY <1>4, <1>5 DEF Raised, Does
    <2>2. a.flags[e] = {"ACTIVE"}
      BY <1>2, <1>5, <2>1 DEF Good, KindsOK
    <2>3. ~SameLists(d, a)
      BY <1>4, <1>5 DEF SameLists
    <2> QED
      BY <1>5, <2>1, <2>2, <2>3 DEF Raised
  <1>7. Does(a, n, {e}) /\ Only(a, n, {"flags"})
    BY <1>6, FinalizedIs
  <1> HIDE DEF n
  <1>8. Does(b, n, {e})
    <2>1. Does(b, a, {e})
      BY <1>4, <1>6, DoesTrans DEF Good
    <2> QED
      BY <2>1, <1>7, DoesTrans DEF Good
  <1>9. Does(b, n, {e, CTL})
    <2>1. Good(n) /\ Does(n, n, {CTL})
      BY <1>8, DoesRefl DEF Does
    <2> QED
      BY <2>1, <1>8, DoesTrans DEF Good
  <1>10. Armed(b) => Armed(n)
    <2>1. n.ctl = a.ctl /\ n.tmo = a.tmo
      BY <1>7 DEF Only, Fields
    <2>2. n.flags[CTL] = a.flags[CTL]
      BY <1>2, <1>7 DEF Does, Spared
    <2> QED
      BY <2>1, <2>2, <1>4, <1>6 DEF Armed
  <1>11. Loud(b, th) => n.th_notify > 0
    <2>1. Loud(b, th) => Loud(d, th)
      BY <1>4, StaysLoud DEF Does, Good
    <2>2. n.th_notify = a.th_notify
      BY <1>7 DEF Only, Fields
    <2> QED
      BY <1>6, <2>1, <2>2
  <1>12. Served(b, n, e, th)
    BY <1>9, <1>10, <1>11 DEF Served, Alert
  <1> QED
    BY <1>1, <1>12 DEF r

-----------------------------------------------------------------------------
(* The loops under the lock *)

(* What one turn of the loop w makes of x. *)
TurnOf(w, b, i, x) ==
    CASE w = "later" -> MakeActive(x)
      [] w = "io" -> event_active_nolock_(x, LoopThread, b.io[i], {"READ"})
      [] w = "heap" -> IF Due(x, x.timeheap, gettime(b)) THEN Expire(x, Head(x.timeheap)) ELSE x
      [] w = "ctl" -> IF Due(x, x.ctl, gettime(b)) THEN Expire(x, Head(x.ctl)) ELSE x
      [] w = "added" -> event_add_nolock_(x, LoopThread, Added[i][1], Added[i][2])

Loop(w, b, n, f) == f = [i \in 0 .. n |-> IF i = 0 THEN b ELSE TurnOf(w, b, i, f[i - 1])]

(* There are the bases of a loop. *)
LEMMA LoopsAre ==
  ASSUME NEW w, NEW b, NEW n \in Nat
  PROVE  \E f : Loop(w, b, n, f)
  <1> DEFINE Value(i, f) == IF i = 0 THEN b ELSE TurnOf(w, b, i, f[i - 1])
             Upto(k, f) == \A i \in 0 .. k : f[i] = Value(i, f)
             P == {k \in Nat : \E f : Upto(k, f)}
  <1>1. 0 \in P
    <2>1. Upto(0, [i \in {0} |-> b])
      OBVIOUS
    <2> QED
      BY <2>1
  <1>2. ASSUME NEW k \in Nat, k \in P PROVE k + 1 \in P
    <2>1. PICK f : Upto(k, f)
      BY <1>2
    <2> DEFINE v == TurnOf(w, b, k + 1, f[k])
               g == [i \in 0 .. k + 1 |-> IF i = k + 1 THEN v ELSE f[i]]
    <2>2. \A i \in 0 .. k : g[i] = f[i]
      OBVIOUS
    <2>3. g[k + 1] = v
      OBVIOUS
    <2>4. ASSUME NEW i \in 0 .. k + 1 PROVE g[i] = Value(i, g)
      <3>1. CASE i = k + 1
        <4>1. i - 1 = k /\ k \in 0 .. k /\ i # 0
          BY <3>1
        <4>2. g[i - 1] = f[k]
          BY <2>2, <4>1
        <4> HIDE DEF g
        <4> QED
          BY <2>3, <3>1, <4>1, <4>2
      <3>2. CASE i = 0
        <4>1. i \in 0 .. k
          BY <3>2
        <4> HIDE DEF g
        <4>2. f[i] = b
          BY <2>1, <3>2, <4>1
        <4> QED
          BY <2>2, <3>2, <4>1, <4>2
      <3>3. CASE i # 0 /\ i # k + 1
        <4>1. i \in 0 .. k /\ i - 1 \in 0 .. k
          BY <3>3
        <4> HIDE DEF g
        <4>2. g[i] = f[i] /\ g[i - 1] = f[i - 1]
          BY <2>2, <4>1
        <4>3. f[i] = Value(i, f)
          BY <2>1, <4>1
        <4> QED
          BY <3>3, <4>2, <4>3
      <3> QED
        BY <3>1, <3>2, <3>3
    <2> HIDE DEF g
    <2>5. Upto(k + 1, g)
      BY <2>4
    <2> HIDE DEF Upto
    <2> QED
      BY <2>5
  <1>3. n \in P
    <2> HIDE DEF P
    <2>1. \A k \in Nat : k \in P
      BY <1>1, <1>2, EveryNatural
    <2> QED
      BY <2>1
  <1>4. PICK f : Upto(n, f)
    BY <1>3
  <1> DEFINE g == [i \in 0 .. n |-> f[i]]
  <1>5. \A i \in 0 .. n : g[i] = f[i] /\ Value(i, g) = Value(i, f)
    <2>1. \A i \in 0 .. n : i # 0 => i - 1 \in 0 .. n
      OBVIOUS
    <2> QED
      BY <2>1
  <1>6. g = [i \in 0 .. n |-> Value(i, g)]
    <2> HIDE DEF Value
    <2>1. \A i \in 0 .. n : f[i] = Value(i, g)
      BY <1>4, <1>5
    <2> QED
      BY <2>1
  <1> QED
    BY <1>6 DEF Loop

(* What every turn keeps holds in the end: the turns that keep it are numbered in P. *)
LEMMA LoopKeeps ==
  ASSUME NEW n \in Nat, NEW P, 0 \in P, \A i \in 1 .. n : i - 1 \in P => i \in P
  PROVE  n \in P
  <1> DEFINE Q == {i \in Nat : i <= n => i \in P}
  <1>1. 0 \in Q
    OBVIOUS
  <1>2. ASSUME NEW i \in Nat, i \in Q PROVE i + 1 \in Q
    <2>1. SUFFICES ASSUME i + 1 <= n PROVE i + 1 \in P
      OBVIOUS
    <2>2. i + 1 \in 1 .. n /\ (i + 1) - 1 = i /\ i \in P
      BY <1>2, <2>1
    <2> QED
      BY <2>2
  <1> HIDE DEF Q
  <1>3. \A i \in Nat : i \in Q
    BY <1>1, <1>2, EveryNatural
  <1> QED
    BY <1>3 DEF Q

(* The turns of a loop, one by one. *)
LEMMA LoopTurns ==
  ASSUME NEW w, NEW b, NEW n \in Nat, NEW f, Loop(w, b, n, f)
  PROVE  f[0] = b /\ \A i \in 1 .. n : f[i] = TurnOf(w, b, i, f[i - 1])
  <1>1. \A i \in 0 .. n : f[i] = IF i = 0 THEN b ELSE TurnOf(w, b, i, f[i - 1])
    BY DEF Loop
  <1>2. 0 \in 0 .. n /\ \A i \in 1 .. n : i \in 0 .. n /\ i # 0
    OBVIOUS
  <1> QED
    BY <1>1, <1>2

(* The first of a list, taken off by name. *)
LEMMA HeadRemoved ==
  ASSUME NEW q, NEW T, ListOf(q, T), q # <<>>
  PROVE  RemoveFirst(q, Head(q)) = Tail(q)
  <1> DEFINE n == Len(q)
             r == RemoveFirst(q, Head(q))
             t == Tail(q)
  <1>1. q \in Seq(Ev) /\ IsInjective(q)
    BY DEF ListOf
  <1>2. /\ n \in Nat \ {0} /\ Head(q) = q[1] /\ Head(q) \in ToSet(q) /\ t \in Seq(Ev)
        /\ Len(t) = n - 1
    BY <1>1, TailKeeps
  <1>3. \A j \in 1 .. n - 1 : t[j] = q[j + 1]
    BY <1>1, HeadTailProperties
  <1>4. PICK i \in 1 .. n : q[i] = Head(q) /\ Skips(q, r, i, Ev)
    BY <1>1, <1>2, RemoveIs
  <1>5. i = 1
    <2>1. DOMAIN q = 1 .. n /\ 1 \in 1 .. n
      BY <1>1, <1>2, Places
    <2> QED
      BY <1>1, <1>2, <1>4, <2>1 DEF IsInjective
  <1>6. r \in Seq(Ev) /\ Len(r) = n - 1 /\ \A j \in 1 .. n - 1 : r[j] = q[j + 1]
    BY <1>4, <1>5 DEF Skips
  <1> HIDE DEF r, t
  <1>7. r = t
    BY <1>2, <1>3, <1>6, SeqEqual
  <1> QED
    BY <1>7 DEF r, t

(* A turn of a loop under the lock: what waits for nothing is left alone. *)
Stirs(b, r) ==
    /\ Does(b, r, Ev) /\ (Armed(b) => Armed(r))
    /\ \A x \in User : b.flags[x] \cap Pending = {} => r.flags[x] = b.flags[x]

(* Nothing done. *)
LEMMA StirsNot ==
  ASSUME NEW b, Good(b)
  PROVE  Stirs(b, b)
  BY DoesRefl DEF Stirs

(* Two turns. *)
LEMMA StirsTrans ==
  ASSUME NEW b, Good(b), NEW m, Stirs(b, m), NEW r, Stirs(m, r)
  PROVE  Stirs(b, r)
  <1>1. Does(b, r, Ev)
    BY DoesTrans DEF Stirs, Good
  <1> QED
    BY <1>1 DEF Stirs

(* An event that waited for something was made active. *)
LEMMA StirsRaised ==
  ASSUME NEW b, Good(b), NEW m, Stirs(b, m), NEW e \in Ev,
         e \in User => b.flags[e] \cap Pending # {}, NEW th, NEW r, Raised(m, r, e, th)
  PROVE  Stirs(b, r)
  <1>1. Does(b, r, Ev)
    BY DoesTrans DEF Stirs, Raised, Good
  <1>2. \A x \in User : b.flags[x] \cap Pending = {} => r.flags[x] = b.flags[x]
    <2>1. \A x \in Ev : x # e => r.flags[x] = m.flags[x]
      BY DEF Raised, Does, Spared
    <2>2. User \subseteq Ev
      BY EventsAre
    <2> QED
      BY <2>1, <2>2 DEF Stirs
  <1> QED
    BY <1>1, <1>2 DEF Stirs, Raised

(* The first callback that was put off is active. *)
LEMMA MakeActiveIs ==
  ASSUME NEW b, Good(b), b.later # <<>>
  PROVE  LET r == MakeActive(b)
         IN  Stirs(b, r) /\ Len(r.later) = Len(b.later) - 1 /\ Len(b.later) \in Nat
  <1> DEFINE e == Head(b.later)
             off == event_queue_remove_active_later(b, e)
             m == event_queue_insert_active(off, e)
             r == MakeActive(b)
  <1>1. ListOf(b.later, PutOff(b))
    BY DEF Good, LaterOK
  <1>2. /\ e \in PutOff(b) /\ e \in Ev /\ Len(Tail(b.later)) = Len(b.later) - 1
        /\ Len(b.later) \in Nat
    BY <1>1, ListTail
  <1>3. RemoveFirst(b.later, e) = Tail(b.later)
    BY <1>1, HeadRemoved
  <1>4. /\ r.flags = [b.flags EXCEPT ![e] = (@ \ {"ACTIVE_LATER"}) \cup {"ACTIVE"}]
        /\ r.later = Tail(b.later)
        /\ r.activequeues = [b.activequeues EXCEPT ![Pri[e]] = Append(@, e)]
        /\ Only(b, r, {"flags", "later", "activequeues", "n_deferreds_queued"})
    BY DEF Good, Typed, Only, Fields, MakeActive
  <1>5. /\ "ACTIVE_LATER" \in b.flags[e] /\ "ACTIVE" \notin b.flags[e]
        /\ "FINALIZING" \notin b.flags[e]
    BY <1>2 DEF PutOff, Good, KindsOK
  <1>6. /\ off.event_count = b.event_count - Counted(e)
        /\ off.event_count_active = b.event_count_active - 1
        /\ off.later = RemoveFirst(b.later, e) /\ off.activequeues = b.activequeues
    BY DEF Good, Typed, Fields, event_queue_remove_active_later
  <1> HIDE DEF e, r
  <1>7. Relisted(b, off, e) /\ off.flags[e] = b.flags[e] \ {"ACTIVE_LATER"}
        /\ Only(b, off, {"flags", "event_count", "event_count_active", "later"})
    BY <1>2, <1>5, RemoveLater
  <1> HIDE DEF off
  <1>8. Good(off) /\ ~Has(off, e, "ACTIVE")
    BY <1>5, <1>7 DEF Relisted, Has
  <1>9. /\ m.event_count = off.event_count + Counted(e)
        /\ m.event_count_active = off.event_count_active + 1
        /\ m.later = off.later
        /\ m.activequeues = [off.activequeues EXCEPT ![Pri[e]] = Append(@, e)]
    BY <1>8 DEF Good, Typed, Fields, event_queue_insert_active
  <1>10. /\ Relisted(off, m, e) /\ m.flags[e] = off.flags[e] \cup {"ACTIVE"}
         /\ Only(off, m, {"flags", "event_count", "event_count_active", "activequeues"})
    BY <1>2, <1>5, <1>7, <1>8, InsertActive
  <1> HIDE DEF m
  <1>11. Relisted(b, m, e) /\ Good(m)
    BY <1>7, <1>10, RelistedTrans DEF Relisted
  <1>12. m.flags = r.flags
    <2>1. m.flags \in [Ev -> SUBSET Marks] /\ b.flags \in [Ev -> SUBSET Marks]
      BY <1>11 DEF Good, Typed
    <2>2. m.flags[e] = (b.flags[e] \ {"ACTIVE_LATER"}) \cup {"ACTIVE"}
      BY <1>7, <1>10
    <2>3. \A x \in Ev : x # e => m.flags[x] = b.flags[x]
      BY <1>11 DEF Relisted
    <2>4. \A x \in Ev : m.flags[x] = r.flags[x]
      BY <1>4, <2>1, <2>2, <2>3
    <2>5. DOMAIN r.flags = Ev /\ r.flags = [x \in Ev |-> r.flags[x]]
      BY <1>4, <2>1
    <2> QED
      BY <2>1, <2>4, <2>5
  <1>13. m.event_count = b.event_count /\ m.event_count_active = b.event_count_active
    <2>1. b.event_count \in Int /\ b.event_count_active \in Int /\ Counted(e) \in Int
      BY DEF Good, Typed, Counted
    <2> QED
      BY <1>6, <1>9, <2>1
  <1>14. Only(m, r, {"n_deferreds_queued"})
    <2>1. /\ r.flags = m.flags /\ r.later = m.later /\ r.activequeues = m.activequeues
          /\ r.event_count = m.event_count /\ r.event_count_active = m.event_count_active
      BY <1>3, <1>4, <1>6, <1>9, <1>12, <1>13 DEF Only, Fields
    <2>2. \A f \in Fields \ {"flags", "event_count", "event_count_active", "later",
                             "activequeues", "n_deferreds_queued"} : m[f] = b[f] /\ r[f] = b[f]
      BY <1>4, <1>7, <1>10 DEF Only
    <2>3. DOMAIN r = Fields
      BY <1>4 DEF Only
    <2> QED
      BY <2>1, <2>2, <2>3 DEF Only
  <1>15. Does(m, r, {}) /\ SameLists(m, r)
    <2>1. Only(m, r, Notes)
      BY <1>14, OnlyMore DEF Notes
    <2>2. r.io_timeout = m.io_timeout
      BY <1>14 DEF Only, Fields
    <2>3. r.io_timeout \in [Ev -> Delays]
      BY <1>11, <2>2 DEF Good, Typed
    <2> QED
      BY <1>11, <2>1, <2>3, TouchDoes
  <1>16. Does(b, r, Ev) /\ Does(b, r, {e})
    <2>1. Does(b, m, {e})
      BY <1>11, RelistedDoes
    <2> QED
      BY <1>2, <1>15, <2>1, DoesTrans DEF Good
  <1>17. Armed(b) => Armed(r)
    <2>1. r.ctl = b.ctl /\ r.tmo = b.tmo
      BY <1>4 DEF Only, Fields
    <2>2. b.flags[CTL] \ {"ACTIVE_LATER"} \subseteq r.flags[CTL]
      BY <1>4, EventsAre DEF Good, Typed
    <2> QED
      BY <2>1, <2>2 DEF Armed
  <1>18. \A x \in User : b.flags[x] \cap Pending = {} => r.flags[x] = b.flags[x]
    <2>1. b.flags[e] \cap Pending # {}
      BY <1>5 DEF Pending
    <2> QED
      BY <1>16, <2>1, EventsAre DEF Does, Spared
  <1> QED
    BY <1>2, <1>4, <1>16, <1>17, <1>18 DEF Stirs, r

(* event_queue_make_later_events_active. *)
LEMMA LaterStirs ==
  ASSUME NEW b, Good(b)
  PROVE  LET r == event_queue_make_later_events_active(b)
         IN  Stirs(b, r) /\ (b.event_count_active = 0 => r = b)
  <1> DEFINE n == Len(b.later)
             Eq(f) == f = [i \in 0 .. n |-> IF i = 0 THEN b ELSE MakeActive(f[i - 1])]
             t == CHOOSE f : Eq(f)
             r == event_queue_make_later_events_active(b)
  <1>1. ListOf(b.later, PutOff(b)) /\ n \in Nat /\ (b.later = <<>> <=> PutOff(b) = {})
    BY ListEmpty DEF Good, LaterOK
  <1>2. r = t[n]
    BY DEF event_queue_make_later_events_active
  <1>3. \A f : Eq(f) <=> Loop("later", b, n, f)
    BY DEF Loop, TurnOf
  <1> HIDE DEF Eq, r
  <1>4. Loop("later", b, n, t)
    <2>1. \E f : Eq(f)
      BY <1>1, <1>3, LoopsAre
    <2> QED
      BY <1>3, <2>1
  <1> HIDE DEF t, n
  <1>5. t[0] = b /\ \A i \in 1 .. n : t[i] = MakeActive(t[i - 1])
    <2>1. t[0] = b /\ \A i \in 1 .. n : t[i] = TurnOf("later", b, i, t[i - 1])
      BY <1>1, <1>4, LoopTurns
    <2> QED
      BY <2>1 DEF TurnOf
  <1> DEFINE P == {i \in Nat : Stirs(b, t[i]) /\ Len(t[i].later) = n - i}
  <1>6. 0 \in P
    BY <1>1, <1>5, StirsNot DEF n
  <1>7. ASSUME NEW i \in 1 .. n, i - 1 \in P PROVE i \in P
    <2> DEFINE m == t[i - 1]
               k == MakeActive(m)
    <2>1. Stirs(b, m) /\ Len(m.later) = n - (i - 1) /\ t[i] = k /\ Good(m)
      BY <1>5, <1>7 DEF Stirs, Does
    <2> HIDE DEF m
    <2>2. m.later # <<>>
      BY <1>1, <2>1
    <2>3. Stirs(m, k) /\ Len(k.later) = Len(m.later) - 1 /\ Len(m.later) \in Nat
      BY <2>1, <2>2, MakeActiveIs
    <2> HIDE DEF k
    <2>4. Stirs(b, k)
      BY <2>1, <2>3, StirsTrans
    <2>5. Len(k.later) = n - i /\ i \in Nat
      BY <1>1, <2>1, <2>3
    <2> QED
      BY <2>1, <2>4, <2>5
  <1> HIDE DEF P
  <1>8. n \in P
    BY <1>1, <1>6, <1>7, LoopKeeps
  <1>9. Stirs(b, r)
    BY <1>2, <1>8 DEF P
  <1>10. ASSUME b.event_count_active = 0 PROVE r = b
    <2>1. CountsTell(b)
      BY CountsAre
    <2>2. PutOff(b) = {}
      BY <1>10, <2>1 DEF CountsTell, PutOff
    <2>3. n = 0
      BY <1>1, <2>2 DEF n
    <2> QED
      BY <1>2, <1>5, <2>3
  <1> QED
    BY <1>9, <1>10 DEF r

(* evmap_io_active_. *)
LEMMA IoStirs ==
  ASSUME NEW b, Good(b)
  PROVE  Stirs(b, evmap_io_active_(b))
  <1> DEFINE n == Len(b.io)
             Eq(f) == f = [i \in 0 .. n |->
                             IF i = 0 THEN b
                             ELSE event_active_nolock_(f[i - 1], LoopThread, b.io[i], {"READ"})]
             t == CHOOSE f : Eq(f)
             r == evmap_io_active_(b)
  <1>1. n \in Nat /\ \A i \in 1 .. n : b.io[i] \in OnIo(b)
    <2>1. b.io \in Seq(Ev) /\ ToSet(b.io) = OnIo(b)
      BY DEF Good, IoOK, ListOf
    <2> QED
      BY <2>1, Places
  <1>2. r = t[n]
    BY DEF evmap_io_active_
  <1>3. \A f : Eq(f) <=> Loop("io", b, n, f)
    BY DEF Loop, TurnOf
  <1> HIDE DEF Eq, r
  <1>4. Loop("io", b, n, t)
    <2>1. \E f : Eq(f)
      BY <1>1, <1>3, LoopsAre
    <2> QED
      BY <1>3, <2>1
  <1> HIDE DEF t, n
  <1>5. t[0] = b
        /\ \A i \in 1 .. n : t[i] = event_active_nolock_(t[i - 1], LoopThread, b.io[i], {"READ"})
    <2>1. t[0] = b /\ \A i \in 1 .. n : t[i] = TurnOf("io", b, i, t[i - 1])
      BY <1>1, <1>4, LoopTurns
    <2> QED
      BY <2>1 DEF TurnOf
  <1> DEFINE P == {i \in Nat : Stirs(b, t[i])}
  <1>6. 0 \in P
    BY <1>5, StirsNot
  <1>7. ASSUME NEW i \in 1 .. n, i - 1 \in P PROVE i \in P
    <2> DEFINE m == t[i - 1]
               e == b.io[i]
               k == event_active_nolock_(m, LoopThread, e, {"READ"})
    <2>1. Stirs(b, m) /\ t[i] = k /\ Good(m) /\ e \in OnIo(b)
      BY <1>1, <1>5, <1>7 DEF Stirs, Does
    <2> HIDE DEF m, e
    <2>2. e \in Ev /\ b.flags[e] \cap Pending # {}
      BY <2>1, EventsAre DEF OnIo, Pending
    <2>3. Raised(m, k, e, LoopThread)
      BY <2>1, <2>2, ActiveIs
    <2> HIDE DEF k
    <2>4. Stirs(b, k)
      BY <2>1, <2>2, <2>3, StirsRaised
    <2> QED
      BY <2>1, <2>4
  <1> HIDE DEF P
  <1>8. n \in P
    BY <1>1, <1>6, <1>7, LoopKeeps
  <1> QED
    BY <1>2, <1>8 DEF P, r

(* An event whose time has come. *)
LEMMA ExpireStirs ==
  ASSUME NEW b, Good(b), NEW m, Stirs(b, m), NEW e \in Ev, "TIMEOUT" \in m.flags[e]
  PROVE  Stirs(b, Expire(m, e))
  <1> DEFINE d == event_del_nolock_(m, LoopThread, e)
             r == event_active_nolock_(d, LoopThread, e, {"TIMEOUT"})
  <1>1. Expire(m, e) = r
    BY DEF Expire
  <1>2. Good(m) /\ "FINALIZING" \notin m.flags[e] /\ e # NOTIFY
    BY DEF Stirs, Does, Good, KindsOK
  <1>3. Deleted(m, d, e, LoopThread)
    BY <1>2, DelIs
  <1> HIDE DEF d
  <1>4. Good(d) /\ Does(m, d, {e}) /\ d.flags[e] = {} /\ (e # CTL => (Armed(m) => Armed(d)))
    BY <1>2, <1>3 DEF Deleted, Does
  <1>5. Raised(d, r, e, LoopThread) /\ "ACTIVE" \in r.flags[e]
    BY <1>4, ActiveIs
  <1> HIDE DEF r
  <1>6. Does(d, r, {e}) /\ (Armed(d) => Armed(r))
    BY <1>5 DEF Raised
  <1>7. Does(m, r, {e})
    BY <1>2, <1>4, <1>6, DoesTrans DEF Good
  <1>8. Does(b, r, Ev)
    BY <1>7, DoesTrans DEF Good, Stirs
  <1>9. Armed(b) => Armed(r)
    <2>1. e = CTL => Armed(r)
      BY <1>5 DEF Armed
    <2> QED
      BY <1>4, <1>6, <2>1 DEF Stirs
  <1>10. \A x \in User : b.flags[x] \cap Pending = {} => r.flags[x] = b.flags[x]
    <2>1. \A x \in Ev : x # e => r.flags[x] = m.flags[x]
      BY <1>7 DEF Does, Spared
    <2>2. m.flags[e] \cap Pending # {}
      BY DEF Pending
    <2> QED
      BY <2>1, <2>2, EventsAre DEF Stirs
  <1> QED
    BY <1>1, <1>8, <1>9, <1>10 DEF Stirs

(* timeout_process. *)
LEMMA TimeoutStirs ==
  ASSUME NEW b, Good(b)
  PROVE  Stirs(b, timeout_process(b))
  <1> DEFINE n == Len(b.timeheap)
             Eq(f) == f = [i \in 0 .. n |->
                             IF i = 0 THEN b
                             ELSE IF Due(f[i - 1], f[i - 1].timeheap, gettime(b))
                             THEN Expire(f[i - 1], Head(f[i - 1].timeheap)) ELSE f[i - 1]]
             t == CHOOSE f : Eq(f)
             r == timeout_process(b)
  <1>1. n \in Nat
    <2>1. b.timeheap \in Seq(Ev)
      BY DEF Good, HeapOK, HeapOf, IsList
    <2> QED
      BY <2>1, Places
  <1>2. r = t[n]
    BY DEF timeout_process
  <1>3. \A f : Eq(f) <=> Loop("heap", b, n, f)
    BY DEF Loop, TurnOf
  <1> HIDE DEF Eq, r
  <1>4. Loop("heap", b, n, t)
    <2>1. \E f : Eq(f)
      BY <1>1, <1>3, LoopsAre
    <2> QED
      BY <1>3, <2>1
  <1> HIDE DEF t, n
  <1>5. /\ t[0] = b
        /\ \A i \in 1 .. n : t[i] = IF Due(t[i - 1], t[i - 1].timeheap, gettime(b))
                                    THEN Expire(t[i - 1], Head(t[i - 1].timeheap)) ELSE t[i - 1]
    <2>1. t[0] = b /\ \A i \in 1 .. n : t[i] = TurnOf("heap", b, i, t[i - 1])
      BY <1>1, <1>4, LoopTurns
    <2> QED
      BY <2>1 DEF TurnOf
  <1> DEFINE P == {i \in Nat : Stirs(b, t[i])}
  <1>6. 0 \in P
    BY <1>5, StirsNot
  <1>7. ASSUME NEW i \in 1 .. n, i - 1 \in P PROVE i \in P
    <2> DEFINE m == t[i - 1]
               e == Head(m.timeheap)
    <2>1. /\ Stirs(b, m) /\ Good(m)
          /\ t[i] = IF Due(m, m.timeheap, gettime(b)) THEN Expire(m, e) ELSE m
      BY <1>5, <1>7 DEF Stirs, Does
    <2> HIDE DEF m
    <2>2. ASSUME Due(m, m.timeheap, gettime(b)) PROVE Stirs(b, Expire(m, e))
      <3>1. HeapHead(m)
        BY <2>1, HeapHeadIs
      <3>2. e \in Timed(m)
        BY <2>2, <3>1 DEF Due, HeapHead
      <3> HIDE DEF e
      <3>3. e \in Ev /\ "TIMEOUT" \in m.flags[e]
        BY <3>2 DEF Timed
      <3> QED
        BY <2>1, <3>3, ExpireStirs
    <2> QED
      BY <2>1, <2>2
  <1> HIDE DEF P
  <1>8. n \in P
    BY <1>1, <1>6, <1>7, LoopKeeps
  <1> QED
    BY <1>2, <1>8 DEF P, r

(* The common timeout list. *)
LEMMA CommonStirs ==
  ASSUME NEW b, Good(b)
  PROVE  Stirs(b, ExpireCommon(b))
  <1> DEFINE n == Len(b.ctl)
             Eq(f) == f = [i \in 0 .. n |->
                             IF i = 0 THEN b
                             ELSE IF Due(f[i - 1], f[i - 1].ctl, gettime(b))
                             THEN Expire(f[i - 1], Head(f[i - 1].ctl)) ELSE f[i - 1]]
             t == CHOOSE f : Eq(f)
             r == ExpireCommon(b)
  <1>1. n \in Nat
    <2>1. b.ctl \in Seq(Ev)
      BY DEF Good, CtlOK, ListOf
    <2> QED
      BY <2>1, Places
  <1>2. r = t[n]
    BY DEF ExpireCommon
  <1>3. \A f : Eq(f) <=> Loop("ctl", b, n, f)
    BY DEF Loop, TurnOf
  <1> HIDE DEF Eq, r
  <1>4. Loop("ctl", b, n, t)
    <2>1. \E f : Eq(f)
      BY <1>1, <1>3, LoopsAre
    <2> QED
      BY <1>3, <2>1
  <1> HIDE DEF t, n
  <1>5. /\ t[0] = b
        /\ \A i \in 1 .. n : t[i] = IF Due(t[i - 1], t[i - 1].ctl, gettime(b))
                                    THEN Expire(t[i - 1], Head(t[i - 1].ctl)) ELSE t[i - 1]
    <2>1. t[0] = b /\ \A i \in 1 .. n : t[i] = TurnOf("ctl", b, i, t[i - 1])
      BY <1>1, <1>4, LoopTurns
    <2> QED
      BY <2>1 DEF TurnOf
  <1> DEFINE P == {i \in Nat : Stirs(b, t[i])}
  <1>6. 0 \in P
    BY <1>5, StirsNot
  <1>7. ASSUME NEW i \in 1 .. n, i - 1 \in P PROVE i \in P
    <2> DEFINE m == t[i - 1]
               e == Head(m.ctl)
    <2>1. /\ Stirs(b, m) /\ Good(m)
          /\ t[i] = IF Due(m, m.ctl, gettime(b)) THEN Expire(m, e) ELSE m
      BY <1>5, <1>7 DEF Stirs, Does
    <2> HIDE DEF m
    <2>2. ASSUME Due(m, m.ctl, gettime(b)) PROVE Stirs(b, Expire(m, e))
      <3>1. CtlHead(m)
        BY <2>1, CtlHeadIs
      <3>2. e \in CommonTimed(m)
        BY <2>2, <3>1 DEF Due, CtlHead
      <3> HIDE DEF e
      <3>3. e \in Ev /\ "TIMEOUT" \in m.flags[e]
        BY <3>2 DEF CommonTimed
      <3> QED
        BY <2>1, <3>3, ExpireStirs
    <2> QED
      BY <2>1, <2>2
  <1> HIDE DEF P
  <1>8. n \in P
    BY <1>1, <1>6, <1>7, LoopKeeps
  <1> QED
    BY <1>2, <1>8 DEF P, r

(* common_timeout_callback: the list's timer is set again. *)
LEMMA CallbackArms ==
  ASSUME NEW b, Good(b)
  PROVE  LET r == common_timeout_callback(b) IN Stirs(b, r) /\ Armed(r)
  <1> DEFINE c == ExpireCommon(b)
             k == common_timeout_schedule(c, LoopThread)
             r == common_timeout_callback(b)
  <1>1. r = IF c.ctl = <<>> THEN c ELSE k
    BY DEF common_timeout_callback
  <1> HIDE DEF r
  <1>2. Stirs(b, c) /\ Good(c)
    BY CommonStirs DEF Stirs, Does
  <1> HIDE DEF c
  <1>3. CASE c.ctl = <<>>
    BY <1>1, <1>2, <1>3 DEF Armed, r
  <1>4. CASE c.ctl # <<>>
    <2>1. Does(c, k, {CTL}) /\ Armed(k)
      BY <1>2, <1>4, ScheduleIs
    <2> HIDE DEF k
    <2>2. Does(b, k, Ev)
      BY <1>2, <2>1, DoesTrans, EventsAre DEF Stirs, Good
    <2>3. \A x \in User : b.flags[x] \cap Pending = {} => k.flags[x] = b.flags[x]
      <3>1. \A x \in User : x \in Ev \ {CTL}
        BY EventsAre
      <3>2. \A x \in User : k.flags[x] = c.flags[x]
        BY <2>1, <3>1 DEF Does, Spared
      <3> QED
        BY <1>2, <3>2 DEF Stirs
    <2>4. Stirs(b, k)
      BY <2>1, <2>2, <2>3 DEF Stirs
    <2> QED
      BY <1>1, <1>4, <2>1, <2>4 DEF r
  <1> QED
    BY <1>3, <1>4

-----------------------------------------------------------------------------
(* Running a callback *)

(* event_persist_closure. *)
LEMMA PersistIs ==
  ASSUME NEW b, Good(b), NEW e \in Persist, "FINALIZING" \notin b.flags[e]
  PROVE  LET r == event_persist_closure(b, e)
         IN  Does(b, r, {e, CTL}) /\ (Armed(b) => Armed(r))
  <1> DEFINE now == gettime(b)
             delay == b.io_timeout[e].d
             from == IF "TIMEOUT" \in b.res[e] THEN b.tmo[e] ELSE now
             run_at == IF from + delay < now THEN now + delay ELSE from + delay
             c == b.common[e]
             k == AddTimer(b, LoopThread, e, run_at, c)
             r == event_persist_closure(b, e)
  <1>1. r = b \/ r = k
    BY DEF event_persist_closure
  <1>2. e \in User /\ e \in Ev
    BY EventsAre
  <1>3. run_at \in Nat /\ c \in BOOLEAN
    <2>1. /\ b.tv_cache \in Nat /\ b.clock \in Nat /\ b.tmo[e] \in Nat /\ c \in BOOLEAN
          /\ delay \in Nat
      BY <1>2 DEF Good, Typed, Delays
    <2>2. now \in Nat
      BY <2>1 DEF gettime
    <2> HIDE DEF now, delay, c
    <2>3. from \in Nat
      BY <2>1, <2>2
    <2> HIDE DEF from
    <2> QED
      BY <2>1, <2>2, <2>3
  <1> HIDE DEF run_at, r, c
  <1>4. TimerAdded(b, k, e, LoopThread)
    BY <1>2, <1>3, AddTimerIs
  <1> HIDE DEF k
  <1>5. Does(b, b, {e, CTL})
    BY DoesRefl
  <1> QED
    BY <1>1, <1>4, <1>5 DEF TimerAdded, r

(* What is left when the callback of e is about to run. *)
Started(b, r, e) ==
    /\ Does(b, r, {e, CTL}) /\ (e # CTL => (Armed(b) => Armed(r)))
    /\ "FINALIZING" \in b.flags[e] => r.flags[e] = {"FINALIZING"}

(* Off its queue and deleted or armed again. *)
LEMMA StartIs ==
  ASSUME NEW b, Good(b), NEW e \in Ev, "ACTIVE" \in b.flags[e]
  PROVE  \E r : /\ Started(b, r, e)
                /\ StartCallback(b, e) = [r EXCEPT !.current_event =
                                            IF "FINALIZING" \in b.flags[e] THEN NULL ELSE e]
  <1> DEFINE fz == Has(b, e, "FINALIZING")
             oneshot == ~(e \in Deferred \cup Persist \/ fz \/ e = NOTIFY)
             off == event_queue_remove_active(b, e)
             del == event_del_nolock_(b, LoopThread, e)
             taken == IF oneshot THEN del ELSE off
             again == event_persist_closure(taken, e)
             r == IF e \in Persist /\ ~fz THEN again ELSE taken
  <1>1. StartCallback(b, e) = [r EXCEPT !.current_event = IF fz THEN NULL ELSE e]
    BY DEF StartCallback
  <1>2. fz <=> "FINALIZING" \in b.flags[e]
    BY DEF Has
  <1>3. CTL \in Ev
    BY EventsAre
  <1>4. /\ Does(b, off, {e}) /\ off.flags[e] = b.flags[e] \ {"ACTIVE"}
        /\ off.ctl = b.ctl /\ off.tmo = b.tmo
    <2>1. /\ Relisted(b, off, e) /\ off.flags[e] = b.flags[e] \ {"ACTIVE"}
          /\ Only(b, off, {"flags", "event_count", "event_count_active", "activequeues"})
      BY RemoveActive
    <2> HIDE DEF off
    <2> QED
      BY <2>1, RelistedDoes DEF Only, Fields
  <1>5. e # CTL => (Armed(b) => Armed(off))
    <2>1. e # CTL => off.flags[CTL] = b.flags[CTL]
      BY <1>3, <1>4 DEF Does, Spared
    <2> QED
      BY <2>1, <1>4 DEF Armed
  <1> HIDE DEF off, fz
  <1>6. oneshot => Deleted(b, del, e, LoopThread)
    BY DelIs
  <1> HIDE DEF del
  <1>7. /\ Does(b, taken, {e}) /\ (e # CTL => (Armed(b) => Armed(taken)))
        /\ taken.flags[e] \subseteq b.flags[e]
        /\ ("FINALIZING" \in b.flags[e] => taken.flags[e] = b.flags[e] \ {"ACTIVE"})
    BY <1>2, <1>4, <1>5, <1>6 DEF Deleted
  <1> HIDE DEF taken, oneshot
  <1>8. Good(taken)
    BY <1>7 DEF Does
  <1>9. "FINALIZING" \in b.flags[e] => taken.flags[e] = {"FINALIZING"}
    BY <1>7 DEF Good, KindsOK
  <1>10. Started(b, taken, e)
    <2>1. Does(taken, taken, {CTL})
      BY <1>8, DoesRefl
    <2>2. Does(b, taken, {e, CTL})
      BY <1>7, <2>1, DoesTrans DEF Good
    <2> QED
      BY <2>2, <1>7, <1>9 DEF Started
  <1>11. e \in Persist /\ ~fz => Started(b, again, e)
    <2>1. SUFFICES ASSUME e \in Persist, ~fz PROVE Started(b, again, e)
      OBVIOUS
    <2>2. "FINALIZING" \notin taken.flags[e]
      BY <1>2, <1>7, <2>1
    <2>3. Does(taken, again, {e, CTL}) /\ (Armed(taken) => Armed(again))
      BY <1>8, <2>1, <2>2, PersistIs
    <2> HIDE DEF again
    <2>4. Does(b, again, {e, CTL})
      BY <1>7, <2>3, DoesTrans DEF Good
    <2> QED
      BY <1>2, <1>7, <2>1, <2>3, <2>4 DEF Started
  <1>12. Started(b, r, e)
    BY <1>10, <1>11
  <1> HIDE DEF r
  <1> QED
    BY <1>1, <1>2, <1>12

-----------------------------------------------------------------------------
(* The base before the loop *)

(* Nobody waits yet. *)
Fresh(b) ==
    /\ Good(b) /\ Armed(b) /\ ~b.running_loop /\ Woken(b)

(* A base that holds nothing but the event of its own notifications. *)
LEMMA EmptyIs ==
  Fresh(EmptyBase)
  <1> DEFINE b == EmptyBase
  <1>1. /\ DOMAIN b = Fields
        /\ b.flags = [e \in Ev |-> IF e = NOTIFY THEN {"INSERTED"} ELSE {}]
        /\ b.tmo = [e \in Ev |-> 0] /\ b.common = [e \in Ev |-> FALSE]
        /\ b.io_timeout = [e \in Ev |-> NoTv]
        /\ b.timeheap = <<>> /\ b.ctl = <<>> /\ b.io = <<>> /\ b.later = <<>>
        /\ b.activequeues = [p \in Priorities |-> <<>>]
        /\ b.event_count = 0 /\ b.event_count_active = 0
        /\ b.running_loop = FALSE /\ b.event_break = FALSE
        /\ b.is_notify_pending = FALSE /\ b.th_notify = 0
        /\ b.tv_cache = 0 /\ b.clock = 1
    BY DEF EmptyBase, Fields
  <1> HIDE DEF b
  <1>2. \A e \in Ev : /\ e # NOTIFY => b.flags[e] = {}
                      /\ e = NOTIFY => b.flags[e] = {"INSERTED"}
    BY <1>1
  <1>3. Typed(b)
    <2>1. b.flags \in [Ev -> SUBSET Marks]
      BY <1>1 DEF Marks, Pending
    <2>2. b.tmo \in [Ev -> Nat] /\ b.common \in [Ev -> BOOLEAN]
      BY <1>1
    <2>3. b.io_timeout \in [Ev -> Delays]
      BY <1>1 DEF Delays, NoTv
    <2>4. b.activequeues \in [Priorities -> Seq(Ev)]
      BY <1>1
    <2>5. /\ b.running_loop \in BOOLEAN /\ b.event_break \in BOOLEAN
          /\ b.is_notify_pending \in BOOLEAN
      BY <1>1
    <2>6. /\ b.event_count \in Int /\ b.event_count_active \in Int /\ b.th_notify \in Nat
          /\ b.tv_cache \in Nat /\ b.clock \in Nat
      BY <1>1
    <2>7. DOMAIN b = Fields
      BY <1>1
    <2> QED
      BY <2>1, <2>2, <2>3, <2>4, <2>5, <2>6, <2>7 DEF Typed
  <1>4. /\ Timed(b) = {} /\ CommonTimed(b) = {} /\ OnIo(b) = {} /\ PutOff(b) = {}
        /\ \A p \in Priorities : ActiveIn(b, p) = {}
    <2>1. \A e \in IoEvents : e \in Ev /\ e # NOTIFY
      BY EventsAre
    <2>2. OnIo(b) = {}
      BY <1>2, <2>1 DEF OnIo
    <2>3. \A e \in Ev : "TIMEOUT" \notin b.flags[e] /\ "ACTIVE" \notin b.flags[e]
                        /\ "ACTIVE_LATER" \notin b.flags[e]
      BY <1>2
    <2> QED
      BY <2>2, <2>3 DEF Timed, CommonTimed, PutOff, ActiveIn
  <1>5. ListOf(<<>>, {}) /\ Sorted(<<>>, b.tmo)
    BY DEF ListOf, ToSet, IsInjective, Sorted
  <1>6. HeapOK(b)
    <2>1. IsList(<<>>, Ev, 0, {})
      BY DEF IsList, ToSet, IsInjective
    <2>2. IsHeap(<<>>, b.tmo)
      BY DEF IsHeap
    <2> QED
      BY <1>1, <1>4, <2>1, <2>2 DEF HeapOK, HeapOf
  <1>7. CtlOK(b) /\ IoOK(b) /\ LaterOK(b) /\ ActiveOK(b)
    BY <1>1, <1>4, <1>5 DEF CtlOK, IoOK, LaterOK, ActiveOK
  <1>8. CountsOK(b)
    <2>1. \A f, S : (\A x \in S : f \notin b.flags[x]) => CountOf(b.flags, S, f) = 0
      <3>1. ASSUME NEW f, NEW S, \A x \in S : f \notin b.flags[x]
            PROVE  CountOf(b.flags, S, f) = 0
        <4>1. {x \in S : f \in b.flags[x]} = {}
          BY <3>1
        <4> QED
          BY <4>1, FS_EmptySet DEF CountOf
      <3> QED
        BY <3>1
    <2>2. \A x \in User : b.flags[x] = {}
      BY <1>2, EventsAre
    <2>3. \A x \in Ev : "ACTIVE" \notin b.flags[x] /\ "ACTIVE_LATER" \notin b.flags[x]
      BY <1>2
    <2>4. /\ CountOf(b.flags, User, "INSERTED") = 0 /\ CountOf(b.flags, User, "TIMEOUT") = 0
          /\ CountOf(b.flags, User, "ACTIVE") = 0 /\ CountOf(b.flags, User, "ACTIVE_LATER") = 0
      BY <2>1, <2>2
    <2>5. CountOf(b.flags, Ev, "ACTIVE") = 0 /\ CountOf(b.flags, Ev, "ACTIVE_LATER") = 0
      BY <2>1, <2>3
    <2>6. Tally(b.flags) = 0 /\ ActiveTally(b.flags) = 0
      BY <2>4, <2>5 DEF Tally, ActiveTally
    <2> QED
      BY <1>1, <2>6 DEF CountsOK
  <1>9. KindsOK(b)
    <2>1. NOTIFY \in Ev /\ CTL \in Ev
      BY EventsAre
    <2> QED
      BY <1>1, <1>2, <2>1 DEF KindsOK
  <1>10. Good(b)
    BY <1>3, <1>6, <1>7, <1>8, <1>9 DEF Good
  <1> QED
    BY <1>1, <1>10 DEF Fresh, Armed, Woken, b

(* So is the base with the events that were added to it. *)
LEMMA PreparedIs ==
  Fresh(Prepared[Len(Added)])
  <1> DEFINE n == Len(Added)
             Eq(f) == f = [i \in 0 .. n |->
                             IF i = 0 THEN EmptyBase
                             ELSE event_add_nolock_(f[i - 1], LoopThread, Added[i][1],
                                                    Added[i][2])]
             t == CHOOSE f : Eq(f)
  <1>1. n \in Nat /\ \A i \in 1 .. n : Added[i][1] \in User /\ Added[i][2] \in Delays
    <2>1. /\ Added \in Seq((IoEvents \cup Timers) \X Tvs)
          /\ Tvs \subseteq Delays /\ IoEvents \cup Timers \subseteq User
      BY EventAssumption, EventsAre DEF Delays
    <2>2. n \in Nat /\ \A i \in 1 .. n : Added[i] \in (IoEvents \cup Timers) \X Tvs
      BY <2>1, Places
    <2> QED
      BY <2>1, <2>2
  <1>2. Prepared = t
    BY DEF Prepared
  <1>3. \A f : Eq(f) <=> Loop("added", EmptyBase, n, f)
    BY DEF Loop, TurnOf
  <1> HIDE DEF Eq
  <1>4. Loop("added", EmptyBase, n, t)
    <2>1. \E f : Eq(f)
      BY <1>1, <1>3, LoopsAre
    <2> QED
      BY <1>3, <2>1
  <1> HIDE DEF t, n
  <1>5. t[0] = EmptyBase
        /\ \A i \in 1 .. n :
              t[i] = event_add_nolock_(t[i - 1], LoopThread, Added[i][1], Added[i][2])
    <2>1. /\ t[0] = EmptyBase
          /\ \A i \in 1 .. n : t[i] = TurnOf("added", EmptyBase, i, t[i - 1])
      BY <1>1, <1>4, LoopTurns
    <2> QED
      BY <2>1 DEF TurnOf
  <1> DEFINE P == {i \in Nat : Fresh(t[i])}
  <1>6. 0 \in P
    BY <1>5, EmptyIs
  <1>7. ASSUME NEW i \in 1 .. n, i - 1 \in P PROVE i \in P
    <2> DEFINE m == t[i - 1]
               e == Added[i][1]
               tv == Added[i][2]
               k == event_add_nolock_(m, LoopThread, e, tv)
    <2>1. Fresh(m) /\ t[i] = k /\ e \in User /\ tv \in Delays
      BY <1>1, <1>5, <1>7
    <2> HIDE DEF m, e, tv
    <2>2. Good(m)
      BY <2>1 DEF Fresh
    <2>3. Served(m, k, e, LoopThread)
      BY <2>1, <2>2, AddServes
    <2> HIDE DEF k
    <2>4. Good(k) /\ Armed(k) /\ Only(m, k, WorkFields) /\ Noted(m, k)
      BY <2>1, <2>3 DEF Served, Does, Fresh
    <2>5. k.running_loop = m.running_loop
      BY <2>4, WorkKeeps
    <2>6. Woken(k)
      BY <2>1, <2>2, <2>4, StaysLoud DEF Good, Fresh
    <2> QED
      BY <2>1, <2>4, <2>5, <2>6 DEF Fresh
  <1> HIDE DEF P
  <1>8. n \in P
    BY <1>1, <1>6, <1>7, LoopKeeps
  <1> QED
    BY <1>2, <1>8 DEF P, n

-----------------------------------------------------------------------------
(* What a step may do to the base *)

(* There is a least priority, and one above every priority but the greatest. *)
LEMMA PrioritiesAre ==
  /\ Min(Priorities) \in Priorities
  /\ \A p \in Priorities :
        p # Max(Priorities) => Min({q \in Priorities : q > p}) \in Priorities
  <1>1. Priorities \in SUBSET Nat /\ Priorities # {}
    BY EventsAre DEF Priorities
  <1>2. ASSUME NEW S \in SUBSET Nat, S # {} PROVE Min(S) \in S
    <2>1. \E m \in S : \A n \in S : m <= n
      BY <1>2, LeastNatural
    <2> QED
      BY <2>1 DEF Min
  <1>3. ASSUME NEW p \in Priorities, p # Max(Priorities)
        PROVE  {q \in Priorities : q > p} # {}
    <2> SUFFICES ASSUME \A q \in Priorities : ~(q > p) PROVE FALSE
      OBVIOUS
    <2>1. \A q \in Priorities : p >= q
      BY <1>1
    <2> DEFINE m == Max(Priorities)
    <2>2. m \in Priorities /\ \A q \in Priorities : m >= q
      BY <2>1 DEF Max
    <2>3. m # p
      BY <1>3
    <2> HIDE DEF m
    <2>4. m >= p /\ p >= m /\ m \in Nat /\ p \in Nat
      BY <1>1, <2>1, <2>2
    <2> QED
      BY <2>3, <2>4
  <1>4. ASSUME NEW p \in Priorities, p # Max(Priorities)
        PROVE  Min({q \in Priorities : q > p}) \in Priorities
    <2> DEFINE S == {q \in Priorities : q > p}
    <2>1. S \in SUBSET Nat /\ S \subseteq Priorities /\ S # {}
      BY <1>1, <1>3, <1>4
    <2> HIDE DEF S
    <2>2. Min(S) \in S
      BY <1>2, <2>1
    <2>3. Min(S) \in Priorities
      BY <2>1, <2>2
    <2> QED
      BY <2>3 DEF S
  <1> QED
    BY <1>1, <1>2, <1>4

(* Those that event_del waits for and the program finalizes. *)
Watched == User \ {EXIT}

(* What waits for nothing is left alone, unless it is in A; what is final is left alone. *)
Stays(b, r, A) ==
    /\ \A x \in Watched \ A : b.flags[x] \cap Pending = {} => r.flags[x] \cap Pending = {}
    /\ \A x \in IoEvents \cup Timers :
          b.flags[x] = {"FINALIZING"} => r.flags[x] = {"FINALIZING"}

(* A turn of the loop under the lock leaves them alone. *)
LEMMA StirsStays ==
  ASSUME NEW b, NEW r, Stirs(b, r)
  PROVE  Stays(b, r, {})
  <1>1. Watched \subseteq User /\ IoEvents \cup Timers \subseteq User
    BY EventsAre DEF Watched
  <1>2. \A x \in User : b.flags[x] \cap Pending = {} => r.flags[x] = b.flags[x]
    BY DEF Stirs
  <1>3. {"FINALIZING"} \cap Pending = {}
    BY DEF Pending
  <1> QED
    BY <1>1, <1>2, <1>3 DEF Stays

(* A change beside the lists. *)
LEMMA AsideIs ==
  ASSUME NEW b, Good(b), NEW r, Only(b, r, Aside), r.io_timeout \in [Ev -> Delays],
         r.running_loop \in BOOLEAN, r.event_break \in BOOLEAN,
         r.is_notify_pending \in BOOLEAN, r.th_notify \in Nat, r.tv_cache \in Nat,
         r.clock \in Nat
  PROVE  Good(r) /\ SameLists(b, r) /\ (Armed(b) => Armed(r)) /\ Stays(b, r, {})
  <1>1. SameLists(b, r)
    BY DEF Only, Aside, Fields, SameLists
  <1>2. Good(r)
    BY Touch
  <1>3. r.flags = b.flags /\ r.tmo = b.tmo /\ r.ctl = b.ctl
    BY <1>1 DEF SameLists
  <1> QED
    BY <1>1, <1>2, <1>3 DEF Armed, Stays

(* A call of the API by thread th that arms the events of A. *)
Calls(b, r, A, th) ==
    /\ Good(r) /\ (Armed(b) => Armed(r)) /\ Stays(b, r, A)
    /\ r.running_loop = b.running_loop /\ r.current_event = b.current_event
    /\ r.clock = b.clock
    /\ Woken(b) => Woken(r)
    /\ b.th_notify > 0 => r.th_notify > 0
    /\ Loud(b, th) => r.th_notify > 0 \/ (Calm(b, r) /\ r.event_break = b.event_break)

(* A call on e is one, which may arm e. *)
LEMMA ServedCalls ==
  ASSUME NEW b, Good(b), NEW e \in User, NEW r, NEW th, Served(b, r, e, th), NEW A,
         e \in A \/ e = EXIT \/ r.flags[e] \subseteq b.flags[e]
  PROVE  Calls(b, r, A, th)
  <1>1. /\ Does(b, r, {e, CTL}) /\ (Armed(b) => Armed(r)) /\ Alert(b, r, th)
        /\ ("FINALIZING" \in b.flags[e] => r.flags[e] = b.flags[e])
    BY DEF Served
  <1>2. Good(r) /\ Only(b, r, WorkFields) /\ Noted(b, r)
    BY <1>1 DEF Does
  <1>3. \A x \in User : x = e \/ r.flags[x] = b.flags[x]
    <2>1. \A x \in User : x \in Ev /\ x # CTL
      BY EventsAre
    <2> QED
      BY <1>1, <2>1 DEF Does, Spared
  <1>4. Stays(b, r, A)
    <2>1. Watched \subseteq User /\ EXIT \notin Watched /\ IoEvents \cup Timers \subseteq User
      BY EventsAre DEF Watched
    <2>2. ASSUME NEW x \in Watched \ A, b.flags[x] \cap Pending = {}
          PROVE  r.flags[x] \cap Pending = {}
      <3>1. CASE x = e
        <4>1. r.flags[e] \subseteq b.flags[e]
          BY <2>1, <2>2, <3>1
        <4> QED
          BY <2>2, <3>1, <4>1
      <3>2. CASE x # e
        BY <1>3, <2>1, <2>2, <3>2
      <3> QED
        BY <3>1, <3>2
    <2>3. ASSUME NEW x \in IoEvents \cup Timers, b.flags[x] = {"FINALIZING"}
          PROVE  r.flags[x] = {"FINALIZING"}
      BY <1>1, <1>3, <2>1, <2>3
    <2> QED
      BY <2>2, <2>3 DEF Stays
  <1>5. /\ r.running_loop = b.running_loop /\ r.current_event = b.current_event
        /\ r.clock = b.clock /\ r.event_break = b.event_break
    BY <1>2, WorkKeeps
  <1>6. (Woken(b) => Woken(r)) /\ (b.th_notify > 0 => r.th_notify > 0)
    <2>1. Typed(b)
      BY DEF Good
    <2> QED
      BY <1>2, <2>1, StaysLoud
  <1>7. Loud(b, th) => r.th_notify > 0 \/ Calm(b, r)
    BY <1>1 DEF Alert
  <1> QED
    BY <1>1, <1>2, <1>4, <1>5, <1>6, <1>7 DEF Calls

(* event_del_nolock_ is one, which arms nothing. *)
LEMMA DelCalls ==
  ASSUME NEW b, Good(b), NEW e \in User, NEW th, NEW A
  PROVE  Calls(b, event_del_nolock_(b, th, e), A, th)
  <1> DEFINE r == event_del_nolock_(b, th, e)
  <1>1. e \in Ev \ {NOTIFY} /\ e # CTL
    BY EventsAre
  <1>2. Deleted(b, r, e, th)
    BY <1>1, DelIs
  <1> HIDE DEF r
  <1>3. Does(b, r, {e})
    BY <1>2 DEF Deleted
  <1>4. Does(b, r, {e, CTL})
    BY <1>3 DEF Does
  <1>5. Served(b, r, e, th) /\ r.flags[e] \subseteq b.flags[e]
    BY <1>1, <1>2, <1>4 DEF Deleted, Served
  <1>6. Calls(b, r, A, th)
    BY <1>5, ServedCalls
  <1> QED
    BY <1>6 DEF r

(* What another thread asks of the loop. *)
Asked(b, r) == Only(b, r, {"event_break", "event_continue"}) /\ r.event_break \in BOOLEAN

(* event_base_loopbreak and event_base_loopcontinue wake it. *)
LEMMA AskedCalls ==
  ASSUME NEW b, Good(b), NEW m, Asked(b, m), NEW th, NEW A
  PROVE  Calls(b, NotifyIf(TRUE, m, th), A, th)
  <1> DEFINE r == NotifyIf(TRUE, m, th)
  <1>1. /\ m.io_timeout = b.io_timeout /\ m.running_loop = b.running_loop
        /\ m.is_notify_pending = b.is_notify_pending /\ m.th_notify = b.th_notify
        /\ m.tv_cache = b.tv_cache /\ m.clock = b.clock /\ m.current_event = b.current_event
    BY DEF Asked, Only, Fields
  <1>2. Good(m) /\ (Armed(b) => Armed(m)) /\ SameLists(b, m)
    <2>1. Only(b, m, Aside)
      BY OnlyMore DEF Asked, Aside
    <2>2. /\ m.io_timeout \in [Ev -> Delays] /\ m.running_loop \in BOOLEAN
          /\ m.event_break \in BOOLEAN /\ m.is_notify_pending \in BOOLEAN
          /\ m.th_notify \in Nat /\ m.tv_cache \in Nat /\ m.clock \in Nat
      BY <1>1 DEF Good, Typed, Asked
    <2> QED
      BY <2>1, <2>2, AsideIs
  <1>3. /\ Does(m, r, {}) /\ Only(m, r, {"is_notify_pending", "th_notify"})
        /\ (m.running_loop /\ th # LoopThread /\ Woken(m) => r.th_notify > 0)
    BY <1>2, NotifyIs
  <1> HIDE DEF r
  <1>4. Good(r) /\ Only(m, r, WorkFields) /\ Noted(m, r)
    BY <1>3 DEF Does
  <1>5. r.flags = m.flags /\ r.tmo = m.tmo /\ r.ctl = m.ctl
    BY <1>3 DEF Only, Fields
  <1>6. r.flags = b.flags /\ r.tmo = b.tmo /\ r.ctl = b.ctl
    BY <1>2, <1>5 DEF SameLists
  <1>7. (Armed(b) => Armed(r)) /\ Stays(b, r, A)
    BY <1>6 DEF Armed, Stays
  <1>8. /\ r.running_loop = b.running_loop /\ r.current_event = b.current_event
        /\ r.clock = b.clock
    BY <1>1, <1>4, WorkKeeps
  <1>9. (Woken(b) => Woken(r)) /\ (b.th_notify > 0 => r.th_notify > 0)
    <2>1. Typed(m)
      BY <1>2 DEF Good
    <2>2. (Woken(m) => Woken(r)) /\ (m.th_notify > 0 => r.th_notify > 0)
      BY <1>4, <2>1, StaysLoud
    <2> QED
      BY <1>1, <2>2 DEF Woken
  <1>10. Loud(b, th) => r.th_notify > 0
    BY <1>1, <1>3 DEF Loud, Woken
  <1>11. Calls(b, r, A, th)
    BY <1>4, <1>7, <1>8, <1>9, <1>10 DEF Calls
  <1> QED
    BY <1>11 DEF r

(* A base that has armed its common timeout and nothing active waits for the heap alone. *)
LEMMA NoTimers ==
  ASSUME NEW b, Good(b), Armed(b), b.event_count_active = 0, b.timeheap = <<>>
  PROVE  \A x \in Ev : "TIMEOUT" \notin b.flags[x]
  <1>1. Timed(b) = {}
    BY HeapHeadIs DEF HeapHead
  <1>2. CTL \in Ev /\ ~b.common[CTL]
    BY EventsAre DEF Good, KindsOK
  <1>3. "TIMEOUT" \notin b.flags[CTL] /\ "ACTIVE" \notin b.flags[CTL]
    <2>1. CountsTell(b)
      BY CountsAre
    <2> QED
      BY <1>1, <1>2, <2>1 DEF Timed, CountsTell
  <1>4. b.ctl = <<>>
    BY <1>3 DEF Armed
  <1>5. CommonTimed(b) = {}
    BY <1>4, CtlHeadIs DEF CtlHead
  <1> QED
    BY <1>1, <1>5 DEF Timed, CommonTimed

-----------------------------------------------------------------------------
(* The inductive invariant *)

LoopPlaces == {"idle", "top", "poll", "leave", "scan", "enter", "drained", "callback"}

(* The base is sound at every step of the loop; its notification is pending only while the *)
(* eventfd holds it, but for the moment between the read and the lock; its common timeout  *)
(* is armed, but for the moment before the list's timer has run.                           *)
LoopInv ==
    /\ Good(base) /\ pc \in LoopPlaces
    /\ base.running_loop <=> pc # "idle"
    /\ Woken(base) \/ pc = "drained"
    /\ pc \in {"scan", "enter", "drained", "callback"} => pri \in Priorities
    /\ wait \in Nat \cup {Forever} /\ lag \in Int
    /\ Armed(base) \/ (running = CTL /\ pc = "enter" /\ ~fin)

(* A loop that may sleep w longer has nothing to do before. *)
Dozes(b, w, l, f) ==
    /\ b.event_count_active = 0 /\ ~b.event_break
    /\ b.timeheap # <<>> => w # Forever /\ b.clock + w <= b.tmo[Head(b.timeheap)] + l
    /\ event_haveevents(b) \/ w # Forever \/ "NO_EXIT_ON_EMPTY" \in f

(* The loop sleeps. *)
SleepInv ==
    pc = "poll" /\ base.th_notify = 0 /\ wait # 0 => Dozes(base, wait, lag, flags)

(* Events that were deleted wait for nothing. *)
QuietInv ==
    /\ quiet \subseteq Watched
    /\ \A e \in quiet : base.flags[e] \cap Pending = {} /\ base.current_event # e

(* Nor do those that a thread is deleting, unless they were armed again. *)
ThreadsInv ==
    /\ thr \in [Threads -> Watched \cup {NULL}]
    /\ woken \subseteq {t \in Threads : thr[t] # NULL}
    /\ \A t \in Threads :
          thr[t] # NULL /\ t \notin rearmed =>
              /\ base.flags[thr[t]] \cap Pending = {}
              /\ t \in woken => base.current_event # thr[t]

(* Finalized events have their finalizer to run, then nothing. *)
FinInv ==
    /\ fin \in BOOLEAN /\ freed \subseteq IoEvents \cup Timers
    /\ fin => /\ pc \in {"enter", "callback"} /\ running \in IoEvents \cup Timers
              /\ base.flags[running] = {"FINALIZING"} /\ base.current_event = NULL
    /\ \A e \in freed : /\ base.flags[e] = {"FINALIZING"} /\ base.current_event # e
                        /\ running = e => fin

Inv == LoopInv /\ SleepInv /\ QuietInv /\ ThreadsInv /\ FinInv

(* A change that leaves the loop calm leaves it asleep. *)
LEMMA DozesOn ==
  ASSUME NEW b, Good(b), NEW r, Good(r), Armed(b), Calm(b, r), r.event_break = b.event_break,
         r.clock = b.clock, NEW w \in Nat \cup {Forever}, NEW l \in Int, NEW f,
         Dozes(b, w, l, f)
  PROVE  Dozes(r, w, l, f)
  <1>1. b.event_count_active = 0
    BY DEF Dozes
  <1>2. /\ r.event_count_active = 0 /\ HeapLater(b, r)
        /\ (\A x \in Ev : "TIMEOUT" \notin b.flags[x]) /\ event_haveevents(b)
               => event_haveevents(r)
    BY <1>1 DEF Calm
  <1>3. ASSUME r.timeheap # <<>>
        PROVE  w # Forever /\ r.clock + w <= r.tmo[Head(r.timeheap)] + l
    <2> DEFINE x == b.tmo[Head(b.timeheap)]
               y == r.tmo[Head(r.timeheap)]
               c == b.clock
    <2>1. b.timeheap # <<>> /\ x <= y
      BY <1>2, <1>3 DEF HeapLater
    <2>2. w # Forever /\ c + w <= x + l /\ r.clock = c
      BY <2>1 DEF Dozes
    <2>3. x \in Nat /\ y \in Nat
      BY <1>3, <2>1, HeadsAre
    <2>4. c \in Nat
      BY DEF Good, Typed
    <2> HIDE DEF x, y, c
    <2>5. c + w <= y + l
      BY <2>1, <2>2, <2>3, <2>4 DEF Forever
    <2> QED
      BY <2>2, <2>5 DEF y
  <1>4. event_haveevents(r) \/ w # Forever \/ "NO_EXIT_ON_EMPTY" \in f
    <2> SUFFICES ASSUME w = Forever, "NO_EXIT_ON_EMPTY" \notin f PROVE event_haveevents(r)
      OBVIOUS
    <2>1. b.timeheap = <<>> /\ event_haveevents(b)
      BY DEF Dozes
    <2> QED
      BY <1>1, <1>2, <2>1, NoTimers
  <1> QED
    BY <1>2, <1>3, <1>4 DEF Dozes

(* What keeps the events deleted quiet. *)
LEMMA KeepsQuiet ==
  ASSUME QuietInv, NEW A, Stays(base, base', A), quiet' \subseteq quiet \ A,
         base'.current_event \in {base.current_event, NULL}
  PROVE  QuietInv'
  <1>1. NULL \notin Watched
    BY EventsAre DEF Watched
  <1>2. \A e \in quiet' : e \in Watched \ A /\ e \in quiet
    BY DEF QuietInv
  <1>3. \A e \in quiet' : base'.flags[e] \cap Pending = {} /\ base'.current_event # e
    BY <1>1, <1>2 DEF QuietInv, Stays
  <1> QED
    BY <1>2, <1>3 DEF QuietInv

(* And those that threads wait for. *)
LEMMA KeepsThreads ==
  ASSUME ThreadsInv, NEW A, Stays(base, base', A), UNCHANGED <<thr, woken>>,
         rearmed' = rearmed \cup {t \in Threads : thr[t] \in A},
         base'.current_event \in {base.current_event, NULL}
  PROVE  ThreadsInv'
  <1>1. \A t \in Threads : thr[t] # NULL => thr[t] \in Watched
    BY DEF ThreadsInv
  <1>2. ASSUME NEW t \in Threads, thr[t] # NULL, t \notin rearmed'
        PROVE  /\ base'.flags[thr[t]] \cap Pending = {}
               /\ t \in woken => base'.current_event # thr[t]
    <2>1. t \notin rearmed /\ thr[t] \in Watched \ A
      BY <1>1, <1>2
    <2>2. /\ base.flags[thr[t]] \cap Pending = {}
          /\ t \in woken => base.current_event # thr[t]
      BY <1>2, <2>1 DEF ThreadsInv
    <2> QED
      BY <1>2, <2>1, <2>2 DEF Stays
  <1> QED
    BY <1>2 DEF ThreadsInv

(* And the finalized ones. *)
LEMMA KeepsFin ==
  ASSUME FinInv, NEW A, Stays(base, base', A), UNCHANGED <<running, fin, freed>>,
         fin => pc' \in {"enter", "callback"},
         base'.current_event \in {base.current_event, NULL}
  PROVE  FinInv'
  <1>1. NULL \notin IoEvents \cup Timers
    BY EventsAre
  <1>2. fin => /\ running \in IoEvents \cup Timers /\ base'.flags[running] = {"FINALIZING"}
               /\ base'.current_event = NULL
    BY DEF FinInv, Stays
  <1>3. \A e \in freed : /\ base'.flags[e] = {"FINALIZING"} /\ base'.current_event # e
                         /\ running = e => fin
    BY <1>1 DEF FinInv, Stays
  <1> QED
    BY <1>2, <1>3 DEF FinInv

(* A call does not disturb the loop, or wakes it. *)
LEMMA CallLoop ==
  ASSUME LoopInv, SleepInv, NEW t \in Callers, NEW A, Calls(base, base', A, t),
         UNCHANGED loopVars
  PROVE  LoopInv' /\ SleepInv'
  <1>1. /\ Good(base') /\ (Armed(base) => Armed(base'))
        /\ base'.running_loop = base.running_loop /\ base'.clock = base.clock
        /\ (Woken(base) => Woken(base')) /\ (base.th_notify > 0 => base'.th_notify > 0)
    BY DEF Calls
  <1>2. pc' = pc /\ wait' = wait /\ lag' = lag /\ pri' = pri /\ running' = running
        /\ fin' = fin /\ flags' = flags
    BY DEF loopVars
  <1>3. LoopInv'
    BY <1>1, <1>2 DEF LoopInv
  <1>4. ASSUME pc = "poll", base'.th_notify = 0, wait # 0
        PROVE  Dozes(base', wait, lag, flags)
    <2>1. Loud(base, t)
      <3>1. t # LoopThread
        BY <1>4, EventAssumption DEF Callers
      <3> QED
        BY <1>4, <3>1 DEF Loud, LoopInv
    <2>2. Calm(base, base') /\ base'.event_break = base.event_break
      BY <1>4, <2>1 DEF Calls
    <2>3. base.th_notify = 0
      <3>1. base.th_notify \in Nat
        BY DEF LoopInv, Good, Typed
      <3> QED
        BY <1>1, <1>4, <3>1
    <2>4. Dozes(base, wait, lag, flags)
      BY <1>4, <2>3 DEF SleepInv
    <2>5. Good(base) /\ Armed(base) /\ wait \in Nat \cup {Forever} /\ lag \in Int
      BY <1>4 DEF LoopInv
    <2> QED
      BY <1>1, <2>2, <2>4, <2>5, DozesOn
  <1>5. SleepInv'
    BY <1>2, <1>4 DEF SleepInv
  <1> QED
    BY <1>3, <1>5

(* A call of the API. *)
LEMMA CallKeeps ==
  ASSUME Inv, NEW t \in Callers, NEW A, NEW r, Calls(base, r, A, t), Call(r, A)
  PROVE  Inv'
  <1>1. /\ base' = r /\ quiet' = quiet \ A
        /\ rearmed' = rearmed \cup {u \in Threads : thr[u] \in A}
        /\ UNCHANGED loopVars /\ UNCHANGED <<thr, woken>>
        /\ UNCHANGED <<pc, running, fin, freed>>
    BY DEF Call, loopVars
  <1>2. Calls(base, base', A, t)
    BY <1>1
  <1>3. Stays(base, base', A) /\ base'.current_event = base.current_event
    BY <1>2 DEF Calls
  <1>4. LoopInv' /\ SleepInv'
    BY <1>1, <1>2, CallLoop DEF Inv
  <1>5. QuietInv'
    BY <1>1, <1>3, KeepsQuiet DEF Inv
  <1>6. ThreadsInv'
    BY <1>1, <1>3, KeepsThreads DEF Inv
  <1>7. FinInv'
    <2>1. FinInv /\ (fin => pc' \in {"enter", "callback"})
      BY <1>1 DEF Inv, FinInv
    <2> QED
      BY <1>1, <1>3, <2>1, KeepsFin
  <1> QED
    BY <1>4, <1>5, <1>6, <1>7 DEF Inv

-----------------------------------------------------------------------------
(* The API *)

(* An event a program may pass on. *)
LEMMA UsableIs ==
  ASSUME NEW e \in Usable
  PROVE  /\ e \in User /\ e \in Watched /\ e \in Ev
         /\ e \notin Deferred => e \in IoEvents \cup Timers
  BY EventsAre DEF Usable, Watched, User

(* event_add. *)
LEMMA AddKeeps ==
  ASSUME Inv, NEW t \in Callers, NEW e \in Usable, NEW tv \in Tvs, event_add(t, e, tv)
  PROVE  Inv'
  <1> DEFINE r == event_add_nolock_(base, t, e, tv)
  <1>1. Good(base) /\ e \in User /\ tv \in Delays
    BY UsableIs, EventAssumption DEF Inv, LoopInv, Delays
  <1>2. Call(r, {e})
    BY DEF event_add
  <1>3. Served(base, r, e, t)
    BY <1>1, AddServes
  <1> HIDE DEF r
  <1>4. Calls(base, r, {e}, t)
    BY <1>1, <1>3, ServedCalls
  <1> QED
    BY <1>2, <1>4, CallKeeps

(* event_remove_timer. *)
LEMMA RemoveTimerKeeps ==
  ASSUME Inv, NEW t \in Callers, NEW e \in Usable, event_remove_timer(t, e)
  PROVE  Inv'
  <1> DEFINE r == event_remove_timer_nolock_(base, e)
  <1>1. Good(base) /\ e \in User
    BY UsableIs DEF Inv, LoopInv
  <1>2. Call(r, {})
    BY DEF event_remove_timer
  <1>3. Served(base, r, e, t) /\ r.flags[e] \subseteq base.flags[e]
    BY <1>1, RemoveTimerServes
  <1> HIDE DEF r
  <1>4. Calls(base, r, {}, t)
    BY <1>1, <1>3, ServedCalls
  <1> QED
    BY <1>2, <1>4, CallKeeps

(* event_active. *)
LEMMA ActiveKeeps ==
  ASSUME Inv, NEW t \in Callers, NEW e \in Usable, event_active(t, e)
  PROVE  Inv'
  <1> DEFINE r == event_active_nolock_(base, t, e, {"READ"})
  <1>1. Good(base) /\ e \in User /\ e \in Ev
    BY UsableIs DEF Inv, LoopInv
  <1>2. Call(r, {e})
    BY DEF event_active
  <1>3. Raised(base, r, e, t)
    BY <1>1, ActiveIs
  <1> HIDE DEF r
  <1>4. Served(base, r, e, t)
    BY <1>1, <1>3, RaisedServes
  <1>5. Calls(base, r, {e}, t)
    BY <1>1, <1>4, ServedCalls
  <1> QED
    BY <1>2, <1>5, CallKeeps

(* event_active_later_. *)
LEMMA ActiveLaterKeeps ==
  ASSUME Inv, NEW t \in Callers, NEW e \in Usable, event_active_later_(t, e)
  PROVE  Inv'
  <1> DEFINE r == event_active_later_nolock_(base, t, e, {"READ"})
  <1>1. Good(base) /\ e \in User /\ e \in Ev
    BY UsableIs DEF Inv, LoopInv
  <1>2. Call(r, {e}) /\ "FINALIZING" \notin base.flags[e]
    BY DEF event_active_later_, Has
  <1>3. Served(base, r, e, t)
    BY <1>1, <1>2, ActiveLaterServes
  <1> HIDE DEF r
  <1>4. Calls(base, r, {e}, t)
    BY <1>1, <1>3, ServedCalls
  <1> QED
    BY <1>2, <1>4, CallKeeps

(* event_deferred_cb_schedule_. *)
LEMMA ScheduleKeeps ==
  ASSUME Inv, NEW t \in Callers, NEW e \in Usable, Schedule(t, e)
  PROVE  Inv'
  <1> DEFINE r == event_deferred_cb_schedule_(base, t, e)
  <1>1. Good(base) /\ e \in User
    BY UsableIs DEF Inv, LoopInv
  <1>2. Call(r, {e}) /\ e \in Deferred
    BY DEF Schedule
  <1>3. Served(base, r, e, t)
    BY <1>1, <1>2, DeferredServes
  <1> HIDE DEF r
  <1>4. Calls(base, r, {e}, t)
    BY <1>1, <1>3, ServedCalls
  <1> QED
    BY <1>2, <1>4, CallKeeps

(* event_callback_cancel_. *)
LEMMA CancelKeeps ==
  ASSUME Inv, NEW t \in Callers, NEW e \in Usable, Cancel(t, e)
  PROVE  Inv'
  <1> DEFINE r == event_callback_cancel_nolock_(base, e)
  <1>1. Good(base) /\ e \in User
    BY UsableIs DEF Inv, LoopInv
  <1>2. Call(r, {}) /\ e \in Deferred
    BY DEF Cancel
  <1>3. Served(base, r, e, t) /\ r.flags[e] \subseteq base.flags[e]
    BY <1>1, <1>2, CancelServes
  <1> HIDE DEF r
  <1>4. Calls(base, r, {}, t)
    BY <1>1, <1>3, ServedCalls
  <1> QED
    BY <1>2, <1>4, CallKeeps

(* event_finalize. *)
LEMMA FinalizeKeeps ==
  ASSUME Inv, NEW t \in Callers, NEW e \in Usable, event_finalize(t, e)
  PROVE  Inv'
  <1> DEFINE r == event_finalize_nolock_(base, t, e)
  <1>1. Good(base) /\ e \in User
    BY UsableIs DEF Inv, LoopInv
  <1>2. Call(r, {e}) /\ "FINALIZING" \notin base.flags[e] /\ e \in IoEvents \cup Timers
    BY UsableIs DEF event_finalize, Has
  <1>3. Served(base, r, e, t)
    BY <1>1, <1>2, FinalizeServes
  <1> HIDE DEF r
  <1>4. Calls(base, r, {e}, t)
    BY <1>1, <1>3, ServedCalls
  <1> QED
    BY <1>2, <1>4, CallKeeps

(* event_base_loopbreak and event_base_loopcontinue. *)
LEMMA AskKeeps ==
  ASSUME Inv, NEW t \in Callers,
         event_base_loopbreak(t) \/ event_base_loopcontinue(t)
  PROVE  Inv'
  <1> DEFINE x == [base EXCEPT !.event_break = TRUE]
             y == [base EXCEPT !.event_continue = TRUE]
  <1>1. Good(base)
    BY DEF Inv, LoopInv
  <1>2. Asked(base, x) /\ Asked(base, y)
    BY <1>1 DEF Good, Typed, Fields, Only, Asked
  <1>3. Call(NotifyIf(TRUE, x, t), {}) \/ Call(NotifyIf(TRUE, y, t), {})
    BY DEF event_base_loopbreak, event_base_loopcontinue
  <1> HIDE DEF x, y
  <1>4. /\ Calls(base, NotifyIf(TRUE, x, t), {}, t)
        /\ Calls(base, NotifyIf(TRUE, y, t), {}, t)
    BY <1>1, <1>2, AskedCalls
  <1> QED
    BY <1>3, <1>4, CallKeeps

(* event_base_loopexit. *)
LEMMA ExitKeeps ==
  ASSUME Inv, NEW t \in Callers, NEW tv \in Tvs, event_base_loopexit(t, tv)
  PROVE  Inv'
  <1> DEFINE x == event_active_nolock_(base, t, EXIT, {"TIMEOUT"})
             y == event_add_nolock_(base, t, EXIT, tv)
  <1>1. Good(base) /\ EXIT \in User /\ EXIT \in Ev /\ tv \in Delays
    BY EventsAre, EventAssumption DEF Inv, LoopInv, Delays
  <1>2. Call(x, {}) \/ Call(y, {})
    BY DEF event_base_loopexit
  <1>3. Raised(base, x, EXIT, t) /\ Served(base, y, EXIT, t)
    BY <1>1, ActiveIs, AddServes
  <1> HIDE DEF x, y
  <1>4. Served(base, x, EXIT, t)
    BY <1>1, <1>3, RaisedServes
  <1>5. Calls(base, x, {}, t) /\ Calls(base, y, {}, t)
    BY <1>1, <1>3, <1>4, ServedCalls
  <1> QED
    BY <1>2, <1>5, CallKeeps

(* event_del: the event is quiet now, or the thread waits for its callback. *)
LEMMA DelKeeps ==
  ASSUME Inv, NEW t \in Callers, NEW e \in Usable, event_del(t, e)
  PROVE  Inv'
  <1> DEFINE r == event_del_nolock_(base, t, e)
  <1>1. Good(base) /\ e \in User /\ e \in Ev \ {NOTIFY} /\ e \in Watched
    BY UsableIs, EventsAre DEF Inv, LoopInv
  <1>2. /\ base' = r /\ "FINALIZING" \notin base.flags[e]
        /\ thr' = IF MustWait(t, e) THEN [thr EXCEPT ![t] = e] ELSE thr
        /\ quiet' = IF MustWait(t, e) \/ t = LoopThread THEN quiet ELSE quiet \cup {e}
        /\ UNCHANGED loopVars /\ UNCHANGED <<woken, rearmed>>
        /\ UNCHANGED <<pc, running, fin, freed>>
    BY DEF event_del, Has, loopVars
  <1>3. Deleted(base, r, e, t) /\ Calls(base, r, {}, t)
    BY <1>1, DelIs, DelCalls
  <1> HIDE DEF r
  <1>4. Calls(base, base', {}, t) /\ base'.flags[e] = {}
    BY <1>2, <1>3 DEF Deleted
  <1>5. Stays(base, base', {}) /\ base'.current_event = base.current_event
    BY <1>4 DEF Calls
  <1>6. LoopInv' /\ SleepInv'
    BY <1>2, <1>4, CallLoop DEF Inv
  <1>7. QuietInv'
    <2>1. \A x \in quiet : base'.flags[x] \cap Pending = {} /\ base'.current_event # x
      BY <1>5 DEF Inv, QuietInv, Stays
    <2>2. e \in quiet' /\ e \notin quiet => base'.current_event # e
      BY <1>2, <1>5 DEF MustWait
    <2>3. \A x \in quiet' : x \in quiet \/ x = e
      BY <1>2
    <2>4. quiet' \subseteq Watched
      BY <1>1, <2>3 DEF Inv, QuietInv
    <2> QED
      BY <1>4, <2>1, <2>2, <2>3, <2>4 DEF QuietInv
  <1>8. ThreadsInv'
    <2>1. ThreadsInv /\ \A u \in Threads : thr[u] # NULL => thr[u] \in Watched
      BY DEF Inv, ThreadsInv
    <2>2. CASE MustWait(t, e)
      <3>1. t \in Threads /\ thr[t] = NULL /\ t \notin woken
        BY <2>1, <2>2 DEF MustWait, Callers, ThreadsInv
      <3>2. thr' \in [Threads -> Watched \cup {NULL}] /\ thr'[t] = e
            /\ \A u \in Threads : u # t => thr'[u] = thr[u]
        BY <1>1, <1>2, <2>1, <2>2, <3>1 DEF ThreadsInv
      <3>3. woken' \subseteq {u \in Threads : thr'[u] # NULL}
        BY <1>2, <2>1, <3>1, <3>2 DEF ThreadsInv
      <3>4. ASSUME NEW u \in Threads, thr'[u] # NULL, u \notin rearmed'
            PROVE  /\ base'.flags[thr'[u]] \cap Pending = {}
                   /\ u \in woken' => base'.current_event # thr'[u]
        <4>1. CASE u = t
          BY <1>2, <1>4, <3>1, <3>2, <4>1
        <4>2. CASE u # t
          BY <1>2, <1>5, <2>1, <3>2, <3>4, <4>2 DEF ThreadsInv, Stays
        <4> QED
          BY <4>1, <4>2
      <3> QED
        BY <3>2, <3>3, <3>4 DEF ThreadsInv
    <2>3. CASE ~MustWait(t, e)
      <3>1. UNCHANGED <<thr, woken>> /\ rearmed' = rearmed \cup {u \in Threads : thr[u] \in {}}
        BY <1>2, <2>3
      <3> QED
        BY <1>5, <2>1, <3>1, KeepsThreads
    <2> QED
      BY <2>2, <2>3
  <1>9. FinInv'
    <2>1. FinInv /\ (fin => pc' \in {"enter", "callback"})
      BY <1>2 DEF Inv, FinInv
    <2> QED
      BY <1>2, <1>5, <2>1, KeepsFin
  <1> QED
    BY <1>6, <1>7, <1>8, <1>9 DEF Inv

(* A thread returns from event_del. *)
LEMMA DelReturnKeeps ==
  ASSUME Inv, NEW t \in Threads, DelReturn(t)
  PROVE  Inv'
  <1>1. /\ UNCHANGED <<base, running, fin, freed, pc, wait, flags, lag, pri>>
        /\ t \in woken /\ thr' = [thr EXCEPT ![t] = NULL] /\ woken' = woken \ {t}
        /\ rearmed' = rearmed \ {t}
        /\ quiet' = IF t \in rearmed THEN quiet ELSE quiet \cup {thr[t]}
    BY DEF DelReturn, loopVars
  <1>2. LoopInv' /\ SleepInv' /\ FinInv'
    BY <1>1 DEF Inv, LoopInv, SleepInv, FinInv
  <1>3. ThreadsInv
    BY DEF Inv
  <1>4. thr[t] # NULL /\ thr[t] \in Watched
    BY <1>1, <1>3 DEF ThreadsInv
  <1>5. QuietInv'
    <2>1. t \notin rearmed => base.flags[thr[t]] \cap Pending = {} /\ base.current_event # thr[t]
      BY <1>1, <1>3, <1>4 DEF ThreadsInv
    <2> QED
      BY <1>1, <1>4, <2>1 DEF Inv, QuietInv
  <1>6. ThreadsInv'
    <2>1. thr' \in [Threads -> Watched \cup {NULL}] /\ thr'[t] = NULL
          /\ \A u \in Threads : u # t => thr'[u] = thr[u]
      BY <1>1, <1>3 DEF ThreadsInv
    <2>2. woken' \subseteq {u \in Threads : thr'[u] # NULL}
      BY <1>1, <1>3, <2>1 DEF ThreadsInv
    <2>3. ASSUME NEW u \in Threads, thr'[u] # NULL, u \notin rearmed'
          PROVE  /\ base.flags[thr'[u]] \cap Pending = {}
                 /\ u \in woken' => base.current_event # thr'[u]
      <3>1. u # t /\ u \notin rearmed /\ thr'[u] = thr[u]
        BY <1>1, <2>1, <2>3
      <3> QED
        BY <1>1, <1>3, <2>3, <3>1 DEF ThreadsInv
    <2> QED
      BY <1>1, <2>1, <2>2, <2>3 DEF ThreadsInv
  <1> QED
    BY <1>2, <1>5, <1>6 DEF Inv

(* Any call. *)
LEMMA ApiKeeps ==
  ASSUME Inv, ApiCall
  PROVE  Inv'
  <1>1. PICK t \in Callers :
           \/ event_base_loopbreak(t)
           \/ event_base_loopcontinue(t)
           \/ \E tv \in {x \in Tvs : ~x.common} : event_base_loopexit(t, tv)
           \/ \E e \in Usable :
               \/ \E tv \in Tvs : event_add(t, e, tv)
               \/ event_remove_timer(t, e)
               \/ event_active(t, e)
               \/ event_active_later_(t, e)
               \/ Schedule(t, e)
               \/ Cancel(t, e)
               \/ event_del(t, e)
               \/ event_finalize(t, e)
    BY DEF ApiCall
  <1>2. CASE event_base_loopbreak(t) \/ event_base_loopcontinue(t)
    BY <1>2, AskKeeps
  <1>3. CASE \E tv \in {x \in Tvs : ~x.common} : event_base_loopexit(t, tv)
    BY <1>3, ExitKeeps
  <1>4. ASSUME NEW e \in Usable,
               \/ \E tv \in Tvs : event_add(t, e, tv)
               \/ event_remove_timer(t, e)
               \/ event_active(t, e)
               \/ event_active_later_(t, e)
               \/ Schedule(t, e)
               \/ Cancel(t, e)
               \/ event_del(t, e)
               \/ event_finalize(t, e)
        PROVE  Inv'
    BY <1>4, AddKeeps, RemoveTimerKeeps, ActiveKeeps, ActiveLaterKeeps, ScheduleKeeps,
       CancelKeeps, DelKeeps, FinalizeKeeps
  <1> QED
    BY <1>1, <1>2, <1>3, <1>4

-----------------------------------------------------------------------------
(* The loop *)

(* What the loop does to the base between callbacks. *)
Moves(b, r) ==
    /\ Good(r) /\ (Armed(b) => Armed(r)) /\ Stays(b, r, {})
    /\ r.running_loop = b.running_loop /\ r.current_event = b.current_event
    /\ Woken(b) => Woken(r)

(* What it notes for itself. *)
LoopFields == {"n_deferreds_queued", "event_running_priority", "event_gotterm", "event_break",
               "event_continue", "tv_cache", "clock"}

(* A note of the loop's. *)
LEMMA TouchMoves ==
  ASSUME NEW b, Good(b), NEW r, Only(b, r, LoopFields), r.event_break \in BOOLEAN,
         r.tv_cache \in Nat, r.clock \in Nat
  PROVE  Moves(b, r) /\ SameLists(b, r)
  <1>1. /\ r.io_timeout = b.io_timeout /\ r.running_loop = b.running_loop
        /\ r.is_notify_pending = b.is_notify_pending /\ r.th_notify = b.th_notify
        /\ r.current_event = b.current_event
    BY DEF Only, LoopFields, Fields
  <1>2. Only(b, r, Aside)
    BY OnlyMore DEF LoopFields, Aside
  <1>3. /\ r.io_timeout \in [Ev -> Delays] /\ r.running_loop \in BOOLEAN
        /\ r.is_notify_pending \in BOOLEAN /\ r.th_notify \in Nat
    BY <1>1 DEF Good, Typed
  <1>4. Good(r) /\ SameLists(b, r) /\ (Armed(b) => Armed(r)) /\ Stays(b, r, {})
    BY <1>2, <1>3, AsideIs
  <1> QED
    BY <1>1, <1>4 DEF Moves, Woken

(* A turn under the lock. *)
LEMMA StirsMoves ==
  ASSUME NEW b, Good(b), NEW r, Stirs(b, r)
  PROVE  Moves(b, r)
  <1>1. Good(r) /\ Only(b, r, WorkFields) /\ Noted(b, r) /\ (Armed(b) => Armed(r))
    BY DEF Stirs, Does
  <1>2. r.running_loop = b.running_loop /\ r.current_event = b.current_event
    BY <1>1, WorkKeeps
  <1>3. Woken(b) => Woken(r)
    <2>1. Typed(b)
      BY DEF Good
    <2> QED
      BY <1>1, <2>1, StaysLoud
  <1>4. Stays(b, r, {})
    BY StirsStays
  <1> QED
    BY <1>1, <1>2, <1>3, <1>4 DEF Moves

(* Two of them. *)
LEMMA MovesTrans ==
  ASSUME NEW b, NEW m, Moves(b, m), NEW r, Moves(m, r)
  PROVE  Moves(b, r)
  <1>1. Stays(b, r, {})
    BY DEF Moves, Stays
  <1> QED
    BY <1>1 DEF Moves

(* None. *)
LEMMA MovesNot ==
  ASSUME NEW b, Good(b)
  PROVE  Moves(b, b)
  BY DEF Moves, Stays

(* Events and threads see nothing of it. *)
LEMMA RestKeeps ==
  ASSUME QuietInv, ThreadsInv, FinInv, Stays(base, base', {}),
         base'.current_event \in {base.current_event, NULL},
         UNCHANGED <<quiet, thr, woken, rearmed, running, fin, freed>>,
         fin => pc' \in {"enter", "callback"}
  PROVE  QuietInv' /\ ThreadsInv' /\ FinInv'
  <1>1. QuietInv'
    <2>1. quiet' \subseteq quiet \ {}
      OBVIOUS
    <2> QED
      BY <2>1, KeepsQuiet
  <1>2. ThreadsInv'
    <2>1. rearmed' = rearmed \cup {t \in Threads : thr[t] \in {}}
      OBVIOUS
    <2> QED
      BY <2>1, KeepsThreads
  <1>3. FinInv'
    BY KeepsFin
  <1> QED
    BY <1>1, <1>2, <1>3

(* Such a step of a running loop that does not lead to its sleep. *)
LEMMA MovesKeep ==
  ASSUME Inv, Moves(base, base'), pc \in LoopPlaces \ {"idle", "drained", "enter"}, ~fin,
         pc' \in {"top", "leave", "scan"}, pc' = "scan" => pri' \in Priorities,
         UNCHANGED <<wait, lag, quiet, thr, woken, rearmed, running, fin, freed>>
  PROVE  Inv'
  <1>1. /\ Good(base') /\ (Armed(base) => Armed(base')) /\ Stays(base, base', {})
        /\ base'.running_loop = base.running_loop /\ base'.current_event = base.current_event
        /\ (Woken(base) => Woken(base'))
    BY DEF Moves
  <1>2. LoopInv'
    <2>1. LoopInv
      BY DEF Inv
    <2>2. Armed(base) /\ Woken(base) /\ base.running_loop
      BY <2>1 DEF LoopInv
    <2>3. pc' \in LoopPlaces
      BY DEF LoopPlaces
    <2>4. wait' \in Nat \cup {Forever} /\ lag' \in Int
      BY <2>1 DEF LoopInv
    <2> QED
      BY <1>1, <2>2, <2>3, <2>4 DEF LoopInv
  <1>3. SleepInv'
    BY DEF SleepInv
  <1>4. QuietInv' /\ ThreadsInv' /\ FinInv'
    BY <1>1, RestKeeps DEF Inv
  <1> QED
    BY <1>2, <1>3, <1>4 DEF Inv

(* A finalizer runs nowhere else. *)
LEMMA NoFin ==
  ASSUME Inv, pc \notin {"enter", "callback"}
  PROVE  ~fin
  BY DEF Inv, FinInv

(* event_base_loop begins. *)
LEMMA BeginKeeps ==
  ASSUME Inv, NEW f, BeginLoop(f)
  PROVE  Inv'
  <1>1. /\ pc = "idle" /\ pc' = "top"
        /\ base' = [base EXCEPT !.running_loop = TRUE, !.tv_cache = 0,
                                !.event_gotterm = FALSE, !.event_break = FALSE]
        /\ UNCHANGED <<wait, lag, quiet, thr, woken, rearmed, running, fin, freed>>
    BY DEF BeginLoop, threadVars
  <1>2. Good(base) /\ LoopInv
    BY DEF Inv, LoopInv
  <1>3. /\ Only(base, base', Aside) /\ base'.running_loop = TRUE /\ base'.tv_cache = 0
        /\ base'.event_break = FALSE /\ base'.io_timeout = base.io_timeout
        /\ base'.is_notify_pending = base.is_notify_pending
        /\ base'.th_notify = base.th_notify /\ base'.clock = base.clock
        /\ base'.current_event = base.current_event
    BY <1>1, <1>2 DEF Good, Typed, Fields, Only, Aside
  <1>4. Good(base') /\ (Armed(base) => Armed(base')) /\ Stays(base, base', {})
    <2>1. /\ base'.io_timeout \in [Ev -> Delays] /\ base'.th_notify \in Nat
          /\ base'.tv_cache \in Nat /\ base'.clock \in Nat
      BY <1>2, <1>3 DEF Good, Typed
    <2>2. base.is_notify_pending \in BOOLEAN
      BY <1>2 DEF Good, Typed
    <2>3. /\ base'.running_loop \in BOOLEAN /\ base'.event_break \in BOOLEAN
          /\ base'.is_notify_pending \in BOOLEAN
      BY <1>2, <1>3, <2>2
    <2> QED
      BY <1>2, <1>3, <2>1, <2>3, AsideIs
  <1>5. LoopInv'
    <2>1. Armed(base) /\ Woken(base) /\ wait \in Nat \cup {Forever} /\ lag \in Int
      BY <1>1, <1>2 DEF LoopInv
    <2>2. Woken(base')
      BY <1>3, <2>1 DEF Woken
    <2> QED
      BY <1>1, <1>3, <1>4, <2>1, <2>2 DEF LoopInv, LoopPlaces
  <1>6. SleepInv'
    BY <1>1 DEF SleepInv
  <1>7. QuietInv' /\ ThreadsInv' /\ FinInv'
    <2>1. ~fin
      BY <1>1, NoFin
    <2> QED
      BY <1>1, <1>3, <1>4, <2>1, RestKeeps DEF Inv
  <1> QED
    BY <1>5, <1>6, <1>7 DEF Inv

(* It ends. *)
LEMMA LeaveKeeps ==
  ASSUME Inv, pc \in {"top", "leave"}, NEW b, Only(base, b, LoopFields),
         b.event_break \in BOOLEAN, b.clock \in Nat, LeaveLoop(b),
         UNCHANGED <<quiet, thr, woken, rearmed, running, fin, freed>>
  PROVE  Inv'
  <1>1. /\ pc' = "idle" /\ base' = [b EXCEPT !.running_loop = FALSE, !.tv_cache = 0]
        /\ UNCHANGED <<wait, lag>>
    BY DEF LeaveLoop
  <1>2. Good(base) /\ LoopInv /\ DOMAIN b = Fields
    BY DEF Inv, LoopInv, Only
  <1>3. /\ b.io_timeout = base.io_timeout /\ b.is_notify_pending = base.is_notify_pending
        /\ b.th_notify = base.th_notify /\ b.current_event = base.current_event
    BY DEF Only, LoopFields, Fields
  <1>4. /\ Only(b, base', Aside) /\ base'.running_loop = FALSE /\ base'.tv_cache = 0
        /\ base'.event_break = b.event_break /\ base'.io_timeout = b.io_timeout
        /\ base'.is_notify_pending = b.is_notify_pending /\ base'.th_notify = b.th_notify
        /\ base'.clock = b.clock /\ base'.current_event = b.current_event
    BY <1>1, <1>2 DEF Fields, Only, Aside
  <1>5. Only(base, base', Aside)
    <2>1. Only(base, b, Aside)
      BY OnlyMore DEF LoopFields, Aside
    <2> QED
      BY <1>4, <2>1, OnlyTrans
  <1>6. Good(base') /\ (Armed(base) => Armed(base')) /\ Stays(base, base', {})
    <2>1. /\ base'.io_timeout \in [Ev -> Delays] /\ base'.th_notify \in Nat
          /\ base'.tv_cache \in Nat /\ base'.clock \in Nat
      BY <1>2, <1>3, <1>4 DEF Good, Typed
    <2>2. base.is_notify_pending \in BOOLEAN
      BY <1>2 DEF Good, Typed
    <2>3. /\ base'.running_loop \in BOOLEAN /\ base'.event_break \in BOOLEAN
          /\ base'.is_notify_pending \in BOOLEAN
      BY <1>2, <1>3, <1>4, <2>2
    <2> QED
      BY <1>2, <1>5, <2>1, <2>3, AsideIs
  <1>7. LoopInv'
    <2>1. Armed(base) /\ Woken(base) /\ wait \in Nat \cup {Forever} /\ lag \in Int
      BY <1>2 DEF LoopInv
    <2>2. Woken(base')
      BY <1>3, <1>4, <2>1 DEF Woken
    <2> QED
      BY <1>1, <1>4, <1>6, <2>1, <2>2 DEF LoopInv, LoopPlaces
  <1>8. SleepInv'
    BY <1>1 DEF SleepInv
  <1>9. QuietInv' /\ ThreadsInv' /\ FinInv'
    <2>1. ~fin
      BY NoFin
    <2> QED
      BY <1>3, <1>4, <1>6, <2>1, RestKeeps DEF Inv
  <1> QED
    BY <1>7, <1>8, <1>9 DEF Inv

(* timeout_next: until the earliest timer by the time that is cached. *)
LEMMA NextIs ==
  ASSUME NEW b, Good(b)
  PROVE  LET w == timeout_next(b)
         IN  /\ w \in Nat \cup {Forever} /\ gettime(b) \in Nat
             /\ b.timeheap # <<>> /\ w # 0 =>
                    w # Forever /\ w = b.tmo[Head(b.timeheap)] - gettime(b)
  <1>1. gettime(b) \in Nat
    BY DEF Good, Typed, gettime
  <1>2. CASE b.timeheap = <<>>
    BY <1>1, <1>2 DEF timeout_next
  <1>3. CASE b.timeheap # <<>>
    <2> DEFINE d == b.tmo[Head(b.timeheap)] - gettime(b)
               w == Max({0, d})
    <2>1. d \in Int
      BY <1>1, <1>3, HeadsAre
    <2> HIDE DEF d
    <2>2. w \in {0, d} /\ \A y \in {0, d} : w >= y
      <3>1. \E x \in {0, d} : \A y \in {0, d} : x >= y
        BY <2>1
      <3> QED
        BY <3>1 DEF Max
    <2> HIDE DEF w
    <2>3. w \in Nat /\ (w # 0 => w = d)
      BY <2>1, <2>2
    <2>4. timeout_next(b) = w
      BY <1>3 DEF timeout_next, w, d
    <2> QED
      BY <1>1, <2>3, <2>4 DEF Forever, d
  <1> QED
    BY <1>2, <1>3

(* One turn of event_base_loop up to the backend. *)
LEMMA TopKeeps ==
  ASSUME Inv, LoopTop
  PROVE  Inv'
  <1> DEFINE b == [base EXCEPT !.event_continue = FALSE, !.n_deferreds_queued = 0]
             m == event_queue_make_later_events_active(b)
             Ends == \/ b.event_gotterm \/ b.event_break
                     \/ /\ "NO_EXIT_ON_EMPTY" \notin flags
                        /\ ~event_haveevents(b)
                        /\ N_ACTIVE_CALLBACKS(b) = 0
  <1>1. /\ pc = "top"
        /\ UNCHANGED <<flags, pri, running, fin, quiet, thr, woken, rearmed, freed>>
        /\ \/ LeaveLoop(b)
           \/ /\ ~Ends /\ base' = [m EXCEPT !.tv_cache = 0] /\ lag' = b.clock - gettime(b)
              /\ wait' = IF MayBlock(b) THEN timeout_next(b) ELSE 0
              /\ pc' = "poll"
    BY DEF LoopTop, Iterate, threadVars
  <1>2. Good(base) /\ LoopInv
    BY DEF Inv, LoopInv
  <1>3. /\ Only(base, b, LoopFields) /\ b.event_break = base.event_break
        /\ b.tv_cache = base.tv_cache /\ b.clock = base.clock
    BY <1>2 DEF Good, Typed, Fields, Only, LoopFields
  <1>4. b.event_break \in BOOLEAN /\ b.tv_cache \in Nat /\ b.clock \in Nat
    BY <1>2, <1>3 DEF Good, Typed
  <1> HIDE DEF b
  <1>5. CASE LeaveLoop(b)
    BY <1>1, <1>3, <1>4, <1>5, LeaveKeeps
  <1>6. CASE /\ ~Ends /\ base' = [m EXCEPT !.tv_cache = 0] /\ lag' = b.clock - gettime(b)
             /\ wait' = IF MayBlock(b) THEN timeout_next(b) ELSE 0
             /\ pc' = "poll"
    <2>1. Moves(base, b) /\ Good(b)
      BY <1>2, <1>3, <1>4, TouchMoves DEF Moves
    <2>2. Stirs(b, m) /\ (b.event_count_active = 0 => m = b)
      BY <2>1, LaterStirs
    <2> HIDE DEF m
    <2>3. Moves(base, m) /\ Good(m)
      BY <2>1, <2>2, StirsMoves, MovesTrans DEF Moves
    <2>4. /\ Only(m, base', LoopFields) /\ base'.tv_cache = 0 /\ base'.clock = m.clock
          /\ base'.event_break = m.event_break /\ base'.th_notify = m.th_notify
      BY <1>6, <2>3 DEF Good, Typed, Fields, Only, LoopFields
    <2>5. Moves(m, base') /\ SameLists(m, base')
      <3>1. m.event_break \in BOOLEAN /\ m.clock \in Nat
        BY <2>3 DEF Good, Typed
      <3> QED
        BY <2>3, <2>4, <3>1, TouchMoves
    <2>6. Moves(base, base')
      BY <2>3, <2>5, MovesTrans
    <2>7. gettime(b) \in Nat /\ timeout_next(b) \in Nat \cup {Forever}
      BY <2>1, NextIs
    <2>8. LoopInv'
      <3>1. base.running_loop /\ Woken(base) /\ Armed(base)
        BY <1>1, <1>2 DEF LoopInv
      <3>2. wait' \in Nat \cup {Forever} /\ lag' \in Int
        BY <1>4, <1>6, <2>7
      <3> QED
        BY <1>6, <2>6, <3>1, <3>2 DEF LoopInv, LoopPlaces, Moves
    <2>9. SleepInv'
      <3> SUFFICES ASSUME wait' # 0 PROVE Dozes(base', wait', lag', flags')
        BY DEF SleepInv
      <3>1. b.event_count_active = 0 /\ wait' = timeout_next(b) /\ m = b
        BY <1>6, <2>2 DEF MayBlock, N_ACTIVE_CALLBACKS
      <3>2. /\ base'.event_count_active = 0 /\ base'.timeheap = b.timeheap
            /\ base'.tmo = b.tmo /\ base'.event_count = b.event_count
        BY <2>5, <3>1 DEF SameLists
      <3>3. ~base'.event_break
        BY <1>6, <2>4, <3>1
      <3>4. ASSUME base'.timeheap # <<>>
            PROVE  /\ wait' # Forever
                   /\ base'.clock + wait' <= base'.tmo[Head(base'.timeheap)] + lag'
        <4> DEFINE w == timeout_next(b)
                   x == b.tmo[Head(b.timeheap)]
                   g == gettime(b)
                   c == b.clock
        <4>1. w # Forever /\ w = x - g
          BY <2>1, <3>1, <3>2, <3>4, NextIs
        <4>2. base'.clock = c /\ lag' = c - g /\ wait' = w
          BY <1>6, <2>4, <3>1
        <4>3. x \in Nat /\ g \in Nat /\ c \in Nat
          BY <1>4, <2>1, <2>7, <3>2, <3>4, HeadsAre
        <4> HIDE DEF w, x, g, c
        <4>4. c + w <= x + (c - g)
          BY <4>1, <4>3
        <4> QED
          BY <3>2, <4>1, <4>2, <4>4 DEF x
      <3>5. event_haveevents(base') \/ "NO_EXIT_ON_EMPTY" \in flags'
        BY <1>1, <1>6, <3>1, <3>2 DEF event_haveevents, N_ACTIVE_CALLBACKS
      <3> QED
        BY <3>2, <3>3, <3>4, <3>5 DEF Dozes
    <2>10. QuietInv' /\ ThreadsInv' /\ FinInv'
      <3>1. ~fin
        BY <1>1, NoFin
      <3>2. Stays(base, base', {}) /\ base'.current_event = base.current_event
        BY <2>6 DEF Moves
      <3> QED
        BY <1>1, <3>1, <3>2, RestKeeps DEF Inv
    <2> QED
      BY <2>8, <2>9, <2>10 DEF Inv
  <1> QED
    BY <1>1, <1>5, <1>6

(* The backend returns. *)
LEMMA DispatchKeeps ==
  ASSUME Inv, Dispatch
  PROVE  Inv'
  <1> DEFINE b1 == IF readable THEN evmap_io_active_(base) ELSE base
             b2 == IF base.th_notify > 0
                   THEN event_active_nolock_(b1, LoopThread, NOTIFY, {"READ"}) ELSE b1
             c == [b2 EXCEPT !.tv_cache = b2.clock]
             b3 == timeout_process(c)
  <1>1. /\ pc = "poll" /\ base' = b3
        /\ \/ pc' = "scan" /\ pri' = Min(Priorities)
           \/ pc' \in {"leave", "top"}
        /\ UNCHANGED <<wait, lag, quiet, thr, woken, rearmed, running, fin, freed>>
    BY DEF Dispatch, threadVars
  <1>2. Good(base)
    BY DEF Inv, LoopInv
  <1>3. Stirs(base, b1)
    BY <1>2, IoStirs, StirsNot
  <1> HIDE DEF b1
  <1>4. Good(b1)
    BY <1>3 DEF Stirs, Does
  <1>5. Stirs(base, b2)
    <2> DEFINE k == event_active_nolock_(b1, LoopThread, NOTIFY, {"READ"})
    <2>1. NOTIFY \in Ev /\ NOTIFY \notin User
      BY EventsAre
    <2>2. Raised(b1, k, NOTIFY, LoopThread)
      BY <1>4, <2>1, ActiveIs
    <2> HIDE DEF k
    <2>3. Stirs(base, k)
      BY <1>2, <1>3, <2>1, <2>2, StirsRaised
    <2> QED
      BY <1>3, <2>3 DEF k
  <1> HIDE DEF b2
  <1>6. Moves(base, b2) /\ Good(b2)
    BY <1>2, <1>5, StirsMoves DEF Moves
  <1>7. Moves(b2, c) /\ Good(c)
    <2>1. /\ Only(b2, c, LoopFields) /\ c.event_break = b2.event_break
          /\ c.tv_cache = b2.clock /\ c.clock = b2.clock
      BY <1>6 DEF Good, Typed, Fields, Only, LoopFields
    <2>2. b2.event_break \in BOOLEAN /\ b2.clock \in Nat
      BY <1>6 DEF Good, Typed
    <2> HIDE DEF c
    <2> QED
      BY <1>6, <2>1, <2>2, TouchMoves DEF Moves
  <1> HIDE DEF c
  <1>8. Moves(c, b3)
    BY <1>7, TimeoutStirs, StirsMoves
  <1> HIDE DEF b3
  <1>9. Moves(base, base')
    BY <1>1, <1>6, <1>7, <1>8, MovesTrans
  <1>10. ~fin
    BY <1>1, NoFin
  <1>11. pc' \in {"top", "leave", "scan"} /\ (pc' = "scan" => pri' \in Priorities)
    BY <1>1, PrioritiesAre
  <1>12. pc \in LoopPlaces \ {"idle", "drained", "enter"}
    BY <1>1 DEF LoopPlaces
  <1> QED
    BY <1>1, <1>9, <1>10, <1>11, <1>12, MovesKeep

(* Where event_process_active goes. *)
LEMMA QueueIs ==
  ASSUME NEW n, NEW b, Good(b), pri \in Priorities, NextQueue(n, b) \/ ProcessedActive(n, b)
  PROVE  /\ Only(b, base', {"event_running_priority"})
         /\ pc' \in {"leave", "top", "scan"} /\ (pc' = "scan" => pri' \in Priorities)
  <1>1. CASE ProcessedActive(n, b)
    <2>1. base' = [b EXCEPT !.event_running_priority = -1] /\ pc' \in {"leave", "top"}
      BY <1>1 DEF ProcessedActive
    <2>2. Only(b, base', {"event_running_priority"})
      BY <2>1 DEF Good, Typed, Only, Fields
    <2> QED
      BY <2>1, <2>2
  <1>2. CASE NextQueue(n, b) /\ ~ProcessedActive(n, b)
    <2>1. pri # Max(Priorities) /\ base' = b /\ pc' = "scan"
          /\ pri' = Min({p \in Priorities : p > pri})
      BY <1>2 DEF NextQueue
    <2> QED
      BY <2>1, PrioritiesAre DEF Good, Typed, Only
  <1> QED
    BY <1>1, <1>2

(* A queue is empty. *)
LEMMA SkipKeeps ==
  ASSUME Inv, SkipQueue
  PROVE  Inv'
  <1>1. /\ pc = "scan" /\ NextQueue(0, base)
        /\ UNCHANGED <<wait, lag, quiet, thr, woken, rearmed, running, fin, freed>>
    BY DEF SkipQueue, threadVars
  <1>2. Good(base) /\ pri \in Priorities
    BY <1>1 DEF Inv, LoopInv
  <1>3. /\ Only(base, base', {"event_running_priority"})
        /\ pc' \in {"leave", "top", "scan"} /\ (pc' = "scan" => pri' \in Priorities)
    BY <1>1, <1>2, QueueIs
  <1>4. Moves(base, base')
    <2>1. Only(base, base', LoopFields)
      BY <1>3, OnlyMore DEF LoopFields
    <2>2. base'.event_break = base.event_break /\ base'.tv_cache = base.tv_cache
          /\ base'.clock = base.clock
      BY <1>3 DEF Only, Fields
    <2>3. base.event_break \in BOOLEAN /\ base.tv_cache \in Nat /\ base.clock \in Nat
      BY <1>2 DEF Good, Typed
    <2> QED
      BY <1>2, <2>1, <2>2, <2>3, TouchMoves
  <1>5. ~fin
    BY <1>1, NoFin
  <1>6. pc \in LoopPlaces \ {"idle", "drained", "enter"}
    BY <1>1 DEF LoopPlaces
  <1> QED
    BY <1>1, <1>3, <1>4, <1>5, <1>6, MovesKeep

(* A callback is taken off its queue. *)
LEMMA RunKeeps ==
  ASSUME Inv, RunCallback
  PROVE  Inv'
  <1> DEFINE e == Head(base.activequeues[pri])
             b == [base EXCEPT !.event_running_priority = pri]
             cur == IF "FINALIZING" \in b.flags[e] THEN NULL ELSE e
  <1>1. /\ pc = "scan" /\ base.activequeues[pri] # <<>>
        /\ base' = StartCallback(b, e) /\ running' = e
        /\ fin' = ("FINALIZING" \in base.flags[e])
        /\ pc' = IF HasBody(e) \/ fin' THEN "enter" ELSE "callback"
        /\ UNCHANGED <<flags, wait, lag, pri, quiet, thr, woken, rearmed, freed>>
    BY DEF RunCallback, threadVars, Has
  <1>2. Good(base) /\ pri \in Priorities /\ LoopInv
    BY <1>1 DEF Inv, LoopInv
  <1>3. e \in Ev /\ "ACTIVE" \in base.flags[e]
    <2>1. ListOf(base.activequeues[pri], ActiveIn(base, pri))
      BY <1>2 DEF Good, ActiveOK
    <2>2. Head(base.activequeues[pri]) \in ActiveIn(base, pri)
      BY <1>1, <2>1, ListTail
    <2> QED
      BY <2>2 DEF ActiveIn
  <1> HIDE DEF e
  <1>4. Moves(base, b) /\ SameLists(base, b) /\ Good(b)
    <2>1. /\ Only(base, b, LoopFields) /\ b.event_break = base.event_break
          /\ b.tv_cache = base.tv_cache /\ b.clock = base.clock
      BY <1>2 DEF Good, Typed, Fields, Only, LoopFields
    <2>2. base.event_break \in BOOLEAN /\ base.tv_cache \in Nat /\ base.clock \in Nat
      BY <1>2 DEF Good, Typed
    <2> HIDE DEF b
    <2> QED
      BY <1>2, <2>1, <2>2, TouchMoves DEF Moves
  <1> HIDE DEF b
  <1>5. b.flags = base.flags
    BY <1>4 DEF SameLists
  <1>6. PICK r : Started(b, r, e) /\ StartCallback(b, e) = [r EXCEPT !.current_event = cur]
    BY <1>3, <1>4, <1>5, StartIs
  <1>7. Does(b, r, {e, CTL}) /\ Good(r) /\ Only(b, r, WorkFields) /\ Noted(b, r)
    BY <1>6 DEF Started, Does
  <1>8. /\ Only(r, base', {"current_event"}) /\ base'.current_event = cur
        /\ base'.running_loop = r.running_loop /\ base'.event_break = r.event_break
        /\ base'.is_notify_pending = r.is_notify_pending /\ base'.th_notify = r.th_notify
        /\ base'.tv_cache = r.tv_cache /\ base'.clock = r.clock
        /\ base'.io_timeout = r.io_timeout
    BY <1>1, <1>6, <1>7 DEF Good, Typed, Fields, Only
  <1>9. Good(base') /\ SameLists(r, base') /\ (Armed(r) => Armed(base')) /\ Stays(r, base', {})
    <2>1. Only(r, base', Aside)
      BY <1>8, OnlyMore DEF Aside
    <2>2. /\ base'.io_timeout \in [Ev -> Delays] /\ base'.th_notify \in Nat
          /\ base'.tv_cache \in Nat /\ base'.clock \in Nat
      BY <1>7, <1>8 DEF Good, Typed
    <2>3. r.running_loop \in BOOLEAN /\ r.event_break \in BOOLEAN /\ r.is_notify_pending \in BOOLEAN
      BY <1>7 DEF Good, Typed
    <2>4. /\ base'.running_loop \in BOOLEAN /\ base'.event_break \in BOOLEAN
          /\ base'.is_notify_pending \in BOOLEAN
      BY <1>8, <2>3
    <2> QED
      BY <1>7, <2>1, <2>2, <2>4, AsideIs
  <1>10. \A x \in User : x = e \/ base'.flags[x] = base.flags[x]
    <2>1. \A x \in User : x \in Ev /\ x # CTL
      BY EventsAre
    <2>2. base'.flags = r.flags
      BY <1>9 DEF SameLists
    <2> QED
      BY <1>5, <1>7, <2>1, <2>2 DEF Does, Spared
  <1>11. "FINALIZING" \in base.flags[e] =>
            e \in IoEvents \cup Timers /\ base'.flags[e] = {"FINALIZING"} /\ cur = NULL
    <2>1. base'.flags = r.flags
      BY <1>9 DEF SameLists
    <2> QED
      BY <1>2, <1>3, <1>5, <1>6, <2>1 DEF Started, Good, KindsOK
  <1>12. base'.current_event = NULL \/ base'.current_event = e
    BY <1>8
  <1>13. Watched \subseteq User /\ NULL \notin Watched /\ NULL \notin User
         /\ IoEvents \cup Timers \subseteq User
    BY EventsAre DEF Watched
  <1>14. base.flags[e] \cap Pending # {}
    BY <1>3 DEF Pending
  <1>15. LoopInv'
    <2>1. base.running_loop /\ Woken(base) /\ Armed(base)
      BY <1>1, <1>2 DEF LoopInv
    <2>2. base'.running_loop /\ Woken(base')
      <3>1. r.running_loop = b.running_loop
        BY <1>7, WorkKeeps
      <3>2. Woken(b) => Woken(r)
        <4>1. Typed(b)
          BY <1>4 DEF Good
        <4> QED
          BY <1>7, <4>1, StaysLoud
      <3>3. b.running_loop /\ Woken(b)
        BY <1>4, <2>1 DEF Moves
      <3> QED
        BY <1>8, <3>1, <3>2, <3>3 DEF Woken
    <2>3. Armed(base') \/ (running' = CTL /\ pc' = "enter" /\ ~fin')
      <3>1. CASE e = CTL
        <4>1. CTL \notin IoEvents \cup Timers
          BY <1>13, EventsAre
        <4>2. ~fin'
          BY <1>1, <1>11, <3>1, <4>1
        <4> QED
          BY <1>1, <3>1, <4>2 DEF HasBody, Internal
      <3>2. CASE e # CTL
        <4>1. Armed(b)
          BY <1>4, <2>1 DEF Moves
        <4> QED
          BY <1>6, <1>9, <3>2, <4>1 DEF Started
      <3> QED
        BY <3>1, <3>2
    <2>4. pc' \in {"enter", "callback"}
      BY <1>1
    <2>5. pri' \in Priorities /\ wait' \in Nat \cup {Forever} /\ lag' \in Int
      BY <1>1, <1>2 DEF LoopInv
    <2> QED
      BY <1>9, <2>2, <2>3, <2>4, <2>5 DEF LoopInv, LoopPlaces
  <1>16. SleepInv'
    BY <1>1 DEF SleepInv
  <1>17. QuietInv'
    <2>1. ASSUME NEW x \in quiet
          PROVE  base'.flags[x] \cap Pending = {} /\ base'.current_event # x
      <3>1. x \in Watched /\ base.flags[x] \cap Pending = {}
        BY DEF Inv, QuietInv
      <3> QED
        BY <1>10, <1>12, <1>13, <1>14, <3>1
    <2> QED
      BY <1>1, <2>1 DEF Inv, QuietInv
  <1>18. ThreadsInv'
    <2>1. ThreadsInv
      BY DEF Inv
    <2>2. ASSUME NEW t \in Threads, thr[t] # NULL, t \notin rearmed
          PROVE  /\ base'.flags[thr[t]] \cap Pending = {}
                 /\ t \in woken => base'.current_event # thr[t]
      <3>1. thr[t] \in Watched /\ base.flags[thr[t]] \cap Pending = {}
        BY <2>1, <2>2 DEF ThreadsInv
      <3> QED
        BY <1>10, <1>12, <1>13, <1>14, <3>1
    <2> QED
      BY <1>1, <2>1, <2>2 DEF ThreadsInv
  <1>19. FinInv'
    <2>1. FinInv
      BY DEF Inv
    <2>2. ASSUME NEW x \in freed
          PROVE  /\ base'.flags[x] = {"FINALIZING"} /\ base'.current_event # x /\ running' # x
      <3>1. x \in IoEvents \cup Timers /\ base.flags[x] = {"FINALIZING"}
        BY <2>1 DEF FinInv
      <3>2. x # e
        BY <1>14, <3>1 DEF Pending
      <3> QED
        BY <1>1, <1>10, <1>12, <1>13, <3>1, <3>2
    <2>3. fin' => /\ pc' \in {"enter", "callback"} /\ running' \in IoEvents \cup Timers
                  /\ base'.flags[running'] = {"FINALIZING"} /\ base'.current_event = NULL
      BY <1>1, <1>8, <1>11
    <2>4. fin' \in BOOLEAN
      BY <1>1
    <2> QED
      BY <1>1, <2>1, <2>2, <2>3, <2>4 DEF FinInv
  <1> QED
    BY <1>15, <1>16, <1>17, <1>18, <1>19 DEF Inv

(* Its body runs. *)
LEMMA BodyKeeps ==
  ASSUME Inv, CallbackBody
  PROVE  Inv'
  <1> DEFINE d == [base EXCEPT !.th_notify = 0]
             g == [base EXCEPT !.event_gotterm = TRUE]
             k == common_timeout_callback(base)
  <1>1. /\ pc = "enter" /\ pc' = IF running = NOTIFY THEN "drained" ELSE "callback"
        /\ base' = CASE fin -> base [] running = NOTIFY -> d [] running = CTL -> k
                     [] running = EXIT -> g [] OTHER -> base
        /\ freed' = IF fin THEN freed \cup {running} ELSE freed
        /\ UNCHANGED <<flags, wait, lag, pri, running, fin, quiet, thr, woken, rearmed>>
    BY DEF CallbackBody, threadVars
  <1>2. Good(base) /\ LoopInv /\ FinInv /\ QuietInv /\ ThreadsInv
    BY DEF Inv, LoopInv
  <1>3. /\ Woken(base) /\ base.running_loop /\ pri \in Priorities
        /\ Armed(base) \/ (running = CTL /\ ~fin)
    BY <1>1, <1>2 DEF LoopInv
  <1>4. base' = base \/ (running = NOTIFY /\ base' = d) \/ (running = CTL /\ base' = k)
        \/ base' = g
    <2>1. CASE fin
      BY <1>1, <2>1
    <2>2. CASE ~fin /\ running = NOTIFY
      BY <1>1, <2>2
    <2>3. CASE ~fin /\ running # NOTIFY /\ running = CTL
      BY <1>1, <2>3
    <2>4. CASE ~fin /\ running # NOTIFY /\ running # CTL /\ running = EXIT
      BY <1>1, <2>4
    <2>5. CASE ~fin /\ running # NOTIFY /\ running # CTL /\ running # EXIT
      BY <1>1, <2>5
    <2> QED
      BY <2>1, <2>2, <2>3, <2>4, <2>5
  <1>5. running = CTL /\ ~fin => base' = k
    BY <1>1, EventsAre
  <1>6. Stirs(base, k) /\ Armed(k)
    BY <1>2, CallbackArms
  <1>7. Moves(base, k)
    BY <1>2, <1>6, StirsMoves
  <1>8. Moves(base, g)
    <2>1. /\ Only(base, g, LoopFields) /\ g.event_break = base.event_break
          /\ g.tv_cache = base.tv_cache /\ g.clock = base.clock
      BY <1>2 DEF Good, Typed, Fields, Only, LoopFields
    <2>2. base.event_break \in BOOLEAN /\ base.tv_cache \in Nat /\ base.clock \in Nat
      BY <1>2 DEF Good, Typed
    <2> HIDE DEF g
    <2> QED
      BY <1>2, <2>1, <2>2, TouchMoves
  <1>9. /\ Good(d) /\ (Armed(base) => Armed(d)) /\ Stays(base, d, {})
        /\ d.running_loop = base.running_loop /\ d.current_event = base.current_event
    <2>1. /\ Only(base, d, Aside) /\ d.running_loop = base.running_loop
          /\ d.current_event = base.current_event /\ d.th_notify = 0
          /\ d.io_timeout = base.io_timeout /\ d.event_break = base.event_break
          /\ d.is_notify_pending = base.is_notify_pending /\ d.tv_cache = base.tv_cache
          /\ d.clock = base.clock
      BY <1>2 DEF Good, Typed, Fields, Only, Aside
    <2>2. /\ base.io_timeout \in [Ev -> Delays] /\ base.tv_cache \in Nat /\ base.clock \in Nat
      BY <1>2 DEF Good, Typed
    <2>3. base.running_loop \in BOOLEAN /\ base.event_break \in BOOLEAN
          /\ base.is_notify_pending \in BOOLEAN
      BY <1>2 DEF Good, Typed
    <2> HIDE DEF d
    <2>4. /\ d.io_timeout \in [Ev -> Delays] /\ d.th_notify \in Nat /\ d.tv_cache \in Nat
          /\ d.clock \in Nat
      BY <2>1, <2>2
    <2>5. d.running_loop \in BOOLEAN /\ d.event_break \in BOOLEAN
          /\ d.is_notify_pending \in BOOLEAN
      BY <2>1, <2>3
    <2> QED
      BY <1>2, <2>1, <2>4, <2>5, AsideIs
  <1>10. Moves(base, base)
    BY <1>2, MovesNot
  <1> HIDE DEF d, g, k
  <1>11. /\ Good(base') /\ (Armed(base) => Armed(base')) /\ Stays(base, base', {})
         /\ base'.running_loop = base.running_loop /\ base'.current_event = base.current_event
    BY <1>4, <1>7, <1>8, <1>9, <1>10 DEF Moves
  <1>12. Woken(base') \/ pc' = "drained"
    BY <1>1, <1>3, <1>4, <1>7, <1>8, <1>10 DEF Moves
  <1>13. Armed(base')
    BY <1>3, <1>5, <1>6, <1>11
  <1>14. pc' \in {"drained", "callback"}
    BY <1>1
  <1>15. LoopInv'
    <2>1. pri' \in Priorities /\ wait' \in Nat \cup {Forever} /\ lag' \in Int
      BY <1>1, <1>2, <1>3 DEF LoopInv
    <2> QED
      BY <1>3, <1>11, <1>12, <1>13, <1>14, <2>1 DEF LoopInv, LoopPlaces
  <1>16. SleepInv'
    BY <1>14 DEF SleepInv
  <1>17. QuietInv'
    <2>1. quiet' \subseteq quiet \ {}
      BY <1>1
    <2> QED
      BY <1>2, <1>11, <2>1, KeepsQuiet
  <1>18. ThreadsInv'
    <2>1. UNCHANGED <<thr, woken>> /\ rearmed' = rearmed \cup {t \in Threads : thr[t] \in {}}
      BY <1>1
    <2> QED
      BY <1>2, <1>11, <2>1, KeepsThreads
  <1>19. FinInv'
    <2>1. NULL \notin IoEvents \cup Timers /\ NOTIFY \notin IoEvents \cup Timers
      BY EventsAre
    <2>2. fin => /\ pc' = "callback" /\ running \in IoEvents \cup Timers
                 /\ base'.flags[running] = {"FINALIZING"} /\ base'.current_event = NULL
      BY <1>1, <1>2, <1>11, <2>1 DEF FinInv, Stays
    <2>3. ASSUME NEW x \in freed
          PROVE  /\ base'.flags[x] = {"FINALIZING"} /\ base'.current_event # x
                 /\ running = x => fin
      BY <1>2, <1>11 DEF FinInv, Stays
    <2>4. \A x \in freed' : x \in freed \/ (fin /\ x = running)
      BY <1>1
    <2>5. freed' \subseteq IoEvents \cup Timers
      BY <1>2, <2>2, <2>4 DEF FinInv
    <2>6. \A x \in freed' : /\ base'.flags[x] = {"FINALIZING"} /\ base'.current_event # x
                            /\ running' = x => fin'
      BY <1>1, <2>1, <2>2, <2>3, <2>4
    <2> QED
      BY <1>1, <1>2, <2>2, <2>5, <2>6 DEF FinInv
  <1> QED
    BY <1>15, <1>16, <1>17, <1>18, <1>19 DEF Inv

(* The notification is not pending any more. *)
LEMMA ClearKeeps ==
  ASSUME Inv, ClearNotify
  PROVE  Inv'
  <1>1. /\ pc = "drained" /\ base' = [base EXCEPT !.is_notify_pending = FALSE]
        /\ pc' = "callback"
        /\ UNCHANGED <<flags, wait, lag, pri, running, fin, quiet, thr, woken, rearmed, freed>>
    BY DEF ClearNotify, threadVars
  <1>2. Good(base) /\ LoopInv
    BY DEF Inv, LoopInv
  <1>3. /\ Only(base, base', Aside) /\ base'.running_loop = base.running_loop
        /\ base'.current_event = base.current_event /\ base'.th_notify = base.th_notify
        /\ base'.io_timeout = base.io_timeout /\ base'.event_break = base.event_break
        /\ base'.is_notify_pending = FALSE /\ base'.tv_cache = base.tv_cache
        /\ base'.clock = base.clock
    BY <1>1, <1>2 DEF Good, Typed, Fields, Only, Aside
  <1>4. Good(base') /\ (Armed(base) => Armed(base')) /\ Stays(base, base', {})
    <2>1. /\ base'.io_timeout \in [Ev -> Delays] /\ base'.th_notify \in Nat
          /\ base'.tv_cache \in Nat /\ base'.clock \in Nat
      BY <1>2, <1>3 DEF Good, Typed
    <2>2. base.running_loop \in BOOLEAN /\ base.event_break \in BOOLEAN
      BY <1>2 DEF Good, Typed
    <2>3. /\ base'.running_loop \in BOOLEAN /\ base'.event_break \in BOOLEAN
          /\ base'.is_notify_pending \in BOOLEAN
      BY <1>3, <2>2
    <2> QED
      BY <1>2, <1>3, <2>1, <2>3, AsideIs
  <1>5. LoopInv'
    <2>1. /\ Armed(base) /\ base.running_loop /\ pri \in Priorities
          /\ wait \in Nat \cup {Forever} /\ lag \in Int
      BY <1>1, <1>2 DEF LoopInv
    <2>2. Woken(base')
      BY <1>3 DEF Woken
    <2> QED
      BY <1>1, <1>3, <1>4, <2>1, <2>2 DEF LoopInv, LoopPlaces
  <1>6. SleepInv'
    BY <1>1 DEF SleepInv
  <1>7. QuietInv' /\ ThreadsInv' /\ FinInv'
    BY <1>1, <1>3, <1>4, RestKeeps DEF Inv
  <1> QED
    BY <1>5, <1>6, <1>7 DEF Inv

(* The callback returns, and the threads that wait for it are released. *)
LEMMA ReturnKeeps ==
  ASSUME Inv, CallbackReturn
  PROVE  Inv'
  <1> DEFINE b == [base EXCEPT !.current_event = NULL]
  <1>1. /\ pc = "callback" /\ running' = NULL /\ fin' = FALSE /\ woken' = woken \cup Released
        /\ \/ ProcessedActive(-1, b)
           \/ NextQueue(count, b)
           \/ base' = b /\ pc' = "scan" /\ pri' = pri
        /\ UNCHANGED <<flags, wait, lag, thr, rearmed, freed, quiet>>
    BY DEF CallbackReturn
  <1>2. Good(base) /\ LoopInv /\ pri \in Priorities
    BY <1>1 DEF Inv, LoopInv
  <1>3. /\ Only(base, b, Aside) /\ b.running_loop = base.running_loop
        /\ b.current_event = NULL /\ b.th_notify = base.th_notify
        /\ b.io_timeout = base.io_timeout /\ b.event_break = base.event_break
        /\ b.is_notify_pending = base.is_notify_pending /\ b.tv_cache = base.tv_cache
        /\ b.clock = base.clock
    BY <1>2 DEF Good, Typed, Fields, Only, Aside
  <1> HIDE DEF b
  <1>4. base.running_loop \in BOOLEAN /\ base.event_break \in BOOLEAN
        /\ base.is_notify_pending \in BOOLEAN
    BY <1>2 DEF Good, Typed
  <1>5. Good(b) /\ (Armed(base) => Armed(b)) /\ Stays(base, b, {})
    <2>1. /\ b.io_timeout \in [Ev -> Delays] /\ b.th_notify \in Nat
          /\ b.tv_cache \in Nat /\ b.clock \in Nat
      BY <1>2, <1>3 DEF Good, Typed
    <2>2. b.running_loop \in BOOLEAN /\ b.event_break \in BOOLEAN /\ b.is_notify_pending \in BOOLEAN
      BY <1>3, <1>4
    <2> QED
      BY <1>2, <1>3, <2>1, <2>2, AsideIs
  <1>6. /\ Only(b, base', {"event_running_priority"})
        /\ pc' \in {"leave", "top", "scan"} /\ (pc' = "scan" => pri' \in Priorities)
    <2>1. CASE ProcessedActive(-1, b) \/ NextQueue(count, b)
      BY <1>2, <1>5, <2>1, QueueIs
    <2>2. CASE base' = b /\ pc' = "scan" /\ pri' = pri
      BY <1>2, <1>5, <2>2 DEF Only, Good, Typed
    <2> QED
      BY <1>1, <2>1, <2>2
  <1>7. Moves(b, base')
    <2>1. Only(b, base', LoopFields)
      BY <1>6, OnlyMore DEF LoopFields
    <2>2. base'.event_break = b.event_break /\ base'.tv_cache = b.tv_cache
          /\ base'.clock = b.clock
      BY <1>6 DEF Only, Fields
    <2>3. b.event_break \in BOOLEAN /\ b.tv_cache \in Nat /\ b.clock \in Nat
      BY <1>5 DEF Good, Typed
    <2> QED
      BY <1>5, <2>1, <2>2, <2>3, TouchMoves
  <1>8. /\ Good(base') /\ (Armed(base) => Armed(base')) /\ Stays(base, base', {})
        /\ base'.running_loop = base.running_loop /\ base'.current_event = NULL
        /\ (Woken(base) => Woken(base'))
    BY <1>3, <1>5, <1>7 DEF Moves, Stays, Woken
  <1>9. LoopInv'
    <2>1. /\ Armed(base) /\ Woken(base) /\ base.running_loop
          /\ wait \in Nat \cup {Forever} /\ lag \in Int
      BY <1>1, <1>2 DEF LoopInv
    <2> QED
      BY <1>1, <1>6, <1>8, <2>1 DEF LoopInv, LoopPlaces
  <1>10. SleepInv'
    BY <1>6 DEF SleepInv
  <1>11. NULL \notin Watched /\ NULL \notin IoEvents \cup Timers
    BY EventsAre DEF Watched
  <1>12. QuietInv'
    <2>1. quiet' \subseteq quiet \ {}
      BY <1>1
    <2> QED
      BY <1>8, <2>1, KeepsQuiet DEF Inv
  <1>13. ThreadsInv'
    <2>1. ThreadsInv
      BY DEF Inv
    <2>2. woken' \subseteq {t \in Threads : thr'[t] # NULL}
      BY <1>1, <2>1 DEF ThreadsInv, Released
    <2>3. ASSUME NEW t \in Threads, thr[t] # NULL, t \notin rearmed
          PROVE  /\ base'.flags[thr[t]] \cap Pending = {}
                 /\ t \in woken' => base'.current_event # thr[t]
      <3>1. thr[t] \in Watched /\ base.flags[thr[t]] \cap Pending = {}
        BY <2>1, <2>3 DEF ThreadsInv
      <3> QED
        BY <1>8, <2>3, <3>1 DEF Stays
    <2> QED
      BY <1>1, <2>1, <2>2, <2>3 DEF ThreadsInv
  <1>14. FinInv'
    BY <1>1, <1>8, <1>11 DEF Inv, FinInv, Stays
  <1> QED
    BY <1>9, <1>10, <1>12, <1>13, <1>14 DEF Inv

(* Time passes. *)
LEMMA TickKeeps ==
  ASSUME Inv, Tick
  PROVE  Inv'
  <1>1. /\ \/ pc = "poll" /\ wait # 0 /\ wait' = IF wait = Forever THEN wait ELSE wait - 1
           \/ pc = "callback" /\ wait' = wait
        /\ base' = [base EXCEPT !.clock = @ + 1]
        /\ UNCHANGED <<pc, flags, lag, pri, running, fin, quiet, thr, woken, rearmed, freed>>
    BY DEF Tick, threadVars
  <1>2. Good(base) /\ LoopInv
    BY DEF Inv, LoopInv
  <1>3. /\ Only(base, base', LoopFields) /\ base'.event_break = base.event_break
        /\ base'.tv_cache = base.tv_cache /\ base'.clock = base.clock + 1
        /\ base'.th_notify = base.th_notify
    BY <1>1, <1>2 DEF Good, Typed, Fields, Only, LoopFields
  <1>4. base.event_break \in BOOLEAN /\ base.tv_cache \in Nat /\ base.clock \in Nat
    BY <1>2 DEF Good, Typed
  <1>5. Moves(base, base') /\ SameLists(base, base')
    BY <1>2, <1>3, <1>4, TouchMoves
  <1>6. wait' \in Nat \cup {Forever}
    BY <1>1, <1>2 DEF LoopInv, Forever
  <1>7. LoopInv'
    BY <1>1, <1>2, <1>5, <1>6 DEF LoopInv, Moves
  <1>8. SleepInv'
    <2> SUFFICES ASSUME pc = "poll", base'.th_notify = 0, wait' # 0
                 PROVE  Dozes(base', wait', lag, flags)
      BY <1>1 DEF SleepInv
    <2>1. wait # 0 /\ wait' = IF wait = Forever THEN wait ELSE wait - 1
      BY <1>1
    <2>2. Dozes(base, wait, lag, flags)
      BY <1>3, <2>1 DEF Inv, SleepInv
    <2>3. /\ base'.event_count_active = base.event_count_active
          /\ base'.timeheap = base.timeheap /\ base'.tmo = base.tmo
          /\ base'.event_count = base.event_count
      BY <1>5 DEF SameLists
    <2>4. wait' # Forever <=> wait # Forever
      BY <1>2, <2>1 DEF LoopInv, Forever
    <2>5. ASSUME base'.timeheap # <<>>
          PROVE  wait' # Forever /\ base'.clock + wait' <= base'.tmo[Head(base'.timeheap)] + lag
      <3> DEFINE x == base.tmo[Head(base.timeheap)]
                 c == base.clock
      <3>1. wait # Forever /\ c + wait <= x + lag
        BY <2>2, <2>3, <2>5 DEF Dozes
      <3>2. wait' = wait - 1 /\ wait \in Nat /\ lag \in Int
        BY <1>2, <2>1, <3>1 DEF LoopInv
      <3>3. x \in Nat
        BY <1>2, <2>3, <2>5, HeadsAre
      <3>4. base'.clock = c + 1 /\ c \in Nat
        BY <1>3, <1>4
      <3> HIDE DEF x, c
      <3>5. (c + 1) + (wait - 1) <= x + lag
        BY <3>1, <3>2, <3>3, <3>4
      <3>6. base'.clock + wait' <= x + lag
        BY <3>2, <3>4, <3>5
      <3> QED
        BY <2>3, <2>4, <3>1, <3>6 DEF x
    <2> QED
      BY <1>3, <2>2, <2>3, <2>4, <2>5 DEF Dozes, event_haveevents
  <1>9. QuietInv' /\ ThreadsInv' /\ FinInv'
    <2>1. Stays(base, base', {}) /\ base'.current_event = base.current_event
      BY <1>5 DEF Moves
    <2>2. fin => pc' \in {"enter", "callback"}
      BY <1>1 DEF Inv, FinInv
    <2> QED
      BY <1>1, <2>1, <2>2, RestKeeps DEF Inv
  <1> QED
    BY <1>7, <1>8, <1>9 DEF Inv

-----------------------------------------------------------------------------
(* The invariant holds *)

(* It holds of the base with the events added before the loop. *)
LEMMA InitInv == Init => Inv
  <1> SUFFICES ASSUME Init PROVE Inv
    OBVIOUS
  <1>1. /\ base = Prepared[Len(Added)] /\ pc = "idle" /\ wait = 0 /\ lag = 0
        /\ running = NULL /\ fin = FALSE /\ thr = [t \in Threads |-> NULL]
        /\ woken = {} /\ freed = {} /\ quiet = {}
    BY DEF Init
  <1>2. Good(base) /\ Armed(base) /\ ~base.running_loop /\ Woken(base)
    BY <1>1, PreparedIs DEF Fresh
  <1>3. LoopInv
    BY <1>1, <1>2 DEF LoopInv, LoopPlaces
  <1>4. SleepInv /\ QuietInv /\ FinInv
    BY <1>1 DEF SleepInv, QuietInv, FinInv
  <1>5. ThreadsInv
    BY <1>1 DEF ThreadsInv
  <1> QED
    BY <1>3, <1>4, <1>5 DEF Inv

(* One step of the loop. *)
LEMMA LoopKeepsInv ==
  ASSUME Inv, LoopStep
  PROVE  Inv'
  <1>1. CASE LoopTop
    BY <1>1, TopKeeps
  <1>2. CASE Dispatch
    BY <1>2, DispatchKeeps
  <1>3. CASE Leave
    <2>1. /\ pc \in {"top", "leave"} /\ LeaveLoop(base)
          /\ UNCHANGED <<quiet, thr, woken, rearmed, running, fin, freed>>
      BY <1>3 DEF Leave, threadVars
    <2>2. Good(base)
      BY DEF Inv, LoopInv
    <2>3. /\ Only(base, base, LoopFields) /\ base.event_break \in BOOLEAN
          /\ base.clock \in Nat
      BY <2>2 DEF Good, Typed, Only
    <2> QED
      BY <2>1, <2>3, LeaveKeeps
  <1>4. CASE SkipQueue
    BY <1>4, SkipKeeps
  <1>5. CASE RunCallback
    BY <1>5, RunKeeps
  <1>6. CASE CallbackBody
    BY <1>6, BodyKeeps
  <1>7. CASE ClearNotify
    BY <1>7, ClearKeeps
  <1>8. CASE CallbackReturn
    BY <1>8, ReturnKeeps
  <1> QED
    BY <1>1, <1>2, <1>3, <1>4, <1>5, <1>6, <1>7, <1>8 DEF LoopStep

(* Any step. *)
LEMMA StepInv == Inv /\ [Next]_vars => Inv'
  <1> SUFFICES ASSUME Inv, [Next]_vars PROVE Inv'
    OBVIOUS
  <1>1. ASSUME NEW f \in LoopFlags, BeginLoop(f) PROVE Inv'
    BY <1>1, BeginKeeps
  <1>2. CASE LoopStep
    BY <1>2, LoopKeepsInv
  <1>3. CASE ApiCall
    BY <1>3, ApiKeeps
  <1>4. ASSUME NEW t \in Threads, DelReturn(t) PROVE Inv'
    BY <1>4, DelReturnKeeps
  <1>5. CASE Tick
    BY <1>5, TickKeeps
  <1>6. CASE Input
    BY <1>6 DEF Input, loopVars, threadVars, Inv, LoopInv, SleepInv, QuietInv, ThreadsInv, FinInv
  <1>7. CASE UNCHANGED vars
    BY <1>7 DEF vars, loopVars, threadVars, Inv, LoopInv, SleepInv, QuietInv, ThreadsInv, FinInv
  <1> QED
    BY <1>1, <1>2, <1>3, <1>4, <1>5, <1>6, <1>7 DEF Next

(***************************************************************************)
(* The base is sound, the loop sleeps only when it may, and the events     *)
(* that were deleted or finalized wait for nothing: the inductive          *)
(* invariant.                                                              *)
(***************************************************************************)
THEOREM Invariance == Spec => []Inv
  <1>1. Inv /\ [Next]_vars => Inv'
    BY StepInv
  <1> QED
    BY <1>1, InitInv, PTL DEF Spec

-----------------------------------------------------------------------------
(* What the runs check *)

(* A list of n different elements has n of them. *)
LEMMA OnceEach ==
  ASSUME NEW q, NEW S, q \in Seq(S), IsInjective(q)
  PROVE  NoDup(q)
  <1> DEFINE n == Len(q)
  <1>1. n \in Nat /\ DOMAIN q = 1 .. n /\ ToSet(q) = {q[i] : i \in 1 .. n}
    BY LenProperties DEF ToSet
  <1>2. \A i, j \in 1 .. n : q[i] = q[j] => i = j
    BY <1>1 DEF IsInjective
  <1>3. q \in [1 .. n -> ToSet(q)]
    BY <1>1, LenProperties
  <1> HIDE DEF n
  <1>4. q \in Bijection(1 .. n, ToSet(q))
    BY <1>1, <1>2, <1>3 DEF Bijection, Injection, Surjection
  <1>5. Cardinality(ToSet(q)) = n
    BY <1>1, <1>4, FS_CountingElements DEF ExistsBijection
  <1> QED
    BY <1>5 DEF NoDup, n

(* The number of events that are active, now or later. *)
LEMMA ActiveCount ==
  ASSUME NEW b, Good(b)
  PROVE  b.event_count_active =
             Cardinality({e \in Ev : {"ACTIVE", "ACTIVE_LATER"} \cap b.flags[e] # {}})
  <1> DEFINE X == {e \in Ev : "ACTIVE" \in b.flags[e]}
             Y == {e \in Ev : "ACTIVE_LATER" \in b.flags[e]}
             Z == {e \in Ev : {"ACTIVE", "ACTIVE_LATER"} \cap b.flags[e] # {}}
  <1>1. X \cap Y = {}
    BY DEF Good, KindsOK
  <1>2. Z = X \cup Y
    OBVIOUS
  <1>3. IsFiniteSet(X) /\ IsFiniteSet(Y)
    BY EventsAre, FS_Subset
  <1>4. b.event_count_active = Cardinality(X) + Cardinality(Y)
    BY DEF Good, CountsOK, ActiveTally, CountOf
  <1> HIDE DEF X, Y, Z
  <1>5. Cardinality(X \cup Y) = Cardinality(X) + Cardinality(Y) - Cardinality(X \cap Y)
    BY <1>3, FS_Union
  <1>6. Cardinality(X \cap Y) = 0 /\ Cardinality(X) \in Nat /\ Cardinality(Y) \in Nat
    BY <1>1, <1>3, FS_EmptySet, FS_CardinalityType
  <1>7. Cardinality(Z) = Cardinality(X) + Cardinality(Y)
    BY <1>2, <1>5, <1>6
  <1> QED
    BY <1>4, <1>7 DEF Z

(* A sound base passes event_base_assert_ok_. *)
LEMMA GoodIsOK ==
  ASSUME Good(base)
  PROVE  BaseOK
  <1> DEFINE b == base
  <1>1. IsHeap(b.timeheap, b.tmo) /\ NoDup(b.timeheap) /\ ToSet(b.timeheap) = Timed(b)
    <2>1. HeapOf(b.timeheap, Ev, Len(b.timeheap), Timed(b), b.tmo)
      BY DEF Good, HeapOK
    <2> QED
      BY <2>1, OnceEach DEF HeapOf, IsList
  <1>2. NoDup(b.ctl) /\ ToSet(b.ctl) = CommonTimed(b)
    BY OnceEach DEF Good, CtlOK, ListOf
  <1>3. \A i \in 2 .. Len(b.ctl) : b.tmo[b.ctl[i - 1]] <= b.tmo[b.ctl[i]]
    <2> DEFINE n == Len(b.ctl)
    <2>1. b.ctl \in Seq(Ev) /\ Sorted(b.ctl, b.tmo)
      BY DEF Good, CtlOK, ListOf
    <2>2. n \in Nat
      BY <2>1, LenProperties
    <2>3. \A i, j \in 1 .. n : i <= j => b.tmo[b.ctl[i]] <= b.tmo[b.ctl[j]]
      BY <2>1 DEF Sorted
    <2> HIDE DEF n
    <2>4. \A i \in 2 .. n : i - 1 \in 1 .. n /\ i \in 1 .. n /\ i - 1 <= i
      BY <2>2
    <2>5. \A i \in 2 .. n : b.tmo[b.ctl[i - 1]] <= b.tmo[b.ctl[i]]
      BY <2>3, <2>4
    <2> QED
      BY <2>5 DEF n
  <1>4. NoDup(b.io) /\ NoDup(b.later) /\ ToSet(b.io) = OnIo(b) /\ ToSet(b.later) = PutOff(b)
    BY OnceEach DEF Good, IoOK, LaterOK, ListOf
  <1>5. \A p \in Priorities : /\ NoDup(b.activequeues[p])
                              /\ ToSet(b.activequeues[p]) = ActiveIn(b, p)
    BY OnceEach DEF Good, ActiveOK, ListOf
  <1>6. \A e \in Ev : ~({"ACTIVE", "ACTIVE_LATER"} \subseteq b.flags[e])
    BY DEF Good, KindsOK
  <1>7. b.event_count = Memberships(b)
    BY DEF Good, CountsOK, Tally, CountOf, Memberships, Has
  <1>8. b.event_count_active =
             Cardinality({e \in Ev : {"ACTIVE", "ACTIVE_LATER"} \cap b.flags[e] # {}})
    BY ActiveCount
  <1>9. /\ \A p \in Priorities :
              ToSet(b.activequeues[p]) = {e \in Ev : Pri[e] = p /\ Has(b, e, "ACTIVE")}
        /\ ToSet(b.later) = {e \in Ev : Has(b, e, "ACTIVE_LATER")}
        /\ ToSet(b.io) = {e \in IoEvents : Has(b, e, "INSERTED")}
        /\ ToSet(b.timeheap) = {e \in Ev : Has(b, e, "TIMEOUT") /\ ~b.common[e]}
        /\ ToSet(b.ctl) = {e \in Ev : Has(b, e, "TIMEOUT") /\ b.common[e]}
    BY <1>1, <1>2, <1>4, <1>5 DEF Has, ActiveIn, PutOff, OnIo, Timed, CommonTimed
  <1> QED
    BY <1>1, <1>2, <1>3, <1>4, <1>5, <1>6, <1>7, <1>8, <1>9 DEF BaseOK

(***************************************************************************)
(* event_base_assert_ok_ holds between any two steps, whatever the loop    *)
(* and the threads have called: flags, lists and heap agree, and the       *)
(* counts are exact.                                                       *)
(***************************************************************************)
THEOREM BaseCorrect == Spec => []BaseOK
  <1>1. Inv => BaseOK
    BY GoodIsOK DEF Inv, LoopInv
  <1> QED
    BY <1>1, Invariance, PTL

(***************************************************************************)
(* EVBASE_NEED_NOTIFY and the conditions under which event_add, event_del  *)
(* and event_active notify are enough: a loop asleep in its backend never  *)
(* sleeps over an active callback, a break or an earlier timer, and the    *)
(* common timeout list never waits for a timer that is not set.            *)
(***************************************************************************)
THEOREM WakeCorrect == Spec => []WakesInTime
  <1>1. Inv => NoLostWakeup
    <2> SUFFICES ASSUME Inv, pc = "poll", ~Wakes PROVE Dozes(base, wait, lag, flags)
      BY DEF NoLostWakeup, Dozes, N_ACTIVE_CALLBACKS
    <2>1. base.th_notify \in Nat
      BY DEF Inv, LoopInv, Good, Typed
    <2>2. base.th_notify = 0 /\ wait # 0
      BY <2>1 DEF Wakes
    <2> QED
      BY <2>2 DEF Inv, SleepInv
  <1>2. Inv => CommonTimeoutArmed
    BY DEF Inv, LoopInv, Armed, CommonTimeoutArmed, Has
  <1>3. Inv => WakesInTime
    BY <1>1, <1>2 DEF WakesInTime
  <1> QED
    BY <1>3, Invariance, PTL

(***************************************************************************)
(* event_del waits for a callback that runs in the loop, so an event is    *)
(* quiet once it has returned, and a finalized event whose finalizer has   *)
(* run is on no list and is not the current event.                         *)
(***************************************************************************)
THEOREM QuietCorrect == Spec => []QuietWhenGone
  <1>1. Inv => QuietAfterDel
    BY DEF Inv, QuietInv, QuietAfterDel
  <1>2. Inv => FinalizedUnreferenced
    BY DEF Inv, FinInv, FinalizedUnreferenced, Pending
  <1>3. Inv => QuietWhenGone
    BY <1>1, <1>2 DEF QuietWhenGone
  <1> QED
    BY <1>3, Invariance, PTL
=============================================================================
