----------------------------- MODULE DictProofs -----------------------------
(***************************************************************************)
(* Proofs about Dict, for every set of keys, values and entry addresses,   *)
(* every hash function and every initial size.                             *)
(***************************************************************************)
EXTENDS Dict, FiniteSetTheorems, SequenceTheorems,
        Induction, TLAPS

-----------------------------------------------------------------------------
(* The inductive invariant *)

(***************************************************************************)
(* The only table that is ever installed has InitialSize buckets: later    *)
(* calls of dictExpand drop what they allocate.                            *)
(***************************************************************************)
Buckets  == 0 .. InitialSize - 1
NewTable == [b \in Buckets |-> <<>>]
Home(k)  == Hash[k] % InitialSize

(* Entry a stands at place p of the chain of bucket b in table t. *)
At(t, b, p, a) == b \in DOMAIN t /\ p \in 1 .. Len(t[b]) /\ t[b][p] = a

(* What ChainsOK says, of a table t, place by place. *)
Chains(t) ==
    /\ t = NoTable \/ t \in [Buckets -> Seq(Entries)]
    /\ alloc \in SUBSET Entries /\ IsFiniteSet(alloc) /\ used = Cardinality(alloc)
    /\ key \in [Entries -> Keys \cup {NULL}]
    /\ val \in [Entries -> Vals \cup {NULL}]
    /\ \A a \in alloc : /\ key[a] \in Keys /\ val[a] \in Vals
                        /\ \E p \in Nat : At(t, Home(key[a]), p, a)
    /\ \A b \in DOMAIN t : \A p \in 1 .. Len(t[b]) :
          t[b][p] \in alloc /\ Home(key[t[b][p]]) = b
    /\ \A b \in DOMAIN t : \A p, q \in 1 .. Len(t[b]) : t[b][p] = t[b][q] => p = q
    /\ \A a, c \in alloc : key[a] = key[c] => a = c

(* The entries that hold v. *)
Holders(v) == {a \in alloc : val[a] = v}

Values ==
    /\ refs \in [Vals -> Nat] /\ freedVals \in SUBSET Vals
    /\ \A a \in alloc : val[a] \notin freedVals
    /\ \A v \in Vals : refs[v] = Cardinality(Holders(v))

(* In the chain of bucket b, c is a or stands behind it. *)
Behind(t, b, a, c) ==
    \E p, q \in Nat : p <= q /\ At(t, b, p, a) /\ At(t, b, q, c)

(* The iterator has yet to return entry a. *)
ToCome(a) ==
    \/ Home(key[a]) > iter.index
    \/ InChain /\ Behind(table, iter.index, iter.nextEntry, a)

(***************************************************************************)
(* The iterator's saved entry is in the bucket it stands in; of the keys   *)
(* that were there all along exactly those of entries behind it have been  *)
(* returned, and no key of an entry to come was.                           *)
(***************************************************************************)
Iterating ==
    iter # NULL =>
      /\ iter.index \in -1 .. size
      /\ iter.entry # NULL => iter.index \in DOMAIN table
      /\ iter.entry = NULL => iter.nextEntry = NULL
      /\ InChain => /\ iter.nextEntry \in alloc
                    /\ iter.nextEntry # iter.entry
                    /\ Home(key[iter.nextEntry]) = iter.index
      /\ present \subseteq {key[a] : a \in alloc}
      /\ \A k \in Keys : returned[k] = 1 => Home(k) <= iter.index
      /\ \A a \in alloc : ToCome(a) => returned[key[a]] = 0
      /\ \A a \in alloc : ~ ToCome(a) /\ key[a] \in present => returned[key[a]] = 1

IterType ==
    /\ \/ iter = NULL
       \/ iter \in [index : Int, entry : Entries \cup {NULL},
                    nextEntry : Entries \cup {NULL}]
    /\ returned \in [Keys -> {0, 1}]
    /\ present \subseteq Keys

IInv == Chains(table) /\ Values /\ IterType /\ Iterating

-----------------------------------------------------------------------------
(* Sequences *)

(* An element in front of a sequence. *)
LEMMA Prepended ==
  ASSUME NEW S, NEW s \in Seq(S), NEW a \in S
  PROVE  /\ <<a>> \o s \in Seq(S)
         /\ Len(<<a>> \o s) = Len(s) + 1 /\ Len(s) \in Nat
         /\ (<<a>> \o s)[1] = a
         /\ \A p \in 1 .. Len(s) : (<<a>> \o s)[p + 1] = s[p]
  OBVIOUS

(* One element out of a sequence. *)
LEMMA RemovedAt ==
  ASSUME NEW S, NEW s \in Seq(S), NEW i \in 1 .. Len(s)
  PROVE  /\ RemoveAt(s, i) \in Seq(S)
         /\ Len(RemoveAt(s, i)) = Len(s) - 1 /\ Len(s) \in Nat \ {0}
         /\ \A p \in 1 .. i - 1 : RemoveAt(s, i)[p] = s[p]
         /\ \A p \in i .. Len(s) - 1 : RemoveAt(s, i)[p] = s[p + 1]
  <1> DEFINE l == SubSeq(s, 1, i - 1)
             r == SubSeq(s, i + 1, Len(s))
  <1>1. Len(s) \in Nat \ {0} /\ i \in Nat
    OBVIOUS
  <1>2. /\ l \in Seq(S) /\ Len(l) = i - 1
        /\ \A p \in 1 .. i - 1 : l[p] = s[p]
    BY <1>1
  <1>3. /\ r \in Seq(S) /\ Len(r) = Len(s) - i
        /\ \A p \in 1 .. Len(s) - i : r[p] = s[i + p]
    BY <1>1
  <1>4. RemoveAt(s, i) = l \o r
    BY DEF RemoveAt
  <1> HIDE DEF l, r
  <1>5. /\ l \o r \in Seq(S) /\ Len(l \o r) = Len(s) - 1
        /\ \A p \in 1 .. Len(s) - 1 :
              (l \o r)[p] = IF p <= Len(l) THEN l[p] ELSE r[p - Len(l)]
    <2>1. /\ l \o r \in Seq(S) /\ Len(l \o r) = Len(l) + Len(r)
          /\ \A p \in 1 .. Len(l) + Len(r) :
                (l \o r)[p] = IF p <= Len(l) THEN l[p] ELSE r[p - Len(l)]
      BY <1>2, <1>3, ConcatProperties
    <2>2. Len(l) + Len(r) = Len(s) - 1
      BY <1>1, <1>2, <1>3
    <2> QED
      BY <2>1, <2>2
  <1>6. ASSUME NEW p \in i .. Len(s) - 1 PROVE (l \o r)[p] = s[p + 1]
    <2>1. (l \o r)[p] = r[p - (i - 1)]
      BY <1>1, <1>2, <1>5
    <2>2. p - (i - 1) \in 1 .. Len(s) - i /\ i + (p - (i - 1)) = p + 1
      BY <1>1
    <2> QED
      BY <2>1, <2>2, <1>3
  <1> QED
    BY <1>1, <1>2, <1>4, <1>5, <1>6

-----------------------------------------------------------------------------
(* The table *)

(* The hash of a key, masked, is a bucket of the table. *)
LEMMA HomeIsBucket == \A k \in Keys : Home(k) \in Buckets
  BY DictAssumption DEF Home, Buckets

(* sizemask + 1 is the number of buckets. *)
LEMMA BucketsSize == Cardinality(Buckets) = InitialSize /\ Buckets # {}
  <1>1. 0 \in Int /\ InitialSize - 1 \in Int /\ InitialSize - 1 >= 0
    BY DictAssumption
  <1>2. Cardinality(0 .. InitialSize - 1) = InitialSize - 1 - 0 + 1
    BY <1>1, FS_Interval
  <1> QED
    BY <1>1, <1>2, DictAssumption DEF Buckets

(* A dict without a table holds nothing; every other table has Buckets. *)
LEMMA TableShape ==
  ASSUME NEW t, Chains(t)
  PROVE  /\ t = NoTable => DOMAIN t = {} /\ alloc = {}
         /\ t # NoTable => /\ DOMAIN t = Buckets /\ t \in [Buckets -> Seq(Entries)]
                           /\ \A k \in Keys : Bucket(t, k) = Home(k)
         /\ t = NoTable <=> DOMAIN t = {}
  <1>1. DOMAIN NoTable = {}
    BY DEF NoTable
  <1>2. t = NoTable => alloc = {}
    BY <1>1 DEF Chains, At
  <1>3. t # NoTable => DOMAIN t = Buckets /\ t \in [Buckets -> Seq(Entries)]
    BY DEF Chains
  <1> QED
    BY <1>1, <1>2, <1>3, BucketsSize DEF Bucket, Home

(* _dictNextPower of the initial size is the initial size. *)
LEMMA SmallestPower == NextPower(InitialSize) = InitialSize
  <1> DEFINE S == {p \in InitialSize .. InitialSize + 2 * InitialSize :
                      /\ p >= InitialSize
                      /\ \E i \in 0 .. InitialSize : p = InitialSize * 2^i}
  <1>1. InitialSize = InitialSize * 2^0 /\ 0 \in 0 .. InitialSize
    BY DictAssumption
  <1>2. InitialSize \in S
    <2>1. \E i \in 0 .. InitialSize : InitialSize = InitialSize * 2^i
      BY <1>1
    <2> QED
      BY <2>1, DictAssumption
  <1>3. \A p \in S : p \in Int /\ p >= InitialSize
    BY DictAssumption
  <1> HIDE DEF S
  <1>4. \A x \in S : (\A y \in S : x <= y) => x = InitialSize
    BY <1>2, <1>3, DictAssumption
  <1>5. (CHOOSE x \in S : \A y \in S : x <= y) = InitialSize
    BY <1>2, <1>3, <1>4, DictAssumption
  <1> QED
    BY <1>5 DEF S, NextPower, Min

(* What dictExpand leaves, when it is called from _dictExpandIfNeeded. *)
LEMMA ExpandIs ==
  ASSUME Chains(table)
  PROVE  /\ ExpandIfNeeded = IF table = NoTable THEN NewTable ELSE table
         /\ Expand(IF used < InitialSize THEN InitialSize ELSE used) = ExpandIfNeeded
  <1>1. Expand(InitialSize) = IF table = NoTable THEN NewTable ELSE table
    BY TableShape, SmallestPower DEF Expand, NewTable, Buckets
  <1>2. CASE table = NoTable
    <2>1. DOMAIN table = {} /\ alloc = {} /\ size = 0 /\ used = 0
      BY <1>2, TableShape, FS_EmptySet DEF size, Chains
    <2> QED
      BY <2>1, <1>1, DictAssumption DEF ExpandIfNeeded
  <1>3. CASE table # NoTable
    <2>1. DOMAIN table # {} /\ size # 0
      BY <1>3, TableShape, BucketsSize, DictAssumption DEF size
    <2> QED
      BY <2>1, <1>3 DEF ExpandIfNeeded, Expand
  <1> QED
    BY <1>2, <1>3

(* The table a call works on is in order too. *)
LEMMA ExpandKeepsChains ==
  ASSUME Chains(table)
  PROVE  Chains(ExpandIfNeeded) /\ ExpandIfNeeded # NoTable
  <1>1. CASE table = NoTable
    <2>1. ExpandIfNeeded = NewTable /\ alloc = {}
      BY <1>1, ExpandIs, TableShape
    <2>2. /\ NewTable \in [Buckets -> Seq(Entries)]
          /\ DOMAIN NewTable = Buckets /\ \A b \in Buckets : Len(NewTable[b]) = 0
      BY DEF NewTable
    <2>3. NewTable # NoTable
      BY <2>2, BucketsSize DEF NoTable
    <2> QED
      BY <2>1, <2>2, <2>3 DEF Chains
  <1>2. CASE table # NoTable
    BY <1>2, ExpandIs
  <1> QED
    BY <1>1, <1>2

(***************************************************************************)
(* The walk of one chain finds the entry of k wherever it is in the table. *)
(***************************************************************************)
LEMMA LookupFinds ==
  ASSUME NEW t, Chains(t), NEW k \in Keys
  PROVE  \/ Lookup(t, k) = NULL /\ \A a \in alloc : key[a] # k
         \/ /\ Lookup(t, k) # NULL /\ Lookup(t, k) \in alloc
            /\ key[Lookup(t, k)] = k
            /\ \A a \in alloc : key[a] = k => a = Lookup(t, k)
  <1>1. CASE t = NoTable
    BY <1>1, TableShape DEF Lookup
  <1>2. CASE t # NoTable
    <2> DEFINE chain == t[Home(k)]
               hits == {p \in 1 .. Len(chain) : key[chain[p]] = k}
    <2>1. /\ DOMAIN t = Buckets /\ Buckets # {} /\ Bucket(t, k) = Home(k)
          /\ Home(k) \in Buckets
      BY <1>2, TableShape, HomeIsBucket, BucketsSize
    <2>2. Lookup(t, k) = IF hits = {} THEN NULL
                         ELSE chain[CHOOSE p \in hits : \A q \in hits : p <= q]
      BY <2>1 DEF Lookup
    <2>3. \A p \in hits : chain[p] \in alloc /\ key[chain[p]] = k
      BY <2>1 DEF Chains
    <2>4. \A p, q \in hits : p = q
      BY <2>1, <2>3 DEF Chains
    <2>5. \A a \in alloc : key[a] = k => \E p \in hits : chain[p] = a
      BY DEF Chains, At
    <2>6. ASSUME NEW p \in hits
          PROVE  Lookup(t, k) = chain[p]
      <3>1. p <= p
        OBVIOUS
      <3>2. (CHOOSE r \in hits : \A q \in hits : r <= q) = p
        <4> HIDE DEF hits
        <4> QED BY <3>1, <2>4, <2>6
      <3> QED
        BY <2>2, <3>2
    <2>7. CASE hits = {}
      BY <2>2, <2>5, <2>7
    <2>8. CASE hits # {}
      <3>1. PICK p \in hits : TRUE
        BY <2>8
      <3>2. Lookup(t, k) = chain[p] /\ chain[p] \in alloc /\ key[chain[p]] = k
        BY <3>1, <2>3, <2>6
      <3>3. chain[p] # NULL
        BY <3>2, DictAssumption DEF Chains
      <3> QED
        BY <3>2, <3>3 DEF Chains
    <2> QED
      BY <2>7, <2>8
  <1> QED
    BY <1>1, <1>2

-----------------------------------------------------------------------------
(* The chains *)

(* The entry of k is somewhere in the chain of its bucket. *)
LEMMA PlaceOfEntry ==
  ASSUME Chains(table), NEW a \in alloc
  PROVE  /\ table # NoTable /\ Home(key[a]) \in Buckets
         /\ Bucket(table, key[a]) = Home(key[a])
         /\ LET chain == table[Home(key[a])]
                i == CHOOSE p \in 1 .. Len(chain) : chain[p] = a
            IN  /\ chain \in Seq(Entries)
                /\ i \in 1 .. Len(chain) /\ chain[i] = a
                /\ \A p \in 1 .. Len(chain) : chain[p] = a => p = i
  <1>1. table # NoTable /\ key[a] \in Keys
    BY TableShape DEF Chains
  <1>2. /\ Home(key[a]) \in Buckets /\ DOMAIN table = Buckets
        /\ Bucket(table, key[a]) = Home(key[a])
        /\ table[Home(key[a])] \in Seq(Entries)
    BY <1>1, HomeIsBucket, TableShape
  <1> DEFINE chain == table[Home(key[a])]
             i == CHOOSE p \in 1 .. Len(chain) : chain[p] = a
  <1>3. \E p \in 1 .. Len(chain) : chain[p] = a
    BY DEF Chains, At
  <1>4. i \in 1 .. Len(chain) /\ chain[i] = a
    BY <1>3
  <1>5. \A p \in 1 .. Len(chain) : chain[p] = a => p = i
    <2> HIDE DEF i
    <2> QED
      BY <1>2, <1>4 DEF Chains
  <1> QED
    BY <1>1, <1>2, <1>4, <1>5

(* dictAddRaw puts a fresh entry in front of its chain. *)
LEMMA LinkKeepsChains ==
  ASSUME Chains(table), NEW k \in Keys, NEW v \in Vals, NEW a \in Entries,
         Link(k, v, a)
  PROVE  Chains(table)'
  <1> DEFINE t == ExpandIfNeeded
             h == Home(k)
  <1>1. /\ Chains(t) /\ t \in [Buckets -> Seq(Entries)] /\ DOMAIN t = Buckets
        /\ Bucket(t, k) = h /\ h \in Buckets
    BY ExpandKeepsChains, TableShape, HomeIsBucket
  <1>2. \A c \in alloc : key[c] # k
    BY <1>1, LookupFinds DEF Link
  <1>3. /\ a \in Entries \ alloc /\ alloc' = alloc \cup {a}
        /\ key' = [key EXCEPT ![a] = k] /\ val' = [val EXCEPT ![a] = v]
        /\ used' = used + 1
        /\ table' = [t EXCEPT ![h] = <<a>> \o t[h]]
    BY <1>1 DEF Link
  <1> HIDE DEF t, h
  <1>4. t[h] \in Seq(Entries)
    BY <1>1
  <1>5. /\ table'[h] \in Seq(Entries) /\ table'[h][1] = a
        /\ Len(table'[h]) = Len(t[h]) + 1 /\ Len(t[h]) \in Nat
        /\ \A p \in 1 .. Len(t[h]) : table'[h][p + 1] = t[h][p]
    BY <1>1, <1>3, <1>4, Prepended
  <1>6. /\ table' \in [Buckets -> Seq(Entries)] /\ DOMAIN table' = Buckets
        /\ \A b \in Buckets : b # h => table'[b] = t[b]
    BY <1>1, <1>3, <1>5
  <1>7. /\ key'[a] = k /\ val'[a] = v
        /\ \A c \in alloc : c # a /\ key'[c] = key[c] /\ val'[c] = val[c]
        /\ key' \in [Entries -> Keys \cup {NULL}]
        /\ val' \in [Entries -> Vals \cup {NULL}]
    BY <1>1, <1>3 DEF Chains
  <1>8. /\ alloc' \in SUBSET Entries /\ IsFiniteSet(alloc')
        /\ used' = Cardinality(alloc')
    BY <1>1, <1>3, FS_AddElement DEF Chains
  <1>9. ASSUME NEW c \in alloc'
        PROVE  /\ key'[c] \in Keys /\ val'[c] \in Vals
               /\ \E p \in Nat : At(table', Home(key'[c]), p, c)
    <2>1. CASE c = a
      <3>1. At(table', h, 1, a)
        BY <1>1, <1>5, <1>6 DEF At
      <3> QED
        BY <2>1, <3>1, <1>7 DEF h
    <2>2. CASE c \in alloc
      <3>1. PICK p \in Nat : At(t, Home(key[c]), p, c)
        BY <2>2, <1>1 DEF Chains
      <3> DEFINE b == Home(key[c])
      <3> HIDE DEF b
      <3>2. b \in Buckets /\ p \in 1 .. Len(t[b]) /\ t[b][p] = c
        BY <3>1, <1>1 DEF At, b
      <3>3. CASE b = h
        <4>1. p + 1 \in 1 .. Len(table'[h]) /\ table'[h][p + 1] = c
          BY <3>2, <3>3, <1>5
        <4>2. At(table', b, p + 1, c)
          BY <4>1, <3>2, <3>3, <1>6 DEF At
        <4> QED
          BY <4>2, <2>2, <1>1, <1>7 DEF Chains, b
      <3>4. CASE b # h
        <4>1. At(table', b, p, c)
          BY <3>2, <3>4, <1>6 DEF At
        <4> QED
          BY <4>1, <2>2, <1>1, <1>7 DEF Chains, b
      <3> QED
        BY <3>3, <3>4
    <2> QED
      BY <2>1, <2>2, <1>3
  <1>10. ASSUME NEW b \in DOMAIN table', NEW p \in 1 .. Len(table'[b])
         PROVE  table'[b][p] \in alloc' /\ Home(key'[table'[b][p]]) = b
    <2>1. CASE b # h
      BY <2>1, <1>1, <1>3, <1>6, <1>7 DEF Chains
    <2>2. CASE b = h /\ p = 1
      BY <2>2, <1>3, <1>5, <1>7 DEF h
    <2>3. CASE b = h /\ p # 1
      <3>1. p - 1 \in 1 .. Len(t[h]) /\ table'[h][p] = t[h][p - 1]
        <4>1. p - 1 \in 1 .. Len(t[h])
          BY <2>3, <1>5
        <4>2. table'[h][(p - 1) + 1] = t[h][p - 1]
          BY <4>1, <1>5
        <4> QED
          BY <4>1, <4>2, <2>3, <1>5
      <3> QED
        BY <3>1, <2>3, <1>1, <1>3, <1>7 DEF Chains
    <2> QED
      BY <2>1, <2>2, <2>3
  <1>11. ASSUME NEW b \in DOMAIN table', NEW p \in 1 .. Len(table'[b]),
                NEW q \in 1 .. Len(table'[b]), table'[b][p] = table'[b][q]
         PROVE  p = q
    <2>1. CASE b # h
      BY <2>1, <1>1, <1>6, <1>11 DEF Chains
    <2>2. CASE b = h
      <3>1. \A r \in 1 .. Len(table'[h]) :
               r # 1 => /\ r - 1 \in 1 .. Len(t[h])
                        /\ table'[h][r] = t[h][r - 1]
        <4> SUFFICES ASSUME NEW r \in 1 .. Len(table'[h]), r # 1
                     PROVE  /\ r - 1 \in 1 .. Len(t[h])
                            /\ table'[h][r] = t[h][r - 1]
          OBVIOUS
        <4>1. r - 1 \in 1 .. Len(t[h]) /\ (r - 1) + 1 = r
          BY <1>5
        <4> QED
          BY <4>1, <1>5
      <3>2. \A r \in 1 .. Len(t[h]) : t[h][r] # a
        BY <1>1, <1>3 DEF Chains
      <3>3. \A r \in 1 .. Len(table'[h]) : table'[h][r] = a => r = 1
        BY <3>1, <3>2
      <3>4. CASE p = 1 \/ q = 1
        BY <3>3, <3>4, <2>2, <1>5, <1>11
      <3>5. CASE p # 1 /\ q # 1
        <4>1. /\ p - 1 \in 1 .. Len(t[h]) /\ table'[h][p] = t[h][p - 1]
              /\ q - 1 \in 1 .. Len(t[h]) /\ table'[h][q] = t[h][q - 1]
          BY <3>1, <3>5, <2>2
        <4>2. t[h][p - 1] = t[h][q - 1]
          BY <4>1, <2>2, <1>11
        <4>3. p - 1 = q - 1
          BY <4>1, <4>2, <1>1 DEF Chains
        <4> QED
          BY <4>3, <2>2, <1>5
      <3> QED
        BY <3>4, <3>5
    <2> QED
      BY <2>1, <2>2
  <1>12. \A c, d \in alloc' : key'[c] = key'[d] => c = d
    BY <1>1, <1>2, <1>3, <1>7 DEF Chains
  <1> QED
    BY <1>6, <1>7, <1>8, <1>9, <1>10, <1>11, <1>12 DEF Chains

(* Where the entries stand in the table dictAddRaw leaves. *)
LEMMA LinkPlaces ==
  ASSUME Chains(table), NEW k \in Keys, NEW v \in Vals, NEW a \in Entries,
         Link(k, v, a)
  PROVE  /\ \A b, p, c : b # Home(k) =>
               (At(table', b, p, c) <=> At(ExpandIfNeeded, b, p, c))
         /\ \A p \in Nat : \A c :
               At(table', Home(k), p, c) <=>
                 \/ p = 1 /\ c = a
                 \/ At(ExpandIfNeeded, Home(k), p - 1, c)
  <1> DEFINE t == ExpandIfNeeded
             h == Home(k)
  <1>1. /\ t \in [Buckets -> Seq(Entries)] /\ DOMAIN t = Buckets
        /\ Bucket(t, k) = h /\ h \in Buckets
    BY ExpandKeepsChains, TableShape, HomeIsBucket
  <1>2. table' = [t EXCEPT ![h] = <<a>> \o t[h]]
    BY <1>1 DEF Link
  <1> HIDE DEF t, h
  <1>3. /\ table'[h] = <<a>> \o t[h] /\ t[h] \in Seq(Entries)
        /\ DOMAIN table' = Buckets
        /\ \A b \in Buckets : b # h => table'[b] = t[b]
    BY <1>1, <1>2
  <1>4. /\ table'[h][1] = a
        /\ Len(table'[h]) = Len(t[h]) + 1 /\ Len(t[h]) \in Nat
        /\ \A p \in 1 .. Len(t[h]) : table'[h][p + 1] = t[h][p]
    BY <1>3, Prepended
  <1>5. ASSUME NEW b, NEW p, NEW c, b # h
        PROVE  At(table', b, p, c) <=> At(t, b, p, c)
    BY <1>1, <1>3, <1>5 DEF At
  <1>6. ASSUME NEW p \in Nat, NEW c
        PROVE  At(table', h, p, c) <=> (p = 1 /\ c = a) \/ At(t, h, p - 1, c)
    <2>1. CASE p = 1
      BY <2>1, <1>1, <1>3, <1>4 DEF At
    <2>2. CASE p - 1 \in 1 .. Len(t[h])
      <3>1. p \in 1 .. Len(table'[h]) /\ p # 1 /\ (p - 1) + 1 = p
        BY <2>2, <1>4
      <3>2. table'[h][p] = t[h][p - 1]
        BY <3>1, <2>2, <1>4
      <3> QED
        BY <3>1, <3>2, <2>2, <1>1, <1>3 DEF At
    <2>3. CASE p # 1 /\ p - 1 \notin 1 .. Len(t[h])
      <3>1. p \notin 1 .. Len(table'[h])
        BY <2>3, <1>4
      <3> QED
        BY <3>1, <2>3 DEF At
    <2> QED
      BY <2>1, <2>2, <2>3
  <1> QED
    BY <1>5, <1>6 DEF t, h

(* A fresh entry comes before all others and leaves their order alone. *)
LEMMA LinkOrder ==
  ASSUME Chains(table), NEW k \in Keys, NEW v \in Vals, NEW a \in Entries,
         Link(k, v, a), table # NoTable
  PROVE  /\ \A b : \A c, d \in alloc :
               Behind(table', b, c, d) <=> Behind(table, b, c, d)
         /\ \A b : \A c \in alloc : ~ Behind(table', b, c, a)
  <1>1. ExpandIfNeeded = table /\ a \notin alloc
    BY ExpandIs DEF Link
  <1>2. \A b, p : ~ At(table, b, p, a)
    BY <1>1 DEF Chains, At
  <1>3. /\ \A b, p, c : b # Home(k) => (At(table', b, p, c) <=> At(table, b, p, c))
        /\ \A p \in Nat : \A c :
              At(table', Home(k), p, c) <=>
                 (p = 1 /\ c = a) \/ At(table, Home(k), p - 1, c)
    BY <1>1, LinkPlaces
  <1>4. \A b, c : \A p \in Int : At(table, b, p, c) => p \in Nat /\ p # 0
    BY DEF At
  <1>5. ASSUME NEW b, NEW c \in alloc, NEW d \in alloc
        PROVE  Behind(table', b, c, d) <=> Behind(table, b, c, d)
    <2>1. CASE b # Home(k)
      BY <2>1, <1>3 DEF Behind
    <2>2. CASE b = Home(k)
      <3>1. ASSUME Behind(table', b, c, d) PROVE Behind(table, b, c, d)
        <4>1. PICK p \in Nat, q \in Nat :
                 p <= q /\ At(table', b, p, c) /\ At(table', b, q, d)
          BY <3>1 DEF Behind
        <4>2. At(table, b, p - 1, c) /\ At(table, b, q - 1, d)
          BY <4>1, <2>2, <1>1, <1>3
        <4>3. p - 1 \in Nat /\ q - 1 \in Nat /\ p - 1 <= q - 1
          BY <4>1, <4>2, <1>4
        <4> QED
          BY <4>2, <4>3 DEF Behind
      <3>2. ASSUME Behind(table, b, c, d) PROVE Behind(table', b, c, d)
        <4>1. PICK p \in Nat, q \in Nat :
                 p <= q /\ At(table, b, p, c) /\ At(table, b, q, d)
          BY <3>2 DEF Behind
        <4>2. /\ p + 1 \in Nat /\ q + 1 \in Nat /\ p + 1 <= q + 1
              /\ (p + 1) - 1 = p /\ (q + 1) - 1 = q
          BY <4>1
        <4>3. At(table', b, p + 1, c) /\ At(table', b, q + 1, d)
          BY <4>1, <4>2, <2>2, <1>3
        <4> QED
          BY <4>2, <4>3 DEF Behind
      <3> QED
        BY <3>1, <3>2
    <2> QED
      BY <2>1, <2>2
  <1>6. ASSUME NEW b, NEW c \in alloc, Behind(table', b, c, a)
        PROVE  FALSE
    <2>1. PICK p \in Nat, q \in Nat :
             p <= q /\ At(table', b, p, c) /\ At(table', b, q, a)
      BY <1>6 DEF Behind
    <2>2. b = Home(k) /\ q = 1
      BY <2>1, <1>2, <1>3
    <2>3. At(table, b, p - 1, c) /\ p - 1 \in Nat /\ p - 1 # 0
      BY <2>1, <2>2, <1>1, <1>3, <1>4
    <2> QED
      BY <2>1, <2>2, <2>3
  <1> QED
    BY <1>5, <1>6

(* Where the entries stand in the table dictGenericDelete leaves. *)
LEMMA UnlinkPlaces ==
  ASSUME Chains(table), NEW k \in Keys, Unlink(k)
  PROVE  \E i \in Nat :
           /\ table # NoTable /\ Lookup(table, k) \in alloc
           /\ key[Lookup(table, k)] = k
           /\ table' \in [Buckets -> Seq(Entries)]
           /\ At(table, Home(k), i, Lookup(table, k))
           /\ \A b, p, c : b # Home(k) => (At(table', b, p, c) <=> At(table, b, p, c))
           /\ \A p \in Nat : \A c :
                 At(table', Home(k), p, c) <=>
                   \/ p < i /\ At(table, Home(k), p, c)
                   \/ p >= i /\ At(table, Home(k), p + 1, c)
  <1> DEFINE he == Lookup(table, k)
             h == Home(k)
             chain == table[h]
             i == CHOOSE p \in 1 .. Len(chain) : chain[p] = he
  <1>1. he \in alloc /\ key[he] = k
    BY LookupFinds DEF Unlink
  <1>2. /\ table # NoTable /\ h \in Buckets /\ Bucket(table, k) = h
        /\ chain \in Seq(Entries) /\ i \in 1 .. Len(chain) /\ chain[i] = he
    <2> HIDE DEF he
    <2> QED
      BY <1>1, PlaceOfEntry
  <1>3. table \in [Buckets -> Seq(Entries)] /\ DOMAIN table = Buckets
    BY <1>2, TableShape
  <1>4. table' = [table EXCEPT ![h] = RemoveAt(chain, i)]
    BY <1>2, <1>3 DEF Unlink
  <1> HIDE DEF he, h, chain, i
  <1>5. /\ RemoveAt(chain, i) \in Seq(Entries)
        /\ Len(RemoveAt(chain, i)) = Len(chain) - 1 /\ Len(chain) \in Nat \ {0}
        /\ \A p \in 1 .. i - 1 : RemoveAt(chain, i)[p] = chain[p]
        /\ \A p \in i .. Len(chain) - 1 : RemoveAt(chain, i)[p] = chain[p + 1]
    BY <1>2, RemovedAt
  <1>6. /\ table' \in [Buckets -> Seq(Entries)] /\ DOMAIN table' = Buckets
        /\ table'[h] = RemoveAt(chain, i)
        /\ \A b \in Buckets : b # h => table'[b] = table[b]
    BY <1>2, <1>3, <1>4, <1>5
  <1>7. i \in Nat /\ i >= 1 /\ i <= Len(chain)
    BY <1>2, <1>5
  <1>8. At(table, h, i, he)
    BY <1>2, <1>3 DEF At, chain
  <1>9. ASSUME NEW b, NEW p, NEW c, b # h
        PROVE  At(table', b, p, c) <=> At(table, b, p, c)
    BY <1>3, <1>6, <1>9 DEF At
  <1>10. ASSUME NEW p \in Nat, NEW c
         PROVE  At(table', h, p, c) <=> \/ p < i /\ At(table, h, p, c)
                                        \/ p >= i /\ At(table, h, p + 1, c)
    <2>0. /\ At(table', h, p, c) <=> p \in 1 .. Len(chain) - 1 /\ RemoveAt(chain, i)[p] = c
          /\ At(table, h, p, c) <=> p \in 1 .. Len(chain) /\ chain[p] = c
          /\ At(table, h, p + 1, c) <=> p + 1 \in 1 .. Len(chain) /\ chain[p + 1] = c
      BY <1>2, <1>3, <1>5, <1>6 DEF At, chain
    <2>1. CASE p < i
      <3>1. p \in 1 .. Len(chain) - 1 <=> p \in 1 .. Len(chain)
        BY <2>1, <1>5, <1>7
      <3>2. p \in 1 .. Len(chain) => RemoveAt(chain, i)[p] = chain[p]
        BY <2>1, <1>5, <1>7
      <3>3. ~ (p >= i)
        BY <2>1, <1>7
      <3> QED
        BY <2>0, <2>1, <3>1, <3>2, <3>3
    <2>2. CASE p >= i
      <3>1. p \in 1 .. Len(chain) - 1 <=> p + 1 \in 1 .. Len(chain)
        BY <2>2, <1>5, <1>7
      <3>2. p + 1 \in 1 .. Len(chain) => RemoveAt(chain, i)[p] = chain[p + 1]
        BY <2>2, <1>5, <1>7
      <3>3. ~ (p < i)
        BY <2>2, <1>7
      <3> QED
        BY <2>0, <2>2, <3>1, <3>2, <3>3
    <2> QED
      BY <2>1, <2>2, <1>7
  <1> QED
    BY <1>1, <1>2, <1>6, <1>7, <1>8, <1>9, <1>10 DEF he, h

(* The entry of every place, once more, as a fact about At. *)
LEMMA AtFacts ==
  ASSUME NEW t, Chains(t)
  PROVE  /\ \A b, p, c : At(t, b, p, c) =>
               c \in alloc /\ Home(key[c]) = b /\ p \in Nat /\ p # 0 /\ b \in DOMAIN t
         /\ \A b, p, q, c : At(t, b, p, c) /\ At(t, b, q, c) => p = q
         /\ \A b, p, c, d : At(t, b, p, c) /\ At(t, b, p, d) => c = d
         /\ \A c \in alloc : \E p \in Nat : At(t, Home(key[c]), p, c)
  <1>1. \A b, p, c : At(t, b, p, c) =>
           c \in alloc /\ Home(key[c]) = b /\ p \in Nat /\ p # 0 /\ b \in DOMAIN t
    BY DEF At, Chains
  <1>2. \A b, p, q, c : At(t, b, p, c) /\ At(t, b, q, c) => p = q
    BY DEF At, Chains
  <1>3. \A b, p, c, d : At(t, b, p, c) /\ At(t, b, p, d) => c = d
    BY DEF At
  <1>4. \A c \in alloc : \E p \in Nat : At(t, Home(key[c]), p, c)
    BY DEF Chains
  <1> QED
    BY <1>1, <1>2, <1>3, <1>4

(* Taking an entry out leaves the order of the others alone. *)
LEMMA UnlinkOrder ==
  ASSUME Chains(table), NEW k \in Keys, Unlink(k)
  PROVE  \A b : \A c, d \in alloc \ {Lookup(table, k)} :
            Behind(table', b, c, d) <=> Behind(table, b, c, d)
  <1>1. PICK i \in Nat :
           /\ At(table, Home(k), i, Lookup(table, k))
           /\ \A b, p, c : b # Home(k) => (At(table', b, p, c) <=> At(table, b, p, c))
           /\ \A p \in Nat : \A c :
                 At(table', Home(k), p, c) <=>
                   \/ p < i /\ At(table, Home(k), p, c)
                   \/ p >= i /\ At(table, Home(k), p + 1, c)
    BY UnlinkPlaces
  <1> DEFINE old(p) == IF p < i THEN p ELSE p + 1
             new(p) == IF p < i THEN p ELSE p - 1
  <1>2. ASSUME NEW b, NEW c \in alloc \ {Lookup(table, k)},
               NEW d \in alloc \ {Lookup(table, k)}
        PROVE  Behind(table', b, c, d) <=> Behind(table, b, c, d)
    <2>1. CASE b # Home(k)
      BY <2>1, <1>1 DEF Behind
    <2>2. CASE b = Home(k)
      <3>1. ASSUME Behind(table', b, c, d) PROVE Behind(table, b, c, d)
        <4>1. PICK p \in Nat, q \in Nat :
                 p <= q /\ At(table', b, p, c) /\ At(table', b, q, d)
          BY <3>1 DEF Behind
        <4>2. At(table, b, old(p), c) /\ At(table, b, old(q), d)
          BY <4>1, <2>2, <1>1
        <4>3. old(p) \in Nat /\ old(q) \in Nat /\ old(p) <= old(q)
          BY <4>1
        <4> QED
          BY <4>2, <4>3 DEF Behind
      <3>2. ASSUME Behind(table, b, c, d) PROVE Behind(table', b, c, d)
        <4>1. PICK p \in Nat, q \in Nat :
                 p <= q /\ At(table, b, p, c) /\ At(table, b, q, d)
          BY <3>2 DEF Behind
        <4>2. p # i /\ q # i
          BY <4>1, <2>2, <1>1, AtFacts
        <4>3. /\ new(p) \in Nat /\ new(q) \in Nat /\ new(p) <= new(q)
              /\ p < i => new(p) = p /\ new(p) < i
              /\ ~ (p < i) => new(p) >= i /\ new(p) + 1 = p
              /\ q < i => new(q) = q /\ new(q) < i
              /\ ~ (q < i) => new(q) >= i /\ new(q) + 1 = q
          BY <4>1, <4>2
        <4> HIDE DEF new
        <4>4. At(table', b, new(p), c)
          BY <4>1, <4>3, <2>2, <1>1
        <4>5. At(table', b, new(q), d)
          BY <4>1, <4>3, <2>2, <1>1
        <4> QED
          BY <4>3, <4>4, <4>5 DEF Behind
      <3> QED
        BY <3>1, <3>2
    <2> QED
      BY <2>1, <2>2
  <1> QED
    BY <1>2

(* dictGenericDelete takes the entry of k out of its chain and frees it. *)
LEMMA UnlinkKeepsChains ==
  ASSUME Chains(table), NEW k \in Keys, Unlink(k)
  PROVE  Chains(table)'
  <1> DEFINE he == Lookup(table, k)
             h == Home(k)
  <1>1. PICK i \in Nat :
           /\ table # NoTable /\ he \in alloc /\ key[he] = k
           /\ table' \in [Buckets -> Seq(Entries)] /\ At(table, h, i, he)
           /\ \A b, p, c : b # h => (At(table', b, p, c) <=> At(table, b, p, c))
           /\ \A p \in Nat : \A c :
                 At(table', h, p, c) <=> \/ p < i /\ At(table, h, p, c)
                                         \/ p >= i /\ At(table, h, p + 1, c)
    BY UnlinkPlaces
  <1>2. /\ alloc' = alloc \ {he} /\ used' = used - 1
        /\ key' = [key EXCEPT ![he] = NULL] /\ val' = [val EXCEPT ![he] = NULL]
    BY DEF Unlink
  <1> HIDE DEF he, h
  <1>3. /\ key' \in [Entries -> Keys \cup {NULL}]
        /\ val' \in [Entries -> Vals \cup {NULL}]
        /\ \A c \in alloc' : c \in alloc /\ c # he /\ key'[c] = key[c] /\ val'[c] = val[c]
    BY <1>1, <1>2 DEF Chains
  <1>4. /\ alloc' \in SUBSET Entries /\ IsFiniteSet(alloc')
        /\ used' = Cardinality(alloc')
    BY <1>1, <1>2, FS_RemoveElement DEF Chains
  <1>5. ASSUME NEW c \in alloc'
        PROVE  /\ key'[c] \in Keys /\ val'[c] \in Vals
               /\ \E p \in Nat : At(table', Home(key'[c]), p, c)
    <2>1. c \in alloc /\ c # he /\ key'[c] = key[c] /\ key[c] \in Keys /\ val'[c] \in Vals
      BY <1>3 DEF Chains
    <2>2. PICK p \in Nat : At(table, Home(key[c]), p, c)
      BY <2>1, AtFacts
    <2>3. CASE Home(key[c]) # h
      BY <2>1, <2>2, <2>3, <1>1
    <2>4. CASE Home(key[c]) = h
      <3>1. p # i
        BY <2>1, <2>2, <2>4, <1>1, AtFacts
      <3>2. CASE p < i
        BY <3>2, <2>1, <2>2, <2>4, <1>1
      <3>3. CASE p > i
        <4>1. p - 1 \in Nat /\ p - 1 >= i /\ (p - 1) + 1 = p
          BY <3>3
        <4>2. At(table', h, p - 1, c)
          BY <4>1, <2>2, <2>4, <1>1
        <4> QED
          BY <4>1, <4>2, <2>1, <2>4
      <3> QED
        BY <3>1, <3>2, <3>3
    <2> QED
      BY <2>3, <2>4
  <1>6. ASSUME NEW b, NEW c, NEW p \in Nat, At(table', b, p, c)
        PROVE  c \in alloc' /\ Home(key'[c]) = b
    <2>1. CASE b # h
      <3>1. At(table, b, p, c)
        BY <2>1, <1>1, <1>6
      <3>2. c \in alloc /\ Home(key[c]) = b /\ Home(key[he]) = h
        BY <3>1, <1>1, AtFacts
      <3> QED
        BY <3>2, <2>1, <1>2, <1>3
    <2>2. CASE b = h
      <3>1. PICK r \in Nat : r # i /\ At(table, h, r, c)
        <4>1. CASE p < i
          BY <4>1, <2>2, <1>1, <1>6
        <4>2. CASE p >= i
          <5>1. p + 1 \in Nat /\ p + 1 # i /\ ~ (p < i)
            BY <4>2
          <5>2. At(table, h, p + 1, c)
            BY <5>1, <2>2, <1>1, <1>6
          <5> QED
            BY <5>1, <5>2
        <4> QED
          BY <4>1, <4>2
      <3>2. c \in alloc /\ Home(key[c]) = h /\ c # he
        BY <3>1, <1>1, AtFacts
      <3> QED
        BY <3>2, <2>2, <1>2, <1>3
    <2> QED
      BY <2>1, <2>2
  <1>7. ASSUME NEW b, NEW c, NEW p \in Nat, NEW q \in Nat,
               At(table', b, p, c), At(table', b, q, c)
        PROVE  p = q
    <2>1. CASE b # h
      BY <2>1, <1>1, <1>7, AtFacts
    <2>2. CASE b = h
      <3> DEFINE old(r) == IF r < i THEN r ELSE r + 1
      <3>1. At(table, h, old(p), c) /\ At(table, h, old(q), c)
        BY <2>2, <1>1, <1>7
      <3>2. old(p) = old(q)
        BY <3>1, AtFacts
      <3> QED
        BY <3>2
    <2> QED
      BY <2>1, <2>2
  <1>8. \A c, d \in alloc' : key'[c] = key'[d] => c = d
    BY <1>3 DEF Chains
  <1>9. \A b \in DOMAIN table' : \A p \in 1 .. Len(table'[b]) :
           p \in Nat /\ At(table', b, p, table'[b][p])
    BY <1>1 DEF At
  <1>10. \A b \in DOMAIN table' : \A p \in 1 .. Len(table'[b]) :
            table'[b][p] \in alloc' /\ Home(key'[table'[b][p]]) = b
    BY <1>6, <1>9
  <1>11. \A b \in DOMAIN table' : \A p, q \in 1 .. Len(table'[b]) :
            table'[b][p] = table'[b][q] => p = q
    BY <1>7, <1>9
  <1> QED
    BY <1>1, <1>3, <1>4, <1>5, <1>8, <1>10, <1>11 DEF Chains

(* Every call leaves the chains in order. *)
LEMMA ChainsStep ==
  ASSUME Chains(table), [Next]_vars
  PROVE  Chains(table)'
  <1>1. ASSUME table' = ExpandIfNeeded, UNCHANGED <<used, alloc, key>>,
               val' \in [Entries -> Vals \cup {NULL}],
               \A a \in alloc : val'[a] \in Vals
        PROVE  Chains(table)'
    <2>1. Chains(ExpandIfNeeded)
      BY ExpandKeepsChains
    <2> QED
      BY <1>1, <2>1 DEF Chains
  <1>2. ASSUME UNCHANGED <<used, alloc, key, val>>, table' = table \/ table' = ExpandIfNeeded
        PROVE  Chains(table)'
    <2>1. /\ val' \in [Entries -> Vals \cup {NULL}]
          /\ \A a \in alloc : val'[a] \in Vals
      BY <1>2 DEF Chains
    <2>2. CASE table' = table
      BY <1>2, <2>2 DEF Chains
    <2>3. CASE table' = ExpandIfNeeded
      BY <1>1, <1>2, <2>1, <2>3
    <2> QED
      BY <1>2, <2>2, <2>3
  <1>3. ASSUME NEW k \in Keys, NEW v \in Vals, NEW a \in Entries,
               Add(k, v, a) \/ ReplaceAbsent(k, v, a)
        PROVE  Chains(table)'
    BY <1>3, LinkKeepsChains DEF Add, ReplaceAbsent
  <1>4. ASSUME NEW k \in Keys, AddExisting(k)
        PROVE  Chains(table)'
    BY <1>2, <1>4 DEF AddExisting
  <1>5. ASSUME NEW k \in Keys, NEW v \in Vals, ReplaceExisting(k, v)
        PROVE  Chains(table)'
    <2> DEFINE he == Lookup(ExpandIfNeeded, k)
    <2>1. /\ table' = ExpandIfNeeded /\ UNCHANGED <<used, alloc, key>>
          /\ val' = [val EXCEPT ![he] = v]
      BY <1>5 DEF ReplaceExisting
    <2> HIDE DEF he
    <2>2. /\ val' \in [Entries -> Vals \cup {NULL}]
          /\ \A a \in alloc : val'[a] \in Vals
      BY <2>1 DEF Chains
    <2> QED
      BY <1>1, <2>1, <2>2
  <1>6. ASSUME NEW k \in Keys, Delete(k) \/ DeleteNoFree(k)
        PROVE  Chains(table)'
    BY <1>6, UnlinkKeepsChains DEF Delete, DeleteNoFree
  <1>7. CASE Empty
    <2>1. /\ table' = NoTable /\ used' = 0 /\ alloc' = {}
          /\ key' \in [Entries -> Keys \cup {NULL}]
          /\ val' \in [Entries -> Vals \cup {NULL}]
      BY <1>7 DEF Empty
    <2> QED
      BY <2>1, FS_EmptySet DEF Chains, NoTable
  <1>8. CASE Resize
    BY <1>2, <1>8, ExpandIs DEF Resize
  <1>9. ASSUME UNCHANGED tableVars
        PROVE  Chains(table)'
    BY <1>2, <1>9 DEF tableVars
  <1>10. CASE \/ \E k \in Keys : DeleteAbsent(k) \/ FetchValue(k)
              \/ GetIterator \/ NextInChain \/ NextBucket \/ NextDone
              \/ ReleaseIterator \/ UNCHANGED vars
    BY <1>9, <1>10 DEF DeleteAbsent, FetchValue, GetIterator, NextInChain,
       NextBucket, NextDone, ReleaseIterator, Yield, vars
  <1> QED
    BY <1>3, <1>4, <1>5, <1>6, <1>7, <1>8, <1>10 DEF Next

-----------------------------------------------------------------------------
(* The values *)

(* The reference count of a value is that of its holders. *)
LEMMA HoldersFinite ==
  ASSUME Chains(table), Values, NEW v \in Vals
  PROVE  /\ IsFiniteSet(Holders(v)) /\ refs[v] = Cardinality(Holders(v))
         /\ refs[v] \in Nat
         /\ refs[v] = 0 <=> Holders(v) = {}
  <1>1. IsFiniteSet(Holders(v))
    BY FS_Subset DEF Chains, Holders
  <1> QED
    BY <1>1, FS_EmptySet DEF Values

(* dictSetVal of a fresh entry takes one reference to the value passed in. *)
LEMMA LinkKeepsValues ==
  ASSUME Chains(table), Values,
         NEW k \in Keys, NEW v \in Vals, NEW a \in Entries, Link(k, v, a)
  PROVE  Values'
  <1>1. /\ refs' = [refs EXCEPT ![v] = @ + 1]
        /\ freedVals' = IF refs[v] = 0 THEN freedVals \ {v} ELSE freedVals
    BY DEF Link, Store, Dup, Passed, Memory
  <1>2. a \notin alloc /\ alloc' = alloc \cup {a} /\ val' = [val EXCEPT ![a] = v]
    BY DEF Link
  <1>3. val'[a] = v /\ \A c \in alloc : val'[c] = val[c]
    BY <1>2 DEF Chains
  <1>4. refs' \in [Vals -> Nat] /\ freedVals' \in SUBSET Vals
    BY <1>1 DEF Values
  <1>5. ASSUME NEW c \in alloc' PROVE val'[c] \notin freedVals'
    <2>1. CASE c \in alloc
      BY <2>1, <1>1, <1>3 DEF Values
    <2>2. CASE c = a
      <3>1. CASE refs[v] = 0
        BY <2>2, <3>1, <1>1, <1>3
      <3>2. CASE refs[v] # 0
        <4>1. PICK d \in alloc : val[d] = v
          <5>1. Holders(v) # {}
            BY <3>2, HoldersFinite
          <5> QED
            BY <5>1 DEF Holders
        <4> QED
          BY <4>1, <2>2, <3>2, <1>1, <1>3 DEF Values
      <3> QED
        BY <3>1, <3>2
    <2> QED
      BY <2>1, <2>2, <1>2
  <1>6. ASSUME NEW w \in Vals PROVE refs'[w] = Cardinality(Holders(w)')
    <2>1. CASE w = v
      <3>1. Holders(w)' = Holders(v) \cup {a} /\ a \notin Holders(v)
        BY <2>1, <1>2, <1>3 DEF Holders
      <3>2. refs'[v] = refs[v] + 1
        BY <1>1 DEF Values
      <3>3. IsFiniteSet(Holders(v)) /\ refs[v] = Cardinality(Holders(v))
        BY HoldersFinite
      <3>4. Cardinality(Holders(v) \cup {a}) = Cardinality(Holders(v)) + 1
        BY <3>1, <3>3, FS_AddElement
      <3> QED
        BY <3>1, <3>2, <3>3, <3>4, <2>1
    <2>2. CASE w # v
      <3>1. Holders(w)' = Holders(w)
        BY <2>2, <1>2, <1>3 DEF Holders
      <3>2. refs'[w] = refs[w]
        BY <2>2, <1>1 DEF Values
      <3> QED
        BY <3>1, <3>2, HoldersFinite
    <2> QED
      BY <2>1, <2>2
  <1> QED
    BY <1>4, <1>5, <1>6 DEF Values

(***************************************************************************)
(* dictReplace: with the new value set before the old one is freed, the    *)
(* old value is freed for good only if no entry holds it any more.         *)
(***************************************************************************)
LEMMA ReplaceKeepsValues ==
  ASSUME Chains(table), Values, NEW k \in Keys, NEW v \in Vals, ReplaceExisting(k, v)
  PROVE  Values'
  <1>1. PICK he \in alloc, old \in Vals :
           he = Lookup(ExpandIfNeeded, k) /\ old = val[he]
    BY ExpandKeepsChains, LookupFinds DEF ReplaceExisting, Chains
  <1> DEFINE refs1 == [refs EXCEPT ![v] = @ + 1]
             freed1 == IF refs[v] = 0 THEN freedVals \ {v} ELSE freedVals
  <1>2. /\ refs' = [refs1 EXCEPT ![old] = @ - 1]
        /\ freedVals' = IF refs1[old] = 1 THEN freed1 \cup {old} ELSE freed1
    BY <1>1 DEF ReplaceExisting, Store, Dup, Passed, Memory, Destroy
  <1>3. alloc' = alloc /\ val' = [val EXCEPT ![he] = v]
    BY <1>1 DEF ReplaceExisting
  <1>4. val'[he] = v /\ \A c \in alloc : c # he => val'[c] = val[c]
    BY <1>1, <1>3 DEF Chains
  <1>5. /\ he \in Holders(old) /\ refs[old] # 0 /\ refs[old] \in Nat
        /\ old \notin freedVals /\ refs[v] \in Nat /\ refs \in [Vals -> Nat]
    BY <1>1, HoldersFinite DEF Holders, Values
  <1>6. CASE old = v
    <2>1. refs' = refs
      BY <1>2, <1>5, <1>6
    <2>2. freedVals' = freedVals
      BY <1>1, <1>2, <1>5, <1>6
    <2>3. \A c \in alloc : val'[c] = val[c]
      BY <1>1, <1>4, <1>6
    <2>4. \A w \in Vals : Holders(w)' = Holders(w)
      BY <2>3, <1>3 DEF Holders
    <2> QED
      BY <2>1, <2>2, <2>3, <2>4, <1>3 DEF Values
  <1>7. CASE old # v
    <2>1. /\ refs' \in [Vals -> Nat] /\ refs'[old] = refs[old] - 1
          /\ refs'[v] = refs[v] + 1
          /\ \A w \in Vals : w # old /\ w # v => refs'[w] = refs[w]
          /\ refs1[old] = refs[old]
      BY <1>1, <1>2, <1>5, <1>7
    <2> HIDE DEF refs1
    <2>2. freedVals' \in SUBSET Vals
      BY <1>1, <1>2 DEF Values
    <2>3. /\ Holders(v)' = Holders(v) \cup {he} /\ he \notin Holders(v)
          /\ Holders(old)' = Holders(old) \ {he}
          /\ \A w \in Vals : w # old /\ w # v => Holders(w)' = Holders(w)
      BY <1>1, <1>3, <1>4, <1>7 DEF Holders
    <2>4. /\ IsFiniteSet(Holders(old)) /\ refs[old] = Cardinality(Holders(old))
          /\ IsFiniteSet(Holders(v)) /\ refs[v] = Cardinality(Holders(v))
      BY <1>1, HoldersFinite
    <2>5. refs'[v] = Cardinality(Holders(v)')
      BY <2>1, <2>3, <2>4, FS_AddElement
    <2>6. /\ refs'[old] = Cardinality(Holders(old)')
          /\ IsFiniteSet(Holders(old)')
      BY <2>1, <2>3, <2>4, <1>5, FS_RemoveElement
    <2>7. ASSUME NEW w \in Vals PROVE refs'[w] = Cardinality(Holders(w)')
      <3>1. CASE w # old /\ w # v
        BY <3>1, <2>1, <2>3, HoldersFinite
      <3> QED
        BY <3>1, <2>5, <2>6
    <2>8. ASSUME NEW c \in alloc PROVE val'[c] \notin freedVals'
      <3>1. val'[c] \notin freed1
        <4>1. CASE c = he
          <5>1. refs[v] # 0 => \E d \in alloc : val[d] = v
            <6>1. refs[v] # 0 => Holders(v) # {}
              BY HoldersFinite
            <6> QED
              BY <6>1 DEF Holders
          <5> QED
            BY <4>1, <5>1, <1>4 DEF Values
        <4>2. CASE c # he
          BY <4>2, <1>4 DEF Values
        <4> QED
          BY <4>1, <4>2
      <3>2. refs[old] = 1 => val'[c] # old
        <4> SUFFICES ASSUME refs[old] = 1 PROVE val'[c] # old
          OBVIOUS
        <4>1. Cardinality(Holders(old)') = 0
          BY <2>1, <2>6
        <4>2. Holders(old)' = {}
          BY <4>1, <2>6, FS_EmptySet
        <4>3. Holders(old) \ {he} = {}
          BY <4>2, <2>3
        <4> QED
          BY <4>3, <1>4, <1>7 DEF Holders
      <3> QED
        BY <3>1, <3>2, <2>1, <1>2
    <2> QED
      BY <2>1, <2>2, <2>7, <2>8, <1>3 DEF Values
  <1> QED
    BY <1>6, <1>7

(* dictDelete gives the entry's reference back, dictDeleteNoFree passes it on. *)
LEMMA DeleteKeepsValues ==
  ASSUME Chains(table), Values, NEW k \in Keys, Delete(k) \/ DeleteNoFree(k)
  PROVE  Values'
  <1>0. Unlink(k) /\ Lookup(table, k) # NULL
    BY DEF Delete, DeleteNoFree, Unlink
  <1>1. PICK he \in alloc, old \in Vals : he = Lookup(table, k) /\ old = val[he]
    BY <1>0, LookupFinds DEF Chains
  <1>2. alloc' = alloc \ {he} /\ val' = [val EXCEPT ![he] = NULL]
    BY <1>0, <1>1 DEF Unlink
  <1>3. \A c \in alloc' : c \in alloc /\ c # he /\ val'[c] = val[c]
    BY <1>2 DEF Chains
  <1>4. /\ refs' = [refs EXCEPT ![old] = @ - 1]
        /\ \/ freedVals' = freedVals
           \/ refs[old] = 1 /\ freedVals' = freedVals \cup {old}
    <2>1. CASE Delete(k)
      BY <2>1, <1>1 DEF Delete, Store, Destroy, Memory
    <2>2. CASE DeleteNoFree(k)
      BY <2>2, <1>1 DEF DeleteNoFree
    <2> QED
      BY <2>1, <2>2
  <1>5. /\ he \in Holders(old) /\ refs[old] # 0 /\ refs[old] \in Nat
        /\ IsFiniteSet(Holders(old)) /\ refs[old] = Cardinality(Holders(old))
    BY <1>1, HoldersFinite DEF Holders
  <1>6. /\ refs' \in [Vals -> Nat] /\ refs'[old] = refs[old] - 1
        /\ \A w \in Vals : w # old => refs'[w] = refs[w]
    BY <1>1, <1>4, <1>5 DEF Values
  <1>7. freedVals' \in SUBSET Vals
    BY <1>1, <1>4 DEF Values
  <1>8. /\ Holders(old)' = Holders(old) \ {he}
        /\ \A w \in Vals : w # old => Holders(w)' = Holders(w)
    BY <1>1, <1>2, <1>3 DEF Holders
  <1>9. /\ refs'[old] = Cardinality(Holders(old)')
        /\ IsFiniteSet(Holders(old)')
    BY <1>5, <1>6, <1>8, FS_RemoveElement
  <1>10. ASSUME NEW w \in Vals PROVE refs'[w] = Cardinality(Holders(w)')
    <2>1. CASE w # old
      BY <2>1, <1>6, <1>8, HoldersFinite
    <2> QED
      BY <2>1, <1>9
  <1>11. ASSUME NEW c \in alloc' PROVE val'[c] \notin freedVals'
    <2>1. val'[c] \notin freedVals
      BY <1>3 DEF Values
    <2>2. ASSUME refs[old] = 1 PROVE val'[c] # old
      <3>1. Holders(old)' = {}
        BY <2>2, <1>6, <1>9, FS_EmptySet
      <3> QED
        BY <3>1 DEF Holders
    <2> QED
      BY <2>1, <2>2, <1>4
  <1> QED
    BY <1>6, <1>7, <1>10, <1>11 DEF Values

(* Every call keeps the reference counts exact and held values alive. *)
LEMMA ValuesStep ==
  ASSUME Chains(table), Values, [Next]_vars
  PROVE  Values'
  <1>1. ASSUME NEW k \in Keys, NEW v \in Vals, NEW a \in Entries,
               Add(k, v, a) \/ ReplaceAbsent(k, v, a)
        PROVE  Values'
    BY <1>1, LinkKeepsValues DEF Add, ReplaceAbsent
  <1>2. ASSUME NEW k \in Keys, NEW v \in Vals, ReplaceExisting(k, v)
        PROVE  Values'
    BY <1>2, ReplaceKeepsValues
  <1>3. ASSUME NEW k \in Keys, Delete(k) \/ DeleteNoFree(k)
        PROVE  Values'
    BY <1>3, DeleteKeepsValues
  <1>4. CASE Empty
    <2>1. /\ alloc' = {} /\ refs' = [v \in Vals |-> 0]
          /\ freedVals' = freedVals \cup {v \in Vals : refs[v] > 0}
      BY <1>4 DEF Empty
    <2>2. freedVals' \in SUBSET Vals
      BY <2>1 DEF Values
    <2>3. \A v \in Vals : Holders(v)' = {}
      BY <2>1 DEF Holders
    <2> QED
      BY <2>1, <2>2, <2>3, FS_EmptySet DEF Values
  <1>5. ASSUME UNCHANGED <<alloc, val, refs, freedVals>>
        PROVE  Values'
    BY <1>5 DEF Values, Holders
  <1>6. CASE \/ \E k \in Keys : AddExisting(k) \/ DeleteAbsent(k) \/ FetchValue(k)
             \/ Resize \/ GetIterator \/ NextInChain \/ NextBucket \/ NextDone
             \/ ReleaseIterator \/ UNCHANGED vars
    BY <1>5, <1>6 DEF AddExisting, DeleteAbsent, FetchValue, Resize, GetIterator,
       NextInChain, NextBucket, NextDone, ReleaseIterator, Yield, vars, tableVars,
       valueVars
  <1> QED
    BY <1>1, <1>2, <1>3, <1>4, <1>6 DEF Next

-----------------------------------------------------------------------------
(* The iterator *)

(* An entry stands in the chain of its own bucket, behind itself. *)
LEMMA BehindFacts ==
  ASSUME Chains(table)
  PROVE  /\ \A a \in alloc : Behind(table, Home(key[a]), a, a)
         /\ \A b, a, c : Behind(table, b, a, c) =>
               /\ b \in DOMAIN table
               /\ c \in alloc /\ Home(key[c]) = b
               /\ a \in alloc /\ Home(key[a]) = b
  <1>1. \A a \in alloc : Behind(table, Home(key[a]), a, a)
    <2> TAKE a \in alloc
    <2>1. PICK p \in Nat : At(table, Home(key[a]), p, a)
      BY AtFacts
    <2>2. p <= p
      OBVIOUS
    <2> QED
      BY <2>1, <2>2 DEF Behind
  <1> QED
    BY <1>1, AtFacts DEF Behind

(* What dictNext saves: the successor of the entry it returns. *)
LEMMA Successor ==
  ASSUME Chains(table), NEW a \in alloc
  PROVE  LET h == Home(key[a])
         IN  \/ /\ NextOf(a) = NULL
                /\ \A c : Behind(table, h, a, c) => c = a
             \/ /\ NextOf(a) # NULL /\ NextOf(a) \in alloc /\ NextOf(a) # a
                /\ Home(key[NextOf(a)]) = h
                /\ \A c : Behind(table, h, NextOf(a), c) <=>
                             Behind(table, h, a, c) /\ c # a
  <1> DEFINE h == Home(key[a])
             chain == table[h]
             i == CHOOSE q \in 1 .. Len(chain) : chain[q] = a
  <1>1. /\ table # NoTable /\ h \in Buckets /\ Bucket(table, key[a]) = h
        /\ chain \in Seq(Entries) /\ i \in 1 .. Len(chain) /\ chain[i] = a
    BY PlaceOfEntry
  <1>2. DOMAIN table = Buckets
    BY <1>1, TableShape
  <1>3. NextOf(a) = IF i < Len(chain) THEN chain[i + 1] ELSE NULL
    BY <1>1 DEF NextOf
  <1> HIDE DEF h, i
  <1>4. At(table, h, i, a) /\ i \in Nat /\ i # 0 /\ Len(chain) \in Nat
    BY <1>1, <1>2 DEF At
  <1>5. CASE ~ (i < Len(chain))
    <2>1. ASSUME NEW c, Behind(table, h, a, c) PROVE c = a
      <3>1. PICK p \in Nat, q \in Nat :
               p <= q /\ At(table, h, p, a) /\ At(table, h, q, c)
        BY <2>1 DEF Behind
      <3>2. p = i
        BY <3>1, <1>4, AtFacts
      <3>3. q \in 1 .. Len(chain)
        BY <3>1 DEF At
      <3>4. q = i
        BY <3>1, <3>2, <3>3, <1>4, <1>5
      <3> QED
        BY <3>1, <3>4, <1>4, AtFacts
    <2> QED
      BY <2>1, <1>3, <1>5 DEF h
  <1>6. CASE i < Len(chain)
    <2> DEFINE n == chain[i + 1]
    <2>1. i + 1 \in Nat /\ i + 1 # i /\ At(table, h, i + 1, n)
      BY <1>1, <1>2, <1>4, <1>6 DEF At
    <2> HIDE DEF chain, n
    <2>2. n \in alloc /\ Home(key[n]) = h /\ n # a
      BY <2>1, <1>4, AtFacts
    <2>3. n # NULL
      BY <2>2, DictAssumption DEF Chains
    <2>4. ASSUME NEW c, Behind(table, h, n, c)
          PROVE  Behind(table, h, a, c) /\ c # a
      <3>1. PICK p \in Nat, q \in Nat :
               p <= q /\ At(table, h, p, n) /\ At(table, h, q, c)
        BY <2>4 DEF Behind
      <3>2. p = i + 1
        BY <3>1, <2>1, AtFacts
      <3>3. i <= q /\ q # i
        BY <3>1, <3>2, <1>4
      <3> QED
        BY <3>1, <3>3, <1>4, AtFacts DEF Behind
    <2>5. ASSUME NEW c, Behind(table, h, a, c), c # a
          PROVE  Behind(table, h, n, c)
      <3>1. PICK p \in Nat, q \in Nat :
               p <= q /\ At(table, h, p, a) /\ At(table, h, q, c)
        BY <2>5 DEF Behind
      <3>2. p = i /\ q # i
        BY <3>1, <2>5, <1>4, AtFacts
      <3>3. i + 1 <= q
        BY <3>1, <3>2, <1>4
      <3> QED
        BY <3>1, <3>3, <2>1 DEF Behind
    <2> QED
      BY <2>2, <2>3, <2>4, <2>5, <1>3, <1>6 DEF h, n
  <1> QED
    BY <1>5, <1>6

(***************************************************************************)
(* dictNext returns the first of the entries to come: they become those    *)
(* behind it, and only its key is counted.                                 *)
(***************************************************************************)
LEMMA YieldKeepsIterating ==
  ASSUME Chains(table), IterType, Iterating, iter # NULL,
         NEW e \in alloc, NEW i, i = Home(key[e]), iter.index <= i,
         ToCome(e),
         \A c \in alloc : ToCome(c) <=> Home(key[c]) > i \/ Behind(table, i, e, c),
         Yield(i, e)
  PROVE  Iterating' /\ IterType'
  <1>1. /\ key[e] \in Keys /\ e \in Entries /\ e # NULL
        /\ i \in Buckets /\ table # NoTable /\ DOMAIN table = Buckets
    <2>1. key[e] \in Keys /\ e \in Entries
      BY DEF Chains
    <2>2. e # NULL
      BY <2>1, DictAssumption
    <2> QED
      BY <2>1, <2>2, PlaceOfEntry, TableShape
  <1>2. /\ UNCHANGED <<table, alloc, key, present>>
        /\ iter' = [index |-> i, entry |-> e, nextEntry |-> NextOf(e)]
        /\ returned' = [returned EXCEPT ![key[e]] = @ + 1]
    BY DEF Yield, tableVars
  <1> DEFINE n == NextOf(e)
  <1>3. \/ n = NULL /\ \A c : Behind(table, i, e, c) => c = e
        \/ /\ n # NULL /\ n \in alloc /\ n # e /\ Home(key[n]) = i
           /\ \A c : Behind(table, i, n, c) <=> Behind(table, i, e, c) /\ c # e
    BY Successor
  <1>4. n \in Entries \cup {NULL}
    BY <1>3 DEF Chains
  <1> HIDE DEF n
  <1>5. /\ iter'.index = i /\ iter'.entry = e /\ iter'.nextEntry = n
        /\ i \in Int
    BY <1>1, <1>2, DictAssumption DEF n, Buckets
  <1>6. iter' # NULL => (InChain' <=> n # NULL)
    BY <1>1, <1>5 DEF InChain
  <1>7. ASSUME NEW c \in alloc, iter' # NULL
        PROVE  ToCome(c)' <=> ToCome(c) /\ c # e
    <2>1. ToCome(c)' <=> Home(key[c]) > i \/ (n # NULL /\ Behind(table, i, n, c))
      BY <1>2, <1>5, <1>6, <1>7 DEF ToCome
    <2>2. ~ (Home(key[e]) > i)
      BY <1>5
    <2> QED
      BY <2>1, <2>2, <1>3
  <1>8. returned[key[e]] = 0
    BY DEF Iterating
  <1>9. /\ returned'[key[e]] = 1
        /\ \A k \in Keys : k # key[e] => returned'[k] = returned[k]
        /\ returned' \in [Keys -> {0, 1}]
    BY <1>1, <1>2, <1>8 DEF IterType
  <1>10. \A c \in alloc : key[c] \in Keys /\ (c # e => key[c] # key[e])
    BY DEF Chains
  <1>11. size' = size /\ iter'.index \in -1 .. size' /\ iter'.index \in DOMAIN table'
    <2>1. size' = size /\ size = InitialSize
      BY <1>1, <1>2, BucketsSize DEF size
    <2> QED
      BY <2>1, <1>1, <1>2, <1>5, DictAssumption DEF Buckets
  <1>12. present' \subseteq {key'[a] : a \in alloc'}
    BY <1>2 DEF Iterating
  <1>14. ASSUME NEW k \in Keys, returned'[k] = 1 PROVE Home(k) <= i
    <2>1. CASE k = key[e]
      BY <2>1, <1>5
    <2>2. CASE k # key[e]
      <3>1. Home(k) <= iter.index
        BY <2>2, <1>9, <1>14 DEF Iterating
      <3>2. Home(k) \in Int /\ iter.index \in Int
        BY HomeIsBucket DEF Buckets, IterType
      <3> QED
        BY <3>1, <3>2, <1>5
    <2> QED
      BY <2>1, <2>2
  <1>15. ASSUME NEW c \in alloc, iter' # NULL, ToCome(c)' PROVE returned'[key[c]] = 0
    BY <1>7, <1>9, <1>10, <1>15 DEF Iterating
  <1>16. ASSUME NEW c \in alloc, iter' # NULL, ~ ToCome(c)', key[c] \in present
         PROVE  returned'[key[c]] = 1
    BY <1>7, <1>9, <1>10, <1>16 DEF Iterating
  <1>17. Iterating'
    <2>1. iter' # NULL /\ InChain' =>
             /\ iter'.nextEntry \in alloc'
             /\ iter'.nextEntry # iter'.entry
             /\ Home(key'[iter'.nextEntry]) = iter'.index
      BY <1>2, <1>3, <1>5, <1>6
    <2> QED
      BY <2>1, <1>1, <1>2, <1>5, <1>11, <1>12, <1>14, <1>15, <1>16 DEF Iterating, InChain
  <1>18. IterType'
    BY <1>1, <1>2, <1>4, <1>5, <1>9 DEF IterType, n
  <1> QED
    BY <1>17, <1>18

(* dictNext goes on in the chain: the saved entry is the next one to come. *)
LEMMA NextInChainKeeps ==
  ASSUME Chains(table), IterType, Iterating, NextInChain
  PROVE  Iterating' /\ IterType'
  <1> DEFINE e == iter.nextEntry
  <1>1. iter # NULL /\ InChain /\ e \in alloc /\ Home(key[e]) = iter.index
    BY DEF NextInChain, InChain, Iterating
  <1>2. iter.index \in Int
    BY <1>1 DEF IterType
  <1>3. ToCome(e)
    BY <1>1, BehindFacts DEF ToCome
  <1>4. \A c \in alloc :
           ToCome(c) <=> Home(key[c]) > iter.index \/ Behind(table, iter.index, e, c)
    BY <1>1 DEF ToCome
  <1>5. Yield(iter.index, e) /\ iter.index <= iter.index
    BY <1>2 DEF NextInChain
  <1> QED
    BY <1>1, <1>3, <1>4, <1>5, YieldKeepsIterating

(* dictNext skips the empty buckets: the head of the first other one is next. *)
LEMMA NextBucketKeeps ==
  ASSUME Chains(table), IterType, Iterating, NextBucket
  PROVE  Iterating' /\ IterType'
  <1> DEFINE b == CHOOSE c \in Ahead : \A d \in Ahead : c <= d
             e == Head(table[b])
  <1>1. iter # NULL /\ ~ InChain /\ Ahead # {} /\ Yield(b, e) /\ iter.index \in Int
    BY DEF NextBucket, IterType
  <1>2. table # NoTable /\ DOMAIN table = Buckets /\ table \in [Buckets -> Seq(Entries)]
    BY <1>1, TableShape DEF Ahead
  <1>3. Ahead \in SUBSET Nat
    BY <1>2 DEF Ahead, Buckets
  <1>4. b \in Ahead /\ \A d \in Ahead : b <= d
    <2>1. \E m \in Ahead : \A n \in Ahead : m <= n
      BY <1>1, <1>3, LeastNatural
    <2> QED
      BY <2>1
  <1> HIDE DEF b
  <1>5. /\ b \in Buckets /\ b \in Nat /\ b > iter.index
        /\ table[b] \in Seq(Entries) /\ table[b] # <<>>
    BY <1>2, <1>3, <1>4 DEF Ahead
  <1>6. 1 \in 1 .. Len(table[b]) /\ e = table[b][1]
    BY <1>5
  <1>7. At(table, b, 1, e)
    BY <1>2, <1>5, <1>6 DEF At
  <1> HIDE DEF e
  <1>8. e \in alloc /\ Home(key[e]) = b
    BY <1>7, AtFacts
  <1>9. ToCome(e) /\ iter.index <= b
    BY <1>1, <1>5, <1>8 DEF ToCome
  <1>10. ASSUME NEW c \in alloc
         PROVE  ToCome(c) <=> Home(key[c]) > b \/ Behind(table, b, e, c)
    <2>1. ToCome(c) <=> Home(key[c]) > iter.index
      BY <1>1 DEF ToCome
    <2>2. PICK q \in Nat : At(table, Home(key[c]), q, c)
      BY AtFacts
    <2>3. Home(key[c]) \in Nat
      BY HomeIsBucket DEF Chains, Buckets
    <2>4. Home(key[c]) > iter.index => Home(key[c]) \in Ahead
      BY <2>2 DEF At, Ahead
    <2>5. Home(key[c]) = b => Behind(table, b, e, c)
      <3>1. 1 <= q
        BY <2>2, AtFacts
      <3> QED
        BY <3>1, <2>2, <1>7 DEF Behind
    <2>6. Behind(table, b, e, c) => Home(key[c]) = b
      BY BehindFacts
    <2>7. Home(key[c]) > iter.index <=> Home(key[c]) > b \/ Home(key[c]) = b
      BY <2>3, <2>4, <1>1, <1>4, <1>5
    <2> QED
      BY <2>1, <2>5, <2>6, <2>7
  <1> QED
    BY <1>1, <1>8, <1>9, <1>10, YieldKeepsIterating

(* dictNext answers NULL: no entry is to come any more. *)
LEMMA NextDoneKeeps ==
  ASSUME Chains(table), IterType, Iterating, NextDone
  PROVE  Iterating' /\ IterType'
  <1>1. /\ iter # NULL /\ ~ InChain /\ Ahead = {} /\ iter.index \in Int
        /\ iter.index < size
        /\ iter' = [index |-> size, entry |-> NULL, nextEntry |-> NULL]
        /\ UNCHANGED <<table, alloc, key, returned, present>>
    BY DEF NextDone, IterType, tableVars
  <1>2. size \in Nat /\ size' = size /\ \A a \in alloc : size = InitialSize
    BY <1>1, TableShape, BucketsSize, FS_EmptySet, DictAssumption DEF size
  <1>3. iter' # NULL => iter'.index = size /\ iter'.entry = NULL /\ iter'.nextEntry = NULL
    BY <1>1
  <1>4. ~ InChain'
    BY <1>3 DEF InChain
  <1>5. ASSUME NEW c \in alloc
        PROVE  ~ ToCome(c) /\ (iter' # NULL => ~ ToCome(c)')
    <2>1. Home(key[c]) \in Buckets /\ Home(key[c]) \in DOMAIN table
      BY PlaceOfEntry, TableShape
    <2>2. PICK p \in Nat : At(table, Home(key[c]), p, c)
      BY AtFacts
    <2>3. ~ (Home(key[c]) > iter.index)
      BY <2>1, <2>2, <1>1 DEF Ahead, At
    <2>4. ~ (Home(key[c]) > size)
      BY <2>1, <1>2, DictAssumption DEF Buckets
    <2> QED
      BY <2>3, <2>4, <1>1, <1>3, <1>4 DEF ToCome
  <1>6. ASSUME NEW k \in Keys, returned[k] = 1 PROVE Home(k) <= size
    <2>1. Home(k) <= iter.index /\ Home(k) \in Int
      BY <1>1, <1>6, HomeIsBucket DEF Iterating, Buckets
    <2> QED
      BY <2>1, <1>1, <1>2
  <1>7. Iterating'
    BY <1>1, <1>2, <1>3, <1>4, <1>5, <1>6 DEF Iterating
  <1>8. IterType'
    BY <1>1, <1>2 DEF IterType
  <1> QED
    BY <1>7, <1>8

(* The first table makes room; a later call of dictExpand changes nothing. *)
LEMMA SizeGrows ==
  ASSUME Chains(table)
  PROVE  /\ size \in Nat /\ Cardinality(DOMAIN ExpandIfNeeded) \in Nat
         /\ size <= Cardinality(DOMAIN ExpandIfNeeded)
         /\ table # NoTable => ExpandIfNeeded = table
         /\ DOMAIN table \subseteq DOMAIN ExpandIfNeeded
         /\ DOMAIN ExpandIfNeeded = Buckets
  <1>1. DOMAIN ExpandIfNeeded = Buckets
    BY ExpandKeepsChains, TableShape
  <1>2. CASE table = NoTable
    BY <1>1, <1>2, TableShape, BucketsSize, FS_EmptySet, DictAssumption DEF size
  <1>3. CASE table # NoTable
    BY <1>1, <1>3, ExpandIs, BucketsSize, DictAssumption DEF size
  <1> QED
    BY <1>1, <1>2, <1>3

(* Steps that leave the entries alone, a first table included. *)
LEMMA ExpandKeepsIterating ==
  ASSUME Chains(table), IterType, Iterating,
         table' = table \/ table' = ExpandIfNeeded,
         UNCHANGED <<alloc, key, iter, returned, present>>
  PROVE  Iterating' /\ IterType'
  <1>1. IterType'
    BY DEF IterType
  <1>2. CASE table' = table
    BY <1>1, <1>2 DEF Iterating, ToCome, InChain, size
  <1>3. CASE table' = ExpandIfNeeded /\ table # NoTable
    BY <1>2, <1>3, SizeGrows
  <1>4. CASE table' = ExpandIfNeeded /\ table = NoTable
    <2>1. alloc = {} /\ DOMAIN table = {}
      BY <1>4, TableShape
    <2>2. size \in Nat /\ size' \in Nat /\ size <= size'
      BY <1>4, SizeGrows DEF size
    <2>3. iter # NULL => iter.index \in -1 .. size'
      BY <2>2 DEF Iterating
    <2> QED
      BY <2>1, <2>3, <1>1 DEF Iterating, InChain
  <1> QED
    BY <1>1, <1>2, <1>3, <1>4

(***************************************************************************)
(* An entry added meanwhile goes to the front of its chain: it is to come  *)
(* only if its whole bucket is, and its key was not there all along.       *)
(***************************************************************************)
LEMMA LinkKeepsIterating ==
  ASSUME Chains(table), IterType, Iterating,
         NEW k \in Keys, NEW v \in Vals, NEW a \in Entries, Link(k, v, a)
  PROVE  Iterating' /\ IterType'
  <1>1. /\ UNCHANGED <<iter, returned, present>>
        /\ alloc' = alloc \cup {a} /\ a \notin alloc /\ key' = [key EXCEPT ![a] = k]
    BY DEF Link, iterVars
  <1>2. IterType'
    BY <1>1 DEF IterType
  <1>3. key'[a] = k /\ \A c \in alloc : key'[c] = key[c]
    BY <1>1 DEF Chains
  <1>4. \A c \in alloc : key[c] # k
    BY ExpandKeepsChains, LookupFinds DEF Link
  <1>5. /\ DOMAIN table' = DOMAIN ExpandIfNeeded
        /\ size \in Nat /\ size' \in Nat /\ size <= size'
        /\ DOMAIN table \subseteq DOMAIN table'
    <2>1. DOMAIN table' = DOMAIN ExpandIfNeeded
      BY DEF Link
    <2> QED
      BY <2>1, SizeGrows DEF size
  <1> SUFFICES ASSUME iter # NULL PROVE Iterating'
    BY <1>1, <1>2 DEF Iterating
  <1>6. InChain' = InChain /\ (InChain => iter.index \in DOMAIN table /\ table # NoTable)
    BY <1>1, TableShape DEF InChain, Iterating
  <1>7. ASSUME NEW c \in alloc PROVE ToCome(c)' <=> ToCome(c)
    <2>1. InChain => (Behind(table', iter.index, iter.nextEntry, c)
                        <=> Behind(table, iter.index, iter.nextEntry, c))
      BY <1>6, LinkOrder DEF Iterating
    <2> QED
      BY <2>1, <1>1, <1>3, <1>6 DEF ToCome
  <1>8. ToCome(a)' => Home(k) > iter.index
    <2>1. InChain => ~ Behind(table', iter.index, iter.nextEntry, a)
      BY <1>6, LinkOrder DEF Iterating
    <2> QED
      BY <2>1, <1>1, <1>3, <1>6 DEF ToCome
  <1>9. ToCome(a)' => returned[k] = 0
    <2>1. Home(k) \in Int /\ iter.index \in Int /\ returned[k] \in {0, 1}
      BY HomeIsBucket DEF Buckets, IterType
    <2>2. returned[k] = 1 => Home(k) <= iter.index
      BY DEF Iterating
    <2> QED
      BY <2>1, <2>2, <1>8
  <1>10. k \notin present
    BY <1>4 DEF Iterating
  <1>11. iter.index \in -1 .. size'
    BY <1>5 DEF Iterating
  <1>12. present \subseteq {key'[c] : c \in alloc'}
    BY <1>1, <1>3 DEF Iterating
  <1>13. \A c \in alloc' : ToCome(c)' => returned[key'[c]] = 0
    BY <1>1, <1>3, <1>7, <1>9 DEF Iterating
  <1>14. \A c \in alloc' : ~ ToCome(c)' /\ key'[c] \in present => returned[key'[c]] = 1
    BY <1>1, <1>3, <1>7, <1>10 DEF Iterating
  <1>15. InChain' => /\ iter.nextEntry \in alloc'
                     /\ iter.nextEntry # iter.entry
                     /\ Home(key'[iter.nextEntry]) = iter.index
    BY <1>1, <1>3, <1>6 DEF Iterating
  <1>16. iter.entry # NULL => iter.index \in DOMAIN table'
    BY <1>5 DEF Iterating
  <1> QED
    BY <1>1, <1>11, <1>12, <1>13, <1>14, <1>15, <1>16 DEF Iterating

(* While it iterates a caller deletes the returned entry only: never the *)
(* saved one.                                                            *)
LEMMA UnlinkKeepsIterating ==
  ASSUME Chains(table), IterType, Iterating, NEW k \in Keys, Unlink(k)
  PROVE  Iterating' /\ IterType'
  <1>1. PICK he \in alloc : he = Lookup(table, k) /\ key[he] = k
    BY LookupFinds DEF Unlink
  <1>2. /\ UNCHANGED <<iter, returned>> /\ present' = present \ {k}
        /\ alloc' = alloc \ {he} /\ key' = [key EXCEPT ![he] = NULL]
        /\ iter # NULL => iter.entry = he
    BY <1>1 DEF Unlink, MayDelete
  <1>3. IterType'
    BY <1>2 DEF IterType
  <1>4. \A c \in alloc' : c \in alloc /\ c # he /\ key'[c] = key[c] /\ key[c] # k
    BY <1>1, <1>2 DEF Chains
  <1>5. table # NoTable /\ DOMAIN table' = DOMAIN table /\ size' = size
    BY UnlinkPlaces, TableShape DEF size
  <1> SUFFICES ASSUME iter # NULL PROVE Iterating'
    BY <1>2, <1>3 DEF Iterating
  <1>6. /\ InChain' = InChain
        /\ InChain => iter.nextEntry \in alloc /\ iter.nextEntry # he
    BY <1>2 DEF InChain, Iterating
  <1>7. ASSUME NEW c \in alloc' PROVE ToCome(c)' <=> ToCome(c)
    <2>1. InChain => (Behind(table', iter.index, iter.nextEntry, c)
                        <=> Behind(table, iter.index, iter.nextEntry, c))
      BY <1>1, <1>4, <1>6, UnlinkOrder
    <2> QED
      BY <2>1, <1>2, <1>4, <1>6 DEF ToCome
  <1>8. present' \subseteq {key'[c] : c \in alloc'}
    <2>1. ASSUME NEW j \in present' PROVE \E c \in alloc' : key'[c] = j
      <3>1. PICK c \in alloc : key[c] = j
        BY <2>1, <1>2 DEF Iterating
      <3>2. c \in alloc'
        BY <3>1, <2>1, <1>1, <1>2
      <3> QED
        BY <3>1, <3>2, <1>4
    <2> QED
      BY <2>1
  <1>9. \A c \in alloc' : ToCome(c)' => returned[key'[c]] = 0
    BY <1>4, <1>7 DEF Iterating
  <1>10. \A c \in alloc' : ~ ToCome(c)' /\ key'[c] \in present' => returned[key'[c]] = 1
    BY <1>2, <1>4, <1>7 DEF Iterating
  <1>11. InChain' => /\ iter.nextEntry \in alloc'
                     /\ iter.nextEntry # iter.entry
                     /\ Home(key'[iter.nextEntry]) = iter.index
    BY <1>2, <1>4, <1>6 DEF Iterating
  <1> QED
    BY <1>2, <1>5, <1>8, <1>9, <1>10, <1>11 DEF Iterating

(* Every call keeps the iteration going right. *)
LEMMA IteratingStep ==
  ASSUME Chains(table), IterType, Iterating, [Next]_vars
  PROVE  Iterating' /\ IterType'
  <1>1. ASSUME NEW k \in Keys, NEW v \in Vals, NEW a \in Entries,
               Add(k, v, a) \/ ReplaceAbsent(k, v, a)
        PROVE  Iterating' /\ IterType'
    BY <1>1, LinkKeepsIterating DEF Add, ReplaceAbsent
  <1>2. ASSUME NEW k \in Keys, AddExisting(k) \/ (\E v \in Vals : ReplaceExisting(k, v))
        PROVE  Iterating' /\ IterType'
    BY <1>2, ExpandKeepsIterating DEF AddExisting, ReplaceExisting, iterVars
  <1>3. CASE Resize
    BY <1>3, ExpandKeepsIterating, ExpandIs DEF Resize, iterVars
  <1>4. ASSUME NEW k \in Keys, Delete(k) \/ DeleteNoFree(k)
        PROVE  Iterating' /\ IterType'
    BY <1>4, UnlinkKeepsIterating DEF Delete, DeleteNoFree
  <1>5. CASE Empty
    BY <1>5 DEF Empty, Iterating, IterType, iterVars
  <1>6. CASE GetIterator
    <2>1. /\ UNCHANGED <<table, alloc, key>>
          /\ iter' = [index |-> -1, entry |-> NULL, nextEntry |-> NULL]
          /\ returned' = [j \in Keys |-> 0] /\ present' = {key[a] : a \in alloc}
      BY <1>6 DEF GetIterator, tableVars
    <2>2. size' \in Nat
      BY <2>1, SizeGrows DEF size
    <2>3. \A a \in alloc : Home(key[a]) \in Nat /\ Home(key[a]) > -1
      BY HomeIsBucket DEF Chains, Buckets
    <2>4. IterType'
      BY <2>1 DEF IterType, Chains
    <2>5. Iterating'
      BY <2>1, <2>2, <2>3 DEF Iterating, ToCome, InChain, Chains
    <2> QED
      BY <2>4, <2>5
  <1>7. CASE ReleaseIterator
    BY <1>7 DEF ReleaseIterator, Iterating, IterType
  <1>8. CASE \/ \E k \in Keys : DeleteAbsent(k) \/ FetchValue(k)
             \/ UNCHANGED vars
    BY <1>8, ExpandKeepsIterating DEF DeleteAbsent, FetchValue, vars, tableVars, iterVars
  <1> QED
    BY <1>1, <1>2, <1>3, <1>4, <1>5, <1>6, <1>7, <1>8, NextInChainKeeps,
       NextBucketKeeps, NextDoneKeeps DEF Next

-----------------------------------------------------------------------------
(* The invariant and what follows from it *)

(* dictCreate leaves an empty dict, which is in order. *)
LEMMA IInvInit == Init => IInv
  <1> SUFFICES ASSUME Init PROVE IInv
    OBVIOUS
  <1>1. Chains(table)
    BY FS_EmptySet DEF Init, Chains, NoTable
  <1>2. Values
    <2>1. \A v \in Vals : Holders(v) = {}
      BY DEF Init, Holders
    <2> QED
      BY <2>1, FS_EmptySet DEF Init, Values
  <1>3. IterType /\ Iterating
    BY DEF Init, IterType, Iterating
  <1> QED
    BY <1>1, <1>2, <1>3 DEF IInv

(* The inductive invariant holds in every reachable state. *)
LEMMA IInvAlways == Spec => []IInv
  <1>1. IInv /\ [Next]_vars => IInv'
    <2> SUFFICES ASSUME IInv, [Next]_vars PROVE IInv'
      OBVIOUS
    <2> QED
      BY ChainsStep, ValuesStep, IteratingStep DEF IInv
  <1> QED
    BY <1>1, IInvInit, PTL DEF Spec

(***************************************************************************)
(* After any sequence of calls the table is well formed: every allocated   *)
(* entry is linked once, in the bucket of its hash, no freed one is, no    *)
(* key is there twice, used is exact; and no entry holds a freed value.    *)
(***************************************************************************)
THEOREM DictCorrect == Spec => []DictOK
  <1>1. IInv => DictOK
    <2> SUFFICES ASSUME IInv PROVE DictOK
      OBVIOUS
    <2>1. Chains(table) /\ Values /\ IterType
      BY DEF IInv
    <2>2. DOMAIN table = 0 .. size - 1 /\ \A b \in DOMAIN table : table[b] \in Seq(Entries)
      <3>1. CASE table = NoTable
        <4>1. DOMAIN table = {} /\ size = 0
          BY <3>1, <2>1, TableShape, FS_EmptySet DEF size
        <4> QED
          BY <4>1
      <3>2. CASE table # NoTable
        <4>1. DOMAIN table = Buckets /\ size = InitialSize
          BY <3>2, <2>1, TableShape, BucketsSize DEF size
        <4> QED
          BY <4>1, <3>2, <2>1, TableShape DEF Buckets
      <3> QED
        BY <3>1, <3>2
    <2>3. used \in Nat /\ used = Cardinality(alloc)
      BY <2>1, FS_CardinalityType DEF Chains
    <2>4. TypeOK
      <3>1. returned \in [Keys -> Nat]
        BY <2>1 DEF IterType
      <3> QED
        BY <3>1, <2>1, <2>2, <2>3 DEF TypeOK, Chains, Values, IterType
    <2>5. ASSUME NEW a \in alloc
          PROVE  /\ key[a] # NULL
                 /\ Cardinality({p \in 1 .. Len(table[Bucket(table, key[a])]) :
                                   table[Bucket(table, key[a])][p] = a}) = 1
      <3> DEFINE chain == table[Home(key[a])]
                 i == CHOOSE p \in 1 .. Len(chain) : chain[p] = a
      <3>1. key[a] # NULL
        BY <2>1, DictAssumption DEF Chains
      <3>2. /\ Bucket(table, key[a]) = Home(key[a])
            /\ i \in 1 .. Len(chain) /\ chain[i] = a
            /\ \A p \in 1 .. Len(chain) : chain[p] = a => p = i
        BY <2>1, PlaceOfEntry
      <3> HIDE DEF chain, i
      <3>3. {p \in 1 .. Len(chain) : chain[p] = a} = {i}
        BY <3>2
      <3>4. Cardinality({p \in 1 .. Len(chain) : chain[p] = a}) = 1
        BY <3>3, FS_Singleton
      <3>5. table[Bucket(table, key[a])] = chain
        BY <3>2 DEF chain
      <3> QED
        BY <3>1, <3>4, <3>5
    <2>6. ASSUME NEW b \in DOMAIN table, NEW p \in 1 .. Len(table[b])
          PROVE  table[b][p] \in alloc /\ Bucket(table, key[table[b][p]]) = b
      <3>1. table[b][p] \in alloc /\ Home(key[table[b][p]]) = b
        BY <2>1 DEF Chains
      <3>2. PICK a \in alloc : a = table[b][p]
        BY <3>1
      <3> QED
        BY <3>1, <3>2, <2>1, PlaceOfEntry
    <2>7. ChainsOK
      BY <2>1, <2>3, <2>4, <2>5, <2>6 DEF ChainsOK, Chains
    <2>8. ValuesAlive
      BY <2>1 DEF Values, Holders, ValuesAlive
    <2> QED
      BY <2>7, <2>8 DEF DictOK
  <1> QED
    BY <1>1, IInvAlways, PTL

(***************************************************************************)
(* The entry dictNext saved is never a freed one, no iteration returns a   *)
(* key twice, and one that came to its end returned every key that was in  *)
(* the dict all along.                                                     *)
(***************************************************************************)
THEOREM IterationCorrect == Spec => []IterationOK
  <1>1. IInv => IterationOK
    <2> SUFFICES ASSUME IInv PROVE IterationOK
      OBVIOUS
    <2>1. Chains(table) /\ IterType /\ Iterating
      BY DEF IInv
    <2>2. IteratorNeverDangles
      BY <2>1 DEF IteratorNeverDangles, InChain, Iterating
    <2>3. \A k \in Keys : returned[k] <= 1
      BY <2>1 DEF IterType
    <2>4. ASSUME iter # NULL, iter.index = size, NEW k \in present
          PROVE  returned[k] = 1
      <3>1. PICK a \in alloc : key[a] = k
        BY <2>1, <2>4 DEF Iterating
      <3>2. /\ Home(key[a]) \in Buckets /\ DOMAIN table = Buckets
            /\ size = InitialSize
        BY <2>1, PlaceOfEntry, TableShape, BucketsSize DEF size
      <3>3. iter.index \notin DOMAIN table /\ ~ (Home(key[a]) > iter.index)
        BY <3>2, <2>4, DictAssumption DEF Buckets
      <3>4. ~ ToCome(a)
        BY <3>3, <2>1, <2>4 DEF ToCome, InChain, Iterating
      <3> QED
        BY <3>1, <3>4, <2>1, <2>4 DEF Iterating
    <2> QED
      BY <2>2, <2>3, <2>4 DEF IterationOK, IterationExact
  <1> QED
    BY <1>1, IInvAlways, PTL

-----------------------------------------------------------------------------
(* The dict as a map *)

(* The map is given by the allocated entries. *)
MapIsEntries ==
    /\ Map = [k \in DOMAIN Map |-> Map[k]]
    /\ DOMAIN Map \subseteq Keys
    /\ \A k \in Keys : k \in DOMAIN Map <=> \E a \in alloc : key[a] = k
    /\ \A a \in alloc : key[a] \in Keys /\ val[a] \in Vals /\ Map[key[a]] = val[a]

(* dictFind finds exactly the keys of allocated entries, with their values. *)
LEMMA MapOfEntries == IInv => MapIsEntries
  <1> SUFFICES ASSUME Chains(table) PROVE MapIsEntries
    BY DEF IInv
  <1> DEFINE found == {k \in Keys : Lookup(table, k) # NULL}
  <1>1. \A k \in Keys : k \in found <=> \E a \in alloc : key[a] = k
    BY LookupFinds
  <1>2. \A a \in alloc : key[a] \in Keys /\ val[a] \in Vals /\ Lookup(table, key[a]) = a
    BY LookupFinds DEF Chains
  <1> HIDE DEF found
  <1>3. Map = [k \in found |-> val[Lookup(table, k)]]
    BY DEF Map, found
  <1>4. found \subseteq Keys
    BY DEF found
  <1> QED
    BY <1>1, <1>2, <1>3, <1>4 DEF MapIsEntries

(* The map changes only with the entries. *)
LEMMA SameMap ==
  ASSUME MapIsEntries, MapIsEntries', UNCHANGED <<alloc, key, val>>
  PROVE  Map' = Map
  <1>1. DOMAIN Map' = DOMAIN Map
    BY DEF MapIsEntries
  <1>2. \A k \in DOMAIN Map : Map'[k] = Map[k]
    <2> TAKE k \in DOMAIN Map
    <2>1. PICK a \in alloc : key[a] = k
      BY DEF MapIsEntries
    <2> QED
      BY <2>1 DEF MapIsEntries
  <1> QED
    BY <1>1, <1>2 DEF MapIsEntries

(* Setting the value of k, in a fresh entry or in the one it has. *)
LEMMA MapWith ==
  ASSUME MapIsEntries, MapIsEntries', Chains(table),
         NEW k \in Keys, NEW v \in Vals, NEW a,
         a \in alloc', key'[a] = k, val'[a] = v,
         \A c \in alloc \ {a} : c \in alloc' /\ key'[c] = key[c] /\ val'[c] = val[c],
         \A c \in alloc' \ {a} : c \in alloc,
         \A c \in alloc \ {a} : key[c] # k,
         a \in alloc => key[a] = k
  PROVE  Map' = KM!With(k, v)
  <1>1. DOMAIN Map' = DOMAIN Map \cup {k}
    <2>1. ASSUME NEW j \in Keys PROVE j \in DOMAIN Map' <=> j \in DOMAIN Map \cup {k}
      <3>1. j \in DOMAIN Map' <=> \E c \in alloc' : key'[c] = j
        BY DEF MapIsEntries
      <3>2. j \in DOMAIN Map <=> \E c \in alloc : key[c] = j
        BY DEF MapIsEntries
      <3>3. (\E c \in alloc' : key'[c] = j) <=> (\E c \in alloc : key[c] = j) \/ j = k
        OBVIOUS
      <3> QED
        BY <3>1, <3>2, <3>3
    <2> QED
      BY <2>1 DEF MapIsEntries
  <1>2. Map'[k] = v
    BY DEF MapIsEntries
  <1>3. ASSUME NEW j \in DOMAIN Map, j # k PROVE Map'[j] = Map[j]
    <2>1. PICK c \in alloc : key[c] = j
      BY DEF MapIsEntries
    <2>2. c # a
      BY <2>1, <1>3
    <2> QED
      BY <2>1, <2>2 DEF MapIsEntries
  <1>4. Map' = [j \in DOMAIN Map' |-> Map'[j]]
    BY DEF MapIsEntries
  <1> QED
    BY <1>1, <1>2, <1>3, <1>4 DEF KM!With

(* A fresh dict is the empty map. *)
LEMMA RefInit == Init => KM!KMInit
  <1> SUFFICES ASSUME Init PROVE KM!KMInit
    OBVIOUS
  <1>1. MapIsEntries /\ alloc = {}
    BY IInvInit, MapOfEntries DEF Init
  <1>2. DOMAIN Map = {}
    BY <1>1 DEF MapIsEntries
  <1>3. Map = [k \in {} |-> NULL]
    BY <1>1, <1>2 DEF MapIsEntries
  <1>4. Cardinality(Keys) + 1 \in Nat
    BY DictAssumption, FS_CardinalityType
  <1> QED
    BY <1>3, <1>4 DEF KM!KMInit, Init

(* The map after a fresh entry was linked: k was absent and has value v. *)
LEMMA MapLinked ==
  ASSUME MapIsEntries, MapIsEntries', Chains(table),
         NEW k \in Keys, NEW v \in Vals, NEW a \in Entries, Link(k, v, a)
  PROVE  Map' = KM!With(k, v) /\ k \notin DOMAIN Map
  <1>1. /\ a \notin alloc /\ alloc' = alloc \cup {a}
        /\ key' = [key EXCEPT ![a] = k] /\ val' = [val EXCEPT ![a] = v]
    BY DEF Link
  <1>2. /\ key'[a] = k /\ val'[a] = v
        /\ \A c \in alloc : key'[c] = key[c] /\ val'[c] = val[c]
    BY <1>1 DEF Chains
  <1>3. \A c \in alloc : key[c] # k
    BY ExpandKeepsChains, LookupFinds DEF Link
  <1>4. k \notin DOMAIN Map
    BY <1>3 DEF MapIsEntries
  <1>5. Map' = KM!With(k, v)
    BY <1>1, <1>2, <1>3, MapWith
  <1> QED
    BY <1>4, <1>5

(* The map without the entry that was unlinked. *)
LEMMA MapUnlinked ==
  ASSUME MapIsEntries, MapIsEntries', Chains(table), NEW k \in Keys, Unlink(k)
  PROVE  Map' = KM!Without(k) /\ k \in DOMAIN Map
  <1>1. PICK he \in alloc : he = Lookup(table, k) /\ key[he] = k
    BY LookupFinds DEF Unlink
  <1>2. /\ alloc' = alloc \ {he} /\ key' = [key EXCEPT ![he] = NULL]
        /\ val' = [val EXCEPT ![he] = NULL]
    BY <1>1 DEF Unlink
  <1>3. \A c \in alloc' : /\ c \in alloc /\ c # he /\ key[c] # k
                          /\ key'[c] = key[c] /\ val'[c] = val[c]
    BY <1>1, <1>2 DEF Chains
  <1>4. k \in DOMAIN Map
    BY <1>1 DEF MapIsEntries
  <1>5. DOMAIN Map' = DOMAIN Map \ {k}
    <2>1. ASSUME NEW j \in Keys PROVE j \in DOMAIN Map' <=> j \in DOMAIN Map \ {k}
      <3>1. j \in DOMAIN Map' <=> \E c \in alloc' : key'[c] = j
        BY DEF MapIsEntries
      <3>2. j \in DOMAIN Map <=> \E c \in alloc : key[c] = j
        BY DEF MapIsEntries
      <3>3. (\E c \in alloc' : key'[c] = j) <=> (\E c \in alloc : key[c] = j) /\ j # k
        BY <1>1, <1>2, <1>3
      <3> QED
        BY <3>1, <3>2, <3>3
    <2> QED
      BY <2>1 DEF MapIsEntries
  <1>6. ASSUME NEW j \in DOMAIN Map' PROVE Map'[j] = Map[j]
    <2>1. j \in Keys
      BY DEF MapIsEntries
    <2>2. PICK c \in alloc' : key'[c] = j
      BY <2>1 DEF MapIsEntries
    <2> QED
      BY <2>2, <1>3 DEF MapIsEntries
  <1>7. Map' = [j \in DOMAIN Map' |-> Map'[j]]
    BY DEF MapIsEntries
  <1> QED
    BY <1>4, <1>5, <1>6, <1>7 DEF KM!Without, KM!Restrict, Restrict

(***************************************************************************)
(* Every step of the dict is one of the map, or none: resizing and         *)
(* iterating do not show.                                                  *)
(***************************************************************************)
LEMMA RefStep == IInv /\ IInv' /\ [Next]_vars => [KM!KMNext]_(KM!kmVars)
  <1>1. (IInv => MapIsEntries)'
    BY MapOfEntries, PTL
  <1> SUFFICES ASSUME IInv, IInv', [Next]_vars
               PROVE  KM!KMNext \/ UNCHANGED KM!kmVars
    OBVIOUS
  <1>2. MapIsEntries /\ MapIsEntries' /\ Chains(table)
    BY <1>1, MapOfEntries DEF IInv
  <1>3. \A k \in Keys : /\ Lookup(table, k) = NULL <=> k \notin DOMAIN Map
                        /\ Lookup(ExpandIfNeeded, k) = NULL <=> k \notin DOMAIN Map
    BY <1>2, ExpandKeepsChains, LookupFinds DEF MapIsEntries
  <1>4. Cardinality(DOMAIN Map) < Cardinality(Keys) + 1
    <2>1. DOMAIN Map \in SUBSET Keys
      BY <1>2 DEF MapIsEntries
    <2>2. /\ IsFiniteSet(DOMAIN Map) /\ IsFiniteSet(Keys)
          /\ Cardinality(DOMAIN Map) <= Cardinality(Keys)
      BY <2>1, FS_Subset, DictAssumption
    <2>3. Cardinality(DOMAIN Map) \in Nat /\ Cardinality(Keys) \in Nat
      BY <2>2, FS_CardinalityType
    <2> QED
      BY <2>2, <2>3
  <1>5. (Cardinality(Keys) + 1)' = Cardinality(Keys) + 1
    OBVIOUS
  <1>6. ASSUME NEW k \in Keys, NEW v \in Vals, NEW a \in Entries, Add(k, v, a)
        PROVE  KM!KMNext
    <2>1. /\ Map' = KM!With(k, v) /\ k \notin DOMAIN Map
          /\ call' = <<"insert", k>> /\ answer' = "ok"
      BY <1>2, <1>6, MapLinked DEF Add
    <2>2. ~ (Cardinality(DOMAIN Map) >= Cardinality(Keys) + 1)
      <3>1. Cardinality(Keys) \in Nat /\ Cardinality(DOMAIN Map) \in Nat
        BY <1>2, FS_Subset, FS_CardinalityType, DictAssumption DEF MapIsEntries
      <3> QED
        BY <3>1, <1>4
    <2>3. \E w \in Vals : Map' = KM!With(k, w)
      BY <2>1
    <2>4. KM!Cardinality(DOMAIN Map) = Cardinality(DOMAIN Map)
      BY DEF KM!Cardinality, Cardinality
    <2>5. KM!Insert(k)
      BY <2>1, <2>2, <2>3, <2>4 DEF KM!Insert
    <2> QED
      BY <2>5, <1>5 DEF KM!KMNext
  <1>7. ASSUME NEW k \in Keys, AddExisting(k)
        PROVE  KM!KMNext
    <2>1. /\ Map' = Map /\ k \in DOMAIN Map
          /\ call' = <<"insert", k>> /\ answer' = "err"
      BY <1>2, <1>3, <1>7, SameMap DEF AddExisting
    <2>2. KM!Insert(k)
      BY <2>1 DEF KM!Insert
    <2> QED
      BY <2>2, <1>5 DEF KM!KMNext
  <1>8. ASSUME NEW k \in Keys, NEW v \in Vals, NEW a \in Entries, ReplaceAbsent(k, v, a)
        PROVE  KM!KMNext
    <2>1. /\ Map' = KM!With(k, v) /\ k \notin DOMAIN Map
          /\ call' = <<"assign", k>> /\ answer' = "added"
      BY <1>2, <1>8, MapLinked DEF ReplaceAbsent
    <2>2. KM!Assign(k)
      BY <2>1 DEF KM!Assign
    <2> QED
      BY <2>2, <1>5 DEF KM!KMNext
  <1>9. ASSUME NEW k \in Keys, NEW v \in Vals, ReplaceExisting(k, v)
        PROVE  KM!KMNext
    <2>1. PICK he \in alloc : he = Lookup(ExpandIfNeeded, k) /\ key[he] = k
      BY <1>2, <1>9, ExpandKeepsChains, LookupFinds DEF ReplaceExisting
    <2>2. /\ val' = [val EXCEPT ![he] = v] /\ alloc' = alloc /\ key' = key
          /\ call' = <<"assign", k>> /\ answer' = "updated"
      BY <1>9, <2>1 DEF ReplaceExisting
    <2>3. /\ val'[he] = v /\ \A c \in alloc \ {he} : val'[c] = val[c] /\ key[c] # k
          /\ k \in DOMAIN Map
      BY <1>2, <2>1, <2>2 DEF Chains, MapIsEntries
    <2>4. Map' = KM!With(k, v)
      BY <1>2, <2>1, <2>2, <2>3, MapWith
    <2>5. KM!Assign(k)
      BY <2>2, <2>3, <2>4 DEF KM!Assign
    <2> QED
      BY <2>5, <1>5 DEF KM!KMNext
  <1>10. ASSUME NEW k \in Keys, Delete(k) \/ DeleteNoFree(k)
         PROVE  KM!KMNext
    <2>1. Unlink(k)
      BY <1>10 DEF Delete, DeleteNoFree
    <2>2. /\ Map' = KM!Without(k) /\ k \in DOMAIN Map
          /\ call' = <<"remove", k>> /\ answer' = "ok"
      BY <1>2, <2>1, MapUnlinked DEF Unlink
    <2>3. KM!Remove(k)
      BY <2>2 DEF KM!Remove
    <2> QED
      BY <2>3, <1>5 DEF KM!KMNext
  <1>11. ASSUME NEW k \in Keys, DeleteAbsent(k)
         PROVE  KM!KMNext
    <2>1. /\ Map' = Map /\ k \notin DOMAIN Map
          /\ call' = <<"remove", k>> /\ answer' = "err"
      BY <1>2, <1>3, <1>11, SameMap DEF DeleteAbsent, tableVars
    <2>2. DOMAIN Map \ {k} = DOMAIN Map /\ Map = [j \in DOMAIN Map |-> Map[j]]
      BY <2>1, <1>2 DEF MapIsEntries
    <2>3. KM!Without(k) = Map
      BY <2>2 DEF KM!Without, KM!Restrict
    <2>4. KM!Remove(k)
      BY <2>1, <2>3 DEF KM!Remove
    <2> QED
      BY <2>4, <1>5 DEF KM!KMNext
  <1>12. ASSUME NEW k \in Keys, FetchValue(k)
         PROVE  KM!KMNext
    <2>1. Map' = Map /\ call' = <<"lookup", k>>
      BY <1>2, <1>12, SameMap DEF FetchValue, tableVars
    <2>2. answer' = IF k \in DOMAIN Map THEN Map[k] ELSE NULL
      BY <1>2, <1>3, <1>12, LookupFinds DEF FetchValue, MapIsEntries
    <2>3. KM!Lookup(k)
      BY <2>1, <2>2 DEF KM!Lookup
    <2> QED
      BY <2>3, <1>5 DEF KM!KMNext
  <1>13. CASE Empty
    <2>1. alloc' = {} /\ call' = <<"clear", NULL>> /\ answer' = NULL
      BY <1>13 DEF Empty
    <2>2. DOMAIN Map' = {} /\ Map' = [j \in DOMAIN Map' |-> Map'[j]]
      BY <2>1, <1>2 DEF MapIsEntries
    <2>3. Map' = [j \in {} |-> NULL]
      BY <2>2
    <2>4. KM!Clear
      BY <2>1, <2>3 DEF KM!Clear
    <2> QED
      BY <2>4, <1>5 DEF KM!KMNext
  <1>14. CASE \/ Resize \/ GetIterator \/ NextInChain \/ NextBucket \/ NextDone
              \/ ReleaseIterator \/ UNCHANGED vars
    <2>1. UNCHANGED <<alloc, key, val, call, answer>>
      BY <1>14 DEF Resize, GetIterator, NextInChain, NextBucket, NextDone, Yield,
         ReleaseIterator, vars, tableVars, callVars
    <2>2. Map' = Map
      BY <2>1, <1>2, SameMap
    <2> QED
      BY <2>1, <2>2, <1>5 DEF KM!kmVars
  <1> QED
    BY <1>6, <1>7, <1>8, <1>9, <1>10, <1>11, <1>12, <1>13, <1>14 DEF Next

(***************************************************************************)
(* The dict implements the abstract map: every call changes it and answers *)
(* as the map does, whatever the hash function and however keys collide.   *)
(***************************************************************************)
THEOREM DictImplementsKeyMap == Spec => ImplementsKeyMap
  BY RefInit, RefStep, IInvAlways, PTL DEF Spec, ImplementsKeyMap, KM!KMSpec
=============================================================================
