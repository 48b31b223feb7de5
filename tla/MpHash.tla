------------------------------- MODULE MpHash -------------------------------
(***************************************************************************)
(* demo_mempool/mphash.c: the fixed-size hash table the memory pool finds  *)
(* its pools and its large blocks with.  Every node comes from the array   *)
(* bucket_nodes and is either on the free list or on the doubly linked     *)
(* list of one bucket, which is sorted by the bit-reversed hash.  A datum  *)
(* is a pointer; two data are equal (cmp answers 0) when their Ident is    *)
(* the same.  The table owns its data: it frees them (ht->free).           *)
(***************************************************************************)
EXTENDS Integers, Sequences, FiniteSets, FiniteSetsExt, Functions

CONSTANTS
    Idents,         \* what cmp tells apart
    Data,           \* pointers a client may insert
    Ident,          \* Data -> Idents
    Hash,           \* ht->hash, on Idents
    Width,          \* bits of a uint32_t (32)
    Requests,       \* values of buckets_size passed to create
    NULL

ASSUME MpHashAssumption ==
    /\ Ident \in [Data -> Idents]
    /\ Width \in Nat \ {0}
    /\ Hash \in [Idents -> 0 .. 2^Width - 1]
    /\ Requests \subseteq 0 .. 2^Width - 1
    /\ NULL \notin Idents \cup Data \cup Nat

VARIABLES
    asked,          \* the buckets_size create was called with
    status,         \* "null", "hung", "open", "crashed" or "freed"
    num_buckets,    \* a power of two
    ht,             \* the links, the buckets and the free list
    num_elements,
    released,       \* data that are not allocated: never, or given to ht->free
    call, answer    \* the last call and what it returned

created == <<asked, num_buckets>>
vars == <<created, status, ht, num_elements, released, call, answer>>

-----------------------------------------------------------------------------
(* Creation *)

(***************************************************************************)
(* size doubles from 1 until it reaches n.  Past the top bit the shift     *)
(* leaves 0 and the loop never ends: 0 stands for that outcome.            *)
(***************************************************************************)
Rounded(n) ==
    LET sizes == {i \in 0 .. Width : 2^i % 2^Width >= n}
    IN  IF sizes = {} THEN 0 ELSE 2^Min(sizes)

mask == num_buckets - 1
Nodes == 0 .. num_buckets - 1

(* mp_hash_table_create *)
Init ==
    /\ asked \in Requests
    /\ num_buckets = IF asked = 0 THEN 0 ELSE Rounded(asked)
    /\ status = IF asked = 0 THEN "null"
                ELSE IF num_buckets = 0 THEN "hung" ELSE "open"
    /\ ht = [next |-> [x \in Nodes |-> IF x + 1 \in Nodes THEN x + 1 ELSE NULL],
             prev |-> [x \in Nodes |-> IF x > 0 THEN x - 1 ELSE NULL],
             data |-> [x \in Nodes |-> NULL],
             reversed |-> [x \in Nodes |-> 0],
             table_buckets |-> [b \in Nodes |-> NULL],
             free_buckets |-> IF Nodes = {} THEN NULL ELSE 0]
    /\ num_elements = 0
    /\ released = Data
    /\ call = <<"none", NULL>> /\ answer = NULL

-----------------------------------------------------------------------------
(* Lists *)

(* The bits of k in the opposite order. *)
Reverse(k) ==
    LET rev[i \in 0 .. Width] ==
            IF i = 0 THEN 0 ELSE (2 * rev[i - 1]) + ((k \div 2^(i - 1)) % 2)
    IN  rev[Width]

(* The nodes from head along next; one too many shows a cycle. *)
Walk(head) ==
    LET succ == [x \in Nodes \cup {NULL} |-> IF x = NULL THEN NULL
                                             ELSE ht.next[x]]
        at[i \in 1 .. num_buckets + 1] == IF i = 1 THEN head ELSE succ[at[i - 1]]
    IN  SelectSeq([i \in 1 .. num_buckets + 1 |-> at[i]], LAMBDA x : x # NULL)

Chain(b) == Walk(ht.table_buckets[b])
FreeList == Walk(ht.free_buckets)

(* The nodes mp_hash_table_walk calls walkfunc for, bucket by bucket. *)
Visited ==
    LET upto[b \in 0 .. num_buckets] ==
            IF b = 0 THEN <<>> ELSE upto[b - 1] \o Chain(b - 1)
    IN  upto[num_buckets]

SetPrev(h, x, p) == IF x = NULL THEN h ELSE [h EXCEPT !.prev[x] = p]

(***************************************************************************)
(* mp_get_free_entry takes the first node of the free list.  The list is   *)
(* not empty below the limit (NodesConserved), so its NULL never occurs.   *)
(***************************************************************************)
GetFree(h) ==
    LET entry == h.free_buckets
        rest == h.next[entry]
    IN  [SetPrev(h, rest, NULL) EXCEPT
            !.free_buckets = rest, !.data[entry] = NULL,
            !.prev[entry] = NULL, !.next[entry] = NULL]

(* Fault: the rest of the free list is not linked behind the node. *)
PutFree_Drops(h, entry) ==
    [h EXCEPT !.reversed[entry] = 0, !.data[entry] = NULL,
              !.prev[entry] = NULL, !.next[entry] = NULL,
              !.free_buckets = entry]

(* mp_put_free_entry *)
PutFree(h, entry) ==
    [SetPrev(h, h.free_buckets, entry) EXCEPT
        !.reversed[entry] = 0, !.data[entry] = NULL,
        !.prev[entry] = NULL, !.next[entry] = h.free_buckets,
        !.free_buckets = entry]

Pos(k) == Hash[k] % mask
Same(x, k) == ht.reversed[x] = Reverse(Hash[k]) /\ Ident[ht.data[x]] = k
Beyond(x, k) == ht.reversed[x] > Reverse(Hash[k])

(* Where a walk for k stops: at an equal datum, or at a greater hash. *)
Stops(k) ==
    LET chain == Chain(Pos(k))
    IN  {p \in 1 .. Len(chain) : Same(chain[p], k) \/ Beyond(chain[p], k)}

(* mp_list_find *)
Find(k) ==
    LET stops == Stops(k)
        x == Chain(Pos(k))[Min(stops)]
    IN  IF stops = {} THEN NULL ELSE IF Same(x, k) THEN x ELSE NULL

(* The node before the place of k in its list, NULL for the front. *)
Last(k) ==
    LET chain == Chain(Pos(k))
        p == IF Stops(k) = {} THEN Len(chain) ELSE Min(Stops(k)) - 1
    IN  IF p = 0 THEN NULL ELSE chain[p]

(* Fault: the node behind the new one keeps its prev. *)
ListInsert_NoPrev(h, b, last, entry) ==
    IF last = NULL
      THEN [h EXCEPT !.next[entry] = h.table_buckets[b],
                     !.table_buckets[b] = entry]
      ELSE [h EXCEPT !.prev[entry] = last, !.next[entry] = h.next[last],
                     !.next[last] = entry]

(* mp_list_insert links entry behind last, or at the head of bucket b. *)
ListInsert(h, b, last, entry) ==
    IF last = NULL
      THEN [SetPrev(h, h.table_buckets[b], entry) EXCEPT
                !.next[entry] = h.table_buckets[b],
                !.table_buckets[b] = entry]
      ELSE [SetPrev(h, h.next[last], entry) EXCEPT
                !.prev[entry] = last, !.next[entry] = h.next[last],
                !.next[last] = entry]

(* mp_list_delete unlinks cur from bucket b. *)
ListDelete(h, b, cur) ==
    LET before == h.prev[cur]
        linked == IF before = NULL
                    THEN [h EXCEPT !.table_buckets[b] = h.next[cur]]
                    ELSE [h EXCEPT !.next[before] = h.next[cur]]
    IN  [SetPrev(linked, h.next[cur], before) EXCEPT
            !.prev[cur] = NULL, !.next[cur] = NULL]

-----------------------------------------------------------------------------
(* Operations *)

Returns(c, a) == call' = c /\ answer' = a

Open == status = "open"

(***************************************************************************)
(* Insert, delete and find reduce the hash modulo mask, which is 0 in a    *)
(* table of one bucket: the first call divides by zero.                    *)
(***************************************************************************)
DivisionFault ==
    /\ Open
    /\ mask = 0
    /\ status' = "crashed"
    /\ UNCHANGED <<created, ht, num_elements, released, call, answer>>

InsertFull(d) ==
    /\ Open
    /\ num_elements >= num_buckets
    /\ Returns(<<"insert", Ident[d]>>, "err")
    /\ UNCHANGED <<created, status, ht, num_elements, released>>

(* The client allocates d and hands it to the table. *)
InsertNew(d) ==
    LET k == Ident[d]
        entry == ht.free_buckets
        filled == [GetFree(ht) EXCEPT !.data[entry] = d,
                                      !.reversed[entry] = Reverse(Hash[k])]
    IN
    /\ Open /\ mask > 0
    /\ num_elements < num_buckets
    /\ d \in released
    /\ Find(k) = NULL
    /\ ht' = ListInsert(filled, Pos(k), Last(k), entry)
    /\ num_elements' = num_elements + 1
    /\ released' = released \ {d}
    /\ Returns(<<"insert", k>>, "ok")
    /\ UNCHANGED <<created, status>>

(* An equal datum is there: the node goes back to the free list. *)
InsertDuplicate(d) ==
    LET entry == ht.free_buckets
        filled == [GetFree(ht) EXCEPT
                      !.data[entry] = d,
                      !.reversed[entry] = Reverse(Hash[Ident[d]])]
    IN
    /\ Open /\ mask > 0
    /\ num_elements < num_buckets
    /\ Find(Ident[d]) # NULL
    /\ ht' = PutFree(filled, entry)
    /\ Returns(<<"insert", Ident[d]>>, "err")
    /\ UNCHANGED <<created, status, num_elements, released>>

(* mp_hash_table_delete *)
Delete(k) ==
    LET cur == Find(k) IN
    /\ Open /\ mask > 0
    /\ cur # NULL
    /\ ht' = PutFree(ListDelete(ht, Pos(k), cur), cur)
    /\ released' = released \cup {ht.data[cur]}
    /\ num_elements' = num_elements - 1
    /\ Returns(<<"remove", k>>, "ok")
    /\ UNCHANGED <<created, status>>

DeleteAbsent(k) ==
    /\ Open /\ mask > 0
    /\ Find(k) = NULL
    /\ Returns(<<"remove", k>>, "err")
    /\ UNCHANGED <<created, status, ht, num_elements, released>>

(* mp_hash_table_find *)
FindData(k) ==
    /\ Open /\ mask > 0
    /\ Returns(<<"lookup", k>>, IF Find(k) = NULL THEN NULL
                                ELSE ht.data[Find(k)])
    /\ UNCHANGED <<created, status, ht, num_elements, released>>

(* mp_hash_table_free gives every datum to ht->free, then the table. *)
Free ==
    /\ Open
    /\ status' = "freed"
    /\ released' = released \cup {ht.data[x] : x \in Range(Visited)}
    /\ num_elements' = 0
    /\ Returns(<<"clear", NULL>>, NULL)
    /\ UNCHANGED <<created, ht>>

Next ==
    \/ \E d \in Data : InsertFull(d) \/ InsertNew(d) \/ InsertDuplicate(d)
    \/ \E k \in Idents : Delete(k) \/ DeleteAbsent(k) \/ FindData(k)
    \/ DivisionFault
    \/ Free

Spec == Init /\ [][Next]_vars

-----------------------------------------------------------------------------
(* Properties *)

Ptr == Nodes \cup {NULL}

(* The table's fields hold values of their C types. *)
TypeOK ==
    /\ asked \in Requests
    /\ status \in {"null", "hung", "open", "crashed", "freed"}
    /\ ht.next \in [Nodes -> Ptr]
    /\ ht.prev \in [Nodes -> Ptr]
    /\ ht.data \in [Nodes -> Data \cup {NULL}]
    /\ ht.reversed \in [Nodes -> 0 .. 2^Width - 1]
    /\ ht.table_buckets \in [Nodes -> Ptr]
    /\ ht.free_buckets \in Ptr
    /\ num_elements \in 0 .. num_buckets
    /\ released \subseteq Data

(***************************************************************************)
(* create rounds up to the least power of two that is enough; it does not  *)
(* return when that power does not fit the width.                          *)
(***************************************************************************)
RoundedUp ==
    /\ status \in {"open", "crashed", "freed"} =>
          /\ asked <= num_buckets /\ num_buckets < 2 * asked
          /\ \E i \in 0 .. Width - 1 : num_buckets = 2^i
    /\ status = "hung" <=> asked > 2^(Width - 1)

(* prev is the inverse of next along the list of nodes c. *)
Linked(c) ==
    \A p \in 1 .. Len(c) : ht.prev[c[p]] = IF p = 1 THEN NULL ELSE c[p - 1]

(***************************************************************************)
(* Every node of bucket_nodes is on exactly one list, the free list or one *)
(* bucket's, once, with prev the inverse of next; num_elements counts the  *)
(* nodes in buckets.  So an insertion below the limit always finds a free  *)
(* node, whatever was inserted, rejected and deleted before.               *)
(***************************************************************************)
NodesConserved ==
    /\ TypeOK
    /\ status = "open" =>
         LET lists == [b \in Nodes |-> Chain(b)] IN
         /\ num_elements = num_buckets - Len(FreeList)
         /\ Linked(FreeList) /\ \A b \in Nodes : Linked(lists[b])
         /\ \A x \in Nodes :
               Cardinality({p \in 1 .. Len(FreeList) : FreeList[p] = x})
               + MapThenSumSet(LAMBDA b : Cardinality(
                     {p \in 1 .. Len(lists[b]) : lists[b][p] = x}), Nodes) = 1

(***************************************************************************)
(* Each bucket's list holds data of its own hash, sorted by the reversed   *)
(* hash, which is what lets mp_list_find stop at the first greater one.    *)
(***************************************************************************)
BucketsSorted ==
    status = "open" => \A b \in Nodes :
      LET chain == Chain(b)
          rev(p) == ht.reversed[chain[p]]
          k(p) == Ident[ht.data[chain[p]]]
      IN  /\ \A p \in 1 .. Len(chain) :
                ht.data[chain[p]] # NULL /\ Pos(k(p)) = b
                                        /\ rev(p) = Reverse(Hash[k(p)])
          /\ \A p \in 2 .. Len(chain) : rev(p - 1) <= rev(p)

(***************************************************************************)
(* The table never keeps a datum it has given to ht->free, and the walk    *)
(* calls back exactly once for each datum it keeps.                        *)
(***************************************************************************)
DataOwned ==
    status = "open" =>
      LET nodes == Visited IN
      /\ \A x \in Range(nodes) : ht.data[x] \notin released
      /\ \A p, q \in 1 .. Len(nodes) :
            ht.data[nodes[p]] = ht.data[nodes[q]] => p = q
      /\ Len(nodes) = num_elements

(***************************************************************************)
(* The table is in order after every call: its size, its nodes, its lists  *)
(* and the data it holds.                                                  *)
(***************************************************************************)
TableOK == RoundedUp /\ NodesConserved /\ BucketsSorted /\ DataOwned

(* The table as a map: what its buckets hold, whether or not find finds it. *)
Map ==
    LET stored == IF status = "freed" THEN {}
                  ELSE {ht.data[x] : x \in Range(Visited)}
    IN  [k \in {Ident[d] : d \in stored} |->
            CHOOSE d \in stored : Ident[d] = k]

KM == INSTANCE KeyMap WITH Keys <- Idents, Vals <- Data, None <- NULL,
                           cap <- num_buckets, m <- Map

(* Every call changes the map and answers as the abstract map does. *)
ImplementsKeyMap == KM!KMSpec
=============================================================================
