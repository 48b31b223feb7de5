------------------------------ MODULE MemBlock ------------------------------
(***************************************************************************)
(* demo_mempool/mempool.c, the inside of one pool: the memory behind its   *)
(* mempool_t is cut into blocks with a realdata_t header each.  Headers    *)
(* are found by their offset.  realprev and realnext link the blocks in    *)
(* address order; prev and next link the free blocks of one size class, or *)
(* the busy blocks.  A header stays in memory after its block was merged   *)
(* into its neighbour, until the memory is handed out again.               *)
(***************************************************************************)
EXTENDS Integers, Sequences, FiniteSets, FiniteSetsExt, Functions

CONSTANTS
    Area,           \* bytes of a pool behind its mempool_t
    Header,         \* sizeof(realdata_t)
    Limits,         \* MEMPOOL_FREELIST_128B, _512B, _1K, _4K
    MaxSearch,      \* MEMPOOL_MAX_SEARCHINPOOL
    Requests        \* sizes clients ask for

ASSUME MemBlockAssumption ==
    /\ Area \in 1 .. 65535
    /\ Header \in 1 .. Area
    /\ Limits \in Seq(Nat)
    /\ MaxSearch \in Nat
    /\ Requests \subseteq 1 .. Area - Header

NULL == 65535                   \* MEMPOOL_NULL
Offsets == 0 .. Area - 1
Classes == 0 .. Len(Limits)     \* indexes of freelist[]
Top == Len(Limits)

(* Memory that holds no header. *)
NoHeader == [size |-> 0, prev |-> NULL, next |-> NULL, realprev |-> NULL,
             realnext |-> NULL, status |-> 0]

VARIABLE p      \* the headers, freelist, busylist and leftsize of the pool

vars == <<p>>

-----------------------------------------------------------------------------
(* __init_mempool: one free block, in the top class whatever its size. *)
Fresh ==
    [hd |-> [o \in Offsets |->
                IF o = 0 THEN [NoHeader EXCEPT !.size = Area] ELSE NoHeader],
     freelist |-> [i \in Classes |-> IF i = Top THEN 0 ELSE NULL],
     busylist |-> NULL,
     leftsize |-> Area]

Init == p = Fresh

-----------------------------------------------------------------------------
(* Free lists *)

(* __get_freeidx *)
ClassOf(size) == Cardinality({i \in 1 .. Len(Limits) : size > Limits[i]})

(* mempool_get_freelist: the first class with a block, from size's up. *)
FirstList(q, size) ==
    LET full == {i \in Classes : i >= ClassOf(size) /\ q.freelist[i] # NULL}
    IN  IF full = {} THEN -1 ELSE Min(full)

Set(q, o, field, value) ==
    IF o = NULL THEN q ELSE [q EXCEPT !.hd[o][field] = value]

(* __remove_freenode *)
RemoveFree(q, o, i) ==
    LET h == q.hd[o] IN
    IF q.freelist[i] = o
      THEN Set([q EXCEPT !.freelist[i] = h.next], h.next, "prev", NULL)
      ELSE Set(Set(q, h.prev, "next", h.next), h.next, "prev", h.prev)

(* __add_freenode *)
AddFree(q, o, i) ==
    LET first == q.freelist[i]
        linked == Set(q, first, "prev", o)
    IN  [linked EXCEPT !.hd[o].next = first, !.hd[o].prev = NULL,
                       !.freelist[i] = o]

(* The blocks of a list from its head, by next. *)
ListFrom(q, head) ==
    LET succ == [o \in Offsets \cup {NULL} |->
                    IF o = NULL \/ q.hd[o] = NoHeader THEN NULL
                    ELSE q.hd[o].next]
        at[i \in 1 .. Area] == IF i = 1 THEN head ELSE succ[at[i - 1]]
    IN  SelectSeq([i \in 1 .. Area |-> at[i]], LAMBDA o : o # NULL)

-----------------------------------------------------------------------------
(* Allocation *)

(***************************************************************************)
(* The search of one list by __get_availdata: a block replaces the one at  *)
(* the head of the list only if it is large enough and smaller, so a head  *)
(* that is too small hides every block behind it.                          *)
(***************************************************************************)
BestOf(q, list, size) ==
    LET seen == 1 .. Min({Len(list), MaxSearch + 1})
        fits == {k \in seen : q.hd[list[k]].size >= size}
        best == {k \in fits : \A l \in fits :
                    q.hd[list[k]].size <= q.hd[list[l]].size}
    IN  IF 1 \in fits THEN list[Min(best)] ELSE NULL

(* __get_availdata: the first class, from size's up, whose search succeeds. *)
AvailData(q, size) ==
    LET found == [i \in Classes |->
                    IF q.freelist[i] = NULL THEN NULL
                    ELSE BestOf(q, ListFrom(q, q.freelist[i]), size)]
        good == {i \in Classes : i >= ClassOf(size) /\ found[i] # NULL}
    IN  IF good = {} THEN NULL ELSE found[Min(good)]

(* The rest of a split block moves to the class of its size. *)
Reclass(q, rest, i) ==
    LET j == ClassOf(q.hd[rest].size) IN
    IF j = i THEN q ELSE AddFree(RemoveFree(q, rest, i), rest, j)

(* The first half of a block that is cut. *)
Shrink(q, rd, size) ==
    [q EXCEPT !.hd[rd].size = size, !.hd[rd].realnext = rd + size]

(* The second half of rd becomes a free block in rd's place in list i. *)
Cut(q, rd, size, i) ==
    LET h == q.hd[rd]
        rest == rd + size
        made == [q EXCEPT !.hd[rest] = [h EXCEPT !.size = @ - size,
                                                 !.realprev = rd,
                                                 !.status = 0]]
        behind == Set(Set(made, h.realnext, "realprev", rest),
                      h.next, "prev", rest)
        before == IF q.freelist[i] = rd
                    THEN [behind EXCEPT !.freelist[i] = rest]
                    ELSE Set(behind, h.prev, "next", rest)
    IN  Reclass(Shrink(before, rd, size), rest, i)

(* __split_realdata: rd leaves its list, cut to size if enough is left. *)
Split(q, rd, size) ==
    LET i == FirstList(q, q.hd[rd].size)
        taken == IF q.hd[rd].size - size < 2 * Header
                   THEN RemoveFree(q, rd, i)
                   ELSE Cut(q, rd, size, i)
    IN  [taken EXCEPT !.hd[rd].prev = NULL, !.hd[rd].next = NULL,
                      !.hd[rd].status = 1]

(* The client may write over the whole block behind its header. *)
HandOut(q, rd) ==
    [q EXCEPT !.hd = [o \in Offsets |->
        IF o > rd /\ o < rd + q.hd[rd].size THEN NoHeader ELSE @[o]]]

(* The block a pool offers: all of it at its first use, else by search. *)
Offered(size) ==
    IF p.leftsize < size \/ FirstList(p, size) = -1 THEN NULL
    ELSE IF p.busylist = NULL THEN p.freelist[Top]
    ELSE AvailData(p, size)

(* __alloc_realdata in this pool; with nothing to offer it changes nothing. *)
Alloc(n) ==
    LET size == n + Header
        rd == Offered(size)
        cut == Split(p, rd, size)
    IN
    /\ rd # NULL
    /\ p' = HandOut([Set(cut, p.busylist, "prev", rd) EXCEPT
                        !.hd[rd].next = p.busylist, !.busylist = rd,
                        !.leftsize = @ - cut.hd[rd].size], rd)

-----------------------------------------------------------------------------
(* Freeing *)

(* Fault: the neighbour's status is not tested. *)
IsFree_Any(q, o) == o # NULL

IsFree(q, o) == o # NULL /\ q.hd[o].status = 0

PrevFree(q, o) == IsFree(q, q.hd[o].realprev)

(* A free block before o leaves its list and swallows o. *)
JoinPrev(q, o) ==
    LET before == q.hd[o].realprev IN
    IF ~ PrevFree(q, o) THEN q
    ELSE [RemoveFree(q, before, ClassOf(q.hd[before].size)) EXCEPT
             !.hd[before].size = @ + q.hd[o].size,
             !.hd[before].realnext = q.hd[o].realnext]

(* A free block behind leaves its list and is swallowed by o. *)
JoinNext(q, o, behind) ==
    IF ~ IsFree(q, behind) THEN q
    ELSE [RemoveFree(q, behind, ClassOf(q.hd[behind].size)) EXCEPT
             !.hd[o].size = @ + q.hd[behind].size,
             !.hd[o].realnext = q.hd[behind].realnext]

(* Fault: the block behind the merged one is not told. *)
LinkBack_Not(q, o) == q

LinkBack(q, o) == Set(q, q.hd[o].realnext, "realprev", o)

(* __free_realdata *)
FreeRealdata(q, o) ==
    LET header == IF PrevFree(q, o) THEN q.hd[o].realprev ELSE o
        joined == LinkBack(JoinNext(JoinPrev(q, o), header,
                                    q.hd[o].realnext), header)
        added == AddFree(joined, header, ClassOf(joined.hd[header].size))
    IN  [added EXCEPT !.hd[header].status = 0, !.leftsize = @ + q.hd[o].size]

(* Block o leaves the list of busy blocks. *)
RemoveBusy(q, o) ==
    LET h == q.hd[o]
        before == IF h.prev = NULL THEN [q EXCEPT !.busylist = h.next]
                  ELSE Set(q, h.prev, "next", h.next)
    IN  [Set(before, h.next, "prev", h.prev) EXCEPT
            !.hd[o].prev = NULL, !.hd[o].next = NULL]

(***************************************************************************)
(* __pfree_realdata of the block at o: a pool without busy blocks is made  *)
(* new, a full pool gets its one free block without any merging.           *)
(***************************************************************************)
Freed(q, o) ==
    LET rest == RemoveBusy(q, o) IN
    IF rest.busylist = NULL THEN Fresh
    ELSE IF rest.leftsize = 0
      THEN [rest EXCEPT !.freelist[ClassOf(rest.hd[o].size)] = o,
                        !.hd[o].status = 0, !.leftsize = rest.hd[o].size]
    ELSE FreeRealdata(rest, o)

Busy == Range(ListFrom(p, p.busylist))

(* pfree of a block the client holds. *)
Free(o) ==
    /\ o \in Busy
    /\ p' = Freed(p, o)

Next ==
    \/ \E n \in Requests : Alloc(n)
    \/ \E o \in Offsets : Free(o)

Spec == Init /\ [][Next]_vars

-----------------------------------------------------------------------------
(* Properties *)

HeaderType ==
    [size : 1 .. Area, prev : Offsets \cup {NULL}, next : Offsets \cup {NULL},
     realprev : Offsets \cup {NULL}, realnext : Offsets \cup {NULL},
     status : {0, 1}]

(* Headers and lists hold offsets inside the pool, and sizes that fit it. *)
TypeOK ==
    /\ \A o \in Offsets : p.hd[o] = NoHeader \/ p.hd[o] \in HeaderType
    /\ p.freelist \in [Classes -> Offsets \cup {NULL}]
    /\ p.busylist \in Offsets \cup {NULL}
    /\ p.leftsize \in 0 .. Area

(* The blocks in address order, by realnext. *)
Blocks ==
    LET succ == [o \in Offsets \cup {NULL} |->
                    IF o = NULL \/ p.hd[o] = NoHeader THEN NULL
                    ELSE p.hd[o].realnext]
        at[i \in 1 .. Area] == IF i = 1 THEN 0 ELSE succ[at[i - 1]]
    IN  SelectSeq([i \in 1 .. Area |-> at[i]], LAMBDA o : o # NULL)

FreeBlocks == {o \in Range(Blocks) : p.hd[o].status = 0}

(***************************************************************************)
(* After any splits and merges the blocks tile the pool: each ends where   *)
(* its realnext begins, the last at the end of the pool, and realprev      *)
(* leads back, which is what the next merge will follow.                   *)
(***************************************************************************)
Tiled ==
    /\ TypeOK
    /\ LET b == Blocks IN
       \A k \in 1 .. Len(b) :
           /\ p.hd[b[k]] # NoHeader
           /\ b[k] + p.hd[b[k]].size = IF k = Len(b) THEN Area ELSE b[k + 1]
           /\ p.hd[b[k]].realprev = IF k = 1 THEN NULL ELSE b[k - 1]

(* prev is the inverse of next along list l, and no block is in it twice. *)
Linked(l) ==
    /\ \A k \in 1 .. Len(l) :
          p.hd[l[k]].prev = IF k = 1 THEN NULL ELSE l[k - 1]
    /\ Cardinality(Range(l)) = Len(l)

(***************************************************************************)
(* Every free block is in the list of its size class and in no other, the  *)
(* block of a fresh pool in the top one; every busy block is in the busy   *)
(* list; leftsize is the sum of the free blocks.                           *)
(***************************************************************************)
ListsOK ==
    LET lists == [i \in Classes |-> ListFrom(p, p.freelist[i])] IN
    /\ Linked(ListFrom(p, p.busylist))
    /\ Busy = Range(Blocks) \ FreeBlocks
    /\ \A i \in Classes :
          /\ Linked(lists[i])
          /\ Range(lists[i]) =
                {o \in FreeBlocks :
                    i = IF p.busylist = NULL THEN Top
                        ELSE ClassOf(p.hd[o].size)}
    /\ p.leftsize = MapThenSumSet(LAMBDA o : p.hd[o].size, FreeBlocks)

(* Two free blocks are never neighbours: a free merges on both sides. *)
Coalesced ==
    \A o \in FreeBlocks : p.hd[o].realnext \notin FreeBlocks

(***************************************************************************)
(* A pool is in order after every call: its blocks tile it, each is on the *)
(* list it belongs to, and free neighbours are merged.                     *)
(***************************************************************************)
BlocksOK == Tiled /\ ListsOK /\ Coalesced

(* The client's view: the bytes behind the headers of the busy blocks. *)
Held == {[at |-> o + Header, len |-> p.hd[o].size - Header] : o \in Busy}

AR == INSTANCE Arena WITH ArenaSize <- Area, Lengths <- Requests, held <- Held

(* Blocks the client holds never overlap and are as long as it asked for. *)
ImplementsArena == AR!ArenaSpec
=============================================================================
