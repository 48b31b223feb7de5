------------------------------ MODULE MemPool ------------------------------
(***************************************************************************)
(* demo_mempool/mempool.c, the pools: a base pool, the list of pools it    *)
(* grew by, the pools kept for reuse, and the large blocks.  The search of *)
(* palloc through the list is taken pool by pool; pfree is one step.  What *)
(* a pool looks like inside is in MemBlock: here a pool has its leftsize   *)
(* and the sizes of its busy blocks, and a pool with busy blocks may or    *)
(* may not have a free block that fits.  The hash tables are the sets that *)
(* MpHash is shown to implement.                                           *)
(***************************************************************************)
EXTENDS Integers, Sequences, FiniteSets, FiniteSetsExt, Functions

CONSTANTS
    Base,           \* the pool mempool_init_extra returned
    Pools,          \* addresses malloc may return for further pools
    NULL,
    PoolSize,       \* config.pool_size
    PoolHeader,     \* sizeof(mempool_t)
    Header,         \* sizeof(realdata_t)
    LargeHeader,    \* sizeof(mempool_large_t)
    Align,          \* MEMPOOL_ALIGN_SIZE
    MaxMem,         \* config.max_memsize
    SingleMax,      \* config.single_max
    MaxFree,        \* config.max_freepool
    MaxSearchPool,  \* config.max_searchpool
    FailedSkip,     \* MEMPOOL_FAILED_SKIP
    MaxChecks,      \* MEMPOOL_REALLOC_MAXCHKS
    InPoolSize,     \* MEMPOOL_INPOOL_SIZE
    Requests        \* sizes palloc is called with

Area == PoolSize - PoolHeader

ASSUME MemPoolAssumption ==
    /\ Base \notin Pools /\ NULL \notin Pools \cup {Base}
    /\ IsFiniteSet(Pools) /\ IsFiniteSet(Requests)
    /\ {PoolSize, PoolHeader, Header, LargeHeader, Align} \subseteq Nat \ {0}
    /\ Area \in Nat /\ Area >= Header
    /\ {MaxMem, SingleMax, MaxFree, FailedSkip, MaxChecks, InPoolSize}
            \subseteq Nat
    /\ MaxMem >= PoolSize
    /\ MaxSearchPool \in Int
    /\ Requests \subseteq Nat

All == Pools \cup {Base}
BlockSizes == 1 .. Area

VARIABLES
    list,           \* pdata.next, pdata.prev of the pools, and pooltail
    freepool, pfree_count,
    leftsize, failed,
    busy,           \* busy[q][s]: busy blocks of size s in pool q
    ht,             \* pools in config.ht
    heap,           \* pools malloc has returned
    larges,         \* larges[s]: large blocks of size s
    total_alloced, total_leftsize,
    spc,            \* control state of palloc
    req, tmp, search_failed, checked_times      \* its locals

poolVars == <<list, freepool, pfree_count, ht, heap>>
fillVars == <<leftsize, failed, busy>>
totals == <<total_alloced, total_leftsize>>
locals == <<spc, req, tmp, search_failed, checked_times>>
vars == <<poolVars, fillVars, larges, totals, locals>>

LargeSize(n) == ((n + LargeHeader + Align - 1) \div Align) * Align
LargeSizes == {LargeSize(n) : n \in Requests}

(* Buckets of both hash tables: hash_size, rounded up by mphash. *)
TableSize ==
    LET n == MaxMem \div PoolSize
        doubled[i \in 0 .. n] == IF i = 0 THEN 1 ELSE 2 * doubled[i - 1]
    IN  Min({d \in Range(doubled) : d >= n + 1})

(* mempool_init_extra *)
Init ==
    /\ list = [next |-> [q \in All |-> NULL], prev |-> [q \in All |-> NULL],
               pooltail |-> NULL]
    /\ freepool = NULL
    /\ pfree_count = 0
    /\ leftsize = [q \in All |-> Area]
    /\ failed = [q \in All |-> 0]
    /\ busy = [q \in All |-> [s \in BlockSizes |-> 0]]
    /\ ht = {Base}
    /\ heap = {Base}
    /\ larges = [s \in LargeSizes |-> 0]
    /\ total_alloced = 0
    /\ total_leftsize = Area
    /\ spc = "idle"
    /\ req = 0
    /\ tmp = NULL
    /\ search_failed = 0
    /\ checked_times = 0

-----------------------------------------------------------------------------
(* The list of pools *)

SetNext(l, q, x) == IF q = NULL THEN l ELSE [l EXCEPT !.next[q] = x]
SetPrev(l, q, x) == IF q = NULL THEN l ELSE [l EXCEPT !.prev[q] = x]

(* Neighbours of q are joined. *)
Bypass(l, q) == SetPrev(SetNext(l, l.prev[q], l.next[q]), l.next[q], l.prev[q])

(* __mempool_move2tail *)
Move2Tail(l, q) ==
    IF q = Base \/ q = l.pooltail THEN l
    ELSE [Bypass(l, q) EXCEPT !.next[l.pooltail] = q, !.next[q] = NULL,
                              !.prev[q] = l.pooltail, !.pooltail = q]

(* Behind the base pool, at the end of palloc and of move2header. *)
InsertFirst(l, q) ==
    SetPrev([l EXCEPT !.next[q] = l.next[Base], !.prev[q] = Base,
                      !.next[Base] = q],
            l.next[Base], q)

(* The pools from q by next. *)
Walk(q) ==
    LET n == Cardinality(All) + 1
        at[i \in 1 .. n] == IF i = 1 THEN q
                           ELSE IF at[i - 1] = NULL THEN NULL
                           ELSE list.next[at[i - 1]]
    IN  [i \in 1 .. Cardinality({j \in 1 .. n : at[j] # NULL}) |-> at[i]]

(***************************************************************************)
(* __mempool_move2header: q, which has just got space again, comes first   *)
(* when enough pools in front of it have failed and have less space.       *)
(***************************************************************************)
Worse(x, q, left) ==
    /\ failed[x] > FailedSkip \div 2
    /\ left[q] > left[x]
    /\ left[q] >= PoolSize \div 2

Move2Header(l, q, left) ==
    LET others == Tail(Walk(Base))
        enough == (FailedSkip \div 2) + 1
        moves == /\ q # Base /\ q # l.next[Base]
                 /\ Len(others) >= enough
                 /\ \A k \in 1 .. enough : Worse(others[k], q, left)
        shorter == IF q = l.pooltail THEN [l EXCEPT !.pooltail = l.prev[q]]
                   ELSE l
    IN  IF moves THEN InsertFirst(Bypass(shorter, q), q) ELSE l

-----------------------------------------------------------------------------
(* palloc *)

HasBusy(q) == \E s \in BlockSizes : busy[q][s] > 0

(* Fault: the memory limit is not tested. *)
Accepted_NoLimit(n) ==
    /\ spc = "idle"
    /\ n > 0 /\ n <= SingleMax

(* A call that gets past the limits; judge_alloc may refuse any. *)
Accepted(n) ==
    /\ spc = "idle"
    /\ n > 0 /\ n <= SingleMax
    /\ total_alloced + PoolSize < MaxMem

(* __alloc_large: a full table of large blocks, or malloc, may refuse. *)
PallocLarge(n) ==
    /\ Accepted(n)
    /\ n > Area - Header
    /\ SumFunction(larges) < TableSize
    /\ larges' = [larges EXCEPT ![LargeSize(n)] = @ + 1]
    /\ total_alloced' = total_alloced + LargeSize(n)
    /\ UNCHANGED <<poolVars, fillVars, total_leftsize, locals>>

(* The search of __alloc_realdata begins. *)
Palloc(n) ==
    /\ Accepted(n)
    /\ n <= Area - Header
    /\ spc' = "search"
    /\ req' = n + Header
    /\ tmp' = IF leftsize[Base] > n + Header THEN Base ELSE list.next[Base]
    /\ search_failed' = 0 /\ checked_times' = 0
    /\ UNCHANGED <<poolVars, fillVars, larges, totals>>

Scarce(q) == leftsize[q] < PoolSize \div 4      \* config.failed_memsize

(* One more pool without a block: on to pool q, or break at max_searchpool. *)
Miss(q) ==
    IF MaxSearchPool > 0 /\ search_failed + 1 >= MaxSearchPool
      THEN spc' = "retry" /\ UNCHANGED <<tmp, search_failed>>
      ELSE /\ tmp' = q
           /\ search_failed' = IF MaxSearchPool > 0 THEN search_failed + 1 ELSE 0
           /\ UNCHANGED spc

(* The pool has too little, or nothing from the class of req up. *)
SearchShort ==
    /\ spc = "search" /\ tmp # NULL
    /\ leftsize[tmp] < req \/ HasBusy(tmp)
    /\ IF failed[tmp] < FailedSkip
         THEN /\ failed' = [failed EXCEPT ![tmp] = IF Scarce(tmp) THEN @ + 1
                                                   ELSE @]
              /\ UNCHANGED list
         ELSE list' = Move2Tail(list, tmp) /\ UNCHANGED failed
    /\ Miss(list.next[tmp])
    /\ UNCHANGED <<freepool, pfree_count, ht, heap, leftsize, busy, larges,
                   totals, req, checked_times>>

(* __get_availdata finds no block that fits. *)
SearchUnfit ==
    /\ spc = "search" /\ tmp # NULL
    /\ leftsize[tmp] >= req /\ HasBusy(tmp)
    /\ failed' = [failed EXCEPT ![tmp] =
                     IF @ < FailedSkip /\ Scarce(tmp) THEN @ + 1 ELSE @]
    /\ Miss(list.next[tmp])
    /\ UNCHANGED <<poolVars, leftsize, busy, larges, totals, req,
                   checked_times>>

(* Sizes __split_realdata may hand out: a rest below two headers is kept. *)
Taken(q) ==
    IF HasBusy(q) THEN {t \in req .. req + (2 * Header) - 1 : t <= leftsize[q]}
    ELSE IF Area - req < 2 * Header THEN {Area} ELSE {req}

SearchFound ==
    /\ spc = "search" /\ tmp # NULL
    /\ leftsize[tmp] >= req
    /\ \E t \in Taken(tmp) :
          /\ leftsize' = [leftsize EXCEPT ![tmp] = @ - t]
          /\ busy' = [busy EXCEPT ![tmp][t] = @ + 1]
          /\ total_leftsize' = total_leftsize - t
    /\ failed' = [failed EXCEPT ![tmp] = IF HasBusy(tmp) THEN 0 ELSE @]
    /\ spc' = "idle" /\ req' = 0 /\ tmp' = NULL
    /\ search_failed' = 0 /\ checked_times' = 0
    /\ UNCHANGED <<poolVars, larges, total_alloced>>

SearchEnd ==
    /\ spc = "search" /\ tmp = NULL
    /\ spc' = "grow"
    /\ UNCHANGED <<poolVars, fillVars, larges, totals, req, tmp,
                   search_failed, checked_times>>

(* Fault: the same pool is searched again. *)
Retry_SamePool ==
    LET free(percent) ==
            total_leftsize * 100 >= percent * (total_alloced + PoolSize)
        plenty == free(20) \/ total_leftsize >= InPoolSize
    IN
    /\ spc = "retry"
    /\ IF checked_times < MaxChecks /\ (plenty \/ free(10))
         THEN /\ spc' = "search"
              /\ checked_times' = IF plenty THEN 0 ELSE checked_times + 1
              /\ search_failed' = 0
              /\ UNCHANGED tmp
         ELSE /\ spc' = "grow"
              /\ UNCHANGED <<tmp, search_failed, checked_times>>
    /\ UNCHANGED <<poolVars, fillVars, larges, totals, req>>

(* After max_searchpool misses: go on while enough of all memory is free. *)
Retry ==
    LET free(percent) ==
            total_leftsize * 100 >= percent * (total_alloced + PoolSize)
        plenty == free(20) \/ total_leftsize >= InPoolSize
    IN
    /\ spc = "retry"
    /\ IF checked_times < MaxChecks /\ (plenty \/ free(10))
         THEN /\ spc' = "search"
              /\ checked_times' = IF plenty THEN 0 ELSE checked_times + 1
              /\ tmp' = list.next[tmp]
              /\ search_failed' = 0
         ELSE /\ spc' = "grow"
              /\ UNCHANGED <<tmp, search_failed, checked_times>>
    /\ UNCHANGED <<poolVars, fillVars, larges, totals, req>>

(* No block and no room for a further pool: palloc answers NULL. *)
GrowRefused ==
    /\ spc = "grow"
    /\ total_alloced + 2 * PoolSize >= MaxMem
    /\ spc' = "idle" /\ req' = 0 /\ tmp' = NULL
    /\ search_failed' = 0 /\ checked_times' = 0
    /\ UNCHANGED <<poolVars, fillVars, larges, totals>>

(***************************************************************************)
(* __get_mempool reuses a pool or allocates q; palloc links it behind the  *)
(* base pool and searches from there.  The table of pools has room: see    *)
(* LimitRespected.                                                         *)
(***************************************************************************)
Grow(q) ==
    /\ spc = "grow"
    /\ total_alloced + 2 * PoolSize < MaxMem
    /\ IF freepool = NULL
         THEN /\ q \in Pools \ heap
              /\ heap' = heap \cup {q}
              /\ UNCHANGED <<freepool, pfree_count>>
         ELSE /\ q = freepool
              /\ freepool' = list.next[q]
              /\ pfree_count' = pfree_count - 1
              /\ UNCHANGED heap
    /\ LET popped == IF freepool = NULL THEN list
                     ELSE SetPrev(list, list.next[q], NULL)
       IN  list' = [InsertFirst(popped, q) EXCEPT
                       !.pooltail = IF @ = NULL THEN q ELSE @]
    /\ ht' = ht \cup {q}
    /\ leftsize' = [leftsize EXCEPT ![q] = Area]
    /\ failed' = [failed EXCEPT ![q] = 0]
    /\ total_alloced' = total_alloced + PoolSize
    /\ total_leftsize' = total_leftsize + Area
    /\ spc' = "search" /\ tmp' = q
    /\ search_failed' = 0 /\ checked_times' = 0
    /\ UNCHANGED <<busy, larges, req>>

(* malloc fails in __get_mempool, which goes on with the NULL pool. *)
GrowCrash ==
    /\ spc = "grow"
    /\ total_alloced + 2 * PoolSize < MaxMem
    /\ freepool = NULL
    /\ spc' = "crashed"
    /\ UNCHANGED <<poolVars, fillVars, larges, totals, req, tmp,
                   search_failed, checked_times>>

-----------------------------------------------------------------------------
(* pfree *)

(* Fault: pooltail still points to the pool that goes. *)
Unlink_TailKept(l, q) == Bypass(l, q)

(* __mempool_internal_destroy takes q out of the list. *)
Unlink(l, q) ==
    LET before == IF l.prev[q] = Base THEN NULL ELSE l.prev[q]
    IN  [Bypass(l, q) EXCEPT !.pooltail = IF q = @ THEN before ELSE @]

Remaining(q, s) == [busy EXCEPT ![q][s] = @ - 1]
LastBlock(q, s) == \A t \in BlockSizes : Remaining(q, s)[q][t] = 0

(* The block leaves a pool that has others. *)
FreeBlock(q, s) ==
    LET left == [leftsize EXCEPT ![q] = @ + s] IN
    /\ spc = "idle"
    /\ busy[q][s] > 0
    /\ ~ LastBlock(q, s)
    /\ busy' = Remaining(q, s)
    /\ leftsize' = left
    /\ failed' = [failed EXCEPT ![q] = 0]
    /\ list' = IF leftsize[q] = 0 THEN Move2Header(list, q, left) ELSE list
    /\ total_leftsize' = total_leftsize + s
    /\ UNCHANGED <<freepool, pfree_count, ht, heap, larges, total_alloced,
                   locals>>

(* The last block of the base pool: the pool is made new. *)
FreeLastOfBase(s) ==
    /\ spc = "idle"
    /\ busy[Base][s] > 0
    /\ LastBlock(Base, s)
    /\ busy' = Remaining(Base, s)
    /\ leftsize' = [leftsize EXCEPT ![Base] = Area]
    /\ failed' = [failed EXCEPT ![Base] = 0]
    /\ total_leftsize' = total_leftsize + s
    /\ UNCHANGED <<poolVars, larges, total_alloced, locals>>

(* The last block of another pool: the pool is kept for reuse, or freed. *)
FreeLast(q, s) ==
    /\ spc = "idle"
    /\ q # Base
    /\ busy[q][s] > 0
    /\ LastBlock(q, s)
    /\ busy' = Remaining(q, s)
    /\ ht' = ht \ {q}
    /\ leftsize' = [leftsize EXCEPT ![q] = Area]
    /\ failed' = [failed EXCEPT ![q] = 0]
    /\ IF pfree_count < MaxFree
         THEN /\ list' = SetPrev([Unlink(list, q) EXCEPT
                                     !.next[q] = freepool, !.prev[q] = NULL],
                                 freepool, q)
              /\ freepool' = q
              /\ pfree_count' = pfree_count + 1
              /\ UNCHANGED heap
         ELSE /\ list' = [Unlink(list, q) EXCEPT !.next[q] = NULL,
                                                 !.prev[q] = NULL]
              /\ heap' = heap \ {q}
              /\ UNCHANGED <<freepool, pfree_count>>
    /\ total_alloced' = total_alloced - PoolSize
    /\ total_leftsize' = total_leftsize - leftsize[q]
    /\ UNCHANGED <<larges, locals>>

(* __free_large *)
FreeLarge(s) ==
    /\ spc = "idle"
    /\ larges[s] > 0
    /\ larges' = [larges EXCEPT ![s] = @ - 1]
    /\ total_alloced' = total_alloced - s
    /\ UNCHANGED <<poolVars, fillVars, total_leftsize, locals>>

(* mempool_destroy follows both lists of pools. *)
Destroy ==
    /\ spc = "idle"
    /\ spc' = "destroyed"
    /\ heap' = heap \ (Range(Walk(freepool)) \cup Range(Walk(Base)))
    /\ larges' = [s \in LargeSizes |-> 0]
    /\ UNCHANGED <<list, freepool, pfree_count, ht, fillVars, totals, req,
                   tmp, search_failed, checked_times>>

-----------------------------------------------------------------------------
SearchStep ==
    \/ SearchShort \/ SearchUnfit \/ SearchFound \/ SearchEnd \/ Retry
    \/ GrowRefused \/ GrowCrash
    \/ \E q \in Pools : Grow(q)

Next ==
    \/ \E n \in Requests : Palloc(n) \/ PallocLarge(n)
    \/ SearchStep
    \/ \E q \in All, s \in BlockSizes : FreeBlock(q, s) \/ FreeLast(q, s)
    \/ \E s \in BlockSizes : FreeLastOfBase(s)
    \/ \E s \in LargeSizes : FreeLarge(s)
    \/ Destroy

Spec == Init /\ [][Next]_vars

(* palloc runs on once it was called. *)
FairSpec == Spec /\ WF_vars(SearchStep)

-----------------------------------------------------------------------------
(* Properties *)

(* The fields hold values of their C types. *)
TypeOK ==
    /\ list \in [next : [All -> All \cup {NULL}], prev : [All -> All \cup {NULL}],
                pooltail : Pools \cup {NULL}]
    /\ freepool \in Pools \cup {NULL}
    /\ pfree_count \in 0 .. MaxFree
    /\ leftsize \in [All -> 0 .. Area]
    /\ failed \in [All -> 0 .. FailedSkip]
    /\ busy \in [All -> [BlockSizes -> Nat]]
    /\ ht \subseteq All /\ heap \subseteq All
    /\ larges \in [LargeSizes -> Nat]
    /\ total_alloced \in Nat /\ total_leftsize \in Nat
    /\ spc \in {"idle", "search", "retry", "grow", "crashed", "destroyed"}
    /\ tmp \in All \cup {NULL}

(* prev is the inverse of next along the pools of w. *)
Linked(w) ==
    \A k \in 1 .. Len(w) :
        list.prev[w[k]] = IF k = 1 THEN NULL ELSE w[k - 1]

(***************************************************************************)
(* Whatever was moved, reused and released: the list from the base pool    *)
(* holds exactly the pools of the hash table, linked both ways, pooltail   *)
(* is its last pool; the pools kept for reuse are pfree_count many and     *)
(* have no busy block (mempool_destroy asserts it); no pool is lost.       *)
(***************************************************************************)
PoolsLinked ==
    spc # "destroyed" =>
      LET used == Walk(Base)
          kept == Walk(freepool)
      IN  /\ Range(used) = ht /\ Cardinality(ht) = Len(used)
          /\ Linked(used) /\ Linked(kept)
          /\ list.pooltail = IF Len(used) = 1 THEN NULL ELSE used[Len(used)]
          /\ pfree_count = Len(kept)
          /\ ht \cap Range(kept) = {}
          /\ heap = ht \cup Range(kept)
          /\ \A q \in All \ ht : ~ HasBusy(q)

(***************************************************************************)
(* The totals of the base pool agree with its pools and blocks, through    *)
(* reuse, release and growth.                                              *)
(***************************************************************************)
TotalsExact ==
    spc # "destroyed" =>
      /\ total_leftsize = SumFunctionOnSet(leftsize, ht)
      /\ total_alloced = PoolSize * (Cardinality(ht) - 1)
                         + SumFunction([s \in LargeSizes |-> s * larges[s]])
      /\ \A q \in ht :
            leftsize[q] + SumFunction([s \in BlockSizes |-> s * busy[q][s]]) = Area

(***************************************************************************)
(* max_memsize holds for the pools, and is passed by at most one large     *)
(* block; so the table of pools is never full when a pool is added.        *)
(***************************************************************************)
LimitRespected ==
    /\ PoolSize * Cardinality(ht) <= MaxMem
    /\ total_alloced + PoolSize < MaxMem + LargeSize(SingleMax)
    /\ Cardinality(ht) <= TableSize

(* mempool_destroy gives back every pool malloc returned. *)
DestroyFreesAll == spc = "destroyed" => heap = {}

(***************************************************************************)
(* The pools are in order after every call and within it: lists, hash      *)
(* table, totals, and nothing is left behind by mempool_destroy.           *)
(***************************************************************************)
PoolsOK == TypeOK /\ PoolsLinked /\ TotalsExact /\ DestroyFreesAll

(***************************************************************************)
(* "The current pool is short of memory, add a new pool and go on": a call *)
(* of palloc returns (or crashes, where malloc fails): the search through  *)
(* pools that are moved while it runs, its retries and the growth end.     *)
(***************************************************************************)
PallocReturns == spc = "search" ~> spc \in {"idle", "crashed"}
=============================================================================
