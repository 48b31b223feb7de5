-------------------------------- MODULE Dict --------------------------------
(***************************************************************************)
(* demo_dict/dict.c: a chained hash table cut down from Redis to a single  *)
(* dictht, with its iterator.  A chain is the sequence of its entries, the *)
(* one table[idx] points to first; an entry is an address malloc returned, *)
(* and an address that was freed may be returned again.  Values are        *)
(* reference counted by the client's valDup and valDestructor, the use     *)
(* dictReplace's comment describes.                                        *)
(***************************************************************************)
EXTENDS Integers, Sequences, FiniteSets, SequencesExt

CONSTANTS
    Keys, Vals,
    Entries,        \* addresses malloc may return for a dictEntry
    NULL,
    Hash,           \* type->hashFunction: a function on Keys
    InitialSize,    \* DICT_HT_INITIAL_SIZE (4)
    ForceRatio      \* dict_force_resize_ratio (5)

ASSUME DictAssumption ==
    /\ Hash \in [Keys -> Nat]
    /\ InitialSize \in Nat \ {0}
    /\ ForceRatio \in Nat
    /\ NULL \notin Keys \cup Vals \cup Entries
    /\ IsFiniteSet(Keys)

VARIABLES
    table,          \* bucket index -> chain; empty domain for a NULL table
    used,           \* ht.used
    alloc,          \* entries allocated
    key, val,       \* fields of the allocated entries
    refs,           \* references to each value held by the dict
    freedVals,      \* values whose last reference was given back
    iter,           \* the dictIterator, or NULL
    returned,       \* how often the running iteration returned each key
    present,        \* keys in the dict ever since the iteration began
    call, answer    \* the last call and what it returned

tableVars == <<table, used, alloc, key, val>>
valueVars == <<refs, freedVals>>
iterVars == <<iter, returned, present>>
callVars == <<call, answer>>
vars == <<tableVars, valueVars, iterVars, callVars>>

size == Cardinality(DOMAIN table)

NoTable == [b \in {} |-> <<>>]

Init ==
    /\ table = NoTable
    /\ used = 0
    /\ alloc = {}
    /\ key = [a \in Entries |-> NULL]
    /\ val = [a \in Entries |-> NULL]
    /\ refs = [v \in Vals |-> 0]
    /\ freedVals = {}
    /\ iter = NULL
    /\ returned = [k \in Keys |-> 0]
    /\ present = {}
    /\ call = <<"none", NULL>> /\ answer = NULL

-----------------------------------------------------------------------------
(* _dictNextPower: InitialSize doubled until it reaches n. *)
NextPower(n) ==
    Min({p \in InitialSize .. InitialSize + 2 * n :
            p >= n /\ \E i \in 0 .. n : p = InitialSize * 2^i})

(***************************************************************************)
(* dictExpand: the table it allocates is only installed when there was     *)
(* none; otherwise it is dropped (and leaked) and the old one stays.       *)
(***************************************************************************)
Expand(n) ==
    IF DOMAIN table = {} THEN [b \in 0 .. NextPower(n) - 1 |-> <<>>] ELSE table

(* _dictExpandIfNeeded; the call never answers DICT_ERR, as used <= 2*used. *)
ExpandIfNeeded ==
    IF size = 0 THEN Expand(InitialSize)
    ELSE IF used >= size /\ used \div size > ForceRatio THEN Expand(used * 2)
    ELSE table

(* h & sizemask, for a table of a power of two *)
Bucket(t, k) == Hash[k] % Cardinality(DOMAIN t)

(* The entry of k in table t, or NULL: the walk of one chain. *)
Lookup(t, k) ==
    IF DOMAIN t = {} THEN NULL
    ELSE LET chain == t[Bucket(t, k)]
             hits == {p \in 1 .. Len(chain) : key[chain[p]] = k}
         IN  IF hits = {} THEN NULL
             ELSE chain[CHOOSE p \in hits : \A q \in hits : p <= q]

(***************************************************************************)
(* valDup takes a reference, valDestructor gives one back and frees the    *)
(* value with the last.  A value the dict holds no reference to is alive   *)
(* when the client passes it in.                                           *)
(***************************************************************************)
Passed(mem, v) ==
    IF mem.refs[v] = 0 THEN [mem EXCEPT !.freed = @ \ {v}] ELSE mem
Dup(mem, v) == [mem EXCEPT !.refs[v] = @ + 1]
Destroy(mem, v) ==
    [mem EXCEPT !.refs[v] = @ - 1,
                !.freed = IF mem.refs[v] = 1 THEN @ \cup {v} ELSE @]

Memory == [refs |-> refs, freed |-> freedVals]
Store(mem) == refs' = mem.refs /\ freedVals' = mem.freed

-----------------------------------------------------------------------------
(* Adding *)

(***************************************************************************)
(* dictAddRaw of k in the fresh entry a, then dictSetVal: dictAdd when k   *)
(* is absent.  The entry goes to the front of its chain.                   *)
(***************************************************************************)
Link(k, v, a) ==
    LET t == ExpandIfNeeded IN
    /\ a \in Entries \ alloc
    /\ Lookup(t, k) = NULL
    /\ table' = [t EXCEPT ![Bucket(t, k)] = <<a>> \o @]
    /\ used' = used + 1
    /\ alloc' = alloc \cup {a}
    /\ key' = [key EXCEPT ![a] = k]
    /\ val' = [val EXCEPT ![a] = v]
    /\ Store(Dup(Passed(Memory, v), v))
    /\ UNCHANGED iterVars

Add(k, v, a) ==
    /\ Link(k, v, a)
    /\ call' = <<"insert", k>> /\ answer' = "ok"

(* dictAdd of a key that is there: dictAddRaw answers NULL. *)
AddExisting(k) ==
    /\ Lookup(ExpandIfNeeded, k) # NULL
    /\ table' = ExpandIfNeeded
    /\ call' = <<"insert", k>> /\ answer' = "err"
    /\ UNCHANGED <<used, alloc, key, val, valueVars, iterVars>>

ReplaceAbsent(k, v, a) ==
    /\ Link(k, v, a)
    /\ call' = <<"assign", k>> /\ answer' = "added"

(* Fault: the old value is given back before the new one is taken. *)
ReplaceExisting_FreeFirst(k, v) ==
    LET t == ExpandIfNeeded
        he == Lookup(t, k)
    IN
    /\ he # NULL
    /\ table' = t
    /\ val' = [val EXCEPT ![he] = v]
    /\ Store(Dup(Destroy(Passed(Memory, v), val[he]), v))
    /\ call' = <<"assign", k>> /\ answer' = "updated"
    /\ UNCHANGED <<used, alloc, key, iterVars>>

(* dictReplace: the new value is set first, then the old one freed. *)
ReplaceExisting(k, v) ==
    LET t == ExpandIfNeeded
        he == Lookup(t, k)
    IN
    /\ he # NULL
    /\ table' = t
    /\ val' = [val EXCEPT ![he] = v]
    /\ Store(Destroy(Dup(Passed(Memory, v), v), val[he]))
    /\ call' = <<"assign", k>> /\ answer' = "updated"
    /\ UNCHANGED <<used, alloc, key, iterVars>>

-----------------------------------------------------------------------------
(* Deleting *)

(* The iterator's contract: only the entry just returned may be deleted. *)
MayDelete(k) == iter # NULL => Lookup(table, k) = iter.entry

(* Fault: the entries behind the deleted one are cut off with it. *)
Unlink_CutsChain(k) ==
    LET he == Lookup(table, k) IN
    /\ he # NULL
    /\ MayDelete(k)
    /\ table' = [table EXCEPT ![Bucket(table, k)] =
                    SubSeq(@, 1, (CHOOSE p \in 1 .. Len(@) : @[p] = he) - 1)]
    /\ used' = used - 1
    /\ alloc' = alloc \ {he}
    /\ key' = [key EXCEPT ![he] = NULL]
    /\ val' = [val EXCEPT ![he] = NULL]
    /\ present' = present \ {k}
    /\ call' = <<"remove", k>> /\ answer' = "ok"
    /\ UNCHANGED <<iter, returned>>

(* dictGenericDelete unlinks and frees the entry of k. *)
Unlink(k) ==
    LET he == Lookup(table, k) IN
    /\ he # NULL
    /\ MayDelete(k)
    /\ table' = [table EXCEPT ![Bucket(table, k)] =
                    RemoveAt(@, CHOOSE p \in 1 .. Len(@) : @[p] = he)]
    /\ used' = used - 1
    /\ alloc' = alloc \ {he}
    /\ key' = [key EXCEPT ![he] = NULL]
    /\ val' = [val EXCEPT ![he] = NULL]
    /\ present' = present \ {k}
    /\ call' = <<"remove", k>> /\ answer' = "ok"
    /\ UNCHANGED <<iter, returned>>

Delete(k) ==
    /\ Unlink(k)
    /\ Store(Destroy(Memory, val[Lookup(table, k)]))

(* dictDeleteNoFree: the dict's reference to the value becomes the caller's. *)
DeleteNoFree(k) ==
    /\ Unlink(k)
    /\ refs' = [refs EXCEPT ![val[Lookup(table, k)]] = @ - 1]
    /\ UNCHANGED freedVals

DeleteAbsent(k) ==
    /\ Lookup(table, k) = NULL
    /\ call' = <<"remove", k>> /\ answer' = "err"
    /\ UNCHANGED <<tableVars, valueVars, iterVars>>

(***************************************************************************)
(* dictEmpty: _dictClear frees every entry and the table.  Its loop stops  *)
(* at used = 0, which is after the last entry because used is exact.       *)
(***************************************************************************)
Empty ==
    /\ iter = NULL
    /\ table' = NoTable
    /\ used' = 0
    /\ alloc' = {}
    /\ key' = [a \in Entries |-> NULL]
    /\ val' = [a \in Entries |-> NULL]
    /\ refs' = [v \in Vals |-> 0]
    /\ freedVals' = freedVals \cup {v \in Vals : refs[v] > 0}
    /\ call' = <<"clear", NULL>> /\ answer' = NULL
    /\ UNCHANGED iterVars

-----------------------------------------------------------------------------
(* Reading and resizing *)

(* dictFetchValue *)
FetchValue(k) ==
    LET he == Lookup(table, k) IN
    /\ call' = <<"lookup", k>> /\ answer' = IF he = NULL THEN NULL ELSE val[he]
    /\ UNCHANGED <<tableVars, valueVars, iterVars>>

(* dictResize: only ever effective on a dict without a table. *)
Resize ==
    /\ table' = Expand(IF used < InitialSize THEN InitialSize ELSE used)
    /\ UNCHANGED <<used, alloc, key, val, valueVars, iterVars, callVars>>

-----------------------------------------------------------------------------
(* Iterating *)

GetIterator ==
    /\ iter = NULL
    /\ iter' = [index |-> -1, entry |-> NULL, nextEntry |-> NULL]
    /\ returned' = [k \in Keys |-> 0]
    /\ present' = {key[a] : a \in alloc}
    /\ UNCHANGED <<tableVars, valueVars, callVars>>

(* The entry behind a in its chain, or NULL. *)
NextOf(a) ==
    LET chain == table[Bucket(table, key[a])]
        p == CHOOSE q \in 1 .. Len(chain) : chain[q] = a
    IN  IF p < Len(chain) THEN chain[p + 1] ELSE NULL

(* dictNext returns a of bucket i and saves its successor. *)
Yield(i, a) ==
    /\ iter' = [index |-> i, entry |-> a, nextEntry |-> NextOf(a)]
    /\ returned' = [returned EXCEPT ![key[a]] = @ + 1]
    /\ UNCHANGED <<tableVars, valueVars, present, callVars>>

InChain == iter # NULL /\ iter.entry # NULL /\ iter.nextEntry # NULL

(* Non-empty buckets behind the iterator's index. *)
Ahead == {b \in DOMAIN table : b > iter.index /\ table[b] # <<>>}

(* dictNext goes on to the saved successor. *)
NextInChain ==
    /\ InChain
    /\ iter.nextEntry \in alloc
    /\ Yield(iter.index, iter.nextEntry)

(* Fault: the bucket after the current one is skipped. *)
NextBucket_Skips ==
    /\ iter # NULL
    /\ ~ InChain
    /\ Ahead \ {iter.index + 1} # {}
    /\ LET b == CHOOSE c \in Ahead \ {iter.index + 1} :
                    \A d \in Ahead \ {iter.index + 1} : c <= d
       IN  Yield(b, Head(table[b]))

(* dictNext starts the next non-empty bucket. *)
NextBucket ==
    /\ iter # NULL
    /\ ~ InChain
    /\ Ahead # {}
    /\ LET b == CHOOSE c \in Ahead : \A d \in Ahead : c <= d
       IN  Yield(b, Head(table[b]))

(* dictNext runs out of buckets and answers NULL. *)
NextDone ==
    /\ iter # NULL
    /\ ~ InChain
    /\ Ahead = {}
    /\ iter.index < size
    /\ iter' = [index |-> size, entry |-> NULL, nextEntry |-> NULL]
    /\ UNCHANGED <<tableVars, valueVars, returned, present, callVars>>

(* dictReleaseIterator, after the end of the iteration or before. *)
ReleaseIterator ==
    /\ iter # NULL
    /\ iter' = NULL
    /\ UNCHANGED <<tableVars, valueVars, returned, present, callVars>>

-----------------------------------------------------------------------------
Next ==
    \/ \E k \in Keys, v \in Vals, a \in Entries : Add(k, v, a)
    \/ \E k \in Keys : AddExisting(k)
    \/ \E k \in Keys, v \in Vals, a \in Entries : ReplaceAbsent(k, v, a)
    \/ \E k \in Keys, v \in Vals : ReplaceExisting(k, v)
    \/ \E k \in Keys : Delete(k) \/ DeleteNoFree(k) \/ DeleteAbsent(k)
    \/ \E k \in Keys : FetchValue(k)
    \/ Empty
    \/ Resize
    \/ GetIterator
    \/ NextInChain
    \/ NextBucket
    \/ NextDone
    \/ ReleaseIterator

Spec == Init /\ [][Next]_vars

-----------------------------------------------------------------------------
(* Properties *)

(* Tables, entries and iterator hold values of their C types. *)
TypeOK ==
    /\ DOMAIN table = 0 .. size - 1
    /\ \A b \in DOMAIN table : table[b] \in Seq(Entries)
    /\ used \in Nat
    /\ alloc \subseteq Entries
    /\ key \in [Entries -> Keys \cup {NULL}]
    /\ val \in [Entries -> Vals \cup {NULL}]
    /\ refs \in [Vals -> Nat]
    /\ freedVals \subseteq Vals
    /\ \/ iter = NULL
       \/ iter \in [index : Int, entry : Entries \cup {NULL},
                    nextEntry : Entries \cup {NULL}]
    /\ returned \in [Keys -> Nat]
    /\ present \subseteq Keys

(***************************************************************************)
(* The table is well formed after any sequence of calls: every allocated   *)
(* entry is linked once, in the bucket of its key's hash, no freed entry   *)
(* is linked, no key has two entries, and used counts the entries.         *)
(***************************************************************************)
ChainsOK ==
    /\ TypeOK
    /\ used = Cardinality(alloc)
    /\ \A a \in alloc :
          /\ key[a] # NULL
          /\ Cardinality({p \in 1 .. Len(table[Bucket(table, key[a])]) :
                            table[Bucket(table, key[a])][p] = a}) = 1
    /\ \A b \in DOMAIN table : \A p \in 1 .. Len(table[b]) :
          /\ table[b][p] \in alloc
          /\ Bucket(table, key[table[b][p]]) = b
    /\ \A a, c \in alloc : key[a] = key[c] => a = c

(***************************************************************************)
(* The order dictReplace insists on: no entry ever holds a value that was  *)
(* given back for good, even when a key is assigned the value it has.      *)
(***************************************************************************)
ValuesAlive ==
    /\ \A a \in alloc : val[a] \notin freedVals
    /\ \A v \in Vals : refs[v] = Cardinality({a \in alloc : val[a] = v})

(***************************************************************************)
(* dictNext saves the successor before it returns an entry: whatever is    *)
(* added meanwhile, and if the returned entry is deleted, the saved one is *)
(* never a freed entry.                                                    *)
(***************************************************************************)
IteratorNeverDangles == InChain => iter.nextEntry \in alloc

(***************************************************************************)
(* No iteration returns a key twice, and when dictNext has answered NULL   *)
(* it has returned every key that was in the dict all along, though other  *)
(* keys were added and returned ones deleted and added again meanwhile.    *)
(***************************************************************************)
IterationExact ==
    /\ \A k \in Keys : returned[k] <= 1
    /\ iter # NULL /\ iter.index = size => \A k \in present : returned[k] = 1

(* The table and the values it holds are in order after every call. *)
DictOK == ChainsOK /\ ValuesAlive

(* An iteration is safe and exact, whatever is added and deleted meanwhile. *)
IterationOK == IteratorNeverDangles /\ IterationExact

(* The dict as a map: the keys dictFind finds, and their values. *)
Map == [k \in {j \in Keys : Lookup(table, j) # NULL} |-> val[Lookup(table, k)]]

KM == INSTANCE KeyMap WITH m <- Map, cap <- Cardinality(Keys) + 1,
                           None <- NULL

(* Every call changes the map and answers as the abstract map does. *)
ImplementsKeyMap == KM!KMSpec
=============================================================================
