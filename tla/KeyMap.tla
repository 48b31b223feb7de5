------------------------------- MODULE KeyMap -------------------------------
(***************************************************************************)
(* What the hash tables of the repository (demo_dict and demo_mempool's    *)
(* mphash) promise: a finite map from keys to values that holds at most    *)
(* cap keys, and the answer each call gives.  Nothing is said about        *)
(* buckets, chains or entries.                                             *)
(***************************************************************************)
EXTENDS Integers, FiniteSets, Functions

CONSTANTS Keys, Vals, None

VARIABLES
    cap,        \* how many keys the map can hold, fixed when it is created
    m,          \* the map: a function from a subset of Keys to Vals
    call,       \* the last call, and
    answer      \* what it returned

kmVars == <<cap, m, call, answer>>

With(k, v) == [j \in DOMAIN m \cup {k} |-> IF j = k THEN v ELSE m[j]]
Without(k) == Restrict(m, DOMAIN m \ {k})

KMInit ==
    /\ cap \in Nat
    /\ m = [k \in {} |-> None]
    /\ call = <<"none", None>>
    /\ answer = None

(* Insertion fails on a key that is present and on a full map. *)
Insert(k) ==
    /\ call' = <<"insert", k>>
    /\ IF k \in DOMAIN m \/ Cardinality(DOMAIN m) >= cap
         THEN answer' = "err" /\ m' = m
         ELSE answer' = "ok" /\ \E v \in Vals : m' = With(k, v)

(* Assignment inserts or overwrites, and says which. *)
Assign(k) ==
    /\ call' = <<"assign", k>>
    /\ answer' = IF k \in DOMAIN m THEN "updated" ELSE "added"
    /\ \E v \in Vals : m' = With(k, v)

Remove(k) ==
    /\ call' = <<"remove", k>>
    /\ answer' = IF k \in DOMAIN m THEN "ok" ELSE "err"
    /\ m' = Without(k)

Lookup(k) ==
    /\ call' = <<"lookup", k>>
    /\ answer' = IF k \in DOMAIN m THEN m[k] ELSE None
    /\ m' = m

Clear ==
    /\ call' = <<"clear", None>>
    /\ answer' = None
    /\ m' = [k \in {} |-> None]

KMNext ==
    /\ cap' = cap
    /\ \/ \E k \in Keys : Insert(k) \/ Assign(k) \/ Remove(k) \/ Lookup(k)
       \/ Clear

KMSpec == KMInit /\ [][KMNext]_kmVars
=============================================================================
