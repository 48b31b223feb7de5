----------------------------- MODULE EvBuffer ------------------------------
(***************************************************************************)
(* libevent's buffer.c: an evbuffer is a list of chains, each a window     *)
(* (misalign, off) on a block of memory, with a pointer to the `next` that *)
(* leads to the last chain with data.  Every function of the source is an  *)
(* operator from a state s = [buf, chain, failed] to a state; an argument  *)
(* `ok` says whether its allocation succeeds, and failed is set when an    *)
(* EVUTIL_ASSERT does not hold.  Chains pinned by overlapped I/O and file  *)
(* segments are left out.                                                  *)
(***************************************************************************)
EXTENDS Naturals, SequencesExt, FiniteSetsExt, Functions

CONSTANTS
    Buffer,
    Data,                       \* what clients add: sequences of bytes
    WithCallback,               \* buffers that have a callback entry
    DeferredCbs,                \* buffers whose callbacks are deferred
    Freezable,                  \* buffers their owner freezes at either end
    Referenced,                 \* buffers clients add to others by reference
    Worked,                     \* buffers clients make room in, prepend to, pull up
    PullupShared,               \* do clients pull up into immutable chains
    MIN_BUFFER_SIZE, EVBUFFER_CHAIN_SIZE, EVBUFFER_CHAIN_MAX_AUTO_SIZE,
    MAX_TO_COPY_IN_EXPAND, MAX_TO_REALIGN_IN_EXPAND,
    NUM_READ_IOVEC,
    MaxLen,                     \* bound: bytes in all buffers
    MaxFrozen,                  \* bound: bytes in all buffers while one is frozen
    MaxLone,                    \* bound: bytes in all buffers once one was freed
    MaxChains,                  \* bound: chains allocated
    MaxImmutable,               \* bound: immutable blocks
    MaxSpace,                   \* bound: space asked for at once
    MaxUnreported,              \* bound: bytes of several calls that a callback
                                \* has not been told of
    NULL

FIRST == 0                      \* the pointer &buf->first

B(s, b) == s.buf[b]
Off(s, c) == s.chain[c].off
Offs(s, cs) == [i \in DOMAIN cs |-> Off(s, cs[i])]
Sum(ns) == LET sum[i \in 0..Len(ns)] == IF i = 0 THEN 0 ELSE sum[i - 1] + ns[i]
           IN  sum[Len(ns)]
Bytes(s, c) == LET ch == s.chain[c]
               IN  SubSeq(s.chain[ch.buffer].mem, ch.misalign + 1, ch.misalign + ch.off)
Concat(s, cs) == LET cat[i \in 0..Len(cs)] == IF i = 0 THEN <<>> ELSE cat[i - 1] \o Bytes(s, cs[i])
                 IN  cat[Len(cs)]
Contents(s, b) == Concat(s, B(s, b).chains)

(* The position a `struct evbuffer_chain **` leads to, and back. *)
Follow(cs, p) == IF p = FIRST THEN 1 ELSE 1 + CHOOSE i \in DOMAIN cs : cs[i] = p
PointerTo(cs, i) == IF i = 1 THEN FIRST ELSE cs[i - 1]
Chain(cs, i) == IF i \in DOMAIN cs THEN cs[i] ELSE NULL
LastWithData(s, b) == Chain(B(s, b).chains, Follow(B(s, b).chains, B(s, b).last_with_datap))

EVUTIL_ASSERT(s, P) == [s EXCEPT !.failed = @ \/ ~P]

CHAIN_SPACE_LEN(ch) ==
    IF ch.immutable THEN 0 ELSE ch.buffer_len - (ch.misalign + ch.off)

----------------------------------------------------------------------------
(* Chains. *)

ChainSize(size) ==
    LET n == Min({i \in 0..8 : MIN_BUFFER_SIZE * 2^i >= size + EVBUFFER_CHAIN_SIZE})
    IN  MIN_BUFFER_SIZE * 2^n - EVBUFFER_CHAIN_SIZE

New(s) == Min((1..MaxChains * 2) \ DOMAIN s.chain)

evbuffer_chain_new(s, size) ==
    LET c == New(s)
    IN  [s EXCEPT !.chain = [x \in DOMAIN @ \cup {c} |-> IF x # c THEN @[x] ELSE
            [buffer_len |-> ChainSize(size), misalign |-> 0, off |-> 0, refcnt |-> 1,
             immutable |-> FALSE, buffer |-> c, mem |-> [i \in 1..ChainSize(size) |-> 0],
             parent |-> NULL, source |-> NULL]]]

(* memcpy of d into the block of chain c, behind its first `at` bytes *)
Store(s, c, at, d) ==
    [s EXCEPT !.chain[s.chain[c].buffer].mem =
        [i \in DOMAIN @ |-> IF i - at \in DOMAIN d THEN d[i - at] ELSE @[i]]]

Extend(s, c, d) ==
    [Store(s, c, s.chain[c].misalign + Off(s, c), d) EXCEPT !.chain[c].off = @ + Len(d)]

FreedBuffer == [chains |-> <<>>, last |-> NULL, last_with_datap |-> FIRST, total_len |-> 0,
    n_add_for_cb |-> 0, n_del_for_cb |-> 0, freeze_start |-> FALSE, freeze_end |-> FALSE,
    refcnt |-> 0, held |-> FALSE, scheduled |-> FALSE, seen |-> 0]

RECURSIVE evbuffer_chain_free(_, _)
evbuffer_decref_and_unlock_(s, b) ==
    IF B(s, b).refcnt > 1 THEN [s EXCEPT !.buf[b].refcnt = @ - 1]
    ELSE FoldLeft(evbuffer_chain_free, [s EXCEPT !.buf[b] = FreedBuffer], B(s, b).chains)
evbuffer_chain_free(s, c) ==
    LET ch == s.chain[c]
        gone == [s EXCEPT !.chain = Restrict(@, DOMAIN @ \ {c})]
    IN  IF ch.refcnt > 1 THEN [s EXCEPT !.chain[c].refcnt = @ - 1]
        ELSE IF ch.parent = NULL THEN gone
        ELSE evbuffer_decref_and_unlock_(evbuffer_chain_free(gone, ch.parent), ch.source)

evbuffer_free_all_chains(s, cs) == FoldLeft(evbuffer_chain_free, s, cs)

ZERO_CHAIN(s, b) ==
    [s EXCEPT !.buf[b] = [@ EXCEPT !.chains = <<>>, !.last = NULL,
                                   !.last_with_datap = FIRST, !.total_len = 0]]

(* Where evbuffer_free_trailing_empty_chains finds its first victim *)
TrailStart(s, b) ==
    LET cs == B(s, b).chains
    IN  Min({i \in 1..Len(cs) + 1 : /\ i >= Follow(cs, B(s, b).last_with_datap)
                                    /\ i \in DOMAIN cs => Off(s, cs[i]) = 0})

(* Leaves buf->last to the caller, as the source does. *)
evbuffer_free_trailing_empty_chains(s, b) ==
    LET cs == B(s, b).chains
        i == TrailStart(s, b)
        victims == SubSeq(cs, i, Len(cs))
        t == EVUTIL_ASSERT(s, \A c \in ToSet(victims) : Off(s, c) = 0)
    IN  evbuffer_free_all_chains([t EXCEPT !.buf[b].chains = SubSeq(cs, 1, i - 1)], victims)

evbuffer_chain_insert(s, b, c) ==
    IF LastWithData(s, b) = NULL
    THEN LET t == EVUTIL_ASSERT(s, B(s, b).last_with_datap = FIRST /\ B(s, b).chains = <<>>)
         IN  [t EXCEPT !.buf[b] = [@ EXCEPT !.chains = <<c>>, !.last = c,
                                            !.total_len = @ + Off(s, c)]]
    ELSE LET t == evbuffer_free_trailing_empty_chains(s, b)
             cs == B(t, b).chains
         IN  [t EXCEPT !.buf[b] = [@ EXCEPT !.chains = cs \o <<c>>, !.last = c,
                !.last_with_datap = IF Off(s, c) > 0 THEN PointerTo(cs \o <<c>>, Len(cs) + 1)
                                    ELSE @,
                !.total_len = @ + Off(s, c)]]

evbuffer_chain_align(s, c) ==
    [Store(s, c, 0, Bytes(s, c)) EXCEPT !.chain[c].misalign = 0]

evbuffer_chain_should_realign(ch, datlen) ==
    /\ ch.buffer_len - ch.off >= datlen
    /\ ch.off < ch.buffer_len \div 2
    /\ ch.off <= MAX_TO_REALIGN_IN_EXPAND

advance_last_with_data(s, b) ==
    LET cs == B(s, b).chains
        more == {i \in DOMAIN cs : i > Follow(cs, B(s, b).last_with_datap) /\ Off(s, cs[i]) > 0}
    IN  IF more = {} THEN s
        ELSE [s EXCEPT !.buf[b].last_with_datap = PointerTo(cs, Max(more))]

----------------------------------------------------------------------------
(* Callbacks.  seen is the length the callback of a buffer last heard of.  *)

Report(s, b) ==
    [s EXCEPT !.buf[b] = [@ EXCEPT !.n_add_for_cb = 0, !.n_del_for_cb = 0,
                                   !.seen = @ + B(s, b).n_add_for_cb - B(s, b).n_del_for_cb]]

evbuffer_invoke_callbacks_(s, b) ==
    IF b \notin WithCallback
    THEN [s EXCEPT !.buf[b].n_add_for_cb = 0, !.buf[b].n_del_for_cb = 0]
    ELSE IF b \notin DeferredCbs THEN Report(s, b)
    ELSE IF B(s, b).scheduled THEN s
    ELSE [s EXCEPT !.buf[b].scheduled = TRUE, !.buf[b].refcnt = @ + 1]

evbuffer_deferred_callback(s, b) ==
    evbuffer_decref_and_unlock_([Report(s, b) EXCEPT !.buf[b].scheduled = FALSE], b)

(* buf->total_len and n_add_for_cb grow by n, or shrink, and callbacks run. *)
Grown_Uncounted(s, b, n) == [s EXCEPT !.buf[b].total_len = @ + n]
Grown(s, b, n) ==
    [s EXCEPT !.buf[b].total_len = @ + n, !.buf[b].n_add_for_cb = @ + n]
Added(s, b, n) == evbuffer_invoke_callbacks_([s EXCEPT !.buf[b].n_add_for_cb = @ + n], b)
Deleted(s, b, n) == evbuffer_invoke_callbacks_([s EXCEPT !.buf[b].n_del_for_cb = @ + n], b)

----------------------------------------------------------------------------
(* Adding at either end. *)

AddChain(s, b, c, d, remain) ==
    LET len == s.chain[c].buffer_len
        to_alloc == Max({Len(d), IF len <= EVBUFFER_CHAIN_MAX_AUTO_SIZE \div 2 THEN 2 * len ELSE len})
        tmp == New(s)
        t == Grown(Extend(evbuffer_chain_new(s, to_alloc), c, SubSeq(d, 1, remain)), b, remain)
        u == Extend(t, tmp, SubSeq(d, remain + 1, Len(d)))
    IN  Added(evbuffer_chain_insert(u, b, tmp), b, Len(d) - remain)

AddTo(s, b, c, d, ok) ==
    LET ch == s.chain[c]
        remain == IF ch.immutable THEN 0 ELSE ch.buffer_len - ch.misalign - ch.off
        n == Len(d)
    IN  IF ~ch.immutable /\ remain >= n
        THEN evbuffer_invoke_callbacks_(Grown(Extend(s, c, d), b, n), b)
        ELSE IF ~ch.immutable /\ evbuffer_chain_should_realign(ch, n)
        THEN evbuffer_invoke_callbacks_(Grown(Extend(evbuffer_chain_align(s, c), c, d), b, n), b)
        ELSE IF ~ok THEN s
        ELSE AddChain(s, b, c, d, remain)

evbuffer_add(s, b, d, ok) ==
    LET at == LastWithData(s, b)
        c == IF at = NULL THEN B(s, b).last ELSE at
    IN  IF B(s, b).freeze_end \/ (c = NULL /\ ~ok) THEN s
        ELSE IF c # NULL THEN AddTo(s, b, c, d, ok)
        ELSE AddTo(evbuffer_chain_insert(evbuffer_chain_new(s, Len(d)), b, New(s)), b, New(s), d, ok)

(* Fills the free front of chain c with the end of d; the rest, if any,    *)
(* goes to a chain of its own, for which memory may not be there: then the *)
(* end of d stays in the buffer and its callback is not told.              *)
PrependTo(s, b, c, d, ok) ==
    LET ch == s.chain[c]
        room == IF ch.immutable THEN 0 ELSE IF ch.off = 0 THEN ch.buffer_len ELSE ch.misalign
        fit == Min({room, Len(d)})
        t == Grown([Store(s, c, room - fit, SubSeq(d, Len(d) - fit + 1, Len(d))) EXCEPT
                        !.chain[c].off = @ + fit,
                        !.chain[c].misalign = IF ch.immutable THEN @ ELSE room - fit], b, fit)
        rest == SubSeq(d, 1, Len(d) - fit)
        tmp == New(t)
        u == evbuffer_chain_new(t, Len(rest))
        start == u.chain[tmp].buffer_len - Len(rest)
        v == [Store(u, tmp, start, rest) EXCEPT
                !.chain[tmp].off = Len(rest), !.chain[tmp].misalign = start,
                !.buf[b].chains = <<tmp>> \o @,
                !.buf[b].last_with_datap = IF @ = FIRST /\ Off(t, c) > 0 THEN tmp ELSE @]
    IN  IF room >= Len(d) THEN evbuffer_invoke_callbacks_(t, b)
        ELSE IF ~ok THEN t
        ELSE evbuffer_invoke_callbacks_(Grown(v, b, Len(rest)), b)

evbuffer_prepend(s, b, d, ok) ==
    LET c == Chain(B(s, b).chains, 1)
    IN  IF d = <<>> \/ B(s, b).freeze_start \/ (c = NULL /\ ~ok) THEN s
        ELSE IF c # NULL THEN PrependTo(s, b, c, d, ok)
        ELSE PrependTo(evbuffer_chain_insert(evbuffer_chain_new(s, Len(d)), b, New(s)), b, New(s), d, ok)

evbuffer_add_reference(s, b, d) ==
    LET c == New(s)
        t == [evbuffer_chain_new(s, 0) EXCEPT
                !.chain[c] = [@ EXCEPT !.immutable = TRUE, !.buffer_len = Len(d),
                                       !.off = Len(d), !.mem = d]]
    IN  IF B(s, b).freeze_end THEN s
        ELSE Added(evbuffer_chain_insert(t, b, c), b, Len(d))

----------------------------------------------------------------------------
(* Taking from the front. *)

(* How many chains of cs are used up by n bytes *)
Whole(s, cs, n) == Max({k \in 0..Len(cs) : Sum(Offs(s, SubSeq(cs, 1, k))) <= n})

(* The first n bytes of chain c are consumed. *)
Consume_KeepStart(s, c, n) == [s EXCEPT !.chain[c].off = @ - n]
Consume(s, c, n) == [s EXCEPT !.chain[c].misalign = @ + n, !.chain[c].off = @ - n]

evbuffer_drain(s, b, len) ==
    LET cs == B(s, b).chains
        k == Whole(s, cs, len)
        gone == SubSeq(cs, 1, k)
        t == [evbuffer_free_all_chains(s, gone) EXCEPT
                !.buf[b].total_len = @ - len, !.buf[b].chains = SubSeq(cs, k + 1, Len(cs)),
                !.buf[b].last_with_datap =
                    IF {@, LastWithData(s, b)} \cap ToSet(gone) # {} THEN FIRST ELSE @]
    IN  IF B(s, b).total_len = 0 \/ B(s, b).freeze_start THEN s
        ELSE IF len >= B(s, b).total_len
        THEN Deleted(ZERO_CHAIN(evbuffer_free_all_chains(s, cs), b), b, B(s, b).total_len)
        ELSE Deleted(Consume(t, cs[k + 1], len - Sum(Offs(s, gone))), b, len)

(* What evbuffer_copyout writes to its caller *)
evbuffer_copyout_from(s, b, n) ==
    LET cs == B(s, b).chains
        k == Whole(s, cs, n)
    IN  Concat(s, SubSeq(cs, 1, k))
            \o IF k = Len(cs) THEN <<>>
               ELSE SubSeq(Bytes(s, cs[k + 1]), 1, n - Sum(Offs(s, SubSeq(cs, 1, k))))

evbuffer_pullup(s, b, size, ok) ==
    LET cs == B(s, b).chains
        ch == s.chain[cs[1]]
        inPlace == ch.buffer_len - ch.misalign >= size
        tmp == IF inPlace THEN cs[1] ELSE New(s)
        rest == IF inPlace THEN Tail(cs) ELSE cs
        need == IF inPlace THEN size - ch.off ELSE size
        k == Whole(s, rest, need)
        gone == SubSeq(rest, 1, k)
        left == SubSeq(rest, k + 1, Len(rest))
        d == SubSeq(Contents(s, b), size - need + 1, size)
        t == Extend(IF inPlace THEN s ELSE evbuffer_chain_new(s, size), tmp, d)
        u == IF left = <<>> THEN [t EXCEPT !.buf[b].last = tmp]
             ELSE Consume(t, left[1], need - Sum(Offs(s, gone)))
        datap == IF LastWithData(s, b) \in ToSet(gone) THEN FIRST
                 ELSE IF B(s, b).last_with_datap \notin ToSet(gone) THEN B(s, b).last_with_datap
                 ELSE IF left # <<>> /\ Off(u, left[1]) > 0 THEN tmp ELSE FIRST
    IN  IF size = 0 \/ size > B(s, b).total_len \/ ch.off >= size \/ (~inPlace /\ ~ok) THEN s
        ELSE [evbuffer_free_all_chains(u, gone) EXCEPT
                !.buf[b].chains = <<tmp>> \o left, !.buf[b].last_with_datap = datap]

----------------------------------------------------------------------------
(* Moving between buffers. *)

COPY_CHAIN(s, dst, src) ==
    [s EXCEPT !.buf[dst] = [@ EXCEPT !.chains = B(s, src).chains, !.last = B(s, src).last,
        !.last_with_datap = B(s, src).last_with_datap, !.total_len = B(s, src).total_len]]

APPEND_CHAIN(s, dst, src) ==
    LET t == evbuffer_free_trailing_empty_chains(s, dst)
        chp == IF B(t, dst).chains = <<>> THEN FIRST ELSE Last(B(t, dst).chains)
        datap == B(s, src).last_with_datap
    IN  [t EXCEPT !.buf[dst] = [@ EXCEPT !.chains = @ \o B(s, src).chains, !.last = B(s, src).last,
            !.last_with_datap = IF datap = FIRST THEN chp ELSE datap,
            !.total_len = @ + B(s, src).total_len]]

PREPEND_CHAIN(s, dst, src) ==
    [s EXCEPT !.buf[dst] = [@ EXCEPT !.chains = B(s, src).chains \o @,
        !.total_len = @ + B(s, src).total_len,
        !.last_with_datap = IF LastWithData(s, dst) = NULL THEN B(s, src).last_with_datap
                            ELSE IF @ = FIRST THEN B(s, src).last ELSE @]]

(* evbuffer_add_buffer and evbuffer_prepend_buffer share all but this part. *)
MoveAll(s, dst, src, linked) ==
    LET n == B(s, src).total_len
        t == IF B(s, dst).total_len = 0
             THEN COPY_CHAIN(evbuffer_free_all_chains(s, B(s, dst).chains), dst, src)
             ELSE linked
    IN  Added(Deleted(ZERO_CHAIN(t, src), src, n), dst, n)

evbuffer_add_buffer(s, dst, src) ==
    IF B(s, src).total_len = 0 \/ B(s, dst).freeze_end \/ B(s, src).freeze_start THEN s
    ELSE MoveAll(s, dst, src, APPEND_CHAIN(s, dst, src))
evbuffer_prepend_buffer(s, dst, src) ==
    IF B(s, src).total_len = 0 \/ B(s, dst).freeze_start \/ B(s, src).freeze_start THEN s
    ELSE MoveAll(s, dst, src, PREPEND_CHAIN(s, dst, src))

(* The chains that n bytes use up are linked to dst, the rest is copied. *)
evbuffer_remove_buffer(s, src, dst, n, ok) ==
    LET cs == B(s, src).chains
        k == Whole(s, cs, n)
        moved == SubSeq(cs, 1, k)
        whole == Sum(Offs(s, moved))
        t == [EVUTIL_ASSERT(evbuffer_free_trailing_empty_chains(s, dst),
                            LastWithData(s, src) \notin ToSet(moved)) EXCEPT
                !.buf[src].chains = SubSeq(cs, k + 1, Len(cs)),
                !.buf[src].last_with_datap = IF @ \in ToSet(moved) THEN FIRST ELSE @,
                !.buf[dst].chains = @ \o moved, !.buf[dst].last = moved[k]]
        u == IF k = 0 THEN s ELSE Grown(advance_last_with_data(t, dst), dst, whole)
        v == Consume(evbuffer_add(u, dst, SubSeq(Bytes(s, cs[k + 1]), 1, n - whole), ok),
                     cs[k + 1], n - whole)
    IN  IF n = 0 \/ B(s, dst).freeze_end \/ B(s, src).freeze_start THEN s
        ELSE IF n >= B(s, src).total_len THEN evbuffer_add_buffer(s, dst, src)
        ELSE Deleted(evbuffer_invoke_callbacks_([v EXCEPT !.buf[src].total_len = @ - n], dst), src, n)

APPEND_CHAIN_MULTICAST_NoIncref(s, dst, src) ==
    LET Ref(t, c) ==
            LET tmp == New(t)
                u == [evbuffer_chain_new(t, 0) EXCEPT
                        !.chain[c].refcnt = @ + 1, !.chain[c].immutable = TRUE,
                        !.chain[tmp] = [t.chain[c] EXCEPT !.parent = c, !.source = src,
                            !.immutable = TRUE, !.refcnt = 1, !.mem = <<>>]]
            IN  evbuffer_chain_insert(u, dst, tmp)
    IN  FoldLeft(Ref, s, SelectSeq(B(s, src).chains, LAMBDA c : Off(s, c) > 0))
APPEND_CHAIN_MULTICAST(s, dst, src) ==
    LET Ref(t, c) ==
            LET tmp == New(t)
                u == [evbuffer_chain_new(t, 0) EXCEPT
                        !.buf[src].refcnt = @ + 1,
                        !.chain[c].refcnt = @ + 1, !.chain[c].immutable = TRUE,
                        !.chain[tmp] = [t.chain[c] EXCEPT !.parent = c, !.source = src,
                            !.immutable = TRUE, !.refcnt = 1, !.mem = <<>>]]
            IN  evbuffer_chain_insert(u, dst, tmp)
    IN  FoldLeft(Ref, s, SelectSeq(B(s, src).chains, LAMBDA c : Off(s, c) > 0))

evbuffer_add_buffer_reference(s, dst, src) ==
    IF \/ B(s, src).total_len = 0 \/ B(s, dst).freeze_end
       \/ \E c \in ToSet(B(s, src).chains) : s.chain[c].parent # NULL
    THEN s
    ELSE Added(APPEND_CHAIN_MULTICAST(s, dst, src), dst, B(s, src).total_len)

----------------------------------------------------------------------------
(* Space at the end, and reading into it. *)

InsertNew(s, b, size, ok) ==
    IF ok THEN evbuffer_chain_insert(evbuffer_chain_new(s, size), b, New(s)) ELSE s

(* The chain gets a larger block; its window starts at the front of it. *)
Resize(s, b, i, size) ==
    LET cs == B(s, b).chains
        tmp == New(s)
        t == Extend(evbuffer_chain_new(s, Off(s, cs[i]) + size), tmp, Bytes(s, cs[i]))
        u == [t EXCEPT !.buf[b].chains[i] = tmp,
                       !.buf[b].last = IF @ = cs[i] THEN tmp ELSE @]
    IN  evbuffer_chain_free(u, cs[i])

(* The chain that evbuffer_expand_singlechain looks at first *)
FirstWithSpace(s, b) ==
    LET i == Follow(B(s, b).chains, B(s, b).last_with_datap)
    IN  IF LastWithData(s, b) # NULL /\ CHAIN_SPACE_LEN(s.chain[LastWithData(s, b)]) = 0
        THEN i + 1 ELSE i

(* The chain at position i, c, has room or is made to have it: the state and *)
(* the chain that has the room.                                              *)
ExpandAt(s, b, i, c, size, ok) ==
    LET Result(t, r) == [s |-> EVUTIL_ASSERT(t, CHAIN_SPACE_LEN(t.chain[r]) >= size), c |-> r]
        Given(t) == IF ok THEN Result(t, New(s)) ELSE [s |-> s, c |-> NULL]
        space == CHAIN_SPACE_LEN(s.chain[c])
        far == \/ space < s.chain[c].buffer_len \div 8
               \/ Off(s, c) > MAX_TO_COPY_IN_EXPAND
        next == Chain(B(s, b).chains, i + 1)
    IN  IF ~(IF c = NULL THEN TRUE ELSE s.chain[c].immutable) /\ space >= size
        THEN Result(s, c)
        ELSE IF c = NULL \/ s.chain[c].immutable \/ Off(s, c) = 0
        THEN Given(InsertNew(s, b, size, ok))
        ELSE IF evbuffer_chain_should_realign(s.chain[c], size)
        THEN Result(evbuffer_chain_align(s, c), c)
        ELSE IF ~far THEN Given(Resize(s, b, i, size))
        ELSE IF next # NULL /\ CHAIN_SPACE_LEN(s.chain[next]) >= size THEN Result(s, next)
        ELSE Given(InsertNew(s, b, size, ok))

evbuffer_expand_singlechain(s, b, size, ok) ==
    LET i == FirstWithSpace(s, b)
    IN  ExpandAt(s, b, i, Chain(B(s, b).chains, i), size, ok)

(* Looks for room in at most n chains; s, and what it found in them. *)
(* There is avail room in the chains cs from position i up to stop, used of *)
(* them; room is that of the chain at i if it has data.                     *)
ExpandFrom(s, b, cs, i, room, avail, used, size, n, ok) ==
    LET kept == IF Off(s, cs[i]) = 0 THEN i - 1 ELSE i
        Linked(u, c) == [u EXCEPT !.buf[b].chains = @ \o <<c>>, !.buf[b].last = c]
        Longer(u, len) == IF ok THEN Linked(evbuffer_chain_new(u, len), New(u)) ELSE u
    IN  IF avail >= size THEN s
        ELSE IF used < n THEN Longer(s, size - avail)
        ELSE Longer(EVUTIL_ASSERT(
                 [evbuffer_free_all_chains(s, SubSeq(cs, kept + 1, Len(cs))) EXCEPT
                     !.buf[b].chains = SubSeq(cs, 1, kept),
                     !.buf[b].last = Chain(cs, kept)],
                 size >= room /\ (kept < i => i = 1)), size - room)

(* The walk from position i on: empty chains are used from their start. *)
ExpandWalk(s, b, cs, i, size, n, ok) ==
    LET Room(c) == IF Off(s, c) = 0 THEN s.chain[c].buffer_len ELSE CHAIN_SPACE_LEN(s.chain[c])
        Used(j) == Cardinality({x \in i..j : Off(s, cs[x]) = 0 \/ Room(cs[x]) > 0})
        Avail(j) == Sum([x \in 1..j - i + 1 |-> Room(cs[x + i - 1])])
        stop == Min({j \in i..Len(cs) : Avail(j) >= size \/ Used(j) = n \/ j = Len(cs)})
        Realigned == [s EXCEPT !.chain = [c \in DOMAIN @ |->
                        IF Off(s, c) = 0 /\ Contains(SubSeq(cs, i, stop), c)
                        THEN [@[c] EXCEPT !.misalign = 0] ELSE @[c]]]
    IN  ExpandFrom(Realigned, b, cs, i, IF Off(s, cs[i]) = 0 THEN 0 ELSE Room(cs[i]),
                   Avail(stop), Used(stop), size, n, ok)

evbuffer_expand_fast_(s, b, size, n, ok) ==
    IF B(s, b).last = NULL \/ s.chain[B(s, b).last].immutable THEN InsertNew(s, b, size, ok)
    ELSE ExpandWalk(s, b, B(s, b).chains,
                    Follow(B(s, b).chains, B(s, b).last_with_datap), size, n, ok)

(* The vectors of evbuffer_read_setup_vecs_: chains and their room *)
evbuffer_read_setup_vecs_(s, b, howmuch, n) ==
    LET cs == B(s, b).chains
        i == FirstWithSpace(s, b)
        space == [j \in 1..Len(cs) - i + 1 |-> CHAIN_SPACE_LEN(s.chain[cs[i + j - 1]])]
        enough == {m \in 0..Len(space) : Sum(SubSeq(space, 1, m)) >= howmuch}
        m == Min({n} \cup enough)
    IN  [j \in 1..m |-> [c |-> cs[i + j - 1], len |-> space[j]]]

(* d is put into the room of the chains from position i on. *)
Fill(s, b, i, d) ==
    LET Step(t, j) ==
            LET c == B(s, b).chains[j]
                n == Min({CHAIN_SPACE_LEN(t.s.chain[c]), Len(t.d)})
            IN  IF t.d = <<>> THEN t
                ELSE [s |-> [Extend(t.s, c, SubSeq(t.d, 1, n)) EXCEPT
                                !.buf[b].last_with_datap = PointerTo(B(s, b).chains, j)],
                      d |-> SubSeq(t.d, n + 1, Len(t.d))]
    IN  FoldLeft(Step, [s |-> s, d |-> d], [j \in 1..Len(B(s, b).chains) - i + 1 |-> i + j - 1]).s

(* One chain with its room, or several. *)
Reserved(r) ==
    [s |-> r.s, vec |-> IF r.c = NULL THEN <<>>
                        ELSE <<[c |-> r.c, len |-> CHAIN_SPACE_LEN(r.s.chain[r.c])]>>]
ReservedMany(t, b, size, n, ok) ==
    [s |-> t, vec |-> IF ~ok THEN <<>> ELSE evbuffer_read_setup_vecs_(t, b, size, n)]

evbuffer_reserve_space(s, b, size, n, ok) ==
    IF B(s, b).freeze_end THEN [s |-> s, vec |-> <<>>]
    ELSE IF n = 1 THEN Reserved(evbuffer_expand_singlechain(s, b, size, ok))
    ELSE ReservedMany(evbuffer_expand_fast_(s, b, size, n, ok), b, size, n, ok)

(* d was written to the first chains of vec, as many as it needs. *)
evbuffer_commit_space(s, b, vec, d) ==
    LET m == Min({j \in DOMAIN vec : Sum([x \in 1..j |-> vec[x].len]) >= Len(d)})
        i == FirstWithSpace(s, b)
        cs == B(s, b).chains
        t == IF m = 1 /\ vec[1].c = B(s, b).last
             THEN advance_last_with_data(Extend(s, vec[1].c, d), b)
             ELSE Fill(s, b, i, d)
    IN  IF \/ m = 1 /\ vec[1].c = B(s, b).last
           \/ \A j \in 1..m : Chain(cs, i + j - 1) = vec[j].c
        THEN evbuffer_invoke_callbacks_(Grown(t, b, Len(d)), b)
        ELSE s

(* readv fills what evbuffer_read_setup_vecs_ offers with d; howmuch is at *)
(* least the length of d.                                                  *)
evbuffer_read(s, b, howmuch, d, ok) ==
    LET Filled(t) == IF ~ok \/ d = <<>> THEN t
                     ELSE evbuffer_invoke_callbacks_(
                              Grown(Fill(t, b, FirstWithSpace(t, b), d), b, Len(d)), b)
    IN  IF B(s, b).freeze_end THEN s
        ELSE Filled(evbuffer_expand_fast_(s, b, howmuch, NUM_READ_IOVEC, ok))

----------------------------------------------------------------------------
VARIABLE s
vars == <<s>>

Init == s = [buf |-> [b \in Buffer |-> [FreedBuffer EXCEPT !.refcnt = 1, !.held = TRUE]],
             chain |-> <<>>, failed |-> FALSE]

Order == SetToSeq(Buffer)

(* What no chain covers may hold anything; it is written as 0.  Addresses  *)
(* mean nothing: chains are numbered in the order of the lists.            *)
Cleared(t) ==
    LET Covered(c, i) == \E x \in DOMAIN t.chain :
            /\ t.chain[x].buffer = c
            /\ i \in t.chain[x].misalign + 1..t.chain[x].misalign + t.chain[x].off
    IN  [t EXCEPT !.chain = [c \in DOMAIN @ |-> [@[c] EXCEPT !.mem =
            [i \in DOMAIN @ |-> IF Covered(c, i) THEN @[i] ELSE 0]]]]

ListOrder(t) == FoldLeft(LAMBDA x, b : x \o t.buf[b].chains, <<>>, Order)
WithParents(t, list) ==
    FoldLeft(LAMBDA x, c : IF c = NULL \/ Contains(x, c) THEN x ELSE x \o <<c>>,
             list, [i \in DOMAIN list |-> t.chain[list[i]].parent])
Positions(order) == [c \in ToSet(order) |-> CHOOSE i \in DOMAIN order : order[i] = c]
Renamed(t, order, pos) ==
    LET Now(c) == IF c \in DOMAIN pos THEN pos[c] ELSE c
    IN  [t EXCEPT
            !.buf = [b \in Buffer |-> [@[b] EXCEPT
                        !.chains = [i \in DOMAIN @ |-> Now(@[i])],
                        !.last = Now(@), !.last_with_datap = Now(@)]],
            !.chain = [n \in 1..Cardinality(DOMAIN @) |-> [@[order[n]] EXCEPT
                        !.buffer = Now(@), !.parent = Now(@)]]]
InOrder(t, order) == Renamed(t, order, Positions(order))
Renumbered(t) == InOrder(t, WithParents(t, ListOrder(t)))

(* The code never looks at a byte: one marked byte in a buffer is enough to *)
(* see any that is lost or out of order.                                    *)
Marked == 2
Total(t) == Sum([i \in DOMAIN Order |-> t.buf[Order[i]].total_len])
WithinBounds(t) ==
    /\ Cardinality(DOMAIN t.chain) <= MaxChains
    /\ Cardinality({c \in DOMAIN t.chain : t.chain[c].immutable /\ t.chain[c].parent = NULL})
            <= MaxImmutable
    /\ Total(t) <= MaxLen
    /\ \A b \in Buffer : t.buf[b].freeze_start \/ t.buf[b].freeze_end => Total(t) <= MaxFrozen
    /\ (\E b \in Buffer : ~t.buf[b].held) => Total(t) <= MaxLone
    /\ \A b \in Buffer : Len(SelectSeq(Contents(t, b), LAMBDA x : x = Marked)) <= 1
    /\ \A b \in Buffer : \/ t.buf[b].n_add_for_cb + t.buf[b].n_del_for_cb <= MaxUnreported
                          \/ s.buf[b].n_add_for_cb + s.buf[b].n_del_for_cb = 0
    (* A call that leaves b alone commutes with b's callback and is shown after it. *)
    /\ \A b \in Buffer : s.buf[b].scheduled /\ s.buf[b].held => t.buf[b] # s.buf[b]

Do(t) == IF WithinBounds(t) THEN s' = Renumbered(Cleared(t)) ELSE FALSE

Held == {b \in Buffer : B(s, b).held}

(* Where an allocation that fails changes nothing, the call is not shown. *)
AddData(b) == \E d \in Data : Do(evbuffer_add(s, b, d, TRUE))
PrependData(b) == \E d \in Data, ok \in BOOLEAN : Do(evbuffer_prepend(s, b, d, ok))
AddReference(b) == \E d \in Data : Do(evbuffer_add_reference(s, b, d))
(* evbuffer_drain, evbuffer_remove, and what evbuffer_write_atmost has written. *)
Drain(b) == \E n \in 1..B(s, b).total_len : Do(evbuffer_drain(s, b, n))
(* evbuffer_pullup does not look at the flags of the first chain. *)
Pullup(b) ==
    /\ B(s, b).total_len > 0 /\ ~PullupShared =>
        LET ch == s.chain[B(s, b).chains[1]] IN ch.parent = NULL /\ ch.refcnt = 1
    /\ \E n \in 2..B(s, b).total_len : Do(evbuffer_pullup(s, b, n, TRUE))
Expand(b) == \E n \in 1..MaxSpace : Do(evbuffer_expand_singlechain(s, b, n, TRUE).s)
Commit(b, r, d) == IF r.vec = <<>> THEN r.s ELSE evbuffer_commit_space(r.s, b, r.vec, d)
ReserveAndCommit(b) == \E n \in 1..2, d \in Data :
    Do(Commit(b, evbuffer_reserve_space(s, b, Len(d), n, TRUE), d))
Read(b) == \E d \in Data : Do(evbuffer_read(s, b, MaxSpace, d, TRUE))
ReadFails(b) == \E ok \in BOOLEAN : Do(evbuffer_read(s, b, MaxSpace, <<>>, ok))
AddBuffer(b) == \E src \in Held \ {b} : Do(evbuffer_add_buffer(s, b, src))
PrependBuffer(b) == \E src \in Held \ {b} : Do(evbuffer_prepend_buffer(s, b, src))
RemoveBuffer(b) == \E src \in Held \ {b}, n \in 1..MaxLen :
    n <= B(s, src).total_len /\ Do(evbuffer_remove_buffer(s, src, b, n, TRUE))
(* The source frees an empty first chain of b here and leaves it linked:   *)
(* callers have none.                                                      *)
AddBufferReference(b) == \E src \in (Held \cap Referenced) \ {b} :
    /\ B(s, b).total_len = 0 => B(s, b).chains = <<>>
    /\ Do(evbuffer_add_buffer_reference(s, b, src))
FreezeEnd(b) == b \in Freezable /\ Do([s EXCEPT !.buf[b].freeze_end = ~@])
FreezeStart(b) == b \in Freezable /\ Do([s EXCEPT !.buf[b].freeze_start = ~@])
Free(b) == Do(evbuffer_decref_and_unlock_([s EXCEPT !.buf[b].held = FALSE], b))
DeferredCallback(b) == B(s, b).scheduled /\ Do(evbuffer_deferred_callback(s, b))

Next ==
    \/ \E b \in Held :
        \/ AddData(b) \/ Drain(b)
        \/ AddBuffer(b) \/ PrependBuffer(b) \/ RemoveBuffer(b) \/ AddBufferReference(b)
        \/ FreezeEnd(b) \/ FreezeStart(b) \/ Free(b)
    \/ \E b \in Held \cap Worked :
        \/ PrependData(b) \/ AddReference(b) \/ Pullup(b)
        \/ Expand(b) \/ ReserveAndCommit(b) \/ Read(b) \/ ReadFails(b)
    \/ \E b \in Buffer : DeferredCallback(b)

Spec == Init /\ [][Next]_vars

----------------------------------------------------------------------------
(* last_with_datap leads to the last chain with data, or is &first when    *)
(* there is none; last, total_len and every window agree with the chains.  *)
(* Adding, draining, moving and pulling up each repair these by hand.      *)
ChainsOK == \A b \in Buffer :
    LET cs == B(s, b).chains
        full == {i \in DOMAIN cs : Off(s, cs[i]) > 0}
    IN  /\ IsInjective(cs)
        /\ B(s, b).last = Chain(cs, Len(cs))
        /\ B(s, b).total_len = Sum(Offs(s, cs))
        /\ B(s, b).last_with_datap = IF full = {} THEN FIRST ELSE PointerTo(cs, Max(full))
        /\ \A c \in ToSet(cs) : s.chain[c].misalign + Off(s, c) <= s.chain[c].buffer_len

(* No EVUTIL_ASSERT of the source fails, and what evbuffer_copyout hands   *)
(* out is the front of the buffer although it walks the chains by itself.  *)
AssertsHold ==
    /\ ~s.failed
    /\ \A b \in Buffer : \A n \in 0..B(s, b).total_len :
        evbuffer_copyout_from(s, b, n) = SubSeq(Contents(s, b), 1, n)

(* A chain is freed with its last reference and never before: the counts   *)
(* of chains and buffers are the numbers of lists, multicast chains,       *)
(* scheduled callbacks and owners that hold them.                          *)
RefCountsExact ==
    /\ \A c \in DOMAIN s.chain :
        s.chain[c].refcnt = Cardinality({b \in Buffer : Contains(B(s, b).chains, c)})
                            + Cardinality({x \in DOMAIN s.chain : s.chain[x].parent = c})
    /\ \A c \in DOMAIN s.chain : s.chain[c].buffer \in DOMAIN s.chain
    /\ \A b \in Buffer :
        B(s, b).refcnt = Cardinality({x \in DOMAIN s.chain : s.chain[x].source = b})
                         + Cardinality({"held", "scheduled"} \ {IF B(s, b).held THEN "" ELSE "held",
                                                                IF B(s, b).scheduled THEN "" ELSE "scheduled"})

(* Chains, pointers, assertions and reference counts are in order. *)
BuffersOK == ChainsOK /\ AssertsHold /\ RefCountsExact

(* What the callback of a buffer has been told, with what it is going to   *)
(* be told, is what the buffer holds; and while something is untold a      *)
(* deferred callback is on its way.  A prepend that runs out of memory     *)
(* half way leaves its part for the next call.                             *)
CallbackToldAll == \A b \in WithCallback :
    LET x == B(s, b)
    IN  x.refcnt > 0 =>
        /\ x.seen + x.n_add_for_cb - x.n_del_for_cb = x.total_len
        /\ b \in DeferredCbs /\ x.n_del_for_cb > 0 => x.scheduled

(* A buffer is a byte queue: reads, realignments, shared and moved chains  *)
(* never lose, invent or reorder a byte of any buffer.                     *)
Queue == INSTANCE ByteQueue WITH
            Data <- UNION {Suffixes(d) : d \in Data},
            q <- [b \in Buffer |-> IF B(s, b).held THEN Contents(s, b) ELSE <<>>]
ImplementsByteQueue == Queue!Spec
=============================================================================
