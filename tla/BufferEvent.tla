---------------------------- MODULE BufferEvent ----------------------------
(***************************************************************************)
(* libevent's socket bufferevents (bufferevent.c, bufferevent_sock.c) and  *)
(* their rate limits (bufferevent_ratelim.c).  The code for reading and    *)
(* the code for writing are twins: here they are one, parameterised by the *)
(* direction d.  A buffer is its length, the socket and the clock are the  *)
(* environment, and every bufferevent has a loop of its own, so handlers   *)
(* of different bufferevents interleave where a lock is let go.            *)
(*                                                                         *)
(* A handler keeps its bufferevent's lock from its first step to its last; *)
(* "then" holds the steps it has left, and "run" the user's callback it is *)
(* in.  From a callback the user may make any call.                        *)
(***************************************************************************)
EXTENDS Integers, Sequences, FiniteSets

CONSTANTS
    Bev,         \* the bufferevents
    Scenarios,   \* what the bufferevents are and what their users do with them
    Watched,     \* the bufferevents whose progress is checked
    Rate, Burst, \* the token buckets' rate and maximum
    MinShare,    \* the group's min_share
    MaxSingle,   \* max_single_read and max_single_write
    MaxTicks,    \* ticks that pass at most between two updates of a bucket
    MaxLen       \* bound: bytes in a buffer

READ == "READ"
WRITE == "WRITE"
Dir == {READ, WRITE}
Other(d) == IF d = READ THEN WRITE ELSE READ

(***************************************************************************)
(* DEFER and UNLOCK are options of bufferevent_socket_new; the user of a   *)
(* silent bufferevent sets no callbacks; the others tell which calls he    *)
(* makes.  A bufferevent that does not connect has a socket from the start. *)
(***************************************************************************)
Features == {"DEFER", "UNLOCK", "silent", READ, WRITE, "connect", "marks",
             "timeouts", "trigger", "limit", "decrement", "group", "free"}

ASSUME BevAssumption ==
    /\ IsFiniteSet(Bev) /\ "none" \notin Bev
    /\ Scenarios \subseteq [Bev -> SUBSET Features]
    /\ \A u \in Scenarios, b \in Bev : "UNLOCK" \in u[b] => "DEFER" \in u[b]
    /\ Rate \in Nat \ {0} /\ Burst \in Nat /\ Rate <= Burst  \* ev_token_bucket_cfg_new
    /\ MinShare \in 1..Rate                                  \* set_min_share
    /\ MaxSingle \in Nat \ {0} /\ MaxTicks \in Nat \ {0} /\ MaxLen \in Nat

VARIABLES
    bev,    \* the bufferevents
    group,  \* the rate-limit group
    does    \* the scenario, which does not change

vars == <<bev, group, does>>

Does(b, f) == f \in does[b]

(* Why a direction is suspended (bufferevent_suspend_flags). *)
Suspend == {"WM", "BW", "BW_GROUP", "LOOKUP"}
None == "none"

Ticks == 0..MaxTicks

-----------------------------------------------------------------------------
(* Token buckets *)

(* Fault: a bucket that was overdrawn is not refilled. *)
ev_token_bucket_update__Overdrawn(limit, n) ==
    IF n = 0 \/ limit < 0 THEN limit
    ELSE IF (Burst - limit) \div n < Rate THEN Burst
    ELSE limit + n * Rate

(***************************************************************************)
(* ev_token_bucket_update_ on one direction of a bucket; n ticks passed    *)
(* since the last update, none when the clock went back.                   *)
(***************************************************************************)
ev_token_bucket_update_(limit, n) ==
    IF n = 0 THEN limit
    ELSE IF (Burst - limit) \div n < Rate THEN Burst
    ELSE limit + n * Rate

Update(limits, n) == [d \in Dir |-> ev_token_bucket_update_(limits[d], n)]

-----------------------------------------------------------------------------
(* The events of a bufferevent: operators on its record s *)

(* bufferevent_add_event_; an event being finalized is not added. *)
event_add(s, d) ==
    IF s.life # "live" THEN s
    ELSE [s EXCEPT !.ev = @ \cup {d}, !.timer = @ \cup ({d} \cap s.timeout),
                   !.dropped = @ \ {d}]

event_del(s, D) ==
    IF s.life # "live" THEN s
    ELSE [s EXCEPT !.ev = @ \ D, !.timer = @ \ D]

be_socket_enable(s, D) ==
    LET r == IF READ \in D THEN event_add(s, READ) ELSE s
    IN  IF WRITE \in D THEN event_add(r, WRITE) ELSE r

(* The write event stays while a connect is under way. *)
be_socket_disable(s, D) == event_del(s, IF s.connecting THEN D \ {WRITE} ELSE D)

bufferevent_suspend_(s, d, what) ==
    [(IF s.suspended[d] = {} THEN be_socket_disable(s, {d}) ELSE s)
        EXCEPT !.suspended[d] = @ \cup {what}]

(* Fault: the other reasons to be suspended are not looked at. *)
bufferevent_unsuspend__AnyReason(s, d, what) ==
    LET r == [s EXCEPT !.suspended[d] = @ \ {what}]
    IN  IF d \in r.enabled THEN be_socket_enable(r, {d}) ELSE r

bufferevent_unsuspend_(s, d, what) ==
    LET r == [s EXCEPT !.suspended[d] = @ \ {what}]
    IN  IF r.suspended[d] = {} /\ d \in r.enabled THEN be_socket_enable(r, {d}) ELSE r

bufferevent_enable(s, D) ==
    be_socket_enable([s EXCEPT !.enabled = @ \cup D],
                     {d \in D : s.suspended[d] = {}})

bufferevent_disable(s, D) ==
    be_socket_disable([s EXCEPT !.enabled = @ \ D], D)

(* bufferevent_inbuf_wm_cb, on every change of the input. *)
bufferevent_inbuf_wm_cb(s) ==
    IF s.high = 0 THEN s
    ELSE IF s.len[READ] >= s.high THEN bufferevent_suspend_(s, READ, "WM")
    ELSE bufferevent_unsuspend_(s, READ, "WM")

SetInput(s, n) == bufferevent_inbuf_wm_cb([s EXCEPT !.len[READ] = n])

(* bufferevent_socket_outbuf_cb, when bytes were added to the output. *)
bufferevent_socket_outbuf_cb(s) ==
    IF WRITE \in s.enabled /\ WRITE \notin s.ev /\ s.suspended[WRITE] = {}
    THEN event_add(s, WRITE) ELSE s

(* be_socket_setfd: fd tells whether it is a socket; a lookup is cancelled. *)
be_socket_setfd(s, fd) ==
    LET r == [event_del(s, Dir) EXCEPT
                  !.fd = fd,
                  !.dropped = IF fd THEN {} ELSE Dir,
                  !.dns = IF @ = "pending" THEN "cancelled" ELSE @]
    IN  IF fd THEN bufferevent_enable(r, r.enabled) ELSE r

-----------------------------------------------------------------------------
(* Callbacks *)

(* Fault: a reference is taken although the callback is scheduled already. *)
SCHEDULE_DEFERRED_Again(s) == [s EXCEPT !.sched = TRUE, !.refcnt = @ + 1]

(* SCHEDULE_DEFERRED: a scheduled callback keeps a reference. *)
SCHEDULE_DEFERRED(s) ==
    IF s.sched THEN s ELSE [s EXCEPT !.sched = TRUE, !.refcnt = @ + 1]

(***************************************************************************)
(* bufferevent_run_readcb_, _writecb_ and _eventcb_: later if deferred,    *)
(* else the handler is in the callback next.                               *)
(***************************************************************************)
RunCallback(b, s, cb, defer) ==
    IF ~s.callbacks THEN s
    ELSE IF defer \/ Does(b, "DEFER")
         THEN SCHEDULE_DEFERRED([s EXCEPT !.pending = @ \cup {cb}])
    ELSE [s EXCEPT !.run = cb,
                   !.then = IF cb = READ THEN <<"wm_check">> \o @ ELSE @]

bufferevent_trigger_nolock_(b, s, d, defer) ==
    IF CASE d = READ -> s.len[READ] >= s.low[READ]
         [] d = WRITE -> s.len[WRITE] <= s.low[WRITE]
    THEN RunCallback(b, s, d, defer) ELSE s

bufferevent_inbuf_wm_check(b, s) ==
    IF s.high # 0 /\ READ \in s.enabled /\ s.len[READ] >= s.high
    THEN bufferevent_trigger_nolock_(b, s, READ, TRUE) ELSE s

(* bufferevent_decref_and_unlock_: the last reference finalizes. *)
bufferevent_decref(s) ==
    IF s.refcnt > 1 THEN [s EXCEPT !.refcnt = @ - 1]
    ELSE [event_del(s, Dir) EXCEPT !.refcnt = 0, !.life = "finalizing",
                                   !.refill = FALSE, !.sched = FALSE]

Incref(s) == [s EXCEPT !.refcnt = @ + 1]

-----------------------------------------------------------------------------
(* Rate limits *)

Members(B) == {c \in Bev : B[c].member}

(* A lock that another thread's try-lock does not get. *)
Locked(c, B) == B[c].then # <<>> /\ ~(Does(c, "UNLOCK") /\ B[c].run # None)

(***************************************************************************)
(* bev_group_suspend_ and bev_group_unsuspend_ on the pair of bufferevents *)
(* and group: members whose lock b's thread does not get are left as they  *)
(* are; after a failed unsuspend the next tick tries again.                *)
(***************************************************************************)
Reached(b, B) == {c \in Members(B) : c = b \/ ~Locked(c, B)}

bev_group_suspend_(b, B, g, d) ==
    [B |-> [c \in Bev |-> IF c \in Reached(b, B)
                          THEN bufferevent_suspend_(B[c], d, "BW_GROUP") ELSE B[c]],
     g |-> [g EXCEPT !.suspended[d] = TRUE, !.pending_unsuspend[d] = FALSE]]

(* Fault: a member that could not be locked is forgotten. *)
bev_group_unsuspend__NoRetry(b, B, g, d) ==
    [B |-> [c \in Bev |-> IF c \in Reached(b, B)
                          THEN bufferevent_unsuspend_(B[c], d, "BW_GROUP") ELSE B[c]],
     g |-> [g EXCEPT !.suspended[d] = FALSE, !.pending_unsuspend[d] = FALSE]]

bev_group_unsuspend_(b, B, g, d) ==
    [B |-> [c \in Bev |-> IF c \in Reached(b, B)
                          THEN bufferevent_unsuspend_(B[c], d, "BW_GROUP") ELSE B[c]],
     g |-> [g EXCEPT !.suspended[d] = FALSE,
                     !.pending_unsuspend[d] = Reached(b, B) # Members(B)]]

(***************************************************************************)
(* bufferevent_get_rlim_max_: the bucket is brought up to date, and a      *)
(* member that missed the suspension of its group learns of it here.       *)
(***************************************************************************)
Refreshed(s, n) == IF s.cfg THEN [s EXCEPT !.limit = Update(@, n)] ELSE s

Learned(s, d) ==
    IF s.member /\ group.suspended[d] THEN bufferevent_suspend_(s, d, "BW_GROUP") ELSE s

RlimMax(s, d) ==
    LET own == IF s.cfg THEN s.limit[d] ELSE MaxSingle
        part == group.limit[d] \div Cardinality(Members(bev))
        share == IF group.suspended[d] THEN 0
                 ELSE IF part < MinShare THEN MinShare ELSE part
        max == IF s.member /\ share < own THEN share ELSE own
    IN  IF max < 0 THEN 0 ELSE max

(* The own bucket's half of bufferevent_decrement_read_buckets_. *)
DecrementOwn(s, d, n) ==
    LET r == [s EXCEPT !.limit[d] = @ - n]
    IN  IF ~s.cfg THEN s
        ELSE IF r.limit[d] <= 0
             THEN [bufferevent_suspend_(r, d, "BW") EXCEPT !.refill = TRUE]
        ELSE IF "BW" \in r.suspended[d]
             THEN bufferevent_unsuspend_(
                      [r EXCEPT !.refill = @ /\ "BW" \in r.suspended[Other(d)]], d, "BW")
        ELSE r

(* The group's half, on all bufferevents. *)
DecrementGroup(b, B, g, d, n) ==
    LET h == [g EXCEPT !.limit[d] = @ - n]
    IN  IF ~B[b].member THEN [B |-> B, g |-> g]
        ELSE IF h.limit[d] <= 0 THEN bev_group_suspend_(b, B, h, d)
        ELSE IF h.suspended[d] THEN bev_group_unsuspend_(b, B, h, d)
        ELSE [B |-> B, g |-> h]

bufferevent_decrement_buckets_(b, s, d, n) ==
    DecrementGroup(b, [bev EXCEPT ![b] = DecrementOwn(s, d, n)], group, d, n)

-----------------------------------------------------------------------------
(* Handlers *)

(* A handler that has nothing left to do drops its reference. *)
Return(s) ==
    IF s.run = None /\ s.then = <<"done">>
    THEN bufferevent_decref([s EXCEPT !.then = <<>>, !.amount = 0]) ELSE s

Step(b, s) == bev' = [bev EXCEPT ![b] = Return(s)] /\ UNCHANGED <<group, does>>

Enter(s) == [Incref(s) EXCEPT !.then = <<"done">>]

Ready(b) == bev[b].life = "live" /\ bev[b].then = <<>>

(* The label "error" of both handlers. *)
Fail(b, s, d) == RunCallback(b, bufferevent_disable(s, {d}), "EVENT", FALSE)

(* bufferevent_readcb and bufferevent_writecb called with EV_TIMEOUT only. *)
Timeout(b, d) ==
    /\ Ready(b) /\ d \in bev[b].timer
    /\ Step(b, Fail(b, Enter(bev[b]), d))

(***************************************************************************)
(* The first half of a handler, up to the look at the limits: the next     *)
(* step of it moves "amount" bytes at most, unless it is suspended.        *)
(***************************************************************************)
LookAtLimits(s, d, n, step) ==
    LET r == Learned(Refreshed(s, n), d)
        max == RlimMax(r, d)
        room == r.high - r.len[READ]
    IN  IF r.suspended[d] # {} THEN r
        ELSE [r EXCEPT !.then = <<step, "done">>,
                       !.amount = IF d = READ /\ r.high # 0 /\ room <= max
                                  THEN room ELSE max]

bufferevent_readcb(b) ==
    LET s == Enter(bev[b])
    IN  /\ Ready(b) /\ s.fd /\ READ \in s.ev
        /\ IF s.high # 0 /\ s.len[READ] >= s.high
           THEN Step(b, bufferevent_suspend_(s, READ, "WM"))
           ELSE \E n \in IF s.cfg THEN Ticks ELSE {0} :
                    Step(b, LookAtLimits(s, READ, n, "read"))

(* evbuffer_read and what follows: n bytes, or the socket's other answers. *)
Received(b, n) ==
    LET s == [bev[b] EXCEPT !.then = <<"done">>]
        r == bufferevent_decrement_buckets_(b, SetInput(s, s.len[READ] + n), READ, n)
        t == bufferevent_trigger_nolock_(b, r.B[b], READ, FALSE)
    IN  /\ bev' = [r.B EXCEPT ![b] = Return(t)]
        /\ group' = r.g /\ UNCHANGED does

NotReceived(b, answer) ==
    LET s == [bev[b] EXCEPT !.then = <<"done">>]
    IN  Step(b, CASE answer = "retry" -> s
                  [] answer = "refused" -> [s EXCEPT !.refused = TRUE]
                  [] answer \in {"eof", "error"} -> Fail(b, s, READ))

Read(b) ==
    /\ bev[b].then # <<>> /\ bev[b].run = None /\ Head(bev[b].then) = "read"
    /\ \/ \E n \in 1..bev[b].amount :
              bev[b].len[READ] + n <= MaxLen /\ Received(b, n)
       \/ \E a \in {"retry", "error"} \cup
                   (IF bev[b].connecting THEN {"refused"} ELSE {"eof"}) : NotReceived(b, a)

(* bufferevent_writecb; c is what the socket says of the connect under way. *)
bufferevent_writecb(b) ==
    LET s == Enter(bev[b])
    IN  /\ Ready(b) /\ s.fd /\ WRITE \in s.ev
        /\ IF s.connecting
           THEN \E c \in IF s.refused THEN {-1} ELSE {-1, 0, 1} :
                LET r == [s EXCEPT !.connecting = FALSE, !.refused = FALSE]
                IN  Step(b,
                      CASE c = 0 -> s
                        [] c < 0 -> RunCallback(b, [event_del(r, Dir) EXCEPT !.dropped = Dir],
                                                "EVENT", FALSE)
                        [] c > 0 -> RunCallback(b, [r EXCEPT !.then = <<"recheck", "done">>],
                                                "CONNECTED", FALSE))
           ELSE \E n \in IF s.cfg THEN Ticks ELSE {0} :
                    Step(b, LookAtLimits(s, WRITE, n, "write"))

(* After "connected" the callback may have disabled or suspended writing. *)
Recheck(b) ==
    LET s == [bev[b] EXCEPT !.then = <<"done">>]
    IN  /\ bev[b].then # <<>> /\ bev[b].run = None /\ Head(bev[b].then) = "recheck"
        /\ IF WRITE \notin s.enabled \/ s.suspended[WRITE] # {}
           THEN Step(b, event_del(s, {WRITE}))
           ELSE \E n \in IF s.cfg THEN Ticks ELSE {0} :
                    Step(b, LookAtLimits(s, WRITE, n, "write_connected"))

(* evbuffer_write_atmost and what follows. *)
Sent(b, n, connected) ==
    LET s == [bev[b] EXCEPT !.then = <<"done">>, !.len[WRITE] = @ - n]
        r == IF n = 0 THEN [B |-> [bev EXCEPT ![b] = s], g |-> group]
             ELSE bufferevent_decrement_buckets_(b, s, WRITE, n)
        t == IF s.len[WRITE] = 0 THEN event_del(r.B[b], {WRITE}) ELSE r.B[b]
        u == IF n > 0 \/ ~connected
             THEN bufferevent_trigger_nolock_(b, t, WRITE, FALSE) ELSE t
    IN  /\ bev' = [r.B EXCEPT ![b] = Return(u)]
        /\ group' = r.g /\ UNCHANGED does

NotSent(b, answer) ==
    LET s == [bev[b] EXCEPT !.then = <<"done">>]
    IN  Step(b, IF answer = "retry" THEN s ELSE Fail(b, s, WRITE))

Write(b) ==
    LET step == Head(bev[b].then)
        len == bev[b].len[WRITE]
    IN  /\ bev[b].then # <<>> /\ bev[b].run = None
        /\ step \in {"write", "write_connected"}
        /\ IF len = 0 THEN Sent(b, 0, step = "write_connected")
           ELSE \/ \E n \in 1..len : /\ n <= bev[b].amount
                                     /\ Sent(b, n, step = "write_connected")
                \/ \E a \in {"retry", "error"} : NotSent(b, a)

(***************************************************************************)
(* bufferevent_run_deferred_callbacks_locked and _unlocked.                *)
(***************************************************************************)
RunDeferred(b) ==
    /\ Ready(b) /\ bev[b].sched
    /\ bev' = [bev EXCEPT ![b].sched = FALSE,
                   ![b].then = <<"CONNECTED", READ, WRITE, "EVENT", "done">>]
    /\ UNCHANGED <<group, does>>

DeferredStep(b) ==
    LET s == bev[b]
        cb == Head(s.then)
        r == [s EXCEPT !.then = Tail(@)]
        due == s.callbacks /\ (cb \in s.pending \/ (cb = "EVENT" /\ "CONNECTED" \in s.pending))
    IN  /\ s.then # <<>> /\ s.run = None
        /\ cb \in {"CONNECTED", READ, WRITE, "EVENT"}
        /\ Step(b, IF ~due THEN r
                   ELSE [r EXCEPT !.run = cb,
                           !.pending = @ \ (IF cb = "EVENT" THEN {cb, "CONNECTED"} ELSE {cb}),
                           !.then = IF cb = READ THEN <<"wm_check">> \o @ ELSE @])

WmCheck(b) ==
    /\ bev[b].then # <<>> /\ bev[b].run = None /\ Head(bev[b].then) = "wm_check"
    /\ Step(b, bufferevent_inbuf_wm_check(b, [bev[b] EXCEPT !.then = Tail(@)]))

(* The user's callback is done. *)
CallbackReturns(b) ==
    /\ bev[b].run # None
    /\ Step(b, [bev[b] EXCEPT !.run = None])

(* bev_refill_callback_. *)
bev_refill_callback_(b, n) ==
    LET s == [Refreshed(bev[b], n) EXCEPT !.refill = FALSE]
        dry == {d \in Dir : "BW" \in s.suspended[d] /\ s.limit[d] <= 0}
        wet(r, d) == IF "BW" \in r.suspended[d] /\ d \notin dry
                     THEN bufferevent_unsuspend_(r, d, "BW") ELSE r
    IN  /\ Ready(b) /\ bev[b].refill
        /\ Step(b, [wet(wet(s, READ), WRITE) EXCEPT !.refill = dry # {}])

(* bev_group_refill_callback_, on a loop of its own. *)
bev_group_refill_callback_(n) ==
    LET g == [group EXCEPT !.limit = Update(@, n)]
        due(h, d) == h.pending_unsuspend[d] \/ (h.suspended[d] /\ h.limit[d] >= MinShare)
        free(p, d) == IF due(p.g, d) THEN bev_group_unsuspend_(None, p.B, p.g, d) ELSE p
        p == free(free([B |-> bev, g |-> g], READ), WRITE)
    IN  bev' = p.B /\ group' = p.g /\ UNCHANGED does

(* bufferevent_finalize_cb_, once no callback of the bufferevent runs. *)
bufferevent_finalize_cb_(b) ==
    /\ bev[b].life = "finalizing" /\ bev[b].then = <<>>
    /\ bev' = [bev EXCEPT ![b].life = "freed", ![b].member = FALSE]
    /\ UNCHANGED <<group, does>>

-----------------------------------------------------------------------------
(* The user's calls *)

(***************************************************************************)
(* A call needs the lock: nobody is in a handler, or the call comes from   *)
(* the callback the handler is in.                                         *)
(***************************************************************************)
MayCall(b) == bev[b].held /\ (bev[b].then = <<>> \/ bev[b].run # None)

Call(b, s) == MayCall(b) /\ bev' = [bev EXCEPT ![b] = s] /\ UNCHANGED <<group, does>>

bufferevent_write(b) ==
    /\ Does(b, WRITE) /\ bev[b].len[WRITE] < MaxLen
    /\ Call(b, bufferevent_socket_outbuf_cb([bev[b] EXCEPT !.len[WRITE] = @ + 1]))

bufferevent_read(b) ==
    Does(b, READ) /\ \E n \in 0..MaxLen - 1 :
        n < bev[b].len[READ] /\ Call(b, SetInput(bev[b], n))

Enable(b) == \E D \in SUBSET (Dir \cap does[b]) \ {{}} : Call(b, bufferevent_enable(bev[b], D))

Disable(b) == \E D \in SUBSET (Dir \cap does[b]) \ {{}} : Call(b, bufferevent_disable(bev[b], D))

bufferevent_setwatermark(b, low, high) ==
    LET s == [bev[b] EXCEPT !.low[READ] = low, !.high = high]
    IN  /\ Does(b, "marks")
        /\ Call(b, IF high = 0 THEN bufferevent_unsuspend_(s, READ, "WM")
                   ELSE bufferevent_inbuf_wm_cb(s))

SetWriteMark(b, low) == Does(b, "marks") /\ Call(b, [bev[b] EXCEPT !.low[WRITE] = low])

(* bufferevent_set_timeouts, with bufferevent_generic_adj_existing_timeouts_. *)
bufferevent_set_timeouts(b, T) ==
    Does(b, "timeouts") /\ Call(b, [bev[b] EXCEPT !.timeout = T, !.timer = bev[b].ev \cap T])

bufferevent_set_rate_limit(b, on) ==
    LET s == bev[b]
        r == [s EXCEPT !.cfg = on, !.refill = FALSE,
                       !.limit = IF on THEN [d \in Dir |-> Rate] ELSE @]
    IN  /\ Does(b, "limit") /\ on # s.cfg
        /\ Call(b, bufferevent_unsuspend_(bufferevent_unsuspend_(r, READ, "BW"), WRITE, "BW"))

(* bufferevent_decrement_read_limit and _write_limit. *)
bufferevent_decrement_limit(b, d, decr) ==
    LET s == bev[b]
        r == [s EXCEPT !.limit[d] = @ - decr]
    IN  /\ Does(b, "decrement") /\ s.cfg /\ r.limit[d] \in -MaxSingle..Burst
        /\ Call(b, IF s.limit[d] > 0 /\ r.limit[d] <= 0
                   THEN [bufferevent_suspend_(r, d, "BW") EXCEPT !.refill = TRUE]
                   ELSE IF s.limit[d] <= 0 /\ r.limit[d] > 0
                   THEN bufferevent_unsuspend_(
                          [r EXCEPT !.refill = @ /\ "BW" \in r.suspended[Other(d)]], d, "BW")
                   ELSE r)

(***************************************************************************)
(* bufferevent_add_to_rate_limit_group: what it saw of the group when it   *)
(* joined it is used after the group's lock is let go.                     *)
(***************************************************************************)
bufferevent_add_to_rate_limit_group(b) ==
    /\ Does(b, "group") /\ ~bev[b].member /\ bev[b].then = <<>>
    /\ Call(b, [Enter(bev[b]) EXCEPT
                    !.member = TRUE, !.then = <<"joined", "done">>,
                    !.seen = {d \in Dir : group.suspended[d]}])

Joined(b) ==
    LET s == [bev[b] EXCEPT !.then = <<"done">>, !.seen = {}]
        r == IF READ \in bev[b].seen THEN bufferevent_suspend_(s, READ, "BW_GROUP") ELSE s
    IN  /\ bev[b].then # <<>> /\ Head(bev[b].then) = "joined"
        /\ Step(b, IF WRITE \in bev[b].seen
                   THEN bufferevent_suspend_(r, WRITE, "BW_GROUP") ELSE r)

bufferevent_remove_from_rate_limit_group(b) ==
    /\ bev[b].member
    /\ Call(b, bufferevent_unsuspend_(
                 bufferevent_unsuspend_([bev[b] EXCEPT !.member = FALSE], READ, "BW_GROUP"),
                 WRITE, "BW_GROUP"))

(***************************************************************************)
(* bufferevent_socket_connect; r is the answer of evutil_socket_connect_.  *)
(***************************************************************************)
Connect(b, s, r) ==
    LET t == be_socket_setfd(s, TRUE)
    IN  CASE r = "failed" -> s
          [] r = "under way" -> [be_socket_enable(t, {WRITE}) EXCEPT !.connecting = TRUE]
          [] r = "connected" -> bufferevent_trigger_nolock_(
                                  b, [t EXCEPT !.connecting = TRUE], WRITE, TRUE)
          [] r = "refused" -> bufferevent_disable(RunCallback(b, t, "EVENT", TRUE), Dir)

Answers == {"failed", "under way", "connected", "refused"}

bufferevent_socket_connect(b, r) ==
    Does(b, "connect") /\ Call(b, Connect(b, bev[b], r))

(* One lookup at a time. *)
bufferevent_socket_connect_hostname(b) ==
    /\ Does(b, "connect") /\ bev[b].dns = "none"
    /\ Call(b, [Incref(bufferevent_suspend_(bufferevent_suspend_(bev[b], WRITE, "LOOKUP"),
                                            READ, "LOOKUP")) EXCEPT !.dns = "pending"])

(* The lookup's answer; the reference of the lookup is the handler's. *)
bufferevent_connect_getaddrinfo_cb(b) ==
    LET s == [bufferevent_unsuspend_(bufferevent_unsuspend_(bev[b], WRITE, "LOOKUP"),
                                     READ, "LOOKUP")
                  EXCEPT !.dns = "none", !.then = <<"done">>]
    IN  /\ Ready(b)
        /\ CASE bev[b].dns = "none" -> FALSE
             [] bev[b].dns = "cancelled" -> Step(b, s)
             [] bev[b].dns = "pending" ->
                  \/ Step(b, RunCallback(b, s, "EVENT", FALSE))
                  \/ \E r \in Answers :
                       LET t == Connect(b, s, r)
                       IN  Step(b, IF r = "failed" THEN RunCallback(b, t, "EVENT", FALSE)
                                   ELSE t)

bufferevent_setfd(b, fd) ==
    Does(b, "connect") /\ Call(b, be_socket_setfd(bev[b], fd))

(* bufferevent_trigger and bufferevent_trigger_event. *)
Trigger(b, cb, defer) ==
    LET s == Enter(bev[b])
        r == IF cb = "EVENT" THEN RunCallback(b, s, cb, defer)
             ELSE bufferevent_trigger_nolock_(b, s, cb, defer)
    IN  Does(b, "trigger") /\ bev[b].then = <<>> /\ Call(b, Return(r))

(* Fault: the callbacks are left in place. *)
bufferevent_free_KeepCallbacks(b) ==
    /\ Does(b, "free")
    /\ Call(b, bufferevent_decref([bev[b] EXCEPT !.held = FALSE]))

bufferevent_free(b) ==
    /\ Does(b, "free")
    /\ Call(b, bufferevent_decref([bev[b] EXCEPT !.callbacks = FALSE, !.held = FALSE]))

-----------------------------------------------------------------------------
NewBev(fd, callbacks) ==
    [enabled |-> {WRITE}, suspended |-> [d \in Dir |-> {}],
     ev |-> {}, timer |-> {}, timeout |-> {}, dropped |-> {},
     len |-> [d \in Dir |-> 0], low |-> [d \in Dir |-> 0], high |-> 0,
     fd |-> fd, connecting |-> FALSE, refused |-> FALSE, dns |-> "none",
     callbacks |-> callbacks, pending |-> {}, sched |-> FALSE, run |-> None, then |-> <<>>,
     amount |-> 0, seen |-> {}, refcnt |-> 1, held |-> TRUE, life |-> "live",
     cfg |-> FALSE, limit |-> [d \in Dir |-> 0], refill |-> FALSE, member |-> FALSE]

Init ==
    /\ does \in Scenarios
    /\ bev = [b \in Bev |-> NewBev(~Does(b, "connect"), ~Does(b, "silent"))]
    /\ group = [limit |-> [d \in Dir |-> Rate],
                suspended |-> [d \in Dir |-> FALSE],
                pending_unsuspend |-> [d \in Dir |-> FALSE]]

Handle(b) ==
    \/ Read(b) \/ Write(b) \/ Recheck(b) \/ DeferredStep(b) \/ WmCheck(b)
    \/ CallbackReturns(b) \/ Joined(b)

Fire(b) ==
    \/ bufferevent_readcb(b) \/ bufferevent_writecb(b) \/ RunDeferred(b)
    \/ \E d \in Dir : Timeout(b, d)
    \/ \E n \in Ticks : bev_refill_callback_(b, n)
    \/ bufferevent_connect_getaddrinfo_cb(b) \/ bufferevent_finalize_cb_(b)

User(b) ==
    \/ bufferevent_write(b) \/ bufferevent_read(b) \/ Enable(b) \/ Disable(b)
    \/ \E low, high \in 0..MaxLen : bufferevent_setwatermark(b, low, high)
    \/ \E low \in 0..MaxLen : SetWriteMark(b, low)
    \/ \E T \in SUBSET Dir : bufferevent_set_timeouts(b, T)
    \/ \E on \in BOOLEAN : bufferevent_set_rate_limit(b, on)
    \/ \E d \in Dir, decr \in {-1, 1} : bufferevent_decrement_limit(b, d, decr)
    \/ bufferevent_add_to_rate_limit_group(b) \/ bufferevent_remove_from_rate_limit_group(b)
    \/ \E r \in Answers : bufferevent_socket_connect(b, r)
    \/ bufferevent_socket_connect_hostname(b)
    \/ \E fd \in BOOLEAN : bufferevent_setfd(b, fd)
    \/ \E cb \in Dir \cup {"EVENT"}, defer \in BOOLEAN : Trigger(b, cb, defer)
    \/ bufferevent_free(b)

Next ==
    \/ \E b \in Bev : Handle(b) \/ Fire(b) \/ User(b)
    \/ \E n \in Ticks : bev_group_refill_callback_(n)

Spec == Init /\ [][Next]_vars

(***************************************************************************)
(* Fairness.  Each step is described by what it does to the state and its  *)
(* being enabled by the guard of its action, so that TLC need not search   *)
(* for the next states to tell that an action is enabled.                  *)
(***************************************************************************)
Moves(b) == <<bev'[b].then, bev'[b].run>> # <<bev[b].then, bev[b].run>>
Refilled(b) ==
    /\ bev[b].refill
    /\ bev'[b].then = <<>>
    /\ \E n \in 1..MaxTicks : bev'[b].limit = Update(bev[b].limit, n)
    /\ \A d \in Dir : "BW" \in bev'[b].suspended[d] => bev'[b].limit[d] <= 0
GroupRefilled(b) ==
    /\ ~Locked(b, bev)
    /\ \E n \in 1..MaxTicks : group'.limit = Update(group.limit, n)
    /\ \A d \in Dir :
        group.pending_unsuspend[d] \/ (group.suspended[d] /\ group'.limit[d] >= MinShare)
            => "BW_GROUP" \notin bev'[b].suspended[d]

(***************************************************************************)
(* Handlers and the user's callbacks end, a loop gets to the refill timers *)
(* that are due, the clock does not go back for ever, and the group's      *)
(* timer does not find the same lock taken for ever.                       *)
(***************************************************************************)
Fairness ==
    \A b \in Watched :
        /\ []<>(bev[b].then = <<>>) \/ []<><<Moves(b)>>_vars
        /\ []<>(Ready(b) /\ bev[b].refill) => []<><<Refilled(b)>>_vars
        /\ []<>(~Locked(b, bev) /\ bev[b].member) => []<><<GroupRefilled(b)>>_vars

FairSpec == Spec /\ Fairness

-----------------------------------------------------------------------------
(* Properties *)

Live == {b \in Bev : bev[b].life = "live"}
At(b, step) == bev[b].then # <<>> /\ bev[b].run = None /\ Head(bev[b].then) = step

(***************************************************************************)
(* The events of a bufferevent are those its switches ask for, whatever    *)
(* order enable, disable, the five suspensions and the socket's answers    *)
(* came in: it listens when reading is enabled and not suspended, only     *)
(* then, and writes as long as it has output.  A connect under way keeps   *)
(* the write event; a socket that was taken away, or whose connect failed, *)
(* has lost its events until somebody enables them again.                  *)
(***************************************************************************)
EventsFollow ==
    \A b \in Live :
        LET s == bev[b]
            on == {d \in s.enabled : s.suspended[d] = {}}
        IN  /\ READ \in s.ev => READ \in on
            /\ WRITE \in s.ev => WRITE \in on \/ s.connecting \/ At(b, "recheck")
                                     \/ s.run = "CONNECTED"
            /\ READ \in on => READ \in s.ev \cup s.dropped
            /\ WRITE \in on /\ s.len[WRITE] > 0 => WRITE \in s.ev \cup s.dropped
            /\ s.timer = s.ev \cap s.timeout

(***************************************************************************)
(* Input is suspended for its watermark exactly while it is at the mark.   *)
(***************************************************************************)
WatermarkExact ==
    \A b \in Live :
        "WM" \in bev[b].suspended[READ]
            <=> bev[b].high # 0 /\ bev[b].len[READ] >= bev[b].high

(* Switches, suspensions and watermarks decide alone what is listened for. *)
SwitchesFollow == EventsFollow /\ WatermarkExact

(***************************************************************************)
(* Whoever is suspended for bandwidth has somebody to wake it: its refill  *)
(* timer, or the group, which is suspended itself or tries again.  An      *)
(* empty bucket always suspends, so a handler never moves zero bytes,      *)
(* which it would take for the end of the stream.                          *)
(***************************************************************************)
BandwidthReturns ==
    /\ \A b \in Live, d \in Dir :
        LET s == bev[b]
        IN  /\ "BW" \in s.suspended[d] => s.refill
            /\ s.cfg /\ s.limit[d] <= 0 => "BW" \in s.suspended[d]
            /\ "BW_GROUP" \in s.suspended[d] =>
                    s.member /\ (group.suspended[d] \/ group.pending_unsuspend[d])
            /\ At(b, "read") \/ At(b, "write") => s.amount > 0
    /\ \A d \in Dir : group.limit[d] <= 0 => group.suspended[d]

(***************************************************************************)
(* The reference count is the number of those who will use the bufferevent *)
(* again: the user, a handler or the lookup it came from, a callback that  *)
(* is scheduled.  It is finalized when there are none.                     *)
(***************************************************************************)
RefsExact ==
    \A b \in Bev :
        LET s == bev[b]
            one(p) == IF p THEN 1 ELSE 0
        IN  /\ s.refcnt = one(s.held) + one(s.then # <<>>) + one(s.sched)
                              + one(s.dns # "none")
            /\ s.life = "live" <=> s.refcnt > 0

(***************************************************************************)
(* After bufferevent_free no callback of the user starts, neither one that *)
(* was pending nor one of a handler under way.                             *)
(***************************************************************************)
QuietAfterFree ==
    [][\A b \in Bev : ~bev[b].held => bev'[b].run \in {None, bev[b].run}]_vars

(***************************************************************************)
(* A direction suspended for bandwidth is not suspended for ever (unless   *)
(* the user empties the bucket again and again by hand).                   *)
(***************************************************************************)
SuspensionEnds ==
    \A b \in Watched, d \in {READ} :
        {"BW", "BW_GROUP"} \cap bev[b].suspended[d] # {} /\ ~Does(b, "decrement")
            ~> {"BW", "BW_GROUP"} \cap bev[b].suspended[d] = {} \/ bev[b].life # "live"
=============================================================================
