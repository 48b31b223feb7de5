----------------------------- MODULE EventBase -----------------------------
(***************************************************************************)
(* libevent's event.c, evmap.c and minheap-internal.h: what an event_base  *)
(* holds and what the functions called under th_base_lock do to it.  Every *)
(* function of the source is an operator from a base to a base; th is the  *)
(* thread that calls it, LoopThread being the owner of the loop.           *)
(***************************************************************************)
EXTENDS MinHeap, FiniteSetsExt, SequencesExt

CONSTANTS
    IoEvents,       \* events with EV_READ, all on one descriptor
    Timers,         \* events with a timeout only
    Deferred,       \* event_callbacks made by event_deferred_cb_init_
    Persist,        \* events with EV_PERSIST
    NOTIFY,         \* base->th_notify, internal
    CTL,            \* timeout_event of the one common_timeout_list, internal
    EXIT,           \* the event_once of event_base_loopexit
    Pri,            \* ev_pri of every event
    MAX_DEFERREDS_QUEUED,
    LoopThread,
    NULL            \* no event

Internal == {NOTIFY, CTL}
User == IoEvents \cup Timers \cup Deferred \cup {EXIT}
Ev == User \cup Internal
Priorities == {Pri[e] : e \in Ev}

(* The tv argument NULL. *)
NoTv == [d |-> 0, common |-> FALSE]

Pending == {"INSERTED", "TIMEOUT", "ACTIVE", "ACTIVE_LATER"}

(* An event_base that evthread_make_base_notifiable has prepared. *)
EmptyBase == [
    flags |-> [e \in Ev |-> IF e = NOTIFY THEN {"INSERTED"} ELSE {}],
    res |-> [e \in Ev |-> {}],
    tmo |-> [e \in Ev |-> 0],               \* ev_timeout
    common |-> [e \in Ev |-> FALSE],        \* its common-timeout magic
    io_timeout |-> [e \in Ev |-> NoTv],
    timeheap |-> <<>>,
    ctl |-> <<>>,                           \* common_timeout_list.events
    io |-> <<>>,                            \* evmap_io.events of the descriptor
    activequeues |-> [p \in Priorities |-> <<>>],
    later |-> <<>>,                         \* active_later_queue
    event_count |-> 0,
    event_count_active |-> 0,
    n_deferreds_queued |-> 0,
    running_loop |-> FALSE,
    event_running_priority |-> -1,
    event_gotterm |-> FALSE,
    event_break |-> FALSE,
    event_continue |-> FALSE,
    current_event |-> NULL,
    is_notify_pending |-> FALSE,
    th_notify |-> 0,                        \* what the eventfd holds
    tv_cache |-> 0,                         \* 0: no cached time
    clock |-> 1]                            \* the monotonic clock

Has(b, e, f) == f \in b.flags[e]

gettime(b) == IF b.tv_cache # 0 THEN b.tv_cache ELSE b.clock

event_haveevents(b) == b.event_count > 0

N_ACTIVE_CALLBACKS(b) == b.event_count_active

Counted(e) == IF e \in Internal THEN 0 ELSE 1

-----------------------------------------------------------------------------
(* The queues *)

event_queue_remove_active(b, e) ==
    [b EXCEPT !.event_count = @ - Counted(e),
              !.flags[e] = @ \ {"ACTIVE"},
              !.event_count_active = @ - 1,
              !.activequeues[Pri[e]] = RemoveFirst(@, e)]

event_queue_remove_active_later(b, e) ==
    [b EXCEPT !.event_count = @ - Counted(e),
              !.flags[e] = @ \ {"ACTIVE_LATER"},
              !.event_count_active = @ - 1,
              !.later = RemoveFirst(@, e)]

event_queue_remove_timeout(b, e) ==
    [b EXCEPT !.event_count = @ - Counted(e),
              !.flags[e] = @ \ {"TIMEOUT"},
              !.ctl = IF b.common[e] THEN RemoveFirst(@, e) ELSE @,
              !.timeheap = IF b.common[e] THEN @
                           ELSE min_heap_erase_(@, b.tmo, e)]

event_queue_remove_inserted(b, e) ==
    [b EXCEPT !.event_count = @ - Counted(e), !.flags[e] = @ \ {"INSERTED"}]

event_queue_insert_inserted(b, e) ==
    [b EXCEPT !.event_count = @ + Counted(e), !.flags[e] = @ \cup {"INSERTED"}]

event_queue_insert_active(b, e) ==
    IF Has(b, e, "ACTIVE") THEN b
    ELSE [b EXCEPT !.event_count = @ + Counted(e),
                   !.flags[e] = @ \cup {"ACTIVE"},
                   !.event_count_active = @ + 1,
                   !.activequeues[Pri[e]] = Append(@, e)]

event_queue_insert_active_later(b, e) ==
    IF b.flags[e] \cap {"ACTIVE", "ACTIVE_LATER"} # {} THEN b
    ELSE [b EXCEPT !.event_count = @ + Counted(e),
                   !.flags[e] = @ \cup {"ACTIVE_LATER"},
                   !.event_count_active = @ + 1,
                   !.later = Append(@, e)]

(* The list stays sorted; a later arrival follows its equals. *)
insert_common_timeout_inorder(b, e) ==
    LET k == Max({0} \cup {i \in DOMAIN b.ctl : b.tmo[e] >= b.tmo[b.ctl[i]]})
    IN  InsertAt(b.ctl, k + 1, e)

event_queue_insert_timeout(b, e) ==
    [b EXCEPT !.event_count = @ + Counted(e),
              !.flags[e] = @ \cup {"TIMEOUT"},
              !.ctl = IF b.common[e] THEN insert_common_timeout_inorder(b, e)
                      ELSE @,
              !.timeheap = IF b.common[e] THEN @
                           ELSE min_heap_push_(@, b.tmo, e)]

(* The first of the callbacks that were put off becomes active. *)
MakeActive(b) ==
    LET e == Head(b.later)
    IN  [b EXCEPT !.later = Tail(@),
                  !.flags[e] = (@ \ {"ACTIVE_LATER"}) \cup {"ACTIVE"},
                  !.activequeues[Pri[e]] = Append(@, e),
                  !.n_deferreds_queued = IF e \in Deferred THEN @ + 1 ELSE @]

event_queue_make_later_events_active(b) ==
    LET turn[i \in 0..Len(b.later)] == IF i = 0 THEN b ELSE MakeActive(turn[i - 1])
    IN  turn[Len(b.later)]

-----------------------------------------------------------------------------
(* Waking the loop from another thread *)

EVBASE_NEED_NOTIFY(b, th) == b.running_loop /\ th # LoopThread

evthread_notify_base(b) ==
    IF b.is_notify_pending THEN b
    ELSE [b EXCEPT !.is_notify_pending = TRUE, !.th_notify = @ + 1]

NotifyIf(cond, b, th) ==
    IF cond /\ EVBASE_NEED_NOTIFY(b, th) THEN evthread_notify_base(b) ELSE b

-----------------------------------------------------------------------------
(* Adding *)

(* The list of the descriptor; the backend knows it while it has events. *)
evmap_io_add_(b, e) == [b EXCEPT !.io = <<e>> \o @]

evmap_io_del_(b, e) == [b EXCEPT !.io = RemoveFirst(@, e)]

(* The timer half of event_add_nolock_: e expires at the absolute time at. *)
AddTimeout(b, e, at, common) ==
    LET off == IF Has(b, e, "TIMEOUT") THEN event_queue_remove_timeout(b, e)
               ELSE b
        calm == IF Has(off, e, "ACTIVE") /\ "TIMEOUT" \in off.res[e]
                THEN event_queue_remove_active(off, e) ELSE off
    IN  event_queue_insert_timeout(
            [calm EXCEPT !.tmo[e] = at, !.common[e] = common], e)

(* The loop must wake earlier than it planned to. *)
TopMoved(b, e) ==
    /\ b.timeheap # <<>>
    /\ \/ Head(b.timeheap) = e
       \/ b.tmo[Head(b.timeheap)] < gettime(b)

(***************************************************************************)
(* common_timeout_schedule: the list's own timer is set to its head.       *)
(***************************************************************************)
common_timeout_schedule(b, th) ==
    LET s == AddTimeout(b, CTL, b.tmo[Head(b.ctl)], FALSE)
    IN  NotifyIf(TopMoved(s, CTL), s, th)

AddTimer(b, th, e, at, common) ==
    LET s == AddTimeout(b, e, at, common)
    IN  IF ~common THEN NotifyIf(TopMoved(s, e), s, th)
        ELSE IF Head(s.ctl) = e THEN common_timeout_schedule(s, th) ELSE s

(***************************************************************************)
(* event_add_nolock_ with a relative tv.  An event that fails to enter the *)
(* backend is left as it was.  The first event on the descriptor changes   *)
(* the backend, which evmap_io_add_ reports.                               *)
(***************************************************************************)
event_add_nolock_(b, th, e, tv) ==
    LET enters == /\ e \in IoEvents
                  /\ b.flags[e] \cap {"INSERTED", "ACTIVE", "ACTIVE_LATER"} = {}
        in == IF enters
              THEN NotifyIf(b.io = <<>>,
                            event_queue_insert_inserted(evmap_io_add_(b, e), e),
                            th)
              ELSE b
        kept == IF e \in Persist THEN [in EXCEPT !.io_timeout[e] = tv] ELSE in
    IN  IF Has(b, e, "FINALIZING") THEN b
        ELSE IF tv = NoTv THEN in
        ELSE AddTimer(kept, th, e, gettime(b) + tv.d, tv.common)

(* event_remove_timer_nolock_ *)
event_remove_timer_nolock_(b, e) ==
    IF Has(b, e, "TIMEOUT")
    THEN [event_queue_remove_timeout(b, e) EXCEPT !.io_timeout[e] = NoTv]
    ELSE b

-----------------------------------------------------------------------------
(* Deleting *)

(***************************************************************************)
(* event_del_nolock_ up to its wait for a running callback: off every      *)
(* queue, then a wake-up if the backend changed or nothing is left.        *)
(***************************************************************************)
event_del_nolock_(b, th, e) ==
    LET t == IF Has(b, e, "TIMEOUT") THEN event_queue_remove_timeout(b, e) ELSE b
        a == IF Has(t, e, "ACTIVE") THEN event_queue_remove_active(t, e)
             ELSE IF Has(t, e, "ACTIVE_LATER")
             THEN event_queue_remove_active_later(t, e) ELSE t
        d == evmap_io_del_(event_queue_remove_inserted(a, e), e)
    IN  IF Has(b, e, "FINALIZING") THEN b
        ELSE IF ~Has(a, e, "INSERTED") THEN a
        ELSE NotifyIf(\/ d.io = <<>>
                      \/ ~event_haveevents(d) /\ N_ACTIVE_CALLBACKS(d) = 0,
                      d, th)

(* event_callback_cancel_nolock_ of a callback that is not an event. *)
event_callback_cancel_nolock_(b, e) ==
    IF Has(b, e, "ACTIVE") THEN event_queue_remove_active(b, e)
    ELSE IF Has(b, e, "ACTIVE_LATER") THEN event_queue_remove_active_later(b, e)
    ELSE b

-----------------------------------------------------------------------------
(* Activating *)

(* Fault: a callback put off to the next iteration stays on that list too. *)
event_callback_activate_nolock__KeptLater(b, th, e) ==
    IF b.flags[e] \cap {"FINALIZING", "ACTIVE"} # {} THEN b
    ELSE NotifyIf(TRUE, event_queue_insert_active(b, e), th)

event_callback_activate_nolock_(b, th, e) ==
    LET off == IF Has(b, e, "ACTIVE_LATER")
               THEN event_queue_remove_active_later(b, e) ELSE b
    IN  IF b.flags[e] \cap {"FINALIZING", "ACTIVE"} # {} THEN b
        ELSE NotifyIf(TRUE, event_queue_insert_active(off, e), th)

event_callback_activate_later_nolock_(b, th, e) ==
    IF b.flags[e] \cap {"ACTIVE", "ACTIVE_LATER"} # {} THEN b
    ELSE NotifyIf(TRUE, event_queue_insert_active_later(b, e), th)

event_active_nolock_(b, th, e, res) ==
    IF Has(b, e, "FINALIZING") THEN b
    ELSE IF Has(b, e, "ACTIVE") THEN [b EXCEPT !.res[e] = @ \cup res]
    ELSE event_callback_activate_nolock_(
            [b EXCEPT
                !.res[e] = IF Has(b, e, "ACTIVE_LATER") THEN @ \cup res ELSE res,
                !.event_continue = @ \/ Pri[e] < b.event_running_priority],
            th, e)

event_active_later_nolock_(b, th, e, res) ==
    IF b.flags[e] \cap {"ACTIVE", "ACTIVE_LATER"} # {}
    THEN [b EXCEPT !.res[e] = @ \cup res]
    ELSE event_callback_activate_later_nolock_([b EXCEPT !.res[e] = res], th, e)

(***************************************************************************)
(* event_deferred_cb_schedule_: past the limit a deferred callback waits   *)
(* for the next iteration, so that the loop polls in between.              *)
(***************************************************************************)
event_deferred_cb_schedule_(b, th, e) ==
    IF b.n_deferreds_queued > MAX_DEFERREDS_QUEUED
    THEN event_callback_activate_later_nolock_(b, th, e)
    ELSE [event_callback_activate_nolock_(b, th, e) EXCEPT
            !.n_deferreds_queued =
                @ + IF b.flags[e] \cap {"ACTIVE", "ACTIVE_LATER"} = {}
                    THEN 1 ELSE 0]

(* event_finalize_nolock_; the finalizer runs as the event's next callback. *)
event_finalize_nolock_(b, th, e) ==
    LET d == event_del_nolock_(b, th, e)
    IN  [event_active_nolock_(d, th, e, {"FINALIZE"}) EXCEPT
            !.flags[e] = @ \cup {"FINALIZING"}]

-----------------------------------------------------------------------------
(* What the loop does while it holds the lock *)

(* evmap_io_active_: every event on the descriptor becomes active. *)
evmap_io_active_(b) ==
    LET to[i \in 0..Len(b.io)] ==
            IF i = 0 THEN b
            ELSE event_active_nolock_(to[i - 1], LoopThread, b.io[i], {"READ"})
    IN  to[Len(b.io)]

(* An expired event leaves the timeout queue and becomes active. *)
Expire(b, e) ==
    event_active_nolock_(event_del_nolock_(b, LoopThread, e), LoopThread, e,
                         {"TIMEOUT"})

Due(b, q, now) == q # <<>> /\ b.tmo[Head(q)] <= now

(* timeout_process: every root of the heap that is due. *)
timeout_process(b) ==
    LET turn[i \in 0..Len(b.timeheap)] ==
            IF i = 0 THEN b
            ELSE IF Due(turn[i - 1], turn[i - 1].timeheap, gettime(b))
            THEN Expire(turn[i - 1], Head(turn[i - 1].timeheap)) ELSE turn[i - 1]
    IN  turn[Len(b.timeheap)]

(* Every event at the head of the common timeout list that is due. *)
ExpireCommon(b) ==
    LET turn[i \in 0..Len(b.ctl)] ==
            IF i = 0 THEN b
            ELSE IF Due(turn[i - 1], turn[i - 1].ctl, gettime(b))
            THEN Expire(turn[i - 1], Head(turn[i - 1].ctl)) ELSE turn[i - 1]
    IN  turn[Len(b.ctl)]

(* Fault: the rest of the list waits for a timer nobody sets. *)
common_timeout_callback_NoSchedule(b) == ExpireCommon(b)

(* The list's timer is set for the first that is not due. *)
common_timeout_callback(b) ==
    LET c == ExpireCommon(b)
    IN  IF c.ctl = <<>> THEN c ELSE common_timeout_schedule(c, LoopThread)

(***************************************************************************)
(* event_persist_closure before the callback: the next run is one delay    *)
(* after the last one was due, or after now if that has passed or the      *)
(* event did not run for its timeout.                                      *)
(***************************************************************************)
event_persist_closure(b, e) ==
    LET now == gettime(b)
        delay == b.io_timeout[e].d
        from == IF "TIMEOUT" \in b.res[e] THEN b.tmo[e] ELSE now
        run_at == IF from + delay < now THEN now + delay ELSE from + delay
    IN  IF delay = 0 THEN b
        ELSE AddTimer(b, LoopThread, e, run_at, b.common[e])

(* The callback at the head of its queue is taken off and set up to run. *)
StartCallback(b, e) ==
    LET taken == IF e \in Deferred \cup Persist \/ Has(b, e, "FINALIZING")
                    \/ e = NOTIFY
                 THEN event_queue_remove_active(b, e)
                 ELSE event_del_nolock_(b, LoopThread, e)
        armed == IF e \in Persist /\ ~Has(b, e, "FINALIZING")
                 THEN event_persist_closure(taken, e) ELSE taken
    IN  [armed EXCEPT !.current_event =
            IF Has(b, e, "FINALIZING") THEN NULL ELSE e]

(* How long timeout_next lets the backend wait; Forever for a NULL tv. *)
Forever == -1

timeout_next(b) ==
    IF b.timeheap = <<>> THEN Forever
    ELSE Max({0, b.tmo[Head(b.timeheap)] - gettime(b)})
=============================================================================
