--------------------------- MODULE EventDispatch ---------------------------
(***************************************************************************)
(* libevent's event_base_loop against the threads that use the base while  *)
(* it runs.  The loop thread gives th_base_lock up in two places only:     *)
(* inside the backend's dispatch and while a callback runs; everything it  *)
(* does in between is one action here, and so is every API call.           *)
(***************************************************************************)
EXTENDS EventBase, FiniteSets

CONSTANTS
    Threads,        \* threads other than the loop's
    LoopFlags,      \* the values of flags event_base_loop is called with
    Tvs,            \* the tv arguments of event_add, NoTv among them
    Added,          \* events added before the loop starts, each with its tv
    max_dispatch_callbacks, limit_callbacks_after_prio,
    MaxTime, MaxCalls, MaxLoops, MaxInput

ASSUME EventAssumption ==
    /\ LoopThread \notin Threads
    /\ NULL \notin Ev /\ IsFiniteSet(Ev) /\ Pri \in [Ev -> Nat]
    /\ NOTIFY # CTL /\ EXIT \notin Internal
    /\ (IoEvents \cup Timers \cup Deferred) \cap (Internal \cup {EXIT}) = {}
    /\ (IoEvents \cup Timers) \cap Deferred = {} /\ IoEvents \cap Timers = {}
    /\ Persist \subseteq IoEvents \cup Timers
    /\ Tvs \subseteq [d : Nat, common : BOOLEAN]
    /\ Added \in Seq((IoEvents \cup Timers) \X Tvs)
    /\ MAX_DEFERREDS_QUEUED \in Nat

VARIABLES
    base,           \* the event_base
    pc,             \* where the loop thread is
    flags,          \* the flags of this event_base_loop
    wait,           \* how long dispatch may still sleep, or Forever
    lag,            \* how old the cached time was when wait was computed
                    \* (history)
    pri, count,     \* event_process_active: queue, callbacks run from it
    running,        \* the callback the loop thread is in, or NULL
    fin,            \* it is the event's finalizer
    readable,       \* the descriptor of IoEvents has input
    thr,            \* per thread: the event whose callback event_del awaits
    woken,          \* threads the broadcast has released
    freed,          \* events whose finalizer has run
    rearmed,        \* threads whose awaited event was armed again (history)
    quiet,          \* events event_del has returned for and nobody has armed
                    \* since (history)
    calls, loops, input

loopVars == <<pc, flags, wait, lag, pri, count, running, fin>>
threadVars == <<thr, woken, rearmed>>
bounds == <<calls, loops, input>>
vars == <<base, loopVars, readable, threadVars, freed, quiet, bounds>>

(* The base with the first i of the events added. *)
Prepared[i \in 0..Len(Added)] ==
    IF i = 0 THEN EmptyBase
    ELSE event_add_nolock_(Prepared[i - 1], LoopThread, Added[i][1], Added[i][2])

Init ==
    /\ base = Prepared[Len(Added)]
    /\ pc = "idle"
    /\ flags = {}
    /\ wait = 0
    /\ lag = 0
    /\ pri = 0
    /\ count = 0
    /\ running = NULL
    /\ fin = FALSE
    /\ readable = FALSE
    /\ thr = [t \in Threads |-> NULL]
    /\ woken = {}
    /\ rearmed = {}
    /\ freed = {}
    /\ quiet = {}
    /\ calls = 0
    /\ loops = 0
    /\ input = 0

-----------------------------------------------------------------------------
(* event_base_loop *)

BeginLoop(f) ==
    /\ pc = "idle"
    /\ loops < MaxLoops
    /\ base' = [base EXCEPT !.running_loop = TRUE, !.tv_cache = 0,
                            !.event_gotterm = FALSE, !.event_break = FALSE]
    /\ flags' = f
    /\ pc' = "top"
    /\ loops' = loops + 1
    /\ UNCHANGED <<wait, lag, pri, count, running, fin, readable, threadVars,
                   freed, quiet, calls, input>>

(* The loop returns. *)
LeaveLoop(b) ==
    /\ base' = [b EXCEPT !.running_loop = FALSE, !.tv_cache = 0]
    /\ pc' = "idle"
    /\ UNCHANGED <<wait, lag>>

(* Fault: callbacks left over from the last turn do not count. *)
MayBlock_Always(b) == "NONBLOCK" \notin flags

(* Nothing is left to run, so the backend may sleep. *)
MayBlock(b) == N_ACTIVE_CALLBACKS(b) = 0 /\ "NONBLOCK" \notin flags

(* One turn of the while loop up to the backend. *)
Iterate ==
    LET b == [base EXCEPT !.event_continue = FALSE, !.n_deferreds_queued = 0]
    IN  IF \/ b.event_gotterm \/ b.event_break
           \/ /\ "NO_EXIT_ON_EMPTY" \notin flags
              /\ ~event_haveevents(b)
              /\ N_ACTIVE_CALLBACKS(b) = 0
        THEN LeaveLoop(b)
        ELSE /\ base' = [event_queue_make_later_events_active(b) EXCEPT
                            !.tv_cache = 0]
             /\ wait' = IF MayBlock(b) THEN timeout_next(b) ELSE 0
             /\ lag' = b.clock - gettime(b)
             /\ pc' = "poll"

LoopTop ==
    /\ pc = "top"
    /\ Iterate
    /\ UNCHANGED <<flags, pri, count, running, fin, readable, threadVars, freed,
                   quiet, bounds>>

(* Dispatch has a reason to return. *)
Wakes == (readable /\ base.io # <<>>) \/ base.th_notify > 0 \/ wait = 0

(***************************************************************************)
(* evsel->dispatch returns: input, a notification or the time it was given *)
(* ended the wait.  Then the time is cached and the due timers activated.  *)
(***************************************************************************)
Dispatch ==
    LET b1 == IF readable THEN evmap_io_active_(base) ELSE base
        b2 == IF base.th_notify > 0
              THEN event_active_nolock_(b1, LoopThread, NOTIFY, {"READ"}) ELSE b1
        b3 == timeout_process([b2 EXCEPT !.tv_cache = b2.clock])
    IN  /\ pc = "poll"
        /\ Wakes
        /\ base' = b3
        /\ IF N_ACTIVE_CALLBACKS(b3) > 0
           THEN pc' = "scan" /\ pri' = Min(Priorities) /\ count' = 0
           ELSE /\ pc' = IF "NONBLOCK" \in flags THEN "leave" ELSE "top"
                /\ UNCHANGED <<pri, count>>
        /\ UNCHANGED <<flags, wait, lag, running, fin, readable, threadVars,
                       freed, quiet, bounds>>

Leave ==
    /\ pc = "leave"
    /\ LeaveLoop(base)
    /\ UNCHANGED <<flags, pri, count, running, fin, readable, threadVars, freed,
                   quiet, bounds>>

(***************************************************************************)
(* event_process_active is done after n callbacks, -1 for a break.         *)
(***************************************************************************)
ProcessedActive(n, b) ==
    /\ base' = [b EXCEPT !.event_running_priority = -1]
    /\ pc' = IF "ONCE" \in flags /\ N_ACTIVE_CALLBACKS(b) = 0 /\ n # 0
             THEN "leave" ELSE "top"
    /\ UNCHANGED <<pri, count>>

(* The next queue, unless this one ran a callback that counts. *)
NextQueue(n, b) ==
    IF n > 0 \/ pri = Max(Priorities) THEN ProcessedActive(n, b)
    ELSE /\ base' = b
         /\ pri' = Min({p \in Priorities : p > pri})
         /\ pc' = "scan"
         /\ count' = 0

(* event_process_active looks at queue pri and finds it empty. *)
SkipQueue ==
    /\ pc = "scan"
    /\ base.activequeues[pri] = <<>>
    /\ NextQueue(0, base)
    /\ UNCHANGED <<flags, wait, lag, running, fin, readable, threadVars, freed, quiet,
                   bounds>>

(* Callbacks that change the state modelled here. *)
HasBody(e) == e \in Internal \cup IoEvents \cup {EXIT}

(***************************************************************************)
(* event_process_active_single_queue takes the head of the queue, sets     *)
(* current_event and gives up the lock to run it.                          *)
(***************************************************************************)
RunCallback ==
    /\ pc = "scan"
    /\ base.activequeues[pri] # <<>>
    /\ LET e == Head(base.activequeues[pri])
       IN  /\ count' = count + Counted(e)
           /\ base' = StartCallback([base EXCEPT !.event_running_priority = pri], e)
           /\ running' = e
           /\ fin' = Has(base, e, "FINALIZING")
           /\ pc' = IF HasBody(e) \/ fin' THEN "enter" ELSE "callback"
    /\ UNCHANGED <<flags, wait, lag, pri, readable, threadVars, freed, quiet, bounds>>

(***************************************************************************)
(* The body of those callbacks, run without the lock: the eventfd is read  *)
(* before is_notify_pending is cleared, a common timeout activates its     *)
(* list, loopexit asks the loop to end, a reader empties its descriptor, a *)
(* finalizer frees its event.                                              *)
(***************************************************************************)
CallbackBody ==
    /\ pc = "enter"
    /\ pc' = IF running = NOTIFY THEN "drained" ELSE "callback"
    /\ base' = CASE fin -> base
                 [] running = NOTIFY -> [base EXCEPT !.th_notify = 0]
                 [] running = CTL -> common_timeout_callback(base)
                 [] running = EXIT -> [base EXCEPT !.event_gotterm = TRUE]
                 [] OTHER -> base
    /\ readable' = (readable /\ ~(running \in IoEvents /\ ~fin))
    /\ freed' = IF fin THEN freed \cup {running} ELSE freed
    /\ UNCHANGED <<flags, wait, lag, pri, count, running, fin, threadVars, quiet,
                   bounds>>

(* evthread_notify_drain_eventfd takes the lock after its read. *)
ClearNotify ==
    /\ pc = "drained"
    /\ base' = [base EXCEPT !.is_notify_pending = FALSE]
    /\ pc' = "callback"
    /\ UNCHANGED <<flags, wait, lag, pri, count, running, fin, readable, threadVars,
                   freed, quiet, bounds>>

(* Fault: threads that wait for the callback are left waiting. *)
Released_None == {}

(* Those whom current_event_cond wakes: all that wait. *)
Released == {t \in Threads : thr[t] # NULL}

(* The callback returns and the lock is taken again. *)
CallbackReturn ==
    /\ pc = "callback"
    /\ running' = NULL
    /\ fin' = FALSE
    /\ woken' = woken \cup Released
    /\ LET b == [base EXCEPT !.current_event = NULL]
       IN  IF b.event_break THEN ProcessedActive(-1, b)
           ELSE IF \/ b.event_continue
                   \/ b.activequeues[pri] = <<>>
                   \/ /\ pri >= limit_callbacks_after_prio
                      /\ count >= max_dispatch_callbacks
           THEN NextQueue(count, b)
           ELSE /\ base' = b
                /\ pc' = "scan"
                /\ UNCHANGED <<pri, count>>
    /\ UNCHANGED <<flags, wait, lag, readable, thr, rearmed, freed, quiet, bounds>>

-----------------------------------------------------------------------------
(* The API, called by another thread or from inside a user's callback *)

Callers == {t \in Threads : thr[t] = NULL}
           \cup (IF pc = "callback" /\ ~fin /\ running \in User
                 THEN {LoopThread} ELSE {})

(* Events a program may still pass to the library. *)
Usable == User \ (freed \cup {EXIT})

(* One more call; nothing but the base, and the events armed by it. *)
Call(b, armed) ==
    /\ calls < MaxCalls
    /\ calls' = calls + 1
    /\ base' = b
    /\ quiet' = quiet \ armed
    /\ rearmed' = rearmed \cup {t \in Threads : thr[t] \in armed}
    /\ UNCHANGED <<loopVars, readable, thr, woken, freed, loops, input>>

event_add(t, e, tv) ==
    /\ e \in Usable \ Deferred
    /\ tv # NoTv \/ e \in IoEvents
    /\ Call(event_add_nolock_(base, t, e, tv), {e})

event_remove_timer(t, e) ==
    /\ e \in Usable \ Deferred
    /\ Call(event_remove_timer_nolock_(base, e), {})

event_active(t, e) ==
    /\ e \in Usable \ Deferred
    /\ Call(event_active_nolock_(base, t, e, {"READ"}), {e})

event_active_later_(t, e) ==
    /\ e \in Usable \ Deferred
    /\ ~Has(base, e, "FINALIZING")
    /\ Call(event_active_later_nolock_(base, t, e, {"READ"}), {e})

Schedule(t, e) ==
    /\ e \in Usable \cap Deferred
    /\ Call(event_deferred_cb_schedule_(base, t, e), {e})

Cancel(t, e) ==
    /\ e \in Usable \cap Deferred
    /\ Call(event_callback_cancel_nolock_(base, e), {})

(* Fault: event_del never waits for a callback. *)
MustWait_Never(t, e) == FALSE

(* The event's callback runs in the loop thread, and this is another one. *)
MustWait(t, e) == t # LoopThread /\ base.current_event = e

(***************************************************************************)
(* event_del: from another thread it waits for a running callback.         *)
(***************************************************************************)
event_del(t, e) ==
    /\ e \in Usable \ Deferred
    /\ ~Has(base, e, "FINALIZING")
    /\ calls < MaxCalls
    /\ calls' = calls + 1
    /\ base' = event_del_nolock_(base, t, e)
    /\ IF MustWait(t, e)
       THEN thr' = [thr EXCEPT ![t] = e]
       ELSE UNCHANGED thr
    /\ UNCHANGED <<woken, rearmed>>
    /\ quiet' = IF MustWait(t, e) \/ t = LoopThread THEN quiet ELSE quiet \cup {e}
    /\ UNCHANGED <<loopVars, readable, freed, loops, input>>

(* A thread the broadcast has woken has the lock again and returns. *)
DelReturn(t) ==
    /\ t \in woken
    /\ thr' = [thr EXCEPT ![t] = NULL]
    /\ woken' = woken \ {t}
    /\ rearmed' = rearmed \ {t}
    /\ quiet' = IF t \in rearmed THEN quiet ELSE quiet \cup {thr[t]}
    /\ UNCHANGED <<base, loopVars, readable, freed, bounds>>

event_finalize(t, e) ==
    /\ e \in Usable \ Deferred
    /\ ~Has(base, e, "FINALIZING")
    /\ Call(event_finalize_nolock_(base, t, e), {e})

event_base_loopbreak(t) ==
    /\ Call(NotifyIf(TRUE, [base EXCEPT !.event_break = TRUE], t), {})

event_base_loopcontinue(t) ==
    /\ Call(NotifyIf(TRUE, [base EXCEPT !.event_continue = TRUE], t), {})

(* event_base_loopexit: a one-shot event, active at once without a tv. *)
event_base_loopexit(t, tv) ==
    /\ base.flags[EXIT] \cap Pending = {} /\ running # EXIT
    /\ Call(IF tv = NoTv THEN event_active_nolock_(base, t, EXIT, {"TIMEOUT"})
            ELSE event_add_nolock_(base, t, EXIT, tv), {})

-----------------------------------------------------------------------------
(* The world *)

(* Time passes in the backend, and in callbacks that take their time. *)
Tick ==
    /\ base.clock < MaxTime
    /\ \/ pc = "poll" /\ wait # 0 /\ wait' = IF wait = Forever THEN wait ELSE wait - 1
       \/ pc = "callback" /\ running \in User /\ UNCHANGED wait
    /\ base' = [base EXCEPT !.clock = @ + 1]
    /\ UNCHANGED <<pc, flags, lag, pri, count, running, fin, readable, threadVars,
                   freed, quiet, bounds>>

Input ==
    /\ ~readable
    /\ input < MaxInput
    /\ readable' = TRUE
    /\ input' = input + 1
    /\ UNCHANGED <<base, loopVars, threadVars, freed, quiet, calls, loops>>

LoopStep ==
    LoopTop \/ Dispatch \/ Leave \/ SkipQueue \/ RunCallback \/ CallbackBody
    \/ ClearNotify \/ CallbackReturn

ApiCall ==
    \E t \in Callers :
        \/ event_base_loopbreak(t)
        \/ event_base_loopcontinue(t)
        \/ \E tv \in {x \in Tvs : ~x.common} : event_base_loopexit(t, tv)
        \/ \E e \in Usable :
            \/ \E tv \in Tvs : event_add(t, e, tv)
            \/ event_remove_timer(t, e)
            \/ event_active(t, e)
            \/ event_active_later_(t, e)
            \/ Schedule(t, e)
            \/ Cancel(t, e)
            \/ event_del(t, e)
            \/ event_finalize(t, e)

Next ==
    \/ \E f \in LoopFlags : BeginLoop(f)
    \/ LoopStep
    \/ ApiCall
    \/ \E t \in Threads : DelReturn(t)
    \/ Tick
    \/ Input

Spec == Init /\ [][Next]_vars

(* LoopStep, seen from its control state: every step moves pc or pri. *)
LoopMoves ==
    /\ pc # "idle"
    /\ pc = "poll" => Wakes
    /\ pc' \in {"idle", "top", "poll", "leave", "scan", "enter", "drained",
               "callback"}
    /\ pri' \in Priorities

(* The loop thread runs, time passes, threads that were woken run. *)
Fairness ==
    /\ WF_<<pc, pri>>(LoopMoves)
    /\ WF_vars(Tick)
    /\ \A t \in Threads : WF_vars(DelReturn(t))

FairSpec == Spec /\ Fairness

-----------------------------------------------------------------------------
(* Properties *)

NoDup(s) == Cardinality(ToSet(s)) = Len(s)

(* Events on a list, one for each list they are on, internal ones left out. *)
Memberships(b) ==
    LET on(f) == Cardinality({e \in User : Has(b, e, f)})
    IN  on("INSERTED") + on("TIMEOUT") + on("ACTIVE") + on("ACTIVE_LATER")

(***************************************************************************)
(* event_base_assert_ok_: flags and lists agree, no event is twice on a    *)
(* list or both active and to be active later, the heap and the common     *)
(* timeout list are in order, and the counts that decide when the loop     *)
(* ends are exact, whatever sequence of calls led here.                    *)
(***************************************************************************)
BaseOK ==
    LET b == base
    IN  /\ IsHeap(b.timeheap, b.tmo) /\ NoDup(b.timeheap)
        /\ \A i \in 2..Len(b.ctl) : b.tmo[b.ctl[i-1]] <= b.tmo[b.ctl[i]]
        /\ NoDup(b.ctl) /\ NoDup(b.io) /\ NoDup(b.later)
        /\ \A p \in Priorities :
            /\ NoDup(b.activequeues[p])
            /\ ToSet(b.activequeues[p]) = {e \in Ev : Pri[e] = p /\ Has(b, e, "ACTIVE")}
        /\ ToSet(b.later) = {e \in Ev : Has(b, e, "ACTIVE_LATER")}
        /\ ToSet(b.io) = {e \in IoEvents : Has(b, e, "INSERTED")}
        /\ ToSet(b.timeheap) = {e \in Ev : Has(b, e, "TIMEOUT") /\ ~b.common[e]}
        /\ ToSet(b.ctl) = {e \in Ev : Has(b, e, "TIMEOUT") /\ b.common[e]}
        /\ \A e \in Ev : ~({"ACTIVE", "ACTIVE_LATER"} \subseteq b.flags[e])
        /\ b.event_count = Memberships(b)
        /\ b.event_count_active =
               Cardinality({e \in Ev : {"ACTIVE", "ACTIVE_LATER"} \cap b.flags[e] # {}})

(***************************************************************************)
(* A loop asleep in its backend does not sleep over work: whatever another *)
(* thread did since it looked (activate, break, add an earlier timeout,    *)
(* delete the last event), the notification that wakes it is there.  It    *)
(* oversleeps the earliest timeout by the age of the cached time at most,  *)
(* that is by the time its last callbacks took.                            *)
(***************************************************************************)
NoLostWakeup ==
    pc = "poll" /\ ~Wakes =>
        /\ N_ACTIVE_CALLBACKS(base) = 0
        /\ ~base.event_break
        /\ base.timeheap # <<>> =>
                /\ wait # Forever
                /\ base.clock + wait <= base.tmo[Head(base.timeheap)] + lag
        /\ \/ event_haveevents(base) \/ wait # Forever
           \/ "NO_EXIT_ON_EMPTY" \in flags

(***************************************************************************)
(* "When this function returns, it will be safe to free the user-supplied  *)
(* argument": once event_del has returned to another thread, the event's   *)
(* callback does not run unless somebody arms the event again.             *)
(***************************************************************************)
QuietAfterDel == base.current_event \notin quiet

(***************************************************************************)
(* A finalized event is on no list: the finalizer may free its memory, and *)
(* neither the loop nor the base meets it again.                           *)
(***************************************************************************)
FinalizedUnreferenced ==
    \A e \in freed : /\ base.flags[e] \cap Pending = {}
                     /\ base.current_event # e
                     /\ running = e => fin

(***************************************************************************)
(* Events on the common timeout list do not depend on their own place in   *)
(* the heap: the list's timer is due no later than its head, or about to   *)
(* run.                                                                    *)
(***************************************************************************)
CommonTimeoutArmed ==
    base.ctl # <<>> =>
        \/ Has(base, CTL, "TIMEOUT") /\ base.tmo[CTL] <= base.tmo[Head(base.ctl)]
        \/ Has(base, CTL, "ACTIVE")
        \/ running = CTL /\ pc = "enter"

(* No sleep over anything that is due, in the heap or on the common list. *)
WakesInTime == NoLostWakeup /\ CommonTimeoutArmed

(* Events that were deleted or finalized are not met again. *)
QuietWhenGone == QuietAfterDel /\ FinalizedUnreferenced

(***************************************************************************)
(* An active callback of a running loop is eventually run or cancelled, or *)
(* the loop ends.                                                          *)
(***************************************************************************)
ActiveRuns ==
    \A e \in User :
        Has(base, e, "ACTIVE") /\ pc # "idle"
            ~> (~Has(base, e, "ACTIVE") \/ pc = "idle")

(* event_del does not wait for ever for the callback it met. *)
DelReturns == \A t \in Threads : thr[t] # NULL ~> thr[t] = NULL
=============================================================================
