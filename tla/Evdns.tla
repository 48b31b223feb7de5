------------------------------- MODULE Evdns -------------------------------
(***************************************************************************)
(* libevent's resolver (evdns.c), the client side: requests that are in    *)
(* flight or wait, the nameservers they are sent to, the probes of the     *)
(* nameservers that are down, retransmission, reissue, search lists and    *)
(* the deferred callbacks that tell the user.                              *)
(*                                                                         *)
(* Every function runs under the base's lock, so a step is a whole call:   *)
(* the operators below map a state s of the base to the next one.  A       *)
(* request is named by its handle; a handle is a user's or the probe of a  *)
(* nameserver, which bears the nameserver's name.  Names, packets and      *)
(* transaction ids are left out: an answer finds the request it is for.    *)
(* Up to five requests in flight there is one list of them (req_heads).    *)
(***************************************************************************)
EXTENDS Integers, Sequences, FiniteSets, SequencesExt

CONSTANTS
    Users,           \* the handles of the user's requests
    Nameserver,      \* the nameservers
    Null,
    Settings,        \* the settings of a base and the use that is made of it
    MaxRetransmits,  \* global_max_retransmits
    MaxReissues,     \* global_max_reissues
    MaxTimeouts,     \* global_max_nameserver_timeout
    Watched          \* the request whose progress is checked

Handle == Users \cup Nameserver

(***************************************************************************)
(* max is max-inflight, names the names a search has beyond the first;     *)
(* users and servers are the ones there are.  Bounds: trouble, the sends   *)
(* and sockets that fail; clears, the calls of                             *)
(* clear_nameservers_and_suspend.                                          *)
(***************************************************************************)
Setting == [max : 1..5, names : Nat, users : SUBSET Users,
            servers : (SUBSET Nameserver) \ {{}}, trouble : Nat, clears : Nat]

ASSUME EvdnsAssumption ==
    /\ Users \cap Nameserver = {} /\ Null \notin Handle
    /\ Watched \in Users /\ IsFiniteSet(Handle)
    /\ Settings \subseteq Setting
    /\ {MaxRetransmits, MaxTimeouts} \subseteq Nat \ {0} /\ MaxReissues \in Nat

VARIABLES
    dns,      \* the base
    set,      \* its settings, which do not change
    trouble,  \* sends and sockets that failed
    clears    \* calls of clear_nameservers_and_suspend

vars == <<dns, set, trouble, clears>>

(* What the reply's flags come to (reply_handle's error). *)
Reply == {"none", "notexist", "refused", "serverfailed", "other"}

(* sendto: it is sent, would block, or fails. *)
Fine == [n \in Nameserver |-> "sent"]
Net == {Fine} \cup {[Fine EXCEPT ![n] = r] : n \in Nameserver, r \in {"again", "failed"}}

NewServer == [state |-> FALSE, inflight |-> 0, timedout |-> 0, choked |-> FALSE,
              write_waiting |-> FALSE, timer |-> FALSE, probe |-> FALSE]

NewRequest == [ns |-> Null, tx |-> 0, reissue |-> 0, transmit_me |-> FALSE,
               timer |-> FALSE, sent |-> {}]

Rotate(q, k) == SubSeq(q, k + 1, Len(q)) \o SubSeq(q, 1, k)

-----------------------------------------------------------------------------
(* Nameservers.  servers is the circular list, from server_head on. *)

(* nameserver_pick, as the nameserver and the base. *)
nameserver_pick(s) ==
    LET up == {i \in DOMAIN s.servers : s.ns[s.servers[i]].state}
        i  == CHOOSE j \in up : \A k \in up : j <= k
        one == Rotate(s.servers, 1)
    IN  IF s.servers = <<>> THEN [ns |-> Null, s |-> s]
        ELSE IF s.good = 0 THEN [ns |-> one[1], s |-> [s EXCEPT !.servers = one]]
        ELSE IF up = {} THEN [ns |-> s.servers[1], s |-> [s EXCEPT !.servers = one]]
        ELSE [ns |-> s.servers[i], s |-> [s EXCEPT !.servers = Rotate(@, i)]]

request_swap_ns(s, h, n) ==
    LET old == s.req[h].ns
    IN  IF n = Null \/ n = old THEN s
        ELSE [s EXCEPT !.ns[old].inflight = @ - 1, !.ns[n].inflight = @ + 1,
                       !.req[h].ns = n]

PickAgain(s, h) == LET p == nameserver_pick(s) IN request_swap_ns(p.s, h, p.ns)

(* nameserver_failed: what was not sent yet goes to another one. *)
nameserver_failed(s, n) ==
    LET d == [s EXCEPT !.good = @ - 1, !.ns[n].state = FALSE, !.ns[n].timer = TRUE]
        moved[i \in 0..Len(s.inflight)] ==
            IF i = 0 THEN d
            ELSE LET h == s.inflight[i]
                     r == moved[i - 1].req[h]
                 IN  IF r.tx = 0 /\ r.ns = n THEN PickAgain(moved[i - 1], h) ELSE moved[i - 1]
    IN  IF ~s.ns[n].state THEN s
        ELSE IF d.good = 0 THEN d
        ELSE moved[Len(s.inflight)]

(* The event of the socket asks for EV_WRITE too, or not. *)
nameserver_write_waiting(s, n, waiting) == [s EXCEPT !.ns[n].write_waiting = waiting]

-----------------------------------------------------------------------------
(* Sending *)

(* Fault: a transmission is not counted. *)
Sent_Uncounted(s, h) == [s EXCEPT !.req[h].timer = TRUE, !.req[h].transmit_me = FALSE]

Sent(s, h) == [s EXCEPT !.req[h].timer = TRUE, !.req[h].tx = @ + 1,
                        !.req[h].transmit_me = FALSE]

(* Fault: a full socket is not waited for. *)
evdns_request_transmit_NoWait(s0, h, net) ==
    LET s == [s0 EXCEPT !.req[h].transmit_me = TRUE]
        n == s.req[h].ns
    IN  IF s.ns[n].choked THEN s
        ELSE CASE net[n] = "again"  -> [s EXCEPT !.ns[n].choked = TRUE]
               [] net[n] = "failed" -> Sent(nameserver_failed(s, n), h)
               [] net[n] = "sent"   -> [Sent(s, h) EXCEPT !.req[h].sent = @ \cup {n}]

evdns_request_transmit(s0, h, net) ==
    LET s == [s0 EXCEPT !.req[h].transmit_me = TRUE]
        n == s.req[h].ns
    IN  IF s.ns[n].choked THEN s
        ELSE CASE net[n] = "again"  ->
                    nameserver_write_waiting([s EXCEPT !.ns[n].choked = TRUE], n, TRUE)
               [] net[n] = "failed" -> Sent(nameserver_failed(s, n), h)
               [] net[n] = "sent"   -> [Sent(s, h) EXCEPT !.req[h].sent = @ \cup {n}]

evdns_transmit(s, net) ==
    LET to[i \in 0..Len(s.inflight)] ==
            IF i = 0 THEN s
            ELSE IF to[i - 1].req[s.inflight[i]].transmit_me
                 THEN evdns_request_transmit(to[i - 1], s.inflight[i], net)
                 ELSE to[i - 1]
    IN  to[Len(s.inflight)]

(* One turn of evdns_requests_pump_waiting_queue. *)
Promote(s, net) ==
    LET p == nameserver_pick(s)
        h == Head(s.waiting)
        m == [p.s EXCEPT !.req[h].ns = p.ns, !.ns[p.ns].inflight = @ + 1,
                         !.waiting = Tail(@), !.nwaiting = @ - 1,
                         !.inflight = Append(@, h), !.ninflight = @ + 1]
    IN  IF p.ns = Null THEN s ELSE evdns_transmit(evdns_request_transmit(m, h, net), net)

(* Fault: nothing is promoted. *)
evdns_requests_pump_waiting_queue_Never(s, net) == s

evdns_requests_pump_waiting_queue(s, net) ==
    LET turn[i \in 0..s.nwaiting] ==
            IF i = 0 THEN s
            ELSE IF turn[i - 1].ninflight < set.max THEN Promote(turn[i - 1], net)
            ELSE turn[i - 1]
    IN  turn[s.nwaiting]

-----------------------------------------------------------------------------
(* The life of a request *)

(* request_new's choice of a nameserver. *)
Assign(s) ==
    IF s.ninflight < set.max THEN nameserver_pick(s) ELSE [ns |-> Null, s |-> s]

request_submit(s, h, net) ==
    IF s.req[h].ns # Null
    THEN evdns_request_transmit(
             [s EXCEPT !.inflight = Append(@, h), !.ninflight = @ + 1,
                       !.ns[s.req[h].ns].inflight = @ + 1], h, net)
    ELSE [s EXCEPT !.waiting = Append(@, h), !.nwaiting = @ + 1]

Freed(h) == IF h \in Users THEN "done" ELSE "new"

(* request_finished: the request was in flight if it has a nameserver. *)
request_finished(s, h, free_handle, net) ==
    LET n == s.req[h].ns
        out == IF n = Null
               THEN [s EXCEPT !.waiting = RemoveFirst(@, h), !.nwaiting = @ - 1]
               ELSE [s EXCEPT !.inflight = RemoveFirst(@, h), !.ninflight = @ - 1,
                              !.ns[n].inflight = @ - 1]
    IN  evdns_requests_pump_waiting_queue(
            [out EXCEPT !.req[h] = NewRequest,
                        !.handle[h] = IF free_handle /\ @ = "live" THEN Freed(h) ELSE @],
            net)

reply_schedule_callback(s, h, err) ==
    [s EXCEPT !.handle[h] = "pending", !.deferred = Append(@, [handle |-> h, err |-> err])]

(* A handle with no request, or whose callback is scheduled, is left. *)
evdns_cancel_request(s, h, net) ==
    IF s.handle[h] # "live" THEN s
    ELSE request_finished(reply_schedule_callback(s, h, "cancel"), h, TRUE, net)

nameserver_up(s, n, net) ==
    LET off == [s EXCEPT !.ns[n].timer = FALSE]
        c == IF s.ns[n].probe THEN evdns_cancel_request(off, n, net) ELSE off
    IN  IF s.ns[n].state THEN s
        ELSE [c EXCEPT !.ns[n].probe = FALSE, !.ns[n].state = TRUE,
                       !.ns[n].timedout = 0, !.good = @ + 1]

(* The last retransmission has timed out, or there is another one to try. *)
evdns_request_timeout_callback(s, h, net) ==
    LET n == s.req[h].ns
        t == evdns_request_transmit(PickAgain([s EXCEPT !.req[h].timer = FALSE], h), h, net)
        m == t.req[h].ns
    IN  IF s.req[h].tx >= MaxRetransmits
        THEN nameserver_failed(
                 request_finished(reply_schedule_callback(s, h, "timeout"), h, TRUE, net), n)
        ELSE IF t.ns[m].timedout + 1 > MaxTimeouts
        THEN nameserver_failed([t EXCEPT !.ns[m].timedout = 0], m)
        ELSE [t EXCEPT !.ns[m].timedout = @ + 1]

(* request_reissue: nothing is sent before the next transmission of all. *)
Reissued(s, h) ==
    [s EXCEPT !.req[h].reissue = @ + 1, !.req[h].tx = 0, !.req[h].transmit_me = TRUE]

(* Fault: the request of the name before stays. *)
search_try_next_Keep(s, h, net) ==
    LET a == Assign(s)
    IN  request_submit([a.s EXCEPT !.req[h] = [NewRequest EXCEPT !.ns = a.ns],
                                   !.names[h] = @ - 1], h, net)

(* The next name of a search, after the request of the one before. *)
search_try_next(s, h, net) ==
    LET a == Assign(s)
        f == request_finished(a.s, h, FALSE, net)
    IN  request_submit([f EXCEPT !.req[h] = [NewRequest EXCEPT !.ns = a.ns],
                                 !.names[h] = @ - 1], h, net)

(* The failure is passed up, if the search has no further name. *)
PassUp(s, h, err, net) ==
    IF s.names[h] > 0 THEN search_try_next(s, h, net)
    ELSE request_finished(reply_schedule_callback(s, h, err), h, TRUE, net)

(* A nameserver that gave a good reply is up; it may be to its own probe. *)
Good(s, h, net) ==
    LET n == s.req[h].ns
    IN  nameserver_up(IF h = n THEN [s EXCEPT !.ns[n].probe = FALSE] ELSE s, n, net)

reply_handle(s, h, reply, net) ==
    LET n == s.req[h].ns
        f == nameserver_failed(s, n)
        p == PickAgain(f, h)
    IN  CASE reply = "none" ->
                request_finished(Good(reply_schedule_callback(s, h, "none"), h, net), h, TRUE, net)
          [] reply = "refused" /\ s.req[h].reissue < MaxReissues ->
                IF p.req[h].ns # n THEN Reissued(p, h) ELSE PassUp(p, h, reply, net)
          [] reply = "refused" /\ s.req[h].reissue >= MaxReissues -> PassUp(s, h, reply, net)
          [] reply = "serverfailed" -> evdns_request_timeout_callback(s, h, net)
          [] reply \in {"notexist", "other"} -> PassUp(Good(s, h, net), h, reply, net)

-----------------------------------------------------------------------------
(* The calls of the user, of the event loop and of the network *)

Step(s, net) ==
    /\ trouble' = trouble + (IF net = Fine THEN 0 ELSE 1)
    /\ trouble' <= set.trouble
    /\ dns' = s
    /\ UNCHANGED <<set, clears>>

(* search_request_new: a search or, with DNS_QUERY_NO_SEARCH, a single name. *)
SearchNames == {0, set.names}

(* evdns_base_resolve_ipv4, its IPv6 twin and the reverse lookups. *)
Resolve(h, names, net) ==
    LET a == Assign(dns)
    IN  /\ dns.alive /\ dns.handle[h] = "new"
        /\ Step(request_submit([a.s EXCEPT !.req[h] = [NewRequest EXCEPT !.ns = a.ns],
                                           !.names[h] = names,
                                           !.handle[h] = "live"], h, net), net)

Cancel(h, net) ==
    /\ dns.alive /\ dns.handle[h] = "live"
    /\ Step(evdns_cancel_request(dns, h, net), net)

Timeout(h, net) ==
    /\ dns.req[h].timer
    /\ Step(evdns_request_timeout_callback(dns, h, net), net)

(* nameserver_read of a datagram from n, which the request was sent to. *)
nameserver_read(n, h, reply, net) ==
    /\ n \in dns.req[h].sent
    /\ Step(reply_handle([dns EXCEPT !.ns[n].timedout = 0], h, reply, net), net)

(* nameserver_read of an error of the socket. *)
ReadError(n) ==
    /\ n \in ToSet(dns.servers)
    /\ Step(nameserver_failed(dns, n), [Fine EXCEPT ![n] = "failed"])

(* nameserver_ready_callback for EV_WRITE: the socket takes a datagram. *)
WriteReady(n, net) ==
    LET s == [dns EXCEPT !.ns[n].choked = FALSE]
    IN  /\ dns.ns[n].write_waiting /\ net[n] # "again"
        /\ Step(IF \E i \in DOMAIN s.inflight : s.req[s.inflight[i]].transmit_me
                THEN evdns_transmit(s, net)
                ELSE nameserver_write_waiting(s, n, FALSE), net)

(***************************************************************************)
(* nameserver_prod_callback, nameserver_send_probe.  A timer that was set  *)
(* while the callback of the probe before was scheduled does not expire    *)
(* before the loop has run that callback.                                  *)
(***************************************************************************)
nameserver_prod_callback(n, net) ==
    /\ dns.ns[n].timer /\ dns.handle[n] = "new"
    /\ Step(request_submit(
                [Assign(dns).s EXCEPT !.ns[n].timer = FALSE, !.ns[n].probe = TRUE,
                                      !.req[n] = [NewRequest EXCEPT !.ns = n],
                                      !.handle[n] = "live"], n, net), net)

(* Fault: a probe that was not answered is the last one. *)
nameserver_probe_callback_Once(s, n, err, net) ==
    IF err = "cancel" THEN s
    ELSE LET r == [s EXCEPT !.ns[n].probe = FALSE]
         IN  IF err \in {"none", "notexist"} THEN nameserver_up(r, n, net)
             ELSE [r EXCEPT !.ns[n].timer = FALSE]

(* With nameserver_probe_failed: the next probe, if it is still down. *)
nameserver_probe_callback(s, n, err, net) ==
    IF err = "cancel" THEN s
    ELSE LET r == [s EXCEPT !.ns[n].probe = FALSE]
         IN  IF err \in {"none", "notexist"} THEN nameserver_up(r, n, net)
             ELSE [r EXCEPT !.ns[n].timer = ~r.ns[n].state]

(* reply_run_callback: the callback, then the handle is freed. *)
reply_run_callback(net) ==
    LET cb == Head(dns.deferred)
        h  == cb.handle
        s  == [dns EXCEPT !.deferred = Tail(@)]
    IN  /\ dns.deferred # <<>>
        /\ Step([(IF h \in Nameserver THEN nameserver_probe_callback(s, h, cb.err, net)
                  ELSE s) EXCEPT !.handle[h] = Freed(h)], net)

(***************************************************************************)
(* The callback of a probe that was not cancelled goes to its nameserver,  *)
(* whose memory must be there: the user does not take nameservers away     *)
(* while a probe is under way.                                             *)
(***************************************************************************)
NoProbes == \A n \in Nameserver : dns.handle[n] = "new"

(* Every request waits again, the ones in flight first, the last of all first. *)
evdns_base_clear_nameservers_and_suspend ==
    /\ dns.alive /\ dns.servers # <<>> /\ NoProbes /\ clears < set.clears
    /\ dns' = [dns EXCEPT !.servers = <<>>, !.good = 0, !.suspended = TRUE,
                  !.ns = [n \in Nameserver |-> NewServer],
                  !.req = [h \in Handle |-> NewRequest],
                  !.waiting = Reverse(dns.inflight) \o @,
                  !.nwaiting = @ + Len(dns.inflight),
                  !.inflight = <<>>, !.ninflight = 0]
    /\ clears' = clears + 1
    /\ UNCHANGED <<set, trouble>>

evdns_base_resume(net) ==
    /\ dns.alive /\ dns.suspended
    /\ Step([evdns_requests_pump_waiting_queue(dns, net)
                EXCEPT !.suspended = dns.servers = <<>>], net)

(* evdns_nameserver_add_impl_: behind the head of the list. *)
Added(s, n) ==
    [s EXCEPT !.servers = IF @ = <<>> THEN <<n>> ELSE <<Head(@), n>> \o Tail(@),
              !.ns[n] = [NewServer EXCEPT !.state = TRUE],
              !.good = @ + 1]

Add(n) ==
    /\ dns.alive /\ n \in set.servers \ ToSet(dns.servers)
    /\ Step(Added(dns, n), Fine)

(* One turn of the two loops of evdns_base_free_and_unlock. *)
Drain(s, fail, net) ==
    IF s.inflight = <<>> /\ s.waiting = <<>> THEN s
    ELSE LET h == Head(s.inflight \o s.waiting)
         IN  request_finished(IF fail THEN reply_schedule_callback(s, h, "shutdown") ELSE s,
                              h, TRUE, net)

evdns_base_free(fail, net) ==
    LET turn[i \in 0..(dns.ninflight + dns.nwaiting)] ==
            IF i = 0 THEN dns ELSE Drain(turn[i - 1], fail, net)
    IN  /\ dns.alive /\ (NoProbes \/ (~fail /\ \A n \in Nameserver : dns.handle[n] # "pending"))
        /\ Step([turn[dns.ninflight + dns.nwaiting] EXCEPT
                    !.alive = FALSE, !.ninflight = 0, !.nwaiting = 0,
                    !.servers = <<>>, !.good = 0,
                    !.ns = [n \in Nameserver |-> NewServer]], net)

-----------------------------------------------------------------------------
Empty == [servers |-> <<>>, good |-> 0, ns |-> [n \in Nameserver |-> NewServer],
          inflight |-> <<>>, ninflight |-> 0, waiting |-> <<>>, nwaiting |-> 0,
          req |-> [h \in Handle |-> NewRequest], names |-> [h \in Handle |-> 0],
          handle |-> [h \in Handle |-> "new"], deferred |-> <<>>,
          suspended |-> FALSE, alive |-> TRUE]

Init ==
    /\ set \in Settings
    /\ dns = Added(Empty, CHOOSE n \in set.servers : TRUE)
    /\ trouble = 0 /\ clears = 0

Loop(net) ==
    \/ \E h \in Handle : Timeout(h, net)
    \/ \E n \in Nameserver, h \in Handle, reply \in Reply : nameserver_read(n, h, reply, net)
    \/ \E n \in Nameserver : WriteReady(n, net) \/ nameserver_prod_callback(n, net)
    \/ reply_run_callback(net)

User(net) ==
    \/ \E h \in set.users : Cancel(h, net) \/ \E k \in SearchNames : Resolve(h, k, net)
    \/ evdns_base_resume(net)
    \/ \E fail \in BOOLEAN : evdns_base_free(fail, net)

Next ==
    \/ \E net \in Net : Loop(net) \/ User(net)
    \/ \E n \in Nameserver : ReadError(n) \/ Add(n)
    \/ evdns_base_clear_nameservers_and_suspend

Spec == Init /\ [][Next]_vars

(***************************************************************************)
(* The event loop runs: timers expire, a socket that is full does not stay *)
(* so, and deferred callbacks are run.  A guard is what its steps wait     *)
(* for, so each conjunct is weak fairness of the steps it names.           *)
(***************************************************************************)
Fairness ==
    /\ []<>(~dns.req[Watched].timer) \/ []<><<\E net \in Net : Timeout(Watched, net)>>_vars
    /\ \/ []<>(\A h \in Users \ {Watched} : ~dns.req[h].timer)
       \/ []<><<\E h \in Users \ {Watched}, net \in Net : Timeout(h, net)>>_vars
    /\ \/ []<>(\A n \in Nameserver : ~dns.req[n].timer)
       \/ []<><<\E n \in Nameserver, net \in Net : Timeout(n, net)>>_vars
    /\ \/ []<>(\A n \in Nameserver : ~dns.ns[n].write_waiting)
       \/ []<><<\E n \in Nameserver, net \in Net : WriteReady(n, net)>>_vars
    /\ []<>(dns.deferred = <<>>) \/ []<><<\E net \in Net : reply_run_callback(net)>>_vars

FairSpec == Spec /\ Fairness

-----------------------------------------------------------------------------
(* Properties *)

Inflight == ToSet(dns.inflight)

(***************************************************************************)
(* The counters the code steers by are exact: requests in flight and       *)
(* waiting, in flight at each nameserver, nameservers that are up.  They   *)
(* decide whether a request goes out, and whether a nameserver is looked   *)
(* for among the ones that are up.                                         *)
(***************************************************************************)
CountersExact ==
    /\ dns.ninflight = Len(dns.inflight) /\ dns.nwaiting = Len(dns.waiting)
    /\ dns.good = Cardinality({n \in ToSet(dns.servers) : dns.ns[n].state})
    /\ \A n \in Nameserver :
         dns.ns[n].inflight = Cardinality({h \in Inflight : dns.req[h].ns = n})

(***************************************************************************)
(* A request in flight always has something that will move it: its timer,  *)
(* or it is marked to be sent and an event that waits for a socket to take *)
(* data will send what is marked.                                          *)
(***************************************************************************)
NothingStuck ==
    \A h \in Inflight :
        \/ dns.req[h].timer
        \/ /\ dns.req[h].transmit_me
           /\ \E n \in ToSet(dns.servers) : dns.ns[n].write_waiting

(* While requests wait and nameservers are there, something in flight ends. *)
WaitingIsServed ==
    dns.waiting # <<>> /\ ~dns.suspended => dns.inflight # <<>>

(***************************************************************************)
(* A nameserver that is down will be tried again: its timer is set, its    *)
(* probe is in flight or the outcome of the probe is on its way; and the   *)
(* nameserver never holds the handle of a probe that is gone.              *)
(***************************************************************************)
DownIsProbed ==
    \A n \in ToSet(dns.servers) :
        /\ ~dns.ns[n].state => dns.ns[n].timer \/ dns.handle[n] # "new"
        /\ dns.ns[n].probe => dns.handle[n] # "new"

(***************************************************************************)
(* A handle is used for one request at a time: it is live exactly while    *)
(* its request is in one of the queues, once, and its callback is          *)
(* scheduled once.                                                         *)
(***************************************************************************)
HandlesExact ==
    LET queued == dns.inflight \o dns.waiting
    IN  /\ IsInjective(queued)
        /\ \A h \in Handle : dns.handle[h] = "live" <=> h \in ToSet(queued)
        /\ \A h \in Handle :
             Cardinality({i \in DOMAIN dns.deferred : dns.deferred[i].handle = h})
                = (IF dns.handle[h] = "pending" THEN 1 ELSE 0)

(* Queues, counters and handles agree. *)
QueuesExact == CountersExact /\ HandlesExact

(***************************************************************************)
(* Whatever nameservers do, the user's callback is called: retransmissions *)
(* and reissues end, a search ends, a place in flight comes free.  Not     *)
(* when the nameservers were taken away and evdns_base_resume has not been *)
(* called with new ones, or the base was freed.                            *)
(***************************************************************************)
Answered ==
    dns.handle[Watched] = "live" ~>
        (dns.handle[Watched] = "done" \/ dns.suspended \/ ~dns.alive)

=============================================================================
