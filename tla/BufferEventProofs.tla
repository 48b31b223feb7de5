------------------------- MODULE BufferEventProofs -------------------------
(***************************************************************************)
(* Proofs about BufferEvent, for any number of bufferevents, any use their *)
(* users make of them and any rates and lengths.                           *)
(***************************************************************************)
EXTENDS BufferEvent, FiniteSetTheorems, TLAPS

-----------------------------------------------------------------------------
(* Assignments to the fields of a bufferevent *)

Fields == {"enabled", "suspended", "ev", "timer", "timeout", "dropped", "len", "low",
           "high", "fd", "connecting", "refused", "dns", "callbacks", "pending",
           "sched", "run", "then", "amount", "seen", "refcnt", "held", "life", "cfg",
           "limit", "refill", "member"}

(* r is a bufferevent like s but for the fields F. *)
Only(s, r, F) == DOMAIN r = Fields /\ \A f \in Fields \ F : r[f] = s[f]

(* What two calls in a row leave alone. *)
LEMMA OnlyTrans ==
  ASSUME NEW s, NEW r, NEW t, NEW F, NEW G, NEW H, Only(s, r, F), Only(r, t, G),
         F \subseteq H, G \subseteq H
  PROVE  Only(s, t, H)
  BY DEF Only

(* A call that does nothing. *)
LEMMA OnlyRefl ==
  ASSUME NEW s, DOMAIN s = Fields, NEW F
  PROVE  Only(s, s, F)
  BY DEF Only

-----------------------------------------------------------------------------
(* The events of a bufferevent *)

(* What event_add does. *)
LEMMA EventAdd ==
  ASSUME NEW s, DOMAIN s = Fields, NEW d \in Dir
  PROVE  LET r == event_add(s, d)
         IN  /\ Only(s, r, {"ev", "timer", "dropped"})
             /\ s.life = "live" =>
                  /\ r.ev = s.ev \cup {d} /\ r.dropped = s.dropped \ {d}
                  /\ r.timer = s.timer \cup ({d} \cap s.timeout)
  BY DEF event_add, Only, Fields

(* What event_del does. *)
LEMMA EventDel ==
  ASSUME NEW s, DOMAIN s = Fields, NEW D
  PROVE  LET r == event_del(s, D)
         IN  /\ Only(s, r, {"ev", "timer"})
             /\ s.life = "live" => r.ev = s.ev \ D /\ r.timer = s.timer \ D
  BY DEF event_del, Only, Fields

(* What be_socket_enable does. *)
LEMMA SocketEnable ==
  ASSUME NEW s, DOMAIN s = Fields, NEW D \in SUBSET Dir
  PROVE  LET r == be_socket_enable(s, D)
         IN  /\ Only(s, r, {"ev", "timer", "dropped"})
             /\ s.life = "live" =>
                  /\ r.ev = s.ev \cup D /\ r.dropped = s.dropped \ D
                  /\ r.timer = s.timer \cup (D \cap s.timeout)
  <1> DEFINE F == {"ev", "timer", "dropped"}
             q == IF READ \in D THEN event_add(s, READ) ELSE s
             r == IF WRITE \in D THEN event_add(q, WRITE) ELSE q
  <1>0. READ \in Dir /\ WRITE \in Dir /\ D = D \cap {READ, WRITE} /\ READ # WRITE
    BY DEF Dir, READ, WRITE
  <1>1. /\ Only(s, q, F)
        /\ s.life = "live" =>
              /\ q.ev = s.ev \cup (D \cap {READ}) /\ q.dropped = s.dropped \ (D \cap {READ})
              /\ q.timer = s.timer \cup (D \cap {READ} \cap s.timeout)
    BY <1>0, EventAdd, OnlyRefl
  <1>2. DOMAIN q = Fields /\ q.life = s.life /\ q.timeout = s.timeout
    BY <1>1 DEF Only, Fields
  <1> HIDE DEF q
  <1>3. /\ Only(q, r, F)
        /\ s.life = "live" =>
              /\ r.ev = q.ev \cup (D \cap {WRITE}) /\ r.dropped = q.dropped \ (D \cap {WRITE})
              /\ r.timer = q.timer \cup (D \cap {WRITE} \cap s.timeout)
    BY <1>0, <1>2, EventAdd, OnlyRefl
  <1>4. be_socket_enable(s, D) = r
    BY DEF be_socket_enable, q
  <1> HIDE DEF r
  <1>5. Only(s, r, F)
    BY <1>1, <1>3, OnlyTrans
  <1> QED
    BY <1>0, <1>1, <1>3, <1>4, <1>5

(* The events be_socket_disable removes. *)
Removed(s, D) == IF s.connecting THEN D \ {WRITE} ELSE D

(* What be_socket_disable does. *)
LEMMA SocketDisable ==
  ASSUME NEW s, DOMAIN s = Fields, NEW D
  PROVE  LET r == be_socket_disable(s, D)
         IN  /\ Only(s, r, {"ev", "timer"})
             /\ s.life = "live" =>
                  r.ev = s.ev \ Removed(s, D) /\ r.timer = s.timer \ Removed(s, D)
  BY EventDel DEF be_socket_disable, Removed

-----------------------------------------------------------------------------
(* The switches of a bufferevent and its events *)

Shape(s) ==
    /\ DOMAIN s = Fields
    /\ s.suspended \in [Dir -> SUBSET Suspend]
    /\ s.enabled \subseteq Dir
    /\ s.len \in [Dir -> Nat]
    /\ s.limit \in [Dir -> Int]
    /\ s.high \in Nat

(* The directions that are enabled and not suspended. *)
On(s) == {d \in s.enabled : s.suspended[d] = {}}

(* The handler will look at the write event again. *)
Rechecks(s) ==
    s.then # <<>> /\ Head(s.then) = "recheck" /\ s.run \in {None, "CONNECTED"}

(* EventsFollow for one bufferevent, with the steps its handler has left. *)
EventsOK(s) ==
    s.life = "live" =>
        /\ READ \in s.ev => READ \in On(s)
        /\ WRITE \in s.ev => WRITE \in On(s) \/ s.connecting \/ Rechecks(s)
        /\ READ \in On(s) => READ \in s.ev \cup s.dropped
        /\ WRITE \in On(s) /\ s.len[WRITE] > 0 => WRITE \in s.ev \cup s.dropped
        /\ s.timer = s.ev \cap s.timeout

(* s.suspended with or without a reason to suspend d. *)
With(s, d, what) == [s.suspended EXCEPT ![d] = @ \cup {what}]
Without(s, d, what) == [s.suspended EXCEPT ![d] = @ \ {what}]

(* A suspension takes the event of its direction away. *)
LEMMA Suspending ==
  ASSUME NEW s, Shape(s), NEW d \in Dir, NEW what \in Suspend
  PROVE  LET r == bufferevent_suspend_(s, d, what)
         IN  /\ Only(s, r, {"suspended", "ev", "timer"})
             /\ r.suspended = With(s, d, what)
             /\ Shape(r)
             /\ EventsOK(s) => EventsOK(r)
  <1> DEFINE q == IF s.suspended[d] = {} THEN be_socket_disable(s, {d}) ELSE s
             r == [q EXCEPT !.suspended[d] = @ \cup {what}]
  <1>1. bufferevent_suspend_(s, d, what) = r
    BY DEF bufferevent_suspend_
  <1>2. /\ Only(s, q, {"ev", "timer"})
        /\ s.life = "live" /\ s.suspended[d] = {} =>
             q.ev = s.ev \ Removed(s, {d}) /\ q.timer = s.timer \ Removed(s, {d})
        /\ s.suspended[d] # {} => q = s
    BY SocketDisable, OnlyRefl DEF Shape
  <1> HIDE DEF q
  <1>3. DOMAIN q = Fields /\ q.suspended = s.suspended
    BY <1>2 DEF Only, Fields
  <1>4. /\ Only(q, r, {"suspended"})
        /\ r.suspended = With(s, d, what)
    BY <1>3 DEF Only, Fields, With
  <1> HIDE DEF r
  <1>5. Only(s, r, {"suspended", "ev", "timer"}) /\ r.ev = q.ev /\ r.timer = q.timer
    BY <1>2, <1>4, OnlyTrans DEF Only, Fields
  <1>6. r.suspended \in [Dir -> SUBSET Suspend]
    BY <1>4 DEF With, Shape
  <1>7. Shape(r)
    BY <1>5, <1>6 DEF Shape, Only, Fields
  <1>8. ASSUME EventsOK(s), s.life = "live"
        PROVE  EventsOK(r)
    <2>1. /\ r.enabled = s.enabled /\ r.connecting = s.connecting /\ r.then = s.then
          /\ r.run = s.run /\ r.dropped = s.dropped /\ r.len = s.len
          /\ r.timeout = s.timeout
      BY <1>5 DEF Only, Fields
    <2>2. On(r) = On(s) \ {d}
      BY <1>4, <2>1 DEF On, With, Shape
    <2>3. Rechecks(r) <=> Rechecks(s)
      BY <2>1 DEF Rechecks
    <2>4. s.suspended[d] # {} => d \notin On(s)
      BY DEF On
    <2>5. CASE s.suspended[d] # {}
      BY <1>2, <1>5, <1>8, <2>1, <2>2, <2>3, <2>4, <2>5 DEF EventsOK
    <2>6. CASE s.suspended[d] = {}
      BY <1>2, <1>5, <1>8, <2>1, <2>2, <2>3, <2>6 DEF EventsOK, Removed, Dir, READ, WRITE
    <2> QED
      BY <2>5, <2>6
  <1>9. r.life = s.life
    BY <1>5 DEF Only, Fields
  <1> QED
    BY <1>1, <1>4, <1>5, <1>7, <1>8, <1>9 DEF EventsOK

(* The end of the last suspension brings the event back. *)
LEMMA Unsuspending ==
  ASSUME NEW s, Shape(s), NEW d \in Dir, NEW what
  PROVE  LET r == bufferevent_unsuspend_(s, d, what)
         IN  /\ Only(s, r, {"suspended", "ev", "timer", "dropped"})
             /\ r.suspended = Without(s, d, what)
             /\ Shape(r)
             /\ EventsOK(s) => EventsOK(r)
  <1> DEFINE q == [s EXCEPT !.suspended[d] = @ \ {what}]
             r == IF q.suspended[d] = {} /\ d \in q.enabled
                  THEN be_socket_enable(q, {d}) ELSE q
  <1>1. bufferevent_unsuspend_(s, d, what) = r
    BY DEF bufferevent_unsuspend_
  <1>2. /\ Only(s, q, {"suspended"})
        /\ q.suspended = Without(s, d, what)
    BY DEF Only, Fields, Without, Shape
  <1> HIDE DEF q
  <1>3. /\ DOMAIN q = Fields /\ q.life = s.life /\ q.enabled = s.enabled
        /\ q.timeout = s.timeout /\ q.ev = s.ev /\ q.timer = s.timer
        /\ q.dropped = s.dropped
    BY <1>2 DEF Only, Fields
  <1>4. /\ Only(q, r, {"ev", "timer", "dropped"})
        /\ q.suspended[d] = {} /\ d \in q.enabled /\ q.life = "live" =>
             /\ r.ev = q.ev \cup {d} /\ r.dropped = q.dropped \ {d}
             /\ r.timer = q.timer \cup ({d} \cap q.timeout)
        /\ ~ (q.suspended[d] = {} /\ d \in q.enabled) => r = q
    BY <1>3, SocketEnable, OnlyRefl
  <1> HIDE DEF r
  <1>5. Only(s, r, {"suspended", "ev", "timer", "dropped"})
    BY <1>2, <1>4, OnlyTrans
  <1>6. /\ r.suspended = Without(s, d, what) /\ r.suspended \in [Dir -> SUBSET Suspend]
        /\ r.suspended = q.suspended
    BY <1>2, <1>4 DEF Without, Shape, Only, Fields
  <1>7. Shape(r)
    BY <1>5, <1>6 DEF Shape, Only, Fields
  <1>8. ASSUME EventsOK(s), s.life = "live"
        PROVE  EventsOK(r)
    <2>1. /\ r.enabled = s.enabled /\ r.connecting = s.connecting /\ r.then = s.then
          /\ r.run = s.run /\ r.len = s.len /\ r.timeout = s.timeout
      BY <1>5 DEF Only, Fields
    <2>2. On(s) \subseteq On(r) /\ On(r) \subseteq On(s) \cup {d}
          /\ (d \in On(r) <=> q.suspended[d] = {} /\ d \in q.enabled)
      BY <1>3, <1>6, <2>1 DEF On, Without, Shape
    <2>3. Rechecks(r) <=> Rechecks(s)
      BY <2>1 DEF Rechecks
    <2>4. CASE d \in On(r)
      BY <1>3, <1>4, <1>8, <2>1, <2>2, <2>3, <2>4 DEF EventsOK, Dir, READ, WRITE
    <2>5. CASE d \notin On(r)
      <3>1. On(r) = On(s)
        BY <2>2, <2>5
      <3> QED
        BY <1>3, <1>4, <1>8, <2>1, <2>2, <2>3, <2>5, <3>1 DEF EventsOK
    <2> QED
      BY <2>4, <2>5
  <1>9. r.life = s.life
    BY <1>5 DEF Only, Fields
  <1> QED
    BY <1>1, <1>5, <1>6, <1>7, <1>8, <1>9 DEF EventsOK

(* What is enabled is listened for unless it is suspended. *)
LEMMA Enabling ==
  ASSUME NEW s, Shape(s), NEW D \in SUBSET Dir
  PROVE  LET r == bufferevent_enable(s, D)
         IN  /\ Only(s, r, {"enabled", "ev", "timer", "dropped"})
             /\ Shape(r)
             /\ EventsOK(s) => EventsOK(r)
             /\ s.life = "live" =>
                  LET E == {d \in D : s.suspended[d] = {}}
                  IN  /\ r.enabled = s.enabled \cup D /\ r.ev = s.ev \cup E
                      /\ r.timer = s.timer \cup (E \cap s.timeout)
  <1> DEFINE q == [s EXCEPT !.enabled = @ \cup D]
             E == {d \in D : s.suspended[d] = {}}
             r == be_socket_enable(q, E)
  <1>1. bufferevent_enable(s, D) = r
    BY DEF bufferevent_enable
  <1>2. Only(s, q, {"enabled"}) /\ q.enabled = s.enabled \cup D
    BY DEF Only, Fields, Shape
  <1>3. /\ DOMAIN q = Fields /\ q.life = s.life /\ q.suspended = s.suspended
        /\ q.timeout = s.timeout /\ q.ev = s.ev /\ q.timer = s.timer
        /\ q.dropped = s.dropped
    BY <1>2 DEF Only, Fields
  <1>4. E \in SUBSET Dir
    OBVIOUS
  <1> HIDE DEF q, E
  <1>5. /\ Only(q, r, {"ev", "timer", "dropped"})
        /\ q.life = "live" =>
             /\ r.ev = q.ev \cup E /\ r.dropped = q.dropped \ E
             /\ r.timer = q.timer \cup (E \cap q.timeout)
    BY <1>3, <1>4, SocketEnable
  <1> HIDE DEF r
  <1>6. Only(s, r, {"enabled", "ev", "timer", "dropped"})
    BY <1>2, <1>5, OnlyTrans
  <1>7. /\ r.enabled = s.enabled \cup D /\ r.suspended = s.suspended
        /\ r.connecting = s.connecting /\ r.then = s.then /\ r.life = s.life
        /\ r.run = s.run /\ r.len = s.len /\ r.timeout = s.timeout
    BY <1>2, <1>5, <1>6 DEF Only, Fields
  <1>8. Shape(r)
    BY <1>6, <1>7 DEF Shape, Only, Fields
  <1>9. ASSUME EventsOK(s), s.life = "live"
        PROVE  EventsOK(r)
    <2>1. On(r) = On(s) \cup E
      BY <1>7 DEF On, E
    <2>2. Rechecks(r) <=> Rechecks(s)
      BY <1>7 DEF Rechecks
    <2> QED
      BY <1>3, <1>5, <1>7, <1>9, <2>1, <2>2 DEF EventsOK
  <1> QED
    BY <1>1, <1>3, <1>5, <1>6, <1>7, <1>8, <1>9 DEF EventsOK, E

(* What is disabled is not listened for, except for the end of a connect. *)
LEMMA Disabling ==
  ASSUME NEW s, Shape(s), NEW D \in SUBSET Dir
  PROVE  LET r == bufferevent_disable(s, D)
         IN  /\ Only(s, r, {"enabled", "ev", "timer"})
             /\ Shape(r)
             /\ EventsOK(s) => EventsOK(r)
  <1> DEFINE q == [s EXCEPT !.enabled = @ \ D]
             r == be_socket_disable(q, D)
  <1>1. bufferevent_disable(s, D) = r
    BY DEF bufferevent_disable
  <1>2. Only(s, q, {"enabled"}) /\ q.enabled = s.enabled \ D
    BY DEF Only, Fields, Shape
  <1>3. /\ DOMAIN q = Fields /\ q.life = s.life /\ q.connecting = s.connecting
        /\ q.ev = s.ev /\ q.timer = s.timer
    BY <1>2 DEF Only, Fields
  <1> HIDE DEF q
  <1>4. /\ Only(q, r, {"ev", "timer"})
        /\ q.life = "live" =>
             r.ev = q.ev \ Removed(q, D) /\ r.timer = q.timer \ Removed(q, D)
    BY <1>3, SocketDisable
  <1> HIDE DEF r
  <1>5. Only(s, r, {"enabled", "ev", "timer"})
    BY <1>2, <1>4, OnlyTrans
  <1>6. /\ r.enabled = s.enabled \ D /\ r.suspended = s.suspended
        /\ r.connecting = s.connecting /\ r.then = s.then /\ r.life = s.life
        /\ r.run = s.run /\ r.len = s.len /\ r.timeout = s.timeout
        /\ r.dropped = s.dropped
    BY <1>2, <1>4, <1>5 DEF Only, Fields
  <1>7. Shape(r)
    BY <1>5, <1>6 DEF Shape, Only, Fields
  <1>8. ASSUME EventsOK(s), s.life = "live"
        PROVE  EventsOK(r)
    <2>1. On(r) = On(s) \ D
      BY <1>6 DEF On
    <2>2. Rechecks(r) <=> Rechecks(s)
      BY <1>6 DEF Rechecks
    <2> QED
      BY <1>3, <1>4, <1>6, <1>8, <2>1, <2>2 DEF EventsOK, Removed, READ, WRITE
  <1> QED
    BY <1>1, <1>5, <1>6, <1>7, <1>8 DEF EventsOK

-----------------------------------------------------------------------------
(* The invariant of one bufferevent in a group g *)

(* WatermarkExact for one bufferevent. *)
WaterOK(s) ==
    s.life = "live" =>
        ("WM" \in s.suspended[READ] <=> s.high # 0 /\ s.len[READ] >= s.high)

(* An own bucket that is empty suspends, and a suspension ends by its timer. *)
BucketOK(s) ==
    s.life = "live" =>
        \A d \in Dir : /\ "BW" \in s.suspended[d] => s.refill
                       /\ s.cfg /\ s.limit[d] <= 0 => "BW" \in s.suspended[d]

(* Who will end a suspension by the group. *)
Wakes(g, d) == g.suspended[d] \/ g.pending_unsuspend[d]

(* What a member saw of its group as it joined counts as a suspension. *)
GroupedOK(s, g) ==
    s.life = "live" =>
        \A d \in Dir : "BW_GROUP" \in s.suspended[d] \/ d \in s.seen =>
                            s.member /\ Wakes(g, d)

(* Steps that may be behind the next one. *)
Later == {"CONNECTED", READ, WRITE, "EVENT", "done"}

Work == {"read", "write", "write_connected", "recheck", "joined", "wm_check"} \cup Later

(* The steps a handler has left end with "done"; what it has in hand. *)
WorkOK(s) ==
    /\ s.then \in Seq(Work)
    /\ s.then = <<>> => s.run = None
    /\ s.then # <<>> => s.then[Len(s.then)] = "done"
    /\ \A i \in 2 .. Len(s.then) : s.then[i] \in Later
    /\ s.seen # {} => s.then # <<>> /\ s.then[1] = "joined" /\ s.run = None
    /\ s.then # <<>> /\ s.then[1] \in {"read", "write"} => s.amount > 0

One(p) == IF p THEN 1 ELSE 0

(* The references, and no callbacks after bufferevent_free. *)
RefOK(s) ==
    /\ s.refcnt = One(s.held) + One(s.then # <<>>) + One(s.sched) + One(s.dns # "none")
    /\ s.life = "live" <=> s.refcnt > 0
    /\ ~s.held => ~s.callbacks
    /\ s.dns \in {"none", "pending", "cancelled"}

(* All of it but the watermark. *)
Rest(s, g) ==
    Shape(s) /\ EventsOK(s) /\ BucketOK(s) /\ GroupedOK(s, g) /\ WorkOK(s) /\ RefOK(s)

BevOK(s, g) == Rest(s, g) /\ WaterOK(s)

GroupOK(g) ==
    /\ g \in [limit : [Dir -> Int], suspended : [Dir -> BOOLEAN],
              pending_unsuspend : [Dir -> BOOLEAN]]
    /\ \A d \in Dir : g.limit[d] <= 0 => g.suspended[d] /\ ~g.pending_unsuspend[d]

(* After bufferevent_free a step of s begins no callback. *)
Quiet(s, r) == ~s.held => r.run \in {None, s.run}

IInv ==
    /\ DOMAIN bev = Bev
    /\ GroupOK(group)
    /\ \A b \in Bev : BevOK(bev[b], group)

-----------------------------------------------------------------------------
(* Steps that leave the handler, the references and the callbacks alone *)

Switches == {"enabled", "suspended", "ev", "timer", "dropped"}
Control == {"then", "run", "seen", "amount", "refcnt", "held", "sched", "dns", "life",
            "callbacks"}

Listening == {"enabled", "ev", "timer", "dropped", "timeout", "low", "connecting", "fd"}

(* What the handlers' steps are made of is left alone. *)
LEMMA ControlKept ==
  ASSUME NEW s, NEW r, NEW F, Only(s, r, F), F \cap Control = {}
  PROVE  /\ WorkOK(s) => WorkOK(r)
         /\ RefOK(s) => RefOK(r)
         /\ r.life = s.life /\ r.then = s.then /\ r.run = s.run /\ r.held = s.held
         /\ r.seen = s.seen /\ r.dns = s.dns
  <1>1. \A f \in Control : r[f] = s[f]
    BY DEF Only, Control, Fields
  <1>2. /\ r.then = s.then /\ r.run = s.run /\ r.seen = s.seen /\ r.amount = s.amount
        /\ r.refcnt = s.refcnt /\ r.held = s.held /\ r.sched = s.sched
        /\ r.dns = s.dns /\ r.life = s.life /\ r.callbacks = s.callbacks
    BY <1>1 DEF Control
  <1>3. WorkOK(s) => WorkOK(r)
    BY <1>2 DEF WorkOK
  <1>4. RefOK(s) => RefOK(r)
    BY <1>2 DEF RefOK
  <1> QED
    BY <1>2, <1>3, <1>4

(* Enabling, disabling and what else leaves the suspensions alone. *)
LEMMA EventsOnly ==
  ASSUME NEW s, NEW r, NEW g, BevOK(s, g), Shape(r), EventsOK(r),
         Only(s, r, Listening)
  PROVE  BevOK(r, g)
  <1>1. WorkOK(r) /\ RefOK(r) /\ r.life = s.life /\ r.seen = s.seen
    BY ControlKept DEF Control, Listening, BevOK, Rest
  <1>2. /\ r.suspended = s.suspended /\ r.high = s.high /\ r.len = s.len
        /\ r.refill = s.refill /\ r.cfg = s.cfg /\ r.limit = s.limit
        /\ r.member = s.member
    BY DEF Only, Fields, Listening
  <1> QED
    BY <1>1, <1>2 DEF BevOK, Rest, WaterOK, BucketOK, GroupedOK

(* A suspension that somebody will end. *)
LEMMA SuspendKeeps ==
  ASSUME NEW s, NEW g, Rest(s, g), NEW d \in Dir,
         NEW what \in {"WM", "BW_GROUP", "LOOKUP"},
         what = "BW_GROUP" /\ s.life = "live" => s.member /\ Wakes(g, d)
  PROVE  LET r == bufferevent_suspend_(s, d, what)
         IN  /\ Only(s, r, Switches) /\ Rest(r, g)
             /\ r.suspended = With(s, d, what)
             /\ what # "WM" /\ WaterOK(s) => WaterOK(r)
  <1> DEFINE r == bufferevent_suspend_(s, d, what)
  <1>1. /\ Only(s, r, {"suspended", "ev", "timer"}) /\ r.suspended = With(s, d, what)
        /\ Shape(r) /\ EventsOK(r)
    BY Suspending DEF Rest, Suspend
  <1> HIDE DEF r
  <1>2. WorkOK(r) /\ RefOK(r) /\ r.life = s.life /\ r.seen = s.seen
    BY <1>1, ControlKept DEF Control, Rest
  <1>3. /\ r.high = s.high /\ r.len = s.len /\ r.refill = s.refill
        /\ r.cfg = s.cfg /\ r.limit = s.limit /\ r.member = s.member
    BY <1>1 DEF Only, Fields
  <1>4. s.suspended \in [Dir -> SUBSET Suspend] /\ READ \in Dir
    BY DEF Rest, Shape, Dir
  <1>5. \A c \in Dir : \A w : w # what => (w \in r.suspended[c] <=> w \in s.suspended[c])
    BY <1>1, <1>4 DEF With
  <1>6. \A c \in Dir : c # d => r.suspended[c] = s.suspended[c]
    BY <1>1, <1>4 DEF With
  <1>7. Only(s, r, Switches)
    BY <1>1 DEF Only, Switches
  <1>8. BucketOK(r)
    BY <1>2, <1>3, <1>5 DEF BucketOK, Rest
  <1>9. GroupedOK(r, g)
    BY <1>2, <1>3, <1>5, <1>6 DEF GroupedOK, Rest
  <1>10. what # "WM" /\ WaterOK(s) => WaterOK(r)
    BY <1>2, <1>3, <1>4, <1>5 DEF WaterOK
  <1> QED
    BY <1>1, <1>2, <1>7, <1>8, <1>9, <1>10 DEF Rest, r

(* The end of a suspension, whose reason is gone. *)
LEMMA UnsuspendKeeps ==
  ASSUME NEW s, NEW g, Rest(s, g), NEW d \in Dir, NEW what \in Suspend,
         what = "BW" => ~(s.cfg /\ s.limit[d] <= 0)
  PROVE  LET r == bufferevent_unsuspend_(s, d, what)
         IN  /\ Only(s, r, Switches) /\ Rest(r, g)
             /\ r.suspended = Without(s, d, what)
             /\ what # "WM" /\ WaterOK(s) => WaterOK(r)
  <1> DEFINE r == bufferevent_unsuspend_(s, d, what)
  <1>1. /\ Only(s, r, {"suspended", "ev", "timer", "dropped"})
        /\ r.suspended = Without(s, d, what)
        /\ Shape(r) /\ EventsOK(r)
    BY Unsuspending DEF Rest
  <1> HIDE DEF r
  <1>2. WorkOK(r) /\ RefOK(r) /\ r.life = s.life /\ r.seen = s.seen
    BY <1>1, ControlKept DEF Control, Rest
  <1>3. /\ r.high = s.high /\ r.len = s.len /\ r.refill = s.refill
        /\ r.cfg = s.cfg /\ r.limit = s.limit /\ r.member = s.member
    BY <1>1 DEF Only, Fields
  <1>4. s.suspended \in [Dir -> SUBSET Suspend] /\ READ \in Dir
    BY DEF Rest, Shape, Dir
  <1>5. \A c \in Dir : \A w : w # what => (w \in r.suspended[c] <=> w \in s.suspended[c])
    BY <1>1, <1>4 DEF Without
  <1>6. \A c \in Dir : r.suspended[c] \subseteq s.suspended[c]
                        /\ (c # d => r.suspended[c] = s.suspended[c])
    BY <1>1, <1>4 DEF Without
  <1>7. Only(s, r, Switches)
    BY <1>1 DEF Only, Switches
  <1>8. BucketOK(r)
    BY <1>2, <1>3, <1>5, <1>6 DEF BucketOK, Rest
  <1>9. GroupedOK(r, g)
    BY <1>2, <1>3, <1>6 DEF GroupedOK, Rest
  <1>10. what # "WM" /\ WaterOK(s) => WaterOK(r)
    BY <1>2, <1>3, <1>4, <1>5 DEF WaterOK
  <1> QED
    BY <1>1, <1>2, <1>7, <1>8, <1>9, <1>10 DEF Rest, r

(* A change of the input leaves the suspension as the mark asks for. *)
LEMMA WatermarkKeeps ==
  ASSUME NEW s, NEW g, Rest(s, g), s.high = 0 => WaterOK(s)
  PROVE  LET r == bufferevent_inbuf_wm_cb(s)
         IN  Only(s, r, Switches) /\ BevOK(r, g)
  <1> DEFINE r == bufferevent_inbuf_wm_cb(s)
  <1>0. /\ s.high \in Nat /\ s.len \in [Dir -> Nat] /\ READ \in Dir
        /\ s.suspended \in [Dir -> SUBSET Suspend] /\ DOMAIN s = Fields
    BY DEF Rest, Shape, Dir
  <1>1. CASE s.high = 0
    <2>1. r = s
      BY <1>1 DEF bufferevent_inbuf_wm_cb
    <2> QED
      BY <1>0, <1>1, <2>1, OnlyRefl DEF BevOK
  <1>2. CASE s.high # 0 /\ s.len[READ] >= s.high
    <2>1. r = bufferevent_suspend_(s, READ, "WM")
      BY <1>2 DEF bufferevent_inbuf_wm_cb
    <2>2. Only(s, r, Switches) /\ Rest(r, g) /\ r.suspended = With(s, READ, "WM")
      <3> HIDE DEF r
      <3> QED
        BY <1>0, <2>1, SuspendKeeps
    <2> HIDE DEF r
    <2>3. r.high = s.high /\ r.len = s.len /\ "WM" \in r.suspended[READ]
      BY <1>0, <2>2 DEF Only, Fields, Switches, With
    <2> QED
      BY <1>2, <2>2, <2>3 DEF BevOK, WaterOK, r
  <1>3. CASE s.high # 0 /\ ~(s.len[READ] >= s.high)
    <2>1. r = bufferevent_unsuspend_(s, READ, "WM")
      BY <1>3 DEF bufferevent_inbuf_wm_cb
    <2>2. Only(s, r, Switches) /\ Rest(r, g) /\ r.suspended = Without(s, READ, "WM")
      <3> HIDE DEF r
      <3> QED
        BY <1>0, <2>1, UnsuspendKeeps DEF Suspend
    <2> HIDE DEF r
    <2>3. r.high = s.high /\ r.len = s.len /\ "WM" \notin r.suspended[READ]
      BY <1>0, <2>2 DEF Only, Fields, Switches, Without
    <2> QED
      BY <1>3, <2>2, <2>3 DEF BevOK, WaterOK, r
  <1> QED
    BY <1>1, <1>2, <1>3

(* Enabling keeps a bufferevent in order. *)
LEMMA EnableKeeps ==
  ASSUME NEW s, NEW g, BevOK(s, g), NEW D \in SUBSET Dir
  PROVE  LET r == bufferevent_enable(s, D) IN Only(s, r, Switches) /\ BevOK(r, g)
  <1> DEFINE r == bufferevent_enable(s, D)
  <1>1. Only(s, r, {"enabled", "ev", "timer", "dropped"}) /\ Shape(r) /\ EventsOK(r)
    BY Enabling DEF BevOK, Rest
  <1> HIDE DEF r
  <1>2. Only(s, r, Listening) /\ Only(s, r, Switches)
    BY <1>1 DEF Only, Switches, Listening
  <1> QED
    BY <1>1, <1>2, EventsOnly DEF r

(* Disabling keeps a bufferevent in order. *)
LEMMA DisableKeeps ==
  ASSUME NEW s, NEW g, BevOK(s, g), NEW D \in SUBSET Dir
  PROVE  LET r == bufferevent_disable(s, D) IN Only(s, r, Switches) /\ BevOK(r, g)
  <1> DEFINE r == bufferevent_disable(s, D)
  <1>1. Only(s, r, {"enabled", "ev", "timer"}) /\ Shape(r) /\ EventsOK(r)
    BY Disabling DEF BevOK, Rest
  <1> HIDE DEF r
  <1>2. Only(s, r, Listening) /\ Only(s, r, Switches)
    BY <1>1 DEF Only, Switches, Listening
  <1> QED
    BY <1>1, <1>2, EventsOnly DEF r

-----------------------------------------------------------------------------
(* Steps of handlers and callbacks *)

Steps == Control \cup {"pending", "refused"}

(* A step that touches neither switches nor buffers nor buckets. *)
LEMMA StepsOnly ==
  ASSUME NEW s, NEW r, NEW g, BevOK(s, g), Only(s, r, Steps),
         WorkOK(r), RefOK(r), r.life = "live" => s.life = "live",
         r.seen \subseteq s.seen,
         Rechecks(s) => WRITE \in On(s) \/ s.connecting \/ Rechecks(r)
  PROVE  BevOK(r, g)
  <1>1. /\ DOMAIN r = Fields
        /\ r.suspended = s.suspended /\ r.enabled = s.enabled /\ r.ev = s.ev
        /\ r.timer = s.timer /\ r.timeout = s.timeout /\ r.dropped = s.dropped
        /\ r.high = s.high /\ r.len = s.len /\ r.refill = s.refill /\ r.cfg = s.cfg
        /\ r.limit = s.limit /\ r.member = s.member /\ r.connecting = s.connecting
    BY DEF Only, Fields, Steps, Control
  <1>2. Shape(r)
    BY <1>1 DEF Shape, BevOK, Rest
  <1>3. On(r) = On(s)
    BY <1>1 DEF On
  <1>4. EventsOK(r)
    BY <1>1, <1>3 DEF EventsOK, BevOK, Rest
  <1>5. GroupedOK(r, g)
    BY <1>1 DEF GroupedOK, BevOK, Rest
  <1>6. BucketOK(r) /\ WaterOK(r)
    BY <1>1 DEF BucketOK, WaterOK, BevOK, Rest
  <1> QED
    BY <1>2, <1>4, <1>5, <1>6 DEF BevOK, Rest

(* A bufferevent that is finalized has only its references to answer for. *)
LEMMA DeadOK ==
  ASSUME NEW s, NEW r, NEW g, Shape(s), Only(s, r, Steps \cup {"ev", "timer", "refill", "member"}),
         WorkOK(r), RefOK(r), r.life # "live"
  PROVE  BevOK(r, g)
  <1>1. Shape(r)
    BY DEF Only, Fields, Steps, Control, Shape
  <1> QED
    BY <1>1 DEF BevOK, Rest, EventsOK, BucketOK, GroupedOK, WaterOK

(* A step put in front of the others. *)
LEMMA InFront ==
  ASSUME NEW q \in Seq(Work), NEW x \in Work
  PROVE  /\ <<x>> \o q \in Seq(Work) /\ <<x>> \o q # <<>>
         /\ Len(<<x>> \o q) = Len(q) + 1 /\ (<<x>> \o q)[1] = x
         /\ \A i \in 2 .. Len(q) + 1 : (<<x>> \o q)[i] = q[i - 1]
  <1>1. <<x>> \o q \in Seq(Work) /\ Len(<<x>> \o q) = Len(q) + 1 /\ Len(q) \in Nat
    OBVIOUS
  <1>2. (<<x>> \o q)[1] = x
    OBVIOUS
  <1>3. \A i \in 2 .. Len(q) + 1 : (<<x>> \o q)[i] = q[i - 1]
    OBVIOUS
  <1>4. <<x>> \o q # <<>>
    BY <1>1
  <1> QED
    BY <1>1, <1>2, <1>3, <1>4

(* A callback that is deferred, or one the handler may begin now. *)
MayRun(s, cb, defer) ==
    /\ s.life = "live"
    /\ \/ defer
       \/ /\ s.then # <<>> /\ s.run = None
          /\ s.then[1] \in Later \/ (cb = "CONNECTED" /\ s.then[1] = "recheck")

(* SCHEDULE_DEFERRED takes a reference for a callback not yet scheduled. *)
LEMMA ScheduleKeeps ==
  ASSUME NEW s, NEW g, BevOK(s, g), s.life = "live", NEW P
  PROVE  LET r == SCHEDULE_DEFERRED([s EXCEPT !.pending = P])
         IN  /\ Only(s, r, {"pending", "sched", "refcnt"}) /\ BevOK(r, g)
             /\ r.life = s.life
  <1> DEFINE q == [s EXCEPT !.pending = P]
             r == SCHEDULE_DEFERRED(q)
  <1>0. DOMAIN s = Fields
    BY DEF BevOK, Rest, Shape
  <1>1. Only(s, q, {"pending"})
    BY <1>0 DEF Only, Fields
  <1>2. DOMAIN q = Fields /\ q.sched = s.sched /\ q.refcnt = s.refcnt
    BY <1>1 DEF Only, Fields
  <1> HIDE DEF q
  <1>3. /\ Only(q, r, {"sched", "refcnt"})
        /\ ~s.sched => r.sched /\ r.refcnt = s.refcnt + 1
        /\ s.sched => r.sched /\ r.refcnt = s.refcnt
    BY <1>2 DEF SCHEDULE_DEFERRED, Only, Fields
  <1> HIDE DEF r
  <1>4. Only(s, r, {"pending", "sched", "refcnt"})
    BY <1>1, <1>3, OnlyTrans
  <1>5. /\ r.then = s.then /\ r.run = s.run /\ r.seen = s.seen /\ r.amount = s.amount
        /\ r.held = s.held /\ r.dns = s.dns /\ r.life = s.life
        /\ r.callbacks = s.callbacks
    BY <1>4 DEF Only, Fields
  <1>6. WorkOK(r) /\ RefOK(r)
    BY <1>3, <1>5 DEF WorkOK, RefOK, One, BevOK, Rest
  <1>7. Only(s, r, Steps)
    BY <1>4 DEF Only, Steps, Control
  <1>8. BevOK(r, g)
    BY <1>5, <1>6, <1>7, StepsOnly DEF Rechecks
  <1> QED
    BY <1>4, <1>5, <1>8 DEF q, r

(* A handler begins a callback of the user: r is s in the callback cb. *)
LEMMA BeginKeeps ==
  ASSUME NEW s, NEW g, BevOK(s, g), NEW cb, MayRun(s, cb, FALSE), s.callbacks, NEW r,
         Only(s, r, {"run", "then", "pending"}), r.run = cb,
         r.then = IF cb = READ THEN <<"wm_check">> \o s.then ELSE s.then
  PROVE  BevOK(r, g) /\ Quiet(s, r) /\ r.then # <<>> /\ r.life = "live"
  <1>1. /\ s.then \in Seq(Work) /\ s.then # <<>> /\ s.run = None /\ s.seen = {}
        /\ s.then[1] \in Later \/ (cb = "CONNECTED" /\ s.then[1] = "recheck")
        /\ s.then[Len(s.then)] = "done"
        /\ \A i \in 2 .. Len(s.then) : s.then[i] \in Later
    BY DEF MayRun, BevOK, Rest, WorkOK, Later, READ, WRITE
  <1>2. /\ r.seen = s.seen /\ r.refcnt = s.refcnt /\ r.held = s.held
        /\ r.sched = s.sched /\ r.dns = s.dns /\ r.life = s.life
        /\ r.callbacks = s.callbacks /\ r.amount = s.amount
    BY DEF Only, Fields
  <1>3. WorkOK(r) /\ r.then # <<>> /\ (Rechecks(s) => Rechecks(r))
    <2>1. CASE cb = READ
      <3> DEFINE q == <<"wm_check">> \o s.then
      <3>1. "wm_check" \in Work
        BY DEF Work
      <3>2. /\ q \in Seq(Work) /\ q # <<>> /\ q[1] = "wm_check"
            /\ Len(q) = Len(s.then) + 1 /\ \A i \in 2 .. Len(q) : q[i] = s.then[i - 1]
        BY <1>1, <3>1, InFront
      <3>3. r.then = q
        BY <2>1
      <3> HIDE DEF q
      <3>4. s.then[1] \in Later
        BY <1>1, <2>1 DEF READ
      <3>5. Len(s.then) \in Nat /\ Len(s.then) > 0
        BY <1>1
      <3>6. \A i \in 2 .. Len(q) : q[i] \in Later
        <4> SUFFICES ASSUME NEW i \in 2 .. Len(q) PROVE q[i] \in Later
          OBVIOUS
        <4>1. q[i] = s.then[i - 1] /\ (i - 1 = 1 \/ i - 1 \in 2 .. Len(s.then))
          BY <3>2, <3>5
        <4> QED
          BY <1>1, <3>4, <4>1
      <3>7. q[Len(q)] = "done"
        BY <1>1, <3>2, <3>5
      <3>8. ~Rechecks(s)
        BY <1>1, <3>4 DEF Rechecks, Later, READ, WRITE
      <3> QED
        BY <1>1, <1>2, <3>2, <3>3, <3>6, <3>7, <3>8 DEF WorkOK
    <2>2. CASE cb # READ
      <3>1. r.then = s.then
        BY <2>2
      <3>2. WorkOK(r)
        BY <1>1, <1>2, <3>1 DEF WorkOK, BevOK, Rest
      <3>3. Rechecks(s) => Rechecks(r)
        BY <1>1, <3>1 DEF Rechecks, Later, READ, WRITE
      <3> QED
        BY <1>1, <3>1, <3>2, <3>3
    <2> QED
      BY <2>1, <2>2
  <1>4. RefOK(r)
    BY <1>1, <1>2, <1>3 DEF RefOK, BevOK, Rest
  <1>5. Only(s, r, Steps)
    BY DEF Only, Steps, Control
  <1>6. BevOK(r, g)
    BY <1>2, <1>3, <1>4, <1>5, StepsOnly
  <1> QED
    BY <1>2, <1>3, <1>6 DEF Quiet, BevOK, Rest, RefOK, MayRun

(* A callback of the user is scheduled or begun. *)
LEMMA CallbackKeeps ==
  ASSUME NEW s, NEW g, BevOK(s, g), NEW b, NEW cb, NEW defer, MayRun(s, cb, defer)
  PROVE  LET r == RunCallback(b, s, cb, defer)
         IN  /\ Only(s, r, {"pending", "sched", "refcnt", "run", "then"})
             /\ BevOK(r, g) /\ Quiet(s, r) /\ r.life = "live"
             /\ s.then # <<>> => r.then # <<>>
  <1> DEFINE r == RunCallback(b, s, cb, defer)
             F == {"pending", "sched", "refcnt", "run", "then"}
  <1>0. DOMAIN s = Fields
    BY DEF BevOK, Rest, Shape
  <1>1. CASE ~s.callbacks
    <2>1. r = s
      BY <1>1 DEF RunCallback
    <2> QED
      BY <1>0, <2>1, OnlyRefl DEF Quiet, MayRun
  <1>2. CASE s.callbacks /\ (defer \/ Does(b, "DEFER"))
    <2>1. r = SCHEDULE_DEFERRED([s EXCEPT !.pending = @ \cup {cb}])
      BY <1>2 DEF RunCallback
    <2>2. Only(s, r, {"pending", "sched", "refcnt"}) /\ BevOK(r, g) /\ r.life = s.life
      <3> HIDE DEF r
      <3> QED
        BY <2>1, ScheduleKeeps DEF MayRun
    <2> HIDE DEF r
    <2>3. Only(s, r, F) /\ r.run = s.run /\ r.then = s.then
      BY <2>2 DEF Only, Fields
    <2> QED
      BY <2>2, <2>3 DEF Quiet, MayRun, r
  <1>3. CASE s.callbacks /\ ~(defer \/ Does(b, "DEFER"))
    <2> DEFINE q == IF cb = READ THEN <<"wm_check">> \o s.then ELSE s.then
    <2>1. r = [s EXCEPT !.run = cb, !.then = q]
      BY <1>3 DEF RunCallback
    <2> HIDE DEF q
    <2>2. Only(s, r, {"run", "then", "pending"}) /\ r.run = cb /\ r.then = q
      BY <1>0, <2>1 DEF Only, Fields
    <2>3. MayRun(s, cb, FALSE)
      BY <1>3 DEF MayRun
    <2> HIDE DEF r
    <2>4. BevOK(r, g) /\ Quiet(s, r) /\ r.then # <<>> /\ r.life = "live"
      BY <1>3, <2>2, <2>3, BeginKeeps DEF q
    <2>5. Only(s, r, F)
      BY <2>2 DEF Only
    <2> QED
      BY <2>4, <2>5 DEF r
  <1> QED
    BY <1>1, <1>2, <1>3

(* The same behind the look at the low watermark. *)
LEMMA TriggerKeeps ==
  ASSUME NEW s, NEW g, BevOK(s, g), NEW b, NEW d \in Dir, NEW defer, MayRun(s, d, defer)
  PROVE  LET r == bufferevent_trigger_nolock_(b, s, d, defer)
         IN  /\ Only(s, r, {"pending", "sched", "refcnt", "run", "then"})
             /\ BevOK(r, g) /\ Quiet(s, r) /\ r.life = "live"
             /\ s.then # <<>> => r.then # <<>>
  <1>1. \/ bufferevent_trigger_nolock_(b, s, d, defer) = s
        \/ bufferevent_trigger_nolock_(b, s, d, defer) = RunCallback(b, s, d, defer)
    BY DEF bufferevent_trigger_nolock_
  <1>2. /\ Only(s, s, {"pending", "sched", "refcnt", "run", "then"})
        /\ Quiet(s, s) /\ s.life = "live"
    BY OnlyRefl DEF Quiet, MayRun, BevOK, Rest, Shape
  <1> QED
    BY <1>1, <1>2, CallbackKeeps

(* Steps that are all of the kind that waits behind another. *)
AllLater(q) ==
    /\ q \in Seq(Work) /\ q # <<>> /\ q[Len(q)] = "done"
    /\ \A i \in 1 .. Len(q) : q[i] \in Later

(* A handler that has nothing left but to drop its reference. *)
LEMMA JustDone == AllLater(<<"done">>) /\ <<"done">>[1] = "done"
  BY DEF AllLater, Later, Work

(* A handler gets on to its further steps. *)
LEMMA NextStep ==
  ASSUME NEW s, NEW g, BevOK(s, g), s.then # <<>>, NEW q, AllLater(q),
         s.then[1] # "joined",
         s.then[1] # "recheck" \/ WRITE \in On(s)
  PROVE  LET r == [s EXCEPT !.then = q]
         IN  Only(s, r, {"then"}) /\ BevOK(r, g) /\ r.then = q
  <1> DEFINE r == [s EXCEPT !.then = q]
  <1>0. DOMAIN s = Fields
    BY DEF BevOK, Rest, Shape
  <1>1. Only(s, r, {"then"}) /\ r.then = q
    BY <1>0 DEF Only, Fields
  <1> HIDE DEF r
  <1>2. /\ r.run = s.run /\ r.seen = s.seen /\ r.refcnt = s.refcnt /\ r.held = s.held
        /\ r.sched = s.sched /\ r.dns = s.dns /\ r.life = s.life
        /\ r.callbacks = s.callbacks
    BY <1>1 DEF Only, Fields
  <1>3. Len(q) \in Nat \ {0} /\ q[1] \in Later
    BY DEF AllLater
  <1>4. WorkOK(r)
    BY <1>1, <1>2, <1>3 DEF WorkOK, AllLater, Later, READ, WRITE, BevOK, Rest
  <1>5. RefOK(r)
    BY <1>1, <1>2 DEF RefOK, BevOK, Rest, AllLater
  <1>6. Only(s, r, Steps)
    BY <1>1 DEF Only, Steps, Control
  <1>7. Rechecks(s) => WRITE \in On(s)
    BY DEF Rechecks, BevOK, Rest, WorkOK
  <1>8. BevOK(r, g)
    BY <1>2, <1>4, <1>5, <1>6, <1>7, StepsOnly
  <1> QED
    BY <1>1, <1>8 DEF r

(* A handler begins: it takes a reference and the lock. *)
LEMMA EnterKeeps ==
  ASSUME NEW s, NEW g, BevOK(s, g), s.life = "live", s.then = <<>>
  PROVE  LET r == Enter(s)
         IN  /\ Only(s, r, {"refcnt", "then"}) /\ BevOK(r, g)
             /\ r.then = <<"done">> /\ r.run = None
  <1> DEFINE r == Enter(s)
  <1>0. DOMAIN s = Fields
    BY DEF BevOK, Rest, Shape
  <1>1. /\ Only(s, r, {"refcnt", "then"}) /\ r.then = <<"done">>
        /\ r.refcnt = s.refcnt + 1
    BY <1>0 DEF Only, Fields, Enter, Incref
  <1> HIDE DEF r
  <1>2. /\ r.run = s.run /\ r.seen = s.seen /\ r.held = s.held
        /\ r.sched = s.sched /\ r.dns = s.dns /\ r.life = s.life
        /\ r.callbacks = s.callbacks
    BY <1>1 DEF Only, Fields
  <1>3. s.seen = {} /\ s.run = None
    BY DEF WorkOK, BevOK, Rest
  <1>4. WorkOK(r)
    BY <1>1, <1>2, <1>3, JustDone DEF WorkOK, AllLater
  <1>5. RefOK(r)
    BY <1>1, <1>2, JustDone DEF RefOK, BevOK, Rest, AllLater, One
  <1>6. Only(s, r, Steps)
    BY <1>1 DEF Only, Steps, Control
  <1>7. ~Rechecks(s)
    BY DEF Rechecks
  <1>8. BevOK(r, g)
    BY <1>2, <1>4, <1>5, <1>6, <1>7, StepsOnly
  <1> QED
    BY <1>1, <1>2, <1>3, <1>8 DEF r

Refs(s) == One(s.held) + One(s.then # <<>>) + One(s.sched) + One(s.dns # "none")

(***************************************************************************)
(* Somebody who held a reference lets go of it: q is s after he did, with  *)
(* his reference still counted.  The last one finalizes.                   *)
(***************************************************************************)
LEMMA DecrefKeeps ==
  ASSUME NEW s, NEW g, BevOK(s, g), s.life = "live", NEW q, Only(s, q, Steps),
         WorkOK(q), q.life = "live", q.refcnt = Refs(q) + 1,
         ~q.held => ~q.callbacks, q.seen \subseteq s.seen, q.dns = s.dns,
         Rechecks(s) => Rechecks(q)
  PROVE  LET r == bufferevent_decref(q) IN BevOK(r, g) /\ r.run = q.run
  <1> DEFINE r == bufferevent_decref(q)
  <1>0. DOMAIN q = Fields /\ q.dns \in {"none", "pending", "cancelled"}
    BY DEF Only, BevOK, Rest, RefOK
  <1>1. Refs(q) \in Nat
    BY DEF Refs, One
  <1>2. CASE q.refcnt > 1
    <2>1. Only(q, r, {"refcnt"}) /\ r.refcnt = q.refcnt - 1
      BY <1>0, <1>2 DEF bufferevent_decref, Only, Fields
    <2> HIDE DEF r
    <2>2. /\ r.run = q.run /\ r.seen = q.seen /\ r.held = q.held /\ r.then = q.then
          /\ r.sched = q.sched /\ r.dns = q.dns /\ r.life = q.life
          /\ r.callbacks = q.callbacks /\ r.amount = q.amount
      BY <2>1 DEF Only, Fields
    <2>3. WorkOK(r)
      BY <2>2 DEF WorkOK
    <2>4. RefOK(r)
      BY <1>0, <1>1, <1>2, <2>1, <2>2 DEF RefOK, Refs
    <2>5. Only(s, r, Steps)
      <3>1. {"refcnt"} \subseteq Steps
        BY DEF Steps, Control
      <3> QED
        BY <2>1, <3>1, OnlyTrans
    <2>6. Rechecks(q) => Rechecks(r)
      BY <2>2 DEF Rechecks
    <2>7. BevOK(r, g)
      BY <2>2, <2>3, <2>4, <2>5, <2>6, StepsOnly
    <2> QED
      BY <2>2, <2>7 DEF r
  <1>3. CASE ~(q.refcnt > 1)
    <2> DEFINE p == event_del(q, Dir)
    <2>1. Refs(q) = 0
      BY <1>1, <1>3
    <2>2. ~q.held /\ q.then = <<>> /\ ~q.sched /\ q.dns = "none"
      BY <2>1 DEF Refs, One
    <2>3. Only(q, p, {"ev", "timer"})
      BY <1>0, EventDel
    <2>4. DOMAIN p = Fields
      BY <2>3 DEF Only
    <2> HIDE DEF p
    <2>5. r = [p EXCEPT !.refcnt = 0, !.life = "finalizing", !.refill = FALSE,
                        !.sched = FALSE]
      BY <1>3 DEF bufferevent_decref, p
    <2>6. /\ Only(p, r, {"refcnt", "life", "refill", "sched"})
          /\ r.refcnt = 0 /\ r.life = "finalizing" /\ ~r.sched
      BY <2>4, <2>5 DEF Only, Fields
    <2> HIDE DEF r
    <2>7. Only(q, r, {"ev", "timer", "refcnt", "life", "refill", "sched"})
      BY <2>3, <2>6, OnlyTrans
    <2>8. /\ r.run = q.run /\ r.seen = q.seen /\ r.held = q.held /\ r.then = q.then
          /\ r.dns = q.dns /\ r.callbacks = q.callbacks /\ r.amount = q.amount
      BY <2>7 DEF Only, Fields
    <2>9. WorkOK(r)
      BY <2>8 DEF WorkOK
    <2>10. RefOK(r)
      BY <2>2, <2>6, <2>8 DEF RefOK, One
    <2>11. Only(s, r, Steps \cup {"ev", "timer", "refill", "member"})
      <3>1. {"ev", "timer", "refcnt", "life", "refill", "sched"}
                \subseteq Steps \cup {"ev", "timer", "refill", "member"}
        BY DEF Steps, Control
      <3> QED
        BY <2>7, <3>1, OnlyTrans
    <2>12. BevOK(r, g)
      BY <2>6, <2>9, <2>10, <2>11, DeadOK DEF BevOK, Rest
    <2> QED
      BY <2>8, <2>12 DEF r
  <1> QED
    BY <1>2, <1>3

(* A handler that is done drops its reference. *)
LEMMA ReturnKeeps ==
  ASSUME NEW s, NEW g, BevOK(s, g), s.then # <<>>
  PROVE  BevOK(Return(s), g) /\ Return(s).run = s.run
  <1> DEFINE q == [s EXCEPT !.then = <<>>, !.amount = 0]
  <1>0. DOMAIN s = Fields /\ RefOK(s) /\ WorkOK(s)
    BY DEF BevOK, Rest, Shape
  <1>1. CASE ~(s.run = None /\ s.then = <<"done">>)
    BY <1>1 DEF Return
  <1>2. CASE s.run = None /\ s.then = <<"done">>
    <2>1. Return(s) = bufferevent_decref(q)
      BY <1>2 DEF Return
    <2>2. Only(s, q, {"then", "amount"}) /\ q.then = <<>>
      BY <1>0 DEF Only, Fields
    <2> HIDE DEF q
    <2>3. /\ q.run = s.run /\ q.seen = s.seen /\ q.held = s.held /\ q.sched = s.sched
          /\ q.dns = s.dns /\ q.life = s.life /\ q.callbacks = s.callbacks
          /\ q.refcnt = s.refcnt
      BY <2>2 DEF Only, Fields
    <2>4. s.seen = {} /\ s.life = "live" /\ ~Rechecks(s)
      <3>1. s.then[1] = "done"
        BY <1>2
      <3> QED
        BY <1>0, <1>2, <3>1 DEF WorkOK, RefOK, One, Rechecks
    <2>5. WorkOK(q)
      BY <1>2, <2>2, <2>3, <2>4 DEF WorkOK
    <2>6. q.refcnt = Refs(q) + 1
      BY <1>0, <2>2, <2>3 DEF Refs, RefOK, One
    <2>7. Only(s, q, Steps)
      BY <2>2 DEF Only, Steps, Control
    <2>8. LET r == bufferevent_decref(q) IN BevOK(r, g) /\ r.run = q.run
      BY <1>0, <2>3, <2>4, <2>5, <2>6, <2>7, DecrefKeeps DEF RefOK
    <2> QED
      BY <2>1, <2>3, <2>8
  <1> QED
    BY <1>1, <1>2

-----------------------------------------------------------------------------
(* Sockets, buffers and buckets *)

(* A further socket, or none: the events begin anew. *)
LEMMA SetfdKeeps ==
  ASSUME NEW s, NEW g, BevOK(s, g), NEW fd
  PROVE  LET r == be_socket_setfd(s, fd)
         IN  /\ Only(s, r, {"enabled", "ev", "timer", "dropped", "fd", "dns"})
             /\ BevOK(r, g)
             /\ s.dns = "none" => r.dns = "none"
  <1> DEFINE p == event_del(s, Dir)
             x == IF fd THEN {} ELSE Dir
             y == IF p.dns = "pending" THEN "cancelled" ELSE p.dns
             q == [p EXCEPT !.fd = fd, !.dropped = x, !.dns = y]
             r == IF fd THEN bufferevent_enable(q, q.enabled) ELSE q
             F == {"enabled", "ev", "timer", "dropped", "fd", "dns"}
  <1>0. Shape(s) /\ EventsOK(s) /\ RefOK(s) /\ WorkOK(s)
    BY DEF BevOK, Rest
  <1>1. be_socket_setfd(s, fd) = r
    BY DEF be_socket_setfd
  <1>2. /\ Only(s, p, {"ev", "timer"})
        /\ s.life = "live" => p.ev = s.ev \ Dir /\ p.timer = s.timer \ Dir
    BY <1>0, EventDel DEF Shape
  <1> HIDE DEF p, x
  <1>3. DOMAIN p = Fields /\ p.dns = s.dns
    BY <1>2 DEF Only, Fields
  <1>4. Only(p, q, {"fd", "dropped", "dns"}) /\ q.dropped = x /\ q.dns = y
    BY <1>3 DEF Only, Fields
  <1> HIDE DEF q
  <1>5. /\ Only(s, q, F) /\ q.ev = p.ev /\ q.timer = p.timer
    BY <1>2, <1>4, OnlyTrans DEF Only, Fields
  <1>6. /\ q.suspended = s.suspended /\ q.enabled = s.enabled /\ q.life = s.life
        /\ q.timeout = s.timeout /\ q.connecting = s.connecting
    BY <1>2, <1>4 DEF Only, Fields
  <1>7. Shape(q)
    BY <1>0, <1>5, <1>6 DEF Shape, Only, Fields
  <1>8. /\ Only(s, r, F) /\ Shape(r) /\ EventsOK(r) /\ r.dns = y
        /\ r.suspended = s.suspended
    <2>1. CASE fd
      <3>0. r = bufferevent_enable(q, q.enabled) /\ q.enabled \in SUBSET Dir
        BY <1>7, <2>1 DEF Shape
      <3> HIDE DEF r
      <3>1. /\ Only(q, r, {"enabled", "ev", "timer", "dropped"}) /\ Shape(r)
            /\ q.life = "live" =>
                 LET E == {d \in q.enabled : q.suspended[d] = {}}
                 IN  /\ r.enabled = q.enabled \cup q.enabled /\ r.ev = q.ev \cup E
                     /\ r.timer = q.timer \cup (E \cap q.timeout)
        BY <1>7, <3>0, Enabling
      <3>2. Only(s, r, F)
        BY <1>5, <3>1, OnlyTrans
      <3>3. /\ r.dns = q.dns /\ r.suspended = q.suspended /\ r.life = q.life
            /\ r.timeout = q.timeout
        BY <3>1 DEF Only, Fields
      <3>4. ASSUME r.life = "live" PROVE EventsOK(r)
        <4>1. /\ r.ev = (s.ev \ Dir) \cup On(r)
              /\ r.timer = (s.timer \ Dir) \cup (On(r) \cap s.timeout)
          BY <1>2, <1>5, <1>6, <3>1, <3>3, <3>4 DEF On
        <4>2. READ \in Dir /\ WRITE \in Dir
          BY DEF Dir
        <4>3. s.timer = s.ev \cap s.timeout
          BY <1>0, <1>6, <3>3, <3>4 DEF EventsOK
        <4> QED
          BY <1>6, <3>3, <4>1, <4>2, <4>3 DEF EventsOK
      <3> QED
        BY <1>4, <1>6, <3>1, <3>2, <3>3, <3>4 DEF EventsOK
    <2>2. CASE ~fd
      <3>1. r = q /\ x = Dir
        BY <2>2 DEF x
      <3> HIDE DEF r
      <3>2. EventsOK(q)
        BY <1>0, <1>2, <1>4, <1>5, <1>6, <3>1 DEF EventsOK, Dir
      <3> QED
        BY <1>4, <1>5, <1>6, <1>7, <3>1, <3>2
    <2> QED
      BY <2>1, <2>2
  <1> HIDE DEF r
  <1>9. /\ r.then = s.then /\ r.run = s.run /\ r.seen = s.seen /\ r.amount = s.amount
        /\ r.refcnt = s.refcnt /\ r.held = s.held /\ r.sched = s.sched
        /\ r.life = s.life /\ r.callbacks = s.callbacks /\ r.high = s.high
        /\ r.len = s.len /\ r.refill = s.refill /\ r.cfg = s.cfg /\ r.limit = s.limit
        /\ r.member = s.member
    BY <1>8 DEF Only, Fields
  <1>10. WorkOK(r)
    BY <1>0, <1>9 DEF WorkOK
  <1>11. RefOK(r)
    BY <1>0, <1>3, <1>8, <1>9 DEF RefOK
  <1>12. BucketOK(r) /\ GroupedOK(r, g) /\ WaterOK(r)
    BY <1>8, <1>9 DEF BucketOK, GroupedOK, WaterOK, BevOK, Rest
  <1> QED
    BY <1>1, <1>3, <1>8, <1>10, <1>11, <1>12 DEF BevOK, Rest

(* Another amount of bytes in a buffer; output only gets less. *)
LEMMA LenKeeps ==
  ASSUME NEW s, NEW r, NEW g, BevOK(s, g), Only(s, r, {"len"}), r.len \in [Dir -> Nat],
         r.len[WRITE] <= s.len[WRITE]
  PROVE  /\ Rest(r, g)
         /\ r.len[READ] = s.len[READ] \/ r.high = 0 => WaterOK(r)
  <1>1. WorkOK(r) /\ RefOK(r) /\ r.life = s.life /\ r.seen = s.seen /\ r.then = s.then
        /\ r.run = s.run
    BY ControlKept DEF Control, BevOK, Rest
  <1>2. /\ DOMAIN r = Fields
        /\ r.suspended = s.suspended /\ r.enabled = s.enabled /\ r.ev = s.ev
        /\ r.timer = s.timer /\ r.timeout = s.timeout /\ r.dropped = s.dropped
        /\ r.high = s.high /\ r.refill = s.refill /\ r.cfg = s.cfg
        /\ r.limit = s.limit /\ r.member = s.member /\ r.connecting = s.connecting
    BY DEF Only, Fields
  <1>3. Shape(r) /\ Shape(s)
    BY <1>2 DEF Shape, BevOK, Rest
  <1>4. On(r) = On(s) /\ (Rechecks(r) <=> Rechecks(s))
    BY <1>1, <1>2 DEF On, Rechecks
  <1>5. r.len[WRITE] > 0 => s.len[WRITE] > 0
    BY <1>3 DEF Shape, Dir
  <1>6. EventsOK(r)
    BY <1>1, <1>2, <1>4, <1>5 DEF EventsOK, BevOK, Rest
  <1>7. BucketOK(r) /\ GroupedOK(r, g)
    BY <1>1, <1>2 DEF BucketOK, GroupedOK, BevOK, Rest
  <1>8. r.len[READ] = s.len[READ] \/ r.high = 0 => WaterOK(r)
    BY <1>1, <1>2 DEF WaterOK, BevOK, Rest
  <1> QED
    BY <1>1, <1>3, <1>6, <1>7, <1>8 DEF Rest

(* Input that arrives or is taken. *)
LEMMA SetInputKeeps ==
  ASSUME NEW s, NEW g, BevOK(s, g), NEW n \in Nat
  PROVE  LET r == SetInput(s, n)
         IN  Only(s, r, Switches \cup {"len"}) /\ BevOK(r, g)
  <1> DEFINE q == [s EXCEPT !.len[READ] = n]
             r == bufferevent_inbuf_wm_cb(q)
  <1>0. Shape(s) /\ READ \in Dir /\ WRITE \in Dir /\ READ # WRITE
    BY DEF BevOK, Rest, Dir, READ, WRITE
  <1>1. Only(s, q, {"len"}) /\ q.len = [s.len EXCEPT ![READ] = n]
    BY <1>0 DEF Only, Fields, Shape
  <1> HIDE DEF q
  <1>2. q.len \in [Dir -> Nat] /\ q.len[WRITE] <= s.len[WRITE]
    BY <1>0, <1>1 DEF Shape
  <1>3. Rest(q, g) /\ (q.high = 0 => WaterOK(q))
    BY <1>1, <1>2, LenKeeps
  <1>4. Only(q, r, Switches) /\ BevOK(r, g)
    BY <1>3, WatermarkKeeps
  <1>5. SetInput(s, n) = r
    BY DEF SetInput, q
  <1> HIDE DEF r
  <1>6. Only(s, r, Switches \cup {"len"})
    BY <1>1, <1>4, OnlyTrans
  <1> QED
    BY <1>4, <1>5, <1>6

(* Output the user adds. *)
LEMMA OutputKeeps ==
  ASSUME NEW s, NEW g, BevOK(s, g)
  PROVE  LET r == bufferevent_socket_outbuf_cb([s EXCEPT !.len[WRITE] = @ + 1])
         IN  Only(s, r, {"ev", "timer", "dropped", "len"}) /\ BevOK(r, g)
  <1> DEFINE q == [s EXCEPT !.len[WRITE] = @ + 1]
             r == bufferevent_socket_outbuf_cb(q)
  <1>0. Shape(s) /\ EventsOK(s) /\ READ \in Dir /\ WRITE \in Dir /\ READ # WRITE
    BY DEF BevOK, Rest, Dir, READ, WRITE
  <1>1. Only(s, q, {"len"}) /\ q.len = [s.len EXCEPT ![WRITE] = @ + 1]
    BY <1>0 DEF Only, Fields, Shape
  <1> HIDE DEF q
  <1>2. q.len \in [Dir -> Nat] /\ q.len[READ] = s.len[READ]
    BY <1>0, <1>1 DEF Shape
  <1>3. /\ DOMAIN q = Fields /\ q.enabled = s.enabled /\ q.ev = s.ev
        /\ q.suspended = s.suspended /\ q.life = s.life /\ q.timer = s.timer
        /\ q.timeout = s.timeout /\ q.dropped = s.dropped
    BY <1>1 DEF Only, Fields
  <1>4. /\ Only(q, r, {"ev", "timer", "dropped"})
        /\ s.life = "live" /\ WRITE \in On(s) /\ WRITE \notin s.ev =>
              /\ r.ev = s.ev \cup {WRITE} /\ r.dropped = s.dropped \ {WRITE}
              /\ r.timer = s.timer \cup ({WRITE} \cap s.timeout)
        /\ ~(WRITE \in On(s) /\ WRITE \notin s.ev) => r = q
    BY <1>0, <1>3, EventAdd, OnlyRefl DEF bufferevent_socket_outbuf_cb, On
  <1> HIDE DEF r
  <1>5. Only(s, r, {"ev", "timer", "dropped", "len"}) /\ r.len = q.len
    BY <1>1, <1>4, OnlyTrans DEF Only, Fields
  <1>6. /\ WorkOK(r) /\ RefOK(r) /\ r.life = s.life /\ r.seen = s.seen
        /\ r.then = s.then /\ r.run = s.run
    BY <1>5, ControlKept DEF Control, BevOK, Rest
  <1>7. /\ r.suspended = s.suspended /\ r.enabled = s.enabled
        /\ r.timeout = s.timeout /\ r.high = s.high /\ r.refill = s.refill
        /\ r.cfg = s.cfg /\ r.limit = s.limit /\ r.member = s.member
        /\ r.connecting = s.connecting /\ DOMAIN r = Fields
    BY <1>5 DEF Only, Fields
  <1>8. On(r) = On(s) /\ (Rechecks(r) <=> Rechecks(s))
    BY <1>6, <1>7 DEF On, Rechecks
  <1>9. EventsOK(r)
    <2>1. CASE WRITE \in On(s) /\ WRITE \notin s.ev
      BY <1>0, <1>4, <1>6, <1>7, <1>8, <2>1 DEF EventsOK
    <2>2. CASE ~(WRITE \in On(s) /\ WRITE \notin s.ev)
      BY <1>0, <1>3, <1>4, <1>6, <1>7, <1>8, <2>2 DEF EventsOK
    <2> QED
      BY <2>1, <2>2
  <1>10. Shape(r)
    BY <1>0, <1>2, <1>5, <1>7 DEF Shape
  <1>11. BucketOK(r) /\ GroupedOK(r, g) /\ WaterOK(r)
    BY <1>2, <1>5, <1>6, <1>7 DEF BucketOK, GroupedOK, WaterOK, BevOK, Rest
  <1> QED
    BY <1>5, <1>6, <1>9, <1>10, <1>11 DEF BevOK, Rest, q, r

(* The own bucket and the suspensions for its sake. *)
LEMMA BucketKeeps ==
  ASSUME NEW s, NEW r, NEW g, BevOK(s, g),
         Only(s, r, Switches \cup {"limit", "refill", "cfg"}), Shape(r), EventsOK(r),
         BucketOK(r),
         \A c \in Dir, w \in Suspend :
            w # "BW" => (w \in r.suspended[c] <=> w \in s.suspended[c])
  PROVE  BevOK(r, g)
  <1>1. (Switches \cup {"limit", "refill", "cfg"}) \cap Control = {}
    BY DEF Switches, Control
  <1>2. WorkOK(r) /\ RefOK(r) /\ r.life = s.life /\ r.seen = s.seen
    BY <1>1, ControlKept DEF BevOK, Rest
  <1>3. r.high = s.high /\ r.len = s.len /\ r.member = s.member
    BY DEF Only, Fields, Switches
  <1>4. READ \in Dir /\ "WM" \in Suspend /\ "BW_GROUP" \in Suspend
    BY DEF Dir, Suspend
  <1>5. GroupedOK(r, g) /\ WaterOK(r)
    BY <1>2, <1>3, <1>4 DEF GroupedOK, WaterOK, BevOK, Rest
  <1> QED
    BY <1>2, <1>5 DEF BevOK, Rest

(* A bucket with tokens has tokens after its update. *)
LEMMA UpdateKeeps ==
  ASSUME NEW l \in [Dir -> Int], NEW n \in Ticks
  PROVE  /\ Update(l, n) \in [Dir -> Int]
         /\ \A d \in Dir : l[d] > 0 => Update(l, n)[d] > 0
  <1>1. Rate \in Nat \ {0} /\ Burst \in Nat /\ Rate <= Burst /\ n \in Nat
    BY BevAssumption DEF Ticks
  <1> SUFFICES ASSUME NEW d \in Dir
               PROVE  LET u == ev_token_bucket_update_(l[d], n)
                      IN  u \in Int /\ (l[d] > 0 => u > 0)
    BY DEF Update
  <1>2. ev_token_bucket_update_(l[d], n) \in {l[d], Burst, l[d] + n * Rate}
    BY DEF ev_token_bucket_update_
  <1>3. n * Rate \in Nat
    BY <1>1
  <1> QED
    BY <1>1, <1>2, <1>3

(* The bucket is brought up to date. *)
LEMMA RefreshKeeps ==
  ASSUME NEW s, NEW g, BevOK(s, g), NEW n \in Ticks
  PROVE  LET r == Refreshed(s, n)
         IN  /\ Only(s, r, {"limit"}) /\ BevOK(r, g)
             /\ \A d \in Dir : s.limit[d] > 0 => r.limit[d] > 0
  <1> DEFINE r == Refreshed(s, n)
  <1>0. Shape(s) /\ EventsOK(s) /\ BucketOK(s)
    BY DEF BevOK, Rest
  <1>1. CASE ~s.cfg
    BY <1>0, <1>1, OnlyRefl DEF Refreshed, Shape
  <1>2. CASE s.cfg
    <2>1. Only(s, r, {"limit"}) /\ r.limit = Update(s.limit, n)
      BY <1>0, <1>2 DEF Only, Fields, Refreshed, Shape
    <2> HIDE DEF r
    <2>2. r.limit \in [Dir -> Int] /\ \A d \in Dir : s.limit[d] > 0 => r.limit[d] > 0
      BY <1>0, <2>1, UpdateKeeps DEF Shape
    <2>3. /\ r.suspended = s.suspended /\ r.refill = s.refill /\ r.cfg = s.cfg
          /\ r.life = s.life /\ r.enabled = s.enabled /\ r.ev = s.ev
          /\ r.timer = s.timer /\ r.timeout = s.timeout /\ r.dropped = s.dropped
          /\ r.len = s.len /\ r.connecting = s.connecting /\ r.then = s.then
          /\ r.run = s.run /\ r.high = s.high /\ DOMAIN r = Fields
      BY <2>1 DEF Only, Fields
    <2>4. Shape(r)
      BY <1>0, <2>2, <2>3 DEF Shape
    <2>5. EventsOK(r)
      BY <1>0, <2>3 DEF EventsOK, On, Rechecks
    <2>6. BucketOK(r)
      BY <1>0, <2>2, <2>3 DEF BucketOK, Shape
    <2>7. Only(s, r, Switches \cup {"limit", "refill", "cfg"})
      BY <2>1 DEF Only
    <2>8. BevOK(r, g)
      BY <2>3, <2>4, <2>5, <2>6, <2>7, BucketKeeps
    <2> QED
      BY <2>1, <2>2, <2>8 DEF r
  <1> QED
    BY <1>1, <1>2

(* A member learns that its group is suspended. *)
LEMMA LearnKeeps ==
  ASSUME NEW s, BevOK(s, group), NEW d \in Dir
  PROVE  LET r == Learned(s, d)
         IN  /\ Only(s, r, Switches) /\ BevOK(r, group)
             /\ r.suspended[d] = {} => ~(r.member /\ group.suspended[d])
  <1> DEFINE r == Learned(s, d)
  <1>0. Shape(s) /\ Rest(s, group) /\ WaterOK(s)
    BY DEF BevOK, Rest
  <1>1. CASE s.member /\ group.suspended[d]
    <2>1. r = bufferevent_suspend_(s, d, "BW_GROUP")
      BY <1>1 DEF Learned
    <2> HIDE DEF r
    <2>2. /\ Only(s, r, Switches) /\ Rest(r, group) /\ WaterOK(r)
          /\ r.suspended = With(s, d, "BW_GROUP")
      BY <1>0, <1>1, <2>1, SuspendKeeps DEF Wakes
    <2>3. r.suspended[d] # {}
      BY <1>0, <2>2 DEF With, Shape
    <2> QED
      BY <2>2, <2>3 DEF BevOK, r
  <1>2. CASE ~(s.member /\ group.suspended[d])
    BY <1>0, <1>2, OnlyRefl DEF Learned, Shape
  <1> QED
    BY <1>1, <1>2

(* Without a suspension the limits leave something to move. *)
LEMMA RlimMaxPositive ==
  ASSUME NEW s, BevOK(s, group), GroupOK(group), s.life = "live", NEW d \in Dir,
         s.suspended[d] = {}, ~(s.member /\ group.suspended[d]),
         s.member => Members(bev) # {}
  PROVE  RlimMax(s, d) \in Nat \ {0}
  <1> DEFINE own == IF s.cfg THEN s.limit[d] ELSE MaxSingle
             c == Cardinality(Members(bev))
             part == group.limit[d] \div c
             share == IF group.suspended[d] THEN 0
                      ELSE IF part < MinShare THEN MinShare ELSE part
  <1>1. own \in Nat \ {0}
    <2>1. s.limit[d] \in Int /\ (s.cfg => ~(s.limit[d] <= 0))
      BY DEF BevOK, Rest, Shape, BucketOK
    <2> QED
      BY <2>1, BevAssumption
  <1>2. s.member => share \in Nat \ {0}
    <2> SUFFICES ASSUME s.member PROVE share \in Nat \ {0}
      OBVIOUS
    <2>1. c \in Nat \ {0}
      <3>1. IsFiniteSet(Members(bev))
        BY BevAssumption, FS_Subset DEF Members
      <3> QED
        BY <3>1, FS_CardinalityType, FS_EmptySet
    <2>2. group.limit[d] \in Int
      BY DEF GroupOK
    <2> HIDE DEF c
    <2>3. part \in Int
      BY <2>1, <2>2
    <2> HIDE DEF part
    <2>4. MinShare \in Nat \ {0}
      BY BevAssumption
    <2> QED
      BY <2>3, <2>4
  <1>3. RlimMax(s, d) = LET max == IF s.member /\ share < own THEN share ELSE own
                        IN  IF max < 0 THEN 0 ELSE max
    BY DEF RlimMax
  <1> HIDE DEF own, share
  <1> QED
    BY <1>1, <1>2, <1>3

(***************************************************************************)
(* A handler that goes on past the look at the limits has bytes to move.   *)
(***************************************************************************)
LEMMA LookKeeps ==
  ASSUME NEW s, BevOK(s, group), GroupOK(group), s.life = "live", s.run = None,
         s.then = <<"done">>, s.member => Members(bev) # {},
         NEW d \in Dir, NEW n \in Ticks, NEW step \in {"read", "write", "write_connected"}
  PROVE  LET r == LookAtLimits(s, d, n, step)
         IN  BevOK(r, group) /\ r.run = s.run /\ r.then # <<>>
  <1> DEFINE p == Refreshed(s, n)
             q == Learned(p, d)
             max == RlimMax(q, d)
             room == q.high - q.len[READ]
             a == IF d = READ /\ q.high # 0 /\ room <= max THEN room ELSE max
             r == [q EXCEPT !.then = <<step, "done">>, !.amount = a]
  <1>1. LookAtLimits(s, d, n, step) = IF q.suspended[d] # {} THEN q ELSE r
    BY DEF LookAtLimits
  <1>2. Only(s, p, {"limit"}) /\ BevOK(p, group)
    BY RefreshKeeps
  <1> HIDE DEF p
  <1>3. /\ Only(p, q, Switches) /\ BevOK(q, group)
        /\ q.suspended[d] = {} => ~(q.member /\ group.suspended[d])
    BY <1>2, LearnKeeps
  <1> HIDE DEF q
  <1>4. Only(s, q, Switches \cup {"limit"})
    BY <1>2, <1>3, OnlyTrans
  <1>5. /\ q.life = s.life /\ q.run = s.run /\ q.then = s.then /\ q.member = s.member
    BY <1>4 DEF Only, Fields, Switches
  <1>6. CASE q.suspended[d] # {}
    <2>1. s.then # <<>>
      BY JustDone DEF AllLater
    <2> QED
      BY <1>1, <1>3, <1>5, <1>6, <2>1
  <1>7. CASE q.suspended[d] = {}
    <2>1. max \in Nat \ {0}
      BY <1>3, <1>5, <1>7, RlimMaxPositive
    <2> HIDE DEF max
    <2>2. Shape(q) /\ WaterOK(q) /\ WorkOK(q) /\ RefOK(q) /\ DOMAIN q = Fields
      BY <1>3 DEF BevOK, Rest, Shape
    <2>3. q.high \in Nat /\ q.len[READ] \in Nat
      BY <2>2 DEF Shape, Dir
    <2>4. d = READ /\ q.high # 0 => room > 0
      BY <1>5, <1>7, <2>2, <2>3 DEF WaterOK
    <2>5. a > 0
      BY <2>1, <2>4
    <2> HIDE DEF a
    <2>6. Only(q, r, {"then", "amount"}) /\ r.then = <<step, "done">> /\ r.amount = a
      BY <2>2 DEF Only, Fields
    <2> HIDE DEF r
    <2>7. /\ r.run = q.run /\ r.seen = q.seen /\ r.refcnt = q.refcnt /\ r.held = q.held
          /\ r.sched = q.sched /\ r.dns = q.dns /\ r.life = q.life
          /\ r.callbacks = q.callbacks
      BY <2>6 DEF Only, Fields
    <2>8. /\ r.then \in Seq(Work) /\ r.then # <<>> /\ Len(r.then) = 2
          /\ r.then[1] = step /\ r.then[2] = "done"
      <3>1. step \in Work /\ "done" \in Work
        BY DEF Work, Later
      <3> QED
        BY <2>6, <3>1
    <2>9. q.seen = {} /\ q.then # <<>> /\ ~Rechecks(q)
      BY <1>5, <2>2, JustDone DEF WorkOK, AllLater, Rechecks
    <2>10. WorkOK(r)
      BY <2>5, <2>6, <2>7, <2>8, <2>9 DEF WorkOK, Later
    <2>11. RefOK(r)
      BY <2>2, <2>7, <2>8, <2>9 DEF RefOK
    <2>12. Only(q, r, Steps)
      BY <2>6 DEF Only, Steps, Control
    <2>13. BevOK(r, group)
      BY <1>3, <2>7, <2>9, <2>10, <2>11, <2>12, StepsOnly
    <2> QED
      BY <1>1, <1>5, <1>7, <2>7, <2>8, <2>13
  <1> QED
    BY <1>6, <1>7

(* q is s with x tokens in its bucket for d. *)
Tokens(s, q, d, x) == Only(s, q, {"limit"}) /\ q.limit = [s.limit EXCEPT ![d] = x]

Bucket == Switches \cup {"limit", "refill", "cfg"}

(* Another number of tokens leaves the rest alone. *)
LEMMA TokensKept ==
  ASSUME NEW s, NEW g, BevOK(s, g), NEW d \in Dir, NEW x \in Int, NEW q, Tokens(s, q, d, x)
  PROVE  /\ Shape(s) /\ EventsOK(s) /\ BucketOK(s) /\ Shape(q) /\ EventsOK(q)
         /\ Only(s, q, Bucket)
         /\ q.limit[d] = x /\ \A c \in Dir : c # d => q.limit[c] = s.limit[c]
         /\ q.suspended = s.suspended /\ q.refill = s.refill /\ q.cfg = s.cfg
         /\ q.life = s.life
  <1>0. Shape(s) /\ EventsOK(s) /\ BucketOK(s) /\ DOMAIN s = Fields
    BY DEF BevOK, Rest, Shape
  <1>1. Only(s, q, {"limit"}) /\ q.limit = [s.limit EXCEPT ![d] = x]
    BY DEF Tokens
  <1>2. /\ q.limit \in [Dir -> Int] /\ q.limit[d] = x
        /\ \A c \in Dir : c # d => q.limit[c] = s.limit[c]
    BY <1>0, <1>1 DEF Shape
  <1>3. /\ q.suspended = s.suspended /\ q.refill = s.refill /\ q.cfg = s.cfg
        /\ q.life = s.life /\ q.enabled = s.enabled /\ q.ev = s.ev
        /\ q.timer = s.timer /\ q.timeout = s.timeout /\ q.dropped = s.dropped
        /\ q.len = s.len /\ q.connecting = s.connecting /\ q.then = s.then
        /\ q.run = s.run /\ q.high = s.high /\ DOMAIN q = Fields
    BY <1>1 DEF Only, Fields
  <1>4. Shape(q) /\ EventsOK(q)
    BY <1>0, <1>2, <1>3 DEF Shape, EventsOK, On, Rechecks
  <1>5. Only(s, q, Bucket)
    BY <1>1 DEF Only, Bucket
  <1> QED
    BY <1>0, <1>2, <1>3, <1>4, <1>5

(* The bucket is empty: its direction waits for the timer. *)
LEMMA DryKeeps ==
  ASSUME NEW s, NEW g, BevOK(s, g), NEW d \in Dir, NEW x \in Int, NEW q, Tokens(s, q, d, x)
  PROVE  LET r == [bufferevent_suspend_(q, d, "BW") EXCEPT !.refill = TRUE]
         IN  BevOK(r, g) /\ Only(s, r, Bucket)
  <1> DEFINE t == bufferevent_suspend_(q, d, "BW")
             r == [t EXCEPT !.refill = TRUE]
  <1>0. /\ Shape(s) /\ BucketOK(s) /\ Shape(q) /\ EventsOK(q) /\ Only(s, q, Bucket)
        /\ \A c \in Dir : c # d => q.limit[c] = s.limit[c]
        /\ q.suspended = s.suspended /\ q.cfg = s.cfg /\ q.life = s.life
    BY TokensKept
  <1>1. /\ Only(q, t, {"suspended", "ev", "timer"}) /\ t.suspended = With(q, d, "BW")
        /\ Shape(t) /\ EventsOK(t)
    BY <1>0, Suspending DEF Suspend
  <1> HIDE DEF t
  <1>2. Only(t, r, {"refill"}) /\ r.refill
    BY <1>1 DEF Only, Fields, Shape
  <1> HIDE DEF r
  <1>3. Only(s, r, Bucket)
    <2>1. {"suspended", "ev", "timer"} \subseteq Bucket /\ {"refill"} \subseteq Bucket
      BY DEF Switches, Bucket
    <2>2. Only(s, t, Bucket)
      BY <1>0, <1>1, <2>1, OnlyTrans
    <2> QED
      BY <1>2, <2>1, <2>2, OnlyTrans
  <1>4. /\ r.suspended = t.suspended /\ r.limit = t.limit /\ r.enabled = t.enabled
        /\ r.ev = t.ev /\ r.timer = t.timer /\ r.timeout = t.timeout
        /\ r.dropped = t.dropped /\ r.len = t.len /\ r.connecting = t.connecting
        /\ r.then = t.then /\ r.run = t.run /\ r.high = t.high /\ DOMAIN r = Fields
        /\ r.life = t.life
    BY <1>2 DEF Only, Fields
  <1>5. r.limit = q.limit /\ r.cfg = s.cfg /\ r.life = s.life
    BY <1>0, <1>1, <1>2 DEF Only, Fields
  <1>6. Shape(r)
    BY <1>1, <1>4 DEF Shape
  <1>7. EventsOK(r)
    BY <1>1, <1>4 DEF EventsOK, On, Rechecks
  <1>8. /\ \A c \in Dir : c # d => r.suspended[c] = s.suspended[c]
        /\ r.suspended[d] = s.suspended[d] \cup {"BW"}
    BY <1>0, <1>1, <1>4 DEF With, Shape
  <1>9. ASSUME r.life = "live", NEW c \in Dir
        PROVE  /\ "BW" \in r.suspended[c] => r.refill
               /\ r.cfg /\ r.limit[c] <= 0 => "BW" \in r.suspended[c]
    <2>1. CASE c = d
      BY <1>2, <1>8, <2>1
    <2>2. CASE c # d
      BY <1>0, <1>2, <1>5, <1>8, <1>9, <2>2 DEF BucketOK
    <2> QED
      BY <2>1, <2>2
  <1>10. BucketOK(r)
    BY <1>9 DEF BucketOK
  <1>11. \A c \in Dir, w \in Suspend :
            w # "BW" => (w \in r.suspended[c] <=> w \in s.suspended[c])
    BY <1>8
  <1>12. BevOK(r, g)
    BY <1>3, <1>6, <1>7, <1>10, <1>11, BucketKeeps DEF Bucket
  <1> QED
    BY <1>3, <1>12 DEF r, t

(***************************************************************************)
(* The bucket has tokens: its direction goes on, and the timer is only     *)
(* taken away when the other direction does not wait for it.               *)
(***************************************************************************)
LEMMA WetKeeps ==
  ASSUME NEW s, NEW g, BevOK(s, g), NEW d \in Dir, NEW x \in Int, NEW q, Tokens(s, q, d, x),
         x > 0
  PROVE  LET r == bufferevent_unsuspend_(
                      [q EXCEPT !.refill = @ /\ "BW" \in q.suspended[Other(d)]], d, "BW")
         IN  BevOK(r, g) /\ Only(s, r, Bucket)
  <1> DEFINE e == q.refill /\ "BW" \in q.suspended[Other(d)]
             p == [q EXCEPT !.refill = e]
             r == bufferevent_unsuspend_(p, d, "BW")
  <1>0. /\ Shape(s) /\ BucketOK(s) /\ Shape(q) /\ EventsOK(q) /\ Only(s, q, Bucket)
        /\ q.limit[d] = x /\ \A c \in Dir : c # d => q.limit[c] = s.limit[c]
        /\ q.suspended = s.suspended /\ q.cfg = s.cfg /\ q.life = s.life
        /\ q.refill = s.refill
    BY TokensKept
  <1>1. s.refill /\ "BW" \in s.suspended[Other(d)] => e
    BY <1>0
  <1> HIDE DEF e
  <1>2. Only(q, p, {"refill"}) /\ p.refill = e
    BY <1>0 DEF Only, Fields, Shape
  <1> HIDE DEF p
  <1>3. /\ p.suspended = q.suspended /\ p.limit = q.limit /\ p.cfg = q.cfg
        /\ p.life = q.life /\ p.enabled = q.enabled /\ p.ev = q.ev
        /\ p.timer = q.timer /\ p.timeout = q.timeout /\ p.dropped = q.dropped
        /\ p.len = q.len /\ p.connecting = q.connecting /\ p.then = q.then
        /\ p.run = q.run /\ p.high = q.high /\ DOMAIN p = Fields
    BY <1>2 DEF Only, Fields
  <1>4. Shape(p) /\ EventsOK(p)
    BY <1>0, <1>3 DEF Shape, EventsOK, On, Rechecks
  <1>5. /\ Only(p, r, {"suspended", "ev", "timer", "dropped"})
        /\ r.suspended = Without(p, d, "BW") /\ Shape(r) /\ EventsOK(r)
    BY <1>4, Unsuspending
  <1> HIDE DEF r
  <1>6. Only(s, r, Bucket)
    <2>1. {"suspended", "ev", "timer", "dropped"} \subseteq Bucket /\ {"refill"} \subseteq Bucket
      BY DEF Switches, Bucket
    <2>2. Only(s, p, Bucket)
      BY <1>0, <1>2, <2>1, OnlyTrans
    <2> QED
      BY <1>5, <2>1, <2>2, OnlyTrans
  <1>7. r.limit = q.limit /\ r.cfg = s.cfg /\ r.life = s.life /\ r.refill = e
    BY <1>0, <1>2, <1>3, <1>5 DEF Only, Fields
  <1>8. /\ \A c \in Dir : c # d => r.suspended[c] = s.suspended[c]
        /\ r.suspended[d] = s.suspended[d] \ {"BW"}
    BY <1>0, <1>3, <1>5 DEF Without, Shape
  <1>9. \A c \in Dir : c # d => c = Other(d)
    BY DEF Other, Dir, READ, WRITE
  <1>10. e => r.refill
    BY <1>7
  <1>11. ASSUME r.life = "live", NEW c \in Dir
         PROVE  /\ "BW" \in r.suspended[c] => r.refill
                /\ r.cfg /\ r.limit[c] <= 0 => "BW" \in r.suspended[c]
    <2>1. CASE c = d
      BY <1>0, <1>7, <1>8, <2>1
    <2>2. CASE c # d
      BY <1>0, <1>1, <1>7, <1>8, <1>9, <1>10, <1>11, <2>2 DEF BucketOK
    <2> QED
      BY <2>1, <2>2
  <1>12. BucketOK(r)
    BY <1>11 DEF BucketOK
  <1>13. \A c \in Dir, w \in Suspend :
            w # "BW" => (w \in r.suspended[c] <=> w \in s.suspended[c])
    BY <1>8
  <1>14. BevOK(r, g)
    BY <1>5, <1>6, <1>12, <1>13, BucketKeeps DEF Bucket
  <1> QED
    BY <1>6, <1>14 DEF r, p, e

(* The bucket is as empty or as full as it was. *)
LEMMA SameKeeps ==
  ASSUME NEW s, NEW g, BevOK(s, g), NEW d \in Dir, NEW x \in Int, NEW q, Tokens(s, q, d, x),
         s.life = "live" /\ s.cfg /\ x <= 0 => "BW" \in s.suspended[d]
  PROVE  BevOK(q, g) /\ Only(s, q, Bucket)
  <1>1. /\ BucketOK(s) /\ Shape(q) /\ EventsOK(q) /\ Only(s, q, Bucket)
        /\ q.limit[d] = x /\ \A c \in Dir : c # d => q.limit[c] = s.limit[c]
        /\ q.suspended = s.suspended /\ q.cfg = s.cfg /\ q.life = s.life
        /\ q.refill = s.refill
    BY TokensKept
  <1>2. BucketOK(q)
    BY <1>1 DEF BucketOK
  <1> QED
    BY <1>1, <1>2, BucketKeeps DEF Bucket

(* The tokens of the bytes that were moved leave the own bucket. *)
LEMMA DecrementOwnKeeps ==
  ASSUME NEW s, NEW g, BevOK(s, g), NEW d \in Dir, NEW n \in Nat
  PROVE  LET r == DecrementOwn(s, d, n)
         IN  BevOK(r, g) /\ Only(s, r, Bucket)
  <1> DEFINE q == [s EXCEPT !.limit[d] = @ - n]
             x == s.limit[d] - n
             dry == [bufferevent_suspend_(q, d, "BW") EXCEPT !.refill = TRUE]
             wet == bufferevent_unsuspend_(
                        [q EXCEPT !.refill = @ /\ "BW" \in q.suspended[Other(d)]], d, "BW")
             r == DecrementOwn(s, d, n)
  <1>0. Shape(s) /\ DOMAIN s = Fields /\ x \in Int
    BY DEF BevOK, Rest, Shape
  <1>1. CASE ~s.cfg
    BY <1>0, <1>1, OnlyRefl DEF DecrementOwn
  <1>2. Tokens(s, q, d, x)
    BY <1>0 DEF Tokens, Only, Fields, Shape
  <1>3. s.cfg => r = IF q.limit[d] <= 0 THEN dry
                     ELSE IF "BW" \in q.suspended[d] THEN wet ELSE q
    BY DEF DecrementOwn
  <1> HIDE DEF q, x
  <1>4. q.limit[d] = x /\ q.suspended = s.suspended
    BY <1>0, <1>2, TokensKept
  <1>5. BevOK(dry, g) /\ Only(s, dry, Bucket)
    BY <1>0, <1>2, DryKeeps
  <1>6. x > 0 => BevOK(wet, g) /\ Only(s, wet, Bucket)
    BY <1>0, <1>2, WetKeeps
  <1>7. x > 0 => BevOK(q, g) /\ Only(s, q, Bucket)
    BY <1>0, <1>2, SameKeeps
  <1> HIDE DEF r, dry, wet
  <1>8. s.cfg => BevOK(r, g) /\ Only(s, r, Bucket)
    BY <1>0, <1>3, <1>4, <1>5, <1>6, <1>7
  <1> QED
    BY <1>1, <1>8 DEF r

-----------------------------------------------------------------------------
(* Groups *)

GroupType == [limit : [Dir -> Int], suspended : [Dir -> BOOLEAN],
              pending_unsuspend : [Dir -> BOOLEAN]]

(* A group without tokens is suspended and nobody is about to end it. *)
DryOK(g, d) == g.limit[d] <= 0 => g.suspended[d] /\ ~g.pending_unsuspend[d]

(* Every bufferevent of B is in order in the group g. *)
AllOK(B, g) == DOMAIN B = Bev /\ \A c \in Bev : BevOK(B[c], g)

(* Only the switches of the bufferevents were touched. *)
AllKept(B, C) == \A c \in Bev : Only(B[c], C[c], Switches)

(* The group suspends the members it can lock. *)
LEMMA GroupSuspendKeeps ==
  ASSUME NEW b, NEW B, NEW g, NEW d \in Dir, AllOK(B, g), g \in GroupType,
         \A e \in Dir : e # d => DryOK(g, e)
  PROVE  LET p == bev_group_suspend_(b, B, g, d)
         IN  AllOK(p.B, p.g) /\ AllKept(B, p.B) /\ GroupOK(p.g)
  <1> DEFINE h == [g EXCEPT !.suspended[d] = TRUE, !.pending_unsuspend[d] = FALSE]
             C == [c \in Bev |-> IF c \in Reached(b, B)
                                 THEN bufferevent_suspend_(B[c], d, "BW_GROUP") ELSE B[c]]
  <1>1. bev_group_suspend_(b, B, g, d).B = C /\ bev_group_suspend_(b, B, g, d).g = h
    BY DEF bev_group_suspend_
  <1>2. /\ h \in GroupType /\ h.limit = g.limit
        /\ h.suspended = [g.suspended EXCEPT ![d] = TRUE]
        /\ h.pending_unsuspend = [g.pending_unsuspend EXCEPT ![d] = FALSE]
    BY DEF GroupType
  <1> HIDE DEF h
  <1>3. /\ h.suspended[d] /\ ~h.pending_unsuspend[d]
        /\ \A e \in Dir : e # d => /\ h.suspended[e] = g.suspended[e]
                                  /\ h.pending_unsuspend[e] = g.pending_unsuspend[e]
    BY <1>2 DEF GroupType
  <1>4. GroupOK(h)
    BY <1>2, <1>3 DEF GroupOK, GroupType, DryOK
  <1>5. \A e \in Dir : Wakes(g, e) => Wakes(h, e)
    BY <1>3 DEF Wakes
  <1>6. \A c \in Bev : BevOK(B[c], h)
    BY <1>5 DEF AllOK, BevOK, Rest, GroupedOK
  <1>7. ASSUME NEW c \in Bev
        PROVE  BevOK(C[c], h) /\ Only(B[c], C[c], Switches)
    <2>1. CASE c \in Reached(b, B)
      <3>1. C[c] = bufferevent_suspend_(B[c], d, "BW_GROUP")
        BY <2>1
      <3>2. B[c].member /\ Wakes(h, d)
        BY <1>3, <2>1 DEF Reached, Members, Wakes
      <3> HIDE DEF C
      <3>3. Only(B[c], C[c], Switches) /\ Rest(C[c], h) /\ WaterOK(C[c])
        BY <1>6, <3>1, <3>2, SuspendKeeps DEF BevOK
      <3> QED
        BY <3>3 DEF BevOK
    <2>2. CASE c \notin Reached(b, B)
      <3>1. C[c] = B[c] /\ DOMAIN B[c] = Fields
        BY <2>2 DEF AllOK, BevOK, Rest, Shape
      <3> QED
        BY <1>6, <3>1, OnlyRefl
    <2> QED
      BY <2>1, <2>2
  <1>8. DOMAIN C = Bev
    OBVIOUS
  <1> HIDE DEF C
  <1> QED
    BY <1>1, <1>4, <1>7, <1>8 DEF AllOK, AllKept

(***************************************************************************)
(* The group lets its members go on; when it could not lock one it tries   *)
(* again.  A member that is about to suspend itself by what it saw of the  *)
(* group has its lock, so it is one of those.                              *)
(***************************************************************************)
LEMMA GroupUnsuspendKeeps ==
  ASSUME NEW b, NEW B, NEW g, NEW d \in Dir, AllOK(B, g), g \in GroupType,
         \A e \in Dir : DryOK(g, e), g.limit[d] > 0,
         b \in Bev => B[b].seen = {}
  PROVE  LET p == bev_group_unsuspend_(b, B, g, d)
         IN  AllOK(p.B, p.g) /\ AllKept(B, p.B) /\ GroupOK(p.g) /\ p.g.limit = g.limit
  <1> DEFINE x == Reached(b, B) # Members(B)
             h == [g EXCEPT !.suspended[d] = FALSE, !.pending_unsuspend[d] = x]
             C == [c \in Bev |-> IF c \in Reached(b, B)
                                 THEN bufferevent_unsuspend_(B[c], d, "BW_GROUP") ELSE B[c]]
  <1>1. bev_group_unsuspend_(b, B, g, d).B = C /\ bev_group_unsuspend_(b, B, g, d).g = h
    BY DEF bev_group_unsuspend_
  <1>2. x \in BOOLEAN /\ ((\E c \in Members(B) : c \notin Reached(b, B)) => x)
    OBVIOUS
  <1> HIDE DEF x
  <1>3. /\ h \in GroupType /\ h.limit = g.limit
        /\ h.suspended = [g.suspended EXCEPT ![d] = FALSE]
        /\ h.pending_unsuspend = [g.pending_unsuspend EXCEPT ![d] = x]
    BY <1>2 DEF GroupType
  <1> HIDE DEF h
  <1>4. /\ h.pending_unsuspend[d] = x
        /\ \A e \in Dir : e # d => /\ h.suspended[e] = g.suspended[e]
                                  /\ h.pending_unsuspend[e] = g.pending_unsuspend[e]
    BY <1>3 DEF GroupType
  <1>5. GroupOK(h)
    <2>1. ~(g.limit[d] <= 0)
      BY DEF GroupType
    <2> QED
      BY <1>3, <1>4, <2>1 DEF GroupOK, GroupType, DryOK
  <1>6. \A e \in Dir : e # d => (Wakes(g, e) <=> Wakes(h, e))
    BY <1>4 DEF Wakes
  <1>7. ASSUME NEW c \in Bev
        PROVE  BevOK(C[c], h) /\ Only(B[c], C[c], Switches)
    <2>0. BevOK(B[c], g)
      BY DEF AllOK
    <2>1. CASE c \in Reached(b, B)
      <3>1. C[c] = bufferevent_unsuspend_(B[c], d, "BW_GROUP")
        BY <2>1
      <3>2. B[c].seen = {}
        BY <2>0, <2>1 DEF Reached, Locked, BevOK, Rest, WorkOK
      <3> HIDE DEF C
      <3>3. /\ Only(B[c], C[c], Switches) /\ Rest(C[c], g) /\ WaterOK(C[c])
            /\ C[c].suspended = Without(B[c], d, "BW_GROUP")
        BY <2>0, <3>1, UnsuspendKeeps DEF BevOK, Suspend
      <3>4. C[c].seen = {} /\ "BW_GROUP" \notin C[c].suspended[d]
        BY <2>0, <3>2, <3>3 DEF Only, Fields, Switches, Without, BevOK, Rest, Shape
      <3>5. GroupedOK(C[c], h)
        BY <1>6, <3>3, <3>4 DEF GroupedOK, Rest
      <3> QED
        BY <3>3, <3>5 DEF BevOK, Rest
    <2>2. CASE c \notin Reached(b, B)
      <3>1. C[c] = B[c] /\ DOMAIN B[c] = Fields
        BY <2>0, <2>2 DEF BevOK, Rest, Shape
      <3> HIDE DEF C
      <3>2. B[c].member => Wakes(h, d)
        BY <1>2, <1>4, <2>2 DEF Members, Wakes
      <3>3. GroupedOK(B[c], h)
        BY <1>6, <2>0, <3>2 DEF GroupedOK, BevOK, Rest
      <3>4. BevOK(B[c], h)
        BY <2>0, <3>3 DEF BevOK, Rest
      <3> QED
        BY <3>1, <3>4, OnlyRefl
    <2> QED
      BY <2>1, <2>2
  <1>8. DOMAIN C = Bev
    OBVIOUS
  <1> HIDE DEF C
  <1> QED
    BY <1>1, <1>3, <1>5, <1>7, <1>8 DEF AllOK, AllKept

(* The tokens leave the group's bucket. *)
LEMMA DecrementGroupKeeps ==
  ASSUME NEW b \in Bev, NEW B, NEW g, NEW d \in Dir, NEW n \in Nat, AllOK(B, g),
         GroupOK(g), B[b].seen = {}
  PROVE  LET p == DecrementGroup(b, B, g, d, n)
         IN  AllOK(p.B, p.g) /\ AllKept(B, p.B) /\ GroupOK(p.g)
  <1> DEFINE h == [g EXCEPT !.limit[d] = @ - n]
             p == DecrementGroup(b, B, g, d, n)
  <1>0. g \in GroupType /\ \A e \in Dir : DryOK(g, e)
    BY DEF GroupOK, GroupType, DryOK
  <1>1. p = IF ~B[b].member THEN [B |-> B, g |-> g]
            ELSE IF h.limit[d] <= 0 THEN bev_group_suspend_(b, B, h, d)
            ELSE IF h.suspended[d] THEN bev_group_unsuspend_(b, B, h, d)
            ELSE [B |-> B, g |-> h]
    BY DEF DecrementGroup
  <1>2. /\ h \in GroupType /\ h.suspended = g.suspended
        /\ h.pending_unsuspend = g.pending_unsuspend
        /\ h.limit = [g.limit EXCEPT ![d] = @ - n]
    BY <1>0 DEF GroupType
  <1> HIDE DEF h, p
  <1>3. h.limit[d] \in Int /\ \A e \in Dir : e # d => DryOK(h, e)
    BY <1>0, <1>2 DEF DryOK, GroupType
  <1>4. AllOK(B, h)
    BY <1>2 DEF AllOK, BevOK, Rest, GroupedOK, Wakes
  <1>5. AllKept(B, B)
    BY OnlyRefl DEF AllOK, AllKept, BevOK, Rest, Shape
  <1>6. CASE ~B[b].member
    BY <1>1, <1>5, <1>6 DEF p
  <1>7. CASE B[b].member /\ h.limit[d] <= 0
    <2>1. p = bev_group_suspend_(b, B, h, d)
      BY <1>1, <1>7
    <2>2. AllOK(p.B, p.g) /\ AllKept(B, p.B) /\ GroupOK(p.g)
      BY <1>2, <1>3, <1>4, <2>1, GroupSuspendKeeps
    <2> QED
      BY <2>2 DEF p
  <1>8. CASE B[b].member /\ ~(h.limit[d] <= 0) /\ h.suspended[d]
    <2>1. p = bev_group_unsuspend_(b, B, h, d)
      BY <1>1, <1>8
    <2>2. h.limit[d] > 0 /\ \A e \in Dir : DryOK(h, e)
      BY <1>3, <1>8 DEF DryOK
    <2>3. AllOK(p.B, p.g) /\ AllKept(B, p.B) /\ GroupOK(p.g)
      BY <1>2, <1>4, <2>1, <2>2, GroupUnsuspendKeeps
    <2> QED
      BY <2>3 DEF p
  <1>9. CASE B[b].member /\ ~(h.limit[d] <= 0) /\ ~h.suspended[d]
    <2>1. p = [B |-> B, g |-> h]
      BY <1>1, <1>9
    <2>2. GroupOK(h)
      BY <1>2, <1>3, <1>9 DEF DryOK, GroupOK, GroupType
    <2> QED
      BY <1>4, <1>5, <2>1, <2>2 DEF p
  <1> QED
    BY <1>6, <1>7, <1>8, <1>9

(* Both halves, after b moved n bytes. *)
LEMMA DecrementKeeps ==
  ASSUME IInv, NEW b \in Bev, NEW s, BevOK(s, group), s.seen = {}, NEW d \in Dir,
         NEW n \in Nat
  PROVE  LET p == bufferevent_decrement_buckets_(b, s, d, n)
         IN  /\ AllOK(p.B, p.g) /\ GroupOK(p.g)
             /\ \A c \in Bev \ {b} : Only(bev[c], p.B[c], Switches)
             /\ Only(s, p.B[b], Bucket)
  <1> DEFINE q == DecrementOwn(s, d, n)
             B == [bev EXCEPT ![b] = q]
             p == DecrementGroup(b, B, group, d, n)
  <1>1. bufferevent_decrement_buckets_(b, s, d, n) = p
    BY DEF bufferevent_decrement_buckets_
  <1>2. BevOK(q, group) /\ Only(s, q, Bucket)
    BY DecrementOwnKeeps
  <1> HIDE DEF q
  <1>3. /\ DOMAIN B = Bev /\ B[b] = q
        /\ \A c \in Bev \ {b} : B[c] = bev[c]
    BY DEF IInv
  <1> HIDE DEF B
  <1>4. AllOK(B, group)
    BY <1>2, <1>3 DEF AllOK, IInv
  <1>5. B[b].seen = {}
    BY <1>2, <1>3 DEF Only, Fields, Switches, Bucket
  <1>6. AllOK(p.B, p.g) /\ AllKept(B, p.B) /\ GroupOK(p.g)
    BY <1>4, <1>5, DecrementGroupKeeps DEF IInv
  <1> HIDE DEF p
  <1>7. Only(q, p.B[b], Switches)
    BY <1>3, <1>6 DEF AllKept
  <1>8. Only(s, p.B[b], Bucket)
    BY <1>2, <1>7, OnlyTrans DEF Bucket
  <1>9. \A c \in Bev \ {b} : Only(bev[c], p.B[c], Switches)
    BY <1>3, <1>6 DEF AllKept
  <1> QED
    BY <1>1, <1>6, <1>8, <1>9

-----------------------------------------------------------------------------
(* One step of the program *)

(* What every step must show. *)
Advance == IInv' /\ \A b \in Bev : Quiet(bev[b], bev'[b])

(* A step of one bufferevent. *)
LEMMA OneStep ==
  ASSUME IInv, NEW b \in Bev, NEW r, bev' = [bev EXCEPT ![b] = r], group' = group,
         BevOK(r, group), Quiet(bev[b], r)
  PROVE  Advance
  <1>1. /\ DOMAIN bev' = Bev /\ bev'[b] = r
        /\ \A c \in Bev \ {b} : bev'[c] = bev[c]
    BY DEF IInv
  <1>2. IInv'
    BY <1>1 DEF IInv
  <1>3. \A c \in Bev : Quiet(bev[c], bev'[c])
    BY <1>1 DEF Quiet
  <1> QED
    BY <1>2, <1>3 DEF Advance

(* A step of a handler, which may be its last. *)
LEMMA HandlerStep ==
  ASSUME IInv, NEW b \in Bev, NEW r, Step(b, r), BevOK(r, group), r.then # <<>>,
         Quiet(bev[b], r)
  PROVE  Advance
  <1>1. BevOK(Return(r), group) /\ Return(r).run = r.run
    BY ReturnKeeps
  <1>2. Quiet(bev[b], Return(r))
    BY <1>1 DEF Quiet
  <1> QED
    BY <1>1, <1>2, OneStep DEF Step

(* A call of the user, who holds the bufferevent. *)
LEMMA CallStep ==
  ASSUME IInv, NEW b \in Bev, NEW r, Call(b, r), BevOK(r, group)
  PROVE  Advance
  BY OneStep DEF Call, MayCall, Quiet

(* What the lock and the reference of a call say. *)
LEMMA Callable ==
  ASSUME IInv, NEW b \in Bev, MayCall(b)
  PROVE  BevOK(bev[b], group) /\ bev[b].life = "live" /\ bev[b].seen = {}
         /\ DOMAIN bev[b] = Fields
  BY DEF IInv, MayCall, BevOK, Rest, RefOK, One, WorkOK, Shape

(* A handler in its last step. *)
Ending(s) == s.life = "live" /\ s.then = <<"done">> /\ s.run = None

(* It may begin any callback. *)
LEMMA EndingRuns ==
  ASSUME NEW s, Ending(s), NEW cb, NEW defer
  PROVE  MayRun(s, cb, defer) /\ s.then # <<>>
  BY JustDone DEF Ending, MayRun, AllLater, Later

(* A handler that begins. *)
LEMMA Entered ==
  ASSUME IInv, NEW b \in Bev, Ready(b)
  PROVE  LET s == Enter(bev[b])
         IN  /\ Only(bev[b], s, {"refcnt", "then"}) /\ BevOK(s, group) /\ Ending(s)
             /\ s.held = bev[b].held /\ s.run = bev[b].run
             /\ s.member => Members(bev) # {}
  <1> DEFINE s == Enter(bev[b])
  <1>1. /\ Only(bev[b], s, {"refcnt", "then"}) /\ BevOK(s, group)
        /\ s.then = <<"done">> /\ s.run = None
    BY EnterKeeps DEF IInv, Ready
  <1> HIDE DEF s
  <1>2. /\ s.held = bev[b].held /\ s.run = bev[b].run /\ s.member = bev[b].member
        /\ s.life = bev[b].life
    BY <1>1 DEF Only, Fields
  <1>3. s.member => Members(bev) # {}
    BY <1>2 DEF Members
  <1> QED
    BY <1>1, <1>2, <1>3 DEF Ending, Ready, s

(* The label "error". *)
LEMMA FailKeeps ==
  ASSUME NEW s, NEW g, BevOK(s, g), Ending(s), NEW b, NEW d \in Dir
  PROVE  LET r == Fail(b, s, d) IN BevOK(r, g) /\ r.then # <<>> /\ Quiet(s, r)
  <1> DEFINE q == bufferevent_disable(s, {d})
             r == RunCallback(b, q, "EVENT", FALSE)
  <1>1. Only(s, q, Switches) /\ BevOK(q, g)
    BY DisableKeeps
  <1> HIDE DEF q
  <1>2. q.life = s.life /\ q.then = s.then /\ q.run = s.run /\ q.held = s.held
    BY <1>1 DEF Only, Fields, Switches
  <1>3. Ending(q)
    BY <1>2 DEF Ending
  <1>4. BevOK(r, g) /\ Quiet(q, r) /\ r.then # <<>>
    BY <1>1, <1>3, EndingRuns, CallbackKeeps
  <1>5. Fail(b, s, d) = r
    BY DEF Fail, q
  <1> HIDE DEF r
  <1> QED
    BY <1>2, <1>4, <1>5 DEF Quiet

(* A timeout of an event. *)
LEMMA TimeoutStep ==
  ASSUME IInv, NEW b \in Bev, NEW d \in Dir, Timeout(b, d)
  PROVE  Advance
  <1> DEFINE s == Enter(bev[b])
             r == Fail(b, s, d)
  <1>1. Ready(b) /\ Step(b, r)
    BY DEF Timeout
  <1>2. BevOK(s, group) /\ Ending(s) /\ s.held = bev[b].held /\ s.run = bev[b].run
    BY <1>1, Entered
  <1> HIDE DEF s
  <1>3. BevOK(r, group) /\ r.then # <<>> /\ Quiet(s, r)
    BY <1>2, FailKeeps
  <1> HIDE DEF r
  <1>4. Quiet(bev[b], r)
    BY <1>2, <1>3 DEF Quiet
  <1> QED
    BY <1>1, <1>3, <1>4, HandlerStep

(* The clock may stand still. *)
LEMMA TicksFromZero == 0 \in Ticks
  BY BevAssumption DEF Ticks

(* The first half of reading. *)
LEMMA ReadcbStep ==
  ASSUME IInv, NEW b \in Bev, bufferevent_readcb(b)
  PROVE  Advance
  <1> DEFINE s == Enter(bev[b])
  <1>1. Ready(b)
    BY DEF bufferevent_readcb
  <1>2. /\ BevOK(s, group) /\ Ending(s) /\ s.held = bev[b].held /\ s.run = bev[b].run
        /\ s.member => Members(bev) # {}
    BY <1>1, Entered
  <1>3. \/ s.high # 0 /\ s.len[READ] >= s.high /\ Step(b, bufferevent_suspend_(s, READ, "WM"))
        \/ \E n \in Ticks : Step(b, LookAtLimits(s, READ, n, "read"))
    BY BevAssumption DEF bufferevent_readcb, Ticks
  <1> HIDE DEF s
  <1>4. READ \in Dir /\ s.then # <<>>
    BY <1>2, JustDone DEF Dir, Ending, AllLater
  <1>5. CASE s.high # 0 /\ s.len[READ] >= s.high
             /\ Step(b, bufferevent_suspend_(s, READ, "WM"))
    <2> DEFINE r == bufferevent_suspend_(s, READ, "WM")
    <2>1. Only(s, r, Switches) /\ Rest(r, group) /\ r.suspended = With(s, READ, "WM")
      BY <1>2, <1>4, SuspendKeeps DEF BevOK
    <2>2. Step(b, r)
      BY <1>5
    <2> HIDE DEF r
    <2>3. /\ r.high = s.high /\ r.len = s.len /\ r.then = s.then /\ r.run = s.run
          /\ "WM" \in r.suspended[READ]
      BY <1>2, <1>4, <2>1 DEF Only, Fields, Switches, With, BevOK, Rest, Shape
    <2>4. BevOK(r, group)
      BY <1>5, <2>1, <2>3 DEF BevOK, WaterOK
    <2> QED
      BY <1>2, <1>4, <2>2, <2>3, <2>4, HandlerStep DEF Quiet
  <1>6. ASSUME NEW n \in Ticks, Step(b, LookAtLimits(s, READ, n, "read"))
        PROVE  Advance
    <2> DEFINE r == LookAtLimits(s, READ, n, "read")
    <2>1. BevOK(r, group) /\ r.run = s.run /\ r.then # <<>>
      BY <1>2, <1>4, LookKeeps DEF Ending, IInv
    <2>2. Step(b, r)
      BY <1>6
    <2> HIDE DEF r
    <2> QED
      BY <1>2, <2>1, <2>2, HandlerStep DEF Quiet
  <1> QED
    BY <1>3, <1>5, <1>6

(* A handler past its look at the limits. *)
LEMMA Moving ==
  ASSUME IInv, NEW b \in Bev, bev[b].then # <<>>, bev[b].run = None,
         Head(bev[b].then) \in {"read", "write", "write_connected"}
  PROVE  LET s == [bev[b] EXCEPT !.then = <<"done">>]
         IN  /\ Only(bev[b], s, {"then"}) /\ BevOK(s, group) /\ Ending(s)
             /\ s.held = bev[b].held /\ s.run = bev[b].run /\ s.seen = {}
             /\ s.len = bev[b].len
  <1> DEFINE s == [bev[b] EXCEPT !.then = <<"done">>]
  <1>0. BevOK(bev[b], group) /\ WorkOK(bev[b]) /\ RefOK(bev[b])
    BY DEF IInv, BevOK, Rest
  <1>1. bev[b].then[1] \in {"read", "write", "write_connected"}
    BY <1>0 DEF WorkOK
  <1>2. Only(bev[b], s, {"then"}) /\ BevOK(s, group) /\ s.then = <<"done">>
    BY <1>0, <1>1, JustDone, NextStep
  <1> HIDE DEF s
  <1>3. /\ s.held = bev[b].held /\ s.run = bev[b].run /\ s.seen = bev[b].seen
        /\ s.life = bev[b].life /\ s.len = bev[b].len
    BY <1>2 DEF Only, Fields
  <1>4. bev[b].seen = {}
    BY <1>0, <1>1 DEF WorkOK
  <1>5. bev[b].life = "live"
    BY <1>0 DEF RefOK, One
  <1> QED
    BY <1>2, <1>3, <1>4, <1>5 DEF Ending, s

(* A step of b's handler that may touch the others of its group. *)
LEMMA GroupStep ==
  ASSUME IInv, NEW b \in Bev, NEW B, NEW g, AllOK(B, g), GroupOK(g),
         \A c \in Bev \ {b} : Only(bev[c], B[c], Switches),
         NEW t, BevOK(t, g), t.then # <<>>, Quiet(bev[b], t),
         bev' = [B EXCEPT ![b] = Return(t)], group' = g
  PROVE  Advance
  <1>1. BevOK(Return(t), g) /\ Return(t).run = t.run
    BY ReturnKeeps
  <1>2. /\ DOMAIN bev' = Bev /\ bev'[b] = Return(t)
        /\ \A c \in Bev \ {b} : bev'[c] = B[c]
    BY DEF AllOK
  <1>3. IInv'
    BY <1>1, <1>2 DEF IInv, AllOK
  <1>4. \A c \in Bev \ {b} : B[c].run = bev[c].run
    BY DEF Only, Fields, Switches
  <1>5. \A c \in Bev : Quiet(bev[c], bev'[c])
    BY <1>1, <1>2, <1>4 DEF Quiet
  <1> QED
    BY <1>3, <1>5 DEF Advance

(* Bytes arrived. *)
LEMMA ReceivedStep ==
  ASSUME IInv, NEW b \in Bev, bev[b].then # <<>>, bev[b].run = None,
         Head(bev[b].then) = "read", NEW n \in Nat, Received(b, n)
  PROVE  Advance
  <1> DEFINE s == [bev[b] EXCEPT !.then = <<"done">>]
             q == SetInput(s, s.len[READ] + n)
             p == bufferevent_decrement_buckets_(b, q, READ, n)
             t == bufferevent_trigger_nolock_(b, p.B[b], READ, FALSE)
  <1>0. bev' = [p.B EXCEPT ![b] = Return(t)] /\ group' = p.g /\ READ \in Dir
    BY DEF Received, Dir
  <1>1. /\ BevOK(s, group) /\ Ending(s) /\ s.held = bev[b].held /\ s.run = bev[b].run
        /\ s.seen = {}
    BY Moving
  <1> HIDE DEF s
  <1>2. s.len[READ] + n \in Nat
    BY <1>0, <1>1 DEF BevOK, Rest, Shape
  <1>3. Only(s, q, Switches \cup {"len"}) /\ BevOK(q, group)
    BY <1>1, <1>2, SetInputKeeps
  <1> HIDE DEF q
  <1>4. /\ q.seen = s.seen /\ q.life = s.life /\ q.then = s.then /\ q.run = s.run
        /\ q.held = s.held
    BY <1>3 DEF Only, Fields, Switches
  <1>5. /\ AllOK(p.B, p.g) /\ GroupOK(p.g)
        /\ \A c \in Bev \ {b} : Only(bev[c], p.B[c], Switches)
        /\ Only(q, p.B[b], Bucket)
    BY <1>0, <1>1, <1>3, <1>4, DecrementKeeps
  <1> HIDE DEF p
  <1>6. /\ p.B[b].life = q.life /\ p.B[b].then = q.then /\ p.B[b].run = q.run
        /\ p.B[b].held = q.held
    BY <1>5 DEF Only, Fields, Bucket, Switches
  <1>7. BevOK(p.B[b], p.g) /\ Ending(p.B[b])
    BY <1>1, <1>4, <1>5, <1>6 DEF AllOK, Ending
  <1>8. BevOK(t, p.g) /\ Quiet(p.B[b], t) /\ t.then # <<>>
    <2> DEFINE u == p.B[b]
               g == p.g
    <2>1. BevOK(u, g) /\ MayRun(u, READ, FALSE) /\ u.then # <<>>
      BY <1>7, EndingRuns
    <2> HIDE DEF u, g
    <2>2. LET r == bufferevent_trigger_nolock_(b, u, READ, FALSE)
          IN  BevOK(r, g) /\ Quiet(u, r) /\ r.then # <<>>
      BY <1>0, <2>1, TriggerKeeps
    <2> QED
      BY <2>2 DEF u, g
  <1> HIDE DEF t
  <1>9. Quiet(bev[b], t)
    BY <1>1, <1>4, <1>6, <1>8 DEF Quiet
  <1> QED
    BY <1>0, <1>5, <1>8, <1>9, GroupStep

(* The socket's other answers to a read. *)
LEMMA NotReceivedStep ==
  ASSUME IInv, NEW b \in Bev, bev[b].then # <<>>, bev[b].run = None,
         Head(bev[b].then) = "read", NEW a \in {"retry", "refused", "eof", "error"},
         NotReceived(b, a)
  PROVE  Advance
  <1> DEFINE s == [bev[b] EXCEPT !.then = <<"done">>]
  <1>0. /\ a = "retry" => Step(b, s)
        /\ a = "refused" => Step(b, [s EXCEPT !.refused = TRUE])
        /\ a \in {"eof", "error"} => Step(b, Fail(b, s, READ))
        /\ READ \in Dir
    BY DEF NotReceived, Dir
  <1>1. /\ BevOK(s, group) /\ Ending(s) /\ s.held = bev[b].held /\ s.run = bev[b].run
    BY Moving
  <1> HIDE DEF s
  <1>2. s.then # <<>>
    BY <1>1, EndingRuns
  <1>3. CASE a = "retry"
    BY <1>0, <1>1, <1>2, <1>3, HandlerStep DEF Quiet
  <1>4. CASE a = "refused"
    <2> DEFINE r == [s EXCEPT !.refused = TRUE]
    <2>1. Only(s, r, {"refused"})
      BY <1>1 DEF Only, Fields, BevOK, Rest, Shape
    <2>2. Step(b, r)
      BY <1>0, <1>4
    <2> HIDE DEF r
    <2>3. /\ WorkOK(r) /\ RefOK(r) /\ r.life = s.life /\ r.then = s.then
          /\ r.run = s.run /\ r.seen = s.seen
      BY <1>1, <2>1, ControlKept DEF Control, BevOK, Rest
    <2>4. Only(s, r, Steps)
      BY <2>1 DEF Only, Steps
    <2>5. BevOK(r, group)
      BY <1>1, <2>3, <2>4, StepsOnly DEF Rechecks
    <2> QED
      BY <1>1, <1>2, <2>2, <2>3, <2>5, HandlerStep DEF Quiet
  <1>5. CASE a \in {"eof", "error"}
    <2> DEFINE r == Fail(b, s, READ)
    <2>1. BevOK(r, group) /\ r.then # <<>> /\ Quiet(s, r)
      BY <1>0, <1>1, FailKeeps
    <2>2. Step(b, r)
      BY <1>0, <1>5
    <2> HIDE DEF r
    <2> QED
      BY <1>1, <2>1, <2>2, HandlerStep DEF Quiet
  <1> QED
    BY <1>3, <1>4, <1>5

(* Reading. *)
LEMMA ReadStep ==
  ASSUME IInv, NEW b \in Bev, Read(b)
  PROVE  Advance
  <1>1. /\ bev[b].then # <<>> /\ bev[b].run = None /\ Head(bev[b].then) = "read"
        /\ \/ \E n \in Nat : Received(b, n)
           \/ \E a \in {"retry", "refused", "eof", "error"} : NotReceived(b, a)
    <2>1. \A n \in 1 .. bev[b].amount : n \in Nat
      OBVIOUS
    <2> QED
      BY <2>1 DEF Read
  <1> QED
    BY <1>1, ReceivedStep, NotReceivedStep

(* A step that changes the events and what its handler has left at once. *)
LEMMA Assembled ==
  ASSUME NEW s, NEW r, NEW g, BevOK(s, g), Only(s, r, Steps \cup Listening),
         r.enabled \subseteq Dir, EventsOK(r), WorkOK(r), RefOK(r),
         r.life = "live" => s.life = "live", r.seen \subseteq s.seen
  PROVE  BevOK(r, g)
  <1>1. /\ DOMAIN r = Fields
        /\ r.suspended = s.suspended /\ r.high = s.high /\ r.len = s.len
        /\ r.refill = s.refill /\ r.cfg = s.cfg /\ r.limit = s.limit
        /\ r.member = s.member
    BY DEF Only, Fields, Steps, Control, Listening
  <1>2. Shape(r)
    BY <1>1 DEF Shape, BevOK, Rest
  <1>3. BucketOK(r) /\ WaterOK(r) /\ GroupedOK(r, g)
    BY <1>1 DEF BucketOK, WaterOK, GroupedOK, BevOK, Rest
  <1> QED
    BY <1>2, <1>3 DEF BevOK, Rest

(* The two steps of a handler that goes on after a callback. *)
LEMMA TwoSteps ==
  ASSUME NEW x \in Work
  PROVE  /\ <<x, "done">> \in Seq(Work) /\ <<x, "done">> # <<>>
         /\ Len(<<x, "done">>) = 2 /\ <<x, "done">>[1] = x /\ <<x, "done">>[2] = "done"
         /\ Head(<<x, "done">>) = x
  <1>1. "done" \in Work
    BY DEF Work, Later
  <1> QED
    BY <1>1

(* The connect failed: no events are left. *)
LEMMA RefusedKeeps ==
  ASSUME NEW s, NEW g, BevOK(s, g)
  PROVE  LET r == [event_del([s EXCEPT !.connecting = FALSE, !.refused = FALSE], Dir)
                      EXCEPT !.dropped = Dir]
         IN  /\ BevOK(r, g)
             /\ Only(s, r, {"connecting", "refused", "ev", "timer", "dropped"})
  <1> DEFINE q == [s EXCEPT !.connecting = FALSE, !.refused = FALSE]
             p == event_del(q, Dir)
             r == [p EXCEPT !.dropped = Dir]
             F == {"connecting", "refused", "ev", "timer", "dropped"}
  <1>0. DOMAIN s = Fields /\ Shape(s) /\ EventsOK(s)
    BY DEF BevOK, Rest, Shape
  <1>1. Only(s, q, {"connecting", "refused"})
    BY <1>0 DEF Only, Fields
  <1> HIDE DEF q
  <1>2. /\ DOMAIN q = Fields /\ q.ev = s.ev /\ q.timer = s.timer /\ q.life = s.life
    BY <1>1 DEF Only, Fields
  <1>3. /\ Only(q, p, {"ev", "timer"})
        /\ s.life = "live" => p.ev = s.ev \ Dir /\ p.timer = s.timer \ Dir
    BY <1>2, EventDel
  <1> HIDE DEF p
  <1>4. Only(p, r, {"dropped"}) /\ r.dropped = Dir
    BY <1>3 DEF Only, Fields
  <1> HIDE DEF r
  <1>5. Only(s, r, F)
    <2>1. Only(s, p, {"connecting", "refused", "ev", "timer"})
      BY <1>1, <1>3, OnlyTrans
    <2> QED
      BY <1>4, <2>1, OnlyTrans
  <1>6. /\ r.enabled = s.enabled /\ r.timeout = s.timeout
        /\ r.life = s.life /\ r.ev = p.ev /\ r.timer = p.timer /\ r.seen = s.seen
    BY <1>4, <1>5 DEF Only, Fields
  <1>7. WorkOK(r) /\ RefOK(r)
    BY <1>5, ControlKept DEF Control, BevOK, Rest
  <1>8. EventsOK(r)
    <2>1. READ \in Dir /\ WRITE \in Dir
      BY DEF Dir
    <2> QED
      BY <1>0, <1>3, <1>4, <1>6, <2>1 DEF EventsOK
  <1>9. Only(s, r, Steps \cup Listening)
    BY <1>5 DEF Only, Steps, Listening
  <1>10. BevOK(r, g)
    BY <1>0, <1>6, <1>7, <1>8, <1>9, Assembled DEF Shape
  <1> QED
    BY <1>5, <1>10 DEF r, p, q

(* The connect is done: the handler looks at the write event again. *)
LEMMA ConnectedKeeps ==
  ASSUME NEW s, NEW g, BevOK(s, g), Ending(s)
  PROVE  LET r == [s EXCEPT !.connecting = FALSE, !.refused = FALSE,
                            !.then = <<"recheck", "done">>]
         IN  /\ BevOK(r, g) /\ r.then = <<"recheck", "done">>
             /\ Only(s, r, {"connecting", "refused", "then"})
  <1> DEFINE r == [s EXCEPT !.connecting = FALSE, !.refused = FALSE,
                            !.then = <<"recheck", "done">>]
  <1>0. DOMAIN s = Fields /\ Shape(s) /\ EventsOK(s) /\ WorkOK(s) /\ RefOK(s)
    BY DEF BevOK, Rest, Shape
  <1>1. Only(s, r, {"connecting", "refused", "then"}) /\ r.then = <<"recheck", "done">>
    BY <1>0 DEF Only, Fields
  <1> HIDE DEF r
  <1>2. /\ r.enabled = s.enabled /\ r.timeout = s.timeout /\ r.suspended = s.suspended
        /\ r.life = s.life /\ r.ev = s.ev /\ r.timer = s.timer /\ r.dropped = s.dropped
        /\ r.len = s.len /\ r.run = s.run /\ r.seen = s.seen /\ r.held = s.held
        /\ r.sched = s.sched /\ r.dns = s.dns /\ r.callbacks = s.callbacks
        /\ r.refcnt = s.refcnt
    BY <1>1 DEF Only, Fields
  <1>3. "recheck" \in Work
    BY DEF Work
  <1>4. /\ r.then \in Seq(Work) /\ r.then # <<>> /\ Len(r.then) = 2
        /\ r.then[1] = "recheck" /\ r.then[2] = "done" /\ Head(r.then) = "recheck"
    BY <1>1, <1>3, TwoSteps
  <1>5. s.seen = {} /\ s.run = None /\ s.then # <<>>
    BY <1>0, JustDone DEF Ending, WorkOK, AllLater
  <1>6. WorkOK(r)
    BY <1>2, <1>4, <1>5 DEF WorkOK, Later
  <1>7. RefOK(r)
    BY <1>0, <1>2, <1>4, <1>5 DEF RefOK
  <1>8. Rechecks(r) /\ On(r) = On(s)
    BY <1>2, <1>4, <1>5 DEF Rechecks, On
  <1>9. EventsOK(r)
    BY <1>0, <1>2, <1>8 DEF EventsOK
  <1>10. Only(s, r, Steps \cup Listening)
    BY <1>1 DEF Only, Steps, Control, Listening
  <1>11. BevOK(r, g)
    BY <1>0, <1>2, <1>6, <1>7, <1>9, <1>10, Assembled DEF Shape
  <1> QED
    BY <1>1, <1>11 DEF r

(* The first half of writing, or the end of a connect. *)
LEMMA WritecbStep ==
  ASSUME IInv, NEW b \in Bev, bufferevent_writecb(b)
  PROVE  Advance
  <1> DEFINE s == Enter(bev[b])
             q == [s EXCEPT !.connecting = FALSE, !.refused = FALSE]
             f == [event_del(q, Dir) EXCEPT !.dropped = Dir]
             w == [q EXCEPT !.then = <<"recheck", "done">>]
  <1>1. Ready(b)
    BY DEF bufferevent_writecb
  <1>2. /\ BevOK(s, group) /\ Ending(s) /\ s.held = bev[b].held /\ s.run = bev[b].run
        /\ s.member => Members(bev) # {}
    BY <1>1, Entered
  <1>3. \/ Step(b, s)
        \/ Step(b, RunCallback(b, f, "EVENT", FALSE))
        \/ Step(b, RunCallback(b, w, "CONNECTED", FALSE))
        \/ \E n \in Ticks : Step(b, LookAtLimits(s, WRITE, n, "write"))
    <2>1. CASE s.connecting
      <3> DEFINE u == RunCallback(b, f, "EVENT", FALSE)
                 v == RunCallback(b, w, "CONNECTED", FALSE)
                 x(c) == CASE c = 0 -> s [] c < 0 -> u [] c > 0 -> v
      <3>1. PICK c \in {-1, 0, 1} : Step(b, x(c))
        BY <2>1 DEF bufferevent_writecb
      <3>2. x(c) \in {s, u, v}
        <4> HIDE DEF s, u, v
        <4>1. c = 0 \/ c < 0 \/ c > 0
          OBVIOUS
        <4> QED
          BY <4>1
      <3> HIDE DEF x
      <3> QED
        BY <3>1, <3>2
    <2>2. CASE ~s.connecting
      <3>1. \E n \in IF s.cfg THEN Ticks ELSE {0} : Step(b, LookAtLimits(s, WRITE, n, "write"))
        BY <2>2 DEF bufferevent_writecb
      <3> HIDE DEF s
      <3> QED
        BY <3>1, TicksFromZero
    <2> QED
      BY <2>1, <2>2
  <1> HIDE DEF s
  <1>4. WRITE \in Dir /\ s.then # <<>>
    BY <1>2, EndingRuns DEF Dir
  <1>5. CASE Step(b, s)
    BY <1>2, <1>4, <1>5, HandlerStep DEF Quiet
  <1>6. CASE Step(b, RunCallback(b, f, "EVENT", FALSE))
    <2>1. BevOK(f, group) /\ Only(s, f, {"connecting", "refused", "ev", "timer", "dropped"})
      BY <1>2, RefusedKeeps
    <2> DEFINE r == RunCallback(b, f, "EVENT", FALSE)
    <2> HIDE DEF f
    <2>2. f.life = s.life /\ f.then = s.then /\ f.run = s.run /\ f.held = s.held
      BY <2>1 DEF Only, Fields
    <2>3. MayRun(f, "EVENT", FALSE)
      BY <1>2, <2>2, EndingRuns DEF Ending
    <2>4. BevOK(r, group) /\ Quiet(f, r) /\ r.then # <<>>
      BY <1>4, <2>1, <2>2, <2>3, CallbackKeeps
    <2>5. Step(b, r)
      BY <1>6
    <2> HIDE DEF r
    <2> QED
      BY <1>2, <2>2, <2>4, <2>5, HandlerStep DEF Quiet
  <1>7. CASE Step(b, RunCallback(b, w, "CONNECTED", FALSE))
    <2>0. w = [s EXCEPT !.connecting = FALSE, !.refused = FALSE,
                        !.then = <<"recheck", "done">>]
      OBVIOUS
    <2> DEFINE r == RunCallback(b, w, "CONNECTED", FALSE)
    <2> HIDE DEF w
    <2>1. /\ BevOK(w, group) /\ w.then = <<"recheck", "done">>
          /\ Only(s, w, {"connecting", "refused", "then"})
      BY <1>2, <2>0, ConnectedKeeps
    <2>2. w.life = s.life /\ w.run = s.run /\ w.held = s.held
      BY <2>1 DEF Only, Fields
    <2>3. w.then # <<>> /\ w.then[1] = "recheck"
      BY <2>1
    <2>4. MayRun(w, "CONNECTED", FALSE)
      BY <1>2, <2>2, <2>3 DEF Ending, MayRun
    <2>5. BevOK(r, group) /\ Quiet(w, r) /\ r.then # <<>>
      BY <2>1, <2>3, <2>4, CallbackKeeps
    <2>6. Step(b, r)
      BY <1>7
    <2> HIDE DEF r
    <2> QED
      BY <1>2, <2>2, <2>5, <2>6, HandlerStep DEF Quiet
  <1>8. ASSUME NEW n \in Ticks, Step(b, LookAtLimits(s, WRITE, n, "write"))
        PROVE  Advance
    <2> DEFINE r == LookAtLimits(s, WRITE, n, "write")
    <2>1. BevOK(r, group) /\ r.run = s.run /\ r.then # <<>>
      BY <1>2, <1>4, LookKeeps DEF Ending, IInv
    <2>2. Step(b, r)
      BY <1>8
    <2> HIDE DEF r
    <2> QED
      BY <1>2, <2>1, <2>2, HandlerStep DEF Quiet
  <1> QED
    BY <1>3, <1>5, <1>6, <1>7, <1>8

(* Writing goes on, or not, after the "connected" callback. *)
LEMMA RecheckStep ==
  ASSUME IInv, NEW b \in Bev, Recheck(b)
  PROVE  Advance
  <1> DEFINE o == bev[b]
             s == [o EXCEPT !.then = <<"done">>]
             r == event_del(s, {WRITE})
  <1>0. /\ BevOK(o, group) /\ Shape(o) /\ EventsOK(o) /\ WorkOK(o) /\ RefOK(o)
        /\ DOMAIN o = Fields
    BY DEF IInv, BevOK, Rest, Shape
  <1>1. /\ o.then # <<>> /\ o.run = None /\ o.then[1] = "recheck"
        /\ \/ (WRITE \notin s.enabled \/ s.suspended[WRITE] # {}) /\ Step(b, r)
           \/ /\ WRITE \in s.enabled /\ s.suspended[WRITE] = {}
              /\ \E n \in Ticks : Step(b, LookAtLimits(s, WRITE, n, "write_connected"))
    <2>1. /\ o.then # <<>> /\ o.run = None /\ Head(o.then) = "recheck"
          /\ IF WRITE \notin s.enabled \/ s.suspended[WRITE] # {}
             THEN Step(b, r)
             ELSE \E n \in IF s.cfg THEN Ticks ELSE {0} :
                     Step(b, LookAtLimits(s, WRITE, n, "write_connected"))
      BY DEF Recheck
    <2>2. o.then[1] = "recheck"
      BY <1>0, <2>1 DEF WorkOK
    <2> HIDE DEF s, r, o
    <2> QED
      BY <2>1, <2>2, TicksFromZero
  <1>2. Only(o, s, {"then"}) /\ s.then = <<"done">>
    BY <1>0 DEF Only, Fields
  <1> HIDE DEF s
  <1>3. /\ s.enabled = o.enabled /\ s.suspended = o.suspended /\ s.run = o.run
        /\ s.held = o.held /\ s.life = o.life /\ s.member = o.member /\ s.seen = o.seen
        /\ s.ev = o.ev /\ s.timer = o.timer
    BY <1>2 DEF Only, Fields
  <1>4. o.life = "live" /\ o.seen = {} /\ WRITE \in Dir
    BY <1>0, <1>1 DEF RefOK, One, WorkOK, Dir
  <1>5. Ending(s) /\ s.then # <<>>
    BY <1>1, <1>2, <1>3, <1>4, EndingRuns DEF Ending
  <1>6. CASE WRITE \notin On(o) /\ Step(b, r)
    <2>1. /\ Only(s, r, {"ev", "timer"})
          /\ r.ev = o.ev \ {WRITE} /\ r.timer = o.timer \ {WRITE}
      BY <1>2, <1>3, <1>4, EventDel DEF Only
    <2>2. Step(b, r)
      BY <1>6
    <2> HIDE DEF r
    <2>3. Only(o, r, {"then", "ev", "timer"})
      BY <1>2, <2>1, OnlyTrans
    <2>4. /\ r.enabled = o.enabled /\ r.timeout = o.timeout /\ r.suspended = o.suspended
          /\ r.life = o.life /\ r.dropped = o.dropped /\ r.connecting = o.connecting
          /\ r.len = o.len /\ r.run = o.run /\ r.seen = o.seen /\ r.held = o.held
          /\ r.sched = o.sched /\ r.dns = o.dns /\ r.callbacks = o.callbacks
          /\ r.refcnt = o.refcnt
      BY <2>3 DEF Only, Fields
    <2>5. r.then = <<"done">>
      BY <1>2, <2>1 DEF Only, Fields
    <2>6. On(r) = On(o)
      BY <2>4 DEF On
    <2>7. EventsOK(r)
      BY <1>0, <1>6, <2>1, <2>4, <2>6 DEF EventsOK, READ, WRITE
    <2>8. WorkOK(r)
      BY <1>1, <1>4, <2>4, <2>5, JustDone DEF WorkOK, AllLater
    <2>9. RefOK(r)
      BY <1>0, <1>1, <2>4, <2>5, JustDone DEF RefOK, AllLater
    <2>10. Only(o, r, Steps \cup Listening)
      BY <2>3 DEF Only, Steps, Control, Listening
    <2>11. BevOK(r, group)
      <3> HIDE DEF o
      <3> QED
        BY <1>0, <2>4, <2>7, <2>8, <2>9, <2>10, Assembled DEF Shape
    <2>12. r.then # <<>>
      BY <2>5, JustDone DEF AllLater
    <2> QED
      BY <2>2, <2>4, <2>11, <2>12, HandlerStep DEF Quiet
  <1>7. ASSUME WRITE \in On(o), NEW n \in Ticks,
               Step(b, LookAtLimits(s, WRITE, n, "write_connected"))
        PROVE  Advance
    <2>1. BevOK(s, group)
      <3>1. s = [o EXCEPT !.then = <<"done">>]
        BY DEF s
      <3> HIDE DEF o
      <3> QED
        BY <1>0, <1>1, <1>7, <3>1, JustDone, NextStep
    <2>2. s.member => Members(bev) # {}
      BY <1>3 DEF Members
    <2> DEFINE t == LookAtLimits(s, WRITE, n, "write_connected")
    <2>3. BevOK(t, group) /\ t.run = s.run /\ t.then # <<>>
      BY <1>4, <1>5, <2>1, <2>2, LookKeeps DEF Ending, IInv
    <2>4. Step(b, t)
      BY <1>7
    <2> HIDE DEF t
    <2> QED
      BY <1>3, <2>3, <2>4, HandlerStep DEF Quiet
  <1> QED
    BY <1>1, <1>3, <1>6, <1>7 DEF On

(* The write event goes when there is nothing to write. *)
LEMMA EmptyKeeps ==
  ASSUME NEW s, NEW g, BevOK(s, g), s.len[WRITE] = 0
  PROVE  LET r == event_del(s, {WRITE})
         IN  BevOK(r, g) /\ Only(s, r, {"ev", "timer"})
  <1> DEFINE r == event_del(s, {WRITE})
  <1>0. DOMAIN s = Fields /\ Shape(s) /\ EventsOK(s)
    BY DEF BevOK, Rest, Shape
  <1>1. /\ Only(s, r, {"ev", "timer"})
        /\ s.life = "live" => r.ev = s.ev \ {WRITE} /\ r.timer = s.timer \ {WRITE}
    BY <1>0, EventDel
  <1> HIDE DEF r
  <1>2. /\ r.enabled = s.enabled /\ r.timeout = s.timeout /\ r.suspended = s.suspended
        /\ r.life = s.life /\ r.dropped = s.dropped /\ r.connecting = s.connecting
        /\ r.len = s.len /\ r.run = s.run /\ r.then = s.then
        /\ r.limit = s.limit /\ r.high = s.high /\ DOMAIN r = Fields
    BY <1>1 DEF Only, Fields
  <1>3. On(r) = On(s) /\ (Rechecks(r) <=> Rechecks(s))
    BY <1>2 DEF On, Rechecks
  <1>4. EventsOK(r)
    BY <1>0, <1>1, <1>2, <1>3 DEF EventsOK, READ, WRITE
  <1>5. Shape(r)
    BY <1>0, <1>2 DEF Shape
  <1>6. Only(s, r, Listening)
    BY <1>1 DEF Only, Listening
  <1> QED
    BY <1>1, <1>4, <1>5, <1>6, EventsOnly DEF r

(* Bytes left, or there were none. *)
LEMMA SentStep ==
  ASSUME IInv, NEW b \in Bev, bev[b].then # <<>>, bev[b].run = None,
         Head(bev[b].then) \in {"write", "write_connected"},
         NEW n \in Nat, n <= bev[b].len[WRITE], NEW connected, Sent(b, n, connected)
  PROVE  Advance
  <1> DEFINE m == [bev[b] EXCEPT !.then = <<"done">>]
             s == [bev[b] EXCEPT !.then = <<"done">>, !.len[WRITE] = @ - n]
             p == IF n = 0 THEN [B |-> [bev EXCEPT ![b] = s], g |-> group]
                  ELSE bufferevent_decrement_buckets_(b, s, WRITE, n)
             q == p.B[b]
             t == IF s.len[WRITE] = 0 THEN event_del(q, {WRITE}) ELSE q
             u == IF n > 0 \/ ~connected
                  THEN bufferevent_trigger_nolock_(b, t, WRITE, FALSE) ELSE t
  <1>0. bev' = [p.B EXCEPT ![b] = Return(u)] /\ group' = p.g /\ WRITE \in Dir
        /\ READ \in Dir /\ READ # WRITE
    BY DEF Sent, Dir, READ, WRITE
  <1>1. /\ BevOK(m, group) /\ Ending(m) /\ m.held = bev[b].held /\ m.run = bev[b].run
        /\ m.seen = {} /\ m.len = bev[b].len
    BY Moving
  <1>2. s = [m EXCEPT !.len[WRITE] = @ - n]
    BY DEF IInv, BevOK, Rest, Shape, Fields
  <1> HIDE DEF m, s
  <1>3. Only(m, s, {"len"}) /\ s.len = [m.len EXCEPT ![WRITE] = @ - n]
    BY <1>0, <1>1, <1>2 DEF Only, Fields, BevOK, Rest, Shape
  <1>4. s.len \in [Dir -> Nat] /\ s.len[WRITE] <= m.len[WRITE] /\ s.len[READ] = m.len[READ]
    <2>1. m.len \in [Dir -> Nat]
      BY <1>1 DEF BevOK, Rest, Shape
    <2>2. m.len[WRITE] \in Nat /\ m.len[WRITE] - n \in Nat /\ m.len[WRITE] - n <= m.len[WRITE]
      BY <1>0, <1>1, <2>1
    <2> QED
      BY <1>0, <1>3, <2>1, <2>2
  <1>5. BevOK(s, group)
    BY <1>1, <1>3, <1>4, LenKeeps DEF BevOK
  <1>6. /\ s.life = m.life /\ s.then = m.then /\ s.run = m.run /\ s.held = m.held
        /\ s.seen = m.seen
    BY <1>3 DEF Only, Fields
  <1>7. /\ AllOK(p.B, p.g) /\ GroupOK(p.g)
        /\ \A c \in Bev \ {b} : Only(bev[c], p.B[c], Switches)
        /\ Only(s, p.B[b], Bucket)
    <2>1. CASE n = 0
      <3>1. p.B = [bev EXCEPT ![b] = s] /\ p.g = group
        BY <2>1
      <3> HIDE DEF p
      <3>2. DOMAIN p.B = Bev /\ p.B[b] = s /\ \A c \in Bev \ {b} : p.B[c] = bev[c]
        BY <3>1 DEF IInv
      <3>3. \A c \in Bev \ {b} : Only(bev[c], bev[c], Switches)
        BY OnlyRefl DEF IInv, BevOK, Rest, Shape
      <3>4. Only(s, s, Bucket)
        BY <1>5, OnlyRefl DEF BevOK, Rest, Shape
      <3> QED
        BY <1>5, <3>1, <3>2, <3>3, <3>4 DEF AllOK, IInv
    <2>2. CASE n # 0
      <3>1. p = bufferevent_decrement_buckets_(b, s, WRITE, n)
        BY <2>2
      <3> HIDE DEF p
      <3> QED
        BY <1>0, <1>1, <1>5, <1>6, <3>1, DecrementKeeps
    <2> QED
      BY <2>1, <2>2
  <1> HIDE DEF p
  <1>8. BevOK(q, p.g) /\ Only(s, q, Bucket)
    BY <1>7 DEF AllOK
  <1> HIDE DEF q
  <1>9. /\ q.life = s.life /\ q.then = s.then /\ q.run = s.run /\ q.held = s.held
        /\ q.len = s.len
    BY <1>8 DEF Only, Fields, Bucket, Switches
  <1>10. BevOK(t, p.g) /\ Only(q, t, {"ev", "timer"})
    <2> DEFINE g == p.g
    <2>0. BevOK(q, g)
      BY <1>8
    <2> HIDE DEF g
    <2>1. BevOK(t, g) /\ Only(q, t, {"ev", "timer"})
      BY <1>9, <2>0, EmptyKeeps, OnlyRefl DEF BevOK, Rest, Shape
    <2> QED
      BY <2>1 DEF g
  <1> HIDE DEF t
  <1>11. t.life = q.life /\ t.then = q.then /\ t.run = q.run /\ t.held = q.held
    BY <1>10 DEF Only, Fields
  <1>12. Ending(t) /\ t.then # <<>> /\ MayRun(t, WRITE, FALSE)
    BY <1>1, <1>6, <1>9, <1>11, EndingRuns DEF Ending
  <1>13. BevOK(u, p.g) /\ Quiet(t, u) /\ u.then # <<>>
    <2> DEFINE g == p.g
    <2>0. BevOK(t, g)
      BY <1>10
    <2> HIDE DEF g
    <2>1. LET r == bufferevent_trigger_nolock_(b, t, WRITE, FALSE)
          IN  BevOK(r, g) /\ Quiet(t, r) /\ r.then # <<>>
      BY <1>0, <1>12, <2>0, TriggerKeeps
    <2>2. BevOK(u, g) /\ Quiet(t, u) /\ u.then # <<>>
      BY <1>12, <2>0, <2>1 DEF Quiet
    <2> QED
      BY <2>2 DEF g
  <1> HIDE DEF u
  <1>14. Quiet(bev[b], u)
    BY <1>1, <1>6, <1>9, <1>11, <1>13 DEF Quiet
  <1> QED
    BY <1>0, <1>7, <1>13, <1>14, GroupStep

(* Writing. *)
LEMMA WriteStep ==
  ASSUME IInv, NEW b \in Bev, Write(b)
  PROVE  Advance
  <1> DEFINE m == [bev[b] EXCEPT !.then = <<"done">>]
  <1>0. bev[b].len[WRITE] \in Nat /\ WRITE \in Dir
    BY DEF IInv, BevOK, Rest, Shape, Dir
  <1>1. /\ bev[b].then # <<>> /\ bev[b].run = None
        /\ Head(bev[b].then) \in {"write", "write_connected"}
        /\ \/ \E n \in Nat, c \in BOOLEAN : n <= bev[b].len[WRITE] /\ Sent(b, n, c)
           \/ \E a \in {"retry", "error"} : NotSent(b, a)
    <2>1. \A n \in 1 .. bev[b].len[WRITE] : n \in Nat /\ n <= bev[b].len[WRITE]
      BY <1>0
    <2>2. 0 \in Nat /\ 0 <= bev[b].len[WRITE]
      BY <1>0
    <2> DEFINE c == Head(bev[b].then) = "write_connected"
    <2>3. c \in BOOLEAN
      OBVIOUS
    <2>4. /\ bev[b].then # <<>> /\ bev[b].run = None
          /\ Head(bev[b].then) \in {"write", "write_connected"}
          /\ \/ Sent(b, 0, c)
             \/ \E n \in 1 .. bev[b].len[WRITE] : Sent(b, n, c)
             \/ \E a \in {"retry", "error"} : NotSent(b, a)
      BY DEF Write
    <2> HIDE DEF c
    <2> QED
      BY <2>1, <2>2, <2>3, <2>4
  <1>2. ASSUME NEW a \in {"retry", "error"}, NotSent(b, a)
        PROVE  Advance
    <2>1. /\ BevOK(m, group) /\ Ending(m) /\ m.held = bev[b].held /\ m.run = bev[b].run
      BY <1>1, Moving
    <2> DEFINE r == Fail(b, m, WRITE)
    <2>2. Step(b, m) \/ Step(b, r)
      BY <1>2 DEF NotSent
    <2> HIDE DEF m
    <2>3. BevOK(r, group) /\ r.then # <<>> /\ Quiet(m, r) /\ m.then # <<>>
      BY <1>0, <2>1, FailKeeps, EndingRuns
    <2> HIDE DEF r
    <2> QED
      BY <2>1, <2>2, <2>3, HandlerStep DEF Quiet
  <1> QED
    BY <1>1, <1>2, SentStep

(* The scheduled callback begins: its reference is the handler's. *)
LEMMA RunDeferredStep ==
  ASSUME IInv, NEW b \in Bev, RunDeferred(b)
  PROVE  Advance
  <1> DEFINE s == bev[b]
             q == <<"CONNECTED", READ, WRITE, "EVENT", "done">>
             r == [s EXCEPT !.sched = FALSE, !.then = q]
  <1>0. /\ BevOK(s, group) /\ WorkOK(s) /\ RefOK(s) /\ DOMAIN s = Fields
        /\ s.life = "live" /\ s.then = <<>> /\ s.sched
    BY DEF RunDeferred, Ready, IInv, BevOK, Rest, Shape
  <1>1. bev' = [bev EXCEPT ![b] = r] /\ group' = group
    BY DEF RunDeferred, IInv
  <1>2. Only(s, r, {"sched", "then"}) /\ r.then = q /\ ~r.sched
    BY <1>0 DEF Only, Fields
  <1>3. /\ q \in Seq(Work) /\ q # <<>> /\ Len(q) = 5 /\ q[5] = "done"
        /\ q[1] = "CONNECTED" /\ \A i \in 2 .. 5 : q[i] \in Later
    <2>1. {"CONNECTED", READ, WRITE, "EVENT", "done"} \subseteq Work
      BY DEF Work, Later
    <2>2. q \in Seq(Work) /\ q # <<>> /\ Len(q) = 5 /\ q[5] = "done" /\ q[1] = "CONNECTED"
      BY <2>1
    <2>3. \A i \in 2 .. 5 : i = 2 \/ i = 3 \/ i = 4 \/ i = 5
      OBVIOUS
    <2>4. q[2] = READ /\ q[3] = WRITE /\ q[4] = "EVENT"
      OBVIOUS
    <2> HIDE DEF q
    <2> QED
      BY <2>2, <2>3, <2>4 DEF Later
  <1> HIDE DEF q, r, s
  <1>4. /\ r.run = s.run /\ r.seen = s.seen /\ r.held = s.held /\ r.dns = s.dns
        /\ r.life = s.life /\ r.callbacks = s.callbacks /\ r.refcnt = s.refcnt
    BY <1>2 DEF Only, Fields
  <1>5. s.seen = {} /\ s.run = None /\ ~Rechecks(s)
    BY <1>0 DEF WorkOK, Rechecks
  <1>6. WorkOK(r)
    BY <1>2, <1>3, <1>4, <1>5 DEF WorkOK
  <1>7. RefOK(r)
    BY <1>0, <1>2, <1>3, <1>4 DEF RefOK, One
  <1>8. Only(s, r, Steps)
    BY <1>2 DEF Only, Steps, Control
  <1>9. BevOK(r, group)
    BY <1>0, <1>4, <1>5, <1>6, <1>7, <1>8, StepsOnly
  <1>10. Quiet(bev[b], r)
    BY <1>4 DEF Quiet, s
  <1> QED
    BY <1>1, <1>9, <1>10, OneStep

(* What is behind the first step. *)
LEMMA TailLater ==
  ASSUME NEW s, WorkOK(s), s.then # <<>>, s.then[1] # "done"
  PROVE  AllLater(Tail(s.then))
  <1> DEFINE q == s.then
  <1>1. q \in Seq(Work) /\ q # <<>> /\ q[1] # "done" /\ q[Len(q)] = "done"
        /\ \A i \in 2 .. Len(q) : q[i] \in Later
    BY DEF WorkOK
  <1> HIDE DEF q
  <1>2. Len(q) \in Nat /\ Len(q) >= 2
    BY <1>1
  <1>3. /\ Tail(q) \in Seq(Work) /\ Len(Tail(q)) = Len(q) - 1
        /\ \A i \in 1 .. Len(q) - 1 : Tail(q)[i] = q[i + 1]
    BY <1>1, <1>2
  <1>4. Tail(q) # <<>> /\ Tail(q)[Len(Tail(q))] = "done"
    BY <1>1, <1>2, <1>3
  <1>5. \A i \in 1 .. Len(Tail(q)) : Tail(q)[i] \in Later
    <2> SUFFICES ASSUME NEW i \in 1 .. Len(q) - 1 PROVE Tail(q)[i] \in Later
      BY <1>3
    <2>1. Tail(q)[i] = q[i + 1] /\ i + 1 \in 2 .. Len(q)
      BY <1>2, <1>3
    <2> QED
      BY <1>1, <2>1
  <1> QED
    BY <1>3, <1>4, <1>5 DEF AllLater, q

(* One of the deferred callbacks, if it is still due. *)
LEMMA DeferredKeeps ==
  ASSUME IInv, NEW b \in Bev, DeferredStep(b)
  PROVE  Advance
  <1> DEFINE s == bev[b]
             cb == Head(s.then)
             r == [s EXCEPT !.then = Tail(@)]
             P == r.pending \ (IF cb = "EVENT" THEN {cb, "CONNECTED"} ELSE {cb})
             q == IF cb = READ THEN <<"wm_check">> \o r.then ELSE r.then
             t == [r EXCEPT !.run = cb, !.pending = P, !.then = q]
  <1>0. /\ BevOK(s, group) /\ WorkOK(s) /\ RefOK(s) /\ DOMAIN s = Fields
        /\ s.then # <<>> /\ s.run = None
        /\ cb \in {"CONNECTED", READ, WRITE, "EVENT"}
    BY DEF DeferredStep, IInv, BevOK, Rest, Shape
  <1>1. Step(b, r) \/ (s.callbacks /\ Step(b, t))
    BY DEF DeferredStep
  <1>2. s.then[1] = cb
    BY <1>0 DEF WorkOK
  <1>3. r = [s EXCEPT !.then = Tail(s.then)]
    OBVIOUS
  <1> HIDE DEF s, cb, r
  <1>4. s.then[1] # "done" /\ s.then[1] # "joined" /\ s.then[1] # "recheck"
    BY <1>0, <1>2 DEF READ, WRITE
  <1>5. AllLater(Tail(s.then))
    BY <1>0, <1>4, TailLater
  <1>6. Only(s, r, {"then"}) /\ BevOK(r, group) /\ r.then = Tail(s.then)
    BY <1>0, <1>3, <1>4, <1>5, NextStep
  <1>7. /\ r.run = s.run /\ r.held = s.held /\ r.life = s.life
        /\ r.callbacks = s.callbacks /\ DOMAIN r = Fields
    BY <1>6 DEF Only, Fields
  <1>8. r.then # <<>> /\ r.then[1] \in Later
    BY <1>5, <1>6 DEF AllLater
  <1>9. CASE Step(b, r)
    BY <1>6, <1>7, <1>8, <1>9, HandlerStep DEF Quiet, s
  <1>10. CASE s.callbacks /\ Step(b, t)
    <2> HIDE DEF P, q
    <2>1. Only(r, t, {"run", "then", "pending"}) /\ t.run = cb /\ t.then = q
      BY <1>7 DEF Only, Fields
    <2>2. Step(b, t)
      BY <1>10
    <2> HIDE DEF t
    <2>3. s.life = "live"
      BY <1>0 DEF RefOK, One
    <2>4. MayRun(r, cb, FALSE)
      BY <1>0, <1>7, <1>8, <2>3 DEF MayRun
    <2>5. BevOK(t, group) /\ Quiet(r, t) /\ t.then # <<>>
      <3>1. r.callbacks /\ BevOK(r, group)
        BY <1>6, <1>7, <1>10
      <3>2. t.then = IF cb = READ THEN <<"wm_check">> \o r.then ELSE r.then
        BY <2>1 DEF q
      <3> QED
        BY <2>1, <2>4, <3>1, <3>2, BeginKeeps
    <2>6. Quiet(bev[b], t)
      BY <1>7, <2>5 DEF Quiet, s
    <2> QED
      BY <2>2, <2>5, <2>6, HandlerStep
  <1> QED
    BY <1>1, <1>9, <1>10

(* After a read callback: the input may still be at its mark. *)
LEMMA WmCheckStep ==
  ASSUME IInv, NEW b \in Bev, WmCheck(b)
  PROVE  Advance
  <1> DEFINE s == bev[b]
             r == [s EXCEPT !.then = Tail(@)]
             t == bufferevent_inbuf_wm_check(b, r)
  <1>0. /\ BevOK(s, group) /\ WorkOK(s) /\ RefOK(s)
        /\ s.then # <<>> /\ s.run = None /\ Head(s.then) = "wm_check"
    BY DEF WmCheck, IInv, BevOK, Rest
  <1>1. Step(b, t)
    BY DEF WmCheck
  <1>2. s.then[1] = "wm_check"
    BY <1>0 DEF WorkOK
  <1>3. r = [s EXCEPT !.then = Tail(s.then)]
    OBVIOUS
  <1> HIDE DEF s, r
  <1>4. AllLater(Tail(s.then))
    BY <1>0, <1>2, TailLater
  <1>5. Only(s, r, {"then"}) /\ BevOK(r, group) /\ r.then = Tail(s.then)
    BY <1>0, <1>2, <1>3, <1>4, NextStep
  <1>6. r.run = s.run /\ r.held = s.held /\ r.life = s.life
    BY <1>5 DEF Only, Fields
  <1>7. r.then # <<>> /\ r.life = "live" /\ READ \in Dir
    BY <1>0, <1>4, <1>5, <1>6 DEF AllLater, RefOK, One, Dir
  <1>8. MayRun(r, READ, TRUE)
    BY <1>7 DEF MayRun
  <1>9. t = r \/ t = bufferevent_trigger_nolock_(b, r, READ, TRUE)
    BY DEF bufferevent_inbuf_wm_check
  <1> HIDE DEF t
  <1>10. BevOK(t, group) /\ Quiet(r, t) /\ t.then # <<>>
    <2>1. CASE t = r
      BY <1>5, <1>7, <2>1 DEF Quiet
    <2>2. CASE t = bufferevent_trigger_nolock_(b, r, READ, TRUE)
      BY <1>5, <1>7, <1>8, <2>2, TriggerKeeps
    <2> QED
      BY <1>9, <2>1, <2>2
  <1>11. Quiet(bev[b], t)
    BY <1>6, <1>10 DEF Quiet, s
  <1> QED
    BY <1>1, <1>10, <1>11, HandlerStep

(* The user's callback returns. *)
LEMMA CallbackReturnsStep ==
  ASSUME IInv, NEW b \in Bev, CallbackReturns(b)
  PROVE  Advance
  <1> DEFINE s == bev[b]
             r == [s EXCEPT !.run = None]
  <1>0. /\ BevOK(s, group) /\ WorkOK(s) /\ RefOK(s) /\ DOMAIN s = Fields
        /\ s.run # None /\ Step(b, r)
    BY DEF CallbackReturns, IInv, BevOK, Rest, Shape
  <1>1. Only(s, r, {"run"}) /\ r.run = None
    BY <1>0 DEF Only, Fields
  <1> HIDE DEF s, r
  <1>2. /\ r.then = s.then /\ r.seen = s.seen /\ r.held = s.held /\ r.dns = s.dns
        /\ r.life = s.life /\ r.callbacks = s.callbacks /\ r.refcnt = s.refcnt
        /\ r.sched = s.sched /\ r.amount = s.amount
    BY <1>1 DEF Only, Fields
  <1>3. WorkOK(r) /\ RefOK(r) /\ r.then # <<>>
    BY <1>0, <1>1, <1>2 DEF WorkOK, RefOK
  <1>4. Only(s, r, Steps)
    BY <1>1 DEF Only, Steps, Control
  <1>5. Rechecks(s) => Rechecks(r)
    BY <1>1, <1>2 DEF Rechecks
  <1>6. BevOK(r, group)
    BY <1>0, <1>2, <1>3, <1>4, <1>5, StepsOnly
  <1> QED
    BY <1>0, <1>1, <1>3, <1>6, HandlerStep DEF Quiet

(* Nobody uses the bufferevent any more: it is freed. *)
LEMMA FinalizeStep ==
  ASSUME IInv, NEW b \in Bev, bufferevent_finalize_cb_(b)
  PROVE  Advance
  <1> DEFINE s == bev[b]
             r == [s EXCEPT !.life = "freed", !.member = FALSE]
  <1>0. /\ Shape(s) /\ WorkOK(s) /\ RefOK(s) /\ DOMAIN s = Fields
        /\ s.life = "finalizing"
    BY DEF bufferevent_finalize_cb_, IInv, BevOK, Rest, Shape
  <1>1. bev' = [bev EXCEPT ![b] = r] /\ group' = group
    BY DEF bufferevent_finalize_cb_, IInv
  <1>2. Only(s, r, {"life", "member"}) /\ r.life = "freed"
    BY <1>0 DEF Only, Fields
  <1> HIDE DEF s, r
  <1>3. /\ r.then = s.then /\ r.seen = s.seen /\ r.held = s.held /\ r.dns = s.dns
        /\ r.run = s.run /\ r.callbacks = s.callbacks /\ r.refcnt = s.refcnt
        /\ r.sched = s.sched /\ r.amount = s.amount
    BY <1>2 DEF Only, Fields
  <1>4. WorkOK(r) /\ RefOK(r)
    BY <1>0, <1>2, <1>3 DEF WorkOK, RefOK
  <1>5. Only(s, r, Steps \cup {"ev", "timer", "refill", "member"})
    BY <1>2 DEF Only, Steps, Control
  <1>6. BevOK(r, group)
    BY <1>0, <1>2, <1>4, <1>5, DeadOK
  <1>7. Quiet(bev[b], r)
    BY <1>3 DEF Quiet, s
  <1> QED
    BY <1>1, <1>6, <1>7, OneStep

-----------------------------------------------------------------------------
(* The user's calls *)

(* The user adds output. *)
LEMMA UserWriteStep ==
  ASSUME IInv, NEW b \in Bev, bufferevent_write(b)
  PROVE  Advance
  <1> DEFINE s == bev[b]
             r == bufferevent_socket_outbuf_cb([s EXCEPT !.len[WRITE] = @ + 1])
  <1>1. Call(b, r) /\ MayCall(b)
    BY DEF bufferevent_write, Call
  <1>2. BevOK(s, group)
    BY <1>1, Callable
  <1> HIDE DEF s
  <1>3. BevOK(r, group)
    BY <1>2, OutputKeeps
  <1> HIDE DEF r
  <1> QED
    BY <1>1, <1>3, CallStep

(* The user takes input. *)
LEMMA UserReadStep ==
  ASSUME IInv, NEW b \in Bev, bufferevent_read(b)
  PROVE  Advance
  <1>1. PICK n \in 0 .. MaxLen - 1 : Call(b, SetInput(bev[b], n))
    BY DEF bufferevent_read
  <1> DEFINE s == bev[b]
             r == SetInput(s, n)
  <1>2. Call(b, r) /\ MayCall(b) /\ n \in Nat
    BY <1>1, BevAssumption DEF Call
  <1>3. BevOK(s, group)
    BY <1>2, Callable
  <1> HIDE DEF s
  <1>4. BevOK(r, group)
    BY <1>2, <1>3, SetInputKeeps
  <1> HIDE DEF r
  <1> QED
    BY <1>2, <1>4, CallStep

(* The user enables directions. *)
LEMMA EnableStep ==
  ASSUME IInv, NEW b \in Bev, Enable(b)
  PROVE  Advance
  <1>1. PICK D \in SUBSET Dir : Call(b, bufferevent_enable(bev[b], D))
    BY DEF Enable
  <1> DEFINE s == bev[b]
             r == bufferevent_enable(s, D)
  <1>2. Call(b, r) /\ MayCall(b)
    BY <1>1 DEF Call
  <1>3. BevOK(s, group)
    BY <1>2, Callable
  <1> HIDE DEF s
  <1>4. BevOK(r, group)
    BY <1>3, EnableKeeps
  <1> HIDE DEF r
  <1> QED
    BY <1>2, <1>4, CallStep

(* The user disables directions. *)
LEMMA DisableStep ==
  ASSUME IInv, NEW b \in Bev, Disable(b)
  PROVE  Advance
  <1>1. PICK D \in SUBSET Dir : Call(b, bufferevent_disable(bev[b], D))
    BY DEF Disable
  <1> DEFINE s == bev[b]
             r == bufferevent_disable(s, D)
  <1>2. Call(b, r) /\ MayCall(b)
    BY <1>1 DEF Call
  <1>3. BevOK(s, group)
    BY <1>2, Callable
  <1> HIDE DEF s
  <1>4. BevOK(r, group)
    BY <1>3, DisableKeeps
  <1> HIDE DEF r
  <1> QED
    BY <1>2, <1>4, CallStep

(* Other watermarks: the suspension follows them at once. *)
LEMMA WatermarkStep ==
  ASSUME IInv, NEW b \in Bev, NEW low, NEW high \in Nat,
         bufferevent_setwatermark(b, low, high)
  PROVE  Advance
  <1> DEFINE o == bev[b]
             s == [o EXCEPT !.low[READ] = low, !.high = high]
             r == IF high = 0 THEN bufferevent_unsuspend_(s, READ, "WM")
                  ELSE bufferevent_inbuf_wm_cb(s)
  <1>1. Call(b, r) /\ MayCall(b) /\ READ \in Dir
    BY DEF bufferevent_setwatermark, Call, Dir
  <1>2. BevOK(o, group) /\ DOMAIN o = Fields
    BY <1>1, Callable
  <1>3. Only(o, s, {"low", "high"}) /\ s.high = high
    BY <1>2 DEF Only, Fields
  <1> HIDE DEF o, s
  <1>4. Rest(s, group)
    <2>1. /\ s.enabled = o.enabled /\ s.timeout = o.timeout /\ s.suspended = o.suspended
          /\ s.life = o.life /\ s.dropped = o.dropped /\ s.connecting = o.connecting
          /\ s.len = o.len /\ s.run = o.run /\ s.then = o.then /\ s.ev = o.ev
          /\ s.timer = o.timer /\ s.limit = o.limit /\ s.cfg = o.cfg
          /\ s.refill = o.refill /\ s.member = o.member /\ s.seen = o.seen
          /\ DOMAIN s = Fields
      BY <1>3 DEF Only, Fields
    <2>2. On(s) = On(o) /\ (Rechecks(s) <=> Rechecks(o))
      BY <2>1 DEF On, Rechecks
    <2>3. {"low", "high"} \cap Control = {}
      BY DEF Control
    <2>4. WorkOK(s) /\ RefOK(s)
      BY <1>2, <1>3, <2>3, ControlKept DEF BevOK, Rest
    <2>5. Shape(s) /\ EventsOK(s)
      BY <1>2, <1>3, <2>1, <2>2 DEF BevOK, Rest, Shape, EventsOK
    <2>6. BucketOK(s) /\ GroupedOK(s, group)
      BY <1>2, <2>1 DEF BevOK, Rest, BucketOK, GroupedOK
    <2> QED
      BY <2>4, <2>5, <2>6 DEF Rest
  <1>5. BevOK(r, group)
    <2>1. CASE high = 0
      <3>1. r = bufferevent_unsuspend_(s, READ, "WM")
        BY <2>1
      <3> HIDE DEF r
      <3>2. /\ Only(s, r, Switches) /\ Rest(r, group)
            /\ r.suspended = Without(s, READ, "WM")
        BY <1>1, <1>4, <3>1, UnsuspendKeeps DEF Suspend
      <3>3. r.high = 0
        BY <1>3, <2>1, <3>2 DEF Only, Fields, Switches
      <3>4. "WM" \notin r.suspended[READ]
        BY <1>1, <1>4, <3>2 DEF Without, Rest, Shape
      <3> QED
        BY <3>2, <3>3, <3>4 DEF BevOK, WaterOK
    <2>2. CASE high # 0
      <3>1. r = bufferevent_inbuf_wm_cb(s) /\ s.high # 0
        BY <1>3, <2>2
      <3> HIDE DEF r
      <3> QED
        BY <1>4, <3>1, WatermarkKeeps
    <2> QED
      BY <2>1, <2>2
  <1> HIDE DEF r
  <1> QED
    BY <1>1, <1>5, CallStep

(* A call that leaves the switches as they are. *)
LEMMA WriteMarkStep ==
  ASSUME IInv, NEW b \in Bev, NEW low, SetWriteMark(b, low)
  PROVE  Advance
  <1> DEFINE s == bev[b]
             r == [s EXCEPT !.low[WRITE] = low]
  <1>1. Call(b, r) /\ MayCall(b)
    BY DEF SetWriteMark, Call
  <1>2. BevOK(s, group) /\ DOMAIN s = Fields
    BY <1>1, Callable
  <1>3. Only(s, r, {"low"})
    BY <1>2 DEF Only, Fields
  <1> HIDE DEF s, r
  <1>4. Only(s, r, Listening)
    BY <1>3 DEF Only, Listening
  <1>5. /\ r.enabled = s.enabled /\ r.timeout = s.timeout /\ r.suspended = s.suspended
        /\ r.life = s.life /\ r.dropped = s.dropped /\ r.connecting = s.connecting
        /\ r.len = s.len /\ r.run = s.run /\ r.then = s.then /\ r.ev = s.ev
        /\ r.timer = s.timer /\ r.limit = s.limit /\ r.high = s.high /\ DOMAIN r = Fields
    BY <1>3 DEF Only, Fields
  <1>6. On(r) = On(s) /\ (Rechecks(r) <=> Rechecks(s))
    BY <1>5 DEF On, Rechecks
  <1>7. Shape(r) /\ EventsOK(r)
    BY <1>2, <1>5, <1>6 DEF BevOK, Rest, Shape, EventsOK
  <1>8. BevOK(r, group)
    BY <1>2, <1>4, <1>7, EventsOnly
  <1> QED
    BY <1>1, <1>8, CallStep

(* Other timeouts: the timers of the events follow them. *)
LEMMA TimeoutsStep ==
  ASSUME IInv, NEW b \in Bev, NEW T \in SUBSET Dir, bufferevent_set_timeouts(b, T)
  PROVE  Advance
  <1> DEFINE s == bev[b]
             r == [s EXCEPT !.timeout = T, !.timer = s.ev \cap T]
  <1>1. Call(b, r) /\ MayCall(b)
    BY DEF bufferevent_set_timeouts, Call
  <1>2. BevOK(s, group) /\ DOMAIN s = Fields
    BY <1>1, Callable
  <1>3. Only(s, r, {"timeout", "timer"}) /\ r.timer = s.ev \cap T /\ r.timeout = T
    BY <1>2 DEF Only, Fields
  <1> HIDE DEF s, r
  <1>4. Only(s, r, Listening)
    BY <1>3 DEF Only, Listening
  <1>5. /\ r.enabled = s.enabled /\ r.suspended = s.suspended
        /\ r.life = s.life /\ r.dropped = s.dropped /\ r.connecting = s.connecting
        /\ r.len = s.len /\ r.run = s.run /\ r.then = s.then /\ r.ev = s.ev
        /\ r.limit = s.limit /\ r.high = s.high /\ DOMAIN r = Fields
    BY <1>3 DEF Only, Fields
  <1>6. On(r) = On(s) /\ (Rechecks(r) <=> Rechecks(s))
    BY <1>5 DEF On, Rechecks
  <1>7. Shape(r) /\ EventsOK(r)
    BY <1>2, <1>3, <1>5, <1>6 DEF BevOK, Rest, Shape, EventsOK
  <1>8. BevOK(r, group)
    BY <1>2, <1>4, <1>7, EventsOnly
  <1> QED
    BY <1>1, <1>8, CallStep

(* The end of the suspensions of both directions for one reason. *)
LEMMA BothUnsuspended ==
  ASSUME NEW s, Shape(s), EventsOK(s), NEW what \in Suspend
  PROVE  LET r == bufferevent_unsuspend_(bufferevent_unsuspend_(s, READ, what), WRITE, what)
         IN  /\ Only(s, r, Switches) /\ Shape(r) /\ EventsOK(r)
             /\ \A c \in Dir : r.suspended[c] = s.suspended[c] \ {what}
  <1> DEFINE q == bufferevent_unsuspend_(s, READ, what)
             r == bufferevent_unsuspend_(q, WRITE, what)
  <1>0. READ \in Dir /\ WRITE \in Dir /\ READ # WRITE /\ \A c \in Dir : c = READ \/ c = WRITE
    BY DEF Dir, READ, WRITE
  <1>1. /\ Only(s, q, {"suspended", "ev", "timer", "dropped"})
        /\ q.suspended = Without(s, READ, what) /\ Shape(q) /\ EventsOK(q)
    BY <1>0, Unsuspending
  <1> HIDE DEF q
  <1>2. /\ Only(q, r, {"suspended", "ev", "timer", "dropped"})
        /\ r.suspended = Without(q, WRITE, what) /\ Shape(r) /\ EventsOK(r)
    BY <1>0, <1>1, Unsuspending
  <1> HIDE DEF r
  <1>3. Only(s, r, Switches)
    BY <1>1, <1>2, OnlyTrans DEF Switches
  <1>4. \A c \in Dir : r.suspended[c] = s.suspended[c] \ {what}
    BY <1>0, <1>1, <1>2 DEF Without, Shape
  <1> QED
    BY <1>1, <1>2, <1>3, <1>4 DEF r, q

(* A rate limit is set or taken away: the suspensions for its sake end. *)
LEMMA RateLimitStep ==
  ASSUME IInv, NEW b \in Bev, NEW on \in BOOLEAN, bufferevent_set_rate_limit(b, on)
  PROVE  Advance
  <1> DEFINE s == bev[b]
             l == IF on THEN [d \in Dir |-> Rate] ELSE s.limit
             q == [s EXCEPT !.cfg = on, !.refill = FALSE, !.limit = l]
             r == bufferevent_unsuspend_(bufferevent_unsuspend_(q, READ, "BW"), WRITE, "BW")
  <1>1. Call(b, r) /\ MayCall(b)
    BY DEF bufferevent_set_rate_limit, Call
  <1>2. BevOK(s, group) /\ DOMAIN s = Fields /\ Shape(s) /\ EventsOK(s)
    BY <1>1, Callable DEF BevOK, Rest
  <1>3. l \in [Dir -> Int] /\ (on => \A d \in Dir : l[d] > 0)
    BY <1>2, BevAssumption DEF Shape
  <1> HIDE DEF l
  <1>4. /\ Only(s, q, {"cfg", "refill", "limit"}) /\ q.limit = l
        /\ q.cfg = on
    BY <1>2 DEF Only, Fields
  <1> HIDE DEF s, q
  <1>5. /\ q.enabled = s.enabled /\ q.suspended = s.suspended
        /\ q.life = s.life /\ q.dropped = s.dropped /\ q.connecting = s.connecting
        /\ q.len = s.len /\ q.run = s.run /\ q.then = s.then /\ q.ev = s.ev
        /\ q.timer = s.timer /\ q.timeout = s.timeout /\ q.high = s.high
        /\ DOMAIN q = Fields
    BY <1>4 DEF Only, Fields
  <1>6. On(q) = On(s) /\ (Rechecks(q) <=> Rechecks(s))
    BY <1>5 DEF On, Rechecks
  <1>7. Shape(q) /\ EventsOK(q)
    BY <1>2, <1>3, <1>4, <1>5, <1>6 DEF Shape, EventsOK
  <1>8. /\ Only(q, r, Switches) /\ Shape(r) /\ EventsOK(r)
        /\ \A c \in Dir : r.suspended[c] = q.suspended[c] \ {"BW"}
    BY <1>7, BothUnsuspended DEF Suspend
  <1> HIDE DEF r
  <1>9. r.cfg = on /\ r.limit = l
    BY <1>4, <1>8 DEF Only, Fields, Switches
  <1>10. BucketOK(r)
    <2> SUFFICES ASSUME NEW d \in Dir
                 PROVE  "BW" \notin r.suspended[d] /\ ~(r.cfg /\ r.limit[d] <= 0)
      BY DEF BucketOK
    <2>1. l[d] \in Int /\ (on => l[d] > 0)
      BY <1>3
    <2> QED
      BY <1>8, <1>9, <2>1
  <1>11. Only(s, r, Switches \cup {"limit", "refill", "cfg"})
    BY <1>4, <1>8, OnlyTrans
  <1>12. \A c \in Dir, w \in Suspend :
            w # "BW" => (w \in r.suspended[c] <=> w \in s.suspended[c])
    BY <1>5, <1>8
  <1>13. BevOK(r, group)
    BY <1>2, <1>8, <1>10, <1>11, <1>12, BucketKeeps
  <1> QED
    BY <1>1, <1>13, CallStep

(* The user takes tokens by hand, or gives some back. *)
LEMMA DecrementLimitStep ==
  ASSUME IInv, NEW b \in Bev, NEW d \in Dir, NEW decr \in Int,
         bufferevent_decrement_limit(b, d, decr)
  PROVE  Advance
  <1> DEFINE s == bev[b]
             x == s.limit[d] - decr
             q == [s EXCEPT !.limit[d] = @ - decr]
             e == [bufferevent_suspend_(q, d, "BW") EXCEPT !.refill = TRUE]
             f == bufferevent_unsuspend_(
                      [q EXCEPT !.refill = @ /\ "BW" \in q.suspended[Other(d)]], d, "BW")
             r == IF s.limit[d] > 0 /\ q.limit[d] <= 0 THEN e
                  ELSE IF s.limit[d] <= 0 /\ q.limit[d] > 0 THEN f ELSE q
  <1>1. Call(b, r) /\ MayCall(b)
    BY DEF bufferevent_decrement_limit, Call
  <1>2. BevOK(s, group) /\ DOMAIN s = Fields /\ Shape(s) /\ BucketOK(s)
    BY <1>1, Callable DEF BevOK, Rest
  <1>3. x \in Int /\ s.limit[d] \in Int
    BY <1>2 DEF Shape
  <1>4. Tokens(s, q, d, x)
    BY <1>2 DEF Tokens, Only, Fields, Shape
  <1>5. q.limit[d] = x
    BY <1>2, <1>4 DEF Tokens, Shape
  <1> HIDE DEF s, x, q
  <1>6. BevOK(e, group)
    BY <1>2, <1>3, <1>4, DryKeeps
  <1>7. x > 0 => BevOK(f, group)
    BY <1>2, <1>3, <1>4, WetKeeps
  <1>8. ~(s.limit[d] > 0 /\ x <= 0) => BevOK(q, group)
    <2>1. ASSUME s.life = "live", s.cfg, x <= 0, ~(s.limit[d] > 0 /\ x <= 0)
          PROVE  "BW" \in s.suspended[d]
      BY <1>2, <1>3, <2>1 DEF BucketOK
    <2> QED
      BY <1>2, <1>3, <1>4, <2>1, SameKeeps
  <1> HIDE DEF e, f
  <1>9. BevOK(r, group)
    BY <1>3, <1>5, <1>6, <1>7, <1>8
  <1> HIDE DEF r
  <1> QED
    BY <1>1, <1>9, CallStep

(* A new member remembers what it saw of the group. *)
LEMMA JoinStep ==
  ASSUME IInv, NEW b \in Bev, bufferevent_add_to_rate_limit_group(b)
  PROVE  Advance
  <1> DEFINE o == bev[b]
             s == Enter(o)
             S == {d \in Dir : group.suspended[d]}
             r == [s EXCEPT !.member = TRUE, !.then = <<"joined", "done">>, !.seen = S]
  <1>1. Call(b, r) /\ MayCall(b) /\ o.then = <<>>
    BY DEF bufferevent_add_to_rate_limit_group, Call
  <1>2. BevOK(o, group) /\ o.life = "live"
    BY <1>1, Callable
  <1>3. S \subseteq Dir /\ \A d \in S : Wakes(group, d)
    BY DEF Wakes
  <1> HIDE DEF o, S
  <1>4. /\ Only(o, s, {"refcnt", "then"}) /\ BevOK(s, group)
        /\ s.then = <<"done">> /\ s.run = None
    BY <1>1, <1>2, EnterKeeps
  <1>5. s.life = "live" /\ DOMAIN s = Fields
    BY <1>2, <1>4 DEF Only, Fields
  <1> HIDE DEF s
  <1>6. /\ Only(s, r, {"member", "then", "seen"}) /\ r.member = TRUE
        /\ r.then = <<"joined", "done">> /\ r.seen = S
    BY <1>5 DEF Only, Fields
  <1> HIDE DEF r
  <1>7. /\ r.enabled = s.enabled /\ r.timeout = s.timeout /\ r.suspended = s.suspended
        /\ r.life = s.life /\ r.dropped = s.dropped /\ r.connecting = s.connecting
        /\ r.len = s.len /\ r.run = s.run /\ r.ev = s.ev
        /\ r.timer = s.timer /\ r.limit = s.limit /\ r.high = s.high /\ DOMAIN r = Fields
        /\ r.refill = s.refill /\ r.cfg = s.cfg /\ r.held = s.held /\ r.sched = s.sched
        /\ r.dns = s.dns /\ r.refcnt = s.refcnt /\ r.callbacks = s.callbacks
    BY <1>6 DEF Only, Fields
  <1>8. "joined" \in Work
    BY DEF Work
  <1>9. WorkOK(r)
    <2>1. /\ r.then \in Seq(Work) /\ r.then # <<>> /\ Len(r.then) = 2
          /\ r.then[1] = "joined" /\ r.then[2] = "done"
      BY <1>6, <1>8, TwoSteps
    <2>2. \A i \in 2 .. 2 : i = 2
      OBVIOUS
    <2> QED
      BY <1>4, <1>7, <2>1, <2>2 DEF WorkOK, Later
  <1>10. r.then # <<>> /\ s.then # <<>>
    BY <1>4, <1>6, <1>8, TwoSteps, JustDone DEF AllLater
  <1>11. RefOK(r)
    BY <1>4, <1>7, <1>10 DEF BevOK, Rest, RefOK
  <1>12. On(r) = On(s) /\ ~Rechecks(s)
    BY <1>4, <1>7 DEF On, Rechecks
  <1>13. Shape(r) /\ BucketOK(r) /\ WaterOK(r)
    BY <1>4, <1>7 DEF BevOK, Rest, Shape, BucketOK, WaterOK
  <1>14. EventsOK(r)
    BY <1>4, <1>7, <1>12 DEF BevOK, Rest, EventsOK
  <1>15. GroupedOK(r, group)
    BY <1>3, <1>4, <1>5, <1>6, <1>7 DEF BevOK, Rest, GroupedOK
  <1>16. BevOK(r, group)
    BY <1>9, <1>11, <1>13, <1>14, <1>15 DEF BevOK, Rest
  <1> QED
    BY <1>1, <1>16, CallStep

(***************************************************************************)
(* The new member suspends itself as the group was when it joined: what it *)
(* saw may be out of date, but then the group's timer tries again.         *)
(***************************************************************************)
LEMMA JoinedStep ==
  ASSUME IInv, NEW b \in Bev, Joined(b)
  PROVE  Advance
  <1> DEFINE o == bev[b]
             s == [o EXCEPT !.then = <<"done">>, !.seen = {}]
             q == IF READ \in o.seen THEN bufferevent_suspend_(s, READ, "BW_GROUP") ELSE s
             r == IF WRITE \in o.seen THEN bufferevent_suspend_(q, WRITE, "BW_GROUP") ELSE q
  <1>0. /\ BevOK(o, group) /\ WorkOK(o) /\ RefOK(o) /\ GroupedOK(o, group)
        /\ DOMAIN o = Fields /\ o.then # <<>> /\ Head(o.then) = "joined"
    BY DEF Joined, IInv, BevOK, Rest, Shape
  <1>1. Step(b, r) /\ READ \in Dir /\ WRITE \in Dir
    BY DEF Joined, Dir
  <1>2. Only(o, s, {"then", "seen"}) /\ s.then = <<"done">> /\ s.seen = {}
    BY <1>0 DEF Only, Fields
  <1> HIDE DEF o, s
  <1>3. o.life = "live" /\ o.then[1] = "joined"
    BY <1>0 DEF RefOK, One, WorkOK
  <1>4. /\ s.run = o.run /\ s.held = o.held /\ s.life = o.life /\ s.member = o.member
        /\ s.sched = o.sched /\ s.dns = o.dns /\ s.callbacks = o.callbacks
        /\ s.refcnt = o.refcnt /\ s.amount = o.amount
    BY <1>2 DEF Only, Fields
  <1>5. s.then # <<>>
    BY <1>2, JustDone DEF AllLater
  <1>6. WorkOK(s)
    BY <1>0, <1>2, <1>4, JustDone DEF WorkOK, AllLater
  <1>7. RefOK(s)
    BY <1>0, <1>2, <1>4, <1>5 DEF RefOK
  <1>8. BevOK(s, group)
    <2>1. Only(o, s, Steps)
      BY <1>2 DEF Only, Steps, Control
    <2>2. ~Rechecks(o)
      BY <1>0 DEF Rechecks
    <2> QED
      BY <1>0, <1>2, <1>3, <1>4, <1>6, <1>7, <2>1, <2>2, StepsOnly
  <1>9. \A d \in o.seen \cap Dir : s.member /\ Wakes(group, d)
    BY <1>0, <1>3, <1>4 DEF GroupedOK
  <1>10. Only(s, q, Switches) /\ BevOK(q, group)
    <2>1. CASE READ \in o.seen
      <3>1. q = bufferevent_suspend_(s, READ, "BW_GROUP")
        BY <2>1
      <3> HIDE DEF q
      <3> QED
        BY <1>1, <1>8, <1>9, <2>1, <3>1, SuspendKeeps DEF BevOK
    <2>2. CASE READ \notin o.seen
      BY <1>8, <2>2, OnlyRefl DEF BevOK, Rest, Shape
    <2> QED
      BY <2>1, <2>2
  <1> HIDE DEF q
  <1>11. q.member = s.member
    BY <1>10 DEF Only, Fields, Switches
  <1>12. Only(q, r, Switches) /\ BevOK(r, group)
    <2>1. CASE WRITE \in o.seen
      <3>1. r = bufferevent_suspend_(q, WRITE, "BW_GROUP")
        BY <2>1
      <3> HIDE DEF r
      <3> QED
        BY <1>1, <1>9, <1>10, <1>11, <2>1, <3>1, SuspendKeeps DEF BevOK
    <2>2. CASE WRITE \notin o.seen
      BY <1>10, <2>2, OnlyRefl DEF BevOK, Rest, Shape
    <2> QED
      BY <2>1, <2>2
  <1> HIDE DEF r
  <1>13. r.then = s.then /\ r.run = s.run
    BY <1>10, <1>12 DEF Only, Fields, Switches
  <1>14. Quiet(bev[b], r)
    BY <1>4, <1>13 DEF Quiet, o
  <1> QED
    BY <1>1, <1>5, <1>12, <1>13, <1>14, HandlerStep

(* A member leaves: it is no longer suspended for the group's sake. *)
LEMMA LeaveStep ==
  ASSUME IInv, NEW b \in Bev, bufferevent_remove_from_rate_limit_group(b)
  PROVE  Advance
  <1> DEFINE s == bev[b]
             q == [s EXCEPT !.member = FALSE]
             r == bufferevent_unsuspend_(bufferevent_unsuspend_(q, READ, "BW_GROUP"),
                                         WRITE, "BW_GROUP")
  <1>1. Call(b, r) /\ MayCall(b)
    BY DEF bufferevent_remove_from_rate_limit_group, Call
  <1>2. /\ BevOK(s, group) /\ DOMAIN s = Fields /\ Shape(s) /\ EventsOK(s) /\ s.seen = {}
        /\ WorkOK(s) /\ RefOK(s) /\ BucketOK(s) /\ WaterOK(s)
    BY <1>1, Callable DEF BevOK, Rest
  <1>3. Only(s, q, {"member"})
    BY <1>2 DEF Only, Fields
  <1> HIDE DEF s, q
  <1>4. /\ q.enabled = s.enabled /\ q.suspended = s.suspended
        /\ q.life = s.life /\ q.dropped = s.dropped /\ q.connecting = s.connecting
        /\ q.len = s.len /\ q.run = s.run /\ q.then = s.then /\ q.ev = s.ev
        /\ q.timer = s.timer /\ q.timeout = s.timeout /\ q.high = s.high
        /\ q.limit = s.limit /\ DOMAIN q = Fields
    BY <1>3 DEF Only, Fields
  <1>5. On(q) = On(s) /\ (Rechecks(q) <=> Rechecks(s))
    BY <1>4 DEF On, Rechecks
  <1>6. Shape(q) /\ EventsOK(q)
    BY <1>2, <1>4, <1>5 DEF Shape, EventsOK
  <1>7. /\ Only(q, r, Switches) /\ Shape(r) /\ EventsOK(r)
        /\ \A c \in Dir : r.suspended[c] = q.suspended[c] \ {"BW_GROUP"}
    BY <1>6, BothUnsuspended DEF Suspend
  <1> HIDE DEF r
  <1>8. Only(s, r, Switches \cup {"member"})
    BY <1>3, <1>7, OnlyTrans
  <1>9. /\ r.life = s.life /\ r.len = s.len /\ r.high = s.high /\ r.limit = s.limit
        /\ r.cfg = s.cfg /\ r.refill = s.refill /\ r.seen = s.seen
    BY <1>8 DEF Only, Fields, Switches
  <1>10. READ \in Dir /\ (Switches \cup {"member"}) \cap Control = {}
    BY DEF Dir, Switches, Control
  <1>11. WorkOK(r) /\ RefOK(r)
    BY <1>2, <1>8, <1>10, ControlKept
  <1>12. BucketOK(r) /\ WaterOK(r)
    BY <1>2, <1>4, <1>7, <1>9, <1>10 DEF BucketOK, WaterOK
  <1>13. GroupedOK(r, group)
    BY <1>2, <1>7, <1>9 DEF GroupedOK
  <1>14. BevOK(r, group)
    BY <1>7, <1>11, <1>12, <1>13 DEF BevOK, Rest
  <1> QED
    BY <1>1, <1>14, CallStep

(* The user gives the bufferevent another socket, or takes it away. *)
LEMMA SetfdStep ==
  ASSUME IInv, NEW b \in Bev, NEW fd, bufferevent_setfd(b, fd)
  PROVE  Advance
  <1> DEFINE s == bev[b]
             r == be_socket_setfd(s, fd)
  <1>1. Call(b, r) /\ MayCall(b)
    BY DEF bufferevent_setfd, Call
  <1>2. BevOK(s, group)
    BY <1>1, Callable
  <1> HIDE DEF s
  <1>3. BevOK(r, group)
    BY <1>2, SetfdKeeps
  <1> HIDE DEF r
  <1> QED
    BY <1>1, <1>3, CallStep

(* A lookup begins: it suspends both directions and takes a reference. *)
LEMMA HostnameStep ==
  ASSUME IInv, NEW b \in Bev, bufferevent_socket_connect_hostname(b)
  PROVE  Advance
  <1> DEFINE o == bev[b]
             p == bufferevent_suspend_(o, WRITE, "LOOKUP")
             q == bufferevent_suspend_(p, READ, "LOOKUP")
             r == [Incref(q) EXCEPT !.dns = "pending"]
  <1>1. Call(b, r) /\ MayCall(b) /\ o.dns = "none" /\ READ \in Dir /\ WRITE \in Dir
    BY DEF bufferevent_socket_connect_hostname, Call, Dir
  <1>2. BevOK(o, group) /\ o.life = "live"
    BY <1>1, Callable
  <1> HIDE DEF o
  <1>3. Only(o, p, Switches) /\ BevOK(p, group)
    BY <1>1, <1>2, SuspendKeeps DEF BevOK
  <1> HIDE DEF p
  <1>4. Only(p, q, Switches) /\ BevOK(q, group)
    BY <1>1, <1>3, SuspendKeeps DEF BevOK
  <1> HIDE DEF q
  <1>5. q.dns = "none" /\ q.life = "live" /\ DOMAIN q = Fields
    BY <1>1, <1>2, <1>3, <1>4 DEF Only, Fields, Switches
  <1>6. Only(q, r, {"refcnt", "dns"}) /\ r.refcnt = q.refcnt + 1 /\ r.dns = "pending"
    BY <1>5 DEF Only, Fields, Incref
  <1> HIDE DEF r
  <1>7. /\ r.run = q.run /\ r.held = q.held /\ r.life = q.life /\ r.then = q.then
        /\ r.sched = q.sched /\ r.callbacks = q.callbacks /\ r.seen = q.seen
        /\ r.amount = q.amount
    BY <1>6 DEF Only, Fields
  <1>8. WorkOK(r) /\ RefOK(r)
    BY <1>4, <1>5, <1>6, <1>7 DEF BevOK, Rest, WorkOK, RefOK, One
  <1>9. Only(q, r, Steps)
    BY <1>6 DEF Only, Steps, Control
  <1>10. Rechecks(q) => Rechecks(r)
    BY <1>7 DEF Rechecks
  <1>11. BevOK(r, group)
    BY <1>4, <1>5, <1>7, <1>8, <1>9, <1>10, StepsOnly
  <1> QED
    BY <1>1, <1>11, CallStep

(* The user lets go of the bufferevent, with his callbacks. *)
LEMMA FreeStep ==
  ASSUME IInv, NEW b \in Bev, bufferevent_free(b)
  PROVE  Advance
  <1> DEFINE s == bev[b]
             q == [s EXCEPT !.callbacks = FALSE, !.held = FALSE]
             r == bufferevent_decref(q)
  <1>1. Call(b, r) /\ MayCall(b) /\ s.held
    BY DEF bufferevent_free, Call, MayCall
  <1>2. /\ BevOK(s, group) /\ s.life = "live" /\ DOMAIN s = Fields
        /\ WorkOK(s) /\ RefOK(s)
    BY <1>1, Callable DEF BevOK, Rest
  <1>3. Only(s, q, {"callbacks", "held"}) /\ q.held = FALSE /\ q.callbacks = FALSE
    BY <1>2 DEF Only, Fields
  <1> HIDE DEF s, q
  <1>4. /\ q.run = s.run /\ q.life = s.life /\ q.then = s.then /\ q.dns = s.dns
        /\ q.sched = s.sched /\ q.seen = s.seen /\ q.amount = s.amount
        /\ q.refcnt = s.refcnt
    BY <1>3 DEF Only, Fields
  <1>5. WorkOK(q) /\ q.refcnt = Refs(q) + 1
    BY <1>1, <1>2, <1>3, <1>4 DEF WorkOK, RefOK, Refs, One
  <1>6. Only(s, q, Steps)
    BY <1>3 DEF Only, Steps, Control
  <1>7. Rechecks(s) => Rechecks(q)
    BY <1>4 DEF Rechecks
  <1>8. BevOK(r, group)
    BY <1>2, <1>3, <1>4, <1>5, <1>6, <1>7, DecrefKeeps
  <1> HIDE DEF r
  <1> QED
    BY <1>1, <1>8, CallStep

(* The user asks for one of his callbacks. *)
LEMMA TriggerStep ==
  ASSUME IInv, NEW b \in Bev, NEW cb \in Dir \cup {"EVENT"}, NEW defer, Trigger(b, cb, defer)
  PROVE  Advance
  <1> DEFINE o == bev[b]
             s == Enter(o)
             r == IF cb = "EVENT" THEN RunCallback(b, s, cb, defer)
                  ELSE bufferevent_trigger_nolock_(b, s, cb, defer)
             t == Return(r)
  <1>1. Call(b, t) /\ MayCall(b) /\ o.then = <<>>
    BY DEF Trigger, Call
  <1>2. BevOK(o, group) /\ o.life = "live"
    BY <1>1, Callable
  <1> HIDE DEF o
  <1>3. /\ Only(o, s, {"refcnt", "then"}) /\ BevOK(s, group)
        /\ s.then = <<"done">> /\ s.run = None
    BY <1>1, <1>2, EnterKeeps
  <1>4. s.life = "live"
    BY <1>2, <1>3 DEF Only, Fields
  <1>5. Ending(s)
    BY <1>3, <1>4 DEF Ending
  <1> HIDE DEF s
  <1>6. MayRun(s, cb, defer) /\ s.then # <<>>
    BY <1>5, EndingRuns
  <1>7. BevOK(r, group) /\ r.then # <<>>
    <2>1. CASE cb = "EVENT"
      <3>1. r = RunCallback(b, s, cb, defer)
        BY <2>1
      <3> HIDE DEF r
      <3> QED
        BY <1>3, <1>6, <3>1, CallbackKeeps
    <2>2. CASE cb # "EVENT"
      <3>1. r = bufferevent_trigger_nolock_(b, s, cb, defer) /\ cb \in Dir
        BY <2>2
      <3> HIDE DEF r
      <3> QED
        BY <1>3, <1>6, <3>1, TriggerKeeps
    <2> QED
      BY <2>1, <2>2
  <1> HIDE DEF r
  <1>8. BevOK(t, group)
    BY <1>7, ReturnKeeps
  <1> HIDE DEF t
  <1> QED
    BY <1>1, <1>8, CallStep

(* A connect begins, is done at once or fails. *)
LEMMA ConnectKeeps ==
  ASSUME NEW s, NEW g, BevOK(s, g), s.life = "live", NEW b, NEW a \in Answers
  PROVE  LET r == Connect(b, s, a)
         IN  /\ BevOK(r, g) /\ Quiet(s, r)
             /\ s.then # <<>> => r.then # <<>>
             /\ a = "failed" => r = s
  <1> DEFINE t == be_socket_setfd(s, TRUE)
             r == Connect(b, s, a)
  <1>1. /\ Only(s, t, {"enabled", "ev", "timer", "dropped", "fd", "dns"})
        /\ BevOK(t, g)
    BY SetfdKeeps
  <1>2. r = CASE a = "failed" -> s
              [] a = "under way" -> [be_socket_enable(t, {WRITE}) EXCEPT !.connecting = TRUE]
              [] a = "connected" -> bufferevent_trigger_nolock_(
                                      b, [t EXCEPT !.connecting = TRUE], WRITE, TRUE)
              [] a = "refused" -> bufferevent_disable(RunCallback(b, t, "EVENT", TRUE), Dir)
    BY DEF Connect
  <1> HIDE DEF t, r
  <1>3. /\ t.life = s.life /\ t.then = s.then /\ t.run = s.run /\ t.held = s.held
        /\ DOMAIN t = Fields /\ Shape(t) /\ EventsOK(t)
    BY <1>1 DEF Only, Fields, BevOK, Rest
  <1>4. CASE a = "failed"
    BY <1>2, <1>4 DEF Quiet, r
  <1>5. CASE a = "under way"
    <2> DEFINE u == be_socket_enable(t, {WRITE})
    <2>1. r = [u EXCEPT !.connecting = TRUE]
      BY <1>2, <1>5
    <2>2. {WRITE} \in SUBSET Dir
      BY DEF Dir
    <2>3. /\ Only(t, u, {"ev", "timer", "dropped"})
          /\ u.ev = t.ev \cup {WRITE} /\ u.dropped = t.dropped \ {WRITE}
          /\ u.timer = t.timer \cup ({WRITE} \cap t.timeout)
      BY <1>3, <2>2, SocketEnable
    <2> HIDE DEF u
    <2>4. Only(u, r, {"connecting"}) /\ r.connecting = TRUE
      BY <2>1, <2>3 DEF Only, Fields
    <2>5. r.ev = u.ev /\ r.dropped = u.dropped /\ r.timer = u.timer
      BY <2>4 DEF Only, Fields
    <2>6. Only(t, r, {"ev", "timer", "dropped", "connecting"})
      BY <2>3, <2>4, OnlyTrans
    <2>7. /\ r.enabled = t.enabled /\ r.suspended = t.suspended /\ r.timeout = t.timeout
          /\ r.life = t.life /\ r.len = t.len /\ r.run = t.run /\ r.then = t.then
          /\ r.limit = t.limit /\ r.high = t.high /\ DOMAIN r = Fields
      BY <2>6 DEF Only, Fields
    <2>8. Shape(r) /\ On(r) = On(t)
      BY <1>3, <2>7 DEF Shape, On
    <2>9. EventsOK(r)
      BY <1>3, <2>3, <2>4, <2>5, <2>7, <2>8 DEF EventsOK, READ, WRITE
    <2>10. Only(t, r, Listening)
      BY <2>6 DEF Only, Listening
    <2>11. BevOK(r, g)
      BY <1>1, <2>8, <2>9, <2>10, EventsOnly
    <2> QED
      BY <1>3, <1>5, <2>7, <2>11 DEF Quiet, r
  <1>6. CASE a = "connected"
    <2> DEFINE u == [t EXCEPT !.connecting = TRUE]
    <2>1. r = bufferevent_trigger_nolock_(b, u, WRITE, TRUE) /\ WRITE \in Dir
      BY <1>2, <1>6 DEF Dir
    <2>2. Only(t, u, {"connecting"}) /\ u.connecting = TRUE
      BY <1>3 DEF Only, Fields
    <2> HIDE DEF u
    <2>3. /\ u.enabled = t.enabled /\ u.suspended = t.suspended /\ u.timeout = t.timeout
          /\ u.life = t.life /\ u.len = t.len /\ u.run = t.run /\ u.then = t.then
          /\ u.limit = t.limit /\ u.high = t.high /\ DOMAIN u = Fields /\ u.ev = t.ev
          /\ u.timer = t.timer /\ u.dropped = t.dropped /\ u.held = t.held
      BY <2>2 DEF Only, Fields
    <2>4. Shape(u) /\ On(u) = On(t)
      BY <1>3, <2>3 DEF Shape, On
    <2>5. EventsOK(u)
      BY <1>3, <2>2, <2>3, <2>4 DEF EventsOK
    <2>6. Only(t, u, Listening)
      BY <2>2 DEF Only, Listening
    <2>7. BevOK(u, g)
      BY <1>1, <2>4, <2>5, <2>6, EventsOnly
    <2>8. MayRun(u, WRITE, TRUE)
      BY <1>3, <2>3 DEF MayRun
    <2>9. BevOK(r, g) /\ Quiet(u, r) /\ (u.then # <<>> => r.then # <<>>)
      BY <2>1, <2>7, <2>8, TriggerKeeps
    <2> QED
      BY <1>3, <1>6, <2>3, <2>9 DEF Quiet, r
  <1>7. CASE a = "refused"
    <2> DEFINE u == RunCallback(b, t, "EVENT", TRUE)
    <2>1. r = bufferevent_disable(u, Dir) /\ Dir \in SUBSET Dir
      BY <1>2, <1>7
    <2>2. MayRun(t, "EVENT", TRUE)
      BY <1>3 DEF MayRun
    <2>3. BevOK(u, g) /\ Quiet(t, u) /\ (t.then # <<>> => u.then # <<>>)
      BY <1>1, <2>2, CallbackKeeps
    <2> HIDE DEF u
    <2>4. Only(u, r, Switches) /\ BevOK(r, g)
      BY <2>1, <2>3, DisableKeeps
    <2>5. r.then = u.then /\ r.run = u.run
      BY <2>4 DEF Only, Fields, Switches
    <2> QED
      BY <1>3, <1>7, <2>3, <2>4, <2>5 DEF Quiet, r
  <1> QED
    BY <1>4, <1>5, <1>6, <1>7 DEF Answers

(* The user connects. *)
LEMMA SocketConnectStep ==
  ASSUME IInv, NEW b \in Bev, NEW a \in Answers, bufferevent_socket_connect(b, a)
  PROVE  Advance
  <1> DEFINE s == bev[b]
             r == Connect(b, s, a)
  <1>1. Call(b, r) /\ MayCall(b)
    BY DEF bufferevent_socket_connect, Call
  <1>2. BevOK(s, group) /\ s.life = "live"
    BY <1>1, Callable
  <1> HIDE DEF s
  <1>3. BevOK(r, group)
    BY <1>2, ConnectKeeps
  <1> HIDE DEF r
  <1> QED
    BY <1>1, <1>3, CallStep

(* The lookup is answered: its reference becomes the handler's. *)
LEMMA LookupStep ==
  ASSUME IInv, NEW b \in Bev, bufferevent_connect_getaddrinfo_cb(b)
  PROVE  Advance
  <1> DEFINE o == bev[b]
             p == bufferevent_unsuspend_(o, WRITE, "LOOKUP")
             q == bufferevent_unsuspend_(p, READ, "LOOKUP")
             s == [q EXCEPT !.dns = "none", !.then = <<"done">>]
             u == RunCallback(b, s, "EVENT", FALSE)
             t(a) == Connect(b, s, a)
             v(a) == IF a = "failed" THEN RunCallback(b, t(a), "EVENT", FALSE) ELSE t(a)
  <1>0. /\ BevOK(o, group) /\ RefOK(o) /\ WorkOK(o) /\ o.life = "live" /\ o.then = <<>>
        /\ READ \in Dir /\ WRITE \in Dir /\ "LOOKUP" \in Suspend /\ "LOOKUP" # "BW"
        /\ "LOOKUP" # "WM"
    BY DEF bufferevent_connect_getaddrinfo_cb, Ready, IInv, BevOK, Rest, Dir, Suspend
  <1>1. /\ o.dns # "none"
        /\ Step(b, s) \/ Step(b, u) \/ \E a \in Answers : Step(b, v(a))
    <2>1. (CASE bev[b].dns = "none" -> FALSE
             [] bev[b].dns = "cancelled" -> Step(b, s)
             [] bev[b].dns = "pending" -> Step(b, u) \/ \E a \in Answers : Step(b, v(a)))
      BY DEF bufferevent_connect_getaddrinfo_cb
    <2>2. o.dns \in {"none", "pending", "cancelled"}
      BY <1>0 DEF RefOK
    <2> HIDE DEF s, u, v
    <2> QED
      BY <2>1, <2>2
  <1> HIDE DEF o
  <1>2. Only(o, p, Switches) /\ BevOK(p, group)
    BY <1>0, UnsuspendKeeps DEF BevOK
  <1> HIDE DEF p
  <1>3. Only(p, q, Switches) /\ BevOK(q, group)
    BY <1>0, <1>2, UnsuspendKeeps DEF BevOK
  <1> HIDE DEF q
  <1>4. /\ q.dns = o.dns /\ q.life = o.life /\ q.then = o.then /\ q.run = o.run
        /\ q.held = o.held /\ q.seen = o.seen /\ DOMAIN q = Fields
    BY <1>2, <1>3 DEF Only, Fields, Switches
  <1>5. Only(q, s, {"dns", "then"}) /\ s.dns = "none" /\ s.then = <<"done">>
    BY <1>4 DEF Only, Fields
  <1> HIDE DEF s
  <1>6. /\ s.run = q.run /\ s.held = q.held /\ s.life = q.life /\ s.refcnt = q.refcnt
        /\ s.sched = q.sched /\ s.callbacks = q.callbacks /\ s.seen = q.seen
        /\ s.amount = q.amount
    BY <1>5 DEF Only, Fields
  <1>7. s.then # <<>> /\ s.run = None /\ s.seen = {} /\ s.life = "live"
    BY <1>0, <1>4, <1>5, <1>6, JustDone DEF AllLater, WorkOK
  <1>8. WorkOK(s)
    BY <1>5, <1>7, JustDone DEF WorkOK, AllLater
  <1>9. RefOK(s)
    BY <1>0, <1>1, <1>3, <1>4, <1>5, <1>6, <1>7 DEF BevOK, Rest, RefOK, One
  <1>10. BevOK(s, group)
    <2>1. Only(q, s, Steps)
      BY <1>5 DEF Only, Steps, Control
    <2>2. ~Rechecks(q)
      BY <1>0, <1>4 DEF Rechecks
    <2> QED
      BY <1>3, <1>6, <1>7, <1>8, <1>9, <2>1, <2>2, StepsOnly
  <1>11. Ending(s) /\ MayRun(s, "EVENT", FALSE)
    BY <1>5, <1>7, EndingRuns DEF Ending
  <1>12. s.held = bev[b].held /\ s.run = bev[b].run
    BY <1>4, <1>6 DEF o
  <1>13. BevOK(u, group) /\ Quiet(s, u) /\ u.then # <<>>
    BY <1>7, <1>10, <1>11, CallbackKeeps
  <1>14. ASSUME NEW a \in Answers
         PROVE  BevOK(v(a), group) /\ Quiet(s, v(a)) /\ v(a).then # <<>>
    <2>1. /\ BevOK(t(a), group) /\ Quiet(s, t(a)) /\ t(a).then # <<>>
          /\ a = "failed" => t(a) = s
      BY <1>7, <1>10, ConnectKeeps
    <2> HIDE DEF t, u
    <2>2. a = "failed" => v(a) = u
      BY <2>1 DEF u
    <2>3. a # "failed" => v(a) = t(a)
      OBVIOUS
    <2> HIDE DEF v
    <2> QED
      BY <1>13, <2>1, <2>2, <2>3
  <1> HIDE DEF u, v
  <1>15. CASE Step(b, s)
    BY <1>7, <1>10, <1>12, <1>15, HandlerStep DEF Quiet
  <1>16. CASE Step(b, u)
    BY <1>12, <1>13, <1>16, HandlerStep DEF Quiet
  <1>17. ASSUME NEW a \in Answers, Step(b, v(a))
         PROVE  Advance
    <2> DEFINE w == v(a)
    <2>1. BevOK(w, group) /\ Quiet(s, w) /\ w.then # <<>> /\ Step(b, w)
      BY <1>14, <1>17
    <2> HIDE DEF w
    <2> QED
      BY <1>12, <2>1, HandlerStep DEF Quiet
  <1> QED
    BY <1>1, <1>15, <1>16, <1>17

-----------------------------------------------------------------------------
(* Refill timers *)

(* The refill timer ends the suspension of a direction that is not dry. *)
LEMMA RefillOne ==
  ASSUME NEW s, Shape(s), EventsOK(s), NEW d \in Dir, NEW D
  PROVE  LET r == IF "BW" \in s.suspended[d] /\ d \notin D
                  THEN bufferevent_unsuspend_(s, d, "BW") ELSE s
         IN  /\ Only(s, r, Switches) /\ Shape(r) /\ EventsOK(r)
             /\ \A c \in Dir :
                  r.suspended[c] = IF c = d /\ d \notin D THEN s.suspended[c] \ {"BW"}
                                   ELSE s.suspended[c]
  <1> DEFINE q == bufferevent_unsuspend_(s, d, "BW")
  <1>1. /\ Only(s, q, {"suspended", "ev", "timer", "dropped"})
        /\ q.suspended = Without(s, d, "BW") /\ Shape(q) /\ EventsOK(q)
    BY Unsuspending
  <1> HIDE DEF q
  <1>2. Only(s, q, Switches) /\ Only(s, s, Switches)
    BY <1>1, OnlyRefl DEF Only, Switches, Shape
  <1>3. \A c \in Dir : q.suspended[c] = IF c = d THEN s.suspended[c] \ {"BW"}
                                        ELSE s.suspended[c]
    BY <1>1 DEF Without, Shape
  <1>4. "BW" \notin s.suspended[d] => s.suspended[d] = s.suspended[d] \ {"BW"}
    OBVIOUS
  <1>5. CASE "BW" \in s.suspended[d] /\ d \notin D
    BY <1>1, <1>2, <1>3, <1>5 DEF q
  <1>6. CASE ~("BW" \in s.suspended[d] /\ d \notin D)
    BY <1>2, <1>4, <1>6
  <1> QED
    BY <1>5, <1>6

(***************************************************************************)
(* The own bucket's timer: a direction that has tokens goes on, and the    *)
(* timer is set again while one has none.                                  *)
(***************************************************************************)
LEMMA RefillStep ==
  ASSUME IInv, NEW b \in Bev, NEW n \in Ticks, bev_refill_callback_(b, n)
  PROVE  Advance
  <1> DEFINE o == bev[b]
             f == Refreshed(o, n)
             s == [f EXCEPT !.refill = FALSE]
             dry == {d \in Dir : "BW" \in s.suspended[d] /\ s.limit[d] <= 0}
             p == IF "BW" \in s.suspended[READ] /\ READ \notin dry
                  THEN bufferevent_unsuspend_(s, READ, "BW") ELSE s
             q == IF "BW" \in p.suspended[WRITE] /\ WRITE \notin dry
                  THEN bufferevent_unsuspend_(p, WRITE, "BW") ELSE p
             e == dry # {}
             r == [q EXCEPT !.refill = e]
  <1>0. /\ BevOK(o, group) /\ o.then = <<>> /\ READ \in Dir /\ WRITE \in Dir
        /\ READ # WRITE /\ \A c \in Dir : c = READ \/ c = WRITE
    BY DEF bev_refill_callback_, Ready, IInv, Dir, READ, WRITE
  <1>1. Step(b, r)
    BY DEF bev_refill_callback_
  <1> HIDE DEF o
  <1>2. Only(o, f, {"limit"}) /\ BevOK(f, group)
    BY <1>0, RefreshKeeps
  <1> HIDE DEF f
  <1>3. Shape(f) /\ EventsOK(f) /\ BucketOK(f) /\ DOMAIN f = Fields
    BY <1>2 DEF BevOK, Rest, Shape
  <1>4. Only(f, s, {"refill"})
    BY <1>3 DEF Only, Fields
  <1> HIDE DEF s
  <1>5. /\ s.enabled = f.enabled /\ s.suspended = f.suspended /\ s.timeout = f.timeout
        /\ s.life = f.life /\ s.len = f.len /\ s.run = f.run /\ s.then = f.then
        /\ s.limit = f.limit /\ s.high = f.high /\ DOMAIN s = Fields /\ s.ev = f.ev
        /\ s.timer = f.timer /\ s.dropped = f.dropped /\ s.connecting = f.connecting
        /\ s.cfg = f.cfg
    BY <1>4 DEF Only, Fields
  <1>6. Shape(s) /\ On(s) = On(f) /\ (Rechecks(s) <=> Rechecks(f))
    BY <1>3, <1>5 DEF Shape, On, Rechecks
  <1>7. EventsOK(s)
    BY <1>3, <1>5, <1>6 DEF EventsOK
  <1>8. \A d \in Dir : d \in dry <=> "BW" \in f.suspended[d] /\ f.limit[d] <= 0
    BY <1>5
  <1>9. e <=> \E d \in Dir : d \in dry
    OBVIOUS
  <1> HIDE DEF dry, e
  <1>10. /\ Only(s, p, Switches) /\ Shape(p) /\ EventsOK(p)
         /\ \A c \in Dir :
              p.suspended[c] = IF c = READ /\ READ \notin dry THEN s.suspended[c] \ {"BW"}
                               ELSE s.suspended[c]
    BY <1>0, <1>6, <1>7, RefillOne
  <1> HIDE DEF p
  <1>11. /\ Only(p, q, Switches) /\ Shape(q) /\ EventsOK(q)
         /\ \A c \in Dir :
              q.suspended[c] = IF c = WRITE /\ WRITE \notin dry THEN p.suspended[c] \ {"BW"}
                               ELSE p.suspended[c]
    BY <1>0, <1>10, RefillOne
  <1> HIDE DEF q
  <1>12. \A c \in Dir : q.suspended[c] = IF c \notin dry THEN f.suspended[c] \ {"BW"}
                                         ELSE f.suspended[c]
    <2>1. p.suspended[WRITE] = f.suspended[WRITE] /\ q.suspended[READ] = p.suspended[READ]
      BY <1>0, <1>5, <1>10, <1>11
    <2>2. p.suspended[READ] = IF READ \notin dry THEN f.suspended[READ] \ {"BW"}
                              ELSE f.suspended[READ]
      BY <1>0, <1>5, <1>10
    <2>3. q.suspended[WRITE] = IF WRITE \notin dry THEN p.suspended[WRITE] \ {"BW"}
                               ELSE p.suspended[WRITE]
      BY <1>0, <1>11
    <2> QED
      BY <1>0, <2>1, <2>2, <2>3
  <1>13. DOMAIN q = Fields
    BY <1>11 DEF Only
  <1>14. Only(q, r, {"refill"}) /\ r.refill = e
    BY <1>13 DEF Only, Fields
  <1> HIDE DEF r
  <1>15. /\ r.enabled = q.enabled /\ r.suspended = q.suspended /\ r.timeout = q.timeout
         /\ r.life = q.life /\ r.len = q.len /\ r.run = q.run /\ r.then = q.then
         /\ r.limit = q.limit /\ r.high = q.high /\ DOMAIN r = Fields /\ r.ev = q.ev
         /\ r.timer = q.timer /\ r.dropped = q.dropped /\ r.connecting = q.connecting
    BY <1>14 DEF Only, Fields
  <1>16. Shape(r) /\ On(r) = On(q) /\ (Rechecks(r) <=> Rechecks(q))
    BY <1>11, <1>15 DEF Shape, On, Rechecks
  <1>17. EventsOK(r)
    BY <1>11, <1>15, <1>16 DEF EventsOK
  <1>18. Only(f, r, Switches \cup {"refill"})
    <2>1. Only(f, p, Switches \cup {"refill"})
      BY <1>4, <1>10, OnlyTrans
    <2>2. Only(f, q, Switches \cup {"refill"})
      BY <1>11, <2>1, OnlyTrans
    <2> QED
      BY <1>14, <2>2, OnlyTrans
  <1>19. r.life = f.life /\ r.limit = f.limit /\ r.cfg = f.cfg /\ r.then = f.then /\ r.run = f.run
    BY <1>18 DEF Only, Fields, Switches
  <1>20. BucketOK(r)
    <2> SUFFICES ASSUME NEW d \in Dir, r.life = "live"
                 PROVE  /\ "BW" \in r.suspended[d] => r.refill
                        /\ r.cfg /\ r.limit[d] <= 0 => "BW" \in r.suspended[d]
      BY DEF BucketOK
    <2>1. "BW" \in r.suspended[d] => d \in dry
      BY <1>12, <1>15
    <2>2. f.cfg /\ f.limit[d] <= 0 => "BW" \in f.suspended[d]
      BY <1>3, <1>19 DEF BucketOK
    <2>3. d \in dry /\ "BW" \in f.suspended[d] => "BW" \in r.suspended[d]
      BY <1>12, <1>15
    <2> QED
      BY <1>8, <1>9, <1>14, <1>19, <2>1, <2>2, <2>3
  <1>21. \A c \in Dir, w \in Suspend :
            w # "BW" => (w \in r.suspended[c] <=> w \in f.suspended[c])
    BY <1>12, <1>15
  <1>22. Only(f, r, Switches \cup {"limit", "refill", "cfg"})
    BY <1>18 DEF Only
  <1>23. BevOK(r, group)
    BY <1>2, <1>16, <1>17, <1>20, <1>21, <1>22, BucketKeeps
  <1>24. r.run = o.run /\ r.then = <<>>
    BY <1>0, <1>2, <1>19 DEF Only, Fields
  <1>25. Return(r) = r
    BY <1>24 DEF Return
  <1> QED
    BY <1>1, <1>23, <1>24, <1>25, OneStep DEF Step, Quiet, o

(* bev_group_refill_callback_ unsuspends the group's direction d. *)
Due(h, d) == h.pending_unsuspend[d] \/ (h.suspended[d] /\ h.limit[d] >= MinShare)

(* The group's timer ends the suspension of a direction that is due. *)
LEMMA GroupFreeKeeps ==
  ASSUME NEW p, AllOK(p.B, p.g), GroupOK(p.g), NEW d \in Dir
  PROVE  LET q == IF Due(p.g, d) THEN bev_group_unsuspend_(None, p.B, p.g, d) ELSE p
         IN  AllOK(q.B, q.g) /\ AllKept(p.B, q.B) /\ GroupOK(q.g)
  <1> DEFINE B == p.B
             g == p.g
             r == bev_group_unsuspend_(None, B, g, d)
  <1>0. AllOK(B, g) /\ GroupOK(g)
    OBVIOUS
  <1> HIDE DEF B, g
  <1>1. CASE Due(g, d)
    <2>1. g.limit[d] \in Int /\ g \in GroupType /\ \A e \in Dir : DryOK(g, e)
      BY <1>0 DEF GroupOK, GroupType, DryOK
    <2>2. MinShare \in Int /\ MinShare >= 1
      BY BevAssumption
    <2>3. g.limit[d] > 0
      BY <1>1, <2>1, <2>2 DEF Due, DryOK
    <2>4. None \notin Bev
      BY BevAssumption DEF None
    <2>5. AllOK(r.B, r.g) /\ AllKept(B, r.B) /\ GroupOK(r.g)
      BY <1>0, <2>1, <2>3, <2>4, GroupUnsuspendKeeps
    <2> QED
      BY <1>1, <2>5 DEF B, g
  <1>2. CASE ~Due(g, d)
    <2>1. AllKept(B, B)
      BY <1>0, OnlyRefl DEF AllOK, AllKept, BevOK, Rest, Shape
    <2> QED
      BY <1>0, <1>2, <2>1 DEF B, g
  <1> QED
    BY <1>1, <1>2

(* The group's timer. *)
LEMMA GroupRefillStep ==
  ASSUME IInv, NEW n \in Ticks, bev_group_refill_callback_(n)
  PROVE  Advance
  <1> DEFINE g == [group EXCEPT !.limit = Update(@, n)]
             o == [B |-> bev, g |-> g]
             p == IF Due(o.g, READ) THEN bev_group_unsuspend_(None, o.B, o.g, READ) ELSE o
             q == IF Due(p.g, WRITE) THEN bev_group_unsuspend_(None, p.B, p.g, WRITE) ELSE p
  <1>0. bev' = q.B /\ group' = q.g /\ READ \in Dir /\ WRITE \in Dir
    BY DEF bev_group_refill_callback_, Due, Dir
  <1>1. /\ group \in GroupType /\ group.limit \in [Dir -> Int]
        /\ \A d \in Dir : DryOK(group, d)
    BY DEF IInv, GroupOK, GroupType, DryOK
  <1>2. /\ g.limit = Update(group.limit, n) /\ g.suspended = group.suspended
        /\ g.pending_unsuspend = group.pending_unsuspend
        /\ DOMAIN g = DOMAIN group
    BY <1>1 DEF GroupType
  <1>3. /\ Update(group.limit, n) \in [Dir -> Int]
        /\ \A d \in Dir : group.limit[d] > 0 => Update(group.limit, n)[d] > 0
    BY <1>1, UpdateKeeps
  <1>4. g \in GroupType
    BY <1>1, <1>3 DEF GroupType
  <1> HIDE DEF g
  <1>5. GroupOK(g)
    <2>1. ASSUME NEW d \in Dir, g.limit[d] <= 0
          PROVE  g.suspended[d] /\ ~g.pending_unsuspend[d]
      <3>1. group.limit[d] \in Int /\ g.limit[d] \in Int
        BY <1>1, <1>4 DEF GroupType
      <3>2. group.limit[d] <= 0
        BY <1>2, <1>3, <2>1, <3>1
      <3> QED
        BY <1>1, <1>2, <3>2 DEF DryOK
    <2> QED
      BY <1>4, <2>1 DEF GroupOK, GroupType
  <1>6. AllOK(bev, g)
    <2> SUFFICES ASSUME NEW c \in Bev PROVE BevOK(bev[c], g)
      BY DEF AllOK, IInv
    <2>1. BevOK(bev[c], group)
      BY DEF IInv
    <2>2. GroupedOK(bev[c], g)
      BY <1>2, <2>1 DEF GroupedOK, Wakes, BevOK, Rest
    <2> QED
      BY <2>1, <2>2 DEF BevOK, Rest
  <1>7. AllOK(o.B, o.g) /\ GroupOK(o.g) /\ o.B = bev
    BY <1>5, <1>6
  <1> HIDE DEF o
  <1>8. AllOK(p.B, p.g) /\ AllKept(o.B, p.B) /\ GroupOK(p.g)
    BY <1>0, <1>7, GroupFreeKeeps
  <1> HIDE DEF p
  <1>9. AllOK(q.B, q.g) /\ AllKept(p.B, q.B) /\ GroupOK(q.g)
    BY <1>0, <1>8, GroupFreeKeeps
  <1> HIDE DEF q
  <1>10. IInv'
    BY <1>0, <1>9 DEF IInv, AllOK
  <1>11. ASSUME NEW c \in Bev
         PROVE  Quiet(bev[c], bev'[c])
    <2>1. Only(bev[c], p.B[c], Switches) /\ Only(p.B[c], q.B[c], Switches)
      BY <1>7, <1>8, <1>9 DEF AllKept
    <2>2. q.B[c].run = bev[c].run
      BY <2>1 DEF Only, Fields, Switches
    <2> QED
      BY <1>0, <2>2 DEF Quiet
  <1> QED
    BY <1>10, <1>11 DEF Advance

-----------------------------------------------------------------------------
(* All steps *)

(* New bufferevents are in order. *)
LEMMA InitOK == Init => IInv
  <1> SUFFICES ASSUME Init PROVE IInv
    OBVIOUS
  <1>1. DOMAIN bev = Bev
    BY DEF Init
  <1>2. GroupOK(group)
    BY BevAssumption DEF Init, GroupOK
  <1>3. ASSUME NEW b \in Bev
        PROVE  BevOK(bev[b], group)
    <2> DEFINE s == bev[b]
               fd == ~Does(b, "connect")
               cbs == ~Does(b, "silent")
    <2>1. s = NewBev(fd, cbs)
      BY DEF Init
    <2> HIDE DEF s, fd, cbs
    <2>2. DOMAIN s = Fields
      BY <2>1 DEF NewBev, Fields
    <2>3. /\ s.enabled = {WRITE} /\ s.suspended = [d \in Dir |-> {}]
          /\ s.ev = {} /\ s.timer = {} /\ s.timeout = {} /\ s.len = [d \in Dir |-> 0]
          /\ s.high = 0 /\ s.dns = "none" /\ ~s.sched /\ s.run = None /\ s.then = <<>>
          /\ s.seen = {} /\ s.refcnt = 1 /\ s.held /\ s.life = "live"
          /\ ~s.cfg /\ s.limit = [d \in Dir |-> 0] /\ ~s.refill /\ ~s.member
      BY <2>1 DEF NewBev
    <2>4. READ \in Dir /\ WRITE \in Dir /\ READ # WRITE
      BY DEF Dir, READ, WRITE
    <2>5. Shape(s)
      BY <2>2, <2>3, <2>4 DEF Shape
    <2>6. EventsOK(s) /\ BucketOK(s) /\ GroupedOK(s, group) /\ WaterOK(s)
      BY <2>3, <2>4 DEF EventsOK, BucketOK, GroupedOK, WaterOK, On
    <2>7. WorkOK(s) /\ RefOK(s)
      BY <2>3 DEF WorkOK, RefOK, One
    <2> QED
      BY <2>5, <2>6, <2>7 DEF BevOK, Rest, s
  <1> QED
    BY <1>1, <1>2, <1>3 DEF IInv

(* Every step of the program keeps the invariant and is quiet after a free. *)
LEMMA EveryStep ==
  ASSUME IInv, [Next]_vars
  PROVE  Advance
  <1>1. CASE UNCHANGED vars
    BY <1>1 DEF Advance, IInv, Quiet, vars
  <1>2. ASSUME NEW b \in Bev, Handle(b)
        PROVE  Advance
    BY <1>2, ReadStep, WriteStep, RecheckStep, DeferredKeeps, WmCheckStep,
       CallbackReturnsStep, JoinedStep DEF Handle
  <1>3. ASSUME NEW b \in Bev, Fire(b)
        PROVE  Advance
    BY <1>3, ReadcbStep, WritecbStep, RunDeferredStep, TimeoutStep, RefillStep,
       LookupStep, FinalizeStep DEF Fire
  <1>4. ASSUME NEW b \in Bev, User(b)
        PROVE  Advance
    <2>1. 0 .. MaxLen \subseteq Nat /\ {-1, 1} \subseteq Int
      BY BevAssumption
    <2>2. CASE bufferevent_write(b) \/ bufferevent_read(b) \/ Enable(b) \/ Disable(b)
      BY <2>2, UserWriteStep, UserReadStep, EnableStep, DisableStep
    <2>3. CASE \E low, high \in 0 .. MaxLen : bufferevent_setwatermark(b, low, high)
      BY <2>1, <2>3, WatermarkStep
    <2>4. CASE \/ \E low \in 0 .. MaxLen : SetWriteMark(b, low)
               \/ \E T \in SUBSET Dir : bufferevent_set_timeouts(b, T)
               \/ \E on \in BOOLEAN : bufferevent_set_rate_limit(b, on)
      BY <2>4, WriteMarkStep, TimeoutsStep, RateLimitStep
    <2>5. CASE \E d \in Dir, decr \in {-1, 1} : bufferevent_decrement_limit(b, d, decr)
      BY <2>1, <2>5, DecrementLimitStep
    <2>6. CASE \/ bufferevent_add_to_rate_limit_group(b)
               \/ bufferevent_remove_from_rate_limit_group(b)
               \/ bufferevent_socket_connect_hostname(b) \/ bufferevent_free(b)
      BY <2>6, JoinStep, LeaveStep, HostnameStep, FreeStep
    <2>7. CASE \/ \E r \in Answers : bufferevent_socket_connect(b, r)
               \/ \E fd \in BOOLEAN : bufferevent_setfd(b, fd)
               \/ \E cb \in Dir \cup {"EVENT"}, defer \in BOOLEAN : Trigger(b, cb, defer)
      BY <2>7, SocketConnectStep, SetfdStep, TriggerStep
    <2> QED
      BY <1>4, <2>2, <2>3, <2>4, <2>5, <2>6, <2>7 DEF User
  <1> QED
    BY <1>1, <1>2, <1>3, <1>4, GroupRefillStep DEF Next

(* The invariant holds in every reachable state. *)
LEMMA Invariant == Spec => []IInv
  <1>1. IInv /\ [Next]_vars => IInv'
    BY EveryStep DEF Advance
  <1> QED
    BY <1>1, InitOK, PTL DEF Spec

-----------------------------------------------------------------------------
(* Theorems *)

(***************************************************************************)
(* The reference count is at all times the number of those who will use    *)
(* the bufferevent again, and it is finalized when there are none: no      *)
(* order of callbacks, handlers, lookups and bufferevent_free leaks one or *)
(* drops one twice (bufferevent_decref_and_unlock_).                       *)
(***************************************************************************)
THEOREM RefsCorrect == Spec => []RefsExact
  <1>1. IInv => RefsExact
    BY DEF IInv, BevOK, Rest, RefOK, One, RefsExact
  <1> QED
    BY <1>1, Invariant, PTL

(***************************************************************************)
(* Whatever order the calls, the suspensions and the socket's answers come *)
(* in, a bufferevent listens for what its switches ask for, and the input  *)
(* is suspended for its watermark exactly while it is at the mark.         *)
(***************************************************************************)
THEOREM SwitchesCorrect == Spec => []SwitchesFollow
  <1>1. IInv => EventsFollow
    <2> SUFFICES ASSUME IInv, NEW b \in Bev, bev[b].life = "live"
                 PROVE  LET s == bev[b]
                            on == {d \in s.enabled : s.suspended[d] = {}}
                        IN  /\ READ \in s.ev => READ \in on
                            /\ WRITE \in s.ev =>
                                  \/ WRITE \in on \/ s.connecting \/ At(b, "recheck")
                                  \/ s.run = "CONNECTED"
                            /\ READ \in on => READ \in s.ev \cup s.dropped
                            /\ WRITE \in on /\ s.len[WRITE] > 0 =>
                                  WRITE \in s.ev \cup s.dropped
                            /\ s.timer = s.ev \cap s.timeout
      BY DEF EventsFollow, Live
    <2>1. EventsOK(bev[b])
      BY DEF IInv, BevOK, Rest
    <2>2. Rechecks(bev[b]) => At(b, "recheck") \/ bev[b].run = "CONNECTED"
      BY DEF Rechecks, At
    <2> QED
      BY <2>1, <2>2 DEF EventsOK, On
  <1>2. IInv => WatermarkExact
    BY DEF IInv, BevOK, WaterOK, WatermarkExact, Live
  <1> QED
    BY <1>1, <1>2, Invariant, PTL DEF SwitchesFollow

(***************************************************************************)
(* Whoever is suspended for bandwidth has somebody to wake it, also when   *)
(* the group could not lock it or it joined with an outdated view of the   *)
(* group; an empty bucket suspends, and no handler moves zero bytes        *)
(* (bufferevent_ratelim.c).                                                *)
(***************************************************************************)
THEOREM BandwidthCorrect == Spec => []BandwidthReturns
  <1>1. IInv => BandwidthReturns
    <2> SUFFICES ASSUME IInv PROVE BandwidthReturns
      OBVIOUS
    <2>1. ASSUME NEW b \in Bev, bev[b].life = "live", NEW d \in Dir
          PROVE  LET s == bev[b]
                 IN  /\ "BW" \in s.suspended[d] => s.refill
                     /\ s.cfg /\ s.limit[d] <= 0 => "BW" \in s.suspended[d]
                     /\ "BW_GROUP" \in s.suspended[d] =>
                          s.member /\ (group.suspended[d] \/ group.pending_unsuspend[d])
                     /\ At(b, "read") \/ At(b, "write") => s.amount > 0
      <3>1. BucketOK(bev[b]) /\ GroupedOK(bev[b], group) /\ WorkOK(bev[b])
        BY DEF IInv, BevOK, Rest
      <3>2. bev[b].then # <<>> => Head(bev[b].then) = bev[b].then[1]
        BY <3>1 DEF WorkOK
      <3>3. At(b, "read") \/ At(b, "write") => bev[b].amount > 0
        BY <3>1, <3>2 DEF WorkOK, At
      <3> QED
        BY <2>1, <3>1, <3>3 DEF BucketOK, GroupedOK, Wakes
    <2>2. \A d \in Dir : group.limit[d] <= 0 => group.suspended[d]
      BY DEF IInv, GroupOK
    <2> QED
      BY <2>1, <2>2 DEF BandwidthReturns, Live
  <1> QED
    BY <1>1, Invariant, PTL

(***************************************************************************)
(* After bufferevent_free no callback of the user starts: bufferevent_free *)
(* takes the callbacks away before it lets go of its reference, and no     *)
(* step brings them back.                                                  *)
(***************************************************************************)
THEOREM QuietCorrect == Spec => QuietAfterFree
  <1>1. IInv /\ [Next]_vars =>
            [\A b \in Bev : ~bev[b].held => bev'[b].run \in {None, bev[b].run}]_vars
    BY EveryStep DEF Advance, Quiet
  <1> QED
    BY <1>1, Invariant, PTL DEF Spec, QuietAfterFree
=============================================================================
