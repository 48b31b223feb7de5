---------------------------- MODULE EvdnsProofs ----------------------------
(***************************************************************************)
(* What TLAPS proves of module Evdns, for every set of users and           *)
(* nameservers, every number of requests in flight and every order of      *)
(* answers, failures and calls: QueuesExact, NothingStuck, DownIsProbed    *)
(* and WaitingIsServed.                                                    *)
(*                                                                         *)
(* Sending a request may take a nameserver down, which moves requests,     *)
(* and ending one promotes others, each of which is sent: every handler    *)
(* ends in the same few operators.  Core(s, X) is what each of them keeps  *)
(* of the lists and counters, X being the requests that need not have      *)
(* anything to move them yet; Frame(s, r) is what none of them touches.    *)
(***************************************************************************)
EXTENDS Evdns, Induction

Err == Reply \cup {"timeout", "cancel", "shutdown"}

Server == [state : BOOLEAN, inflight : Int, timedout : Nat, choked : BOOLEAN,
           write_waiting : BOOLEAN, timer : BOOLEAN, probe : BOOLEAN]

Request == [ns : Nameserver \cup {Null}, tx : Nat, reissue : Nat, transmit_me : BOOLEAN,
            timer : BOOLEAN, sent : SUBSET Nameserver]

Bases == [servers : Seq(Nameserver), good : Int, ns : [Nameserver -> Server],
          inflight : Seq(Handle), ninflight : Int, waiting : Seq(Handle), nwaiting : Int,
          req : [Handle -> Request], names : [Handle -> Nat],
          handle : [Handle -> {"new", "live", "pending", "done"}],
          deferred : Seq([handle : Handle, err : Err]),
          suspended : BOOLEAN, alive : BOOLEAN]

Sv(s) == ToSet(s.servers)
In(s) == ToSet(s.inflight)
Wa(s) == ToSet(s.waiting)

(* The lists hold a request once, and their counters count them. *)
Lists(s) ==
    /\ s.ninflight = Len(s.inflight) /\ s.nwaiting = Len(s.waiting)
    /\ IsInjective(s.inflight) /\ IsInjective(s.waiting) /\ In(s) \cap Wa(s) = {}

(* The nameservers that are up are counted; one that is not there is blank. *)
UpIn(servers, ns) == {n \in ToSet(servers) : ns[n].state}
Ups(s) ==
    /\ IsInjective(s.servers)
    /\ s.good = Cardinality(UpIn(s.servers, s.ns))
    /\ \A n \in Nameserver \ Sv(s) : s.ns[n] = NewServer

(* A request in flight has a nameserver, any other one is blank. *)
Placed(s) ==
    \A h \in Handle : IF h \in In(s) THEN s.req[h].ns \in Sv(s) ELSE s.req[h] = NewRequest

(* The requests in flight at a nameserver are counted. *)
At(inflight, req, n) == {h \in ToSet(inflight) : req[h].ns = n}
Loads(s) ==
    \A n \in Nameserver : s.ns[n].inflight = Cardinality(At(s.inflight, s.req, n))

(* A socket that is full is waited for. *)
Awaited(s) == \A n \in Nameserver : s.ns[n].choked => s.ns[n].write_waiting

(* Something will move the request h. *)
Moves(s, h) ==
    s.req[h].timer \/ (s.req[h].transmit_me /\ \E n \in Sv(s) : s.ns[n].write_waiting)

Core(s, X) ==
    /\ s \in Bases
    /\ Lists(s) /\ Ups(s) /\ Placed(s) /\ Loads(s) /\ Awaited(s)
    /\ \A h \in In(s) \ X : Moves(s, h)

(* No nameserver comes up, and one that goes down has its timer. *)
Cools(s, r) ==
    \A n \in Nameserver :
        /\ r.ns[n].probe = s.ns[n].probe
        /\ s.ns[n].timer => r.ns[n].timer
        /\ r.ns[n].state => s.ns[n].state
        /\ s.ns[n].state => r.ns[n].state \/ r.ns[n].timer

(***************************************************************************)
(* Sending, moving and promoting requests leave the handles alone, keep    *)
(* every request in one of the two lists, and no request leaves the first. *)
(* A nameserver may go down; its timer is set then.                        *)
(***************************************************************************)
Frame(s, r) ==
    /\ r.handle = s.handle /\ r.names = s.names /\ r.deferred = s.deferred
    /\ r.suspended = s.suspended /\ r.alive = s.alive
    /\ Sv(r) = Sv(s) /\ In(r) \cup Wa(r) = In(s) \cup Wa(s) /\ In(s) \subseteq In(r)
    /\ Len(r.inflight) + Len(r.waiting) = Len(s.inflight) + Len(s.waiting)
    /\ Len(s.inflight) <= Len(r.inflight) /\ Cools(s, r)

(***************************************************************************)
(* A handle but those of X is live while its request is in a list; its     *)
(* callback is scheduled once while it is pending.                         *)
(***************************************************************************)
Handles(s, X) ==
    /\ \A h \in Handle \ X : s.handle[h] = "live" <=> h \in In(s) \cup Wa(s)
    /\ \A h \in Handle : s.handle[h] = "pending" <=>
                            \E i \in DOMAIN s.deferred : s.deferred[i].handle = h
    /\ \A i, j \in DOMAIN s.deferred : s.deferred[i].handle = s.deferred[j].handle => i = j
    /\ \A n \in Nameserver : s.handle[n] # "done"
    /\ \A h \in Handle : s.names[h] > 0 => set.names > 0

(***************************************************************************)
(* A nameserver that is down is tried again, the ones of Z apart.  The     *)
(* callback of a probe that was cancelled does nothing: its nameserver is  *)
(* up, or went down again and has its timer.                               *)
(***************************************************************************)
Probing(s, Z) ==
    /\ \A n \in Nameserver : s.handle[n] # "new" => n \in Sv(s)
    /\ \A n \in Nameserver \ Z :
         /\ n \in Sv(s) /\ ~s.ns[n].state => s.ns[n].timer \/ s.handle[n] # "new"
         /\ s.ns[n].probe => s.handle[n] # "new"
    /\ \A i \in DOMAIN s.deferred :
         LET n == s.deferred[i].handle
         IN  n \in Nameserver \ Z /\ s.deferred[i].err = "cancel" =>
                ~s.ns[n].probe /\ (s.ns[n].state \/ s.ns[n].timer)

(* Without nameservers the base is suspended or gone, and then it is empty. *)
Emptied(s) ==
    /\ s.servers = <<>> => s.suspended \/ ~s.alive
    /\ ~s.alive => s.servers = <<>> /\ s.inflight = <<>> /\ s.waiting = <<>>

Served(s) == s.waiting # <<>> /\ ~s.suspended => s.inflight # <<>>

(***************************************************************************)
(* A search has room for the request of its next name beside another one.  *)
(* Without it, the next name of a search waits with nothing in flight that *)
(* would promote it: search_try_next asks for a nameserver before it ends  *)
(* the request of the name before.                                         *)
(***************************************************************************)
RoomToSearch == \A x \in Settings : x.names > 0 => x.max > 1

(* What holds of handles and nameservers, beside the lists and counters. *)
Rest(s, Y, Z) ==
    Handles(s, Y) /\ Probing(s, Z) /\ Emptied(s) /\ (RoomToSearch => Served(s))

(* Between two calls there are no exceptions. *)
Sound(s) == Core(s, {}) /\ Rest(s, {}, {})

Inv == set \in Settings /\ Sound(dns)

-----------------------------------------------------------------------------
(* Sequences *)

(* Turning a list keeps its elements. *)
LEMMA RotateKeeps ==
  ASSUME NEW S, NEW q \in Seq(S), NEW k \in 0 .. Len(q)
  PROVE  /\ Rotate(q, k) \in Seq(S) /\ Len(Rotate(q, k)) = Len(q)
         /\ ToSet(Rotate(q, k)) = ToSet(q)
         /\ IsInjective(q) => IsInjective(Rotate(q, k))
  <1> DEFINE n == Len(q)
             r == Rotate(q, k)
             to(i) == IF i <= n - k THEN i + k ELSE i - (n - k)
  <1>1. n \in Nat /\ DOMAIN q = 1 .. n
    BY Places
  <1>2. /\ r \in Seq(S) /\ Len(r) = n
        /\ \A i \in 1 .. n : r[i] = q[to(i)]
    <2> DEFINE u == SubSeq(q, k + 1, n)
               v == SubSeq(q, 1, k)
    <2>1. /\ u \in Seq(S) /\ Len(u) = n - k
          /\ \A i \in 1 .. n - k : u[i] = q[((k + 1) + i) - 1]
      <3>1. k + 1 \in 1 .. n + 1 /\ n \in (k + 1) - 1 .. n /\ (n - (k + 1)) + 1 = n - k
        BY <1>1
      <3>2. /\ u \in Seq(S) /\ Len(u) = (n - (k + 1)) + 1
            /\ \A i \in 1 .. (n - (k + 1)) + 1 : u[i] = q[((k + 1) + i) - 1]
        BY <3>1, PartIs
      <3> QED
        BY <3>1, <3>2
    <2>2. v \in Seq(S) /\ Len(v) = k /\ \A i \in 1 .. k : v[i] = q[(1 + i) - 1]
      <3>1. 1 \in 1 .. n + 1 /\ k \in 1 - 1 .. n /\ (k - 1) + 1 = k
        BY <1>1
      <3> QED
        BY <3>1, PartIs
    <2>3. r = u \o v
      BY DEF Rotate
    <2> HIDE DEF u, v, r
    <2>4. /\ r \in Seq(S) /\ Len(r) = (n - k) + k
          /\ \A i \in 1 .. (n - k) + k : r[i] = IF i <= n - k THEN u[i] ELSE v[i - (n - k)]
      <3>1. /\ u \o v \in Seq(S) /\ Len(u \o v) = Len(u) + Len(v)
            /\ \A i \in 1 .. Len(u) + Len(v) :
                 (u \o v)[i] = IF i <= Len(u) THEN u[i] ELSE v[i - Len(u)]
        BY <2>1, <2>2, ConcatProperties
      <3> QED
        BY <2>1, <2>2, <2>3, <3>1
    <2>5. ASSUME NEW i \in 1 .. n PROVE r[i] = q[to(i)]
      <3>1. CASE i <= n - k
        <4>1. r[i] = u[i] /\ u[i] = q[((k + 1) + i) - 1]
          BY <1>1, <2>1, <2>4, <3>1
        <4>2. ((k + 1) + i) - 1 = to(i)
          BY <3>1
        <4> QED
          BY <4>1, <4>2
      <3>2. CASE ~ (i <= n - k)
        <4>1. i - (n - k) \in 1 .. k /\ r[i] = v[i - (n - k)]
          BY <1>1, <2>4, <3>2
        <4>2. v[i - (n - k)] = q[(1 + (i - (n - k))) - 1]
          BY <2>2, <4>1
        <4>3. (1 + (i - (n - k))) - 1 = to(i)
          BY <3>2
        <4> QED
          BY <4>1, <4>2, <4>3
      <3> QED
        BY <3>1, <3>2
    <2> QED
      BY <1>1, <2>4, <2>5
  <1> HIDE DEF r
  <1>3. DOMAIN r = 1 .. n
    BY <1>2, Places
  <1>4. \A i \in 1 .. n : to(i) \in 1 .. n
    BY <1>1
  <1>5. \A i, j \in 1 .. n : to(i) = to(j) => i = j
    BY <1>1
  <1>6. \A j \in 1 .. n : \E i \in 1 .. n : to(i) = j
    <2> TAKE j \in 1 .. n
    <2>1. CASE j > k
      <3>1. j - k \in 1 .. n /\ to(j - k) = j
        BY <1>1, <2>1
      <3> QED
        BY <3>1
    <2>2. CASE j <= k
      <3>1. j + (n - k) \in 1 .. n /\ to(j + (n - k)) = j
        BY <1>1, <2>2
      <3> QED
        BY <3>1
    <2> QED
      BY <1>1, <2>1, <2>2
  <1> HIDE DEF to, n
  <1>7. ToSet(r) = ToSet(q)
    <2>1. ASSUME NEW x \in ToSet(r) PROVE x \in ToSet(q)
      <3>1. PICK i \in 1 .. n : x = r[i]
        BY <1>3 DEF ToSet
      <3> QED
        BY <1>1, <1>2, <1>4, <3>1 DEF ToSet
    <2>2. ASSUME NEW x \in ToSet(q) PROVE x \in ToSet(r)
      <3>1. PICK j \in 1 .. n : x = q[j]
        BY <1>1 DEF ToSet
      <3>2. PICK i \in 1 .. n : to(i) = j
        BY <1>6
      <3> QED
        BY <1>2, <1>3, <3>1, <3>2 DEF ToSet
    <2> QED
      BY <2>1, <2>2
  <1>8. IsInjective(q) => IsInjective(r)
    BY <1>1, <1>2, <1>3, <1>4, <1>5 DEF IsInjective
  <1> QED
    BY <1>2, <1>7, <1>8 DEF r, n

-----------------------------------------------------------------------------
(* The state of a base *)

(* What blank nameservers and requests are, and that handles are finitely many. *)
LEMMA Blank ==
  /\ NewServer \in Server /\ NewRequest \in Request
  /\ Nameserver \subseteq Handle /\ Users \subseteq Handle /\ Users \cap Nameserver = {}
  /\ Null \notin Nameserver /\ NewRequest.ns = Null
  /\ NewServer.inflight = 0 /\ NewServer.timedout = 0
  /\ ~NewServer.state /\ ~NewServer.choked /\ ~NewServer.write_waiting
  /\ ~NewServer.timer /\ ~NewServer.probe
  /\ ~NewRequest.timer /\ ~NewRequest.transmit_me /\ NewRequest.sent = {}
  BY EvdnsAssumption DEF NewServer, NewRequest, Server, Request, Handle

(* The lists of a base are over its handles and nameservers. *)
LEMMA ListsOver ==
  ASSUME NEW s \in Bases
  PROVE  /\ Sv(s) \subseteq Nameserver /\ In(s) \subseteq Handle /\ Wa(s) \subseteq Handle
         /\ Len(s.inflight) \in Nat /\ Len(s.waiting) \in Nat
         /\ s.servers = <<>> <=> Sv(s) = {}
         /\ s.inflight = <<>> <=> Len(s.inflight) = 0
         /\ s.waiting = <<>> <=> Len(s.waiting) = 0
         /\ s.inflight = <<>> <=> In(s) = {}
         /\ s.waiting = <<>> <=> Wa(s) = {}
  <1>1. s.servers \in Seq(Nameserver) /\ s.inflight \in Seq(Handle) /\ s.waiting \in Seq(Handle)
    BY DEF Bases
  <1>2. Sv(s) \subseteq Nameserver /\ (s.servers = <<>> <=> Sv(s) = {})
    BY <1>1, Places DEF Sv
  <1>3. /\ In(s) \subseteq Handle /\ Len(s.inflight) \in Nat
        /\ s.inflight = <<>> <=> Len(s.inflight) = 0
        /\ s.inflight = <<>> <=> In(s) = {}
    BY <1>1, Places DEF In
  <1>4. /\ Wa(s) \subseteq Handle /\ Len(s.waiting) \in Nat
        /\ s.waiting = <<>> <=> Len(s.waiting) = 0
        /\ s.waiting = <<>> <=> Wa(s) = {}
    BY <1>1, Places DEF Wa
  <1> QED
    BY <1>2, <1>3, <1>4

(* The sets that are counted are finite. *)
LEMMA CountedFinite ==
  ASSUME NEW s \in Bases
  PROVE  /\ IsFiniteSet(Sv(s)) /\ IsFiniteSet(In(s)) /\ IsFiniteSet(UpIn(s.servers, s.ns))
         /\ \A n : IsFiniteSet(At(s.inflight, s.req, n))
  <1>1. IsFiniteSet(Handle) /\ Nameserver \subseteq Handle
    BY EvdnsAssumption, Blank
  <1>2. IsFiniteSet(Sv(s)) /\ IsFiniteSet(In(s))
    BY <1>1, ListsOver, FS_Subset
  <1>3. UpIn(s.servers, s.ns) \subseteq Sv(s) /\ \A n : At(s.inflight, s.req, n) \subseteq In(s)
    BY DEF UpIn, At, Sv, In
  <1> QED
    BY <1>2, <1>3, FS_Subset

(* Frame and Core go together through a sequence of operators. *)
Keeps(s, r, X) == Core(r, X) /\ Frame(s, r)

(* A state keeps itself. *)
LEMMA KeepsItself ==
  ASSUME NEW s, NEW X, Core(s, X)
  PROVE  Keeps(s, s, X)
  <1>1. s \in Bases
    BY DEF Core
  <1> QED
    BY <1>1, ListsOver DEF Keeps, Frame, Cools

(* One operator after the other. *)
LEMMA KeepsOn ==
  ASSUME NEW s, NEW X, Core(s, X), NEW r, NEW Y, Keeps(s, r, Y), NEW t, NEW Z, Keeps(r, t, Z)
  PROVE  Keeps(s, t, Z)
  <1>1. s \in Bases /\ r \in Bases /\ t \in Bases
    BY DEF Core, Keeps
  <1>2. /\ Len(s.inflight) \in Nat /\ Len(r.inflight) \in Nat /\ Len(t.inflight) \in Nat
        /\ Len(s.waiting) \in Nat /\ Len(r.waiting) \in Nat /\ Len(t.waiting) \in Nat
    BY <1>1, ListsOver
  <1>3. /\ Len(t.inflight) + Len(t.waiting) = Len(s.inflight) + Len(s.waiting)
        /\ Len(s.inflight) <= Len(t.inflight)
    <2> DEFINE a == Len(s.inflight)
               b == Len(s.waiting)
               c == Len(r.inflight)
               d == Len(r.waiting)
               e == Len(t.inflight)
               f == Len(t.waiting)
    <2>1. c + d = a + b /\ a <= c /\ e + f = c + d /\ c <= e
      BY Zenon DEF Frame, Cools, Keeps
    <2>2. a \in Nat /\ b \in Nat /\ c \in Nat /\ d \in Nat /\ e \in Nat /\ f \in Nat
      BY <1>2
    <2>3. SUFFICES e + f = a + b /\ a <= e
      OBVIOUS
    <2> HIDE DEF a, b, c, d, e, f
    <2> QED
      BY <2>1, <2>2
  <1>4. /\ t.handle = s.handle /\ t.names = s.names /\ t.deferred = s.deferred
        /\ t.suspended = s.suspended /\ t.alive = s.alive
        /\ Sv(t) = Sv(s) /\ In(t) \cup Wa(t) = In(s) \cup Wa(s) /\ In(s) \subseteq In(t)
    BY Zenon DEF Frame, Cools, Keeps
  <1>5. \A n \in Nameserver :
          /\ t.ns[n].probe = s.ns[n].probe
          /\ s.ns[n].timer => t.ns[n].timer
          /\ t.ns[n].state => s.ns[n].state
          /\ s.ns[n].state => t.ns[n].state \/ t.ns[n].timer
    BY Zenon DEF Frame, Cools, Keeps
  <1>6. Frame(s, t)
    BY <1>3, <1>4, <1>5, Zenon DEF Frame, Cools
  <1> QED
    BY <1>6 DEF Keeps

(* A request more or less that need not be moved. *)
LEMMA CoreWeaker ==
  ASSUME NEW s, NEW X, NEW Y, Core(s, X), X \cap In(s) \subseteq Y
  PROVE  Core(s, Y)
  BY DEF Core

-----------------------------------------------------------------------------
(* Nameservers *)

(* The ring of nameservers may be turned. *)
LEMMA TurnKeeps ==
  ASSUME NEW s, NEW X, Core(s, X), NEW k \in 0 .. Len(s.servers)
  PROVE  Keeps(s, [s EXCEPT !.servers = Rotate(s.servers, k)], X)
  <1> DEFINE q == Rotate(s.servers, k)
             r == [s EXCEPT !.servers = q]
  <1>1. s \in Bases /\ s.servers \in Seq(Nameserver)
    BY DEF Core, Bases
  <1>2. q \in Seq(Nameserver) /\ ToSet(q) = Sv(s) /\ (IsInjective(s.servers) => IsInjective(q))
    BY <1>1, RotateKeeps DEF Sv
  <1> HIDE DEF q
  <1>3. /\ r \in Bases /\ r.servers = q /\ r.good = s.good /\ r.ns = s.ns
        /\ r.inflight = s.inflight /\ r.ninflight = s.ninflight /\ r.waiting = s.waiting
        /\ r.nwaiting = s.nwaiting /\ r.req = s.req /\ r.names = s.names
        /\ r.handle = s.handle /\ r.deferred = s.deferred /\ r.suspended = s.suspended
        /\ r.alive = s.alive
    BY <1>1, <1>2 DEF Bases
  <1> HIDE DEF r
  <1>4. Sv(r) = Sv(s) /\ In(r) = In(s) /\ Wa(r) = Wa(s)
    BY <1>2, <1>3 DEF Sv, In, Wa
  <1>5. Frame(s, r)
    BY <1>1, <1>3, <1>4, ListsOver DEF Frame, Cools
  <1>6. Lists(r) /\ Placed(r) /\ Loads(r) /\ Awaited(r)
    BY <1>3, <1>4 DEF Core, Lists, Placed, Loads, Awaited
  <1>7. Ups(r)
    BY <1>2, <1>3, <1>4 DEF Core, Ups, UpIn, Sv
  <1>8. \A h \in In(r) \ X : Moves(r, h)
    BY <1>3, <1>4 DEF Core, Moves
  <1> QED
    BY <1>3, <1>5, <1>6, <1>7, <1>8 DEF Keeps, Core, r, q

(* What a choice p of a nameserver is. *)
IsPick(s, p, X) ==
    /\ p.ns \in Sv(s) \cup {Null} /\ (p.ns = Null <=> s.servers = <<>>)
    /\ Keeps(s, p.s, X) /\ p.s.inflight = s.inflight /\ p.s.waiting = s.waiting
    /\ p.s.req = s.req /\ p.s.ns = s.ns

(* nameserver_pick picks one of the nameservers, if there is one. *)
LEMMA PickKeeps ==
  ASSUME NEW s, NEW X, Core(s, X)
  PROVE  IsPick(s, nameserver_pick(s), X)
  <1> DEFINE up == {i \in DOMAIN s.servers : s.ns[s.servers[i]].state}
             i == CHOOSE j \in up : \A k \in up : j <= k
             Turned(k) == [s EXCEPT !.servers = Rotate(s.servers, k)]
             p == nameserver_pick(s)
  <1> SUFFICES IsPick(s, p, X)
    OBVIOUS
  <1>1. s \in Bases /\ s.servers \in Seq(Nameserver)
    BY DEF Core, Bases
  <1>2. /\ DOMAIN s.servers = 1 .. Len(s.servers) /\ Len(s.servers) \in Nat
        /\ s.servers = <<>> <=> Len(s.servers) = 0
        /\ Sv(s) \subseteq Nameserver
        /\ \A k \in 1 .. Len(s.servers) : s.servers[k] \in Sv(s)
    BY <1>1, Places DEF Sv, ToSet
  <1>3. Null \notin Sv(s)
    BY <1>2, Blank
  <1>4. ASSUME NEW k \in 1 .. Len(s.servers), NEW n \in Sv(s),
               p = [ns |-> n, s |-> Turned(k)]
        PROVE  IsPick(s, p, X)
    <2>1. s.servers # <<>>
      BY <1>2, <1>4
    <2>2. Keeps(s, Turned(k), X)
      BY <1>2, <1>4, TurnKeeps
    <2>3. /\ Turned(k).inflight = s.inflight /\ Turned(k).waiting = s.waiting
          /\ Turned(k).req = s.req /\ Turned(k).ns = s.ns
      BY <1>1 DEF Bases
    <2> HIDE DEF Turned, p
    <2> QED
      BY <1>3, <1>4, <2>1, <2>2, <2>3 DEF IsPick
  <1>5. CASE s.servers = <<>>
    <2>1. p = [ns |-> Null, s |-> s]
      BY <1>5 DEF nameserver_pick
    <2> HIDE DEF p
    <2> QED
      BY <1>5, <2>1, KeepsItself DEF IsPick
  <1>6. CASE s.servers # <<>> /\ s.good = 0
    <2>1. p = [ns |-> Rotate(s.servers, 1)[1], s |-> Turned(1)]
      BY <1>6 DEF nameserver_pick
    <2>2. 1 \in 1 .. Len(s.servers) /\ 1 \in 0 .. Len(s.servers)
      BY <1>2, <1>6
    <2>3. /\ Rotate(s.servers, 1) \in Seq(Nameserver)
          /\ Len(Rotate(s.servers, 1)) = Len(s.servers)
          /\ ToSet(Rotate(s.servers, 1)) = Sv(s)
      BY <1>1, <2>2, RotateKeeps DEF Sv
    <2>4. Rotate(s.servers, 1)[1] \in Sv(s)
      BY <2>2, <2>3, Places
    <2> HIDE DEF p, Turned
    <2> QED
      BY <1>4, <2>1, <2>2, <2>4
  <1>7. CASE s.servers # <<>> /\ s.good # 0 /\ up = {}
    <2>1. p = [ns |-> s.servers[1], s |-> Turned(1)]
      BY <1>7 DEF nameserver_pick
    <2>2. 1 \in 1 .. Len(s.servers) /\ s.servers[1] \in Sv(s)
      BY <1>2, <1>7
    <2> HIDE DEF p, Turned
    <2> QED
      BY <1>4, <2>1, <2>2
  <1>8. CASE s.servers # <<>> /\ s.good # 0 /\ up # {}
    <2>1. p = [ns |-> s.servers[i], s |-> Turned(i)]
      BY <1>8 DEF nameserver_pick
    <2>2. i \in up
      <3>1. up \in SUBSET Nat
        BY <1>2
      <3> HIDE DEF up
      <3>2. \E j \in up : \A k \in up : j <= k
        BY <1>8, <3>1, LeastNatural
      <3> QED
        BY <3>2
    <2>3. i \in 1 .. Len(s.servers) /\ s.servers[i] \in Sv(s)
      BY <1>2, <2>2
    <2> HIDE DEF p, Turned, i
    <2> QED
      BY <1>4, <2>1, <2>3
  <1> QED
    BY <1>5, <1>6, <1>7, <1>8

(* One nameserver is as another one, but for its counters and its socket. *)
AsUp(a, b) == a.state = b.state /\ a.timer = b.timer /\ a.probe = b.probe

(* r is s but for nameservers and requests. *)
OnlyNet(s, r) ==
    /\ r.inflight = s.inflight /\ r.ninflight = s.ninflight
    /\ r.waiting = s.waiting /\ r.nwaiting = s.nwaiting
    /\ r.names = s.names /\ r.handle = s.handle /\ r.deferred = s.deferred
    /\ r.suspended = s.suspended /\ r.alive = s.alive /\ r.servers = s.servers

(* Such a step keeps the lists, and the frame if nameservers only go down. *)
LEMMA OnlyNetKeeps ==
  ASSUME NEW s, s \in Bases, Lists(s), NEW r, r \in Bases, OnlyNet(s, r)
  PROVE  /\ Sv(r) = Sv(s) /\ In(r) = In(s) /\ Wa(r) = Wa(s) /\ Lists(r)
         /\ (\A n \in Nameserver : AsUp(r.ns[n], s.ns[n])) => Frame(s, r)
         /\ (\A n \in Nameserver :
               /\ r.ns[n].probe = s.ns[n].probe
               /\ s.ns[n].timer => r.ns[n].timer
               /\ r.ns[n].state => s.ns[n].state
               /\ s.ns[n].state => r.ns[n].state \/ r.ns[n].timer) => Frame(s, r)
  <1>1. /\ Sv(r) = Sv(s) /\ In(r) = In(s) /\ Wa(r) = Wa(s)
    BY DEF OnlyNet, Sv, In, Wa
  <1>2. Lists(r)
    BY <1>1 DEF OnlyNet, Lists
  <1>3. /\ Len(r.inflight) + Len(r.waiting) = Len(s.inflight) + Len(s.waiting)
        /\ Len(s.inflight) <= Len(r.inflight)
    BY ListsOver DEF OnlyNet
  <1>4. ASSUME \A n \in Nameserver :
                 /\ r.ns[n].probe = s.ns[n].probe
                 /\ s.ns[n].timer => r.ns[n].timer
                 /\ r.ns[n].state => s.ns[n].state
                 /\ s.ns[n].state => r.ns[n].state \/ r.ns[n].timer
        PROVE  Frame(s, r)
    BY <1>1, <1>3, <1>4 DEF Frame, Cools, OnlyNet
  <1>5. ASSUME \A n \in Nameserver : AsUp(r.ns[n], s.ns[n])
        PROVE  \A n \in Nameserver :
                 /\ r.ns[n].probe = s.ns[n].probe
                 /\ s.ns[n].timer => r.ns[n].timer
                 /\ r.ns[n].state => s.ns[n].state
                 /\ s.ns[n].state => r.ns[n].state \/ r.ns[n].timer
    BY <1>5, Zenon DEF AsUp
  <1> QED
    BY <1>1, <1>2, <1>4, <1>5

(* Moving a request to another nameserver. *)
LEMMA SwapKeeps ==
  ASSUME NEW s, NEW X, Core(s, X), NEW h \in In(s), NEW n \in Sv(s) \cup {Null}
  PROVE  /\ Keeps(s, request_swap_ns(s, h, n), X)
         /\ request_swap_ns(s, h, n).inflight = s.inflight
         /\ request_swap_ns(s, h, n).waiting = s.waiting
  <1> DEFINE old == s.req[h].ns
             r == request_swap_ns(s, h, n)
  <1>1. CASE n = Null \/ n = old
    <2>1. r = s
      BY <1>1 DEF request_swap_ns
    <2> QED
      BY <2>1, KeepsItself
  <1>2. CASE ~(n = Null \/ n = old)
    <2>0. SUFFICES Keeps(s, r, X) /\ r.inflight = s.inflight /\ r.waiting = s.waiting
      OBVIOUS
    <2>1. r = [s EXCEPT !.ns[old].inflight = @ - 1, !.ns[n].inflight = @ + 1, !.req[h].ns = n]
      BY <1>2 DEF request_swap_ns
    <2>2. s \in Bases /\ h \in Handle /\ old \in Sv(s) /\ n \in Sv(s) /\ old # n
          /\ old \in Nameserver /\ n \in Nameserver
      BY <1>2, ListsOver DEF Core, Placed
    <2> HIDE DEF old, r
    <2> DEFINE ns1 == [s.ns EXCEPT ![old].inflight = @ - 1]
               ns2 == [ns1 EXCEPT ![n].inflight = @ + 1]
               req2 == [s.req EXCEPT ![h].ns = n]
    <2>a. s.ns \in [Nameserver -> Server] /\ s.req \in [Handle -> Request]
      BY <2>2 DEF Bases
    <2>b. r = [s EXCEPT !.ns = ns2, !.req = req2]
      BY <2>1, <2>2 DEF Bases
    <2>c. ns1 \in [Nameserver -> Server]
      BY <2>2, <2>a DEF Server
    <2>d. ns2 \in [Nameserver -> Server]
      <3> HIDE DEF ns1
      <3> QED
        BY <2>2, <2>c DEF Server
    <2>e. req2 \in [Handle -> Request]
      BY <2>2, <2>a DEF Request
    <2>3. r \in Bases /\ OnlyNet(s, r) /\ r.good = s.good /\ r.ns = ns2 /\ r.req = req2
      <3> HIDE DEF ns2, req2
      <3> QED
        BY <2>2, <2>b, <2>d, <2>e DEF Bases, OnlyNet
    <2>4. /\ \A m \in Nameserver :
               /\ AsUp(r.ns[m], s.ns[m])
               /\ r.ns[m].choked = s.ns[m].choked
               /\ r.ns[m].write_waiting = s.ns[m].write_waiting
               /\ m \notin {old, n} => r.ns[m] = s.ns[m]
               /\ r.ns[m].inflight = IF m = old THEN s.ns[m].inflight - 1
                                     ELSE IF m = n THEN s.ns[m].inflight + 1
                                     ELSE s.ns[m].inflight
      <3>1. \A m \in Nameserver :
              /\ AsUp(ns1[m], s.ns[m])
              /\ ns1[m].choked = s.ns[m].choked
              /\ ns1[m].write_waiting = s.ns[m].write_waiting
              /\ m # old => ns1[m] = s.ns[m]
              /\ ns1[m].inflight = IF m = old THEN s.ns[m].inflight - 1 ELSE s.ns[m].inflight
        BY <2>2, <2>a DEF Server, AsUp
      <3> HIDE DEF ns1
      <3>2. \A m \in Nameserver :
              /\ AsUp(ns2[m], ns1[m])
              /\ ns2[m].choked = ns1[m].choked
              /\ ns2[m].write_waiting = ns1[m].write_waiting
              /\ m # n => ns2[m] = ns1[m]
              /\ ns2[m].inflight = IF m = n THEN ns1[m].inflight + 1 ELSE ns1[m].inflight
        BY <2>2, <2>c DEF Server, AsUp
      <3> HIDE DEF ns2
      <3> QED
        BY <2>2, <2>3, <3>1, <3>2 DEF AsUp
    <2>5. /\ \A g \in Handle :
               /\ r.req[g].timer = s.req[g].timer
               /\ r.req[g].transmit_me = s.req[g].transmit_me
               /\ r.req[g].ns = IF g = h THEN n ELSE s.req[g].ns
               /\ g # h => r.req[g] = s.req[g]
      BY <2>2, <2>3, <2>a DEF Request
    <2>6. /\ Sv(r) = Sv(s) /\ In(r) = In(s) /\ Wa(r) = Wa(s) /\ Lists(r) /\ Frame(s, r)
      BY <2>2, <2>3, <2>4, OnlyNetKeeps DEF Core
    <2>7. Ups(r)
      <3>1. UpIn(r.servers, r.ns) = UpIn(s.servers, s.ns)
        <4>1. ToSet(s.servers) \subseteq Nameserver /\ r.servers = s.servers
          BY <2>2, <2>3, ListsOver DEF OnlyNet, Sv
        <4>2. \A m \in Nameserver : r.ns[m].state = s.ns[m].state
          BY <2>4 DEF AsUp
        <4> QED
          BY <4>1, <4>2 DEF UpIn
      <3>2. \A m \in Nameserver \ Sv(r) : r.ns[m] = NewServer
        BY <2>2, <2>4, <2>6 DEF Core, Ups
      <3> QED
        BY <2>3, <3>1, <3>2 DEF Core, Ups, OnlyNet
    <2>8. Placed(r)
      BY <2>2, <2>5, <2>6 DEF Core, Placed
    <2>9. Loads(r)
      <3> DEFINE A(m) == At(s.inflight, s.req, m)
                 B(m) == At(r.inflight, r.req, m)
      <3>1. \A m : B(m) = IF m = old THEN A(m) \ {h} ELSE IF m = n THEN A(m) \cup {h} ELSE A(m)
        <4>1. r.inflight = s.inflight /\ \A g \in ToSet(s.inflight) : g \in Handle
          BY <2>2, <2>3, ListsOver DEF OnlyNet, In
        <4>2. h \in ToSet(s.inflight) /\ s.req[h].ns = old
          BY DEF In, old
        <4> QED
          BY <2>2, <2>5, <4>1, <4>2 DEF At
      <3>2. h \in A(old) /\ h \notin A(n)
        BY <2>2 DEF At, In, old
      <3>3. \A m : IsFiniteSet(A(m))
        BY <2>2, CountedFinite
      <3>4. \A m \in Nameserver : s.ns[m].inflight = Cardinality(A(m))
        BY DEF Core, Loads
      <3> HIDE DEF A, B
      <3>5. /\ Cardinality(A(old) \ {h}) = Cardinality(A(old)) - 1
            /\ Cardinality(A(n) \cup {h}) = Cardinality(A(n)) + 1
        BY <3>2, <3>3, FS_AddElement, FS_RemoveElement
      <3>6. \A m \in Nameserver : r.ns[m].inflight = Cardinality(B(m))
        BY <2>2, <2>4, <3>1, <3>4, <3>5
      <3> QED
        BY <3>6 DEF Loads, B
    <2>10. Awaited(r)
      BY <2>4 DEF Core, Awaited
    <2>11. \A g \in In(r) \ X : Moves(r, g)
      BY <2>2, <2>4, <2>5, <2>6, ListsOver DEF Core, Moves
    <2> QED
      BY <2>3, <2>6, <2>7, <2>8, <2>9, <2>10, <2>11 DEF Keeps, Core, OnlyNet
  <1> QED
    BY <1>1, <1>2

(* A request is given to the nameserver that is picked next. *)
LEMMA PickAgainKeeps ==
  ASSUME NEW s, NEW X, Core(s, X), NEW h \in In(s)
  PROVE  /\ Keeps(s, PickAgain(s, h), X)
         /\ PickAgain(s, h).inflight = s.inflight /\ PickAgain(s, h).waiting = s.waiting
  <1> DEFINE p == nameserver_pick(s)
  <1>1. IsPick(s, p, X)
    BY PickKeeps
  <1>2. PickAgain(s, h) = request_swap_ns(p.s, h, p.ns)
    BY DEF PickAgain
  <1> HIDE DEF p
  <1>3. Core(p.s, X) /\ h \in In(p.s) /\ p.ns \in Sv(p.s) \cup {Null}
    BY <1>1 DEF IsPick, Keeps, Frame, Cools
  <1>4. /\ Keeps(p.s, request_swap_ns(p.s, h, p.ns), X)
        /\ request_swap_ns(p.s, h, p.ns).inflight = p.s.inflight
        /\ request_swap_ns(p.s, h, p.ns).waiting = p.s.waiting
    BY <1>3, SwapKeeps
  <1>5. Keeps(s, request_swap_ns(p.s, h, p.ns), X)
    BY <1>1, <1>4, KeepsOn DEF IsPick
  <1> QED
    BY <1>1, <1>2, <1>4, <1>5 DEF IsPick

(* A nameserver that goes down. *)
Down(s, n) == [s EXCEPT !.good = @ - 1, !.ns[n].state = FALSE, !.ns[n].timer = TRUE]

(* It is one less that is up, and its timer is set. *)
LEMMA DownKeeps ==
  ASSUME NEW s, NEW X, Core(s, X), NEW n \in Sv(s), s.ns[n].state
  PROVE  Keeps(s, Down(s, n), X) /\ Down(s, n).inflight = s.inflight
         /\ Down(s, n).waiting = s.waiting
  <1> DEFINE r == Down(s, n)
             ns1 == [s.ns EXCEPT ![n].state = FALSE]
             ns2 == [ns1 EXCEPT ![n].timer = TRUE]
             good2 == s.good - 1
  <1>0. SUFFICES Keeps(s, r, X) /\ r.inflight = s.inflight /\ r.waiting = s.waiting
    OBVIOUS
  <1>1. s \in Bases /\ n \in Nameserver /\ s.ns \in [Nameserver -> Server]
        /\ s.req \in [Handle -> Request] /\ s.good \in Int
    BY ListsOver DEF Core, Bases
  <1>2. r = [s EXCEPT !.good = good2, !.ns = ns2]
    BY <1>1 DEF Down, Bases
  <1>3. ns1 \in [Nameserver -> Server]
    BY <1>1 DEF Server
  <1>4. /\ ns2 \in [Nameserver -> Server]
        /\ \A m \in Nameserver :
             /\ ns2[m].choked = s.ns[m].choked
             /\ ns2[m].write_waiting = s.ns[m].write_waiting
             /\ ns2[m].probe = s.ns[m].probe
             /\ ns2[m].inflight = s.ns[m].inflight
             /\ m # n => ns2[m] = s.ns[m]
        /\ ns2[n].timer /\ ~ns2[n].state
    <2>1. /\ \A m \in Nameserver :
               /\ ns1[m].choked = s.ns[m].choked
               /\ ns1[m].write_waiting = s.ns[m].write_waiting
               /\ ns1[m].probe = s.ns[m].probe
               /\ ns1[m].inflight = s.ns[m].inflight
               /\ m # n => ns1[m] = s.ns[m]
          /\ ~ns1[n].state
      BY <1>1 DEF Server
    <2> HIDE DEF ns1
    <2>2. ns2 \in [Nameserver -> Server]
      BY <1>1, <1>3 DEF Server
    <2>3. /\ \A m \in Nameserver :
               /\ ns2[m].choked = ns1[m].choked
               /\ ns2[m].write_waiting = ns1[m].write_waiting
               /\ ns2[m].probe = ns1[m].probe
               /\ ns2[m].inflight = ns1[m].inflight
               /\ ns2[m].state = ns1[m].state
               /\ m # n => ns2[m] = ns1[m]
          /\ ns2[n].timer
      BY <1>1, <1>3 DEF Server
    <2> HIDE DEF ns2
    <2>4. ~ns2[n].state
      BY <1>1, <2>1, <2>3
    <2>5. \A m \in Nameserver :
               /\ ns2[m].choked = s.ns[m].choked
               /\ ns2[m].write_waiting = s.ns[m].write_waiting
               /\ ns2[m].probe = s.ns[m].probe
               /\ ns2[m].inflight = s.ns[m].inflight
               /\ m # n => ns2[m] = s.ns[m]
      BY <2>1, <2>3
    <2> QED
      BY <2>2, <2>3, <2>4, <2>5
  <1>a. good2 \in Int
    BY <1>1
  <1>b. r.good = s.good - 1
    BY <1>1, <1>2 DEF Bases
  <1> HIDE DEF ns2, r, good2
  <1>5. r \in Bases /\ OnlyNet(s, r) /\ r.good = s.good - 1 /\ r.ns = ns2 /\ r.req = s.req
    BY <1>1, <1>2, <1>4, <1>a, <1>b DEF Bases, OnlyNet
  <1>6. Sv(r) = Sv(s) /\ In(r) = In(s) /\ Wa(r) = Wa(s) /\ Lists(r) /\ Frame(s, r)
    <2>1. \A m \in Nameserver :
               /\ r.ns[m].probe = s.ns[m].probe
               /\ s.ns[m].timer => r.ns[m].timer
               /\ r.ns[m].state => s.ns[m].state
               /\ s.ns[m].state => r.ns[m].state \/ r.ns[m].timer
      BY <1>1, <1>4, <1>5
    <2> QED
      BY <1>1, <1>5, <2>1, OnlyNetKeeps DEF Core
  <1>7. Ups(r)
    <2>1. UpIn(r.servers, r.ns) = UpIn(s.servers, s.ns) \ {n}
      BY <1>1, <1>4, <1>5, <1>6, ListsOver DEF UpIn, OnlyNet, Sv
    <2>2. n \in UpIn(s.servers, s.ns) /\ IsFiniteSet(UpIn(s.servers, s.ns))
      BY <1>1, CountedFinite DEF UpIn, Sv
    <2>3. Cardinality(UpIn(r.servers, r.ns)) = Cardinality(UpIn(s.servers, s.ns)) - 1
      BY <2>1, <2>2, FS_RemoveElement
    <2>4. \A m \in Nameserver \ Sv(r) : r.ns[m] = NewServer
      BY <1>1, <1>4, <1>5, <1>6 DEF Core, Ups
    <2> QED
      BY <1>5, <2>3, <2>4 DEF Core, Ups, OnlyNet
  <1>8. Placed(r)
    BY <1>5, <1>6 DEF Core, Placed
  <1>9. Loads(r)
    BY <1>4, <1>5 DEF Core, Loads, OnlyNet
  <1>10. Awaited(r)
    BY <1>4, <1>5 DEF Core, Awaited
  <1>11. \A g \in In(r) \ X : Moves(r, g)
    BY <1>1, <1>4, <1>5, <1>6, ListsOver DEF Core, Moves
  <1> QED
    BY <1>5, <1>6, <1>7, <1>8, <1>9, <1>10, <1>11 DEF Keeps, Core, OnlyNet

(* r is reached from s with the lists as they were. *)
KeepsLists(s, r, X) == Keeps(s, r, X) /\ r.inflight = s.inflight /\ r.waiting = s.waiting

(* nameserver_failed keeps what there is, and the lists as they are. *)
LEMMA FailedKeeps ==
  ASSUME NEW s, NEW X, Core(s, X), NEW n \in Sv(s)
  PROVE  KeepsLists(s, nameserver_failed(s, n), X)
  <1> DEFINE d == Down(s, n)
             N == Len(s.inflight)
             Turn(i, x) == LET h == s.inflight[i]
                               r == x.req[h]
                           IN  IF r.tx = 0 /\ r.ns = n THEN PickAgain(x, h) ELSE x
             Eq(f) == f = [i \in 0 .. N |-> IF i = 0 THEN d ELSE Turn(i, f[i - 1])]
             t == CHOOSE f : Eq(f)
             K == {p \in Nat \X Bases : KeepsLists(s, p[2], X)}
             g == [p \in (1 .. N) \X Bases |-> Turn(p[1], p[2])]
  <1>1. CASE ~s.ns[n].state
    BY <1>1, KeepsItself DEF nameserver_failed, KeepsLists
  <1>2. CASE s.ns[n].state
    <2>1. KeepsLists(s, d, X)
      BY <1>2, DownKeeps DEF KeepsLists
    <2>2. s \in Bases /\ s.inflight \in Seq(Handle) /\ N \in Nat
          /\ \A i \in 1 .. N : s.inflight[i] \in In(s)
      <3>1. s \in Bases /\ s.inflight \in Seq(Handle)
        BY DEF Core, Bases
      <3> QED
        BY <3>1, Places DEF In
    <2>3. ASSUME NEW x, KeepsLists(s, x, X), NEW i \in 1 .. N
          PROVE  KeepsLists(s, Turn(i, x), X)
      <3>1. s.inflight[i] \in In(x) /\ Core(x, X)
        BY <2>2, <2>3 DEF KeepsLists, In, Keeps
      <3>2. KeepsLists(x, PickAgain(x, s.inflight[i]), X)
        BY <3>1, PickAgainKeeps DEF KeepsLists
      <3>3. KeepsLists(s, PickAgain(x, s.inflight[i]), X)
        BY <2>3, <3>2, KeepsOn DEF KeepsLists
      <3> QED
        BY <2>3, <3>3
    <2>4. CASE d.good # 0
      <3>1. nameserver_failed(s, n) = t[N]
        BY <1>2, <2>4 DEF nameserver_failed, Down
      <3>2. \A x : KeepsLists(s, x, X) => x \in Bases
        BY DEF KeepsLists, Keeps, Core
      <3> HIDE DEF d, N, Turn
      <3>3. \A i \in 1 .. N, x \in Bases : g[<<i, x>>] = Turn(i, x)
        OBVIOUS
      <3> HIDE DEF g
      <3>4. Keeping(N, d, g, Bases, K)
        <4>1. <<0, d>> \in K
          BY <2>1, <3>2
        <4>2. \A i \in Nat : \A x : <<i, x>> \in K => x \in Bases
          OBVIOUS
        <4>3. \A i \in 1 .. N, x \in Bases : <<i - 1, x>> \in K => <<i, g[<<i, x>>]>> \in K
          BY <2>2, <2>3, <3>2, <3>3
        <4> HIDE DEF K
        <4> QED
          BY <4>1, <4>2, <4>3 DEF Keeping
      <3>5. PICK f : /\ f = [i \in 0 .. N |-> IF i = 0 THEN d ELSE g[<<i, f[i - 1]>>]]
                     /\ \A i \in 1 .. N : f[i - 1] \in Bases /\ f[i] = g[<<i, f[i - 1]>>]
        <4> HIDE DEF K
        <4> QED
          BY <2>2, <3>4, LoopValues
      <3>6. Eq(f)
        <4>1. \A i \in 0 .. N : (IF i = 0 THEN d ELSE g[<<i, f[i - 1]>>])
                                = (IF i = 0 THEN d ELSE Turn(i, f[i - 1]))
          BY <2>2, <3>3, <3>5
        <4> QED
          BY <3>5, <4>1
      <3>7. Eq(t)
        BY <3>6
      <3> HIDE DEF t
      <3>8. Going(N, d, g, Bases, t)
        <4>1. t[0] = d /\ \A i \in 1 .. N : t[i] = Turn(i, t[i - 1])
          BY <2>2, <3>7
        <4> QED
          BY <3>3, <4>1 DEF Going
      <3>9. <<N, t[N]>> \in K
        <4> HIDE DEF K
        <4> QED
          BY <2>2, <3>4, <3>8, LoopStays
      <3> QED
        BY <3>1, <3>9 DEF K
    <2>5. CASE d.good = 0
      BY <1>2, <2>1, <2>5 DEF nameserver_failed, Down
    <2> QED
      BY <2>4, <2>5
  <1> QED
    BY <1>1, <1>2

-----------------------------------------------------------------------------
(* Sending *)

(* A request in flight that is changed stays with its nameserver. *)
LEMMA RequestChange ==
  ASSUME NEW s, NEW X, Core(s, X), NEW h \in In(s), NEW x \in Request, x.ns = s.req[h].ns,
         NEW Y, X \ {h} \subseteq Y,
         \/ h \in Y
         \/ x.timer
         \/ x.transmit_me /\ \E n \in Sv(s) : s.ns[n].write_waiting
  PROVE  /\ KeepsLists(s, [s EXCEPT !.req[h] = x], Y)
         /\ [s EXCEPT !.req[h] = x].ns = s.ns
         /\ [s EXCEPT !.req[h] = x].req = [s.req EXCEPT ![h] = x]
  <1> DEFINE req2 == [s.req EXCEPT ![h] = x]
             r == [s EXCEPT !.req[h] = x]
  <1>0. SUFFICES KeepsLists(s, r, Y) /\ r.ns = s.ns /\ r.req = req2
    OBVIOUS
  <1>1. s \in Bases /\ s.req \in [Handle -> Request] /\ h \in Handle
    BY ListsOver DEF Core, Bases
  <1>2. req2 \in [Handle -> Request] /\ \A g \in Handle : req2[g] = IF g = h THEN x ELSE s.req[g]
    BY <1>1
  <1>3. r = [s EXCEPT !.req = req2]
    BY <1>1 DEF Bases
  <1> HIDE DEF req2, r
  <1>4. r \in Bases /\ OnlyNet(s, r) /\ r.good = s.good /\ r.ns = s.ns /\ r.req = req2
    BY <1>1, <1>2, <1>3 DEF Bases, OnlyNet
  <1>5. Sv(r) = Sv(s) /\ In(r) = In(s) /\ Wa(r) = Wa(s) /\ Lists(r) /\ Frame(s, r)
    <2>1. \A m \in Nameserver : AsUp(r.ns[m], s.ns[m])
      BY <1>4 DEF AsUp
    <2> QED
      BY <1>1, <1>4, <2>1, OnlyNetKeeps DEF Core
  <1>6. Ups(r)
    BY <1>4, <1>5 DEF Core, Ups, OnlyNet
  <1>7. Placed(r)
    BY <1>2, <1>4, <1>5 DEF Core, Placed
  <1>8. Loads(r)
    <2>1. \A g \in Handle : r.req[g].ns = s.req[g].ns
      BY <1>2, <1>4
    <2>2. r.inflight = s.inflight /\ ToSet(s.inflight) \subseteq Handle
      BY <1>1, <1>4, ListsOver DEF OnlyNet, In
    <2>3. \A n : At(r.inflight, r.req, n) = At(s.inflight, s.req, n)
      BY <2>1, <2>2 DEF At
    <2> QED
      BY <1>4, <2>3 DEF Core, Loads
  <1>9. Awaited(r)
    BY <1>4 DEF Core, Awaited
  <1>10. ASSUME NEW g \in In(r) \ Y PROVE Moves(r, g)
    <2>1. CASE g = h
      BY <1>1, <1>2, <1>4, <1>5, <1>10, <2>1 DEF Moves
    <2>2. CASE g # h
      <3>1. g \in In(s) \ X /\ g \in Handle
        BY <1>1, <1>5, <1>10, <2>2, ListsOver
      <3> QED
        BY <1>2, <1>4, <1>5, <2>2, <3>1 DEF Core, Moves
    <2> QED
      BY <2>1, <2>2
  <1> QED
    BY <1>4, <1>5, <1>6, <1>7, <1>8, <1>9, <1>10 DEF KeepsLists, Keeps, Core, OnlyNet

(* What may become of a nameserver without it going up or down. *)
ServerMay(s, X, n, y) ==
    /\ n \notin Sv(s) => y = NewServer
    /\ y.state = s.ns[n].state /\ y.inflight = s.ns[n].inflight
    /\ y.choked => y.write_waiting
    /\ s.ns[n].write_waiting => y.write_waiting \/ \A h \in In(s) \ X : s.req[h].timer

(* A nameserver that is changed in that way. *)
LEMMA ServerChange ==
  ASSUME NEW s, NEW X, Core(s, X), NEW n \in Nameserver, NEW y \in Server, ServerMay(s, X, n, y)
  PROVE  /\ Core([s EXCEPT !.ns[n] = y], X) /\ OnlyNet(s, [s EXCEPT !.ns[n] = y])
         /\ [s EXCEPT !.ns[n] = y].ns = [s.ns EXCEPT ![n] = y]
         /\ [s EXCEPT !.ns[n] = y].req = s.req /\ [s EXCEPT !.ns[n] = y].good = s.good
         /\ AsUp(y, s.ns[n]) => KeepsLists(s, [s EXCEPT !.ns[n] = y], X)
  <1> DEFINE ns2 == [s.ns EXCEPT ![n] = y]
             r == [s EXCEPT !.ns[n] = y]
  <1>0. SUFFICES /\ Core(r, X) /\ OnlyNet(s, r) /\ r.ns = ns2 /\ r.req = s.req
                 /\ r.good = s.good /\ (AsUp(y, s.ns[n]) => KeepsLists(s, r, X))
    OBVIOUS
  <1>1. s \in Bases /\ s.ns \in [Nameserver -> Server]
    BY DEF Core, Bases
  <1>2. /\ ns2 \in [Nameserver -> Server]
        /\ \A m \in Nameserver : ns2[m] = IF m = n THEN y ELSE s.ns[m]
    BY <1>1
  <1>3. r = [s EXCEPT !.ns = ns2]
    BY <1>1 DEF Bases
  <1> HIDE DEF ns2, r
  <1>4. r \in Bases /\ OnlyNet(s, r) /\ r.good = s.good /\ r.ns = ns2 /\ r.req = s.req
    BY <1>1, <1>2, <1>3 DEF Bases, OnlyNet
  <1>5. /\ Sv(r) = Sv(s) /\ In(r) = In(s) /\ Wa(r) = Wa(s) /\ Lists(r)
        /\ (\A m \in Nameserver : AsUp(r.ns[m], s.ns[m])) => Frame(s, r)
    BY <1>1, <1>4, OnlyNetKeeps DEF Core
  <1>6. Ups(r)
    <2>1. \A m \in Nameserver : r.ns[m].state = s.ns[m].state
      BY <1>2, <1>4 DEF ServerMay
    <2>2. UpIn(r.servers, r.ns) = UpIn(s.servers, s.ns)
      BY <1>1, <1>4, <2>1, ListsOver DEF UpIn, OnlyNet, Sv
    <2>3. \A m \in Nameserver \ Sv(r) : r.ns[m] = NewServer
      BY <1>2, <1>4, <1>5 DEF Core, Ups, ServerMay
    <2> QED
      BY <1>4, <2>2, <2>3 DEF Core, Ups, OnlyNet
  <1>7. Placed(r)
    BY <1>4, <1>5 DEF Core, Placed
  <1>8. Loads(r)
    BY <1>2, <1>4 DEF Core, Loads, OnlyNet, ServerMay
  <1>9. Awaited(r)
    BY <1>2, <1>4 DEF Core, Awaited, ServerMay
  <1>10. ASSUME NEW h \in In(r) \ X PROVE Moves(r, h)
    <2>1. Moves(s, h) /\ h \in In(s) \ X
      BY <1>5, <1>10 DEF Core
    <2>2. CASE s.req[h].timer
      BY <1>4, <2>2 DEF Moves
    <2>3. CASE ~s.req[h].timer
      <3>1. PICK m \in Sv(s) : s.ns[m].write_waiting /\ s.req[h].transmit_me
        BY <2>1, <2>3 DEF Moves
      <3>2. r.ns[m].write_waiting
        BY <1>1, <1>2, <1>4, <2>1, <2>3, <3>1, ListsOver DEF ServerMay
      <3> QED
        BY <1>4, <1>5, <3>1, <3>2 DEF Moves
    <2> QED
      BY <2>2, <2>3
  <1>11. AsUp(y, s.ns[n]) => \A m \in Nameserver : AsUp(r.ns[m], s.ns[m])
    BY <1>2, <1>4 DEF AsUp
  <1>12. Core(r, X)
    BY <1>4, <1>5, <1>6, <1>7, <1>8, <1>9, <1>10 DEF Core
  <1> QED
    BY <1>4, <1>5, <1>11, <1>12 DEF KeepsLists, Keeps, OnlyNet

(* A sent request has its timer. *)
LEMMA SentKeeps ==
  ASSUME NEW s, NEW X, Core(s, X), NEW h \in In(s)
  PROVE  /\ KeepsLists(s, Sent(s, h), X \ {h})
         /\ \A n \in Nameserver :
              KeepsLists(s, [Sent(s, h) EXCEPT !.req[h].sent = @ \cup {n}], X \ {h})
  <1> DEFINE x == [s.req[h] EXCEPT !.timer = TRUE, !.tx = @ + 1, !.transmit_me = FALSE]
             y(n) == [x EXCEPT !.sent = @ \cup {n}]
  <1>1. s \in Bases /\ s.req \in [Handle -> Request] /\ h \in Handle /\ s.req[h] \in Request
    BY ListsOver DEF Core, Bases
  <1>2. x \in Request /\ x.ns = s.req[h].ns /\ x.timer
    <2> DEFINE q == s.req[h]
               k == q.tx + 1
    <2>1. q \in Request /\ k \in Nat
      BY <1>1 DEF Request
    <2>2. x = [q EXCEPT !.timer = TRUE, !.tx = k, !.transmit_me = FALSE]
      BY <2>1 DEF Request
    <2>3. SUFFICES x \in Request /\ x.ns = q.ns /\ x.timer
      OBVIOUS
    <2> HIDE DEF q, k, x
    <2> QED
      BY <2>1, <2>2 DEF Request
  <1>3. ASSUME NEW n \in Nameserver
        PROVE  y(n) \in Request /\ y(n).ns = s.req[h].ns /\ y(n).timer
    <2> HIDE DEF x
    <2> QED
      BY <1>2 DEF Request
  <1>4. Sent(s, h) = [s EXCEPT !.req[h] = x]
    BY <1>1 DEF Sent, Bases
  <1>5. ASSUME NEW n \in Nameserver
        PROVE  [Sent(s, h) EXCEPT !.req[h].sent = @ \cup {n}] = [s EXCEPT !.req[h] = y(n)]
    <2> HIDE DEF x
    <2> DEFINE r == [s EXCEPT !.req[h] = x]
    <2>1. /\ [r EXCEPT !.req[h].sent = @ \cup {n}]
                = [r EXCEPT !.req = [r.req EXCEPT ![h].sent = @ \cup {n}]]
          /\ r.req = [s.req EXCEPT ![h] = x]
      BY <1>1 DEF Bases
    <2>2. [[s.req EXCEPT ![h] = x] EXCEPT ![h].sent = @ \cup {n}] = [s.req EXCEPT ![h] = y(n)]
      BY <1>1
    <2>3. [r EXCEPT !.req = [s.req EXCEPT ![h] = y(n)]] = [s EXCEPT !.req[h] = y(n)]
      <3> HIDE DEF y
      <3> QED
        BY <1>1 DEF Bases
    <2> QED
      BY <1>4, <2>1, <2>2, <2>3
  <1> HIDE DEF x, y
  <1>6. KeepsLists(s, [s EXCEPT !.req[h] = x], X \ {h})
    BY <1>2, RequestChange
  <1>7. ASSUME NEW n \in Nameserver PROVE KeepsLists(s, [s EXCEPT !.req[h] = y(n)], X \ {h})
    BY <1>3, RequestChange
  <1> QED
    BY <1>4, <1>5, <1>6, <1>7

(* A request that something moves is no exception. *)
LEMMA CoreStronger ==
  ASSUME NEW s, NEW X, Core(s, X), NEW h, Moves(s, h)
  PROVE  Core(s, X \ {h})
  BY DEF Core

(* One operator after the other, with the lists as they were. *)
LEMMA KeepsListsOn ==
  ASSUME NEW s, NEW X, Core(s, X), NEW r, NEW Y, KeepsLists(s, r, Y),
         NEW t, NEW Z, KeepsLists(r, t, Z)
  PROVE  KeepsLists(s, t, Z)
  <1>1. Keeps(s, t, Z)
    BY KeepsOn DEF KeepsLists
  <1> QED
    BY <1>1 DEF KeepsLists

(* What sendto may answer. *)
LEMMA NetAnswers ==
  ASSUME NEW net \in Net, NEW n \in Nameserver
  PROVE  net[n] \in {"again", "failed", "sent"}
  BY DEF Net, Fine

(* evdns_request_transmit: whatever sendto does, something moves the request then. *)
LEMMA TransmitKeeps ==
  ASSUME NEW s, NEW X, Core(s, X), NEW h \in In(s), NEW net \in Net
  PROVE  KeepsLists(s, evdns_request_transmit(s, h, net), X \ {h})
  <1> DEFINE x == [s.req[h] EXCEPT !.transmit_me = TRUE]
             m == [s EXCEPT !.req[h] = x]
             n == s.req[h].ns
             Y == X \ {h}
  <1>1. /\ s \in Bases /\ s.req \in [Handle -> Request] /\ h \in Handle
        /\ s.req[h] \in Request /\ n \in Sv(s) /\ n \in Nameserver
    BY ListsOver DEF Core, Bases, Placed
  <1>2. x \in Request /\ x.ns = n /\ x.timer = s.req[h].timer /\ x.transmit_me
    BY <1>1 DEF Request
  <1>3. [s EXCEPT !.req[h].transmit_me = TRUE] = m
    BY <1>1 DEF Bases
  <1> HIDE DEF x
  <1>4. m.req[h] = x /\ m.ns = s.ns
    BY <1>1 DEF Bases
  <1>5. h \in X \/ x.timer \/ (x.transmit_me /\ \E k \in Sv(s) : s.ns[k].write_waiting)
    BY <1>2 DEF Core, Moves
  <1>6. KeepsLists(s, m, X)
    BY <1>2, <1>5, RequestChange
  <1>7. m.req[h].ns = n
    BY <1>2, <1>4
  <1> HIDE DEF m, n
  <1> DEFINE to == evdns_request_transmit(s, h, net)
  <1>8. /\ m.ns[n].choked => to = m
        /\ ~m.ns[n].choked /\ net[n] = "again" =>
             to = nameserver_write_waiting([m EXCEPT !.ns[n].choked = TRUE], n, TRUE)
        /\ ~m.ns[n].choked /\ net[n] = "failed" => to = Sent(nameserver_failed(m, n), h)
        /\ ~m.ns[n].choked /\ net[n] = "sent" =>
             to = [Sent(m, h) EXCEPT !.req[h].sent = @ \cup {n}]
    <2>1. ASSUME m.ns[n].choked PROVE to = m
      BY <1>3, <1>7, <2>1 DEF evdns_request_transmit
    <2>2. ASSUME ~m.ns[n].choked, net[n] = "again"
          PROVE  to = nameserver_write_waiting([m EXCEPT !.ns[n].choked = TRUE], n, TRUE)
      BY <1>3, <1>7, <2>2 DEF evdns_request_transmit
    <2>3. ASSUME ~m.ns[n].choked, net[n] = "failed"
          PROVE  to = Sent(nameserver_failed(m, n), h)
      BY <1>3, <1>7, <2>3 DEF evdns_request_transmit
    <2>4. ASSUME ~m.ns[n].choked, net[n] = "sent"
          PROVE  to = [Sent(m, h) EXCEPT !.req[h].sent = @ \cup {n}]
      BY <1>3, <1>7, <2>4 DEF evdns_request_transmit
    <2> QED
      BY <2>1, <2>2, <2>3, <2>4
  <1>9. /\ Core(m, X) /\ h \in In(m) /\ n \in Sv(m) /\ m \in Bases
        /\ m.ns \in [Nameserver -> Server]
    BY <1>1, <1>6 DEF KeepsLists, Keeps, Frame, Cools, Core, In, Bases
  <1>10. net[n] \in {"again", "failed", "sent"}
    BY <1>1, NetAnswers
  <1>11. CASE m.ns[n].choked
    <2>1. Moves(m, h)
      BY <1>1, <1>2, <1>4, <1>9, <1>11 DEF Moves, Core, Awaited
    <2>2. Core(m, Y)
      BY <1>9, <2>1, CoreStronger
    <2>3. KeepsLists(s, m, Y)
      BY <1>6, <2>2 DEF KeepsLists, Keeps
    <2> QED
      BY <1>8, <1>11, <2>3
  <1>12. CASE ~m.ns[n].choked /\ net[n] = "again"
    <2> DEFINE y == [m.ns[n] EXCEPT !.choked = TRUE, !.write_waiting = TRUE]
               r == [m EXCEPT !.ns[n] = y]
    <2>1. /\ y \in Server /\ y.write_waiting /\ AsUp(y, m.ns[n])
          /\ y.inflight = m.ns[n].inflight
      BY <1>1, <1>9 DEF Server, AsUp
    <2>2. nameserver_write_waiting([m EXCEPT !.ns[n].choked = TRUE], n, TRUE) = r
      BY <1>1, <1>9 DEF nameserver_write_waiting, Bases
    <2> HIDE DEF y
    <2>3. ServerMay(m, X, n, y)
      BY <1>9, <2>1 DEF ServerMay, AsUp
    <2>4. /\ KeepsLists(m, r, X) /\ r.ns = [m.ns EXCEPT ![n] = y] /\ r.req = m.req
      BY <1>1, <1>9, <2>1, <2>3, ServerChange
    <2> HIDE DEF r
    <2>5. r.ns[n].write_waiting /\ r.req[h].transmit_me /\ n \in Sv(r)
      BY <1>1, <1>2, <1>4, <1>9, <2>1, <2>4 DEF KeepsLists, Keeps, Frame, Cools
    <2>6. Moves(r, h)
      BY <2>5 DEF Moves
    <2>7. KeepsLists(m, r, Y)
      BY <2>4, <2>6, CoreStronger DEF KeepsLists, Keeps
    <2>8. KeepsLists(s, r, Y)
      BY <1>6, <2>7, KeepsListsOn
    <2> QED
      BY <1>8, <1>12, <2>2, <2>8
  <1>13. CASE ~m.ns[n].choked /\ net[n] = "failed"
    <2> DEFINE r == nameserver_failed(m, n)
    <2>1. KeepsLists(m, r, X)
      BY <1>9, FailedKeeps
    <2> HIDE DEF r
    <2>2. Core(r, X) /\ h \in In(r)
      BY <1>9, <2>1 DEF KeepsLists, Keeps, In
    <2>3. KeepsLists(r, Sent(r, h), Y)
      BY <2>2, SentKeeps
    <2>4. KeepsLists(s, Sent(r, h), Y)
      BY <1>6, <1>9, <2>1, <2>3, KeepsListsOn
    <2> QED
      BY <1>8, <1>13, <2>4 DEF r
  <1>14. CASE ~m.ns[n].choked /\ net[n] = "sent"
    <2> DEFINE r == [Sent(m, h) EXCEPT !.req[h].sent = @ \cup {n}]
    <2>1. KeepsLists(m, r, Y)
      BY <1>1, <1>9, SentKeeps
    <2> HIDE DEF r
    <2>2. KeepsLists(s, r, Y)
      BY <1>6, <2>1, KeepsListsOn
    <2> QED
      BY <1>8, <1>14, <2>2 DEF r
  <1> QED
    BY <1>10, <1>11, <1>12, <1>13, <1>14

(* evdns_transmit sends what is marked. *)
LEMMA TransmitAllKeeps ==
  ASSUME NEW s, NEW X, Core(s, X), NEW net \in Net
  PROVE  KeepsLists(s, evdns_transmit(s, net), X)
  <1> DEFINE N == Len(s.inflight)
             Turn(i, x) == IF x.req[s.inflight[i]].transmit_me
                           THEN evdns_request_transmit(x, s.inflight[i], net)
                           ELSE x
             Eq(f) == f = [i \in 0 .. N |->
                              IF i = 0 THEN s
                              ELSE IF f[i - 1].req[s.inflight[i]].transmit_me
                                   THEN evdns_request_transmit(f[i - 1], s.inflight[i], net)
                                   ELSE f[i - 1]]
             t == CHOOSE f : Eq(f)
             K == {p \in Nat \X Bases : KeepsLists(s, p[2], X)}
             g == [p \in (1 .. N) \X Bases |-> Turn(p[1], p[2])]
  <1>1. KeepsLists(s, s, X)
    BY KeepsItself DEF KeepsLists
  <1>2. s \in Bases /\ s.inflight \in Seq(Handle) /\ N \in Nat
        /\ \A i \in 1 .. N : s.inflight[i] \in In(s)
    BY Places DEF Core, Bases, In
  <1>3. ASSUME NEW x, KeepsLists(s, x, X), NEW i \in 1 .. N
        PROVE  KeepsLists(s, Turn(i, x), X)
    <2> DEFINE h == s.inflight[i]
    <2>1. h \in In(x) /\ Core(x, X)
      BY <1>2, <1>3 DEF KeepsLists, In, Keeps
    <2>2. KeepsLists(x, evdns_request_transmit(x, h, net), X \ {h})
      BY <2>1, TransmitKeeps
    <2>3. KeepsLists(x, evdns_request_transmit(x, h, net), X)
      BY <2>2, CoreWeaker DEF KeepsLists, Keeps
    <2>4. KeepsLists(s, evdns_request_transmit(x, h, net), X)
      BY <1>3, <2>3, KeepsListsOn
    <2> QED
      BY <1>3, <2>4
  <1>4. evdns_transmit(s, net) = t[N]
    BY DEF evdns_transmit
  <1>5. \A x : KeepsLists(s, x, X) => x \in Bases
    BY DEF KeepsLists, Keeps, Core
  <1>6. \A f : Eq(f) <=> f = [i \in 0 .. N |-> IF i = 0 THEN s ELSE Turn(i, f[i - 1])]
    OBVIOUS
  <1> HIDE DEF N, Turn, Eq
  <1>7. \A i \in 1 .. N, x \in Bases : g[<<i, x>>] = Turn(i, x)
    OBVIOUS
  <1> HIDE DEF g
  <1>8. Keeping(N, s, g, Bases, K)
    <2>1. <<0, s>> \in K
      BY <1>1, <1>2
    <2>2. \A i \in Nat : \A x : <<i, x>> \in K => x \in Bases
      OBVIOUS
    <2>3. \A i \in 1 .. N, x \in Bases : <<i - 1, x>> \in K => <<i, g[<<i, x>>]>> \in K
      BY <1>2, <1>3, <1>5, <1>7
    <2> HIDE DEF K
    <2> QED
      BY <2>1, <2>2, <2>3 DEF Keeping
  <1>9. PICK f : /\ f = [i \in 0 .. N |-> IF i = 0 THEN s ELSE g[<<i, f[i - 1]>>]]
                 /\ \A i \in 1 .. N : f[i - 1] \in Bases /\ f[i] = g[<<i, f[i - 1]>>]
    <2> HIDE DEF K
    <2> QED
      BY <1>2, <1>8, LoopValues
  <1>10. Eq(f)
    <2>0. \A i \in 0 .. N : i # 0 => i \in 1 .. N
      BY <1>2
    <2>1. \A i \in 0 .. N : (IF i = 0 THEN s ELSE g[<<i, f[i - 1]>>])
                          = (IF i = 0 THEN s ELSE Turn(i, f[i - 1]))
      BY <1>7, <1>9, <2>0
    <2>2. f = [i \in 0 .. N |-> IF i = 0 THEN s ELSE Turn(i, f[i - 1])]
      BY <1>9, <2>1
    <2> QED
      BY <1>6, <2>2
  <1>11. Eq(t)
    BY <1>10
  <1> HIDE DEF t
  <1>12. Going(N, s, g, Bases, t)
    <2>1. t[0] = s /\ \A i \in 1 .. N : t[i] = Turn(i, t[i - 1])
      BY <1>2, <1>6, <1>11
    <2> QED
      BY <1>7, <2>1 DEF Going
  <1>13. <<N, t[N]>> \in K
    <2> HIDE DEF K
    <2> QED
      BY <1>2, <1>8, <1>12, LoopStays
  <1> QED
    BY <1>4, <1>13

-----------------------------------------------------------------------------
(* Promoting *)

(* r is s with the request h, which is x, in flight at the nameserver n. *)
Entered(s, r, h, n, x) ==
    /\ h \in Handle /\ h \notin In(s) /\ n \in Sv(s) /\ x \in Request /\ x.ns = n
    /\ r \in Bases /\ r.servers = s.servers /\ r.good = s.good
    /\ r.inflight = Append(s.inflight, h) /\ r.ninflight = s.ninflight + 1
    /\ r.req = [s.req EXCEPT ![h] = x]
    /\ r.ns = [s.ns EXCEPT ![n].inflight = @ + 1]
    /\ r.nwaiting = Len(r.waiting) /\ IsInjective(r.waiting)
    /\ (In(s) \cup {h}) \cap Wa(r) = {}

(* What r has then, the request h in flight. *)
OneMore(s, r, h, X) ==
    /\ Core(r, X \cup {h}) /\ In(r) = In(s) \cup {h} /\ Sv(r) = Sv(s)
    /\ Len(r.inflight) = Len(s.inflight) + 1

(* Nothing needs to move it yet. *)
LEMMA EnterKeeps ==
  ASSUME NEW s, NEW X, NEW h, NEW n, NEW x, NEW r, Core(s, X), Entered(s, r, h, n, x)
  PROVE  OneMore(s, r, h, X)
  <1>0. h \in Handle /\ h \notin In(s) /\ n \in Sv(s) /\ x \in Request /\ x.ns = n
    BY DEF Entered
  <1> USE <1>0
  <1>1. /\ s \in Bases /\ s.ns \in [Nameserver -> Server] /\ s.req \in [Handle -> Request]
        /\ s.inflight \in Seq(Handle) /\ n \in Nameserver /\ r \in Bases
        /\ In(s) \subseteq Handle /\ Sv(s) \subseteq Nameserver
    BY ListsOver DEF Core, Bases, Entered
  <1>2. /\ In(r) = In(s) \cup {h} /\ Len(r.inflight) = Len(s.inflight) + 1
        /\ IsInjective(r.inflight)
    BY <1>1, AppendKeeps DEF Entered, In, Core, Lists
  <1>3. Sv(r) = Sv(s)
    BY DEF Entered, Sv
  <1>4. \A g \in Handle : r.req[g] = IF g = h THEN x ELSE s.req[g]
    BY <1>1 DEF Entered
  <1>5. /\ \A m \in Nameserver : m # n => r.ns[m] = s.ns[m]
        /\ r.ns[n].inflight = s.ns[n].inflight + 1
        /\ r.ns[n].state = s.ns[n].state /\ r.ns[n].choked = s.ns[n].choked
        /\ r.ns[n].write_waiting = s.ns[n].write_waiting
    BY <1>1 DEF Entered, Server
  <1>6. Lists(r)
    BY <1>2 DEF Entered, Core, Lists
  <1>7. Ups(r)
    <2>1. UpIn(r.servers, r.ns) = UpIn(s.servers, s.ns)
      BY <1>1, <1>5 DEF Entered, UpIn, Sv
    <2>2. \A m \in Nameserver \ Sv(r) : r.ns[m] = NewServer
      BY <1>3, <1>5 DEF Core, Ups
    <2> QED
      BY <2>1, <2>2 DEF Entered, Core, Ups
  <1>8. Placed(r)
    BY <1>2, <1>3, <1>4 DEF Core, Placed
  <1>9. Loads(r)
    <2> DEFINE A(m) == At(s.inflight, s.req, m)
               B(m) == At(r.inflight, r.req, m)
    <2>1. \A m : B(m) = IF m = n THEN A(m) \cup {h} ELSE A(m)
      <3>1. /\ ToSet(r.inflight) = ToSet(s.inflight) \cup {h} /\ h \notin ToSet(s.inflight)
            /\ ToSet(s.inflight) \subseteq Handle
        BY <1>1, <1>2 DEF In
      <3> QED
        BY <1>4, <3>1 DEF At
    <2>2. h \notin A(n) /\ IsFiniteSet(A(n))
      BY <1>1, CountedFinite DEF At, In
    <2>3. \A m \in Nameserver : s.ns[m].inflight = Cardinality(A(m))
      BY DEF Core, Loads
    <2> HIDE DEF A, B
    <2>4. Cardinality(A(n) \cup {h}) = Cardinality(A(n)) + 1
      BY <2>2, FS_AddElement
    <2>5. \A m \in Nameserver : r.ns[m].inflight = Cardinality(B(m))
      BY <1>1, <1>5, <2>1, <2>3, <2>4
    <2> QED
      BY <2>5 DEF Loads, B
  <1>10. Awaited(r)
    BY <1>1, <1>5 DEF Core, Awaited
  <1>11. ASSUME NEW g \in In(r) \ (X \cup {h}) PROVE Moves(r, g)
    <2>1. g \in In(s) \ X /\ g \in Handle /\ g # h
      BY <1>1, <1>2, <1>11
    <2>2. Moves(s, g)
      BY <2>1 DEF Core
    <2>3. r.req[g] = s.req[g]
      BY <1>4, <2>1
    <2>4. \A m \in Nameserver : r.ns[m].write_waiting = s.ns[m].write_waiting
      BY <1>5
    <2> QED
      BY <1>1, <1>3, <2>2, <2>3, <2>4 DEF Moves
  <1> QED
    BY <1>1, <1>2, <1>3, <1>6, <1>7, <1>8, <1>9, <1>10, <1>11 DEF Core, OneMore

(* What a promotion gives: a request fewer waits, if there is a nameserver. *)
Promoted(s, r, X) ==
    /\ Keeps(s, r, X)
    /\ IF s.servers = <<>> THEN r = s
       ELSE Len(r.waiting) = Len(s.waiting) - 1 /\ Len(r.inflight) = Len(s.inflight) + 1

(* The head of the waiting requests goes out. *)
LEMMA PromoteKeeps ==
  ASSUME NEW s, NEW X, Core(s, X), s.waiting # <<>>, NEW net \in Net
  PROVE  Promoted(s, Promote(s, net), X)
  <1> DEFINE p == nameserver_pick(s)
             h == Head(s.waiting)
             m == [p.s EXCEPT !.req[h].ns = p.ns, !.ns[p.ns].inflight = @ + 1,
                              !.waiting = Tail(@), !.nwaiting = @ - 1,
                              !.inflight = Append(@, h), !.ninflight = @ + 1]
             a == evdns_request_transmit(m, h, net)
             b == evdns_transmit(a, net)
  <1>1. Promote(s, net) = IF p.ns = Null THEN s ELSE b
    BY DEF Promote
  <1>2. IsPick(s, p, X)
    BY PickKeeps
  <1> HIDE DEF p
  <1>3. CASE s.servers = <<>>
    BY <1>1, <1>2, <1>3, KeepsItself DEF IsPick, Promoted
  <1>4. CASE s.servers # <<>>
    <2> DEFINE c == p.s
               n == p.ns
    <2>1. /\ Core(c, X) /\ Keeps(s, c, X) /\ n \in Sv(c) /\ n # Null
          /\ c.waiting = s.waiting /\ c.inflight = s.inflight
      BY <1>2, <1>4 DEF IsPick, Keeps, Frame, Cools
    <2>2. m = [c EXCEPT !.req[h].ns = n, !.ns[n].inflight = @ + 1,
                        !.waiting = Tail(@), !.nwaiting = @ - 1,
                        !.inflight = Append(@, h), !.ninflight = @ + 1]
      OBVIOUS
    <2> HIDE DEF c, n, m
    <2>3. /\ c \in Bases /\ c.ns \in [Nameserver -> Server] /\ c.req \in [Handle -> Request]
          /\ c.waiting \in Seq(Handle) /\ c.inflight \in Seq(Handle) /\ c.waiting # <<>>
          /\ c.nwaiting \in Int /\ c.ninflight \in Int /\ n \in Nameserver
      BY <2>1, ListsOver DEF Core, Bases
    <2>4. /\ Tail(c.waiting) \in Seq(Handle) /\ Len(Tail(c.waiting)) = Len(c.waiting) - 1
          /\ h \in Wa(c) /\ h \in Handle /\ IsInjective(Tail(c.waiting))
          /\ ToSet(Tail(c.waiting)) = Wa(c) \ {h} /\ Len(c.waiting) \in Nat \ {0}
      BY <2>1, <2>3, TailKeeps DEF Core, Lists, Wa
    <2>5. h \notin In(c) /\ c.req[h] = NewRequest
      BY <2>1, <2>4 DEF Core, Lists, Placed
    <2> DEFINE x == [NewRequest EXCEPT !.ns = n]
               req2 == [c.req EXCEPT ![h] = x]
               ns2 == [c.ns EXCEPT ![n].inflight = @ + 1]
               q == Append(c.inflight, h)
               w == Tail(c.waiting)
               i == c.ninflight + 1
               j == c.nwaiting - 1
    <2>6. x \in Request /\ x.ns = n
      BY <2>3, Blank DEF NewRequest, Request
    <2>7. ns2 \in [Nameserver -> Server]
      <3>1. c.ns \in [Nameserver -> Server] /\ n \in Nameserver
        BY <2>3
      <3> QED
        BY <3>1 DEF Server
    <2>8. req2 \in [Handle -> Request]
      BY <2>3, <2>6
    <2>9. q \in Seq(Handle) /\ w \in Seq(Handle) /\ i \in Int /\ j \in Int
      BY <2>3, <2>4, AppendKeeps
    <2>10. m = [c EXCEPT !.req = req2, !.ns = ns2, !.waiting = w, !.nwaiting = j,
                         !.inflight = q, !.ninflight = i]
      <3>1. [c.req EXCEPT ![h].ns = n] = req2
        BY <2>3, <2>4, <2>5
      <3> HIDE DEF h, x, req2
      <3> QED
        BY <2>2, <2>3, <3>1 DEF Bases
    <2> HIDE DEF req2, ns2, q, w, i, j, h, x
    <2>11. /\ m \in Bases /\ m.servers = c.servers /\ m.good = c.good /\ m.inflight = q
           /\ m.ninflight = i /\ m.waiting = w /\ m.nwaiting = j /\ m.req = req2 /\ m.ns = ns2
           /\ m.names = c.names /\ m.handle = c.handle /\ m.deferred = c.deferred
           /\ m.suspended = c.suspended /\ m.alive = c.alive
      BY <2>3, <2>7, <2>8, <2>9, <2>10 DEF Bases
    <2>12. j = Len(w)
      BY <2>1, <2>4 DEF j, w, Core, Lists
    <2>13. Entered(c, m, h, n, x)
      <3>1. (In(c) \cup {h}) \cap Wa(m) = {}
        BY <2>1, <2>4, <2>5, <2>11 DEF Core, Lists, Wa, w
      <3>2. m.nwaiting = Len(m.waiting) /\ IsInjective(m.waiting)
        BY <2>4, <2>11, <2>12 DEF w
      <3> QED
        BY <2>1, <2>4, <2>5, <2>6, <2>11, <3>1, <3>2 DEF Entered, q, i, req2, ns2
    <2>14. /\ Core(m, X \cup {h}) /\ In(m) = In(c) \cup {h} /\ Sv(m) = Sv(c)
           /\ Len(m.inflight) = Len(c.inflight) + 1
      <3>1. OneMore(c, m, h, X)
        BY <2>1, <2>13, EnterKeeps
      <3> QED
        BY <3>1 DEF OneMore
    <2>15. Frame(c, m) /\ Len(m.waiting) = Len(c.waiting) - 1
      <3>1. In(m) \cup Wa(m) = In(c) \cup Wa(c)
        BY <2>4, <2>11, <2>14 DEF Wa, w
      <3>2. /\ Len(m.waiting) = Len(c.waiting) - 1
            /\ Len(m.inflight) + Len(m.waiting) = Len(c.inflight) + Len(c.waiting)
            /\ Len(c.inflight) <= Len(m.inflight)
        <4>1. Len(m.waiting) = Len(c.waiting) - 1
          BY <2>4, <2>11 DEF w
        <4>2. Len(c.inflight) \in Nat /\ Len(c.waiting) \in Nat
          BY <2>3, ListsOver
        <4> DEFINE e == Len(c.inflight)
                   f == Len(c.waiting)
                   e2 == Len(m.inflight)
                   f2 == Len(m.waiting)
        <4>3. e \in Nat /\ f \in Nat /\ e2 = e + 1 /\ f2 = f - 1
          BY <2>14, <4>1, <4>2
        <4>4. SUFFICES f2 = f - 1 /\ e2 + f2 = e + f /\ e <= e2
          OBVIOUS
        <4> HIDE DEF e, f, e2, f2
        <4> QED
          BY <4>3
      <3>3. \A k \in Nameserver :
              /\ m.ns[k].probe = c.ns[k].probe
              /\ c.ns[k].timer => m.ns[k].timer
              /\ m.ns[k].state => c.ns[k].state
              /\ c.ns[k].state => m.ns[k].state \/ m.ns[k].timer
        BY <2>3, <2>11 DEF ns2, Server
      <3> QED
        BY <2>11, <2>14, <3>1, <3>2, <3>3 DEF Frame, Cools
    <2>16. Keeps(s, m, X \cup {h})
      BY <2>1, <2>14, <2>15, KeepsOn DEF Keeps
    <2>17. h \in In(m)
      BY <2>14
    <2>18. KeepsLists(m, a, (X \cup {h}) \ {h})
      BY <2>14, <2>17, TransmitKeeps
    <2>19. Core(a, X)
      BY <2>18, CoreWeaker DEF KeepsLists, Keeps
    <2>20. KeepsLists(m, a, X)
      BY <2>18, <2>19 DEF KeepsLists, Keeps
    <2> HIDE DEF a
    <2>21. KeepsLists(a, b, X)
      BY <2>19, TransmitAllKeeps
    <2> HIDE DEF b
    <2>22. Keeps(s, b, X) /\ b.inflight = m.inflight /\ b.waiting = m.waiting
      <3>1. KeepsLists(m, b, X)
        BY <2>14, <2>20, <2>21, KeepsListsOn
      <3> QED
        BY <2>16, <3>1, KeepsOn DEF KeepsLists
    <2>23. Promote(s, net) = b
      BY <1>1, <2>1 DEF n
    <2> QED
      BY <1>4, <2>1, <2>14, <2>15, <2>22, <2>23 DEF Promoted
  <1> QED
    BY <1>3, <1>4

(* The settings of the base. *)
LEMMA SetIs ==
  ASSUME set \in Settings
  PROVE  /\ set.max \in 1 .. 5 /\ set.max \in Int /\ set.max >= 1 /\ set.names \in Nat
         /\ set.users \subseteq Users /\ set.servers \subseteq Nameserver /\ set.servers # {}
  <1>1. set \in Setting
    BY EvdnsAssumption
  <1>2. set.max \in 1 .. 5 /\ set.names \in Nat /\ set.users \in SUBSET Users
    BY <1>1 DEF Setting
  <1>3. set.servers \in (SUBSET Nameserver) \ {{}}
    BY <1>1 DEF Setting
  <1>4. set.max \in Int /\ set.max >= 1
    BY <1>2
  <1>5. set.servers \subseteq Nameserver /\ set.servers # {}
    BY <1>3
  <1> QED
    BY <1>2, <1>4, <1>5, Zenon

(* After i turns: each took a request that waits, until there was no room. *)
Pumping(s, i, x, X) ==
    /\ Keeps(s, x, X) /\ Len(x.waiting) >= Len(s.waiting) - i
    /\ \/ Len(x.waiting) = Len(s.waiting) - i
       \/ Len(x.inflight) >= set.max
       \/ x.servers = <<>>

(* After the last one. *)
Pumped(s, r, X) ==
    /\ Keeps(s, r, X)
    /\ r.waiting = <<>> \/ Len(r.inflight) >= set.max \/ r.servers = <<>>

(* One turn of evdns_requests_pump_waiting_queue. *)
LEMMA PumpTurn ==
  ASSUME NEW s, NEW X, Core(s, X), NEW net \in Net, set \in Settings,
         NEW i \in 1 .. Len(s.waiting), NEW x, Pumping(s, i - 1, x, X)
  PROVE  Pumping(s, i, IF x.ninflight < set.max THEN Promote(x, net) ELSE x, X)
  <1> DEFINE L == Len(s.waiting)
             w == Len(x.waiting)
             f == Len(x.inflight)
             r == Promote(x, net)
             w2 == Len(r.waiting)
             f2 == Len(r.inflight)
  <1>1. Core(x, X) /\ s \in Bases /\ x \in Bases /\ Keeps(s, x, X)
    BY DEF Pumping, Keeps, Core
  <1>2. L \in Nat /\ w \in Nat /\ f \in Nat /\ x.ninflight = f /\ set.max \in Int
        /\ (x.waiting = <<>> <=> w = 0)
    BY <1>1, ListsOver, SetIs DEF Core, Lists
  <1>3. w >= L - (i - 1) /\ (w = L - (i - 1) \/ f >= set.max \/ x.servers = <<>>)
    BY DEF Pumping
  <1>4. i \in 1 .. L
    OBVIOUS
  <1>5. CASE f < set.max
    <2>1. w # 0
      <3> HIDE DEF L, w, f
      <3> QED
        BY <1>2, <1>3, <1>4
    <2>2. Promoted(x, r, X)
      BY <1>1, <1>2, <2>1, PromoteKeeps
    <2>3. Keeps(s, r, X)
      BY <1>1, <2>2, KeepsOn DEF Promoted
    <2>4. CASE x.servers = <<>>
      <3>1. r = x
        BY <2>2, <2>4 DEF Promoted
      <3>2. w >= L - i
        <4> HIDE DEF L, w, f
        <4> QED
          BY <1>2, <1>3, <1>4
      <3>3. Pumping(s, i, x, X)
        BY <1>1, <2>4, <3>2 DEF Pumping
      <3> HIDE DEF r
      <3> QED
        BY <1>2, <1>5, <3>1, <3>3 DEF r
    <2>5. CASE x.servers # <<>>
      <3>1. w2 = w - 1
        BY <2>2, <2>5 DEF Promoted
      <3>2. w2 = L - i /\ w2 >= L - i
        <4> HIDE DEF L, w, f, w2
        <4> QED
          BY <1>2, <1>3, <1>4, <1>5, <2>5, <3>1
      <3>3. Pumping(s, i, r, X)
        BY <2>3, <3>2 DEF Pumping
      <3> HIDE DEF r
      <3> QED
        BY <1>2, <1>5, <3>3 DEF r
    <2> QED
      BY <2>4, <2>5
  <1>6. CASE ~(f < set.max)
    <2>1. f >= set.max /\ w >= L - i
      <3> HIDE DEF L, w, f
      <3> QED
        BY <1>2, <1>3, <1>4, <1>6
    <2>2. Pumping(s, i, x, X)
      BY <1>1, <2>1 DEF Pumping
    <2> QED
      BY <1>2, <1>6, <2>2
  <1> QED
    BY <1>5, <1>6

(* evdns_requests_pump_waiting_queue goes on until nothing waits or there is no room. *)
LEMMA PumpKeeps ==
  ASSUME NEW s, NEW X, Core(s, X), NEW net \in Net, set \in Settings
  PROVE  Pumped(s, evdns_requests_pump_waiting_queue(s, net), X)
  <1> DEFINE N == s.nwaiting
             Turn(i, x) == IF x.ninflight < set.max THEN Promote(x, net) ELSE x
             Eq(f) == f = [i \in 0 .. N |->
                              IF i = 0 THEN s
                              ELSE IF f[i - 1].ninflight < set.max THEN Promote(f[i - 1], net)
                              ELSE f[i - 1]]
             t == CHOOSE f : Eq(f)
             K == {p \in Nat \X Bases : Pumping(s, p[1], p[2], X)}
             g == [p \in (1 .. N) \X Bases |-> Turn(p[1], p[2])]
  <1>1. s \in Bases /\ N = Len(s.waiting) /\ N \in Nat
    BY ListsOver DEF Core, Lists
  <1>2. Pumping(s, 0, s, X)
    BY <1>1, KeepsItself DEF Pumping
  <1>3. ASSUME NEW i \in 1 .. N, NEW x, Pumping(s, i - 1, x, X)
        PROVE  Pumping(s, i, Turn(i, x), X)
    BY <1>1, <1>3, PumpTurn
  <1>4. evdns_requests_pump_waiting_queue(s, net) = t[N]
    BY DEF evdns_requests_pump_waiting_queue
  <1>5. \A i, x : Pumping(s, i, x, X) => x \in Bases
    BY DEF Pumping, Keeps, Core
  <1>6. \A f : Eq(f) <=> f = [i \in 0 .. N |-> IF i = 0 THEN s ELSE Turn(i, f[i - 1])]
    OBVIOUS
  <1> HIDE DEF N, Turn, Eq
  <1>7. \A i \in 1 .. N, x \in Bases : g[<<i, x>>] = Turn(i, x)
    OBVIOUS
  <1> HIDE DEF g
  <1>8. Keeping(N, s, g, Bases, K)
    <2>1. <<0, s>> \in K
      BY <1>1, <1>2
    <2>2. \A i \in Nat : \A x : <<i, x>> \in K => x \in Bases
      OBVIOUS
    <2>3. \A i \in 1 .. N, x \in Bases : <<i - 1, x>> \in K => <<i, g[<<i, x>>]>> \in K
      BY <1>1, <1>3, <1>5, <1>7
    <2> HIDE DEF K
    <2> QED
      BY <2>1, <2>2, <2>3 DEF Keeping
  <1>9. PICK f : /\ f = [i \in 0 .. N |-> IF i = 0 THEN s ELSE g[<<i, f[i - 1]>>]]
                 /\ \A i \in 1 .. N : f[i - 1] \in Bases /\ f[i] = g[<<i, f[i - 1]>>]
    <2> HIDE DEF K
    <2> QED
      BY <1>1, <1>8, LoopValues
  <1>10. Eq(f)
    <2>1. \A i \in 0 .. N : i # 0 => i \in 1 .. N
      BY <1>1
    <2>2. \A i \in 0 .. N : (IF i = 0 THEN s ELSE g[<<i, f[i - 1]>>])
                          = (IF i = 0 THEN s ELSE Turn(i, f[i - 1]))
      BY <1>7, <1>9, <2>1
    <2>3. f = [i \in 0 .. N |-> IF i = 0 THEN s ELSE Turn(i, f[i - 1])]
      BY <1>9, <2>2
    <2> QED
      BY <1>6, <2>3
  <1>11. Eq(t)
    BY <1>10
  <1> HIDE DEF t
  <1>12. Going(N, s, g, Bases, t)
    <2>1. t[0] = s /\ \A i \in 1 .. N : t[i] = Turn(i, t[i - 1])
      BY <1>1, <1>6, <1>11
    <2> QED
      BY <1>7, <2>1 DEF Going
  <1>13. <<N, t[N]>> \in K
    <2> HIDE DEF K
    <2> QED
      BY <1>1, <1>8, <1>12, LoopStays
  <1>14. Pumping(s, N, t[N], X)
    BY <1>13
  <1>15. Pumped(s, t[N], X)
    <2> DEFINE w == Len(t[N].waiting)
    <2>1. t[N] \in Bases
      BY <1>5, <1>14
    <2>2. w \in Nat /\ (t[N].waiting = <<>> <=> w = 0)
      BY <2>1, ListsOver
    <2>3. w = N - N \/ Len(t[N].inflight) >= set.max \/ t[N].servers = <<>>
      BY <1>1, <1>14 DEF Pumping
    <2>4. w = N - N => w = 0
      BY <1>1
    <2> QED
      BY <1>14, <2>2, <2>3, <2>4 DEF Pumping, Pumped
  <1> QED
    BY <1>4, <1>15

-----------------------------------------------------------------------------
(* The end of a request *)

(* What stays when the request h ends and its handle becomes hs. *)
Ends(s, r, h, hs, X) ==
    /\ Core(r, X \ {h})
    /\ r.handle = [s.handle EXCEPT ![h] = hs]
    /\ r.names = s.names /\ r.deferred = s.deferred
    /\ r.suspended = s.suspended /\ r.alive = s.alive
    /\ Sv(r) = Sv(s) /\ In(r) \cup Wa(r) = (In(s) \cup Wa(s)) \ {h}
    /\ In(s) \ {h} \subseteq In(r)
    /\ Len(r.inflight) + Len(r.waiting) = (Len(s.inflight) + Len(s.waiting)) - 1
    /\ Len(s.inflight) - 1 <= Len(r.inflight) /\ Cools(s, r)

(* The parts of a base that do not change when a request leaves. *)
Around(s, r) ==
    /\ r.servers = s.servers /\ r.good = s.good
    /\ r.names = s.names /\ r.deferred = s.deferred
    /\ r.suspended = s.suspended /\ r.alive = s.alive

(* A request that waits leaves. *)
LEMMA LeaveWaiting ==
  ASSUME NEW s, NEW X, Core(s, X), NEW h, h \in Wa(s), NEW hs, NEW r, r \in Bases,
         Around(s, r), r.handle = [s.handle EXCEPT ![h] = hs],
         r.ns = s.ns, r.req = s.req, r.inflight = s.inflight, r.ninflight = s.ninflight,
         r.waiting = RemoveFirst(s.waiting, h), r.nwaiting = s.nwaiting - 1
  PROVE  Ends(s, r, h, hs, X)
  <1>1. s \in Bases /\ s.waiting \in Seq(Handle) /\ h \notin In(s) /\ IsInjective(s.waiting)
        /\ In(s) \cap Wa(s) = {}
    BY DEF Core, Bases, Lists
  <1>2. IsList(r.waiting, Handle, Len(s.waiting) - 1, Wa(s) \ {h})
    BY <1>1, RemoveKeeps DEF Wa
  <1>3. /\ In(r) = In(s) /\ Sv(r) = Sv(s) /\ Wa(r) = Wa(s) \ {h}
        /\ IsInjective(r.waiting) /\ Len(r.waiting) = Len(s.waiting) - 1
    BY <1>2 DEF Around, IsList, In, Sv, Wa
  <1>4. Lists(r)
    BY <1>3 DEF Core, Lists
  <1>5. Ups(r) /\ Placed(r) /\ Loads(r) /\ Awaited(r)
    BY <1>3 DEF Around, Core, Ups, Placed, Loads, Awaited
  <1>6. ASSUME NEW g \in In(r) \ (X \ {h}) PROVE Moves(r, g)
    <2>1. g \in In(s) \ X
      BY <1>1, <1>3, <1>6
    <2> QED
      BY <1>3, <2>1 DEF Core, Moves
  <1>7. Core(r, X \ {h})
    BY <1>4, <1>5, <1>6 DEF Core
  <1>8. /\ In(r) \cup Wa(r) = (In(s) \cup Wa(s)) \ {h} /\ In(s) \ {h} \subseteq In(r)
    BY <1>1, <1>3
  <1>9. /\ Len(r.inflight) + Len(r.waiting) = (Len(s.inflight) + Len(s.waiting)) - 1
        /\ Len(s.inflight) - 1 <= Len(r.inflight)
    <2> DEFINE e == Len(s.inflight)
               f == Len(s.waiting)
    <2>1. e \in Nat /\ f \in Nat
      BY <1>1, ListsOver
    <2>2. SUFFICES e + (f - 1) = (e + f) - 1 /\ e - 1 <= e
      BY <1>3
    <2> HIDE DEF e, f
    <2> QED
      BY <2>1
  <1>10. Cools(s, r)
    BY DEF Cools
  <1> QED
    BY <1>3, <1>7, <1>8, <1>9, <1>10 DEF Ends, Around

(* A request in flight leaves. *)
LEMMA LeaveInflight ==
  ASSUME NEW s, NEW X, Core(s, X), NEW h, h \in In(s), NEW hs, NEW r, r \in Bases,
         Around(s, r), r.handle = [s.handle EXCEPT ![h] = hs],
         r.ns = [s.ns EXCEPT ![s.req[h].ns].inflight = @ - 1],
         r.req = [s.req EXCEPT ![h] = NewRequest],
         r.inflight = RemoveFirst(s.inflight, h), r.ninflight = s.ninflight - 1,
         r.waiting = s.waiting, r.nwaiting = s.nwaiting
  PROVE  Ends(s, r, h, hs, X)
  <1> DEFINE n == s.req[h].ns
  <1>1. /\ s \in Bases /\ s.inflight \in Seq(Handle) /\ h \in Handle /\ In(s) \subseteq Handle
        /\ IsInjective(s.inflight) /\ In(s) \cap Wa(s) = {} /\ h \notin Wa(s)
        /\ s.ns \in [Nameserver -> Server] /\ s.req \in [Handle -> Request]
        /\ n \in Sv(s) /\ n \in Nameserver /\ Sv(s) \subseteq Nameserver
    BY ListsOver DEF Core, Bases, Lists, Placed
  <1>2. IsList(r.inflight, Handle, Len(s.inflight) - 1, In(s) \ {h})
    <2>1. s.inflight \in Seq(Handle) /\ h \in ToSet(s.inflight) /\ IsInjective(s.inflight)
      BY <1>1 DEF In
    <2>2. IsList(RemoveFirst(s.inflight, h), Handle, Len(s.inflight) - 1,
                 ToSet(s.inflight) \ {h})
      BY <2>1, RemoveKeeps
    <2> QED
      BY <2>2 DEF In
  <1>3. /\ Wa(r) = Wa(s) /\ Sv(r) = Sv(s) /\ In(r) = In(s) \ {h}
        /\ IsInjective(r.inflight) /\ Len(r.inflight) = Len(s.inflight) - 1
    BY <1>2 DEF Around, IsList, In, Sv, Wa
  <1>a. s.ns[n] \in Server
    BY <1>1
  <1>4. /\ \A m \in Nameserver : m # n => r.ns[m] = s.ns[m]
        /\ r.ns[n] = [s.ns[n] EXCEPT !.inflight = @ - 1]
    BY <1>1
  <1>5. /\ r.ns[n].inflight = s.ns[n].inflight - 1
        /\ AsUp(r.ns[n], s.ns[n]) /\ r.ns[n].choked = s.ns[n].choked
        /\ r.ns[n].write_waiting = s.ns[n].write_waiting
    BY <1>4, <1>a DEF Server, AsUp
  <1>6. \A g \in Handle : r.req[g] = IF g = h THEN NewRequest ELSE s.req[g]
    BY <1>1
  <1> HIDE DEF n
  <1>7. Lists(r)
    BY <1>1, <1>3 DEF Core, Lists
  <1>8. Ups(r)
    <2>1. UpIn(r.servers, r.ns) = UpIn(s.servers, s.ns)
      BY <1>1, <1>4, <1>5 DEF Around, UpIn, Sv, AsUp
    <2>2. \A m \in Nameserver \ Sv(r) : r.ns[m] = NewServer
      BY <1>1, <1>3, <1>4 DEF Core, Ups
    <2> QED
      BY <2>1, <2>2 DEF Around, Core, Ups
  <1>9. Placed(r)
    BY <1>3, <1>6 DEF Core, Placed
  <1>10. Loads(r)
    <2> DEFINE A(m) == At(s.inflight, s.req, m)
               B(m) == At(r.inflight, r.req, m)
    <2>1. \A m : B(m) = IF m = n THEN A(m) \ {h} ELSE A(m)
      <3>1. /\ ToSet(r.inflight) = ToSet(s.inflight) \ {h} /\ h \in ToSet(s.inflight)
            /\ ToSet(s.inflight) \subseteq Handle /\ s.req[h].ns = n
        BY <1>1, <1>3 DEF In, n
      <3> QED
        BY <1>6, <3>1 DEF At
    <2>2. h \in A(n) /\ IsFiniteSet(A(n))
      <3>1. h \in A(n)
        BY DEF At, In, n
      <3>2. IsFiniteSet(A(n))
        BY <1>1, CountedFinite
      <3> QED
        BY <3>1, <3>2
    <2>3. \A m \in Nameserver : s.ns[m].inflight = Cardinality(A(m))
      BY DEF Core, Loads
    <2> HIDE DEF A, B
    <2>4. Cardinality(A(n) \ {h}) = Cardinality(A(n)) - 1
      BY <2>2, FS_RemoveElement
    <2>5. \A m \in Nameserver : r.ns[m].inflight = Cardinality(B(m))
      BY <1>1, <1>4, <1>5, <2>1, <2>3, <2>4
    <2> QED
      BY <2>5 DEF Loads, B
  <1>11. Awaited(r)
    BY <1>1, <1>4, <1>5 DEF Core, Awaited
  <1>12. ASSUME NEW g \in In(r) \ (X \ {h}) PROVE Moves(r, g)
    <2>1. g \in In(s) \ X /\ g \in Handle /\ g # h
      BY <1>1, <1>3, <1>12
    <2>2. Moves(s, g) /\ r.req[g] = s.req[g]
      BY <1>6, <2>1 DEF Core
    <2>3. \A m \in Nameserver : r.ns[m].write_waiting = s.ns[m].write_waiting
      BY <1>4, <1>5
    <2> QED
      BY <1>1, <1>3, <2>2, <2>3 DEF Moves
  <1>13. Core(r, X \ {h})
    BY <1>7, <1>8, <1>9, <1>10, <1>11, <1>12 DEF Core
  <1>14. /\ In(r) \cup Wa(r) = (In(s) \cup Wa(s)) \ {h} /\ In(s) \ {h} \subseteq In(r)
    BY <1>1, <1>3
  <1>15. /\ Len(r.inflight) + Len(r.waiting) = (Len(s.inflight) + Len(s.waiting)) - 1
         /\ Len(s.inflight) - 1 <= Len(r.inflight)
    <2> DEFINE e == Len(s.inflight)
               f == Len(s.waiting)
    <2>1. e \in Nat /\ f \in Nat
      BY <1>1, ListsOver
    <2>2. SUFFICES (e - 1) + f = (e + f) - 1 /\ e - 1 <= e - 1
      BY <1>3
    <2> HIDE DEF e, f
    <2> QED
      BY <2>1
  <1>16. Cools(s, r)
    BY <1>4, <1>5 DEF Cools, AsUp
  <1> QED
    BY <1>3, <1>13, <1>14, <1>15, <1>16 DEF Ends, Around

(* What follows keeps that. *)
LEMMA EndsOn ==
  ASSUME NEW s, s \in Bases, NEW o, NEW h, NEW hs, NEW X, Ends(s, o, h, hs, X),
         NEW r, Keeps(o, r, X \ {h})
  PROVE  Ends(s, r, h, hs, X)
  <1>1. o \in Bases /\ r \in Bases
    BY DEF Ends, Keeps, Core
  <1>2. /\ Len(r.inflight) + Len(r.waiting) = (Len(s.inflight) + Len(s.waiting)) - 1
        /\ Len(s.inflight) - 1 <= Len(r.inflight)
    <2> DEFINE a == Len(s.inflight)
               b == Len(s.waiting)
               c == Len(o.inflight)
               d == Len(o.waiting)
               e == Len(r.inflight)
               f == Len(r.waiting)
    <2>1. a \in Nat /\ b \in Nat /\ c \in Nat /\ d \in Nat /\ e \in Nat /\ f \in Nat
      BY <1>1, ListsOver
    <2>2. c + d = (a + b) - 1 /\ a - 1 <= c
      BY Zenon DEF Ends
    <2>3. e + f = c + d /\ c <= e
      BY Zenon DEF Keeps, Frame
    <2>4. SUFFICES e + f = (a + b) - 1 /\ a - 1 <= e
      OBVIOUS
    <2> HIDE DEF a, b, c, d, e, f
    <2> QED
      BY <2>1, <2>2, <2>3
  <1>3. Cools(s, r)
    <2>1. Cools(s, o) /\ Cools(o, r)
      BY DEF Ends, Keeps, Frame
    <2> QED
      BY <2>1, Zenon DEF Cools
  <1>4. /\ r.handle = [s.handle EXCEPT ![h] = hs]
        /\ r.names = s.names /\ r.deferred = s.deferred
        /\ r.suspended = s.suspended /\ r.alive = s.alive
        /\ Sv(r) = Sv(s) /\ In(r) \cup Wa(r) = (In(s) \cup Wa(s)) \ {h}
    BY Zenon DEF Ends, Keeps, Frame
  <1>5. In(s) \ {h} \subseteq In(r) /\ Core(r, X \ {h})
    BY DEF Ends, Keeps, Frame
  <1> QED
    BY <1>2, <1>3, <1>4, <1>5 DEF Ends

(* There is no room, nobody waits, or there is no nameserver. *)
NoneHeld(r) == r.waiting = <<>> \/ Len(r.inflight) >= set.max \/ r.servers = <<>>

(* What request_finished makes of a handle. *)
HandleAfter(s, h, free) == IF free /\ s.handle[h] = "live" THEN Freed(h) ELSE s.handle[h]

(* request_finished, a request in flight or one that waits. *)
LEMMA FinishedKeeps ==
  ASSUME NEW s, NEW X, Core(s, X), NEW h, h \in In(s) \cup Wa(s), NEW free \in BOOLEAN,
         NEW net \in Net, set \in Settings
  PROVE  /\ Ends(s, request_finished(s, h, free, net), h, HandleAfter(s, h, free), X)
         /\ NoneHeld(request_finished(s, h, free, net))
  <1> DEFINE n == s.req[h].ns
             hs == HandleAfter(s, h, free)
             H == [s.handle EXCEPT ![h] = hs]
             out == IF n = Null
                    THEN [s EXCEPT !.waiting = RemoveFirst(@, h), !.nwaiting = @ - 1]
                    ELSE [s EXCEPT !.inflight = RemoveFirst(@, h), !.ninflight = @ - 1,
                                   !.ns[n].inflight = @ - 1]
             o == [out EXCEPT !.req[h] = NewRequest,
                              !.handle[h] = IF free /\ @ = "live" THEN Freed(h) ELSE @]
             r == evdns_requests_pump_waiting_queue(o, net)
  <1>1. request_finished(s, h, free, net) = r
    BY DEF request_finished
  <1>2. /\ s \in Bases /\ h \in Handle /\ s.req \in [Handle -> Request]
        /\ s.ns \in [Nameserver -> Server] /\ s.inflight \in Seq(Handle)
        /\ s.waiting \in Seq(Handle) /\ s.ninflight \in Int /\ s.nwaiting \in Int
        /\ s.handle \in [Handle -> {"new", "live", "pending", "done"}]
    BY ListsOver DEF Core, Bases
  <1>3. hs \in {"new", "live", "pending", "done"}
    BY <1>2 DEF HandleAfter, Freed
  <1>4. H \in [Handle -> {"new", "live", "pending", "done"}]
    <2> HIDE DEF hs
    <2> QED
      BY <1>2, <1>3
  <1>5. Ends(s, o, h, hs, X)
    <2>1. CASE h \in Wa(s)
      <3> DEFINE w == RemoveFirst(s.waiting, h)
                 j == s.nwaiting - 1
      <3>1. h \notin In(s) /\ s.req[h] = NewRequest /\ n = Null
        BY <1>2, <2>1, Blank DEF Core, Lists, Placed
      <3>2. o = [s EXCEPT !.waiting = w, !.nwaiting = j, !.req = [s.req EXCEPT ![h] = NewRequest],
                          !.handle = H]
        <4> HIDE DEF n
        <4> QED
          BY <1>2, <3>1 DEF Bases, HandleAfter
      <3>3. [s.req EXCEPT ![h] = NewRequest] = s.req
        BY <1>2, <3>1
      <3>4. w \in Seq(Handle) /\ j \in Int
        BY <1>2, <2>1, RemoveKeeps DEF IsList, Core, Lists, Wa
      <3> HIDE DEF o, w, j, H
      <3>5. /\ o \in Bases /\ Around(s, o) /\ o.handle = H /\ o.ns = s.ns /\ o.req = s.req
            /\ o.inflight = s.inflight /\ o.ninflight = s.ninflight
            /\ o.waiting = w /\ o.nwaiting = j
        BY <1>2, <1>4, <3>2, <3>3, <3>4 DEF Bases, Around
      <3> HIDE DEF hs
      <3> QED
        BY <2>1, <3>5, LeaveWaiting DEF w, j, H
    <2>2. CASE h \in In(s)
      <3> DEFINE q == RemoveFirst(s.inflight, h)
                 i == s.ninflight - 1
                 ns2 == [s.ns EXCEPT ![n].inflight = @ - 1]
                 req2 == [s.req EXCEPT ![h] = NewRequest]
      <3>1. n \in Nameserver /\ n # Null
        BY <1>2, <2>2, Blank, ListsOver DEF Core, Placed
      <3> HIDE DEF n
      <3>2. o = [s EXCEPT !.inflight = q, !.ninflight = i, !.ns = ns2, !.req = req2, !.handle = H]
        BY <1>2, <3>1 DEF Bases, HandleAfter
      <3>3. q \in Seq(Handle) /\ i \in Int
        BY <1>2, <2>2, RemoveKeeps DEF IsList, Core, Lists, In
      <3>4. ns2 \in [Nameserver -> Server]
        <4>1. s.ns \in [Nameserver -> Server] /\ n \in Nameserver
          BY <1>2, <3>1
        <4> QED
          BY <4>1 DEF Server
      <3>5. req2 \in [Handle -> Request]
        BY <1>2, Blank
      <3> HIDE DEF o, q, i, ns2, req2, H
      <3>6. /\ o \in Bases /\ Around(s, o) /\ o.handle = H /\ o.ns = ns2 /\ o.req = req2
            /\ o.inflight = q /\ o.ninflight = i
            /\ o.waiting = s.waiting /\ o.nwaiting = s.nwaiting
        BY <1>2, <1>4, <3>2, <3>3, <3>4, <3>5 DEF Bases, Around
      <3> HIDE DEF hs
      <3> QED
        BY <2>2, <3>6, LeaveInflight DEF q, i, ns2, req2, H, n
    <2> QED
      BY <2>1, <2>2
  <1> HIDE DEF o, hs, n
  <1>6. Core(o, X \ {h})
    BY <1>5 DEF Ends
  <1>7. Pumped(o, r, X \ {h})
    BY <1>6, PumpKeeps
  <1> HIDE DEF r
  <1>8. Ends(s, r, h, hs, X)
    BY <1>2, <1>5, <1>7, EndsOn DEF Pumped
  <1> QED
    BY <1>1, <1>7, <1>8 DEF Pumped, NoneHeld, hs

-----------------------------------------------------------------------------
(* Handles and nameservers *)

(* What the network operators keep, they keep of the rest too. *)
LEMMA RestFrame ==
  ASSUME NEW s, NEW X, Core(s, X), NEW Y, NEW Z, Rest(s, Y, Z), NEW r, r \in Bases, Frame(s, r)
  PROVE  Rest(r, Y, Z)
  <1>1. s \in Bases
    BY DEF Core
  <1>2. /\ r.handle = s.handle /\ r.names = s.names /\ r.deferred = s.deferred
        /\ r.suspended = s.suspended /\ r.alive = s.alive
        /\ Sv(r) = Sv(s) /\ In(r) \cup Wa(r) = In(s) \cup Wa(s)
    BY DEF Frame
  <1>3. Handles(s, Y) /\ Probing(s, Z) /\ Emptied(s) /\ (RoomToSearch => Served(s))
    BY DEF Rest
  <1>4. Handles(r, Y)
    BY <1>2, <1>3 DEF Handles
  <1>5. Probing(r, Z)
    <2>1. \A n \in Nameserver : r.handle[n] # "new" => n \in Sv(r)
      BY <1>2, <1>3 DEF Probing
    <2>2. Cools(s, r)
      BY DEF Frame
    <2>3. \A n \in Nameserver \ Z :
            /\ n \in Sv(r) /\ ~r.ns[n].state => r.ns[n].timer \/ r.handle[n] # "new"
            /\ r.ns[n].probe => r.handle[n] # "new"
      BY <1>2, <1>3, <2>2, Zenon DEF Probing, Cools
    <2>4. ASSUME NEW i \in DOMAIN r.deferred, r.deferred[i].handle \in Nameserver \ Z,
                 r.deferred[i].err = "cancel"
          PROVE  /\ ~r.ns[r.deferred[i].handle].probe
                 /\ r.ns[r.deferred[i].handle].state \/ r.ns[r.deferred[i].handle].timer
      <3> DEFINE n == r.deferred[i].handle
      <3>1. ~s.ns[n].probe /\ (s.ns[n].state \/ s.ns[n].timer)
        BY <1>2, <1>3, <2>4 DEF Probing
      <3> HIDE DEF n
      <3>2. n \in Nameserver
        BY <2>4 DEF n
      <3>3. ~r.ns[n].probe /\ (r.ns[n].state \/ r.ns[n].timer)
        BY <2>2, <3>1, <3>2, Zenon DEF Cools
      <3> QED
        BY <3>3 DEF n
    <2> QED
      BY <2>1, <2>3, <2>4 DEF Probing
  <1>6. Emptied(r)
    BY <1>1, <1>2, <1>3, ListsOver DEF Emptied
  <1>7. ASSUME Served(s) PROVE Served(r)
    <2> DEFINE a == Len(s.inflight)
               b == Len(s.waiting)
               c == Len(r.inflight)
               d == Len(r.waiting)
    <2>1. /\ a \in Nat /\ b \in Nat /\ c \in Nat /\ d \in Nat
          /\ (s.inflight = <<>> <=> a = 0) /\ (s.waiting = <<>> <=> b = 0)
          /\ (r.inflight = <<>> <=> c = 0) /\ (r.waiting = <<>> <=> d = 0)
      BY <1>1, ListsOver
    <2>2. c + d = a + b /\ a <= c
      BY Zenon DEF Frame
    <2>3. b # 0 /\ ~s.suspended => a # 0
      BY <1>7, <2>1 DEF Served
    <2>4. d # 0 /\ ~s.suspended => c # 0
      <3> HIDE DEF a, b, c, d
      <3> QED
        BY <2>1, <2>2, <2>3
    <2> QED
      BY <1>2, <2>1, <2>4 DEF Served
  <1> QED
    BY <1>3, <1>4, <1>5, <1>6, <1>7 DEF Rest

(* When nothing is held back, what waits is served. *)
LEMMA NoneHeldServed ==
  ASSUME NEW r, r \in Bases, Emptied(r), NoneHeld(r), set \in Settings
  PROVE  Served(r)
  <1> DEFINE f == Len(r.inflight)
  <1>1. f \in Nat /\ (r.inflight = <<>> <=> f = 0) /\ set.max \in Int /\ set.max >= 1
    BY ListsOver, SetIs
  <1>2. f >= set.max => f # 0
    <2> HIDE DEF f
    <2> QED
      BY <1>1
  <1> QED
    BY <1>1, <1>2 DEF Served, Emptied, NoneHeld

(* The request h ends and its handle stays; the exceptions are V then. *)
Leaves(s, r, h, X, Y, V) ==
    /\ Ends(s, r, h, s.handle[h], X) /\ NoneHeld(r)
    /\ Y \ {h} \subseteq V /\ (s.handle[h] = "live" => h \in V)

(* A request ends whose handle has its new state already, or stays live. *)
LEMMA RestEnds ==
  ASSUME NEW s, NEW X, Core(s, X), NEW Y, NEW Z, Rest(s, Y, Z), NEW h \in Handle, NEW r,
         NEW V, Leaves(s, r, h, X, Y, V), set \in Settings
  PROVE  Rest(r, V, Z) /\ r.handle = s.handle
  <1>0. Ends(s, r, h, s.handle[h], X) /\ NoneHeld(r) /\ Y \ {h} \subseteq V
        /\ (s.handle[h] = "live" => h \in V)
    BY DEF Leaves
  <1>1. s \in Bases /\ r \in Bases /\ s.handle \in [Handle -> {"new", "live", "pending", "done"}]
    BY <1>0 DEF Core, Ends, Bases
  <1>2. /\ r.handle = s.handle /\ r.names = s.names /\ r.deferred = s.deferred
        /\ r.suspended = s.suspended /\ r.alive = s.alive
        /\ Sv(r) = Sv(s) /\ In(r) \cup Wa(r) = (In(s) \cup Wa(s)) \ {h}
    BY <1>0, <1>1 DEF Ends
  <1>3. Handles(s, Y) /\ Probing(s, Z) /\ Emptied(s)
    BY DEF Rest
  <1>4. Handles(r, V)
    <2>1. \A g \in Handle \ V : r.handle[g] = "live" <=> g \in In(r) \cup Wa(r)
      BY <1>0, <1>2, <1>3 DEF Handles
    <2> QED
      BY <1>2, <1>3, <2>1 DEF Handles
  <1>5. Probing(r, Z)
    <2>1. \A n \in Nameserver : r.handle[n] # "new" => n \in Sv(r)
      BY <1>2, <1>3 DEF Probing
    <2>2. Cools(s, r)
      BY <1>0 DEF Ends
    <2>3. \A n \in Nameserver \ Z :
            /\ n \in Sv(r) /\ ~r.ns[n].state => r.ns[n].timer \/ r.handle[n] # "new"
            /\ r.ns[n].probe => r.handle[n] # "new"
      BY <1>2, <1>3, <2>2, Zenon DEF Probing, Cools
    <2>4. ASSUME NEW i \in DOMAIN r.deferred, r.deferred[i].handle \in Nameserver \ Z,
                 r.deferred[i].err = "cancel"
          PROVE  /\ ~r.ns[r.deferred[i].handle].probe
                 /\ r.ns[r.deferred[i].handle].state \/ r.ns[r.deferred[i].handle].timer
      <3> DEFINE n == r.deferred[i].handle
      <3>1. ~s.ns[n].probe /\ (s.ns[n].state \/ s.ns[n].timer)
        BY <1>2, <1>3, <2>4 DEF Probing
      <3> HIDE DEF n
      <3>2. n \in Nameserver
        BY <2>4 DEF n
      <3>3. ~r.ns[n].probe /\ (r.ns[n].state \/ r.ns[n].timer)
        BY <2>2, <3>1, <3>2, Zenon DEF Cools
      <3> QED
        BY <3>3 DEF n
    <2> QED
      BY <2>1, <2>3, <2>4 DEF Probing
  <1>6. Emptied(r)
    <2>1. In(s) \cup Wa(s) = {} => In(r) = {} /\ Wa(r) = {}
      BY <1>2
    <2> QED
      BY <1>1, <1>2, <1>3, <2>1, ListsOver DEF Emptied
  <1>7. Served(r)
    BY <1>0, <1>1, <1>6, NoneHeldServed
  <1> QED
    BY <1>2, <1>4, <1>5, <1>6, <1>7 DEF Rest

(* r has the lists, nameservers and requests of s. *)
SameNet(s, r) ==
    /\ r.servers = s.servers /\ r.good = s.good /\ r.ns = s.ns /\ r.req = s.req
    /\ r.inflight = s.inflight /\ r.ninflight = s.ninflight
    /\ r.waiting = s.waiting /\ r.nwaiting = s.nwaiting

(* Core does not depend on the rest. *)
LEMMA CoreOther ==
  ASSUME NEW s, NEW X, Core(s, X), NEW r, r \in Bases, SameNet(s, r)
  PROVE  Core(r, X) /\ Sv(r) = Sv(s) /\ In(r) = In(s) /\ Wa(r) = Wa(s)
  <1>1. Sv(r) = Sv(s) /\ In(r) = In(s) /\ Wa(r) = Wa(s)
    BY DEF SameNet, Sv, In, Wa
  <1>2. Lists(r) /\ Ups(r) /\ Placed(r) /\ Loads(r) /\ Awaited(r)
    BY <1>1 DEF SameNet, Core, Lists, Ups, Placed, Loads, Awaited
  <1>3. \A h \in In(r) \ X : Moves(r, h)
    BY <1>1 DEF SameNet, Core, Moves
  <1> QED
    BY <1>1, <1>2, <1>3 DEF Core

(* r is s with the callback of h scheduled. *)
Scheduled(s, r, h, err, X) ==
    /\ Core(r, X) /\ SameNet(s, r)
    /\ r.handle = [s.handle EXCEPT ![h] = "pending"]
    /\ r.deferred = Append(s.deferred, [handle |-> h, err |-> err])
    /\ r.names = s.names /\ r.suspended = s.suspended /\ r.alive = s.alive

(* reply_schedule_callback does so. *)
LEMMA ScheduleIs ==
  ASSUME NEW s, NEW X, Core(s, X), NEW h \in Handle, NEW err \in Err
  PROVE  Scheduled(s, reply_schedule_callback(s, h, err), h, err, X)
  <1> DEFINE H == [s.handle EXCEPT ![h] = "pending"]
             d == Append(s.deferred, [handle |-> h, err |-> err])
             r == reply_schedule_callback(s, h, err)
  <1>1. /\ s \in Bases /\ s.handle \in [Handle -> {"new", "live", "pending", "done"}]
        /\ s.deferred \in Seq([handle : Handle, err : Err])
    BY DEF Core, Bases
  <1>2. r = [s EXCEPT !.handle = H, !.deferred = d]
    BY <1>1 DEF reply_schedule_callback, Bases
  <1>3. H \in [Handle -> {"new", "live", "pending", "done"}]
    BY <1>1
  <1>4. d \in Seq([handle : Handle, err : Err])
    <2> DEFINE e == [handle |-> h, err |-> err]
    <2>1. e \in [handle : Handle, err : Err]
      OBVIOUS
    <2> HIDE DEF e
    <2> QED
      BY <1>1, <2>1, AppendProperties DEF e
  <1> SUFFICES Scheduled(s, r, h, err, X)
    OBVIOUS
  <1> HIDE DEF H, d, r
  <1>5. /\ r \in Bases /\ SameNet(s, r) /\ r.handle = H /\ r.deferred = d
        /\ r.names = s.names /\ r.suspended = s.suspended /\ r.alive = s.alive
    BY <1>1, <1>2, <1>3, <1>4 DEF Bases, SameNet
  <1>6. Core(r, X)
    BY <1>5, CoreOther
  <1> QED
    BY <1>5, <1>6 DEF Scheduled, H, d

(* The handle of a request is pending while the request is ended. *)
LEMMA RestSchedule ==
  ASSUME NEW s, NEW X, Core(s, X), NEW Y, NEW Z, Rest(s, Y, Z), NEW h \in Handle,
         s.handle[h] = "live", NEW err \in Err, NEW r, Scheduled(s, r, h, err, X),
         NEW W, Z \subseteq W, err = "cancel" => h \in W \cup Users
  PROVE  Rest(r, Y \cup {h}, W)
  <1>1. /\ s \in Bases /\ r \in Bases
        /\ s.handle \in [Handle -> {"new", "live", "pending", "done"}]
        /\ s.deferred \in Seq([handle : Handle, err : Err])
    BY DEF Core, Bases, Scheduled
  <1> DEFINE N == Len(s.deferred)
             e == [handle |-> h, err |-> err]
  <1>2. /\ N \in Nat /\ DOMAIN s.deferred = 1 .. N /\ DOMAIN r.deferred = 1 .. N + 1
        /\ \A i \in 1 .. N : r.deferred[i] = s.deferred[i]
        /\ r.deferred[N + 1] = e
    <2> DEFINE T == [handle : Handle, err : Err]
    <2>1. e \in T /\ s.deferred \in Seq(T)
      BY <1>1
    <2>2. r.deferred = Append(s.deferred, e)
      BY DEF Scheduled
    <2>3. N \in Nat /\ DOMAIN s.deferred = 1 .. N
      BY <2>1, Places
    <2> HIDE DEF T, e
    <2>4. /\ Append(s.deferred, e) \in Seq(T) /\ Len(Append(s.deferred, e)) = N + 1
          /\ \A i \in 1 .. N : Append(s.deferred, e)[i] = s.deferred[i]
          /\ Append(s.deferred, e)[N + 1] = e
      BY <2>1, AppendProperties
    <2>5. DOMAIN r.deferred = 1 .. N + 1
      BY <2>2, <2>4, Places
    <2> QED
      BY <2>2, <2>3, <2>4, <2>5
  <1> HIDE DEF N, e
  <1>3. e.handle = h /\ e.err = err
    BY DEF e
  <1>4. /\ \A g \in Handle : r.handle[g] = IF g = h THEN "pending" ELSE s.handle[g]
        /\ r.names = s.names /\ r.suspended = s.suspended /\ r.alive = s.alive
        /\ r.ns = s.ns /\ r.servers = s.servers /\ r.inflight = s.inflight
        /\ r.waiting = s.waiting
    BY <1>1 DEF Scheduled, SameNet
  <1>5. Sv(r) = Sv(s) /\ In(r) = In(s) /\ Wa(r) = Wa(s)
    BY <1>4 DEF Sv, In, Wa
  <1>6. Handles(s, Y) /\ Probing(s, Z) /\ Emptied(s) /\ (RoomToSearch => Served(s))
    BY DEF Rest
  <1>7. \A i \in 1 .. N : s.deferred[i].handle # h
    BY <1>2, <1>6 DEF Handles
  <1>8. Handles(r, Y \cup {h})
    <2>1. \A g \in Handle \ (Y \cup {h}) : r.handle[g] = "live" <=> g \in In(r) \cup Wa(r)
      BY <1>4, <1>5, <1>6 DEF Handles
    <2>2. ASSUME NEW g \in Handle
          PROVE  r.handle[g] = "pending" <=> \E i \in DOMAIN r.deferred : r.deferred[i].handle = g
      <3>1. CASE g = h
        <4>1. N + 1 \in DOMAIN r.deferred /\ r.deferred[N + 1].handle = h
          BY <1>2, <1>3
        <4> QED
          BY <1>4, <3>1, <4>1
      <3>2. CASE g # h
        <4>1. s.handle[g] = "pending" <=> \E i \in 1 .. N : s.deferred[i].handle = g
          BY <1>2, <1>6 DEF Handles
        <4>2. \A i \in 1 .. N : i \in 1 .. N + 1
          BY <1>2
        <4>3. \A i \in 1 .. N + 1 : i \notin 1 .. N => i = N + 1
          BY <1>2
        <4>4. (\E i \in DOMAIN r.deferred : r.deferred[i].handle = g)
                <=> \E i \in 1 .. N : s.deferred[i].handle = g
          BY <1>2, <1>3, <3>2, <4>2, <4>3
        <4> QED
          BY <1>4, <3>2, <4>1, <4>4
      <3> QED
        BY <3>1, <3>2
    <2>3. ASSUME NEW i \in DOMAIN r.deferred, NEW j \in DOMAIN r.deferred,
                 r.deferred[i].handle = r.deferred[j].handle
          PROVE  i = j
      <3>1. \A k \in 1 .. N + 1 : k \notin 1 .. N => k = N + 1
        BY <1>2
      <3>2. CASE i \in 1 .. N /\ j \in 1 .. N
        BY <1>2, <1>6, <2>3, <3>2 DEF Handles
      <3>3. CASE i \notin 1 .. N \/ j \notin 1 .. N
        BY <1>2, <1>3, <1>7, <2>3, <3>1, <3>3
      <3> QED
        BY <3>2, <3>3
    <2>4. \A n \in Nameserver : r.handle[n] # "done"
      BY <1>4, <1>6, Blank DEF Handles
    <2>5. \A g \in Handle : r.names[g] > 0 => set.names > 0
      BY <1>4, <1>6 DEF Handles
    <2> QED
      BY <2>1, <2>2, <2>3, <2>4, <2>5 DEF Handles
  <1>9. Probing(r, W)
    <2>1. \A n \in Nameserver : r.handle[n] # "new" <=> s.handle[n] # "new"
      BY <1>4, Blank
    <2>2. \A n \in Nameserver : r.handle[n] # "new" => n \in Sv(r)
      BY <1>5, <1>6, <2>1 DEF Probing
    <2>3. \A n \in Nameserver \ W :
            /\ n \in Sv(r) /\ ~r.ns[n].state => r.ns[n].timer \/ r.handle[n] # "new"
            /\ r.ns[n].probe => r.handle[n] # "new"
      BY <1>4, <1>5, <1>6, <2>1 DEF Probing
    <2>4. ASSUME NEW i \in DOMAIN r.deferred, r.deferred[i].handle \in Nameserver \ W,
                 r.deferred[i].err = "cancel"
          PROVE  /\ ~r.ns[r.deferred[i].handle].probe
                 /\ r.ns[r.deferred[i].handle].state \/ r.ns[r.deferred[i].handle].timer
      <3>1. i \in 1 .. N
        <4>1. i # N + 1
          BY <1>2, <1>3, <2>4, Blank
        <4> QED
          BY <1>2, <4>1
      <3>2. r.deferred[i] = s.deferred[i] /\ i \in DOMAIN s.deferred
        BY <1>2, <3>1
      <3> QED
        BY <1>4, <1>6, <2>4, <3>2 DEF Probing
    <2> QED
      BY <2>2, <2>3, <2>4 DEF Probing
  <1>10. Emptied(r) /\ (RoomToSearch => Served(r))
    BY <1>4, <1>6 DEF Emptied, Served
  <1> QED
    BY <1>8, <1>9, <1>10 DEF Rest

(* More exceptions. *)
LEMMA RestWeaker ==
  ASSUME NEW s, NEW Y, NEW Z, Rest(s, Y, Z), NEW V, NEW W, Y \subseteq V, Z \subseteq W
  PROVE  Rest(s, V, W)
  <1>1. Handles(s, V)
    BY DEF Rest, Handles
  <1>2. Probing(s, W)
    BY DEF Rest, Probing
  <1> QED
    BY <1>1, <1>2 DEF Rest

(* What is left when the request h has ended and its callback is scheduled. *)
Ended(s, r, h, X, Y, W) ==
    /\ Core(r, X \ {h}) /\ Rest(r, Y \ {h}, W)
    /\ r.names = s.names /\ r.suspended = s.suspended /\ r.alive = s.alive
    /\ Sv(r) = Sv(s) /\ In(s) \ {h} \subseteq In(r) /\ Cools(s, r)
    /\ \A g \in Handle \ {h} : r.handle[g] = s.handle[g]

(* The callback of a live handle is scheduled and its request ended. *)
LEMMA EndKeeps ==
  ASSUME NEW s, NEW X, Core(s, X), NEW Y, NEW Z, Rest(s, Y, Z), NEW h \in In(s) \cup Wa(s),
         s.handle[h] = "live", NEW err \in Err, NEW W, Z \subseteq W,
         err = "cancel" => h \in W \cup Users, NEW net \in Net, set \in Settings
  PROVE  Ended(s, request_finished(reply_schedule_callback(s, h, err), h, TRUE, net), h, X, Y, W)
  <1> DEFINE t == reply_schedule_callback(s, h, err)
             r == request_finished(t, h, TRUE, net)
  <1>1. h \in Handle /\ s \in Bases
    BY ListsOver DEF Core
  <1>2. Scheduled(s, t, h, err, X)
    BY <1>1, ScheduleIs
  <1> HIDE DEF t
  <1>3. Rest(t, Y \cup {h}, W)
    BY <1>1, <1>2, RestSchedule
  <1>4. /\ Core(t, X) /\ Sv(t) = Sv(s) /\ In(t) = In(s) /\ Wa(t) = Wa(s) /\ t.ns = s.ns
        /\ t.names = s.names /\ t.suspended = s.suspended /\ t.alive = s.alive
        /\ t.handle = [s.handle EXCEPT ![h] = "pending"]
    BY <1>2 DEF Scheduled, SameNet, Sv, In, Wa
  <1>5. /\ t.handle[h] = "pending" /\ \A g \in Handle \ {h} : t.handle[g] = s.handle[g]
    BY <1>1, <1>4 DEF Bases
  <1>6. HandleAfter(t, h, TRUE) = t.handle[h]
    BY <1>5 DEF HandleAfter
  <1>7. Ends(t, r, h, t.handle[h], X) /\ NoneHeld(r)
    <2>1. h \in In(t) \cup Wa(t) /\ TRUE \in BOOLEAN
      BY <1>4
    <2>2. Core(t, X)
      BY <1>4
    <2>3. Ends(t, r, h, HandleAfter(t, h, TRUE), X) /\ NoneHeld(r)
      BY <2>1, <2>2, FinishedKeeps, Zenon
    <2> QED
      BY <1>6, <2>3
  <1> HIDE DEF r
  <1>8. Rest(r, Y \ {h}, W) /\ r.handle = t.handle
    <2> DEFINE V == Y \cup {h}
               U == Y \ {h}
    <2>1. Core(t, X) /\ Rest(t, V, W) /\ Leaves(t, r, h, X, V, U)
      BY <1>3, <1>4, <1>5, <1>7 DEF Leaves
    <2> HIDE DEF V, U
    <2>2. Rest(r, U, W) /\ r.handle = t.handle
      BY <1>1, <2>1, RestEnds
    <2> QED
      BY <2>2 DEF U
  <1>10. /\ Core(r, X \ {h}) /\ Sv(r) = Sv(t) /\ In(t) \ {h} \subseteq In(r) /\ Cools(t, r)
         /\ r.names = t.names /\ r.suspended = t.suspended /\ r.alive = t.alive
    BY <1>7 DEF Ends
  <1>11. Cools(s, r)
    BY <1>4, <1>10, Zenon DEF Cools
  <1> QED
    BY <1>4, <1>5, <1>8, <1>10, <1>11 DEF Ended, t, r

(* One nameserver changes, and is an exception, or is up or has its timer. *)
LEMMA RestServer ==
  ASSUME NEW s, NEW Y, NEW Z, Rest(s, Y, Z), NEW r, OnlyNet(s, r), NEW n \in Nameserver,
         \A m \in Nameserver \ {n} : AsUp(r.ns[m], s.ns[m])
  PROVE  /\ Rest(r, Y, Z \cup {n})
         /\ ~r.ns[n].probe /\ (r.ns[n].state \/ r.ns[n].timer) => Rest(r, Y, Z \ {n})
  <1>1. Handles(s, Y) /\ Probing(s, Z) /\ Emptied(s) /\ (RoomToSearch => Served(s))
    BY DEF Rest
  <1>2. Sv(r) = Sv(s) /\ In(r) = In(s) /\ Wa(r) = Wa(s)
    BY DEF OnlyNet, Sv, In, Wa
  <1>3. Handles(r, Y)
    BY <1>1, <1>2 DEF OnlyNet, Handles
  <1>4. Emptied(r) /\ (RoomToSearch => Served(r))
    BY <1>1 DEF OnlyNet, Emptied, Served
  <1>5. \A m \in Nameserver : r.handle[m] # "new" => m \in Sv(r)
    BY <1>1, <1>2 DEF OnlyNet, Probing
  <1>6. \A m \in Nameserver \ (Z \cup {n}) :
          /\ m \in Sv(r) /\ ~r.ns[m].state => r.ns[m].timer \/ r.handle[m] # "new"
          /\ r.ns[m].probe => r.handle[m] # "new"
    BY <1>1, <1>2 DEF OnlyNet, Probing, AsUp
  <1>7. \A i \in DOMAIN r.deferred :
          r.deferred[i].handle \in Nameserver \ (Z \cup {n}) /\ r.deferred[i].err = "cancel" =>
            /\ ~r.ns[r.deferred[i].handle].probe
            /\ r.ns[r.deferred[i].handle].state \/ r.ns[r.deferred[i].handle].timer
    BY <1>1 DEF OnlyNet, Probing, AsUp
  <1>8. Probing(r, Z \cup {n})
    BY <1>5, <1>6, <1>7 DEF Probing
  <1>9. ASSUME ~r.ns[n].probe, r.ns[n].state \/ r.ns[n].timer PROVE Probing(r, Z \ {n})
    <2>1. \A m \in Nameserver \ (Z \ {n}) :
            /\ m \in Sv(r) /\ ~r.ns[m].state => r.ns[m].timer \/ r.handle[m] # "new"
            /\ r.ns[m].probe => r.handle[m] # "new"
      BY <1>6, <1>9
    <2>2. \A i \in DOMAIN r.deferred :
            r.deferred[i].handle \in Nameserver \ (Z \ {n}) /\ r.deferred[i].err = "cancel" =>
              /\ ~r.ns[r.deferred[i].handle].probe
              /\ r.ns[r.deferred[i].handle].state \/ r.ns[r.deferred[i].handle].timer
      BY <1>7, <1>9
    <2> QED
      BY <1>5, <2>1, <2>2 DEF Probing
  <1> QED
    BY <1>3, <1>4, <1>8, <1>9 DEF Rest

(* A nameserver comes up. *)
Raised(c, n) == [c EXCEPT !.ns[n].probe = FALSE, !.ns[n].state = TRUE,
                          !.ns[n].timedout = 0, !.good = @ + 1]

(* It is one more that is up. *)
LEMMA RaiseKeeps ==
  ASSUME NEW c, NEW X, Core(c, X), NEW n \in Sv(c), ~c.ns[n].state
  PROVE  /\ Core(Raised(c, n), X) /\ OnlyNet(c, Raised(c, n))
         /\ ~Raised(c, n).ns[n].probe /\ Raised(c, n).ns[n].state
         /\ \A m \in Nameserver \ {n} : Raised(c, n).ns[m] = c.ns[m]
  <1> DEFINE r == Raised(c, n)
             ns1 == [c.ns EXCEPT ![n].probe = FALSE]
             ns2 == [ns1 EXCEPT ![n].state = TRUE]
             ns3 == [ns2 EXCEPT ![n].timedout = 0]
             good2 == c.good + 1
  <1>0. SUFFICES /\ Core(r, X) /\ OnlyNet(c, r) /\ ~r.ns[n].probe /\ r.ns[n].state
                 /\ \A m \in Nameserver \ {n} : r.ns[m] = c.ns[m]
    OBVIOUS
  <1>1. c \in Bases /\ n \in Nameserver /\ c.ns \in [Nameserver -> Server]
        /\ c.req \in [Handle -> Request] /\ c.good \in Int
    BY ListsOver DEF Core, Bases
  <1>2. r = [c EXCEPT !.ns = ns3, !.good = good2]
    BY <1>1 DEF Raised, Bases
  <1>3. ns1 \in [Nameserver -> Server]
        /\ (\A m \in Nameserver : m # n => ns1[m] = c.ns[m])
        /\ ns1[n].choked = c.ns[n].choked /\ ns1[n].write_waiting = c.ns[n].write_waiting
        /\ ns1[n].inflight = c.ns[n].inflight /\ ~ns1[n].probe
    BY <1>1 DEF Server
  <1> HIDE DEF ns1
  <1>4. ns2 \in [Nameserver -> Server]
        /\ (\A m \in Nameserver : m # n => ns2[m] = ns1[m])
        /\ ns2[n].choked = ns1[n].choked /\ ns2[n].write_waiting = ns1[n].write_waiting
        /\ ns2[n].inflight = ns1[n].inflight /\ ns2[n].probe = ns1[n].probe /\ ns2[n].state
    BY <1>1, <1>3 DEF Server
  <1> HIDE DEF ns2
  <1>5. ns3 \in [Nameserver -> Server]
        /\ (\A m \in Nameserver : m # n => ns3[m] = ns2[m])
        /\ ns3[n].choked = ns2[n].choked /\ ns3[n].write_waiting = ns2[n].write_waiting
        /\ ns3[n].inflight = ns2[n].inflight /\ ns3[n].probe = ns2[n].probe
        /\ ns3[n].state = ns2[n].state
    BY <1>1, <1>4 DEF Server
  <1>a. good2 \in Int
    BY <1>1
  <1>b. r.good = c.good + 1
    BY <1>1, <1>2 DEF Bases
  <1> HIDE DEF ns3, r, good2
  <1>6. r \in Bases /\ OnlyNet(c, r) /\ r.ns = ns3 /\ r.req = c.req
    BY <1>1, <1>2, <1>5, <1>a DEF Bases, OnlyNet
  <1>7. /\ \A m \in Nameserver : m # n => r.ns[m] = c.ns[m]
        /\ r.ns[n].choked = c.ns[n].choked /\ r.ns[n].write_waiting = c.ns[n].write_waiting
        /\ r.ns[n].inflight = c.ns[n].inflight /\ ~r.ns[n].probe /\ r.ns[n].state
    BY <1>3, <1>4, <1>5, <1>6, Zenon
  <1>8. Sv(r) = Sv(c) /\ In(r) = In(c) /\ Wa(r) = Wa(c) /\ Lists(r)
    BY <1>1, <1>6, OnlyNetKeeps DEF Core
  <1>9. Ups(r)
    <2>1. UpIn(r.servers, r.ns) = UpIn(c.servers, c.ns) \cup {n}
      BY <1>1, <1>6, <1>7, ListsOver DEF UpIn, OnlyNet, Sv
    <2>2. n \notin UpIn(c.servers, c.ns) /\ IsFiniteSet(UpIn(c.servers, c.ns))
      BY <1>1, CountedFinite DEF UpIn
    <2>3. Cardinality(UpIn(r.servers, r.ns)) = Cardinality(UpIn(c.servers, c.ns)) + 1
      BY <2>1, <2>2, FS_AddElement
    <2>4. \A m \in Nameserver \ Sv(r) : r.ns[m] = NewServer
      BY <1>7, <1>8 DEF Core, Ups
    <2> QED
      BY <1>6, <1>b, <2>3, <2>4 DEF Core, Ups, OnlyNet
  <1>10. Placed(r)
    BY <1>6, <1>8 DEF Core, Placed
  <1>11. Loads(r)
    BY <1>6, <1>7 DEF Core, Loads, OnlyNet
  <1>12. Awaited(r)
    BY <1>1, <1>7 DEF Core, Awaited
  <1>13. \A h \in In(r) \ X : Moves(r, h)
    BY <1>1, <1>6, <1>7, <1>8, ListsOver DEF Core, Moves
  <1> QED
    BY <1>6, <1>7, <1>8, <1>9, <1>10, <1>11, <1>12, <1>13 DEF Core

(* What is left when the nameserver n is up. *)
IsUp(s, r, n, X, Y, Z) ==
    /\ Core(r, X) /\ Rest(r, Y, Z) /\ Sv(r) = Sv(s)
    /\ r.names = s.names /\ r.suspended = s.suspended /\ r.alive = s.alive
    /\ \A h \in Handle : h # n \/ ~s.ns[n].probe =>
         r.handle[h] = s.handle[h] /\ (h \in In(s) => h \in In(r))

(* nameserver_up, which cancels the probe of the nameserver if there is one. *)
LEMMA UpKeeps ==
  ASSUME NEW s, NEW X, Core(s, X), NEW Y, NEW Z, Rest(s, Y, Z), NEW n \in Sv(s),
         s.ns[n].probe => n \notin Y, n \notin Z, NEW net \in Net, set \in Settings
  PROVE  IsUp(s, nameserver_up(s, n, net), n, X, Y, Z)
  <1> DEFINE y == [s.ns[n] EXCEPT !.timer = FALSE]
             off == [s EXCEPT !.ns[n] = y]
             c == IF s.ns[n].probe THEN evdns_cancel_request(off, n, net) ELSE off
             r == nameserver_up(s, n, net)
             W == Z \cup {n}
  <1>1. s \in Bases /\ n \in Nameserver /\ s.ns \in [Nameserver -> Server] /\ s.ns[n] \in Server
        /\ n \in Handle
    BY ListsOver, Blank DEF Core, Bases
  <1>2. CASE s.ns[n].state
    <2>1. r = s
      BY <1>2 DEF nameserver_up
    <2> QED
      BY <2>1 DEF IsUp
  <1>3. CASE ~s.ns[n].state
    <2>1. [s EXCEPT !.ns[n].timer = FALSE] = off
      BY <1>1 DEF Bases
    <2>2. r = Raised(c, n)
      BY <1>3, <2>1 DEF nameserver_up, Raised
    <2>3. /\ y \in Server /\ y.state = s.ns[n].state /\ y.inflight = s.ns[n].inflight
          /\ y.choked = s.ns[n].choked /\ y.write_waiting = s.ns[n].write_waiting
          /\ y.probe = s.ns[n].probe
      BY <1>1 DEF Server
    <2> HIDE DEF y
    <2>4. ServerMay(s, X, n, y)
      BY <1>1, <2>3 DEF ServerMay, Core, Awaited
    <2>5. /\ Core(off, X) /\ OnlyNet(s, off) /\ off.ns = [s.ns EXCEPT ![n] = y]
      BY <1>1, <2>3, <2>4, ServerChange
    <2> HIDE DEF off
    <2>6. /\ \A m \in Nameserver \ {n} : off.ns[m] = s.ns[m]
          /\ off.ns[n] = y
      BY <1>1, <2>5
    <2>7. Rest(off, Y, W)
      <3>1. \A m \in Nameserver \ {n} : AsUp(off.ns[m], s.ns[m])
        BY <2>6 DEF AsUp
      <3> QED
        BY <1>1, <2>5, <3>1, RestServer
    <2>8. /\ Sv(off) = Sv(s) /\ In(off) = In(s) /\ Wa(off) = Wa(s) /\ off.names = s.names
          /\ off.suspended = s.suspended /\ off.alive = s.alive /\ off.handle = s.handle
      BY <2>5 DEF OnlyNet, Sv, In, Wa
    <2>9. /\ Core(c, X) /\ Rest(c, Y, W) /\ Sv(c) = Sv(s) /\ ~c.ns[n].state
          /\ c.names = s.names /\ c.suspended = s.suspended /\ c.alive = s.alive
          /\ \A h \in Handle : h # n \/ ~s.ns[n].probe =>
               c.handle[h] = s.handle[h] /\ (h \in In(s) => h \in In(c))
      <3>1. CASE s.ns[n].probe /\ s.handle[n] = "live"
        <4> DEFINE e == request_finished(reply_schedule_callback(off, n, "cancel"), n, TRUE, net)
        <4>1. c = e
          BY <2>8, <3>1 DEF evdns_cancel_request
        <4>2. n \in In(off) \cup Wa(off)
          BY <1>1, <2>8, <3>1 DEF Rest, Handles
        <4>3. "cancel" \in Err /\ n \in W \cup Users /\ W \subseteq W /\ off.handle[n] = "live"
          BY <2>8, <3>1 DEF Err
        <4>4. Ended(off, e, n, X, Y, W)
          BY <2>5, <2>7, <4>2, <4>3, EndKeeps
        <4> HIDE DEF c, e
        <4>5. /\ Core(e, X \ {n}) /\ Rest(e, Y \ {n}, W) /\ Sv(e) = Sv(off) /\ Cools(off, e)
              /\ e.names = off.names /\ e.suspended = off.suspended /\ e.alive = off.alive
              /\ In(off) \ {n} \subseteq In(e)
              /\ \A g \in Handle \ {n} : e.handle[g] = off.handle[g]
          BY <4>4 DEF Ended
        <4>6. Core(e, X) /\ Rest(e, Y, W)
          BY <4>5, CoreWeaker, RestWeaker
        <4>7. ~e.ns[n].state
          BY <1>1, <1>3, <2>3, <2>6, <4>5 DEF Cools
        <4> QED
          BY <2>8, <3>1, <4>1, <4>5, <4>6, <4>7
      <3>2. CASE ~(s.ns[n].probe /\ s.handle[n] = "live")
        <4>1. c = off
          BY <2>8, <3>2 DEF evdns_cancel_request
        <4> HIDE DEF c
        <4> QED
          BY <1>3, <2>3, <2>5, <2>6, <2>7, <2>8, <4>1
      <3> QED
        BY <3>1, <3>2
    <2> HIDE DEF c
    <2>10. /\ Core(Raised(c, n), X) /\ OnlyNet(c, Raised(c, n))
           /\ ~Raised(c, n).ns[n].probe /\ Raised(c, n).ns[n].state
           /\ \A m \in Nameserver \ {n} : Raised(c, n).ns[m] = c.ns[m]
      BY <2>9, RaiseKeeps
    <2> HIDE DEF r
    <2>11. Rest(r, Y, W \ {n})
      <3>1. \A m \in Nameserver \ {n} : AsUp(r.ns[m], c.ns[m])
        BY <2>2, <2>10 DEF AsUp
      <3>2. Rest(c, Y, W) /\ OnlyNet(c, r) /\ ~r.ns[n].probe /\ r.ns[n].state
        BY <2>2, <2>9, <2>10
      <3> HIDE DEF W
      <3> QED
        BY <1>1, <3>1, <3>2, RestServer
    <2>12. Rest(r, Y, Z)
      BY <2>11, RestWeaker
    <2>13. Sv(r) = Sv(c) /\ In(r) = In(c) /\ r.handle = c.handle /\ r.names = c.names
           /\ r.suspended = c.suspended /\ r.alive = c.alive
      BY <2>2, <2>10 DEF OnlyNet, Sv, In
    <2> QED
      BY <2>2, <2>9, <2>10, <2>12, <2>13 DEF IsUp, r
  <1> QED
    BY <1>2, <1>3

-----------------------------------------------------------------------------
(* A request begins *)

(* t is f with a new request for h, in no list yet, for the nameserver n or for none. *)
Fresh(f, t, h, n) ==
    /\ t \in Bases /\ h \in Handle /\ h \notin In(f) \cup Wa(f) /\ n \in Sv(f) \cup {Null}
    /\ t.servers = f.servers /\ t.good = f.good /\ t.ns = f.ns
    /\ t.inflight = f.inflight /\ t.ninflight = f.ninflight
    /\ t.waiting = f.waiting /\ t.nwaiting = f.nwaiting
    /\ t.req = [f.req EXCEPT ![h] = [NewRequest EXCEPT !.ns = n]]

(* r has it in flight, or waiting if there is no nameserver for it. *)
Submitted(f, t, r, h, n, X) ==
    /\ Core(r, X)
    /\ r.handle = t.handle /\ r.names = t.names /\ r.deferred = t.deferred
    /\ r.suspended = t.suspended /\ r.alive = t.alive
    /\ Sv(r) = Sv(f) /\ In(r) \cup Wa(r) = In(f) \cup Wa(f) \cup {h} /\ In(f) \subseteq In(r)
    /\ Cools(f, r)
    /\ n # Null => r.inflight # <<>>

(* request_submit does so. *)
LEMMA SubmitKeeps ==
  ASSUME NEW f, NEW X, Core(f, X), NEW t, NEW h, NEW n, Fresh(f, t, h, n), NEW net \in Net
  PROVE  Submitted(f, t, request_submit(t, h, net), h, n, X)
  <1> DEFINE x == [NewRequest EXCEPT !.ns = n]
             r == request_submit(t, h, net)
  <1>1. /\ f \in Bases /\ t \in Bases /\ h \in Handle /\ h \notin In(f) /\ h \notin Wa(f)
        /\ t.req \in [Handle -> Request] /\ f.req \in [Handle -> Request]
        /\ t.ns \in [Nameserver -> Server]
        /\ t.inflight \in Seq(Handle) /\ t.waiting \in Seq(Handle)
        /\ t.ninflight \in Int /\ t.nwaiting \in Int
        /\ n \in Nameserver \cup {Null}
    BY ListsOver DEF Core, Bases, Fresh
  <1>2. x \in Request /\ x.ns = n
    BY <1>1, Blank DEF NewRequest, Request
  <1>3. t.req[h] = x /\ t.req = [f.req EXCEPT ![h] = x]
    BY <1>1 DEF Fresh
  <1> HIDE DEF x
  <1>4. Sv(t) = Sv(f) /\ In(t) = In(f) /\ Wa(t) = Wa(f)
    BY DEF Fresh, Sv, In, Wa
  <1>5. CASE n = Null
    <2> DEFINE w == Append(t.waiting, h)
               j == t.nwaiting + 1
    <2>1. r = [t EXCEPT !.waiting = w, !.nwaiting = j]
      BY <1>1, <1>2, <1>3, <1>5 DEF request_submit, Bases
    <2>2. /\ w \in Seq(Handle) /\ Len(w) = Len(t.waiting) + 1 /\ ToSet(w) = Wa(t) \cup {h}
          /\ j \in Int /\ IsInjective(w)
      BY <1>1, <1>4, AppendKeeps DEF Core, Lists, Wa, Fresh
    <2>3. SUFFICES Submitted(f, t, r, h, n, X)
      OBVIOUS
    <2>4. j = Len(w)
      BY <1>1, <2>2 DEF Core, Lists, Fresh
    <2> HIDE DEF r, w, j
    <2>5. /\ r \in Bases /\ r.servers = t.servers /\ r.good = t.good /\ r.ns = t.ns
          /\ r.inflight = t.inflight /\ r.ninflight = t.ninflight /\ r.req = t.req
          /\ r.waiting = w /\ r.nwaiting = j /\ r.names = t.names /\ r.handle = t.handle
          /\ r.deferred = t.deferred /\ r.suspended = t.suspended /\ r.alive = t.alive
      BY <1>1, <2>1, <2>2 DEF Bases
    <2>6. x = NewRequest /\ f.req[h] = NewRequest
      <3>1. x = NewRequest
        <4>1. [NewRequest EXCEPT !.ns = NewRequest.ns] = NewRequest
          BY Zenon DEF NewRequest
        <4> QED
          BY <1>5, <4>1, Blank DEF x
      <3>2. f.req[h] = NewRequest
        BY <1>1 DEF Core, Placed
      <3> QED
        BY <3>1, <3>2
    <2>7. t.req = f.req
      BY <1>1, <1>3, <2>6
    <2>8. Sv(r) = Sv(f) /\ In(r) = In(f) /\ Wa(r) = Wa(f) \cup {h}
      BY <1>4, <2>2, <2>5 DEF Sv, In, Wa
    <2>9. Lists(r)
      BY <1>1, <2>2, <2>4, <2>5, <2>8 DEF Core, Lists, Fresh
    <2>10. Ups(r) /\ Placed(r) /\ Loads(r) /\ Awaited(r)
      BY <2>5, <2>7, <2>8 DEF Core, Ups, Placed, Loads, Awaited, Fresh
    <2>11. \A g \in In(r) \ X : Moves(r, g)
      BY <2>5, <2>7, <2>8 DEF Core, Moves, Fresh
    <2>12. Cools(f, r)
      <3>1. r.ns = f.ns
        BY <2>5 DEF Fresh
      <3> QED
        BY <3>1 DEF Cools
    <2> QED
      BY <1>5, <2>5, <2>8, <2>9, <2>10, <2>11, <2>12 DEF Submitted, Core
  <1>6. CASE n # Null
    <2> DEFINE q == Append(t.inflight, h)
               i == t.ninflight + 1
               ns2 == [t.ns EXCEPT ![n].inflight = @ + 1]
               m == [t EXCEPT !.inflight = q, !.ninflight = i, !.ns = ns2]
    <2>1. n \in Nameserver /\ n \in Sv(f)
      BY <1>1, <1>6 DEF Fresh
    <2>2. r = evdns_request_transmit(m, h, net)
      BY <1>1, <1>2, <1>3, <1>6 DEF request_submit, Bases
    <2>3. ns2 \in [Nameserver -> Server]
          /\ \A k \in Nameserver : AsUp(ns2[k], t.ns[k])
      <3>1. t.ns \in [Nameserver -> Server] /\ n \in Nameserver
        BY <1>1, <2>1
      <3> QED
        BY <3>1 DEF Server, AsUp
    <2>4. q \in Seq(Handle) /\ i \in Int
      BY <1>1, AppendKeeps
    <2>5. SUFFICES Submitted(f, t, r, h, n, X)
      OBVIOUS
    <2> HIDE DEF r, q, i, ns2
    <2>6. /\ m \in Bases /\ m.servers = t.servers /\ m.good = t.good /\ m.inflight = q
          /\ m.ninflight = i /\ m.waiting = t.waiting /\ m.nwaiting = t.nwaiting
          /\ m.req = t.req /\ m.ns = ns2
          /\ m.names = t.names /\ m.handle = t.handle /\ m.deferred = t.deferred
          /\ m.suspended = t.suspended /\ m.alive = t.alive
      BY <1>1, <2>3, <2>4 DEF Bases
    <2> HIDE DEF m
    <2>7. Entered(f, m, h, n, x)
      <3>1. Wa(m) = Wa(f)
        BY <2>6 DEF Wa, Fresh
      <3>2. (In(f) \cup {h}) \cap Wa(m) = {}
        BY <1>1, <3>1 DEF Core, Lists
      <3>3. m.nwaiting = Len(m.waiting) /\ IsInjective(m.waiting)
        BY <2>6 DEF Core, Lists, Fresh
      <3> QED
        BY <1>1, <1>2, <1>3, <2>1, <2>6, <3>2, <3>3 DEF Entered, Fresh, q, i, ns2
    <2>8. Core(m, X \cup {h}) /\ In(m) = In(f) \cup {h} /\ Sv(m) = Sv(f)
      <3>1. OneMore(f, m, h, X)
        BY <2>7, EnterKeeps
      <3> QED
        BY <3>1 DEF OneMore
    <2>9. h \in In(m)
      BY <2>8
    <2>10. KeepsLists(m, r, (X \cup {h}) \ {h})
      BY <2>2, <2>8, <2>9, TransmitKeeps
    <2>11. Core(r, X)
      BY <2>10, CoreWeaker DEF KeepsLists, Keeps
    <2>12. /\ Frame(m, r) /\ r.inflight = m.inflight /\ r.waiting = m.waiting
      BY <2>10 DEF KeepsLists, Keeps
    <2>13. /\ r.handle = m.handle /\ r.names = m.names /\ r.deferred = m.deferred
           /\ r.suspended = m.suspended /\ r.alive = m.alive /\ Sv(r) = Sv(m) /\ Cools(m, r)
      BY <2>12, Zenon DEF Frame
    <2>14. In(r) = In(m) /\ Wa(r) = Wa(m) /\ Wa(m) = Wa(f)
      BY <2>6, <2>12 DEF In, Wa, Fresh
    <2>15. Cools(f, r)
      <3>1. \A k \in Nameserver : AsUp(m.ns[k], f.ns[k])
        BY <2>3, <2>6 DEF Fresh
      <3> QED
        BY <2>13, <3>1, Zenon DEF Cools, AsUp
    <2>16. r.inflight # <<>>
      <3>1. r \in Bases /\ In(r) # {}
        BY <2>8, <2>11, <2>14 DEF Core
      <3> QED
        BY <3>1, ListsOver
    <2> QED
      BY <2>6, <2>8, <2>11, <2>13, <2>14, <2>15, <2>16 DEF Submitted
  <1> QED
    BY <1>5, <1>6

(* What a beginning request leaves of the rest: its handle is live now. *)
LEMMA RestSubmit ==
  ASSUME NEW f, NEW X, Core(f, X), NEW Y, NEW Z, Rest(f, Y, Z), NEW t, NEW h, NEW n,
         Fresh(f, t, h, n), NEW r, Submitted(f, t, r, h, n, X),
         f.handle[h] \in {"new", "live"}, t.handle = [f.handle EXCEPT ![h] = "live"],
         t.deferred = f.deferred, t.suspended = f.suspended, t.alive = f.alive, f.alive,
         \A g \in Handle : t.names[g] > 0 => set.names > 0, h \in Nameserver => h \in Sv(f),
         RoomToSearch /\ n = Null => f.suspended \/ f.inflight # <<>>
  PROVE  Rest(r, Y \ {h}, Z \ {h})
  <1>1. /\ f \in Bases /\ r \in Bases /\ t \in Bases /\ h \in Handle
        /\ f.handle \in [Handle -> {"new", "live", "pending", "done"}]
    BY DEF Core, Bases, Submitted, Fresh
  <1>2. Handles(f, Y) /\ Probing(f, Z) /\ Emptied(f) /\ (RoomToSearch => Served(f))
    BY DEF Rest
  <1>3. /\ r.deferred = f.deferred /\ r.suspended = f.suspended /\ r.alive = f.alive
        /\ r.names = t.names /\ Sv(r) = Sv(f) /\ Cools(f, r) /\ In(f) \subseteq In(r)
        /\ In(r) \cup Wa(r) = In(f) \cup Wa(f) \cup {h}
        /\ \A g \in Handle : r.handle[g] = IF g = h THEN "live" ELSE f.handle[g]
    BY <1>1 DEF Submitted
  <1>4. \A i \in DOMAIN f.deferred : f.deferred[i].handle # h
    BY <1>1, <1>2 DEF Handles
  <1>5. Handles(r, Y \ {h})
    <2>1. \A g \in Handle \ (Y \ {h}) : r.handle[g] = "live" <=> g \in In(r) \cup Wa(r)
      BY <1>2, <1>3 DEF Handles
    <2>2. \A g \in Handle : r.handle[g] = "pending" <=>
                               \E i \in DOMAIN r.deferred : r.deferred[i].handle = g
      BY <1>2, <1>3, <1>4 DEF Handles
    <2>3. \A k \in Nameserver : r.handle[k] # "done"
      BY <1>2, <1>3, Blank DEF Handles
    <2> QED
      BY <1>2, <1>3, <2>1, <2>2, <2>3 DEF Handles
  <1>6. Probing(r, Z \ {h})
    <2>1. \A k \in Nameserver : r.handle[k] # "new" => k \in Sv(r)
      BY <1>2, <1>3, Blank DEF Probing
    <2>2. ASSUME NEW k \in Nameserver \ (Z \ {h})
          PROVE  /\ k \in Sv(r) /\ ~r.ns[k].state => r.ns[k].timer \/ r.handle[k] # "new"
                 /\ r.ns[k].probe => r.handle[k] # "new"
      <3>1. CASE k = h
        BY <1>1, <1>3, <3>1
      <3>2. CASE k # h
        <4>1. k \in Nameserver \ Z /\ r.handle[k] = f.handle[k] /\ k \in Nameserver
          BY <1>3, <3>2, Blank
        <4>2. /\ k \in Sv(f) /\ ~f.ns[k].state => f.ns[k].timer \/ f.handle[k] # "new"
              /\ f.ns[k].probe => f.handle[k] # "new"
          BY <1>2, <4>1 DEF Probing
        <4> QED
          BY <1>3, <4>1, <4>2, Zenon DEF Cools
      <3> QED
        BY <3>1, <3>2
    <2>3. ASSUME NEW i \in DOMAIN r.deferred, r.deferred[i].handle \in Nameserver \ (Z \ {h}),
                 r.deferred[i].err = "cancel"
          PROVE  /\ ~r.ns[r.deferred[i].handle].probe
                 /\ r.ns[r.deferred[i].handle].state \/ r.ns[r.deferred[i].handle].timer
      <3> DEFINE k == r.deferred[i].handle
      <3>1. k # h /\ k \in Nameserver \ Z /\ k \in Nameserver
        BY <1>3, <1>4, <2>3
      <3>2. ~f.ns[k].probe /\ (f.ns[k].state \/ f.ns[k].timer)
        BY <1>2, <1>3, <2>3, <3>1 DEF Probing
      <3> HIDE DEF k
      <3>3. ~r.ns[k].probe /\ (r.ns[k].state \/ r.ns[k].timer)
        BY <1>3, <3>1, <3>2, Zenon DEF Cools
      <3> QED
        BY <3>3 DEF k
    <2> QED
      BY <2>1, <2>2, <2>3 DEF Probing
  <1>7. Emptied(r)
    BY <1>1, <1>2, <1>3, ListsOver DEF Emptied
  <1>8. ASSUME RoomToSearch PROVE Served(r)
    <2>1. CASE n = Null
      <3>1. f.inflight # <<>> => r.inflight # <<>>
        BY <1>1, <1>3, ListsOver
      <3> QED
        BY <1>3, <1>8, <2>1, <3>1 DEF Served
    <2>2. CASE n # Null
      BY <2>2 DEF Submitted, Served
    <2> QED
      BY <2>1, <2>2
  <1> QED
    BY <1>5, <1>6, <1>7, <1>8 DEF Rest

-----------------------------------------------------------------------------
(* Whole calls *)

(* What the network operators keep, they keep sound. *)
LEMMA SoundKeeps ==
  ASSUME NEW s, Sound(s), NEW r, Keeps(s, r, {})
  PROVE  Sound(r)
  <1>1. r \in Bases /\ Core(s, {}) /\ Rest(s, {}, {}) /\ Frame(s, r) /\ Core(r, {})
    BY DEF Sound, Keeps, Core
  <1>2. Rest(r, {}, {})
    BY <1>1, RestFrame
  <1> QED
    BY <1>1, <1>2 DEF Sound

(* A request in flight: its handle, its nameserver, and that the base is there. *)
LEMMA InFlight ==
  ASSUME NEW s, Sound(s), NEW h, h \in In(s)
  PROVE  /\ s \in Bases /\ h \in Handle /\ s.handle[h] = "live" /\ s.alive
         /\ s.req[h].ns \in Sv(s) /\ s.req[h].ns \in Nameserver /\ s.servers # <<>>
         /\ s.req[h] \in Request
         /\ h \in Nameserver => h \in Sv(s)
  <1>1. /\ s \in Bases /\ Placed(s) /\ Handles(s, {}) /\ Probing(s, {}) /\ Emptied(s)
    BY DEF Sound, Core, Rest
  <1>2. h \in Handle /\ s.inflight # <<>>
    BY <1>1, ListsOver
  <1>3. s.handle[h] = "live"
    BY <1>1, <1>2 DEF Handles
  <1>4. s.req[h].ns \in Sv(s)
    BY <1>1, <1>2 DEF Placed
  <1>5. s.alive
    BY <1>1, <1>2 DEF Emptied
  <1>6. s.req[h].ns \in Nameserver /\ s.servers # <<>>
    BY <1>1, <1>4, ListsOver
  <1>7. s.req[h] \in Request
    BY <1>1, <1>2 DEF Bases
  <1>8. h \in Nameserver => h \in Sv(s)
    BY <1>1, <1>3 DEF Probing
  <1> QED
    BY <1>1, <1>2, <1>3, <1>4, <1>5, <1>6, <1>7, <1>8

(* What Assign gives: no nameserver only when the limit is reached or there is none. *)
IsAssign(s, p, X) ==
    /\ p.ns \in Sv(s) \cup {Null}
    /\ Keeps(s, p.s, X) /\ p.s.inflight = s.inflight /\ p.s.waiting = s.waiting
    /\ p.s.req = s.req /\ p.s.ns = s.ns
    /\ p.ns = Null => Len(s.inflight) >= set.max \/ s.servers = <<>>

(* Assign gives that. *)
LEMMA AssignIs ==
  ASSUME NEW s, NEW X, Core(s, X), set \in Settings
  PROVE  IsAssign(s, Assign(s), X)
  <1>1. s \in Bases /\ s.ninflight = Len(s.inflight) /\ Len(s.inflight) \in Nat
        /\ set.max \in Int
    BY ListsOver, SetIs DEF Core, Lists
  <1>2. CASE s.ninflight < set.max
    <2>1. Assign(s) = nameserver_pick(s)
      BY <1>2 DEF Assign
    <2> QED
      BY <2>1, PickKeeps DEF IsPick, IsAssign
  <1>3. CASE ~(s.ninflight < set.max)
    <2>1. Assign(s) = [ns |-> Null, s |-> s]
      BY <1>3 DEF Assign
    <2>2. Assign(s).ns = Null /\ Assign(s).s = s
      BY <2>1
    <2>3. Len(s.inflight) >= set.max
      BY <1>1, <1>3
    <2> QED
      BY <2>2, <2>3, KeepsItself DEF IsAssign
  <1> QED
    BY <1>2, <1>3

(* The search of h has a further name. *)
HasNext(s, h) == s.names[h] > 0

(* search_try_next: the request of the name before ends, the next one begins. *)
LEMMA NextName ==
  ASSUME NEW s, Sound(s), NEW h, h \in In(s), HasNext(s, h), NEW net \in Net, set \in Settings
  PROVE  Sound(search_try_next(s, h, net))
  <1> DEFINE a == Assign(s)
             c == a.s
             n == a.ns
             f == request_finished(c, h, FALSE, net)
             t == [f EXCEPT !.req[h] = [NewRequest EXCEPT !.ns = n], !.names[h] = @ - 1]
             r == request_submit(t, h, net)
  <1>1. search_try_next(s, h, net) = r
    BY DEF search_try_next
  <1>2. /\ s \in Bases /\ h \in Handle /\ s.handle[h] = "live" /\ s.alive /\ s.servers # <<>>
        /\ h \in Nameserver => h \in Sv(s)
    BY InFlight
  <1>3. Core(s, {}) /\ Rest(s, {}, {})
    BY DEF Sound
  <1>4. IsAssign(s, a, {})
    BY <1>3, AssignIs
  <1> HIDE DEF a
  <1>5. /\ Keeps(s, c, {}) /\ Core(c, {}) /\ Frame(s, c) /\ c \in Bases
        /\ c.inflight = s.inflight /\ n \in Sv(s) \cup {Null}
        /\ n = Null => Len(s.inflight) >= set.max
    BY <1>2, <1>4 DEF IsAssign, Keeps, Core
  <1>6. Sound(c)
    BY <1>5, SoundKeeps
  <1> HIDE DEF c, n
  <1>7. /\ c.handle = s.handle /\ c.names = s.names /\ c.suspended = s.suspended
        /\ c.alive = s.alive /\ Sv(c) = Sv(s)
    BY <1>5, Zenon DEF Frame
  <1>8. In(c) = In(s) /\ h \in In(c) \cup Wa(c) /\ Rest(c, {}, {})
    BY <1>5, <1>6 DEF In, Sound
  <1>9. HandleAfter(c, h, FALSE) = c.handle[h]
    BY DEF HandleAfter
  <1>10. Ends(c, f, h, c.handle[h], {}) /\ NoneHeld(f)
    <2>1. FALSE \in BOOLEAN
      OBVIOUS
    <2>2. Ends(c, f, h, HandleAfter(c, h, FALSE), {}) /\ NoneHeld(f)
      BY <1>5, <1>8, <2>1, FinishedKeeps, Zenon
    <2> QED
      BY <1>9, <2>2
  <1> HIDE DEF f
  <1>11. Rest(f, {} \cup {h}, {}) /\ f.handle = c.handle
    <2> DEFINE none == {}
    <2> DEFINE V == none \cup {h}
    <2>2. Core(c, none) /\ Rest(c, none, none) /\ Leaves(c, f, h, none, none, V)
      BY <1>5, <1>8, <1>10 DEF Leaves
    <2> HIDE DEF none, V
    <2>3. h \in Handle
      BY <1>2
    <2>4. Rest(f, V, none) /\ f.handle = c.handle
      BY <2>2, <2>3, RestEnds
    <2> QED
      BY <2>4 DEF none, V
  <1>12. /\ Core(f, {} \ {h}) /\ f.names = c.names /\ f.suspended = c.suspended
         /\ f.alive = c.alive /\ Sv(f) = Sv(c) /\ In(f) \cup Wa(f) = (In(c) \cup Wa(c)) \ {h}
         /\ Len(c.inflight) - 1 <= Len(f.inflight)
    BY <1>10, Zenon DEF Ends
  <1>13. Core(f, {}) /\ f \in Bases
    BY <1>12, CoreWeaker DEF Core
  <1> DEFINE x == [NewRequest EXCEPT !.ns = n]
             req2 == [f.req EXCEPT ![h] = x]
             k == s.names[h] - 1
             names2 == [f.names EXCEPT ![h] = k]
  <1>14. /\ f.req \in [Handle -> Request] /\ s.names \in [Handle -> Nat] /\ f.names = s.names
         /\ f.handle \in [Handle -> {"new", "live", "pending", "done"}]
         /\ n \in Nameserver \cup {Null}
    BY <1>2, <1>5, <1>7, <1>12, <1>13, ListsOver DEF Bases
  <1>15. x \in Request
    BY <1>14, Blank DEF NewRequest, Request
  <1>16. k \in Nat
    BY <1>2, <1>14 DEF HasNext
  <1>17. t = [f EXCEPT !.req = req2, !.names = names2]
    BY <1>2, <1>13, <1>14 DEF Bases
  <1>18. req2 \in [Handle -> Request]
    <2> HIDE DEF x
    <2> QED
      BY <1>14, <1>15
  <1>19. names2 \in [Handle -> Nat] /\ \A g \in Handle : g # h => names2[g] = s.names[g]
    <2> HIDE DEF k
    <2> QED
      BY <1>14, <1>16
  <1> HIDE DEF req2, names2, t
  <1>20. /\ t \in Bases /\ t.servers = f.servers /\ t.good = f.good /\ t.ns = f.ns
         /\ t.inflight = f.inflight /\ t.ninflight = f.ninflight /\ t.waiting = f.waiting
         /\ t.nwaiting = f.nwaiting /\ t.req = req2 /\ t.names = names2
         /\ t.handle = f.handle /\ t.deferred = f.deferred /\ t.suspended = f.suspended
         /\ t.alive = f.alive
    BY <1>13, <1>17, <1>18, <1>19 DEF Bases
  <1>21. Fresh(f, t, h, n)
    BY <1>2, <1>5, <1>7, <1>12, <1>20 DEF Fresh, req2
  <1>22. Submitted(f, t, r, h, n, {})
    BY <1>13, <1>21, SubmitKeeps
  <1> HIDE DEF r
  <1>23. set.names > 0
    BY <1>2, <1>3 DEF Rest, Handles, HasNext
  <1>24. RoomToSearch /\ n = Null => f.inflight # <<>>
    <2> SUFFICES ASSUME RoomToSearch, n = Null PROVE f.inflight # <<>>
      OBVIOUS
    <2>1. set.max \in Int /\ set.max > 1
      BY <1>23, SetIs DEF RoomToSearch
    <2> DEFINE u == Len(s.inflight)
               v == Len(f.inflight)
    <2>2. u \in Nat /\ v \in Nat /\ u >= set.max /\ u - 1 <= v
      BY <1>2, <1>5, <1>12, <1>13, ListsOver
    <2>3. v # 0
      <3> HIDE DEF u, v
      <3> QED
        BY <2>1, <2>2
    <2> QED
      BY <1>13, <2>3, ListsOver
  <1>25. Rest(r, ({} \cup {h}) \ {h}, {} \ {h})
    <2>1. f.handle[h] = "live" /\ f.alive /\ t.handle = [f.handle EXCEPT ![h] = "live"]
      BY <1>2, <1>7, <1>11, <1>12, <1>14, <1>20
    <2>2. \A g \in Handle : t.names[g] > 0 => set.names > 0
      BY <1>23
    <2>3. h \in Nameserver => h \in Sv(f)
      BY <1>2, <1>7, <1>12
    <2>4. t.deferred = f.deferred /\ t.suspended = f.suspended /\ t.alive = f.alive
      BY <1>20
    <2> QED
      BY <1>11, <1>13, <1>21, <1>22, <1>24, <2>1, <2>2, <2>3, <2>4, RestSubmit
  <1>26. Rest(r, {}, {})
    BY <1>25, RestWeaker
  <1>27. Core(r, {})
    BY <1>22 DEF Submitted
  <1> QED
    BY <1>1, <1>26, <1>27 DEF Sound

(* The callback of a request is scheduled and the request ended. *)
LEMMA EndSound ==
  ASSUME NEW s, Sound(s), NEW h, h \in In(s) \cup Wa(s), NEW err \in Err,
         err = "cancel" => h \in Users, NEW net \in Net, set \in Settings
  PROVE  /\ Sound(request_finished(reply_schedule_callback(s, h, err), h, TRUE, net))
         /\ Sv(request_finished(reply_schedule_callback(s, h, err), h, TRUE, net)) = Sv(s)
  <1> DEFINE r == request_finished(reply_schedule_callback(s, h, err), h, TRUE, net)
  <1>1. Core(s, {}) /\ Rest(s, {}, {}) /\ s \in Bases
    BY DEF Sound, Core
  <1>2. s.handle[h] = "live" /\ h \in In(s) \cup Wa(s)
    BY <1>1, ListsOver DEF Rest, Handles
  <1>3. {} \subseteq {} /\ (err = "cancel" => h \in {} \cup Users)
    OBVIOUS
  <1>4. Ended(s, r, h, {}, {}, {})
    <2> DEFINE none == {}
    <2>1. Core(s, none) /\ Rest(s, none, none) /\ none \subseteq none
          /\ (err = "cancel" => h \in none \cup Users)
      BY <1>1, <1>3
    <2> HIDE DEF none
    <2>2. Ended(s, r, h, none, none, none)
      BY <1>2, <2>1, EndKeeps
    <2> QED
      BY <2>2 DEF none
  <1> HIDE DEF r
  <1>5. Core(r, {} \ {h}) /\ Rest(r, {} \ {h}, {}) /\ Sv(r) = Sv(s)
    BY <1>4 DEF Ended
  <1>6. Core(r, {}) /\ Rest(r, {}, {})
    BY <1>5, CoreWeaker, RestWeaker
  <1> QED
    BY <1>5, <1>6 DEF Sound, r

(* PassUp: the next name, or the failure is told. *)
LEMMA PassUpKeeps ==
  ASSUME NEW s, Sound(s), NEW h, h \in In(s), NEW err \in Reply, NEW net \in Net, set \in Settings
  PROVE  Sound(PassUp(s, h, err, net))
  <1>1. CASE s.names[h] > 0
    BY <1>1, NextName DEF PassUp, HasNext
  <1>2. CASE ~(s.names[h] > 0)
    <2>1. err \in Err /\ err # "cancel" /\ h \in In(s) \cup Wa(s)
      BY DEF Err, Reply
    <2>2. Sound(request_finished(reply_schedule_callback(s, h, err), h, TRUE, net))
      BY <2>1, EndSound
    <2> QED
      BY <1>2, <2>2 DEF PassUp
  <1> QED
    BY <1>1, <1>2

(* evdns_cancel_request, for a request of the user. *)
LEMMA CancelKeeps ==
  ASSUME NEW s, Sound(s), NEW h \in Users, s.handle[h] = "live", NEW net \in Net, set \in Settings
  PROVE  Sound(evdns_cancel_request(s, h, net))
  <1>1. h \in In(s) \cup Wa(s)
    BY Blank DEF Sound, Rest, Handles
  <1>2. "cancel" \in Err
    BY DEF Err
  <1>3. Sound(request_finished(reply_schedule_callback(s, h, "cancel"), h, TRUE, net))
    BY <1>1, <1>2, EndSound
  <1> QED
    BY <1>3 DEF evdns_cancel_request

(* Taking a nameserver down keeps the base sound. *)
LEMMA FailedSound ==
  ASSUME NEW s, Sound(s), NEW n \in Sv(s)
  PROVE  Sound(nameserver_failed(s, n)) /\ KeepsLists(s, nameserver_failed(s, n), {})
  <1>1. KeepsLists(s, nameserver_failed(s, n), {})
    BY FailedKeeps DEF Sound
  <1> QED
    BY <1>1, SoundKeeps DEF KeepsLists

(* Choosing a nameserver again does so too. *)
LEMMA PickAgainSound ==
  ASSUME NEW s, Sound(s), NEW h, h \in In(s)
  PROVE  Sound(PickAgain(s, h)) /\ In(PickAgain(s, h)) = In(s)
  <1>1. Keeps(s, PickAgain(s, h), {}) /\ PickAgain(s, h).inflight = s.inflight
    BY PickAgainKeeps DEF Sound
  <1>2. Sound(PickAgain(s, h))
    BY <1>1, SoundKeeps
  <1> QED
    BY <1>1, <1>2 DEF In

(* A change of a request in flight that something still moves. *)
LEMMA RequestSound ==
  ASSUME NEW s, Sound(s), NEW h, h \in In(s), NEW x \in Request, x.ns = s.req[h].ns,
         NEW Y, h \in Y
  PROVE  KeepsLists(s, [s EXCEPT !.req[h] = x], Y)
  <1>1. Core(s, {}) /\ {} \ {h} \subseteq Y
    BY DEF Sound
  <1> QED
    BY <1>1, RequestChange

(* evdns_request_timeout_callback, for a request in flight. *)
LEMMA TimeoutKeeps ==
  ASSUME NEW s, Sound(s), NEW h, h \in In(s), NEW net \in Net, set \in Settings
  PROVE  Sound(evdns_request_timeout_callback(s, h, net))
  <1> DEFINE n == s.req[h].ns
             x == [s.req[h] EXCEPT !.timer = FALSE]
             s1 == [s EXCEPT !.req[h] = x]
             s2 == PickAgain(s1, h)
             t == evdns_request_transmit(s2, h, net)
             m == t.req[h].ns
             r == evdns_request_timeout_callback(s, h, net)
             e == request_finished(reply_schedule_callback(s, h, "timeout"), h, TRUE, net)
  <1>1. /\ s \in Bases /\ h \in Handle /\ n \in Sv(s) /\ n \in Nameserver /\ s.req[h] \in Request
        /\ s.req \in [Handle -> Request]
    BY InFlight DEF Bases
  <1>2. CASE s.req[h].tx >= MaxRetransmits
    <2>1. r = nameserver_failed(e, n)
      BY <1>2 DEF evdns_request_timeout_callback
    <2>2. Sound(e) /\ Sv(e) = Sv(s)
      <3>1. "timeout" \in Err /\ "timeout" # "cancel" /\ h \in In(s) \cup Wa(s)
        BY DEF Err
      <3> QED
        BY <3>1, EndSound
    <2> HIDE DEF e, n
    <2> QED
      BY <1>1, <2>1, <2>2, FailedSound
  <1>3. CASE ~(s.req[h].tx >= MaxRetransmits)
    <2> DEFINE sa == [s EXCEPT !.req[h].timer = FALSE]
               y0 == [t.ns[m] EXCEPT !.timedout = 0]
               y1 == [t.ns[m] EXCEPT !.timedout = @ + 1]
               t0 == [t EXCEPT !.ns[m] = y0]
               t1 == [t EXCEPT !.ns[m] = y1]
    <2>1. sa = s1
      BY <1>1 DEF Bases
    <2>2. r = IF t.ns[m].timedout + 1 > MaxTimeouts
              THEN nameserver_failed([t EXCEPT !.ns[m].timedout = 0], m)
              ELSE [t EXCEPT !.ns[m].timedout = @ + 1]
      <3>1. t = evdns_request_transmit(PickAgain(sa, h), h, net)
        BY <2>1
      <3> HIDE DEF t
      <3> QED
        BY <1>3, <3>1 DEF evdns_request_timeout_callback
    <2>3. x \in Request /\ x.ns = s.req[h].ns
      BY <1>1 DEF Request
    <2> HIDE DEF x
    <2>4. KeepsLists(s, s1, {h})
      BY <2>3, RequestSound
    <2> HIDE DEF s1
    <2>5. Core(s1, {h}) /\ h \in In(s1)
      BY <2>4 DEF KeepsLists, Keeps, In
    <2>6. Keeps(s1, s2, {h}) /\ s2.inflight = s1.inflight /\ s2.waiting = s1.waiting
      BY <2>5, PickAgainKeeps
    <2> HIDE DEF s2
    <2>7. Core(s2, {h}) /\ h \in In(s2)
      BY <2>5, <2>6 DEF Keeps, In
    <2>8. KeepsLists(s2, t, {h} \ {h})
      BY <2>7, TransmitKeeps
    <2> HIDE DEF t
    <2>9. Core(t, {}) /\ h \in In(t)
      BY <2>7, <2>8, CoreWeaker DEF KeepsLists, Keeps, In
    <2>10. KeepsLists(s2, t, {})
      BY <2>8, <2>9 DEF KeepsLists, Keeps
    <2>11. KeepsLists(s, t, {})
      <3>1. KeepsLists(s1, t, {})
        BY <2>5, <2>6, <2>10, KeepsListsOn DEF KeepsLists
      <3> QED
        BY <2>4, <3>1, KeepsListsOn DEF Sound
    <2>12. Sound(t)
      BY <2>11, SoundKeeps DEF KeepsLists
    <2>13. /\ t \in Bases /\ m \in Sv(t) /\ m \in Nameserver
           /\ t.ns \in [Nameserver -> Server] /\ t.ns[m] \in Server
      <3>1. t \in Bases /\ m \in Sv(t) /\ m \in Nameserver
        BY <2>9, <2>12, InFlight
      <3> HIDE DEF m
      <3> QED
        BY <3>1 DEF Bases
    <2> HIDE DEF m
    <2>14. \A y \in Server : /\ y.state = t.ns[m].state /\ y.inflight = t.ns[m].inflight
                             /\ y.choked = t.ns[m].choked /\ y.timer = t.ns[m].timer
                             /\ y.write_waiting = t.ns[m].write_waiting
                             /\ y.probe = t.ns[m].probe
                             => KeepsLists(t, [t EXCEPT !.ns[m] = y], {})
      <3> SUFFICES ASSUME NEW y \in Server,
                          y.state = t.ns[m].state, y.inflight = t.ns[m].inflight,
                          y.choked = t.ns[m].choked, y.timer = t.ns[m].timer,
                          y.write_waiting = t.ns[m].write_waiting, y.probe = t.ns[m].probe
                   PROVE  KeepsLists(t, [t EXCEPT !.ns[m] = y], {})
        OBVIOUS
      <3>1. ServerMay(t, {}, m, y) /\ AsUp(y, t.ns[m])
        BY <2>9, <2>13 DEF ServerMay, AsUp, Core, Awaited
      <3> QED
        BY <2>9, <2>13, <3>1, ServerChange
    <2>15. CASE t.ns[m].timedout + 1 > MaxTimeouts
      <3>1. /\ y0 \in Server /\ y0.state = t.ns[m].state /\ y0.inflight = t.ns[m].inflight
            /\ y0.choked = t.ns[m].choked /\ y0.timer = t.ns[m].timer
            /\ y0.write_waiting = t.ns[m].write_waiting /\ y0.probe = t.ns[m].probe
        BY <2>13 DEF Server
      <3>2. r = nameserver_failed(t0, m)
        <4>1. t0 = [t EXCEPT !.ns[m].timedout = 0]
          BY <2>13 DEF Bases
        <4> HIDE DEF r, t0
        <4> QED
          BY <2>2, <2>15, <4>1
      <3> HIDE DEF y0
      <3>3. KeepsLists(t, t0, {})
        BY <2>14, <3>1
      <3> HIDE DEF t0
      <3>4. Sound(t0) /\ Sv(t0) = Sv(t)
        BY <2>12, <3>3, SoundKeeps DEF KeepsLists, Keeps, Frame
      <3> HIDE DEF r
      <3> QED
        BY <2>13, <3>2, <3>4, FailedSound DEF r
    <2>16. CASE ~(t.ns[m].timedout + 1 > MaxTimeouts)
      <3>1. /\ y1 \in Server /\ y1.state = t.ns[m].state /\ y1.inflight = t.ns[m].inflight
            /\ y1.choked = t.ns[m].choked /\ y1.timer = t.ns[m].timer
            /\ y1.write_waiting = t.ns[m].write_waiting /\ y1.probe = t.ns[m].probe
        BY <2>13 DEF Server
      <3>2. r = t1
        <4>1. t1 = [t EXCEPT !.ns[m].timedout = @ + 1]
          BY <2>13 DEF Bases
        <4> HIDE DEF r, t1
        <4> QED
          BY <2>2, <2>16, <4>1
      <3> HIDE DEF y1
      <3>3. KeepsLists(t, t1, {})
        BY <2>14, <3>1
      <3> HIDE DEF t1
      <3>4. Sound(t1)
        BY <2>12, <3>3, SoundKeeps DEF KeepsLists
      <3> HIDE DEF r
      <3> QED
        BY <3>2, <3>4 DEF r
    <2> QED
      BY <2>15, <2>16
  <1> QED
    BY <1>2, <1>3

(* The nameserver of the request h is none of Y, unless h is its probe. *)
Outside(s, h, Y) == s.req[h].ns = h \/ s.req[h].ns \notin Y

(* What is left when a good reply has brought the nameserver of a request up. *)
LEMMA GoodKeeps ==
  ASSUME NEW s, NEW Y, Core(s, {}), Rest(s, Y, {}), NEW h, h \in In(s),
         Outside(s, h, Y),
         NEW net \in Net, set \in Settings
  PROVE  /\ Core(Good(s, h, net), {}) /\ Rest(Good(s, h, net), Y, {})
         /\ h \in In(Good(s, h, net)) /\ Good(s, h, net).handle[h] = s.handle[h]
  <1> DEFINE n == s.req[h].ns
             y == [s.ns[n] EXCEPT !.probe = FALSE]
             a == [s EXCEPT !.ns[n] = y]
             b == IF h = n THEN a ELSE s
             r == nameserver_up(b, n, net)
  <1>1. /\ s \in Bases /\ h \in Handle /\ n \in Sv(s) /\ n \in Nameserver
        /\ s.ns \in [Nameserver -> Server] /\ s.ns[n] \in Server
    <2>1. s \in Bases /\ n \in Sv(s) /\ h \in Handle
      BY ListsOver DEF Core, Placed
    <2> HIDE DEF n
    <2>2. n \in Nameserver
      BY <2>1, ListsOver
    <2> QED
      BY <2>1, <2>2 DEF Bases
  <1>2. Good(s, h, net) = r
    <2>1. [s EXCEPT !.ns[n].probe = FALSE] = a
      BY <1>1 DEF Bases
    <2>2. Good(s, h, net) =
            nameserver_up(IF h = n THEN [s EXCEPT !.ns[n].probe = FALSE] ELSE s, n, net)
      BY DEF Good
    <2> HIDE DEF a
    <2> QED
      BY <2>1, <2>2
  <1>3. /\ Core(b, {}) /\ Rest(b, Y, {}) /\ Sv(b) = Sv(s) /\ In(b) = In(s)
        /\ b.handle = s.handle /\ (h = n => ~b.ns[n].probe) /\ (h # n => b.ns = s.ns)
    <2>1. CASE h # n
      BY <2>1
    <2>2. CASE h = n
      <3>1. /\ y \in Server /\ y.state = s.ns[n].state /\ y.inflight = s.ns[n].inflight
            /\ y.choked = s.ns[n].choked /\ y.write_waiting = s.ns[n].write_waiting
            /\ y.timer = s.ns[n].timer /\ ~y.probe
        BY <1>1 DEF Server
      <3> HIDE DEF y, n
      <3>2. ServerMay(s, {}, n, y)
        BY <1>1, <3>1 DEF ServerMay, Core, Awaited
      <3>3. Core(a, {}) /\ OnlyNet(s, a) /\ a.ns = [s.ns EXCEPT ![n] = y]
        BY <1>1, <3>1, <3>2, ServerChange
      <3> HIDE DEF a
      <3>4. Sv(a) = Sv(s) /\ In(a) = In(s) /\ Wa(a) = Wa(s) /\ a.handle = s.handle
            /\ a.deferred = s.deferred
        BY <3>3 DEF OnlyNet, Sv, In, Wa
      <3>5. a.ns[n] = y /\ \A m \in Nameserver : m # n => a.ns[m] = s.ns[m]
        BY <1>1, <3>3
      <3>6. Handles(s, Y) /\ Probing(s, {}) /\ Emptied(s) /\ (RoomToSearch => Served(s))
        BY DEF Rest
      <3>7. Handles(a, Y) /\ Emptied(a) /\ (RoomToSearch => Served(a))
        BY <3>3, <3>4, <3>6 DEF OnlyNet, Handles, Emptied, Served
      <3>8. \A m \in Nameserver :
              /\ a.ns[m].state = s.ns[m].state /\ a.ns[m].timer = s.ns[m].timer
              /\ a.ns[m].probe => s.ns[m].probe
        BY <1>1, <3>1, <3>5
      <3>9. Probing(a, {})
        <4>1. \A m \in Nameserver : a.handle[m] # "new" => m \in Sv(a)
          BY <3>4, <3>6 DEF Probing
        <4>2. \A m \in Nameserver \ {} :
                /\ m \in Sv(a) /\ ~a.ns[m].state => a.ns[m].timer \/ a.handle[m] # "new"
                /\ a.ns[m].probe => a.handle[m] # "new"
          BY <3>4, <3>6, <3>8, Zenon DEF Probing
        <4>3. \A i \in DOMAIN a.deferred :
                a.deferred[i].handle \in Nameserver \ {} /\ a.deferred[i].err = "cancel" =>
                  /\ ~a.ns[a.deferred[i].handle].probe
                  /\ a.ns[a.deferred[i].handle].state \/ a.ns[a.deferred[i].handle].timer
          BY <3>4, <3>6, <3>8 DEF Probing
        <4> QED
          BY <4>1, <4>2, <4>3 DEF Probing
      <3>10. Rest(a, Y, {})
        BY <3>7, <3>9 DEF Rest
      <3>11. b = a
        BY <2>2
      <3> HIDE DEF b
      <3> QED
        BY <2>2, <3>1, <3>3, <3>4, <3>5, <3>10, <3>11
    <2> QED
      BY <2>1, <2>2
  <1> HIDE DEF b, n
  <1>4. IsUp(b, r, n, {}, Y, {})
    <2> DEFINE none == {}
    <2>1. Core(b, none) /\ Rest(b, Y, none) /\ n \in Sv(b) /\ n \notin none
      BY <1>1, <1>3
    <2>2. b.ns[n].probe => n \notin Y
      BY <1>3 DEF n, Outside
    <2> HIDE DEF none
    <2>3. IsUp(b, r, n, none, Y, none)
      BY <2>1, <2>2, UpKeeps
    <2> QED
      BY <2>3 DEF none
  <1> HIDE DEF r
  <1>5. h # n \/ ~b.ns[n].probe
    BY <1>3
  <1>6. /\ Core(r, {}) /\ Rest(r, Y, {}) /\ r.handle[h] = b.handle[h] /\ h \in In(r)
    BY <1>1, <1>3, <1>4, <1>5 DEF IsUp
  <1> QED
    BY <1>2, <1>3, <1>6

(* reply_handle, whatever the nameserver answered. *)
LEMMA ReplyKeeps ==
  ASSUME NEW s, Sound(s), NEW h, h \in In(s), NEW reply \in Reply, NEW net \in Net,
         set \in Settings
  PROVE  Sound(reply_handle(s, h, reply, net))
  <1> DEFINE n == s.req[h].ns
             f == nameserver_failed(s, n)
             p == PickAgain(f, h)
             r == reply_handle(s, h, reply, net)
             t == reply_schedule_callback(s, h, "none")
             g == Good(s, h, net)
             u == Good(t, h, net)
  <1>1. /\ s \in Bases /\ h \in Handle /\ n \in Sv(s) /\ n \in Nameserver /\ s.req[h] \in Request
        /\ s.handle[h] = "live"
    BY InFlight
  <1>2. Core(s, {}) /\ Rest(s, {}, {})
    BY DEF Sound
  <1>3. s.req[h].reissue \in Nat /\ MaxReissues \in Nat
    BY <1>1, EvdnsAssumption DEF Request
  <1>4. CASE reply = "none"
    <2>1. r = request_finished(u, h, TRUE, net)
      BY <1>4 DEF reply_handle
    <2>2. Scheduled(s, t, h, "none", {})
      <3>1. "none" \in Err
        BY DEF Err, Reply
      <3> QED
        BY <1>1, <1>2, <3>1, ScheduleIs
    <2> HIDE DEF t
    <2>3. Rest(t, {} \cup {h}, {})
      <3> DEFINE none == {}
                 err == "none"
      <3>1. /\ Core(s, none) /\ Rest(s, none, none) /\ Scheduled(s, t, h, err, none)
            /\ err \in Err /\ none \subseteq none /\ (err = "cancel" => h \in none \cup Users)
        BY <1>2, <2>2 DEF Err, Reply
      <3> HIDE DEF none, err
      <3>2. Rest(t, none \cup {h}, none)
        BY <1>1, <3>1, RestSchedule
      <3> QED
        BY <3>2 DEF none
    <2>4. /\ Core(t, {}) /\ In(t) = In(s) /\ t.req = s.req
          /\ t.handle = [s.handle EXCEPT ![h] = "pending"]
      BY <2>2 DEF Scheduled, SameNet, In
    <2>5. t.handle[h] = "pending"
      BY <1>1, <2>4 DEF Bases
    <2>6. Core(u, {}) /\ Rest(u, {h}, {}) /\ h \in In(u) /\ u.handle[h] = t.handle[h]
      <3> DEFINE Y == {h}
      <3>1. Rest(t, Y, {}) /\ Outside(t, h, Y)
        BY <2>3 DEF Outside
      <3>2. Core(t, {}) /\ h \in In(t)
        BY <2>4
      <3> HIDE DEF Y, u
      <3>3. Core(u, {}) /\ Rest(u, Y, {}) /\ h \in In(u) /\ u.handle[h] = t.handle[h]
        BY <3>1, <3>2, GoodKeeps DEF u
      <3> QED
        BY <3>3 DEF Y
    <2> HIDE DEF u
    <2>7. HandleAfter(u, h, TRUE) = u.handle[h]
      BY <2>5, <2>6 DEF HandleAfter
    <2>8. /\ Ends(u, request_finished(u, h, TRUE, net), h, u.handle[h], {})
          /\ NoneHeld(request_finished(u, h, TRUE, net))
      <3>1. TRUE \in BOOLEAN /\ h \in In(u) \cup Wa(u)
        BY <2>6
      <3>2. /\ Ends(u, request_finished(u, h, TRUE, net), h, HandleAfter(u, h, TRUE), {})
            /\ NoneHeld(request_finished(u, h, TRUE, net))
        BY <2>6, <3>1, FinishedKeeps, Zenon
      <3> QED
        BY <2>7, <3>2
    <2> HIDE DEF r
    <2>9. Ends(u, r, h, u.handle[h], {}) /\ NoneHeld(r)
      BY <2>1, <2>8
    <2>10. Rest(r, {}, {}) /\ r.handle = u.handle
      <3> DEFINE none == {}
                 Y == {h}
      <3>1. Core(u, none) /\ Rest(u, Y, none) /\ Leaves(u, r, h, none, Y, none)
        BY <2>5, <2>6, <2>9 DEF Leaves
      <3> HIDE DEF none, Y
      <3>2. Rest(r, none, none) /\ r.handle = u.handle
        BY <1>1, <3>1, RestEnds
      <3> QED
        BY <3>2 DEF none
    <2>11. Core(r, {})
      BY <2>9, CoreWeaker DEF Ends
    <2> QED
      BY <2>10, <2>11 DEF Sound, r
  <1>5. CASE reply = "refused" /\ s.req[h].reissue < MaxReissues
    <2>4. r = IF p.req[h].ns # n THEN Reissued(p, h) ELSE PassUp(p, h, reply, net)
      BY <1>3, <1>5 DEF reply_handle
    <2> HIDE DEF n, f, p
    <2>1. Sound(f) /\ KeepsLists(s, f, {})
      BY <1>1, FailedSound DEF f
    <2>2. h \in In(f)
      BY <2>1 DEF KeepsLists, In
    <2>3. Sound(p) /\ h \in In(p)
      BY <2>1, <2>2, PickAgainSound DEF p
    <2>5. Sound(PassUp(p, h, reply, net))
      BY <2>3, PassUpKeeps
    <2>6. p.req[h].ns # n => Sound(Reissued(p, h))
      <3>0. SUFFICES ASSUME p.req[h].ns # n PROVE Sound(Reissued(p, h))
        OBVIOUS
      <3> DEFINE x == [p.req[h] EXCEPT !.reissue = @ + 1, !.tx = 0, !.transmit_me = TRUE]
                 q == [p EXCEPT !.req[h] = x]
      <3>1. p \in Bases /\ p.req[h] \in Request /\ h \in Handle /\ p.req \in [Handle -> Request]
        BY <2>3, InFlight DEF Bases
      <3>2. Reissued(p, h) = q
        BY <3>1 DEF Reissued, Bases
      <3>3. /\ x \in Request /\ x.ns = p.req[h].ns /\ x.timer = p.req[h].timer /\ x.transmit_me
        <4> DEFINE z == p.req[h]
        <4>1. z \in Request
          BY <3>1
        <4> HIDE DEF z
        <4>2. x = [z EXCEPT !.reissue = @ + 1, !.tx = 0, !.transmit_me = TRUE]
          BY DEF z
        <4> DEFINE z1 == [z EXCEPT !.reissue = @ + 1]
                   z2 == [z1 EXCEPT !.tx = 0]
        <4>a. x = [z2 EXCEPT !.transmit_me = TRUE]
          BY <4>2
        <4>b. z1 \in Request /\ z1.ns = z.ns /\ z1.timer = z.timer
          BY <4>1 DEF Request
        <4> HIDE DEF x, z1
        <4>c. z2 \in Request /\ z2.ns = z1.ns /\ z2.timer = z1.timer
          BY <4>b DEF Request
        <4> HIDE DEF z2
        <4>3. x \in Request /\ x.ns = z.ns /\ x.timer = z.timer /\ x.transmit_me
          BY <4>a, <4>b, <4>c DEF Request
        <4> QED
          BY <4>3 DEF z
      <3> HIDE DEF x
      <3>4. Moves(p, h) /\ Core(p, {})
        BY <2>3 DEF Sound, Core
      <3>5. x.timer \/ (x.transmit_me /\ \E k \in Sv(p) : p.ns[k].write_waiting)
        BY <3>3, <3>4, Zenon DEF Moves
      <3>6. KeepsLists(p, q, {})
        <4> DEFINE none == {}
        <4>1. Core(p, none) /\ none \ {h} \subseteq none
          BY <3>4
        <4> HIDE DEF none
        <4>2. KeepsLists(p, q, none)
          BY <2>3, <3>3, <3>5, <4>1, RequestChange
        <4> QED
          BY <4>2 DEF none
      <3> QED
        BY <2>3, <3>2, <3>6, SoundKeeps DEF KeepsLists
    <2> HIDE DEF r
    <2> QED
      BY <2>4, <2>5, <2>6 DEF r
  <1>6. CASE reply = "refused" /\ ~(s.req[h].reissue < MaxReissues)
    <2>1. s.req[h].reissue >= MaxReissues
      BY <1>3, <1>6
    <2>2. r = PassUp(s, h, reply, net)
      BY <1>6, <2>1 DEF reply_handle
    <2> QED
      BY <2>2, PassUpKeeps
  <1>7. CASE reply = "serverfailed"
    <2>1. r = evdns_request_timeout_callback(s, h, net)
      BY <1>7 DEF reply_handle
    <2> QED
      BY <2>1, TimeoutKeeps
  <1>8. CASE reply \in {"notexist", "other"}
    <2>1. r = PassUp(g, h, reply, net)
      BY <1>8 DEF reply_handle
    <2>2. Core(g, {}) /\ Rest(g, {}, {}) /\ h \in In(g)
      <3> DEFINE none == {}
      <3>1. Core(s, {}) /\ Rest(s, none, {}) /\ Outside(s, h, none)
        BY <1>2 DEF Outside
      <3> HIDE DEF none
      <3>2. Core(g, {}) /\ Rest(g, none, {}) /\ h \in In(g)
        BY <3>1, GoodKeeps
      <3> QED
        BY <3>2 DEF none
    <2> HIDE DEF g
    <2>3. Sound(g)
      BY <2>2 DEF Sound
    <2> QED
      BY <2>1, <2>2, <2>3, PassUpKeeps
  <1> QED
    BY <1>4, <1>5, <1>6, <1>7, <1>8 DEF Reply

-----------------------------------------------------------------------------
(* The steps *)

(* A next state whose base is sound has the invariant. *)
LEMMA NextSound ==
  ASSUME Inv, NEW s, dns' = s, set' = set, Sound(s)
  PROVE  Inv'
  <1>1. Core(s, {}) /\ Handles(s, {}) /\ Probing(s, {}) /\ Emptied(s)
        /\ (RoomToSearch => Served(s))
    BY DEF Sound, Rest
  <1>2. Core(dns', {}) /\ Probing(dns', {}) /\ Emptied(dns') /\ (RoomToSearch => Served(dns'))
    BY <1>1
  <1>3. Handles(dns, {})'
    BY <1>1 DEF Handles, In, Wa
  <1>4. Sound(dns)'
    BY <1>2, <1>3 DEF Sound, Rest
  <1> QED
    BY <1>4 DEF Inv

(* A step to a sound base keeps the invariant. *)
LEMMA StepSound ==
  ASSUME Inv, NEW s, NEW net, Step(s, net), Sound(s)
  PROVE  Inv'
  BY NextSound DEF Step

(* y is z but for the number of timeouts. *)
AllButTimeouts(y, z) ==
    /\ y.state = z.state /\ y.inflight = z.inflight /\ y.choked = z.choked
    /\ y.write_waiting = z.write_waiting /\ y.timer = z.timer /\ y.probe = z.probe

(* Counting timeouts keeps the base sound. *)
LEMMA CountingKeeps ==
  ASSUME NEW s, Sound(s), NEW n \in Nameserver, NEW y \in Server, AllButTimeouts(y, s.ns[n]),
         n \notin Sv(s) => y = NewServer
  PROVE  KeepsLists(s, [s EXCEPT !.ns[n] = y], {}) /\ Sound([s EXCEPT !.ns[n] = y])
  <1>1. Core(s, {})
    BY DEF Sound
  <1>2. ServerMay(s, {}, n, y) /\ AsUp(y, s.ns[n])
    BY <1>1 DEF ServerMay, AsUp, Core, Awaited, AllButTimeouts
  <1>3. KeepsLists(s, [s EXCEPT !.ns[n] = y], {})
    BY <1>1, <1>2, ServerChange
  <1> QED
    BY <1>3, SoundKeeps DEF KeepsLists

(* nameserver_read of a datagram. *)
LEMMA ReadStep ==
  ASSUME Inv, NEW net \in Net, NEW n \in Nameserver, NEW h \in Handle, NEW reply \in Reply,
         nameserver_read(n, h, reply, net)
  PROVE  Inv'
  <1> DEFINE y == [dns.ns[n] EXCEPT !.timedout = 0]
             s == [dns EXCEPT !.ns[n] = y]
  <1>1. Sound(dns) /\ set \in Settings /\ Core(dns, {})
    BY DEF Inv, Sound
  <1>2. /\ dns \in Bases /\ dns.ns \in [Nameserver -> Server] /\ dns.ns[n] \in Server
        /\ dns.req \in [Handle -> Request]
    BY <1>1 DEF Core, Bases
  <1>3. h \in In(dns)
    BY <1>1, Blank DEF nameserver_read, Core, Placed
  <1>4. y \in Server /\ AllButTimeouts(y, dns.ns[n])
    BY <1>2 DEF Server, AllButTimeouts
  <1>5. n \notin Sv(dns) => y = NewServer
    <2>1. n \notin Sv(dns) => dns.ns[n] = NewServer
      BY <1>1 DEF Core, Ups
    <2>2. [NewServer EXCEPT !.timedout = NewServer.timedout] = NewServer
      BY Zenon DEF NewServer
    <2> QED
      BY <2>1, <2>2, Blank
  <1>6. [dns EXCEPT !.ns[n].timedout = 0] = s
    BY <1>2 DEF Bases
  <1> HIDE DEF y
  <1>7. KeepsLists(dns, s, {}) /\ Sound(s)
    BY <1>1, <1>4, <1>5, CountingKeeps
  <1> HIDE DEF s
  <1>8. h \in In(s)
    BY <1>3, <1>7 DEF KeepsLists, In
  <1>9. Sound(reply_handle(s, h, reply, net))
    BY <1>1, <1>7, <1>8, ReplyKeeps
  <1>10. Step(reply_handle(s, h, reply, net), net)
    BY <1>6 DEF nameserver_read
  <1> QED
    BY <1>9, <1>10, StepSound

(* A timer of a request expires. *)
LEMMA TimeoutStep ==
  ASSUME Inv, NEW net \in Net, NEW h \in Handle, Timeout(h, net)
  PROVE  Inv'
  <1>1. Sound(dns) /\ set \in Settings
    BY DEF Inv
  <1>2. h \in In(dns)
    BY <1>1, Blank DEF Timeout, Sound, Core, Placed
  <1>3. Sound(evdns_request_timeout_callback(dns, h, net))
    BY <1>1, <1>2, TimeoutKeeps
  <1>4. Step(evdns_request_timeout_callback(dns, h, net), net)
    BY DEF Timeout
  <1> QED
    BY <1>3, <1>4, StepSound

(* The user cancels a request. *)
LEMMA CancelStep ==
  ASSUME Inv, NEW net \in Net, NEW h \in set.users, Cancel(h, net)
  PROVE  Inv'
  <1>1. Sound(dns) /\ set \in Settings
    BY DEF Inv
  <1>2. h \in Users /\ dns.handle[h] = "live"
    BY <1>1, SetIs DEF Cancel
  <1>3. Sound(evdns_cancel_request(dns, h, net))
    BY <1>1, <1>2, CancelKeeps
  <1>4. Step(evdns_cancel_request(dns, h, net), net)
    BY DEF Cancel
  <1> QED
    BY <1>3, <1>4, StepSound

(* The socket of a nameserver fails. *)
LEMMA ErrorStep ==
  ASSUME Inv, NEW n \in Nameserver, ReadError(n)
  PROVE  Inv'
  <1>1. Sound(dns) /\ n \in Sv(dns)
    BY DEF Inv, ReadError, Sv
  <1>2. Sound(nameserver_failed(dns, n))
    BY <1>1, FailedSound
  <1>3. Step(nameserver_failed(dns, n), [Fine EXCEPT ![n] = "failed"])
    BY DEF ReadError
  <1> QED
    BY <1>2, <1>3, StepSound

(* A socket takes a datagram again. *)
LEMMA WriteStep ==
  ASSUME Inv, NEW net \in Net, NEW n \in Nameserver, WriteReady(n, net)
  PROVE  Inv'
  <1> DEFINE y == [dns.ns[n] EXCEPT !.choked = FALSE]
             s == [dns EXCEPT !.ns[n] = y]
             z == [s.ns[n] EXCEPT !.write_waiting = FALSE]
             t == [s EXCEPT !.ns[n] = z]
             some == \E i \in DOMAIN s.inflight : s.req[s.inflight[i]].transmit_me
             r == IF some THEN evdns_transmit(s, net) ELSE nameserver_write_waiting(s, n, FALSE)
  <1>1. Sound(dns) /\ set \in Settings /\ Core(dns, {})
    BY DEF Inv, Sound
  <1>2. /\ dns \in Bases /\ dns.ns \in [Nameserver -> Server] /\ dns.ns[n] \in Server
        /\ dns.ns[n].write_waiting
    BY <1>1 DEF Core, Bases, WriteReady
  <1>3. n \in Sv(dns)
    BY <1>1, <1>2, Blank DEF Core, Ups
  <1>4. Step(r, net)
    <2>1. [dns EXCEPT !.ns[n].choked = FALSE] = s
      BY <1>2 DEF Bases
    <2> HIDE DEF s
    <2> QED
      BY <2>1 DEF WriteReady
  <1>5. /\ y \in Server /\ y.state = dns.ns[n].state /\ y.inflight = dns.ns[n].inflight
        /\ ~y.choked /\ y.write_waiting = dns.ns[n].write_waiting
        /\ y.timer = dns.ns[n].timer /\ y.probe = dns.ns[n].probe
    BY <1>2 DEF Server
  <1> HIDE DEF y
  <1>6. ServerMay(dns, {}, n, y) /\ AsUp(y, dns.ns[n])
    BY <1>3, <1>5 DEF ServerMay, AsUp
  <1>7. KeepsLists(dns, s, {}) /\ s.ns = [dns.ns EXCEPT ![n] = y]
    BY <1>1, <1>5, <1>6, ServerChange
  <1> HIDE DEF s
  <1>8. Sound(s)
    BY <1>1, <1>7, SoundKeeps DEF KeepsLists
  <1>9. /\ Core(s, {}) /\ s \in Bases /\ Sv(s) = Sv(dns) /\ s.ns[n] = y
    BY <1>2, <1>7, <1>8 DEF Sound, Core, KeepsLists, Keeps, Frame
  <1>10. CASE some
    <2>1. KeepsLists(s, evdns_transmit(s, net), {})
      BY <1>9, TransmitAllKeeps
    <2>2. Sound(evdns_transmit(s, net))
      BY <1>8, <2>1, SoundKeeps DEF KeepsLists
    <2>3. r = evdns_transmit(s, net)
      BY <1>10
    <2> HIDE DEF r
    <2> QED
      BY <1>4, <2>2, <2>3, StepSound
  <1>11. CASE ~some
    <2>1. r = t
      <3>1. s.ns \in [Nameserver -> Server]
        BY <1>9 DEF Bases
      <3>2. nameserver_write_waiting(s, n, FALSE) = t
        BY <1>9, <3>1 DEF nameserver_write_waiting, Bases
      <3> HIDE DEF t
      <3> QED
        BY <1>11, <3>2
    <2>2. s.ns[n] \in Server
      BY <1>5, <1>9
    <2>3. /\ z \in Server /\ z.state = s.ns[n].state /\ z.inflight = s.ns[n].inflight
          /\ z.choked = s.ns[n].choked /\ z.timer = s.ns[n].timer /\ z.probe = s.ns[n].probe
      BY <2>2 DEF Server
    <2> HIDE DEF z
    <2>4. \A h \in In(s) : s.req[h].timer
      <3> SUFFICES ASSUME NEW h, h \in In(s) PROVE s.req[h].timer
        OBVIOUS
      <3>1. Moves(s, h)
        BY <1>9 DEF Core
      <3>2. ~s.req[h].transmit_me
        BY <1>11 DEF In, ToSet
      <3> QED
        BY <3>1, <3>2 DEF Moves
    <2>5. ServerMay(s, {}, n, z) /\ AsUp(z, s.ns[n])
      <3>1. ~z.choked
        BY <1>5, <1>9, <2>3
      <3> QED
        BY <1>3, <1>9, <2>3, <2>4, <3>1 DEF ServerMay, AsUp
    <2>6. KeepsLists(s, t, {})
      BY <1>9, <2>3, <2>5, ServerChange
    <2> HIDE DEF t, r
    <2>7. Sound(t)
      BY <1>8, <2>6, SoundKeeps DEF KeepsLists
    <2> QED
      BY <1>4, <2>1, <2>7, StepSound
  <1> QED
    BY <1>10, <1>11

(* The user asks for a name. *)
LEMMA ResolveStep ==
  ASSUME Inv, NEW net \in Net, NEW h \in set.users, NEW k \in SearchNames, Resolve(h, k, net)
  PROVE  Inv'
  <1> DEFINE a == Assign(dns)
             c == a.s
             n == a.ns
             t == [c EXCEPT !.req[h] = [NewRequest EXCEPT !.ns = n], !.names[h] = k,
                            !.handle[h] = "live"]
             r == request_submit(t, h, net)
  <1>1. Sound(dns) /\ set \in Settings /\ Core(dns, {}) /\ dns \in Bases
    BY DEF Inv, Sound, Core
  <1>2. h \in Users /\ h \in Handle /\ h \notin Nameserver /\ set.names \in Nat
    BY <1>1, SetIs, Blank
  <1>3. Step(r, net)
    BY DEF Resolve
  <1>4. dns.alive /\ dns.handle[h] = "new"
    BY DEF Resolve
  <1>5. IsAssign(dns, a, {})
    BY <1>1, AssignIs
  <1> HIDE DEF a
  <1>6. /\ Keeps(dns, c, {}) /\ Frame(dns, c) /\ Core(c, {}) /\ c \in Bases
        /\ c.inflight = dns.inflight /\ n \in Sv(dns) \cup {Null}
        /\ n = Null => Len(dns.inflight) >= set.max \/ dns.servers = <<>>
    BY <1>5 DEF IsAssign, Keeps, Core
  <1>7. Sound(c)
    BY <1>1, <1>6, SoundKeeps
  <1> HIDE DEF c, n
  <1>8. /\ c.handle = dns.handle /\ c.names = dns.names /\ c.suspended = dns.suspended
        /\ c.alive = dns.alive /\ Sv(c) = Sv(dns)
    BY <1>6, Zenon DEF Frame
  <1>9. /\ Handles(c, {}) /\ Rest(c, {}, {}) /\ c.handle[h] = "new" /\ c.alive
        /\ h \notin In(c) \cup Wa(c)
    BY <1>2, <1>4, <1>7, <1>8 DEF Sound, Rest, Handles
  <1> DEFINE x == [NewRequest EXCEPT !.ns = n]
             req2 == [c.req EXCEPT ![h] = x]
             names2 == [c.names EXCEPT ![h] = k]
             H == [c.handle EXCEPT ![h] = "live"]
  <1>10. /\ c.req \in [Handle -> Request] /\ c.names \in [Handle -> Nat]
         /\ c.handle \in [Handle -> {"new", "live", "pending", "done"}]
         /\ n \in Nameserver \cup {Null} /\ k \in Nat /\ (k > 0 => set.names > 0)
    <2>1. k \in Nat /\ (k > 0 => set.names > 0)
      BY <1>2 DEF SearchNames
    <2>2. n \in Nameserver \cup {Null}
      BY <1>1, <1>6, ListsOver
    <2>3. /\ c.req \in [Handle -> Request] /\ c.names \in [Handle -> Nat]
          /\ c.handle \in [Handle -> {"new", "live", "pending", "done"}]
      BY <1>6 DEF Bases
    <2> QED
      BY <2>1, <2>2, <2>3
  <1>11. x \in Request
    BY <1>10, Blank DEF NewRequest, Request
  <1>12. t = [c EXCEPT !.req = req2, !.names = names2, !.handle = H]
    BY <1>2, <1>6, <1>10 DEF Bases
  <1>13. req2 \in [Handle -> Request]
    <2> HIDE DEF x
    <2> QED
      BY <1>10, <1>11
  <1>14. /\ names2 \in [Handle -> Nat] /\ H \in [Handle -> {"new", "live", "pending", "done"}]
         /\ \A g \in Handle : names2[g] = IF g = h THEN k ELSE c.names[g]
    BY <1>2, <1>10
  <1> HIDE DEF req2, names2, H, t
  <1>15. /\ t \in Bases /\ t.servers = c.servers /\ t.good = c.good /\ t.ns = c.ns
         /\ t.inflight = c.inflight /\ t.ninflight = c.ninflight /\ t.waiting = c.waiting
         /\ t.nwaiting = c.nwaiting /\ t.req = req2 /\ t.names = names2 /\ t.handle = H
         /\ t.deferred = c.deferred /\ t.suspended = c.suspended /\ t.alive = c.alive
    BY <1>6, <1>12, <1>13, <1>14 DEF Bases
  <1>16. Fresh(c, t, h, n)
    BY <1>2, <1>6, <1>8, <1>9, <1>15 DEF Fresh, req2
  <1>17. Submitted(c, t, r, h, n, {})
    BY <1>6, <1>16, SubmitKeeps
  <1> HIDE DEF r
  <1>18. n = Null => c.suspended \/ c.inflight # <<>>
    <2>1. dns.servers = <<>> => dns.suspended
      BY <1>1, <1>4 DEF Sound, Rest, Emptied
    <2> DEFINE u == Len(dns.inflight)
    <2>2. u \in Nat /\ (dns.inflight = <<>> <=> u = 0) /\ set.max \in Int /\ set.max >= 1
      BY <1>1, ListsOver, SetIs
    <2>3. u >= set.max => u # 0
      <3> HIDE DEF u
      <3> QED
        BY <2>2
    <2> QED
      BY <1>6, <1>8, <2>1, <2>2, <2>3
  <1>19. Rest(r, {}, {})
    <2> DEFINE none == {}
               nn == none \ {h}
    <2>1. Core(c, none) /\ Rest(c, none, none) /\ Submitted(c, t, r, h, n, none)
      BY <1>6, <1>9, <1>17
    <2>2. /\ c.handle[h] \in {"new", "live"} /\ t.handle = [c.handle EXCEPT ![h] = "live"]
          /\ t.deferred = c.deferred /\ t.suspended = c.suspended /\ t.alive = c.alive
          /\ c.alive
      BY <1>9, <1>15 DEF H
    <2>3. \A g \in Handle : t.names[g] > 0 => set.names > 0
      BY <1>9, <1>10, <1>14, <1>15 DEF Handles
    <2>4. h \in Nameserver => h \in Sv(c)
      BY <1>2
    <2>5. RoomToSearch /\ n = Null => c.suspended \/ c.inflight # <<>>
      BY <1>18
    <2> HIDE DEF none
    <2>6. Rest(r, none \ {h}, none \ {h})
      BY <1>16, <2>1, <2>2, <2>3, <2>4, <2>5, RestSubmit
    <2>7. none \ {h} \subseteq none
      OBVIOUS
    <2>8. Rest(r, none, none)
      BY <2>6, <2>7, RestWeaker
    <2> QED
      BY <2>8 DEF none
  <1>20. Sound(r)
    BY <1>17, <1>19 DEF Submitted, Sound
  <1> QED
    BY <1>3, <1>20, StepSound

(* The timer of a nameserver that is down expires: it is probed. *)
LEMMA ProdStep ==
  ASSUME Inv, NEW net \in Net, NEW n \in Nameserver, nameserver_prod_callback(n, net)
  PROVE  Inv'
  <1> DEFINE c == Assign(dns).s
             y == [[c.ns[n] EXCEPT !.timer = FALSE] EXCEPT !.probe = TRUE]
             f == [c EXCEPT !.ns[n] = y]
             x == [NewRequest EXCEPT !.ns = n]
             t == [f EXCEPT !.req[n] = x, !.handle[n] = "live"]
             t0 == [c EXCEPT !.ns[n].timer = FALSE, !.ns[n].probe = TRUE,
                             !.req[n] = x, !.handle[n] = "live"]
             r == request_submit(t, n, net)
  <1>1. Sound(dns) /\ set \in Settings /\ Core(dns, {}) /\ dns \in Bases
    BY DEF Inv, Sound, Core
  <1>2. dns.ns[n].timer /\ dns.handle[n] = "new"
    BY DEF nameserver_prod_callback
  <1>3. n \in Sv(dns) /\ n \in Handle
    BY <1>1, <1>2, Blank DEF Core, Ups
  <1>4. Step(request_submit(t0, n, net), net)
    BY DEF nameserver_prod_callback
  <1>5. IsAssign(dns, Assign(dns), {})
    BY <1>1, AssignIs
  <1> HIDE DEF c
  <1>6. /\ Keeps(dns, c, {}) /\ Frame(dns, c) /\ Core(c, {}) /\ c \in Bases
        /\ c.inflight = dns.inflight
    BY <1>5 DEF IsAssign, Keeps, Core, c
  <1>7. Sound(c)
    BY <1>1, <1>6, SoundKeeps
  <1>8. /\ c.handle = dns.handle /\ Sv(c) = Sv(dns)
    BY <1>6, Zenon DEF Frame
  <1>9. /\ Handles(c, {}) /\ Rest(c, {}, {}) /\ c.handle[n] = "new" /\ n \in Sv(c)
        /\ n \notin In(c) \cup Wa(c)
    BY <1>2, <1>3, <1>7, <1>8 DEF Sound, Rest, Handles
  <1>10. /\ c.ns \in [Nameserver -> Server] /\ c.ns[n] \in Server
         /\ c.req \in [Handle -> Request]
         /\ c.handle \in [Handle -> {"new", "live", "pending", "done"}]
    BY <1>6 DEF Bases
  <1>11. c.alive
    <2>1. c.servers # <<>>
      BY <1>6, <1>9, ListsOver
    <2> QED
      BY <1>9, <2>1 DEF Rest, Emptied
  <1>12. t0 = t
    <2>1. [c.ns EXCEPT ![n].timer = FALSE] = [c.ns EXCEPT ![n] = [c.ns[n] EXCEPT !.timer = FALSE]]
      BY <1>10
    <2> DEFINE ns1 == [c.ns EXCEPT ![n].timer = FALSE]
               ns2 == [ns1 EXCEPT ![n].probe = TRUE]
    <2>2. ns2 = [c.ns EXCEPT ![n] = y]
      BY <1>10
    <2> HIDE DEF y, x, ns2
    <2>3. t0 = [c EXCEPT !.ns = ns2, !.req[n] = x, !.handle[n] = "live"]
      BY <1>6 DEF Bases, ns2
    <2> HIDE DEF t0
    <2>4. [c EXCEPT !.ns = ns2] = f
      BY <1>6, <2>2 DEF Bases
    <2> QED
      BY <1>6, <2>3, <2>4 DEF Bases
  <1>13. /\ y \in Server /\ y.state = c.ns[n].state /\ y.inflight = c.ns[n].inflight
         /\ y.choked = c.ns[n].choked /\ y.write_waiting = c.ns[n].write_waiting
    BY <1>10 DEF Server
  <1> HIDE DEF y, t0
  <1>14. ServerMay(c, {}, n, y)
    BY <1>6, <1>9, <1>13 DEF ServerMay, Core, Awaited
  <1>15. Core(f, {}) /\ OnlyNet(c, f) /\ f.ns = [c.ns EXCEPT ![n] = y] /\ f.req = c.req
         /\ f.good = c.good
    BY <1>6, <1>13, <1>14, ServerChange
  <1> HIDE DEF f
  <1>16. Rest(f, {}, {n})
    <2> DEFINE none == {}
    <2>1. \A m \in Nameserver \ {n} : AsUp(f.ns[m], c.ns[m])
      BY <1>10, <1>15 DEF AsUp
    <2>2. Rest(c, none, none)
      BY <1>9
    <2> HIDE DEF none
    <2>3. Rest(f, none, none \cup {n})
      BY <1>15, <2>1, <2>2, RestServer
    <2>4. none \cup {n} \subseteq {n}
      BY DEF none
    <2>5. Rest(f, none, {n})
      BY <2>3, <2>4, RestWeaker
    <2> QED
      BY <2>5 DEF none
  <1>17. /\ f \in Bases /\ f.handle = c.handle /\ f.names = c.names /\ f.alive = c.alive
         /\ Sv(f) = Sv(c) /\ In(f) = In(c) /\ Wa(f) = Wa(c)
    BY <1>15 DEF Core, OnlyNet, Sv, In, Wa
  <1> DEFINE req2 == [f.req EXCEPT ![n] = x]
             H == [f.handle EXCEPT ![n] = "live"]
  <1>18. x \in Request
    BY <1>3, Blank DEF NewRequest, Request
  <1>19. t = [f EXCEPT !.req = req2, !.handle = H]
    <2> HIDE DEF x
    <2> QED
      BY <1>3, <1>17 DEF Bases
  <1>20. req2 \in [Handle -> Request] /\ H \in [Handle -> {"new", "live", "pending", "done"}]
    <2> HIDE DEF x
    <2> QED
      BY <1>3, <1>10, <1>15, <1>17, <1>18
  <1> HIDE DEF req2, H, t
  <1>21. /\ t \in Bases /\ t.servers = f.servers /\ t.good = f.good /\ t.ns = f.ns
         /\ t.inflight = f.inflight /\ t.ninflight = f.ninflight /\ t.waiting = f.waiting
         /\ t.nwaiting = f.nwaiting /\ t.req = req2 /\ t.names = f.names /\ t.handle = H
         /\ t.deferred = f.deferred /\ t.suspended = f.suspended /\ t.alive = f.alive
    BY <1>17, <1>19, <1>20 DEF Bases
  <1>22. Fresh(f, t, n, n)
    BY <1>3, <1>9, <1>17, <1>21 DEF Fresh, req2, x
  <1>23. Submitted(f, t, r, n, n, {})
    BY <1>15, <1>22, SubmitKeeps
  <1> HIDE DEF r
  <1>24. Rest(r, {}, {})
    <2> DEFINE none == {}
               Z == {n}
    <2>1. Core(f, none) /\ Rest(f, none, Z) /\ Submitted(f, t, r, n, n, none)
      BY <1>15, <1>16, <1>23
    <2>2. /\ f.handle[n] \in {"new", "live"} /\ t.handle = [f.handle EXCEPT ![n] = "live"]
          /\ t.deferred = f.deferred /\ t.suspended = f.suspended /\ t.alive = f.alive
          /\ f.alive
      BY <1>9, <1>11, <1>17, <1>21 DEF H
    <2>3. \A g \in Handle : t.names[g] > 0 => set.names > 0
      BY <1>9, <1>17, <1>21 DEF Handles
    <2>4. n \in Nameserver => n \in Sv(f)
      BY <1>9, <1>17
    <2>5. RoomToSearch /\ n = Null => f.suspended \/ f.inflight # <<>>
      BY Blank
    <2> HIDE DEF none, Z
    <2>6. Rest(r, none \ {n}, Z \ {n})
      BY <1>22, <2>1, <2>2, <2>3, <2>4, <2>5, RestSubmit
    <2>7. none \ {n} \subseteq none /\ Z \ {n} \subseteq none
      BY DEF Z
    <2>8. Rest(r, none, none)
      BY <2>6, <2>7, RestWeaker
    <2> QED
      BY <2>8 DEF none
  <1>25. Sound(r)
    BY <1>23, <1>24 DEF Submitted, Sound
  <1>26. Step(r, net)
    BY <1>4, <1>12 DEF r
  <1> QED
    BY <1>25, <1>26, StepSound

(* The queue is pumped when the base is resumed. *)
LEMMA ResumeStep ==
  ASSUME Inv, NEW net \in Net, evdns_base_resume(net)
  PROVE  Inv'
  <1> DEFINE p == evdns_requests_pump_waiting_queue(dns, net)
             b == (dns.servers = <<>>)
             r == [p EXCEPT !.suspended = b]
  <1>1. Sound(dns) /\ set \in Settings /\ Core(dns, {}) /\ dns \in Bases
    BY DEF Inv, Sound, Core
  <1>2. Step(r, net)
    BY DEF evdns_base_resume
  <1>3. Pumped(dns, p, {})
    BY <1>1, PumpKeeps
  <1> HIDE DEF p
  <1>4. /\ Sound(p) /\ NoneHeld(p) /\ Core(p, {}) /\ p \in Bases /\ Sv(p) = Sv(dns)
    BY <1>1, <1>3, SoundKeeps DEF Pumped, NoneHeld, Keeps, Frame, Core
  <1>5. b \in BOOLEAN /\ (b <=> p.servers = <<>>)
    BY <1>1, <1>4, ListsOver
  <1> HIDE DEF b, r
  <1>6. /\ r \in Bases /\ SameNet(p, r) /\ r.suspended = b /\ r.handle = p.handle
        /\ r.names = p.names /\ r.deferred = p.deferred /\ r.alive = p.alive
    BY <1>4, <1>5 DEF Bases, SameNet, r
  <1>7. Core(r, {}) /\ Sv(r) = Sv(p) /\ In(r) = In(p) /\ Wa(r) = Wa(p)
    BY <1>4, <1>6, CoreOther
  <1>8. Handles(p, {}) /\ Probing(p, {}) /\ Emptied(p)
    BY <1>4 DEF Sound, Rest
  <1>9. Handles(r, {})
    BY <1>6, <1>7, <1>8 DEF Handles
  <1>10. Probing(r, {})
    BY <1>6, <1>7, <1>8 DEF Probing, SameNet
  <1>11. Emptied(r)
    BY <1>5, <1>6, <1>8 DEF Emptied, SameNet
  <1>12. NoneHeld(r)
    BY <1>4, <1>6 DEF NoneHeld, SameNet
  <1>13. Served(r)
    BY <1>1, <1>6, <1>11, <1>12, NoneHeldServed
  <1>14. Sound(r)
    BY <1>7, <1>9, <1>10, <1>11, <1>13 DEF Sound, Rest
  <1> QED
    BY <1>2, <1>14, StepSound

(* A nameserver more, which is up. *)
LEMMA AddKeeps ==
  ASSUME NEW s, Core(s, {}), Handles(s, {}), Probing(s, {}), RoomToSearch => Served(s), s.alive,
         NEW n \in Nameserver, n \notin Sv(s)
  PROVE  Sound(Added(s, n))
  <1> DEFINE q == IF s.servers = <<>> THEN <<n>> ELSE <<Head(s.servers), n>> \o Tail(s.servers)
             y == [NewServer EXCEPT !.state = TRUE]
             ns2 == [s.ns EXCEPT ![n] = y]
             k == s.good + 1
             r == Added(s, n)
  <1>1. /\ s \in Bases /\ s.servers \in Seq(Nameserver) /\ s.ns \in [Nameserver -> Server]
        /\ s.good \in Int /\ IsInjective(s.servers)
    BY DEF Core, Bases, Ups
  <1>2. s.ns[n] = NewServer
    BY DEF Core, Ups
  <1>3. IsList(q, Nameserver, Len(s.servers) + 1, Sv(s) \cup {n})
    BY <1>1, InsertKeeps DEF Sv
  <1>4. r = [s EXCEPT !.servers = q, !.ns = ns2, !.good = k]
    BY <1>1 DEF Added, Bases
  <1>5. /\ y \in Server /\ y.state /\ y.inflight = NewServer.inflight /\ ~y.choked /\ ~y.probe
        /\ ~y.write_waiting
    <2>1. NewServer \in Server
      BY Blank
    <2> DEFINE z == NewServer
    <2> HIDE DEF z
    <2>2. y = [z EXCEPT !.state = TRUE] /\ z \in Server
      BY <2>1 DEF z
    <2> HIDE DEF y
    <2>3. /\ y \in Server /\ y.state /\ y.inflight = z.inflight /\ y.choked = z.choked
          /\ y.probe = z.probe /\ y.write_waiting = z.write_waiting
      BY <2>2 DEF Server
    <2> QED
      BY <2>3, Blank DEF z
  <1>6. ns2 \in [Nameserver -> Server]
    <2> HIDE DEF y
    <2> QED
      BY <1>1, <1>5
  <1>7. k \in Int
    BY <1>1
  <1>8. SUFFICES Sound(r)
    OBVIOUS
  <1> HIDE DEF q, ns2, k, r
  <1>9. q \in Seq(Nameserver) /\ ToSet(q) = Sv(s) \cup {n} /\ IsInjective(q)
    BY <1>3 DEF IsList
  <1>10. /\ r \in Bases /\ r.servers = q /\ r.good = k /\ r.ns = ns2
         /\ r.inflight = s.inflight /\ r.ninflight = s.ninflight /\ r.waiting = s.waiting
         /\ r.nwaiting = s.nwaiting /\ r.req = s.req /\ r.names = s.names
         /\ r.handle = s.handle /\ r.deferred = s.deferred /\ r.suspended = s.suspended
         /\ r.alive = s.alive
    BY <1>1, <1>4, <1>6, <1>7, <1>9 DEF Bases
  <1>11. Sv(r) = Sv(s) \cup {n} /\ In(r) = In(s) /\ Wa(r) = Wa(s)
    BY <1>9, <1>10 DEF Sv, In, Wa
  <1> HIDE DEF y
  <1>12. r.ns[n] = y /\ \A m \in Nameserver : m # n => r.ns[m] = s.ns[m]
    BY <1>1, <1>10 DEF ns2
  <1>13. Lists(r)
    BY <1>10, <1>11 DEF Core, Lists
  <1>14. Ups(r)
    <2>1. UpIn(r.servers, r.ns) = UpIn(s.servers, s.ns) \cup {n}
      <3>1. ToSet(s.servers) \subseteq Nameserver /\ ToSet(r.servers) = ToSet(s.servers) \cup {n}
        BY <1>1, <1>11, ListsOver DEF Sv
      <3> QED
        BY <1>5, <1>12, <3>1 DEF UpIn, Sv
    <2>2. n \notin UpIn(s.servers, s.ns) /\ IsFiniteSet(UpIn(s.servers, s.ns))
      BY <1>1, <1>2, Blank, CountedFinite DEF UpIn
    <2>3. Cardinality(UpIn(r.servers, r.ns)) = Cardinality(UpIn(s.servers, s.ns)) + 1
      BY <2>1, <2>2, FS_AddElement
    <2>4. r.good = Cardinality(UpIn(r.servers, r.ns))
      BY <1>10, <2>3 DEF Core, Ups, k
    <2>5. \A m \in Nameserver \ Sv(r) : r.ns[m] = NewServer
      BY <1>11, <1>12 DEF Core, Ups
    <2> QED
      BY <1>9, <1>10, <2>4, <2>5 DEF Ups
  <1>15. Placed(r)
    BY <1>10, <1>11 DEF Core, Placed
  <1>16. Loads(r)
    BY <1>2, <1>5, <1>10, <1>12 DEF Core, Loads
  <1>17. Awaited(r)
    BY <1>5, <1>12 DEF Core, Awaited
  <1>18. \A h \in In(r) \ {} : Moves(r, h)
    <2>1. \A m \in Sv(s) : m \in Nameserver /\ m # n
      BY <1>1, ListsOver
    <2> QED
      BY <1>10, <1>11, <1>12, <2>1 DEF Core, Moves
  <1>19. Core(r, {})
    BY <1>10, <1>13, <1>14, <1>15, <1>16, <1>17, <1>18 DEF Core
  <1>20. Handles(r, {})
    BY <1>10, <1>11 DEF Handles
  <1>21. Probing(r, {})
    <2>1. \A m \in Nameserver : r.handle[m] # "new" => m \in Sv(r)
      BY <1>10, <1>11 DEF Probing
    <2>2. \A m \in Nameserver \ {} :
            /\ m \in Sv(r) /\ ~r.ns[m].state => r.ns[m].timer \/ r.handle[m] # "new"
            /\ r.ns[m].probe => r.handle[m] # "new"
      BY <1>5, <1>10, <1>11, <1>12 DEF Probing
    <2>3. \A i \in DOMAIN r.deferred :
            r.deferred[i].handle \in Nameserver \ {} /\ r.deferred[i].err = "cancel" =>
              /\ ~r.ns[r.deferred[i].handle].probe
              /\ r.ns[r.deferred[i].handle].state \/ r.ns[r.deferred[i].handle].timer
      BY <1>5, <1>10, <1>12 DEF Probing
    <2> QED
      BY <2>1, <2>2, <2>3 DEF Probing
  <1>22. Emptied(r)
    BY <1>10, <1>11, ListsOver DEF Emptied
  <1>23. RoomToSearch => Served(r)
    BY <1>10 DEF Served
  <1> QED
    BY <1>19, <1>20, <1>21, <1>22, <1>23 DEF Sound, Rest

(* A nameserver is added. *)
LEMMA AddStep ==
  ASSUME Inv, NEW n \in Nameserver, Add(n)
  PROVE  Inv'
  <1>1. Sound(dns) /\ n \notin Sv(dns) /\ dns.alive
    BY DEF Inv, Add, Sv
  <1>2. Core(dns, {}) /\ Handles(dns, {}) /\ Probing(dns, {}) /\ (RoomToSearch => Served(dns))
    BY <1>1 DEF Sound, Rest
  <1>3. Sound(Added(dns, n))
    BY <1>1, <1>2, AddKeeps
  <1>4. Step(Added(dns, n), Fine)
    BY DEF Add
  <1> QED
    BY <1>3, <1>4, StepSound

(* The invariant holds at first. *)
LEMMA InitInvariant == Init => Inv
  <1> SUFFICES ASSUME Init PROVE Inv
    OBVIOUS
  <1> DEFINE n == CHOOSE m \in set.servers : TRUE
             e == Empty
  <1>1. set \in Settings /\ dns = Added(e, n)
    BY DEF Init
  <1>2. n \in Nameserver
    BY <1>1, SetIs
  <1> HIDE DEF n
  <1>3. <<>> \in Seq(Nameserver) /\ <<>> \in Seq(Handle) /\ <<>> \in Seq([handle : Handle, err : Err])
    OBVIOUS
  <1>4. /\ [m \in Nameserver |-> NewServer] \in [Nameserver -> Server]
        /\ [h \in Handle |-> NewRequest] \in [Handle -> Request]
        /\ [h \in Handle |-> 0] \in [Handle -> Nat]
        /\ [h \in Handle |-> "new"] \in [Handle -> {"new", "live", "pending", "done"}]
    BY Blank
  <1>5. e \in Bases
    BY <1>3, <1>4 DEF Empty, Bases
  <1>6. /\ e.servers = <<>> /\ e.good = 0 /\ e.inflight = <<>> /\ e.ninflight = 0
        /\ e.waiting = <<>> /\ e.nwaiting = 0 /\ e.deferred = <<>> /\ e.alive
        /\ \A m \in Nameserver : e.ns[m] = NewServer
        /\ \A h \in Handle : e.req[h] = NewRequest /\ e.names[h] = 0 /\ e.handle[h] = "new"
    BY Zenon, Blank DEF Empty
  <1> HIDE DEF e
  <1>7. Sv(e) = {} /\ In(e) = {} /\ Wa(e) = {}
    BY <1>5, <1>6, ListsOver
  <1>8. \A q : q = <<>> => Len(q) = 0 /\ DOMAIN q = {} /\ IsInjective(q) /\ ToSet(q) = {}
    <2>1. Len(<<>>) = 0 /\ DOMAIN <<>> = {}
      OBVIOUS
    <2> QED
      BY <2>1 DEF IsInjective, ToSet
  <1>9. Lists(e)
    BY <1>6, <1>7, <1>8 DEF Lists
  <1>10. Ups(e)
    <2>1. UpIn(e.servers, e.ns) = {}
      BY <1>6, <1>8 DEF UpIn
    <2> QED
      BY <1>6, <1>7, <1>8, <2>1, FS_EmptySet DEF Ups
  <1>11. Placed(e) /\ Awaited(e)
    BY <1>6, <1>7, Blank DEF Placed, Awaited
  <1>12. Loads(e)
    <2>1. \A m : At(e.inflight, e.req, m) = {}
      BY <1>6, <1>8 DEF At
    <2> QED
      BY <1>6, <2>1, FS_EmptySet, Blank DEF Loads
  <1>13. Core(e, {})
    BY <1>5, <1>7, <1>9, <1>10, <1>11, <1>12 DEF Core
  <1>14. Handles(e, {})
    <2>1. \A h \in Handle : ~(e.names[h] > 0)
      BY <1>6
    <2> QED
      BY <1>6, <1>7, <1>8, <2>1, Blank DEF Handles
  <1>15. Probing(e, {})
    BY <1>6, <1>7, <1>8, Blank DEF Probing
  <1>16. Served(e) /\ n \notin Sv(e)
    BY <1>6, <1>7 DEF Served
  <1>17. Sound(Added(e, n))
    BY <1>2, <1>6, <1>13, <1>14, <1>15, <1>16, AddKeeps
  <1> QED
    BY <1>1, <1>17 DEF Inv

(* The other way round. *)
LEMMA ReverseKeeps ==
  ASSUME NEW S, NEW q \in Seq(S), IsInjective(q)
  PROVE  IsList(Reverse(q), S, Len(q), ToSet(q))
  <1> DEFINE n == Len(q)
             r == Reverse(q)
             to(i) == (n - i) + 1
  <1>1. n \in Nat /\ DOMAIN q = 1 .. n /\ \A i \in 1 .. n : q[i] \in S
    BY Places
  <1>2. \A i \in 1 .. n : to(i) \in 1 .. n /\ to(to(i)) = i
    BY <1>1
  <1>3. r = [i \in 1 .. n |-> q[to(i)]]
    BY DEF Reverse
  <1> HIDE DEF n, to, r
  <1>4. r \in [1 .. n -> S]
    BY <1>1, <1>2, <1>3
  <1>5. r \in Seq(S) /\ Len(r) = n /\ DOMAIN r = 1 .. n
    BY <1>1, <1>4, LenProperties, SeqDef
  <1>6. ToSet(r) = ToSet(q)
    BY <1>1, <1>2, <1>3, <1>5 DEF ToSet
  <1>7. IsInjective(r)
    <2>1. \A i, j \in 1 .. n : q[i] = q[j] => i = j
      BY <1>1 DEF IsInjective
    <2>2. ASSUME NEW i \in 1 .. n, NEW j \in 1 .. n, r[i] = r[j] PROVE i = j
      <3>1. to(i) = to(j)
        BY <1>2, <1>3, <2>1, <2>2
      <3> QED
        BY <1>2, <3>1
    <2> QED
      BY <1>5, <2>2 DEF IsInjective
  <1> QED
    BY <1>5, <1>6, <1>7 DEF IsList, n, r

(* A base without nameservers and with nothing in flight. *)
LEMMA BareCore ==
  ASSUME NEW r, r \in Bases, r.servers = <<>>, r.good = 0, r.inflight = <<>>, r.ninflight = 0,
         \A m \in Nameserver : r.ns[m] = NewServer, \A h \in Handle : r.req[h] = NewRequest,
         r.nwaiting = Len(r.waiting), IsInjective(r.waiting)
  PROVE  Core(r, {})
  <1>1. \A q : q = <<>> => Len(q) = 0 /\ DOMAIN q = {} /\ IsInjective(q) /\ ToSet(q) = {}
    <2>1. Len(<<>>) = 0 /\ DOMAIN <<>> = {}
      OBVIOUS
    <2> QED
      BY <2>1 DEF IsInjective, ToSet
  <1>2. Sv(r) = {} /\ In(r) = {}
    BY <1>1 DEF Sv, In
  <1>3. Lists(r)
    BY <1>1, <1>2 DEF Lists
  <1>4. Ups(r)
    <2>1. UpIn(r.servers, r.ns) = {}
      BY <1>1 DEF UpIn
    <2> QED
      BY <1>1, <1>2, <2>1, FS_EmptySet DEF Ups
  <1>5. Placed(r) /\ Awaited(r)
    BY <1>2, Blank DEF Placed, Awaited
  <1>6. Loads(r)
    <2>1. \A m : At(r.inflight, r.req, m) = {}
      BY <1>1 DEF At
    <2> QED
      BY <2>1, FS_EmptySet, Blank DEF Loads
  <1> QED
    BY <1>2, <1>3, <1>4, <1>5, <1>6 DEF Core

(* The nameservers are taken away: every request waits again. *)
LEMMA ClearStep ==
  ASSUME Inv, evdns_base_clear_nameservers_and_suspend
  PROVE  Inv'
  <1> DEFINE ns2 == [n \in Nameserver |-> NewServer]
             req2 == [h \in Handle |-> NewRequest]
             w == Reverse(dns.inflight) \o dns.waiting
             k == dns.nwaiting + Len(dns.inflight)
             c == [dns EXCEPT !.servers = <<>>, !.good = 0, !.suspended = TRUE, !.ns = ns2]
             r == [c EXCEPT !.req = req2, !.waiting = w, !.nwaiting = k,
                            !.inflight = <<>>, !.ninflight = 0]
  <1>1. Sound(dns) /\ set \in Settings /\ Core(dns, {}) /\ dns \in Bases
    BY DEF Inv, Sound, Core
  <1>2. /\ dns' = r /\ set' = set
    BY <1>1 DEF evdns_base_clear_nameservers_and_suspend, Bases
  <1>3. dns.alive /\ \A n \in Nameserver : dns.handle[n] = "new"
    BY DEF evdns_base_clear_nameservers_and_suspend, NoProbes
  <1>4. /\ dns.inflight \in Seq(Handle) /\ dns.waiting \in Seq(Handle) /\ Lists(dns)
        /\ dns.nwaiting = Len(dns.waiting) /\ Len(dns.inflight) \in Nat /\ Len(dns.waiting) \in Nat
    BY <1>1, ListsOver DEF Core, Bases, Lists
  <1>5. w \in Seq(Handle) /\ ToSet(w) = In(dns) \cup Wa(dns) /\ IsInjective(w) /\ Len(w) = k
    <2> DEFINE v == Reverse(dns.inflight)
    <2>1. v \in Seq(Handle) /\ Len(v) = Len(dns.inflight) /\ ToSet(v) = In(dns) /\ IsInjective(v)
      BY <1>4, ReverseKeeps DEF IsList, Lists, In
    <2> HIDE DEF v
    <2>2. IsList(v \o dns.waiting, Handle, Len(v) + Len(dns.waiting), ToSet(v) \cup Wa(dns))
      BY <1>4, <2>1, ConcatKeeps DEF Lists, Wa
    <2>3. Len(v) + Len(dns.waiting) = k
      <3> DEFINE a == Len(dns.inflight)
                 b == Len(dns.waiting)
                 d == Len(v)
      <3>1. a \in Nat /\ b \in Nat /\ d = a /\ k = b + a
        BY <1>4, <2>1
      <3> HIDE DEF a, b, d, k
      <3>2. d + b = k
        BY <3>1
      <3> QED
        BY <3>2 DEF b, d
    <2>4. w = v \o dns.waiting
      BY DEF v
    <2> HIDE DEF w, k
    <2> QED
      BY <2>1, <2>2, <2>3, <2>4 DEF IsList
  <1>6. k \in Int /\ ns2 \in [Nameserver -> Server] /\ req2 \in [Handle -> Request]
    BY <1>4, Blank
  <1>7. /\ \A n \in Nameserver : ns2[n] = NewServer
        /\ \A h \in Handle : req2[h] = NewRequest
    OBVIOUS
  <1> HIDE DEF w, k, ns2, req2, c
  <1>b. /\ c \in Bases /\ c.servers = <<>> /\ c.good = 0 /\ c.suspended /\ c.ns = ns2
        /\ c.handle = dns.handle /\ c.names = dns.names /\ c.deferred = dns.deferred
        /\ c.alive = dns.alive
    <2>1. <<>> \in Seq(Nameserver) /\ 0 \in Int /\ TRUE \in BOOLEAN
      OBVIOUS
    <2> QED
      BY <1>1, <1>6, <2>1 DEF Bases, c
  <1>8. /\ r \in Bases /\ r.servers = <<>> /\ r.good = 0 /\ r.suspended /\ r.ns = ns2
        /\ r.req = req2 /\ r.waiting = w /\ r.nwaiting = k /\ r.inflight = <<>>
        /\ r.ninflight = 0 /\ r.handle = dns.handle /\ r.names = dns.names
        /\ r.deferred = dns.deferred /\ r.alive = dns.alive
    <2>1. <<>> \in Seq(Handle) /\ 0 \in Int
      OBVIOUS
    <2> QED
      BY <1>b, <1>5, <1>6, <2>1 DEF Bases
  <1> HIDE DEF r
  <1>9. Core(r, {})
    BY <1>5, <1>7, <1>8, BareCore
  <1>10. In(r) \cup Wa(r) = In(dns) \cup Wa(dns)
    <2>1. In(r) = {}
      BY <1>8, ListsOver
    <2> QED
      BY <1>5, <1>8, <2>1 DEF Wa
  <1>11. Handles(dns, {})
    BY <1>1 DEF Sound, Rest
  <1>12. Handles(r, {})
    BY <1>8, <1>10, <1>11 DEF Handles
  <1>13. Probing(r, {})
    <2>1. \A i \in DOMAIN r.deferred : r.deferred[i].handle \notin Nameserver
      <3> SUFFICES ASSUME NEW i \in DOMAIN dns.deferred, dns.deferred[i].handle \in Nameserver
                   PROVE  FALSE
        BY <1>8
      <3>1. dns.handle[dns.deferred[i].handle] = "pending"
        BY <1>11, Blank DEF Handles
      <3> QED
        BY <1>3, <3>1
    <2>2. \A n \in Nameserver : ~r.ns[n].probe /\ n \notin Sv(r) /\ r.handle[n] = "new"
      BY <1>3, <1>7, <1>8, Blank, ListsOver
    <2> QED
      BY <2>1, <2>2 DEF Probing
  <1>14. Emptied(r) /\ Served(r)
    BY <1>3, <1>8 DEF Emptied, Served
  <1>15. Sound(r)
    BY <1>9, <1>12, <1>13, <1>14 DEF Sound, Rest
  <1> QED
    BY <1>2, <1>15, NextSound

(* What the callback of a probe leaves of the network: its nameserver alone changes. *)
Told(s, p, n) ==
    /\ Core(p, {}) /\ OnlyNet(s, p)
    /\ \A m \in Nameserver \ {n} : AsUp(p.ns[m], s.ns[m])
    /\ ~p.ns[n].probe /\ (p.ns[n].state \/ p.ns[n].timer)

(* nameserver_probe_callback of a probe whose callback ran. *)
LEMMA ProbeTold ==
  ASSUME NEW s, Core(s, {}), NEW n \in Sv(s), NEW err \in Err, NEW net \in Net,
         err = "cancel" => ~s.ns[n].probe /\ (s.ns[n].state \/ s.ns[n].timer)
  PROVE  Told(s, nameserver_probe_callback(s, n, err, net), n)
  <1> DEFINE y == [s.ns[n] EXCEPT !.probe = FALSE]
             r == [s EXCEPT !.ns[n] = y]
             p == nameserver_probe_callback(s, n, err, net)
  <1>1. /\ s \in Bases /\ n \in Nameserver /\ s.ns \in [Nameserver -> Server]
        /\ s.ns[n] \in Server
    BY ListsOver DEF Core, Bases
  <1>2. CASE err = "cancel"
    <2>1. p = s
      BY <1>2 DEF nameserver_probe_callback
    <2>2. OnlyNet(s, s) /\ \A m \in Nameserver \ {n} : AsUp(s.ns[m], s.ns[m])
      BY DEF OnlyNet, AsUp
    <2> QED
      BY <1>2, <2>1, <2>2 DEF Told
  <1>3. CASE err # "cancel"
    <2>1. p = IF err \in {"none", "notexist"} THEN nameserver_up(r, n, net)
              ELSE [r EXCEPT !.ns[n].timer = ~r.ns[n].state]
      <3>1. [s EXCEPT !.ns[n].probe = FALSE] = r
        BY <1>1 DEF Bases
      <3> HIDE DEF r
      <3> QED
        BY <1>3, <3>1 DEF nameserver_probe_callback
    <2>2. /\ y \in Server /\ y.state = s.ns[n].state /\ y.inflight = s.ns[n].inflight
          /\ y.choked = s.ns[n].choked /\ y.write_waiting = s.ns[n].write_waiting
          /\ ~y.probe
      BY <1>1 DEF Server
    <2> HIDE DEF y
    <2>3. ServerMay(s, {}, n, y)
      BY <1>1, <2>2 DEF ServerMay, Core, Awaited
    <2>4. /\ Core(r, {}) /\ OnlyNet(s, r) /\ r.ns = [s.ns EXCEPT ![n] = y]
      BY <1>1, <2>2, <2>3, ServerChange
    <2> HIDE DEF r
    <2>5. /\ r \in Bases /\ r.ns \in [Nameserver -> Server] /\ r.ns[n] = y /\ n \in Sv(r)
          /\ \A m \in Nameserver \ {n} : r.ns[m] = s.ns[m]
      BY <1>1, <2>4 DEF Core, Bases, OnlyNet, Sv
    <2>6. ASSUME NEW z \in Server, z.inflight = y.inflight, z.choked = y.choked,
                 z.write_waiting = y.write_waiting, z.state = y.state, ~z.probe
          PROVE  LET q == [r EXCEPT !.ns[n] = z]
                 IN  /\ Core(q, {}) /\ OnlyNet(r, q) /\ q.ns = [r.ns EXCEPT ![n] = z]
      <3>1. ServerMay(r, {}, n, z)
        BY <2>4, <2>5, <2>6, <1>1 DEF ServerMay, Core, Awaited
      <3> QED
        BY <1>1, <2>4, <3>1, ServerChange
    <2>7. CASE err \in {"none", "notexist"} /\ y.state
      <3>1. p = r
        BY <2>1, <2>5, <2>7 DEF nameserver_up
      <3> HIDE DEF p
      <3> QED
        BY <2>2, <2>4, <2>5, <2>7, <3>1 DEF Told, AsUp, p
    <2>8. CASE err \in {"none", "notexist"} /\ ~y.state
      <3> DEFINE z == [y EXCEPT !.timer = FALSE]
                 q == [r EXCEPT !.ns[n] = z]
      <3>1. p = Raised(q, n)
        <4>1. [r EXCEPT !.ns[n].timer = FALSE] = q
          BY <1>1, <2>5 DEF Bases
        <4>2. ~r.ns[n].probe /\ ~r.ns[n].state
          BY <2>2, <2>5, <2>8
        <4>3. nameserver_up(r, n, net) = Raised([r EXCEPT !.ns[n].timer = FALSE], n)
          BY <4>2 DEF nameserver_up, Raised
        <4> HIDE DEF q, p
        <4> QED
          BY <2>1, <2>8, <4>1, <4>3
      <3>2. /\ z \in Server /\ z.inflight = y.inflight /\ z.choked = y.choked
            /\ z.write_waiting = y.write_waiting /\ z.state = y.state /\ ~z.probe
        BY <2>2 DEF Server
      <3> HIDE DEF z
      <3>3. Core(q, {}) /\ OnlyNet(r, q) /\ q.ns = [r.ns EXCEPT ![n] = z]
        BY <2>6, <3>2
      <3> HIDE DEF q, p
      <3>4. n \in Sv(q) /\ ~q.ns[n].state /\ \A m \in Nameserver \ {n} : q.ns[m] = r.ns[m]
        BY <1>1, <2>5, <2>8, <3>2, <3>3 DEF OnlyNet, Sv
      <3>5. /\ Core(Raised(q, n), {}) /\ OnlyNet(q, Raised(q, n))
            /\ ~Raised(q, n).ns[n].probe /\ Raised(q, n).ns[n].state
            /\ \A m \in Nameserver \ {n} : Raised(q, n).ns[m] = q.ns[m]
        BY <3>3, <3>4, RaiseKeeps
      <3>6. OnlyNet(s, p)
        BY <2>4, <3>1, <3>3, <3>5 DEF OnlyNet
      <3>7. \A m \in Nameserver \ {n} : AsUp(p.ns[m], s.ns[m])
        BY <2>5, <3>1, <3>4, <3>5 DEF AsUp
      <3> QED
        BY <3>1, <3>5, <3>6, <3>7 DEF Told, p
    <2>9. CASE err \notin {"none", "notexist"}
      <3> DEFINE b == ~r.ns[n].state
                 z == [y EXCEPT !.timer = b]
                 q == [r EXCEPT !.ns[n] = z]
      <3>1. p = q
        <4>1. [r EXCEPT !.ns[n].timer = ~r.ns[n].state] = q
          BY <1>1, <2>5 DEF Bases
        <4> HIDE DEF q, p
        <4> QED
          BY <2>1, <2>9, <4>1
      <3>2. b \in BOOLEAN /\ (b <=> ~y.state)
        BY <2>5
      <3> HIDE DEF b
      <3>3. /\ z \in Server /\ z.inflight = y.inflight /\ z.choked = y.choked
            /\ z.write_waiting = y.write_waiting /\ z.state = y.state /\ ~z.probe
            /\ z.timer = b
        BY <2>2, <3>2 DEF Server
      <3> HIDE DEF z
      <3>4. Core(q, {}) /\ OnlyNet(r, q) /\ q.ns = [r.ns EXCEPT ![n] = z]
        BY <2>6, <3>3
      <3> HIDE DEF q, p
      <3>5. q.ns[n] = z /\ \A m \in Nameserver \ {n} : AsUp(q.ns[m], s.ns[m])
        BY <1>1, <2>5, <3>4 DEF AsUp
      <3>6. OnlyNet(s, q)
        BY <2>4, <3>4 DEF OnlyNet
      <3> QED
        BY <3>1, <3>2, <3>3, <3>4, <3>5, <3>6 DEF Told, p
    <2> QED
      BY <2>7, <2>8, <2>9
  <1> QED
    BY <1>2, <1>3

(* r is d without the first of the callbacks, whose handle is freed. *)
Freeing(d, r, h) ==
    /\ d.deferred # <<>> /\ h = Head(d.deferred).handle
    /\ r.handle = [d.handle EXCEPT ![h] = Freed(h)] /\ r.deferred = Tail(d.deferred)
    /\ r.servers = d.servers /\ r.inflight = d.inflight /\ r.waiting = d.waiting
    /\ r.names = d.names /\ r.suspended = d.suspended /\ r.alive = d.alive
    /\ \A m \in Nameserver \ {h} : AsUp(r.ns[m], d.ns[m])
    /\ h \in Nameserver => ~r.ns[h].probe /\ (r.ns[h].state \/ r.ns[h].timer)

(* It is sound but for the network. *)
LEMMA FreeingKeeps ==
  ASSUME NEW d, d \in Bases, Rest(d, {}, {}), NEW r, NEW h, Freeing(d, r, h)
  PROVE  Rest(r, {}, {})
  <1> DEFINE D == d.deferred
             E == r.deferred
             N == Len(D)
             T == [handle : Handle, err : Err]
  <1>1. /\ D \in Seq(T) /\ d.handle \in [Handle -> {"new", "live", "pending", "done"}]
    BY DEF Bases
  <1>2. D # <<>> /\ E = Tail(D) /\ h = Head(D).handle
    BY DEF Freeing
  <1>3. /\ N \in Nat \ {0} /\ DOMAIN D = 1 .. N /\ DOMAIN E = 1 .. N - 1 /\ h = D[1].handle
        /\ \A i \in 1 .. N - 1 : E[i] = D[i + 1]
        /\ \A i \in 1 .. N : D[i].handle \in Handle
    <2> HIDE DEF D, T
    <2>1. N \in Nat /\ DOMAIN D = 1 .. N /\ N # 0 /\ \A i \in 1 .. N : D[i] \in T
      BY <1>1, <1>2, Places
    <2>2. /\ Tail(D) \in Seq(T) /\ Len(Tail(D)) = N - 1 /\ Head(D) = D[1]
          /\ \A i \in 1 .. N - 1 : Tail(D)[i] = D[i + 1]
      BY <1>1, <1>2, HeadTailProperties
    <2>3. DOMAIN Tail(D) = 1 .. N - 1
      BY <2>2, Places
    <2>4. \A e \in T : e.handle \in Handle
      BY DEF T
    <2> HIDE DEF E
    <2> QED
      BY <1>2, <2>1, <2>2, <2>3, <2>4
  <1>4. h \in Handle
    BY <1>3
  <1>5. /\ \A g \in Handle : r.handle[g] = IF g = h THEN Freed(h) ELSE d.handle[g]
        /\ Freed(h) \in {"new", "done"} /\ (h \in Nameserver => Freed(h) = "new")
    BY <1>1, <1>4, Blank DEF Freeing, Freed
  <1>6. Sv(r) = Sv(d) /\ In(r) = In(d) /\ Wa(r) = Wa(d)
    BY DEF Freeing, Sv, In, Wa
  <1>7. Handles(d, {}) /\ Probing(d, {}) /\ Emptied(d) /\ (RoomToSearch => Served(d))
    BY DEF Rest
  <1>8. d.handle[h] = "pending"
    <2>1. 1 \in DOMAIN D /\ D[1].handle = h
      BY <1>3
    <2> QED
      BY <1>4, <1>7, <2>1 DEF Handles
  <1> HIDE DEF N, T
  <1>9. \A i, j \in 1 .. N : D[i].handle = D[j].handle => i = j
    BY <1>3, <1>7 DEF Handles
  <1>10. \A i \in 1 .. N - 1 : i + 1 \in 1 .. N /\ i + 1 # 1 /\ E[i].handle = D[i + 1].handle
         /\ E[i].handle # h
    <2> SUFFICES ASSUME NEW i \in 1 .. N - 1
                 PROVE  /\ i + 1 \in 1 .. N /\ i + 1 # 1 /\ E[i].handle = D[i + 1].handle
                        /\ E[i].handle # h
      OBVIOUS
    <2>1. i + 1 \in 1 .. N /\ i + 1 # 1 /\ 1 \in 1 .. N
      BY <1>3
    <2>2. E[i].handle = D[i + 1].handle
      BY <1>3
    <2>3. D[i + 1].handle # D[1].handle
      BY <1>9, <2>1
    <2> QED
      BY <1>3, <2>1, <2>2, <2>3
  <1>11. \A k \in 1 .. N : k # 1 => k - 1 \in 1 .. N - 1 /\ (k - 1) + 1 = k
    BY <1>3
  <1>12. Handles(r, {})
    <2>1. \A g \in Handle \ {} : r.handle[g] = "live" <=> g \in In(r) \cup Wa(r)
      BY <1>5, <1>6, <1>7, <1>8 DEF Handles
    <2>2. ASSUME NEW g \in Handle
          PROVE  r.handle[g] = "pending" <=> \E i \in DOMAIN r.deferred : r.deferred[i].handle = g
      <3>1. CASE g = h
        BY <1>3, <1>5, <1>10, <3>1
      <3>2. CASE g # h
        <4>1. d.handle[g] = "pending" <=> \E k \in 1 .. N : D[k].handle = g
          BY <1>3, <1>7 DEF Handles
        <4>2. (\E k \in 1 .. N : D[k].handle = g) => \E i \in 1 .. N - 1 : E[i].handle = g
          <5> SUFFICES ASSUME NEW k \in 1 .. N, D[k].handle = g
                       PROVE  \E i \in 1 .. N - 1 : E[i].handle = g
            OBVIOUS
          <5>1. k # 1
            BY <1>3, <3>2
          <5>2. k - 1 \in 1 .. N - 1 /\ (k - 1) + 1 = k
            BY <1>11, <5>1
          <5>3. E[k - 1].handle = g
            BY <1>10, <5>2
          <5> QED
            BY <5>2, <5>3
        <4>3. (\E i \in 1 .. N - 1 : E[i].handle = g) => \E k \in 1 .. N : D[k].handle = g
          BY <1>10
        <4> QED
          BY <1>3, <1>5, <3>2, <4>1, <4>2, <4>3
      <3> QED
        BY <3>1, <3>2
    <2>3. ASSUME NEW i \in 1 .. N - 1, NEW j \in 1 .. N - 1, E[i].handle = E[j].handle
          PROVE  i = j
      <3>1. i + 1 = j + 1
        BY <1>9, <1>10, <2>3
      <3> QED
        BY <3>1
    <2>4. \A n \in Nameserver : r.handle[n] # "done"
      BY <1>5, <1>7, Blank DEF Handles
    <2>5. \A g \in Handle : r.names[g] > 0 => set.names > 0
      <3>1. r.names = d.names
        BY DEF Freeing
      <3> QED
        BY <1>7, <3>1 DEF Handles
    <2> QED
      BY <1>3, <2>1, <2>2, <2>3, <2>4, <2>5 DEF Handles
  <1>13. Probing(r, {})
    <2>1. \A n \in Nameserver : r.handle[n] # "new" => n \in Sv(r)
      BY <1>5, <1>6, <1>7, Blank DEF Probing
    <2>2. ASSUME NEW n \in Nameserver
          PROVE  /\ n \in Sv(r) /\ ~r.ns[n].state => r.ns[n].timer \/ r.handle[n] # "new"
                 /\ r.ns[n].probe => r.handle[n] # "new"
      <3>1. CASE n = h
        BY <3>1 DEF Freeing
      <3>2. CASE n # h
        <4>1. AsUp(r.ns[n], d.ns[n]) /\ r.handle[n] = d.handle[n]
          BY <1>5, <3>2, Blank DEF Freeing
        <4>2. /\ n \in Sv(d) /\ ~d.ns[n].state => d.ns[n].timer \/ d.handle[n] # "new"
              /\ d.ns[n].probe => d.handle[n] # "new"
          BY <1>7 DEF Probing
        <4> QED
          BY <1>6, <4>1, <4>2, Zenon DEF AsUp
      <3> QED
        BY <3>1, <3>2
    <2>3. ASSUME NEW i \in 1 .. N - 1, E[i].handle \in Nameserver, E[i].err = "cancel"
          PROVE  ~r.ns[E[i].handle].probe /\ (r.ns[E[i].handle].state \/ r.ns[E[i].handle].timer)
      <3> DEFINE n == E[i].handle
      <3>1. i + 1 \in DOMAIN D /\ E[i] = D[i + 1] /\ n # h
        BY <1>3, <1>10
      <3>2. ~d.ns[n].probe /\ (d.ns[n].state \/ d.ns[n].timer)
        BY <1>7, <2>3, <3>1 DEF Probing
      <3> HIDE DEF n
      <3>3. AsUp(r.ns[n], d.ns[n])
        <4>1. n \in Nameserver \ {h}
          BY <2>3, <3>1 DEF n
        <4> QED
          BY <4>1 DEF Freeing
      <3>4. ~r.ns[n].probe /\ (r.ns[n].state \/ r.ns[n].timer)
        BY <3>2, <3>3, Zenon DEF AsUp
      <3> QED
        BY <3>4 DEF n
    <2> QED
      BY <1>3, <2>1, <2>2, <2>3 DEF Probing
  <1>14. Emptied(r) /\ (RoomToSearch => Served(r))
    BY <1>7 DEF Freeing, Emptied, Served
  <1> QED
    BY <1>12, <1>13, <1>14 DEF Rest

(* The loop runs a deferred callback. *)
LEMMA CallbackStep ==
  ASSUME Inv, NEW net \in Net, reply_run_callback(net)
  PROVE  Inv'
  <1> DEFINE cb == Head(dns.deferred)
             h == cb.handle
             q == Tail(dns.deferred)
             s == [dns EXCEPT !.deferred = q]
             p == IF h \in Nameserver THEN nameserver_probe_callback(s, h, cb.err, net) ELSE s
             r == [p EXCEPT !.handle[h] = Freed(h)]
             T == [handle : Handle, err : Err]
  <1>1. Sound(dns) /\ set \in Settings /\ Core(dns, {}) /\ Rest(dns, {}, {}) /\ dns \in Bases
    BY DEF Inv, Sound, Core
  <1>2. dns.deferred # <<>> /\ Step(r, net)
    <2>1. [dns EXCEPT !.deferred = Tail(@)] = s
      BY <1>1 DEF Bases
    <2> HIDE DEF s
    <2> QED
      BY <2>1 DEF reply_run_callback
  <1>3. /\ q \in Seq(T) /\ cb \in T /\ 1 \in DOMAIN dns.deferred /\ cb = dns.deferred[1]
    <2>1. dns.deferred \in Seq(T)
      BY <1>1 DEF Bases
    <2> HIDE DEF T
    <2>2. /\ q \in Seq(T) /\ cb \in T /\ cb = dns.deferred[1] /\ Len(dns.deferred) \in Nat \ {0}
      BY <1>2, <2>1, TailKeeps
    <2>3. DOMAIN dns.deferred = 1 .. Len(dns.deferred)
      BY <2>1, Places
    <2> QED
      BY <2>2, <2>3
  <1>4. h \in Handle /\ cb.err \in Err
    BY <1>3
  <1> HIDE DEF q
  <1>5. /\ s \in Bases /\ SameNet(dns, s) /\ s.handle = dns.handle /\ s.names = dns.names
        /\ s.deferred = q /\ s.suspended = dns.suspended /\ s.alive = dns.alive
    BY <1>1, <1>3 DEF Bases, SameNet
  <1> HIDE DEF s, T
  <1>6. Core(s, {}) /\ Sv(s) = Sv(dns)
    BY <1>1, <1>5, CoreOther
  <1>7. /\ Core(p, {}) /\ OnlyNet(s, p)
        /\ \A m \in Nameserver \ {h} : AsUp(p.ns[m], s.ns[m])
        /\ h \in Nameserver => ~p.ns[h].probe /\ (p.ns[h].state \/ p.ns[h].timer)
    <2>1. CASE h \in Nameserver
      <3>1. dns.handle[h] = "pending"
        BY <1>1, <1>3, <1>4 DEF Rest, Handles
      <3>2. h \in Sv(s)
        BY <1>1, <1>6, <2>1, <3>1 DEF Rest, Probing
      <3>3. cb.err = "cancel" => ~s.ns[h].probe /\ (s.ns[h].state \/ s.ns[h].timer)
        <4>1. cb.err = "cancel" => ~dns.ns[h].probe /\ (dns.ns[h].state \/ dns.ns[h].timer)
          BY <1>1, <1>3, <2>1 DEF Rest, Probing
        <4> QED
          BY <1>5, <4>1 DEF SameNet
      <3>4. Told(s, p, h)
        <4> DEFINE err == cb.err
        <4>1. p = nameserver_probe_callback(s, h, err, net)
          BY <2>1
        <4>2. err \in Err /\ (err = "cancel" => ~s.ns[h].probe /\ (s.ns[h].state \/ s.ns[h].timer))
          BY <1>4, <3>3
        <4> HIDE DEF p, err, h
        <4> QED
          BY <1>6, <3>2, <4>1, <4>2, ProbeTold
      <3> HIDE DEF p
      <3> QED
        BY <3>4 DEF Told
    <2>2. CASE h \notin Nameserver
      <3>1. p = s
        BY <2>2
      <3>2. OnlyNet(s, s) /\ \A m \in Nameserver : AsUp(s.ns[m], s.ns[m])
        BY DEF OnlyNet, AsUp
      <3> HIDE DEF p
      <3> QED
        BY <1>6, <2>2, <3>1, <3>2
    <2> QED
      BY <2>1, <2>2
  <1> HIDE DEF p, h
  <1> DEFINE H == [p.handle EXCEPT ![h] = Freed(h)]
  <1>8. p \in Bases /\ p.handle \in [Handle -> {"new", "live", "pending", "done"}]
    BY <1>7 DEF Core, Bases
  <1>9. H \in [Handle -> {"new", "live", "pending", "done"}] /\ r = [p EXCEPT !.handle = H]
    <2>1. Freed(h) \in {"new", "done"}
      BY DEF Freed
    <2> QED
      BY <1>4, <1>8, <2>1 DEF Bases
  <1> HIDE DEF H, r
  <1>10. /\ r \in Bases /\ SameNet(p, r) /\ r.handle = H /\ r.names = p.names
         /\ r.deferred = p.deferred /\ r.suspended = p.suspended /\ r.alive = p.alive
    BY <1>8, <1>9 DEF Bases, SameNet
  <1>11. Core(r, {})
    BY <1>7, <1>10, CoreOther
  <1>12. Freeing(dns, r, h)
    <2>1. h = Head(dns.deferred).handle /\ r.deferred = Tail(dns.deferred)
      BY <1>5, <1>7, <1>10 DEF h, q, OnlyNet
    <2>2. r.handle = [dns.handle EXCEPT ![h] = Freed(h)]
      BY <1>5, <1>7, <1>10 DEF H, OnlyNet
    <2>3. /\ r.servers = dns.servers /\ r.inflight = dns.inflight /\ r.waiting = dns.waiting
          /\ r.names = dns.names /\ r.suspended = dns.suspended /\ r.alive = dns.alive
      BY <1>5, <1>7, <1>10 DEF OnlyNet, SameNet
    <2>4. r.ns = p.ns /\ s.ns = dns.ns
      BY <1>5, <1>10 DEF SameNet
    <2> QED
      BY <1>2, <1>7, <2>1, <2>2, <2>3, <2>4 DEF Freeing
  <1>13. Rest(r, {}, {})
    BY <1>1, <1>12, FreeingKeeps
  <1>14. Sound(r)
    BY <1>11, <1>13 DEF Sound
  <1> QED
    BY <1>2, <1>14, StepSound

-----------------------------------------------------------------------------
(* The base is freed *)

(* The handles of the probes, while the base is drained. *)
NoneProbed(x, fail) ==
    \/ \A n \in Nameserver : x.handle[n] = "new"
    \/ ~fail /\ \A n \in Nameserver : x.handle[n] # "pending"

(* A base that is being drained, with k requests left. *)
Draining(x, k, fail) ==
    /\ Core(x, {}) /\ Handles(x, {}) /\ NoneProbed(x, fail) /\ (fail => Sound(x))
    /\ Len(x.inflight) + Len(x.waiting) = k

(* A turn of the loops ends a request. *)
LEMMA DrainTurn ==
  ASSUME NEW fail \in BOOLEAN, NEW k \in Nat, k # 0, NEW x, Draining(x, k, fail),
         NEW net \in Net, set \in Settings
  PROVE  Draining(Drain(x, fail, net), k - 1, fail)
  <1> DEFINE h == Head(x.inflight \o x.waiting)
             t == IF fail THEN reply_schedule_callback(x, h, "shutdown") ELSE x
             r == request_finished(t, h, TRUE, net)
  <1>1. /\ Core(x, {}) /\ Handles(x, {}) /\ x \in Bases
        /\ x.inflight \in Seq(Handle) /\ x.waiting \in Seq(Handle) /\ Lists(x)
        /\ Len(x.inflight) \in Nat /\ Len(x.waiting) \in Nat
    BY ListsOver DEF Draining, Core, Bases
  <1>2. Drain(x, fail, net) = r
    <2> DEFINE a == Len(x.inflight)
               b == Len(x.waiting)
    <2>1. /\ a \in Nat /\ b \in Nat /\ a + b = k
          /\ (x.inflight = <<>> <=> a = 0) /\ (x.waiting = <<>> <=> b = 0)
      BY <1>1, ListsOver DEF Draining
    <2>2. ~(a = 0 /\ b = 0)
      <3> HIDE DEF a, b
      <3> QED
        BY <2>1
    <2> QED
      BY <2>1, <2>2 DEF Drain
  <1>3. h \in In(x) \cup Wa(x) /\ h \in Handle
    <2> DEFINE q == x.inflight \o x.waiting
               a == Len(x.inflight)
               b == Len(x.waiting)
    <2>1. IsList(q, Handle, a + b, In(x) \cup Wa(x))
      BY <1>1, ConcatKeeps DEF Lists, In, Wa
    <2>2. q \in Seq(Handle) /\ Len(q) = k /\ ToSet(q) = In(x) \cup Wa(x)
      BY <2>1 DEF IsList, Draining
    <2> HIDE DEF q
    <2>3. q # <<>>
      BY <2>2, Places
    <2>4. Head(q) \in ToSet(q) /\ Head(q) \in Handle
      BY <2>2, <2>3, TailKeeps
    <2> QED
      BY <2>2, <2>4 DEF q
  <1> HIDE DEF h
  <1>4. x.handle[h] = "live" /\ x.handle \in [Handle -> {"new", "live", "pending", "done"}]
    BY <1>1, <1>3 DEF Handles, Bases
  <1>5. /\ Core(t, {}) /\ In(t) = In(x) /\ Wa(t) = Wa(x)
        /\ Len(t.inflight) = Len(x.inflight) /\ Len(t.waiting) = Len(x.waiting)
        /\ t.handle = [x.handle EXCEPT ![h] = IF fail THEN "pending" ELSE @]
    <2>1. CASE fail
      <3>1. "shutdown" \in Err
        BY DEF Err
      <3>2. Scheduled(x, t, h, "shutdown", {})
        BY <1>1, <1>3, <2>1, <3>1, ScheduleIs
      <3> HIDE DEF t
      <3>3. [x.handle EXCEPT ![h] = IF fail THEN "pending" ELSE @] = [x.handle EXCEPT ![h] = "pending"]
        BY <2>1
      <3> QED
        BY <3>2, <3>3 DEF Scheduled, SameNet, In, Wa
    <2>2. CASE ~fail
      <3>1. t = x
        BY <2>2
      <3>2. [x.handle EXCEPT ![h] = IF fail THEN "pending" ELSE @] = x.handle
        BY <1>3, <1>4, <2>2
      <3> HIDE DEF t
      <3> QED
        BY <1>1, <3>1, <3>2
    <2> QED
      BY <2>1, <2>2
  <1>6. Ends(t, r, h, HandleAfter(t, h, TRUE), {})
    <2>1. TRUE \in BOOLEAN /\ h \in In(t) \cup Wa(t)
      BY <1>3, <1>5
    <2> HIDE DEF t
    <2> QED
      BY <1>5, <2>1, FinishedKeeps, Zenon
  <1>7. fail => Sound(r)
    <2> SUFFICES ASSUME fail PROVE Sound(r)
      OBVIOUS
    <2>1. "shutdown" \in Err /\ "shutdown" # "cancel"
      BY DEF Err
    <2>2. Sound(request_finished(reply_schedule_callback(x, h, "shutdown"), h, TRUE, net))
      BY <1>3, <2>1, EndSound DEF Draining
    <2> QED
      BY <2>2
  <1>d. t.deferred = x.deferred \/ fail
    OBVIOUS
  <1>n. t.names = x.names \/ fail
    OBVIOUS
  <1> HIDE DEF t, r
  <1>8. /\ Core(r, {} \ {h}) /\ In(r) \cup Wa(r) = (In(t) \cup Wa(t)) \ {h}
        /\ r.handle = [t.handle EXCEPT ![h] = HandleAfter(t, h, TRUE)]
        /\ r.names = t.names /\ r.deferred = t.deferred
        /\ Len(r.inflight) + Len(r.waiting) = (Len(t.inflight) + Len(t.waiting)) - 1
    BY <1>6 DEF Ends
  <1>9. Core(r, {}) /\ Len(r.inflight) + Len(r.waiting) = k - 1
    BY <1>5, <1>8, CoreWeaker DEF Draining
  <1>10. \A g \in Handle : r.handle[g] =
           IF g = h THEN IF fail THEN "pending" ELSE Freed(h) ELSE x.handle[g]
    <2>1. t.handle \in [Handle -> {"new", "live", "pending", "done"}]
      BY <1>5 DEF Core, Bases
    <2>2. t.handle[h] = IF fail THEN "pending" ELSE "live"
      BY <1>3, <1>4, <1>5
    <2>3. HandleAfter(t, h, TRUE) = IF fail THEN "pending" ELSE Freed(h)
      BY <2>2 DEF HandleAfter
    <2>4. \A g \in Handle : g # h => t.handle[g] = x.handle[g]
      BY <1>4, <1>5
    <2> QED
      BY <1>3, <1>8, <2>1, <2>3, <2>4
  <1>11. Handles(r, {})
    <2>1. CASE fail
      BY <1>7, <2>1 DEF Sound, Rest
    <2>2. CASE ~fail
      <3>1. Freed(h) \in {"new", "done"} /\ (h \in Nameserver => Freed(h) = "new")
        BY Blank DEF Freed
      <3>2. In(r) \cup Wa(r) = (In(x) \cup Wa(x)) \ {h} /\ r.names = x.names
            /\ r.deferred = x.deferred
        BY <1>5, <1>8, <1>d, <1>n, <2>2
      <3>3. \A g \in Handle \ {} : r.handle[g] = "live" <=> g \in In(r) \cup Wa(r)
        BY <1>1, <1>10, <2>2, <3>1, <3>2 DEF Handles
      <3>4. \A g \in Handle : r.handle[g] = "pending" <=>
                                \E i \in DOMAIN r.deferred : r.deferred[i].handle = g
        BY <1>1, <1>4, <1>10, <2>2, <3>1, <3>2 DEF Handles
      <3>5. \A n \in Nameserver : r.handle[n] # "done"
        BY <1>1, <1>10, <2>2, <3>1, Blank DEF Handles
      <3> QED
        BY <1>1, <3>2, <3>3, <3>4, <3>5 DEF Handles
    <2> QED
      BY <2>1, <2>2
  <1>12. NoneProbed(r, fail)
    <2>1. CASE \A n \in Nameserver : x.handle[n] = "new"
      <3>1. h \notin Nameserver
        BY <1>4, <2>1
      <3> QED
        BY <1>10, <2>1, <3>1, Blank DEF NoneProbed
    <2>2. CASE ~fail /\ \A n \in Nameserver : x.handle[n] # "pending"
      BY <1>10, <2>2, Blank DEF NoneProbed, Freed
    <2> QED
      BY <2>1, <2>2 DEF Draining, NoneProbed
  <1> QED
    BY <1>2, <1>7, <1>9, <1>11, <1>12 DEF Draining, r

(* evdns_base_free. *)
LEMMA FreeStep ==
  ASSUME Inv, NEW net \in Net, NEW fail \in BOOLEAN, evdns_base_free(fail, net)
  PROVE  Inv'
  <1> DEFINE N == dns.ninflight + dns.nwaiting
             Turn(x) == Drain(x, fail, net)
             Eq(f) == f = [i \in 0 .. N |->
                              IF i = 0 THEN dns ELSE Drain(f[i - 1], fail, net)]
             t == CHOOSE f : Eq(f)
             K == {p \in Nat \X Bases : p[1] <= N /\ Draining(p[2], N - p[1], fail)}
             g == [p \in (1 .. N) \X Bases |-> Turn(p[2])]
             ns2 == [n \in Nameserver |-> NewServer]
             r == [t[N] EXCEPT !.alive = FALSE, !.ninflight = 0, !.nwaiting = 0,
                               !.servers = <<>>, !.good = 0, !.ns = ns2]
  <1>1. Sound(dns) /\ set \in Settings /\ Core(dns, {}) /\ Handles(dns, {}) /\ dns \in Bases
    BY DEF Inv, Sound, Core, Rest
  <1>2. /\ Step(r, net)
        /\ NoProbes \/ (~fail /\ \A n \in Nameserver : dns.handle[n] # "pending")
    BY DEF evdns_base_free
  <1>3. N \in Nat /\ Len(dns.inflight) + Len(dns.waiting) = N
    <2> DEFINE a == Len(dns.inflight)
               b == Len(dns.waiting)
    <2>1. a \in Nat /\ b \in Nat
      BY <1>1, ListsOver
    <2>2. dns.ninflight = a /\ dns.nwaiting = b
      BY <1>1 DEF Core, Lists
    <2> HIDE DEF a, b
    <2>3. N = a + b
      BY <2>2
    <2>4. N \in Nat
      BY <2>1, <2>3
    <2> QED
      BY <2>3, <2>4 DEF a, b
  <1>4. Draining(dns, N, fail)
    BY <1>1, <1>2, <1>3 DEF Draining, NoneProbed, NoProbes
  <1>5. \A k, x : Draining(x, k, fail) => x \in Bases
    BY DEF Draining, Core
  <1>6. \A f : Eq(f) <=> f = [i \in 0 .. N |-> IF i = 0 THEN dns ELSE Turn(f[i - 1])]
    OBVIOUS
  <1>7. ASSUME NEW i \in 1 .. N, NEW x, Draining(x, N - (i - 1), fail)
        PROVE  Draining(Turn(x), N - i, fail)
    <2> DEFINE k == N - (i - 1)
    <2>1. k \in Nat /\ k # 0 /\ k - 1 = N - i
      BY <1>3
    <2> HIDE DEF k
    <2>2. Draining(x, k, fail)
      BY <1>7 DEF k
    <2>3. Draining(Turn(x), k - 1, fail)
      BY <1>1, <2>1, <2>2, DrainTurn
    <2> QED
      BY <2>1, <2>3
  <1> HIDE DEF N, Turn, Eq
  <1>8. \A i \in 1 .. N, x \in Bases : g[<<i, x>>] = Turn(x)
    OBVIOUS
  <1> HIDE DEF g
  <1>9. Keeping(N, dns, g, Bases, K)
    <2>1. <<0, dns>> \in K
      <3>1. 0 <= N /\ N - 0 = N
        BY <1>3
      <3> QED
        BY <1>1, <1>4, <3>1
    <2>2. \A i \in Nat : \A x : <<i, x>> \in K => x \in Bases
      OBVIOUS
    <2>3. \A i \in 1 .. N, x \in Bases : <<i - 1, x>> \in K => <<i, g[<<i, x>>]>> \in K
      <3> SUFFICES ASSUME NEW i \in 1 .. N, NEW x \in Bases, <<i - 1, x>> \in K
                   PROVE  <<i, g[<<i, x>>]>> \in K
        OBVIOUS
      <3>1. Draining(x, N - (i - 1), fail)
        OBVIOUS
      <3>2. Draining(Turn(x), N - i, fail)
        BY <1>7, <3>1
      <3>3. Turn(x) \in Bases /\ i \in Nat /\ i <= N
        BY <1>3, <1>5, <3>2
      <3> QED
        BY <1>8, <3>2, <3>3
    <2> HIDE DEF K
    <2> QED
      BY <2>1, <2>2, <2>3 DEF Keeping
  <1>10. PICK f : /\ f = [i \in 0 .. N |-> IF i = 0 THEN dns ELSE g[<<i, f[i - 1]>>]]
                  /\ \A i \in 1 .. N : f[i - 1] \in Bases /\ f[i] = g[<<i, f[i - 1]>>]
    <2> HIDE DEF K
    <2> QED
      BY <1>3, <1>9, LoopValues
  <1>11. Eq(f)
    <2>1. \A i \in 0 .. N : i # 0 => i \in 1 .. N
      BY <1>3
    <2>2. \A i \in 0 .. N : (IF i = 0 THEN dns ELSE g[<<i, f[i - 1]>>])
                          = (IF i = 0 THEN dns ELSE Turn(f[i - 1]))
      BY <1>8, <1>10, <2>1
    <2>3. f = [i \in 0 .. N |-> IF i = 0 THEN dns ELSE Turn(f[i - 1])]
      BY <1>10, <2>2
    <2> QED
      BY <1>6, <2>3
  <1>12. Eq(t)
    BY <1>11
  <1> DEFINE x == t[N]
  <1>13. Draining(x, 0, fail)
    <2> HIDE DEF t
    <2>1. Going(N, dns, g, Bases, t)
      <3>1. t[0] = dns /\ \A i \in 1 .. N : t[i] = Turn(t[i - 1])
        BY <1>3, <1>6, <1>12
      <3> QED
        BY <1>8, <3>1 DEF Going
    <2>2. <<N, t[N]>> \in K
      <3> HIDE DEF K
      <3> QED
        BY <1>3, <1>9, <2>1, LoopStays
    <2>3. N - N = 0
      BY <1>3
    <2> QED
      BY <2>2, <2>3
  <1> HIDE DEF x
  <1>14. r = [x EXCEPT !.alive = FALSE, !.ninflight = 0, !.nwaiting = 0,
                       !.servers = <<>>, !.good = 0, !.ns = ns2]
    BY DEF x
  <1> HIDE DEF r, t
  <1>15. /\ Core(x, {}) /\ Handles(x, {}) /\ NoneProbed(x, fail) /\ x \in Bases
         /\ x.inflight = <<>> /\ x.waiting = <<>> /\ In(x) = {} /\ Wa(x) = {}
    <2>1. Core(x, {}) /\ Handles(x, {}) /\ NoneProbed(x, fail) /\ x \in Bases
      BY <1>13 DEF Draining, Core
    <2> DEFINE a == Len(x.inflight)
               b == Len(x.waiting)
    <2>2. /\ a \in Nat /\ b \in Nat /\ a + b = 0
          /\ (x.inflight = <<>> <=> a = 0) /\ (x.waiting = <<>> <=> b = 0)
          /\ (x.inflight = <<>> <=> In(x) = {}) /\ (x.waiting = <<>> <=> Wa(x) = {})
      BY <1>13, <2>1, ListsOver DEF Draining
    <2>3. a = 0 /\ b = 0
      <3> HIDE DEF a, b
      <3> QED
        BY <2>2
    <2> QED
      BY <2>1, <2>2, <2>3
  <1>16. \A n \in Nameserver : x.handle[n] = "new"
    <2>1. \A h \in Handle : x.handle[h] # "live"
      BY <1>15 DEF Handles
    <2>2. x.handle \in [Handle -> {"new", "live", "pending", "done"}]
      BY <1>15 DEF Bases
    <2> QED
      BY <1>15, <2>1, <2>2, Blank DEF NoneProbed, Handles
  <1>17. ns2 \in [Nameserver -> Server] /\ \A n \in Nameserver : ns2[n] = NewServer
    BY Blank
  <1> HIDE DEF ns2
  <1>18. /\ r \in Bases /\ r.servers = <<>> /\ r.good = 0 /\ ~r.alive /\ r.ninflight = 0
         /\ r.nwaiting = 0 /\ r.ns = ns2 /\ r.inflight = <<>> /\ r.waiting = <<>>
         /\ r.req = x.req /\ r.handle = x.handle /\ r.names = x.names
         /\ r.deferred = x.deferred
    <2>1. <<>> \in Seq(Nameserver) /\ 0 \in Int /\ FALSE \in BOOLEAN
      OBVIOUS
    <2> QED
      BY <1>14, <1>15, <1>17, <2>1 DEF Bases
  <1>19. Core(r, {})
    <2>1. \A h \in Handle : r.req[h] = NewRequest
      BY <1>15, <1>18 DEF Core, Placed
    <2>2. Len(r.waiting) = 0 /\ IsInjective(r.waiting)
      <3>1. Len(<<>>) = 0 /\ DOMAIN <<>> = {}
        OBVIOUS
      <3> QED
        BY <1>18, <3>1 DEF IsInjective
    <2> QED
      BY <1>17, <1>18, <2>1, <2>2, BareCore
  <1>20. In(r) = {} /\ Wa(r) = {} /\ Sv(r) = {}
    BY <1>18, ListsOver
  <1>21. Handles(r, {})
    BY <1>15, <1>18, <1>20 DEF Handles
  <1>22. Probing(r, {})
    <2>1. \A i \in DOMAIN r.deferred : r.deferred[i].handle \notin Nameserver
      <3> SUFFICES ASSUME NEW i \in DOMAIN x.deferred, x.deferred[i].handle \in Nameserver
                   PROVE  FALSE
        BY <1>18
      <3>1. x.handle[x.deferred[i].handle] = "pending"
        BY <1>15, Blank DEF Handles
      <3> QED
        BY <1>16, <3>1
    <2>2. \A n \in Nameserver : ~r.ns[n].probe /\ n \notin Sv(r) /\ r.handle[n] = "new"
      BY <1>16, <1>17, <1>18, <1>20, Blank
    <2> QED
      BY <2>1, <2>2 DEF Probing
  <1>23. Emptied(r) /\ Served(r)
    BY <1>18 DEF Emptied, Served
  <1>24. Sound(r)
    BY <1>19, <1>21, <1>22, <1>23 DEF Sound, Rest
  <1> QED
    BY <1>2, <1>24, StepSound

-----------------------------------------------------------------------------
(* Every step keeps the invariant. *)
LEMMA StepInvariant == Inv /\ [Next]_vars => Inv'
  <1> SUFFICES ASSUME Inv, [Next]_vars PROVE Inv'
    OBVIOUS
  <1>1. ASSUME NEW net \in Net, Loop(net) PROVE Inv'
    <2>1. ASSUME NEW h \in Handle, Timeout(h, net) PROVE Inv'
      BY <2>1, TimeoutStep
    <2>2. ASSUME NEW n \in Nameserver, NEW h \in Handle, NEW reply \in Reply,
                 nameserver_read(n, h, reply, net)
          PROVE  Inv'
      BY <2>2, ReadStep
    <2>3. ASSUME NEW n \in Nameserver, WriteReady(n, net) PROVE Inv'
      BY <2>3, WriteStep
    <2>4. ASSUME NEW n \in Nameserver, nameserver_prod_callback(n, net) PROVE Inv'
      BY <2>4, ProdStep
    <2>5. ASSUME reply_run_callback(net) PROVE Inv'
      BY <2>5, CallbackStep
    <2> QED
      BY <1>1, <2>1, <2>2, <2>3, <2>4, <2>5 DEF Loop
  <1>2. ASSUME NEW net \in Net, User(net) PROVE Inv'
    <2>1. ASSUME NEW h \in set.users, Cancel(h, net) PROVE Inv'
      BY <2>1, CancelStep
    <2>2. ASSUME NEW h \in set.users, NEW k \in SearchNames, Resolve(h, k, net) PROVE Inv'
      BY <2>2, ResolveStep
    <2>3. ASSUME evdns_base_resume(net) PROVE Inv'
      BY <2>3, ResumeStep
    <2>4. ASSUME NEW fail \in BOOLEAN, evdns_base_free(fail, net) PROVE Inv'
      BY <2>4, FreeStep
    <2> QED
      BY <1>2, <2>1, <2>2, <2>3, <2>4 DEF User
  <1>3. ASSUME NEW n \in Nameserver, ReadError(n) PROVE Inv'
    BY <1>3, ErrorStep
  <1>4. ASSUME NEW n \in Nameserver, Add(n) PROVE Inv'
    BY <1>4, AddStep
  <1>5. ASSUME evdns_base_clear_nameservers_and_suspend PROVE Inv'
    BY <1>5, ClearStep
  <1>6. ASSUME UNCHANGED vars PROVE Inv'
    <2>1. Sound(dns) /\ dns' = dns /\ set' = set
      BY <1>6 DEF Inv, vars
    <2> QED
      BY <2>1, NextSound
  <1> QED
    BY <1>1, <1>2, <1>3, <1>4, <1>5, <1>6 DEF Next

(***************************************************************************)
(* Between two calls of the resolver its lists, counters, requests and     *)
(* handles agree, whatever calls, answers, timeouts and failures came      *)
(* before.                                                                 *)
(***************************************************************************)
THEOREM Invariance == Spec => []Inv
  <1> QED
    BY InitInvariant, StepInvariant, PTL DEF Spec

(* The handles, as QueuesExact states them. *)
LEMMA HandlesAre == Inv => HandlesExact
  <1> SUFFICES ASSUME Inv PROVE HandlesExact
    OBVIOUS
  <1> DEFINE queued == dns.inflight \o dns.waiting
             I(h) == {i \in DOMAIN dns.deferred : dns.deferred[i].handle = h}
  <1>1. dns \in Bases /\ Lists(dns) /\ Handles(dns, {})
    BY DEF Inv, Sound, Core, Rest
  <1>2. IsInjective(queued) /\ ToSet(queued) = In(dns) \cup Wa(dns)
    <2>1. dns.inflight \in Seq(Handle) /\ dns.waiting \in Seq(Handle)
      BY <1>1 DEF Bases
    <2>2. /\ IsInjective(dns.inflight) /\ IsInjective(dns.waiting)
          /\ ToSet(dns.inflight) \cap ToSet(dns.waiting) = {}
      BY <1>1 DEF Lists, In, Wa
    <2> QED
      BY <2>1, <2>2, ConcatKeeps DEF IsList, In, Wa
  <1>3. \A h \in Handle : dns.handle[h] = "live" <=> h \in ToSet(queued)
    BY <1>1, <1>2 DEF Handles
  <1>4. ASSUME NEW h \in Handle
        PROVE  Cardinality(I(h)) = IF dns.handle[h] = "pending" THEN 1 ELSE 0
    <2>1. CASE dns.handle[h] = "pending"
      <3>1. PICK i \in DOMAIN dns.deferred : dns.deferred[i].handle = h
        BY <1>1, <2>1 DEF Handles
      <3>2. \A j \in DOMAIN dns.deferred : dns.deferred[j].handle = h => j = i
        BY <1>1, <3>1 DEF Handles
      <3>3. I(h) = {i}
        BY <3>1, <3>2
      <3> QED
        BY <2>1, <3>3, FS_Singleton
    <2>2. CASE dns.handle[h] # "pending"
      <3>1. I(h) = {}
        BY <1>1, <2>2 DEF Handles
      <3> QED
        BY <2>2, <3>1, FS_EmptySet
    <2> QED
      BY <2>1, <2>2
  <1> QED
    BY <1>2, <1>3, <1>4 DEF HandlesExact

(***************************************************************************)
(* The lists, counters and handles of the resolver agree after every call: *)
(* num_good_nameservers, the two global counters and every nameserver's    *)
(* requests_inflight are what is there, a live handle's request is in      *)
(* exactly one queue, once, and a callback is scheduled at most once.      *)
(***************************************************************************)
THEOREM QueuesCorrect == Spec => []QueuesExact
  <1>1. Inv => CountersExact
    BY DEF Inv, Sound, Core, Lists, Ups, Loads, CountersExact, At, UpIn, Inflight
  <1>2. Inv => QueuesExact
    BY <1>1, HandlesAre DEF QueuesExact
  <1> QED
    BY <1>2, Invariance, PTL

(***************************************************************************)
(* A request in flight is never forgotten: evdns_request_transmit leaves   *)
(* it with a timer or, when the socket is full, marked while some          *)
(* nameserver's event waits for EV_WRITE.                                  *)
(***************************************************************************)
THEOREM NothingStuckCorrect == Spec => []NothingStuck
  <1>1. Inv => NothingStuck
    BY DEF Inv, Sound, Core, NothingStuck, Moves, Inflight, In, Sv
  <1> QED
    BY <1>1, Invariance, PTL

(***************************************************************************)
(* A nameserver that is down has its timer set, its probe in flight or the *)
(* callback of its probe on its way: nameserver_failed, the callback of a  *)
(* probe and nameserver_up never leave it aside for good.                  *)
(***************************************************************************)
THEOREM ProbingCorrect == Spec => []DownIsProbed
  <1>1. Inv => DownIsProbed
    <2> SUFFICES ASSUME Inv, NEW n \in ToSet(dns.servers)
                 PROVE  /\ ~dns.ns[n].state => dns.ns[n].timer \/ dns.handle[n] # "new"
                        /\ dns.ns[n].probe => dns.handle[n] # "new"
      BY DEF DownIsProbed
    <2>1. Probing(dns, {}) /\ n \in Sv(dns) /\ n \in Nameserver
      BY ListsOver DEF Inv, Sound, Core, Rest, Sv
    <2> QED
      BY <2>1 DEF Probing
  <1> QED
    BY <1>1, Invariance, PTL

(***************************************************************************)
(* When a search always has room for two requests in flight, requests wait *)
(* only behind one in flight, whose end promotes them.                     *)
(***************************************************************************)
THEOREM WaitingCorrect ==
  ASSUME RoomToSearch
  PROVE  Spec => []WaitingIsServed
  <1>1. Inv => WaitingIsServed
    BY DEF Inv, Sound, Rest, Served, WaitingIsServed
  <1> QED
    BY <1>1, Invariance, PTL
=============================================================================
