------------------------------ MODULE MCEvdns ------------------------------
(***************************************************************************)
(* Settings for Evdns.  A search of two names by two users; a queue of one *)
(* whose nameserver is taken away and added again; a search with two       *)
(* nameservers that answer or not; two nameservers and trouble in sending. *)
(***************************************************************************)
EXTENDS Evdns

CONSTANTS u1, n1

Plain == [max |-> 2, names |-> 0, users |-> Users,
          servers |-> {n1}, trouble |-> 1, clears |-> 0]

MCSettings ==
    {[Plain EXCEPT !.names = 1],
     [Plain EXCEPT !.max = 1, !.clears = 1],
     [Plain EXCEPT !.names = 1, !.users = {u1}, !.servers = Nameserver, !.trouble = 0],
     [Plain EXCEPT !.users = {u1}, !.servers = Nameserver]}

=============================================================================
