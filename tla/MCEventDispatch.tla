-------------------------- MODULE MCEventDispatch --------------------------
(***************************************************************************)
(* Two priorities; a persistent reader and a persistent timer, both with   *)
(* the common timeout, and a deferred callback; one thread beside the      *)
(* loop's.                                                                 *)
(***************************************************************************)
EXTENDS EventDispatch

CONSTANTS rdEv, tmEv, dfEv

MCPri == [e \in {rdEv, tmEv, dfEv, NOTIFY, CTL, EXIT} |->
            IF e \in {rdEv, dfEv, EXIT} THEN 1 ELSE 0]
In(n) == [d |-> n, common |-> FALSE]
Common == [d |-> 2, common |-> TRUE]
MCTvs == {NoTv, In(1), Common}
MCAdded == << <<rdEv, Common>>, <<tmEv, Common>> >>
MCLoopFlags == {{"ONCE"}}
=============================================================================
