------------------------- MODULE CtCImplementsRead -------------------------
(* The request machinery of CtCRequests implements RemoteRead.              *)
EXTENDS CtCRequests

(* A call is open from KVStore::get's lookup to its return, and answered   *)
(* once its thread is woken.                                               *)
InCall(t) == pc[t] \notin {"idle", "setting"}

Read == INSTANCE RemoteRead WITH
  held   <- store,
  call   <- [t \in Thread |->
               IF InCall(t) THEN <<Owner[Peer[tconn[t]]], tkey[t]>> ELSE <<>>],
  answer <- [t \in Thread |-> IF pc[t] = "woken" THEN {rval[treq[t]]} ELSE {}]

(* Every behaviour without spurious wakeups, faults included, is one that  *)
(* RemoteRead allows: get_value never returns a DataFrame that was not     *)
(* asked for or that the owner does not hold, and a woken call has one.    *)
ImplementsRead == Read!Spec

(* Without faults and with room in the sockets the calls are also answered. *)
ImplementsFairRead == Read!FairSpec

============================================================================
