---- MODULE MCAnticSystem ----
(***************************************************************************)
(* Instance of AnticSystem: a request of either kind, whose refetch gets   *)
(* no reply any more, and two connections, one after the other.            *)
(***************************************************************************)
EXTENDS AnticSystem

====
