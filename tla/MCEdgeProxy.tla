---- MODULE MCEdgeProxy ----
(***************************************************************************)
(* Instance of EdgeProxy: a read and a write publish at the same time, and *)
(* the client's two streams may overlap.                                   *)
(***************************************************************************)
EXTENDS EdgeProxy

====
