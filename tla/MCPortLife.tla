----------------------------- MODULE MCPortLife -----------------------------
(***************************************************************************)
(* Model values for PortLife: a port table of two slots (erts_max_ports is *)
(* at least 1024, but get_free_port and the life cycle do not depend on    *)
(* its size), two wraps of the port id counter, two processes and at most *)
(* two queued bytes per port.                                              *)
(***************************************************************************)
EXTENDS PortLife

CONSTANTS p1, p2

MCProcs == {p1, p2}
=============================================================================
