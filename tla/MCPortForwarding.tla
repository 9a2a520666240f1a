-------------------------- MODULE MCPortForwarding -------------------------
(***************************************************************************)
(* PortForwarding for TLC: two forwardings that bind the same port.         *)
(***************************************************************************)
EXTENDS PortForwarding

MCPortOf == [c \in Conns |-> 8080]

=============================================================================
