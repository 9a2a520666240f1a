-------------------------- MODULE ForwardingTable --------------------------
(***************************************************************************)
(* What the forwardings promise whoever starts and stops them: each is      *)
(* stopped, starting, running or stopping, one change is under way at a     *)
(* time, and a forwarding that is stopped again has given back its port and *)
(* its SSH session, so that the next start finds neither of them taken.     *)
(* The port and the session of a running one may be lost at any time; that  *)
(* alone does not stop it.                                                  *)
(*                                                                          *)
(* PortForwarding, where the requests queue for a mutex and tunnels move    *)
(* between two maps and the request in progress, is the code and is shown   *)
(* to implement this module.                                                *)
(***************************************************************************)

CONSTANTS Conns, Tunnels, PortOf, None

VARIABLES
  phase,   \* of each forwarding
  tunnel,  \* the tunnel that belongs to each forwarding, or None
  bound,   \* the tunnels that hold their port
  live     \* the tunnels that have an SSH session

vars == <<phase, tunnel, bound, live>>

Init ==
  /\ phase = [c \in Conns |-> "stopped"]
  /\ tunnel = [c \in Conns |-> None]
  /\ bound = {}
  /\ live = {}

\* The runtime does one thing at a time.
Quiet == \A c \in Conns : phase[c] \in {"stopped", "running"}

Start(c) ==
  /\ Quiet
  /\ phase[c] = "stopped"
  /\ \A d \in Conns : tunnel[d] \in bound => PortOf[d] # PortOf[c]
  /\ phase' = [phase EXCEPT ![c] = "starting"]
  /\ \E t \in Tunnels \ (bound \cup live) :
       /\ \A d \in Conns : tunnel[d] # t
       /\ tunnel' = [tunnel EXCEPT ![c] = t]
       /\ bound' = bound \cup {t}
  /\ UNCHANGED live

Started(c) ==
  /\ phase[c] = "starting"
  /\ phase' = [phase EXCEPT ![c] = "running"]
  /\ live' = live \cup {tunnel[c]}
  /\ UNCHANGED <<tunnel, bound>>

StartFails(c) ==
  /\ phase[c] = "starting"
  /\ phase' = [phase EXCEPT ![c] = "stopped"]
  /\ tunnel' = [tunnel EXCEPT ![c] = None]
  /\ bound' = bound \ {tunnel[c]}
  /\ UNCHANGED live

Stop(c) ==
  /\ Quiet
  /\ phase[c] = "running"
  /\ phase' = [phase EXCEPT ![c] = "stopping"]
  /\ UNCHANGED <<tunnel, bound, live>>

\* The port: when it is stopped, or by an error before.
Unbind(c) ==
  /\ phase[c] \in {"running", "stopping"}
  /\ bound' = bound \ {tunnel[c]}
  /\ UNCHANGED <<phase, tunnel, live>>

\* The session: by an error.
Lose(c) ==
  /\ phase[c] \in {"running", "stopping"}
  /\ live' = live \ {tunnel[c]}
  /\ UNCHANGED <<phase, tunnel, bound>>

Stopped(c) ==
  /\ phase[c] = "stopping"
  /\ tunnel[c] \notin bound
  /\ phase' = [phase EXCEPT ![c] = "stopped"]
  /\ tunnel' = [tunnel EXCEPT ![c] = None]
  /\ live' = live \ {tunnel[c]}
  /\ UNCHANGED bound

Next ==
  \E c \in Conns :
    \/ Start(c) \/ Started(c) \/ StartFails(c)
    \/ Stop(c) \/ Unbind(c) \/ Lose(c) \/ Stopped(c)

Spec == Init /\ [][Next]_vars

=============================================================================
