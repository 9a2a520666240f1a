--------------------------- MODULE PortForwarding --------------------------
(***************************************************************************)
(* Saved port forwardings: the requests of HomePage (main/src/home_tab.rs), *)
(* PortForwardingRuntime (crates/port_forwarding/src/runtime.rs) and the    *)
(* tunnels of crates/ssh (ssh.rs and dynamic_socks.rs have the same shape). *)
(*                                                                          *)
(* Every start or stop is a task on the UI executor that waits for the      *)
(* runtime's mutex and holds it across the SSH connect or the tunnel's      *)
(* close; when it has it released, it updates ActiveConnections before the  *)
(* UI thread runs anything else.  A tunnel has an accept task that owns the *)
(* listening socket, one relay per inbound connection, and an SSH client    *)
(* whose mutex a relay holds while it opens its channel.  Before that, the  *)
(* relay of a dynamic tunnel reads a SOCKS request, which may never come.   *)
(***************************************************************************)
EXTENDS Naturals, Sequences, FiniteSets

CONSTANTS
  Conns,      \* the saved forwardings
  Tunnels,    \* tunnel objects; one that nothing refers to is fresh
  PortOf,     \* the port each forwarding binds
  None,       \* no tunnel, no request
  MaxWaiting, \* bound: requests waiting for the mutex
  MaxRelays   \* bound: relays of a tunnel

ASSUME ForwardingAssumption ==
  /\ None \notin Tunnels \cup Conns
  /\ MaxWaiting \in Nat
  /\ MaxRelays \in Nat
  /\ DOMAIN PortOf = Conns

VARIABLES
  saved,     \* HomePage still has the connection and shows its card
  active,    \* ActiveConnections: the card has a stop button
  dialog,    \* the connections whose deletion is to be confirmed
  waiting,   \* requests waiting for the runtime's mutex, in order
  current,   \* the request that holds it; step "idle" when none does
  map,       \* map[k][c]: local_tunnels and dynamic_tunnels
  listener,  \* listener[t]: the socket is bound; an accept task or dial owns it
  up,        \* up[t]: the client's SSH session lives and was not told to end
  accepted,  \* accepted[t]: relays that have not asked for the client yet
  opening,   \* opening[t]: relays that wait for the client or open a channel
  copying    \* copying[t]: relays in copy_bidirectional

home == <<saved, active, dialog>>
tunnel == <<listener, up, accepted, opening, copying>>
vars == <<home, waiting, current, map, tunnel>>

\* One map of the runtime each.
Kinds == {"local", "dynamic"}

Relays(t) == accepted[t] + opening[t] + copying[t]

Requests == [op : {"start", "stop"}, conn : Conns, kind : Kinds]
Steps == {"idle", "dial", "close", "disconnect"}

TypeOK ==
  /\ saved \subseteq Conns
  /\ active \subseteq Conns
  /\ dialog \subseteq Conns
  /\ waiting \in Seq(Requests)
  /\ current \in [step : Steps, req : Requests \cup {None}, tunnel : Tunnels \cup {None}]
  /\ map \in [Kinds -> [Conns -> Tunnels \cup {None}]]
  /\ listener \in [Tunnels -> BOOLEAN]
  /\ up \in [Tunnels -> BOOLEAN]
  /\ accepted \in [Tunnels -> Nat]
  /\ opening \in [Tunnels -> Nat]
  /\ copying \in [Tunnels -> Nat]
  /\ \A t \in Tunnels : Relays(t) <= MaxRelays

Idle == [step |-> "idle", req |-> None, tunnel |-> None]

Init ==
  /\ saved = Conns
  /\ active = {}
  /\ dialog = {}
  /\ waiting = <<>>
  /\ current = Idle
  /\ map = [k \in Kinds |-> [c \in Conns |-> None]]
  /\ listener = [t \in Tunnels |-> FALSE]
  /\ up = [t \in Tunnels |-> FALSE]
  /\ accepted = [t \in Tunnels |-> 0]
  /\ opening = [t \in Tunnels |-> 0]
  /\ copying = [t \in Tunnels |-> 0]

Acquires(op) == current = Idle /\ waiting # <<>> /\ Head(waiting).op = op
Holds(step) == current.step = step

InMap(t) == \E k \in Kinds, c \in Conns : map[k][c] = t

Dialing(t) == Holds("dial") /\ current.tunnel = t

Fresh(t) ==
  /\ ~InMap(t)
  /\ current.tunnel # t
  /\ ~listener[t]
  /\ Relays(t) = 0

\* Mutants: only the map the request is about to fill is looked at.
IsRunning_ownMap(c) == waiting # <<>> /\ map[Head(waiting).kind][c] # None
IsRunning(c) == \E k \in Kinds : map[k][c] # None

PortFree(c) ==
  \A t \in Tunnels : listener[t] =>
    /\ \A k \in Kinds, d \in Conns : map[k][d] = t => PortOf[d] # PortOf[c]
    /\ current.tunnel = t => PortOf[current.req.conn] # PortOf[c]

-----------------------------------------------------------------------------
(* HomePage *)

Ask(op, c, k) ==
  /\ dialog = {}
  /\ c \in saved
  /\ Len(waiting) < MaxWaiting
  /\ waiting' = Append(waiting, [op |-> op, conn |-> c, kind |-> k])
  /\ UNCHANGED <<home, current, map, tunnel>>

\* open_port_forwarding: also of a card that is active.  The kind is the one
\* the connection is saved with at that time; editing may have changed it.
Open(c, k) == Ask("start", c, k)

\* stop_port_forwarding; the kind plays no part.
StopButton(c) == c \in active /\ Ask("stop", c, CHOOSE k \in Kinds : TRUE)

AskDelete(S) ==
  /\ dialog = {}
  /\ S # {}
  /\ S \subseteq saved
  /\ dialog' = S
  /\ UNCHANGED <<saved, active, waiting, current, map, tunnel>>

\* confirm_delete_connection: "in use and must be closed before deletion".
DeleteButton(c) == c \notin active /\ AskDelete({c})

\* handle_batch_delete looks at no connection of the selection.
DeleteSelected(S) == AskDelete(S)

Delete ==
  /\ dialog # {}
  /\ saved' = saved \ dialog
  /\ dialog' = {}
  /\ UNCHANGED <<active, waiting, current, map, tunnel>>

KeepConnections ==
  /\ dialog # {}
  /\ dialog' = {}
  /\ UNCHANGED <<saved, active, waiting, current, map, tunnel>>

-----------------------------------------------------------------------------
(* The request that holds the runtime *)

\* Already running, the port is taken by a tunnel or by another program, or binding
\* fails for another reason.
RefuseStart ==
  /\ Acquires("start")
  /\ waiting' = Tail(waiting)
  /\ UNCHANGED <<home, current, map, tunnel>>

Bind ==
  /\ Acquires("start")
  /\ ~IsRunning(Head(waiting).conn)
  /\ PortFree(Head(waiting).conn)
  /\ \E t \in Tunnels :
       /\ Fresh(t)
       /\ current' = [step |-> "dial", req |-> Head(waiting), tunnel |-> t]
       /\ listener' = [listener EXCEPT ![t] = TRUE]
  /\ waiting' = Tail(waiting)
  /\ UNCHANGED <<home, map, up, accepted, opening, copying>>

\* The accept task is spawned, the tunnel is inserted, the mutex is released,
\* and the connection is added to ActiveConnections.
\* Mutant: the caller forgets ActiveConnections.
DialOk_notActive ==
  /\ Holds("dial")
  /\ up' = [up EXCEPT ![current.tunnel] = TRUE]
  /\ map' = [map EXCEPT ![current.req.kind][current.req.conn] = current.tunnel]
  /\ current' = Idle
  /\ UNCHANGED <<home, waiting, listener, accepted, opening, copying>>
DialOk ==
  /\ Holds("dial")
  /\ up' = [up EXCEPT ![current.tunnel] = TRUE]
  /\ map' = [map EXCEPT ![current.req.kind][current.req.conn] = current.tunnel]
  /\ active' = active \cup {current.req.conn}
  /\ current' = Idle
  /\ UNCHANGED <<saved, dialog, waiting, listener, accepted, opening, copying>>

\* Mutant: the socket was given to a task before the connect.
DialErr_keepsListener ==
  /\ Holds("dial")
  /\ current' = Idle
  /\ UNCHANGED <<home, waiting, map, tunnel>>
DialErr ==
  /\ Holds("dial")
  /\ listener' = [listener EXCEPT ![current.tunnel] = FALSE]
  /\ current' = Idle
  /\ UNCHANGED <<home, waiting, map, up, accepted, opening, copying>>

\* stop(): out of the map first, the local one before the dynamic one; then
\* the accept task is told to end.
TakeTunnel ==
  /\ Acquires("stop")
  /\ IsRunning(Head(waiting).conn)
  /\ LET c == Head(waiting).conn
         k == IF map["local"][c] # None THEN "local" ELSE "dynamic"
     IN /\ map' = [map EXCEPT ![k][c] = None]
        /\ current' = [step |-> "close", req |-> Head(waiting), tunnel |-> map[k][c]]
  /\ waiting' = Tail(waiting)
  /\ UNCHANGED <<home, tunnel>>

RefuseStop ==
  /\ Acquires("stop")
  /\ ~IsRunning(Head(waiting).conn)
  /\ waiting' = Tail(waiting)
  /\ UNCHANGED <<home, current, map, tunnel>>

\* The accept task has ended, by the shutdown signal or by itself before.
\* Mutants: the task is joined before the signal is sent; it is not joined.
JoinAccept_first ==
  /\ Holds("close")
  /\ ~listener[current.tunnel]
  /\ current' = [current EXCEPT !.step = "disconnect"]
  /\ UNCHANGED <<home, waiting, map, tunnel>>
JoinAccept_skipped ==
  /\ Holds("close")
  /\ current' = [current EXCEPT !.step = "disconnect"]
  /\ UNCHANGED <<home, waiting, map, tunnel>>
JoinAccept ==
  /\ Holds("close")
  /\ listener' = [listener EXCEPT ![current.tunnel] = FALSE]
  /\ current' = [current EXCEPT !.step = "disconnect"]
  /\ UNCHANGED <<home, waiting, map, up, accepted, opening, copying>>

\* The client's mutex is free of relays.  disconnect() queues a message for the
\* session's task and does not wait: what the session still carries goes on for a
\* moment, but a channel open queued later is not answered any more.  It fails when
\* the session is gone already; then the connection stays in ActiveConnections.
\* Mutant: the tunnel is dropped without disconnecting the session.
Disconnect_skipped ==
  /\ Holds("disconnect")
  /\ opening[current.tunnel] = 0
  /\ active' = active \ {current.req.conn}
  /\ current' = Idle
  /\ UNCHANGED <<saved, dialog, waiting, map, tunnel>>
Disconnect ==
  /\ Holds("disconnect")
  /\ opening[current.tunnel] = 0
  /\ up' = [up EXCEPT ![current.tunnel] = FALSE]
  /\ active' = IF up[current.tunnel]
               THEN active \ {current.req.conn} ELSE active
  /\ current' = Idle
  /\ UNCHANGED <<saved, dialog, waiting, map, listener, accepted, opening, copying>>

-----------------------------------------------------------------------------
(* A tunnel *)

Accept(t) ==
  /\ listener[t]
  /\ ~Dialing(t)
  /\ Relays(t) < MaxRelays
  /\ accepted' = [accepted EXCEPT ![t] = @ + 1]
  /\ UNCHANGED <<home, waiting, current, map, listener, up, opening, copying>>

\* The accept task breaks; the tunnel stays in the map.
AcceptFails(t) ==
  /\ listener[t]
  /\ ~Dialing(t)
  /\ listener' = [listener EXCEPT ![t] = FALSE]
  /\ UNCHANGED <<home, waiting, current, map, up, accepted, opening, copying>>

\* It waits for the client's mutex; of a dynamic tunnel, once its SOCKS request
\* has come.
AskChannel(t) ==
  /\ accepted[t] > 0
  /\ accepted' = [accepted EXCEPT ![t] = @ - 1]
  /\ opening' = [opening EXCEPT ![t] = @ + 1]
  /\ UNCHANGED <<home, waiting, current, map, listener, up, copying>>

\* The SOCKS request is bad, or its client leaves.
BadRequest(t) ==
  /\ accepted[t] > 0
  /\ accepted' = [accepted EXCEPT ![t] = @ - 1]
  /\ UNCHANGED <<home, waiting, current, map, listener, up, opening, copying>>

ChannelOpens(t) ==
  /\ opening[t] > 0
  /\ up[t]
  /\ opening' = [opening EXCEPT ![t] = @ - 1]
  /\ copying' = [copying EXCEPT ![t] = @ + 1]
  /\ UNCHANGED <<home, waiting, current, map, listener, up, accepted>>

ChannelRefused(t) ==
  /\ opening[t] > 0
  /\ opening' = [opening EXCEPT ![t] = @ - 1]
  /\ UNCHANGED <<home, waiting, current, map, listener, up, accepted, copying>>

\* At the end of its session copy_bidirectional shuts the local socket for writing
\* only, and waits for the local client to close it: a relay need not end.
RelayEnds(t) ==
  /\ copying[t] > 0
  /\ copying' = [copying EXCEPT ![t] = @ - 1]
  /\ UNCHANGED <<home, waiting, current, map, listener, up, accepted, opening>>

LinkDies(t) ==
  /\ up[t]
  /\ up' = [up EXCEPT ![t] = FALSE]
  /\ UNCHANGED <<home, waiting, current, map, listener, accepted, opening, copying>>

-----------------------------------------------------------------------------
Dial == DialOk \/ DialErr
Channel(t) == ChannelOpens(t) \/ ChannelRefused(t)

Next ==
  \/ \E c \in Conns :
       \/ \E k \in Kinds : Open(c, k)
       \/ StopButton(c) \/ DeleteButton(c)
  \/ \E S \in SUBSET saved : DeleteSelected(S)
  \/ Delete \/ KeepConnections
  \/ RefuseStart \/ Bind \/ DialOk \/ DialErr
  \/ TakeTunnel \/ RefuseStop \/ JoinAccept \/ Disconnect
  \/ \E t \in Tunnels :
       \/ Accept(t) \/ AcceptFails(t) \/ AskChannel(t) \/ BadRequest(t)
       \/ ChannelOpens(t) \/ ChannelRefused(t) \/ RelayEnds(t) \/ LinkDies(t)

Spec == Init /\ [][Next]_vars

\* The executors poll every task.  That a connect ends is assumed: one through a
\* proxy has no time limit, and would hold the runtime's mutex for ever.  The server
\* answers a channel open or the keepalive ends the session.  Neither a SOCKS request
\* nor the end of a relay need come.
FairSpec ==
  /\ Spec
  /\ WF_vars(RefuseStart \/ Bind \/ TakeTunnel \/ RefuseStop)
  /\ WF_vars(Dial)
  /\ WF_vars(JoinAccept)
  /\ WF_vars(Disconnect)
  /\ \A t \in Tunnels : WF_vars(Channel(t))

-----------------------------------------------------------------------------
(* What the runtime promises *)

IsCurrent(c) == current # Idle /\ current.req.conn = c

Phase(c) ==
  CASE IsCurrent(c) /\ current.step = "dial" -> "starting"
    [] IsCurrent(c) /\ current.step # "dial" -> "stopping"
    [] ~IsCurrent(c) /\ IsRunning(c) -> "running"
    [] ~IsCurrent(c) /\ ~IsRunning(c) -> "stopped"

TunnelOf(c) ==
  IF IsCurrent(c) THEN current.tunnel
  ELSE IF map["local"][c] # None THEN map["local"][c] ELSE map["dynamic"][c]

Table == INSTANCE ForwardingTable WITH
  phase <- [c \in Conns |-> Phase(c)],
  tunnel <- [c \in Conns |-> TunnelOf(c)],
  bound <- {t \in Tunnels : listener[t]},
  live <- {t \in Tunnels : up[t]}

-----------------------------------------------------------------------------
(* Properties *)

\* Seen through its two maps and its request in progress, the runtime is a
\* table of forwardings: a stop that has ended has unbound the port and ended
\* the SSH session or told it to end, and no tunnel serves two forwardings or is
\* left behind.
ImplementsForwardingTable == Table!Spec

\* A connection has one tunnel, although its kind may change between two
\* starts and each kind has a map of its own.
OneTunnel ==
  \A c \in Conns : \A k, l \in Kinds :
    map[k][c] # None /\ map[l][c] # None => k = l

\* Every bound port is in the hands of a tunnel that can be stopped or of the
\* request in progress: an address is never left taken by a forgotten task.
PortsOwned ==
  \A t \in Tunnels : listener[t] => InMap(t) \/ current.tunnel = t

\* A forwarding that runs counts as active, which is what offers it for
\* stopping and keeps its card from being deleted.
RunningIsActive == \A c \in Conns : IsRunning(c) => c \in active

\* A tunnel that was stopped opens nothing more: a relay accepted before, whose SOCKS
\* request or whose turn at the client's mutex comes only after the stop, is refused.
\* The relays that copied before may go on until their local clients leave
\* (runtime.rs:82-91, ssh.rs:1180-1217, dynamic_socks.rs:115-146).
StoppedTunnelOpensNothing ==
  [][\A t \in Tunnels :
       ~InMap(t) /\ current.tunnel # t => copying'[t] <= copying[t]]_vars

\* Every start or stop comes to its end and lets the next one in.
RequestsFinish == current # Idle ~> current = Idle

=============================================================================
