---------------------------- MODULE KokoTerminal ---------------------------
(***************************************************************************)
(* The life of a JumpServer Koko terminal: Terminal of terminal.rs with a   *)
(* KokoBackend (koko_backend.rs), and the token request of                  *)
(* TerminalView::reconnect_jms (view.rs).                                   *)
(*                                                                          *)
(* Every attempt has a task that dials the websocket, which a newer attempt *)
(* cancels, and once dialled a session task that serves a bounded queue of  *)
(* commands before it reads the socket.  The terminal's geometry takes      *)
(* three ways to the server: the size the dial started with, the resize     *)
(* that handle_koko_result sends, and the resizes of an installed backend;  *)
(* until the server's CONNECT it can only be recorded (KokoHandshakeState). *)
(* Attempt g is the one started at generation g.                            *)
(***************************************************************************)
EXTENDS Naturals, Sequences

CONSTANTS
  MaxAttempts,  \* bound: attempts of the terminal
  Sizes,        \* geometries of the pane, positive numbers
  QueueCap      \* capacity of the command queue: mpsc_channel(256)

ASSUME KokoAssumption ==
  /\ MaxAttempts \in Nat \ {0}
  /\ Sizes \subseteq Nat \ {0}
  /\ QueueCap \in Nat \ {0}

None == 0
Attempts == 1 .. MaxAttempts
ResizeTo(s) == [kind |-> "resize", size |-> s]
Write == [kind |-> "write", size |-> None]
Shutdown == [kind |-> "shutdown", size |-> None]
Commands == {ResizeTo(s) : s \in Sizes} \cup {Write, Shutdown}

VARIABLES
  generation,  \* connection_generation
  conn,        \* connection_state; "failed" is Disconnected with an error
  backend,     \* the attempt whose KokoBackend is installed, or None
  size,        \* cols and rows
  life,        \* of the Terminal entity: open, shut down, released
  asking,      \* jms_reconnect_in_flight: a new token has been requested
  phase,       \* phase[g]: the dialling task of spawn_koko_connect
  cancel,      \* cancel[g]: its koko_connect_cancel was sent or dropped
  handler,     \* handler[g]: the disconnect handler of the attempt
  session,     \* session[g]: the task KokoBackend::connect spawns
  queue,       \* queue[g]: its commands
  open,        \* open[g]: the sender of the queue, the KokoBackend, exists
  pending,     \* pending[g]: pending_initial_size, None once taken
  server,      \* server[g]: the geometry the server was told last, or None
  missed       \* missed[g]: the last resize of that backend was dropped

ui == <<generation, conn, backend, size, life, asking>>
task == <<phase, cancel, handler>>
wire == <<session, queue, open, pending, server, missed>>
vars == <<ui, task, wire>>

TypeOK ==
  /\ generation \in 0 .. MaxAttempts + 1
  /\ conn \in {"connecting", "connected", "disconnected", "failed"}
  /\ backend \in Attempts \cup {None}
  /\ size \in Sizes
  /\ life \in {"open", "shut", "released"}
  /\ asking \in BOOLEAN
  /\ phase \in [Attempts -> {"none", "dialing", "ok", "err", "over"}]
  /\ cancel \in [Attempts -> BOOLEAN]
  /\ handler \in [Attempts -> {"none", "armed", "fired", "done"}]
  /\ session \in [Attempts -> {"none", "running", "ended"}]
  /\ queue \in [Attempts -> Seq(Commands)]
  /\ \A g \in Attempts : Len(queue[g]) <= QueueCap
  /\ open \in [Attempts -> BOOLEAN]
  /\ pending \in [Attempts -> Sizes \cup {None}]
  /\ server \in [Attempts -> Sizes \cup {None}]
  /\ missed \in [Attempts -> BOOLEAN]

\* new_jms_koko_placeholder (first = None), or new_jms_koko with attempt 1
\* already dialling.
StartWith(first) ==
  /\ size \in Sizes
  /\ generation = first
  /\ conn = IF first = None THEN "disconnected" ELSE "connecting"
  /\ backend = None
  /\ life = "open"
  /\ asking = FALSE
  /\ phase = [g \in Attempts |-> IF g = first THEN "dialing" ELSE "none"]
  /\ cancel = [g \in Attempts |-> FALSE]
  /\ handler = [g \in Attempts |-> IF g = first THEN "armed" ELSE "none"]
  /\ session = [g \in Attempts |-> "none"]
  /\ queue = [g \in Attempts |-> <<>>]
  /\ open = [g \in Attempts |-> FALSE]
  /\ pending = [g \in Attempts |-> IF g = first THEN size ELSE None]
  /\ server = [g \in Attempts |-> None]
  /\ missed = [g \in Attempts |-> FALSE]

Init == StartWith(None) \/ StartWith(1)

\* is_current_connection_generation.  A released entity receives no callback.
\* Mutant: the callback does not look at the generation.
StillCurrent_unchecked(g) == life # "released"
StillCurrent(g) == life # "released" /\ generation = g

\* try_send: a full queue, or one whose task has ended, drops the command.
Fits(g) == session[g] = "running" /\ Len(queue[g]) < QueueCap
TrySend(g, c) == IF Fits(g) THEN [queue EXCEPT ![g] = Append(@, c)] ELSE queue

\* KokoBackend::resize of the installed backend, if there is one.
SendSize(g, s) ==
  /\ queue' = TrySend(g, ResizeTo(s))
  /\ missed' = [missed EXCEPT ![g] = session[g] = "running" /\ ~Fits(g)]

\* shutdown() and drop of a KokoBackend (g), or of none: Shutdown is queued if
\* there is room, and the queue has lost its sender.
\* Mutant: the handle is leaked, only Shutdown is tried.
DropBackend_leaks(g) ==
  IF g = None THEN UNCHANGED <<queue, open>>
  ELSE queue' = TrySend(g, Shutdown) /\ open' = open
DropBackend(g) ==
  IF g = None THEN UNCHANGED <<queue, open>>
  ELSE queue' = TrySend(g, Shutdown) /\ open' = [open EXCEPT ![g] = FALSE]

\* koko_connect_cancel.take() and send; a finished dial no longer listens.
\* Mutant: the new attempt's sender is taken instead of the old one's.
CancelDial_swapped == cancel' = [g \in Attempts |-> cancel[g] \/ g = generation']
CancelDial == cancel' = [g \in Attempts |-> cancel[g] \/ g = generation]

-----------------------------------------------------------------------------
(* The user, on the UI thread *)

\* connect_jms_koko on a terminal that still has its event_tx.
Connect ==
  LET g == generation + 1 IN
  /\ g <= MaxAttempts
  /\ generation' = g
  /\ conn' = "connecting"
  /\ CancelDial
  /\ backend' = None
  /\ DropBackend(backend)
  /\ phase' = [phase EXCEPT ![g] = "dialing"]
  /\ handler' = [handler EXCEPT ![g] = "armed"]
  /\ pending' = [pending EXCEPT ![g] = size]
  /\ UNCHANGED <<size, life, session, server, missed>>

\* ConnectJmsInCurrentTab: an asset is chosen in the tab's own tree.
ChooseAsset == life = "open" /\ Connect /\ UNCHANGED asking

\* reconnect_jms: a token is one-time, so a new one is requested first.
AskToken ==
  /\ life = "open"
  /\ ~asking
  /\ generation > 0
  /\ asking' = TRUE
  /\ UNCHANGED <<generation, conn, backend, size, life, task, wire>>

\* connect_jms_koko returns early when shutdown() has taken event_tx.
TokenArrives ==
  /\ asking
  /\ asking' = FALSE
  /\ IF life = "open"
     THEN Connect
     ELSE UNCHANGED <<generation, conn, backend, size, life, task, wire>>

TokenRefused ==
  /\ asking
  /\ asking' = FALSE
  /\ UNCHANGED <<generation, conn, backend, size, life, task, wire>>

\* Terminal::resize; the pane is laid out in every connection state.
Resize(s) ==
  /\ life = "open"
  /\ s # size
  /\ size' = s
  /\ IF backend = None THEN UNCHANGED <<queue, missed>> ELSE SendSize(backend, s)
  /\ UNCHANGED <<generation, conn, backend, life, asking, task,
                 session, open, pending, server>>

\* nudge_resize: sends the size again, after a switch of the screen.
Nudge ==
  /\ backend # None
  /\ SendSize(backend, size)
  /\ UNCHANGED <<ui, task, session, open, pending, server>>

Input ==
  /\ backend # None
  /\ queue' = TrySend(backend, Write)
  /\ UNCHANGED <<ui, task, session, open, pending, server, missed>>

\* shutdown(), by close_terminal_now() or by the drop of the open entity.
\* Mutant: the pending callbacks are not invalidated.
Leave_sameGeneration(l) ==
  /\ life = "open"
  /\ life' = l
  /\ generation' = generation
  /\ CancelDial
  /\ backend' = None
  /\ DropBackend(backend)
  /\ UNCHANGED <<conn, size, asking, phase, handler, session, pending, server, missed>>
Leave(l) ==
  /\ life = "open"
  /\ life' = l
  /\ generation' = generation + 1
  /\ CancelDial
  /\ backend' = None
  /\ DropBackend(backend)
  /\ UNCHANGED <<conn, size, asking, phase, handler, session, pending, server, missed>>

Release ==
  /\ life = "shut"
  /\ life' = "released"
  /\ UNCHANGED <<generation, conn, backend, size, asking, task, wire>>

-----------------------------------------------------------------------------
(* The dialling task and its callbacks *)

\* The select of spawn_koko_connect may still take the connection when the
\* cancellation is ready too.
DialOk(g) ==
  /\ phase[g] = "dialing"
  /\ phase' = [phase EXCEPT ![g] = "ok"]
  /\ session' = [session EXCEPT ![g] = "running"]
  /\ open' = [open EXCEPT ![g] = TRUE]
  /\ UNCHANGED <<ui, cancel, handler, queue, pending, server, missed>>

\* The connect failed or was cancelled; its on_disconnect sender is dropped.
DialFails(g) ==
  /\ phase[g] = "dialing"
  /\ phase' = [phase EXCEPT ![g] = "err"]
  /\ handler' = [handler EXCEPT ![g] = "fired"]
  /\ pending' = [pending EXCEPT ![g] = None]
  /\ UNCHANGED <<ui, cancel, session, queue, open, server, missed>>

\* handle_koko_result with a backend: installed and told the size, or dropped.
HandleOk(g) ==
  /\ phase[g] = "ok"
  /\ phase' = [phase EXCEPT ![g] = "over"]
  /\ IF StillCurrent(g)
     THEN /\ conn' = "connected"
          /\ backend' = g
          /\ SendSize(g, size)
          /\ UNCHANGED open
     ELSE /\ DropBackend(g)
          /\ UNCHANGED <<conn, backend, missed>>
  /\ UNCHANGED <<generation, size, life, asking, cancel, handler,
                 session, pending, server>>

HandleErr(g) ==
  /\ phase[g] = "err"
  /\ phase' = [phase EXCEPT ![g] = "over"]
  /\ conn' = IF StillCurrent(g) THEN "failed" ELSE conn
  /\ UNCHANGED <<generation, backend, size, life, asking, cancel, handler, wire>>

\* Mutant: backend = None is missing.
DisconnectHandler_keepsBackend(g) ==
  /\ handler[g] = "fired"
  /\ handler' = [handler EXCEPT ![g] = "done"]
  /\ conn' = IF StillCurrent(g) THEN "disconnected" ELSE conn
  /\ UNCHANGED <<generation, backend, size, life, asking, phase, cancel, wire>>
DisconnectHandler(g) ==
  /\ handler[g] = "fired"
  /\ handler' = [handler EXCEPT ![g] = "done"]
  /\ IF StillCurrent(g)
     THEN /\ conn' = "disconnected"
          /\ backend' = None
          /\ DropBackend(backend)
     ELSE UNCHANGED <<conn, backend, queue, open>>
  /\ UNCHANGED <<generation, size, life, asking, phase, cancel,
                 session, pending, server, missed>>

-----------------------------------------------------------------------------
(* The session task: one turn of its select *)

\* The loop breaks: queue, handshake and socket go with the task, and
\* on_disconnect is sent.
EndSession(g) ==
  /\ session[g] = "running"
  /\ session' = [session EXCEPT ![g] = "ended"]
  /\ queue' = [queue EXCEPT ![g] = <<>>]
  /\ pending' = [pending EXCEPT ![g] = None]
  /\ server' = [server EXCEPT ![g] = None]
  /\ missed' = [missed EXCEPT ![g] = FALSE]
  /\ handler' = [handler EXCEPT ![g] = "fired"]
  /\ UNCHANGED <<ui, phase, cancel, open>>

\* KokoHandshakeState::record_resize, then channel.resize once established.
\* Mutant: a resize that has no terminal id yet is dropped, not recorded.
RecordResize_ignoresEarly(g, s) ==
  IF pending[g] # None THEN UNCHANGED <<pending, server>>
  ELSE server' = [server EXCEPT ![g] = s] /\ UNCHANGED pending
RecordResize(g, s) ==
  IF pending[g] # None
  THEN pending' = [pending EXCEPT ![g] = s] /\ UNCHANGED server
  ELSE server' = [server EXCEPT ![g] = s] /\ UNCHANGED pending

NextCommand(g) == session[g] = "running" /\ queue[g] # <<>>

TakeResize(g) ==
  /\ NextCommand(g)
  /\ Head(queue[g]).kind = "resize"
  /\ queue' = [queue EXCEPT ![g] = Tail(@)]
  /\ RecordResize(g, Head(queue[g]).size)
  /\ UNCHANGED <<ui, task, session, open, missed>>

\* An error of channel.resize is ignored.
ResizeFails(g) ==
  /\ NextCommand(g)
  /\ Head(queue[g]).kind = "resize"
  /\ pending[g] = None
  /\ queue' = [queue EXCEPT ![g] = Tail(@)]
  /\ missed' = [missed EXCEPT ![g] = TRUE]
  /\ UNCHANGED <<ui, task, session, open, pending, server>>

TakeWrite(g) ==
  /\ NextCommand(g)
  /\ Head(queue[g]).kind = "write"
  /\ \/ /\ queue' = [queue EXCEPT ![g] = Tail(@)]
        /\ UNCHANGED <<ui, task, session, open, pending, server, missed>>
     \/ EndSession(g)

TakeShutdown(g) ==
  /\ NextCommand(g)
  /\ Head(queue[g]).kind = "shutdown"
  /\ EndSession(g)

\* command_rx.recv() is None: every sender is gone and nothing is left.
\* Mutant: the arm is written as "Some(cmd) = command_rx.recv()".
QueueClosed_ignored(g) == FALSE /\ EndSession(g)
QueueClosed(g) == queue[g] = <<>> /\ ~open[g] /\ EndSession(g)

\* The other arms of the biased select: no command is waiting.
Idle(g) == session[g] = "running" /\ queue[g] = <<>> /\ open[g]

\* The server's CONNECT: the geometry recorded so far becomes TERMINAL_INIT.
ServerConnects(g) ==
  /\ Idle(g)
  /\ pending[g] # None
  /\ server' = [server EXCEPT ![g] = pending[g]]
  /\ pending' = [pending EXCEPT ![g] = None]
  /\ UNCHANGED <<ui, task, session, queue, open, missed>>

\* Closed by the server, or a send_init, write-back or heartbeat that failed.
SocketFails(g) == Idle(g) /\ EndSession(g)

-----------------------------------------------------------------------------
Dial(g) == DialOk(g) \/ DialFails(g)
Handle(g) == HandleOk(g) \/ HandleErr(g)
TakeCommand(g) ==
  \/ TakeResize(g) \/ ResizeFails(g) \/ TakeWrite(g)
  \/ TakeShutdown(g) \/ QueueClosed(g)

Next ==
  \/ ChooseAsset \/ AskToken \/ TokenArrives \/ TokenRefused
  \/ \E s \in Sizes : Resize(s)
  \/ Nudge \/ Input \/ Leave("shut") \/ Leave("released") \/ Release
  \/ \E g \in Attempts :
       \/ DialOk(g) \/ DialFails(g) \/ HandleOk(g) \/ HandleErr(g)
       \/ DisconnectHandler(g)
       \/ TakeResize(g) \/ ResizeFails(g) \/ TakeWrite(g)
       \/ TakeShutdown(g) \/ QueueClosed(g)
       \/ ServerConnects(g) \/ SocketFails(g)

Spec == Init /\ [][Next]_vars

\* The executors poll every task.  A dial ends by its time limits, and a send
\* on the socket is assumed to return.
FairSpec ==
  /\ Spec
  /\ \A g \in Attempts :
       /\ WF_vars(Dial(g))
       /\ WF_vars(Handle(g))
       /\ WF_vars(DisconnectHandler(g))
       /\ WF_vars(TakeCommand(g))

-----------------------------------------------------------------------------
(* Properties *)

\* While a terminal is open it is shown as connected exactly when it has a
\* backend, and that backend is the one of the latest attempt: choosing another
\* asset or reconnecting never writes to the previous session.
ConnectedIffBackend ==
  life = "open" =>
    /\ conn = "connected" <=> backend # None
    /\ backend # None => backend = generation

\* A session whose backend nobody holds has lost its sender (the Drop of
\* KokoBackend), also after the entity is gone: this is what SshBackend lacks.
AbandonedSessionsClosed ==
  \A g \in Attempts :
    session[g] = "running" => (open[g] <=> backend = g \/ phase[g] = "ok")

\* A dial is told to give up exactly when its result would no longer count: a
\* newer attempt or the end of the terminal reaches every older dial, and never
\* the one that was just started.
OnlyLatestDialGoesOn ==
  \A g \in Attempts : phase[g] = "dialing" =>
    (cancel[g] <=> life # "open" \/ g # generation)

\* The queued resizes of a session, and the last of them.
QueuedResizes(g) == {i \in DOMAIN queue[g] : queue[g][i].kind = "resize"}
LastResize(g) == {i \in QueuedResizes(g) : \A j \in QueuedResizes(g) : j <= i}

\* The geometry the server has, or is about to get, of a session is s: the last
\* resize queued, else the one recorded for TERMINAL_INIT, else the one sent
\* last.
HeadsFor(g, s) ==
  /\ \A i \in LastResize(g) : queue[g][i].size = s
  /\ QueuedResizes(g) = {} =>
       s = IF pending[g] # None THEN pending[g] ELSE server[g]

\* "Keeps the server's first terminal geometry aligned with the rendered pane"
\* (koko_backend.rs:27): however CONNECT, the dial, handle_koko_result and the
\* layout of the pane interleave, the size the server ends up with is the one
\* on screen, unless the last resize was dropped.
GeometryReachesServer ==
  \A g \in Attempts :
    backend = g /\ session[g] = "running" /\ ~missed[g] => HeadsFor(g, size)

\* What OneLink speaks of: shutdown() advances the generation once more, and
\* both kinds of Disconnected look alike.
Latest == IF life = "open" THEN generation ELSE generation - 1
Status == IF conn \in {"disconnected", "failed"} THEN "down" ELSE conn
Awaited == life = "open" /\ generation # None /\ phase[generation] # "over"
Watched == life = "open" /\ generation # None /\ handler[generation] # "done"

Link == INSTANCE OneLink WITH
  latest <- Latest, link <- backend, status <- Status,
  awaited <- Awaited, watched <- Watched, closed <- life # "open"

\* The terminal implements OneLink: what a dial, its session and the view's
\* token request report has an effect only for the latest attempt of an open
\* terminal, and each report at most once.
ImplementsOneLink == Link!Spec

\* "Invalidate every pending connection callback" (terminal.rs:1975): neither
\* a late dial nor a late token revives a terminal that was closed.
ClosedStaysClosed ==
  [][life # "open" => generation' = generation /\ backend' = None
                      /\ conn' = conn]_vars

\* The websocket session of a terminal that was closed, reconnected or given
\* another asset ends, also when the queue was full and Shutdown was dropped.
AbandonedSessionEnds ==
  \A g \in Attempts :
    (session[g] = "running" /\ backend # g /\ phase[g] = "over")
      ~> session[g] = "ended"

=============================================================================
