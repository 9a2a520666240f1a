---------------------------- MODULE SshTerminal -----------------------------
(***************************************************************************)
(* The life of SSH terminals: Terminal of crates/terminal/src/terminal.rs,  *)
(* the task SshBackend::connect spawns (ssh_backend.rs), and the entry of   *)
(* their saved connection in the global ActiveConnections.                  *)
(*                                                                          *)
(* A connection attempt is a detached task: reconnecting or closing does    *)
(* not abort it.  It reports back through two callbacks on the UI thread,   *)
(* each guarded by connection_generation: handle_ssh_result with what       *)
(* connect returned, and the disconnect handler once the attempt's          *)
(* on_disconnect sender fired or was dropped.  The callbacks of one attempt *)
(* may run in either order.  Attempt g is the one started at generation g.  *)
(***************************************************************************)
EXTENDS Naturals

CONSTANTS
  Terminals,   \* the terminals (tabs, panes) opened on one saved connection
  MaxAttempts  \* bound: attempts per terminal

ASSUME AttemptsAssumption == MaxAttempts \in Nat \ {0}

None == 0
Attempts == 1 .. MaxAttempts

VARIABLES
  generation,  \* connection_generation
  conn,        \* connection_state; "failed" is Disconnected with an error
  backend,     \* the attempt whose SshBackend is installed, or None
  life,        \* of the Terminal entity: open, shut down, released
  phase,       \* phase[t][g]: the task of reconnect()/spawn_ssh_connect
  shell,       \* shell[t][g]: the task that runs the remote shell
  stop,        \* stop[t][g]: SshCommand::Shutdown is queued for that task
  handler,     \* handler[t][g]: the disconnect handler of the attempt
  active       \* is the connection's id in ActiveConnections?

vars == <<generation, conn, backend, life, phase, shell, stop, handler, active>>

TypeOK ==
  /\ generation \in [Terminals -> Attempts \cup {MaxAttempts + 1}]
  /\ conn \in [Terminals -> {"connecting", "connected", "lost", "failed"}]
  /\ backend \in [Terminals -> Attempts \cup {None}]
  /\ life \in [Terminals -> {"open", "shut", "released"}]
  /\ phase \in [Terminals -> [Attempts ->
                  {"none", "leaving", "dialing", "ok", "err", "over"}]]
  /\ shell \in [Terminals -> [Attempts -> {"none", "running", "ended"}]]
  /\ stop \in [Terminals -> [Attempts -> BOOLEAN]]
  /\ handler \in [Terminals -> [Attempts -> {"none", "armed", "fired", "done"}]]
  /\ active \in BOOLEAN

\* new_ssh: attempt 1 is dialling before the terminal is first shown.
Init ==
  /\ generation = [t \in Terminals |-> 1]
  /\ conn = [t \in Terminals |-> "connecting"]
  /\ backend = [t \in Terminals |-> None]
  /\ life = [t \in Terminals |-> "open"]
  /\ phase = [t \in Terminals |->
                [g \in Attempts |-> IF g = 1 THEN "dialing" ELSE "none"]]
  /\ shell = [t \in Terminals |-> [g \in Attempts |-> "none"]]
  /\ stop = [t \in Terminals |-> [g \in Attempts |-> FALSE]]
  /\ handler = [t \in Terminals |->
                  [g \in Attempts |-> IF g = 1 THEN "armed" ELSE "none"]]
  /\ active = FALSE

\* is_current_connection_generation.  A released entity receives no callback.
\* Mutant: the callback does not look at the generation.
StillCurrent_unchecked(t, g) == life[t] # "released"
StillCurrent(t, g) == life[t] # "released" /\ generation[t] = g

\* Mutant: the generation stays the same.
NextGeneration_same(t) == generation[t]
NextGeneration(t) == generation[t] + 1

\* self.backend.take() and shutdown() of what was taken.
\* Mutant: the backend is only dropped; SshBackend has no Drop.
TakeBackend_drops(t) ==
  /\ backend' = [backend EXCEPT ![t] = None]
  /\ stop' = stop
TakeBackend(t) ==
  /\ backend' = [backend EXCEPT ![t] = None]
  /\ stop' = IF backend[t] = None THEN stop ELSE [stop EXCEPT ![t][backend[t]] = TRUE]

-----------------------------------------------------------------------------
(* The user, on the UI thread *)

\* reconnect(): offered in every connection state by the tab's menu.
Reconnect(t) ==
  /\ life[t] = "open"
  /\ generation[t] < MaxAttempts
  /\ conn' = [conn EXCEPT ![t] = "connecting"]
  /\ active' = FALSE
  /\ TakeBackend(t)
  /\ generation' = [generation EXCEPT ![t] = NextGeneration(t)]
  /\ phase' = [phase EXCEPT ![t][NextGeneration(t)] = "leaving"]
  /\ UNCHANGED <<life, shell, handler>>

\* close_terminal_now(): release_active_connection, then shutdown().
Close(t) ==
  /\ life[t] = "open"
  /\ life' = [life EXCEPT ![t] = "shut"]
  /\ active' = FALSE
  /\ TakeBackend(t)
  /\ generation' = [generation EXCEPT ![t] = NextGeneration(t)]
  /\ UNCHANGED <<conn, phase, shell, handler>>

\* The last handle to the entity is dropped.
Release(t) ==
  /\ life[t] = "shut"
  /\ life' = [life EXCEPT ![t] = "released"]
  /\ UNCHANGED <<generation, conn, backend, phase, shell, stop, handler, active>>

-----------------------------------------------------------------------------
(* The attempt's tasks *)

\* session_manager.disconnect() has returned: only now is the new attempt
\* dialled.  Mutant: the generation was read before it was incremented.
LeaveDone_early(t, g) ==
  /\ phase[t][g] = "leaving"
  /\ IF StillCurrent(t, g - 1)
     THEN /\ phase' = [phase EXCEPT ![t][g] = "dialing"]
          /\ handler' = [handler EXCEPT ![t][g] = "armed"]
     ELSE /\ phase' = [phase EXCEPT ![t][g] = "over"]
          /\ UNCHANGED handler
  /\ UNCHANGED <<generation, conn, backend, life, shell, stop, active>>
LeaveDone(t, g) ==
  /\ phase[t][g] = "leaving"
  /\ IF StillCurrent(t, g)
     THEN /\ phase' = [phase EXCEPT ![t][g] = "dialing"]
          /\ handler' = [handler EXCEPT ![t][g] = "armed"]
     ELSE /\ phase' = [phase EXCEPT ![t][g] = "over"]
          /\ UNCHANGED handler
  /\ UNCHANGED <<generation, conn, backend, life, shell, stop, active>>

DialOk(t, g) ==
  /\ phase[t][g] = "dialing"
  /\ phase' = [phase EXCEPT ![t][g] = "ok"]
  /\ shell' = [shell EXCEPT ![t][g] = "running"]
  /\ UNCHANGED <<generation, conn, backend, life, stop, handler, active>>

\* The on_disconnect sender is dropped with the failed connect.
DialErr(t, g) ==
  /\ phase[t][g] = "dialing"
  /\ phase' = [phase EXCEPT ![t][g] = "err"]
  /\ handler' = [handler EXCEPT ![t][g] = "fired"]
  /\ UNCHANGED <<generation, conn, backend, life, shell, stop, active>>

\* The loop of the shell's task breaks, and the task signals on_disconnect.
\* Mutant: the signal is not the task's, but waits in the backend to be sent.
EndShell_silent(t, g) ==
  /\ shell[t][g] = "running"
  /\ shell' = [shell EXCEPT ![t][g] = "ended"]
  /\ UNCHANGED <<generation, conn, backend, life, phase, stop, handler, active>>
EndShell(t, g) ==
  /\ shell[t][g] = "running"
  /\ shell' = [shell EXCEPT ![t][g] = "ended"]
  /\ handler' = [handler EXCEPT ![t][g] = "fired"]
  /\ UNCHANGED <<generation, conn, backend, life, phase, stop, active>>

ChannelEnds(t, g) == EndShell(t, g)   \* eof, close, or a write that failed

StopShell(t, g) == stop[t][g] /\ EndShell(t, g)

-----------------------------------------------------------------------------
(* The attempt's callbacks, on the UI thread *)

\* Mutant: set_connection_active is missing.
DisconnectHandler_keepsActive(t, g) ==
  /\ handler[t][g] = "fired"
  /\ handler' = [handler EXCEPT ![t][g] = "done"]
  /\ IF StillCurrent(t, g)
     THEN /\ conn' = [conn EXCEPT ![t] = "lost"]
          /\ backend' = [backend EXCEPT ![t] = None]
     ELSE UNCHANGED <<conn, backend>>
  /\ UNCHANGED <<generation, life, phase, shell, stop, active>>
DisconnectHandler(t, g) ==
  /\ handler[t][g] = "fired"
  /\ handler' = [handler EXCEPT ![t][g] = "done"]
  /\ IF StillCurrent(t, g)
     THEN /\ conn' = [conn EXCEPT ![t] = "lost"]
          /\ backend' = [backend EXCEPT ![t] = None]
          /\ active' = FALSE
     ELSE UNCHANGED <<conn, backend, active>>
  /\ UNCHANGED <<generation, life, phase, shell, stop>>

\* handle_ssh_result: connect returned a backend.  A released entity drops it.
HandleOk(t, g) ==
  /\ phase[t][g] = "ok"
  /\ phase' = [phase EXCEPT ![t][g] = "over"]
  /\ IF StillCurrent(t, g)
     THEN /\ conn' = [conn EXCEPT ![t] = "connected"]
          /\ backend' = [backend EXCEPT ![t] = g]
          /\ active' = TRUE
     ELSE UNCHANGED <<conn, backend, active>>
  /\ stop' = IF StillCurrent(t, g) \/ life[t] = "released"
             THEN stop
             ELSE [stop EXCEPT ![t][g] = TRUE]
  /\ UNCHANGED <<generation, life, shell, handler>>

HandleErr(t, g) ==
  /\ phase[t][g] = "err"
  /\ phase' = [phase EXCEPT ![t][g] = "over"]
  /\ IF StillCurrent(t, g)
     THEN /\ conn' = [conn EXCEPT ![t] = "failed"]
          /\ active' = FALSE
     ELSE UNCHANGED <<conn, active>>
  /\ UNCHANGED <<generation, backend, life, shell, stop, handler>>

-----------------------------------------------------------------------------
Dialing(t) == \E g \in Attempts : phase[t][g] = "dialing"

Next ==
  \E t \in Terminals :
    \/ Reconnect(t) \/ Close(t) \/ Release(t)
    \/ \E g \in Attempts :
         \/ LeaveDone(t, g) \/ DialOk(t, g) \/ DialErr(t, g)
         \/ ChannelEnds(t, g) \/ StopShell(t, g)
         \/ DisconnectHandler(t, g) \/ HandleOk(t, g) \/ HandleErr(t, g)

Spec == Init /\ [][Next]_vars

\* The executors run every callback.  A dial need not end: client() may miss its
\* wakeup (SessionPool), an MFA prompt stay unanswered, and a proxied connect has no
\* limit.  Leaving waits for the mutex of the old session, which a dial may hold,
\* and is assumed to end while there is none.
FairSpec ==
  /\ Spec
  /\ \A t \in Terminals : \A g \in Attempts :
       /\ WF_vars(~Dialing(t) /\ LeaveDone(t, g))
       /\ WF_vars(DisconnectHandler(t, g))
       /\ WF_vars(HandleOk(t, g) \/ HandleErr(t, g))

-----------------------------------------------------------------------------
(* Properties *)

\* While a terminal is open it is shown as connected exactly when it has a
\* backend to write to, and that backend is the one of the latest attempt,
\* however many earlier attempts are still dialling.
ConnectedIffBackend ==
  \A t \in Terminals : life[t] = "open" =>
    /\ conn[t] = "connected" <=> backend[t] # None
    /\ backend[t] # None => backend[t] = generation[t]

\* The remote shell of every attempt is in someone's hands as long as the
\* Terminal entity exists: installed, about to be delivered to
\* handle_ssh_result, or told to stop.
ShellsOwned ==
  \A t \in Terminals : \A g \in Attempts :
    shell[t][g] = "running" /\ life[t] # "released" =>
      backend[t] = g \/ phase[t][g] = "ok" \/ stop[t][g]

\* What is shown as "connecting" is being worked on: the latest attempt of an
\* open terminal has not given up, nor reported already, while its user waits.
ConnectingIsUnderWay ==
  \A t \in Terminals : life[t] = "open" /\ conn[t] = "connecting" =>
    phase[t][generation[t]] \in {"leaving", "dialing", "ok", "err"}

\* Every terminal implements OneLink: what an attempt's tasks report has an
\* effect only for the latest attempt of an open terminal, and each report at
\* most once.  (shutdown() takes a generation that no attempt has.)
Latest(t) == IF life[t] = "open" THEN generation[t] ELSE generation[t] - 1
Status(t) == IF conn[t] \in {"lost", "failed"} THEN "down" ELSE conn[t]
Awaited(t) == life[t] = "open" /\ phase[t][generation[t]] # "over"
Watched(t) == life[t] = "open" /\ handler[t][generation[t]] # "done"

Link(t) == INSTANCE OneLink WITH
  latest <- Latest(t), link <- backend[t], status <- Status(t),
  awaited <- Awaited(t), watched <- Watched(t), closed <- life[t] # "open"

ImplementsOneLink ==
  /\ \A t \in Terminals : Link(t)!Init
  /\ [][\A t \in Terminals : [Link(t)!Next]_(Link(t)!vars)]_vars

\* "Invalidate every pending connection callback" (terminal.rs:1975): nothing
\* that was pending when a terminal was closed revives it.
ClosedStaysClosed ==
  [][\A t \in Terminals : life[t] # "open" =>
       conn'[t] = conn[t] /\ backend'[t] = None]_vars

\* ActiveConnections "tracks which connections are currently open"
\* (core/src/storage/models.rs:10).
ActiveMatchesOpen ==
  active <=> \E t \in Terminals : life[t] = "open" /\ conn[t] = "connected"

\* "Stop the underlying PTY/SSH/Koko session when a pane is removed"
\* (terminal_view/src/view.rs:1239): once its terminal is gone, a remote shell
\* that still runs has been told to stop or is about to be.
RemovedPaneStopsShell ==
  \A t \in Terminals : \A g \in Attempts :
    shell[t][g] = "running" /\ life[t] = "released" =>
      phase[t][g] = "ok" \/ stop[t][g]

\* "Connecting" is shown for ever only on account of a dial that never ends: that of
\* the latest attempt, or an earlier one on whose session it waits.  Leaving the
\* old session, the callbacks and their guards do not lose the attempt
\* (terminal.rs:1889-1914, 1500-1561).
StuckOnlyInDial ==
  \A t \in Terminals : \A g \in Attempts :
    (life[t] = "open" /\ conn[t] = "connecting" /\ generation[t] = g)
      ~> \/ conn[t] # "connecting" \/ generation[t] # g
         \/ phase[t][g] = "dialing"
         \/ phase[t][g] = "leaving" /\ Dialing(t)

\* However the shell of the installed backend ended, the dead backend does not stay
\* installed, unless its disconnect handler had run before the backend was installed
\* (ssh_backend.rs:329-340, terminal.rs:1434-1450).
EndOfShellNoticed ==
  \A t \in Terminals : \A g \in Attempts :
    (backend[t] = g /\ shell[t][g] = "ended" /\ handler[t][g] # "done")
      ~> backend[t] # g

=============================================================================
