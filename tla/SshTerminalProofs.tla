-------------------------- MODULE SshTerminalProofs ------------------------
(***************************************************************************)
(* For any number of terminals and of attempts: the types, what an open    *)
(* terminal shows, who owns the remote shells, that what shows as          *)
(* connecting is under way, that an id in ActiveConnections has a terminal *)
(* behind it, that a closed terminal stays closed, and the refinement of   *)
(* OneLink.                                                                *)
(*                                                                         *)
(* The properties are not inductive: which callback of which attempt may   *)
(* still come must be known. AttemptInv says where each attempt's task,    *)
(* shell and handler can be with respect to one another, and that no       *)
(* attempt carries the generation of a closed terminal; BackendInv ties    *)
(* the installed backend to the attempt whose result is already handled.   *)
(***************************************************************************)
EXTENDS SshTerminal, TLAPS

AttemptInv ==
  \A t \in Terminals : \A g \in Attempts :
    /\ phase[t][g] \in {"none", "leaving"} =>
         handler[t][g] = "none" /\ shell[t][g] = "none"
    /\ phase[t][g] = "dialing" => handler[t][g] = "armed" /\ shell[t][g] = "none"
    /\ phase[t][g] = "err" => shell[t][g] = "none"
    /\ shell[t][g] = "running" => handler[t][g] = "armed"
    /\ g > generation[t] => phase[t][g] = "none"
    /\ g = generation[t] /\ life[t] # "open" => phase[t][g] = "none"

\* Only closing takes the generation past the last attempt.
OpenInv ==
  \A t \in Terminals : life[t] = "open" => generation[t] \in Attempts

BackendInv ==
  \A t \in Terminals : backend[t] # None =>
    /\ life[t] = "open"
    /\ backend[t] = generation[t]
    /\ phase[t][backend[t]] = "over"

IInv ==
  /\ TypeOK
  /\ OpenInv
  /\ AttemptInv
  /\ BackendInv
  /\ ConnectedIffBackend
  /\ ShellsOwned

USE AttemptsAssumption DEF None, Attempts

LEMMA InitIInv == Init => IInv
<1> SUFFICES ASSUME Init PROVE IInv
  OBVIOUS
<1> USE DEF Init
<1>1. phase \in [Terminals -> [Attempts ->
               {"none", "leaving", "dialing", "ok", "err", "over"}]]
  OBVIOUS
<1>2. handler \in [Terminals -> [Attempts -> {"none", "armed", "fired", "done"}]]
  OBVIOUS
<1>3. 1 \in Attempts
  OBVIOUS
<1>4. TypeOK
  BY <1>1, <1>2, <1>3 DEF TypeOK
<1>5. AttemptInv /\ OpenInv
  BY <1>3 DEF AttemptInv, OpenInv
<1>6. BackendInv /\ ConnectedIffBackend /\ ShellsOwned
  BY DEF BackendInv, ConnectedIffBackend, ShellsOwned
<1> QED BY <1>4, <1>5, <1>6 DEF IInv

\* What the user does.
LEMMA UserIInv ==
  ASSUME IInv, NEW t \in Terminals, Reconnect(t) \/ Close(t) \/ Release(t)
  PROVE  IInv'
<1> USE DEF IInv
<1>1. CASE Reconnect(t)
  <2> DEFINE next == generation[t] + 1
  <2>0. /\ next \in Attempts
        /\ generation[t] \in Attempts
        /\ life[t] = "open"
        /\ conn' = [conn EXCEPT ![t] = "connecting"]
        /\ active' = FALSE
        /\ generation' = [generation EXCEPT ![t] = next]
        /\ phase' = [phase EXCEPT ![t][next] = "leaving"]
        /\ backend' = [backend EXCEPT ![t] = None]
        /\ UNCHANGED <<life, shell, handler>>
    BY <1>1 DEF Reconnect, TakeBackend, NextGeneration, TypeOK
  <2>9. stop' = IF backend[t] = None THEN stop ELSE [stop EXCEPT ![t][backend[t]] = TRUE]
    BY <1>1 DEF Reconnect, TakeBackend
  <2> HIDE DEF next
  <2>1. stop' \in [Terminals -> [Attempts -> BOOLEAN]]
    BY <2>9 DEF TypeOK
  <2>2. TypeOK'
    BY <2>0, <2>1 DEF TypeOK
  <2>3. AttemptInv'
    BY <2>0 DEF TypeOK, AttemptInv, next
  <2>4. BackendInv' /\ ConnectedIffBackend' /\ OpenInv'
    BY <2>0 DEF TypeOK, BackendInv, ConnectedIffBackend, OpenInv
  <2>5. ASSUME NEW u \in Terminals, NEW g \in Attempts,
               shell'[u][g] = "running", life'[u] # "released"
        PROVE  backend'[u] = g \/ phase'[u][g] = "ok" \/ stop'[u][g]
    <3>1. backend[u] = g \/ phase[u][g] = "ok" \/ stop[u][g]
      BY <2>0, <2>5 DEF ShellsOwned
    <3>2. phase[u][g] = "ok" => phase'[u][g] = "ok"
      BY <2>0 DEF TypeOK, AttemptInv, next
    <3>3. stop[u][g] => stop'[u][g]
      BY <2>9 DEF TypeOK
    <3>4. backend[u] = g => backend'[u] = g \/ stop'[u][g]
      BY <2>0, <2>9 DEF TypeOK
    <3> QED BY <3>1, <3>2, <3>3, <3>4
  <2> QED BY <2>2, <2>3, <2>4, <2>5 DEF ShellsOwned
<1>2. CASE Close(t)
  <2>0. /\ life[t] = "open"
        /\ life' = [life EXCEPT ![t] = "shut"]
        /\ active' = FALSE
        /\ generation' = [generation EXCEPT ![t] = generation[t] + 1]
        /\ backend' = [backend EXCEPT ![t] = None]
        /\ UNCHANGED <<conn, phase, shell, handler>>
    BY <1>2 DEF Close, TakeBackend, NextGeneration
  <2>9. stop' = IF backend[t] = None THEN stop ELSE [stop EXCEPT ![t][backend[t]] = TRUE]
    BY <1>2 DEF Close, TakeBackend
  <2>1. stop' \in [Terminals -> [Attempts -> BOOLEAN]]
    BY <2>9 DEF TypeOK
  <2>6. generation[t] \in Attempts /\ generation[t] + 1 \in Attempts \cup {MaxAttempts + 1}
    BY <2>0 DEF OpenInv
  <2>2. TypeOK'
    BY <2>0, <2>1, <2>6 DEF TypeOK
  <2>7. \A g \in Attempts : g = generation[t] + 1 \/ g > generation[t] + 1 => g > generation[t]
    BY <2>6
  <2>3. AttemptInv'
    BY <2>0, <2>7 DEF TypeOK, AttemptInv
  <2>4. BackendInv' /\ ConnectedIffBackend' /\ OpenInv'
    BY <2>0 DEF TypeOK, BackendInv, ConnectedIffBackend, OpenInv
  <2>5. ASSUME NEW u \in Terminals, NEW g \in Attempts,
               shell'[u][g] = "running", life'[u] # "released"
        PROVE  backend'[u] = g \/ phase'[u][g] = "ok" \/ stop'[u][g]
    <3>1. backend[u] = g \/ phase[u][g] = "ok" \/ stop[u][g]
      BY <2>0, <2>5 DEF ShellsOwned, TypeOK
    <3>2. stop[u][g] => stop'[u][g]
      BY <2>9 DEF TypeOK
    <3>3. backend[u] = g => backend'[u] = g \/ stop'[u][g]
      BY <2>0, <2>9 DEF TypeOK
    <3> QED BY <2>0, <3>1, <3>2, <3>3
  <2> QED BY <2>2, <2>3, <2>4, <2>5 DEF ShellsOwned
<1>3. CASE Release(t)
  BY <1>3 DEF Release, TypeOK, OpenInv, AttemptInv, BackendInv, ConnectedIffBackend, ShellsOwned
<1> QED BY <1>1, <1>2, <1>3

\* What the tasks of an attempt do.
LEMMA TaskIInv ==
  ASSUME IInv, NEW t \in Terminals, NEW g \in Attempts,
         LeaveDone(t, g) \/ DialOk(t, g) \/ DialErr(t, g) \/ EndShell(t, g)
  PROVE  IInv'
<1> USE DEF IInv
<1>1. CASE LeaveDone(t, g) /\ StillCurrent(t, g)
  <2>0. /\ phase[t][g] = "leaving"
        /\ life[t] # "released" /\ generation[t] = g
        /\ phase' = [phase EXCEPT ![t][g] = "dialing"]
        /\ handler' = [handler EXCEPT ![t][g] = "armed"]
        /\ UNCHANGED <<generation, conn, backend, life, shell, stop, active>>
    BY <1>1 DEF LeaveDone, StillCurrent
  <2>1. TypeOK'
    BY <2>0 DEF TypeOK
  <2>2. AttemptInv'
    BY <2>0 DEF TypeOK, AttemptInv
  <2>3. BackendInv' /\ OpenInv'
    BY <2>0 DEF TypeOK, BackendInv, OpenInv
  <2>4. ConnectedIffBackend'
    BY <2>0 DEF TypeOK, ConnectedIffBackend
  <2>5. ShellsOwned'
    BY <2>0 DEF TypeOK, AttemptInv, ShellsOwned
  <2> QED BY <2>1, <2>2, <2>3, <2>4, <2>5
<1>2. CASE LeaveDone(t, g) /\ ~StillCurrent(t, g)
  <2>0. /\ phase[t][g] = "leaving"
        /\ phase' = [phase EXCEPT ![t][g] = "over"]
        /\ UNCHANGED <<generation, conn, backend, life, shell, stop, handler, active>>
    BY <1>2 DEF LeaveDone
  <2>6. ~(g > generation[t]) /\ ~(g = generation[t] /\ life[t] # "open")
    BY <2>0 DEF AttemptInv
  <2>1. TypeOK'
    BY <2>0 DEF TypeOK
  <2>2. AttemptInv'
    BY <2>0, <2>6 DEF TypeOK, AttemptInv
  <2>3. BackendInv' /\ OpenInv'
    BY <2>0 DEF TypeOK, BackendInv, OpenInv
  <2>4. ConnectedIffBackend'
    BY <2>0 DEF TypeOK, ConnectedIffBackend
  <2>5. ShellsOwned'
    BY <2>0 DEF TypeOK, AttemptInv, ShellsOwned
  <2> QED BY <2>1, <2>2, <2>3, <2>4, <2>5
<1>3. CASE DialOk(t, g)
  <2>0. /\ phase[t][g] = "dialing"
        /\ phase' = [phase EXCEPT ![t][g] = "ok"]
        /\ shell' = [shell EXCEPT ![t][g] = "running"]
        /\ UNCHANGED <<generation, conn, backend, life, stop, handler, active>>
    BY <1>3 DEF DialOk
  <2>1. TypeOK'
    BY <2>0 DEF TypeOK
  <2>2. AttemptInv'
    BY <2>0 DEF TypeOK, AttemptInv
  <2>3. BackendInv' /\ OpenInv'
    BY <2>0 DEF TypeOK, BackendInv, OpenInv
  <2>4. ConnectedIffBackend'
    BY <2>0 DEF TypeOK, ConnectedIffBackend
  <2>5. ShellsOwned'
    BY <2>0 DEF TypeOK, AttemptInv, ShellsOwned
  <2> QED BY <2>1, <2>2, <2>3, <2>4, <2>5
<1>4. CASE DialErr(t, g)
  <2>0. /\ phase[t][g] = "dialing"
        /\ phase' = [phase EXCEPT ![t][g] = "err"]
        /\ handler' = [handler EXCEPT ![t][g] = "fired"]
        /\ UNCHANGED <<generation, conn, backend, life, shell, stop, active>>
    BY <1>4 DEF DialErr
  <2>1. TypeOK'
    BY <2>0 DEF TypeOK
  <2>2. AttemptInv'
    BY <2>0 DEF TypeOK, AttemptInv
  <2>3. BackendInv' /\ OpenInv'
    BY <2>0 DEF TypeOK, BackendInv, OpenInv
  <2>4. ConnectedIffBackend'
    BY <2>0 DEF TypeOK, ConnectedIffBackend
  <2>5. ShellsOwned'
    BY <2>0 DEF TypeOK, AttemptInv, ShellsOwned
  <2> QED BY <2>1, <2>2, <2>3, <2>4, <2>5
<1>5. CASE EndShell(t, g)
  <2>0. /\ shell[t][g] = "running"
        /\ shell' = [shell EXCEPT ![t][g] = "ended"]
        /\ handler' = [handler EXCEPT ![t][g] = "fired"]
        /\ UNCHANGED <<generation, conn, backend, life, phase, stop, active>>
    BY <1>5 DEF EndShell
  <2>1. TypeOK'
    BY <2>0 DEF TypeOK
  <2>2. AttemptInv'
    BY <2>0 DEF TypeOK, AttemptInv
  <2>3. BackendInv' /\ OpenInv'
    BY <2>0 DEF TypeOK, BackendInv, OpenInv
  <2>4. ConnectedIffBackend'
    BY <2>0 DEF TypeOK, ConnectedIffBackend
  <2>5. ShellsOwned'
    BY <2>0 DEF TypeOK, AttemptInv, ShellsOwned
  <2> QED BY <2>1, <2>2, <2>3, <2>4, <2>5
<1> QED BY <1>1, <1>2, <1>3, <1>4, <1>5

\* A callback reaches a terminal only if its attempt is the current one of an
\* open terminal.
LEMMA CurrentIsOpen ==
  ASSUME IInv, NEW t \in Terminals, NEW g \in Attempts, StillCurrent(t, g),
         phase[t][g] # "none"
  PROVE  life[t] = "open" /\ generation[t] = g
BY DEF IInv, AttemptInv, StillCurrent

\* What the callbacks of an attempt do.
LEMMA CallbackIInv ==
  ASSUME IInv, NEW t \in Terminals, NEW g \in Attempts,
         DisconnectHandler(t, g) \/ HandleOk(t, g) \/ HandleErr(t, g)
  PROVE  IInv'
<1> USE DEF IInv
<1>1. CASE DisconnectHandler(t, g) /\ StillCurrent(t, g)
  <2>0. /\ handler[t][g] = "fired"
        /\ generation[t] = g
        /\ handler' = [handler EXCEPT ![t][g] = "done"]
        /\ conn' = [conn EXCEPT ![t] = "lost"]
        /\ backend' = [backend EXCEPT ![t] = None]
        /\ active' = FALSE
        /\ UNCHANGED <<generation, life, phase, shell, stop>>
    BY <1>1 DEF DisconnectHandler, StillCurrent
  <2>1. TypeOK'
    BY <2>0 DEF TypeOK
  <2>2. AttemptInv'
    BY <2>0 DEF TypeOK, AttemptInv
  <2>3. BackendInv' /\ OpenInv'
    BY <2>0 DEF TypeOK, BackendInv, OpenInv
  <2>4. ConnectedIffBackend'
    BY <2>0 DEF TypeOK, ConnectedIffBackend
  <2>5. ShellsOwned'
    BY <2>0 DEF TypeOK, AttemptInv, BackendInv, ShellsOwned
  <2> QED BY <2>1, <2>2, <2>3, <2>4, <2>5
<1>2. CASE DisconnectHandler(t, g) /\ ~StillCurrent(t, g)
  <2>0. /\ handler[t][g] = "fired"
        /\ handler' = [handler EXCEPT ![t][g] = "done"]
        /\ UNCHANGED <<generation, conn, backend, life, phase, shell, stop, active>>
    BY <1>2 DEF DisconnectHandler
  <2>1. TypeOK'
    BY <2>0 DEF TypeOK
  <2>2. AttemptInv'
    BY <2>0 DEF TypeOK, AttemptInv
  <2>3. BackendInv' /\ OpenInv'
    BY <2>0 DEF TypeOK, BackendInv, OpenInv
  <2>4. ConnectedIffBackend'
    BY <2>0 DEF TypeOK, ConnectedIffBackend
  <2>5. ShellsOwned'
    BY <2>0 DEF TypeOK, AttemptInv, ShellsOwned
  <2> QED BY <2>1, <2>2, <2>3, <2>4, <2>5
<1>3. CASE HandleOk(t, g) /\ StillCurrent(t, g)
  <2>0. /\ phase[t][g] = "ok"
        /\ life[t] = "open" /\ generation[t] = g
        /\ phase' = [phase EXCEPT ![t][g] = "over"]
        /\ conn' = [conn EXCEPT ![t] = "connected"]
        /\ backend' = [backend EXCEPT ![t] = g]
        /\ active' = TRUE
        /\ UNCHANGED <<generation, life, shell, handler, stop>>
    BY <1>3, CurrentIsOpen DEF HandleOk
  <2>1. TypeOK'
    BY <2>0 DEF TypeOK
  <2>2. AttemptInv'
    BY <2>0 DEF TypeOK, AttemptInv
  <2>3. BackendInv' /\ OpenInv'
    BY <2>0 DEF TypeOK, BackendInv, OpenInv
  <2>4. ConnectedIffBackend'
    BY <2>0 DEF TypeOK, ConnectedIffBackend
  <2>6. backend[t] \in {None, g}
    BY <2>0 DEF BackendInv
  <2>5. ShellsOwned'
    BY <2>0, <2>6 DEF TypeOK, ShellsOwned
  <2> QED BY <2>1, <2>2, <2>3, <2>4, <2>5
<1>4. CASE HandleOk(t, g) /\ ~StillCurrent(t, g)
  <2>0. /\ phase[t][g] = "ok"
        /\ phase' = [phase EXCEPT ![t][g] = "over"]
        /\ UNCHANGED <<generation, conn, backend, life, shell, handler, active>>
    BY <1>4 DEF HandleOk
  <2>6. stop' = IF life[t] = "released" THEN stop ELSE [stop EXCEPT ![t][g] = TRUE]
    BY <1>4 DEF HandleOk
  <2>7. stop' \in [Terminals -> [Attempts -> BOOLEAN]]
    BY <2>6 DEF TypeOK
  <2>1. TypeOK'
    BY <2>0, <2>7 DEF TypeOK
  <2>2. AttemptInv'
    BY <2>0 DEF TypeOK, AttemptInv
  <2>3. BackendInv' /\ OpenInv'
    BY <2>0 DEF TypeOK, BackendInv, OpenInv
  <2>4. ConnectedIffBackend'
    BY <2>0 DEF TypeOK, ConnectedIffBackend
  <2>5. ShellsOwned'
    BY <2>0, <2>6 DEF TypeOK, ShellsOwned
  <2> QED BY <2>1, <2>2, <2>3, <2>4, <2>5
<1>5. CASE HandleErr(t, g) /\ StillCurrent(t, g)
  <2>0. /\ phase[t][g] = "err"
        /\ life[t] = "open" /\ generation[t] = g
        /\ phase' = [phase EXCEPT ![t][g] = "over"]
        /\ conn' = [conn EXCEPT ![t] = "failed"]
        /\ active' = FALSE
        /\ UNCHANGED <<generation, backend, life, shell, stop, handler>>
    BY <1>5, CurrentIsOpen DEF HandleErr
  <2>1. TypeOK'
    BY <2>0 DEF TypeOK
  <2>2. AttemptInv'
    BY <2>0 DEF TypeOK, AttemptInv
  <2>3. BackendInv' /\ OpenInv'
    BY <2>0 DEF TypeOK, BackendInv, OpenInv
  <2>4. ConnectedIffBackend'
    BY <2>0 DEF TypeOK, BackendInv, ConnectedIffBackend
  <2>5. ShellsOwned'
    BY <2>0 DEF TypeOK, AttemptInv, ShellsOwned
  <2> QED BY <2>1, <2>2, <2>3, <2>4, <2>5
<1>6. CASE HandleErr(t, g) /\ ~StillCurrent(t, g)
  <2>0. /\ phase[t][g] = "err"
        /\ phase' = [phase EXCEPT ![t][g] = "over"]
        /\ UNCHANGED <<generation, conn, backend, life, shell, stop, handler, active>>
    BY <1>6 DEF HandleErr
  <2>1. TypeOK'
    BY <2>0 DEF TypeOK
  <2>2. AttemptInv'
    BY <2>0 DEF TypeOK, AttemptInv
  <2>3. BackendInv' /\ OpenInv'
    BY <2>0 DEF TypeOK, BackendInv, OpenInv
  <2>4. ConnectedIffBackend'
    BY <2>0 DEF TypeOK, ConnectedIffBackend
  <2>5. ShellsOwned'
    BY <2>0 DEF TypeOK, AttemptInv, ShellsOwned
  <2> QED BY <2>1, <2>2, <2>3, <2>4, <2>5
<1> QED BY <1>1, <1>2, <1>3, <1>4, <1>5, <1>6

LEMMA NextIInv == IInv /\ [Next]_vars => IInv'
<1> SUFFICES ASSUME IInv, [Next]_vars PROVE IInv'
  OBVIOUS
<1>1. CASE Next
  BY <1>1, UserIInv, TaskIInv, CallbackIInv DEF Next, ChannelEnds, StopShell
<1>2. CASE UNCHANGED vars
  BY <1>2 DEF vars, IInv, TypeOK, OpenInv, AttemptInv, BackendInv, ConnectedIffBackend, ShellsOwned
<1> QED BY <1>1, <1>2

\* The inductive invariant holds in every reachable state.
THEOREM TerminalInvariant == Spec => []IInv
BY InitIInv, NextIInv, PTL DEF Spec

\* Every variable of the terminals keeps its type.
THEOREM TerminalTypes == Spec => []TypeOK
BY TerminalInvariant, PTL DEF IInv

\* An open terminal is shown as connected exactly when it has the backend of
\* its latest attempt.
THEOREM ConnectedHasBackend == Spec => []ConnectedIffBackend
BY TerminalInvariant, PTL DEF IInv

\* No remote shell is forgotten while its Terminal entity exists.
THEOREM ShellsAreOwned == Spec => []ShellsOwned
BY TerminalInvariant, PTL DEF IInv

\* No step revives a closed terminal.
LEMMA ClosedStep ==
  ASSUME IInv, [Next]_vars, NEW t \in Terminals, life[t] # "open"
  PROVE  conn'[t] = conn[t] /\ backend'[t] = None
<1> USE DEF IInv
<1>1. backend[t] = None
  BY DEF BackendInv
<1>2. ASSUME NEW g \in Attempts, StillCurrent(t, g)
      PROVE  phase[t][g] = "none" /\ handler[t][g] = "none"
  BY <1>2 DEF AttemptInv, StillCurrent
<1>3. ASSUME NEW u \in Terminals, Reconnect(u) \/ Close(u) \/ Release(u)
      PROVE  conn'[t] = conn[t] /\ backend'[t] = None
  BY <1>1, <1>3 DEF Reconnect, Close, Release, TakeBackend, TypeOK
<1>4. ASSUME NEW u \in Terminals, NEW g \in Attempts,
             \/ LeaveDone(u, g) \/ DialOk(u, g) \/ DialErr(u, g)
             \/ ChannelEnds(u, g) \/ StopShell(u, g)
      PROVE  conn'[t] = conn[t] /\ backend'[t] = None
  BY <1>1, <1>4 DEF LeaveDone, DialOk, DialErr, ChannelEnds, StopShell, EndShell
<1>5. ASSUME NEW u \in Terminals, NEW g \in Attempts,
             DisconnectHandler(u, g) \/ HandleOk(u, g) \/ HandleErr(u, g)
      PROVE  conn'[t] = conn[t] /\ backend'[t] = None
  <2>1. CASE u = t
    BY <1>1, <1>2, <1>5, <2>1 DEF DisconnectHandler, HandleOk, HandleErr
  <2>2. CASE u # t
    BY <1>1, <1>5, <2>2 DEF DisconnectHandler, HandleOk, HandleErr, TypeOK
  <2> QED BY <2>1, <2>2
<1>6. CASE UNCHANGED vars
  BY <1>1, <1>6 DEF vars
<1> QED BY <1>3, <1>4, <1>5, <1>6 DEF Next

\* Nothing that was pending when a terminal was closed changes what it shows
\* or gives it a backend.
THEOREM ClosedTerminalsStayClosed == Spec => ClosedStaysClosed
<1>1. IInv /\ [Next]_vars =>
        [\A t \in Terminals : life[t] # "open" =>
           conn'[t] = conn[t] /\ backend'[t] = None]_vars
  BY ClosedStep
<1> QED BY <1>1, TerminalInvariant, PTL DEF Spec, ClosedStaysClosed

\* With one terminal on the connection, every step leaves its id active exactly
\* if the terminal is then open and connected.
SingleTerminal == \A t, u \in Terminals : t = u

LEMMA ActiveStep ==
  ASSUME SingleTerminal, IInv, ActiveMatchesOpen, [Next]_vars
  PROVE  ActiveMatchesOpen'
<1> USE DEF IInv, SingleTerminal
<1>1. ASSUME NEW t \in Terminals, Reconnect(t) \/ Close(t)
      PROVE  ActiveMatchesOpen'
  <2>1. active' = FALSE /\ (life'[t] # "open" \/ conn'[t] = "connecting")
    BY <1>1 DEF Reconnect, Close, TypeOK
  <2> QED BY <2>1 DEF ActiveMatchesOpen
<1>2. ASSUME NEW t \in Terminals, Release(t)
      PROVE  ActiveMatchesOpen'
  <2>1. /\ active' = active /\ conn' = conn
        /\ life[t] # "open" /\ life'[t] # "open"
    BY <1>2 DEF Release, TypeOK
  <2> QED BY <2>1 DEF ActiveMatchesOpen
<1>3. ASSUME NEW t \in Terminals, NEW g \in Attempts,
             \/ LeaveDone(t, g) \/ DialOk(t, g) \/ DialErr(t, g)
             \/ ChannelEnds(t, g) \/ StopShell(t, g)
      PROVE  ActiveMatchesOpen'
  BY <1>3 DEF LeaveDone, DialOk, DialErr, ChannelEnds, StopShell, EndShell,
              ActiveMatchesOpen
<1>4. ASSUME NEW t \in Terminals, NEW g \in Attempts,
             DisconnectHandler(t, g) \/ HandleOk(t, g) \/ HandleErr(t, g)
      PROVE  ActiveMatchesOpen'
  <2>1. CASE ~StillCurrent(t, g)
    BY <1>4, <2>1 DEF DisconnectHandler, HandleOk, HandleErr, ActiveMatchesOpen
  <2>2. CASE StillCurrent(t, g)
    <3>0. phase[t][g] # "none"
      BY <1>4 DEF DisconnectHandler, HandleOk, HandleErr, AttemptInv
    <3>1. life[t] = "open" /\ life' = life
      BY <1>4, <2>2, <3>0, CurrentIsOpen DEF DisconnectHandler, HandleOk, HandleErr
    <3>2. CASE DisconnectHandler(t, g) \/ HandleErr(t, g)
      <4>1. active' = FALSE /\ conn'[t] # "connected"
        BY <2>2, <3>2 DEF DisconnectHandler, HandleErr, TypeOK
      <4> QED BY <4>1 DEF ActiveMatchesOpen
    <3>3. CASE HandleOk(t, g)
      <4>1. active' = TRUE /\ conn'[t] = "connected"
        BY <2>2, <3>3 DEF HandleOk, TypeOK
      <4> QED BY <3>1, <4>1 DEF ActiveMatchesOpen
    <3> QED BY <1>4, <3>2, <3>3
  <2> QED BY <2>1, <2>2
<1>5. CASE UNCHANGED vars
  BY <1>5 DEF vars, ActiveMatchesOpen
<1> QED BY <1>1, <1>2, <1>3, <1>4, <1>5 DEF Next

\* While a saved connection has a single terminal, ActiveConnections tells
\* exactly whether that terminal is connected.
THEOREM ActiveOfSingle ==
  ASSUME SingleTerminal PROVE Spec => []ActiveMatchesOpen
<1>1. Init => ActiveMatchesOpen
  BY DEF Init, ActiveMatchesOpen
<1>2. IInv /\ ActiveMatchesOpen /\ [Next]_vars => ActiveMatchesOpen'
  BY ActiveStep
<1> QED BY <1>1, <1>2, TerminalInvariant, PTL DEF Spec

\* With several terminals the entry can still be missing although one of them is
\* connected (the others' callbacks deactivate it), but never the reverse: an
\* active id belongs to some open, connected terminal.
ActiveHasTerminal ==
  active => \E t \in Terminals : life[t] = "open" /\ conn[t] = "connected"

LEMMA ActiveHasTerminalStep ==
  ASSUME IInv, ActiveHasTerminal, [Next]_vars
  PROVE  ActiveHasTerminal'
<1> USE DEF IInv
<1>1. ASSUME NEW t \in Terminals, Reconnect(t) \/ Close(t)
      PROVE  ActiveHasTerminal'
  BY <1>1 DEF Reconnect, Close, ActiveHasTerminal
<1>2. ASSUME NEW t \in Terminals, Release(t)
      PROVE  ActiveHasTerminal'
  <2>1. /\ active' = active /\ conn' = conn
        /\ \A u \in Terminals : life[u] = "open" => life'[u] = "open"
    BY <1>2 DEF Release, TypeOK
  <2> QED BY <2>1 DEF ActiveHasTerminal
<1>3. ASSUME NEW t \in Terminals, NEW g \in Attempts,
             \/ LeaveDone(t, g) \/ DialOk(t, g) \/ DialErr(t, g)
             \/ ChannelEnds(t, g) \/ StopShell(t, g)
      PROVE  ActiveHasTerminal'
  BY <1>3 DEF LeaveDone, DialOk, DialErr, ChannelEnds, StopShell, EndShell,
              ActiveHasTerminal
<1>4. ASSUME NEW t \in Terminals, NEW g \in Attempts,
             DisconnectHandler(t, g) \/ HandleOk(t, g) \/ HandleErr(t, g)
      PROVE  ActiveHasTerminal'
  <2>1. CASE ~StillCurrent(t, g)
    BY <1>4, <2>1 DEF DisconnectHandler, HandleOk, HandleErr, ActiveHasTerminal
  <2>2. CASE StillCurrent(t, g) /\ (DisconnectHandler(t, g) \/ HandleErr(t, g))
    BY <2>2 DEF DisconnectHandler, HandleErr, ActiveHasTerminal
  <2>3. CASE StillCurrent(t, g) /\ HandleOk(t, g)
    <3>1. phase[t][g] # "none" /\ life' = life /\ conn'[t] = "connected"
      BY <2>3 DEF HandleOk, TypeOK
    <3>2. life'[t] = "open"
      BY <2>3, <3>1, CurrentIsOpen
    <3> QED BY <3>1, <3>2 DEF ActiveHasTerminal
  <2> QED BY <1>4, <2>1, <2>2, <2>3
<1>5. CASE UNCHANGED vars
  BY <1>5 DEF vars, ActiveHasTerminal
<1> QED BY <1>1, <1>2, <1>3, <1>4, <1>5 DEF Next

\* However many terminals share the connection, ActiveConnections never holds an
\* id that none of them is connected to.
THEOREM ActiveIsBacked == Spec => []ActiveHasTerminal
<1>1. Init => ActiveHasTerminal
  BY DEF Init, ActiveHasTerminal
<1>2. IInv /\ ActiveHasTerminal /\ [Next]_vars => ActiveHasTerminal'
  BY ActiveHasTerminalStep
<1> QED BY <1>1, <1>2, TerminalInvariant, PTL DEF Spec

\* The latest attempt of an open terminal ends only together with "connecting".
LEMMA UnderWayStep ==
  ASSUME IInv, ConnectingIsUnderWay, [Next]_vars
  PROVE  ConnectingIsUnderWay'
<1> SUFFICES ASSUME NEW t \in Terminals, life'[t] = "open", conn'[t] = "connecting"
             PROVE  phase'[t][generation'[t]] \in {"leaving", "dialing", "ok", "err"}
  BY DEF ConnectingIsUnderWay
<1> USE DEF IInv
<1>1. ASSUME NEW u \in Terminals, Reconnect(u)
      PROVE  phase'[t][generation'[t]] \in {"leaving", "dialing", "ok", "err"}
  <2>1. generation[u] + 1 \in Attempts
    BY <1>1 DEF Reconnect, TypeOK, OpenInv
  <2>2. CASE u = t
    BY <1>1, <2>1, <2>2 DEF Reconnect, NextGeneration, TypeOK
  <2>3. CASE u # t
    BY <1>1, <2>3 DEF Reconnect, NextGeneration, TypeOK, ConnectingIsUnderWay
  <2> QED BY <2>2, <2>3
<1>2. ASSUME NEW u \in Terminals, Close(u) \/ Release(u)
      PROVE  phase'[t][generation'[t]] \in {"leaving", "dialing", "ok", "err"}
  <2>1. u # t
    BY <1>2 DEF Close, Release, TypeOK
  <2> QED BY <1>2, <2>1 DEF Close, Release, TypeOK, ConnectingIsUnderWay
<1>3. ASSUME NEW u \in Terminals, NEW g \in Attempts,
             LeaveDone(u, g) \/ DialOk(u, g) \/ DialErr(u, g) \/ EndShell(u, g)
      PROVE  phase'[t][generation'[t]] \in {"leaving", "dialing", "ok", "err"}
  <2>1. /\ phase[t][generation[t]] \in {"leaving", "dialing", "ok", "err"}
        /\ life[t] = "open" /\ generation[t] \in Attempts /\ generation' = generation
    BY <1>3 DEF LeaveDone, DialOk, DialErr, EndShell, ConnectingIsUnderWay, OpenInv
  <2>2. CASE u = t /\ g = generation[t]
    BY <1>3, <2>1, <2>2 DEF LeaveDone, DialOk, DialErr, EndShell, StillCurrent, TypeOK
  <2>3. CASE u # t \/ g # generation[t]
    BY <1>3, <2>1, <2>3 DEF LeaveDone, DialOk, DialErr, EndShell, TypeOK
  <2> QED BY <2>2, <2>3
<1>4. ASSUME NEW u \in Terminals, NEW g \in Attempts,
             DisconnectHandler(u, g) \/ HandleOk(u, g) \/ HandleErr(u, g)
      PROVE  phase'[t][generation'[t]] \in {"leaving", "dialing", "ok", "err"}
  <2>1. life[t] = "open" /\ generation' = generation /\ generation[t] \in Attempts
    BY <1>4 DEF DisconnectHandler, HandleOk, HandleErr, OpenInv
  <2>2. ~(u = t /\ StillCurrent(u, g))
    BY <1>4 DEF DisconnectHandler, HandleOk, HandleErr, TypeOK
  <2>3. conn[t] = "connecting" /\ (u # t \/ g # generation[t])
    BY <1>4, <2>1, <2>2 DEF DisconnectHandler, HandleOk, HandleErr, StillCurrent, TypeOK
  <2>4. phase[t][generation[t]] \in {"leaving", "dialing", "ok", "err"}
    BY <2>1, <2>3 DEF ConnectingIsUnderWay
  <2>5. phase' = phase \/ phase' = [phase EXCEPT ![u][g] = "over"]
    BY <1>4 DEF DisconnectHandler, HandleOk, HandleErr
  <2>6. phase'[t][generation[t]] = phase[t][generation[t]]
    BY <2>1, <2>3, <2>5 DEF TypeOK
  <2> QED BY <2>1, <2>4, <2>6
<1>5. CASE UNCHANGED vars
  BY <1>5 DEF vars, ConnectingIsUnderWay
<1> QED BY <1>1, <1>2, <1>3, <1>4, <1>5 DEF Next, ChannelEnds, StopShell

\* No open terminal shows "connecting" with nothing left that could end it: what
\* liveness then needs is only that the tasks go on.
THEOREM ConnectingIsHandled == Spec => []ConnectingIsUnderWay
<1>1. Init => ConnectingIsUnderWay
  BY DEF Init, ConnectingIsUnderWay
<1>2. IInv /\ ConnectingIsUnderWay /\ [Next]_vars => ConnectingIsUnderWay'
  BY UnderWayStep
<1> QED BY <1>1, <1>2, TerminalInvariant, PTL DEF Spec

-----------------------------------------------------------------------------
(* The refinement: every step of the program is a step of each terminal's   *)
(* OneLink, or changes nothing OneLink speaks of.                           *)

Face(t) == <<life[t], generation[t], backend[t], conn[t], Awaited(t), Watched(t)>>

LEMMA FaceStutters ==
  ASSUME NEW t \in Terminals, UNCHANGED Face(t)
  PROVE  UNCHANGED Link(t)!vars
BY DEF Face, Link!vars, Latest, Status

\* A step of one terminal is none of another's.
LEMMA OtherStutters ==
  ASSUME IInv, NEW t \in Terminals, NEW u \in Terminals, u # t,
         \/ Reconnect(u) \/ Close(u) \/ Release(u)
         \/ \E g \in Attempts :
              \/ LeaveDone(u, g) \/ DialOk(u, g) \/ DialErr(u, g)
              \/ ChannelEnds(u, g) \/ StopShell(u, g)
              \/ DisconnectHandler(u, g) \/ HandleOk(u, g) \/ HandleErr(u, g)
  PROVE  UNCHANGED Link(t)!vars
<1>1. /\ life'[t] = life[t] /\ generation'[t] = generation[t]
      /\ backend'[t] = backend[t] /\ conn'[t] = conn[t]
      /\ phase'[t] = phase[t] /\ handler'[t] = handler[t]
  BY DEF IInv, TypeOK, Reconnect, Close, Release, TakeBackend, LeaveDone, DialOk, DialErr,
         ChannelEnds, StopShell, EndShell, DisconnectHandler, HandleOk, HandleErr
<1> QED BY <1>1, FaceStutters DEF Face, Awaited, Watched

LEMMA CloseLinks ==
  ASSUME IInv, NEW t \in Terminals, Close(t)
  PROVE  Link(t)!Close
<1>1. /\ life[t] = "open" /\ life'[t] = "shut"
      /\ generation'[t] = generation[t] + 1 /\ generation[t] \in Nat
      /\ backend'[t] = None /\ conn'[t] = conn[t]
  BY DEF Close, TakeBackend, NextGeneration, IInv, TypeOK, OpenInv
<1>2. Latest(t)' = Latest(t) /\ Status(t)' = Status(t)
  BY <1>1 DEF Latest, Status
<1> QED BY <1>1, <1>2 DEF Link!Close, Link!None, Awaited, Watched

LEMMA ReconnectLinks ==
  ASSUME IInv, NEW t \in Terminals, Reconnect(t)
  PROVE  Link(t)!Begin
<1>1. /\ life[t] = "open" /\ life'[t] = "open"
      /\ generation'[t] = generation[t] + 1 /\ generation[t] + 1 \in Attempts
      /\ backend'[t] = None /\ conn'[t] = "connecting"
      /\ phase'[t][generation[t] + 1] = "leaving"
      /\ handler'[t][generation[t] + 1] = handler[t][generation[t] + 1]
      /\ generation[t] \in Attempts
  BY DEF Reconnect, TakeBackend, NextGeneration, IInv, TypeOK, OpenInv
<1>2. handler[t][generation[t] + 1] = "none"
  BY <1>1 DEF IInv, AttemptInv
<1>3. Awaited(t)' = TRUE /\ Watched(t)' = TRUE
  BY <1>1, <1>2 DEF Awaited, Watched
<1>4. Latest(t)' = Latest(t) + 1 /\ Status(t)' = "connecting"
  BY <1>1 DEF Latest, Status
<1> QED BY <1>1, <1>3, <1>4 DEF Link!Begin, Link!None

\* The tasks of an attempt report nothing themselves.
LEMMA TasksStutter ==
  ASSUME IInv, NEW t \in Terminals, NEW g \in Attempts,
         \/ LeaveDone(t, g) \/ DialOk(t, g) \/ DialErr(t, g) \/ EndShell(t, g)
  PROVE  UNCHANGED Link(t)!vars
<1>1. UNCHANGED <<generation, conn, backend, life>>
  BY DEF LeaveDone, DialOk, DialErr, EndShell
<1>2. ASSUME life[t] = "open"
      PROVE  /\ phase'[t][generation[t]] # "over" <=> phase[t][generation[t]] # "over"
             /\ handler'[t][generation[t]] # "done" <=> handler[t][generation[t]] # "done"
  <2>1. generation[t] \in Attempts
    BY <1>2 DEF IInv, OpenInv
  <2>2. CASE g # generation[t]
    BY <2>1, <2>2 DEF IInv, TypeOK, LeaveDone, DialOk, DialErr, EndShell
  <2>3. CASE g = generation[t]
    BY <1>2, <2>1, <2>3
       DEF IInv, TypeOK, AttemptInv, LeaveDone, DialOk, DialErr, EndShell, StillCurrent
  <2> QED BY <2>2, <2>3
<1>3. (Awaited(t)' <=> Awaited(t)) /\ (Watched(t)' <=> Watched(t))
  BY <1>1, <1>2 DEF Awaited, Watched
<1>4. UNCHANGED <<Latest(t), Status(t), backend[t], life[t]>>
  BY <1>1 DEF Latest, Status
<1> QED BY <1>3, <1>4 DEF Link!vars, Awaited, Watched

\* A callback of an attempt that is not current, or of a closed terminal.
LEMMA LateCallbackStutters ==
  ASSUME IInv, NEW t \in Terminals, NEW g \in Attempts, ~StillCurrent(t, g),
         DisconnectHandler(t, g) \/ HandleOk(t, g) \/ HandleErr(t, g)
  PROVE  UNCHANGED Link(t)!vars
<1>1. UNCHANGED <<generation, conn, backend, life>>
  BY DEF DisconnectHandler, HandleOk, HandleErr
<1>2. ASSUME life[t] = "open"
      PROVE  /\ phase'[t][generation[t]] = phase[t][generation[t]]
             /\ handler'[t][generation[t]] = handler[t][generation[t]]
  BY <1>2 DEF IInv, TypeOK, OpenInv, StillCurrent, DisconnectHandler, HandleOk, HandleErr
<1>3. Awaited(t)' = Awaited(t) /\ Watched(t)' = Watched(t)
  BY <1>1, <1>2 DEF Awaited, Watched
<1> QED BY <1>1, <1>3, FaceStutters DEF Face

LEMMA CallbackLinks ==
  ASSUME IInv, NEW t \in Terminals, NEW g \in Attempts, StillCurrent(t, g)
  PROVE  /\ HandleOk(t, g) => Link(t)!Establish
         /\ HandleErr(t, g) => Link(t)!Fail
         /\ DisconnectHandler(t, g) => Link(t)!Lose
<1> USE DEF IInv
<1>1. ASSUME HandleOk(t, g) PROVE Link(t)!Establish
  <2>1. /\ life[t] = "open" /\ life' = life /\ generation' = generation /\ generation[t] = g
        /\ phase[t][g] = "ok" /\ phase'[t][g] = "over"
        /\ conn'[t] = "connected" /\ backend'[t] = g
        /\ handler' = handler
    BY <1>1, CurrentIsOpen DEF HandleOk, TypeOK, StillCurrent
  <2>2. backend[t] = None
    BY <2>1 DEF BackendInv
  <2>3. Latest(t) = g /\ UNCHANGED <<Latest(t), Watched(t)>>
    BY <2>1 DEF Latest, Watched
  <2>4. Awaited(t) /\ Awaited(t)' = FALSE
    BY <2>1 DEF Awaited
  <2>5. Status(t)' = "connected"
    BY <2>1 DEF Status
  <2> QED BY <2>1, <2>2, <2>3, <2>4, <2>5 DEF Link!Establish, Link!None
<1>2. ASSUME HandleErr(t, g) PROVE Link(t)!Fail
  <2>1. /\ life[t] = "open" /\ life' = life /\ generation' = generation /\ generation[t] = g
        /\ phase[t][g] = "err" /\ phase'[t][g] = "over"
        /\ conn'[t] = "failed" /\ backend' = backend
        /\ handler' = handler
    BY <1>2, CurrentIsOpen DEF HandleErr, TypeOK, StillCurrent
  <2>2. backend[t] = None
    BY <2>1 DEF BackendInv
  <2>3. UNCHANGED <<Latest(t), Watched(t)>>
    BY <2>1 DEF Latest, Watched
  <2>4. Awaited(t) /\ Awaited(t)' = FALSE
    BY <2>1 DEF Awaited
  <2>5. Status(t)' = "down"
    BY <2>1 DEF Status
  <2> QED BY <2>1, <2>2, <2>3, <2>4, <2>5 DEF Link!Fail, Link!None
<1>3. ASSUME DisconnectHandler(t, g) PROVE Link(t)!Lose
  <2>0. phase[t][g] # "none"
    BY <1>3 DEF DisconnectHandler, AttemptInv
  <2>1. /\ life[t] = "open" /\ life' = life /\ generation' = generation /\ generation[t] = g
        /\ handler[t][g] = "fired" /\ handler'[t][g] = "done"
        /\ conn'[t] = "lost" /\ backend'[t] = None
        /\ phase' = phase
    BY <1>3, <2>0, CurrentIsOpen DEF DisconnectHandler, TypeOK, StillCurrent
  <2>3. UNCHANGED <<Latest(t), Awaited(t)>>
    BY <2>1 DEF Latest, Awaited
  <2>4. Watched(t) /\ Watched(t)' = FALSE
    BY <2>1 DEF Watched
  <2>5. Status(t)' = "down"
    BY <2>1 DEF Status
  <2> QED BY <2>1, <2>3, <2>4, <2>5 DEF Link!Lose, Link!None
<1> QED BY <1>1, <1>2, <1>3

LEMMA LinkStep ==
  ASSUME IInv, [Next]_vars, NEW t \in Terminals
  PROVE  [Link(t)!Next]_(Link(t)!vars)
<1>1. CASE UNCHANGED vars
  BY <1>1, FaceStutters DEF vars, Face, Awaited, Watched
<1>2. ASSUME NEW u \in Terminals,
             \/ Reconnect(u) \/ Close(u) \/ Release(u)
             \/ \E g \in Attempts :
                  \/ LeaveDone(u, g) \/ DialOk(u, g) \/ DialErr(u, g)
                  \/ ChannelEnds(u, g) \/ StopShell(u, g)
                  \/ DisconnectHandler(u, g) \/ HandleOk(u, g) \/ HandleErr(u, g)
      PROVE  [Link(t)!Next]_(Link(t)!vars)
  <2>1. CASE u # t
    BY <1>2, <2>1, OtherStutters
  <2>2. ASSUME u = t, Reconnect(u) PROVE Link(t)!Next
    BY <2>2, ReconnectLinks DEF Link!Next
  <2>3. ASSUME u = t, Close(u) PROVE Link(t)!Next
    BY <2>3, CloseLinks DEF Link!Next
  <2>4. ASSUME u = t, Release(u) PROVE UNCHANGED Link(t)!vars
    <3>1. life[t] # "open" /\ life'[t] # "open"
      BY <2>4 DEF Release, IInv, TypeOK
    <3>2. UNCHANGED <<generation, conn, backend>>
      BY <2>4 DEF Release
    <3> QED BY <3>1, <3>2 DEF Link!vars, Latest, Status, Awaited, Watched
  <2>5. ASSUME u = t, NEW g \in Attempts,
               \/ LeaveDone(u, g) \/ DialOk(u, g) \/ DialErr(u, g)
               \/ ChannelEnds(u, g) \/ StopShell(u, g)
        PROVE  UNCHANGED Link(t)!vars
    BY <2>5, TasksStutter DEF ChannelEnds, StopShell
  <2>6. ASSUME u = t, NEW g \in Attempts,
               DisconnectHandler(u, g) \/ HandleOk(u, g) \/ HandleErr(u, g)
        PROVE  [Link(t)!Next]_(Link(t)!vars)
    <3>1. CASE StillCurrent(t, g)
      BY <2>6, <3>1, CallbackLinks DEF Link!Next
    <3>2. CASE ~StillCurrent(t, g)
      BY <2>6, <3>2, LateCallbackStutters
    <3> QED BY <3>1, <3>2
  <2> QED BY <1>2, <2>1, <2>2, <2>3, <2>4, <2>5, <2>6
<1> QED BY <1>1, <1>2 DEF Next

\* Every terminal keeps the promise of OneLink: one link, that of the latest
\* attempt, and no report that counts twice or comes too late.
THEOREM TerminalsImplement == Spec => ImplementsOneLink
<1>1. Init => \A t \in Terminals : Link(t)!Init
  <2> SUFFICES ASSUME Init, NEW t \in Terminals PROVE Link(t)!Init
    OBVIOUS
  <2>1. /\ life[t] = "open" /\ generation[t] = 1 /\ backend[t] = None
        /\ conn[t] = "connecting"
        /\ phase[t][1] = "dialing" /\ handler[t][1] = "armed"
    BY DEF Init
  <2>2. Latest(t) = 1 /\ Status(t) = "connecting" /\ Awaited(t) = TRUE /\ Watched(t) = TRUE
    BY <2>1 DEF Latest, Status, Awaited, Watched
  <2> QED BY <2>1, <2>2 DEF Link!Init, Link!None
<1>2. IInv /\ [Next]_vars => [\A t \in Terminals : [Link(t)!Next]_(Link(t)!vars)]_vars
  BY LinkStep
<1> QED BY <1>1, <1>2, TerminalInvariant, PTL DEF Spec, ImplementsOneLink

=============================================================================
