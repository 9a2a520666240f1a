------------------------ MODULE PortForwardingProofs -----------------------
(***************************************************************************)
(* For any set of forwardings, ports and tunnels: the types, that a        *)
(* connection has one tunnel, that every bound port has an owner, that     *)
(* what runs counts as active, that a tunnel that was stopped opens        *)
(* nothing more, and that the runtime implements ForwardingTable.          *)
(*                                                                         *)
(* CurrentInv says what the runtime's mutex protects: while a request      *)
(* holds it, its connection has no tunnel in either map, so a start adds   *)
(* the only one and a stop may take the connection out of                  *)
(* ActiveConnections. TunnelInv, for the refinement, says that a tunnel is *)
(* in one place at most, and that outside the two maps and the request in  *)
(* progress nothing is bound or connected.                                 *)
(***************************************************************************)
EXTENDS PortForwarding, SequenceTheorems, TLAPS

CurrentInv ==
  /\ current.step = "idle" => current = Idle
  /\ current.step # "idle" =>
       /\ current.req \in Requests
       /\ current.tunnel \in Tunnels
       /\ \A k \in Kinds : map[k][current.req.conn] = None
  /\ current.step = "disconnect" => ~listener[current.tunnel]

IInv ==
  /\ TypeOK
  /\ CurrentInv
  /\ OneTunnel
  /\ PortsOwned
  /\ RunningIsActive

USE ForwardingAssumption

LEMMA InitIInv == Init => IInv
<1> SUFFICES ASSUME Init PROVE IInv
  OBVIOUS
<1> USE DEF Init
<1>1. waiting \in Seq(Requests)
  BY EmptySeq
<1>2. current \in [step : Steps, req : Requests \cup {None}, tunnel : Tunnels \cup {None}]
  BY DEF Idle, Steps
<1>3. TypeOK
  BY <1>1, <1>2 DEF TypeOK, Relays
<1>4. CurrentInv
  BY DEF CurrentInv, Idle
<1>5. OneTunnel /\ PortsOwned /\ RunningIsActive
  BY DEF OneTunnel, PortsOwned, RunningIsActive, IsRunning, Kinds
<1> QED BY <1>3, <1>4, <1>5 DEF IInv

\* A step that leaves the maps and the request in progress alone, and binds
\* no port.
LEMMA QuietIInv ==
  ASSUME IInv, TypeOK', UNCHANGED <<current, map>>, active' = active,
         \A t \in Tunnels : listener'[t] => listener[t]
  PROVE  IInv'
<1>1. CurrentInv'
  BY DEF IInv, CurrentInv
<1>2. OneTunnel' /\ RunningIsActive'
  BY DEF IInv, OneTunnel, RunningIsActive, IsRunning
<1>3. PortsOwned'
  BY DEF IInv, PortsOwned, InMap
<1> QED BY <1>1, <1>2, <1>3 DEF IInv

LEMMA AskIInv ==
  ASSUME IInv, NEW op \in {"start", "stop"}, NEW c \in Conns, NEW k \in Kinds,
         Ask(op, c, k)
  PROVE  IInv'
<1>1. /\ waiting' = Append(waiting, [op |-> op, conn |-> c, kind |-> k])
      /\ UNCHANGED <<saved, active, dialog, current, map, listener, up, accepted, opening, copying>>
  BY DEF Ask, home, tunnel
<1>2. waiting' \in Seq(Requests)
  <2>1. [op |-> op, conn |-> c, kind |-> k] \in Requests /\ waiting \in Seq(Requests)
    BY DEF Requests, IInv, TypeOK
  <2> QED BY <1>1, <2>1
<1>3. TypeOK'
  BY <1>1, <1>2 DEF IInv, TypeOK, Relays
<1> QED BY <1>1, <1>3, QuietIInv

LEMMA HomeIInv ==
  ASSUME IInv,
         \/ \E c \in Conns : (\E k \in Kinds : Open(c, k)) \/ StopButton(c) \/ DeleteButton(c)
         \/ \E S \in SUBSET saved : DeleteSelected(S)
         \/ Delete \/ KeepConnections
  PROVE  IInv'
<1>1. ASSUME NEW c \in Conns, NEW k \in Kinds, Open(c, k)
      PROVE  IInv'
  BY <1>1, AskIInv DEF Open
<1>2. ASSUME NEW c \in Conns, StopButton(c)
      PROVE  IInv'
  <2>1. (CHOOSE k \in Kinds : TRUE) \in Kinds
    BY DEF Kinds
  <2> QED BY <1>2, <2>1, AskIInv DEF StopButton
<1>3. CASE \/ \E c \in Conns : DeleteButton(c)
           \/ \E S \in SUBSET saved : DeleteSelected(S)
           \/ Delete \/ KeepConnections
  <2>1. /\ saved' \subseteq saved /\ dialog' \subseteq saved
        /\ UNCHANGED <<active, waiting, current, map, listener, up, accepted, opening, copying>>
    BY <1>3 DEF DeleteButton, DeleteSelected, AskDelete, Delete, KeepConnections, tunnel
  <2>2. TypeOK'
    BY <2>1 DEF IInv, TypeOK, Relays
  <2> QED BY <2>1, <2>2, QuietIInv
<1> QED BY <1>1, <1>2, <1>3

\* The head of the queue is a request, and what is left is a queue.
LEMMA HeadRequest ==
  ASSUME TypeOK, waiting # <<>>
  PROVE  Head(waiting) \in Requests /\ Tail(waiting) \in Seq(Requests)
BY HeadTailProperties DEF TypeOK

LEMMA RefuseIInv ==
  ASSUME IInv, RefuseStart \/ RefuseStop
  PROVE  IInv'
<1>1. /\ TypeOK /\ waiting # <<>> /\ waiting' = Tail(waiting)
      /\ UNCHANGED <<saved, active, dialog, current, map, listener, up, accepted, opening, copying>>
  BY DEF IInv, RefuseStart, RefuseStop, Acquires, home, tunnel
<1>2. TypeOK'
  BY <1>1, HeadRequest DEF TypeOK, Relays
<1> QED BY <1>1, <1>2, QuietIInv

LEMMA BindIInv ==
  ASSUME IInv, Bind
  PROVE  IInv'
<1> DEFINE r == Head(waiting)
<1>1. PICK t \in Tunnels :
        /\ Fresh(t)
        /\ current' = [step |-> "dial", req |-> r, tunnel |-> t]
        /\ listener' = [listener EXCEPT ![t] = TRUE]
  BY DEF Bind
<1>2. /\ TypeOK /\ current = Idle /\ waiting # <<>> /\ ~IsRunning(r.conn)
      /\ waiting' = Tail(waiting)
      /\ UNCHANGED <<saved, active, dialog, map, up, accepted, opening, copying>>
  BY DEF IInv, Bind, Acquires, home
<1>3. r \in Requests /\ waiting' \in Seq(Requests)
  BY <1>2, HeadRequest
<1> HIDE DEF r
<1>4. /\ current'.step = "dial" /\ current'.req = r /\ current'.tunnel = t
      /\ current' \in [step : Steps, req : Requests \cup {None}, tunnel : Tunnels \cup {None}]
  BY <1>1, <1>3 DEF Steps
<1>5. listener' \in [Tunnels -> BOOLEAN]
  BY <1>1, <1>2 DEF TypeOK
<1>6. TypeOK'
  BY <1>2, <1>3, <1>4, <1>5 DEF TypeOK, Relays
<1>7. CurrentInv'
  BY <1>2, <1>3, <1>4 DEF CurrentInv, IsRunning
<1>8. PortsOwned'
  <2> SUFFICES ASSUME NEW u \in Tunnels, listener'[u]
               PROVE  InMap(u)' \/ current'.tunnel = u
    BY DEF PortsOwned
  <2>1. CASE u = t
    BY <1>4, <2>1
  <2>2. CASE u # t
    <3>1. listener[u] /\ current.tunnel # u
      BY <1>1, <1>2, <2>2 DEF TypeOK, Idle
    <3> QED BY <1>2, <3>1 DEF IInv, PortsOwned, InMap
  <2> QED BY <2>1, <2>2
<1>9. OneTunnel' /\ RunningIsActive'
  BY <1>2 DEF IInv, OneTunnel, RunningIsActive, IsRunning
<1> QED BY <1>6, <1>7, <1>8, <1>9 DEF IInv

LEMMA DialIInv ==
  ASSUME IInv, DialOk \/ DialErr
  PROVE  IInv'
<1> DEFINE c == current.req.conn
           k == current.req.kind
           t == current.tunnel
<1>1. /\ TypeOK /\ c \in Conns /\ k \in Kinds /\ t \in Tunnels
      /\ \A l \in Kinds : map[l][c] = None
      /\ current' = Idle
      /\ UNCHANGED <<saved, dialog, waiting, accepted, opening, copying>>
  <2>1. current.step = "dial"
    BY DEF DialOk, DialErr, Holds
  <2> QED BY <2>1 DEF IInv, CurrentInv, DialOk, DialErr, home, Requests
<1>2. /\ current' \in [step : Steps, req : Requests \cup {None}, tunnel : Tunnels \cup {None}]
      /\ CurrentInv'
  BY <1>1 DEF Idle, Steps, CurrentInv
<1>3. CASE DialErr
  <2>1. /\ listener' = [listener EXCEPT ![t] = FALSE]
        /\ UNCHANGED <<active, map, up>>
    BY <1>3 DEF DialErr, home
  <2> HIDE DEF c, k, t
  <2>2. TypeOK'
    BY <1>1, <1>2, <2>1 DEF TypeOK, Relays
  <2>3. PortsOwned'
    BY <1>1, <2>1 DEF IInv, PortsOwned, InMap, TypeOK, t
  <2>4. OneTunnel' /\ RunningIsActive'
    BY <2>1 DEF IInv, OneTunnel, RunningIsActive, IsRunning
  <2> QED BY <1>2, <2>2, <2>3, <2>4 DEF IInv
<1>4. CASE DialOk
  <2>1. /\ up' = [up EXCEPT ![t] = TRUE]
        /\ map' = [map EXCEPT ![k][c] = t]
        /\ active' = active \cup {c}
        /\ UNCHANGED listener
    BY <1>4 DEF DialOk
  <2> HIDE DEF c, k, t
  <2>2. /\ map' \in [Kinds -> [Conns -> Tunnels \cup {None}]]
        /\ map'[k][c] = t
        /\ \A l \in Kinds, d \in Conns : <<l, d>> # <<k, c>> => map'[l][d] = map[l][d]
    BY <1>1, <2>1 DEF TypeOK
  <2>3. up' \in [Tunnels -> BOOLEAN]
    BY <1>1, <2>1 DEF TypeOK
  <2>4. TypeOK'
    BY <1>1, <1>2, <2>1, <2>2, <2>3 DEF TypeOK, Relays
  <2>5. OneTunnel'
    BY <1>1, <2>2 DEF IInv, OneTunnel
  <2>6. RunningIsActive'
    BY <1>1, <2>1, <2>2 DEF IInv, RunningIsActive, IsRunning
  <2>7. PortsOwned'
    <3> SUFFICES ASSUME NEW u \in Tunnels, listener[u]
                 PROVE  InMap(u)'
      BY <2>1 DEF PortsOwned
    <3>1. CASE u = t
      BY <1>1, <2>2, <3>1 DEF InMap
    <3>2. CASE u # t
      <4>1. PICK l \in Kinds, d \in Conns : map[l][d] = u
        BY <3>2 DEF IInv, PortsOwned, InMap, t
      <4>2. <<l, d>> # <<k, c>>
        BY <1>1, <4>1
      <4> QED BY <2>2, <4>1, <4>2 DEF InMap
    <3> QED BY <3>1, <3>2
  <2> QED BY <1>2, <2>4, <2>5, <2>6, <2>7 DEF IInv
<1> QED BY <1>3, <1>4

LEMMA TakeIInv ==
  ASSUME IInv, TakeTunnel
  PROVE  IInv'
<1> DEFINE r == Head(waiting)
           c == r.conn
           k == IF map["local"][c] # None THEN "local" ELSE "dynamic"
           t == map[k][c]
<1>1. /\ TypeOK /\ current = Idle /\ waiting # <<>> /\ IsRunning(c)
      /\ map' = [map EXCEPT ![k][c] = None]
      /\ current' = [step |-> "close", req |-> r, tunnel |-> t]
      /\ waiting' = Tail(waiting)
      /\ UNCHANGED <<saved, active, dialog, listener, up, accepted, opening, copying>>
  BY DEF IInv, TakeTunnel, Acquires, home, tunnel
<1>2. r \in Requests /\ waiting' \in Seq(Requests)
  BY <1>1, HeadRequest
<1>3. c \in Conns /\ k \in Kinds /\ t \in Tunnels
  <2>1. c \in Conns
    BY <1>2 DEF Requests
  <2>2. map[k][c] # None /\ k \in Kinds
    BY <1>1 DEF IsRunning, Kinds
  <2> QED BY <1>1, <2>1, <2>2 DEF TypeOK
<1>4. /\ current'.step = "close" /\ current'.req = r /\ current'.tunnel = t
      /\ current' \in [step : Steps, req : Requests \cup {None}, tunnel : Tunnels \cup {None}]
  BY <1>1, <1>2, <1>3 DEF Steps
<1>5. current'.req.conn = c
  BY <1>4
<1>6. map[k][c] = t /\ t # None
  BY <1>3
<1> HIDE DEF r, c, k, t
<1>7. /\ map' \in [Kinds -> [Conns -> Tunnels \cup {None}]]
      /\ map'[k][c] = None
      /\ \A l \in Kinds, d \in Conns : <<l, d>> # <<k, c>> => map'[l][d] = map[l][d]
  BY <1>1, <1>3 DEF TypeOK
<1>8. TypeOK'
  BY <1>1, <1>2, <1>4, <1>7 DEF TypeOK, Relays
<1>9. \A l \in Kinds : map'[l][c] = None
  BY <1>3, <1>6, <1>7 DEF IInv, OneTunnel
<1>10. CurrentInv'
  BY <1>2, <1>3, <1>4, <1>5, <1>9 DEF CurrentInv
<1>11. OneTunnel'
  BY <1>3, <1>7 DEF IInv, OneTunnel
<1>12. RunningIsActive'
  BY <1>1, <1>3, <1>7, <1>9 DEF IInv, RunningIsActive, IsRunning
<1>13. PortsOwned'
  <2> SUFFICES ASSUME NEW u \in Tunnels, listener[u], u # t
               PROVE  InMap(u)'
    BY <1>1, <1>4 DEF PortsOwned
  <2>1. PICK l \in Kinds, d \in Conns : map[l][d] = u
    BY <1>1 DEF IInv, PortsOwned, InMap, Idle
  <2>2. <<l, d>> # <<k, c>>
    BY <1>6, <2>1
  <2> QED BY <1>7, <2>1, <2>2 DEF InMap
<1> QED BY <1>8, <1>10, <1>11, <1>12, <1>13 DEF IInv

LEMMA StopIInv ==
  ASSUME IInv, JoinAccept \/ Disconnect
  PROVE  IInv'
<1> DEFINE t == current.tunnel
<1>1. /\ TypeOK /\ current.step \in {"close", "disconnect"} /\ t \in Tunnels
      /\ current.req \in Requests /\ current.req.conn \in Conns
      /\ \A k \in Kinds : map[k][current.req.conn] = None
      /\ UNCHANGED <<saved, dialog, waiting, map, accepted, opening, copying>>
  <2>1. current.step \in {"close", "disconnect"} /\ current.step # "idle"
    BY DEF JoinAccept, Disconnect, Holds
  <2> QED BY <2>1 DEF IInv, CurrentInv, JoinAccept, Disconnect, home, Requests
<1>2. OneTunnel'
  BY <1>1 DEF IInv, OneTunnel
<1>3. CASE JoinAccept
  <2>1. /\ listener' = [listener EXCEPT ![t] = FALSE]
        /\ current' = [current EXCEPT !.step = "disconnect"]
        /\ UNCHANGED <<active, up>>
    BY <1>3 DEF JoinAccept, home
  <2>2. /\ current'.step = "disconnect" /\ current'.req = current.req
        /\ current'.tunnel = t
        /\ current' \in [step : Steps, req : Requests \cup {None}, tunnel : Tunnels \cup {None}]
    BY <1>1, <2>1 DEF TypeOK, Steps
  <2> HIDE DEF t
  <2>3. listener' \in [Tunnels -> BOOLEAN] /\ ~listener'[t]
        /\ \A u \in Tunnels : listener'[u] => listener[u] /\ u # t
    BY <1>1, <2>1 DEF TypeOK
  <2>4. TypeOK'
    BY <1>1, <2>1, <2>2, <2>3 DEF TypeOK, Relays
  <2>5. CurrentInv'
    BY <1>1, <2>2, <2>3 DEF CurrentInv
  <2>6. PortsOwned'
    BY <1>1, <2>3 DEF IInv, PortsOwned, InMap, t
  <2>7. RunningIsActive'
    BY <1>1, <2>1 DEF IInv, RunningIsActive, IsRunning
  <2> QED BY <1>2, <2>4, <2>5, <2>6, <2>7 DEF IInv
<1>4. CASE Disconnect
  <2>1. /\ current.step = "disconnect"
        /\ up' = [up EXCEPT ![t] = FALSE]
        /\ active' \in {active, active \ {current.req.conn}}
        /\ current' = Idle
        /\ UNCHANGED listener
    BY <1>4 DEF Disconnect, Holds
  <2>2. ~listener[t]
    BY <2>1 DEF IInv, CurrentInv
  <2>3. /\ current' \in [step : Steps, req : Requests \cup {None}, tunnel : Tunnels \cup {None}]
        /\ CurrentInv'
    BY <2>1 DEF Idle, Steps, CurrentInv
  <2>4. up' \in [Tunnels -> BOOLEAN]
    BY <1>1, <2>1 DEF TypeOK
  <2>5. TypeOK'
    BY <1>1, <2>1, <2>3, <2>4 DEF TypeOK, Relays
  <2>6. PortsOwned'
    BY <1>1, <2>1, <2>2 DEF IInv, PortsOwned, InMap
  <2>7. RunningIsActive'
    BY <1>1, <2>1 DEF IInv, RunningIsActive, IsRunning
  <2> QED BY <1>2, <2>3, <2>5, <2>6, <2>7 DEF IInv
<1> QED BY <1>3, <1>4

\* The steps of the relays, by what they do to the counters.
LEMMA RelaySteps ==
  ASSUME TypeOK, NEW t \in Tunnels,
         \/ Accept(t) \/ AskChannel(t) \/ BadRequest(t)
         \/ ChannelOpens(t) \/ ChannelRefused(t) \/ RelayEnds(t)
  PROVE  /\ accepted' \in [Tunnels -> Nat]
         /\ opening' \in [Tunnels -> Nat]
         /\ copying' \in [Tunnels -> Nat]
         /\ \A u \in Tunnels : Relays(u)' <= MaxRelays
<1>1. /\ accepted \in [Tunnels -> Nat] /\ opening \in [Tunnels -> Nat]
      /\ copying \in [Tunnels -> Nat] /\ MaxRelays \in Nat
      /\ \A u \in Tunnels : accepted[u] + opening[u] + copying[u] <= MaxRelays
  BY DEF TypeOK, Relays
<1>2. CASE Accept(t)
  BY <1>1, <1>2 DEF Accept, Relays
<1>3. CASE AskChannel(t)
  BY <1>1, <1>3 DEF AskChannel, Relays
<1>4. CASE BadRequest(t)
  BY <1>1, <1>4 DEF BadRequest, Relays
<1>5. CASE ChannelOpens(t)
  BY <1>1, <1>5 DEF ChannelOpens, Relays
<1>6. CASE ChannelRefused(t)
  BY <1>1, <1>6 DEF ChannelRefused, Relays
<1>7. CASE RelayEnds(t)
  BY <1>1, <1>7 DEF RelayEnds, Relays
<1> QED BY <1>2, <1>3, <1>4, <1>5, <1>6, <1>7

LEMMA TunnelIInv ==
  ASSUME IInv, NEW t \in Tunnels,
         \/ Accept(t) \/ AcceptFails(t) \/ AskChannel(t) \/ BadRequest(t)
         \/ ChannelOpens(t) \/ ChannelRefused(t) \/ RelayEnds(t) \/ LinkDies(t)
  PROVE  IInv'
<1>1. CASE AcceptFails(t) \/ LinkDies(t)
  <2>1. /\ listener' \in [Tunnels -> BOOLEAN] /\ up' \in [Tunnels -> BOOLEAN]
        /\ \A u \in Tunnels : listener'[u] => listener[u]
        /\ UNCHANGED <<saved, active, dialog, waiting, current, map,
                       accepted, opening, copying>>
    BY <1>1 DEF IInv, TypeOK, AcceptFails, LinkDies, home
  <2>2. TypeOK'
    BY <2>1 DEF IInv, TypeOK, Relays
  <2> QED BY <2>1, <2>2, QuietIInv
<1>2. CASE \/ Accept(t) \/ AskChannel(t) \/ BadRequest(t)
           \/ ChannelOpens(t) \/ ChannelRefused(t) \/ RelayEnds(t)
  <2>1. UNCHANGED <<saved, active, dialog, waiting, current, map, listener, up>>
    BY <1>2 DEF Accept, AskChannel, BadRequest, ChannelOpens, ChannelRefused, RelayEnds, home
  <2>2. TypeOK'
    BY <1>2, <2>1, RelaySteps DEF IInv, TypeOK, Relays
  <2> QED BY <2>1, <2>2, QuietIInv
<1> QED BY <1>1, <1>2

LEMMA NextIInv == IInv /\ [Next]_vars => IInv'
<1> SUFFICES ASSUME IInv, [Next]_vars PROVE IInv'
  OBVIOUS
<1>1. CASE UNCHANGED vars
  <2>1. UNCHANGED <<saved, active, dialog, waiting, current, map, listener, up, accepted, opening, copying>>
    BY <1>1 DEF vars, home, tunnel
  <2>2. TypeOK'
    BY <2>1 DEF IInv, TypeOK, Relays
  <2> QED BY <2>1, <2>2, QuietIInv
<1>2. CASE \/ \E c \in Conns : (\E k \in Kinds : Open(c, k)) \/ StopButton(c) \/ DeleteButton(c)
           \/ \E S \in SUBSET saved : DeleteSelected(S)
           \/ Delete \/ KeepConnections
  BY <1>2, HomeIInv
<1>3. CASE RefuseStart \/ RefuseStop
  BY <1>3, RefuseIInv
<1>4. CASE Bind
  BY <1>4, BindIInv
<1>5. CASE DialOk \/ DialErr
  BY <1>5, DialIInv
<1>6. CASE TakeTunnel
  BY <1>6, TakeIInv
<1>7. CASE JoinAccept \/ Disconnect
  BY <1>7, StopIInv
<1>8. ASSUME NEW t \in Tunnels,
             \/ Accept(t) \/ AcceptFails(t) \/ AskChannel(t) \/ BadRequest(t)
             \/ ChannelOpens(t) \/ ChannelRefused(t) \/ RelayEnds(t) \/ LinkDies(t)
      PROVE  IInv'
  BY <1>8, TunnelIInv
<1> QED BY <1>1, <1>2, <1>3, <1>4, <1>5, <1>6, <1>7, <1>8 DEF Next

-----------------------------------------------------------------------------
THEOREM ForwardingInvariant == Spec => []IInv
BY InitIInv, NextIInv, PTL DEF Spec

\* Every variable keeps its type.
THEOREM ForwardingTypes == Spec => []TypeOK
BY ForwardingInvariant, PTL DEF IInv

\* A connection has one tunnel, whatever kind it was started with.
THEOREM ForwardingOneTunnel == Spec => []OneTunnel
BY ForwardingInvariant, PTL DEF IInv

\* No port is left bound by a tunnel that nothing refers to.
THEOREM ForwardingPorts == Spec => []PortsOwned
BY ForwardingInvariant, PTL DEF IInv

\* What runs counts as active.
THEOREM ForwardingActive == Spec => []RunningIsActive
BY ForwardingInvariant, PTL DEF IInv

-----------------------------------------------------------------------------
(* The runtime implements the table of forwardings.  OneTunnel and          *)
(* PortsOwned are not enough: a tunnel must not serve two forwardings, nor  *)
(* be in a map while a request holds it, and an SSH session needs an owner  *)
(* as a port does; it is not up before the connect has ended.               *)

TunnelInv ==
  /\ \A k, l \in Kinds, c, d \in Conns :
       map[k][c] # None /\ map[k][c] = map[l][d] => c = d
  /\ current.step # "idle" => ~InMap(current.tunnel)
  /\ \A t \in Tunnels : up[t] => InMap(t) \/ current.tunnel = t
  /\ current.step = "dial" => ~up[current.tunnel]

LEMMA InitTunnelInv == Init => TunnelInv
BY DEF Init, TunnelInv, Idle

\* A step that leaves the maps and the request in progress alone, and opens no
\* session.
LEMMA QuietTunnelInv ==
  ASSUME IInv, TunnelInv, UNCHANGED <<current, map>>,
         \A t \in Tunnels : up'[t] => up[t]
  PROVE  TunnelInv'
<1>1. InMap(current.tunnel)' = InMap(current.tunnel)
  BY DEF InMap
<1>2. \A t \in Tunnels : InMap(t)' = InMap(t)
  BY DEF InMap
<1>3. current.step = "dial" => current.tunnel \in Tunnels
  BY DEF IInv, CurrentInv
<1> QED BY <1>1, <1>2, <1>3 DEF TunnelInv

LEMMA BindTunnelInv ==
  ASSUME IInv, TunnelInv, Bind
  PROVE  TunnelInv'
<1>1. PICK t \in Tunnels :
        /\ Fresh(t)
        /\ current' = [step |-> "dial", req |-> Head(waiting), tunnel |-> t]
  BY DEF Bind
<1>2. current = Idle /\ UNCHANGED <<map, up>>
  BY DEF Bind, Acquires
<1>3. current.tunnel = None /\ current'.tunnel = t /\ ~InMap(t) /\ t # None
  BY <1>1, <1>2 DEF Idle, Fresh
<1>4. \A u \in Tunnels : InMap(u)' = InMap(u)
  BY <1>2 DEF InMap
<1>5. ~up[t]
  BY <1>3 DEF TunnelInv
<1>6. \A u \in Tunnels : up'[u] => InMap(u)' \/ current'.tunnel = u
  BY <1>2, <1>3, <1>4 DEF TunnelInv
<1> QED BY <1>2, <1>3, <1>4, <1>5, <1>6 DEF TunnelInv

LEMMA DialTunnelInv ==
  ASSUME IInv, TunnelInv, DialOk \/ DialErr
  PROVE  TunnelInv'
<1> DEFINE c == current.req.conn
           k == current.req.kind
           t == current.tunnel
<1>1. /\ current.step = "dial" /\ current' = Idle /\ current'.step = "idle"
      /\ c \in Conns /\ k \in Kinds /\ t \in Tunnels /\ ~InMap(t) /\ ~up[t]
      /\ map \in [Kinds -> [Conns -> Tunnels \cup {None}]]
      /\ up \in [Tunnels -> BOOLEAN]
  <2>1. current.step = "dial" /\ current' = Idle
    BY DEF DialOk, DialErr, Holds
  <2> QED BY <2>1 DEF IInv, TypeOK, CurrentInv, TunnelInv, Requests, Idle
<1>2. CASE DialErr
  <2>1. UNCHANGED <<map, up>>
    BY <1>2 DEF DialErr
  <2>2. \A u \in Tunnels : up[u] => InMap(u)
    BY <1>1 DEF TunnelInv
  <2>3. \A u \in Tunnels : InMap(u)' = InMap(u)
    BY <2>1 DEF InMap
  <2> QED BY <1>1, <2>1, <2>2, <2>3 DEF TunnelInv
<1>3. CASE DialOk
  <2>1. up' = [up EXCEPT ![t] = TRUE] /\ map' = [map EXCEPT ![k][c] = t]
    BY <1>3 DEF DialOk
  <2>2. \A u \in Tunnels : up[u] => InMap(u)
    BY <1>1 DEF TunnelInv
  <2> HIDE DEF c, k, t
  <2>3. /\ map'[k][c] = t
        /\ \A l \in Kinds, d \in Conns : <<l, d>> # <<k, c>> => map'[l][d] = map[l][d]
    BY <1>1, <2>1
  <2>4. \A l \in Kinds : map[l][c] = None
    BY <1>1 DEF IInv, CurrentInv, c
  <2>5. \A u \in Tunnels : InMap(u) => InMap(u)'
    BY <1>1, <2>3, <2>4 DEF InMap
  <2>6. \A u \in Tunnels : up'[u] => InMap(u)'
    BY <1>1, <2>1, <2>2, <2>3, <2>5 DEF InMap
  <2>7. ASSUME NEW l \in Kinds, NEW m \in Kinds, NEW d \in Conns, NEW e \in Conns,
               map'[l][d] # None, map'[l][d] = map'[m][e]
        PROVE  d = e
    BY <1>1, <2>3, <2>7 DEF TunnelInv, InMap
  <2> QED BY <1>1, <2>6, <2>7 DEF TunnelInv
<1> QED BY <1>2, <1>3

LEMMA TakeTunnelInv ==
  ASSUME IInv, TunnelInv, TakeTunnel
  PROVE  TunnelInv'
<1> DEFINE r == Head(waiting)
           c == r.conn
           k == IF map["local"][c] # None THEN "local" ELSE "dynamic"
           t == map[k][c]
<1>1. /\ TypeOK /\ current = Idle /\ waiting # <<>> /\ IsRunning(c)
      /\ map' = [map EXCEPT ![k][c] = None]
      /\ current' = [step |-> "close", req |-> r, tunnel |-> t]
      /\ UNCHANGED up
  BY DEF IInv, TakeTunnel, Acquires, tunnel
<1>2. c \in Conns
  BY <1>1, HeadRequest DEF Requests
<1>3. k \in Kinds /\ t # None
  BY <1>1 DEF IsRunning, Kinds
<1>4. current'.step = "close" /\ current'.tunnel = t /\ map[k][c] = t
  BY <1>1
<1> HIDE DEF r, c, k, t
<1>5. /\ map'[k][c] = None
      /\ \A l \in Kinds, d \in Conns : <<l, d>> # <<k, c>> => map'[l][d] = map[l][d]
  BY <1>1, <1>2, <1>3 DEF TypeOK
<1>6. \A l \in Kinds, d \in Conns : map'[l][d] # t
  BY <1>2, <1>3, <1>4, <1>5 DEF TunnelInv, IInv, OneTunnel
<1>7. \A u \in Tunnels : InMap(u) => u = t \/ InMap(u)'
  BY <1>2, <1>3, <1>4, <1>5 DEF InMap
<1>8. \A u \in Tunnels : up[u] => InMap(u)
  BY <1>1 DEF TunnelInv, Idle
<1>9. \A l, m \in Kinds, d, e \in Conns :
        map'[l][d] # None /\ map'[l][d] = map'[m][e] => d = e
  BY <1>5 DEF TunnelInv
<1> QED BY <1>1, <1>4, <1>6, <1>7, <1>8, <1>9 DEF TunnelInv, InMap

LEMMA StopTunnelInv ==
  ASSUME IInv, TunnelInv, JoinAccept \/ Disconnect
  PROVE  TunnelInv'
<1> DEFINE t == current.tunnel
<1>1. /\ current.step \in {"close", "disconnect"} /\ t \in Tunnels
      /\ current \in [step : Steps, req : Requests \cup {None}, tunnel : Tunnels \cup {None}]
      /\ up \in [Tunnels -> BOOLEAN] /\ UNCHANGED map /\ ~InMap(t)
  <2>1. current.step \in {"close", "disconnect"} /\ current.step # "idle"
    BY DEF JoinAccept, Disconnect, Holds
  <2> QED BY <2>1 DEF IInv, TypeOK, CurrentInv, TunnelInv, JoinAccept, Disconnect
<1>2. \A u \in Tunnels : InMap(u)' = InMap(u)
  BY <1>1 DEF InMap
<1>3. CASE JoinAccept
  <2>1. current'.step = "disconnect" /\ current'.tunnel = t /\ UNCHANGED up
    BY <1>1, <1>3 DEF JoinAccept
  <2> QED BY <1>1, <1>2, <2>1 DEF TunnelInv
<1>4. CASE Disconnect
  <2>1. current' = Idle /\ up' = [up EXCEPT ![t] = FALSE]
    BY <1>4 DEF Disconnect
  <2>2. \A u \in Tunnels : up'[u] => up[u] /\ u # t
    BY <1>1, <2>1
  <2> QED BY <1>1, <1>2, <2>1, <2>2 DEF TunnelInv, Idle
<1> QED BY <1>3, <1>4

LEMMA NextTunnelInv == IInv /\ TunnelInv /\ [Next]_vars => TunnelInv'
<1> SUFFICES ASSUME IInv, TunnelInv, [Next]_vars PROVE TunnelInv'
  OBVIOUS
<1>1. CASE \/ UNCHANGED vars
           \/ \E c \in Conns : (\E k \in Kinds : Open(c, k)) \/ StopButton(c) \/ DeleteButton(c)
           \/ \E S \in SUBSET saved : DeleteSelected(S)
           \/ Delete \/ KeepConnections
           \/ RefuseStart \/ RefuseStop
  <2>1. UNCHANGED <<current, map, up>>
    BY <1>1 DEF vars, tunnel, Open, StopButton, Ask, DeleteButton, DeleteSelected, AskDelete,
                Delete, KeepConnections, RefuseStart, RefuseStop
  <2> QED BY <2>1, QuietTunnelInv
<1>2. CASE Bind
  BY <1>2, BindTunnelInv
<1>3. CASE DialOk \/ DialErr
  BY <1>3, DialTunnelInv
<1>4. CASE TakeTunnel
  BY <1>4, TakeTunnelInv
<1>5. CASE JoinAccept \/ Disconnect
  BY <1>5, StopTunnelInv
<1>6. ASSUME NEW t \in Tunnels,
             \/ Accept(t) \/ AcceptFails(t) \/ AskChannel(t) \/ BadRequest(t)
             \/ ChannelOpens(t) \/ ChannelRefused(t) \/ RelayEnds(t) \/ LinkDies(t)
      PROVE  TunnelInv'
  <2>1. UNCHANGED <<current, map>> /\ \A u \in Tunnels : up'[u] => up[u]
    BY <1>6 DEF IInv, TypeOK, Accept, AcceptFails, AskChannel, BadRequest, ChannelOpens,
                ChannelRefused, RelayEnds, LinkDies
  <2> QED BY <2>1, QuietTunnelInv
<1> QED BY <1>1, <1>2, <1>3, <1>4, <1>5, <1>6 DEF Next

\* A tunnel belongs to one forwarding only, and no SSH session outlives the
\* stop or the failed start that ended its forwarding.
THEOREM ForwardingTunnels == Spec => []TunnelInv
<1>1. Init => TunnelInv
  BY InitTunnelInv
<1>2. IInv /\ TunnelInv /\ [Next]_vars => TunnelInv'
  BY NextTunnelInv
<1> QED BY <1>1, <1>2, ForwardingInvariant, PTL DEF Spec

\* Only ChannelOpens adds a relay that copies, and it needs a session.
LEMMA CopyingStep ==
  ASSUME IInv, TunnelInv, [Next]_vars, NEW t \in Tunnels, ~InMap(t), current.tunnel # t
  PROVE  copying'[t] <= copying[t]
<1>1. copying \in [Tunnels -> Nat] /\ opening \in [Tunnels -> Nat] /\ ~up[t]
  BY DEF IInv, TypeOK, TunnelInv
<1>2. CASE UNCHANGED copying
  BY <1>1, <1>2
<1>3. ASSUME NEW u \in Tunnels, ChannelOpens(u)
      PROVE  copying'[t] <= copying[t]
  <2>1. u # t
    BY <1>1, <1>3 DEF ChannelOpens
  <2> QED BY <1>1, <1>3, <2>1 DEF ChannelOpens
<1>4. ASSUME NEW u \in Tunnels, RelayEnds(u)
      PROVE  copying'[t] <= copying[t]
  <2>1. copying[u] > 0 /\ copying' = [copying EXCEPT ![u] = @ - 1]
    BY <1>4 DEF RelayEnds
  <2> QED BY <1>1, <2>1
<1>5. CASE \/ UNCHANGED vars
           \/ \E c \in Conns : (\E k \in Kinds : Open(c, k)) \/ StopButton(c) \/ DeleteButton(c)
           \/ \E S \in SUBSET saved : DeleteSelected(S)
           \/ Delete \/ KeepConnections
           \/ RefuseStart \/ RefuseStop \/ Bind \/ DialOk \/ DialErr
           \/ TakeTunnel \/ JoinAccept \/ Disconnect
  <2>1. UNCHANGED copying
    BY <1>5 DEF vars, tunnel, Open, StopButton, Ask, DeleteButton, DeleteSelected, AskDelete,
                Delete, KeepConnections, RefuseStart, RefuseStop, Bind, DialOk, DialErr,
                TakeTunnel, JoinAccept, Disconnect
  <2> QED BY <1>2, <2>1
<1>6. ASSUME NEW u \in Tunnels,
             \/ Accept(u) \/ AcceptFails(u) \/ AskChannel(u) \/ BadRequest(u)
             \/ ChannelRefused(u) \/ LinkDies(u)
      PROVE  copying'[t] <= copying[t]
  <2>1. UNCHANGED copying
    BY <1>6 DEF Accept, AcceptFails, AskChannel, BadRequest, ChannelRefused, LinkDies
  <2> QED BY <1>2, <2>1
<1> QED BY <1>3, <1>4, <1>5, <1>6 DEF Next

\* A tunnel that was stopped opens nothing more, however late its relays ask.
THEOREM ForwardingStopped == Spec => StoppedTunnelOpensNothing
<1>1. IInv /\ TunnelInv /\ [Next]_vars =>
        [\A t \in Tunnels :
           ~InMap(t) /\ current.tunnel # t => copying'[t] <= copying[t]]_vars
  BY CopyingStep
<1> QED BY <1>1, ForwardingInvariant, ForwardingTunnels, PTL
       DEF Spec, StoppedTunnelOpensNothing

\* What the table shows of a forwarding.
LEMMA TableRow ==
  ASSUME IInv, NEW c \in Conns
  PROVE  /\ IsCurrent(c) => ~IsRunning(c) /\ TunnelOf(c) = current.tunnel
         /\ IsCurrent(c) /\ current.step = "dial" => Phase(c) = "starting"
         /\ IsCurrent(c) /\ current.step # "dial" => Phase(c) = "stopping"
         /\ ~IsCurrent(c) /\ IsRunning(c) =>
              /\ Phase(c) = "running"
              /\ TunnelOf(c) \in Tunnels
              /\ \E k \in Kinds : map[k][c] = TunnelOf(c)
         /\ ~IsCurrent(c) /\ ~IsRunning(c) => Phase(c) = "stopped" /\ TunnelOf(c) = None
<1>1. IsCurrent(c) => \A k \in Kinds : map[k][c] = None
  BY DEF IsCurrent, IInv, CurrentInv
<1>2. map["local"][c] \in Tunnels \cup {None} /\ map["dynamic"][c] \in Tunnels \cup {None}
  BY DEF IInv, TypeOK, Kinds
<1>3. IsRunning(c) <=> map["local"][c] # None \/ map["dynamic"][c] # None
  BY DEF IsRunning, Kinds
<1>4. ~IsCurrent(c) /\ IsRunning(c) =>
        TunnelOf(c) \in Tunnels /\ \E k \in Kinds : map[k][c] = TunnelOf(c)
  BY <1>2, <1>3 DEF TunnelOf, Kinds
<1>5. ~IsCurrent(c) /\ ~IsRunning(c) => TunnelOf(c) = None
  BY <1>2, <1>3 DEF TunnelOf
<1>6. IsCurrent(c) => ~IsRunning(c) /\ TunnelOf(c) = current.tunnel
  BY <1>1 DEF IsRunning, TunnelOf
<1> QED BY <1>4, <1>5, <1>6 DEF Phase

\* The tunnel of the table that a bound port or a session belongs to.
LEMMA TableOwner ==
  ASSUME IInv, TunnelInv, NEW t \in Tunnels, InMap(t) \/ current.tunnel = t
  PROVE  \E c \in Conns :
           /\ TunnelOf(c) = t
           /\ InMap(t) => Phase(c) = "running"
           /\ ~InMap(t) /\ current.step = "dial" => Phase(c) = "starting"
           /\ ~InMap(t) /\ current.step # "dial" => Phase(c) = "stopping"
<1>1. CASE InMap(t)
  <2>1. PICK k \in Kinds, c \in Conns : map[k][c] = t
    BY <1>1 DEF InMap
  <2>2. IsRunning(c)
    BY <2>1 DEF IsRunning
  <2>3. ~IsCurrent(c)
    BY <2>2, TableRow
  <2>4. PICK l \in Kinds : map[l][c] = TunnelOf(c) /\ TunnelOf(c) \in Tunnels
    BY <2>2, <2>3, TableRow
  <2>5. k = l
    BY <2>1, <2>4 DEF IInv, OneTunnel
  <2> QED BY <1>1, <2>1, <2>2, <2>3, <2>4, <2>5, TableRow
<1>2. CASE ~InMap(t) /\ current.tunnel = t
  <2>1. current # Idle /\ current.step # "idle"
    BY <1>2 DEF Idle, IInv, CurrentInv
  <2>2. current.req.conn \in Conns
    BY <2>1 DEF IInv, CurrentInv, Requests
  <2>3. IsCurrent(current.req.conn)
    BY <2>1 DEF IsCurrent
  <2> QED BY <1>2, <2>2, <2>3, TableRow
<1> QED BY <1>1, <1>2

TableUnchanged ==
  \A c \in Conns : Phase(c)' = Phase(c) /\ TunnelOf(c)' = TunnelOf(c)

LEMMA KeepsTable ==
  ASSUME UNCHANGED <<current, map>>
  PROVE  TableUnchanged
BY DEF TableUnchanged, Phase, TunnelOf, IsCurrent, IsRunning

LEMMA BindRefines ==
  ASSUME IInv, TunnelInv, Bind, IInv'
  PROVE  Table!Next
<1>0. TypeOK /\ current = Idle /\ waiting # <<>> /\ UNCHANGED <<map, up>>
  BY DEF IInv, Bind, Acquires
<1>3. PICK c \in Conns : c = Head(waiting).conn
  BY <1>0, HeadRequest DEF Requests
<1>1. PICK t \in Tunnels :
        /\ Fresh(t)
        /\ current' = [step |-> "dial", req |-> Head(waiting), tunnel |-> t]
        /\ listener' = [listener EXCEPT ![t] = TRUE]
  BY DEF Bind
<1>2. /\ TypeOK /\ current = Idle /\ waiting # <<>> /\ ~IsRunning(c) /\ PortFree(c)
      /\ UNCHANGED <<map, up>>
  BY <1>0, <1>3 DEF Bind
<1>4. current'.step = "dial" /\ current'.req.conn = c /\ current'.tunnel = t /\ current' # Idle
  BY <1>1, <1>3 DEF Idle
<1>5. \A d \in Conns : ~IsCurrent(d)
  BY <1>2 DEF IsCurrent
<1>6. \A d \in Conns : IsCurrent(d)' <=> d = c
  BY <1>4 DEF IsCurrent
<1>7. \A d \in Conns : IsRunning(d)' = IsRunning(d)
  BY <1>2 DEF IsRunning
<1>8. Table!Quiet /\ Phase(c) = "stopped"
  BY <1>2, <1>3, <1>5, TableRow DEF Table!Quiet
<1>9. \A d \in Conns : TunnelOf(d) \in {u \in Tunnels : listener[u]} => PortOf[d] # PortOf[c]
  <2> SUFFICES ASSUME NEW d \in Conns, TunnelOf(d) \in Tunnels, listener[TunnelOf(d)]
               PROVE  PortOf[d] # PortOf[c]
    OBVIOUS
  <2>1. \E k \in Kinds : map[k][d] = TunnelOf(d)
    BY <1>5, TableRow
  <2> QED BY <1>2, <2>1 DEF PortFree
<1>10. \A d \in Conns : TunnelOf(d) # t
  BY <1>1, <1>5, TableRow DEF Fresh, InMap
<1>11. ~listener[t] /\ ~up[t]
  BY <1>1 DEF Fresh, TunnelInv
<1>12. /\ Phase(c)' = "starting" /\ TunnelOf(c)' = t
       /\ \A d \in Conns \ {c} : Phase(d)' = Phase(d) /\ TunnelOf(d)' = TunnelOf(d)
  BY <1>2, <1>4, <1>5, <1>6, <1>7 DEF Phase, TunnelOf
<1>13. [d \in Conns |-> Phase(d)]' = [[d \in Conns |-> Phase(d)] EXCEPT ![c] = "starting"]
  BY <1>3, <1>12
<1>14. [d \in Conns |-> TunnelOf(d)]' = [[d \in Conns |-> TunnelOf(d)] EXCEPT ![c] = t]
  BY <1>3, <1>12
<1>15. {u \in Tunnels : listener[u]}' = {u \in Tunnels : listener[u]} \cup {t}
  BY <1>1, <1>2 DEF TypeOK
<1>16. Table!Start(c)
  <2>1. t \in Tunnels \ ({u \in Tunnels : listener[u]} \cup {u \in Tunnels : up[u]})
    BY <1>11
  <2> QED BY <1>2, <1>3, <1>8, <1>9, <1>10, <1>13, <1>14, <1>15, <2>1 DEF Table!Start
<1> QED BY <1>3, <1>16 DEF Table!Next

LEMMA DialRefines ==
  ASSUME IInv, TunnelInv, DialOk \/ DialErr, IInv'
  PROVE  Table!Next
<1>0. current.step = "dial" /\ current # Idle /\ current' = Idle
  BY DEF DialOk, DialErr, Holds, Idle
<1>1. PICK c \in Conns, k \in Kinds, t \in Tunnels :
        c = current.req.conn /\ k = current.req.kind /\ t = current.tunnel
  BY <1>0 DEF IInv, CurrentInv, Requests
<1>2. /\ map \in [Kinds -> [Conns -> Tunnels \cup {None}]]
      /\ up \in [Tunnels -> BOOLEAN] /\ listener \in [Tunnels -> BOOLEAN]
      /\ \A l \in Kinds : map[l][c] = None
  BY <1>0, <1>1 DEF IInv, TypeOK, CurrentInv
<1>6. /\ IsCurrent(c) /\ \A d \in Conns : IsCurrent(d) => d = c
      /\ \A d \in Conns : ~IsCurrent(d)'
  BY <1>0, <1>1 DEF IsCurrent
<1>3. Phase(c) = "starting" /\ TunnelOf(c) = t
  BY <1>0, <1>1, <1>6, TableRow
<1>4. CASE DialErr
  <2>1. listener' = [listener EXCEPT ![t] = FALSE] /\ UNCHANGED <<map, up>>
    BY <1>1, <1>4 DEF DialErr
  <2>2. \A d \in Conns : IsRunning(d)' = IsRunning(d)
    BY <2>1 DEF IsRunning
  <2>3. /\ Phase(c)' = "stopped" /\ TunnelOf(c)' = None
    BY <1>2, <1>6, <2>1 DEF Phase, TunnelOf, IsRunning, Kinds
  <2>4. \A d \in Conns \ {c} : Phase(d)' = Phase(d) /\ TunnelOf(d)' = TunnelOf(d)
    BY <1>6, <2>1, <2>2 DEF Phase, TunnelOf
  <2>5. [d \in Conns |-> Phase(d)]' = [[d \in Conns |-> Phase(d)] EXCEPT ![c] = "stopped"]
    BY <1>1, <2>3, <2>4
  <2>6. [d \in Conns |-> TunnelOf(d)]' = [[d \in Conns |-> TunnelOf(d)] EXCEPT ![c] = None]
    BY <1>1, <2>3, <2>4
  <2>7. {u \in Tunnels : listener[u]}' = {u \in Tunnels : listener[u]} \ {TunnelOf(c)}
    BY <1>2, <1>3, <2>1
  <2>8. Table!StartFails(c)
    BY <1>1, <1>3, <2>1, <2>5, <2>6, <2>7 DEF Table!StartFails
  <2> QED BY <1>1, <2>8 DEF Table!Next
<1>5. CASE DialOk
  <2>1. /\ up' = [up EXCEPT ![t] = TRUE] /\ map' = [map EXCEPT ![k][c] = t]
        /\ UNCHANGED listener
    BY <1>1, <1>5 DEF DialOk
  <2>0. None \notin Tunnels
    OBVIOUS
  <2>2. map'[k][c] = t /\ \A l \in Kinds, d \in Conns : d # c => map'[l][d] = map[l][d]
    BY <1>2, <2>1
  <2>3. \A l \in Kinds : l # k => map'[l][c] = None
    BY <1>2, <2>1
  <2>4. IsRunning(c)' /\ \A d \in Conns \ {c} : IsRunning(d)' = IsRunning(d)
    BY <2>0, <2>2 DEF IsRunning
  <2>5. Phase(c)' = "running"
    BY <1>6, <2>4 DEF Phase
  <2>6. TunnelOf(c)' = t
    BY <2>0, <1>6, <2>2, <2>3 DEF TunnelOf, Kinds
  <2>7. \A d \in Conns \ {c} : Phase(d)' = Phase(d) /\ TunnelOf(d)' = TunnelOf(d)
    BY <1>6, <2>2, <2>4 DEF Phase, TunnelOf, Kinds
  <2>8. [d \in Conns |-> Phase(d)]' = [[d \in Conns |-> Phase(d)] EXCEPT ![c] = "running"]
    BY <1>1, <2>5, <2>7
  <2>9. [d \in Conns |-> TunnelOf(d)]' = [d \in Conns |-> TunnelOf(d)]
    BY <1>3, <2>6, <2>7
  <2>10. {u \in Tunnels : up[u]}' = {u \in Tunnels : up[u]} \cup {TunnelOf(c)}
    BY <1>2, <1>3, <2>1
  <2>11. Table!Started(c)
    BY <1>1, <1>3, <2>1, <2>8, <2>9, <2>10 DEF Table!Started
  <2> QED BY <1>1, <2>11 DEF Table!Next
<1> QED BY <1>4, <1>5

LEMMA TakeRefines ==
  ASSUME IInv, TunnelInv, TakeTunnel, IInv'
  PROVE  Table!Next
<1>0. TypeOK /\ current = Idle /\ waiting # <<>> /\ UNCHANGED <<listener, up>>
  BY DEF IInv, TakeTunnel, Acquires, tunnel
<1>1. PICK c \in Conns : c = Head(waiting).conn
  BY <1>0, HeadRequest DEF Requests
<1>2. PICK k \in Kinds : k = IF map["local"][c] # None THEN "local" ELSE "dynamic"
  BY DEF Kinds
<1>3. /\ IsRunning(c) /\ map' = [map EXCEPT ![k][c] = None]
      /\ current' = [step |-> "close", req |-> Head(waiting), tunnel |-> map[k][c]]
  BY <1>1, <1>2 DEF TakeTunnel
<1>4. /\ current'.step = "close" /\ current'.req.conn = c /\ current'.tunnel = map[k][c]
      /\ current' # Idle
  BY <1>1, <1>3 DEF Idle
<1>5. \A d \in Conns : ~IsCurrent(d) /\ (IsCurrent(d)' <=> d = c)
  BY <1>0, <1>4 DEF IsCurrent
<1>6. \A l \in Kinds, d \in Conns : d # c => map'[l][d] = map[l][d]
  BY <1>0, <1>3 DEF TypeOK
<1>7. Table!Quiet /\ Phase(c) = "running"
  BY <1>3, <1>5, TableRow DEF Table!Quiet
<1>8. Phase(c)' = "stopping" /\ TunnelOf(c)' = map[k][c]
  BY <1>4, <1>5 DEF Phase, TunnelOf
<1>9. TunnelOf(c) = map[k][c]
  BY <1>2, <1>5 DEF TunnelOf
<1>10. \A d \in Conns \ {c} : Phase(d)' = Phase(d) /\ TunnelOf(d)' = TunnelOf(d)
  BY <1>5, <1>6 DEF Phase, TunnelOf, IsRunning, Kinds
<1>11. [d \in Conns |-> Phase(d)]' = [[d \in Conns |-> Phase(d)] EXCEPT ![c] = "stopping"]
  BY <1>8, <1>10
<1>12. [d \in Conns |-> TunnelOf(d)]' = [d \in Conns |-> TunnelOf(d)]
  BY <1>8, <1>9, <1>10
<1>13. Table!Stop(c)
  BY <1>0, <1>7, <1>11, <1>12 DEF Table!Stop
<1> QED BY <1>13 DEF Table!Next

LEMMA StopRefines ==
  ASSUME IInv, TunnelInv, JoinAccept \/ Disconnect, IInv'
  PROVE  Table!Next
<1>0. current.step \in {"close", "disconnect"} /\ current.step # "idle" /\ UNCHANGED map
  BY DEF JoinAccept, Disconnect, Holds
<1>1. PICK c \in Conns, t \in Tunnels : c = current.req.conn /\ t = current.tunnel
  BY <1>0 DEF IInv, CurrentInv, Requests
<1>2. /\ current \in [step : Steps, req : Requests \cup {None}, tunnel : Tunnels \cup {None}]
      /\ up \in [Tunnels -> BOOLEAN] /\ listener \in [Tunnels -> BOOLEAN]
      /\ \A l \in Kinds : map[l][c] = None
  BY <1>0, <1>1 DEF IInv, TypeOK, CurrentInv
<1>3. current # Idle /\ \A d \in Conns : IsCurrent(d) <=> d = c
  BY <1>0, <1>1 DEF IsCurrent, Idle
<1>4. Phase(c) = "stopping" /\ TunnelOf(c) = t
  BY <1>0, <1>1, <1>3, TableRow
<1>5. \A d \in Conns : IsRunning(d)' = IsRunning(d)
  BY <1>0 DEF IsRunning
<1>6. CASE JoinAccept
  <2>1. /\ listener' = [listener EXCEPT ![t] = FALSE] /\ UNCHANGED up
        /\ current' = [current EXCEPT !.step = "disconnect"]
    BY <1>1, <1>6 DEF JoinAccept
  <2>2. /\ current'.step = "disconnect" /\ current'.req = current.req
        /\ current'.tunnel = t /\ current' # Idle
    BY <1>1, <1>2, <2>1 DEF Idle
  <2>3. \A d \in Conns : IsCurrent(d)' <=> d = c
    BY <1>1, <2>2 DEF IsCurrent
  <2>4. \A d \in Conns : Phase(d)' = Phase(d) /\ TunnelOf(d)' = TunnelOf(d)
    BY <1>0, <1>1, <1>3, <1>5, <2>2, <2>3 DEF Phase, TunnelOf
  <2>5. {u \in Tunnels : listener[u]}' = {u \in Tunnels : listener[u]} \ {TunnelOf(c)}
    BY <1>2, <1>4, <2>1
  <2>6. Table!Unbind(c)
    BY <1>4, <2>1, <2>4, <2>5 DEF Table!Unbind
  <2> QED BY <2>6 DEF Table!Next
<1>7. CASE Disconnect
  <2>1. /\ up' = [up EXCEPT ![t] = FALSE] /\ current' = Idle
        /\ current.step = "disconnect" /\ UNCHANGED listener
    BY <1>1, <1>7 DEF Disconnect, Holds
  <2>2. ~listener[t]
    BY <1>1, <2>1 DEF IInv, CurrentInv
  <2>3. \A d \in Conns : ~IsCurrent(d)'
    BY <2>1 DEF IsCurrent
  <2>4. Phase(c)' = "stopped" /\ TunnelOf(c)' = None
    BY <1>0, <1>2, <2>3 DEF Phase, TunnelOf, IsRunning, Kinds
  <2>5. \A d \in Conns \ {c} : Phase(d)' = Phase(d) /\ TunnelOf(d)' = TunnelOf(d)
    BY <1>0, <1>3, <1>5, <2>3 DEF Phase, TunnelOf
  <2>6. [d \in Conns |-> Phase(d)]' = [[d \in Conns |-> Phase(d)] EXCEPT ![c] = "stopped"]
    BY <2>4, <2>5
  <2>7. [d \in Conns |-> TunnelOf(d)]' = [[d \in Conns |-> TunnelOf(d)] EXCEPT ![c] = None]
    BY <2>4, <2>5
  <2>8. {u \in Tunnels : up[u]}' = {u \in Tunnels : up[u]} \ {TunnelOf(c)}
    BY <1>2, <1>4, <2>1
  <2>9. Table!Stopped(c)
    BY <1>4, <2>1, <2>2, <2>6, <2>7, <2>8 DEF Table!Stopped
  <2> QED BY <2>9 DEF Table!Next
<1> QED BY <1>6, <1>7

\* An accept task or a session that ends by an error.
LEMMA LossRefines ==
  ASSUME IInv, TunnelInv, NEW t \in Tunnels, AcceptFails(t) \/ LinkDies(t)
  PROVE  Table!Next
<1>1. /\ UNCHANGED <<current, map>>
      /\ listener \in [Tunnels -> BOOLEAN] /\ up \in [Tunnels -> BOOLEAN]
  BY DEF AcceptFails, LinkDies, IInv, TypeOK
<1>2. InMap(t) \/ current.tunnel = t
  BY DEF AcceptFails, LinkDies, IInv, PortsOwned, TunnelInv
<1>3. current.tunnel = t => current.step # "dial"
  BY DEF AcceptFails, LinkDies, Dialing, Holds, TunnelInv
<1>4. PICK c \in Conns : TunnelOf(c) = t /\ Phase(c) \in {"running", "stopping"}
  BY <1>2, <1>3, TableOwner
<1>5. /\ [d \in Conns |-> Phase(d)]' = [d \in Conns |-> Phase(d)]
      /\ [d \in Conns |-> TunnelOf(d)]' = [d \in Conns |-> TunnelOf(d)]
  BY <1>1, KeepsTable DEF TableUnchanged
<1>6. CASE AcceptFails(t)
  <2>1. UNCHANGED up /\ {u \in Tunnels : listener[u]}' = {u \in Tunnels : listener[u]} \ {t}
    BY <1>1, <1>6 DEF AcceptFails
  <2>2. Table!Unbind(c)
    BY <1>4, <1>5, <2>1 DEF Table!Unbind
  <2> QED BY <2>2 DEF Table!Next
<1>7. CASE LinkDies(t)
  <2>1. UNCHANGED listener /\ {u \in Tunnels : up[u]}' = {u \in Tunnels : up[u]} \ {t}
    BY <1>1, <1>7 DEF LinkDies
  <2>2. Table!Lose(c)
    BY <1>4, <1>5, <2>1 DEF Table!Lose
  <2> QED BY <2>2 DEF Table!Next
<1> QED BY <1>6, <1>7

LEMMA ForwardingStepRefines ==
  IInv /\ TunnelInv /\ IInv' /\ [Next]_vars => [Table!Next]_(Table!vars)
<1> SUFFICES ASSUME IInv, TunnelInv, IInv', [Next]_vars
             PROVE  Table!Next \/ UNCHANGED Table!vars
  OBVIOUS
<1>1. CASE Bind
  BY <1>1, BindRefines
<1>2. CASE DialOk \/ DialErr
  BY <1>2, DialRefines
<1>3. CASE TakeTunnel
  BY <1>3, TakeRefines
<1>4. CASE JoinAccept \/ Disconnect
  BY <1>4, StopRefines
<1>5. ASSUME NEW t \in Tunnels, AcceptFails(t) \/ LinkDies(t)
      PROVE  Table!Next
  BY <1>5, LossRefines
<1>6. CASE UNCHANGED <<current, map, listener, up>>
  BY <1>6, KeepsTable DEF TableUnchanged, Table!vars
<1>7. CASE \/ UNCHANGED vars
           \/ \E c \in Conns : (\E k \in Kinds : Open(c, k)) \/ StopButton(c) \/ DeleteButton(c)
           \/ \E S \in SUBSET saved : DeleteSelected(S)
           \/ Delete \/ KeepConnections
           \/ RefuseStart \/ RefuseStop
  <2>1. UNCHANGED <<current, map, listener, up>>
    BY <1>7 DEF vars, tunnel, Open, StopButton, Ask, DeleteButton, DeleteSelected, AskDelete,
                Delete, KeepConnections, RefuseStart, RefuseStop
  <2> QED BY <2>1, <1>6
<1>8. ASSUME NEW t \in Tunnels,
             \/ Accept(t) \/ AskChannel(t) \/ BadRequest(t)
             \/ ChannelOpens(t) \/ ChannelRefused(t) \/ RelayEnds(t)
      PROVE  UNCHANGED <<current, map, listener, up>>
  BY <1>8 DEF Accept, AskChannel, BadRequest, ChannelOpens, ChannelRefused, RelayEnds
<1> QED BY <1>1, <1>2, <1>3, <1>4, <1>5, <1>6, <1>7, <1>8 DEF Next

\* The runtime implements the table of forwardings: whoever starts and stops
\* them may reason about ForwardingTable instead of the queue for the mutex,
\* the two maps and the steps of a stop.
THEOREM ForwardingImplements == Spec => ImplementsForwardingTable
<1>1. Init => Table!Init
  <2> SUFFICES ASSUME Init PROVE Table!Init
    OBVIOUS
  <2>1. /\ current = Idle /\ \A k \in Kinds, c \in Conns : map[k][c] = None
        /\ \A t \in Tunnels : ~listener[t] /\ ~up[t]
    BY DEF Init
  <2>2. \A c \in Conns : ~IsCurrent(c) /\ ~IsRunning(c)
    BY <2>1 DEF IsCurrent, IsRunning
  <2>3. \A c \in Conns : Phase(c) = "stopped" /\ TunnelOf(c) = None
    BY <2>2, TableRow, InitIInv
  <2> QED BY <2>1, <2>3 DEF Table!Init
<1>2. IInv /\ TunnelInv /\ IInv' /\ [Next]_vars => [Table!Next]_(Table!vars)
  BY ForwardingStepRefines
<1> QED
  BY <1>1, <1>2, ForwardingInvariant, ForwardingTunnels, PTL
     DEF Spec, Table!Spec, ImplementsForwardingTable

=============================================================================
