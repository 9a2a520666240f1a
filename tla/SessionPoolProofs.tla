-------------------------- MODULE SessionPoolProofs ------------------------
(***************************************************************************)
(* For any number of callers and of connects: the types, the single         *)
(* connector, the binding of the cached setup, the handed-out sessions, and  *)
(* that the pool implements SharedSession.                                  *)
(*                                                                          *)
(* None of the safety properties is inductive alone.  IInv adds what ties   *)
(* them together: a connect runs only while nothing is pooled, its Notify   *)
(* is the newest ever issued, and sessions leave the pool in the order in   *)
(* which they entered it.                                                   *)
(***************************************************************************)
EXTENDS SessionPool, TLAPS

\* Exactly the caller that runs connect holds the registered Notify.
ConnectorInv ==
  /\ SingleConnector
  /\ connecting # None => connecting = issued /\ client = None /\ retired < issued

\* Sessions enter and leave the pool in increasing order.
OrderInv ==
  /\ client <= issued
  /\ retired <= issued
  /\ client # None => retired < client

Holding == {"inspect", "ping", "confirm", "got"}

\* A caller past phase 1 holds a session that was pooled during its call.
HolderInv ==
  \A p \in Callers :
    /\ floor[p] <= retired
    /\ pc[p] = "connect" => connecting # None
    /\ pc[p] \in Holding => sess[p] > floor[p]

IInv ==
  /\ TypeOK
  /\ ConnectorInv
  /\ OrderInv
  /\ SetupBoundToPooled
  /\ HolderInv

USE DEF None, Session

LEMMA InitIInv == Init => IInv
BY PoolAssumption DEF Init, IInv, TypeOK, ConnectorInv, SingleConnector, OrderInv,
                      SetupBoundToPooled, HolderInv, Holding, PC

\* A step that moves one caller, away from and into anything but a connect,
\* and that makes nobody the holder of a session, disturbs nothing else.
LEMMA LocalStepIInv ==
  ASSUME IInv, NEW p \in Callers, NEW from, NEW to \in PC,
         Goto(p, from, to),
         from # "connect", to # "connect",
         to \in Holding => from \in Holding,
         throttled' \in [Callers -> BOOLEAN],
         UNCHANGED <<state, issued, link, closing, sess, ticket, retired, floor>>
  PROVE  IInv'
<1> USE DEF Goto, IInv, state
<1>1. TypeOK'
  BY DEF TypeOK
<1>2. \A q \in Callers : pc'[q] = "connect" <=> pc[q] = "connect"
  BY DEF TypeOK
<1>3. ConnectorInv'
  BY <1>2 DEF ConnectorInv, SingleConnector
<1>4. OrderInv' /\ SetupBoundToPooled'
  BY DEF OrderInv, SetupBoundToPooled
<1>5. HolderInv'
  BY <1>2 DEF HolderInv, TypeOK
<1> QED BY <1>1, <1>3, <1>4, <1>5

\* Each step of a task inside client() keeps the invariant.
LEMMA AdvanceIInv ==
  ASSUME IInv, NEW p \in Callers, Advance(p)
  PROVE  IInv'
<1> USE PoolAssumption DEF IInv, state, caller
<1>1. CASE InspectCached(p)
  BY <1>1 DEF InspectCached, Goto, TypeOK, PC, ConnectorInv, SingleConnector, OrderInv,
              SetupBoundToPooled, HolderInv, Holding
<1>2. CASE JoinConnect(p)
  BY <1>2 DEF JoinConnect, Goto, TypeOK, PC, ConnectorInv, SingleConnector, OrderInv,
              SetupBoundToPooled, HolderInv, Holding
<1>3. CASE StartConnect(p)
  <2> USE <1>3 DEF StartConnect, MayConnect, NewNotify, Goto
  <2>1. TypeOK'
    BY DEF TypeOK, PC
  <2>2. ConnectorInv'
    BY DEF TypeOK, ConnectorInv, SingleConnector, OrderInv, HolderInv
  <2>3. OrderInv' /\ SetupBoundToPooled'
    BY DEF TypeOK, OrderInv, SetupBoundToPooled
  <2>4. HolderInv'
    BY DEF TypeOK, HolderInv, OrderInv, Holding
  <2> QED BY <2>1, <2>2, <2>3, <2>4
<1>4. CASE FindClosed(p)
  BY <1>4, LocalStepIInv DEF FindClosed, Goto, TypeOK, PC, Holding
<1>9. CASE ReturnThrottled(p)
  BY <1>9, LocalStepIInv DEF ReturnThrottled, Goto, TypeOK, PC, Holding
<1>10. CASE StartPing(p)
  BY <1>10, LocalStepIInv DEF StartPing, Goto, TypeOK, PC, Holding
<1>11. CASE PingOk(p)
  BY <1>11, LocalStepIInv DEF PingOk, Goto, TypeOK, PC, Holding
<1>12. CASE PingFail(p)
  BY <1>12, LocalStepIInv DEF PingFail, Goto, TypeOK, PC, Holding
<1>13. CASE Subscribe(p)
  BY <1>13, LocalStepIInv DEF Subscribe, Goto, TypeOK, PC, Holding
<1>5. CASE ConfirmPing(p)
  BY <1>5 DEF ConfirmPing, StillPooled, Goto, TypeOK, PC, ConnectorInv, SingleConnector, OrderInv,
              SetupBoundToPooled, HolderInv, Holding
<1>6. CASE ClearDead(p)
  <2> USE <1>6 DEF ClearDead, StillPooled, DropPooled, Goto
  <2>1. TypeOK'
    BY DEF TypeOK, PC
  <2>2. ConnectorInv' /\ OrderInv' /\ SetupBoundToPooled'
    BY DEF TypeOK, ConnectorInv, SingleConnector, OrderInv, SetupBoundToPooled
  <2>3. HolderInv'
    BY DEF TypeOK, HolderInv, OrderInv, Holding
  <2> QED BY <2>1, <2>2, <2>3
<1>7. CASE ConnectOk(p)
  <2> USE <1>7 DEF ConnectOk, FinishConnect, Notified
  <2>1. TypeOK'
    BY DEF TypeOK, PC
  <2>2. ConnectorInv'
    BY DEF TypeOK, ConnectorInv, SingleConnector
  <2>3. OrderInv' /\ SetupBoundToPooled'
    BY DEF TypeOK, ConnectorInv, SingleConnector, OrderInv, SetupBoundToPooled, HolderInv
  <2>4. HolderInv'
    BY DEF TypeOK, HolderInv, OrderInv, ConnectorInv, SingleConnector, Holding
  <2> QED BY <2>1, <2>2, <2>3, <2>4
<1>8. CASE ConnectErr(p)
  <2> USE <1>8 DEF ConnectErr, FinishConnect, Notified
  <2>1. TypeOK'
    BY DEF TypeOK, PC
  <2>2. ConnectorInv'
    BY DEF TypeOK, ConnectorInv, SingleConnector
  <2>3. OrderInv' /\ SetupBoundToPooled'
    BY DEF TypeOK, OrderInv, SetupBoundToPooled
  <2>4. HolderInv'
    BY DEF TypeOK, HolderInv, ConnectorInv, SingleConnector, Holding
  <2> QED BY <2>1, <2>2, <2>3, <2>4
<1> QED
  BY <1>1, <1>2, <1>3, <1>4, <1>5, <1>6, <1>7, <1>8,
     <1>9, <1>10, <1>11, <1>12, <1>13 DEF Advance

\* Entering client(), what a holder does, disconnect() and the environment.
LEMMA OtherIInv ==
  ASSUME IInv,
         \/ \E p \in Callers : Call(p) \/ SetShellIntegration(p) \/ Invalidate(p) \/ Done(p)
         \/ TakeForDisconnect
         \/ \E s \in Session : CloseTaken(s) \/ CloseLink(s)
         \/ PingExpires
  PROVE  IInv'
<1> USE DEF IInv, state, caller
<1>1. ASSUME NEW p \in Callers, Call(p) PROVE IInv'
  BY <1>1 DEF Call, Goto, TypeOK, PC, ConnectorInv, SingleConnector, OrderInv,
              SetupBoundToPooled, HolderInv, Holding
<1>2. ASSUME NEW p \in Callers, SetShellIntegration(p) PROVE IInv'
  BY <1>2 DEF SetShellIntegration, StillPooled, TypeOK, PC, ConnectorInv, SingleConnector,
              OrderInv, SetupBoundToPooled, HolderInv, Holding
<1>3. ASSUME NEW p \in Callers, Invalidate(p) PROVE IInv'
  <2> USE <1>3 DEF Invalidate, DropPooled, Goto
  <2>1. TypeOK'
    BY DEF TypeOK, PC
  <2>2. ConnectorInv' /\ OrderInv' /\ SetupBoundToPooled'
    BY DEF TypeOK, ConnectorInv, SingleConnector, OrderInv, SetupBoundToPooled
  <2>3. HolderInv'
    BY DEF TypeOK, HolderInv, OrderInv, Holding
  <2> QED BY <2>1, <2>2, <2>3
<1>4. ASSUME NEW p \in Callers, Done(p) PROVE IInv'
  <2> USE <1>4 DEF Done, Goto
  <2>1. TypeOK'
    BY DEF TypeOK, PC
  <2>2. ConnectorInv' /\ OrderInv' /\ SetupBoundToPooled'
    BY DEF TypeOK, ConnectorInv, SingleConnector, OrderInv, SetupBoundToPooled
  <2>3. HolderInv'
    BY DEF TypeOK, HolderInv, OrderInv, Holding
  <2> QED BY <2>1, <2>2, <2>3
<1>5. CASE TakeForDisconnect
  <2> USE <1>5 DEF TakeForDisconnect, DropPooled
  <2>1. TypeOK'
    BY DEF TypeOK
  <2>2. ConnectorInv' /\ OrderInv' /\ SetupBoundToPooled'
    BY DEF TypeOK, ConnectorInv, SingleConnector, OrderInv, SetupBoundToPooled
  <2>3. HolderInv'
    BY DEF TypeOK, HolderInv, OrderInv
  <2> QED BY <2>1, <2>2, <2>3
<1>6. ASSUME NEW s \in Session, CloseTaken(s) \/ CloseLink(s) PROVE IInv'
  <2>1. TypeOK'
    BY <1>6 DEF CloseTaken, CloseLink, TypeOK
  <2>2. ConnectorInv' /\ OrderInv' /\ SetupBoundToPooled' /\ HolderInv'
    BY <1>6 DEF CloseTaken, CloseLink, ConnectorInv, SingleConnector, OrderInv,
                SetupBoundToPooled, HolderInv
  <2> QED BY <2>1, <2>2
<1>7. CASE PingExpires
  BY <1>7 DEF PingExpires, TypeOK, ConnectorInv, SingleConnector, OrderInv,
              SetupBoundToPooled, HolderInv
<1> QED
  BY <1>1, <1>2, <1>3, <1>4, <1>5, <1>6, <1>7

LEMMA NextIInv == IInv /\ [Next]_vars => IInv'
<1> SUFFICES ASSUME IInv, [Next]_vars
             PROVE  IInv'
  OBVIOUS
<1>1. ASSUME NEW p \in Callers, Advance(p)
      PROVE  IInv'
  BY <1>1, AdvanceIInv
<1>2. CASE UNCHANGED vars
  BY <1>2 DEF vars, IInv, TypeOK, ConnectorInv, SingleConnector, OrderInv,
              SetupBoundToPooled, HolderInv
<1> QED
  BY <1>1, <1>2, OtherIInv DEF Next

\* The inductive invariant holds in every reachable state.
THEOREM PoolInvariant == Spec => []IInv
<1> QED BY InitIInv, NextIInv, PTL DEF Spec

\* Type correctness of SessionState and of what the callers of client() hold.
THEOREM PoolTypes == Spec => []TypeOK
<1>1. IInv => TypeOK
  BY DEF IInv
<1> QED BY <1>1, PoolInvariant, PTL

\* However many callers meet in client(), one at most runs connector.connect,
\* and the registered Notify is the one it will signal.
THEOREM OneConnector == Spec => []SingleConnector
<1>1. IInv => SingleConnector
  BY DEF IInv, ConnectorInv
<1> QED BY <1>1, PoolInvariant, PTL

\* The shell-integration result in the cache always belongs to the pooled
\* session, whenever it arrives.
THEOREM SetupBelongsToPooled == Spec => []SetupBoundToPooled
<1>1. IInv => SetupBoundToPooled
  BY DEF IInv
<1> QED BY <1>1, PoolInvariant, PTL

\* No call of client() returns a session that left the pool before the call.
THEOREM HandoutIsFresh == Spec => []NoStaleHandout
<1>1. IInv => NoStaleHandout
  BY DEF IInv, HolderInv, Holding, NoStaleHandout
<1> QED BY <1>1, PoolInvariant, PTL

-----------------------------------------------------------------------------
(* The refinement *)

\* What one step of the pool does to the shared session.
LEMMA StepRefines ==
  ASSUME IInv, [Next]_vars
  PROVE  [Abstract!Next]_(Abstract!vars)
<1> USE DEF IInv, state, caller, Abstract!vars, Abstract!None
<1> DEFINE Stutters == UNCHANGED <<client, setupOf, connecting, retired>>
<1>0. Stutters => UNCHANGED Abstract!vars
  OBVIOUS
<1>1. ASSUME NEW p \in Callers, StartConnect(p)
      PROVE  Abstract!Dial
  BY <1>1 DEF StartConnect, MayConnect, NewNotify, Abstract!Dial, TypeOK
<1>2. ASSUME NEW p \in Callers, ConnectOk(p)
      PROVE  Abstract!Next
  <2>1. ticket[p] \in Session /\ Abstract!Establish(ticket[p])
    BY <1>2 DEF ConnectOk, FinishConnect, Abstract!Establish, TypeOK, ConnectorInv,
                SingleConnector, OrderInv, HolderInv
  <2> QED BY <2>1 DEF Abstract!Next
<1>3. ASSUME NEW p \in Callers, ConnectErr(p)
      PROVE  Abstract!DialFails
  BY <1>3 DEF ConnectErr, FinishConnect, Abstract!DialFails, HolderInv
<1>4. ASSUME NEW p \in Callers, SetShellIntegration(p)
      PROVE  Abstract!BindSetup
  BY <1>4 DEF SetShellIntegration, StillPooled, Abstract!BindSetup
<1>5. ASSUME DropPooled, connecting' = connecting
      PROVE  Abstract!Drop \/ UNCHANGED Abstract!vars
  BY <1>5 DEF DropPooled, Abstract!Drop, SetupBoundToPooled, TypeOK
<1>6. ASSUME NEW p \in Callers, ClearDead(p) \/ Invalidate(p)
      PROVE  Abstract!Drop \/ UNCHANGED Abstract!vars
  BY <1>5, <1>6 DEF ClearDead, Invalidate
<1>7. CASE TakeForDisconnect
  BY <1>5, <1>7 DEF TakeForDisconnect, Abstract!Next
<1>8. ASSUME NEW p \in Callers,
             \/ Call(p) \/ InspectCached(p) \/ JoinConnect(p) \/ FindClosed(p)
             \/ ReturnThrottled(p) \/ StartPing(p) \/ PingOk(p) \/ PingFail(p)
             \/ ConfirmPing(p) \/ Subscribe(p) \/ Done(p)
      PROVE  Stutters
  BY <1>8 DEF Call, InspectCached, JoinConnect, FindClosed, ReturnThrottled, StartPing, PingOk,
              PingFail, ConfirmPing, Subscribe, Done
<1>9. ASSUME NEW s \in Session, CloseTaken(s) \/ CloseLink(s)
      PROVE  Stutters
  BY <1>9 DEF CloseTaken, CloseLink
<1>10. CASE PingExpires \/ UNCHANGED vars
  BY <1>10, <1>0 DEF PingExpires, vars
<1> HIDE DEF Stutters
<1> QED
  BY <1>0, <1>1, <1>2, <1>3, <1>4, <1>6, <1>7, <1>8, <1>9, <1>10
     DEF Next, Advance, Abstract!Next

\* The pool implements the shared session: every consumer of a terminal tab may
\* reason about SharedSession instead of the locks, pings and Notifies.
THEOREM Implements == Spec => ImplementsSharedSession
<1>1. Init => Abstract!Init
  BY DEF Init, Abstract!Init, Abstract!None
<1>2. IInv /\ [Next]_vars => [Abstract!Next]_(Abstract!vars)
  BY StepRefines
<1> QED
  BY <1>1, <1>2, PoolInvariant, PTL DEF Spec, Abstract!Spec, ImplementsSharedSession

\* A pooled session is never replaced by another without leaving the pool.
THEOREM NeverOverwritten == Spec => NoOverwrite
<1>1. IInv /\ [Next]_vars => [client # None /\ client' # client => client' = None]_vars
  <2> SUFFICES ASSUME IInv, [Next]_vars, client # None, client' # client
               PROVE  client' = None
    OBVIOUS
  <2>1. [Abstract!Next]_(Abstract!vars)
    BY StepRefines
  <2> QED
    BY <2>1 DEF Abstract!Next, Abstract!vars, Abstract!None, Abstract!Dial, Abstract!Establish,
                Abstract!DialFails, Abstract!BindSetup, Abstract!Drop
<1> QED
  BY <1>1, PoolInvariant, PTL DEF Spec, NoOverwrite

=============================================================================
