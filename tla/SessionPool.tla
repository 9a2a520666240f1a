---------------------------- MODULE SessionPool ----------------------------
(***************************************************************************)
(* SessionPool<C, K> of crates/ssh/src/session_manager.rs: the one SSH      *)
(* session that the consumers of a terminal tab (shell, history loader,     *)
(* file manager, cd completion, image paste) share.                         *)
(*                                                                          *)
(* The fields of SessionState are read and written under a tokio Mutex;     *)
(* each critical section is one action.  Between two of them a caller of    *)
(* client() holds only what it copied: the Arc of the session (sess), the   *)
(* Arc of the Notify (ticket) and recently_pinged (throttled).              *)
(*                                                                          *)
(* Numbers are identities.  The n-th connect ever started registers the     *)
(* Notify n and, if it succeeds, creates the session n: Arc::ptr_eq is      *)
(* equality of numbers.                                                     *)
(***************************************************************************)
EXTENDS Naturals

CONSTANTS
  Callers,       \* tasks that call client(), possibly at the same time
  MaxConnects    \* bound: connects started in one behaviour

ASSUME PoolAssumption == MaxConnects \in Nat \ {0}

None == 0
Session == 1 .. MaxConnects

VARIABLES
  client,      \* SessionState.client
  setupOf,     \* SessionState.shell_integration: the session it was installed on
  connecting,  \* SessionState.connecting: the Notify of the connect under way
  lastPing,    \* SessionState.last_ping against PING_THROTTLE
  issued,      \* connects started so far
  link,        \* link[s]: the transport of session s
  closing,     \* sessions taken by disconnect() and not yet closed by it
  pc,          \* where each caller is in client()
  sess,        \* the session each caller holds an Arc of
  throttled,   \* recently_pinged, as each caller read it
  ticket,      \* the Notify each caller holds an Arc of
  retired,     \* history: the last session that left the pool
  floor        \* history: retired, when the caller entered client()

state  == <<client, setupOf, connecting, lastPing>>
caller == <<pc, sess, throttled, ticket>>
vars   == <<client, setupOf, connecting, lastPing, issued, link, closing,
            pc, sess, throttled, ticket, retired, floor>>

PC == {"idle", "lock", "inspect", "ping", "confirm", "clear",
       "unlocked", "waiting", "connect", "got"}

TypeOK ==
  /\ client \in Session \cup {None}
  /\ setupOf \in Session \cup {None}
  /\ connecting \in Session \cup {None}
  /\ lastPing \in {"never", "recent", "old"}
  /\ issued \in Session \cup {None}
  /\ link \in [Session -> {"none", "up", "closed"}]
  /\ closing \subseteq Session
  /\ pc \in [Callers -> PC]
  /\ sess \in [Callers -> Session \cup {None}]
  /\ throttled \in [Callers -> BOOLEAN]
  /\ ticket \in [Callers -> Session \cup {None}]
  /\ retired \in Session \cup {None}
  /\ floor \in [Callers -> Session \cup {None}]

Init ==
  /\ client = None
  /\ setupOf = None
  /\ connecting = None
  /\ lastPing = "never"
  /\ issued = 0
  /\ link = [s \in Session |-> "none"]
  /\ closing = {}
  /\ pc = [p \in Callers |-> "idle"]
  /\ sess = [p \in Callers |-> None]
  /\ throttled = [p \in Callers |-> FALSE]
  /\ ticket = [p \in Callers |-> None]
  /\ retired = None
  /\ floor = [p \in Callers |-> None]

Goto(p, from, to) ==
  /\ pc[p] = from
  /\ pc' = [pc EXCEPT ![p] = to]

\* Arc::ptr_eq(current, client): the session p holds is still the pooled one.
StillPooled(p) == client = sess[p] /\ sess[p] # None

\* client, shell_integration and last_ping are always cleared together.
\* Mutant: shell_integration survives.
DropPooled_keepsSetup ==
  /\ client' = None
  /\ setupOf' = setupOf
  /\ lastPing' = "never"
  /\ retired' = IF client = None THEN retired ELSE client
DropPooled ==
  /\ client' = None
  /\ setupOf' = None
  /\ lastPing' = "never"
  /\ retired' = IF client = None THEN retired ELSE client

-----------------------------------------------------------------------------
(* client(): phase 1, under the state lock *)

Call(p) ==
  /\ Goto(p, "idle", "lock")
  /\ floor' = [floor EXCEPT ![p] = retired]
  /\ UNCHANGED <<state, issued, link, closing, sess, throttled, ticket, retired>>

InspectCached(p) ==
  /\ Goto(p, "lock", "inspect")
  /\ client # None
  /\ sess' = [sess EXCEPT ![p] = client]
  /\ throttled' = [throttled EXCEPT ![p] = (lastPing = "recent")]
  /\ UNCHANGED <<state, issued, link, closing, ticket, retired, floor>>

\* Phase1::Wait: the Arc of the Notify is cloned; nothing is subscribed yet.
JoinConnect(p) ==
  /\ Goto(p, "lock", "unlocked")
  /\ client = None
  /\ connecting # None
  /\ ticket' = [ticket EXCEPT ![p] = connecting]
  /\ UNCHANGED <<state, issued, link, closing, sess, throttled, retired, floor>>

\* Mutant: the registered Notify is not looked at.
MayConnect_always == client = None
MayConnect == client = None /\ connecting = None

\* Arc::new(Notify::new()).
NewNotify == issued + 1

StartConnect(p) ==
  /\ Goto(p, "lock", "connect")
  /\ MayConnect
  /\ issued < MaxConnects
  /\ issued' = NewNotify
  /\ connecting' = NewNotify
  /\ ticket' = [ticket EXCEPT ![p] = NewNotify]
  /\ UNCHANGED <<client, setupOf, lastPing, link, closing, sess, throttled, retired, floor>>

-----------------------------------------------------------------------------
(* client(): Phase1::Inspect, without the state lock *)

FindClosed(p) ==
  /\ Goto(p, "inspect", "clear")
  /\ link[sess[p]] = "closed"
  /\ throttled' = [throttled EXCEPT ![p] = FALSE]
  /\ UNCHANGED <<state, issued, link, closing, sess, ticket, retired, floor>>

ReturnThrottled(p) ==
  /\ Goto(p, "inspect", "got")
  /\ link[sess[p]] # "closed"
  /\ throttled[p]
  /\ throttled' = [throttled EXCEPT ![p] = FALSE]
  /\ UNCHANGED <<state, issued, link, closing, sess, ticket, retired, floor>>

StartPing(p) ==
  /\ Goto(p, "inspect", "ping")
  /\ link[sess[p]] # "closed"
  /\ ~throttled[p]
  /\ UNCHANGED <<state, issued, link, closing, sess, throttled, ticket, retired, floor>>

PingOk(p) ==
  /\ Goto(p, "ping", "confirm")
  /\ link[sess[p]] = "up"
  /\ UNCHANGED <<state, issued, link, closing, sess, throttled, ticket, retired, floor>>

\* A closed transport, or no answer within 3 s: from a peer that is gone while
\* the transport has not noticed, or from a healthy one that is slow.
PingFail(p) ==
  /\ Goto(p, "ping", "clear")
  /\ UNCHANGED <<state, issued, link, closing, sess, throttled, ticket, retired, floor>>

\* The session is returned even when it is no longer the pooled one.
ConfirmPing(p) ==
  /\ Goto(p, "confirm", "got")
  /\ lastPing' = IF StillPooled(p) THEN "recent" ELSE lastPing
  /\ UNCHANGED <<client, setupOf, connecting, issued, link, closing,
                 sess, throttled, ticket, retired, floor>>

\* clear_dead_client: only if the dead session is still the pooled one.
ClearDead(p) ==
  /\ Goto(p, "clear", "lock")
  /\ IF StillPooled(p)
     THEN DropPooled
     ELSE UNCHANGED <<client, setupOf, lastPing, retired>>
  /\ sess' = [sess EXCEPT ![p] = None]
  /\ UNCHANGED <<connecting, issued, link, closing, throttled, ticket, floor>>

-----------------------------------------------------------------------------
(* client(): Phase1::Wait and Phase1::Connect *)

\* notify.notified(): from here on the caller is one of the Notify's waiters.
Subscribe(p) ==
  /\ Goto(p, "unlocked", "waiting")
  /\ UNCHANGED <<state, issued, link, closing, sess, throttled, ticket, retired, floor>>

\* notify_waiters() wakes those subscribed to Notify n now and stores no permit.
Notified(n) == {q \in Callers : pc[q] = "waiting" /\ ticket[q] = n}

\* Mutant: the waiters are not notified of a failure.
FinishConnect_silentOnError(p, to) ==
  /\ pc[p] = "connect"
  /\ connecting' = None
  /\ pc' = [q \in Callers |->
              IF q = p THEN to
              ELSE IF to = "got" /\ q \in Notified(ticket[p]) THEN "lock" ELSE pc[q]]
  /\ ticket' = [ticket EXCEPT ![p] = None]
FinishConnect(p, to) ==
  /\ pc[p] = "connect"
  /\ connecting' = None
  /\ pc' = [q \in Callers |->
              IF q = p THEN to
              ELSE IF q \in Notified(ticket[p]) THEN "lock" ELSE pc[q]]
  /\ ticket' = [q \in Callers |->
                  IF q = p \/ q \in Notified(ticket[p]) THEN None ELSE ticket[q]]

ConnectOk(p) ==
  /\ FinishConnect(p, "got")
  /\ client' = ticket[p]
  /\ setupOf' = None
  /\ lastPing' = "recent"
  /\ link' = [link EXCEPT ![ticket[p]] = "up"]
  /\ sess' = [sess EXCEPT ![p] = ticket[p]]
  /\ UNCHANGED <<issued, closing, throttled, retired, floor>>

ConnectErr(p) ==
  /\ FinishConnect(p, "idle")
  /\ floor' = [floor EXCEPT ![p] = None]
  /\ UNCHANGED <<client, setupOf, lastPing, issued, link, closing,
                 sess, throttled, retired>>

-----------------------------------------------------------------------------
(* What the holder of a returned session calls on the manager *)

\* set_shell_integration(for_client, setup), setup being installed on sess[p].
SetShellIntegration(p) ==
  /\ pc[p] = "got"
  /\ StillPooled(p)
  /\ setupOf' = sess[p]
  /\ UNCHANGED <<client, connecting, lastPing, issued, link, closing, caller, retired, floor>>

\* invalidate(): establish_channel after a refused channel, and the end of a
\* terminal's backend task.  It clears whatever session is pooled.
Invalidate(p) ==
  /\ Goto(p, "got", "idle")
  /\ DropPooled
  /\ sess' = [sess EXCEPT ![p] = None]
  /\ floor' = [floor EXCEPT ![p] = None]
  /\ UNCHANGED <<connecting, issued, link, closing, throttled, ticket>>

\* The caller drops its Arc.
Done(p) ==
  /\ Goto(p, "got", "idle")
  /\ sess' = [sess EXCEPT ![p] = None]
  /\ floor' = [floor EXCEPT ![p] = None]
  /\ UNCHANGED <<state, issued, link, closing, throttled, ticket, retired>>

\* disconnect(): the session is taken under the lock and closed after it.
\* Mutant: the session is cloned, not taken.
TakeForDisconnect_clones ==
  /\ client # None
  /\ setupOf' = None
  /\ lastPing' = "never"
  /\ retired' = client
  /\ closing' = closing \cup {client}
  /\ UNCHANGED <<client, connecting, issued, link, caller, floor>>
TakeForDisconnect ==
  /\ client # None
  /\ DropPooled
  /\ closing' = closing \cup {client}
  /\ UNCHANGED <<connecting, issued, link, caller, floor>>

CloseTaken(s) ==
  /\ s \in closing
  /\ closing' = closing \ {s}
  /\ link' = [link EXCEPT ![s] = "closed"]
  /\ UNCHANGED <<state, issued, caller, retired, floor>>

-----------------------------------------------------------------------------
(* The network and the clock *)

CloseLink(s) ==   \* keepalive or the peer closes the transport
  /\ link[s] = "up"
  /\ link' = [link EXCEPT ![s] = "closed"]
  /\ UNCHANGED <<state, issued, closing, caller, retired, floor>>

PingExpires ==    \* PING_THROTTLE has passed since last_ping
  /\ lastPing = "recent"
  /\ lastPing' = "old"
  /\ UNCHANGED <<client, setupOf, connecting, issued, link, closing, caller, retired, floor>>

-----------------------------------------------------------------------------
\* The steps a task takes on its own once it has entered client().
Advance(p) ==
  \/ InspectCached(p) \/ JoinConnect(p) \/ StartConnect(p)
  \/ FindClosed(p) \/ ReturnThrottled(p) \/ StartPing(p)
  \/ PingOk(p) \/ PingFail(p) \/ ConfirmPing(p) \/ ClearDead(p)
  \/ Subscribe(p) \/ ConnectOk(p) \/ ConnectErr(p)

Next ==
  \/ \E p \in Callers : Call(p) \/ Advance(p)
  \/ \E p \in Callers : SetShellIntegration(p) \/ Invalidate(p) \/ Done(p)
  \/ TakeForDisconnect
  \/ \E s \in Session : CloseTaken(s) \/ CloseLink(s)
  \/ PingExpires

Spec == Init /\ [][Next]_vars

\* Every task is polled until it returns: the runtime is multi-threaded, a
\* ping ends within 3 s, and a connect is assumed to end, one way or another.
FairSpec == Spec /\ \A p \in Callers : WF_vars(Advance(p))

-----------------------------------------------------------------------------
(* Properties *)

\* At most one task runs connector.connect, and the registered Notify is the
\* one it will signal ("others subscribe to it so that connects do not run
\* concurrently", session_manager.rs:29).
SingleConnector ==
  /\ \A p \in Callers : pc[p] = "connect" => connecting = ticket[p]
  /\ \A p, q \in Callers : pc[p] = "connect" /\ pc[q] = "connect" => p = q
  /\ connecting # None => \E p \in Callers : pc[p] = "connect"

\* The cached shell integration was installed on the pooled session: a result
\* that arrives after the session was replaced is dropped
\* (session_manager.rs:188-189).
SetupBoundToPooled == setupOf \in {None, client}

\* client() never returns a session that had left the pool before the call
\* was made, in particular not the one a finished disconnect() took.
NoStaleHandout ==
  \A p \in Callers : pc[p] = "got" => sess[p] > floor[p]

\* A pooled session is never overwritten by another: it leaves the pool first,
\* so two connects can never leave an unreachable session behind.
NoOverwrite == [][client # None /\ client' # client => client' = None]_vars

\* The pool implements the shared session its consumers rely on.
Abstract == INSTANCE SharedSession
              WITH Sessions <- Session,
                   pooled   <- client,
                   setup    <- setupOf,
                   dialing  <- (connecting # None),
                   newest   <- IF client # None THEN client ELSE retired
ImplementsSharedSession == Abstract!Spec

\* A caller that subscribed while its connect was still under way is released
\* when that connect ends, whichever way it ends.
SubscriberReleased ==
  \A p \in Callers :
    (pc[p] = "waiting" /\ connecting = ticket[p]) ~> (pc[p] # "waiting")

\* "Only connecting is cleared, the waiters run another round of the loop"
\* (session_manager.rs:141): nobody still waits on the Notify of a connect
\* that has ended.
WaitersRerun ==
  \A p \in Callers : pc[p] = "waiting" => connecting = ticket[p]

=============================================================================
