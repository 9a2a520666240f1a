--------------------------- MODULE SharedSession ---------------------------
(***************************************************************************)
(* What crates/ssh promises the consumers of one SSH terminal tab: they     *)
(* share at most one pooled session.  A new one is dialled only when none   *)
(* is pooled and no dial is under way, every session that enters the pool   *)
(* is newer than all those that were in it before, and the cached           *)
(* shell-integration result always belongs to the pooled session.           *)
(*                                                                          *)
(* SessionPool.tla is the code and is shown to implement this module.       *)
(***************************************************************************)
EXTENDS Naturals

CONSTANT Sessions   \* identities of sessions, in the order they are dialled

None == 0

VARIABLES
  pooled,    \* the session every consumer shares, or None
  setup,     \* the session the cached shell integration belongs to, or None
  dialing,   \* is a connect under way?
  newest     \* the last session that entered the pool

vars == <<pooled, setup, dialing, newest>>

Init ==
  /\ pooled = None
  /\ setup = None
  /\ dialing = FALSE
  /\ newest = None

Dial ==
  /\ pooled = None
  /\ ~dialing
  /\ dialing' = TRUE
  /\ UNCHANGED <<pooled, setup, newest>>

Establish(s) ==
  /\ dialing
  /\ pooled = None
  /\ s > newest
  /\ pooled' = s
  /\ newest' = s
  /\ dialing' = FALSE
  /\ setup' = None

DialFails ==
  /\ dialing
  /\ dialing' = FALSE
  /\ UNCHANGED <<pooled, setup, newest>>

BindSetup ==
  /\ pooled # None
  /\ setup' = pooled
  /\ UNCHANGED <<pooled, dialing, newest>>

Drop ==
  /\ pooled # None
  /\ pooled' = None
  /\ setup' = None
  /\ UNCHANGED <<dialing, newest>>

Next ==
  \/ Dial
  \/ \E s \in Sessions : Establish(s)
  \/ DialFails
  \/ BindSetup
  \/ Drop

Spec == Init /\ [][Next]_vars

=============================================================================
