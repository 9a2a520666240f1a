------------------------------ MODULE OneLink ------------------------------
(***************************************************************************)
(* What a terminal promises the view that shows it, whichever the protocol: *)
(* it has at most one link, that of its latest attempt.  An attempt reports *)
(* at most once what became of its connect and at most once that its link   *)
(* has ended, in either order; a report of an attempt that is not the       *)
(* latest, or that comes after the terminal was closed, changes nothing.    *)
(*                                                                          *)
(* SshTerminal and KokoTerminal are the code and are shown to implement     *)
(* this module.                                                             *)
(***************************************************************************)
EXTENDS Naturals

None == 0

VARIABLES
  latest,   \* the number of the latest attempt, 0 before the first
  link,     \* the attempt whose link is in use, or None
  status,   \* what the view shows
  awaited,  \* the latest attempt has still to report its result
  watched,  \* the latest attempt has still to report the end of its link
  closed    \* the terminal was closed

vars == <<latest, link, status, awaited, watched, closed>>

\* A terminal is opened with its first attempt under way, or with none.
Init ==
  /\ link = None
  /\ closed = FALSE
  /\ \/ latest = 1 /\ status = "connecting" /\ awaited = TRUE /\ watched = TRUE
     \/ latest = 0 /\ status = "down" /\ awaited = FALSE /\ watched = FALSE

Begin ==
  /\ ~closed
  /\ latest' = latest + 1
  /\ link' = None
  /\ status' = "connecting"
  /\ awaited' = TRUE
  /\ watched' = TRUE
  /\ closed' = FALSE

Establish ==
  /\ ~closed
  /\ awaited
  /\ link = None
  /\ link' = latest
  /\ status' = "connected"
  /\ awaited' = FALSE
  /\ UNCHANGED <<latest, watched, closed>>

Fail ==
  /\ ~closed
  /\ awaited
  /\ link = None
  /\ status' = "down"
  /\ awaited' = FALSE
  /\ UNCHANGED <<latest, link, watched, closed>>

Lose ==
  /\ ~closed
  /\ watched
  /\ link' = None
  /\ status' = "down"
  /\ watched' = FALSE
  /\ UNCHANGED <<latest, awaited, closed>>

Close ==
  /\ ~closed
  /\ closed' = TRUE
  /\ link' = None
  /\ awaited' = FALSE
  /\ watched' = FALSE
  /\ UNCHANGED <<latest, status>>

Next == Begin \/ Establish \/ Fail \/ Lose \/ Close

Spec == Init /\ [][Next]_vars

=============================================================================
