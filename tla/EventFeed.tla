----------------------------- MODULE EventFeed -----------------------------
(***************************************************************************)
(* What a terminal's event loop promises its view: events are handled in    *)
(* the order they were sent and none is skipped, a render hint only after   *)
(* the events sent before it, and while the terminal is open no change of   *)
(* the screen is left without a hint, although hints may be merged.         *)
(*                                                                          *)
(* TerminalEvents, with its channels, its flag and its aggregating task, is *)
(* the code and is shown to implement this module.                          *)
(***************************************************************************)
EXTENDS Naturals

VARIABLES
  sent,      \* the number of the last event sent
  handled,   \* the number of the last event handled
  owed,      \* a change was made for which a hint has still to be sent
  hints,     \* the hints on their way: the last event each of them follows
  notified,  \* the view will paint
  behind,    \* the screen has changed since the last frame
  closed     \* the terminal was closed

vars == <<sent, handled, owed, hints, notified, behind, closed>>

Init ==
  /\ sent = 0 /\ handled = 0
  /\ owed = FALSE
  /\ hints = {}
  /\ notified = FALSE
  /\ behind = FALSE
  /\ closed = FALSE

Emit ==
  /\ sent' = sent + 1
  /\ UNCHANGED <<handled, owed, hints, notified, behind, closed>>

\* Output changes the screen; parsing it may send an event.
Draw ==
  /\ sent' \in {sent, sent + 1}
  /\ owed' = TRUE
  /\ behind' = TRUE
  /\ UNCHANGED <<handled, hints, notified, closed>>

\* Scrolling changes what is on screen; the view knows of it without a hint.
Scroll ==
  /\ ~closed
  /\ behind' = TRUE
  /\ notified' = TRUE
  /\ UNCHANGED <<sent, handled, owed, hints, closed>>

\* One hint may stand for several changes, and several may be sent for one.
Hint ==
  /\ owed
  /\ hints' = hints \cup {sent}
  /\ owed' \in BOOLEAN
  /\ UNCHANGED <<sent, handled, notified, behind, closed>>

\* A hint need not be sent while another is on its way.
Spare ==
  /\ owed
  /\ hints # {}
  /\ owed' \in BOOLEAN
  /\ UNCHANGED <<sent, handled, hints, notified, behind, closed>>

\* A hint gives way to a later one.
Merge(n) ==
  /\ n \in hints
  /\ \E m \in hints : m > n
  /\ hints' = hints \ {n}
  /\ UNCHANGED <<sent, handled, owed, notified, behind, closed>>

HandleEvent ==
  /\ handled < sent
  /\ handled' = handled + 1
  /\ UNCHANGED <<sent, owed, hints, notified, behind, closed>>

\* There may be another hint for the same events.
HandleHint(n) ==
  /\ n \in hints
  /\ n <= handled
  /\ hints' \in {hints, hints \ {n}}
  /\ notified' = TRUE
  /\ UNCHANGED <<sent, handled, owed, behind, closed>>

Paint ==
  /\ notified
  /\ notified' = FALSE
  /\ behind' = FALSE
  /\ UNCHANGED <<sent, handled, owed, hints, closed>>

Close ==
  /\ ~closed
  /\ closed' = TRUE
  /\ UNCHANGED <<sent, handled, owed, hints, notified, behind>>

\* Hints for a closed terminal may be lost; its events are still not reordered.
Lapse ==
  /\ closed
  /\ hints' \subseteq hints
  /\ owed' => owed
  /\ owed' \in BOOLEAN
  /\ UNCHANGED <<sent, handled, notified, behind, closed>>

Next ==
  \/ Emit \/ Draw \/ Scroll \/ Hint \/ Spare
  \/ HandleEvent \/ Paint \/ Close \/ Lapse
  \/ \E n \in hints : Merge(n) \/ HandleHint(n)

Spec == Init /\ [][Next]_vars

=============================================================================
