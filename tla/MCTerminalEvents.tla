------------------------- MODULE MCTerminalEvents --------------------------
(***************************************************************************)
(* TerminalEvents for TLC: one terminal of each kind; terminals share       *)
(* neither the flag nor a channel.                                          *)
(***************************************************************************)
EXTENDS TerminalEvents

=============================================================================
