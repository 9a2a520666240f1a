--------------------------- MODULE MCKokoTerminal --------------------------
(***************************************************************************)
(* KokoTerminal for TLC: one terminal; terminals share no state.            *)
(***************************************************************************)
EXTENDS KokoTerminal

=============================================================================
