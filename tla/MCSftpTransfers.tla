-------------------------- MODULE MCSftpTransfers ---------------------------
(***************************************************************************)
(* SftpTransfers for TLC.  Tasks are numbered in the order they enter the   *)
(* queue, so they are not interchangeable.                                  *)
(***************************************************************************)
EXTENDS SftpTransfers

=============================================================================
