----------------------------- MODULE MCPaneArea ----------------------------
(***************************************************************************)
(* PaneArea for TLC.  The ids of panes are interchangeable, but symmetry is *)
(* not used: the run checks liveness.  Since no definition tells one id     *)
(* from another, progress is checked for one pane, Observed.                *)
(***************************************************************************)
EXTENDS PaneArea

CONSTANT Observed  \* any of Panes

ASSUME ObservedAssumption == Observed \in Panes

\* FairSpec implies it; the answers to other panes' requests may even be held back.
ObservedSpec == Spec /\ FairTo(Observed)

\* A pane that asked for a split can be split again, unless its request was
\* lost.
RequestsSettle == RequestSettles(Observed)

=============================================================================
