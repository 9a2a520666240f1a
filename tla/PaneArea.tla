------------------------------ MODULE PaneArea -----------------------------
(***************************************************************************)
(* The panes of a terminal tab: TerminalPaneArea (terminal_view/src/        *)
(* pane_area.rs), the split requests HomePage serves for it                 *)
(* (main/src/home/home_tabs.rs), and what the dock does to a pane.          *)
(*                                                                          *)
(* A local pane is split at once.  An SSH pane is split by HomePage, which  *)
(* is called back while the pane area is being updated and so inserts the   *)
(* new terminal in a deferred call.  A JumpServer pane first needs a token, *)
(* requested by a detached task that holds the pane area; meanwhile the     *)
(* source may close, by its shortcut or by the dock, and so may the tab.    *)
(*                                                                          *)
(* Everything runs on the UI thread.  Deferred calls run in order when the  *)
(* update that deferred them ends, before any other event.                  *)
(***************************************************************************)
EXTENDS Naturals, Sequences, FiniteSets

CONSTANTS
  Panes,        \* entity ids of terminal views; one nothing refers to is fresh
  MaxPanes,     \* MAX_TERMINAL_PANES
  MaxInflight,  \* MAX_INFLIGHT_SPLITS
  None          \* no pane

ASSUME PaneAssumption ==
  /\ IsFiniteSet(Panes)
  /\ MaxPanes \in Nat \ {0}
  /\ MaxInflight \in Nat \ {0}
  /\ None \notin Panes

VARIABLES
  kind,      \* connection_kind of the tab's terminals
  area,      \* the tab: open, asking the user, closed, released
  panes,     \* terminals: the terminals registered
  attached,  \* those whose tab_panel is set: they are in the dock
  active,    \* active_terminal
  pending,   \* pending_splits
  inflight,  \* inflight_splits
  live,      \* terminals with a session: started and not shut down
  known,     \* panes of a JumpServer tab that know their asset
  tokens,    \* tokens[p]: token requests outstanding for source p
  deferred,  \* calls given to window.defer
  lost,      \* sources whose request came to nothing and was not settled
  saved,     \* HomePage still has the saved SSH connection
  panicked   \* an entity was updated while it was being updated

dock == <<panes, attached, active>>
splits == <<pending, inflight, tokens, lost>>
vars == <<kind, area, dock, splits, live, known, deferred, saved, panicked>>

Deferred ==
  [call : {"insert"}, source : Panes, new : Panes]
    \cup [call : {"closed"}, source : Panes]

TypeOK ==
  /\ kind \in {"local", "ssh", "jms"}
  /\ area \in {"open", "asking", "closed", "released"}
  /\ panes \subseteq Panes
  /\ attached \subseteq Panes
  /\ active \in Panes \cup {None}
  /\ pending \subseteq Panes
  /\ inflight \in 0 .. MaxInflight
  /\ live \subseteq Panes
  /\ known \subseteq Panes
  /\ tokens \in [Panes -> Nat]
  /\ deferred \in Seq(Deferred)
  /\ lost \subseteq Panes
  /\ saved \in BOOLEAN
  /\ panicked \in BOOLEAN

\* with_terminal: one pane; a JumpServer tab may start as a placeholder.
Init ==
  /\ kind \in {"local", "ssh", "jms"}
  /\ area = "open"
  /\ \E p \in Panes :
       /\ panes = {p}
       /\ attached = {p}
       /\ active = p
       /\ \/ live = {p} /\ known = {p}
          \/ kind = "jms" /\ live = {} /\ known = {}
  /\ pending = {}
  /\ inflight = 0
  /\ tokens = [p \in Panes |-> 0]
  /\ deferred = <<>>
  /\ lost = {}
  /\ saved = TRUE
  /\ panicked = FALSE

Referred ==
  panes \cup attached \cup live \cup pending \cup lost
    \cup {p \in Panes : tokens[p] > 0}
    \cup {deferred[i].source : i \in DOMAIN deferred}
Fresh(p) == p \notin Referred

\* No update is under way: the next event may be handled.
Ready == deferred = <<>> /\ ~panicked
UserMay == Ready /\ area \in {"open", "asking"}

\* saturating_sub(1).
Saturating(n) == IF n = 0 THEN 0 ELSE n - 1

\* register_terminal, of a terminal the dock has taken.
Register(p) ==
  /\ panes' = panes \cup {p}
  /\ attached' = attached \cup {p}
  /\ active' = p

\* The first checks of split_terminal.
MaySplit(p) == Cardinality(panes) + inflight < MaxPanes /\ p \in attached

\* cancel_split_request, and the end of split_with_terminal.
\* Mutant: the source stays marked.
Settle_keepsPending(p) ==
  /\ pending' = pending
  /\ inflight' = Saturating(inflight)
  /\ lost' = lost \ {p}
Settle(p) ==
  /\ pending' = pending \ {p}
  /\ inflight' = Saturating(inflight)
  /\ lost' = lost \ {p}

\* split_with_terminal: source and limit may have changed since the request,
\* and add_panel_at may refuse.  A terminal that is inserted has its session, or
\* is connected right after; one that is not is shut down.
Insert(new) == Register(new) /\ live' = live \cup {new}
Reject(new) == UNCHANGED dock /\ live' = live \ {new}
\* Mutant: the limit is not checked again.
SplitWith_overLimit(p, new) ==
  /\ Settle(p)
  /\ \/ p \in attached /\ Insert(new)
     \/ Reject(new)
SplitWith(p, new) ==
  /\ Settle(p)
  /\ \/ Cardinality(panes) < MaxPanes /\ p \in attached /\ Insert(new)
     \/ Reject(new)

-----------------------------------------------------------------------------
(* Splitting *)

\* duplicate_terminal and add_panel_at in one go.  If the dock refuses, the new
\* terminal is shut down again and nothing is left of it.
SplitLocal(p) ==
  /\ UserMay
  /\ kind = "local"
  /\ p \in panes
  /\ MaySplit(p)
  /\ \E new \in Panes : Fresh(new) /\ Insert(new)
  /\ UNCHANGED <<kind, area, splits, known, deferred, saved, panicked>>

\* The rest of split_terminal: the source is marked and HomePage is called.
\* Mutant: a source that is already marked asks again.
Requests_twice(p) ==
  /\ UserMay
  /\ p \in panes
  /\ MaySplit(p)
  /\ inflight < MaxInflight
  /\ pending' = pending \cup {p}
  /\ inflight' = inflight + 1
Requests(p) ==
  /\ UserMay
  /\ p \in panes
  /\ MaySplit(p)
  /\ p \notin pending
  /\ inflight < MaxInflight
  /\ pending' = pending \cup {p}
  /\ inflight' = inflight + 1

RequestSsh(p) ==
  /\ kind = "ssh"
  /\ saved
  /\ Requests(p)
  /\ \E new \in Panes :
       /\ Fresh(new)
       /\ live' = live \cup {new}
       /\ deferred' = Append(deferred, [call |-> "insert", source |-> p, new |-> new])
  /\ UNCHANGED <<kind, area, dock, tokens, lost, known, saved, panicked>>

\* "connection not found": HomePage returns, and nothing settles the request.
RequestLost(p) ==
  /\ kind = "ssh"
  /\ ~saved
  /\ Requests(p)
  /\ lost' = lost \cup {p}
  /\ UNCHANGED <<kind, area, dock, tokens, live, known, deferred, saved, panicked>>

RequestJms(p) ==
  /\ kind = "jms"
  /\ p \in known
  /\ Requests(p)
  /\ tokens' = [tokens EXCEPT ![p] = @ + 1]
  /\ UNCHANGED <<kind, area, dock, lost, live, known, deferred, saved, panicked>>

\* HomePage cancels the request of a pane without an asset on the spot, inside
\* the update of the pane area: gpui panics.
RequestUnknown(p) ==
  /\ kind = "jms"
  /\ p \notin known
  /\ Requests(p)
  /\ panicked' = TRUE
  /\ UNCHANGED <<kind, area, dock, tokens, lost, live, known, deferred, saved>>

RunInsert ==
  /\ deferred # <<>>
  /\ Head(deferred).call = "insert"
  /\ deferred' = Tail(deferred)
  /\ SplitWith(Head(deferred).source, Head(deferred).new)
  /\ UNCHANGED <<kind, area, tokens, known, saved, panicked>>

\* The token came: a placeholder is created, inserted, and only then connected.
TokenOk(p) ==
  /\ Ready
  /\ tokens[p] > 0
  /\ tokens' = [tokens EXCEPT ![p] = @ - 1]
  /\ \E new \in Panes :
       /\ Fresh(new)
       /\ SplitWith(p, new)
       /\ known' = IF new \in live' THEN known \cup {new} ELSE known
  /\ UNCHANGED <<kind, area, deferred, saved, panicked>>

\* It was refused, or no window is active.
\* Mutant: the request is not cancelled.
TokenErr_notCancelled(p) ==
  /\ Ready
  /\ tokens[p] > 0
  /\ tokens' = [tokens EXCEPT ![p] = @ - 1]
  /\ UNCHANGED <<kind, area, dock, pending, inflight, lost, live, known, deferred,
                 saved, panicked>>
TokenErr(p) ==
  /\ Ready
  /\ tokens[p] > 0
  /\ tokens' = [tokens EXCEPT ![p] = @ - 1]
  /\ Settle(p)
  /\ UNCHANGED <<kind, area, dock, live, known, deferred, saved, panicked>>

\* The token came, but update_window failed, which is ignored: the active window
\* had just been removed.  Nothing settles the request.
TokenMissed(p) ==
  /\ Ready
  /\ tokens[p] > 0
  /\ tokens' = [tokens EXCEPT ![p] = @ - 1]
  /\ lost' = lost \cup {p}
  /\ UNCHANGED <<kind, area, dock, pending, inflight, live, known, deferred,
                 saved, panicked>>

-----------------------------------------------------------------------------
(* Closing and moving panes *)

\* TabPanel::detach_panel: on_removed defers the look at tab_panel.
Detach(p) ==
  /\ attached' = attached \ {p}
  /\ deferred' = Append(deferred, [call |-> "closed", source |-> p])

\* close_terminal, the ClosePane shortcut: also of the last pane.
ClosePane(p) ==
  /\ UserMay
  /\ p \in panes \cap attached
  /\ pending' = pending \ {p}
  /\ live' = live \ {p}
  /\ Detach(p)
  /\ UNCHANGED <<kind, area, panes, active, inflight, tokens, lost, known, saved,
                 panicked>>

\* The dock's own ClosePanel: never of the last pane.
DockClose(p) ==
  /\ UserMay
  /\ p \in panes \cap attached
  /\ Cardinality(attached) > 1
  /\ Detach(p)
  /\ UNCHANGED <<kind, area, panes, active, splits, live, known, saved, panicked>>

\* TabPanel::on_drop: detached from one tab panel and added to another before
\* the deferred call runs.  The other panel is taken to accept it: on_drop does
\* not look at what split_panel returns.
Drag(p) ==
  /\ UserMay
  /\ p \in panes \cap attached
  /\ deferred' = Append(deferred, [call |-> "closed", source |-> p])
  /\ UNCHANGED <<kind, area, dock, splits, live, known, saved, panicked>>

\* remove_terminal.
\* Mutant: the session is left to the drop of the view.
Remove_keepsSession(p) ==
  /\ panes' = panes \ {p}
  /\ known' = known \ {p}
  /\ IF p \in pending THEN Settle(p) ELSE UNCHANGED <<pending, inflight, lost>>
  /\ live' = live
  /\ active' \in IF active # p THEN {active}
                 ELSE IF panes' = {} THEN {None} ELSE panes'
Remove(p) ==
  /\ panes' = panes \ {p}
  /\ known' = known \ {p}
  /\ IF p \in pending THEN Settle(p) ELSE UNCHANGED <<pending, inflight, lost>>
  /\ live' = live \ {p}
  /\ active' \in IF active # p THEN {active}
                 ELSE IF panes' = {} THEN {None} ELSE panes'

\* The deferred half of on_removed; Closed is emitted if the view is detached.
\* Mutant: it is emitted in any case.
RunClosed_always ==
  /\ deferred # <<>>
  /\ Head(deferred).call = "closed"
  /\ deferred' = Tail(deferred)
  /\ Remove(Head(deferred).source)
  /\ UNCHANGED <<kind, area, attached, tokens, saved, panicked>>
RunClosed ==
  /\ deferred # <<>>
  /\ Head(deferred).call = "closed"
  /\ deferred' = Tail(deferred)
  /\ IF Head(deferred).source \in attached
     THEN UNCHANGED <<panes, active, pending, inflight, lost, live, known>>
     ELSE Remove(Head(deferred).source)
  /\ UNCHANGED <<kind, area, attached, tokens, saved, panicked>>

Focus(p) ==
  /\ UserMay
  /\ p \in panes
  /\ active' = p
  /\ UNCHANGED <<kind, area, panes, attached, splits, live, known, deferred,
                 saved, panicked>>

\* ConnectJmsInCurrentTab.
ChooseAsset(p) ==
  /\ UserMay
  /\ kind = "jms"
  /\ p \in panes
  /\ known' = known \cup {p}
  /\ live' = live \cup {p}
  /\ UNCHANGED <<kind, area, dock, splits, deferred, saved, panicked>>

DeleteConnection ==
  /\ Ready
  /\ kind = "ssh"
  /\ saved
  /\ saved' = FALSE
  /\ UNCHANGED <<kind, area, dock, splits, live, known, deferred, panicked>>

-----------------------------------------------------------------------------
(* Closing the tab *)

\* try_close without confirmation, or after it: shutdown_all_terminals.
CloseArea ==
  /\ area' = "closed"
  /\ live' = live \ panes
  /\ UNCHANGED <<kind, dock, splits, known, deferred, saved, panicked>>

TryClose == Ready /\ area = "open" /\ CloseArea

\* A local terminal runs a command: the user is asked.
AskClose ==
  /\ Ready
  /\ kind = "local"
  /\ area = "open"
  /\ area' = "asking"
  /\ UNCHANGED <<kind, dock, splits, live, known, deferred, saved, panicked>>

Confirm == Ready /\ area = "asking" /\ CloseArea

Decline ==
  /\ Ready
  /\ area = "asking"
  /\ area' = "open"
  /\ UNCHANGED <<kind, dock, splits, live, known, deferred, saved, panicked>>

\* The tab is gone and the last token request has returned: the pane area is
\* dropped with its terminals and its counts.
ReleaseArea ==
  /\ Ready
  /\ area = "closed"
  /\ \A p \in Panes : tokens[p] = 0
  /\ area' = "released"
  /\ panes' = {}
  /\ attached' = {}
  /\ active' = None
  /\ live' = live \ panes
  /\ known' = {}
  /\ pending' = {}
  /\ inflight' = 0
  /\ lost' = {}
  /\ UNCHANGED <<kind, tokens, deferred, saved, panicked>>

-----------------------------------------------------------------------------
Next ==
  \/ RunInsert \/ RunClosed \/ DeleteConnection
  \/ TryClose \/ AskClose \/ Confirm \/ Decline \/ ReleaseArea
  \/ \E p \in Panes :
       \/ SplitLocal(p) \/ RequestSsh(p) \/ RequestLost(p)
       \/ RequestJms(p) \/ RequestUnknown(p)
       \/ TokenOk(p) \/ TokenErr(p) \/ TokenMissed(p)
       \/ ClosePane(p) \/ DockClose(p) \/ Drag(p) \/ Focus(p) \/ ChooseAsset(p)

Spec == Init /\ [][Next]_vars

Token(p) == TokenOk(p) \/ TokenErr(p) \/ TokenMissed(p)

\* Deferred calls run, and a token request is answered or fails and its callback
\* is run between two events however many there are.
FairTo(p) ==
  /\ WF_vars(RunInsert)
  /\ WF_vars(RunClosed)
  /\ SF_vars(Token(p))

FairSpec == Spec /\ \A p \in Panes : FairTo(p)

-----------------------------------------------------------------------------
(* Properties *)

\* A tab never holds more than MAX_TERMINAL_PANES panes, although
\* inflight_splits may undercount the requests that will still insert one.
PaneLimit == Cardinality(panes) <= MaxPanes

\* Every session belongs to a pane of the tab, or to one that is about to be
\* inserted: a terminal whose split was rejected, or whose pane was closed,
\* has been shut down.
SessionsHavePanes ==
  \A p \in live :
    \/ p \in panes
    \/ \E i \in DOMAIN deferred : deferred[i].call = "insert" /\ deferred[i].new = p

\* The map of terminals and the dock agree: a pane that is in one and not in
\* the other is about to leave it.
DockMatchesPanes ==
  /\ attached \subseteq panes
  /\ \A p \in panes \ attached :
       \E i \in DOMAIN deferred : deferred[i].call = "closed" /\ deferred[i].source = p

\* "Only one JMS connection-token request may be active per source pane"
\* (pane_area.rs:298).
OneTokenPerSource == \A p \in Panes : tokens[p] <= 1

\* The split requests that will still be answered.
Outstanding ==
  {p \in Panes :
     \/ tokens[p] > 0
     \/ \E i \in DOMAIN deferred : deferred[i].call = "insert" /\ deferred[i].source = p}

\* No pane stays marked and no place of inflight_splits stays taken by a request
\* nobody will answer, whatever was closed meanwhile; except for the requests
\* HomePage loses: of a saved connection that was deleted, or because the window
\* had gone when the token came.  Each of these costs one place at most.
SplitsAnswered ==
  \/ panicked
  \/ /\ pending \subseteq Outstanding \cup lost
     /\ inflight <= Cardinality(Outstanding \cup lost)

\* A pane that asked for a split can be split again, unless its request was
\* lost.
RequestSettles(p) == p \in pending ~> (p \notin pending \/ p \in lost \/ panicked)

=============================================================================
