--------------------------- MODULE TerminalEvents --------------------------
(***************************************************************************)
(* How output becomes a frame: the event loop of a terminal                 *)
(* (Terminal::spawn_event_loop of terminal.rs), the tasks that write to its *)
(* screen, and the render hints (Wakeup) that must not be lost when they    *)
(* are merged on the way.                                                   *)
(*                                                                          *)
(* A local terminal is written by alacritty's PTY thread, which sends its   *)
(* events through GpuiEventProxy (pty_backend.rs).  An SSH or Koko terminal *)
(* is written by its session task, which notifies a forwarding task.  All   *)
(* send into one channel; an aggregating task collects its messages, and at *)
(* a tick passes them on to the UI thread: first the events, then one       *)
(* Wakeup for all that came.                                                *)
(***************************************************************************)
EXTENDS Naturals, Sequences

CONSTANTS
  MaxOutput,  \* bound: changes of the screen
  MaxEvents,  \* bound: events other than Wakeup
  Scrolling   \* whether the user scrolls

ASSUME EventsAssumption ==
  MaxOutput \in Nat /\ MaxEvents \in Nat /\ Scrolling \in BOOLEAN

Wakeup(n) == [kind |-> "wakeup", n |-> n]
Event(n) == [kind |-> "event", n |-> n]
Messages == [kind : {"wakeup", "event"}, n : Nat]
IsWakeup(m) == m.kind = "wakeup"

VARIABLES
  kind,     \* connection_kind: who writes to the screen
  life,     \* of the Terminal entity: open, shut down, released
  output,   \* version of the screen (term)
  shown,    \* the version the last frame painted
  sent,     \* events sent
  handled,  \* the last event the terminal has handled
  writer,   \* the PTY thread or the session task
  notices,  \* the channel from the session task to the forwarding task
  hint,     \* a Wakeup in the hands of the PTY thread or the forwarding task
  flag,     \* wakeup_pending
  events,   \* event_rx
  batch,    \* pending_events
  wake,     \* pending_wakeup: the latest Wakeup received, as a sequence
  due,      \* the ticker is due
  agg,      \* where the aggregating task is
  render,   \* render_rx
  dirty,    \* the view was notified and has not been painted since
  listening \* the UI task that reads render_rx runs

screen == <<output, shown, dirty>>
source == <<writer, notices, hint>>
loop == <<batch, wake, due, agg>>
vars == <<kind, life, screen, sent, handled, source, flag, events, loop,
          render, listening>>

TypeOK ==
  /\ kind \in {"local", "ssh", "koko"}
  /\ life \in {"open", "shut", "released"}
  /\ output \in Nat
  /\ shown \in Nat
  /\ sent \in Nat
  /\ handled \in Nat
  /\ writer \in {"reading", "announced", "parsed", "ended"}
  /\ notices \in Nat
  /\ kind = "koko" => notices <= 1
  /\ hint \in {"none", "swap", "send"}
  /\ flag \in BOOLEAN
  /\ events \in Seq(Messages)
  /\ batch \in Seq(Messages)
  /\ wake \in Seq(Messages)
  /\ Len(wake) <= 1
  /\ due \in BOOLEAN
  /\ agg \in {"select", "reset", "forward", "ended"}
  /\ render \in Seq(Messages)
  /\ dirty \in BOOLEAN
  /\ listening \in BOOLEAN

Init ==
  /\ kind \in {"local", "ssh", "koko"}
  /\ life = "open"
  /\ output = 0 /\ shown = 0 /\ dirty = FALSE
  /\ sent = 0 /\ handled = 0
  /\ writer = "reading" /\ notices = 0 /\ hint = "none"
  /\ flag = FALSE
  /\ events = <<>>
  /\ batch = <<>> /\ wake = <<>> /\ due = TRUE /\ agg = "select"
  /\ render = <<>>
  /\ listening = TRUE

\* event_tx.send: fails, and is ignored, once the aggregating task has ended.
Send(m) == events' = IF agg = "ended" THEN <<>> ELSE Append(events, m)

Announce ==
  /\ sent < MaxEvents
  /\ sent' = sent + 1
  /\ Send(Event(sent + 1))

Change == output < MaxOutput /\ output' = output + 1

-----------------------------------------------------------------------------
(* The tasks that write to the screen *)

\* The PTY thread parses what it has read; the parser may send an event (title,
\* bell) through the proxy.  A Wakeup follows.
Parse ==
  /\ kind = "local"
  /\ writer = "reading"
  /\ hint = "none"
  /\ Change
  /\ Announce \/ UNCHANGED <<sent, events>>
  /\ hint' = "swap"
  /\ UNCHANGED <<kind, life, shown, dirty, handled, writer, notices, flag, loop,
                 render, listening>>

\* A session task takes a message from the server: first its OSC events ...
SendOsc ==
  /\ kind # "local"
  /\ writer = "reading"
  /\ Announce
  /\ writer' = "announced"
  /\ UNCHANGED <<kind, life, screen, handled, notices, hint, flag, loop, render, listening>>

\* ... then the screen (processor.advance), with or without events before it ...
Advance ==
  /\ kind # "local"
  /\ writer \in {"reading", "announced"}
  /\ Change
  /\ writer' = "parsed"
  /\ UNCHANGED <<kind, life, shown, dirty, sent, handled, notices, hint, flag, events,
                 loop, render, listening>>

\* ... and then the notice.  Koko's channel has room for one: a second is dropped.
NotifyOf == IF kind = "koko" THEN 1 ELSE notices + 1

Notify ==
  /\ writer = "parsed"
  /\ writer' = "reading"
  /\ notices' = NotifyOf
  /\ UNCHANGED <<kind, life, screen, sent, handled, hint, flag, events, loop, render, listening>>

\* The forwarding task; SSH's does not look at the flag.
TakeNotice ==
  /\ notices > 0
  /\ hint = "none"
  /\ notices' = notices - 1
  /\ hint' = IF kind = "koko" THEN "swap" ELSE "send"
  /\ UNCHANGED <<kind, life, screen, sent, handled, writer, flag, events, loop, render, listening>>

\* wakeup_pending.swap(true): a Wakeup is dropped while another is pending.
Swap ==
  /\ hint = "swap"
  /\ flag' = TRUE
  /\ hint' = IF flag THEN "none" ELSE "send"
  /\ UNCHANGED <<kind, life, screen, sent, handled, writer, notices, events, loop,
                 render, listening>>

SendWakeup ==
  /\ hint = "send"
  /\ hint' = "none"
  /\ Send(Wakeup(sent))
  /\ UNCHANGED <<kind, life, screen, sent, handled, writer, notices, flag, loop,
                 render, listening>>

\* The shell, the session or the PTY ends, by itself or after shutdown().
WriterEnds ==
  /\ writer \in {"reading", "announced"}
  /\ kind = "local" => hint = "none"
  /\ writer' = "ended"
  /\ UNCHANGED <<kind, life, screen, sent, handled, notices, hint, flag, events, loop,
                 render, listening>>

-----------------------------------------------------------------------------
(* The aggregating task *)

\* A message restarts the ticker, which is then due at once.
Receive ==
  /\ agg = "select"
  /\ events # <<>>
  /\ LET m == Head(events) IN
     /\ wake' = IF IsWakeup(m) THEN <<m>> ELSE wake
     /\ batch' = IF IsWakeup(m) THEN batch ELSE Append(batch, m)
  /\ events' = Tail(events)
  /\ due' = TRUE
  /\ UNCHANGED <<kind, life, screen, sent, handled, source, flag, agg, render, listening>>

NoSender ==
  /\ life = "released"
  /\ writer = "ended"
  /\ notices = 0
  /\ hint = "none"

\* event_rx.recv() returns None.
Closed ==
  /\ agg = "select"
  /\ events = <<>>
  /\ NoSender
  /\ agg' = "ended"
  /\ UNCHANGED <<kind, life, screen, sent, handled, source, flag, events, batch, wake,
                 due, render, listening>>

\* The first part of a tick: the events are passed on.
\* Mutant: the Wakeup does not wait for them.
Flush_wakeupFirst ==
  IF wake # <<>> THEN UNCHANGED <<batch, render>>
  ELSE batch' = <<>> /\ render' = render \o batch
Flush == batch' = <<>> /\ render' = render \o batch

Tick ==
  /\ agg = "select"
  /\ due
  /\ due' = FALSE
  /\ IF listening \/ batch = <<>>
     THEN Flush /\ agg' = IF wake = <<>> THEN "select" ELSE "reset"
     ELSE agg' = "ended" /\ UNCHANGED <<batch, render>>
  /\ events' = IF agg' = "ended" THEN <<>> ELSE events
  /\ UNCHANGED <<kind, life, screen, sent, handled, source, flag, wake, listening>>

\* wakeup_pending.store(false), before the Wakeup is passed on.
\* Mutant: nobody clears the flag.
Cleared_never == flag
Cleared == FALSE

Reset ==
  /\ agg = "reset"
  /\ flag' = Cleared
  /\ agg' = "forward"
  /\ UNCHANGED <<kind, life, screen, sent, handled, source, events, batch, wake, due,
                 render, listening>>

Forward ==
  /\ agg = "forward"
  /\ wake' = <<>>
  /\ IF listening
     THEN /\ render' = render \o wake
          /\ agg' = "select"
          /\ events' = events
     ELSE /\ agg' = "ended"
          /\ events' = <<>>
          /\ UNCHANGED render
  /\ UNCHANGED <<kind, life, screen, sent, handled, source, flag, batch, due, listening>>

\* Time: the interval of the ticker.
TickerDue ==
  /\ ~due
  /\ agg # "ended"
  /\ due' = TRUE
  /\ UNCHANGED <<kind, life, screen, sent, handled, source, flag, events, batch, wake,
                 agg, render, listening>>

-----------------------------------------------------------------------------
(* The UI thread *)

\* handle_terminal_event of Terminal and TerminalView.
Handle ==
  /\ listening
  /\ render # <<>>
  /\ life # "released"
  /\ render' = Tail(render)
  /\ IF IsWakeup(Head(render))
     THEN dirty' = TRUE /\ handled' = handled
     ELSE dirty' = dirty /\ handled' = Head(render).n
  /\ UNCHANGED <<kind, life, output, shown, sent, source, flag, events, loop, listening>>

\* The entity is gone, or the aggregating task has ended.
StopListening ==
  /\ listening
  /\ \/ life = "released" /\ render # <<>>
     \/ agg = "ended" /\ render = <<>>
  /\ listening' = FALSE
  /\ render' = <<>>
  /\ UNCHANGED <<kind, life, screen, sent, handled, source, flag, events, loop>>

\* A frame reads the screen as it is then.
Paint ==
  /\ dirty
  /\ dirty' = FALSE
  /\ shown' = output
  /\ UNCHANGED <<kind, life, output, sent, handled, source, flag, events, loop, render, listening>>

\* The user scrolls: the view changes the screen and notifies itself, past the loop.
Scroll ==
  /\ Scrolling
  /\ life = "open"
  /\ Change
  /\ dirty' = TRUE
  /\ UNCHANGED <<kind, life, shown, sent, handled, source, flag, events, loop, render,
                 listening>>

Shutdown ==
  /\ life = "open"
  /\ life' = "shut"
  /\ UNCHANGED <<kind, screen, sent, handled, source, flag, events, loop, render, listening>>

Release ==
  /\ life # "released"
  /\ life' = "released"
  /\ UNCHANGED <<kind, screen, sent, handled, source, flag, events, loop, render, listening>>

-----------------------------------------------------------------------------
Next ==
  \/ Parse \/ SendOsc \/ Advance \/ Notify \/ TakeNotice \/ Swap \/ SendWakeup
  \/ WriterEnds
  \/ Receive \/ Closed \/ Tick \/ Reset \/ Forward \/ TickerDue
  \/ Handle \/ StopListening \/ Paint
  \/ Scroll \/ Shutdown \/ Release

Spec == Init /\ [][Next]_vars

\* Tasks and callbacks that are ready run; the ticker ticks; the select of the
\* aggregating task is not biased, so the tick has its turn among messages.  No
\* writer is assumed to end, not even that of a terminal that was shut down: its
\* shell may live on (SshTerminal), or its dial wait for an answer to an MFA prompt.
FairSpec ==
  /\ Spec
  /\ WF_vars(Notify) /\ WF_vars(TakeNotice) /\ WF_vars(Swap) /\ WF_vars(SendWakeup)
  /\ WF_vars(Receive) /\ WF_vars(Closed) /\ WF_vars(Tick)
  /\ WF_vars(Reset) /\ WF_vars(Forward) /\ WF_vars(TickerDue)
  /\ WF_vars(Handle) /\ WF_vars(StopListening) /\ WF_vars(Paint)

-----------------------------------------------------------------------------
WakeupIn(s) == \E i \in DOMAIN s : IsWakeup(s[i])

\* A change of the screen that no frame has painted yet has a render hint
\* somewhere on its way, whichever Wakeups were merged or dropped: in the hands
\* of a task, in one of the channels, or as a notified view (pty_backend.rs:396,
\* terminal.rs:1180, koko_backend.rs:169).
RepaintUnderWay ==
  life = "open" /\ shown < output =>
    \/ writer = "parsed" \/ notices > 0 \/ hint # "none"
    \/ WakeupIn(events) \/ wake # <<>> \/ WakeupIn(render)
    \/ dirty

\* Whoever sends an event before a Wakeup may rely on it: the terminal has
\* handled the event when the Wakeup is handled, and events are handled in
\* order, none is lost (terminal.rs:1391-1397).
EventsBeforeTheirFrame ==
  render # <<>> =>
    IF IsWakeup(Head(render)) THEN Head(render).n <= handled
    ELSE Head(render).n = handled + 1

\* The event loop implements EventFeed: the channels, the two parts of a tick and
\* the flag that merges Wakeups hide nothing from the view, lose nothing while the
\* terminal is open, and are not seen to reorder anything when it closes.
WakeupsIn(s) == {i \in DOMAIN s : IsWakeup(s[i])}
Numbers(s) == {s[i].n : i \in WakeupsIn(s)}

Hints == Numbers(render) \cup Numbers(wake) \cup Numbers(events)
Owed == writer = "parsed" \/ notices > 0 \/ hint # "none"

Feed == INSTANCE EventFeed WITH
  owed <- Owed, hints <- Hints, notified <- dirty,
  behind <- shown # output, closed <- life # "open"

ImplementsEventFeed == Feed!Spec

\* Every change of the screen is painted while the terminal is open.
OutputPainted ==
  \A n \in 1 .. MaxOutput : output >= n ~> shown >= n \/ life # "open"


=============================================================================
