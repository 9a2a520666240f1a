------------------------ MODULE TerminalEventsProofs -----------------------
(***************************************************************************)
(* Proofs about TerminalEvents: its types, that no render hint is lost,    *)
(* that no event is lost and no Wakeup overtakes one, and the refinement   *)
(* of EventFeed. All for any number of outputs and events.                 *)
(*                                                                         *)
(* FlagInv and LoopInv are about the flag that merges Wakeups, OrderInv    *)
(* about the three channels as one stream, and FeedInv, for the            *)
(* refinement, says that the Wakeups carry ascending numbers, none above   *)
(* that of the last event.                                                 *)
(***************************************************************************)
EXTENDS TerminalEvents, TLAPS

\* TypeOK in two halves: the provers treat Boolean variables apart.
DataTypes ==
  /\ kind \in {"local", "ssh", "koko"}
  /\ life \in {"open", "shut", "released"}
  /\ output \in Nat /\ shown \in Nat /\ sent \in Nat /\ handled \in Nat
  /\ writer \in {"reading", "announced", "parsed", "ended"}
  /\ notices \in Nat
  /\ kind = "koko" => notices <= 1
  /\ hint \in {"none", "swap", "send"}
  /\ events \in Seq(Messages)
  /\ batch \in Seq(Messages)
  /\ wake \in Seq(Messages)
  /\ Len(wake) <= 1
  /\ agg \in {"select", "reset", "forward", "ended"}
  /\ render \in Seq(Messages)

BooleanTypes ==
  /\ flag \in BOOLEAN /\ due \in BOOLEAN
  /\ dirty \in BOOLEAN /\ listening \in BOOLEAN

\* A set flag means that a Wakeup is on its way to the next Reset.
FlagInv ==
  flag /\ agg # "ended" =>
    \/ hint = "send"
    \/ WakeupIn(events)
    \/ wake # <<>> /\ agg # "forward"

\* The last two steps of a tick have a Wakeup to pass on, and the loop of an
\* open terminal runs.
LoopInv ==
  /\ agg \in {"reset", "forward"} => wake # <<>>
  /\ wake # <<>> => WakeupIn(wake)
  /\ agg = "ended" \/ ~listening => life # "open"

IInv == TypeOK /\ FlagInv /\ LoopInv /\ RepaintUnderWay

-----------------------------------------------------------------------------
(* Sequences of messages *)

LEMMA TypesSplit ==
  /\ TypeOK <=> DataTypes /\ BooleanTypes
  /\ TypeOK' <=> (DataTypes /\ BooleanTypes)'
  <1>1. TypeOK <=> DataTypes /\ BooleanTypes
    BY Zenon DEF TypeOK, DataTypes, BooleanTypes
  <1>2. TypeOK' <=> (DataTypes /\ BooleanTypes)'
    BY Zenon DEF TypeOK, DataTypes, BooleanTypes
  <1>3. QED
    BY <1>1, <1>2

LEMMA MessageTypes ==
  /\ \A n \in Nat : Wakeup(n) \in Messages /\ IsWakeup(Wakeup(n))
  /\ \A n \in Nat : Event(n) \in Messages /\ ~IsWakeup(Event(n))
  BY DEF Wakeup, Event, Messages, IsWakeup

LEMMA WakeupInAppend ==
  ASSUME NEW s \in Seq(Messages), NEW m \in Messages
  PROVE  /\ Append(s, m) \in Seq(Messages)
         /\ WakeupIn(Append(s, m)) <=> WakeupIn(s) \/ IsWakeup(m)
  <1>1. Append(s, m) \in Seq(Messages) /\ DOMAIN Append(s, m) = DOMAIN s \cup {Len(s) + 1}
    OBVIOUS
  <1>2. \A i \in DOMAIN s : Append(s, m)[i] = s[i]
    OBVIOUS
  <1>3. Append(s, m)[Len(s) + 1] = m
    OBVIOUS
  <1>4. QED
    BY <1>1, <1>2, <1>3 DEF WakeupIn

LEMMA WakeupInTail ==
  ASSUME NEW s \in Seq(Messages), s # <<>>
  PROVE  /\ Head(s) \in Messages
         /\ Tail(s) \in Seq(Messages)
         /\ WakeupIn(s) <=> IsWakeup(Head(s)) \/ WakeupIn(Tail(s))
  <1>1. Head(s) = s[1] /\ Head(s) \in Messages /\ Tail(s) \in Seq(Messages)
    OBVIOUS
  <1>2. DOMAIN s = 1 .. Len(s) /\ DOMAIN Tail(s) = 1 .. Len(s) - 1 /\ Len(s) \in Nat \ {0}
    OBVIOUS
  <1>3. \A i \in DOMAIN Tail(s) : Tail(s)[i] = s[i + 1]
    OBVIOUS
  <1>4. ASSUME WakeupIn(s) PROVE IsWakeup(Head(s)) \/ WakeupIn(Tail(s))
    <2>1. PICK i \in DOMAIN s : IsWakeup(s[i])
      BY <1>4 DEF WakeupIn
    <2>2. CASE i = 1
      BY <2>1, <2>2, <1>1
    <2>3. CASE i # 1
      <3>1. i - 1 \in DOMAIN Tail(s) /\ Tail(s)[i - 1] = s[i]
        BY <2>3, <1>2, <1>3
      <3>2. QED
        BY <2>1, <3>1 DEF WakeupIn
    <2>4. QED
      BY <2>2, <2>3
  <1>5. ASSUME IsWakeup(Head(s)) PROVE WakeupIn(s)
    BY <1>5, <1>1, <1>2 DEF WakeupIn
  <1>6. ASSUME WakeupIn(Tail(s)) PROVE WakeupIn(s)
    <2>1. PICK i \in DOMAIN Tail(s) : IsWakeup(Tail(s)[i])
      BY <1>6 DEF WakeupIn
    <2>2. i + 1 \in DOMAIN s /\ IsWakeup(s[i + 1])
      BY <2>1, <1>2, <1>3
    <2>3. QED
      BY <2>2 DEF WakeupIn
  <1>7. QED
    BY <1>1, <1>4, <1>5, <1>6

LEMMA WakeupInConcat ==
  ASSUME NEW s \in Seq(Messages), NEW t \in Seq(Messages)
  PROVE  /\ s \o t \in Seq(Messages)
         /\ WakeupIn(s) => WakeupIn(s \o t)
         /\ WakeupIn(t) => WakeupIn(s \o t)
  <1>1. s \o t \in Seq(Messages) /\ Len(s) \in Nat /\ Len(t) \in Nat
    OBVIOUS
  <1>2. DOMAIN s = 1 .. Len(s) /\ DOMAIN t = 1 .. Len(t)
        /\ DOMAIN (s \o t) = 1 .. Len(s) + Len(t)
    OBVIOUS
  <1>3. \A i \in DOMAIN s : (s \o t)[i] = s[i]
    OBVIOUS
  <1>4. \A i \in DOMAIN t : (s \o t)[Len(s) + i] = t[i]
    OBVIOUS
  <1>5. ASSUME WakeupIn(s) PROVE WakeupIn(s \o t)
    <2>1. PICK i \in DOMAIN s : IsWakeup(s[i])
      BY <1>5 DEF WakeupIn
    <2>2. i \in DOMAIN (s \o t) /\ IsWakeup((s \o t)[i])
      BY <2>1, <1>1, <1>2, <1>3
    <2>3. QED
      BY <2>2 DEF WakeupIn
  <1>6. ASSUME WakeupIn(t) PROVE WakeupIn(s \o t)
    <2>1. PICK i \in DOMAIN t : IsWakeup(t[i])
      BY <1>6 DEF WakeupIn
    <2>2. Len(s) + i \in DOMAIN (s \o t) /\ IsWakeup((s \o t)[Len(s) + i])
      BY <2>1, <1>1, <1>2, <1>4
    <2>3. QED
      BY <2>2 DEF WakeupIn
  <1>7. QED
    BY <1>1, <1>5, <1>6

\* What Send does to the channel while the aggregating task runs.
LEMMA SendEffect ==
  ASSUME TypeOK, NEW m \in Messages, Send(m)
  PROVE  /\ events' \in Seq(Messages)
         /\ agg # "ended" =>
              (WakeupIn(events') <=> WakeupIn(events) \/ IsWakeup(m))
  BY WakeupInAppend DEF Send, TypeOK

LEMMA EmptySequence == <<>> \in Seq(Messages)
  OBVIOUS

LEMMA WakeupInOne ==
  ASSUME NEW m \in Messages, IsWakeup(m)
  PROVE  WakeupIn(<<m>>)
  <1>1. 1 \in DOMAIN <<m>> /\ <<m>>[1] = m
    OBVIOUS
  <1>2. QED
    BY <1>1 DEF WakeupIn

-----------------------------------------------------------------------------
(* The steps *)

LEMMA TypesStep ==
  ASSUME TypeOK, [Next]_vars
  PROVE  TypeOK'
  <1> USE EventsAssumption
  <1>1. CASE Parse
    BY <1>1, MessageTypes, SendEffect
       DEF Parse, Announce, Change, TypeOK, screen, source, loop
  <1>2. CASE SendOsc
    BY <1>2, MessageTypes, SendEffect
       DEF SendOsc, Announce, TypeOK, screen, source, loop
  <1>3. CASE Advance
    BY <1>3
       DEF Advance, Change, TypeOK, screen, source, loop
  <1>4. CASE Notify
    BY <1>4
       DEF Notify, NotifyOf, TypeOK, screen, source, loop
  <1>5. CASE TakeNotice
    BY <1>5
       DEF TakeNotice, TypeOK, screen, source, loop
  <1>6. CASE Swap
    BY <1>6
       DEF Swap, TypeOK, screen, source, loop
  <1>7. CASE SendWakeup
    BY <1>7, MessageTypes, SendEffect
       DEF SendWakeup, TypeOK, screen, source, loop
  <1>8. CASE WriterEnds
    BY <1>8
       DEF WriterEnds, TypeOK, screen, source, loop
  <1>9. CASE Receive
    BY <1>9, WakeupInTail, WakeupInAppend
       DEF Receive, TypeOK, screen, source, loop
  <1>10. CASE Closed
    BY <1>10
       DEF Closed, NoSender, TypeOK, screen, source, loop
  <1>11. CASE Tick
    <2>1. /\ render' \in {render, render \o batch}
          /\ batch' \in {<<>>, batch}
          /\ events' \in {<<>>, events}
      BY <1>11 DEF Tick, Flush
    <2>2. /\ render' \in Seq(Messages)
          /\ batch' \in Seq(Messages)
          /\ events' \in Seq(Messages)
      <3>1. render' \in Seq(Messages)
        BY <2>1, WakeupInConcat DEF TypeOK
      <3>2. batch' \in Seq(Messages)
        BY <2>1, EmptySequence, Zenon DEF TypeOK
      <3>3. events' \in Seq(Messages)
        BY <2>1, EmptySequence, Zenon DEF TypeOK
      <3>4. QED
        BY <3>1, <3>2, <3>3
    <2>3. agg' \in {"select", "reset", "ended"}
      BY <1>11 DEF Tick
    <2>4. UNCHANGED <<kind, life, output, shown, dirty, sent, handled, writer,
                      notices, hint, flag, wake, listening>>
      BY <1>11 DEF Tick, screen, source, loop
    <2>5. due' = FALSE
      BY <1>11 DEF Tick
    <2>6. DataTypes'
      BY <2>2, <2>3, <2>4, TypesSplit DEF DataTypes
    <2>7. BooleanTypes'
      BY <2>4, <2>5 DEF TypeOK, BooleanTypes
    <2>8. QED
      BY <2>6, <2>7, TypesSplit
  <1>12. CASE Reset
    BY <1>12
       DEF Reset, Cleared, TypeOK, screen, source, loop
  <1>13. CASE Forward
    <2>1. /\ render' \in {render, render \o wake}
          /\ events' \in {<<>>, events}
      BY <1>13 DEF Forward
    <2>2. /\ render' \in Seq(Messages)
          /\ events' \in Seq(Messages)
      <3>1. render' \in Seq(Messages)
        BY <2>1, WakeupInConcat DEF TypeOK
      <3>2. events' \in Seq(Messages)
        BY <2>1, EmptySequence, Zenon DEF TypeOK
      <3>3. QED
        BY <3>1, <3>2
    <2>3. wake' \in Seq(Messages) /\ Len(wake') <= 1
      BY <1>13 DEF Forward
    <2>4. agg' \in {"select", "ended"}
      BY <1>13 DEF Forward
    <2>5. UNCHANGED <<kind, life, output, shown, dirty, sent, handled, writer,
                      notices, hint, flag, batch, due, listening>>
      BY <1>13 DEF Forward, screen, source, loop
    <2>6. DataTypes'
      BY <2>2, <2>3, <2>4, <2>5, TypesSplit DEF DataTypes
    <2>7. BooleanTypes'
      BY <2>5 DEF TypeOK, BooleanTypes
    <2>8. QED
      BY <2>6, <2>7, TypesSplit
  <1>14. CASE TickerDue
    BY <1>14
       DEF TickerDue, TypeOK, screen, source, loop
  <1>15. CASE Handle
    <2>1. render # <<>> /\ render' = Tail(render)
      BY <1>15 DEF Handle
    <2>2. handled' \in {handled, Head(render).n} /\ dirty' \in {dirty, TRUE}
      BY <1>15 DEF Handle
    <2>3. UNCHANGED <<kind, life, output, shown, sent, writer, notices, hint, flag,
              events, batch, wake, due, agg, listening>>
      BY <1>15 DEF Handle, screen, source, loop
    <2>4. render' \in Seq(Messages) /\ Head(render).n \in Nat
      BY <2>1, WakeupInTail DEF TypeOK, Messages
    <2>5. DataTypes'
      BY <2>2, <2>3, <2>4 DEF TypeOK, DataTypes
    <2>6. BooleanTypes'
      BY <2>2, <2>3, <2>4 DEF TypeOK, BooleanTypes
    <2>7. QED
      BY <2>5, <2>6, TypesSplit
  <1>16. CASE StopListening
    <2>1. listening' = FALSE /\ render' = <<>>
      BY <1>16 DEF StopListening
    <2>2. UNCHANGED <<kind, life, output, shown, dirty, sent, handled, writer,
              notices, hint, flag, events, batch, wake, due, agg>>
      BY <1>16 DEF StopListening, screen, source, loop
    <2>3. DataTypes'
      BY <2>1, <2>2 DEF TypeOK, DataTypes
    <2>4. BooleanTypes'
      BY <2>1, <2>2 DEF TypeOK, BooleanTypes
    <2>5. QED
      BY <2>3, <2>4, TypesSplit
  <1>17. CASE Paint
    <2>1. shown' = output /\ dirty' = FALSE
      BY <1>17 DEF Paint
    <2>2. UNCHANGED <<kind, life, output, sent, handled, writer, notices, hint,
              flag, events, batch, wake, due, agg, render, listening>>
      BY <1>17 DEF Paint, screen, source, loop
    <2>3. DataTypes'
      BY <2>1, <2>2 DEF TypeOK, DataTypes
    <2>4. BooleanTypes'
      BY <2>1, <2>2 DEF TypeOK, BooleanTypes
    <2>5. QED
      BY <2>3, <2>4, TypesSplit
  <1>18. CASE Scroll
    BY <1>18
       DEF Scroll, Change, TypeOK, screen, source, loop
  <1>19. CASE Shutdown
    BY <1>19
       DEF Shutdown, TypeOK, screen, source, loop
  <1>20. CASE Release
    BY <1>20
       DEF Release, TypeOK, screen, source, loop
  <1>21. CASE UNCHANGED vars
    BY <1>21 DEF vars, TypeOK, screen, source, loop
  <1>23. QED
    BY <1>1, <1>2, <1>3, <1>4, <1>5, <1>6, <1>7, <1>8, <1>9, <1>10, <1>11, <1>12,
       <1>13, <1>14, <1>15, <1>16, <1>17, <1>18, <1>19, <1>20, <1>21
       DEF Next

LEMMA LoopStep ==
  ASSUME TypeOK, LoopInv, [Next]_vars
  PROVE  LoopInv'
  <1> USE EventsAssumption
  <1>1. CASE Parse
    BY <1>1
       DEF Parse, Announce, Change, LoopInv, TypeOK, screen, source, loop
  <1>2. CASE SendOsc
    BY <1>2
       DEF SendOsc, Announce, LoopInv, TypeOK, screen, source, loop
  <1>3. CASE Advance
    BY <1>3
       DEF Advance, Change, LoopInv, TypeOK, screen, source, loop
  <1>4. CASE Notify
    BY <1>4
       DEF Notify, NotifyOf, LoopInv, TypeOK, screen, source, loop
  <1>5. CASE TakeNotice
    BY <1>5
       DEF TakeNotice, LoopInv, TypeOK, screen, source, loop
  <1>6. CASE Swap
    BY <1>6
       DEF Swap, LoopInv, TypeOK, screen, source, loop
  <1>7. CASE SendWakeup
    BY <1>7
       DEF SendWakeup, LoopInv, TypeOK, screen, source, loop
  <1>8. CASE WriterEnds
    BY <1>8
       DEF WriterEnds, LoopInv, TypeOK, screen, source, loop
  <1>9. CASE Receive
    BY <1>9, WakeupInTail, WakeupInOne
       DEF Receive, LoopInv, TypeOK, screen, source, loop
  <1>10. CASE Closed
    BY <1>10
       DEF Closed, NoSender, LoopInv, TypeOK, screen, source, loop
  <1>11. CASE Tick
    BY <1>11
       DEF Tick, Flush, LoopInv, TypeOK, screen, source, loop
  <1>12. CASE Reset
    BY <1>12
       DEF Reset, Cleared, LoopInv, TypeOK, screen, source, loop
  <1>13. CASE Forward
    BY <1>13
       DEF Forward, LoopInv, TypeOK, screen, source, loop
  <1>14. CASE TickerDue
    BY <1>14
       DEF TickerDue, LoopInv, TypeOK, screen, source, loop
  <1>15. CASE Handle
    BY <1>15
       DEF Handle, LoopInv, TypeOK, screen, source, loop
  <1>16. CASE StopListening
    BY <1>16
       DEF StopListening, LoopInv, TypeOK, screen, source, loop
  <1>17. CASE Paint
    BY <1>17
       DEF Paint, LoopInv, TypeOK, screen, source, loop
  <1>18. CASE Scroll
    BY <1>18
       DEF Scroll, Change, LoopInv, TypeOK, screen, source, loop
  <1>19. CASE Shutdown
    BY <1>19
       DEF Shutdown, LoopInv, TypeOK, screen, source, loop
  <1>20. CASE Release
    BY <1>20
       DEF Release, LoopInv, TypeOK, screen, source, loop
  <1>21. CASE UNCHANGED vars
    BY <1>21 DEF vars, LoopInv, TypeOK, screen, source, loop
  <1>23. QED
    BY <1>1, <1>2, <1>3, <1>4, <1>5, <1>6, <1>7, <1>8, <1>9, <1>10, <1>11, <1>12,
       <1>13, <1>14, <1>15, <1>16, <1>17, <1>18, <1>19, <1>20, <1>21
       DEF Next

LEMMA FlagStep ==
  ASSUME TypeOK, LoopInv, FlagInv, [Next]_vars
  PROVE  FlagInv'
  <1> USE EventsAssumption
  <1>1. CASE Parse
    BY <1>1, MessageTypes, SendEffect
       DEF Parse, Announce, Change, FlagInv, LoopInv, TypeOK, screen, source, loop
  <1>2. CASE SendOsc
    BY <1>2, MessageTypes, SendEffect
       DEF SendOsc, Announce, FlagInv, LoopInv, TypeOK, screen, source, loop
  <1>3. CASE Advance
    BY <1>3
       DEF Advance, Change, FlagInv, LoopInv, TypeOK, screen, source, loop
  <1>4. CASE Notify
    BY <1>4
       DEF Notify, NotifyOf, FlagInv, LoopInv, TypeOK, screen, source, loop
  <1>5. CASE TakeNotice
    BY <1>5
       DEF TakeNotice, FlagInv, LoopInv, TypeOK, screen, source, loop
  <1>6. CASE Swap
    BY <1>6
       DEF Swap, FlagInv, LoopInv, TypeOK, screen, source, loop
  <1>7. CASE SendWakeup
    BY <1>7, MessageTypes, SendEffect
       DEF SendWakeup, FlagInv, LoopInv, TypeOK, screen, source, loop
  <1>8. CASE WriterEnds
    BY <1>8
       DEF WriterEnds, FlagInv, LoopInv, TypeOK, screen, source, loop
  <1>9. CASE Receive
    BY <1>9, WakeupInTail
       DEF Receive, FlagInv, LoopInv, TypeOK, screen, source, loop
  <1>10. CASE Closed
    BY <1>10
       DEF Closed, NoSender, FlagInv, LoopInv, TypeOK, screen, source, loop
  <1>11. CASE Tick
    BY <1>11
       DEF Tick, Flush, FlagInv, LoopInv, TypeOK, screen, source, loop
  <1>12. CASE Reset
    BY <1>12
       DEF Reset, Cleared, FlagInv, LoopInv, TypeOK, screen, source, loop
  <1>13. CASE Forward
    BY <1>13
       DEF Forward, FlagInv, LoopInv, TypeOK, screen, source, loop
  <1>14. CASE TickerDue
    BY <1>14
       DEF TickerDue, FlagInv, LoopInv, TypeOK, screen, source, loop
  <1>15. CASE Handle
    BY <1>15
       DEF Handle, FlagInv, LoopInv, TypeOK, screen, source, loop
  <1>16. CASE StopListening
    BY <1>16
       DEF StopListening, FlagInv, LoopInv, TypeOK, screen, source, loop
  <1>17. CASE Paint
    BY <1>17
       DEF Paint, FlagInv, LoopInv, TypeOK, screen, source, loop
  <1>18. CASE Scroll
    BY <1>18
       DEF Scroll, Change, FlagInv, LoopInv, TypeOK, screen, source, loop
  <1>19. CASE Shutdown
    BY <1>19
       DEF Shutdown, FlagInv, LoopInv, TypeOK, screen, source, loop
  <1>20. CASE Release
    BY <1>20
       DEF Release, FlagInv, LoopInv, TypeOK, screen, source, loop
  <1>21. CASE UNCHANGED vars
    BY <1>21 DEF vars, FlagInv, LoopInv, TypeOK, screen, source, loop
  <1>23. QED
    BY <1>1, <1>2, <1>3, <1>4, <1>5, <1>6, <1>7, <1>8, <1>9, <1>10, <1>11, <1>12,
       <1>13, <1>14, <1>15, <1>16, <1>17, <1>18, <1>19, <1>20, <1>21
       DEF Next

LEMMA RepaintStep ==
  ASSUME TypeOK, LoopInv, FlagInv, RepaintUnderWay, [Next]_vars
  PROVE  RepaintUnderWay'
  <1> USE EventsAssumption
  <1>1. CASE Parse
    BY <1>1, MessageTypes, SendEffect
       DEF Parse, Announce, Change, RepaintUnderWay, FlagInv, LoopInv, TypeOK, screen, source, loop
  <1>2. CASE SendOsc
    BY <1>2, MessageTypes, SendEffect
       DEF SendOsc, Announce, RepaintUnderWay, FlagInv, LoopInv, TypeOK, screen, source, loop
  <1>3. CASE Advance
    BY <1>3
       DEF Advance, Change, RepaintUnderWay, FlagInv, LoopInv, TypeOK, screen, source, loop
  <1>4. CASE Notify
    BY <1>4
       DEF Notify, NotifyOf, RepaintUnderWay, FlagInv, LoopInv, TypeOK, screen, source, loop
  <1>5. CASE TakeNotice
    BY <1>5
       DEF TakeNotice, RepaintUnderWay, FlagInv, LoopInv, TypeOK, screen, source, loop
  <1>6. CASE Swap
    BY <1>6
       DEF Swap, RepaintUnderWay, FlagInv, LoopInv, TypeOK, screen, source, loop
  <1>7. CASE SendWakeup
    BY <1>7, MessageTypes, SendEffect
       DEF SendWakeup, RepaintUnderWay, FlagInv, LoopInv, TypeOK, screen, source, loop
  <1>8. CASE WriterEnds
    BY <1>8
       DEF WriterEnds, RepaintUnderWay, FlagInv, LoopInv, TypeOK, screen, source, loop
  <1>9. CASE Receive
    BY <1>9, WakeupInTail
       DEF Receive, RepaintUnderWay, FlagInv, LoopInv, TypeOK, screen, source, loop
  <1>10. CASE Closed
    BY <1>10
       DEF Closed, NoSender, RepaintUnderWay, FlagInv, LoopInv, TypeOK, screen, source, loop
  <1>11. CASE Tick
    BY <1>11, WakeupInConcat
       DEF Tick, Flush, RepaintUnderWay, FlagInv, LoopInv, TypeOK, screen, source, loop
  <1>12. CASE Reset
    BY <1>12
       DEF Reset, Cleared, RepaintUnderWay, FlagInv, LoopInv, TypeOK, screen, source, loop
  <1>13. CASE Forward
    BY <1>13, WakeupInConcat
       DEF Forward, RepaintUnderWay, FlagInv, LoopInv, TypeOK, screen, source, loop
  <1>14. CASE TickerDue
    BY <1>14
       DEF TickerDue, RepaintUnderWay, FlagInv, LoopInv, TypeOK, screen, source, loop
  <1>15. CASE Handle
    BY <1>15, WakeupInTail
       DEF Handle, RepaintUnderWay, FlagInv, LoopInv, TypeOK, screen, source, loop
  <1>16. CASE StopListening
    BY <1>16
       DEF StopListening, RepaintUnderWay, FlagInv, LoopInv, TypeOK, screen, source, loop
  <1>17. CASE Paint
    BY <1>17
       DEF Paint, RepaintUnderWay, FlagInv, LoopInv, TypeOK, screen, source, loop
  <1>18. CASE Scroll
    BY <1>18
       DEF Scroll, Change, RepaintUnderWay, FlagInv, LoopInv, TypeOK, screen, source, loop
  <1>19. CASE Shutdown
    BY <1>19
       DEF Shutdown, RepaintUnderWay, FlagInv, LoopInv, TypeOK, screen, source, loop
  <1>20. CASE Release
    BY <1>20
       DEF Release, RepaintUnderWay, FlagInv, LoopInv, TypeOK, screen, source, loop
  <1>21. CASE UNCHANGED vars
    BY <1>21 DEF vars, RepaintUnderWay, FlagInv, LoopInv, TypeOK, screen, source, loop
  <1>23. QED
    BY <1>1, <1>2, <1>3, <1>4, <1>5, <1>6, <1>7, <1>8, <1>9, <1>10, <1>11, <1>12,
       <1>13, <1>14, <1>15, <1>16, <1>17, <1>18, <1>19, <1>20, <1>21
       DEF Next

-----------------------------------------------------------------------------
(* The theorems *)

LEMMA InitInv == Init => IInv
  <1> SUFFICES ASSUME Init PROVE IInv
    OBVIOUS
  <1>1. TypeOK
    <2>1. DataTypes
      BY DEF Init, DataTypes
    <2>2. BooleanTypes
      BY DEF Init, BooleanTypes
    <2>3. QED
      BY <2>1, <2>2, TypesSplit
  <1>2. FlagInv
    BY DEF Init, FlagInv
  <1>3. LoopInv
    BY DEF Init, LoopInv
  <1>4. RepaintUnderWay
    BY DEF Init, RepaintUnderWay
  <1>5. QED
    BY <1>1, <1>2, <1>3, <1>4 DEF IInv

LEMMA StepInv == IInv /\ [Next]_vars => IInv'
  BY TypesStep, LoopStep, FlagStep, RepaintStep DEF IInv

\* The inductive invariant holds in every reachable state.
THEOREM EventsInvariant == Spec => []IInv
  BY InitInv, StepInv, PTL DEF Spec

\* Type correctness; Koko's channel of notices never holds more than one.
THEOREM EventsTypes == Spec => []TypeOK
  <1>1. IInv => TypeOK
    BY DEF IInv
  <1>2. QED
    BY <1>1, EventsInvariant, PTL

\* No render hint is lost (pty_backend.rs:396): whatever was merged, a change
\* that is not painted yet has one on its way.
THEOREM NoRepaintLost == Spec => []RepaintUnderWay
  <1>1. IInv => RepaintUnderWay
    BY DEF IInv
  <1>2. QED
    BY <1>1, EventsInvariant, PTL

-----------------------------------------------------------------------------
(* The order of events and Wakeups.  Carries(s, lo, hi): who reads s after  *)
(* event lo finds the events lo + 1 to hi in order, and every Wakeup only   *)
(* after the event it was sent after; f[i] is the last event up to place i. *)

Levels(f, s) ==
  \A i \in 1 .. Len(s) :
    IF IsWakeup(s[i]) THEN f[i] = f[i - 1] /\ s[i].n <= f[i]
    ELSE f[i] = f[i - 1] + 1 /\ s[i].n = f[i]

Carries(s, lo, hi) ==
  \E f \in [0 .. Len(s) -> Nat] : f[0] = lo /\ f[Len(s)] = hi /\ Levels(f, s)

\* render_rx, pending_events and event_rx carry, one after the other, all the
\* events between the last one handled and the last one sent; the pending
\* Wakeup belongs behind pending_events.
OrderInv ==
  /\ agg \in {"reset", "forward"} => batch = <<>>
  /\ ~listening => render = <<>>
  /\ listening =>
       \E r, b \in Nat :
         /\ Carries(render, handled, r)
         /\ Carries(batch, r, b)
         /\ wake # <<>> => wake[1].n <= b
         /\ agg # "ended" => Carries(events, b, sent)

LEMMA CarriesEmpty ==
  ASSUME NEW lo \in Nat
  PROVE  Carries(<<>>, lo, lo)
  <1> DEFINE f == [i \in 0 .. 0 |-> lo]
  <1>1. f \in [0 .. Len(<<>>) -> Nat] /\ f[0] = lo /\ f[Len(<<>>)] = lo
    OBVIOUS
  <1>2. Levels(f, <<>>)
    BY DEF Levels
  <1>3. QED
    BY <1>1, <1>2 DEF Carries

LEMMA CarriesAppend ==
  ASSUME NEW s \in Seq(Messages), NEW lo \in Nat, NEW hi \in Nat, NEW m \in Messages,
         NEW end \in Nat, Carries(s, lo, hi),
         IF IsWakeup(m) THEN end = hi /\ m.n <= hi ELSE end = hi + 1 /\ m.n = end
  PROVE  Carries(Append(s, m), lo, end)
  <1> DEFINE t == Append(s, m)
             k == Len(s)
  <1>1. /\ k \in Nat /\ Len(t) = k + 1
        /\ \A i \in 1 .. k : t[i] = s[i]
        /\ t[k + 1] = m
    OBVIOUS
  <1>2. PICK f \in [0 .. k -> Nat] : f[0] = lo /\ f[k] = hi /\ Levels(f, s)
    BY DEF Carries
  <1> DEFINE g == [i \in 0 .. (k + 1) |-> IF i = k + 1 THEN end ELSE f[i]]
  <1> HIDE DEF t, k
  <1>3. /\ g \in [0 .. Len(t) -> Nat] /\ g[0] = lo /\ g[Len(t)] = end
        /\ \A i \in 0 .. k : g[i] = f[i]
    BY <1>1, <1>2
  <1>4. ASSUME NEW i \in 1 .. Len(t)
        PROVE  IF IsWakeup(t[i]) THEN g[i] = g[i - 1] /\ t[i].n <= g[i]
               ELSE g[i] = g[i - 1] + 1 /\ t[i].n = g[i]
    <2>1. CASE i = k + 1
      <3>1. g[i] = end /\ g[i - 1] = hi /\ t[i] = m
        BY <1>1, <1>2, <1>3, <2>1
      <3>2. QED
        BY <3>1
    <2>2. CASE i # k + 1
      <3>1. i \in 1 .. k /\ i - 1 \in 0 .. k /\ i \in 0 .. k
        BY <1>1, <2>2
      <3>2. g[i] = f[i] /\ g[i - 1] = f[i - 1] /\ t[i] = s[i]
        BY <1>1, <1>3, <3>1
      <3>3. QED
        BY <1>2, <3>1, <3>2 DEF Levels, k
    <2>3. QED
      BY <2>1, <2>2
  <1>5. Levels(g, t)
    BY <1>4 DEF Levels
  <1>6. QED
    BY <1>3, <1>5 DEF Carries, t

LEMMA CarriesTail ==
  ASSUME NEW s \in Seq(Messages), NEW lo \in Nat, NEW hi \in Nat,
         Carries(s, lo, hi), s # <<>>
  PROVE  IF IsWakeup(Head(s))
         THEN Head(s).n <= lo /\ Carries(Tail(s), lo, hi)
         ELSE Head(s).n = lo + 1 /\ Carries(Tail(s), lo + 1, hi)
  <1> DEFINE t == Tail(s)
             k == Len(s)
  <1>1. /\ k \in Nat \ {0} /\ Len(t) = k - 1
        /\ \A i \in 1 .. (k - 1) : t[i] = s[i + 1]
        /\ Head(s) = s[1]
    OBVIOUS
  <1>2. PICK f \in [0 .. k -> Nat] : f[0] = lo /\ f[k] = hi /\ Levels(f, s)
    BY DEF Carries
  <1> DEFINE g == [i \in 0 .. (k - 1) |-> f[i + 1]]
  <1>3. IF IsWakeup(s[1]) THEN f[1] = lo /\ s[1].n <= lo
        ELSE f[1] = lo + 1 /\ s[1].n = lo + 1
    <2>1. 1 \in 1 .. k /\ 1 - 1 = 0
      BY <1>1
    <2>2. QED
      BY <1>2, <2>1 DEF Levels
  <1> HIDE DEF t, k
  <1>4. /\ g \in [0 .. Len(t) -> Nat] /\ g[0] = f[1] /\ g[Len(t)] = hi
        /\ \A i \in 0 .. (k - 1) : g[i] = f[i + 1]
    BY <1>1, <1>2
  <1>5. ASSUME NEW i \in 1 .. Len(t)
        PROVE  IF IsWakeup(t[i]) THEN g[i] = g[i - 1] /\ t[i].n <= g[i]
               ELSE g[i] = g[i - 1] + 1 /\ t[i].n = g[i]
    <2>1. i + 1 \in 1 .. k /\ i \in 0 .. (k - 1) /\ i - 1 \in 0 .. (k - 1)
          /\ (i + 1) - 1 = i /\ (i - 1) + 1 = i /\ i \in 1 .. (k - 1)
      BY <1>1
    <2>2. g[i] = f[i + 1] /\ g[i - 1] = f[i] /\ t[i] = s[i + 1]
      BY <1>1, <1>4, <2>1
    <2>3. QED
      BY <1>2, <2>1, <2>2 DEF Levels, k
  <1>6. Levels(g, t)
    BY <1>5 DEF Levels
  <1>7. Carries(t, f[1], hi)
    BY <1>4, <1>6 DEF Carries
  <1>8. QED
    BY <1>1, <1>3, <1>7 DEF t

LEMMA CarriesConcat ==
  ASSUME NEW s \in Seq(Messages), NEW t \in Seq(Messages),
         NEW lo \in Nat, NEW mid \in Nat, NEW hi \in Nat,
         Carries(s, lo, mid), Carries(t, mid, hi)
  PROVE  Carries(s \o t, lo, hi)
  <1> DEFINE u == s \o t
             k == Len(s)
             l == Len(t)
  <1>1. /\ k \in Nat /\ l \in Nat /\ Len(u) = k + l
        /\ \A i \in 1 .. k : u[i] = s[i]
        /\ \A i \in 1 .. l : u[k + i] = t[i]
    OBVIOUS
  <1>2. PICK f \in [0 .. k -> Nat] : f[0] = lo /\ f[k] = mid /\ Levels(f, s)
    BY DEF Carries
  <1>3. PICK g \in [0 .. l -> Nat] : g[0] = mid /\ g[l] = hi /\ Levels(g, t)
    BY DEF Carries
  <1> DEFINE h == [i \in 0 .. (k + l) |-> IF i <= k THEN f[i] ELSE g[i - k]]
  <1> HIDE DEF u, k, l
  <1>4. \A i \in 0 .. k : h[i] = f[i]
    BY <1>1
  <1>5. \A i \in 0 .. l : h[k + i] = g[i]
    <2>1. SUFFICES ASSUME NEW i \in 0 .. l PROVE h[k + i] = g[i]
      OBVIOUS
    <2>2. k + i \in 0 .. (k + l) /\ (k + i) - k = i
      BY <1>1
    <2>3. CASE i = 0
      BY <1>1, <1>2, <1>3, <2>2, <2>3
    <2>4. CASE i # 0
      BY <1>1, <2>2, <2>4
    <2>5. QED
      BY <2>3, <2>4
  <1>6. /\ h \in [0 .. Len(u) -> Nat] /\ h[0] = lo /\ h[Len(u)] = hi
    <2>1. \A i \in 0 .. (k + l) : i > k => i - k \in 0 .. l
      BY <1>1
    <2>2. h \in [0 .. (k + l) -> Nat]
      BY <1>1, <1>2, <1>3, <2>1
    <2>3. h[0] = lo /\ h[k + l] = hi
      BY <1>1, <1>2, <1>3, <1>4, <1>5
    <2>4. QED
      BY <1>1, <2>2, <2>3
  <1>7. ASSUME NEW i \in 1 .. Len(u)
        PROVE  IF IsWakeup(u[i]) THEN h[i] = h[i - 1] /\ u[i].n <= h[i]
               ELSE h[i] = h[i - 1] + 1 /\ u[i].n = h[i]
    <2>1. CASE i <= k
      <3>1. i \in 1 .. k /\ i \in 0 .. k /\ i - 1 \in 0 .. k
        BY <1>1, <2>1
      <3>2. h[i] = f[i] /\ h[i - 1] = f[i - 1] /\ u[i] = s[i]
        BY <1>1, <1>4, <3>1
      <3>3. QED
        BY <1>2, <3>1, <3>2 DEF Levels, k
    <2>2. CASE i > k
      <3>1. PICK j \in 1 .. l : i = k + j
        <4>1. i - k \in 1 .. l /\ i = k + (i - k)
          BY <1>1, <2>2
        <4>2. QED
          BY <4>1
      <3>2. j \in 0 .. l /\ j - 1 \in 0 .. l /\ k + (j - 1) = i - 1
        BY <1>1, <3>1
      <3>3. h[i] = g[j] /\ h[i - 1] = g[j - 1] /\ u[i] = t[j]
        BY <1>1, <1>5, <3>1, <3>2
      <3>4. QED
        BY <1>3, <3>1, <3>3 DEF Levels, l
    <2>3. QED
      BY <1>1, <2>1, <2>2
  <1>8. Levels(h, u)
    BY <1>7 DEF Levels
  <1>9. QED
    BY <1>6, <1>8 DEF Carries, u

\* A sender adds an event that it counts, or a Wakeup for those sent so far.
LEMMA SendKeepsOrder ==
  ASSUME TypeOK, OrderInv, NEW m \in Messages, Send(m),
         UNCHANGED <<handled, batch, wake, agg, render, listening>>,
         \/ m = Event(sent + 1) /\ sent' = sent + 1
         \/ m = Wakeup(sent) /\ sent' = sent
  PROVE  OrderInv'
  <1>1. SUFFICES ASSUME listening
                 PROVE  \E r, b \in Nat :
                          /\ Carries(render, handled, r)
                          /\ Carries(batch, r, b)
                          /\ wake # <<>> => wake[1].n <= b
                          /\ agg # "ended" => Carries(events', b, sent')
    BY DEF OrderInv
  <1>2. PICK r, b \in Nat :
          /\ Carries(render, handled, r)
          /\ Carries(batch, r, b)
          /\ wake # <<>> => wake[1].n <= b
          /\ agg # "ended" => Carries(events, b, sent)
    BY <1>1 DEF OrderInv
  <1>3. ASSUME agg # "ended" PROVE Carries(events', b, sent')
    <2>1. events' = Append(events, m) /\ events \in Seq(Messages)
          /\ sent \in Nat /\ sent' \in Nat
      BY <1>3 DEF Send, TypeOK
    <2>2. IF IsWakeup(m) THEN sent' = sent /\ m.n <= sent ELSE sent' = sent + 1 /\ m.n = sent'
      BY <2>1 DEF IsWakeup, Event, Wakeup
    <2>3. QED
      BY <1>2, <1>3, <2>1, <2>2, CarriesAppend
  <1>4. QED
    BY <1>2, <1>3

LEMMA ReceiveOrder ==
  ASSUME TypeOK, OrderInv, Receive
  PROVE  OrderInv'
  <1>1. /\ agg = "select" /\ events # <<>> /\ events' = Tail(events)
        /\ UNCHANGED <<sent, handled, agg, render, listening>>
    BY DEF Receive
  <1>2. SUFFICES ASSUME listening
                 PROVE  \E r, b \in Nat :
                          /\ Carries(render, handled, r)
                          /\ Carries(batch', r, b)
                          /\ wake' # <<>> => wake'[1].n <= b
                          /\ Carries(events', b, sent)
    BY <1>1 DEF OrderInv
  <1>3. PICK r, b \in Nat :
          /\ Carries(render, handled, r)
          /\ Carries(batch, r, b)
          /\ wake # <<>> => wake[1].n <= b
          /\ Carries(events, b, sent)
    BY <1>1, <1>2 DEF OrderInv
  <1> DEFINE m == Head(events)
  <1>4. m \in Messages /\ events \in Seq(Messages) /\ batch \in Seq(Messages) /\ sent \in Nat
    BY <1>1, WakeupInTail DEF TypeOK
  <1>5. CASE IsWakeup(m)
    <2>1. wake' = <<m>> /\ batch' = batch
      BY <1>5 DEF Receive
    <2>2. m.n <= b /\ Carries(events', b, sent)
      BY <1>1, <1>3, <1>4, <1>5, CarriesTail
    <2>3. wake'[1] = m
      BY <2>1
    <2>4. QED
      BY <1>3, <2>1, <2>2, <2>3
  <1>6. CASE ~IsWakeup(m)
    <2>1. wake' = wake /\ batch' = Append(batch, m)
      BY <1>6 DEF Receive
    <2>2. m.n = b + 1 /\ Carries(events', b + 1, sent)
      BY <1>1, <1>3, <1>4, <1>6, CarriesTail
    <2>3. Carries(batch', r, b + 1)
      BY <1>3, <1>4, <1>6, <2>1, <2>2, CarriesAppend
    <2>4. wake' # <<>> => wake'[1].n <= b + 1
      <3>1. ASSUME wake # <<>> PROVE wake[1].n \in Nat
        <4>1. wake[1] \in Messages
          BY <3>1 DEF TypeOK
        <4>2. QED
          BY <4>1 DEF Messages
      <3>2. QED
        BY <1>3, <2>1, <3>1
    <2>5. b + 1 \in Nat
      OBVIOUS
    <2>6. QED
      BY <1>3, <2>2, <2>3, <2>4, <2>5
  <1>7. QED
    BY <1>5, <1>6

LEMMA TickOrder ==
  ASSUME TypeOK, OrderInv, Tick
  PROVE  OrderInv'
  <1>1. agg = "select" /\ UNCHANGED <<sent, handled, wake, listening>>
        /\ render \in Seq(Messages) /\ batch \in Seq(Messages) /\ handled \in Nat
    BY DEF Tick, TypeOK
  <1>2. CASE ~(listening \/ batch = <<>>)
    <2>1. agg' = "ended" /\ render' = render
      BY <1>2 DEF Tick
    <2>2. QED
      BY <1>1, <1>2, <2>1 DEF OrderInv
  <1>3. CASE listening \/ batch = <<>>
    <2>1. batch' = <<>> /\ render' = render \o batch /\ agg' \in {"select", "reset"}
          /\ events' = events
      BY <1>3 DEF Tick, Flush
    <2>2. CASE ~listening
      <3>1. render = <<>> /\ batch = <<>>
        BY <1>3, <2>2 DEF OrderInv
      <3>2. render' = <<>>
        BY <2>1, <3>1
      <3>3. QED
        BY <1>1, <2>1, <2>2, <3>2 DEF OrderInv
    <2>3. CASE listening
      <3>1. PICK r, b \in Nat :
              /\ Carries(render, handled, r)
              /\ Carries(batch, r, b)
              /\ wake # <<>> => wake[1].n <= b
              /\ Carries(events, b, sent)
        BY <1>1, <2>3 DEF OrderInv
      <3>2. Carries(render', handled, b)
        BY <1>1, <2>1, <3>1, CarriesConcat
      <3>3. Carries(batch', b, b)
        BY <2>1, CarriesEmpty
      <3>4. QED
        BY <1>1, <2>1, <2>3, <3>1, <3>2, <3>3 DEF OrderInv
    <2>4. QED
      BY <2>2, <2>3
  <1>4. QED
    BY <1>2, <1>3

LEMMA ForwardOrder ==
  ASSUME TypeOK, LoopInv, OrderInv, Forward
  PROVE  OrderInv'
  <1>1. agg = "forward" /\ wake' = <<>> /\ UNCHANGED <<sent, handled, batch, listening>>
        /\ render \in Seq(Messages) /\ handled \in Nat /\ batch = <<>>
    BY DEF Forward, TypeOK, OrderInv
  <1>2. CASE ~listening
    BY <1>1, <1>2 DEF Forward, OrderInv
  <1>3. CASE listening
    <2>1. render' = render \o wake /\ agg' = "select" /\ events' = events
      BY <1>3 DEF Forward
    <2>2. PICK r, b \in Nat :
            /\ Carries(render, handled, r)
            /\ Carries(batch, r, b)
            /\ wake # <<>> => wake[1].n <= b
            /\ Carries(events, b, sent)
      BY <1>1, <1>3 DEF OrderInv
    <2>3. wake \in Seq(Messages) /\ Len(wake) = 1 /\ WakeupIn(wake) /\ wake # <<>>
      <3>1. wake # <<>> /\ wake \in Seq(Messages) /\ Len(wake) <= 1 /\ WakeupIn(wake)
        BY <1>1 DEF LoopInv, TypeOK
      <3>2. PICK i \in DOMAIN wake : IsWakeup(wake[i])
        BY <3>1 DEF WakeupIn
      <3>3. Len(wake) \in Nat /\ i \in 1 .. Len(wake)
        BY <3>1, <3>2
      <3>4. Len(wake) = 1
        <4>1. Len(wake) <= 1
          BY <3>1
        <4>2. QED
          BY <3>3, <4>1
      <3>5. QED
        BY <3>1, <3>4, Zenon
    <2>4. wake[1] \in Messages /\ IsWakeup(wake[1]) /\ wake[1].n <= b
      <3>1. \A i \in DOMAIN wake : i = 1
        BY <2>3
      <3>2. QED
        BY <2>2, <2>3, <3>1 DEF WakeupIn
    <2>5. b = r
      <3>1. PICK f \in [0 .. Len(batch) -> Nat] : f[0] = r /\ f[Len(batch)] = b
        BY <2>2 DEF Carries
      <3>2. QED
        BY <1>1, <3>1
    <2>6. Carries(wake, b, b)
      <3> DEFINE f == [i \in 0 .. 1 |-> b]
      <3>1. f \in [0 .. Len(wake) -> Nat] /\ f[0] = b /\ f[Len(wake)] = b
        BY <2>3
      <3>2. Levels(f, wake)
        BY <2>3, <2>4 DEF Levels
      <3>3. QED
        BY <3>1, <3>2 DEF Carries
    <2>7. Carries(render', handled, b)
      BY <1>1, <2>1, <2>2, <2>3, <2>5, <2>6, CarriesConcat
    <2>8. Carries(batch', b, b)
      BY <1>1, CarriesEmpty
    <2>9. QED
      BY <1>1, <1>3, <2>1, <2>2, <2>7, <2>8 DEF OrderInv
  <1>4. QED
    BY <1>2, <1>3

LEMMA HandleOrder ==
  ASSUME TypeOK, OrderInv, Handle
  PROVE  OrderInv'
  <1>1. /\ listening /\ render # <<>> /\ render' = Tail(render)
        /\ handled' = IF IsWakeup(Head(render)) THEN handled ELSE Head(render).n
        /\ UNCHANGED <<sent, events, batch, wake, agg, listening>>
        /\ render \in Seq(Messages) /\ handled \in Nat
    BY DEF Handle, loop, TypeOK
  <1>2. PICK r, b \in Nat :
          /\ Carries(render, handled, r)
          /\ Carries(batch, r, b)
          /\ wake # <<>> => wake[1].n <= b
          /\ agg # "ended" => Carries(events, b, sent)
    BY <1>1 DEF OrderInv
  <1>3. Carries(render', handled', r)
    BY <1>1, <1>2, CarriesTail
  <1>4. QED
    BY <1>1, <1>2, <1>3 DEF OrderInv

LEMMA OrderStep ==
  ASSUME TypeOK, LoopInv, OrderInv, [Next]_vars
  PROVE  OrderInv'
  <1>1. ASSUME UNCHANGED <<sent, handled, events, batch, wake, agg, render, listening>>
        PROVE  OrderInv'
    BY <1>1 DEF OrderInv
  <1>2. CASE Parse
    <2>1. CASE Announce
      BY <1>2, <2>1, MessageTypes, SendKeepsOrder DEF Parse, Announce, loop, TypeOK
    <2>2. CASE ~Announce
      BY <1>1, <1>2, <2>2 DEF Parse, loop
    <2>3. QED
      BY <2>1, <2>2
  <1>3. CASE SendOsc
    BY <1>3, MessageTypes, SendKeepsOrder DEF SendOsc, Announce, loop, TypeOK
  <1>4. CASE SendWakeup
    BY <1>4, MessageTypes, SendKeepsOrder DEF SendWakeup, loop, TypeOK
  <1>5. CASE \/ Advance \/ Notify \/ TakeNotice \/ Swap \/ WriterEnds
             \/ TickerDue \/ Paint \/ Scroll \/ Shutdown \/ Release \/ UNCHANGED vars
    BY <1>1, <1>5 DEF Advance, Notify, TakeNotice, Swap, WriterEnds, TickerDue, Paint,
                      Scroll, Shutdown, Release, vars, loop
  <1>6. CASE Receive
    BY <1>6, ReceiveOrder
  <1>7. CASE Closed
    <2>1. agg' = "ended" /\ UNCHANGED <<handled, batch, wake, render, listening>>
      BY <1>7 DEF Closed
    <2>2. QED
      BY <2>1 DEF OrderInv
  <1>8. CASE Tick
    BY <1>8, TickOrder
  <1>9. CASE Reset
    <2>1. /\ agg = "reset" /\ agg' = "forward"
          /\ UNCHANGED <<sent, handled, events, batch, wake, render, listening>>
      BY <1>9 DEF Reset
    <2>2. QED
      BY <2>1 DEF OrderInv
  <1>10. CASE Forward
    BY <1>10, ForwardOrder
  <1>11. CASE Handle
    BY <1>11, HandleOrder
  <1>12. CASE StopListening
    <2>1. listening' = FALSE /\ render' = <<>> /\ UNCHANGED <<agg, batch>>
      BY <1>12 DEF StopListening, loop
    <2>2. QED
      BY <2>1 DEF OrderInv
  <1>13. QED
    BY <1>2, <1>3, <1>4, <1>5, <1>6, <1>7, <1>8, <1>9, <1>10, <1>11, <1>12 DEF Next

\* The channels carry, one after the other, all the events that are still to be
\* handled.
THEOREM EventsAccounted == Spec => []OrderInv
  <1>1. Init => OrderInv
    <2>1. SUFFICES ASSUME Init PROVE OrderInv
      OBVIOUS
    <2>2. Carries(<<>>, 0, 0)
      BY CarriesEmpty
    <2>3. /\ render = <<>> /\ batch = <<>> /\ events = <<>> /\ wake = <<>>
          /\ sent = 0 /\ handled = 0 /\ agg = "select" /\ listening
      BY <2>1 DEF Init
    <2>4. \E r, b \in Nat :
            /\ Carries(render, handled, r)
            /\ Carries(batch, r, b)
            /\ wake # <<>> => wake[1].n <= b
            /\ agg # "ended" => Carries(events, b, sent)
      BY <2>2, <2>3
    <2>5. QED
      BY <2>3, <2>4 DEF OrderInv
  <1>2. IInv /\ OrderInv /\ [Next]_vars => OrderInv'
    BY OrderStep DEF IInv
  <1>3. QED
    BY <1>1, <1>2, EventsInvariant, PTL DEF Spec

\* A Wakeup never overtakes the events sent before it, and no event is lost or
\* handled out of order (terminal.rs:1391-1397).
THEOREM EventsInOrder == Spec => []EventsBeforeTheirFrame
  <1>1. IInv /\ OrderInv => EventsBeforeTheirFrame
    <2>1. SUFFICES ASSUME TypeOK, OrderInv, render # <<>> PROVE EventsBeforeTheirFrame
      BY DEF IInv, EventsBeforeTheirFrame
    <2>2. PICK r \in Nat : Carries(render, handled, r)
      BY <2>1 DEF OrderInv, TypeOK
    <2>3. render \in Seq(Messages) /\ handled \in Nat
      BY <2>1 DEF TypeOK
    <2>4. QED
      BY <2>1, <2>2, <2>3, CarriesTail DEF EventsBeforeTheirFrame
  <1>2. QED
    BY <1>1, EventsAccounted, EventsInvariant, PTL

-----------------------------------------------------------------------------
(* The refinement of EventFeed.  FeedInv is what it needs beyond the above:   *)
(* no message is numbered ahead of the events sent, and Wakeups come in the   *)
(* order of their numbers up to the place where they are merged.              *)

Bounded(s, hi) == \A i \in DOMAIN s : s[i].n <= hi

Ascending(s) ==
  \A i, j \in WakeupsIn(s) : i < j => s[i].n <= s[j].n

FeedInv ==
  /\ shown <= output
  /\ agg = "ended" => events = <<>>
  /\ ~WakeupIn(batch)
  /\ Bounded(render, sent) /\ Bounded(batch, sent) /\ Bounded(events, sent)
  /\ Ascending(events)
  /\ wake # <<>> =>
       /\ IsWakeup(wake[1])
       /\ wake[1].n <= sent
       /\ \A k \in Numbers(events) : wake[1].n <= k

LEMMA InNumbers ==
  ASSUME NEW s, NEW k
  PROVE  k \in Numbers(s) <=> \E i \in DOMAIN s : IsWakeup(s[i]) /\ s[i].n = k
  BY DEF Numbers, WakeupsIn

LEMMA NumbersEmpty ==
  /\ Numbers(<<>>) = {}
  /\ \A s : Numbers(s) = {} <=> ~WakeupIn(s)
  BY DEF Numbers, WakeupsIn, WakeupIn

LEMMA NumbersOne ==
  ASSUME NEW m \in Messages, IsWakeup(m)
  PROVE  Numbers(<<m>>) = {m.n}
  <1>1. DOMAIN <<m>> = {1} /\ <<m>>[1] = m
    OBVIOUS
  <1>2. QED
    BY <1>1 DEF Numbers, WakeupsIn

\* Adding at the end.
LEMMA AppendNumbers ==
  ASSUME NEW s \in Seq(Messages), NEW m \in Messages
  PROVE  Numbers(Append(s, m)) = Numbers(s) \cup (IF IsWakeup(m) THEN {m.n} ELSE {})
  <1> DEFINE t == Append(s, m)
  <1>1. /\ Len(s) \in Nat
        /\ DOMAIN t = DOMAIN s \cup {Len(s) + 1}
        /\ \A i \in DOMAIN s : t[i] = s[i]
        /\ t[Len(s) + 1] = m
    OBVIOUS
  <1> HIDE DEF t
  <1>2. ASSUME NEW k
        PROVE  k \in Numbers(t) <=> k \in Numbers(s) \/ (IsWakeup(m) /\ k = m.n)
    <2>1. k \in Numbers(t) <=> \E i \in DOMAIN t : IsWakeup(t[i]) /\ t[i].n = k
      BY InNumbers
    <2>2. k \in Numbers(s) <=> \E i \in DOMAIN s : IsWakeup(s[i]) /\ s[i].n = k
      BY InNumbers
    <2>3. QED
      BY <1>1, <2>1, <2>2
  <1>3. QED
    BY <1>2 DEF t

LEMMA TailNumbers ==
  ASSUME NEW s \in Seq(Messages), s # <<>>
  PROVE  Numbers(s) =
           Numbers(Tail(s)) \cup (IF IsWakeup(Head(s)) THEN {Head(s).n} ELSE {})
  <1> DEFINE t == Tail(s)
  <1>1. /\ Len(s) \in Nat \ {0}
        /\ DOMAIN s = 1 .. Len(s)
        /\ DOMAIN t = 1 .. Len(s) - 1
        /\ \A i \in DOMAIN t : t[i] = s[i + 1]
        /\ Head(s) = s[1]
    OBVIOUS
  <1> HIDE DEF t
  <1>2. ASSUME NEW k, NEW i \in DOMAIN s, IsWakeup(s[i]), s[i].n = k
        PROVE  k \in Numbers(t) \/ (IsWakeup(Head(s)) /\ k = Head(s).n)
    <2>1. CASE i = 1
      BY <1>1, <1>2, <2>1
    <2>2. CASE i # 1
      <3>1. i - 1 \in DOMAIN t /\ t[i - 1] = s[i]
        BY <1>1, <2>2
      <3>2. QED
        BY <1>2, <3>1, InNumbers
    <2>3. QED
      BY <2>1, <2>2
  <1>3. ASSUME NEW k, k \in Numbers(t)
        PROVE  k \in Numbers(s)
    <2>1. PICK i \in DOMAIN t : IsWakeup(t[i]) /\ t[i].n = k
      BY <1>3, InNumbers
    <2>2. i + 1 \in DOMAIN s /\ s[i + 1] = t[i]
      BY <1>1, <2>1
    <2>3. QED
      BY <2>1, <2>2, InNumbers
  <1>4. IsWakeup(Head(s)) => Head(s).n \in Numbers(s)
    <2>1. 1 \in DOMAIN s
      BY <1>1
    <2>2. QED
      BY <1>1, <2>1, InNumbers
  <1>5. \A k : k \in Numbers(s) => k \in Numbers(t) \/ (IsWakeup(Head(s)) /\ k = Head(s).n)
    BY <1>2, InNumbers
  <1>6. QED
    BY <1>3, <1>4, <1>5 DEF t

LEMMA ConcatNumbers ==
  ASSUME NEW s \in Seq(Messages), NEW t \in Seq(Messages)
  PROVE  Numbers(s \o t) = Numbers(s) \cup Numbers(t)
  <1> DEFINE u == s \o t
  <1>1. /\ Len(s) \in Nat /\ Len(t) \in Nat
        /\ DOMAIN s = 1 .. Len(s) /\ DOMAIN t = 1 .. Len(t)
        /\ DOMAIN u = 1 .. Len(s) + Len(t)
        /\ \A i \in DOMAIN s : u[i] = s[i]
        /\ \A i \in DOMAIN t : u[Len(s) + i] = t[i]
    OBVIOUS
  <1> HIDE DEF u
  <1>2. ASSUME NEW k, k \in Numbers(s) PROVE k \in Numbers(u)
    <2>1. PICK i \in DOMAIN s : IsWakeup(s[i]) /\ s[i].n = k
      BY <1>2, InNumbers
    <2>2. i \in DOMAIN u /\ u[i] = s[i]
      BY <1>1, <2>1
    <2>3. QED
      BY <2>1, <2>2, InNumbers
  <1>3. ASSUME NEW k, k \in Numbers(t) PROVE k \in Numbers(u)
    <2>1. PICK i \in DOMAIN t : IsWakeup(t[i]) /\ t[i].n = k
      BY <1>3, InNumbers
    <2>2. Len(s) + i \in DOMAIN u /\ u[Len(s) + i] = t[i]
      BY <1>1, <2>1
    <2>3. QED
      BY <2>1, <2>2, InNumbers
  <1>4. ASSUME NEW k, k \in Numbers(u) PROVE k \in Numbers(s) \/ k \in Numbers(t)
    <2>1. PICK i \in DOMAIN u : IsWakeup(u[i]) /\ u[i].n = k
      BY <1>4, InNumbers
    <2>2. CASE i \in DOMAIN s
      BY <1>1, <2>1, <2>2, InNumbers
    <2>3. CASE i \notin DOMAIN s
      <3>1. i - Len(s) \in DOMAIN t /\ u[i] = t[i - Len(s)]
        <4>1. i - Len(s) \in DOMAIN t /\ Len(s) + (i - Len(s)) = i
          BY <1>1, <2>1, <2>3
        <4>2. QED
          BY <1>1, <4>1
      <3>2. QED
        BY <2>1, <3>1, InNumbers
    <2>4. QED
      BY <2>2, <2>3
  <1>5. QED
    BY <1>2, <1>3, <1>4 DEF u

\* What bounds the numbers of a sequence.
LEMMA BoundedSequences ==
  ASSUME NEW s \in Seq(Messages), NEW hi \in Nat, Bounded(s, hi)
  PROVE  /\ \A h \in Nat : hi <= h => Bounded(s, h)
         /\ \A m \in Messages : m.n <= hi => Bounded(Append(s, m), hi)
         /\ s # <<>> => Head(s).n <= hi /\ Bounded(Tail(s), hi)
         /\ \A t \in Seq(Messages) : Bounded(t, hi) => Bounded(s \o t, hi)
         /\ \A k \in Numbers(s) : k \in Nat /\ k <= hi
  <1>0. ASSUME NEW i \in DOMAIN s PROVE s[i] \in Messages /\ s[i].n \in Nat
    <2>1. s[i] \in Messages
      OBVIOUS
    <2>2. QED
      BY <2>1 DEF Messages
  <1>1. ASSUME NEW h \in Nat, hi <= h PROVE Bounded(s, h)
    BY <1>0, <1>1 DEF Bounded
  <1>2. ASSUME NEW m \in Messages, m.n <= hi PROVE Bounded(Append(s, m), hi)
    <2>1. /\ DOMAIN Append(s, m) = DOMAIN s \cup {Len(s) + 1}
          /\ \A i \in DOMAIN s : Append(s, m)[i] = s[i]
          /\ Append(s, m)[Len(s) + 1] = m
      OBVIOUS
    <2>2. QED
      BY <1>2, <2>1 DEF Bounded
  <1>3. ASSUME s # <<>> PROVE Head(s).n <= hi /\ Bounded(Tail(s), hi)
    <2>1. /\ Len(s) \in Nat \ {0}
          /\ DOMAIN s = 1 .. Len(s)
          /\ DOMAIN Tail(s) = 1 .. Len(s) - 1
          /\ \A i \in DOMAIN Tail(s) : Tail(s)[i] = s[i + 1]
          /\ Head(s) = s[1]
      BY <1>3
    <2>2. 1 \in DOMAIN s /\ \A i \in DOMAIN Tail(s) : i + 1 \in DOMAIN s
      BY <2>1
    <2>3. QED
      BY <2>1, <2>2 DEF Bounded
  <1>4. ASSUME NEW t \in Seq(Messages), Bounded(t, hi) PROVE Bounded(s \o t, hi)
    <2> DEFINE u == s \o t
    <2>1. /\ Len(s) \in Nat /\ Len(t) \in Nat
          /\ DOMAIN s = 1 .. Len(s) /\ DOMAIN t = 1 .. Len(t)
          /\ DOMAIN u = 1 .. Len(s) + Len(t)
          /\ \A i \in DOMAIN s : u[i] = s[i]
          /\ \A i \in DOMAIN t : u[Len(s) + i] = t[i]
      OBVIOUS
    <2> HIDE DEF u
    <2>2. ASSUME NEW i \in DOMAIN u PROVE u[i].n <= hi
      <3>1. CASE i \in DOMAIN s
        BY <2>1, <3>1 DEF Bounded
      <3>2. CASE i \notin DOMAIN s
        <4>1. i - Len(s) \in DOMAIN t /\ Len(s) + (i - Len(s)) = i
          BY <2>1, <3>2
        <4>2. u[i] = t[i - Len(s)]
          BY <2>1, <4>1
        <4>3. QED
          BY <1>4, <4>1, <4>2 DEF Bounded
      <3>3. QED
        BY <3>1, <3>2
    <2>3. QED
      BY <2>2 DEF Bounded, u
  <1>5. ASSUME NEW k \in Numbers(s) PROVE k \in Nat /\ k <= hi
    <2>1. PICK i \in DOMAIN s : IsWakeup(s[i]) /\ s[i].n = k
      BY InNumbers
    <2>2. QED
      BY <1>0, <2>1 DEF Bounded
  <1>6. QED
    BY <1>1, <1>2, <1>3, <1>4, <1>5

LEMMA AscendingSequences ==
  ASSUME NEW s \in Seq(Messages), Ascending(s)
  PROVE  /\ \A m \in Messages :
              ~IsWakeup(m) \/ (\A k \in Numbers(s) : k <= m.n) => Ascending(Append(s, m))
         /\ s # <<>> =>
              /\ Ascending(Tail(s))
              /\ IsWakeup(Head(s)) => \A k \in Numbers(Tail(s)) : Head(s).n <= k
  <1>1. ASSUME NEW m \in Messages, ~IsWakeup(m) \/ \A k \in Numbers(s) : k <= m.n
        PROVE  Ascending(Append(s, m))
    <2> DEFINE t == Append(s, m)
    <2>1. /\ Len(s) \in Nat
          /\ DOMAIN s = 1 .. Len(s)
          /\ DOMAIN t = DOMAIN s \cup {Len(s) + 1}
          /\ \A i \in DOMAIN s : t[i] = s[i]
          /\ t[Len(s) + 1] = m
      OBVIOUS
    <2> HIDE DEF t
    <2>2. ASSUME NEW i \in WakeupsIn(t), NEW j \in WakeupsIn(t), i < j
          PROVE  t[i].n <= t[j].n
      <3>1. i \in DOMAIN t /\ IsWakeup(t[i]) /\ j \in DOMAIN t /\ IsWakeup(t[j])
        BY DEF WakeupsIn
      <3>2. i \in DOMAIN s /\ t[i] = s[i]
        BY <2>1, <2>2, <3>1
      <3>3. CASE j \in DOMAIN s
        <4>1. i \in WakeupsIn(s) /\ j \in WakeupsIn(s) /\ t[j] = s[j]
          BY <2>1, <3>1, <3>2, <3>3 DEF WakeupsIn
        <4>2. QED
          BY <2>2, <3>2, <4>1 DEF Ascending
      <3>4. CASE j \notin DOMAIN s
        <4>1. t[j] = m /\ IsWakeup(m)
          BY <2>1, <3>1, <3>4
        <4>2. s[i].n \in Numbers(s)
          BY <3>1, <3>2, InNumbers
        <4>3. QED
          BY <1>1, <3>2, <4>1, <4>2
      <3>5. QED
        BY <3>3, <3>4
    <2>3. QED
      BY <2>2 DEF Ascending, t
  <1>2. ASSUME s # <<>>
        PROVE  /\ Ascending(Tail(s))
               /\ IsWakeup(Head(s)) => \A k \in Numbers(Tail(s)) : Head(s).n <= k
    <2> DEFINE t == Tail(s)
    <2>1. /\ Len(s) \in Nat \ {0}
          /\ DOMAIN s = 1 .. Len(s)
          /\ DOMAIN t = 1 .. Len(s) - 1
          /\ \A i \in DOMAIN t : t[i] = s[i + 1]
          /\ Head(s) = s[1]
      BY <1>2
    <2> HIDE DEF t
    <2>2. ASSUME NEW i \in WakeupsIn(t)
          PROVE  i \in Nat /\ i > 0 /\ i + 1 \in WakeupsIn(s) /\ t[i] = s[i + 1]
      <3>1. i \in DOMAIN t /\ IsWakeup(t[i])
        BY DEF WakeupsIn
      <3>2. i + 1 \in DOMAIN s /\ t[i] = s[i + 1] /\ i \in Nat /\ i > 0
        BY <2>1, <3>1
      <3>3. QED
        BY <3>1, <3>2 DEF WakeupsIn
    <2>3. ASSUME NEW i \in WakeupsIn(t), NEW j \in WakeupsIn(t), i < j
          PROVE  t[i].n <= t[j].n
      <3>1. /\ i + 1 \in WakeupsIn(s) /\ t[i] = s[i + 1]
            /\ j + 1 \in WakeupsIn(s) /\ t[j] = s[j + 1]
            /\ i + 1 < j + 1
        BY <2>2, <2>3
      <3>2. QED
        BY <3>1 DEF Ascending
    <2>4. ASSUME IsWakeup(Head(s)), NEW k \in Numbers(t)
          PROVE  Head(s).n <= k
      <3>1. PICK i \in WakeupsIn(t) : t[i].n = k
        BY DEF Numbers
      <3>2. i + 1 \in WakeupsIn(s) /\ t[i] = s[i + 1] /\ 1 < i + 1
        BY <2>2, <3>1
      <3>3. 1 \in WakeupsIn(s) /\ Head(s) = s[1]
        BY <2>1, <2>4 DEF WakeupsIn
      <3>4. QED
        BY <3>1, <3>2, <3>3 DEF Ascending
    <2>5. QED
      BY <2>3, <2>4 DEF Ascending, t
  <1>3. QED
    BY <1>1, <1>2

LEMMA QuietFeed ==
  ASSUME FeedInv, UNCHANGED <<sent, render, batch, events, wake>>, shown' <= output',
         agg' = "ended" => agg = "ended" \/ events = <<>>
  PROVE  FeedInv'
  BY DEF FeedInv, Bounded, Ascending, WakeupsIn, Numbers

LEMMA SendFeed ==
  ASSUME TypeOK, FeedInv, NEW m \in Messages, Send(m), shown' <= output',
         UNCHANGED <<batch, wake, agg, render>>,
         \/ m = Event(sent + 1) /\ sent' = sent + 1
         \/ m = Wakeup(sent) /\ sent' = sent
  PROVE  FeedInv'
  <1>0. /\ sent \in Nat /\ sent' \in Nat /\ sent <= sent' /\ m.n = sent'
        /\ render \in Seq(Messages) /\ batch \in Seq(Messages) /\ events \in Seq(Messages)
    BY DEF TypeOK, Event, Wakeup
  <1>1. Bounded(render, sent') /\ Bounded(batch, sent') /\ Bounded(events, sent')
    BY <1>0, BoundedSequences DEF FeedInv
  <1>2. events' = <<>> \/ events' = Append(events, m)
    BY DEF Send
  <1>3. agg' = "ended" => events' = <<>>
    BY DEF Send
  <1>4. ASSUME wake # <<>> PROVE wake[1].n \in Nat /\ wake[1].n <= sent
    <2>1. wake[1] \in Messages
      BY <1>4 DEF TypeOK
    <2>2. QED
      BY <1>4, <2>1 DEF FeedInv, Messages
  <1>5. CASE events' = <<>>
    <2>1. Bounded(events', sent') /\ Ascending(events') /\ Numbers(events') = {}
      BY <1>5, NumbersEmpty DEF Bounded, Ascending, WakeupsIn
    <2>2. wake # <<>> => wake[1].n <= sent'
      BY <1>0, <1>4
    <2>3. QED
      BY <1>1, <1>3, <2>1, <2>2 DEF FeedInv
  <1>6. CASE events' = Append(events, m)
    <2>1. Bounded(events', sent')
      BY <1>0, <1>1, <1>6, BoundedSequences
    <2>2. \A k \in Numbers(events) : k <= m.n
      BY <1>0, <1>1, BoundedSequences
    <2>3. Ascending(events')
      BY <1>0, <1>6, <2>2, AscendingSequences DEF FeedInv
    <2>4. Numbers(events') \subseteq Numbers(events) \cup {m.n}
      BY <1>0, <1>6, AppendNumbers
    <2>5. wake # <<>> =>
            /\ wake[1].n <= sent'
            /\ \A k \in Numbers(events') : wake[1].n <= k
      BY <1>0, <1>4, <2>4 DEF FeedInv
    <2>6. QED
      BY <1>1, <1>3, <2>1, <2>3, <2>5 DEF FeedInv
  <1>7. QED
    BY <1>2, <1>5, <1>6

LEMMA ReceiveFeed ==
  ASSUME TypeOK, FeedInv, Receive
  PROVE  FeedInv'
  <1> DEFINE m == Head(events)
  <1>0. /\ events # <<>> /\ events' = Tail(events) /\ agg' = agg /\ agg = "select"
        /\ UNCHANGED <<shown, output, sent, render>>
        /\ wake' = IF IsWakeup(m) THEN <<m>> ELSE wake
        /\ batch' = IF IsWakeup(m) THEN batch ELSE Append(batch, m)
    BY DEF Receive, screen
  <1>1. /\ m \in Messages /\ events \in Seq(Messages) /\ batch \in Seq(Messages)
        /\ sent \in Nat
    BY <1>0, WakeupInTail DEF TypeOK
  <1> HIDE DEF m
  <1>2. /\ m.n <= sent /\ Bounded(events', sent) /\ Ascending(events')
        /\ IsWakeup(m) => \A k \in Numbers(events') : m.n <= k
    BY <1>0, <1>1, BoundedSequences, AscendingSequences DEF FeedInv, m
  <1>3. Numbers(events') \subseteq Numbers(events)
    BY <1>0, <1>1, TailNumbers
  <1>4. Bounded(batch', sent) /\ ~WakeupIn(batch')
    BY <1>0, <1>1, <1>2, BoundedSequences, WakeupInAppend DEF FeedInv
  <1>5. wake' # <<>> =>
          /\ IsWakeup(wake'[1])
          /\ wake'[1].n <= sent
          /\ \A k \in Numbers(events') : wake'[1].n <= k
    <2>1. CASE IsWakeup(m)
      <3>1. wake'[1] = m
        BY <1>0, <2>1
      <3>2. QED
        BY <1>2, <2>1, <3>1
    <2>2. CASE ~IsWakeup(m)
      BY <1>0, <1>3, <2>2 DEF FeedInv
    <2>3. QED
      BY <2>1, <2>2
  <1>6. QED
    BY <1>0, <1>2, <1>4, <1>5 DEF FeedInv

\* A tick moves what was collected, or gives it up.
LEMMA TickFeed ==
  ASSUME TypeOK, FeedInv, LoopInv, Tick \/ Forward
  PROVE  FeedInv'
  <1>0. /\ render \in Seq(Messages) /\ batch \in Seq(Messages) /\ wake \in Seq(Messages)
        /\ sent \in Nat /\ sent' = sent /\ shown' <= output'
    BY DEF TypeOK, Tick, Forward, screen, FeedInv
  <1>1. Bounded(wake, sent)
    <2>1. \A i \in DOMAIN wake : i = 1 /\ wake # <<>>
      <3>1. Len(wake) <= 1 /\ Len(wake) \in Nat /\ DOMAIN wake = 1 .. Len(wake)
        BY DEF TypeOK
      <3>2. QED
        BY <3>1
    <2>2. QED
      BY <2>1 DEF Bounded, FeedInv
  <1>2. Bounded(render \o batch, sent) /\ Bounded(render \o wake, sent)
    BY <1>0, <1>1, BoundedSequences DEF FeedInv
  <1>3. Bounded(render', sent)
    BY <1>2 DEF Tick, Flush, Forward, FeedInv
  <1>4. Bounded(batch', sent) /\ ~WakeupIn(batch')
    <2>1. batch' = batch \/ batch' = <<>>
      BY DEF Tick, Flush, Forward
    <2>2. QED
      BY <2>1 DEF FeedInv, Bounded, WakeupIn
  <1>5. /\ events' = events \/ events' = <<>>
        /\ agg' = "ended" => events' = <<>>
    BY DEF Tick, Forward
  <1>6. Bounded(events', sent) /\ Ascending(events') /\ Numbers(events') \subseteq Numbers(events)
    BY <1>5, NumbersEmpty DEF FeedInv, Bounded, Ascending, WakeupsIn
  <1>7. wake' # <<>> => wake' = wake
    BY DEF Tick, Forward
  <1>8. QED
    BY <1>0, <1>3, <1>4, <1>5, <1>6, <1>7 DEF FeedInv

LEMMA ReaderFeed ==
  ASSUME TypeOK, FeedInv, Handle \/ StopListening
  PROVE  FeedInv'
  <1>1. /\ UNCHANGED <<sent, batch, events, wake, agg, shown, output>>
        /\ render' = <<>> \/ (render # <<>> /\ render' = Tail(render))
    BY DEF Handle, StopListening, loop, screen
  <1>2. Bounded(render', sent)
    <2>1. CASE render' = <<>>
      BY <2>1 DEF Bounded
    <2>2. CASE render # <<>> /\ render' = Tail(render)
      BY <2>2, BoundedSequences DEF FeedInv, TypeOK
    <2>3. QED
      BY <1>1, <2>1, <2>2
  <1>3. QED
    BY <1>1, <1>2 DEF FeedInv, Bounded, Ascending, WakeupsIn, Numbers

LEMMA FeedStep ==
  ASSUME TypeOK, LoopInv, FeedInv, [Next]_vars
  PROVE  FeedInv'
  <1>0. /\ output \in Nat /\ shown \in Nat /\ shown <= output /\ sent \in Nat
    BY DEF TypeOK, FeedInv
  <1>1. CASE Parse
    <2>1. shown' <= output' /\ UNCHANGED <<batch, wake, agg, render>>
      BY <1>0, <1>1 DEF Parse, Change, loop
    <2>2. CASE Announce
      BY <1>0, <2>1, <2>2, SendFeed, MessageTypes DEF Announce
    <2>3. CASE UNCHANGED <<sent, events>>
      BY <2>1, <2>3, QuietFeed DEF FeedInv
    <2>4. QED
      BY <1>1, <2>2, <2>3 DEF Parse
  <1>2. CASE SendOsc
    BY <1>0, <1>2, SendFeed, MessageTypes DEF SendOsc, Announce, screen, loop
  <1>3. CASE SendWakeup
    BY <1>0, <1>3, SendFeed, MessageTypes DEF SendWakeup, screen, loop
  <1>4. CASE Scroll
    <2>1. /\ UNCHANGED <<sent, render, batch, events, wake>>
          /\ agg' = agg
          /\ shown' <= output'
      BY <1>0, <1>4 DEF Scroll, Change, loop
    <2>2. QED
      BY <2>1, QuietFeed
  <1>5. CASE \/ Advance \/ Notify \/ TakeNotice \/ Swap \/ WriterEnds \/ Reset
             \/ TickerDue \/ Paint \/ Shutdown \/ Release \/ UNCHANGED vars
    <2>1. UNCHANGED <<sent, render, batch, events, wake>> /\ (agg' = "ended" => agg = "ended")
      BY <1>5 DEF Advance, Notify, TakeNotice, Swap, WriterEnds, Reset, TickerDue,
                  Paint, Shutdown, Release, vars, screen, loop
    <2>2. shown' <= output'
      BY <1>0, <1>5 DEF Advance, Change, Notify, TakeNotice, Swap, WriterEnds, Reset,
                        TickerDue, Paint, Shutdown, Release, vars, screen
    <2>3. QED
      BY <2>1, <2>2, QuietFeed
  <1>6. CASE Closed
    BY <1>0, <1>6, QuietFeed DEF Closed, screen
  <1>7. CASE Receive
    BY <1>7, ReceiveFeed
  <1>8. CASE Tick \/ Forward
    BY <1>8, TickFeed
  <1>9. CASE Handle \/ StopListening
    BY <1>9, ReaderFeed
  <1>10. QED
    BY <1>1, <1>2, <1>3, <1>4, <1>5, <1>6, <1>7, <1>8, <1>9 DEF Next

-----------------------------------------------------------------------------
(* Every step is a step of EventFeed, or hidden from the view.               *)

FeedContext == IInv /\ OrderInv /\ FeedInv /\ EventsBeforeTheirFrame

\* EventFeed's Booleans are state predicates here.
LEMMA OwedBoolean == Owed' \in BOOLEAN
  BY DEF Owed

LEMMA HiddenStep ==
  ASSUME Hints' = Hints, UNCHANGED <<sent, handled, dirty>>, Owed' = Owed,
         (shown' # output') = (shown # output), (life' # "open") = (life # "open")
  PROVE  UNCHANGED Feed!vars
  BY Zenon DEF Feed!vars

LEMMA HintsUnchanged ==
  ASSUME UNCHANGED <<render, wake, events>>
  PROVE  Hints' = Hints
  BY DEF Hints, Numbers, WakeupsIn

\* What a message does to the hints on their way.
LEMMA SendHints ==
  ASSUME FeedContext, NEW m \in Messages, Send(m), UNCHANGED <<render, wake>>
  PROVE  /\ agg = "ended" => Hints' = Hints
         /\ agg # "ended" => Hints' = Hints \cup (IF IsWakeup(m) THEN {m.n} ELSE {})
  <1>1. Numbers(render') = Numbers(render) /\ Numbers(wake') = Numbers(wake)
    BY DEF Numbers, WakeupsIn
  <1>2. CASE agg = "ended"
    <2>1. events' = events
      BY <1>2 DEF FeedContext, FeedInv, Send
    <2>2. QED
      BY <1>2, <2>1, HintsUnchanged
  <1>3. CASE agg # "ended"
    <2>1. events' = Append(events, m) /\ events \in Seq(Messages)
      BY <1>3 DEF FeedContext, IInv, TypeOK, Send
    <2>2. Numbers(events') = Numbers(events) \cup (IF IsWakeup(m) THEN {m.n} ELSE {})
      BY <2>1, AppendNumbers
    <2>3. QED
      BY <1>1, <1>3, <2>2 DEF Hints
  <1>4. QED
    BY <1>2, <1>3

LEMMA EmitRefines ==
  ASSUME FeedContext, SendOsc
  PROVE  Feed!Emit
  <1>0. sent \in Nat
    BY DEF FeedContext, IInv, TypeOK
  <1>1. /\ sent' = sent + 1 /\ Send(Event(sent + 1)) /\ Event(sent + 1) \in Messages
        /\ ~IsWakeup(Event(sent + 1))
        /\ UNCHANGED <<render, wake, handled, dirty, shown, output, life, notices, hint>>
        /\ writer = "reading" /\ writer' = "announced"
    BY <1>0, MessageTypes DEF SendOsc, Announce, screen, loop
  <1>2. Hints' = Hints
    BY <1>1, SendHints
  <1>3. Owed' = Owed
    BY <1>1 DEF Owed
  <1>4. QED
    BY <1>1, <1>2, <1>3 DEF Feed!Emit

LEMMA DrawRefines ==
  ASSUME FeedContext, Parse \/ Advance
  PROVE  Feed!Draw
  <1>0. output \in Nat /\ shown \in Nat /\ shown <= output /\ sent \in Nat
    BY DEF FeedContext, IInv, TypeOK, FeedInv
  <1>1. /\ output' = output + 1 /\ shown' = shown
        /\ UNCHANGED <<render, wake, handled, dirty, life>>
        /\ Announce \/ UNCHANGED <<sent, events>>
        /\ hint' = "swap" \/ writer' = "parsed"
    BY DEF Parse, Advance, Change, loop
  <1>2. (shown' # output') = TRUE /\ Owed' = TRUE
    BY <1>0, <1>1 DEF Owed
  <1>3. Hints' = Hints
    <2>1. CASE Announce
      <3>1. Send(Event(sent + 1)) /\ Event(sent + 1) \in Messages /\ ~IsWakeup(Event(sent + 1))
        BY <1>0, <2>1, MessageTypes DEF Announce
      <3>2. QED
        BY <1>1, <3>1, SendHints
    <2>2. CASE UNCHANGED <<sent, events>>
      BY <1>1, <2>2, HintsUnchanged
    <2>3. QED
      BY <1>1, <2>1, <2>2
  <1>4. sent' \in {sent, sent + 1}
    BY <1>1 DEF Announce
  <1>5. QED
    BY <1>1, <1>2, <1>3, <1>4 DEF Feed!Draw

LEMMA ScrollRefines ==
  ASSUME FeedContext, Scroll
  PROVE  Feed!Scroll
  <1>0. output \in Nat /\ shown \in Nat /\ shown <= output /\ sent \in Nat
    BY DEF FeedContext, IInv, TypeOK, FeedInv
  <1>1. /\ life = "open" /\ life' = life /\ output' = output + 1 /\ shown' = shown
        /\ dirty' = TRUE
        /\ UNCHANGED <<events, render, wake, sent, handled, writer, notices, hint>>
    BY DEF Scroll, Change, loop, source
  <1>2. Hints' = Hints
    BY <1>1, HintsUnchanged
  <1>3. (shown' # output') = TRUE /\ Owed' = Owed
    BY <1>0, <1>1 DEF Owed
  <1>4. QED
    BY <1>1, <1>2, <1>3 DEF Feed!Scroll

LEMMA HintRefines ==
  ASSUME FeedContext, SendWakeup
  PROVE  Feed!Hint \/ Feed!Lapse
  <1>0. sent \in Nat
    BY DEF FeedContext, IInv, TypeOK
  <1>1. /\ hint = "send"
        /\ Send(Wakeup(sent)) /\ Wakeup(sent) \in Messages /\ IsWakeup(Wakeup(sent))
        /\ Wakeup(sent).n = sent
        /\ UNCHANGED <<render, wake, sent, handled, dirty, shown, output, life>>
    BY <1>0, MessageTypes DEF SendWakeup, screen, loop, Wakeup
  <1>2. Owed
    BY <1>1 DEF Owed
  <1>3. CASE agg # "ended"
    <2>1. Hints' = Hints \cup {sent}
      BY <1>1, <1>3, SendHints
    <2>2. QED
      BY <1>1, <1>2, <2>1, OwedBoolean DEF Feed!Hint
  <1>4. CASE agg = "ended"
    <2>1. Hints' = Hints /\ life # "open"
      BY <1>1, <1>4, SendHints DEF FeedContext, IInv, LoopInv
    <2>2. QED
      BY <1>1, <1>2, <2>1, OwedBoolean DEF Feed!Lapse
  <1>5. QED
    BY <1>3, <1>4

\* The flag drops a hint only while another one is on its way.
LEMMA SwapRefines ==
  ASSUME FeedContext, Swap
  PROVE  Feed!Spare \/ Feed!Lapse \/ UNCHANGED Feed!vars
  <1>1. /\ hint = "swap" /\ UNCHANGED <<sent, handled, dirty, shown, output, life>>
        /\ UNCHANGED <<render, wake, events>>
        /\ hint' = IF flag THEN "none" ELSE "send"
    BY DEF Swap, screen, loop
  <1>2. Hints' = Hints /\ Owed
    BY <1>1, HintsUnchanged DEF Owed
  <1>3. CASE ~flag
    <2>1. Owed' = Owed
      BY <1>1, <1>3 DEF Owed
    <2>2. QED
      BY <1>1, <1>2, <2>1, HiddenStep
  <1>4. CASE flag /\ agg = "ended"
    <2>1. life # "open"
      BY <1>4 DEF FeedContext, IInv, LoopInv
    <2>2. QED
      BY <1>1, <1>2, <2>1, OwedBoolean DEF Feed!Lapse
  <1>5. CASE flag /\ agg # "ended"
    <2>1. WakeupIn(events) \/ WakeupIn(wake)
      BY <1>1, <1>5 DEF FeedContext, IInv, FlagInv, LoopInv
    <2>2. Hints # {}
      BY <2>1, NumbersEmpty DEF Hints
    <2>3. QED
      BY <1>1, <1>2, <2>2, OwedBoolean DEF Feed!Spare
  <1>6. QED
    BY <1>3, <1>4, <1>5

\* A Wakeup that arrives takes the place of an older one.
LEMMA ReceiveRefines ==
  ASSUME FeedContext, Receive
  PROVE  (\E n \in Hints : Feed!Merge(n)) \/ UNCHANGED Feed!vars
  <1> DEFINE m == Head(events)
  <1>0. /\ events # <<>> /\ events' = Tail(events)
        /\ UNCHANGED <<shown, output, sent, handled, dirty, render, life>>
        /\ UNCHANGED <<writer, notices, hint>>
        /\ wake' = IF IsWakeup(m) THEN <<m>> ELSE wake
    BY DEF Receive, screen, source
  <1>1. m \in Messages /\ events \in Seq(Messages)
    BY <1>0, WakeupInTail DEF FeedContext, IInv, TypeOK
  <1> HIDE DEF m
  <1>2. /\ Owed' = Owed
        /\ Numbers(render') = Numbers(render)
        /\ Numbers(events) = Numbers(events') \cup (IF IsWakeup(m) THEN {m.n} ELSE {})
    BY <1>0, <1>1, TailNumbers DEF Owed, m, Numbers, WakeupsIn
  <1>3. CASE ~IsWakeup(m)
    <2>1. Numbers(wake') = Numbers(wake)
      BY <1>0, <1>3 DEF Numbers, WakeupsIn
    <2>2. Hints' = Hints
      BY <1>2, <1>3, <2>1 DEF Hints
    <2>3. QED
      BY <1>0, <1>2, <2>2, HiddenStep
  <1>4. CASE IsWakeup(m)
    <2>1. Numbers(wake') = {m.n}
      BY <1>0, <1>1, <1>4, NumbersOne
    <2>2. Hints = Hints' \cup Numbers(wake) /\ m.n \in Hints' /\ m.n \in Numbers(events)
      BY <1>2, <1>4, <2>1 DEF Hints
    <2>3. CASE Numbers(wake) \subseteq Hints'
      <3>1. Hints' = Hints
        BY <2>2, <2>3
      <3>2. QED
        BY <1>0, <1>2, <3>1, HiddenStep
    <2>4. CASE ~(Numbers(wake) \subseteq Hints')
      <3>1. wake # <<>>
        BY <2>4, NumbersEmpty
      <3>2. wake = <<wake[1]>> /\ wake[1] \in Messages /\ wake[1].n \in Nat
        <4>1. wake \in Seq(Messages) /\ Len(wake) <= 1
          BY DEF FeedContext, IInv, TypeOK
        <4>2. Len(wake) \in Nat /\ Len(wake) # 0
          BY <3>1, <4>1
        <4>3. Len(wake) = 1
          <5>1. \A k \in Nat : k <= 1 /\ k # 0 => k = 1
            OBVIOUS
          <5>2. QED
            BY <4>1, <4>2, <5>1, Zenon
        <4>4. wake = <<wake[1]>> /\ wake[1] \in Messages
          BY <4>1, <4>3
        <4>5. QED
          BY <4>4 DEF Messages
      <3>3. PICK n : n = wake[1].n
        OBVIOUS
      <3>4. Numbers(wake) = {n} /\ n \in Nat /\ n <= m.n
        BY <2>2, <3>1, <3>2, <3>3, NumbersOne DEF FeedContext, FeedInv
      <3>5. n \notin Hints' /\ Hints' = Hints \ {n} /\ n \in Hints
        BY <2>2, <2>4, <3>4
      <3>6. m.n \in Hints /\ m.n # n /\ m.n \in Nat
        BY <1>1, <2>2, <3>5 DEF Messages
      <3>7. m.n > n
        BY <3>4, <3>6
      <3>8. Feed!Merge(n)
        BY <1>0, <1>2, <3>5, <3>6, <3>7, Zenon DEF Feed!Merge
      <3>9. QED
        BY <3>5, <3>8
    <2>5. QED
      BY <2>3, <2>4
  <1>5. QED
    BY <1>3, <1>4

\* The two parts of a tick are not seen, unless nobody listens any more.
LEMMA TickRefines ==
  ASSUME FeedContext, Tick \/ Forward
  PROVE  Feed!Lapse \/ UNCHANGED Feed!vars
  <1>0. /\ UNCHANGED <<sent, handled, dirty, shown, output, life, writer, notices, hint>>
    BY DEF Tick, Forward, screen, source
  <1>1. /\ render \in Seq(Messages) /\ batch \in Seq(Messages) /\ wake \in Seq(Messages)
        /\ Numbers(batch) = {} /\ Numbers(<<>>) = {}
    BY NumbersEmpty DEF FeedContext, IInv, TypeOK, FeedInv
  <1>2. /\ Numbers(render \o batch) = Numbers(render)
        /\ Numbers(render \o wake) = Numbers(render) \cup Numbers(wake)
    <2>1. Numbers(render \o batch) = Numbers(render) \cup Numbers(batch)
      BY <1>1, ConcatNumbers, Zenon
    <2>2. Numbers(render \o wake) = Numbers(render) \cup Numbers(wake)
      BY <1>1, ConcatNumbers, Zenon
    <2>3. QED
      BY <1>1, <2>1, <2>2
  <1>3. Owed' = Owed
    BY <1>0 DEF Owed
  <1>4. CASE agg' # "ended"
    <2>1. events' = events
      BY <1>4 DEF Tick, Forward
    <2>2. \/ render' = render \o batch /\ wake' = wake
          \/ render' = render \o wake /\ wake' = <<>>
      BY <1>4 DEF Tick, Flush, Forward
    <2>3. Hints' = Hints
      BY <1>1, <1>2, <2>1, <2>2 DEF Hints
    <2>4. QED
      BY <1>0, <1>3, <2>3, HiddenStep
  <1>5. CASE agg' = "ended"
    <2>1. ~listening
      BY <1>5 DEF Tick, Forward
    <2>2. life # "open"
      BY <2>1 DEF FeedContext, IInv, LoopInv
    <2>3. render' = render /\ events' = <<>> /\ (wake' = wake \/ wake' = <<>>)
      BY <1>5, <2>1 DEF Tick, Forward
    <2>4. Hints' \subseteq Hints
      BY <1>1, <2>3 DEF Hints
    <2>5. QED
      BY <1>0, <1>3, <2>2, <2>4, OwedBoolean DEF Feed!Lapse
  <1>6. QED
    BY <1>4, <1>5

LEMMA HandleRefines ==
  ASSUME FeedContext, Handle
  PROVE  Feed!HandleEvent \/ \E n \in Hints : Feed!HandleHint(n)
  <1> DEFINE m == Head(render)
  <1>0. /\ render # <<>> /\ render' = Tail(render)
        /\ UNCHANGED <<shown, output, sent, wake, events, life, writer, notices, hint>>
        /\ IF IsWakeup(m) THEN dirty' = TRUE /\ handled' = handled
           ELSE dirty' = dirty /\ handled' = m.n
    BY DEF Handle, source, loop
  <1>1. /\ m \in Messages /\ render \in Seq(Messages) /\ sent \in Nat /\ handled \in Nat
        /\ IF IsWakeup(m) THEN m.n <= handled ELSE m.n = handled + 1
        /\ m.n <= sent
    BY <1>0, WakeupInTail, BoundedSequences
       DEF FeedContext, IInv, TypeOK, FeedInv, EventsBeforeTheirFrame
  <1> HIDE DEF m
  <1>2. /\ Owed' = Owed
        /\ Numbers(wake') = Numbers(wake) /\ Numbers(events') = Numbers(events)
        /\ Numbers(render) = Numbers(render') \cup (IF IsWakeup(m) THEN {m.n} ELSE {})
    BY <1>0, <1>1, TailNumbers DEF Owed, m, Numbers, WakeupsIn
  <1>3. CASE ~IsWakeup(m)
    <2>1. Hints' = Hints
      BY <1>2, <1>3 DEF Hints
    <2>2. handled' = handled + 1 /\ handled < sent /\ dirty' = dirty
      BY <1>0, <1>1, <1>3
    <2>3. QED
      BY <1>0, <1>2, <2>1, <2>2 DEF Feed!HandleEvent
  <1>4. CASE IsWakeup(m)
    <2>1. PICK n : n = m.n
      OBVIOUS
    <2>2. Hints = Hints' \cup {n}
      BY <1>2, <1>4, <2>1 DEF Hints
    <2>3. n \in Hints /\ Hints' \in {Hints, Hints \ {n}}
      BY <2>2
    <2>4. Feed!HandleHint(n)
      BY <1>0, <1>1, <1>2, <1>4, <2>1, <2>3 DEF Feed!HandleHint
    <2>5. QED
      BY <2>3, <2>4
  <1>5. QED
    BY <1>3, <1>4

LEMMA StopRefines ==
  ASSUME FeedContext, StopListening
  PROVE  Feed!Lapse
  <1>0. /\ UNCHANGED <<sent, handled, dirty, shown, output, life, writer, notices, hint>>
        /\ UNCHANGED <<wake, events>> /\ render' = <<>>
        /\ life = "released" \/ agg = "ended"
    BY DEF StopListening, screen, source, loop
  <1>1. life # "open"
    BY <1>0 DEF FeedContext, IInv, LoopInv
  <1>2. Hints' \subseteq Hints
    BY <1>0, NumbersEmpty DEF Hints, Numbers, WakeupsIn
  <1>3. Owed' = Owed
    BY <1>0 DEF Owed
  <1>4. QED
    BY <1>0, <1>1, <1>2, <1>3, OwedBoolean DEF Feed!Lapse

LEMMA FeedRefines ==
  ASSUME FeedContext, [Next]_vars
  PROVE  [Feed!Next]_(Feed!vars)
  <1>1. CASE SendOsc \/ Parse \/ Advance \/ Scroll
    BY <1>1, EmitRefines, DrawRefines, ScrollRefines DEF Feed!Next
  <1>2. CASE SendWakeup \/ Swap
    BY <1>2, HintRefines, SwapRefines DEF Feed!Next
  <1>3. CASE Receive
    BY <1>3, ReceiveRefines DEF Feed!Next
  <1>4. CASE Tick \/ Forward \/ StopListening
    BY <1>4, TickRefines, StopRefines DEF Feed!Next
  <1>5. CASE Handle
    BY <1>5, HandleRefines DEF Feed!Next
  <1>6. CASE \/ Notify \/ TakeNotice \/ WriterEnds \/ Closed \/ Reset \/ TickerDue
             \/ UNCHANGED vars
    <2>1. UNCHANGED <<sent, handled, dirty, shown, output, life, render, wake, events>>
      BY <1>6 DEF Notify, TakeNotice, WriterEnds, Closed, Reset, TickerDue, vars,
                  screen, source, loop
    <2>2. notices \in Nat
      BY DEF FeedContext, IInv, TypeOK
    <2>3. Owed' = Owed
      BY <1>6, <2>2 DEF Notify, NotifyOf, TakeNotice, WriterEnds, Closed, Reset,
                        TickerDue, vars, screen, source, loop, Owed
    <2>4. QED
      BY <2>1, <2>3, HintsUnchanged, HiddenStep
  <1>7. CASE Paint
    <2>1. /\ dirty /\ dirty' = FALSE /\ shown' = output /\ output' = output
          /\ UNCHANGED <<sent, handled, life, render, wake, events, writer, notices, hint>>
      BY <1>7 DEF Paint, source, loop
    <2>2. Hints' = Hints /\ Owed' = Owed /\ (shown' # output') = FALSE
      BY <2>1, HintsUnchanged DEF Owed
    <2>3. QED
      BY <2>1, <2>2 DEF Feed!Paint, Feed!Next
  <1>8. CASE Shutdown \/ Release
    <2>1. /\ life' # "open"
          /\ UNCHANGED <<sent, handled, dirty, shown, output, render, wake, events>>
          /\ UNCHANGED <<writer, notices, hint>>
      BY <1>8 DEF Shutdown, Release, screen, source, loop
    <2>2. Hints' = Hints /\ Owed' = Owed
      BY <2>1, HintsUnchanged DEF Owed
    <2>3. CASE life = "open"
      BY <2>1, <2>2, <2>3 DEF Feed!Close, Feed!Next
    <2>4. CASE life # "open"
      BY <2>1, <2>2, <2>4, HiddenStep
    <2>5. QED
      BY <2>3, <2>4
  <1>9. QED
    BY <1>1, <1>2, <1>3, <1>4, <1>5, <1>6, <1>7, <1>8 DEF Next

\* The event loop keeps the promise of EventFeed, whatever is merged, dropped or
\* cleared on the way, in a terminal of any kind.
THEOREM EventsImplement == Spec => ImplementsEventFeed
  <1>1. Init => Feed!Init
    <2>1. SUFFICES ASSUME Init PROVE Feed!Init
      OBVIOUS
    <2>2. /\ render = <<>> /\ wake = <<>> /\ events = <<>> /\ sent = 0 /\ handled = 0
          /\ dirty = FALSE /\ shown = 0 /\ output = 0 /\ life = "open"
          /\ writer = "reading" /\ notices = 0 /\ hint = "none"
      BY <2>1 DEF Init
    <2>3. Hints = {} /\ Owed = FALSE
      BY <2>2, NumbersEmpty DEF Hints, Owed
    <2>4. QED
      BY <2>2, <2>3 DEF Feed!Init
  <1>2. Init => FeedInv
    <2>1. SUFFICES ASSUME Init PROVE FeedInv
      OBVIOUS
    <2>2. /\ render = <<>> /\ batch = <<>> /\ events = <<>> /\ wake = <<>>
          /\ shown = 0 /\ output = 0
      BY <2>1 DEF Init
    <2>3. QED
      BY <2>2 DEF FeedInv, Bounded, Ascending, WakeupsIn, WakeupIn
  <1>3. IInv /\ FeedInv /\ [Next]_vars => FeedInv'
    BY FeedStep DEF IInv
  <1>4. FeedContext /\ [Next]_vars => [Feed!Next]_(Feed!vars)
    BY FeedRefines
  <1>5. IInv /\ OrderInv /\ FeedInv /\ EventsBeforeTheirFrame => FeedContext
    BY DEF FeedContext
  <1>6. QED
    BY <1>1, <1>2, <1>3, <1>4, <1>5, EventsInvariant, EventsAccounted, EventsInOrder, PTL
       DEF Spec, ImplementsEventFeed, Feed!Spec

=============================================================================
