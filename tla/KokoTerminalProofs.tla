------------------------- MODULE KokoTerminalProofs ------------------------
(***************************************************************************)
(* For any number of attempts, sizes and queue places: the types, what an  *)
(* open Koko terminal shows, that sessions nobody holds have lost their    *)
(* sender, that a closed terminal stays closed, that the geometry the      *)
(* server ends up with is the one on screen, that exactly the dials which  *)
(* no longer count are cancelled, and the refinement of OneLink.           *)
(*                                                                         *)
(* AttemptInv says where the dial and the session of each attempt can be   *)
(* with respect to one another and that no attempt carries the generation  *)
(* of a closed terminal; BackendInv ties the installed backend to the      *)
(* latest attempt, whose result is already handled.                        *)
(***************************************************************************)
EXTENDS KokoTerminal, TLAPS

AttemptInv ==
  \A g \in Attempts :
    /\ phase[g] = "none" => handler[g] = "none"
    /\ phase[g] # "none" => g <= generation /\ (life # "open" => g < generation)
    /\ phase[g] \in {"none", "dialing", "err"} => session[g] = "none"
    /\ session[g] = "none" => queue[g] = <<>>

BackendInv ==
  backend # None =>
    /\ life = "open"
    /\ backend = generation
    /\ phase[backend] = "over"

OpenInv == life = "open" => generation <= MaxAttempts

IInv ==
  /\ TypeOK
  /\ OpenInv
  /\ AttemptInv
  /\ BackendInv
  /\ ConnectedIffBackend
  /\ AbandonedSessionsClosed

USE KokoAssumption DEF None, Attempts

\* What try_send may put into the queues, and where.
LEMMA TrySendQueues ==
  ASSUME TypeOK, NEW g \in Attempts, NEW c \in Commands
  PROVE  /\ TrySend(g, c) \in [Attempts -> Seq(Commands)]
         /\ \A h \in Attempts : Len(TrySend(g, c)[h]) <= QueueCap
         /\ \A h \in Attempts : h # g => TrySend(g, c)[h] = queue[h]
         /\ session[g] # "running" => TrySend(g, c)[g] = queue[g]
<1>1. queue[g] \in Seq(Commands) /\ Len(queue[g]) <= QueueCap
  BY DEF TypeOK
<1>2. Append(queue[g], c) \in Seq(Commands)
  BY <1>1
<1>3. Len(Append(queue[g], c)) = Len(queue[g]) + 1
  BY <1>1
<1>4. CASE Fits(g)
  <2>1. Len(queue[g]) < QueueCap
    BY <1>4 DEF Fits
  <2>2. Len(Append(queue[g], c)) <= QueueCap
    BY <2>1, <1>1, <1>3
  <2> QED BY <1>4, <1>2, <2>2 DEF TypeOK, TrySend, Fits
<1>5. CASE ~Fits(g)
  BY <1>5 DEF TypeOK, TrySend
<1> QED BY <1>4, <1>5

LEMMA CommandsAre ==
  /\ Shutdown \in Commands
  /\ Write \in Commands
  /\ \A s \in Sizes : ResizeTo(s) \in Commands
BY DEF Commands

\* DropBackend shuts the queue of g and no other.
LEMMA DropBackendEffect ==
  ASSUME TypeOK, NEW g \in Attempts \cup {None}, DropBackend(g)
  PROVE  /\ queue' \in [Attempts -> Seq(Commands)]
         /\ \A h \in Attempts : Len(queue'[h]) <= QueueCap
         /\ open' \in [Attempts -> BOOLEAN]
         /\ \A h \in Attempts : h # g => queue'[h] = queue[h] /\ open'[h] = open[h]
         /\ g # None => ~open'[g]
         /\ \A h \in Attempts : session[h] # "running" => queue'[h] = queue[h]
<1>1. CASE g = None
  BY <1>1 DEF DropBackend, TypeOK
<1>2. CASE g # None
  <2>1. queue' = TrySend(g, Shutdown) /\ open' = [open EXCEPT ![g] = FALSE]
    BY <1>2 DEF DropBackend
  <2>2. g \in Attempts
    BY <1>2
  <2>3. Shutdown \in Commands
    BY CommandsAre
  <2>4. /\ queue' \in [Attempts -> Seq(Commands)]
        /\ \A h \in Attempts : Len(queue'[h]) <= QueueCap
        /\ \A h \in Attempts : h # g => queue'[h] = queue[h]
        /\ session[g] # "running" => queue'[g] = queue[g]
    BY <2>1, <2>2, <2>3, TrySendQueues
  <2>5. /\ open' \in [Attempts -> BOOLEAN]
        /\ \A h \in Attempts : h # g => open'[h] = open[h]
        /\ ~open'[g]
    BY <2>1, <2>2 DEF TypeOK
  <2>6. ASSUME NEW h \in Attempts, session[h] # "running"
        PROVE  queue'[h] = queue[h]
    BY <2>4, <2>6
  <2> QED BY <2>2, <2>4, <2>5, <2>6
<1> QED BY <1>1, <1>2

LEMMA InitIInv == Init => IInv
<1> SUFFICES ASSUME NEW first \in {None, 1}, StartWith(first)
             PROVE  IInv
  BY DEF Init
<1> USE DEF StartWith
<1>1. phase \in [Attempts -> {"none", "dialing", "ok", "err", "over"}]
  OBVIOUS
<1>2. handler \in [Attempts -> {"none", "armed", "fired", "done"}]
  OBVIOUS
<1>3. pending \in [Attempts -> Sizes \cup {None}]
  OBVIOUS
<1>4. queue \in [Attempts -> Seq(Commands)] /\ \A g \in Attempts : Len(queue[g]) = 0
  OBVIOUS
<1>5. TypeOK
  <2>0. generation \in 0 .. MaxAttempts + 1
    <3>1. first \in 0 .. MaxAttempts + 1
      BY SMT
    <3> QED BY <3>1
  <2>1. /\ conn \in {"connecting", "disconnected"}
        /\ backend = None /\ size \in Sizes /\ life = "open" /\ asking \in BOOLEAN
    OBVIOUS
  <2>2. /\ cancel \in [Attempts -> BOOLEAN]
        /\ session \in [Attempts -> {"none", "running", "ended"}]
        /\ open \in [Attempts -> BOOLEAN]
        /\ server \in [Attempts -> Sizes \cup {None}]
        /\ missed \in [Attempts -> BOOLEAN]
    OBVIOUS
  <2>3. \A g \in Attempts : Len(queue[g]) <= QueueCap
    BY <1>4
  <2> QED BY <1>1, <1>2, <1>3, <1>4, <2>0, <2>1, <2>2, <2>3 DEF TypeOK
<1>6. OpenInv /\ AttemptInv
  BY DEF OpenInv, AttemptInv
<1>7. BackendInv /\ ConnectedIffBackend /\ AbandonedSessionsClosed
  BY DEF BackendInv, ConnectedIffBackend, AbandonedSessionsClosed
<1> QED BY <1>5, <1>6, <1>7 DEF IInv

LEMMA ConnectIInv ==
  ASSUME IInv, life = "open", Connect, asking' \in BOOLEAN
  PROVE  IInv'
<1> DEFINE g == generation + 1
<1>1. /\ g \in Attempts
      /\ generation \in Nat
      /\ generation' = g
      /\ conn' = "connecting"
      /\ cancel' = [h \in Attempts |-> cancel[h] \/ h = generation]
      /\ backend' = None
      /\ phase' = [phase EXCEPT ![g] = "dialing"]
      /\ handler' = [handler EXCEPT ![g] = "armed"]
      /\ pending' = [pending EXCEPT ![g] = size]
      /\ UNCHANGED <<size, life, session, server, missed>>
  BY DEF IInv, TypeOK, Connect, CancelDial
<1> HIDE DEF g
<1>2. /\ queue' \in [Attempts -> Seq(Commands)]
      /\ \A h \in Attempts : Len(queue'[h]) <= QueueCap
      /\ open' \in [Attempts -> BOOLEAN]
      /\ \A h \in Attempts : h # backend => queue'[h] = queue[h] /\ open'[h] = open[h]
      /\ backend # None => ~open'[backend]
      /\ \A h \in Attempts : session[h] # "running" => queue'[h] = queue[h]
  <2>1. backend \in Attempts \cup {None} /\ TypeOK
    BY DEF IInv, TypeOK
  <2>2. DropBackend(backend)
    BY DEF Connect
  <2> QED BY <2>1, <2>2, DropBackendEffect
<1>3. cancel' \in [Attempts -> BOOLEAN]
  BY <1>1
<1>4. TypeOK'
  BY <1>1, <1>2, <1>3 DEF IInv, TypeOK
<1>5. AttemptInv' /\ OpenInv'
  <2>1. OpenInv'
    BY <1>1 DEF OpenInv, g
  <2>0. phase[g] = "none" /\ session[g] = "none"
    BY <1>1 DEF IInv, AttemptInv, g
  <2>4. ASSUME NEW h \in Attempts
        PROVE  /\ h <= generation => h <= generation'
               /\ h = g => h <= generation'
    BY <1>1 DEF g
  <2>2. ASSUME NEW h \in Attempts
        PROVE  /\ phase'[h] = "none" => handler'[h] = "none"
               /\ phase'[h] # "none" =>
                    h <= generation' /\ (life' # "open" => h < generation')
               /\ phase'[h] \in {"none", "dialing", "err"} => session'[h] = "none"
    <3>1. life' = "open"
      BY <1>1
    <3>2. CASE h = g
      BY <1>1, <2>0, <2>4, <3>1, <3>2 DEF IInv, TypeOK
    <3>3. CASE h # g
      BY <1>1, <2>4, <3>1, <3>3 DEF IInv, TypeOK, AttemptInv
    <3> QED BY <3>2, <3>3
  <2>3. \A h \in Attempts : session'[h] = "none" => queue'[h] = <<>>
    BY <1>1, <1>2 DEF IInv, AttemptInv
  <2> QED BY <2>1, <2>2, <2>3 DEF AttemptInv
<1>6. BackendInv' /\ ConnectedIffBackend'
  BY <1>1 DEF BackendInv, ConnectedIffBackend
<1>7. AbandonedSessionsClosed'
  <2> SUFFICES ASSUME NEW h \in Attempts, session'[h] = "running"
               PROVE  open'[h] <=> backend' = h \/ phase'[h] = "ok"
    BY DEF AbandonedSessionsClosed
  <2>1. h # g /\ phase'[h] = phase[h]
    BY <1>1 DEF IInv, TypeOK, AttemptInv, g
  <2>2. open[h] <=> backend = h \/ phase[h] = "ok"
    BY <1>1 DEF IInv, AbandonedSessionsClosed
  <2>3. CASE backend = h
    BY <2>1, <2>3, <1>1, <1>2 DEF IInv, BackendInv, TypeOK
  <2>4. CASE backend # h
    BY <2>1, <2>2, <2>4, <1>1, <1>2
  <2> QED BY <2>3, <2>4
<1> QED BY <1>4, <1>5, <1>6, <1>7 DEF IInv

\* The terminal goes: whatever happens to the entity, its generation is spent.
LEMMA LeaveIInv ==
  ASSUME IInv, NEW l \in {"shut", "released"}, Leave(l)
  PROVE  IInv'
<1>1. /\ generation \in Nat
      /\ generation <= MaxAttempts
      /\ generation' = generation + 1
      /\ life = "open"
      /\ life' = l
      /\ cancel' = [h \in Attempts |-> cancel[h] \/ h = generation]
      /\ backend' = None
      /\ UNCHANGED <<conn, size, asking, phase, handler, session, pending, server, missed>>
  BY DEF IInv, TypeOK, Leave, CancelDial, OpenInv
<1>2. /\ queue' \in [Attempts -> Seq(Commands)]
      /\ \A h \in Attempts : Len(queue'[h]) <= QueueCap
      /\ open' \in [Attempts -> BOOLEAN]
      /\ \A h \in Attempts : h # backend => queue'[h] = queue[h] /\ open'[h] = open[h]
      /\ backend # None => ~open'[backend]
      /\ \A h \in Attempts : session[h] # "running" => queue'[h] = queue[h]
  <2>1. backend \in Attempts \cup {None} /\ TypeOK
    BY DEF IInv, TypeOK
  <2>2. DropBackend(backend)
    BY DEF Leave
  <2> QED BY <2>1, <2>2, DropBackendEffect
<1>3. cancel' \in [Attempts -> BOOLEAN]
  BY <1>1
<1>4. TypeOK'
  BY <1>1, <1>2, <1>3 DEF IInv, TypeOK
<1>5. AttemptInv' /\ OpenInv'
  BY <1>1, <1>2 DEF IInv, TypeOK, AttemptInv, OpenInv
<1>6. BackendInv' /\ ConnectedIffBackend'
  BY <1>1 DEF BackendInv, ConnectedIffBackend
<1>7. AbandonedSessionsClosed'
  <2> SUFFICES ASSUME NEW h \in Attempts, session'[h] = "running"
               PROVE  open'[h] <=> backend' = h \/ phase'[h] = "ok"
    BY DEF AbandonedSessionsClosed
  <2>2. open[h] <=> backend = h \/ phase[h] = "ok"
    BY <1>1 DEF IInv, AbandonedSessionsClosed
  <2>3. CASE backend = h
    BY <2>3, <1>1, <1>2 DEF IInv, BackendInv, TypeOK
  <2>4. CASE backend # h
    BY <2>2, <2>4, <1>1, <1>2
  <2> QED BY <2>3, <2>4
<1> QED BY <1>4, <1>5, <1>6, <1>7 DEF IInv

\* A step that leaves the attempts and the backend alone.
LEMMA QuietIInv ==
  ASSUME IInv, TypeOK',
         UNCHANGED <<generation, conn, backend, phase, handler, session, open>>,
         life' = life \/ (life = "shut" /\ life' = "released"),
         \A h \in Attempts : session[h] = "none" => queue'[h] = queue[h]
  PROVE  IInv'
<1>1. OpenInv' /\ AttemptInv'
  BY DEF IInv, TypeOK, OpenInv, AttemptInv
<1>2. BackendInv'
  BY DEF IInv, BackendInv
<1>3. ConnectedIffBackend' /\ AbandonedSessionsClosed'
  BY DEF IInv, ConnectedIffBackend, AbandonedSessionsClosed
<1> QED BY <1>1, <1>2, <1>3 DEF IInv

LEMMA SendSizeTypes ==
  ASSUME IInv, NEW g \in Attempts, NEW s \in Sizes, SendSize(g, s)
  PROVE  /\ queue' \in [Attempts -> Seq(Commands)]
         /\ \A h \in Attempts : Len(queue'[h]) <= QueueCap
         /\ \A h \in Attempts : session[h] # "running" => queue'[h] = queue[h]
         /\ missed' \in [Attempts -> BOOLEAN]
<1>1. queue' = TrySend(g, ResizeTo(s))
  BY DEF SendSize
<1>2. ResizeTo(s) \in Commands /\ TypeOK
  BY CommandsAre DEF IInv
<1>3. /\ queue' \in [Attempts -> Seq(Commands)]
      /\ \A h \in Attempts : Len(queue'[h]) <= QueueCap
      /\ \A h \in Attempts : h # g => queue'[h] = queue[h]
      /\ session[g] # "running" => queue'[g] = queue[g]
  BY <1>1, <1>2, TrySendQueues
<1>4. ASSUME NEW h \in Attempts, session[h] # "running"
      PROVE  queue'[h] = queue[h]
  BY <1>3, <1>4
<1>5. missed' \in [Attempts -> BOOLEAN]
  <2>1. (session[g] = "running" /\ ~Fits(g)) \in BOOLEAN
    OBVIOUS
  <2> QED BY <2>1 DEF SendSize, IInv, TypeOK
<1> QED BY <1>3, <1>4, <1>5

LEMMA UserIInv ==
  ASSUME IInv,
         \/ ChooseAsset \/ AskToken \/ TokenArrives \/ TokenRefused
         \/ \E s \in Sizes : Resize(s)
         \/ Nudge \/ Input \/ Leave("shut") \/ Leave("released") \/ Release
  PROVE  IInv'
<1>0. TypeOK
  BY DEF IInv
<1>1. CASE ChooseAsset
  <2>1. life = "open" /\ Connect /\ asking' \in BOOLEAN
    BY <1>0, <1>1 DEF ChooseAsset, TypeOK
  <2> QED BY <2>1, ConnectIInv
<1>2. CASE AskToken \/ TokenRefused
  <2>1. asking' \in BOOLEAN
        /\ UNCHANGED <<generation, conn, backend, size, life, task, wire>>
    BY <1>2 DEF AskToken, TokenRefused
  <2>2. TypeOK'
    BY <1>0, <2>1 DEF TypeOK, task, wire
  <2> QED BY <2>1, <2>2, QuietIInv DEF task, wire
<1>3. CASE TokenArrives
  <2>0. asking' \in BOOLEAN
    BY <1>3 DEF TokenArrives
  <2>1. CASE life = "open"
    <3>1. Connect
      BY <1>3, <2>1 DEF TokenArrives
    <3> QED BY <2>0, <2>1, <3>1, ConnectIInv
  <2>2. CASE life # "open"
    <3>1. UNCHANGED <<generation, conn, backend, size, life, task, wire>>
      BY <1>3, <2>2 DEF TokenArrives
    <3>2. TypeOK'
      BY <1>0, <2>0, <3>1 DEF TypeOK, task, wire
    <3> QED BY <3>1, <3>2, QuietIInv DEF task, wire
  <2> QED BY <2>1, <2>2
<1>4. ASSUME NEW s \in Sizes, Resize(s)
      PROVE  IInv'
  <2>1. size' = s /\ UNCHANGED <<generation, conn, backend, life, asking, task,
                                 session, open, pending, server>>
    BY <1>4 DEF Resize
  <2>2. /\ queue' \in [Attempts -> Seq(Commands)]
        /\ \A h \in Attempts : Len(queue'[h]) <= QueueCap
        /\ \A h \in Attempts : session[h] # "running" => queue'[h] = queue[h]
        /\ missed' \in [Attempts -> BOOLEAN]
    <3>1. CASE backend = None
      <4>1. UNCHANGED <<queue, missed>>
        BY <1>4, <3>1 DEF Resize
      <4> QED BY <1>0, <4>1 DEF TypeOK
    <3>2. CASE backend # None
      <4>1. SendSize(backend, s) /\ backend \in Attempts
        BY <1>0, <1>4, <3>2 DEF Resize, TypeOK
      <4> QED BY <4>1, SendSizeTypes
    <3> QED BY <3>1, <3>2
  <2>3. TypeOK'
    BY <1>0, <2>1, <2>2 DEF TypeOK, task
  <2> QED BY <2>1, <2>2, <2>3, QuietIInv DEF task
<1>5. CASE Nudge
  <2>1. SendSize(backend, size) /\ backend \in Attempts /\ size \in Sizes
        /\ UNCHANGED <<ui, task, session, open, pending, server>>
    BY <1>0, <1>5 DEF Nudge, TypeOK
  <2>2. /\ queue' \in [Attempts -> Seq(Commands)]
        /\ \A h \in Attempts : Len(queue'[h]) <= QueueCap
        /\ \A h \in Attempts : session[h] # "running" => queue'[h] = queue[h]
        /\ missed' \in [Attempts -> BOOLEAN]
    BY <2>1, SendSizeTypes
  <2>3. TypeOK'
    BY <1>0, <2>1, <2>2 DEF TypeOK, ui, task
  <2> QED BY <2>1, <2>2, <2>3, QuietIInv DEF ui, task
<1>6. CASE Input
  <2>1. queue' = TrySend(backend, Write) /\ backend \in Attempts
        /\ UNCHANGED <<ui, task, session, open, pending, server, missed>>
    BY <1>0, <1>6 DEF Input, TypeOK
  <2>2. /\ queue' \in [Attempts -> Seq(Commands)]
        /\ \A h \in Attempts : Len(queue'[h]) <= QueueCap
        /\ \A h \in Attempts : h # backend => queue'[h] = queue[h]
        /\ session[backend] # "running" => queue'[backend] = queue[backend]
    BY <1>0, <2>1, TrySendQueues, CommandsAre
  <2>3. TypeOK'
    BY <1>0, <2>1, <2>2 DEF TypeOK, ui, task
  <2>4. \A h \in Attempts : session[h] = "none" => queue'[h] = queue[h]
    BY <2>2
  <2> QED BY <2>1, <2>3, <2>4, QuietIInv DEF ui, task
<1>7. CASE Leave("shut") \/ Leave("released")
  BY <1>7, LeaveIInv
<1>8. CASE Release
  <2>1. life = "shut" /\ life' = "released"
        /\ UNCHANGED <<generation, conn, backend, size, asking, task, wire>>
    BY <1>8 DEF Release
  <2>2. TypeOK'
    BY <1>0, <2>1 DEF TypeOK, task, wire
  <2> QED BY <2>1, <2>2, QuietIInv DEF task, wire
<1> QED BY <1>1, <1>2, <1>3, <1>4, <1>5, <1>6, <1>7, <1>8

LEMMA EndSessionIInv ==
  ASSUME IInv, NEW g \in Attempts, EndSession(g)
  PROVE  IInv'
<1>1. /\ session[g] = "running"
      /\ session' = [session EXCEPT ![g] = "ended"]
      /\ queue' = [queue EXCEPT ![g] = <<>>]
      /\ pending' = [pending EXCEPT ![g] = None]
      /\ server' = [server EXCEPT ![g] = None]
      /\ missed' = [missed EXCEPT ![g] = FALSE]
      /\ handler' = [handler EXCEPT ![g] = "fired"]
      /\ UNCHANGED <<generation, conn, backend, size, life, asking, phase, cancel, open>>
  BY DEF EndSession, ui
<1>2. queue' \in [Attempts -> Seq(Commands)] /\ \A h \in Attempts : Len(queue'[h]) <= QueueCap
  <2>1. <<>> \in Seq(Commands) /\ Len(<<>>) = 0
    OBVIOUS
  <2> QED BY <2>1, <1>1 DEF IInv, TypeOK
<1>3. TypeOK'
  BY <1>1, <1>2 DEF IInv, TypeOK
<1>4. OpenInv' /\ BackendInv' /\ ConnectedIffBackend'
  BY <1>1 DEF IInv, OpenInv, BackendInv, ConnectedIffBackend
<1>5. AttemptInv'
  <2>1. phase[g] # "none"
    BY <1>1 DEF IInv, AttemptInv
  <2> QED BY <1>1, <2>1 DEF IInv, TypeOK, AttemptInv
<1>6. AbandonedSessionsClosed'
  BY <1>1 DEF IInv, TypeOK, AbandonedSessionsClosed
<1> QED BY <1>3, <1>4, <1>5, <1>6 DEF IInv

LEMMA SessionIInv ==
  ASSUME IInv, NEW g \in Attempts,
         \/ TakeResize(g) \/ ResizeFails(g) \/ TakeWrite(g) \/ TakeShutdown(g)
         \/ QueueClosed(g) \/ ServerConnects(g) \/ SocketFails(g)
  PROVE  IInv'
<1>0. TypeOK
  BY DEF IInv
<1>1. CASE EndSession(g)
  BY <1>1, EndSessionIInv
<1>2. ASSUME NextCommand(g), queue' = [queue EXCEPT ![g] = Tail(@)]
      PROVE  /\ queue' \in [Attempts -> Seq(Commands)]
             /\ \A h \in Attempts : Len(queue'[h]) <= QueueCap
             /\ \A h \in Attempts : session[h] = "none" => queue'[h] = queue[h]
  <2>1. queue[g] \in Seq(Commands) /\ queue[g] # <<>> /\ Len(queue[g]) <= QueueCap
        /\ session[g] = "running"
    BY <1>0, <1>2 DEF TypeOK, NextCommand
  <2>2. Tail(queue[g]) \in Seq(Commands) /\ Len(Tail(queue[g])) <= QueueCap
    BY <2>1
  <2> QED BY <1>0, <1>2, <2>1, <2>2 DEF TypeOK
<1>3. ASSUME NextCommand(g), Head(queue[g]).kind = "resize"
      PROVE  Head(queue[g]).size \in Sizes
  <2>1. Head(queue[g]) \in Commands
    BY <1>0, <1>3 DEF TypeOK, NextCommand
  <2> QED BY <1>3, <2>1 DEF Commands, ResizeTo, Write, Shutdown
<1>4. CASE TakeResize(g)
  <2>1. NextCommand(g) /\ queue' = [queue EXCEPT ![g] = Tail(@)]
        /\ RecordResize(g, Head(queue[g]).size)
        /\ UNCHANGED <<ui, task, session, open, missed>>
    BY <1>4 DEF TakeResize
  <2>2. pending' \in [Attempts -> Sizes \cup {None}]
        /\ server' \in [Attempts -> Sizes \cup {None}]
    <3>1. Head(queue[g]).size \in Sizes
      BY <1>3, <1>4 DEF TakeResize
    <3> QED BY <1>0, <2>1, <3>1 DEF RecordResize, TypeOK
  <2>3. TypeOK'
    BY <1>0, <1>2, <2>1, <2>2 DEF TypeOK, ui, task
  <2> QED BY <1>2, <2>1, <2>3, QuietIInv DEF ui, task
<1>5. CASE ResizeFails(g)
  <2>1. NextCommand(g) /\ queue' = [queue EXCEPT ![g] = Tail(@)]
        /\ missed' = [missed EXCEPT ![g] = TRUE]
        /\ UNCHANGED <<ui, task, session, open, pending, server>>
    BY <1>5 DEF ResizeFails
  <2>3. TypeOK'
    BY <1>0, <1>2, <2>1 DEF TypeOK, ui, task
  <2> QED BY <1>2, <2>1, <2>3, QuietIInv DEF ui, task
<1>6. CASE TakeWrite(g) /\ ~EndSession(g)
  <2>1. NextCommand(g) /\ queue' = [queue EXCEPT ![g] = Tail(@)]
        /\ UNCHANGED <<ui, task, session, open, pending, server, missed>>
    BY <1>6 DEF TakeWrite
  <2>3. TypeOK'
    BY <1>0, <1>2, <2>1 DEF TypeOK, ui, task
  <2> QED BY <1>2, <2>1, <2>3, QuietIInv DEF ui, task
<1>7. CASE ServerConnects(g)
  <2>1. server' = [server EXCEPT ![g] = pending[g]]
        /\ pending' = [pending EXCEPT ![g] = None]
        /\ UNCHANGED <<ui, task, session, queue, open, missed>>
    BY <1>7 DEF ServerConnects
  <2>3. TypeOK'
    BY <1>0, <2>1 DEF TypeOK, ui, task
  <2> QED BY <2>1, <2>3, QuietIInv DEF ui, task
<1> QED BY <1>1, <1>4, <1>5, <1>6, <1>7 DEF TakeShutdown, QueueClosed, SocketFails

LEMMA DialIInv ==
  ASSUME IInv, NEW g \in Attempts, DialOk(g) \/ DialFails(g)
  PROVE  IInv'
<1>1. CASE DialOk(g)
  <2>1. /\ phase[g] = "dialing"
        /\ phase' = [phase EXCEPT ![g] = "ok"]
        /\ session' = [session EXCEPT ![g] = "running"]
        /\ open' = [open EXCEPT ![g] = TRUE]
        /\ UNCHANGED <<generation, conn, backend, size, life, asking,
                       cancel, handler, queue, pending, server, missed>>
    BY <1>1 DEF DialOk, ui
  <2>2. TypeOK'
    BY <2>1 DEF IInv, TypeOK
  <2>3. OpenInv' /\ ConnectedIffBackend'
    BY <2>1 DEF IInv, OpenInv, ConnectedIffBackend
  <2>4. AttemptInv'
    BY <2>1 DEF IInv, TypeOK, AttemptInv
  <2>5. BackendInv'
    BY <2>1 DEF IInv, TypeOK, BackendInv
  <2>6. AbandonedSessionsClosed'
    BY <2>1 DEF IInv, TypeOK, AbandonedSessionsClosed
  <2> QED BY <2>2, <2>3, <2>4, <2>5, <2>6 DEF IInv
<1>2. CASE DialFails(g)
  <2>1. /\ phase[g] = "dialing"
        /\ phase' = [phase EXCEPT ![g] = "err"]
        /\ handler' = [handler EXCEPT ![g] = "fired"]
        /\ pending' = [pending EXCEPT ![g] = None]
        /\ UNCHANGED <<generation, conn, backend, size, life, asking,
                       cancel, session, queue, open, server, missed>>
    BY <1>2 DEF DialFails, ui
  <2>2. TypeOK'
    BY <2>1 DEF IInv, TypeOK
  <2>3. OpenInv' /\ ConnectedIffBackend'
    BY <2>1 DEF IInv, OpenInv, ConnectedIffBackend
  <2>4. AttemptInv'
    BY <2>1 DEF IInv, TypeOK, AttemptInv
  <2>5. BackendInv'
    BY <2>1 DEF IInv, TypeOK, BackendInv
  <2>6. AbandonedSessionsClosed'
    BY <2>1 DEF IInv, TypeOK, AttemptInv, AbandonedSessionsClosed
  <2> QED BY <2>2, <2>3, <2>4, <2>5, <2>6 DEF IInv
<1> QED BY <1>1, <1>2

\* A terminal that is not open has used up the generation of every attempt.
LEMMA CurrentIsOpen ==
  ASSUME IInv, NEW g \in Attempts, phase[g] # "none", StillCurrent(g)
  PROVE  life = "open" /\ generation = g
BY DEF IInv, TypeOK, AttemptInv, StillCurrent

LEMMA HandleOkIInv ==
  ASSUME IInv, NEW g \in Attempts, HandleOk(g)
  PROVE  IInv'
<1>0. /\ phase[g] = "ok"
      /\ phase' = [phase EXCEPT ![g] = "over"]
      /\ UNCHANGED <<generation, size, life, asking, cancel, handler,
                     session, pending, server>>
      /\ TypeOK
      /\ backend # g
  BY DEF HandleOk, IInv, BackendInv
<1>1. CASE StillCurrent(g)
  <2>1. life = "open" /\ generation = g
    BY <1>0, <1>1, CurrentIsOpen
  <2>2. backend = None
    BY <1>0, <2>1 DEF IInv, BackendInv
  <2>3. conn' = "connected" /\ backend' = g /\ SendSize(g, size) /\ UNCHANGED open
    BY <1>1 DEF HandleOk
  <2>4. /\ queue' \in [Attempts -> Seq(Commands)]
        /\ \A h \in Attempts : Len(queue'[h]) <= QueueCap
        /\ \A h \in Attempts : session[h] # "running" => queue'[h] = queue[h]
        /\ missed' \in [Attempts -> BOOLEAN]
    <3>1. size \in Sizes
      BY <1>0 DEF TypeOK
    <3> QED BY <2>3, <3>1, SendSizeTypes
  <2>5. TypeOK'
    BY <1>0, <2>3, <2>4 DEF TypeOK
  <2>6. OpenInv' /\ ConnectedIffBackend'
    BY <1>0, <2>1, <2>3 DEF IInv, OpenInv, ConnectedIffBackend
  <2>7. AttemptInv'
    BY <1>0, <2>1, <2>4 DEF IInv, TypeOK, AttemptInv
  <2>8. BackendInv'
    BY <1>0, <2>1, <2>3 DEF TypeOK, BackendInv
  <2>9. AbandonedSessionsClosed'
    BY <1>0, <2>2, <2>3 DEF IInv, TypeOK, AbandonedSessionsClosed
  <2> QED BY <2>5, <2>6, <2>7, <2>8, <2>9 DEF IInv
<1>2. CASE ~StillCurrent(g)
  <2>1. DropBackend(g) /\ UNCHANGED <<conn, backend, missed>>
    BY <1>2 DEF HandleOk
  <2>2. /\ queue' \in [Attempts -> Seq(Commands)]
        /\ \A h \in Attempts : Len(queue'[h]) <= QueueCap
        /\ open' \in [Attempts -> BOOLEAN]
        /\ \A h \in Attempts : h # g => queue'[h] = queue[h] /\ open'[h] = open[h]
        /\ g # None => ~open'[g]
        /\ \A h \in Attempts : session[h] # "running" => queue'[h] = queue[h]
    BY <1>0, <2>1, DropBackendEffect
  <2>3. ~open'[g]
    BY <2>2
  <2>5. TypeOK'
    BY <1>0, <2>1, <2>2 DEF TypeOK
  <2>6. OpenInv' /\ ConnectedIffBackend'
    BY <1>0, <2>1 DEF IInv, OpenInv, ConnectedIffBackend
  <2>7. AttemptInv'
    BY <1>0, <2>2 DEF IInv, TypeOK, AttemptInv
  <2>8. BackendInv'
    BY <1>0, <2>1 DEF IInv, TypeOK, BackendInv
  <2>9. AbandonedSessionsClosed'
    BY <1>0, <2>1, <2>2, <2>3 DEF IInv, TypeOK, AbandonedSessionsClosed
  <2> QED BY <2>5, <2>6, <2>7, <2>8, <2>9 DEF IInv
<1> QED BY <1>1, <1>2

LEMMA HandleErrIInv ==
  ASSUME IInv, NEW g \in Attempts, HandleErr(g)
  PROVE  IInv'
<1>0. /\ phase[g] = "err"
      /\ phase' = [phase EXCEPT ![g] = "over"]
      /\ conn' = IF StillCurrent(g) THEN "failed" ELSE conn
      /\ UNCHANGED <<generation, backend, size, life, asking, cancel, handler, wire>>
  BY DEF HandleErr
<1>1. TypeOK'
  BY <1>0 DEF IInv, TypeOK, wire
<1>2. OpenInv' /\ AttemptInv' /\ BackendInv'
  BY <1>0 DEF IInv, TypeOK, OpenInv, AttemptInv, BackendInv, wire
<1>3. ConnectedIffBackend'
  <2>1. CASE StillCurrent(g)
    <3>1. backend = None
      BY <1>0, <2>1, CurrentIsOpen DEF IInv, BackendInv
    <3> QED BY <1>0, <2>1, <3>1 DEF ConnectedIffBackend
  <2>2. CASE ~StillCurrent(g)
    BY <1>0, <2>2 DEF IInv, ConnectedIffBackend
  <2> QED BY <2>1, <2>2
<1>4. AbandonedSessionsClosed'
  BY <1>0 DEF IInv, TypeOK, AttemptInv, AbandonedSessionsClosed, wire
<1> QED BY <1>1, <1>2, <1>3, <1>4 DEF IInv

LEMMA DisconnectHandlerIInv ==
  ASSUME IInv, NEW g \in Attempts, DisconnectHandler(g)
  PROVE  IInv'
<1>0. /\ handler[g] = "fired"
      /\ handler' = [handler EXCEPT ![g] = "done"]
      /\ UNCHANGED <<generation, size, life, asking, phase, cancel,
                     session, pending, server, missed>>
      /\ TypeOK
  BY DEF DisconnectHandler, IInv
<1>9. phase[g] # "none"
  BY <1>0 DEF IInv, AttemptInv
<1>1. CASE StillCurrent(g)
  <2>1. conn' = "disconnected" /\ backend' = None /\ DropBackend(backend)
    BY <1>1 DEF DisconnectHandler
  <2>2. /\ queue' \in [Attempts -> Seq(Commands)]
        /\ \A h \in Attempts : Len(queue'[h]) <= QueueCap
        /\ open' \in [Attempts -> BOOLEAN]
        /\ \A h \in Attempts : h # backend => queue'[h] = queue[h] /\ open'[h] = open[h]
        /\ backend # None => ~open'[backend]
        /\ \A h \in Attempts : session[h] # "running" => queue'[h] = queue[h]
    <3>1. backend \in Attempts \cup {None}
      BY <1>0 DEF TypeOK
    <3> QED BY <1>0, <2>1, <3>1, DropBackendEffect
  <2>5. TypeOK'
    BY <1>0, <2>1, <2>2 DEF TypeOK
  <2>6. OpenInv' /\ ConnectedIffBackend' /\ BackendInv'
    BY <1>0, <2>1 DEF IInv, OpenInv, ConnectedIffBackend, BackendInv
  <2>7. AttemptInv'
    BY <1>0, <1>9, <2>2 DEF IInv, TypeOK, AttemptInv
  <2>9. AbandonedSessionsClosed'
    <3> SUFFICES ASSUME NEW h \in Attempts, session'[h] = "running"
                 PROVE  open'[h] <=> backend' = h \/ phase'[h] = "ok"
      BY DEF AbandonedSessionsClosed
    <3>1. open[h] <=> backend = h \/ phase[h] = "ok"
      BY <1>0 DEF IInv, AbandonedSessionsClosed
    <3>2. CASE backend = h
      BY <3>2, <1>0, <2>1, <2>2 DEF IInv, BackendInv, TypeOK
    <3>3. CASE backend # h
      BY <3>1, <3>3, <1>0, <2>1, <2>2
    <3> QED BY <3>2, <3>3
  <2> QED BY <2>5, <2>6, <2>7, <2>9 DEF IInv
<1>2. CASE ~StillCurrent(g)
  <2>1. UNCHANGED <<conn, backend, queue, open>>
    BY <1>2 DEF DisconnectHandler
  <2>2. TypeOK'
    BY <1>0, <2>1 DEF TypeOK
  <2>3. AttemptInv'
    BY <1>0, <1>9, <2>1 DEF IInv, TypeOK, AttemptInv
  <2>4. OpenInv' /\ ConnectedIffBackend' /\ BackendInv' /\ AbandonedSessionsClosed'
    BY <1>0, <2>1 DEF IInv, OpenInv, ConnectedIffBackend, BackendInv,
                      AbandonedSessionsClosed
  <2> QED BY <2>2, <2>3, <2>4 DEF IInv
<1> QED BY <1>1, <1>2

LEMMA NextIInv == IInv /\ [Next]_vars => IInv'
<1> SUFFICES ASSUME IInv, [Next]_vars PROVE IInv'
  OBVIOUS
<1>1. CASE UNCHANGED vars
  BY <1>1 DEF vars, ui, task, wire, IInv, TypeOK, OpenInv, AttemptInv, BackendInv,
              ConnectedIffBackend, AbandonedSessionsClosed
<1>2. ASSUME NEW g \in Attempts,
             \/ DialOk(g) \/ DialFails(g) \/ HandleOk(g) \/ HandleErr(g)
             \/ DisconnectHandler(g)
             \/ TakeResize(g) \/ ResizeFails(g) \/ TakeWrite(g)
             \/ TakeShutdown(g) \/ QueueClosed(g)
             \/ ServerConnects(g) \/ SocketFails(g)
      PROVE  IInv'
  BY <1>2, DialIInv, HandleOkIInv, HandleErrIInv, DisconnectHandlerIInv, SessionIInv
<1>3. CASE \/ ChooseAsset \/ AskToken \/ TokenArrives \/ TokenRefused
           \/ \E s \in Sizes : Resize(s)
           \/ Nudge \/ Input \/ Leave("shut") \/ Leave("released") \/ Release
  BY <1>3, UserIInv
<1> QED BY <1>1, <1>2, <1>3 DEF Next

\* Neither a late dial nor a late token revives a terminal that was closed.
LEMMA ClosedStep ==
  ASSUME IInv, [Next]_vars, life # "open"
  PROVE  generation' = generation /\ backend' = None /\ conn' = conn
<1>0. backend = None
  BY DEF IInv, BackendInv
<1> USE <1>0
<1>1. CASE UNCHANGED vars
  BY <1>1 DEF vars, ui
<1>2. CASE ChooseAsset \/ Leave("shut") \/ Leave("released")
  BY <1>2 DEF ChooseAsset, Leave
<1>3. CASE AskToken \/ TokenArrives \/ TokenRefused \/ Release
  BY <1>3 DEF AskToken, TokenArrives, TokenRefused, Release
<1>4. CASE (\E s \in Sizes : Resize(s)) \/ Nudge \/ Input
  BY <1>4 DEF Resize, Nudge, Input
<1>5. ASSUME NEW g \in Attempts, DialOk(g) \/ DialFails(g)
      PROVE  generation' = generation /\ backend' = None /\ conn' = conn
  BY <1>5 DEF DialOk, DialFails, ui
<1>6. ASSUME NEW g \in Attempts, HandleOk(g) \/ HandleErr(g) \/ DisconnectHandler(g)
      PROVE  generation' = generation /\ backend' = None /\ conn' = conn
  <2>1. phase[g] # "none"
    BY <1>6 DEF HandleOk, HandleErr, DisconnectHandler, IInv, AttemptInv
  <2>2. ~StillCurrent(g)
    BY <2>1, CurrentIsOpen
  <2> QED BY <1>6, <2>2 DEF HandleOk, HandleErr, DisconnectHandler
<1>7. ASSUME NEW g \in Attempts,
             \/ TakeResize(g) \/ ResizeFails(g) \/ TakeWrite(g) \/ TakeShutdown(g)
             \/ QueueClosed(g) \/ ServerConnects(g) \/ SocketFails(g)
      PROVE  generation' = generation /\ backend' = None /\ conn' = conn
  BY <1>7 DEF TakeResize, ResizeFails, TakeWrite, TakeShutdown, QueueClosed,
              ServerConnects, SocketFails, EndSession, ui
<1> QED BY <1>1, <1>2, <1>3, <1>4, <1>5, <1>6, <1>7 DEF Next

-----------------------------------------------------------------------------
(* The geometry: what a command added to or taken from a queue does to the   *)
(* size the server is heading for.                                           *)

LEMMA FrameHeads ==
  ASSUME NEW g \in Attempts, NEW s, HeadsFor(g, s),
         queue'[g] = queue[g], pending'[g] = pending[g], server'[g] = server[g]
  PROVE  HeadsFor(g, s)'
BY DEF HeadsFor, LastResize, QueuedResizes

LEMMA AppendResizeHeads ==
  ASSUME NEW g \in Attempts, NEW s \in Sizes, queue[g] \in Seq(Commands),
         queue'[g] = Append(queue[g], ResizeTo(s))
  PROVE  HeadsFor(g, s)'
<1> DEFINE n == Len(queue[g]) + 1
<1>1. /\ DOMAIN queue'[g] = 1 .. n
      /\ n \in 1 .. n
      /\ queue'[g][n] = ResizeTo(s)
  OBVIOUS
<1>2. n \in QueuedResizes(g)'
  BY <1>1 DEF QueuedResizes, ResizeTo
<1>3. ASSUME NEW i \in LastResize(g)'
      PROVE  queue'[g][i].size = s
  <2>1. i \in 1 .. n /\ n <= i
    BY <1>1, <1>2, <1>3 DEF LastResize, QueuedResizes
  <2>2. i = n
    BY <2>1
  <2> QED BY <1>1, <2>2 DEF ResizeTo
<1> QED BY <1>2, <1>3 DEF HeadsFor

LEMMA AppendWriteHeads ==
  ASSUME NEW g \in Attempts, NEW s, HeadsFor(g, s), queue[g] \in Seq(Commands),
         queue'[g] = Append(queue[g], Write),
         pending'[g] = pending[g], server'[g] = server[g]
  PROVE  HeadsFor(g, s)'
<1>1. /\ DOMAIN queue'[g] = 1 .. Len(queue[g]) + 1
      /\ DOMAIN queue[g] = 1 .. Len(queue[g])
      /\ queue'[g][Len(queue[g]) + 1] = Write
      /\ \A i \in 1 .. Len(queue[g]) : queue'[g][i] = queue[g][i]
  OBVIOUS
<1>2. QueuedResizes(g)' = QueuedResizes(g)
  BY <1>1 DEF QueuedResizes, Write
<1>3. \A i \in QueuedResizes(g) : queue'[g][i] = queue[g][i]
  BY <1>1 DEF QueuedResizes
<1> QED BY <1>2, <1>3 DEF HeadsFor, LastResize

\* The head leaves the queue; if it was a resize the server has heard of it.
LEMMA TailHeads ==
  ASSUME NEW g \in Attempts, NEW s, HeadsFor(g, s),
         queue[g] \in Seq(Commands), queue[g] # <<>>,
         queue'[g] = Tail(queue[g]),
         \/ /\ Head(queue[g]).kind # "resize"
            /\ pending'[g] = pending[g]
            /\ server'[g] = server[g]
         \/ /\ Head(queue[g]).kind = "resize"
            /\ Head(queue[g]).size = IF pending'[g] # None THEN pending'[g] ELSE server'[g]
  PROVE  HeadsFor(g, s)'
<1> DEFINE n == Len(queue[g])
<1>1. /\ n \in Nat \ {0}
      /\ DOMAIN queue[g] = 1 .. n
      /\ DOMAIN queue'[g] = 1 .. (n - 1)
      /\ \A i \in 1 .. (n - 1) : queue'[g][i] = queue[g][i + 1]
      /\ Head(queue[g]) = queue[g][1]
  OBVIOUS
<1> HIDE DEF n
<1>2. \A i \in 1 .. (n - 1) : i \in QueuedResizes(g)' <=> i + 1 \in QueuedResizes(g)
  BY <1>1 DEF QueuedResizes
<1>3. QueuedResizes(g) \subseteq 1 .. n /\ QueuedResizes(g)' \subseteq 1 .. (n - 1)
  BY <1>1 DEF QueuedResizes
<1>4. ASSUME NEW i \in LastResize(g)'
      PROVE  queue'[g][i].size = s
  <2>1. i \in 1 .. (n - 1) /\ i + 1 \in QueuedResizes(g)
    BY <1>2, <1>3, <1>4 DEF LastResize
  <2>2. ASSUME NEW j \in QueuedResizes(g)
        PROVE  j <= i + 1
    <3>1. CASE j = 1
      BY <2>1, <3>1
    <3>2. CASE j # 1
      <4>1. j - 1 \in 1 .. (n - 1) /\ j = (j - 1) + 1
        BY <1>1, <1>3, <3>2
      <4>2. j - 1 \in QueuedResizes(g)'
        BY <1>2, <4>1
      <4>3. j - 1 <= i
        BY <1>4, <4>2 DEF LastResize
      <4> QED BY <2>1, <4>1, <4>3
    <3> QED BY <3>1, <3>2
  <2>3. i + 1 \in LastResize(g)
    BY <2>1, <2>2 DEF LastResize
  <2> QED BY <1>1, <2>1, <2>3 DEF HeadsFor
<1>5. ASSUME QueuedResizes(g)' = {}
      PROVE  s = IF pending'[g] # None THEN pending'[g] ELSE server'[g]
  <2>1. \A j \in QueuedResizes(g) : j = 1
    <3> SUFFICES ASSUME NEW j \in QueuedResizes(g), j # 1 PROVE FALSE
      OBVIOUS
    <3>1. j - 1 \in 1 .. (n - 1) /\ j = (j - 1) + 1
      BY <1>1, <1>3
    <3> QED BY <1>2, <1>5, <3>1
  <2>2. CASE Head(queue[g]).kind = "resize"
    <3>1. 1 \in QueuedResizes(g)
      BY <1>1, <2>2 DEF QueuedResizes
    <3>2. 1 \in LastResize(g)
      BY <2>1, <3>1 DEF LastResize
    <3> QED BY <1>1, <2>2, <3>2 DEF HeadsFor
  <2>3. CASE Head(queue[g]).kind # "resize"
    <3>1. QueuedResizes(g) = {}
      BY <1>1, <2>1, <2>3 DEF QueuedResizes
    <3> QED BY <2>3, <3>1 DEF HeadsFor
  <2> QED BY <2>2, <2>3
<1> QED BY <1>4, <1>5 DEF HeadsFor

\* A resize that the backend is given, whether or not it fits.
LEMMA SendSizeHeads ==
  ASSUME TypeOK, NEW g \in Attempts, NEW s \in Sizes, SendSize(g, s),
         session[g] = "running", ~missed'[g]
  PROVE  HeadsFor(g, s)'
<1>1. Fits(g)
  BY DEF SendSize, TypeOK
<1>2. queue'[g] = Append(queue[g], ResizeTo(s)) /\ queue[g] \in Seq(Commands)
  BY <1>1 DEF SendSize, TrySend, TypeOK
<1> QED BY <1>2, AppendResizeHeads

LEMMA NextGeometry ==
  IInv /\ GeometryReachesServer /\ [Next]_vars => GeometryReachesServer'
<1> SUFFICES ASSUME IInv, GeometryReachesServer, [Next]_vars,
                    NEW g \in Attempts,
                    backend' = g, session'[g] = "running", ~missed'[g]
             PROVE  HeadsFor(g, size)'
  BY DEF GeometryReachesServer
<1> SUFFICES ASSUME NEW s, s = size'
             PROVE  HeadsFor(g, s)'
  BY DEF HeadsFor
<1>0. TypeOK /\ size \in Sizes /\ queue[g] \in Seq(Commands)
  BY DEF IInv, TypeOK
<1>1. ASSUME backend = g, session[g] = "running", ~missed[g], size' = size
      PROVE  HeadsFor(g, s)
  BY <1>1 DEF GeometryReachesServer
\* Steps that leave the backend, its session and the size alone.
<1>2. ASSUME UNCHANGED <<backend, size>>, session[g] = "running", ~missed[g],
             queue'[g] = queue[g], pending'[g] = pending[g], server'[g] = server[g]
      PROVE  HeadsFor(g, s)'
  <2>1. HeadsFor(g, s)
    BY <1>1, <1>2
  <2> QED BY <1>2, <2>1, FrameHeads
<1>3. CASE UNCHANGED vars
  BY <1>2, <1>3 DEF vars, ui, task, wire
<1>4. CASE ChooseAsset \/ Leave("shut") \/ Leave("released")
  BY <1>4 DEF ChooseAsset, Connect, Leave
<1>5. CASE AskToken \/ TokenRefused \/ Release
  BY <1>2, <1>5 DEF AskToken, TokenRefused, Release, task, wire
<1>6. CASE TokenArrives
  <2>1. CASE life = "open"
    BY <1>6, <2>1 DEF TokenArrives, Connect
  <2>2. CASE life # "open"
    BY <1>2, <1>6, <2>2 DEF TokenArrives, task, wire
  <2> QED BY <2>1, <2>2
<1>7. ASSUME NEW r \in Sizes, Resize(r)
      PROVE  HeadsFor(g, s)'
  <2>1. backend = g /\ size' = r /\ session[g] = "running"
    BY <1>7 DEF Resize
  <2>2. SendSize(g, s) /\ s \in Sizes
    BY <1>7, <2>1 DEF Resize
  <2> QED BY <1>0, <2>1, <2>2, SendSizeHeads
<1>8. CASE Nudge
  <2>1. backend = g /\ size' = size /\ session[g] = "running"
    BY <1>8 DEF Nudge, ui
  <2>2. SendSize(g, s) /\ s \in Sizes
    BY <1>0, <1>8, <2>1 DEF Nudge
  <2>3. HeadsFor(g, s)'
    BY <1>0, <2>1, <2>2, SendSizeHeads
  <2> QED BY <2>1, <2>3
<1>9. CASE Input
  <2>1. /\ backend = g /\ size' = size /\ session[g] = "running" /\ ~missed[g]
        /\ pending' = pending /\ server' = server
        /\ queue' = TrySend(g, Write)
    BY <1>9 DEF Input, ui
  <2>2. CASE Fits(g)
    <3>1. queue'[g] = Append(queue[g], Write)
      BY <1>0, <2>1, <2>2 DEF TrySend, TypeOK
    <3>2. HeadsFor(g, s)'
      BY <1>0, <1>1, <2>1, <3>1, AppendWriteHeads
    <3> QED BY <2>1, <3>2
  <2>3. CASE ~Fits(g)
    <3>1. queue' = queue
      BY <2>1, <2>3 DEF TrySend
    <3> QED BY <1>2, <1>9, <2>1, <3>1 DEF Input, ui
  <2> QED BY <2>2, <2>3
<1>10. ASSUME NEW h \in Attempts, DialOk(h) \/ DialFails(h)
       PROVE  HeadsFor(g, s)'
  <2>1. phase[h] = "dialing" /\ backend = g
    BY <1>10 DEF DialOk, DialFails, ui
  <2>2. h # g
    BY <2>1 DEF IInv, BackendInv
  <2> QED BY <1>0, <1>2, <1>10, <2>2 DEF DialOk, DialFails, ui, TypeOK
<1>11. ASSUME NEW h \in Attempts, HandleOk(h)
       PROVE  HeadsFor(g, s)'
  <2>0. phase[h] = "ok" /\ size' = size /\ session' = session
        /\ pending' = pending /\ server' = server
    BY <1>11 DEF HandleOk
  <2>1. CASE StillCurrent(h)
    <3>1. h = g /\ SendSize(g, s) /\ s \in Sizes
      BY <1>0, <1>11, <2>0, <2>1 DEF HandleOk
    <3>2. HeadsFor(g, s)'
      BY <1>0, <2>0, <3>1, SendSizeHeads
    <3> QED BY <2>0, <3>2
  <2>2. CASE ~StillCurrent(h)
    <3>1. backend = g /\ missed' = missed /\ DropBackend(h)
      BY <1>11, <2>2 DEF HandleOk
    <3>2. h # g
      BY <2>0, <3>1 DEF IInv, BackendInv
    <3>3. queue'[g] = queue[g]
      BY <1>0, <3>1, <3>2, DropBackendEffect
    <3> QED BY <1>2, <2>0, <3>1, <3>3
  <2> QED BY <2>1, <2>2
<1>12. ASSUME NEW h \in Attempts, HandleErr(h)
       PROVE  HeadsFor(g, s)'
  BY <1>2, <1>12 DEF HandleErr, wire
<1>13. ASSUME NEW h \in Attempts, DisconnectHandler(h)
       PROVE  HeadsFor(g, s)'
  <2>1. CASE StillCurrent(h)
    BY <1>13, <2>1 DEF DisconnectHandler
  <2>2. CASE ~StillCurrent(h)
    BY <1>2, <1>13, <2>2 DEF DisconnectHandler
  <2> QED BY <2>1, <2>2
\* Steps of a session, of g or of another attempt.
<1>14. ASSUME NEW h \in Attempts, EndSession(h)
       PROVE  HeadsFor(g, s)'
  <2>1. h # g
    BY <1>0, <1>14 DEF EndSession, TypeOK
  <2> QED BY <1>0, <1>2, <1>14, <2>1 DEF EndSession, ui, TypeOK
<1>15. ASSUME NEW h \in Attempts, NextCommand(h),
              queue' = [queue EXCEPT ![h] = Tail(@)],
              UNCHANGED <<ui, task, session, open>>,
              \/ TakeResize(h)
              \/ ResizeFails(h)
              \/ TakeWrite(h) /\ UNCHANGED <<pending, server, missed>>
       PROVE  HeadsFor(g, s)'
  <2>1. backend = g /\ size' = size /\ session[g] = "running"
    BY <1>15 DEF ui
  <2>2. CASE h # g
    BY <1>0, <1>2, <1>15, <2>1, <2>2
      DEF TakeResize, ResizeFails, RecordResize, TypeOK
  <2>3. CASE h = g
    <3>1. queue[g] # <<>> /\ queue'[g] = Tail(queue[g])
      BY <1>0, <1>15, <2>3 DEF NextCommand, TypeOK
    <3>2. CASE ResizeFails(h)
      BY <1>0, <2>3, <3>2 DEF ResizeFails, TypeOK
    <3>3. CASE TakeResize(h)
      <4>1. Head(queue[g]).kind = "resize" /\ missed' = missed
            /\ RecordResize(g, Head(queue[g]).size)
        BY <2>3, <3>3 DEF TakeResize
      <4>2. Head(queue[g]).size \in Sizes
        <5>1. Head(queue[g]) \in Commands
          BY <1>0, <3>1
        <5> QED BY <4>1, <5>1 DEF Commands, ResizeTo, Write, Shutdown
      <4>3. Head(queue[g]).size = IF pending'[g] # None THEN pending'[g] ELSE server'[g]
        BY <1>0, <4>1, <4>2 DEF RecordResize, TypeOK
      <4>4. HeadsFor(g, s)'
        BY <1>0, <1>1, <2>1, <3>1, <4>1, <4>3, TailHeads
      <4> QED BY <2>1, <4>4
    <3>4. CASE TakeWrite(h) /\ UNCHANGED <<pending, server, missed>>
      <4>1. Head(queue[g]).kind # "resize"
        BY <2>3, <3>4 DEF TakeWrite
      <4>2. HeadsFor(g, s)'
        BY <1>0, <1>1, <2>1, <3>1, <3>4, <4>1, TailHeads
      <4> QED BY <2>1, <4>2
    <3> QED BY <1>15, <3>2, <3>3, <3>4
  <2> QED BY <2>2, <2>3
<1>16. ASSUME NEW h \in Attempts, ServerConnects(h)
       PROVE  HeadsFor(g, s)'
  <2>1. CASE h # g
    BY <1>0, <1>2, <1>16, <2>1 DEF ServerConnects, ui, TypeOK
  <2>2. CASE h = g
    <3>1. /\ queue[g] = <<>> /\ queue' = queue /\ pending[g] # None
          /\ server'[g] = pending[g] /\ pending'[g] = None
          /\ UNCHANGED <<backend, size, session, missed>>
      BY <1>0, <1>16, <2>2 DEF ServerConnects, Idle, ui, TypeOK
    <3>2. QueuedResizes(g) = {} /\ QueuedResizes(g)' = {}
      BY <3>1 DEF QueuedResizes
    <3>3. HeadsFor(g, s)
      BY <1>1, <3>1
    <3>4. HeadsFor(g, s)'
      BY <3>1, <3>2, <3>3 DEF HeadsFor, LastResize
    <3> QED BY <3>1, <3>4
  <2> QED BY <2>1, <2>2
<1>17. ASSUME NEW h \in Attempts,
              \/ TakeResize(h) \/ ResizeFails(h) \/ TakeWrite(h)
              \/ TakeShutdown(h) \/ QueueClosed(h) \/ SocketFails(h)
       PROVE  HeadsFor(g, s)'
  <2>1. CASE EndSession(h)
    BY <1>14, <2>1
  <2>2. CASE TakeResize(h) \/ ResizeFails(h) \/ (TakeWrite(h) /\ ~EndSession(h))
    BY <1>15, <2>2 DEF TakeResize, ResizeFails, TakeWrite
  <2> QED BY <1>17, <2>1, <2>2 DEF TakeShutdown, QueueClosed, SocketFails
<1> QED BY <1>3, <1>4, <1>5, <1>6, <1>7, <1>8, <1>9, <1>10, <1>11, <1>12, <1>13,
           <1>16, <1>17 DEF Next

-----------------------------------------------------------------------------
THEOREM KokoInvariant == Spec => []IInv
BY InitIInv, NextIInv, PTL DEF Spec

\* Every variable keeps its type: no queue outgrows its capacity.
THEOREM KokoTypes == Spec => []TypeOK
BY KokoInvariant, PTL DEF IInv

\* An open terminal is shown as connected exactly when it has the backend of
\* its latest attempt.
THEOREM KokoConnected == Spec => []ConnectedIffBackend
BY KokoInvariant, PTL DEF IInv

\* A session keeps its sender only while the terminal holds its backend or is
\* about to be handed it.
THEOREM KokoAbandoned == Spec => []AbandonedSessionsClosed
BY KokoInvariant, PTL DEF IInv

\* Whatever the order of CONNECT, dial, result and layout, the server heads
\* for the geometry on screen.
THEOREM KokoGeometry == Spec => []GeometryReachesServer
<1>1. Init => GeometryReachesServer
  BY DEF Init, StartWith, GeometryReachesServer
<1> QED BY <1>1, NextGeometry, KokoInvariant, PTL DEF Spec

\* No late callback changes a terminal that was closed.
THEOREM KokoClosed == Spec => ClosedStaysClosed
<1>1. IInv /\ [Next]_vars =>
        [life # "open" => generation' = generation /\ backend' = None
                            /\ conn' = conn]_vars
  BY ClosedStep
<1> QED BY <1>1, KokoInvariant, PTL DEF Spec, ClosedStaysClosed

-----------------------------------------------------------------------------
(* The cancellation of dials.  What CancelDial marks is never younger than    *)
(* the attempt it was meant for.                                              *)

CancelInv ==
  \A g \in Attempts : cancel[g] => g <= generation /\ (life = "open" => g < generation)

DialInv == CancelInv /\ OnlyLatestDialGoesOn

LEMMA ConnectDials ==
  ASSUME IInv, DialInv, life = "open", Connect
  PROVE  DialInv'
<1>1. /\ generation + 1 \in Attempts /\ generation \in Nat
      /\ generation' = generation + 1 /\ life' = life
      /\ phase' = [phase EXCEPT ![generation + 1] = "dialing"]
      /\ cancel' = [h \in Attempts |-> cancel[h] \/ h = generation]
  BY DEF IInv, TypeOK, Connect, CancelDial
<1>2. \A g \in Attempts : cancel'[g] <=> cancel[g] \/ g = generation
  BY <1>1
<1>3. CancelInv'
  BY <1>1, <1>2 DEF DialInv, CancelInv
<1>4. ASSUME NEW g \in Attempts, phase'[g] = "dialing"
      PROVE  cancel'[g] <=> g # generation'
  <2>1. CASE g = generation + 1
    <3>1. ~cancel[g]
      BY <1>1, <2>1 DEF DialInv, CancelInv
    <3> QED BY <1>1, <1>2, <2>1, <3>1
  <2>2. CASE g # generation + 1
    <3>1. phase[g] = "dialing"
      BY <1>1, <1>4, <2>2 DEF IInv, TypeOK
    <3>2. cancel[g] <=> g # generation
      BY <3>1 DEF DialInv, OnlyLatestDialGoesOn
    <3> QED BY <1>1, <1>2, <2>2, <3>2
  <2> QED BY <2>1, <2>2
<1>5. OnlyLatestDialGoesOn'
  BY <1>1, <1>4 DEF OnlyLatestDialGoesOn
<1> QED BY <1>3, <1>5 DEF DialInv

LEMMA LeaveDials ==
  ASSUME IInv, DialInv, NEW l \in {"shut", "released"}, Leave(l)
  PROVE  DialInv'
<1>1. /\ generation \in Nat /\ generation' = generation + 1
      /\ life = "open" /\ life' # "open" /\ phase' = phase
      /\ cancel' = [h \in Attempts |-> cancel[h] \/ h = generation]
  BY DEF IInv, TypeOK, Leave, CancelDial
<1>2. \A g \in Attempts : cancel'[g] <=> cancel[g] \/ g = generation
  BY <1>1
<1>3. CancelInv'
  BY <1>1, <1>2 DEF DialInv, CancelInv
<1>4. ASSUME NEW g \in Attempts, phase[g] = "dialing"
      PROVE  cancel'[g]
  BY <1>1, <1>2, <1>4 DEF DialInv, OnlyLatestDialGoesOn
<1>5. OnlyLatestDialGoesOn'
  BY <1>1, <1>4 DEF OnlyLatestDialGoesOn
<1> QED BY <1>3, <1>5 DEF DialInv

\* No other step starts a dial, cancels one or spends a generation.
LEMMA QuietDials ==
  ASSUME DialInv, UNCHANGED <<generation, cancel>>, life' = "open" <=> life = "open",
         \A g \in Attempts : phase'[g] = "dialing" => phase[g] = "dialing"
  PROVE  DialInv'
BY DEF DialInv, CancelInv, OnlyLatestDialGoesOn

LEMMA DialStep ==
  ASSUME IInv, DialInv, [Next]_vars
  PROVE  DialInv'
<1>1. CASE UNCHANGED vars
  BY <1>1, QuietDials DEF vars, ui, task
<1>2. CASE ChooseAsset
  BY <1>2, ConnectDials DEF ChooseAsset
<1>3. CASE AskToken \/ TokenArrives \/ TokenRefused
  <2>1. CASE life = "open" /\ Connect
    BY <2>1, ConnectDials
  <2>2. CASE UNCHANGED <<generation, cancel, life, phase>>
    BY <2>2, QuietDials
  <2> QED BY <1>3, <2>1, <2>2 DEF AskToken, TokenArrives, TokenRefused, task
<1>4. CASE (\E s \in Sizes : Resize(s)) \/ Nudge \/ Input \/ Release
  <2>1. UNCHANGED <<generation, cancel, phase>> /\ (life' = "open" <=> life = "open")
    BY <1>4 DEF Resize, Nudge, Input, Release, ui, task
  <2> QED BY <2>1, QuietDials
<1>5. CASE Leave("shut") \/ Leave("released")
  BY <1>5, LeaveDials
<1>6. ASSUME NEW g \in Attempts,
             DialOk(g) \/ DialFails(g) \/ HandleOk(g) \/ HandleErr(g)
      PROVE  DialInv'
  <2>1. /\ UNCHANGED <<generation, cancel, life>>
        /\ \/ phase' = [phase EXCEPT ![g] = "ok"]
           \/ phase' = [phase EXCEPT ![g] = "err"]
           \/ phase' = [phase EXCEPT ![g] = "over"]
    BY <1>6 DEF DialOk, DialFails, HandleOk, HandleErr, ui
  <2>2. \A h \in Attempts : phase'[h] = "dialing" => phase[h] = "dialing"
    BY <2>1 DEF IInv, TypeOK
  <2> QED BY <2>1, <2>2, QuietDials
<1>7. ASSUME NEW g \in Attempts,
             \/ DisconnectHandler(g)
             \/ TakeResize(g) \/ ResizeFails(g) \/ TakeWrite(g) \/ TakeShutdown(g)
             \/ QueueClosed(g) \/ ServerConnects(g) \/ SocketFails(g)
      PROVE  DialInv'
  <2>1. UNCHANGED <<generation, cancel, life, phase>>
    BY <1>7 DEF DisconnectHandler, TakeResize, ResizeFails, TakeWrite, TakeShutdown,
                QueueClosed, ServerConnects, SocketFails, EndSession, ui, task
  <2> QED BY <2>1, QuietDials
<1> QED BY <1>1, <1>2, <1>3, <1>4, <1>5, <1>6, <1>7 DEF Next

\* A dial is cancelled as soon as its result would no longer count, and not
\* before.
THEOREM KokoDials == Spec => []OnlyLatestDialGoesOn
<1>1. Init => DialInv
  <2> SUFFICES ASSUME NEW first \in {None, 1}, StartWith(first) PROVE DialInv
    BY DEF Init
  <2>1. \A g \in Attempts : cancel[g] = FALSE
    BY DEF StartWith
  <2>2. \A g \in Attempts : phase[g] = "dialing" => g = first
    BY DEF StartWith
  <2> QED BY <2>1, <2>2 DEF StartWith, DialInv, CancelInv, OnlyLatestDialGoesOn
<1>2. IInv /\ DialInv /\ [Next]_vars => DialInv'
  BY DialStep
<1>3. DialInv => OnlyLatestDialGoesOn
  BY DEF DialInv
<1> QED BY <1>1, <1>2, <1>3, KokoInvariant, PTL DEF Spec

-----------------------------------------------------------------------------
(* The refinement: every step of the program is a step of OneLink, or       *)
(* changes nothing OneLink speaks of.                                       *)

\* A dial under way and a session that runs have not fired on_disconnect.
HandlerInv ==
  \A g \in Attempts :
    phase[g] = "dialing" \/ session[g] = "running" => handler[g] = "armed"

LEMMA NextHandlerInv ==
  IInv /\ HandlerInv /\ [Next]_vars => HandlerInv'
<1> SUFFICES ASSUME IInv, HandlerInv, [Next]_vars PROVE HandlerInv'
  OBVIOUS
<1> USE DEF IInv, TypeOK, HandlerInv
<1>1. CASE UNCHANGED vars
  BY <1>1 DEF vars, task, wire
<1>2. ASSUME Connect PROVE HandlerInv'
  BY <1>2 DEF Connect
<1>3. CASE \/ ChooseAsset \/ AskToken \/ TokenArrives \/ TokenRefused
           \/ (\E s \in Sizes : Resize(s))
           \/ Nudge \/ Input \/ Leave("shut") \/ Leave("released") \/ Release
  BY <1>2, <1>3 DEF ChooseAsset, AskToken, TokenArrives, TokenRefused, Resize, Nudge,
                    Input, Leave, Release, task, wire
<1>4. ASSUME NEW g \in Attempts, DialOk(g) PROVE HandlerInv'
  BY <1>4 DEF DialOk, ui
<1>5. ASSUME NEW g \in Attempts, DialFails(g) PROVE HandlerInv'
  BY <1>5 DEF DialFails, AttemptInv
<1>6. ASSUME NEW g \in Attempts, HandleOk(g) \/ HandleErr(g) \/ DisconnectHandler(g)
      PROVE  HandlerInv'
  BY <1>6 DEF HandleOk, HandleErr, DisconnectHandler, wire
<1>7. ASSUME NEW g \in Attempts, EndSession(g) PROVE HandlerInv'
  BY <1>7 DEF EndSession, AttemptInv
<1>8. ASSUME NEW g \in Attempts,
             \/ TakeResize(g) \/ ResizeFails(g) \/ TakeWrite(g) \/ TakeShutdown(g)
             \/ QueueClosed(g) \/ ServerConnects(g) \/ SocketFails(g)
      PROVE  HandlerInv'
  BY <1>7, <1>8 DEF TakeResize, ResizeFails, TakeWrite, TakeShutdown, QueueClosed,
                    ServerConnects, SocketFails, task
<1> QED BY <1>1, <1>3, <1>4, <1>5, <1>6, <1>8 DEF Next

Face == <<life, generation, backend, conn, Awaited, Watched>>

LEMMA FaceStutters ==
  ASSUME UNCHANGED Face
  PROVE  UNCHANGED Link!vars
BY DEF Face, Link!vars, Latest, Status

LEMMA ConnectLinks ==
  ASSUME IInv, life = "open", Connect
  PROVE  Link!Begin
<1>1. /\ life' = "open"
      /\ generation' = generation + 1 /\ generation \in Nat
      /\ generation + 1 \in Attempts
      /\ backend' = None /\ conn' = "connecting"
      /\ phase'[generation + 1] = "dialing" /\ handler'[generation + 1] = "armed"
  BY DEF Connect, IInv, TypeOK
<1>2. Awaited' = TRUE /\ Watched' = TRUE
  BY <1>1 DEF Awaited, Watched
<1>3. Latest' = Latest + 1 /\ Status' = "connecting"
  BY <1>1 DEF Latest, Status
<1> QED BY <1>1, <1>2, <1>3 DEF Link!Begin, Link!None

LEMMA LeaveLinks ==
  ASSUME IInv, NEW l \in {"shut", "released"}, Leave(l)
  PROVE  Link!Close
<1>1. /\ life = "open" /\ life' # "open"
      /\ generation' = generation + 1 /\ generation \in Nat
      /\ backend' = None /\ conn' = conn
  BY DEF Leave, IInv, TypeOK
<1>2. Latest' = Latest /\ Status' = Status
  BY <1>1 DEF Latest, Status
<1> QED BY <1>1, <1>2 DEF Link!Close, Link!None, Awaited, Watched

\* The tasks of an attempt report nothing themselves.
LEMMA TasksStutter ==
  ASSUME IInv, HandlerInv, NEW g \in Attempts,
         DialOk(g) \/ DialFails(g) \/ EndSession(g)
  PROVE  UNCHANGED Link!vars
<1>1. UNCHANGED <<generation, conn, backend, life>>
  BY DEF DialOk, DialFails, EndSession, ui
<1>2. ASSUME NEW h \in Attempts
      PROVE  /\ phase'[h] # "over" <=> phase[h] # "over"
             /\ handler'[h] # "done" <=> handler[h] # "done"
  <2>1. CASE h # g
    BY <2>1 DEF IInv, TypeOK, DialOk, DialFails, EndSession
  <2>2. CASE h = g
    <3>1. handler[g] = "armed"
      BY DEF HandlerInv, DialOk, DialFails, EndSession
    <3> QED BY <2>2, <3>1 DEF IInv, TypeOK, DialOk, DialFails, EndSession
  <2> QED BY <2>1, <2>2
<1>3. life = "open" /\ generation # None => generation \in Attempts
  BY DEF IInv, TypeOK, OpenInv
<1>4. (Awaited' <=> Awaited) /\ (Watched' <=> Watched)
  BY <1>1, <1>2, <1>3 DEF Awaited, Watched
<1>5. UNCHANGED <<Latest, Status, backend, life>>
  BY <1>1 DEF Latest, Status
<1> QED BY <1>4, <1>5 DEF Link!vars, Awaited, Watched

\* A callback of an attempt that is not current, or of a closed terminal.
LEMMA LateCallbackStutters ==
  ASSUME IInv, NEW g \in Attempts, ~StillCurrent(g),
         HandleOk(g) \/ HandleErr(g) \/ DisconnectHandler(g)
  PROVE  UNCHANGED Link!vars
<1>1. UNCHANGED <<generation, conn, backend, life>>
  BY DEF HandleOk, HandleErr, DisconnectHandler
<1>2. ASSUME life = "open", generation # None
      PROVE  /\ phase'[generation] = phase[generation]
             /\ handler'[generation] = handler[generation]
  BY <1>2 DEF IInv, TypeOK, OpenInv, StillCurrent, HandleOk, HandleErr, DisconnectHandler
<1>3. Awaited' = Awaited /\ Watched' = Watched
  BY <1>1, <1>2 DEF Awaited, Watched
<1> QED BY <1>1, <1>3, FaceStutters DEF Face

LEMMA CallbackLinks ==
  ASSUME IInv, NEW g \in Attempts, StillCurrent(g)
  PROVE  /\ HandleOk(g) => Link!Establish
         /\ HandleErr(g) => Link!Fail
         /\ DisconnectHandler(g) => Link!Lose
<1> USE DEF IInv
<1>1. ASSUME HandleOk(g) PROVE Link!Establish
  <2>1. /\ life = "open" /\ life' = life /\ generation' = generation /\ generation = g
        /\ phase[g] = "ok" /\ phase'[g] = "over"
        /\ conn' = "connected" /\ backend' = g
        /\ handler' = handler
    BY <1>1, CurrentIsOpen DEF HandleOk, TypeOK, StillCurrent
  <2>2. backend = None
    BY <2>1 DEF BackendInv
  <2>3. Latest = g /\ UNCHANGED <<Latest, Watched>>
    BY <2>1 DEF Latest, Watched
  <2>4. Awaited /\ Awaited' = FALSE
    BY <2>1 DEF Awaited
  <2>5. Status' = "connected"
    BY <2>1 DEF Status
  <2> QED BY <2>1, <2>2, <2>3, <2>4, <2>5 DEF Link!Establish, Link!None
<1>2. ASSUME HandleErr(g) PROVE Link!Fail
  <2>1. /\ life = "open" /\ life' = life /\ generation' = generation /\ generation = g
        /\ phase[g] = "err" /\ phase'[g] = "over"
        /\ conn' = "failed" /\ backend' = backend
        /\ handler' = handler
    BY <1>2, CurrentIsOpen DEF HandleErr, TypeOK, StillCurrent
  <2>2. backend = None
    BY <2>1 DEF BackendInv
  <2>3. UNCHANGED <<Latest, Watched>>
    BY <2>1 DEF Latest, Watched
  <2>4. Awaited /\ Awaited' = FALSE
    BY <2>1 DEF Awaited
  <2>5. Status' = "down"
    BY <2>1 DEF Status
  <2> QED BY <2>1, <2>2, <2>3, <2>4, <2>5 DEF Link!Fail, Link!None
<1>3. ASSUME DisconnectHandler(g) PROVE Link!Lose
  <2>0. phase[g] # "none"
    BY <1>3 DEF DisconnectHandler, AttemptInv
  <2>1. /\ life = "open" /\ life' = life /\ generation' = generation /\ generation = g
        /\ handler[g] = "fired" /\ handler'[g] = "done"
        /\ conn' = "disconnected" /\ backend' = None
        /\ phase' = phase
    BY <1>3, <2>0, CurrentIsOpen DEF DisconnectHandler, TypeOK, StillCurrent
  <2>2. UNCHANGED <<Latest, Awaited>>
    BY <2>1 DEF Latest, Awaited
  <2>3. Watched /\ Watched' = FALSE
    BY <2>1 DEF Watched
  <2>4. Status' = "down"
    BY <2>1 DEF Status
  <2> QED BY <2>1, <2>2, <2>3, <2>4 DEF Link!Lose, Link!None
<1> QED BY <1>1, <1>2, <1>3

LEMMA LinkStep ==
  ASSUME IInv, HandlerInv, [Next]_vars
  PROVE  [Link!Next]_(Link!vars)
<1>1. CASE UNCHANGED vars
  BY <1>1, FaceStutters DEF vars, ui, task, Face, Awaited, Watched
<1>2. CASE ChooseAsset
  BY <1>2, ConnectLinks DEF ChooseAsset, Link!Next
<1>3. CASE TokenArrives
  <2>1. CASE life = "open"
    BY <1>3, <2>1, ConnectLinks DEF TokenArrives, Link!Next
  <2>2. CASE life # "open"
    BY <1>3, <2>2, FaceStutters DEF TokenArrives, task, Face, Awaited, Watched
  <2> QED BY <2>1, <2>2
<1>4. CASE \/ AskToken \/ TokenRefused
           \/ (\E s \in Sizes : Resize(s)) \/ Nudge \/ Input
  BY <1>4, FaceStutters DEF AskToken, TokenRefused, Resize, Nudge, Input, ui, task,
                            Face, Awaited, Watched
<1>5. CASE Leave("shut") \/ Leave("released")
  BY <1>5, LeaveLinks DEF Link!Next
<1>6. CASE Release
  <2>1. life # "open" /\ life' # "open" /\ UNCHANGED <<generation, conn, backend>>
    BY <1>6 DEF Release
  <2> QED BY <2>1 DEF Link!vars, Latest, Status, Awaited, Watched
<1>7. ASSUME NEW g \in Attempts, DialOk(g) \/ DialFails(g) \/ EndSession(g)
      PROVE  UNCHANGED Link!vars
  BY <1>7, TasksStutter
<1>8. ASSUME NEW g \in Attempts, HandleOk(g) \/ HandleErr(g) \/ DisconnectHandler(g)
      PROVE  [Link!Next]_(Link!vars)
  <2>1. CASE StillCurrent(g)
    BY <1>8, <2>1, CallbackLinks DEF Link!Next
  <2>2. CASE ~StillCurrent(g)
    BY <1>8, <2>2, LateCallbackStutters
  <2> QED BY <2>1, <2>2
<1>9. ASSUME NEW g \in Attempts,
             \/ TakeResize(g) \/ ResizeFails(g) \/ TakeWrite(g) \/ TakeShutdown(g)
             \/ QueueClosed(g) \/ ServerConnects(g) \/ SocketFails(g)
      PROVE  UNCHANGED Link!vars
  <2>1. CASE UNCHANGED <<ui, task>>
    BY <2>1, FaceStutters DEF ui, task, Face, Awaited, Watched
  <2> QED BY <1>7, <1>9, <2>1 DEF TakeResize, ResizeFails, TakeWrite, TakeShutdown,
                                QueueClosed, ServerConnects, SocketFails
<1> QED BY <1>1, <1>2, <1>3, <1>4, <1>5, <1>6, <1>7, <1>8, <1>9 DEF Next

\* The Koko terminal keeps the promise of OneLink: one link, that of the latest
\* attempt, and no report that counts twice or comes too late.
THEOREM KokoImplements == Spec => ImplementsOneLink
<1>1. Init => Link!Init
  <2> SUFFICES ASSUME NEW first \in {None, 1}, StartWith(first) PROVE Link!Init
    BY DEF Init
  <2>1. /\ life = "open" /\ generation = first /\ backend = None
        /\ conn = IF first = None THEN "disconnected" ELSE "connecting"
        /\ first = 1 => phase[1] = "dialing" /\ handler[1] = "armed"
    BY DEF StartWith
  <2>2. /\ Latest = first
        /\ Status = IF first = None THEN "down" ELSE "connecting"
        /\ Awaited = (first # None) /\ Watched = (first # None)
    BY <2>1 DEF Latest, Status, Awaited, Watched
  <2> QED BY <2>1, <2>2 DEF Link!Init, Link!None
<1>2. Init => HandlerInv
  BY DEF Init, StartWith, HandlerInv
<1>3. IInv /\ HandlerInv /\ [Next]_vars => [Link!Next]_(Link!vars)
  BY LinkStep
<1> QED
  BY <1>1, <1>2, <1>3, NextHandlerInv, KokoInvariant, PTL
  DEF Spec, ImplementsOneLink, Link!Spec

=============================================================================
