--------------------------- MODULE PaneAreaProofs --------------------------
(***************************************************************************)
(* For any set of panes and any limits: the types, the number of panes,    *)
(* that the map of panes and the dock agree, that sessions belong to       *)
(* panes, that a source has one token request, and that every pane that is *)
(* marked, and every place that is taken, belongs to a request which will  *)
(* be answered.                                                            *)
(*                                                                         *)
(* DeferInv is what makes them inductive: at most one deferred call waits, *)
(* and an insertion is only deferred by an SSH tab. TokenInv says why a    *)
(* source cannot ask twice: while its request is out, or lost, and it is   *)
(* in the dock it stays marked.                                            *)
(***************************************************************************)
EXTENDS PaneArea, FiniteSetTheorems, SequenceTheorems, TLAPS

DeferInv ==
  /\ Len(deferred) <= 1
  /\ deferred # <<>> /\ Head(deferred).call = "insert" =>
       kind = "ssh" /\ Head(deferred).new \notin lost

TokenInv ==
  \A p \in Panes :
    /\ tokens[p] > 0 => kind = "jms"
    /\ tokens[p] > 0 /\ p \in attached => p \in pending
    /\ p \in lost /\ p \in attached => p \in pending

IInv ==
  /\ TypeOK
  /\ DeferInv
  /\ TokenInv
  /\ PaneLimit
  /\ DockMatchesPanes
  /\ SessionsHavePanes
  /\ OneTokenPerSource

USE PaneAssumption

\* With at most one deferred call, its head is all there is.
LEMMA OneDeferred ==
  ASSUME TypeOK, DeferInv
  PROVE  /\ deferred # <<>> => /\ deferred[1] = Head(deferred)
                               /\ Head(deferred) \in Deferred
                               /\ Tail(deferred) = <<>>
         /\ deferred = <<>> \/ DOMAIN deferred = {1}
<1>1. deferred \in Seq(Deferred) /\ Len(deferred) <= 1
  BY DEF TypeOK, DeferInv
<1>2. CASE deferred = <<>>
  BY <1>2
<1>3. CASE deferred # <<>>
  <2>1. Len(deferred) = 1
    <3>1. Len(deferred) \in Nat \ {0}
      BY <1>1, <1>3, EmptySeq
    <3> QED BY <1>1, <3>1
  <2>2. DOMAIN deferred = {1}
    BY <1>1, <2>1
  <2>3. Head(deferred) \in Deferred /\ Tail(deferred) \in Seq(Deferred)
        /\ Len(Tail(deferred)) = 0
    BY <1>1, <1>3, <2>1, HeadTailProperties
  <2>4. Tail(deferred) = <<>>
    BY <2>3, EmptySeq
  <2>5. deferred[1] = Head(deferred)
    BY <1>1, <2>1
  <2> QED BY <2>2, <2>3, <2>4, <2>5
<1> QED BY <1>2, <1>3

LEMMA AppendOne ==
  ASSUME NEW d \in Deferred, deferred = <<>>, deferred' = Append(deferred, d)
  PROVE  /\ deferred' \in Seq(Deferred)
         /\ Len(deferred') = 1
         /\ DOMAIN deferred' = {1}
         /\ deferred'[1] = d
         /\ Head(deferred') = d
OBVIOUS

\* A pane more, a pane less.
LEMMA PaneCounts ==
  ASSUME NEW S \in SUBSET Panes, NEW p \in Panes
  PROVE  /\ IsFiniteSet(S)
         /\ Cardinality(S) \in Nat
         /\ Cardinality(S \cup {p}) <= Cardinality(S) + 1
         /\ Cardinality(S \ {p}) <= Cardinality(S)
<1>1. IsFiniteSet(S)
  BY FS_Subset
<1>2. Cardinality(S) \in Nat
  BY <1>1, FS_CardinalityType
<1>3. Cardinality(S \cup {p}) = IF p \in S THEN Cardinality(S) ELSE Cardinality(S) + 1
  BY <1>1, FS_AddElement
<1>4. Cardinality(S \ {p}) = IF p \in S THEN Cardinality(S) - 1 ELSE Cardinality(S)
  BY <1>1, FS_RemoveElement
<1> QED BY <1>1, <1>2, <1>3, <1>4

LEMMA InitIInv == Init => IInv
<1> SUFFICES ASSUME Init PROVE IInv
  OBVIOUS
<1>1. PICK p \in Panes :
        /\ panes = {p} /\ attached = {p} /\ active = p
        /\ live \in {{p}, {}} /\ known \in {{p}, {}}
  BY DEF Init
<1>2. /\ kind \in {"local", "ssh", "jms"} /\ area = "open" /\ pending = {}
      /\ inflight = 0 /\ tokens = [q \in Panes |-> 0] /\ deferred = <<>> /\ lost = {}
      /\ saved = TRUE /\ panicked = FALSE
  BY DEF Init
<1>3. TypeOK
  <2>1. tokens \in [Panes -> Nat] /\ inflight \in 0 .. MaxInflight /\ deferred \in Seq(Deferred)
    BY <1>2
  <2> QED BY <1>1, <1>2, <2>1 DEF TypeOK
<1>4. DeferInv
  BY <1>2 DEF DeferInv
<1>5. TokenInv /\ OneTokenPerSource
  BY <1>2 DEF TokenInv, OneTokenPerSource
<1>6. PaneLimit
  <2>1. Cardinality({p}) = 1
    BY FS_Singleton
  <2> QED BY <1>1, <2>1 DEF PaneLimit
<1>7. DockMatchesPanes /\ SessionsHavePanes
  BY <1>1 DEF DockMatchesPanes, SessionsHavePanes
<1> QED BY <1>3, <1>4, <1>5, <1>6, <1>7 DEF IInv

-----------------------------------------------------------------------------
\* Between two updates the sessions are those of panes, and all are docked.
LEMMA ReadyFacts ==
  ASSUME IInv, deferred = <<>>
  PROVE  live \subseteq panes /\ attached = panes
<1>1. DOMAIN deferred = {}
  OBVIOUS
<1> QED BY <1>1 DEF IInv, TypeOK, SessionsHavePanes, DockMatchesPanes

LEMMA SettleTypes ==
  ASSUME TypeOK, NEW p \in Panes, Settle(p)
  PROVE  pending' \subseteq Panes /\ inflight' \in 0 .. MaxInflight /\ lost' \subseteq Panes
BY DEF TypeOK, Settle, Saturating

LEMMA RequestsTypes ==
  ASSUME TypeOK, NEW p \in Panes, Requests(p)
  PROVE  /\ pending' \subseteq Panes /\ inflight' \in 0 .. MaxInflight
         /\ pending' = pending \cup {p} /\ p \notin pending
         /\ p \in panes /\ p \in attached /\ deferred = <<>>
BY DEF TypeOK, Requests, MaySplit, UserMay, Ready

\* split_with_terminal of a terminal that has no token request of its own.
LEMMA SplitWithEffect ==
  ASSUME IInv, NEW p \in Panes, NEW new \in Panes, SplitWith(p, new)
  PROVE  /\ panes' \subseteq Panes /\ attached' \subseteq Panes
         /\ active' \in Panes \cup {None} /\ live' \subseteq Panes
         /\ pending' = pending \ {p} /\ inflight' \in 0 .. MaxInflight
         /\ lost' = lost \ {p} /\ lost' \subseteq Panes
         /\ PaneLimit'
         /\ \/ /\ panes' = panes \cup {new} /\ attached' = attached \cup {new}
               /\ live' = live \cup {new}
            \/ /\ panes' = panes /\ attached' = attached
               /\ live' = live \ {new}
<1>0. TypeOK /\ PaneLimit
  BY DEF IInv
<1>1. /\ pending' = pending \ {p} /\ inflight' \in 0 .. MaxInflight
      /\ lost' = lost \ {p} /\ lost' \subseteq Panes
  BY <1>0, SettleTypes DEF SplitWith, Settle
<1>2. CASE Cardinality(panes) < MaxPanes /\ p \in attached /\ Insert(new)
  <2>1. /\ panes' = panes \cup {new} /\ attached' = attached \cup {new}
        /\ active' = new /\ live' = live \cup {new}
    BY <1>2 DEF Insert, Register
  <2>2. Cardinality(panes \cup {new}) <= Cardinality(panes) + 1
        /\ Cardinality(panes) \in Nat
        /\ Cardinality(panes \cup {new}) \in Nat
    <3>1. panes \in SUBSET Panes /\ panes \cup {new} \in SUBSET Panes
      BY <1>0 DEF TypeOK
    <3> QED BY <3>1, PaneCounts
  <2>3. PaneLimit'
    BY <1>2, <2>1, <2>2 DEF PaneLimit
  <2> QED BY <1>0, <1>1, <2>1, <2>3 DEF TypeOK
<1>3. CASE Reject(new)
  <2>1. UNCHANGED dock /\ live' = live \ {new}
    BY <1>3 DEF Reject
  <2> QED BY <1>0, <1>1, <2>1 DEF TypeOK, dock, PaneLimit
<1> QED BY <1>2, <1>3 DEF SplitWith

LEMMA SplitIInv ==
  ASSUME IInv, NEW p \in Panes,
         \/ SplitLocal(p) \/ RequestSsh(p) \/ RequestLost(p)
         \/ RequestJms(p) \/ RequestUnknown(p)
  PROVE  IInv'
<1>0. TypeOK
  BY DEF IInv
<1>1. CASE SplitLocal(p)
  <2>1. PICK new \in Panes : Fresh(new) /\ Register(new) /\ live' = live \cup {new}
    BY <1>1 DEF SplitLocal, Insert
  <2>2. /\ deferred = <<>> /\ MaySplit(p)
        /\ panes' = panes \cup {new} /\ attached' = attached \cup {new} /\ active' = new
        /\ UNCHANGED <<kind, area, pending, inflight, tokens, lost, known, deferred,
                       saved, panicked>>
    BY <1>1, <2>1 DEF SplitLocal, UserMay, Ready, Register, splits
  <2>3. live \subseteq panes /\ attached = panes
    BY <2>2, ReadyFacts
  <2>4. TypeOK'
    BY <1>0, <2>1, <2>2 DEF TypeOK
  <2>5. PaneLimit'
    <3>1. panes \in SUBSET Panes /\ panes \cup {new} \in SUBSET Panes
      BY <1>0 DEF TypeOK
    <3>2. Cardinality(panes \cup {new}) <= Cardinality(panes) + 1
          /\ Cardinality(panes) \in Nat
          /\ Cardinality(panes \cup {new}) \in Nat
      BY <3>1, PaneCounts
    <3>3. Cardinality(panes) + inflight < MaxPanes /\ inflight \in Nat
      BY <1>0, <2>2 DEF MaySplit, TypeOK
    <3> QED BY <2>2, <3>2, <3>3 DEF PaneLimit
  <2>6. tokens[new] = 0 /\ new \notin lost
    BY <1>0, <2>1 DEF Fresh, Referred, TypeOK
  <2>7. DeferInv' /\ TokenInv' /\ OneTokenPerSource'
    BY <2>2, <2>6 DEF IInv, DeferInv, TokenInv, OneTokenPerSource
  <2>8. DockMatchesPanes' /\ SessionsHavePanes'
    BY <2>1, <2>2, <2>3 DEF DockMatchesPanes, SessionsHavePanes
  <2> QED BY <2>4, <2>5, <2>7, <2>8 DEF IInv
<1>2. CASE RequestSsh(p)
  <2>1. PICK new \in Panes :
          /\ Fresh(new)
          /\ live' = live \cup {new}
          /\ deferred' = Append(deferred, [call |-> "insert", source |-> p, new |-> new])
    BY <1>2 DEF RequestSsh
  <2>2. /\ kind = "ssh"
        /\ UNCHANGED <<kind, area, panes, attached, active, tokens, lost, known, saved,
                       panicked>>
        /\ new \notin lost
    BY <1>2, <2>1 DEF RequestSsh, dock, Fresh, Referred
  <2>3. /\ pending' \subseteq Panes /\ inflight' \in 0 .. MaxInflight
        /\ pending' = pending \cup {p} /\ deferred = <<>>
    BY <1>0, <1>2, RequestsTypes DEF RequestSsh
  <2>4. [call |-> "insert", source |-> p, new |-> new] \in Deferred
    BY DEF Deferred
  <2>5. /\ deferred' \in Seq(Deferred) /\ Len(deferred') = 1 /\ DOMAIN deferred' = {1}
        /\ deferred'[1] = [call |-> "insert", source |-> p, new |-> new]
    BY <2>1, <2>3, <2>4, AppendOne
  <2>6. live \subseteq panes /\ attached = panes
    BY <2>3, ReadyFacts
  <2>7. TypeOK'
    BY <1>0, <2>1, <2>2, <2>3, <2>5 DEF TypeOK
  <2>8. DeferInv' /\ TokenInv' /\ OneTokenPerSource' /\ PaneLimit'
    BY <2>2, <2>3, <2>5 DEF IInv, DeferInv, TokenInv, OneTokenPerSource, PaneLimit
  <2>9. DockMatchesPanes' /\ SessionsHavePanes'
    BY <2>1, <2>2, <2>5, <2>6 DEF DockMatchesPanes, SessionsHavePanes
  <2> QED BY <2>7, <2>8, <2>9 DEF IInv
<1>3. CASE RequestLost(p) \/ RequestJms(p) \/ RequestUnknown(p)
  <2>1. /\ pending' \subseteq Panes /\ inflight' \in 0 .. MaxInflight
        /\ pending' = pending \cup {p} /\ p \notin pending
        /\ p \in attached /\ deferred = <<>>
    BY <1>0, <1>3, RequestsTypes DEF RequestLost, RequestJms, RequestUnknown
  <2>2. /\ UNCHANGED <<kind, area, panes, attached, active, live, known, deferred, saved>>
        /\ panicked' \in BOOLEAN
        /\ \/ tokens' = tokens
           \/ kind = "jms" /\ tokens' = [tokens EXCEPT ![p] = @ + 1]
        /\ lost' = lost \/ lost' = lost \cup {p}
    BY <1>0, <1>3 DEF RequestLost, RequestJms, RequestUnknown, dock, TypeOK
  <2>3. tokens[p] = 0
    BY <1>0, <2>1 DEF IInv, TokenInv, TypeOK
  <2>4. TypeOK'
    BY <1>0, <2>1, <2>2 DEF TypeOK
  <2>5. TokenInv' /\ OneTokenPerSource'
    BY <1>0, <2>1, <2>2, <2>3 DEF IInv, TokenInv, OneTokenPerSource, TypeOK
  <2>6. DeferInv' /\ PaneLimit' /\ DockMatchesPanes' /\ SessionsHavePanes'
    BY <2>1, <2>2 DEF IInv, DeferInv, PaneLimit, DockMatchesPanes, SessionsHavePanes
  <2> QED BY <2>4, <2>5, <2>6 DEF IInv
<1> QED BY <1>1, <1>2, <1>3

LEMMA RunIInv ==
  ASSUME IInv, RunInsert \/ RunClosed
  PROVE  IInv'
<1>0. TypeOK /\ DeferInv /\ deferred # <<>>
  BY DEF IInv, RunInsert, RunClosed
<1> DEFINE d == Head(deferred)
<1>1. /\ d \in Deferred /\ Tail(deferred) = <<>>
      /\ DOMAIN deferred = {1} /\ deferred[1] = d
  BY <1>0, OneDeferred
<1>2. deferred' = <<>> /\ deferred' \in Seq(Deferred) /\ Len(deferred') <= 1
  <2>1. deferred' = Tail(deferred)
    BY DEF RunInsert, RunClosed
  <2>2. <<>> \in Seq(Deferred) /\ Len(<<>>) = 0
    BY EmptySeq
  <2>3. deferred' = <<>>
    BY <1>1, <2>1
  <2>4. deferred' \in Seq(Deferred)
    BY <2>2, <2>3, Zenon
  <2>5. Len(deferred') <= 1
    BY <2>2, <2>3
  <2> QED BY <2>3, <2>4, <2>5
<1>3. DeferInv'
  BY <1>2 DEF DeferInv
<1> HIDE DEF d
<1>4. CASE RunInsert
  <2>1. /\ d.call = "insert"
        /\ SplitWith(d.source, d.new)
        /\ UNCHANGED <<kind, area, tokens, known, saved, panicked>>
    BY <1>4 DEF RunInsert, d
  <2>2. d.source \in Panes /\ d.new \in Panes
    BY <1>1, <2>1 DEF Deferred
  <2>3. kind = "ssh" /\ d.new \notin lost
    BY <1>0, <1>4 DEF RunInsert, DeferInv, d
  <2>4. /\ panes' \subseteq Panes /\ attached' \subseteq Panes
        /\ active' \in Panes \cup {None} /\ live' \subseteq Panes
        /\ pending' = pending \ {d.source} /\ inflight' \in 0 .. MaxInflight
        /\ lost' = lost \ {d.source} /\ lost' \subseteq Panes
        /\ PaneLimit'
        /\ \/ /\ panes' = panes \cup {d.new} /\ attached' = attached \cup {d.new}
              /\ live' = live \cup {d.new}
           \/ /\ panes' = panes /\ attached' = attached
              /\ live' = live \ {d.new}
    BY <2>1, <2>2, SplitWithEffect
  <2>5. TypeOK'
    BY <1>0, <1>2, <2>1, <2>4 DEF TypeOK
  <2>6. \A p \in Panes : tokens[p] = 0
    BY <1>0, <2>3 DEF IInv, TokenInv, TypeOK
  <2>7. TokenInv' /\ OneTokenPerSource'
    BY <2>1, <2>3, <2>4, <2>6 DEF IInv, TokenInv, OneTokenPerSource
  <2>8. attached = panes
    BY <1>1, <2>1 DEF IInv, DockMatchesPanes
  <2>9. DockMatchesPanes'
    BY <2>4, <2>8 DEF DockMatchesPanes
  <2>10. live \subseteq panes \cup {d.new}
    BY <1>1 DEF IInv, SessionsHavePanes
  <2>11. SessionsHavePanes'
    BY <2>4, <2>10 DEF SessionsHavePanes
  <2> QED BY <1>3, <2>4, <2>5, <2>7, <2>9, <2>11 DEF IInv
<1>5. CASE RunClosed
  <2>1. /\ d.call = "closed"
        /\ IF d.source \in attached
           THEN UNCHANGED <<panes, active, pending, inflight, lost, live, known>>
           ELSE Remove(d.source)
        /\ UNCHANGED <<kind, area, attached, tokens, saved, panicked>>
    BY <1>5 DEF RunClosed, d
  <2>2. d.source \in Panes
    BY <1>1, <2>1 DEF Deferred
  <2>3. live \subseteq panes
    BY <1>1, <2>1 DEF IInv, TypeOK, SessionsHavePanes
  <2>4. attached \subseteq panes /\ panes \ attached \subseteq {d.source}
    BY <1>1 DEF IInv, DockMatchesPanes
  <2>5. CASE d.source \in attached
    <3>1. UNCHANGED <<panes, active, pending, inflight, lost, live, known>>
      BY <2>1, <2>5
    <3>2. TypeOK' /\ TokenInv' /\ OneTokenPerSource' /\ PaneLimit'
      BY <1>2, <2>1, <3>1 DEF IInv, TypeOK, TokenInv, OneTokenPerSource, PaneLimit
    <3>3. DockMatchesPanes' /\ SessionsHavePanes'
      BY <2>1, <2>3, <2>4, <2>5, <3>1 DEF DockMatchesPanes, SessionsHavePanes
    <3> QED BY <1>3, <3>2, <3>3 DEF IInv
  <2>6. CASE d.source \notin attached
    <3>1. /\ panes' = panes \ {d.source}
          /\ known' = known \ {d.source}
          /\ live' = live \ {d.source}
          /\ active' \in {active, None} \cup panes
          /\ IF d.source \in pending THEN Settle(d.source)
             ELSE UNCHANGED <<pending, inflight, lost>>
      BY <2>1, <2>6 DEF Remove
    <3>2. /\ pending \ {d.source} = pending' \ {d.source}
          /\ lost' \subseteq lost /\ lost' \subseteq Panes
          /\ pending' \subseteq Panes /\ inflight' \in 0 .. MaxInflight
      BY <1>0, <2>2, <3>1, SettleTypes DEF Settle, TypeOK
    <3>3. TypeOK'
      BY <1>0, <1>2, <2>1, <3>1, <3>2 DEF TypeOK
    <3>4. TokenInv' /\ OneTokenPerSource'
      BY <2>1, <2>6, <3>2 DEF IInv, TokenInv, OneTokenPerSource
    <3>5. PaneLimit'
      <4>1. panes \in SUBSET Panes /\ panes' \in SUBSET Panes
        BY <1>0, <3>3 DEF TypeOK
      <4>2. Cardinality(panes \ {d.source}) <= Cardinality(panes)
            /\ Cardinality(panes) \in Nat /\ Cardinality(panes') \in Nat
        BY <2>2, <4>1, PaneCounts
      <4> QED BY <3>1, <4>2 DEF IInv, PaneLimit
    <3>6. DockMatchesPanes' /\ SessionsHavePanes'
      BY <2>1, <2>3, <2>4, <2>6, <3>1 DEF DockMatchesPanes, SessionsHavePanes
    <3> QED BY <1>3, <3>3, <3>4, <3>5, <3>6 DEF IInv
  <2> QED BY <2>5, <2>6
<1> QED BY <1>4, <1>5

LEMMA TokenIInv ==
  ASSUME IInv, NEW p \in Panes, TokenOk(p) \/ TokenErr(p) \/ TokenMissed(p)
  PROVE  IInv'
<1>0. /\ TypeOK /\ deferred = <<>> /\ tokens[p] = 1
      /\ tokens' = [tokens EXCEPT ![p] = 0]
      /\ UNCHANGED <<kind, area, deferred, saved, panicked>>
  <2>1. tokens[p] > 0 /\ tokens[p] \in Nat /\ tokens[p] <= 1
    BY DEF IInv, OneTokenPerSource, TypeOK, TokenOk, TokenErr, TokenMissed
  <2>2. tokens[p] = 1 /\ 1 - 1 = 0
    BY <2>1
  <2> QED BY <2>2 DEF IInv, Ready, TokenOk, TokenErr, TokenMissed
<1>1. live \subseteq panes /\ attached = panes
  BY <1>0, ReadyFacts
<1>2. tokens' \in [Panes -> Nat] /\ tokens'[p] = 0
      /\ \A q \in Panes : q # p => tokens'[q] = tokens[q]
  BY <1>0 DEF TypeOK
<1>3. OneTokenPerSource'
  BY <1>2 DEF IInv, OneTokenPerSource
<1>4. CASE TokenOk(p)
  <2>1. PICK new \in Panes :
          /\ Fresh(new) /\ SplitWith(p, new)
          /\ known' = IF new \in live' THEN known \cup {new} ELSE known
    BY <1>4 DEF TokenOk
  <2>2. /\ panes' \subseteq Panes /\ attached' \subseteq Panes
        /\ active' \in Panes \cup {None} /\ live' \subseteq Panes
        /\ pending' = pending \ {p} /\ inflight' \in 0 .. MaxInflight
        /\ lost' = lost \ {p} /\ lost' \subseteq Panes
        /\ PaneLimit'
        /\ \/ /\ panes' = panes \cup {new} /\ attached' = attached \cup {new}
              /\ live' = live \cup {new}
           \/ /\ panes' = panes /\ attached' = attached
              /\ live' = live \ {new}
    BY <2>1, SplitWithEffect
  <2>3. TypeOK'
    BY <1>0, <1>2, <2>1, <2>2 DEF TypeOK
  <2>4. tokens[new] = 0 /\ new \notin lost
    BY <1>0, <2>1 DEF Fresh, Referred, TypeOK
  <2>5. TokenInv'
    BY <1>0, <1>2, <2>2, <2>4 DEF IInv, TokenInv
  <2>6. DeferInv' /\ DockMatchesPanes' /\ SessionsHavePanes'
    BY <1>0, <1>1, <2>2 DEF DeferInv, DockMatchesPanes, SessionsHavePanes
  <2> QED BY <1>3, <2>2, <2>3, <2>5, <2>6 DEF IInv
<1>5. CASE TokenErr(p)
  <2>1. Settle(p) /\ UNCHANGED <<panes, attached, active, live, known>>
    BY <1>5 DEF TokenErr, dock
  <2>2. /\ pending' = pending \ {p} /\ inflight' \in 0 .. MaxInflight
        /\ lost' = lost \ {p} /\ lost' \subseteq Panes
    BY <1>0, <2>1, SettleTypes DEF Settle
  <2>3. TypeOK'
    BY <1>0, <1>2, <2>1, <2>2 DEF TypeOK
  <2>4. TokenInv' /\ PaneLimit'
    BY <1>0, <1>2, <2>1, <2>2 DEF IInv, TokenInv, PaneLimit
  <2>5. DeferInv' /\ DockMatchesPanes' /\ SessionsHavePanes'
    BY <1>0, <1>1, <2>1 DEF DeferInv, DockMatchesPanes, SessionsHavePanes
  <2> QED BY <1>3, <2>3, <2>4, <2>5 DEF IInv
<1>6. CASE TokenMissed(p)
  <2>1. /\ lost' = lost \cup {p} /\ pending' = pending
        /\ UNCHANGED <<panes, attached, active, inflight, live, known>>
    BY <1>6 DEF TokenMissed, dock
  <2>2. TypeOK'
    BY <1>0, <1>2, <2>1 DEF TypeOK
  <2>3. TokenInv' /\ PaneLimit'
    BY <1>0, <1>2, <2>1 DEF IInv, TokenInv, PaneLimit
  <2>4. DeferInv' /\ DockMatchesPanes' /\ SessionsHavePanes'
    BY <1>0, <1>1, <2>1 DEF DeferInv, DockMatchesPanes, SessionsHavePanes
  <2> QED BY <1>3, <2>2, <2>3, <2>4 DEF IInv
<1> QED BY <1>4, <1>5, <1>6

LEMMA CloseIInv ==
  ASSUME IInv, NEW p \in Panes, ClosePane(p) \/ DockClose(p) \/ Drag(p)
  PROVE  IInv'
<1> DEFINE d == [call |-> "closed", source |-> p]
<1>1. /\ TypeOK /\ deferred = <<>> /\ p \in panes
      /\ deferred' = Append(deferred, d)
      /\ UNCHANGED <<kind, area, panes, active, tokens, inflight, lost, known, saved, panicked>>
  BY DEF IInv, ClosePane, DockClose, Drag, Detach, UserMay, Ready, dock, splits
<1>2. live \subseteq panes /\ attached = panes
  BY <1>1, ReadyFacts
<1>3. /\ deferred' \in Seq(Deferred) /\ Len(deferred') = 1 /\ DOMAIN deferred' = {1}
      /\ deferred'[1] = d /\ Head(deferred') = d
  <2>1. d \in Deferred
    BY DEF Deferred
  <2> HIDE DEF d
  <2> QED BY <1>1, <2>1, AppendOne
<1>4. DeferInv'
  BY <1>3 DEF DeferInv
<1>5. /\ live' = live \ {p} \/ live' = live
      /\ \/ attached' = attached \ {p} /\ pending' \in {pending, pending \ {p}}
         \/ attached' = attached /\ pending' = pending
  BY DEF ClosePane, DockClose, Drag, Detach, dock, splits
<1>6. TypeOK'
  BY <1>1, <1>3, <1>5 DEF TypeOK
<1>7. TokenInv' /\ OneTokenPerSource' /\ PaneLimit'
  BY <1>1, <1>5 DEF IInv, TokenInv, OneTokenPerSource, PaneLimit
<1>8. DockMatchesPanes' /\ SessionsHavePanes'
  BY <1>1, <1>2, <1>3, <1>5 DEF DockMatchesPanes, SessionsHavePanes
<1> QED BY <1>4, <1>6, <1>7, <1>8 DEF IInv

LEMMA OtherIInv ==
  ASSUME IInv,
         \/ DeleteConnection \/ TryClose \/ AskClose \/ Confirm \/ Decline
         \/ \E p \in Panes : Focus(p) \/ ChooseAsset(p)
  PROVE  IInv'
<1>1. /\ TypeOK /\ deferred = <<>>
      /\ UNCHANGED <<kind, panes, attached, pending, inflight, tokens, lost, deferred, panicked>>
  BY DEF IInv, DeleteConnection, TryClose, CloseArea, AskClose, Confirm, Decline,
         Focus, ChooseAsset, UserMay, Ready, dock, splits
<1>2. live \subseteq panes /\ attached = panes
  BY <1>1, ReadyFacts
<1>3. /\ area' \in {"open", "asking", "closed", "released"} /\ saved' \in BOOLEAN
      /\ active' \in Panes \cup {None} /\ known' \subseteq Panes /\ live' \subseteq panes
  BY <1>1, <1>2 DEF TypeOK, DeleteConnection, TryClose, CloseArea, AskClose, Confirm,
         Decline, Focus, ChooseAsset, dock
<1>4. TypeOK'
  BY <1>1, <1>3 DEF TypeOK
<1>5. DeferInv' /\ TokenInv' /\ OneTokenPerSource' /\ PaneLimit'
  BY <1>1 DEF IInv, DeferInv, TokenInv, OneTokenPerSource, PaneLimit
<1>6. DockMatchesPanes' /\ SessionsHavePanes'
  BY <1>1, <1>2, <1>3 DEF DockMatchesPanes, SessionsHavePanes
<1> QED BY <1>4, <1>5, <1>6 DEF IInv

LEMMA ReleaseIInv ==
  ASSUME IInv, ReleaseArea
  PROVE  IInv'
<1>1. /\ TypeOK /\ deferred = <<>>
      /\ area' = "released" /\ panes' = {} /\ attached' = {} /\ active' = None
      /\ live' = live \ panes /\ known' = {}
      /\ pending' = {} /\ inflight' = 0 /\ lost' = {}
      /\ UNCHANGED <<kind, tokens, deferred, saved, panicked>>
  BY DEF IInv, ReleaseArea, Ready, splits
<1>2. live' = {}
  BY <1>1, ReadyFacts
<1>3. TypeOK'
  BY <1>1, <1>2 DEF TypeOK
<1>4. PaneLimit'
  BY <1>1, FS_EmptySet DEF PaneLimit
<1>5. DeferInv' /\ TokenInv' /\ OneTokenPerSource'
  BY <1>1 DEF IInv, DeferInv, TokenInv, OneTokenPerSource
<1>6. DockMatchesPanes' /\ SessionsHavePanes'
  BY <1>1, <1>2 DEF DockMatchesPanes, SessionsHavePanes
<1> QED BY <1>3, <1>4, <1>5, <1>6 DEF IInv

LEMMA NextIInv == IInv /\ [Next]_vars => IInv'
<1> SUFFICES ASSUME IInv, [Next]_vars PROVE IInv'
  OBVIOUS
<1>1. CASE UNCHANGED vars
  BY <1>1 DEF vars, dock, splits, IInv, TypeOK, DeferInv, TokenInv, PaneLimit,
              DockMatchesPanes, SessionsHavePanes, OneTokenPerSource
<1>2. CASE RunInsert \/ RunClosed
  BY <1>2, RunIInv
<1>3. CASE DeleteConnection \/ TryClose \/ AskClose \/ Confirm \/ Decline
  BY <1>3, OtherIInv
<1>4. CASE ReleaseArea
  BY <1>4, ReleaseIInv
<1>5. ASSUME NEW p \in Panes,
             \/ SplitLocal(p) \/ RequestSsh(p) \/ RequestLost(p)
             \/ RequestJms(p) \/ RequestUnknown(p)
      PROVE  IInv'
  BY <1>5, SplitIInv
<1>6. ASSUME NEW p \in Panes, TokenOk(p) \/ TokenErr(p) \/ TokenMissed(p)
      PROVE  IInv'
  BY <1>6, TokenIInv
<1>7. ASSUME NEW p \in Panes, ClosePane(p) \/ DockClose(p) \/ Drag(p)
      PROVE  IInv'
  BY <1>7, CloseIInv
<1>8. ASSUME NEW p \in Panes, Focus(p) \/ ChooseAsset(p)
      PROVE  IInv'
  BY <1>8, OtherIInv
<1> QED BY <1>1, <1>2, <1>3, <1>4, <1>5, <1>6, <1>7, <1>8 DEF Next

-----------------------------------------------------------------------------
THEOREM PaneInvariant == Spec => []IInv
BY InitIInv, NextIInv, PTL DEF Spec

\* Every variable keeps its type: inflight_splits stays within its limit.
THEOREM PaneTypes == Spec => []TypeOK
BY PaneInvariant, PTL DEF IInv

\* However requests, closes and late tokens interleave, a tab holds at most
\* MAX_TERMINAL_PANES panes.
THEOREM PaneCount == Spec => []PaneLimit
BY PaneInvariant, PTL DEF IInv

\* The map of terminals and the dock differ only by a pane that is leaving.
THEOREM PaneDock == Spec => []DockMatchesPanes
BY PaneInvariant, PTL DEF IInv

\* No session outlives its pane or a rejected split.
THEOREM PaneSessions == Spec => []SessionsHavePanes
BY PaneInvariant, PTL DEF IInv

\* A source pane has at most one token request outstanding.
THEOREM PaneTokens == Spec => []OneTokenPerSource
BY PaneInvariant, PTL DEF IInv

-----------------------------------------------------------------------------
(* No split request is lost.  SplitsAnswered is inductive together with IInv: *)
(* OneTokenPerSource makes the outstanding requests as many as their sources, *)
(* and TokenInv keeps a source from asking again while its first request is   *)
(* out or lost.                                                               *)

\* Those a marked pane and a place of inflight_splits belong to.
Held == Outstanding \cup lost

LEMMA HeldFinite ==
  ASSUME IInv
  PROVE  /\ Held \in SUBSET Panes
         /\ IsFiniteSet(Held)
         /\ Cardinality(Held) \in Nat
<1>1. Held \in SUBSET Panes
  BY DEF Held, Outstanding, IInv, TypeOK
<1> QED BY <1>1, FS_Subset, FS_CardinalityType

LEMMA NoneDeferred ==
  ASSUME deferred = <<>>
  PROVE  Outstanding = {p \in Panes : tokens[p] > 0}
<1>1. DOMAIN deferred = {}
  OBVIOUS
<1> QED BY <1>1 DEF Outstanding

\* Closing and moving panes adds no request, and settles none by mistake for
\* the one outstanding of another pane.
LEMMA QuietAnswered ==
  ASSUME IInv, SplitsAnswered, Held' = Held,
         pending' \subseteq pending, inflight' <= inflight, inflight' \in Nat,
         panicked' = panicked
  PROVE  SplitsAnswered'
<1>1. inflight \in Nat
  BY DEF IInv, TypeOK
<1>2. Cardinality(Held) \in Nat
  BY HeldFinite
<1>3. panicked \/ (pending \subseteq Held /\ inflight <= Cardinality(Held))
  BY DEF SplitsAnswered, Held
<1>4. panicked' \/ (pending' \subseteq Held' /\ inflight' <= Cardinality(Held'))
  BY <1>1, <1>2, <1>3
<1> QED BY <1>4 DEF SplitsAnswered, Held

\* A new request: answered by a token or by a deferred insertion, or lost.
LEMMA AskAnswered ==
  ASSUME IInv, SplitsAnswered, NEW p \in Panes, Requests(p),
         panicked' = panicked, Held' = Held \cup {p}
  PROVE  SplitsAnswered'
<1>1. /\ TypeOK /\ deferred = <<>> /\ p \in attached /\ p \notin pending
      /\ pending' = pending \cup {p} /\ inflight' = inflight + 1 /\ inflight \in Nat
  BY DEF IInv, TypeOK, Requests, UserMay, Ready, MaySplit
<1>2. p \notin Held
  BY <1>1, NoneDeferred DEF Held, IInv, TokenInv
<1>3. IsFiniteSet(Held) /\ Cardinality(Held) \in Nat
  BY HeldFinite
<1>4. Cardinality(Held \cup {p}) = Cardinality(Held) + 1
  BY <1>2, <1>3, FS_AddElement
<1>5. panicked \/ (pending \subseteq Held /\ inflight <= Cardinality(Held))
  BY DEF SplitsAnswered, Held
<1>6. panicked' \/ (pending' \subseteq Held' /\ inflight' <= Cardinality(Held'))
  BY <1>1, <1>3, <1>4, <1>5
<1> QED BY <1>6 DEF SplitsAnswered, Held

\* A request of p settles and nobody else's does.
LEMMA SettleAnswered ==
  ASSUME IInv, SplitsAnswered, NEW p \in Panes, Settle(p),
         panicked' = panicked, Held \ {p} \subseteq Held'
  PROVE  SplitsAnswered'
<1>1. /\ pending' = pending \ {p} /\ inflight' = Saturating(inflight) /\ inflight \in Nat
      /\ lost' \subseteq Panes
  BY DEF IInv, TypeOK, Settle
<1>2. IsFiniteSet(Held) /\ Cardinality(Held) \in Nat
  BY HeldFinite
<1>3. IsFiniteSet(Held') /\ Cardinality(Held') \in Nat
  <2>1. Held' \in SUBSET Panes
    BY <1>1 DEF Held, Outstanding
  <2> QED BY <2>1, PaneCounts
<1>4. Cardinality(Held \ {p}) <= Cardinality(Held')
  BY <1>3, FS_Subset
<1>5. /\ Cardinality(Held \ {p}) \in Nat
      /\ Cardinality(Held) <= Cardinality(Held \ {p}) + 1
  BY <1>2, FS_RemoveElement, FS_Subset, FS_CardinalityType
<1>6. inflight <= Cardinality(Held) => inflight' <= Cardinality(Held')
  BY <1>1, <1>2, <1>3, <1>4, <1>5 DEF Saturating
<1>7. panicked \/ (pending \subseteq Held /\ inflight <= Cardinality(Held))
  BY DEF SplitsAnswered, Held
<1>8. panicked' \/ (pending' \subseteq Held' /\ inflight' <= Cardinality(Held'))
  BY <1>1, <1>6, <1>7
<1> QED BY <1>8 DEF SplitsAnswered, Held

LEMMA RequestAnswered ==
  ASSUME IInv, SplitsAnswered, NEW p \in Panes,
         \/ RequestSsh(p) \/ RequestLost(p) \/ RequestJms(p) \/ RequestUnknown(p)
  PROVE  SplitsAnswered'
<1>1. CASE RequestUnknown(p)
  BY <1>1 DEF RequestUnknown, SplitsAnswered
<1>2. CASE RequestLost(p)
  <2>1. /\ Requests(p) /\ UNCHANGED <<tokens, deferred, panicked>>
        /\ lost' = lost \cup {p}
    BY <1>2 DEF RequestLost
  <2>2. Held' = Held \cup {p}
    BY <2>1 DEF Held, Outstanding
  <2> QED BY <2>1, <2>2, AskAnswered
<1>3. CASE RequestSsh(p)
  <2>1. PICK new \in Panes :
          deferred' = Append(deferred, [call |-> "insert", source |-> p, new |-> new])
    BY <1>3 DEF RequestSsh
  <2>2. /\ deferred = <<>> /\ Requests(p) /\ UNCHANGED <<tokens, lost, panicked>>
    BY <1>3 DEF RequestSsh, Requests, UserMay, Ready
  <2>3. [call |-> "insert", source |-> p, new |-> new] \in Deferred
    BY DEF Deferred
  <2>4. DOMAIN deferred' = {1}
        /\ deferred'[1] = [call |-> "insert", source |-> p, new |-> new]
    BY <2>1, <2>2, <2>3, AppendOne
  <2>5. \A q \in Panes :
          (\E i \in DOMAIN deferred' : deferred'[i].call = "insert" /\ deferred'[i].source = q)
            <=> q = p
    BY <2>4
  <2>6. Outstanding' = {q \in Panes : tokens[q] > 0} \cup {p}
    BY <2>2, <2>5 DEF Outstanding
  <2>7. Held' = Held \cup {p}
    BY <2>2, <2>6, NoneDeferred DEF Held
  <2> QED BY <2>2, <2>7, AskAnswered
<1>4. CASE RequestJms(p)
  <2>1. /\ deferred = <<>> /\ Requests(p) /\ UNCHANGED <<deferred, lost, panicked>>
        /\ tokens' = [tokens EXCEPT ![p] = @ + 1] /\ tokens \in [Panes -> Nat]
    BY <1>4 DEF RequestJms, Requests, UserMay, Ready, IInv, TypeOK
  <2>2. tokens'[p] > 0 /\ \A q \in Panes : q # p => tokens'[q] = tokens[q]
    BY <2>1
  <2>3. DOMAIN deferred' = {}
    BY <2>1
  <2>4. Outstanding' = {q \in Panes : tokens[q] > 0} \cup {p}
    BY <2>2, <2>3 DEF Outstanding
  <2>5. Held' = Held \cup {p}
    BY <2>1, <2>4, NoneDeferred DEF Held
  <2> QED BY <2>1, <2>5, AskAnswered
<1> QED BY <1>1, <1>2, <1>3, <1>4

LEMMA AnswerAnswered ==
  ASSUME IInv, SplitsAnswered, NEW p \in Panes, TokenOk(p) \/ TokenErr(p) \/ TokenMissed(p)
  PROVE  SplitsAnswered'
<1>1. /\ deferred = <<>> /\ tokens \in [Panes -> Nat] /\ tokens[p] > 0 /\ tokens[p] <= 1
      /\ tokens' = [tokens EXCEPT ![p] = @ - 1] /\ UNCHANGED <<deferred, panicked>>
  BY DEF TokenOk, TokenErr, TokenMissed, Ready, IInv, TypeOK, OneTokenPerSource
<1>2. tokens'[p] = 0 /\ \A q \in Panes : q # p => tokens'[q] = tokens[q]
  BY <1>1
<1>3. DOMAIN deferred' = {}
  BY <1>1
<1>4. Outstanding' = {q \in Panes : tokens[q] > 0} \ {p}
  BY <1>2, <1>3 DEF Outstanding
<1>5. Outstanding = {q \in Panes : tokens[q] > 0} /\ p \in Outstanding
  BY <1>1, NoneDeferred
<1>6. CASE TokenOk(p) \/ TokenErr(p)
  <2>1. Settle(p) /\ lost' = lost \ {p}
    BY <1>6 DEF TokenOk, TokenErr, SplitWith, Settle
  <2>2. Held \ {p} \subseteq Held'
    BY <1>4, <1>5, <2>1 DEF Held
  <2> QED BY <1>1, <2>1, <2>2, SettleAnswered
<1>7. CASE TokenMissed(p)
  <2>1. lost' = lost \cup {p} /\ pending' = pending /\ inflight' = inflight /\ inflight \in Nat
    BY <1>7 DEF TokenMissed, IInv, TypeOK
  <2>2. Held' = Held
    BY <1>4, <1>5, <2>1 DEF Held
  <2> QED BY <1>1, <2>1, <2>2, QuietAnswered
<1> QED BY <1>6, <1>7

LEMMA RunAnswered ==
  ASSUME IInv, SplitsAnswered, RunInsert \/ RunClosed
  PROVE  SplitsAnswered'
<1>1. TypeOK /\ DeferInv /\ deferred # <<>> /\ deferred' = Tail(deferred)
  BY DEF IInv, RunInsert, RunClosed
<1>2. /\ Head(deferred) \in Deferred /\ Tail(deferred) = <<>>
      /\ DOMAIN deferred = {1} /\ deferred[1] = Head(deferred)
  BY <1>1, OneDeferred
<1>3. DOMAIN deferred' = {} /\ UNCHANGED <<tokens, panicked>>
  <2>1. deferred' = <<>>
    BY <1>1, <1>2
  <2> QED BY <2>1 DEF RunInsert, RunClosed
<1>4. Outstanding' = {q \in Panes : tokens[q] > 0}
  BY <1>3 DEF Outstanding
<1>5. PICK p \in Panes : p = Head(deferred).source
  BY <1>2 DEF Deferred
<1>6. CASE RunInsert
  <2>1. /\ Head(deferred).call = "insert" /\ Settle(p) /\ lost' = lost \ {p}
    BY <1>5, <1>6 DEF RunInsert, SplitWith, Settle
  <2>2. \A q \in Panes : ~ (tokens[q] > 0)
    BY <1>1, <2>1 DEF IInv, TokenInv, DeferInv
  <2>3. Outstanding = {p}
    BY <1>2, <1>5, <2>1, <2>2 DEF Outstanding
  <2>4. Held \ {p} \subseteq Held'
    BY <2>1, <2>3 DEF Held
  <2> QED BY <1>3, <2>1, <2>4, SettleAnswered
<1>7. CASE RunClosed
  <2>1. Head(deferred).call = "closed"
    BY <1>7 DEF RunClosed
  <2>2. Outstanding' = Outstanding
    BY <1>2, <1>4, <2>1 DEF Outstanding
  <2>3. \/ Settle(p) /\ lost' = lost \ {p}
        \/ UNCHANGED <<pending, inflight, lost>>
    BY <1>5, <1>7 DEF RunClosed, Remove, Settle
  <2>4. CASE Settle(p) /\ lost' = lost \ {p}
    <3>1. Held \ {p} \subseteq Held'
      BY <2>2, <2>4 DEF Held
    <3> QED BY <1>3, <2>4, <3>1, SettleAnswered
  <2>5. CASE UNCHANGED <<pending, inflight, lost>>
    <3>1. Held' = Held /\ inflight \in Nat
      BY <1>1, <2>2, <2>5 DEF Held, TypeOK
    <3> QED BY <1>3, <2>5, <3>1, QuietAnswered
  <2> QED BY <2>3, <2>4, <2>5
<1> QED BY <1>6, <1>7

LEMMA CloseAnswered ==
  ASSUME IInv, SplitsAnswered, NEW p \in Panes, ClosePane(p) \/ DockClose(p) \/ Drag(p)
  PROVE  SplitsAnswered'
<1>1. /\ deferred = <<>> /\ inflight \in Nat
      /\ deferred' = Append(deferred, [call |-> "closed", source |-> p])
      /\ pending' \subseteq pending /\ UNCHANGED <<inflight, tokens, lost, panicked>>
  BY DEF ClosePane, DockClose, Drag, Detach, UserMay, Ready, splits, IInv, TypeOK
<1>2. [call |-> "closed", source |-> p] \in Deferred
  BY DEF Deferred
<1>3. DOMAIN deferred' = {1} /\ deferred'[1].call = "closed"
  BY <1>1, <1>2, AppendOne
<1>4. Outstanding' = {q \in Panes : tokens[q] > 0}
  BY <1>1, <1>3 DEF Outstanding
<1>5. Held' = Held
  BY <1>1, <1>4, NoneDeferred DEF Held
<1> QED BY <1>1, <1>5, QuietAnswered

LEMMA NextAnswered == IInv /\ SplitsAnswered /\ [Next]_vars => SplitsAnswered'
<1> SUFFICES ASSUME IInv, SplitsAnswered, [Next]_vars PROVE SplitsAnswered'
  OBVIOUS
<1>1. ASSUME UNCHANGED <<pending, inflight, tokens, lost, deferred, panicked>>
      PROVE  SplitsAnswered'
  <2>1. Held' = Held /\ inflight \in Nat
    BY <1>1 DEF Held, Outstanding, IInv, TypeOK
  <2> QED BY <1>1, <2>1, QuietAnswered
<1>2. CASE UNCHANGED vars
  BY <1>1, <1>2 DEF vars, splits
<1>3. CASE RunInsert \/ RunClosed
  BY <1>3, RunAnswered
<1>4. CASE DeleteConnection \/ TryClose \/ AskClose \/ Confirm \/ Decline
  BY <1>1, <1>4 DEF DeleteConnection, TryClose, AskClose, Confirm, CloseArea, Decline,
                    splits
<1>5. CASE ReleaseArea
  <2>1. pending' = {} /\ inflight' = 0 /\ lost' = {} /\ UNCHANGED <<tokens, deferred>>
    BY <1>5 DEF ReleaseArea
  <2>2. IsFiniteSet(Outstanding) /\ Cardinality(Outstanding) \in Nat
    <3>1. Outstanding \in SUBSET Panes
      BY DEF Outstanding
    <3> QED BY <3>1, FS_Subset, FS_CardinalityType
  <2>3. Outstanding' = Outstanding
    BY <2>1 DEF Outstanding
  <2> QED BY <2>1, <2>2, <2>3 DEF SplitsAnswered
<1>6. ASSUME NEW p \in Panes, SplitLocal(p) \/ Focus(p) \/ ChooseAsset(p)
      PROVE  SplitsAnswered'
  BY <1>1, <1>6 DEF SplitLocal, Focus, ChooseAsset, splits
<1>7. ASSUME NEW p \in Panes,
             \/ RequestSsh(p) \/ RequestLost(p) \/ RequestJms(p) \/ RequestUnknown(p)
      PROVE  SplitsAnswered'
  BY <1>7, RequestAnswered
<1>8. ASSUME NEW p \in Panes, TokenOk(p) \/ TokenErr(p) \/ TokenMissed(p)
      PROVE  SplitsAnswered'
  BY <1>8, AnswerAnswered
<1>9. ASSUME NEW p \in Panes, ClosePane(p) \/ DockClose(p) \/ Drag(p)
      PROVE  SplitsAnswered'
  BY <1>9, CloseAnswered
<1> QED BY <1>2, <1>3, <1>4, <1>5, <1>6, <1>7, <1>8, <1>9 DEF Next

\* Unless HomePage panics, a pane that is marked has a request that will be
\* answered or was lost, and inflight_splits never holds a place for any other.
THEOREM PaneSplits == Spec => []SplitsAnswered
<1>1. Init => SplitsAnswered
  <2> SUFFICES ASSUME Init PROVE SplitsAnswered
    OBVIOUS
  <2>1. pending = {} /\ inflight = 0
    BY DEF Init
  <2>2. Cardinality(Outstanding \cup lost) \in Nat
    BY InitIInv, HeldFinite DEF Held
  <2> QED BY <2>1, <2>2 DEF SplitsAnswered
<1>2. IInv /\ SplitsAnswered /\ [Next]_vars => SplitsAnswered'
  BY NextAnswered
<1> QED BY <1>1, <1>2, PaneInvariant, PTL DEF Spec

=============================================================================
