--------------------------- MODULE TcpProxyProofs ---------------------------
(***************************************************************************)
(* Proofs about TcpProxy for any set of connections, any number of chunks, *)
(* any capacity of errc and any configuration of trusted sources.          *)
(***************************************************************************)
EXTENDS TcpProxy, SpliceProofs, FiniteSetTheorems

\* What a step of one connection leaves alone of another one, d.
Untouched(d) ==
    /\ pc'[d] = pc[d] /\ peer'[d] = peer[d] /\ open'[d] = open[d] /\ sent'[d] = sent[d]
    /\ put'[d] = put[d] /\ copier'[d] = copier[d] /\ errc'[d] = errc[d]
    /\ source' = source

\* tcpproxy.go:71: a handler runs per connection and shares nothing with another
\* but the metrics, so a connection that a step leaves alone keeps its invariant.
LEMMA UntouchedInv ==
    ASSUME NEW d \in Conns, SessionInv(d), Untouched(d)
    PROVE  SessionInv(d)'
<1>1. SpliceInv(d)'
  BY SpliceInvUntouched DEF Untouched, SessionInv
<1> QED BY <1>1 DEF Untouched, SessionInv, Copied

\* tcpproxy.go:65: before the first Accept there is nothing to relate.
LEMMA InitInv == Init => Inv
<1> SUFFICES ASSUME Init PROVE Inv
  OBVIOUS
<1>1. TypeOK
  BY SpliceAssumption DEF Init, SpliceInit, TypeOK, SpliceTypeOK, PcStates, PeerStates,
                          CopierStates, Labels
<1>2. ASSUME NEW c \in Conns PROVE SessionInv(c)
  <2>1. /\ pc[c] = "idle" /\ errc[c] = <<>>
        /\ \A s \in Sides : /\ peer[c][s] = "none" /\ copier[c][s] = "off"
                            /\ sent[c][s] = 0 /\ put[c][s] = 0
    BY DEF Init, SpliceInit
  <2>2. SpliceInv(c)
    BY <2>1 DEF SpliceInv, Together, NothingMadeUp, Balanced, EndsForAReason, OpenInSession,
                Copied, Sides
  <2>3. ~open[c]["upstream"]
    BY DEF Init, SpliceInit, Sides
  <2> QED BY <2>1, <2>2, <2>3 DEF SessionInv, Copied, Sides
<1> QED BY <1>1, <1>2 DEF Inv

\* The peers, the kernel and the copying goroutines.
LEMMA SpliceStepInv ==
    ASSUME Inv, (Environment \/ Copying) /\ UNCHANGED <<source, metrics>>
    PROVE  Inv'
<1>1. PICK c \in Conns, s \in Sides :
         PeerStep(c, s) \/ KeepAlive(c, s) \/ CopierStep(c, s) \/ WriteOk(c, s)
  BY DEF Environment, Copying
<1>2. TypeOK'
  BY <1>1, CoreStep DEF Inv, TypeOK, SessionInv, metrics
<1>3. \A d \in Conns : SessionInv(d)'
  BY <1>1, CoreStep DEF Inv, TypeOK, SessionInv, Sides
<1> QED BY <1>2, <1>3 DEF Inv

\* The handler, one case per statement.
LEMMA HandlerTypeOK ==
    ASSUME Inv, NEW c \in Conns, Accept(c) \/ Handler(c)
    PROVE  TypeOK'
<1>0. TypeOK /\ SpliceTypeOK
  BY DEF Inv, TypeOK
<1> USE <1>0 DEF TypeOK, SpliceTypeOK, Goto, Connect, Close, Count, metrics, spliceVars
<1>a. ASSUME NEW s \in Sides, Connect(c, s)
      PROVE  /\ peer' \in [Conns -> [Sides -> PeerStates]]
             /\ open' \in [Conns -> [Sides -> BOOLEAN]]
  BY <1>a DEF PeerStates
<1>1. CASE Accept(c)
  <2>1. pc' \in [Conns -> PcStates]
    BY <1>1 DEF Accept, PcStates
  <2> QED BY <1>1, <1>a, <2>1 DEF Accept, Sides
<1>b. ASSUME NEW l \in Labels, Count(l) PROVE errors' \in [Labels -> Nat]
  BY <1>b
<1>2. CASE Gate(c)
  <2>1. pc' \in [Conns -> PcStates]
    BY <1>2 DEF Gate, PcStates
  <2>2. errors' \in [Labels -> Nat]
    <3>1. "disallowed-source" \in Labels
      BY DEF Labels
    <3> QED BY <1>2, <1>b, <3>1 DEF Gate
  <2> QED BY <1>2, <2>1, <2>2 DEF Gate
<1>3. CASE DialOk(c)
  <2>1. pc' \in [Conns -> PcStates]
    BY <1>3 DEF DialOk, PcStates
  <2> QED BY <1>3, <1>a, <2>1 DEF DialOk, Sides
<1>4. CASE DialFail(c)
  BY <1>4 DEF DialFail, PcStates, Labels
<1>5. CASE CountStarted(c)
  BY <1>5 DEF CountStarted, PcStates
<1>6. CASE StartSession(c)
  <2>1. pc' \in [Conns -> PcStates]
    BY <1>6 DEF StartSession, PcStates
  <2>2. copier' \in [Conns -> [Sides -> CopierStates]]
    BY <1>6 DEF StartSession, StartCopying, CopierStates
  <2> QED BY <1>6, <2>1, <2>2 DEF StartSession
<1>7. CASE EndSession(c)
  BY <1>7 DEF EndSession, Await, PcStates, Labels
<1>8. CASE Uncount(c)
  BY <1>8 DEF Uncount, PcStates
<1>9. CASE CloseUpstream(c)
  BY <1>9 DEF CloseUpstream, PcStates, Sides
<1>10. CASE CloseClient(c)
  BY <1>10 DEF CloseClient, PcStates, Sides
<1> QED BY <1>1, <1>2, <1>3, <1>4, <1>5, <1>6, <1>7, <1>8, <1>9, <1>10 DEF Handler

\* tcpproxy.go:75-119: each statement of handle keeps what relates the handler
\* to its sockets and goroutines.
LEMMA HandlerSessionInv ==
    ASSUME Inv, NEW c \in Conns, Accept(c) \/ Handler(c)
    PROVE  SessionInv(c)'
<1>0. SpliceTypeOK /\ SpliceInv(c) /\ SessionInv(c) /\ DOMAIN pc = Conns
  BY DEF Inv, TypeOK, SessionInv
<1>1. CASE Accept(c)
  <2>1. /\ pc[c] = "idle" /\ pc'[c] = "gate"
        /\ open'[c]["client"] /\ open'[c]["upstream"] = open[c]["upstream"]
        /\ peer'[c] = [peer[c] EXCEPT !["client"] = "up"]
        /\ UNCHANGED <<sent, put, copier, errc, source>>
    BY <1>0, <1>1 DEF Accept, Goto, Connect, SpliceTypeOK, Sides
  <2>2. \A s \in Sides : EndedBy(c, s) => EndedBy(c, s)'
    BY <1>0, <2>1 DEF EndedBy, SessionInv, Sides
  <2>3. SpliceInv(c)'
    BY <1>0, <2>1, <2>2, HandlerInv
  <2> QED BY <1>0, <2>1, <2>3 DEF SessionInv, Copied, SpliceTypeOK, Sides
<1>2. CASE Gate(c) \/ DialFail(c)
  <2>1. /\ pc[c] \in {"gate", "dial"} /\ pc'[c] \in {"dial", "closeClient"}
        /\ pc'[c] = "dial" => classifyPeer(source[c]) # "reject"
        /\ UNCHANGED <<spliceVars, source>>
    BY <1>0, <1>2 DEF Gate, DialFail, Goto
  <2>2. SpliceInv(c)'
    BY <1>0, <2>1, HandlerInv DEF EndedBy, spliceVars
  <2> QED BY <1>0, <2>1, <2>2 DEF SessionInv, Copied, spliceVars
<1>3. CASE DialOk(c)
  <2>1. /\ pc[c] = "dial" /\ pc'[c] = "started"
        /\ open'[c]["upstream"] /\ open'[c]["client"] = open[c]["client"]
        /\ peer'[c] = [peer[c] EXCEPT !["upstream"] = "up"]
        /\ UNCHANGED <<sent, put, copier, errc, source>>
    BY <1>0, <1>3 DEF DialOk, Goto, Connect, SpliceTypeOK, Sides
  <2>2. \A s \in Sides : EndedBy(c, s) => EndedBy(c, s)'
    BY <1>0, <2>1 DEF EndedBy, SessionInv, SpliceTypeOK, Sides
  <2>3. SpliceInv(c)'
    BY <1>0, <2>1, <2>2, HandlerInv
  <2> QED BY <1>0, <2>1, <2>3 DEF SessionInv, Copied, SpliceTypeOK, Sides
<1>4. CASE CountStarted(c) \/ Uncount(c)
  <2>1. /\ \/ pc[c] = "started" /\ pc'[c] = "active"
           \/ pc[c] = "uncount" /\ pc'[c] = "closeUpstream"
        /\ UNCHANGED <<spliceVars, source>>
    BY <1>0, <1>4 DEF CountStarted, Uncount, Goto
  <2>2. SpliceInv(c)'
    BY <1>0, <2>1, HandlerInv DEF EndedBy, spliceVars
  <2> QED BY <1>0, <2>1, <2>2 DEF SessionInv, Copied, spliceVars
<1>5. CASE StartSession(c)
  <2>1. /\ pc[c] = "active" /\ pc'[c] = "splice" /\ StartCopying(c)
        /\ UNCHANGED <<peer, open, sent, put, errc, source>>
    BY <1>0, <1>5 DEF StartSession, Goto
  <2>2. ~Copied(c) /\ \A s \in Sides : open[c][s]
    BY <1>0, <2>1 DEF SessionInv, SpliceTypeOK, Sides
  <2>3. SpliceInv(c)'
    BY <1>0, <2>1, <2>2, StartInv
  <2>4. Copied(c)'
    BY <2>1, <2>3 DEF SpliceInv, Balanced
  <2> QED BY <1>0, <2>1, <2>3, <2>4 DEF SessionInv
<1>6. CASE EndSession(c)
  <2>1. PICK result \in {"nil", "err"} : Await(c, "uncount", result) /\ source' = source
    BY <1>6 DEF EndSession
  <2>2. SpliceInv(c)'
    BY <1>0, <2>1, AwaitInv
  <2>3. /\ pc[c] = "splice" /\ pc'[c] = "uncount" /\ UNCHANGED <<peer, open, copier, source>>
    BY <1>0, <2>1 DEF Await
  <2>4. Copied(c) /\ \A s \in Sides : open[c][s]
    BY <1>0, <2>3 DEF SpliceInv, Balanced, OpenInSession
  <2> QED BY <1>0, <2>2, <2>3, <2>4 DEF SessionInv, Copied, Sides
<1>7. CASE CloseUpstream(c)
  <2>1. /\ pc[c] = "closeUpstream" /\ pc'[c] = "closeClient"
        /\ open'[c]["client"] = open[c]["client"] /\ ~open'[c]["upstream"]
        /\ UNCHANGED <<peer, sent, put, copier, errc, source>>
    BY <1>0, <1>7 DEF CloseUpstream, Goto, Close, SpliceTypeOK, Sides
  <2>2. SpliceInv(c)'
    BY <1>0, <2>1, HandlerInv DEF EndedBy
  <2> QED BY <1>0, <2>1, <2>2 DEF SessionInv, Copied
<1>8. CASE CloseClient(c)
  <2>1. /\ pc[c] = "closeClient" /\ pc'[c] = "done"
        /\ ~open'[c]["client"] /\ open'[c]["upstream"] = open[c]["upstream"]
        /\ UNCHANGED <<peer, sent, put, copier, errc, source>>
    BY <1>0, <1>8 DEF CloseClient, Goto, Close, SpliceTypeOK, Sides
  <2>2. SpliceInv(c)'
    BY <1>0, <2>1, HandlerInv DEF EndedBy
  <2> QED BY <1>0, <2>1, <2>2 DEF SessionInv, Copied
<1> QED BY <1>1, <1>2, <1>3, <1>4, <1>5, <1>6, <1>7, <1>8 DEF Handler

\* tcpproxy.go:75-119: a statement of one handler keeps the whole invariant.
LEMMA HandlerStepInv ==
    ASSUME Inv, NEW c \in Conns, Accept(c) \/ Handler(c)
    PROVE  Inv'
<1>1. ASSUME NEW d \in Conns, d # c PROVE Untouched(d)
  BY <1>1 DEF Inv, TypeOK, SpliceTypeOK, Untouched, Handler, Accept, Gate, DialOk, DialFail,
              CountStarted, StartSession, EndSession, Uncount, CloseUpstream, CloseClient,
              Goto, Connect, Close, StartCopying, Await, spliceVars
<1>2. \A d \in Conns : SessionInv(d)'
  BY <1>1, UntouchedInv, HandlerSessionInv DEF Inv
<1> QED BY <1>2, HandlerTypeOK DEF Inv

\* tcpproxy.go:65-119: every step of the proxy and its peers keeps it.
LEMMA InvInductive == Inv /\ [Next]_vars => Inv'
<1> SUFFICES ASSUME Inv, [Next]_vars PROVE Inv'
  OBVIOUS
<1>1. CASE UNCHANGED vars
  <2>1. \A d \in Conns : Untouched(d)
    BY <1>1 DEF vars, spliceVars, Untouched
  <2>2. TypeOK'
    BY <1>1 DEF vars, spliceVars, metrics, Inv, TypeOK, SpliceTypeOK
  <2> QED BY <2>1, <2>2, UntouchedInv DEF Inv
<1> QED BY <1>1, SpliceStepInv, HandlerStepInv DEF Next

-----------------------------------------------------------------------------
\* tcpproxy.go:75-119: the variables keep their types, and what a handler has
\* done so far agrees with its sockets and goroutines.
THEOREM Invariance == Spec => []Inv
BY InitInv, InvInductive, PTL DEF Spec

\* tcpproxy.go:75-119: type correctness.
THEOREM TypeCorrect == Spec => []TypeOK
<1>1. Inv => TypeOK
  BY DEF Inv
<1> QED BY <1>1, Invariance, PTL

\* tcpproxy.go:51-54,105: a session is closed only after a peer ended it.
THEOREM SessionsNotCut == Spec => []CloseOnlyAfterEnd
<1>1. Inv => CloseOnlyAfterEnd
  BY CloseOnlyAfterEndFollows DEF Inv, TypeOK, SessionInv
<1> QED BY <1>1, Invariance, PTL

\* tcpproxy.go:107: no copying goroutine ever blocks for good on errc.
THEOREM NoSenderLeaks == Spec => []SendersNeverBlock
<1>1. Inv => SendersNeverBlock
  BY SendersNeverBlockFollows DEF Inv, TypeOK, SessionInv
<1> QED BY <1>1, Invariance, PTL

-----------------------------------------------------------------------------
(* The counters: each is the number of connections in some set, and a step *)
(* of one connection moves at most that connection into or out of the set. *)

\* What one connection's move does to the number of connections in a set.
LEMMA CountOne ==
    ASSUME NEW A \in SUBSET Conns, NEW c \in Conns
    PROVE  /\ Cardinality(A) \in Nat
           /\ c \notin A => Cardinality(A \cup {c}) = Cardinality(A) + 1
           /\ c \in A => Cardinality(A \ {c}) = Cardinality(A) - 1
<1>1. IsFiniteSet(A)
  BY TcpAssumption, FS_Subset
<1> QED BY <1>1, FS_CardinalityType, FS_AddElement, FS_RemoveElement

Live == {c \in Conns : pc[c] \in {"splice", "uncount"}}

\* tcpproxy.go:96-97: sessions_active is exact in every state.
THEOREM ActiveExact == Spec => []ActiveCountsLive
<1>1. Init => ActiveCountsLive
  <2> SUFFICES ASSUME Init PROVE ActiveCountsLive
    OBVIOUS
  <2>1. {c \in Conns : pc[c] \in {"splice", "uncount"}} = {}
    BY DEF Init
  <2> QED BY <2>1, FS_EmptySet DEF Init, ActiveCountsLive
<1>2. ASSUME Inv, ActiveCountsLive, [Next]_vars PROVE ActiveCountsLive'
  <2>1. CASE pc' = pc /\ activeSessions' = activeSessions
    BY <1>2, <2>1 DEF ActiveCountsLive
  <2>2. ASSUME NEW c \in Conns, Accept(c) \/ Handler(c) PROVE ActiveCountsLive'
    <3>0. DOMAIN pc = Conns /\ activeSessions = Cardinality(Live)
      BY <1>2 DEF Inv, TypeOK, ActiveCountsLive, Live
    <3>1. CASE StartSession(c)
      <4>1. Live' = Live \cup {c} /\ c \notin Live
        BY <3>0, <3>1 DEF StartSession, Goto, Live
      <4>2. activeSessions' = activeSessions + 1
        BY <3>1 DEF StartSession
      <4> QED BY <3>0, <4>1, <4>2, CountOne DEF ActiveCountsLive, Live
    <3>2. CASE Uncount(c)
      <4>1. Live' = Live \ {c} /\ c \in Live
        BY <3>0, <3>2 DEF Uncount, Goto, Live
      <4>2. activeSessions' = activeSessions - 1
        BY <3>2 DEF Uncount
      <4> QED BY <3>0, <4>1, <4>2, CountOne DEF ActiveCountsLive, Live
    <3>3. CASE ~StartSession(c) /\ ~Uncount(c)
      <4>1. Live' = Live /\ activeSessions' = activeSessions
        BY <2>2, <3>0, <3>3 DEF Handler, Accept, Gate, DialOk, DialFail, CountStarted,
              EndSession, CloseUpstream, CloseClient, Goto, Await, Live, metrics
      <4> QED BY <3>0, <4>1 DEF ActiveCountsLive, Live
    <3> QED BY <3>1, <3>2, <3>3
  <2>3. CASE (Environment \/ Copying) /\ UNCHANGED <<source, metrics>>
    BY <2>1, <2>3 DEF Environment, Copying, metrics, PeerStep, PeerSend, PeerFin, PeerReset,
          PeerVanish, KeepAlive, PeerBecomes, CopierStep, CopyRead, CopyReadEnd, WriteErr,
          Post, WriteOk
  <2>4. CASE UNCHANGED vars
    BY <2>1, <2>4 DEF vars, metrics
  <2> QED BY <1>2, <2>2, <2>3, <2>4 DEF Next
<1> QED BY <1>1, <1>2, Invariance, PTL DEF Spec

Decided == {c \in Conns : pc[c] \notin {"idle", "gate", "dial", "started"}}

\* A step that counts what it decides on, and one that does neither.
LEMMA CountsDecision ==
    ASSUME Inv, EveryConnectionCounted, NEW c \in Conns,
           \/ /\ c \notin Decided /\ Decided' = Decided \cup {c}
              /\ startedSessions' + errors'["disallowed-source"] + errors'["dial-failed"]
                    = startedSessions + errors["disallowed-source"] + errors["dial-failed"] + 1
           \/ /\ Decided' = Decided /\ startedSessions' = startedSessions
              /\ errors'["disallowed-source"] = errors["disallowed-source"]
              /\ errors'["dial-failed"] = errors["dial-failed"]
    PROVE  EveryConnectionCounted'
<1>1. Cardinality(Decided) = startedSessions + errors["disallowed-source"] + errors["dial-failed"]
  BY DEF EveryConnectionCounted, Decided
<1>2. Decided \in SUBSET Conns
  BY DEF Decided
<1>3. Cardinality(Decided') =
          startedSessions' + errors'["disallowed-source"] + errors'["dial-failed"]
  BY <1>1, <1>2, CountOne
<1> QED BY <1>3 DEF EveryConnectionCounted, Decided

\* tcpproxy.go:79,87,95: no connection is dropped without a trace, none is
\* counted twice.
THEOREM ConnectionsCounted == Spec => []EveryConnectionCounted
<1>1. Init => EveryConnectionCounted
  <2> SUFFICES ASSUME Init PROVE EveryConnectionCounted
    OBVIOUS
  <2>1. {c \in Conns : pc[c] \notin {"idle", "gate", "dial", "started"}} = {}
    BY DEF Init
  <2>2. startedSessions = 0 /\ errors["disallowed-source"] = 0 /\ errors["dial-failed"] = 0
    BY DEF Init, Labels
  <2> QED BY <2>1, <2>2, FS_EmptySet DEF EveryConnectionCounted
<1>2. ASSUME Inv, EveryConnectionCounted, [Next]_vars PROVE EveryConnectionCounted'
  <2>0. /\ DOMAIN pc = Conns /\ startedSessions \in Nat /\ errors \in [Labels -> Nat]
        /\ {"disallowed-source", "dial-failed"} \subseteq Labels
    BY <1>2 DEF Inv, TypeOK, Labels
  <2>1. CASE pc' = pc /\ UNCHANGED metrics
    BY <1>2, <2>1 DEF EveryConnectionCounted, metrics
  <2>2. ASSUME NEW c \in Conns, Accept(c) \/ Handler(c) PROVE EveryConnectionCounted'
    <3>1. CASE Gate(c)
      <4>1. CASE Goto(c, "gate", "closeClient") /\ Count("disallowed-source")
        <5>1. c \notin Decided /\ Decided' = Decided \cup {c}
          BY <2>0, <4>1 DEF Goto, Decided
        <5>2. /\ startedSessions' = startedSessions
              /\ errors' = [errors EXCEPT !["disallowed-source"] = @ + 1]
          BY <3>1, <4>1 DEF Gate, Count
        <5> QED BY <1>2, <2>0, <5>1, <5>2, CountsDecision
      <4>2. CASE Goto(c, "gate", "dial") /\ UNCHANGED errors
        <5>1. Decided' = Decided /\ startedSessions' = startedSessions
          BY <2>0, <3>1, <4>2 DEF Gate, Goto, Decided
        <5> QED BY <1>2, <4>2, <5>1, CountsDecision
      <4> QED BY <3>1, <4>1, <4>2 DEF Gate
    <3>2. CASE DialFail(c)
      <4>1. c \notin Decided /\ Decided' = Decided \cup {c}
        BY <2>0, <3>2 DEF DialFail, Goto, Decided
      <4>2. /\ startedSessions' = startedSessions
            /\ errors' = [errors EXCEPT !["dial-failed"] = @ + 1]
        BY <3>2 DEF DialFail, Count
      <4> QED BY <1>2, <2>0, <4>1, <4>2, CountsDecision
    <3>3. CASE CountStarted(c)
      <4>1. c \notin Decided /\ Decided' = Decided \cup {c}
        BY <2>0, <3>3 DEF CountStarted, Goto, Decided
      <4>2. startedSessions' = startedSessions + 1 /\ errors' = errors
        BY <3>3 DEF CountStarted
      <4> QED BY <1>2, <2>0, <4>1, <4>2, CountsDecision
    <3>4. CASE EndSession(c)
      <4>1. Decided' = Decided /\ startedSessions' = startedSessions
        BY <2>0, <3>4 DEF EndSession, Await, Decided
      <4>2. errors' = errors \/ errors' = [errors EXCEPT !["network-error"] = @ + 1]
        BY <3>4 DEF EndSession, Count
      <4> QED BY <1>2, <2>0, <4>1, <4>2, CountsDecision
    <3>5. CASE Accept(c) \/ DialOk(c) \/ StartSession(c) \/ Uncount(c) \/ CloseUpstream(c)
               \/ CloseClient(c)
      <4>1. /\ Decided' = Decided /\ startedSessions' = startedSessions
            /\ errors' = errors
        BY <2>0, <3>5 DEF Accept, DialOk, StartSession, Uncount, CloseUpstream, CloseClient,
              Goto, Decided, metrics
      <4> QED BY <1>2, <4>1, CountsDecision
    <3> QED BY <2>2, <3>1, <3>2, <3>3, <3>4, <3>5 DEF Handler
  <2>3. CASE (Environment \/ Copying) /\ UNCHANGED <<source, metrics>>
    BY <2>1, <2>3 DEF Environment, Copying, metrics, PeerStep, PeerSend, PeerFin, PeerReset,
          PeerVanish, KeepAlive, PeerBecomes, CopierStep, CopyRead, CopyReadEnd, WriteErr,
          Post, WriteOk
  <2>4. CASE UNCHANGED vars
    BY <2>1, <2>4 DEF vars
  <2> QED BY <1>2, <2>2, <2>3, <2>4 DEF Next
<1> QED BY <1>1, <1>2, Invariance, PTL DEF Spec

-----------------------------------------------------------------------------
(* TcpProxy implements Relay.                                              *)

\* fly.go:571-575: a source that classifyPeer does not reject is trusted.
LEMMA ClassifiedIsTrusted ==
    ASSUME NEW src \in Sources, classifyPeer(src) # "reject"
    PROVE  src \in TrustedSources
BY DEF classifyPeer, TrustedSources, Sources

\* tcpproxy.go:65: a proxy without connections is a relay without connections.
LEMMA RelayInit == Init => Promise!Init
<1> SUFFICES ASSUME Init PROVE Promise!Init
  OBVIOUS
<1>1. \A c \in Conns : PhaseOf(c) = "idle"
  BY DEF Init, PhaseOf
<1>2. sessionPhase = [c \in Conns |-> "idle"]
  BY <1>1 DEF sessionPhase
<1> QED BY <1>2 DEF Init, SpliceInit, Promise!Init, Promise!Sides, Sides

\* A step that leaves the phase of every connection alone.
LEMMA SamePhase ==
    ASSUME pc' = pc,
           \A d \in Conns : peer[d]["upstream"] = "none" <=> peer'[d]["upstream"] = "none"
    PROVE  sessionPhase' = sessionPhase
<1>1. \A d \in Conns : PhaseOf(d)' = PhaseOf(d)
  BY DEF PhaseOf
<1> QED BY <1>1 DEF sessionPhase

\* A step of one connection that moves its phase to new.
LEMMA NextPhase ==
    ASSUME NEW c \in Conns, NEW new, PhaseOf(c)' = new,
           \A d \in Conns : d # c => /\ pc'[d] = pc[d]
                                    /\ peer'[d]["upstream"] = peer[d]["upstream"]
    PROVE  sessionPhase' = [sessionPhase EXCEPT ![c] = new]
<1>1. \A d \in Conns : d # c => PhaseOf(d)' = PhaseOf(d)
  BY DEF PhaseOf
<1> QED BY <1>1 DEF sessionPhase

\* tcpproxy.go:86,94: what the peers do, and what the kernel finds out about
\* them, is what the peers of a relay do.
LEMMA PeerStepsRelay ==
    ASSUME Inv, NEW c \in Conns, NEW s \in Sides, PeerStep(c, s) \/ KeepAlive(c, s),
           source' = source
    PROVE  Promise!Next
<1>1. sessionPhase[c] # "closed"
  <2>1. open[c][s]
    BY DEF PeerStep, PeerSend, PeerFin, PeerReset, PeerVanish, KeepAlive, PeerBecomes
  <2>2. pc[c] # "done"
    BY <2>1 DEF Inv, SessionInv, Sides
  <2> QED BY <2>2 DEF sessionPhase, PhaseOf
<1>2. CASE PeerSend(c, s)
  <2>1. sessionPhase' = sessionPhase
    BY <1>2, SamePhase DEF PeerSend
  <2>2. Promise!Send(c, s)
    BY <1>1, <1>2, <2>1 DEF PeerSend, Promise!Send
  <2> QED BY <2>2 DEF Promise!Next, Promise!Sides, Sides
<1>3. ASSUME NEW states, NEW new, PeerBecomes(c, s, states, new),
             "none" \notin states, new # "none"
      PROVE  Promise!PeerBecomes(c, s, states, new)
  <2>1. \A d \in Conns : peer[d]["upstream"] = "none" <=> peer'[d]["upstream"] = "none"
    BY <1>3 DEF PeerBecomes, Inv, TypeOK, SpliceTypeOK, Sides
  <2>2. sessionPhase' = sessionPhase
    BY <1>3, <2>1, SamePhase DEF PeerBecomes
  <2> QED BY <1>1, <1>3, <2>2 DEF PeerBecomes, Promise!PeerBecomes
<1>4. CASE PeerFin(c, s)
  BY <1>3, <1>4 DEF PeerFin, Promise!Fin, Promise!Next, Promise!Sides, Sides
<1>5. CASE PeerVanish(c, s)
  BY <1>3, <1>5 DEF PeerVanish, Promise!Vanish, Promise!Next, Promise!Sides, Sides
<1>6. CASE PeerReset(c, s) \/ KeepAlive(c, s)
  <2>1. Promise!PeerBecomes(c, s, {"up", "fin"}, "reset")
            \/ Promise!PeerBecomes(c, s, {"gone"}, "reset")
    BY <1>3, <1>6 DEF PeerReset, KeepAlive
  <2>2. Promise!Break(c, s)
    BY <2>1 DEF Promise!PeerBecomes, Promise!Break
  <2> QED BY <2>2 DEF Promise!Next, Promise!Sides, Sides
<1> QED BY <1>2, <1>4, <1>5, <1>6 DEF PeerStep

\* tcpproxy.go:108-115: a Write of io.Copy forwards a chunk, the rest of a
\* goroutine's life is no step of the relay.
LEMMA CopyingRelay ==
    ASSUME Inv, NEW c \in Conns, NEW s \in Sides, CopierStep(c, s) \/ WriteOk(c, s),
           source' = source
    PROVE  Promise!Next \/ UNCHANGED Promise!vars
<1>1. sessionPhase' = sessionPhase
  BY SamePhase DEF CopierStep, CopyRead, CopyReadEnd, WriteErr, Post, WriteOk
<1>2. CASE WriteOk(c, s)
  <2>1. /\ copier[c][s] = "write" /\ open[c][Other(s)] /\ put[c][s] < sent[c][s]
        /\ Copied(c)
    BY <1>2 DEF WriteOk, CopierBecomes, Inv, SessionInv, SpliceInv, NothingMadeUp, Together,
                Copied, Sides
  <2>2. pc[c] \notin {"idle", "done"} /\ peer[c]["upstream"] # "none"
    BY <2>1 DEF Inv, SessionInv, Sides, Other
  <2>3. sessionPhase[c] = "open"
    BY <2>2 DEF sessionPhase, PhaseOf
  <2>4. Promise!Forward(c, s)
    BY <1>1, <1>2, <2>1, <2>3 DEF WriteOk, Promise!Forward, Promise!Other, Other
  <2> QED BY <2>4 DEF Promise!Next, Promise!Sides, Sides
<1>3. CASE CopierStep(c, s)
  BY <1>1, <1>3 DEF CopierStep, CopyRead, CopyReadEnd, WriteErr, Post, Promise!vars
<1> QED BY <1>2, <1>3

\* tcpproxy.go:75-119: dialling opens, a rejection or a failed dial refuses, the
\* last deferred call closes, the other statements are no step of the relay.
LEMMA HandlerRelay ==
    ASSUME Inv, NEW c \in Conns, Accept(c) \/ Handler(c)
    PROVE  Promise!Next \/ UNCHANGED Promise!vars
<1>0. /\ SessionInv(c) /\ SpliceTypeOK /\ DOMAIN pc = Conns
  BY DEF Inv, TypeOK
<1>1. ASSUME pc'[c] # "idle", pc[c] # "idle", pc'[c] # "done", pc[c] # "done",
             \A d \in Conns : d # c => pc'[d] = pc[d], UNCHANGED <<peer, sent, put, source>>
      PROVE  UNCHANGED Promise!vars
  <2>1. \A d \in Conns : PhaseOf(d)' = PhaseOf(d)
    BY <1>1 DEF PhaseOf
  <2>2. sessionPhase' = sessionPhase
    BY <2>1 DEF sessionPhase
  <2> QED BY <1>1, <2>2 DEF Promise!vars
<1>2. CASE Accept(c)
  <2>1. /\ pc' = [pc EXCEPT ![c] = "gate"] /\ pc[c] = "idle"
        /\ peer' = [peer EXCEPT ![c]["client"] = "up"] /\ UNCHANGED <<source, sent, put>>
    BY <1>2 DEF Accept, Goto, Connect
  <2>2. sessionPhase[c] = "idle" /\ peer[c]["upstream"] = "none"
    BY <1>0, <2>1 DEF sessionPhase, PhaseOf, SessionInv
  <2>3. \A d \in Conns : peer'[d]["upstream"] = peer[d]["upstream"]
    BY <1>0, <2>1 DEF SpliceTypeOK, Sides
  <2>4. sessionPhase' = [sessionPhase EXCEPT ![c] = "new"]
    BY <1>0, <2>1, <2>2, <2>3, NextPhase DEF sessionPhase, PhaseOf
  <2>5. Promise!Arrive(c)
    BY <2>1, <2>2, <2>4 DEF Promise!Arrive, Promise!Becomes
  <2> QED BY <2>5 DEF Promise!Next
<1>3. CASE DialOk(c)
  <2>1. /\ pc' = [pc EXCEPT ![c] = "started"] /\ pc[c] = "dial"
        /\ peer' = [peer EXCEPT ![c]["upstream"] = "up"] /\ UNCHANGED <<source, sent, put>>
    BY <1>3 DEF DialOk, Goto, Connect
  <2>2. sessionPhase[c] = "new" /\ source[c] \in TrustedSources /\ peer[c]["upstream"] = "none"
    <3>1. peer[c]["upstream"] = "none" /\ classifyPeer(source[c]) # "reject"
      BY <1>0, <2>1 DEF SessionInv
    <3>2. source[c] \in Sources
      BY DEF Inv, TypeOK
    <3>3. source[c] \in TrustedSources
      BY <3>1, <3>2, ClassifiedIsTrusted
    <3> QED BY <2>1, <3>1, <3>3 DEF sessionPhase, PhaseOf
  <2>3. \A d \in Conns : peer'[d]["upstream"] = IF d = c THEN "up" ELSE peer[d]["upstream"]
    BY <1>0, <2>1 DEF SpliceTypeOK, Sides
  <2>4. sessionPhase' = [sessionPhase EXCEPT ![c] = "open"]
    BY <1>0, <2>1, <2>2, <2>3, NextPhase DEF sessionPhase, PhaseOf
  <2>5. Promise!Open(c)
    BY <2>1, <2>2, <2>4 DEF Promise!Open, Promise!Dials, Promise!Becomes
  <2> QED BY <2>5 DEF Promise!Next
<1>4. CASE CloseClient(c)
  <2>1. /\ pc' = [pc EXCEPT ![c] = "done"] /\ pc[c] = "closeClient"
        /\ UNCHANGED <<peer, source, sent, put>>
    BY <1>4 DEF CloseClient, Goto
  <2>2. sessionPhase' = [sessionPhase EXCEPT ![c] = "closed"]
    BY <1>0, <2>1, NextPhase DEF PhaseOf
  <2>3. CASE peer[c]["upstream"] = "none"
    <3>1. sessionPhase[c] = "new"
      BY <2>1, <2>3 DEF sessionPhase, PhaseOf
    <3>2. Promise!Refuse(c)
      BY <2>1, <2>2, <3>1 DEF Promise!Refuse, Promise!Becomes
    <3> QED BY <3>2 DEF Promise!Next
  <2>4. CASE peer[c]["upstream"] # "none"
    <3>1. sessionPhase[c] = "open"
      BY <2>1, <2>4 DEF sessionPhase, PhaseOf
    <3>2. Copied(c) /\ ~open[c]["upstream"] /\ SpliceInv(c)
      BY <1>0, <2>1, <2>4 DEF SessionInv
    <3>3. \E s \in Sides : EndedBy(c, s)
      BY <1>0, <3>2, ClosedForAReason DEF Sides
    <3>4. Promise!Close(c)
      BY <2>1, <2>2, <3>1, <3>3
         DEF Promise!Close, Promise!Becomes, Promise!EndedBy, EndedBy, Promise!Sides, Sides
    <3> QED BY <3>4 DEF Promise!Next
  <2> QED BY <2>3, <2>4
<1>5. CASE Gate(c) \/ DialFail(c) \/ CountStarted(c) \/ StartSession(c) \/ EndSession(c)
              \/ Uncount(c) \/ CloseUpstream(c)
  <2>1. /\ pc[c] \notin {"idle", "done"} /\ pc'[c] \notin {"idle", "done"}
        /\ \A d \in Conns : d # c => pc'[d] = pc[d]
        /\ UNCHANGED <<peer, sent, put, source>>
    BY <1>0, <1>5 DEF Gate, DialFail, CountStarted, StartSession, EndSession, Uncount,
          CloseUpstream, Goto, Await, spliceVars
  <2> QED BY <1>1, <2>1
<1> QED BY <1>2, <1>3, <1>4, <1>5 DEF Handler

\* tcpproxy.go:73-119: handlers, goroutines, channels and sockets together
\* implement the relay, for every set of connections.
THEOREM RelayImplemented == Spec => ImplementsRelay
<1>1. ASSUME Inv, [Next]_vars PROVE [Promise!Next]_(Promise!vars)
  <2>1. CASE UNCHANGED vars
    <3>1. sessionPhase' = sessionPhase
      BY <2>1, SamePhase DEF vars, spliceVars
    <3> QED BY <2>1, <3>1 DEF vars, spliceVars, Promise!vars
  <2>2. CASE (Environment \/ Copying) /\ UNCHANGED <<source, metrics>>
    BY <1>1, <2>2, PeerStepsRelay, CopyingRelay DEF Environment, Copying
  <2>3. CASE \E c \in Conns : Accept(c) \/ Handler(c)
    BY <1>1, <2>3, HandlerRelay
  <2> QED BY <1>1, <2>1, <2>2, <2>3 DEF Next
<1> QED BY <1>1, RelayInit, Invariance, PTL DEF Spec, ImplementsRelay, Promise!Spec
=============================================================================
