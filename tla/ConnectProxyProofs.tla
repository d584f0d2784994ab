-------------------------- MODULE ConnectProxyProofs --------------------------
(***************************************************************************)
(* Proofs about ConnectProxy for any set of connections, any bounds and    *)
(* any configuration, on top of what SpliceProofs shows of the session     *)
(* core.                                                                   *)
(***************************************************************************)
EXTENDS ConnectProxy, SpliceProofs, FiniteSetTheorems

\* What a step of one connection leaves alone of another one, d.
Untouched(d) ==
    /\ pc'[d] = pc[d] /\ peer'[d] = peer[d] /\ open'[d] = open[d] /\ sent'[d] = sent[d]
    /\ put'[d] = put[d] /\ copier'[d] = copier[d] /\ errc'[d] = errc[d]
    /\ asked'[d] = asked[d] /\ told'[d] = told[d] /\ hasty'[d] = hasty[d] /\ dropped'[d] = dropped[d]
    /\ source' = source

\* httpproxy.go:59: ServeHTTP runs per connection: one that a step leaves alone
\* keeps its invariant.
LEMMA UntouchedInv ==
    ASSUME NEW d \in Conns, SessionInv(d), Untouched(d)
    PROVE  SessionInv(d)'
<1>1. SpliceInv(d)'
  BY SpliceInvUntouched DEF Untouched, SessionInv
<1> QED BY <1>1 DEF Untouched, SessionInv, Copied, Hijacked, Undecided

\* httpproxy.go:35: before the first connection there is nothing to relate.
LEMMA InitInv == Init => Inv
<1> SUFFICES ASSUME Init PROVE Inv
  OBVIOUS
<1>1. TypeOK
  BY SpliceAssumption, ConnectAssumption
     DEF Init, SpliceInit, TypeOK, SpliceTypeOK, PcStates, PeerStates, CopierStates, Labels
<1>2. ASSUME NEW c \in Conns PROVE SessionInv(c)
  <2>1. /\ pc[c] = "idle" /\ errc[c] = <<>> /\ ~told[c] /\ dropped[c] = 0
        /\ \A s \in Sides : /\ peer[c][s] = "none" /\ copier[c][s] = "off" /\ ~open[c][s]
                            /\ sent[c][s] = 0 /\ put[c][s] = 0
    BY DEF Init, SpliceInit
  <2>2. SpliceInv(c)
    BY <2>1 DEF SpliceInv, Together, NothingMadeUp, Balanced, EndsForAReason, OpenInSession,
                Copied, Sides
  <2> QED BY <2>1, <2>2 DEF SessionInv, AtNetHttp, Copied, Sides, Undecided
<1> QED BY <1>1, <1>2 DEF Inv

-----------------------------------------------------------------------------
(* The peers, the kernel, net/http and the copying goroutines.             *)

\* A client that sends, read ahead by net/http or not.
LEMMA ClientSendsInv ==
    ASSUME Inv, NEW c \in Conns, ClientSends(c)
    PROVE  Inv'
<1>0. TypeOK /\ "client" \in Sides
  BY DEF Inv, Sides
<1>1. hasty' \in [Conns -> BOOLEAN] /\ \A d \in Conns : hasty[d] => hasty'[d]
  BY <1>0 DEF ClientSends, TypeOK
<1>2. CASE PeerSend(c, "client") /\ UNCHANGED dropped
  <2>1. PeerStep(c, "client")
    BY <1>2 DEF PeerStep
  <2>2. TypeOK'
    BY <1>0, <1>1, <1>2, <2>1, CoreStep DEF ClientSends, Inv, SessionInv, TypeOK, metrics
  <2>3. \A d \in Conns : SessionInv(d)'
    BY <1>0, <1>1, <1>2, <2>1, CoreStep DEF ClientSends, Inv, TypeOK, SessionInv, Sides, Hijacked, Undecided
  <2> QED BY <2>2, <2>3 DEF Inv
<1>3. CASE UNCHANGED <<pc, spliceVars>>
  <2>1. /\ ~Hijacked(c) /\ dropped' = [dropped EXCEPT ![c] = @ + 1] /\ dropped[c] < MaxChunks
        /\ UNCHANGED <<source, request, asked, told, metrics>>
    BY <1>3, <1>0 DEF ClientSends, PeerSend, spliceVars, TypeOK, SpliceTypeOK
  <2>2. dropped[c] + 1 \in 0..MaxChunks
    BY <1>0, <2>1, SpliceAssumption DEF TypeOK
  <2>3. TypeOK'
    BY <1>0, <1>1, <1>3, <2>1, <2>2 DEF TypeOK, SpliceTypeOK, spliceVars, metrics
  <2>4. \A d \in Conns : SpliceInv(d)'
    BY <1>3, SpliceInvUntouched DEF spliceVars, Inv, SessionInv
  <2>5. ~told[c] /\ hasty'[c] = TRUE
    BY <1>0, <2>1 DEF ClientSends, Inv, SessionInv, TypeOK
  <2>6. \A d \in Conns : dropped'[d] > 0 => hasty'[d]
    BY <1>0, <1>1, <2>1, <2>5 DEF Inv, SessionInv, TypeOK
  <2>7. \A d \in Conns : SessionInv(d)'
    BY <1>3, <2>1, <2>4, <2>6 DEF Inv, SessionInv, spliceVars, Copied, Hijacked, Undecided
  <2> QED BY <2>3, <2>7 DEF Inv
<1> QED BY <1>2, <1>3 DEF ClientSends

-----------------------------------------------------------------------------
(* net/http and ServeHTTP, one case per statement.                         *)

HandlerStep(c) == Accept(c) \/ Request(c) \/ ServerCloses(c) \/ ServeHTTP(c)

LEMMA HandlerTypeOK ==
    ASSUME Inv, NEW c \in Conns, HandlerStep(c)
    PROVE  TypeOK'
<1>0. TypeOK /\ SpliceTypeOK
  BY DEF Inv, TypeOK
<1> USE <1>0 DEF TypeOK, SpliceTypeOK, Goto, metrics, spliceVars, http
<1>a. ASSUME NEW s \in Sides, Connect(c, s)
      PROVE  /\ peer' \in [Conns -> [Sides -> PeerStates]]
             /\ open' \in [Conns -> [Sides -> BOOLEAN]]
  BY <1>a DEF Connect, PeerStates
<1>b. ASSUME NEW s \in Sides, Close(c, s) PROVE open' \in [Conns -> [Sides -> BOOLEAN]]
  BY <1>b DEF Close
<1>c. ASSUME NEW l \in Labels, Count(l) PROVE errors' \in [Labels -> Nat]
  BY <1>c DEF Count
<1>d. ASSUME NEW from, NEW to \in PcStates, Goto(c, from, to) PROVE pc' \in [Conns -> PcStates]
  BY <1>d
<1>e. Labels = {"disallowed-source", "bad-method", "dial-failed", "network-error"}
      /\ Sides = {"client", "upstream"}
  BY DEF Labels, Sides
<1>f. ASSUME NEW at, NEW l \in Labels, Refuse(c, at, l)
      PROVE  pc' \in [Conns -> PcStates] /\ errors' \in [Labels -> Nat]
  BY <1>f, <1>c, <1>d DEF Refuse, PcStates
<1>1. CASE Accept(c)
  BY <1>1, <1>a, <1>d, <1>e DEF Accept, PcStates
<1>2. CASE Request(c)
  <2>1. asked[c] + 1 \in 0..MaxRequests
    BY <1>2, ConnectAssumption DEF Request
  <2> QED BY <1>2, <1>d, <2>1 DEF Request, PcStates
<1>3. CASE ServerCloses(c)
  BY <1>3, <1>b, <1>d, <1>e DEF ServerCloses, PcStates
<1>4. CASE Gate(c)
  BY <1>4, <1>d, <1>e, <1>f DEF Gate, PcStates
<1>5. CASE Method(c)
  BY <1>5, <1>d, <1>e, <1>f DEF Method, PcStates
<1>6. CASE DialOk(c)
  BY <1>6, <1>a, <1>d, <1>e DEF DialOk, PcStates
<1>7. CASE DialFail(c)
  BY <1>7, <1>e, <1>f DEF DialFail
<1>8. CASE Hijack(c) \/ CountStarted(c) \/ Uncount(c)
  <2>1. pc' \in [Conns -> PcStates]
    BY <1>8, <1>d DEF Hijack, CountStarted, Uncount, PcStates
  <2>2. /\ startedSessions' \in {startedSessions, startedSessions + 1}
        /\ activeSessions' \in {activeSessions, activeSessions - 1}
        /\ UNCHANGED <<spliceVars, source, http, errors>>
    BY <1>8 DEF Hijack, CountStarted, Uncount
  <2> QED BY <2>1, <2>2
<1>9. CASE Answer(c)
  BY <1>9, <1>c, <1>d, <1>e DEF Answer, PcStates
<1>10. CASE StartSession(c)
  <2>1. copier' \in [Conns -> [Sides -> CopierStates]]
    BY <1>10 DEF StartSession, StartCopying, CopierStates
  <2>2. pc' \in [Conns -> PcStates]
    BY <1>10 DEF StartSession, PcStates
  <2> QED BY <1>10, <2>1, <2>2 DEF StartSession
<1>11. CASE EndSession(c)
  BY <1>11 DEF EndSession, Await, PcStates
<1>12. CASE CloseClient(c) \/ CloseUpstream(c)
  BY <1>12, <1>b, <1>d, <1>e DEF CloseClient, CloseUpstream, PcStates
<1> QED BY <1>1, <1>2, <1>3, <1>4, <1>5, <1>6, <1>7, <1>8, <1>9, <1>10, <1>11, <1>12
        DEF HandlerStep, ServeHTTP

\* httpproxy.go:59-117: each statement of ServeHTTP keeps what relates it to
\* its sockets and goroutines.
LEMMA HandlerSessionInv ==
    ASSUME Inv, NEW c \in Conns, HandlerStep(c)
    PROVE  SessionInv(c)'
<1>0. /\ TypeOK /\ SpliceTypeOK /\ SpliceInv(c) /\ SessionInv(c) /\ DOMAIN pc = Conns
      /\ Sides = {"client", "upstream"}
  BY DEF Inv, TypeOK, SessionInv, Sides
<1>1. CASE Accept(c)
  <2>1. /\ pc[c] = "idle" /\ pc'[c] = "http"
        /\ open'[c]["client"] /\ open'[c]["upstream"] = open[c]["upstream"]
        /\ peer'[c] = [peer[c] EXCEPT !["client"] = "up"]
        /\ UNCHANGED <<sent, put, copier, errc, source, asked, told, hasty, dropped>>
    BY <1>0, <1>1 DEF Accept, Goto, Connect, SpliceTypeOK, http
  <2>2. \A s \in Sides : EndedBy(c, s) => EndedBy(c, s)'
    BY <1>0, <2>1 DEF EndedBy, SessionInv
  <2>3. SpliceInv(c)'
    BY <1>0, <2>1, <2>2, HandlerInv
  <2> QED BY <1>0, <2>1, <2>3 DEF SessionInv, AtNetHttp, Copied, SpliceTypeOK, Hijacked, Undecided
<1>2. CASE Request(c) \/ Gate(c) \/ Method(c) \/ DialFail(c)
  <2>1. /\ pc[c] \in {"http", "gate", "method", "dial"}
        /\ pc'[c] \in {"http", "gate", "method", "dial"}
        /\ pc'[c] \in {"method", "dial"} => allowPeer(classifyPeer(source[c]))
        /\ asked[c] \in Nat
        /\ \/ pc[c] # "http" /\ asked'[c] = asked[c]
           \/ asked'[c] = asked[c] + 1
        /\ UNCHANGED <<spliceVars, source, told, hasty, dropped>>
    BY <1>0, <1>2 DEF Request, Gate, Method, DialFail, Refuse, Goto, SessionInv, http, TypeOK
  <2>2. SpliceInv(c)'
    BY <1>0, <2>1, HandlerInv DEF EndedBy, spliceVars
  <2> QED BY <1>0, <2>1, <2>2 DEF SessionInv, AtNetHttp, Copied, spliceVars, Hijacked, Undecided
<1>3. CASE ServerCloses(c)
  <2>1. /\ pc[c] = "http" /\ pc'[c] = "done"
        /\ ~open'[c]["client"] /\ open'[c]["upstream"] = open[c]["upstream"]
        /\ UNCHANGED <<peer, sent, put, copier, errc, source, asked, told, hasty, dropped>>
    BY <1>0, <1>3 DEF ServerCloses, Goto, Close, SpliceTypeOK, http
  <2>2. SpliceInv(c)'
    BY <1>0, <2>1, HandlerInv DEF EndedBy
  <2> QED BY <1>0, <2>1, <2>2 DEF SessionInv, AtNetHttp, Copied, Hijacked, Undecided
<1>4. CASE DialOk(c)
  <2>1. /\ pc[c] = "dial" /\ pc'[c] = "hijack"
        /\ open'[c]["upstream"] /\ open'[c]["client"] = open[c]["client"]
        /\ peer'[c] = [peer[c] EXCEPT !["upstream"] = "up"]
        /\ UNCHANGED <<sent, put, copier, errc, source, asked, told, hasty, dropped>>
    BY <1>0, <1>4 DEF DialOk, Goto, Connect, SpliceTypeOK, http
  <2>2. /\ peer[c]["upstream"] = "none" /\ peer'[c]["upstream"] = "up"
        /\ peer'[c]["client"] = peer[c]["client"]
    BY <1>0, <2>1 DEF SessionInv, AtNetHttp, SpliceTypeOK
  <2>3. \A s \in Sides : EndedBy(c, s) => EndedBy(c, s)'
    BY <1>0, <2>1, <2>2 DEF EndedBy
  <2>4. SpliceInv(c)'
    BY <1>0, <2>1, <2>3, HandlerInv
  <2> QED BY <1>0, <2>1, <2>2, <2>4 DEF SessionInv, AtNetHttp, Copied, Hijacked, Undecided
<1>5. CASE Hijack(c) \/ Answer(c) \/ CountStarted(c) \/ Uncount(c)
  <2>1. /\ \/ pc[c] = "hijack" /\ pc'[c] = "answer" /\ UNCHANGED told
           \/ pc[c] = "answer" /\ pc'[c] = "started"
           \/ /\ pc[c] = "answer" /\ pc'[c] = "closeClient" /\ UNCHANGED told
              /\ peer[c]["client"] = "reset"
           \/ pc[c] = "started" /\ pc'[c] = "active" /\ UNCHANGED told
           \/ pc[c] = "uncount" /\ pc'[c] = "closeClient" /\ UNCHANGED told
        /\ UNCHANGED <<spliceVars, source, asked, hasty, dropped>>
    BY <1>0, <1>5 DEF Hijack, Answer, CountStarted, Uncount, Goto, http
  <2>2. SpliceInv(c)'
    BY <1>0, <2>1, HandlerInv DEF EndedBy, spliceVars
  <2> QED BY <1>0, <2>1, <2>2 DEF SessionInv, AtNetHttp, Copied, spliceVars, Hijacked, Undecided
<1>6. CASE StartSession(c)
  <2>1. /\ pc[c] = "active" /\ pc'[c] = "splice" /\ StartCopying(c)
        /\ UNCHANGED <<peer, open, sent, put, errc, source, asked, told, hasty, dropped>>
    BY <1>0, <1>6 DEF StartSession, Goto, http
  <2>2. ~Copied(c) /\ \A s \in Sides : open[c][s]
    BY <1>0, <2>1 DEF SessionInv, AtNetHttp, SpliceTypeOK
  <2>3. SpliceInv(c)'
    BY <1>0, <2>1, <2>2, StartInv
  <2>4. Copied(c)'
    BY <2>1, <2>3 DEF SpliceInv, Balanced
  <2> QED BY <1>0, <2>1, <2>3, <2>4 DEF SessionInv, AtNetHttp, Hijacked, Undecided
<1>7. CASE EndSession(c)
  <2>1. PICK result \in {"nil", "err"} : Await(c, "uncount", result) /\ UNCHANGED <<source, http>>
    BY <1>7 DEF EndSession
  <2>2. SpliceInv(c)'
    BY <1>0, <2>1, AwaitInv
  <2>3. /\ pc[c] = "splice" /\ pc'[c] = "uncount" /\ UNCHANGED <<peer, open, copier, source>>
        /\ UNCHANGED <<asked, told, hasty, dropped>>
    BY <1>0, <2>1 DEF Await, http
  <2>4. Copied(c)
    BY <1>0, <2>3 DEF SpliceInv, Balanced
  <2> QED BY <1>0, <2>2, <2>3, <2>4 DEF SessionInv, AtNetHttp, Copied, Hijacked, Undecided
<1>8. CASE CloseClient(c)
  <2>1. /\ pc[c] = "closeClient" /\ pc'[c] = "closeUpstream"
        /\ ~open'[c]["client"] /\ open'[c]["upstream"] = open[c]["upstream"]
        /\ UNCHANGED <<peer, sent, put, copier, errc, source, asked, told, hasty, dropped>>
    BY <1>0, <1>8 DEF CloseClient, Goto, Close, SpliceTypeOK, http
  <2>2. SpliceInv(c)'
    BY <1>0, <2>1, HandlerInv DEF EndedBy
  <2> QED BY <1>0, <2>1, <2>2 DEF SessionInv, AtNetHttp, Copied, Hijacked, Undecided
<1>9. CASE CloseUpstream(c)
  <2>1. /\ pc[c] = "closeUpstream" /\ pc'[c] = "done"
        /\ ~open'[c]["upstream"] /\ open'[c]["client"] = open[c]["client"]
        /\ UNCHANGED <<peer, sent, put, copier, errc, source, asked, told, hasty, dropped>>
    BY <1>0, <1>9 DEF CloseUpstream, Goto, Close, SpliceTypeOK, http
  <2>2. SpliceInv(c)'
    BY <1>0, <2>1, HandlerInv DEF EndedBy
  <2> QED BY <1>0, <2>1, <2>2 DEF SessionInv, AtNetHttp, Copied, Hijacked, Undecided
<1> QED BY <1>1, <1>2, <1>3, <1>4, <1>5, <1>6, <1>7, <1>8, <1>9 DEF HandlerStep, ServeHTTP

\* The peers, the kernel and the copying goroutines.
LEMMA CoreStepInv ==
    ASSUME Inv, NEW c \in Conns, NEW s \in Sides, UNCHANGED <<source, http, metrics>>,
           PeerStep(c, s) \/ KeepAlive(c, s) \/ CopierStep(c, s) \/ WriteOk(c, s)
    PROVE  Inv'
<1>1. TypeOK'
  BY CoreStep DEF Inv, TypeOK, SessionInv, http, metrics
<1>2. \A d \in Conns : SessionInv(d)'
  BY CoreStep DEF Inv, TypeOK, SessionInv, Sides, Hijacked, http, Undecided
<1> QED BY <1>1, <1>2 DEF Inv

\* httpproxy.go:59-117: a statement of one handler, or a step of net/http, keeps
\* the whole invariant.
LEMMA HandlerStepInv ==
    ASSUME Inv, NEW c \in Conns, HandlerStep(c)
    PROVE  Inv'
<1>1. ASSUME NEW d \in Conns, d # c PROVE Untouched(d)
  <2>1. CASE Accept(c) \/ Request(c) \/ ServerCloses(c)
    BY <1>1, <2>1 DEF Inv, TypeOK, SpliceTypeOK, Untouched, Accept, Request, ServerCloses,
                      Goto, Connect, Close, spliceVars, http
  <2>2. CASE Gate(c) \/ Method(c) \/ DialOk(c) \/ DialFail(c) \/ Hijack(c) \/ Answer(c)
    BY <1>1, <2>2 DEF Inv, TypeOK, SpliceTypeOK, Untouched, Gate, Method, DialOk, DialFail,
                      Hijack, Answer, Refuse, Goto, Connect, spliceVars, http
  <2>3. CASE CountStarted(c) \/ StartSession(c) \/ EndSession(c) \/ Uncount(c)
             \/ CloseClient(c) \/ CloseUpstream(c)
    BY <1>1, <2>3 DEF Inv, TypeOK, SpliceTypeOK, Untouched, CountStarted, StartSession,
                      EndSession, Uncount, CloseClient, CloseUpstream, Goto, Close,
                      StartCopying, Await, spliceVars, http
  <2> QED BY <2>1, <2>2, <2>3 DEF HandlerStep, ServeHTTP
<1>2. \A d \in Conns : SessionInv(d)'
  BY <1>1, UntouchedInv, HandlerSessionInv DEF Inv
<1> QED BY <1>2, HandlerTypeOK DEF Inv

\* What a step of the proxy, net/http and the peers is.
LEMMA Steps ==
    ASSUME Next
    PROVE  \/ \E c \in Conns : HandlerStep(c) \/ ClientSends(c)
           \/ /\ \E c \in Conns, s \in Sides :
                    PeerStep(c, s) \/ KeepAlive(c, s) \/ CopierStep(c, s) \/ WriteOk(c, s)
              /\ UNCHANGED <<source, http, metrics>>
BY DEF Next, HandlerStep, Copying, PeerElse, PeerStep

LEMMA InvInductive == Inv /\ [Next]_vars => Inv'
<1> SUFFICES ASSUME Inv, [Next]_vars PROVE Inv'
  OBVIOUS
<1>1. CASE UNCHANGED vars
  <2>1. \A d \in Conns : Untouched(d)
    BY <1>1 DEF vars, spliceVars, http, Untouched
  <2>2. TypeOK'
    BY <1>1 DEF vars, spliceVars, http, metrics, Inv, TypeOK, SpliceTypeOK
  <2> QED BY <2>1, <2>2, UntouchedInv DEF Inv
<1> QED BY <1>1, Steps, CoreStepInv, ClientSendsInv, HandlerStepInv

-----------------------------------------------------------------------------
\* httpproxy.go:59-117: the variables keep their types, and what ServeHTTP has
\* done so far agrees with its sockets and goroutines.
THEOREM Invariance == Spec => []Inv
BY InitInv, InvInductive, PTL DEF Spec

\* httpproxy.go:86-93: a client that waits for its 200 loses nothing to the
\* reader that is dropped.
THEOREM PatientLoseNothing == Spec => []OnlyEarlyDataLost
<1>1. Inv => OnlyEarlyDataLost
  BY DEF Inv, SessionInv, OnlyEarlyDataLost
<1> QED BY <1>1, Invariance, PTL

\* httpproxy.go:116: a session is closed only after a peer ended it.
THEOREM SessionsNotCut == Spec => []CloseOnlyAfterEnd
<1>1. Inv => CloseOnlyAfterEnd
  BY CloseOnlyAfterEndFollows DEF Inv, TypeOK, SessionInv
<1> QED BY <1>1, Invariance, PTL

\* httpproxy.go:107: no copying goroutine ever blocks for good on errc.
THEOREM NoSenderLeaks == Spec => []SendersNeverBlock
<1>1. Inv => SendersNeverBlock
  BY SendersNeverBlockFollows DEF Inv, TypeOK, SessionInv
<1> QED BY <1>1, Invariance, PTL

Live == {c \in Conns : pc[c] \in {"splice", "uncount"}}

\* What one connection's move does to the number of connections in a set.
LEMMA CountOne ==
    ASSUME NEW A \in SUBSET Conns, NEW c \in Conns
    PROVE  /\ Cardinality(A) \in Nat
           /\ c \notin A => Cardinality(A \cup {c}) = Cardinality(A) + 1
           /\ c \in A => Cardinality(A \ {c}) = Cardinality(A) - 1
<1>1. IsFiniteSet(A)
  BY ConnectAssumption, FS_Subset
<1> QED BY <1>1, FS_CardinalityType, FS_AddElement, FS_RemoveElement

\* httpproxy.go:98-100: sessions_active is exact in every state.
THEOREM ActiveExact == Spec => []ActiveCountsLive
<1>1. Init => ActiveCountsLive
  <2> SUFFICES ASSUME Init PROVE ActiveCountsLive
    OBVIOUS
  <2>1. {c \in Conns : pc[c] \in {"splice", "uncount"}} = {}
    BY DEF Init
  <2> QED BY <2>1, FS_EmptySet DEF Init, ActiveCountsLive
<1>2. ASSUME Inv, ActiveCountsLive, [Next]_vars PROVE ActiveCountsLive'
  <2>0. DOMAIN pc = Conns /\ activeSessions = Cardinality(Live)
    BY <1>2 DEF Inv, TypeOK, ActiveCountsLive, Live
  <2>1. CASE pc' = pc /\ activeSessions' = activeSessions
    BY <1>2, <2>1 DEF ActiveCountsLive
  <2>2. ASSUME NEW c \in Conns, HandlerStep(c) PROVE ActiveCountsLive'
    <3>1. CASE StartSession(c)
      <4>1. Live' = Live \cup {c} /\ c \notin Live
        BY <2>0, <3>1 DEF StartSession, Goto, Live
      <4>2. activeSessions' = activeSessions + 1
        BY <3>1 DEF StartSession
      <4> QED BY <2>0, <4>1, <4>2, CountOne DEF ActiveCountsLive, Live
    <3>2. CASE Uncount(c)
      <4>1. Live' = Live \ {c} /\ c \in Live
        BY <2>0, <3>2 DEF Uncount, Goto, Live
      <4>2. activeSessions' = activeSessions - 1
        BY <3>2 DEF Uncount
      <4> QED BY <2>0, <4>1, <4>2, CountOne DEF ActiveCountsLive, Live
    <3>3. CASE ~StartSession(c) /\ ~Uncount(c)
      <4>1. Live' = Live /\ activeSessions' = activeSessions
        BY <2>2, <2>0, <3>3 DEF HandlerStep, ServeHTTP, Accept, Request, ServerCloses, Gate,
              Method, DialOk, DialFail, Hijack, Answer, CountStarted, EndSession, CloseClient,
              CloseUpstream, Refuse, Goto, Await, Live, metrics
      <4> QED BY <2>0, <4>1 DEF ActiveCountsLive, Live
    <3> QED BY <3>1, <3>2, <3>3
  <2>3. ASSUME NEW c \in Conns, NEW s \in Sides, UNCHANGED metrics,
               PeerStep(c, s) \/ KeepAlive(c, s) \/ CopierStep(c, s) \/ WriteOk(c, s)
        PROVE  ActiveCountsLive'
    BY <1>2, <2>1, <2>3, CoreStep DEF Inv, TypeOK, SessionInv, metrics
  <2>4. ASSUME NEW c \in Conns, ClientSends(c) PROVE ActiveCountsLive'
    BY <2>1, <2>4 DEF ClientSends, PeerSend, spliceVars, metrics
  <2>5. CASE UNCHANGED vars
    BY <2>1, <2>5 DEF vars, metrics
  <2> QED BY <1>2, <2>2, <2>3, <2>4, <2>5, Steps DEF metrics
<1> QED BY <1>1, <1>2, Invariance, PTL DEF Spec

Settled == startedSessions + errors["disallowed-source"] + errors["bad-method"]
               + errors["dial-failed"] + errors["network-error"]

\* httpproxy.go:61-98: a step after which a request of c is decided on: it was
\* not before, and no other request is.
LEMMA Decides ==
    ASSUME Inv, NEW c \in Conns, Undecided(c), ~Undecided(c)', asked' = asked,
           \A d \in Conns : d # c => pc'[d] = pc[d],
           Settled' = Settled + 1, EveryRequestCounted
    PROVE  EveryRequestCounted'
<1>1. asked[c] \in 1..MaxRequests /\ asked \in [Conns -> 0..MaxRequests] /\ MaxRequests \in Nat
  BY ConnectAssumption DEF Inv, TypeOK, SessionInv
<1> DEFINE r == <<c, asked[c]>>
<1>2. r \in Conns \X (1..MaxRequests) /\ r \notin Decided
  BY <1>1 DEF Decided
<1>3. Decided' = Decided \cup {r}
  <2>1. ASSUME NEW q \in Conns \X (1..MaxRequests) PROVE q \in Decided' <=> q \in Decided \cup {r}
    <3>1. CASE q[1] = c
      BY <1>1, <3>1 DEF Decided
    <3>2. CASE q[1] # c
      BY <1>1, <3>2 DEF Decided, Undecided
    <3> QED BY <3>1, <3>2
  <2> QED BY <1>2, <2>1 DEF Decided
<1>4. IsFiniteSet(Decided)
  <2>1. IsFiniteSet(1..MaxRequests)
    BY ConnectAssumption, FS_Interval
  <2>2. IsFiniteSet(Conns \X (1..MaxRequests))
    BY <2>1, ConnectAssumption, FS_Product
  <2>3. Decided \subseteq Conns \X (1..MaxRequests)
    BY DEF Decided
  <2> QED BY <2>2, <2>3, FS_Subset
<1>5. Cardinality(Decided') = Cardinality(Decided) + 1
  BY <1>2, <1>3, <1>4, FS_AddElement
<1> QED BY <1>5 DEF EveryRequestCounted, Settled

\* A step after which the same requests are decided on, and counted.
LEMMA DecidesNothing ==
    ASSUME asked' = asked, \A d \in Conns : Undecided(d)' <=> Undecided(d),
           Settled' = Settled, EveryRequestCounted
    PROVE  EveryRequestCounted'
<1>1. Decided' = Decided
  BY DEF Decided
<1> QED BY <1>1 DEF EveryRequestCounted, Settled

\* httpproxy.go:61-98: no request goes uncounted and none is counted twice, for
\* any finite number of connections with any number of requests each.
THEOREM RequestsCounted == Spec => []EveryRequestCounted
<1>1. Init => EveryRequestCounted
  <2> SUFFICES ASSUME Init PROVE EveryRequestCounted
    OBVIOUS
  <2>1. Decided = {}
    BY DEF Init, Decided
  <2>2. Settled = 0
    BY DEF Init, Settled, Labels
  <2> QED BY <2>1, <2>2, FS_EmptySet DEF EveryRequestCounted, Settled
<1>2. ASSUME Inv, EveryRequestCounted, [Next]_vars PROVE EveryRequestCounted'
  <2>0. /\ pc \in [Conns -> PcStates] /\ errors \in [Labels -> Nat] /\ startedSessions \in Nat
        /\ Labels = {"disallowed-source", "bad-method", "dial-failed", "network-error"}
    BY <1>2 DEF Inv, TypeOK, Labels
  <2>1. CASE UNCHANGED <<pc, asked, startedSessions, errors>>
    BY <1>2, <2>1, DecidesNothing DEF Undecided, Settled
  <2>2. ASSUME NEW l \in Labels, Count(l), UNCHANGED startedSessions PROVE Settled' = Settled + 1
    <3>1. \A k \in Labels : errors[k] \in Nat /\ errors'[k] = IF k = l THEN errors[k] + 1 ELSE errors[k]
      BY <2>0, <2>2 DEF Count
    <3> QED BY <2>0, <2>2, <3>1 DEF Settled
  <2>3. ASSUME NEW c \in Conns, HandlerStep(c) PROVE EveryRequestCounted'
    <3>1. CASE Request(c)
      <4>1. /\ asked' = [asked EXCEPT ![c] = @ + 1] /\ asked \in [Conns -> 0..MaxRequests]
            /\ pc[c] = "http" /\ pc' = [pc EXCEPT ![c] = "gate"] /\ Settled' = Settled
        BY <1>2, <3>1 DEF Request, Goto, Inv, TypeOK, metrics, Settled
      <4>2. ASSUME NEW r \in Conns \X (1..MaxRequests) PROVE r \in Decided' <=> r \in Decided
        <5>1. CASE r[1] = c
          <6>1. asked[c] \in Nat /\ asked'[c] = asked[c] + 1 /\ Undecided(c)' /\ ~Undecided(c)
            BY <2>0, <4>1 DEF Undecided
          <6> QED BY <5>1, <6>1 DEF Decided
        <5>2. CASE r[1] # c
          BY <2>0, <4>1, <5>2 DEF Decided, Undecided
        <5> QED BY <5>1, <5>2
      <4>3. Decided' = Decided
        BY <4>2 DEF Decided
      <4> QED BY <1>2, <4>1, <4>3 DEF EveryRequestCounted, Settled
    <3>2. CASE \E l \in Labels, at \in {"gate", "method", "dial"} :
                  Refuse(c, at, l) /\ UNCHANGED <<asked, startedSessions>>
      <4>1. PICK l \in Labels : Count(l) /\ UNCHANGED <<asked, startedSessions>>
        BY <3>2 DEF Refuse
      <4>2. Undecided(c) /\ ~Undecided(c)' /\ \A d \in Conns : d # c => pc'[d] = pc[d]
        BY <2>0, <3>2 DEF Refuse, Goto, Undecided
      <4> QED BY <1>2, <2>2, <4>1, <4>2, Decides
    <3>3. CASE Answer(c) /\ Count("network-error")
      <4>1. Undecided(c) /\ ~Undecided(c)' /\ \A d \in Conns : d # c => pc'[d] = pc[d]
        BY <2>0, <3>3 DEF Answer, Goto, Undecided, Count
      <4>2. UNCHANGED <<asked, startedSessions>>
        BY <3>3 DEF Answer
      <4> QED BY <1>2, <2>0, <2>2, <3>3, <4>1, <4>2, Decides
    <3>4. CASE CountStarted(c)
      <4>1. /\ Undecided(c) /\ ~Undecided(c)' /\ \A d \in Conns : d # c => pc'[d] = pc[d]
            /\ asked' = asked
        BY <2>0, <3>4 DEF CountStarted, Goto, Undecided, http
      <4>2. Settled' = Settled + 1
        BY <2>0, <3>4 DEF CountStarted, Settled
      <4> QED BY <1>2, <4>1, <4>2, Decides
    <3>5. ASSUME UNCHANGED <<asked, startedSessions, errors>>,
                 \A d \in Conns : d # c => pc'[d] = pc[d], Undecided(c)' <=> Undecided(c)
          PROVE  EveryRequestCounted'
      BY <1>2, <3>5, DecidesNothing DEF Settled, Undecided
    <3>6. CASE Accept(c) \/ ServerCloses(c) \/ DialOk(c) \/ Hijack(c)
      BY <2>0, <3>5, <3>6 DEF Accept, ServerCloses, DialOk, Hijack, Goto, Undecided, http, metrics
    <3>7. CASE Answer(c) /\ UNCHANGED errors
      BY <2>0, <3>5, <3>7 DEF Answer, Goto, Undecided, Count
    <3>8. CASE StartSession(c) \/ EndSession(c) \/ Uncount(c) \/ CloseClient(c) \/ CloseUpstream(c)
      BY <2>0, <3>5, <3>8 DEF StartSession, EndSession, Await, Uncount, CloseClient, CloseUpstream,
         Goto, Undecided, http, metrics
    <3>9. CASE (Gate(c) \/ Method(c)) /\ UNCHANGED errors
      BY <2>0, <3>5, <3>9 DEF Gate, Method, Refuse, Goto, Undecided, http, Count
    <3>10. CASE Gate(c) \/ Method(c)
      <4>1. UNCHANGED errors \/ \E l \in Labels, at \in {"gate", "method", "dial"} :
                   Refuse(c, at, l) /\ UNCHANGED <<asked, startedSessions>>
        BY <2>0, <3>10 DEF Gate, Method, http
      <4> QED BY <3>2, <3>9, <3>10, <4>1
    <3>11. CASE DialFail(c)
      BY <2>0, <3>2, <3>11 DEF DialFail, http
    <3>12. CASE Answer(c)
      BY <3>3, <3>7, <3>12 DEF Answer
    <3> QED BY <2>3, <3>1, <3>4, <3>6, <3>8, <3>10, <3>11, <3>12 DEF HandlerStep, ServeHTTP
  <2>4. ASSUME NEW c \in Conns, NEW s \in Sides, UNCHANGED <<source, http, metrics>>,
               PeerStep(c, s) \/ KeepAlive(c, s) \/ CopierStep(c, s) \/ WriteOk(c, s)
        PROVE  EveryRequestCounted'
    BY <1>2, <2>1, <2>4, CoreStep DEF Inv, TypeOK, SessionInv, http, metrics
  <2>5. ASSUME NEW c \in Conns, ClientSends(c) PROVE EveryRequestCounted'
    BY <2>1, <2>5 DEF ClientSends, PeerSend, spliceVars, metrics
  <2>6. CASE UNCHANGED vars
    BY <2>1, <2>6 DEF vars, http, metrics
  <2> QED BY <1>2, <2>3, <2>4, <2>5, <2>6, Steps
<1> QED BY <1>1, <1>2, Invariance, PTL DEF Spec

-----------------------------------------------------------------------------
(* ConnectProxy implements Relay.                                          *)

\* httpproxy.go:35: a proxy without connections is a relay without connections.
LEMMA RelayInit == Init => Promise!Init
<1> SUFFICES ASSUME Init PROVE Promise!Init
  OBVIOUS
<1>1. \A c \in Conns : PhaseOf(c) = "idle"
  BY DEF Init, PhaseOf
<1>2. sessionPhase = [c \in Conns |-> "idle"]
  BY <1>1 DEF sessionPhase
<1> QED BY <1>2 DEF Init, SpliceInit, Promise!Init, Promise!Sides, Sides

\* A step that leaves the phase of every connection alone.
LEMMA SamePhase ==
    ASSUME \A d \in Conns : /\ pc'[d] = pc[d] \/ {pc[d], pc'[d]} \cap {"idle", "done"} = {}
                            /\ peer[d]["upstream"] = "none" <=> peer'[d]["upstream"] = "none"
    PROVE  sessionPhase' = sessionPhase
<1>1. \A d \in Conns : PhaseOf(d)' = PhaseOf(d)
  BY DEF PhaseOf
<1> QED BY <1>1 DEF sessionPhase

\* A step of one connection that moves its phase to new.
LEMMA NextPhase ==
    ASSUME NEW c \in Conns, NEW new, PhaseOf(c)' = new,
           \A d \in Conns : d # c => /\ pc'[d] = pc[d]
                                    /\ peer'[d]["upstream"] = peer[d]["upstream"]
    PROVE  sessionPhase' = [sessionPhase EXCEPT ![c] = new]
<1>1. \A d \in Conns : d # c => PhaseOf(d)' = PhaseOf(d)
  BY DEF PhaseOf
<1> QED BY <1>1 DEF sessionPhase

\* httpproxy.go:78,86: what the peers do, and what the kernel finds out about
\* them, is what the peers of a relay do.
LEMMA PeerStepsRelay ==
    ASSUME Inv, NEW c \in Conns, NEW s \in Sides, PeerStep(c, s) \/ KeepAlive(c, s),
           source' = source
    PROVE  Promise!Next
<1>1. sessionPhase[c] # "closed"
  <2>1. open[c][s]
    BY DEF PeerStep, PeerSend, PeerFin, PeerReset, PeerVanish, KeepAlive, PeerBecomes
  <2>2. pc[c] # "done"
    BY <2>1 DEF Inv, SessionInv, Sides
  <2> QED BY <2>2 DEF sessionPhase, PhaseOf
<1>2. CASE PeerSend(c, s)
  <2>1. sessionPhase' = sessionPhase
    BY <1>2, SamePhase DEF PeerSend
  <2>2. Promise!Send(c, s)
    BY <1>1, <1>2, <2>1 DEF PeerSend, Promise!Send
  <2> QED BY <2>2 DEF Promise!Next, Promise!Sides, Sides
<1>3. ASSUME NEW states, NEW new, PeerBecomes(c, s, states, new),
             "none" \notin states, new # "none"
      PROVE  Promise!PeerBecomes(c, s, states, new)
  <2>1. \A d \in Conns : peer[d]["upstream"] = "none" <=> peer'[d]["upstream"] = "none"
    BY <1>3 DEF PeerBecomes, Inv, TypeOK, SpliceTypeOK, Sides
  <2>2. sessionPhase' = sessionPhase
    BY <1>3, <2>1, SamePhase DEF PeerBecomes
  <2> QED BY <1>1, <1>3, <2>2 DEF PeerBecomes, Promise!PeerBecomes
<1>4. CASE PeerFin(c, s)
  BY <1>3, <1>4 DEF PeerFin, Promise!Fin, Promise!Next, Promise!Sides, Sides
<1>5. CASE PeerVanish(c, s)
  BY <1>3, <1>5 DEF PeerVanish, Promise!Vanish, Promise!Next, Promise!Sides, Sides
<1>6. CASE PeerReset(c, s) \/ KeepAlive(c, s)
  <2>1. Promise!PeerBecomes(c, s, {"up", "fin"}, "reset")
            \/ Promise!PeerBecomes(c, s, {"gone"}, "reset")
    BY <1>3, <1>6 DEF PeerReset, KeepAlive
  <2>2. Promise!Break(c, s)
    BY <2>1 DEF Promise!PeerBecomes, Promise!Break
  <2> QED BY <2>2 DEF Promise!Next, Promise!Sides, Sides
<1> QED BY <1>2, <1>4, <1>5, <1>6 DEF PeerStep

\* httpproxy.go:86: data that net/http reads ahead never enters the relay.
LEMMA ClientSendsRelay ==
    ASSUME Inv, NEW c \in Conns, ClientSends(c)
    PROVE  Promise!Next \/ UNCHANGED Promise!vars
<1>1. CASE PeerSend(c, "client")
  BY <1>1, PeerStepsRelay DEF ClientSends, PeerStep, Sides
<1>2. CASE UNCHANGED <<pc, spliceVars>>
  <2>1. sessionPhase' = sessionPhase
    BY <1>2, SamePhase DEF spliceVars
  <2> QED BY <1>2, <2>1 DEF ClientSends, spliceVars, Promise!vars
<1> QED BY <1>1, <1>2 DEF ClientSends

\* httpproxy.go:105-115: a Write of io.Copy forwards a chunk, the rest of a
\* goroutine's life is no step of the relay.
LEMMA CopyingRelay ==
    ASSUME Inv, NEW c \in Conns, NEW s \in Sides, CopierStep(c, s) \/ WriteOk(c, s),
           source' = source
    PROVE  Promise!Next \/ UNCHANGED Promise!vars
<1>1. sessionPhase' = sessionPhase
  BY SamePhase DEF CopierStep, CopyRead, CopyReadEnd, WriteErr, Post, WriteOk
<1>2. CASE WriteOk(c, s)
  <2>1. /\ copier[c][s] = "write" /\ open[c][Other(s)] /\ put[c][s] < sent[c][s]
        /\ Copied(c)
    BY <1>2 DEF WriteOk, CopierBecomes, Inv, SessionInv, SpliceInv, NothingMadeUp, Together,
                Copied, Sides
  <2>2. pc[c] \notin {"idle", "done"} /\ peer[c]["upstream"] # "none"
    BY <2>1 DEF Inv, SessionInv, AtNetHttp, Sides, Other
  <2>3. sessionPhase[c] = "open"
    BY <2>2 DEF sessionPhase, PhaseOf
  <2>4. Promise!Forward(c, s)
    BY <1>1, <1>2, <2>1, <2>3 DEF WriteOk, Promise!Forward, Promise!Other, Other
  <2> QED BY <2>4 DEF Promise!Next, Promise!Sides, Sides
<1>3. CASE CopierStep(c, s)
  BY <1>1, <1>3 DEF CopierStep, CopyRead, CopyReadEnd, WriteErr, Post, Promise!vars
<1> QED BY <1>2, <1>3

\* httpproxy.go:59-117: dialling for an admitted client opens, a connection that
\* net/http closes was never opened, the last deferred call closes, the other
\* statements are no step of the relay.
LEMMA HandlerRelay ==
    ASSUME Inv, NEW c \in Conns, HandlerStep(c)
    PROVE  Promise!Next \/ UNCHANGED Promise!vars
<1>0. /\ SessionInv(c) /\ SpliceTypeOK /\ DOMAIN pc = Conns /\ source[c] \in Sources
  BY DEF Inv, TypeOK
<1>1. CASE Accept(c)
  <2>1. /\ pc' = [pc EXCEPT ![c] = "http"] /\ pc[c] = "idle"
        /\ peer' = [peer EXCEPT ![c]["client"] = "up"] /\ UNCHANGED <<source, sent, put>>
    BY <1>1 DEF Accept, Goto, Connect
  <2>2. sessionPhase[c] = "idle" /\ peer[c]["upstream"] = "none"
    BY <1>0, <2>1 DEF sessionPhase, PhaseOf, SessionInv, AtNetHttp
  <2>3. \A d \in Conns : peer'[d]["upstream"] = peer[d]["upstream"]
    BY <1>0, <2>1 DEF SpliceTypeOK, Sides
  <2>4. sessionPhase' = [sessionPhase EXCEPT ![c] = "new"]
    BY <1>0, <2>1, <2>2, <2>3, NextPhase DEF sessionPhase, PhaseOf
  <2>5. Promise!Arrive(c)
    BY <2>1, <2>2, <2>4 DEF Promise!Arrive, Promise!Becomes
  <2> QED BY <2>5 DEF Promise!Next
<1>2. CASE DialOk(c)
  <2>1. /\ pc' = [pc EXCEPT ![c] = "hijack"] /\ pc[c] = "dial"
        /\ peer' = [peer EXCEPT ![c]["upstream"] = "up"] /\ UNCHANGED <<source, sent, put>>
    BY <1>2 DEF DialOk, Goto, Connect, http
  <2>2. peer[c]["upstream"] = "none" /\ allowPeer(classifyPeer(source[c]))
    BY <1>0, <2>1 DEF SessionInv, AtNetHttp
  <2>3. source[c] \in Admitted
    BY <1>0, <2>2, PeerAssumption, ConnectAssumption
       DEF allowPeer, classifyPeer, Admitted, TrustedSources, Sources
  <2>4. sessionPhase[c] = "new"
    BY <2>1, <2>2 DEF sessionPhase, PhaseOf
  <2>5. \A d \in Conns : peer'[d]["upstream"] = IF d = c THEN "up" ELSE peer[d]["upstream"]
    BY <1>0, <2>1 DEF SpliceTypeOK, Sides
  <2>6. sessionPhase' = [sessionPhase EXCEPT ![c] = "open"]
    BY <1>0, <2>1, <2>5, NextPhase DEF sessionPhase, PhaseOf
  <2>7. Promise!Open(c)
    BY <2>1, <2>2, <2>3, <2>4, <2>6 DEF Promise!Open, Promise!Dials, Promise!Becomes
  <2> QED BY <2>7 DEF Promise!Next
<1>3. CASE ServerCloses(c) \/ CloseUpstream(c)
  <2>1. /\ pc' = [pc EXCEPT ![c] = "done"] /\ pc[c] \in {"http", "closeUpstream"}
        /\ UNCHANGED <<peer, source, sent, put>>
    BY <1>3 DEF ServerCloses, CloseUpstream, Goto, http
  <2>2. sessionPhase' = [sessionPhase EXCEPT ![c] = "closed"]
    BY <1>0, <2>1, NextPhase DEF PhaseOf
  <2>3. CASE peer[c]["upstream"] = "none"
    <3>1. sessionPhase[c] = "new"
      BY <2>1, <2>3 DEF sessionPhase, PhaseOf
    <3>2. Promise!Refuse(c)
      BY <2>1, <2>2, <3>1 DEF Promise!Refuse, Promise!Becomes
    <3> QED BY <3>2 DEF Promise!Next
  <2>4. CASE peer[c]["upstream"] # "none"
    <3>1. sessionPhase[c] = "open"
      BY <2>1, <2>4 DEF sessionPhase, PhaseOf
    <3>2. pc[c] = "closeUpstream"
      BY <1>0, <2>1, <2>4 DEF SessionInv, AtNetHttp
    <3>3. \E s \in Sides : EndedBy(c, s)
      <4>1. CASE Copied(c)
        BY <1>0, <3>2, <4>1, ClosedForAReason DEF SessionInv, Sides
      <4>2. CASE ~Copied(c)
        BY <1>0, <3>2, <4>2 DEF SessionInv, EndedBy, Sides
      <4> QED BY <4>1, <4>2
    <3>4. Promise!Close(c)
      BY <2>1, <2>2, <3>1, <3>3
         DEF Promise!Close, Promise!Becomes, Promise!EndedBy, EndedBy, Promise!Sides, Sides
    <3> QED BY <3>4 DEF Promise!Next
  <2> QED BY <2>3, <2>4
<1>4. CASE Request(c) \/ Gate(c) \/ Method(c) \/ DialFail(c) \/ Hijack(c) \/ Answer(c)
              \/ CountStarted(c) \/ StartSession(c) \/ EndSession(c) \/ Uncount(c)
              \/ CloseClient(c)
  <2>1. /\ {pc[c], pc'[c]} \cap {"idle", "done"} = {}
        /\ \A d \in Conns : d # c => pc'[d] = pc[d]
        /\ UNCHANGED <<peer, sent, put, source>>
    BY <1>0, <1>4 DEF Request, Gate, Method, DialFail, Hijack, Answer, CountStarted,
          StartSession, EndSession, Uncount, CloseClient, Goto, Refuse, Await, spliceVars, http
  <2>2. sessionPhase' = sessionPhase
    BY <2>1, SamePhase
  <2> QED BY <2>1, <2>2 DEF Promise!vars
<1> QED BY <1>1, <1>2, <1>3, <1>4 DEF HandlerStep, ServeHTTP

\* httpproxy.go:39-117: net/http, ServeHTTP, goroutines, channels and sockets
\* together implement the relay, for every set of connections.
THEOREM RelayImplemented == Spec => ImplementsRelay
<1>1. ASSUME Inv, [Next]_vars PROVE [Promise!Next]_(Promise!vars)
  <2>1. CASE UNCHANGED vars
    <3>1. sessionPhase' = sessionPhase
      BY <2>1, SamePhase DEF vars, spliceVars
    <3> QED BY <2>1, <3>1 DEF vars, spliceVars, Promise!vars
  <2>2. CASE Next
    BY <1>1, <2>2, Steps, PeerStepsRelay, CopyingRelay, ClientSendsRelay, HandlerRelay
  <2> QED BY <1>1, <2>1, <2>2
<1> QED BY <1>1, RelayInit, Invariance, PTL DEF Spec, ImplementsRelay, Promise!Spec
=============================================================================
