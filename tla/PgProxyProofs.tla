---------------------------- MODULE PgProxyProofs ----------------------------
(***************************************************************************)
(* Proofs about PgProxy for any finite set of connections, any inputs and  *)
(* any bounds, on top of what SpliceProofs shows of the session core.      *)
(***************************************************************************)
EXTENDS PgProxy, SpliceProofs, FiniteSetTheorems

\* What a step of one connection leaves alone of another one, d.
Untouched(d) ==
    /\ pc'[d] = pc[d] /\ peer'[d] = peer[d] /\ open'[d] = open[d] /\ sent'[d] = sent[d]
    /\ put'[d] = put[d] /\ copier'[d] = copier[d] /\ errc'[d] = errc[d]
    /\ got'[d] = got[d] /\ appName'[d] = appName[d] /\ input' = input

\* pgproxy.go:161: serve runs per connection: one that a step leaves alone keeps
\* its invariant.
LEMMA UntouchedInv ==
    ASSUME NEW d \in Conns, SessionInv(d), Untouched(d)
    PROVE  SessionInv(d)'
<1>1. SpliceInv(d)'
  BY SpliceInvUntouched DEF Untouched, SessionInv
<1> QED BY <1>1 DEF Untouched, SessionInv, Copied, Dialled, Verified, Managed, NameFor, FromTS

\* pgproxy.go:70-111: before the first connection there is nothing to relate.
LEMMA InitInv == Init => Inv
<1> SUFFICES ASSUME Init PROVE Inv
  OBVIOUS
<1>1. SpliceTypeOK
  BY SpliceAssumption DEF Init, SpliceInit, SpliceTypeOK, PeerStates, CopierStates
<1>2. TypeOK
  BY <1>1, PgAssumption DEF Init, TypeOK, PcStates, Labels, Names
<1>3. ASSUME NEW c \in Conns PROVE SessionInv(c)
  <2>1. /\ pc[c] = "idle" /\ errc[c] = <<>> /\ got[c] = {}
        /\ \A s \in Sides : /\ peer[c][s] = "none" /\ copier[c][s] = "off" /\ ~open[c][s]
                            /\ sent[c][s] = 0 /\ put[c][s] = 0
    BY DEF Init, SpliceInit
  <2>2. SpliceInv(c)
    BY <2>1 DEF SpliceInv, Together, NothingMadeUp, Balanced, EndsForAReason, OpenInSession,
                Copied, Sides
  <2> QED BY <2>1, <2>2 DEF SessionInv, Copied, Sides, Dialled, Verified
<1> QED BY <1>2, <1>3 DEF Inv

-----------------------------------------------------------------------------
(* The peers, the kernel, the copying goroutines and the context.          *)

\* pgproxy.go:278-285: a chunk is passed on only by a goroutine that was started.
LEMMA PutOnlyCopied ==
    ASSUME SpliceTypeOK, NEW c \in Conns, NEW s \in Sides, NEW d \in Conns, SpliceInv(d),
           PeerStep(c, s) \/ KeepAlive(c, s) \/ CopierStep(c, s) \/ WriteOk(c, s)
    PROVE  put'[d] = put[d] \/ Copied(d)
<1>1. CASE PeerStep(c, s) \/ KeepAlive(c, s) \/ CopierStep(c, s)
  BY <1>1 DEF PeerStep, PeerSend, PeerFin, PeerReset, PeerVanish, KeepAlive, PeerBecomes,
              CopierStep, CopyRead, CopyReadEnd, WriteErr, Post
<1>2. CASE WriteOk(c, s)
  <2>1. d # c => put'[d] = put[d]
    BY <1>2 DEF WriteOk, SpliceTypeOK
  <2>2. d = c => Copied(d)
    BY <1>2 DEF WriteOk, CopierBecomes, SpliceInv, Together, Copied, Sides
  <2> QED BY <2>1, <2>2
<1> QED BY <1>1, <1>2

LEMMA CoreStepInv ==
    ASSUME Inv, NEW c \in Conns, NEW s \in Sides, UNCHANGED handlerVars,
           PeerStep(c, s) \/ KeepAlive(c, s) \/ CopierStep(c, s) \/ WriteOk(c, s)
    PROVE  Inv'
<1>0. SpliceTypeOK /\ \A d \in Conns : SpliceInv(d)
  BY DEF Inv, TypeOK, SessionInv
<1>1. /\ SpliceTypeOK' /\ pc' = pc /\ open' = open
      /\ \A d \in Conns : /\ SpliceInv(d)'
                          /\ Copied(d)' <=> Copied(d)
                          /\ \A t \in Sides : peer'[d][t] = "none" <=> peer[d][t] = "none"
  BY <1>0, CoreStep
<1>2. TypeOK'
  BY <1>1 DEF Inv, TypeOK, handlerVars, dialogue, ids
<1>3. \A d \in Conns : put'[d] = put[d] \/ Copied(d)
  BY <1>0, PutOnlyCopied
<1>4. ASSUME NEW d \in Conns PROVE SessionInv(d)'
  <2>1. SessionInv(d) /\ UNCHANGED <<input, got, appName>> /\ "client" \in Sides /\ "upstream" \in Sides
    BY DEF Inv, handlerVars, dialogue, Sides
  <2>2. Dialled(d)' <=> Dialled(d)
    BY <1>1, <2>1 DEF Dialled, Managed
  <2>3. Verified(d)' <=> Verified(d)
    BY <1>1, <2>1 DEF Verified, Managed
  <2>4. NameFor(d)' = NameFor(d)
    BY <2>1 DEF NameFor, FromTS, Managed
  <2> QED BY <1>1, <1>3, <2>1, <2>2, <2>3, <2>4 DEF SessionInv, Managed
<1> QED BY <1>2, <1>4 DEF Inv

\* What a client or an upstream says is read later; a timer changes nothing yet.
Said(c) == ClientSpeaks(c) \/ UpstreamAnswers(c) \/ ContextExpires(c)

LEMMA SaidInv ==
    ASSUME Inv, NEW c \in Conns, Said(c)
    PROVE  Inv'
<1>0. TypeOK /\ UNCHANGED <<pc, spliceVars, input, got, appName>>
  BY DEF Inv, Said, ClientSpeaks, UpstreamAnswers, ContextExpires, dialogue
<1>1. CASE ClientSpeaks(c)
  <2>1. said[c] + 1 \in 0..2
    BY <1>0, <1>1 DEF ClientSpeaks, TypeOK
  <2> QED BY <1>0, <1>1, <2>1, UntouchedInv DEF Inv, ClientSpeaks, TypeOK, SpliceTypeOK, spliceVars,
             ids, Untouched
<1>2. CASE UpstreamAnswers(c)
  <2>1. answer' \in [Conns -> {"none", "S", "N"}]
    BY <1>0, <1>2 DEF UpstreamAnswers, TypeOK
  <2> QED BY <1>0, <1>2, <2>1, UntouchedInv DEF Inv, UpstreamAnswers, TypeOK, SpliceTypeOK, spliceVars,
             ids, Untouched
<1>3. CASE ContextExpires(c)
  BY <1>0, <1>3, UntouchedInv DEF Inv, ContextExpires, TypeOK, SpliceTypeOK, spliceVars, dialogue,
     ids, Untouched
<1> QED BY <1>1, <1>2, <1>3 DEF Said

-----------------------------------------------------------------------------
(* serve, passthrough and managed: the types.                              *)

\* fly.go:797-815, credentials-manager.go:82: the name that the server goes by is
\* the last of the client's own, stamped unless it is a later one on passthrough.
LEMMA NameIs ==
    ASSUME NEW c \in Conns, input[c].ownNames \in Seq(SUBSET {"client's"})
    PROVE  /\ Given(c) \in SUBSET {"client's"}
           /\ Managed(c) \/ Len(input[c].ownNames) \in {0, 1}
                 => NameFor(c) = finalAppName(Given(c), FromTS(c))
           /\ NameFor(c) \in {Given(c), finalAppName(Given(c), FromTS(c))}
<1> DEFINE own == input[c].ownNames
<1>1. ASSUME own # <<>>
      PROVE  Len(own) \in Nat \ {0} /\ 1 \in DOMAIN own /\ Len(own) \in DOMAIN own
  BY <1>1
<1>2. CASE own = <<>>
  BY <1>2 DEF NameFor, Given
<1>3. CASE own # <<>> /\ Managed(c)
  BY <1>1, <1>3 DEF NameFor, Given
<1>4. CASE own # <<>> /\ ~Managed(c)
  <2>1. NameFor(c) = [own EXCEPT ![1] = finalAppName(@, FromTS(c))][Len(own)]
    BY <1>4 DEF NameFor
  <2>2. NameFor(c) = IF Len(own) = 1 THEN finalAppName(own[1], FromTS(c)) ELSE own[Len(own)]
    BY <1>1, <1>4, <2>1
  <2>3. Given(c) = own[Len(own)] /\ Given(c) \in SUBSET {"client's"}
    BY <1>1, <1>4 DEF Given
  <2>4. Len(own) \in Nat \ {0}
    BY <1>1, <1>4
  <2>5. Len(own) \in {0, 1} => Len(own) = 1
    BY <2>4
  <2> HIDE DEF own
  <2> QED BY <1>4, <2>2, <2>3, <2>5 DEF own
<1> QED BY <1>2, <1>3, <1>4

LEMMA HandlerTypeOK ==
    ASSUME Inv, NEW c \in Conns, Accept(c) \/ Handler(c)
    PROVE  TypeOK'
<1>0. TypeOK /\ SpliceTypeOK
  BY DEF Inv, TypeOK
<1> USE <1>0 DEF TypeOK, SpliceTypeOK, spliceVars, dialogue, ids
<1>a. ASSUME NEW s \in Sides, Connect(c, s)
      PROVE  /\ peer' \in [Conns -> [Sides -> PeerStates]]
             /\ open' \in [Conns -> [Sides -> BOOLEAN]]
  BY <1>a DEF Connect, PeerStates
<1>b. ASSUME NEW s \in Sides, Close(c, s) PROVE open' \in [Conns -> [Sides -> BOOLEAN]]
  BY <1>b DEF Close
<1>c. ASSUME NEW l \in Labels, Count(l) PROVE errors' \in [Labels -> Nat]
  BY <1>c DEF Count
<1>d. ASSUME NEW from, NEW to \in PcStates, Goto(c, from, to) PROVE pc' \in [Conns -> PcStates]
  BY <1>d DEF Goto
<1>e. "client" \in Sides /\ "upstream" \in Sides
  BY DEF Sides
<1>f. ASSUME NEW at, NEW l \in Labels, Fail(c, at, l) \/ FailDialled(c, at, l)
      PROVE  pc' \in [Conns -> PcStates] /\ errors' \in [Labels -> Nat]
  BY <1>f, <1>c, <1>d DEF Fail, FailDialled, PcStates
<1>g. /\ {"disallowed-source", "whois-failed", "network-error", "bad-startup",
          "client-bad-protocol", "client-tls", "upstream-bad-protocol",
          "upstream-tls", "upstream-connect"} = Labels
      /\ {"identify", "readOpening", "dial", "sslRequest", "sslAnswer", "upstreamTLS",
          "clientTLS", "startup", "readStartup", "connect", "sync", "replay", "splice",
          "closeUpstream", "closeClient", "done"} \subseteq PcStates
  BY DEF Labels, PcStates
<1>h. StartCopying(c) => copier' \in [Conns -> [Sides -> CopierStates]]
  BY DEF StartCopying, CopierStates
<1>i. NameFor(c) \in Names
  <2>1. input[c].ownNames \in Seq(SUBSET {"client's"})
    BY InputsAssumption DEF AllInputs
  <2>2. Given(c) \in SUBSET {"client's"}
    BY <2>1, NameIs
  <2>3. Given(c) \in Names /\ finalAppName(Given(c), FromTS(c)) \in Names
    BY <2>2 DEF finalAppName, Names
  <2> QED BY <2>1, <2>3, NameIs
<1>j. ASSUME NEW more \in SUBSET {"SSLRequest", "startup", "cancel", "credentials"},
             got' = [got EXCEPT ![c] = @ \cup more]
      PROVE  got' \in [Conns -> SUBSET {"SSLRequest", "startup", "cancel", "credentials"}]
  <2>1. got[c] \cup more \in SUBSET {"SSLRequest", "startup", "cancel", "credentials"}
    OBVIOUS
  <2> QED BY <1>j, <2>1
<1>k. ASSUME NEW more \in SUBSET {"S", "error", "ready"}, told' = [told EXCEPT ![c] = @ \cup more]
      PROVE  told' \in [Conns -> SUBSET {"S", "error", "ready"}]
  <2>1. told[c] \cup more \in SUBSET {"S", "error", "ready"}
    OBVIOUS
  <2> QED BY <1>k, <2>1
<1>1. CASE Accept(c)
  <2>1. clock' \in 0..MaxClock /\ lastSessionID' \in Nat
    <3>1. clock' \in clock..MaxClock /\ clock \in 0..MaxClock /\ MaxClock \in Nat
      BY <1>1, PgAssumption DEF Accept
    <3>2. clock' \in 0..MaxClock /\ clock' \in Nat
      BY <3>1
    <3>3. lastSessionID' = SessionID(clock', lastSessionID)
      BY <1>1 DEF Accept
    <3>4. lastSessionID' = clock' \/ lastSessionID' = clock' + 1
      BY <3>3 DEF SessionID
    <3> QED BY <3>2, <3>4
  <2> QED BY <1>1, <1>a, <1>d, <1>e, <1>g, <2>1 DEF Accept
<1>2. CASE IdentifyClient(c)
  BY <1>2, <1>c, <1>d, <1>f, <1>g DEF IdentifyClient
<1>3. CASE ReadOpening(c)
  <2>1. AfterOpening(c) \in PcStates
    BY <1>g DEF AfterOpening
  <2> QED BY <1>3, <1>d, <1>f, <1>g, <2>1 DEF ReadOpening
<1>4. CASE ClientTLS(c)
  BY <1>4, <1>d, <1>f, <1>g DEF ClientTLS
<1>5. CASE EndSession(c)
  BY <1>5, <1>g DEF EndSession, Await
<1>6. CASE CloseUpstream(c) \/ CloseClient(c)
  BY <1>6, <1>b, <1>d, <1>e, <1>g DEF CloseUpstream, CloseClient
<1>7. CASE Dial(c)
  BY <1>7, <1>a, <1>d, <1>e, <1>f, <1>g DEF Dial
<1>8. CASE SendSSLRequest(c)
  <2>1. got' \in [Conns -> SUBSET {"SSLRequest", "startup", "cancel", "credentials"}]
    BY <1>8, <1>j DEF SendSSLRequest
  <2>2. pc' \in [Conns -> PcStates] /\ errors' \in [Labels -> Nat]
    BY <1>8, <1>d, <1>f, <1>g DEF SendSSLRequest
  <2> QED BY <1>8, <2>1, <2>2 DEF SendSSLRequest
<1>9. CASE ReadSSLAnswer(c)
  BY <1>9, <1>d, <1>f, <1>g DEF ReadSSLAnswer
<1>10. CASE UpstreamTLS(c)
  BY <1>10, <1>d, <1>f, <1>g DEF UpstreamTLS
<1>11. CASE ForwardStartup(c)
  <2>1. copier' \in [Conns -> [Sides -> CopierStates]]
    BY <1>11, <1>h DEF ForwardStartup
  <2>2. got' \in [Conns -> SUBSET {"SSLRequest", "startup", "cancel", "credentials"}]
    BY <1>11, <1>j DEF ForwardStartup
  <2>3. appName' \in [Conns -> Names]
    BY <1>11, <1>i DEF ForwardStartup
  <2>4. pc' \in [Conns -> PcStates] /\ errors' \in [Labels -> Nat]
    BY <1>11, <1>d, <1>f, <1>g DEF ForwardStartup
  <2>5. UNCHANGED <<peer, open, sent, put, errc, input, ctxDone, said, answer, firstByte, told, ids>>
    BY <1>11 DEF ForwardStartup
  <2> QED BY <2>1, <2>2, <2>3, <2>4, <2>5
<1>12. CASE ReadStartup(c)
  BY <1>12, <1>d, <1>f, <1>g DEF ReadStartup
<1>13. CASE ConnectUpstream(c)
  <2>1. LogIn(c) \/ UNCHANGED <<got, appName>>
    BY <1>13 DEF ConnectUpstream
  <2>2. /\ got' \in [Conns -> SUBSET {"SSLRequest", "startup", "cancel", "credentials"}]
        /\ appName' \in [Conns -> Names]
    <3>1. LogIn(c) => got' \in [Conns -> SUBSET {"SSLRequest", "startup", "cancel", "credentials"}]
      BY <1>j DEF LogIn
    <3>2. LogIn(c) => appName' \in [Conns -> Names]
      BY <1>i DEF LogIn
    <3> QED BY <2>1, <3>1, <3>2
  <2>3. told' \in [Conns -> SUBSET {"S", "error", "ready"}]
    BY <1>13, <1>k DEF ConnectUpstream
  <2>4. pc' \in [Conns -> PcStates] /\ errors' \in [Labels -> Nat]
    BY <1>13, <1>d, <1>f, <1>g DEF ConnectUpstream
  <2>5. peer' \in [Conns -> [Sides -> PeerStates]] /\ open' \in [Conns -> [Sides -> BOOLEAN]]
    BY <1>13, <1>a, <1>e DEF ConnectUpstream
  <2> QED BY <1>13, <2>2, <2>3, <2>4, <2>5 DEF ConnectUpstream
<1>14. CASE SyncUpstream(c)
  BY <1>14, <1>d, <1>g DEF SyncUpstream
<1>15. CASE ReplayHandshake(c)
  <2>1. copier' \in [Conns -> [Sides -> CopierStates]]
    BY <1>15, <1>h DEF ReplayHandshake
  <2>2. told' \in [Conns -> SUBSET {"S", "error", "ready"}]
    BY <1>15, <1>k DEF ReplayHandshake
  <2>3. pc' \in [Conns -> PcStates] /\ errors' \in [Labels -> Nat]
    BY <1>15, <1>d, <1>f, <1>g DEF ReplayHandshake
  <2> QED BY <1>15, <2>1, <2>2, <2>3 DEF ReplayHandshake
<1> QED BY <1>1, <1>2, <1>3, <1>4, <1>5, <1>6, <1>7, <1>8, <1>9, <1>10, <1>11, <1>12, <1>13,
           <1>14, <1>15 DEF Handler, serve, servePassthrough, serveManaged

-----------------------------------------------------------------------------
(* serve, passthrough and managed, one case per statement.                 *)

\* pgproxy.go:161-294, credentials-manager.go:40-147: each statement keeps what
\* relates it to its sockets, its goroutines, the certificate and the name.
LEMMA HandlerSessionInv ==
    ASSUME Inv, NEW c \in Conns, Accept(c) \/ Handler(c)
    PROVE  SessionInv(c)'
<1>0. /\ TypeOK /\ SpliceTypeOK /\ SpliceInv(c) /\ SessionInv(c) /\ DOMAIN pc = Conns
      /\ Sides = {"client", "upstream"} /\ UNCHANGED input
  BY DEF Inv, TypeOK, SessionInv, Sides, Accept, Handler, serve, servePassthrough, serveManaged,
         IdentifyClient, ReadOpening, ClientTLS, EndSession, CloseUpstream, CloseClient, Dial,
         SendSSLRequest, ReadSSLAnswer, UpstreamTLS, ForwardStartup, ReadStartup,
         ConnectUpstream, SyncUpstream, ReplayHandshake
<1>n. NameFor(c)' = NameFor(c) /\ (Managed(c)' <=> Managed(c))
  BY <1>0 DEF NameFor, FromTS, Managed
\* A statement that touches no socket and starts nothing.
<1>m. ASSUME pc[c] \notin {"splice", "closeClient", "done"}, pc'[c] # "splice", UNCHANGED spliceVars,
             open[c]["client"] <=> pc'[c] \notin {"idle", "done"},
             open[c]["upstream"] <=> Dialled(c)',
             got'[c] \ {"SSLRequest"} = got[c] \ {"SSLRequest"}, UNCHANGED appName,
             pc'[c] # "idle",
             pc'[c] \in {"dial", "sslRequest", "sslAnswer", "upstreamTLS", "startup"} => ~Managed(c),
             pc'[c] \in {"readStartup", "connect", "sync", "replay"} => Managed(c),
             Copied(c) => pc'[c] \in {"closeUpstream", "closeClient", "done"},
             pc'[c] \notin {"identify", "closeClient", "done"}
                => classifyPeer(input[c].source) # "reject",
             Verified(c)' => input[c].genuine,
             pc'[c] \in {"sync", "replay"} => pc[c] \in {"sync", "replay"}
      PROVE  SessionInv(c)'
  <2>1. SpliceInv(c)'
    BY <1>0, <1>m, HandlerInv DEF EndedBy, spliceVars
  <2>2. Copied(c)' <=> Copied(c)
    BY <1>m DEF Copied, spliceVars
  <2>3. peer'[c]["upstream"] # "none" => Dialled(c)' \/ pc'[c] \in {"closeClient", "done"}
    BY <1>0, <1>m DEF SessionInv, spliceVars, Dialled
  <2> QED BY <1>0, <1>m, <1>n, <2>1, <2>2, <2>3 DEF SessionInv, spliceVars
<1>1. CASE Accept(c)
  <2>1. /\ pc[c] = "idle" /\ pc'[c] = "identify"
        /\ open'[c]["client"] /\ open'[c]["upstream"] = open[c]["upstream"]
        /\ peer'[c] = [peer[c] EXCEPT !["client"] = "up"]
        /\ UNCHANGED <<sent, put, copier, errc, got, appName>>
    BY <1>0, <1>1 DEF Accept, Goto, Connect, SpliceTypeOK, dialogue
  <2>2. peer'[c]["client"] = "up" /\ peer'[c]["upstream"] = peer[c]["upstream"]
    BY <1>0, <2>1 DEF SpliceTypeOK
  <2>3. \A s \in Sides : EndedBy(c, s) => EndedBy(c, s)'
    BY <1>0, <2>1, <2>2 DEF EndedBy, SessionInv
  <2>4. SpliceInv(c)'
    BY <1>0, <2>1, <2>3, HandlerInv
  <2> QED BY <1>0, <1>n, <2>1, <2>2, <2>4 DEF SessionInv, Copied, Dialled, Verified
<1>2. CASE IdentifyClient(c) \/ ReadOpening(c)
  <2>1. /\ pc[c] \in {"identify", "readOpening"}
        /\ \/ pc'[c] = "readOpening" /\ classifyPeer(input[c].source) # "reject"
           \/ pc'[c] = "closeClient"
           \/ /\ pc[c] = "readOpening"
              /\ \/ pc'[c] = "dial" /\ ~Managed(c)
                 \/ pc'[c] \in {"clientTLS", "readStartup"} /\ Managed(c)
        /\ UNCHANGED <<spliceVars, got, appName>>
    <3>1. CASE IdentifyClient(c)
      BY <1>0, <3>1 DEF IdentifyClient, Fail, Goto, dialogue
    <3>2. CASE ReadOpening(c)
      <4>1. pc[c] = "readOpening" /\ pc'[c] \in {"closeClient", AfterOpening(c)}
        BY <1>0, <3>2 DEF ReadOpening, Fail, Goto
      <4>2. CASE Managed(c)
        BY <1>0, <3>2, <4>1, <4>2 DEF AfterOpening, ReadOpening
      <4>3. CASE ~Managed(c)
        BY <1>0, <3>2, <4>1, <4>3 DEF AfterOpening, ReadOpening
      <4> QED BY <4>2, <4>3
    <3> QED BY <1>2, <3>1, <3>2
  <2> QED BY <1>0, <1>m, <1>n, <2>1 DEF SessionInv, Dialled, Verified, Copied, spliceVars
<1>3. CASE ClientTLS(c) \/ UpstreamTLS(c)
  <2>1. /\ \/ pc[c] = "clientTLS" /\ Managed(c) /\ pc'[c] \in {"readStartup", "closeClient"}
           \/ pc[c] = "clientTLS" /\ ~Managed(c) /\ pc'[c] \in {"startup", "closeUpstream"}
           \/ /\ pc[c] = "upstreamTLS" /\ ~Managed(c)
              /\ \/ pc'[c] \in {"clientTLS", "startup"} /\ input[c].genuine
                 \/ pc'[c] = "closeUpstream"
        /\ UNCHANGED <<spliceVars, got, appName>>
    BY <1>0, <1>3 DEF ClientTLS, UpstreamTLS, VerifiedTLS, Fail, FailDialled, Goto, dialogue, SessionInv
  <2> QED BY <1>0, <1>m, <1>n, <2>1 DEF SessionInv, Dialled, Verified, Copied, spliceVars
<1>4. CASE SendSSLRequest(c) \/ ReadSSLAnswer(c)
  <2>1. /\ pc[c] \in {"sslRequest", "sslAnswer"}
        /\ pc'[c] \in {"sslAnswer", "upstreamTLS", "closeUpstream"} /\ ~Managed(c)
        /\ got'[c] \ {"SSLRequest"} = got[c] \ {"SSLRequest"}
        /\ UNCHANGED <<spliceVars, appName>>
    BY <1>0, <1>4 DEF SendSSLRequest, ReadSSLAnswer, FailDialled, Goto, TypeOK, SessionInv
  <2> QED BY <1>0, <1>m, <1>n, <2>1 DEF SessionInv, Dialled, Verified, Copied, spliceVars
<1>5. CASE ReadStartup(c) \/ SyncUpstream(c)
  <2>1. /\ \/ pc[c] = "readStartup" /\ pc'[c] \in {"connect", "closeClient"}
           \/ pc[c] = "sync" /\ pc'[c] \in {"replay", "closeUpstream"}
        /\ Managed(c)
        /\ UNCHANGED <<spliceVars, got, appName>>
    BY <1>0, <1>5 DEF ReadStartup, SyncUpstream, Fail, Goto, dialogue, SessionInv
  <2> QED BY <1>0, <1>m, <1>n, <2>1 DEF SessionInv, Dialled, Verified, Copied, spliceVars
<1>6. CASE Dial(c)
  <2>1. CASE Goto(c, "dial", "sslRequest") /\ Connect(c, "upstream")
    <3>1. /\ pc[c] = "dial" /\ pc'[c] = "sslRequest"
          /\ open'[c]["upstream"] /\ open'[c]["client"] = open[c]["client"]
          /\ peer'[c] = [peer[c] EXCEPT !["upstream"] = "up"]
          /\ UNCHANGED <<sent, put, copier, errc, got, appName>>
      BY <1>0, <1>6, <2>1 DEF Dial, Goto, Connect, SpliceTypeOK, dialogue
    <3>2. /\ peer[c]["upstream"] = "none" /\ peer'[c]["upstream"] = "up"
          /\ peer'[c]["client"] = peer[c]["client"]
      BY <1>0, <3>1 DEF SessionInv, Dialled, SpliceTypeOK
    <3>3. \A s \in Sides : EndedBy(c, s) => EndedBy(c, s)'
      BY <1>0, <3>1, <3>2 DEF EndedBy
    <3>4. SpliceInv(c)'
      BY <1>0, <3>1, <3>3, HandlerInv
    <3> QED BY <1>0, <1>n, <3>1, <3>2, <3>4 DEF SessionInv, Copied, Dialled, Verified
  <2>2. CASE Fail(c, "dial", "network-error") /\ UNCHANGED <<peer, open>>
    <3>1. pc[c] = "dial" /\ pc'[c] = "closeClient" /\ UNCHANGED <<spliceVars, got, appName>>
      BY <1>0, <1>6, <2>2 DEF Dial, Fail, Goto, spliceVars, dialogue
    <3> QED BY <1>0, <1>m, <1>n, <3>1 DEF SessionInv, Dialled, Verified, Copied, spliceVars
  <2> QED BY <1>6, <2>1, <2>2 DEF Dial
<1>7. CASE ConnectUpstream(c)
  <2>1. pc[c] = "connect" /\ Managed(c)
    BY <1>0, <1>7 DEF ConnectUpstream, Goto, Fail, SessionInv
  <2>2. LogIn(c) => input[c].genuine /\ appName'[c] = NameFor(c)
    BY <1>0 DEF LogIn, TypeOK
  <2>3. LogIn(c) \/ UNCHANGED <<got, appName>>
    BY <1>7 DEF ConnectUpstream
  <2>4. CASE LogIn(c) /\ Goto(c, "connect", "sync") /\ Connect(c, "upstream")
    <3>1. /\ pc'[c] = "sync"
          /\ open'[c]["upstream"] /\ open'[c]["client"] = open[c]["client"]
          /\ peer'[c] = [peer[c] EXCEPT !["upstream"] = "up"]
          /\ UNCHANGED <<sent, put, copier, errc>>
      BY <1>0, <1>7, <2>4 DEF ConnectUpstream, Goto, Connect, SpliceTypeOK
    <3>2. /\ peer[c]["upstream"] = "none" /\ peer'[c]["upstream"] = "up"
          /\ peer'[c]["client"] = peer[c]["client"]
      BY <1>0, <2>1, <3>1 DEF SessionInv, Dialled, SpliceTypeOK
    <3>3. \A s \in Sides : EndedBy(c, s) => EndedBy(c, s)'
      BY <1>0, <3>1, <3>2 DEF EndedBy
    <3>4. SpliceInv(c)'
      BY <1>0, <2>1, <3>1, <3>3, HandlerInv
    <3> QED BY <1>0, <1>n, <2>1, <2>2, <2>4, <3>1, <3>2, <3>4 DEF SessionInv, Copied, Dialled, Verified
  <2>5. CASE Goto(c, "connect", "closeClient") /\ UNCHANGED <<peer, open>>
    <3>1. pc'[c] = "closeClient" /\ UNCHANGED spliceVars
      BY <1>0, <1>7, <2>5 DEF ConnectUpstream, Goto, spliceVars
    <3>2. SpliceInv(c)'
      BY <1>0, <2>1, <3>1, HandlerInv DEF EndedBy, spliceVars
    <3> QED BY <1>0, <1>n, <2>1, <2>2, <2>3, <3>1, <3>2
            DEF SessionInv, Copied, Dialled, Verified, spliceVars
  <2> QED BY <1>7, <2>4, <2>5 DEF ConnectUpstream, Fail
<1>8. CASE ForwardStartup(c) \/ ReplayHandshake(c)
  <2>1. CASE pc'[c] = "splice"
    <3>1. /\ pc[c] \in {"startup", "replay"} /\ StartCopying(c)
          /\ UNCHANGED <<peer, open, sent, put, errc>>
          /\ appName'[c] = NameFor(c) \/ input[c].startup = "cancel"
      BY <1>0, <1>8, <2>1 DEF ForwardStartup, ReplayHandshake, FailDialled, Goto, TypeOK, SessionInv
    <3>2. ~Copied(c) /\ (\A s \in Sides : open[c][s]) /\ input[c].genuine
      BY <1>0, <3>1 DEF SessionInv, Dialled, Verified, SpliceTypeOK
    <3>3. SpliceInv(c)'
      BY <1>0, <2>1, <3>1, <3>2, StartInv
    <3>4. Copied(c)'
      BY <2>1, <3>3 DEF SpliceInv, Balanced
    <3> QED BY <1>0, <1>n, <2>1, <3>1, <3>2, <3>3, <3>4 DEF SessionInv, Dialled, Verified
  <2>2. CASE pc'[c] # "splice"
    <3>1. /\ pc[c] \in {"startup", "replay"} /\ pc'[c] = "closeUpstream"
          /\ UNCHANGED <<spliceVars, got, appName>>
      BY <1>0, <1>8, <2>2 DEF ForwardStartup, ReplayHandshake, FailDialled, Goto, spliceVars
    <3> QED BY <1>0, <1>m, <1>n, <3>1 DEF SessionInv, Dialled, Verified, Copied, spliceVars
  <2> QED BY <2>1, <2>2
<1>9. CASE EndSession(c)
  <2>1. PICK result \in {"nil", "err"} : Await(c, "closeUpstream", result) /\ UNCHANGED dialogue
    BY <1>9 DEF EndSession
  <2>2. SpliceInv(c)'
    BY <1>0, <2>1, AwaitInv
  <2>3. /\ pc[c] = "splice" /\ pc'[c] = "closeUpstream"
        /\ UNCHANGED <<peer, open, put, copier, got, appName>>
    BY <1>0, <2>1 DEF Await, dialogue
  <2>4. Copied(c)
    BY <1>0, <2>3 DEF SpliceInv, Balanced
  <2> QED BY <1>0, <1>n, <2>2, <2>3, <2>4 DEF SessionInv, Copied, Dialled, Verified
<1>10. CASE CloseUpstream(c)
  <2>1. /\ pc[c] = "closeUpstream" /\ pc'[c] = "closeClient"
        /\ ~open'[c]["upstream"] /\ open'[c]["client"] = open[c]["client"]
        /\ UNCHANGED <<peer, sent, put, copier, errc, got, appName>>
    BY <1>0, <1>10 DEF CloseUpstream, Goto, Close, SpliceTypeOK, dialogue
  <2>2. SpliceInv(c)'
    BY <1>0, <2>1, HandlerInv DEF EndedBy
  <2> QED BY <1>0, <1>n, <2>1, <2>2 DEF SessionInv, Copied, Dialled, Verified
<1>11. CASE CloseClient(c)
  <2>1. /\ pc[c] = "closeClient" /\ pc'[c] = "done"
        /\ ~open'[c]["client"] /\ open'[c]["upstream"] = open[c]["upstream"]
        /\ UNCHANGED <<peer, sent, put, copier, errc, got, appName>>
    BY <1>0, <1>11 DEF CloseClient, Goto, Close, SpliceTypeOK, dialogue
  <2>2. SpliceInv(c)'
    BY <1>0, <2>1, HandlerInv DEF EndedBy
  <2> QED BY <1>0, <1>n, <2>1, <2>2 DEF SessionInv, Copied, Dialled, Verified
<1> QED BY <1>1, <1>2, <1>3, <1>4, <1>5, <1>6, <1>7, <1>8, <1>9, <1>10, <1>11
        DEF Handler, serve, servePassthrough, serveManaged

\* pgproxy.go:161: a statement of one handler keeps the whole invariant.
LEMMA HandlerStepInv ==
    ASSUME Inv, NEW c \in Conns, Accept(c) \/ Handler(c)
    PROVE  Inv'
<1>0. TypeOK /\ SpliceTypeOK
  BY DEF Inv, TypeOK
<1>1. ASSUME NEW d \in Conns, d # c PROVE Untouched(d)
  <2>1. CASE Accept(c) \/ serve(c)
    BY <1>0, <1>1, <2>1 DEF TypeOK, SpliceTypeOK, Untouched, Accept, serve, IdentifyClient,
       ReadOpening, ClientTLS, EndSession, CloseUpstream, CloseClient, Fail, FailDialled, Goto,
       Connect, Close, Await, spliceVars, dialogue
  <2>2. CASE Dial(c) \/ SendSSLRequest(c) \/ ReadSSLAnswer(c) \/ UpstreamTLS(c)
    BY <1>0, <1>1, <2>2 DEF TypeOK, SpliceTypeOK, Untouched, Dial, SendSSLRequest, ReadSSLAnswer,
       UpstreamTLS, Fail, FailDialled, Goto, Connect, spliceVars, dialogue
  <2>3. CASE ForwardStartup(c) \/ ReadStartup(c) \/ SyncUpstream(c) \/ ReplayHandshake(c)
    BY <1>0, <1>1, <2>3 DEF TypeOK, SpliceTypeOK, Untouched, ForwardStartup, ReadStartup,
       SyncUpstream, ReplayHandshake, Fail, FailDialled, Goto, StartCopying, spliceVars, dialogue
  <2>4. CASE ConnectUpstream(c)
    BY <1>0, <1>1, <2>4 DEF TypeOK, SpliceTypeOK, Untouched, ConnectUpstream, LogIn, Fail, Goto,
       Connect
  <2> QED BY <2>1, <2>2, <2>3, <2>4 DEF Handler, servePassthrough, serveManaged
<1>2. \A d \in Conns : SessionInv(d)'
  BY <1>1, UntouchedInv, HandlerSessionInv DEF Inv
<1> QED BY <1>2, HandlerTypeOK DEF Inv

\* What a step of the listener, its peers and its goroutines is.
LEMMA Steps ==
    ASSUME Next
    PROVE  \/ \E c \in Conns : Accept(c) \/ Handler(c) \/ Said(c)
           \/ /\ \E c \in Conns, s \in Sides :
                    PeerStep(c, s) \/ KeepAlive(c, s) \/ CopierStep(c, s) \/ WriteOk(c, s)
              /\ UNCHANGED handlerVars
BY DEF Next, Said, Copying, PgPeerStep, PeerStep

LEMMA InvInductive == Inv /\ [Next]_vars => Inv'
<1> SUFFICES ASSUME Inv, [Next]_vars PROVE Inv'
  OBVIOUS
<1>1. CASE UNCHANGED vars
  <2>1. \A d \in Conns : Untouched(d)
    BY <1>1 DEF vars, spliceVars, dialogue, Untouched
  <2>2. TypeOK'
    BY <1>1 DEF vars, spliceVars, dialogue, ids, Inv, TypeOK, SpliceTypeOK
  <2> QED BY <2>1, <2>2, UntouchedInv DEF Inv
<1> QED BY <1>1, Steps, CoreStepInv, SaidInv, HandlerStepInv

-----------------------------------------------------------------------------
\* pgproxy.go:161-294, credentials-manager.go:40-147: the variables keep their
\* types, and every stage of both paths agrees with its sockets and goroutines.
THEOREM Invariance == Spec => []Inv
BY InitInv, InvInductive, PTL DEF Spec

\* pgproxy.go:67-69: nothing of a client, and no credential, reaches an upstream
\* whose certificate does not verify.
THEOREM UpstreamTLSIsStrict == Spec => []StrictUpstreamTLS
<1>1. Inv => StrictUpstreamTLS
  BY DEF Inv, SessionInv, StrictUpstreamTLS, Verified
<1> QED BY <1>1, Invariance, PTL

\* fly.go:630-646,797-815, credentials-manager.go:82: the server knows a client by
\* its own name, if it gave one, and by its identity if it comes from the tailnet
\* or gave none, except on a passthrough entry for a client that gave several.
THEOREM SessionsAttributed == Spec => []AttributedSession
<1>1. Inv => AttributedSession
  <2> SUFFICES ASSUME Inv, NEW c \in Conns, Copied(c), input[c].startup = "v3"
               PROVE  /\ Given(c) \subseteq appName[c]
                      /\ input[c].source = "sixpn" /\ Given(c) # {} => appName[c] = Given(c)
                      /\ (/\ input[c].source = "tailnet" \/ Given(c) = {}
                          /\ Managed(c) \/ Len(input[c].ownNames) \in {0, 1})
                           => "identity" \in appName[c]
    BY DEF AttributedSession
  <2> DEFINE stamped == finalAppName(Given(c), FromTS(c))
  <2>1. /\ appName[c] = NameFor(c) /\ classifyPeer(input[c].source) # "reject"
        /\ input[c].ownNames \in Seq(SUBSET {"client's"})
    BY InputsAssumption DEF Inv, TypeOK, SessionInv, AllInputs
  <2>2. /\ Managed(c) \/ Len(input[c].ownNames) \in {0, 1} => appName[c] = stamped
        /\ appName[c] = Given(c) \/ appName[c] = stamped
    BY <2>1, NameIs
  <2>3. input[c].source = "tailnet" => FromTS(c)
    BY <2>1 DEF classifyPeer, FromTS
  <2>4. input[c].source = "sixpn" => ~FromTS(c)
    BY DEF classifyPeer, FromTS
  <2>5. /\ Given(c) \subseteq stamped
        /\ FromTS(c) \/ Given(c) = {} => "identity" \in stamped
        /\ ~FromTS(c) /\ Given(c) # {} => stamped = Given(c)
    BY DEF finalAppName
  <2> HIDE DEF stamped
  <2>6. Given(c) \subseteq appName[c]
    BY <2>2, <2>5
  <2>7. input[c].source = "sixpn" /\ Given(c) # {} => appName[c] = Given(c)
    BY <2>2, <2>4, <2>5
  <2>8. ASSUME input[c].source = "tailnet" \/ Given(c) = {},
               Managed(c) \/ Len(input[c].ownNames) \in {0, 1}
        PROVE  "identity" \in appName[c]
    BY <2>2, <2>3, <2>5, <2>8
  <2> QED BY <2>6, <2>7, <2>8
<1> QED BY <1>1, Invariance, PTL

\* pgproxy.go:286, credentials-manager.go:143: a session is closed only after a
\* peer ended it.
THEOREM SessionsNotCut == Spec => []CloseOnlyAfterEnd
<1>1. Inv => CloseOnlyAfterEnd
  BY CloseOnlyAfterEndFollows DEF Inv, TypeOK, SessionInv
<1> QED BY <1>1, Invariance, PTL

\* pgproxy.go:277, credentials-manager.go:134: no copying goroutine ever blocks
\* for good on errc.
THEOREM NoSenderLeaks == Spec => []SendersNeverBlock
<1>1. Inv => SendersNeverBlock
  BY SendersNeverBlockFollows DEF Inv, TypeOK, SessionInv
<1> QED BY <1>1, Invariance, PTL

-----------------------------------------------------------------------------
(* The error counters.                                                     *)

Failures == errors["disallowed-source"] + errors["network-error"] + errors["bad-startup"]
                + errors["client-bad-protocol"] + errors["client-tls"]
                + errors["upstream-bad-protocol"] + errors["upstream-tls"]
FailedSet == {c \in Conns : Failed(c)}

\* pgproxy.go:193: what one count does to the sum.
LEMMA CountSum ==
    ASSUME TypeOK, NEW l \in Labels, Count(l)
    PROVE  Failures' = IF l \in {"whois-failed", "upstream-connect"} THEN Failures
                                                                    ELSE Failures + 1
<1>1. \A k \in Labels : errors[k] \in Nat
  BY DEF TypeOK
<1>2. \A k \in Labels : errors'[k] = IF k = l THEN errors[k] + 1 ELSE errors[k]
  BY DEF TypeOK, Count
<1> QED BY <1>1, <1>2 DEF Failures, Labels

\* A return before the session starts: it is counted, and the connection failed.
LEMMA EarlyReturn ==
    ASSUME Inv, NEW c \in Conns, NEW at \in PcStates \ {"closeUpstream", "closeClient", "done", "splice"},
           NEW l \in Labels \ {"whois-failed", "upstream-connect"},
           Fail(c, at, l) \/ FailDialled(c, at, l), UNCHANGED copier
    PROVE  ~Failed(c) /\ Failed(c)' /\ Failures' = Failures + 1
<1>1. ~Copied(c) /\ ~Copied(c)' /\ pc[c] = at /\ pc'[c] \in {"closeUpstream", "closeClient"}
  BY DEF Inv, TypeOK, SessionInv, Fail, FailDialled, Goto, Copied
<1>2. Failures' = Failures + 1
  BY CountSum DEF Fail, FailDialled, Inv
<1> QED BY <1>1, <1>2 DEF Failed

\* pgproxy.go:192-251: a statement of a passthrough handler fails the connection
\* and counts it, or does neither.
LEMMA Outcome ==
    ASSUME Inv, NEW c \in Conns, ~Managed(c), Accept(c) \/ Handler(c)
    PROVE  \/ ~Failed(c) /\ Failed(c)' /\ Failures' = Failures + 1
           \/ (Failed(c)' <=> Failed(c)) /\ Failures' = Failures
<1>0. /\ TypeOK /\ SessionInv(c) /\ DOMAIN pc = Conns
      /\ Labels = {"disallowed-source", "whois-failed", "network-error", "bad-startup",
                   "client-bad-protocol", "client-tls", "upstream-bad-protocol",
                   "upstream-tls", "upstream-connect"}
      /\ {"identify", "readOpening", "dial", "sslRequest", "sslAnswer", "upstreamTLS",
          "clientTLS", "startup"} \subseteq PcStates \ {"closeUpstream", "closeClient", "done", "splice"}
  BY DEF Inv, TypeOK, Labels, PcStates
<1>1. ASSUME pc[c] \notin {"closeUpstream", "closeClient", "done"},
             pc'[c] \notin {"closeUpstream", "closeClient", "done"},
             UNCHANGED errors \/ Count("whois-failed")
      PROVE  (Failed(c)' <=> Failed(c)) /\ Failures' = Failures
  <2>1. Failures' = Failures
    BY <1>0, <1>1, CountSum DEF Failures
  <2> QED BY <1>1, <2>1 DEF Failed
<1>2. CASE Accept(c)
  BY <1>0, <1>1, <1>2 DEF Accept, Goto
<1>3. CASE IdentifyClient(c)
  BY <1>0, <1>1, <1>3, EarlyReturn DEF IdentifyClient, Goto, spliceVars
<1>4. CASE ReadOpening(c)
  <2>1. AfterOpening(c) = "dial"
    BY DEF AfterOpening
  <2> QED BY <1>0, <1>1, <1>4, <2>1, EarlyReturn DEF ReadOpening, Goto, spliceVars
<1>5. CASE Dial(c)
  BY <1>0, <1>1, <1>5, EarlyReturn DEF Dial, Goto
<1>6. CASE SendSSLRequest(c)
  BY <1>0, <1>1, <1>6, EarlyReturn DEF SendSSLRequest, Goto, spliceVars
<1>7. CASE ReadSSLAnswer(c)
  BY <1>0, <1>1, <1>7, EarlyReturn DEF ReadSSLAnswer, Goto, spliceVars
<1>8. CASE UpstreamTLS(c)
  BY <1>0, <1>1, <1>8, EarlyReturn DEF UpstreamTLS, Goto, spliceVars
<1>9. CASE ClientTLS(c)
  BY <1>0, <1>1, <1>9, EarlyReturn DEF ClientTLS, Goto, spliceVars
<1>10. CASE ForwardStartup(c)
  BY <1>0, <1>1, <1>10, EarlyReturn DEF ForwardStartup, Goto
<1>11. CASE EndSession(c)
  <2>1. pc[c] = "splice" /\ UNCHANGED <<copier, errors>>
    BY <1>11 DEF EndSession, Await
  <2>2. Copied(c) /\ Copied(c)'
    BY <1>0, <2>1 DEF SessionInv, SpliceInv, Balanced, Copied
  <2> QED BY <2>1, <2>2 DEF Failed, Failures
<1>12. CASE CloseUpstream(c) \/ CloseClient(c)
  BY <1>0, <1>12 DEF CloseUpstream, CloseClient, Goto, Failed, Failures, Copied
<1>13. ~serveManaged(c)
  BY <1>0 DEF serveManaged, ReadStartup, ConnectUpstream, SyncUpstream, ReplayHandshake, Goto,
              Fail, FailDialled, SessionInv
<1> QED BY <1>2, <1>3, <1>4, <1>5, <1>6, <1>7, <1>8, <1>9, <1>10, <1>11, <1>12, <1>13
        DEF Handler, serve, servePassthrough

\* A handler fails no connection but its own.
LEMMA OthersOutcome ==
    ASSUME Inv, NEW c \in Conns, Accept(c) \/ Handler(c), NEW d \in Conns, d # c
    PROVE  Failed(d)' <=> Failed(d)
<1>1. TypeOK /\ SpliceTypeOK
  BY DEF Inv, TypeOK
<1>2. pc'[d] = pc[d]
  BY <1>1 DEF TypeOK, Accept, Handler, serve, servePassthrough, serveManaged, IdentifyClient,
     ReadOpening, ClientTLS, EndSession, CloseUpstream, CloseClient, Dial, SendSSLRequest,
     ReadSSLAnswer, UpstreamTLS, ForwardStartup, ReadStartup, ConnectUpstream, SyncUpstream,
     ReplayHandshake, Fail, FailDialled, Goto, Await
<1>3. UNCHANGED copier \/ StartCopying(c)
  BY DEF Accept, Handler, serve, servePassthrough, serveManaged, IdentifyClient,
     ReadOpening, ClientTLS, EndSession, CloseUpstream, CloseClient, Dial, SendSSLRequest,
     ReadSSLAnswer, UpstreamTLS, ForwardStartup, ReadStartup, ConnectUpstream, SyncUpstream,
     ReplayHandshake, Await, spliceVars
<1>4. copier'[d] = copier[d]
  BY <1>1, <1>3 DEF StartCopying, SpliceTypeOK
<1> QED BY <1>2, <1>4 DEF Failed, Copied

\* pgproxy.go:192-251: every failed passthrough connection is in exactly one
\* error counter, for any finite number of connections.
THEOREM FailuresCounted == Spec => []FailureCounted
<1>0. FailureCounted <=> ((\A c \in Conns : ~Managed(c)) => Failures = Cardinality(FailedSet))
  BY DEF FailureCounted, Failures, FailedSet
<1>1. Init => FailureCounted
  <2> SUFFICES ASSUME Init PROVE Failures = Cardinality(FailedSet)
    BY <1>0
  <2>1. FailedSet = {}
    BY DEF Init, FailedSet, Failed
  <2>2. Failures = 0
    BY DEF Init, Failures, Labels
  <2> QED BY <2>1, <2>2, FS_EmptySet
<1>2. ASSUME Inv, FailureCounted, [Next]_vars PROVE FailureCounted'
  <2>1. ASSUME UNCHANGED <<input, errors, pc>>, \A d \in Conns : Copied(d)' <=> Copied(d)
        PROVE  FailureCounted'
    <3>1. FailedSet' = FailedSet
      BY <2>1 DEF FailedSet, Failed
    <3> QED BY <1>2, <2>1, <3>1 DEF FailureCounted, FailedSet, Managed
  <2>2. ASSUME NEW c \in Conns, Accept(c) \/ Handler(c), \A d \in Conns : ~Managed(d)'
        PROVE  Failures' = Cardinality(FailedSet')
    <3>1. UNCHANGED input
      BY <2>2 DEF Accept, Handler, serve, servePassthrough, serveManaged,
         IdentifyClient, ReadOpening, ClientTLS, EndSession, CloseUpstream, CloseClient, Dial,
         SendSSLRequest, ReadSSLAnswer, UpstreamTLS, ForwardStartup, ReadStartup,
         ConnectUpstream, SyncUpstream, ReplayHandshake
    <3>2. \A d \in Conns : ~Managed(d)
      BY <2>2, <3>1 DEF Managed
    <3>3. Failures = Cardinality(FailedSet) /\ IsFiniteSet(FailedSet)
      BY <1>0, <1>2, <3>2, PgAssumption, FS_Subset DEF FailedSet
    <3>4. CASE ~Failed(c) /\ Failed(c)' /\ Failures' = Failures + 1
      <4>1. FailedSet' = FailedSet \cup {c} /\ c \notin FailedSet
        BY <1>2, <2>2, <3>4, OthersOutcome DEF FailedSet
      <4> QED BY <3>3, <3>4, <4>1, FS_AddElement
    <3>5. CASE (Failed(c)' <=> Failed(c)) /\ Failures' = Failures
      <4>1. FailedSet' = FailedSet
        BY <1>2, <2>2, <3>5, OthersOutcome DEF FailedSet
      <4> QED BY <3>3, <3>5, <4>1
    <3> QED BY <1>2, <2>2, <3>2, <3>4, <3>5, Outcome
  <2>3. ASSUME NEW c \in Conns, Accept(c) \/ Handler(c) PROVE FailureCounted'
    BY <2>2, <2>3 DEF FailureCounted, Failures, FailedSet
  <2>4. ASSUME NEW c \in Conns, Said(c) PROVE FailureCounted'
    BY <2>1, <2>4 DEF Said, ClientSpeaks, UpstreamAnswers, ContextExpires, spliceVars,
                      Copied
  <2>5. ASSUME NEW c \in Conns, NEW s \in Sides, UNCHANGED handlerVars,
               PeerStep(c, s) \/ KeepAlive(c, s) \/ CopierStep(c, s) \/ WriteOk(c, s)
        PROVE  FailureCounted'
    <3>1. pc' = pc /\ \A d \in Conns : Copied(d)' <=> Copied(d)
      BY <1>2, <2>5, CoreStep DEF Inv, TypeOK, SessionInv
    <3> QED BY <2>1, <2>5, <3>1 DEF handlerVars
  <2>6. CASE UNCHANGED vars
    BY <2>1, <2>6 DEF vars, spliceVars, Copied
  <2> QED BY <1>2, <2>3, <2>4, <2>5, <2>6, Steps
<1> QED BY <1>1, <1>2, Invariance, PTL DEF Spec

-----------------------------------------------------------------------------
(* PgProxy implements Relay.                                               *)

\* pgproxy.go:70: a listener without connections is a relay without connections.
LEMMA RelayInit == Init => Promise!Init
<1> SUFFICES ASSUME Init PROVE Promise!Init
  OBVIOUS
<1>1. \A c \in Conns : PhaseOf(c) = "idle"
  BY DEF Init, PhaseOf
<1>2. sessionPhase = [c \in Conns |-> "idle"]
  BY <1>1 DEF sessionPhase
<1>3. \A c \in Conns : input[c].source \in Sources /\ input[c].genuine \in BOOLEAN
  <2>1. \A i \in Inputs : i.source \in Sources /\ i.genuine \in BOOLEAN
    BY InputsAssumption DEF AllInputs
  <2> QED BY <2>1 DEF Init
<1> QED BY <1>2, <1>3 DEF Init, SpliceInit, Promise!Init, Promise!Sides, Sides

\* A step that leaves the phase of every connection alone.
LEMMA SamePhase ==
    ASSUME \A d \in Conns : /\ pc'[d] = pc[d] \/ {pc[d], pc'[d]} \cap {"idle", "done"} = {}
                            /\ Copied(d)' <=> Copied(d)
    PROVE  sessionPhase' = sessionPhase
<1>1. \A d \in Conns : PhaseOf(d)' = PhaseOf(d)
  BY DEF PhaseOf
<1> QED BY <1>1 DEF sessionPhase

\* A step of one connection that moves its phase to new.
LEMMA NextPhase ==
    ASSUME NEW c \in Conns, NEW new, PhaseOf(c)' = new,
           \A d \in Conns : d # c => pc'[d] = pc[d] /\ (Copied(d)' <=> Copied(d))
    PROVE  sessionPhase' = [sessionPhase EXCEPT ![c] = new]
<1>1. \A d \in Conns : d # c => PhaseOf(d)' = PhaseOf(d)
  BY DEF PhaseOf
<1> QED BY <1>1 DEF sessionPhase

\* pgproxy.go:183,209, credentials-manager.go:87: what the peers do, and what
\* the kernel finds out about them, is what the peers of a relay do.
LEMMA PeerStepsRelay ==
    ASSUME Inv, NEW c \in Conns, NEW s \in Sides, PeerStep(c, s) \/ KeepAlive(c, s),
           input' = input
    PROVE  Promise!Next
<1>1. sessionPhase[c] # "closed"
  <2>1. open[c][s]
    BY DEF PeerStep, PeerSend, PeerFin, PeerReset, PeerVanish, KeepAlive, PeerBecomes
  <2>2. pc[c] # "done"
    BY <2>1 DEF Inv, SessionInv, Dialled, Sides
  <2> QED BY <2>2 DEF sessionPhase, PhaseOf
<1>2. sessionPhase' = sessionPhase
  BY SamePhase DEF PeerStep, PeerSend, PeerFin, PeerReset, PeerVanish, KeepAlive, PeerBecomes, Copied
<1>3. CASE PeerSend(c, s)
  <2>1. Promise!Send(c, s)
    BY <1>1, <1>2, <1>3 DEF PeerSend, Promise!Send
  <2> QED BY <2>1 DEF Promise!Next, Promise!Sides, Sides
<1>4. ASSUME NEW states, NEW new, PeerBecomes(c, s, states, new)
      PROVE  Promise!PeerBecomes(c, s, states, new)
  BY <1>1, <1>2, <1>4 DEF PeerBecomes, Promise!PeerBecomes
<1>5. CASE PeerFin(c, s)
  BY <1>4, <1>5 DEF PeerFin, Promise!Fin, Promise!Next, Promise!Sides, Sides
<1>6. CASE PeerVanish(c, s)
  BY <1>4, <1>6 DEF PeerVanish, Promise!Vanish, Promise!Next, Promise!Sides, Sides
<1>7. CASE PeerReset(c, s) \/ KeepAlive(c, s)
  <2>1. Promise!PeerBecomes(c, s, {"up", "fin"}, "reset")
            \/ Promise!PeerBecomes(c, s, {"gone"}, "reset")
    BY <1>4, <1>7 DEF PeerReset, KeepAlive
  <2>2. Promise!Break(c, s)
    BY <2>1 DEF Promise!PeerBecomes, Promise!Break
  <2> QED BY <2>2 DEF Promise!Next, Promise!Sides, Sides
<1> QED BY <1>3, <1>5, <1>6, <1>7 DEF PeerStep

\* pgproxy.go:278-285: a Write of io.Copy forwards a chunk, the rest of a
\* goroutine's life is no step of the relay.
LEMMA CopyingRelay ==
    ASSUME Inv, NEW c \in Conns, NEW s \in Sides, CopierStep(c, s) \/ WriteOk(c, s),
           input' = input
    PROVE  Promise!Next \/ UNCHANGED Promise!vars
<1>0. SpliceTypeOK /\ \A d \in Conns : SpliceInv(d) /\ SessionInv(d)
  BY DEF Inv, TypeOK, SessionInv
<1>1. sessionPhase' = sessionPhase
  BY <1>0, CoreStep, SamePhase
<1>2. CASE WriteOk(c, s)
  <2>1. /\ copier[c][s] = "write" /\ put[c][s] < sent[c][s] /\ Copied(c)
        /\ open[c][Other(s)]
    BY <1>0, <1>2 DEF WriteOk, CopierBecomes, SpliceInv, NothingMadeUp, Together, Copied, Sides
  <2>2. pc[c] \notin {"idle", "done"}
    BY <1>0, <2>1 DEF SessionInv, Dialled, Sides, Other
  <2>3. sessionPhase[c] = "open"
    BY <2>1, <2>2 DEF sessionPhase, PhaseOf
  <2>4. Promise!Forward(c, s)
    BY <1>1, <1>2, <2>1, <2>3 DEF WriteOk, Promise!Forward, Promise!Other, Other
  <2> QED BY <2>4 DEF Promise!Next, Promise!Sides, Sides
<1>3. CASE CopierStep(c, s)
  BY <1>1, <1>3 DEF CopierStep, CopyRead, CopyReadEnd, WriteErr, Post, Promise!vars
<1> QED BY <1>2, <1>3

\* pgproxy.go:209, credentials-manager.go:87: a connection to an upstream is
\* dialled once, and for a trusted client.
LEMMA DialRelay ==
    ASSUME Inv, NEW c \in Conns, pc[c] \in {"dial", "connect"},
           pc' = [pc EXCEPT ![c] = IF Managed(c) THEN "sync" ELSE "sslRequest"],
           peer' = [peer EXCEPT ![c]["upstream"] = "up"],
           UNCHANGED <<sent, put, copier, input>>
    PROVE  Promise!Next
<1>0. /\ SessionInv(c) /\ DOMAIN pc = Conns /\ input[c].source \in Sources
  BY InputsAssumption DEF Inv, TypeOK, AllInputs
<1>1. ~Copied(c) /\ peer[c]["upstream"] = "none" /\ classifyPeer(input[c].source) # "reject"
  BY <1>0 DEF SessionInv, Dialled
<1>2. input[c].source \in TrustedSources
  BY <1>0, <1>1 DEF classifyPeer, TrustedSources, Sources
<1>3. sessionPhase' = sessionPhase
  BY <1>0, SamePhase DEF Copied
<1>4. sessionPhase[c] = "new"
  BY <1>1 DEF sessionPhase, PhaseOf
<1>5. Promise!Dial(c)
  BY <1>1, <1>2, <1>3, <1>4 DEF Promise!Dial, Promise!Dials
<1> QED BY <1>5 DEF Promise!Next

\* pgproxy.go:271-284, credentials-manager.go:128-141: the session opens to an
\* upstream that was dialled and verified.
LEMMA OpenRelay ==
    ASSUME Inv, NEW c \in Conns, pc[c] \in {"startup", "replay"},
           pc' = [pc EXCEPT ![c] = "splice"], StartCopying(c),
           UNCHANGED <<peer, sent, put, input>>
    PROVE  Promise!Next
<1>0. SpliceTypeOK /\ SpliceInv(c) /\ SessionInv(c) /\ DOMAIN pc = Conns
  BY DEF Inv, TypeOK, SessionInv
<1>1. ~Copied(c) /\ peer[c]["upstream"] # "none" /\ input[c].genuine
  BY <1>0 DEF SessionInv, Dialled, Verified
<1>2. Copied(c)' /\ \A d \in Conns : d # c => (Copied(d)' <=> Copied(d))
  BY <1>0 DEF StartCopying, SpliceTypeOK, Copied, Sides
<1>3. sessionPhase' = [sessionPhase EXCEPT ![c] = "open"]
  BY <1>0, <1>2, NextPhase DEF PhaseOf
<1>4. sessionPhase[c] = "new"
  BY <1>1 DEF sessionPhase, PhaseOf
<1>5. Promise!Open(c)
  BY <1>1, <1>3, <1>4 DEF Promise!Open, Promise!Becomes
<1> QED BY <1>5 DEF Promise!Next

\* pgproxy.go:124-139,161-294, credentials-manager.go:40-147: the last deferred
\* call refuses or closes; besides dialling and starting to copy, the other
\* statements of serve are no step of the relay.
LEMMA HandlerRelay ==
    ASSUME Inv, NEW c \in Conns, Accept(c) \/ Handler(c)
    PROVE  Promise!Next \/ UNCHANGED Promise!vars
<1>0. /\ SpliceTypeOK /\ SpliceInv(c) /\ SessionInv(c) /\ DOMAIN pc = Conns
  BY DEF Inv, TypeOK, SessionInv
<1>1. ASSUME pc[c] \notin {"idle", "done"}, pc'[c] \notin {"idle", "done"},
             \A d \in Conns : d # c => pc'[d] = pc[d],
             UNCHANGED <<peer, sent, put, copier, input>>
      PROVE  UNCHANGED Promise!vars
  BY <1>1, SamePhase DEF Promise!vars, Copied
<1>2. CASE Accept(c)
  <2>1. /\ pc' = [pc EXCEPT ![c] = "identify"] /\ pc[c] = "idle"
        /\ peer' = [peer EXCEPT ![c]["client"] = "up"]
        /\ UNCHANGED <<sent, put, copier, input>>
    BY <1>2 DEF Accept, Goto, Connect
  <2>2. ~Copied(c)' /\ sessionPhase[c] = "idle"
    BY <1>0, <2>1 DEF SessionInv, Copied, sessionPhase, PhaseOf
  <2>3. sessionPhase' = [sessionPhase EXCEPT ![c] = "new"]
    BY <1>0, <2>1, <2>2, NextPhase DEF PhaseOf, Copied
  <2>4. Promise!Arrive(c)
    BY <2>1, <2>2, <2>3 DEF Promise!Arrive, Promise!Becomes
  <2> QED BY <2>4 DEF Promise!Next
<1>3. CASE CloseClient(c)
  <2>1. /\ pc' = [pc EXCEPT ![c] = "done"] /\ pc[c] = "closeClient"
        /\ UNCHANGED <<peer, sent, put, copier, input>>
    BY <1>3 DEF CloseClient, Goto, dialogue
  <2>2. sessionPhase' = [sessionPhase EXCEPT ![c] = "closed"]
    BY <1>0, <2>1, NextPhase DEF PhaseOf, Copied
  <2>3. CASE ~Copied(c)
    <3>1. sessionPhase[c] = "new"
      BY <2>1, <2>3 DEF sessionPhase, PhaseOf
    <3>2. Promise!Refuse(c)
      BY <2>1, <2>2, <3>1 DEF Promise!Refuse, Promise!Becomes
    <3> QED BY <3>2 DEF Promise!Next
  <2>4. CASE Copied(c)
    <3>1. sessionPhase[c] = "open"
      BY <2>1, <2>4 DEF sessionPhase, PhaseOf
    <3>2. ~open[c]["upstream"]
      BY <1>0, <2>1 DEF SessionInv, Dialled
    <3>3. \E s \in Sides : EndedBy(c, s)
      BY <1>0, <2>4, <3>2, ClosedForAReason DEF Sides
    <3>4. Promise!Close(c)
      BY <2>1, <2>2, <3>1, <3>3
         DEF Promise!Close, Promise!Becomes, Promise!EndedBy, EndedBy, Promise!Sides, Sides
    <3> QED BY <3>4 DEF Promise!Next
  <2> QED BY <2>3, <2>4
<1>4. CASE IdentifyClient(c) \/ ReadOpening(c) \/ ClientTLS(c) \/ UpstreamTLS(c)
              \/ SendSSLRequest(c) \/ ReadSSLAnswer(c) \/ ReadStartup(c) \/ SyncUpstream(c)
  <2>1. CASE ReadOpening(c)
    <3>1. AfterOpening(c) \notin {"idle", "done"}
      BY DEF AfterOpening
    <3> QED BY <1>0, <1>1, <2>1, <3>1 DEF ReadOpening, Fail, Goto, spliceVars
  <2> QED BY <1>0, <1>1, <1>4, <2>1 DEF IdentifyClient, ClientTLS, UpstreamTLS, SendSSLRequest,
             ReadSSLAnswer, ReadStartup, SyncUpstream, Fail, FailDialled, Goto, spliceVars
<1>5. CASE EndSession(c) \/ CloseUpstream(c)
  BY <1>0, <1>1, <1>5 DEF EndSession, Await, CloseUpstream, Goto
<1>6. CASE Dial(c) \/ ConnectUpstream(c)
  <2>1. /\ pc[c] \in {"dial", "connect"} /\ UNCHANGED <<sent, put, copier, input>>
        /\ Managed(c) <=> pc[c] = "connect"
    BY <1>0, <1>6 DEF Dial, ConnectUpstream, Goto, Fail, SessionInv
  <2>2. CASE Connect(c, "upstream") /\ pc' = [pc EXCEPT ![c] = IF Managed(c) THEN "sync" ELSE "sslRequest"]
    BY <2>1, <2>2, DialRelay DEF Connect
  <2>3. CASE pc' = [pc EXCEPT ![c] = "closeClient"] /\ UNCHANGED peer
    BY <1>0, <1>1, <2>1, <2>3
  <2> QED BY <1>6, <2>1, <2>2, <2>3 DEF Dial, ConnectUpstream, Goto, Fail
<1>7. CASE ForwardStartup(c) \/ ReplayHandshake(c)
  <2>1. pc[c] \in {"startup", "replay"} /\ UNCHANGED <<peer, sent, put, input>>
    BY <1>7 DEF ForwardStartup, ReplayHandshake, FailDialled, Goto
  <2>2. CASE pc' = [pc EXCEPT ![c] = "splice"] /\ StartCopying(c)
    BY <2>1, <2>2, OpenRelay
  <2>3. CASE pc' = [pc EXCEPT ![c] = "closeUpstream"] /\ UNCHANGED copier
    BY <1>0, <1>1, <2>1, <2>3
  <2> QED BY <1>7, <2>2, <2>3 DEF ForwardStartup, ReplayHandshake, FailDialled, Goto
<1> QED BY <1>2, <1>3, <1>4, <1>5, <1>6, <1>7 DEF Handler, serve, servePassthrough, serveManaged

\* pgproxy.go:161-294, credentials-manager.go:40-147: both paths implement the
\* relay, with a handshake on both sides, for every set of connections.
THEOREM RelayImplemented == Spec => ImplementsRelay
<1>1. ASSUME Inv, [Next]_vars PROVE [Promise!Next]_(Promise!vars)
  <2>1. CASE UNCHANGED vars
    <3>1. sessionPhase' = sessionPhase
      BY <2>1, SamePhase DEF vars, spliceVars, Copied
    <3> QED BY <2>1, <3>1 DEF vars, spliceVars, Promise!vars
  <2>2. ASSUME NEW c \in Conns, Said(c) PROVE UNCHANGED Promise!vars
    <3>1. UNCHANGED <<pc, spliceVars, input>>
      BY <2>2 DEF Said, ClientSpeaks, UpstreamAnswers, ContextExpires
    <3>2. sessionPhase' = sessionPhase
      BY <3>1, SamePhase DEF spliceVars, Copied
    <3> QED BY <3>1, <3>2 DEF spliceVars, Promise!vars
  <2>3. ASSUME NEW c \in Conns, NEW s \in Sides, UNCHANGED handlerVars,
               PeerStep(c, s) \/ KeepAlive(c, s) \/ CopierStep(c, s) \/ WriteOk(c, s)
        PROVE  [Promise!Next]_(Promise!vars)
    BY <1>1, <2>3, PeerStepsRelay, CopyingRelay DEF handlerVars
  <2> QED BY <1>1, <2>1, <2>2, <2>3, HandlerRelay, Steps
<1> QED BY <1>1, RelayInit, Invariance, PTL DEF Spec, ImplementsRelay, Promise!Spec
=============================================================================
