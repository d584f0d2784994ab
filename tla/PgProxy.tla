------------------------------- MODULE PgProxy -------------------------------
(***************************************************************************)
(* pgproxy.go and credentials-manager.go: one Postgres listener.  serve    *)
(* runs once per accepted connection; a managed database has configured    *)
(* credentials (serveManaged), any other is passed through.  pc[c] is the  *)
(* next thing the handler of c does:                                       *)
(*   identify     identifyClient                                           *)
(*   readOpening  the first 8 bytes of the client                          *)
(*   dial, sslRequest, sslAnswer, upstreamTLS, clientTLS, startup          *)
(*                passthrough, in this order (startup is forwardStartup)   *)
(*   clientTLS, readStartup, connect, sync, replay                         *)
(*                managed, in this order                                   *)
(*   splice       <-errc                                                   *)
(*   closeUpstream, closeClient   the deferred calls                       *)
(* Splice counts the chunks of the session proper; what the handshake      *)
(* moves is kept in got (by the upstream) and told (to the client).        *)
(***************************************************************************)
EXTENDS Splice, Peer, Integers, FiniteSets

CONSTANTS Inputs,    \* the databases, clients and upstreams considered, see AllInputs
          MaxClock   \* bound: readings of the clock

ASSUME PgAssumption == MaxClock \in Nat \ {0} /\ IsFiniteSet(Conns)

\* The StartupMessage is a v3 one, or a CancelRequest, or it does not parse.  A
\* plaintext opening carries the first 8 bytes of a v3 startup, so it is never a
\* CancelRequest.  A v3 startup has any number of application_names, in order; a
\* name is the set of its parts, and the client's own may be blank.
AllInputs == [managed : BOOLEAN,   \* upstreamConfig.managed() of the listener
              source : Sources,
              genuine : BOOLEAN,   \* the upstream's certificate verifies
              opening : {"ssl", "plain", "other"},
              startup : {"v3", "cancel", "malformed"},
              ownNames : Seq(SUBSET {"client's"})]

ASSUME InputsAssumption == /\ Inputs \subseteq AllInputs
                           /\ \A i \in Inputs : i.opening = "plain" => i.startup # "cancel"

VARIABLES input,     \* who connects and to what
          said,      \* messages the client has sent: 0, 1 opening, 2 startup
          answer,    \* the upstream's answer to SSLRequest
          firstByte, \* buf[0] of serve: the client's, or overwritten
          ctxDone,   \* the 30 s context of serve has expired
          got,       \* what the upstream has been sent before the splice
          told,      \* what the client has been sent before the splice
          appName,   \* application_name as the upstream received it
          clock, lastSessionID, sessionID,   \* the clock when it was last read, the ids
          errors     \* the proxy's error counters

dialogue == <<said, answer, firstByte, got, told, appName>>
ids == <<clock, lastSessionID, sessionID>>
vars == <<pc, spliceVars, input, ctxDone, dialogue, ids, errors>>

Labels == {"disallowed-source", "whois-failed", "network-error", "bad-startup",
           "client-bad-protocol", "client-tls", "upstream-bad-protocol",
           "upstream-tls", "upstream-connect"}
PcStates == {"idle", "identify", "readOpening", "dial", "sslRequest", "sslAnswer",
             "upstreamTLS", "clientTLS", "startup", "readStartup", "connect",
             "sync", "replay", "splice", "closeUpstream", "closeClient", "done"}

\* What an upstream may get for an application_name.
Names == SUBSET {"client's", "identity"}

TypeOK ==
    /\ SpliceTypeOK
    /\ pc \in [Conns -> PcStates]
    /\ input \in [Conns -> Inputs]
    /\ said \in [Conns -> 0..2]
    /\ answer \in [Conns -> {"none", "S", "N"}]
    /\ firstByte \in [Conns -> {"unread", "client's", "upstream's"}]
    /\ ctxDone \in [Conns -> BOOLEAN]
    /\ got \in [Conns -> SUBSET {"SSLRequest", "startup", "cancel", "credentials"}]
    /\ told \in [Conns -> SUBSET {"S", "error", "ready"}]
    /\ appName \in [Conns -> Names]
    /\ clock \in 0..MaxClock
    /\ lastSessionID \in Nat
    /\ sessionID \in [Conns -> Nat]
    /\ errors \in [Labels -> Nat]

Managed(c) == input[c].managed

Init ==
    /\ SpliceInit
    /\ pc = [c \in Conns |-> "idle"]
    /\ input \in [Conns -> Inputs]
    /\ \A c, d \in Conns : Managed(c) = Managed(d)
    /\ said = [c \in Conns |-> 0]
    /\ answer = [c \in Conns |-> "none"]
    /\ firstByte = [c \in Conns |-> "unread"]
    /\ ctxDone = [c \in Conns |-> FALSE]
    /\ got = [c \in Conns |-> {}]
    /\ told = [c \in Conns |-> {}]
    /\ appName = [c \in Conns |-> {}]
    /\ clock = 1 /\ lastSessionID = 0
    /\ sessionID = [c \in Conns |-> 0]
    /\ errors = [l \in Labels |-> 0]

Goto(c, from, to) == pc[c] = from /\ pc' = [pc EXCEPT ![c] = to]
Count(label) == errors' = [errors EXCEPT ![label] = @ + 1]
Fail(c, at, label) == Goto(c, at, "closeClient") /\ Count(label)
FailDialledSilently(c, at, label) ==   \* variant: the return is not counted
    Goto(c, at, "closeUpstream") /\ UNCHANGED errors
FailDialled(c, at, label) == Goto(c, at, "closeUpstream") /\ Count(label)

Ended(c, s) == peer[c][s] \in {"fin", "reset"}

-----------------------------------------------------------------------------
(* Clients, upstreams, and the context.                                    *)

ClientSpeaks(c) ==
    /\ open[c]["client"] /\ peer[c]["client"] = "up"
    /\ \/ said[c] = 0
       \/ said[c] = 1 /\ (input[c].opening = "plain" \/ pc[c] \in {"startup", "readStartup"})
    /\ said' = [said EXCEPT ![c] = @ + 1]
    /\ UNCHANGED <<pc, spliceVars, input, ctxDone, answer, firstByte, got, told, appName, ids, errors>>

UpstreamAnswers(c) ==
    /\ open[c]["upstream"] /\ peer[c]["upstream"] = "up"
    /\ "SSLRequest" \in got[c] /\ answer[c] = "none"
    /\ answer' \in {[answer EXCEPT ![c] = a] : a \in {"S", "N"}}
    /\ UNCHANGED <<pc, spliceVars, input, ctxDone, said, firstByte, got, told, appName, ids, errors>>

\* Session bytes follow the handshake.  What a managed upstream sends before
\* the connection is synced is read by pgconn and is no part of the session.
MaySend(c, s) == CASE s = "client"        -> said[c] = 2
                   [] s = "upstream"      -> /\ got[c] \ {"SSLRequest"} # {}
                                             /\ pc[c] \notin {"connect", "sync"}

PgPeerStep(c, s) ==
    \/ MaySend(c, s) /\ PeerSend(c, s)
    \/ PeerFin(c, s) \/ PeerReset(c, s) \/ PeerVanish(c, s) \/ KeepAlive(c, s)

ContextExpires(c) ==
    /\ pc[c] \notin {"idle", "done"}
    /\ ~ctxDone[c]
    /\ ctxDone' = [ctxDone EXCEPT ![c] = TRUE]
    /\ UNCHANGED <<pc, spliceVars, input, dialogue, ids, errors>>

-----------------------------------------------------------------------------
(* Serve, and what both kinds of database have in common.                  *)

SessionIDPlain(now, last) == now         \* variant: the clock reading as it is
SessionID(now, last) == IF now = last THEN now + 1 ELSE now

Accept(c) ==
    /\ Goto(c, "idle", "identify")
    /\ Connect(c, "client")
    /\ clock' \in clock..MaxClock               \* time.Now
    /\ lastSessionID' = SessionID(clock', lastSessionID)
    /\ sessionID' = [sessionID EXCEPT ![c] = lastSessionID']
    /\ UNCHANGED <<sent, put, copier, errc, input, ctxDone, dialogue, errors>>

\* Lookups of the identity are bounded by 500 ms and fall back to a label.
IdentifyClient(c) ==
    /\ LET kind == classifyPeer(input[c].source)
       IN \/ kind = "reject" /\ Fail(c, "identify", "disallowed-source")
          \/ kind # "reject" /\ Goto(c, "identify", "readOpening") /\ UNCHANGED errors
          \/ kind = "tailscale" /\ Goto(c, "identify", "readOpening") /\ Count("whois-failed")
    /\ UNCHANGED <<spliceVars, input, ctxDone, dialogue, ids>>

\* Reading from a peer fails when it ended before it said what is read, and
\* may fail when its connection broke after it did.
ReadFailed(c, s, hasSaid) == peer[c][s] = "reset" \/ (peer[c][s] = "fin" /\ ~hasSaid)

AfterOpening(c) ==
    CASE ~Managed(c)                                -> "dial"
      [] Managed(c) /\ input[c].opening = "ssl"     -> "clientTLS"
      [] Managed(c) /\ input[c].opening # "ssl"     -> "readStartup"

ReadOpening(c) ==
    /\ \/ /\ said[c] > 0 /\ input[c].opening # "other"
          /\ Goto(c, "readOpening", AfterOpening(c))
          /\ firstByte' = [firstByte EXCEPT ![c] = "client's"]
          /\ UNCHANGED errors
       \/ /\ said[c] > 0 /\ input[c].opening = "other"
          /\ Fail(c, "readOpening", "client-bad-protocol")
          /\ UNCHANGED firstByte
       \/ /\ ReadFailed(c, "client", said[c] > 0)
          /\ Fail(c, "readOpening", "network-error")
          /\ UNCHANGED firstByte
    /\ UNCHANGED <<spliceVars, input, ctxDone, said, answer, got, told, appName, ids>>

\* Server side of TLS, with a self-signed certificate, under the context.
ClientTLS(c) ==
    /\ \/ /\ peer[c]["client"] = "up" /\ ~ctxDone[c]
          /\ Goto(c, "clientTLS", IF Managed(c) THEN "readStartup" ELSE "startup")
          /\ UNCHANGED errors
       \/ /\ Ended(c, "client") \/ ctxDone[c]
          /\ IF Managed(c) THEN Fail(c, "clientTLS", "client-tls")
                        ELSE FailDialled(c, "clientTLS", "client-tls")
    /\ UNCHANGED <<spliceVars, input, ctxDone, dialogue, ids>>

finalAppNameFill(own, fromTS) ==          \* variant: fill in, never append
    IF own = {} THEN {"identity"} ELSE own
\* The identity is never empty here: identifyClient falls back to a label.
finalAppName(own, fromTS) ==
    IF fromTS \/ own = {} THEN own \cup {"identity"} ELSE own

\* The application_name that the server goes by after a v3 startup of c: of
\* several the last.  serveManaged reads the last as well, rewriteStartup stamps
\* the first.
FromTS(c) == classifyPeer(input[c].source) = "tailscale"
NameFor(c) ==
    LET own == input[c].ownNames
    IN CASE own = <<>>                -> finalAppName({}, FromTS(c))
         [] own # <<>> /\ Managed(c)  -> finalAppName(own[Len(own)], FromTS(c))
         [] own # <<>> /\ ~Managed(c) ->
                [own EXCEPT ![1] = finalAppName(@, FromTS(c))][Len(own)]

EndSession(c) ==
    /\ \E result \in {"nil", "err"} : Await(c, "closeUpstream", result)
    /\ UNCHANGED <<input, ctxDone, dialogue, ids, errors>>

CloseUpstreamNever(c) ==      \* variant: no defer upc.Close()
    /\ Goto(c, "closeUpstream", "closeClient")
    /\ UNCHANGED <<spliceVars, input, ctxDone, dialogue, ids, errors>>
CloseUpstream(c) ==
    /\ Goto(c, "closeUpstream", "closeClient")
    /\ Close(c, "upstream")
    /\ UNCHANGED <<peer, sent, put, copier, errc, input, ctxDone, dialogue, ids, errors>>

CloseClient(c) ==
    /\ Goto(c, "closeClient", "done")
    /\ Close(c, "client")
    /\ UNCHANGED <<peer, sent, put, copier, errc, input, ctxDone, dialogue, ids, errors>>

-----------------------------------------------------------------------------
(* Passthrough: serve.                                                     *)

Dial(c) ==
    /\ \/ /\ Goto(c, "dial", "sslRequest")
          /\ Connect(c, "upstream")
          /\ UNCHANGED errors
       \/ /\ Fail(c, "dial", "network-error")
          /\ UNCHANGED <<peer, open>>
    /\ UNCHANGED <<sent, put, copier, errc, input, ctxDone, dialogue, ids>>

SendSSLRequest(c) ==
    /\ \/ /\ peer[c]["upstream"] # "reset"
          /\ Goto(c, "sslRequest", "sslAnswer")
          /\ got' = [got EXCEPT ![c] = @ \cup {"SSLRequest"}]
          /\ UNCHANGED errors
       \/ /\ peer[c]["upstream"] = "reset"
          /\ FailDialled(c, "sslRequest", "network-error")
          /\ UNCHANGED got
    /\ UNCHANGED <<spliceVars, input, ctxDone, said, answer, firstByte, told, appName, ids>>

\* The answer is read into buf[:1], over the first byte of the client's
\* opening.  There is no deadline on this read.
ReadSSLAnswer(c) ==
    /\ \/ /\ answer[c] = "S"
          /\ Goto(c, "sslAnswer", "upstreamTLS")
          /\ firstByte' = [firstByte EXCEPT ![c] = "upstream's"]
          /\ UNCHANGED errors
       \/ /\ answer[c] = "N"
          /\ FailDialled(c, "sslAnswer", "upstream-bad-protocol")
          /\ firstByte' = [firstByte EXCEPT ![c] = "upstream's"]
       \/ /\ ReadFailed(c, "upstream", answer[c] # "none")
          /\ FailDialled(c, "sslAnswer", "network-error")
          /\ UNCHANGED firstByte
    /\ UNCHANGED <<spliceVars, input, ctxDone, said, answer, got, told, appName, ids>>

UnverifiedTLS(c) ==                       \* variant: InsecureSkipVerify
    peer[c]["upstream"] = "up" /\ ~ctxDone[c]
VerifiedTLS(c) == input[c].genuine /\ peer[c]["upstream"] = "up" /\ ~ctxDone[c]

UpstreamTLS(c) ==
    /\ \/ /\ VerifiedTLS(c)
          /\ Goto(c, "upstreamTLS", IF input[c].opening = "ssl" THEN "clientTLS" ELSE "startup")
          /\ UNCHANGED errors
       \/ /\ ~input[c].genuine \/ Ended(c, "upstream") \/ ctxDone[c]
          /\ FailDialled(c, "upstreamTLS", "upstream-tls")
    /\ UNCHANGED <<spliceVars, input, ctxDone, dialogue, ids>>

\* A plaintext client's startup is put together from buf and the bytes that
\* follow it: its length field makes sense only if buf is what the client sent.
StartupIntact(c) == input[c].opening = "plain" => firstByte[c] = "client's"

ForwardStartup(c) ==
    /\ \/ /\ \/ ~StartupIntact(c)
             \/ said[c] = 2 /\ input[c].startup = "malformed"
             \/ ReadFailed(c, "client", said[c] = 2)
          /\ FailDialled(c, "startup", "bad-startup")
          /\ UNCHANGED <<copier, got, appName>>
       \/ /\ StartupIntact(c) /\ said[c] = 2 /\ input[c].startup # "malformed"
          /\ peer[c]["upstream"] = "reset"
          /\ FailDialled(c, "startup", "network-error")
          /\ UNCHANGED <<copier, got, appName>>
       \/ /\ StartupIntact(c) /\ said[c] = 2 /\ input[c].startup # "malformed"
          /\ peer[c]["upstream"] # "reset"
          /\ Goto(c, "startup", "splice")
          /\ StartCopying(c)
          /\ IF input[c].startup = "cancel"       \* not v3: sent on as it is
             THEN /\ got' = [got EXCEPT ![c] = @ \cup {"cancel"}]
                  /\ UNCHANGED appName
             ELSE /\ got' = [got EXCEPT ![c] = @ \cup {"startup"}]
                  /\ appName' = [appName EXCEPT ![c] = NameFor(c)]
          /\ UNCHANGED errors
    /\ UNCHANGED <<peer, open, sent, put, errc, input, ctxDone, said, answer, firstByte, told, ids>>

-----------------------------------------------------------------------------
(* Managed: serveManaged.  pgconn (external) connects over verified TLS,   *)
(* logs in with the configured credentials, syncs and gives up its socket. *)

ReadStartup(c) ==
    /\ \/ /\ said[c] = 2 /\ input[c].startup = "v3"
          /\ Goto(c, "readStartup", "connect")
          /\ UNCHANGED errors
       \/ /\ \/ said[c] = 2 /\ input[c].startup \in {"cancel", "malformed"}
             \/ ReadFailed(c, "client", said[c] = 2)
          /\ Fail(c, "readStartup", "bad-startup")
    /\ UNCHANGED <<spliceVars, input, ctxDone, dialogue, ids>>

\* A login needs the verified upstream.  It may fail before the credentials
\* are sent (refused, certificate, deadline) or after (rejected).  ParseConfig
\* may refuse the address before that: this return neither counts nor tells.
LogIn(c) == /\ input[c].genuine /\ ~ctxDone[c]
            /\ got' = [got EXCEPT ![c] = @ \cup {"startup", "credentials"}]
            /\ appName' = [appName EXCEPT ![c] = NameFor(c)]

ConnectUpstream(c) ==
    /\ \/ /\ LogIn(c)
          /\ Goto(c, "connect", "sync")
          /\ Connect(c, "upstream")
          /\ UNCHANGED <<told, errors>>
       \/ /\ LogIn(c) \/ UNCHANGED <<got, appName>>
          /\ Fail(c, "connect", "upstream-connect")
          /\ told' = [told EXCEPT ![c] = @ \cup {"error"}]
          /\ UNCHANGED <<peer, open>>
       \/ /\ Goto(c, "connect", "closeClient")
          /\ UNCHANGED <<peer, open, got, appName, told, errors>>
    /\ UNCHANGED <<sent, put, copier, errc, input, ctxDone, said, answer, firstByte, ids>>

\* A failure of SyncConn closes the upstream and returns: nothing is counted,
\* the client is told nothing.  Hijack fails only on a busy connection, which
\* a synced one is not.
SyncUpstream(c) ==
    /\ \/ /\ peer[c]["upstream"] = "up" /\ ~ctxDone[c]
          /\ Goto(c, "sync", "replay")
       \/ /\ Ended(c, "upstream") \/ ctxDone[c]
          /\ Goto(c, "sync", "closeUpstream")
    /\ UNCHANGED <<spliceVars, input, ctxDone, dialogue, ids, errors>>

ReplayHandshake(c) ==
    /\ \/ /\ peer[c]["client"] # "reset"
          /\ Goto(c, "replay", "splice")
          /\ StartCopying(c)
          /\ told' = [told EXCEPT ![c] = @ \cup {"ready"}]
          /\ UNCHANGED errors
       \/ /\ peer[c]["client"] = "reset"
          /\ FailDialled(c, "replay", "network-error")
          /\ UNCHANGED <<copier, told>>
    /\ UNCHANGED <<peer, open, sent, put, errc, input, ctxDone, said, answer, firstByte, got, appName, ids>>

-----------------------------------------------------------------------------
serve(c) == \/ IdentifyClient(c) \/ ReadOpening(c) \/ ClientTLS(c)
            \/ EndSession(c) \/ CloseUpstream(c) \/ CloseClient(c)
servePassthrough(c) == \/ Dial(c) \/ SendSSLRequest(c) \/ ReadSSLAnswer(c)
                       \/ UpstreamTLS(c) \/ ForwardStartup(c)
serveManaged(c) == \/ ReadStartup(c) \/ ConnectUpstream(c) \/ SyncUpstream(c)
                   \/ ReplayHandshake(c)
Handler(c) == serve(c) \/ servePassthrough(c) \/ serveManaged(c)

handlerVars == <<input, ctxDone, dialogue, ids, errors>>

Next ==
    \/ \E c \in Conns : \/ Accept(c) \/ Handler(c)
                        \/ ClientSpeaks(c) \/ UpstreamAnswers(c) \/ ContextExpires(c)
    \/ /\ \/ Copying
          \/ \E c \in Conns, s \in Sides : PgPeerStep(c, s)
       /\ UNCHANGED handlerVars

Spec == Init /\ [][Next]_vars

(* Fairness: goroutines run, timers fire, the kernel notices a vanished    *)
(* peer.  Peers owe nothing.                                               *)
FairSpec ==
    /\ Spec
    /\ \A c \in Conns : WF_vars(Handler(c)) /\ WF_vars(ContextExpires(c))
    /\ \A c \in Conns, s \in Sides :
          /\ WF_vars(CopierStep(c, s) /\ UNCHANGED handlerVars)
          /\ WF_vars(KeepAlive(c, s) /\ UNCHANGED handlerVars)

\* Peers read what they are sent, and an upstream answers the SSLRequest: serve
\* reads that answer without a deadline.
PeersAnswer ==
    /\ \A c \in Conns : WF_vars(UpstreamAnswers(c))
    /\ \A c \in Conns, s \in Sides : WF_vars(WriteOk(c, s) /\ UNCHANGED handlerVars)

-----------------------------------------------------------------------------
(* Properties.                                                             *)

Dialled(c) ==
    \/ pc[c] \in {"sslRequest", "sslAnswer", "upstreamTLS", "startup", "sync", "replay",
                  "splice", "closeUpstream"}
    \/ pc[c] = "clientTLS" /\ ~Managed(c)
Verified(c) ==
    \/ pc[c] \in {"startup", "sync", "replay"} \/ Copied(c)
    \/ pc[c] = "clientTLS" /\ ~Managed(c)

\* pgproxy.go:161-294, credentials-manager.go:40-147: the inductive invariant,
\* the session core's and, for each stage of either path, which sockets are
\* open, what was verified, and what the upstream has been told.
SessionInv(c) ==
    /\ SpliceInv(c)
    /\ pc[c] \in {"dial", "sslRequest", "sslAnswer", "upstreamTLS", "startup"} => ~Managed(c)
    /\ pc[c] \in {"readStartup", "connect", "sync", "replay"} => Managed(c)
    /\ open[c]["client"] <=> pc[c] \notin {"idle", "done"}
    /\ open[c]["upstream"] <=> Dialled(c)
    /\ pc[c] = "idle" => peer[c]["client"] = "none"
    /\ Dialled(c) => peer[c]["upstream"] # "none"
    /\ peer[c]["upstream"] # "none" => Dialled(c) \/ pc[c] \in {"closeClient", "done"}
    /\ Copied(c) => pc[c] \in {"splice", "closeUpstream", "closeClient", "done"}
    /\ Copied(c) \/ pc[c] \notin {"idle", "identify", "closeClient", "done"}
            => classifyPeer(input[c].source) # "reject"
    /\ Verified(c) \/ got[c] \ {"SSLRequest"} # {} => input[c].genuine
    /\ put[c]["client"] > 0 => Copied(c)
    /\ pc[c] \in {"sync", "replay"} \/ (Copied(c) /\ input[c].startup # "cancel")
            => appName[c] = NameFor(c)

Inv == TypeOK /\ \A c \in Conns : SessionInv(c)

\* The name that a server would know the client by without the gateway.
Given(c) == LET own == input[c].ownNames IN IF own = <<>> THEN {} ELSE own[Len(own)]

Failed(c) == ~Copied(c) /\ pc[c] \in {"closeUpstream", "closeClient", "done"}

\* pgproxy.go:67-69 "strictly enforces the security of the TLS connection to
\* its upstream": nothing that comes from a client, and no credential, reaches
\* an upstream whose certificate does not verify, on any path.
StrictUpstreamTLS ==
    \A c \in Conns : got[c] \ {"SSLRequest"} # {} \/ put[c]["client"] > 0
                        => input[c].genuine

\* pgproxy.go:192-251: every passthrough connection that ends before its session
\* starts is in exactly one error counter (whois-failed is not an end).  For a
\* managed one see UpstreamFailureSurfaces.
FailureCounted ==
    (\A c \in Conns : ~Managed(c)) =>
        errors["disallowed-source"] + errors["network-error"] + errors["bad-startup"]
            + errors["client-bad-protocol"] + errors["client-tls"]
            + errors["upstream-bad-protocol"] + errors["upstream-tls"]
            = Cardinality({c \in Conns : Failed(c)})

\* fly.go:630-646,797-815, credentials-manager.go:82: the server knows a client
\* by the name that it would have used without the gateway, if it gave one, and a
\* 6PN client by exactly that.  The name of a tailnet client carries its identity
\* too, and a client without a name is known by its identity: on a managed entry
\* whatever the client calls itself, on a passthrough one if it does so at most
\* once (of two names rewriteStartup stamps the one that the server drops: see
\* TailnetAttributed of Startup).
AttributedSession ==
    \A c \in Conns : Copied(c) /\ input[c].startup = "v3" =>
        /\ Given(c) \subseteq appName[c]
        /\ input[c].source = "sixpn" /\ Given(c) # {} => appName[c] = Given(c)
        /\ (/\ input[c].source = "tailnet" \/ Given(c) = {}
            /\ Managed(c) \/ Len(input[c].ownNames) \in {0, 1}) => "identity" \in appName[c]

\* Every read of the handshake either has a deadline or ends when the peer it
\* waits for ends (pgproxy.go:192,220,234,248, credentials-manager.go:42,63):
\* whatever the stage at which a client goes away, its session is torn down, if
\* upstreams answer and nobody stops reading.
ClientLeaves ==
    PeersAnswer => \A c \in Conns : peer[c]["client"] \in {"fin", "gone", "reset"} ~> pc[c] = "done"

\* pgproxy.go:134 "Bluntly enforce SID uniqueness".
UniqueSessionIDs ==
    \A c, d \in Conns : c # d /\ pc[c] # "idle" /\ pc[d] # "idle"
                            => sessionID[c] # sessionID[d]

\* credentials-manager.go:232-234: "a failed upstream connection surfaces as a
\* normal Postgres error instead of an unexplained hangup".
UpstreamFailureSurfaces ==
    \A c \in Conns : Failed(c) /\ "credentials" \in got[c] /\ peer[c]["client"] = "up"
                        => "error" \in told[c]

\* pgproxy.go:263-264 "The 8 bytes we already read in `buf` are the first 8
\* bytes of the plaintext StartupMessage; reuse them".
PlaintextStartupReused ==
    \A c \in Conns : pc[c] = "startup" /\ input[c].opening = "plain"
                        => firstByte[c] = "client's"

-----------------------------------------------------------------------------
(* PgProxy implements Relay.  The session opens when the handshake with    *)
(* both peers is over and the copying starts; the upstream is dialled      *)
(* before that.                                                            *)

PhaseOf(c) == CASE pc[c] = "idle"               -> "idle"
                [] pc[c] = "done"               -> "closed"
                [] pc[c] \notin {"idle", "done"} -> IF Copied(c) THEN "open" ELSE "new"

sessionPhase == [c \in Conns |-> PhaseOf(c)]

Promise == INSTANCE Relay WITH phase <- sessionPhase,
                               source <- [c \in Conns |-> input[c].source],
                               genuine <- [c \in Conns |-> input[c].genuine]

\* pgproxy.go:67-69,161-294, credentials-manager.go:40-147: on either path a
\* session is a relay: dialled for trusted clients, open to a verified upstream,
\* bytes in order and none before the handshake is over, closed only when ended.
ImplementsRelay == Promise!Spec
=============================================================================
