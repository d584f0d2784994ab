----------------------------- MODULE ConnectProxy -----------------------------
(***************************************************************************)
(* httpproxy.go: the HTTP CONNECT proxy.  net/http (external) accepts a    *)
(* connection, reads one request after another from it and calls ServeHTTP *)
(* for each; a CONNECT that is admitted takes the connection over (Hijack) *)
(* and ends in the session core.  pc[c] is the next thing done for c:      *)
(*   http       net/http waits for a request                               *)
(*   gate, method, dial, hijack, answer (the 200), started, active         *)
(*              ServeHTTP, in this order                                   *)
(*   splice     <-errc                                                     *)
(*   uncount, closeClient, closeUpstream   the deferred calls, in order    *)
(* A refused request is answered (403, 405, 502) and its connection goes   *)
(* back to net/http.  The connections of an http.Server can be hijacked,   *)
(* once: the branches hijack-unsupported and hijack-failed are not taken.  *)
(***************************************************************************)
EXTENDS Splice, Peer, Integers, FiniteSets

CONSTANTS HttpProxyAllowTailscale,  \* --http-proxy-allow-tailscale
          MaxRequests               \* bound: requests on one connection

ASSUME ConnectAssumption ==
    HttpProxyAllowTailscale \in BOOLEAN /\ MaxRequests \in Nat /\ IsFiniteSet(Conns)

VARIABLES source,    \* the range the client's address is in
          request,   \* the method of the last request
          asked,     \* requests received
          told,      \* the client has been sent the 200
          hasty,     \* the client sent data before it was told
          dropped,   \* chunks of the client left in the reader of net/http
          startedSessions, activeSessions, errors   \* the proxy's metrics

http == <<request, asked, told, hasty, dropped>>
metrics == <<startedSessions, activeSessions, errors>>
vars == <<pc, spliceVars, source, http, metrics>>

Labels == {"disallowed-source", "bad-method", "dial-failed", "network-error"}
PcStates == {"idle", "http", "gate", "method", "dial", "hijack", "answer", "started",
             "active", "splice", "uncount", "closeClient", "closeUpstream", "done"}

TypeOK ==
    /\ SpliceTypeOK
    /\ pc \in [Conns -> PcStates]
    /\ source \in [Conns -> Sources]
    /\ request \in [Conns -> {"none", "CONNECT", "other"}]
    /\ asked \in [Conns -> 0..MaxRequests]
    /\ told \in [Conns -> BOOLEAN] /\ hasty \in [Conns -> BOOLEAN]
    /\ dropped \in [Conns -> 0..MaxChunks]
    /\ startedSessions \in Nat
    /\ activeSessions \in Int
    /\ errors \in [Labels -> Nat]

Init ==
    /\ SpliceInit
    /\ pc = [c \in Conns |-> "idle"]
    /\ source \in [Conns -> Sources]
    /\ request = [c \in Conns |-> "none"]
    /\ asked = [c \in Conns |-> 0]
    /\ told = [c \in Conns |-> FALSE] /\ hasty = [c \in Conns |-> FALSE]
    /\ dropped = [c \in Conns |-> 0]
    /\ startedSessions = 0
    /\ activeSessions = 0
    /\ errors = [l \in Labels |-> 0]

Goto(c, from, to) == pc[c] = from /\ pc' = [pc EXCEPT ![c] = to]
Count(label) == errors' = [errors EXCEPT ![label] = @ + 1]
Refuse(c, at, label) == Goto(c, at, "http") /\ Count(label)

-----------------------------------------------------------------------------
(* Clients and net/http.                                                   *)

Hijacked(c) == pc[c] \notin {"idle", "http", "gate", "method", "dial", "hijack"}
HasEarlyData(c) == sent[c]["client"] + dropped[c] > 0

Accept(c) ==
    /\ Goto(c, "idle", "http")
    /\ Connect(c, "client")
    /\ UNCHANGED <<sent, put, copier, errc, source, http, metrics>>

Request(c) ==
    /\ Goto(c, "http", "gate")
    /\ peer[c]["client"] = "up" /\ ~HasEarlyData(c)
    /\ asked[c] < MaxRequests
    /\ asked' = [asked EXCEPT ![c] = @ + 1]
    /\ \E method \in {"CONNECT", "other"} : request' = [request EXCEPT ![c] = method]
    /\ UNCHANGED <<spliceVars, source, told, hasty, dropped, metrics>>

\* The client ended, or the data behind a refused CONNECT is no request.
ServerCloses(c) ==
    /\ Goto(c, "http", "done")
    /\ peer[c]["client"] \in {"fin", "reset"} \/ HasEarlyData(c)
    /\ Close(c, "client")
    /\ UNCHANGED <<peer, sent, put, copier, errc, source, http, metrics>>

\* Data behind a CONNECT.  Until Hijack, net/http reads ahead: what it has
\* read, in order, is in a reader that ServeHTTP drops.
ClientSends(c) ==
    /\ request[c] = "CONNECT" /\ pc[c] # "http"
    /\ \/ PeerSend(c, "client") /\ UNCHANGED dropped
       \/ /\ open[c]["client"] /\ peer[c]["client"] = "up" /\ ~Hijacked(c)
          /\ sent[c]["client"] = 0 /\ dropped[c] < MaxChunks
          /\ dropped' = [dropped EXCEPT ![c] = @ + 1]
          /\ UNCHANGED <<pc, spliceVars>>
    /\ hasty' = [hasty EXCEPT ![c] = @ \/ ~told[c]]
    /\ UNCHANGED <<source, request, asked, told, metrics>>

PeerElse(c, s) == \/ s = "upstream" /\ PeerSend(c, s)
                  \/ PeerFin(c, s) \/ PeerReset(c, s) \/ PeerVanish(c, s) \/ KeepAlive(c, s)

-----------------------------------------------------------------------------
(* ServeHTTP.                                                              *)

allowPeerAll(kind) == kind # "reject"      \* variant: no opt-in for the tailnet
allowPeer(kind) == CASE kind = "fly"       -> TRUE
                     [] kind = "tailscale" -> HttpProxyAllowTailscale
                     [] kind = "reject"    -> FALSE

Gate(c) ==
    /\ IF allowPeer(classifyPeer(source[c]))
       THEN Goto(c, "gate", "method") /\ UNCHANGED errors
       ELSE Refuse(c, "gate", "disallowed-source")
    /\ UNCHANGED <<spliceVars, source, http, startedSessions, activeSessions>>

Method(c) ==
    /\ IF request[c] = "CONNECT"
       THEN Goto(c, "method", "dial") /\ UNCHANGED errors
       ELSE Refuse(c, "method", "bad-method")
    /\ UNCHANGED <<spliceVars, source, http, startedSessions, activeSessions>>

DialOkAnswered(c) ==         \* variant: w.WriteHeader(200) before Hijack
    /\ Goto(c, "dial", "hijack")
    /\ Connect(c, "upstream")
    /\ told' = [told EXCEPT ![c] = TRUE]
    /\ UNCHANGED <<sent, put, copier, errc, source, request, asked, hasty, dropped, metrics>>
DialOk(c) ==
    /\ Goto(c, "dial", "hijack")
    /\ Connect(c, "upstream")
    /\ UNCHANGED <<sent, put, copier, errc, source, http, metrics>>

DialFail(c) ==               \* refused, unreachable, or no answer in 10 s
    /\ Refuse(c, "dial", "dial-failed")
    /\ UNCHANGED <<spliceVars, source, http, startedSessions, activeSessions>>

Hijack(c) ==
    /\ Goto(c, "hijack", "answer")
    /\ UNCHANGED <<spliceVars, source, http, metrics>>

AnswerUncounted(c) ==        \* variant: a failed write returns uncounted
    /\ \/ /\ peer[c]["client"] # "reset"
          /\ Goto(c, "answer", "started")
          /\ told' = [told EXCEPT ![c] = TRUE]
       \/ peer[c]["client"] = "reset" /\ Goto(c, "answer", "closeClient") /\ UNCHANGED told
    /\ UNCHANGED <<spliceVars, source, request, asked, hasty, dropped, metrics>>
Answer(c) ==
    /\ \/ /\ peer[c]["client"] # "reset"
          /\ Goto(c, "answer", "started")
          /\ told' = [told EXCEPT ![c] = TRUE]
          /\ UNCHANGED errors
       \/ /\ peer[c]["client"] = "reset"
          /\ Goto(c, "answer", "closeClient")
          /\ Count("network-error")
          /\ UNCHANGED told
    /\ UNCHANGED <<spliceVars, source, request, asked, hasty, dropped,
                   startedSessions, activeSessions>>

CountStarted(c) ==
    /\ Goto(c, "started", "active")
    /\ startedSessions' = startedSessions + 1
    /\ UNCHANGED <<spliceVars, source, http, activeSessions, errors>>

StartSession(c) ==
    /\ Goto(c, "active", "splice")
    /\ activeSessions' = activeSessions + 1
    /\ StartCopying(c)
    /\ UNCHANGED <<peer, open, sent, put, errc, source, http, startedSessions, errors>>

EndSession(c) ==             \* the result is taken and not looked at
    /\ \E result \in {"nil", "err"} : Await(c, "uncount", result)
    /\ UNCHANGED <<source, http, metrics>>

Uncount(c) ==
    /\ Goto(c, "uncount", "closeClient")
    /\ activeSessions' = activeSessions - 1
    /\ UNCHANGED <<spliceVars, source, http, startedSessions, errors>>

CloseClientNever(c) ==       \* variant: no defer src.Close()
    /\ Goto(c, "closeClient", "closeUpstream")
    /\ UNCHANGED <<spliceVars, source, http, metrics>>
CloseClient(c) ==
    /\ Goto(c, "closeClient", "closeUpstream")
    /\ Close(c, "client")
    /\ UNCHANGED <<peer, sent, put, copier, errc, source, http, metrics>>

CloseUpstreamNever(c) ==     \* variant: no defer dst.Close()
    /\ Goto(c, "closeUpstream", "done")
    /\ UNCHANGED <<spliceVars, source, http, metrics>>
CloseUpstream(c) ==
    /\ Goto(c, "closeUpstream", "done")
    /\ Close(c, "upstream")
    /\ UNCHANGED <<peer, sent, put, copier, errc, source, http, metrics>>

ServeHTTP(c) ==
    \/ Gate(c) \/ Method(c) \/ DialOk(c) \/ DialFail(c) \/ Hijack(c) \/ Answer(c)
    \/ CountStarted(c) \/ StartSession(c) \/ EndSession(c) \/ Uncount(c)
    \/ CloseClient(c) \/ CloseUpstream(c)

Next ==
    \/ \E c \in Conns : \/ Accept(c) \/ Request(c) \/ ServerCloses(c)
                        \/ ClientSends(c) \/ ServeHTTP(c)
    \/ /\ \/ Copying
          \/ \E c \in Conns, s \in Sides : PeerElse(c, s)
       /\ UNCHANGED <<source, http, metrics>>

Spec == Init /\ [][Next]_vars

(* Fairness: goroutines run, Dial has a timeout, the kernel notices a      *)
(* vanished peer.  Peers owe nothing.                                      *)
FairSpec ==
    /\ Spec
    /\ \A c \in Conns : WF_vars(ServeHTTP(c)) /\ WF_vars(ServerCloses(c))
    /\ \A c \in Conns, s \in Sides :
          /\ WF_vars(CopierStep(c, s) /\ UNCHANGED <<source, http, metrics>>)
          /\ WF_vars(KeepAlive(c, s) /\ UNCHANGED <<source, http, metrics>>)

\* The peers read what they are sent.
PeersDrain == \A c \in Conns, s \in Sides :
    WF_vars(WriteOk(c, s) /\ UNCHANGED <<source, http, metrics>>)

-----------------------------------------------------------------------------
(* Properties.                                                             *)

AtNetHttp == {"idle", "http", "gate", "method", "dial"}
Undecided(c) == pc[c] \in {"gate", "method", "dial", "hijack", "answer", "started"}

\* httpproxy.go:59-117: the inductive invariant, the session core's and what
\* relates the handler to its sockets, its goroutines and the gate.
SessionInv(c) ==
    /\ SpliceInv(c)
    /\ pc[c] = "idle" => peer[c]["client"] = "none"
    /\ pc[c] \in {"closeUpstream", "done"} <=> pc[c] # "idle" /\ ~open[c]["client"]
    /\ open[c]["upstream"] <=> pc[c] \notin AtNetHttp \cup {"done"}
    /\ pc[c] \in AtNetHttp => peer[c]["upstream"] = "none"
    /\ pc[c] \notin AtNetHttp \cup {"done"} => peer[c]["upstream"] # "none"
    /\ Copied(c) => peer[c]["upstream"] # "none"
    /\ pc[c] \in {"hijack", "answer", "started", "active"} => ~Copied(c)
    /\ pc[c] = "uncount" => Copied(c)
    /\ pc[c] \in {"closeClient", "closeUpstream"} => Copied(c) \/ peer[c]["client"] = "reset"
    /\ pc[c] \in {"method", "dial"} \/ peer[c]["upstream"] # "none"
            => allowPeer(classifyPeer(source[c]))
    /\ told[c] => Hijacked(c)
    /\ dropped[c] > 0 => hasty[c]
    /\ Undecided(c) => asked[c] > 0

Inv == TypeOK /\ \A c \in Conns : SessionInv(c)

\* httpproxy.go:86-93: the reader that Hijack returns is dropped, and with it
\* whatever net/http has read ahead.  That must be only what a client sent
\* before its 200: a client that waits for the answer loses nothing.
OnlyEarlyDataLost == \A c \in Conns : dropped[c] > 0 => hasty[c]

\* httpproxy.go:61-98: every request that ServeHTTP is done deciding on, also
\* several on one connection, is in exactly one error counter or is a session.
Decided == {r \in Conns \X (1..MaxRequests) :      \* request r[2] of connection r[1]
               r[2] < asked[r[1]] \/ (r[2] = asked[r[1]] /\ ~Undecided(r[1]))}
EveryRequestCounted ==
    startedSessions + errors["disallowed-source"] + errors["bad-method"]
        + errors["dial-failed"] + errors["network-error"] = Cardinality(Decided)

\* httpproxy.go:98-100: sessions_active is the number of sessions being piped.
ActiveCountsLive ==
    activeSessions = Cardinality({c \in Conns : pc[c] \in {"splice", "uncount"}})

\* httpproxy.go:78,91,100,116: whatever is being done for a client that goes
\* away, its connection is released, if nobody stops reading.
ClientLeaves ==
    PeersDrain => \A c \in Conns : peer[c]["client"] \in {"fin", "gone", "reset"} ~> pc[c] = "done"

-----------------------------------------------------------------------------
(* ConnectProxy implements Relay for what is left of a client's data when  *)
(* the connection is hijacked, and for the sources that may use it.        *)

PhaseOf(c) == CASE pc[c] = "idle" -> "idle"
                [] pc[c] = "done" -> "closed"
                [] pc[c] \notin {"idle", "done"} ->
                       IF peer[c]["upstream"] = "none" THEN "new" ELSE "open"

sessionPhase == [c \in Conns |-> PhaseOf(c)]

\* httpproxy.go:21-28: 6PN always, the tailnet by opt-in only.
Admitted == {src \in TrustedSources : src = "tailnet" => HttpProxyAllowTailscale}

\* Nothing is demanded of an upstream.
Promise == INSTANCE Relay WITH phase <- sessionPhase, genuine <- [c \in Conns |-> TRUE],
                               TrustedSources <- Admitted

\* httpproxy.go:39-49,105-116: a session is a relay: admitted clients only,
\* bytes in order, closed only when a peer ended it.
ImplementsRelay == Promise!Spec
=============================================================================
