------------------------------ MODULE TcpProxy ------------------------------
(***************************************************************************)
(* tcpproxy.go: one listener, one fixed upstream, bytes piped both ways.   *)
(* Serve runs one handle goroutine per accepted connection.  pc[c] is the  *)
(* next thing the handler of c does:                                       *)
(*   gate      classifyPeer                                                *)
(*   dial      dialer.Dial and setKeepAlive                                *)
(*   started   startedSessions.Add(1)                                      *)
(*   active    activeSessions.Add(1) and the two go statements             *)
(*   splice    <-errc                                                      *)
(*   uncount, closeUpstream, closeClient   the deferred calls, in order    *)
(***************************************************************************)
EXTENDS Splice, Peer, Integers, FiniteSets

VARIABLES source,           \* the range the client's address is in
          startedSessions, activeSessions, errors   \* the proxy's metrics

metrics == <<startedSessions, activeSessions, errors>>
vars == <<pc, spliceVars, source, metrics>>

Labels == {"disallowed-source", "dial-failed", "network-error"}
PcStates == {"idle", "gate", "dial", "started", "active", "splice",
             "uncount", "closeUpstream", "closeClient", "done"}

TypeOK ==
    /\ SpliceTypeOK
    /\ pc \in [Conns -> PcStates]
    /\ source \in [Conns -> Sources]
    /\ startedSessions \in Nat
    /\ activeSessions \in Int
    /\ errors \in [Labels -> Nat]

Init ==
    /\ SpliceInit
    /\ pc = [c \in Conns |-> "idle"]
    /\ source \in [Conns -> Sources]
    /\ startedSessions = 0
    /\ activeSessions = 0
    /\ errors = [l \in Labels |-> 0]

Goto(c, from, to) == pc[c] = from /\ pc' = [pc EXCEPT ![c] = to]
Count(label) == errors' = [errors EXCEPT ![label] = @ + 1]

\* The number of connections is arbitrary, and finite.
ASSUME TcpAssumption == IsFiniteSet(Conns)

-----------------------------------------------------------------------------
Accept(c) ==
    /\ Goto(c, "idle", "gate")
    /\ Connect(c, "client")
    /\ UNCHANGED <<sent, put, copier, errc, source, metrics>>

GateFallsThrough(c) ==       \* variant: the rejection does not return
    /\ Goto(c, "gate", "dial")
    /\ IF classifyPeer(source[c]) = "reject"
       THEN Count("disallowed-source") ELSE UNCHANGED errors
    /\ UNCHANGED <<spliceVars, source, startedSessions, activeSessions>>
Gate(c) ==
    /\ IF classifyPeer(source[c]) = "reject"
       THEN Goto(c, "gate", "closeClient") /\ Count("disallowed-source")
       ELSE Goto(c, "gate", "dial") /\ UNCHANGED errors
    /\ UNCHANGED <<spliceVars, source, startedSessions, activeSessions>>

DialOk(c) ==
    /\ Goto(c, "dial", "started")
    /\ Connect(c, "upstream")
    /\ UNCHANGED <<sent, put, copier, errc, source, metrics>>

DialFail(c) ==               \* refused, unreachable, or no answer in 10 s
    /\ Goto(c, "dial", "closeClient")
    /\ Count("dial-failed")
    /\ UNCHANGED <<spliceVars, source, startedSessions, activeSessions>>

CountStarted(c) ==
    /\ Goto(c, "started", "active")
    /\ startedSessions' = startedSessions + 1
    /\ UNCHANGED <<spliceVars, source, activeSessions, errors>>

StartSession(c) ==
    /\ Goto(c, "active", "splice")
    /\ activeSessions' = activeSessions + 1
    /\ StartCopying(c)
    /\ UNCHANGED <<peer, open, sent, put, errc, source, startedSessions, errors>>

EndSessionEarly(c) ==        \* variant: an error returns past the decrement
    \E result \in {"nil", "err"} :
        /\ Await(c, IF result = "err" THEN "closeUpstream" ELSE "uncount", result)
        /\ IF result = "err" THEN Count("network-error") ELSE UNCHANGED errors
        /\ UNCHANGED <<source, startedSessions, activeSessions>>
EndSession(c) ==
    \E result \in {"nil", "err"} :
        /\ Await(c, "uncount", result)
        /\ IF result = "err" THEN Count("network-error") ELSE UNCHANGED errors
        /\ UNCHANGED <<source, startedSessions, activeSessions>>

Uncount(c) ==
    /\ Goto(c, "uncount", "closeUpstream")
    /\ activeSessions' = activeSessions - 1
    /\ UNCHANGED <<spliceVars, source, startedSessions, errors>>

CloseUpstreamNever(c) ==     \* variant: no defer dst.Close()
    /\ Goto(c, "closeUpstream", "closeClient")
    /\ UNCHANGED <<spliceVars, source, metrics>>
CloseUpstream(c) ==
    /\ Goto(c, "closeUpstream", "closeClient")
    /\ Close(c, "upstream")
    /\ UNCHANGED <<peer, sent, put, copier, errc, source, metrics>>

CloseClient(c) ==
    /\ Goto(c, "closeClient", "done")
    /\ Close(c, "client")
    /\ UNCHANGED <<peer, sent, put, copier, errc, source, metrics>>

Handler(c) ==
    \/ Gate(c) \/ DialOk(c) \/ DialFail(c) \/ CountStarted(c) \/ StartSession(c)
    \/ EndSession(c) \/ Uncount(c) \/ CloseUpstream(c) \/ CloseClient(c)

Next ==
    \/ \E c \in Conns : Accept(c) \/ Handler(c)
    \/ (Environment \/ Copying) /\ UNCHANGED <<source, metrics>>

Spec == Init /\ [][Next]_vars

\* The inductive invariant: the session core's, and where the handler is,
\* related to which sockets are open and whether the goroutines were started.
SessionInv(c) ==
    /\ SpliceInv(c)
    /\ pc[c] = "idle" => peer[c]["client"] = "none"
    /\ pc[c] = "done" <=> pc[c] # "idle" /\ ~open[c]["client"]
    /\ pc[c] \in {"started", "active", "uncount", "closeUpstream"} => open[c]["upstream"]
    /\ pc[c] \in {"idle", "gate", "dial", "closeClient", "done"} => ~open[c]["upstream"]
    /\ pc[c] \in {"idle", "gate", "dial"} => peer[c]["upstream"] = "none"
    /\ Copied(c) \/ pc[c] \in {"started", "active"} => peer[c]["upstream"] # "none"
    /\ pc[c] \in {"idle", "gate", "dial", "started", "active"} => ~Copied(c)
    /\ pc[c] \notin {"started", "active"} /\ peer[c]["upstream"] # "none" => Copied(c)
    /\ pc[c] \in {"uncount", "closeUpstream"} => Copied(c)
    /\ pc[c] = "dial" \/ peer[c]["upstream"] # "none" => classifyPeer(source[c]) # "reject"

Inv == TypeOK /\ \A c \in Conns : SessionInv(c)

-----------------------------------------------------------------------------
(* Fairness.  Goroutines are scheduled, Dial returns within its timeout    *)
(* and the kernel notices a vanished peer.  Peers owe nothing: they need   *)
(* not send, end, or read what is written to them.                         *)

HandlerFairness == \A c \in Conns : WF_vars(Handler(c))
CopierFairness == \A c \in Conns, s \in Sides :
    WF_vars(CopierStep(c, s) /\ UNCHANGED <<source, metrics>>)
KeepAliveFairness == \A c \in Conns, s \in Sides :
    WF_vars(KeepAlive(c, s) /\ UNCHANGED <<source, metrics>>)

FairSpec == Spec /\ HandlerFairness /\ CopierFairness /\ KeepAliveFairness

\* The peers read what they are sent.
PeersDrain == \A c \in Conns, s \in Sides :
    WF_vars(WriteOk(c, s) /\ UNCHANGED <<source, metrics>>)

-----------------------------------------------------------------------------
(* Properties of the metrics.                                              *)

\* tcpproxy.go:96-97: sessions_active is the number of sessions being piped,
\* however sessions overlap and end: it neither drifts nor goes negative.
ActiveCountsLive ==
    activeSessions = Cardinality({c \in Conns : pc[c] \in {"splice", "uncount"}})

\* tcpproxy.go:79,87,95: a connection that the handler is done deciding on is
\* in exactly one of three counters, so none is dropped without a trace and
\* none is counted both as an error and as a session.
EveryConnectionCounted ==
    startedSessions + errors["disallowed-source"] + errors["dial-failed"]
        = Cardinality({c \in Conns : pc[c] \notin {"idle", "gate", "dial", "started"}})

-----------------------------------------------------------------------------
(* TcpProxy implements Relay.                                              *)

PhaseOf(c) == CASE pc[c] = "idle"               -> "idle"
                [] pc[c] = "done"               -> "closed"
                [] pc[c] \notin {"idle", "done"} ->
                       IF peer[c]["upstream"] = "none" THEN "new" ELSE "open"

sessionPhase == [c \in Conns |-> PhaseOf(c)]

\* Nothing is demanded of an upstream.
Promise == INSTANCE Relay WITH phase <- sessionPhase, genuine <- [c \in Conns |-> TRUE]

\* tcpproxy.go:73-75,105: the handlers, goroutines and channels together are
\* a relay: trusted clients only, bytes in order, closed only when ended.
ImplementsRelay == Promise!Spec

\* tcpproxy.go:57-60,105: with peers that drain, the relay's liveness holds as
\* well: what is sent is passed on, and a session that a peer ended, or
\* vanished from, is closed.
RelayIsLive == PeersDrain => Promise!Fairness

\* tcpproxy.go:105 "Whichever direction ends first tears down both": a session
\* ends with either of its peers as long as the other one takes in what that
\* peer has sent it.  The peer that ended owes nothing: the goroutine of the
\* other direction may be blocked in a Write to it, and does not keep the session
\* open.  (Without the proviso a stalled peer hides the end of the other one:
\* the goroutine blocked in Write does not read.)
EndNoticed == \A c \in Conns, s \in Sides :
    WF_vars(WriteOk(c, s) /\ UNCHANGED <<source, metrics>>)
        => (Copied(c) /\ peer[c][s] \in {"fin", "gone", "reset"} ~> pc[c] = "done")
=============================================================================
