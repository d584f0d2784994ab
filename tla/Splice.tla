------------------------------- MODULE Splice -------------------------------
(***************************************************************************)
(* The session core that every proxy of the gateway ends in: two           *)
(* goroutines run io.Copy, one per direction, each posts its result on     *)
(* errc, the handler receives ONE result, returns, and its deferred calls  *)
(* close both connections, which is what makes the other goroutine end     *)
(* (tcpproxy.go:105-118, httpproxy.go:107-116, pgproxy.go:276-293,         *)
(* credentials-manager.go:134-146).  The proxies differ in the capacity of *)
(* errc, and TcpProxy and PgProxy build their handlers around this module. *)
(*                                                                         *)
(* A connection c has two sides.  Bytes are counted in chunks, one chunk   *)
(* being what a single Read of io.Copy returns: sent[c][s] chunks have     *)
(* been sent by the peer on side s, and put[c][s] of them have been        *)
(* written to the other side.  Chunks move in order, so counts are enough. *)
(***************************************************************************)
EXTENDS Naturals, Sequences

CONSTANTS Conns,      \* connections a listener accepts
          MaxChunks,  \* bound: chunks each peer may send
          ErrcCap     \* capacity of errc

ASSUME SpliceAssumption == /\ MaxChunks \in Nat
                           /\ ErrcCap \in Nat \ {0}

VARIABLES pc,      \* where the handler goroutine of c is
          peer,    \* what the peer on a side has done with its connection
          open,    \* the proxy has not closed its socket on a side
          sent,    \* chunks sent by the peer on a side
          put,     \* chunks from a side written to the other side
          copier,  \* the goroutine that copies FROM a side
          errc     \* results posted and not yet received

spliceVars == <<peer, open, sent, put, copier, errc>>

Sides == {"client", "upstream"}
Other(s) == IF s = "client" THEN "upstream" ELSE "client"

PeerStates == {"none",   \* not connected
               "up",     \* connected
               "fin",    \* has sent FIN: it sends no more, it may still read
               "gone",   \* vanished without a FIN
               "reset"}  \* the kernel reports the connection broken

CopierStates == {"off", "read", "write", "eof", "err", "exit"}

SpliceTypeOK ==
    /\ peer \in [Conns -> [Sides -> PeerStates]]
    /\ open \in [Conns -> [Sides -> BOOLEAN]]
    /\ sent \in [Conns -> [Sides -> 0..MaxChunks]]
    /\ put \in [Conns -> [Sides -> 0..MaxChunks]]
    /\ copier \in [Conns -> [Sides -> CopierStates]]
    /\ errc \in [Conns -> Seq({"nil", "err"})]

SpliceInit ==
    /\ peer = [c \in Conns |-> [s \in Sides |-> "none"]]
    /\ open = [c \in Conns |-> [s \in Sides |-> FALSE]]
    /\ sent = [c \in Conns |-> [s \in Sides |-> 0]]
    /\ put = [c \in Conns |-> [s \in Sides |-> 0]]
    /\ copier = [c \in Conns |-> [s \in Sides |-> "off"]]
    /\ errc = [c \in Conns |-> <<>>]

Connect(c, s) ==                        \* side s of c is connected
    /\ peer' = [peer EXCEPT ![c][s] = "up"]
    /\ open' = [open EXCEPT ![c][s] = TRUE]

Close(c, s) == open' = [open EXCEPT ![c][s] = FALSE]

-----------------------------------------------------------------------------
(* The peers: clients, upstreams and the network between.                  *)

PeerBecomes(c, s, states, new) ==
    /\ open[c][s]
    /\ peer[c][s] \in states
    /\ peer' = [peer EXCEPT ![c][s] = new]
    /\ UNCHANGED <<pc, open, sent, put, copier, errc>>

PeerSend(c, s) ==
    /\ open[c][s]
    /\ peer[c][s] = "up"
    /\ sent[c][s] < MaxChunks
    /\ sent' = [sent EXCEPT ![c][s] = @ + 1]
    /\ UNCHANGED <<pc, peer, open, put, copier, errc>>

PeerFin(c, s)    == PeerBecomes(c, s, {"up"}, "fin")
PeerReset(c, s)  == PeerBecomes(c, s, {"up", "fin"}, "reset")
\* A peer that vanishes after its FIN cannot be told from a slow reader until
\* the connection breaks.
PeerVanish(c, s) == PeerBecomes(c, s, {"up"}, "gone")

\* Keepalives are on for both legs: the kernel finds out that a peer is gone.
KeepAliveDialed(c, s) ==       \* variant: only the dialled leg has keepalives
    s = "upstream" /\ PeerBecomes(c, s, {"gone"}, "reset")
KeepAlive(c, s) == PeerBecomes(c, s, {"gone"}, "reset")

PeerStep(c, s) == PeerSend(c, s) \/ PeerFin(c, s) \/ PeerReset(c, s) \/ PeerVanish(c, s)

-----------------------------------------------------------------------------
(* The two copying goroutines.                                             *)

StartCopying(c) == copier' = [copier EXCEPT ![c] = [s \in Sides |-> "read"]]

CopierBecomes(c, s, from, to) ==
    /\ copier[c][s] = from
    /\ copier' = [copier EXCEPT ![c][s] = to]

\* Read returns data: the goroutine now holds one chunk.
PendingAgain(c, s) == put[c][s] =< sent[c][s]   \* variant: the last chunk twice
Pending(c, s) == put[c][s] < sent[c][s]

CopyRead(c, s) ==
    /\ open[c][s]
    /\ Pending(c, s)
    /\ CopierBecomes(c, s, "read", "write")
    /\ UNCHANGED <<pc, peer, open, sent, put, errc>>

\* io.Copy returns nil at the end of the stream.  A Read fails on a broken
\* connection, and on one that the handler has closed.
ReadEof(c, s) == open[c][s] /\ peer[c][s] = "fin" /\ put[c][s] = sent[c][s]
ReadFailsIdle(c, s) ==           \* variant: an idle deadline on the stream
    ~open[c][s] \/ peer[c][s] = "reset" \/ put[c][s] = sent[c][s]
ReadFails(c, s) == ~open[c][s] \/ peer[c][s] = "reset"

CopyReadEnd(c, s) ==
    /\ \/ ReadEof(c, s) /\ CopierBecomes(c, s, "read", "eof")
       \/ ReadFails(c, s) /\ CopierBecomes(c, s, "read", "err")
    /\ UNCHANGED <<pc, peer, open, sent, put, errc>>

\* Write blocks for as long as the other peer does not drain: no action here
\* forces WriteOk to happen.
WriteOk(c, s) ==
    /\ open[c][Other(s)]
    /\ peer[c][Other(s)] # "reset"
    /\ CopierBecomes(c, s, "write", "read")
    /\ put' = [put EXCEPT ![c][s] = @ + 1]
    /\ UNCHANGED <<pc, peer, open, sent, errc>>

WriteErr(c, s) ==
    /\ ~open[c][Other(s)] \/ peer[c][Other(s)] = "reset"
    /\ CopierBecomes(c, s, "write", "err")
    /\ UNCHANGED <<pc, peer, open, sent, put, errc>>

\* errc <- err goes ahead when the buffer has room, or straight to a handler
\* that is waiting on an empty channel.
RoomUnbuffered(c) == pc[c] = "splice" /\ errc[c] = <<>>  \* variant: make(chan error)
Room(c) == Len(errc[c]) < ErrcCap \/ (pc[c] = "splice" /\ errc[c] = <<>>)

Post(c, s) ==
    /\ Room(c)
    /\ \/ /\ CopierBecomes(c, s, "eof", "exit")
          /\ errc' = [errc EXCEPT ![c] = Append(@, "nil")]
       \/ /\ CopierBecomes(c, s, "err", "exit")
          /\ errc' = [errc EXCEPT ![c] = Append(@, "err")]
    /\ UNCHANGED <<pc, peer, open, sent, put>>

CopierStep(c, s) == CopyRead(c, s) \/ CopyReadEnd(c, s) \/ WriteErr(c, s) \/ Post(c, s)

Environment == \E c \in Conns, s \in Sides : PeerStep(c, s) \/ KeepAlive(c, s)
Copying == \E c \in Conns, s \in Sides : CopierStep(c, s) \/ WriteOk(c, s)

\* The handler's <-errc.  result is "nil" or "err".
Await(c, next, result) ==
    /\ pc[c] = "splice"
    /\ errc[c] # <<>>
    /\ result = Head(errc[c])
    /\ errc' = [errc EXCEPT ![c] = Tail(@)]
    /\ pc' = [pc EXCEPT ![c] = next]
    /\ UNCHANGED <<peer, open, sent, put, copier>>

-----------------------------------------------------------------------------
(* What holds in every step of a session, whichever proxy it is part of:   *)
(* the facts that the promises below rest on.                              *)

Copied(c) == copier[c]["client"] # "off"
EndedBy(c, s) == \/ peer[c][s] = "reset"
                 \/ peer[c][s] = "fin" /\ put[c][s] = sent[c][s]

Exited(c, s) == IF copier[c][s] = "exit" THEN 1 ELSE 0
Received(c) == IF pc[c] = "splice" THEN 0 ELSE 1

\* Both goroutines start together.
Together(c) == copier[c]["client"] = "off" <=> copier[c]["upstream"] = "off"

\* A chunk that is held or was written has been sent.
NothingMadeUp(c) == \A s \in Sides :
    put[c][s] =< sent[c][s] /\ (copier[c][s] = "write" => put[c][s] < sent[c][s])

\* Every result that was posted is on errc or is the one that was received.
Balanced(c) ==
    /\ Copied(c) => Len(errc[c]) + Received(c) = Exited(c, "client") + Exited(c, "upstream")
    /\ ~Copied(c) => errc[c] = <<>> /\ pc[c] # "splice"

\* A goroutine ends only after a peer ended the session.
EndsForAReason(c) == (\E s \in Sides : copier[c][s] \in {"eof", "err", "exit"})
                        => \E s \in Sides : EndedBy(c, s)

\* Nothing is closed before a result is received.
OpenInSession(c) == pc[c] = "splice" => \A s \in Sides : open[c][s]

SpliceInv(c) == /\ Together(c) /\ NothingMadeUp(c) /\ Balanced(c)
                /\ EndsForAReason(c) /\ OpenInSession(c)

-----------------------------------------------------------------------------
(* What the session core promises, whichever proxy it is part of.          *)

\* tcpproxy.go:105 "Whichever direction ends first tears down both", and
\* tcpproxy.go:51-54, no idle deadline: the proxy closes a session only after
\* a peer ended it, by breaking its connection or by a FIN all of whose data
\* had been passed on.
CloseOnlyAfterEnd ==
    \A c \in Conns : Copied(c) /\ (\E s \in Sides : ~open[c][s])
                        => \E s \in Sides : EndedBy(c, s)

\* The buffer of errc (tcpproxy.go:107, pgproxy.go:277): once the handler has
\* received its one result nobody receives again, so the goroutine that ends
\* second must always find room, or it leaks with its buffer.
SendersNeverBlock ==
    \A c \in Conns : Copied(c) /\ pc[c] # "splice"
        => \A s \in Sides : copier[c][s] # "exit" => Room(c)

\* One result taken, both sockets closed, both goroutines gone.
Reclaimed(c) == \A s \in Sides : ~open[c][s] /\ copier[c][s] = "exit"

\* pgproxy.go:286-293: from the moment one copying goroutine has ended, the
\* handler and the other goroutine end too and both sockets are closed,
\* whatever the peers do, also when one of them has stopped reading.
TeardownCompletes ==
    \A c \in Conns : (\E s \in Sides : copier[c][s] = "exit") ~> Reclaimed(c)
=============================================================================
