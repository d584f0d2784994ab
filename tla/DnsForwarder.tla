---------------------------- MODULE DnsForwarder ----------------------------
(***************************************************************************)
(* dns.go: the .internal DNS forwarder.  A worker is one goroutine: of     *)
(* serveDNSUDP, for one datagram (Udp), or of serveDNSTCP, for one         *)
(* connection and the queries that its client pipelines on it (Tcp).       *)
(* pc[w] is the next thing done:                                           *)
(*   read              readDNSTCP, with a deadline of 30 s (Tcp)           *)
(*   self, alias       dnsSelfAnswer, resolveAlias                         *)
(*   send, receive     forwardDNSUDP: Dial and Write; Read                 *)
(*   forward           forwardDNSTCP                                       *)
(*   write             WriteTo or writeDNSTCP                              *)
(* A query is a name and a type.  Of names the code tells apart the node's *)
(* own bare name (self), names under --alias-domain (alias) and all others *)
(* (a query that does not parse is one of these); target is the name that  *)
(* alias is mapped to.  Zone is what the resolver (external) knows.        *)
(***************************************************************************)
EXTENDS Naturals, Sequences

CONSTANTS Udp, Tcp,      \* the workers
          Queries,       \* the queries that clients ask
          Zone,          \* query -> what the resolver answers
          MaxQueries     \* bound: queries on one connection

Names == {"self", "alias", "target"}
Families == {"A", "AAAA"}
Results == {"addr", "nodata", "nxdomain"}

ASSUME DnsAssumption ==
    /\ Udp \cap Tcp = {}
    /\ Queries \subseteq Names \X (Families \cup {"TXT"})
    /\ Zone \in [Names \X (Families \cup {"TXT"}) -> Results]
    /\ MaxQueries \in Nat \ {0}

Workers == Udp \cup Tcp

VARIABLES pc,
          asked,      \* worker -> the queries its client has asked
          taken,      \* worker -> how many of them it has read
          reply,      \* worker -> the answer it is about to write
          answered,   \* worker -> the answers it has written
          port,       \* Udp worker -> its socket's port, by the worker that had it first
          wire,       \* datagrams from the resolver: <<port, answer>>
          loops,      \* the accept loops that run
          tsUp,       \* the families this node has a Tailscale address of
          wasDown     \* worker -> its query's family was down, or could not be looked
                      \* up, since the query was read

vars == <<pc, asked, taken, reply, answered, port, wire, loops, tsUp, wasDown>>
client == <<asked, taken>>
network == <<port, wire, loops, tsUp, wasDown>>

Answers == [id : Workers \X (1..MaxQueries), rr : Results \cup {"tailscale"}]
NoAnswer == [id |-> <<>>, rr |-> "none"]

TypeOK ==
    /\ pc \in [Workers -> {"idle", "read", "self", "alias", "send", "receive", "forward",
                           "write", "done"}]
    /\ asked \in [Workers -> Seq(Queries)]
    /\ taken \in [Workers -> 0..MaxQueries]
    /\ reply \in [Workers -> Answers \cup {NoAnswer}]
    /\ answered \in [Workers -> Seq(Answers)]
    /\ port \in [Udp -> Udp]
    /\ wire \subseteq Udp \X Answers
    /\ loops \subseteq {"udp", "tcp"}
    /\ tsUp \subseteq Families
    /\ wasDown \in [Workers -> BOOLEAN]

Init ==
    /\ pc = [w \in Workers |-> "idle"]
    /\ asked = [w \in Workers |-> <<>>]
    /\ taken = [w \in Workers |-> 0]
    /\ reply = [w \in Workers |-> NoAnswer]
    /\ answered = [w \in Workers |-> <<>>]
    /\ port = [w \in Udp |-> w]
    /\ wire = {}
    /\ loops = {"udp", "tcp"}
    /\ tsUp = {}             \* startDNSForwarder runs before tailscaled is up
    /\ wasDown = [w \in Workers |-> FALSE]

Goto(w, from, to) == pc[w] = from /\ pc' = [pc EXCEPT ![w] = to]

Busy(w) == pc[w] \notin {"idle", "read", "done"}
Query(w) == asked[w][taken[w]]
AboutSelf(q) == q \in {"self"} \X Families
AboutAlias(q) == q \in {"alias"} \X Families
TargetOf(q) == <<"target", q[2]>>
AnswerTo(w, rr) == [id |-> <<w, taken[w]>>, rr |-> rr]
Reply(w, from, rr) ==
    Goto(w, from, "write") /\ reply' = [reply EXCEPT ![w] = AnswerTo(w, rr)]

-----------------------------------------------------------------------------
(* Clients, the accept loops, and the node's addresses.                    *)

Take(w, q) ==
    /\ taken' = [taken EXCEPT ![w] = @ + 1]
    /\ wasDown' = [wasDown EXCEPT ![w] = q[2] \notin tsUp]

ReadFrom(w) ==               \* serveDNSUDP
    /\ w \in Udp /\ "udp" \in loops
    /\ Goto(w, "idle", "self")
    /\ \E q \in Queries : asked' = [asked EXCEPT ![w] = <<q>>] /\ Take(w, q)
    /\ UNCHANGED <<reply, answered, port, wire, loops, tsUp>>

Accept(w) ==                 \* serveDNSTCP
    /\ w \in Tcp /\ "tcp" \in loops
    /\ Goto(w, "idle", "read")
    /\ UNCHANGED <<client, reply, answered, network>>

Ask(w) ==                    \* pipelined behind what the connection already carries
    /\ w \in Tcp /\ pc[w] \notin {"idle", "done"}
    /\ Len(asked[w]) < MaxQueries
    /\ \E q \in Queries : asked' = [asked EXCEPT ![w] = Append(@, q)]
    /\ UNCHANGED <<pc, taken, reply, answered, network>>

\* An error of ReadFrom or Accept: the loop returns and its deferred Close
\* takes the socket away, also from the goroutines that are to answer on it.
LoopEnds(l) ==
    /\ l \in loops
    /\ loops' = loops \ {l}
    /\ UNCHANGED <<pc, client, reply, answered, port, wire, tsUp, wasDown>>

AddressUp(f) ==
    /\ f \notin tsUp
    /\ tsUp' = tsUp \cup {f}
    /\ UNCHANGED <<pc, client, reply, answered, port, wire, loops, wasDown>>

AddressDown(f) ==
    /\ f \in tsUp
    /\ tsUp' = tsUp \ {f}
    /\ wasDown' = [w \in Workers |-> wasDown[w] \/ (Busy(w) /\ Query(w)[2] = f)]
    /\ UNCHANGED <<pc, client, reply, answered, port, wire, loops>>

-----------------------------------------------------------------------------
(* The goroutines.                                                         *)

Read(w) ==                   \* readDNSTCP
    /\ Goto(w, "read", "self")
    /\ taken[w] < Len(asked[w])
    /\ Take(w, asked[w][taken[w] + 1])
    /\ UNCHANGED <<asked, reply, answered, port, wire, loops, tsUp>>

ReadEndsNever(w) ==          \* variant: no SetReadDeadline, and a client that stays
    pc[w] = "read" /\ FALSE /\ UNCHANGED vars
ReadEnds(w) ==               \* 30 s without a whole query, or the client is gone
    /\ Goto(w, "read", "done")
    /\ UNCHANGED <<client, reply, answered, network>>

selfTailscaleAddrOnce(f) == FALSE       \* variant: read at start, before it is there
selfTailscaleAddr(f) == f \in tsUp

dnsSelfAnswer(w) ==
    /\ pc[w] = "self"
    /\ \/ /\ AboutSelf(Query(w)) /\ selfTailscaleAddr(Query(w)[2])
          /\ Reply(w, "self", "tailscale") /\ UNCHANGED wasDown
       \/ /\ ~(AboutSelf(Query(w)) /\ selfTailscaleAddr(Query(w)[2]))
          /\ Goto(w, "self", "alias") /\ UNCHANGED <<reply, wasDown>>
       \/ /\ AboutSelf(Query(w))                   \* net.InterfaceAddrs fails
          /\ Goto(w, "self", "alias") /\ UNCHANGED reply
          /\ wasDown' = [wasDown EXCEPT ![w] = TRUE]
    /\ UNCHANGED <<client, answered, port, wire, loops, tsUp>>

\* nil, which leaves the query to be forwarded: no alias, or no address of the
\* family, or no answer for the target in 5 s.
resolveAlias(w) ==
    /\ pc[w] = "alias"
    /\ \/ /\ AboutAlias(Query(w)) /\ Zone[TargetOf(Query(w))] = "addr"
          /\ Reply(w, "alias", "addr")
       \/ Goto(w, "alias", IF w \in Udp THEN "send" ELSE "forward") /\ UNCHANGED reply
    /\ UNCHANGED <<client, answered, network>>

\* A new socket: a port that no open socket has, perhaps one that an earlier
\* query had.  From then on the resolver's answer may come, late, or twice, or
\* never.
PortsOf(states) == {port[v] : v \in {v \in Udp : pc[v] \in states}}
PortsShared(w) == PortsOf({"receive", "write", "done"}) \cup {w}  \* variant: one socket for all
PortsFor(w) == {w} \cup (PortsOf({"write", "done"}) \ PortsOf({"receive"}))

Send(w) ==
    /\ Goto(w, "send", "receive")
    /\ \E p \in PortsFor(w) :
          /\ port' = [port EXCEPT ![w] = p]
          /\ wire' = wire \cup {<<p, AnswerTo(w, Zone[Query(w)])>>}
    /\ UNCHANGED <<client, reply, answered, loops, tsUp, wasDown>>

Receive(w) ==                \* whatever comes to the port, its ID is not looked at
    /\ Goto(w, "receive", "write")
    /\ \E d \in wire : d[1] = port[w] /\ reply' = [reply EXCEPT ![w] = d[2]]
    /\ UNCHANGED <<client, answered, network>>

forwardDNSTCP(w) ==
    /\ Reply(w, "forward", Zone[Query(w)])
    /\ UNCHANGED <<client, answered, network>>

ForwardFails(w) ==           \* an error, or 5 s: no answer, the connection is closed
    /\ \E from \in {"send", "receive", "forward"} : Goto(w, from, "done")
    /\ UNCHANGED <<client, reply, answered, network>>

WriteTo(w) ==                \* its error is only logged
    /\ w \in Udp
    /\ Goto(w, "write", "done")
    /\ answered' = IF "udp" \in loops THEN [answered EXCEPT ![w] = Append(@, reply[w])]
                                      ELSE answered
    /\ UNCHANGED <<client, reply, network>>

FallsThrough(w) ==           \* variant: no continue after an answer of its own
    /\ w \in Tcp
    /\ Goto(w, "write", IF Len(answered[w]) + 1 = taken[w] /\ reply[w].rr = "tailscale"
                        THEN "forward" ELSE "read")
    /\ answered' = [answered EXCEPT ![w] = Append(@, reply[w])]
    /\ UNCHANGED <<client, reply, network>>
WriteDNSTCP(w) ==            \* waits while the client does not read: no deadline
    /\ w \in Tcp
    /\ Goto(w, "write", "read")
    /\ answered' = [answered EXCEPT ![w] = Append(@, reply[w])]
    /\ UNCHANGED <<client, reply, network>>

WriteFails(w) ==             \* the client is gone
    /\ w \in Tcp
    /\ Goto(w, "write", "done")
    /\ UNCHANGED <<client, reply, answered, network>>

Goroutine(w) ==
    \/ Read(w) \/ ReadEnds(w) \/ dnsSelfAnswer(w) \/ resolveAlias(w)
    \/ Send(w) \/ Receive(w) \/ forwardDNSTCP(w) \/ ForwardFails(w) \/ WriteTo(w)

Next ==
    \/ \E w \in Workers : \/ ReadFrom(w) \/ Accept(w) \/ Ask(w)
                          \/ Goroutine(w) \/ WriteDNSTCP(w) \/ WriteFails(w)
    \/ \E l \in {"udp", "tcp"} : LoopEnds(l)
    \/ \E f \in Families : AddressUp(f) \/ AddressDown(f)

Spec == Init /\ [][Next]_vars

(* Fairness: goroutines run, and every wait but a write on TCP ends: a     *)
(* read of a query after 30 s, an exchange with the resolver after 5 s, and*)
(* its net.Dial over TCP, which the program gives no deadline, when the    *)
(* kernel gives up its SYNs.                                               *)
Fairness == \A w \in Workers : WF_vars(Goroutine(w))

FairSpec == Spec /\ Fairness

\* Clients read what they are sent.
ClientsRead == \A w \in Workers : WF_vars(WriteDNSTCP(w))

-----------------------------------------------------------------------------
(* Properties.                                                             *)

Own(w) == reply[w].id = <<w, taken[w]>>

RightFor(q) ==
    {Zone[q]} \cup (IF AboutSelf(q) THEN {"tailscale"} ELSE {})
              \cup (IF AboutAlias(q) THEN {"addr"} \cap {Zone[TargetOf(q)]} ELSE {})

\* dns.go:359-448: the inductive invariant.  A connection has one answer per
\* query it has read, in order; what comes to an open socket, and so what a UDP
\* client is sent, answers its query or one whose goroutine has its answer; a
\* port passes on only from one that has its answer; and a query for the own name
\* gets past dnsSelfAnswer only if its address was down meanwhile, or unread.
WorkerInv(w) ==
    /\ taken[w] <= Len(asked[w]) /\ Len(asked[w]) <= MaxQueries
    /\ Busy(w) => taken[w] = Len(answered[w]) + 1
    /\ pc[w] \in {"idle", "read"} => taken[w] = Len(answered[w])
    /\ w \in Udp => /\ Len(asked[w]) = IF pc[w] = "idle" THEN 0 ELSE 1
                    /\ pc[w] \notin {"read", "forward"}
    /\ w \in Tcp => pc[w] \notin {"send", "receive"}
    /\ pc[w] = "write" =>
          \E v \in Workers :
             /\ reply[w].id = <<v, taken[w]>> /\ taken[w] \in DOMAIN asked[v]
             /\ reply[w].rr \in RightFor(asked[v][taken[w]])
             /\ v = w \/ ({v, w} \subseteq Udp /\ pc[v] \in {"write", "done"})

WireInv ==
    /\ \A d \in wire : \E v \in Udp :
          /\ d[1] = port[v] /\ d[2].id = <<v, 1>> /\ pc[v] \in {"receive", "write", "done"}
          /\ 1 \in DOMAIN asked[v] /\ d[2].rr = Zone[asked[v][1]]
    /\ \A v, w \in Udp : pc[v] = "receive" /\ pc[w] = "receive" /\ port[v] = port[w] => v = w
    /\ \A v, w \in Udp : port[v] = w /\ pc[w] \notin {"receive", "write", "done"} => v = w

DownInv(w) ==
    Busy(w) /\ AboutSelf(Query(w)) =>
       \/ wasDown[w]
       \/ pc[w] = "self" /\ Query(w)[2] \in tsUp
       \/ pc[w] = "write" /\ (Own(w) => reply[w].rr = "tailscale")

Inv == TypeOK /\ WireInv /\ \A w \in Workers : WorkerInv(w) /\ DownInv(w)

\* dns.go:9-12,196-200: the node's own name is answered with its Tailscale
\* address from the moment there is one.  The address is read per query, while
\* tailscaled may come and go: an A or AAAA query for the own name is forwarded
\* only if there was no address at some time since the query was read, or the
\* addresses could not be read (dns.go:202-205).
SelfOnceUp == \A w \in Workers :
    pc[w] = "write" /\ Own(w) /\ AboutSelf(Query(w))
        => reply[w].rr = "tailscale" \/ wasDown[w]

\* dns.go:394,421,479: every goroutine ends, also that of a client that stays
\* silent and of a resolver that does not answer or is not there, if clients read
\* their answers and stop asking (MaxQueries): a client that keeps asking within
\* 30 s keeps its goroutine.
GoroutinesEnd ==
    ClientsRead => \A w \in Workers : pc[w] # "idle" ~> pc[w] = "done"

\* README.md:128: a name under the alias domain resolves like its target.
AliasResolvesLikeTarget == \A w \in Workers : \A k \in DOMAIN answered[w] :
    AboutAlias(asked[w][k]) /\ answered[w][k].id = <<w, k>>
        => answered[w][k].rr = Zone[TargetOf(asked[w][k])]

Promise == INSTANCE DnsService WITH
    Clients <- Workers, Unreliable <- Udp, Right <- RightFor,
    chosen <- [w \in Workers |-> IF pc[w] = "write" THEN {reply[w]} ELSE {}],
    over <- {w \in Workers : pc[w] = "done"}

\* dns.go:359-448: goroutines, sockets, deadlines and datagrams together are the
\* DNS service: every client gets at most one answer per query, in order.
ImplementsService == Promise!Spec
=============================================================================
