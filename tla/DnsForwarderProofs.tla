-------------------------- MODULE DnsForwarderProofs --------------------------
(***************************************************************************)
(* Proofs about DnsForwarder for any sets of UDP and TCP clients, any      *)
(* queries, any resolver and any number of queries on one connection.      *)
(***************************************************************************)
EXTENDS DnsForwarder, TLAPS

\* The states of a UDP worker whose query has been sent to the resolver.
Sent == {"receive", "write", "done"}

\* What a step of one worker leaves alone of another one, d.
Untouched(d) ==
    /\ pc'[d] = pc[d] /\ asked'[d] = asked[d] /\ taken'[d] = taken[d]
    /\ reply'[d] = reply[d] /\ answered'[d] = answered[d] /\ wasDown'[d] = wasDown[d]
    /\ tsUp' = tsUp

\* What no step takes back: what was asked, and that a UDP query has its answer.
Kept ==
    \A v \in Workers :
       /\ \A k \in DOMAIN asked[v] : k \in DOMAIN asked'[v] /\ asked'[v][k] = asked[v][k]
       /\ v \in Udp /\ pc[v] \in {"write", "done"} => pc'[v] \in {"write", "done"}

\* dns.go:359-448: a worker that a step leaves alone keeps its invariant.
LEMMA UntouchedInv ==
    ASSUME NEW w \in Workers, WorkerInv(w), DownInv(w), Untouched(w), Kept
    PROVE  WorkerInv(w)' /\ DownInv(w)'
<1>1. ASSUME pc[w] = "write"
      PROVE  \E v \in Workers :
             /\ reply[w].id = <<v, taken[w]>> /\ taken[w] \in DOMAIN asked'[v]
             /\ reply[w].rr \in RightFor(asked'[v][taken[w]])
             /\ v = w \/ ({v, w} \subseteq Udp /\ pc'[v] \in {"write", "done"})
  BY <1>1 DEF WorkerInv, Kept
<1>2. WorkerInv(w)'
  BY <1>1 DEF WorkerInv, Untouched, Busy, RightFor
<1>3. DownInv(w)'
  BY DEF DownInv, Untouched, Busy, Query, Own
<1> QED BY <1>2, <1>3

\* dns.go:388-403: datagrams and ports are as they were, and nobody opens a socket.
LEMMA WireKept ==
    ASSUME WireInv, Kept, UNCHANGED <<port, wire>>,
           \A v \in Udp : /\ pc[v] \in Sent => pc'[v] \in Sent
                          /\ pc'[v] = "receive" => pc[v] = "receive"
    PROVE  WireInv'
<1>1. ASSUME NEW d \in wire PROVE \E v \in Udp :
          /\ d[1] = port[v] /\ d[2].id = <<v, 1>> /\ pc'[v] \in Sent
          /\ 1 \in DOMAIN asked'[v] /\ d[2].rr = Zone[asked'[v][1]]
  BY DEF WireInv, Kept, Sent, Workers
<1> QED BY <1>1 DEF WireInv, Sent

\* startDNSForwarder: nothing has been asked or sent.
LEMMA InitInv == Init => Inv
<1> SUFFICES ASSUME Init PROVE Inv
  OBVIOUS
<1>1. TypeOK
  BY DnsAssumption DEF Init, TypeOK, Workers
<1>2. WireInv
  BY DEF Init, WireInv
<1>3. ASSUME NEW w \in Workers PROVE WorkerInv(w) /\ DownInv(w)
  <2>1. pc[w] = "idle" /\ asked[w] = <<>> /\ taken[w] = 0 /\ answered[w] = <<>>
    BY DEF Init
  <2> QED BY <2>1, DnsAssumption DEF WorkerInv, DownInv, Busy
<1> QED BY <1>1, <1>2, <1>3 DEF Inv

-----------------------------------------------------------------------------
(* The steps.                                                              *)

\* What is left to show of a step of one worker.
LEMMA OneWorker ==
    ASSUME Inv, NEW w \in Workers, TypeOK', Kept, WireInv', WorkerInv(w)', DownInv(w)',
           \A d \in Workers \ {w} : Untouched(d)
    PROVE  Inv'
<1>1. ASSUME NEW d \in Workers PROVE WorkerInv(d)' /\ DownInv(d)'
  BY UntouchedInv DEF Inv
<1> QED BY <1>1 DEF Inv

\* dns.go:201-264: every answer is of a type, and every worker has a query.
LEMMA Typed ==
    ASSUME Inv, NEW w \in Workers
    PROVE  /\ Busy(w) => /\ taken[w] \in 1..MaxQueries /\ taken[w] \in DOMAIN asked[w]
                         /\ Query(w) \in Queries
           /\ w \in Udp /\ Busy(w) => taken[w] = 1
           /\ pc[w] = "write" => reply[w] \in Answers
           /\ \A q \in Queries : RightFor(q) \subseteq Results \cup {"tailscale"}
<1>1. /\ asked[w] \in Seq(Queries) /\ answered[w] \in Seq(Answers) /\ taken[w] \in 0..MaxQueries
      /\ MaxQueries \in Nat \ {0}
  BY DnsAssumption DEF Inv, TypeOK
<1>2. WorkerInv(w)
  BY DEF Inv
<1>3. ASSUME Busy(w)
      PROVE  taken[w] \in 1..MaxQueries /\ taken[w] \in DOMAIN asked[w] /\ Query(w) \in Queries
  <2>1. taken[w] = Len(answered[w]) + 1 /\ taken[w] <= Len(asked[w])
    BY <1>2, <1>3 DEF WorkerInv
  <2>2. taken[w] \in 1..MaxQueries /\ taken[w] \in DOMAIN asked[w]
    BY <1>1, <2>1
  <2> QED BY <1>1, <2>2 DEF Query
<1>4. w \in Udp /\ Busy(w) => taken[w] = 1
  BY <1>1, <1>2, <1>3 DEF WorkerInv, Busy
<1>5. ASSUME NEW q \in Queries PROVE RightFor(q) \subseteq Results \cup {"tailscale"}
  <2>1. q \in Names \X (Families \cup {"TXT"})
    BY DnsAssumption
  <2>2. Zone[q] \in Results
    BY <2>1, DnsAssumption
  <2> QED BY <2>2 DEF RightFor, Results
<1>6. ASSUME pc[w] = "write" PROVE reply[w] \in Answers
  <2>1. reply[w].rr \in Results \cup {"tailscale"}
    <3>1. PICK v \in Workers : taken[w] \in DOMAIN asked[v] /\ reply[w].rr \in RightFor(asked[v][taken[w]])
      BY <1>2, <1>6 DEF WorkerInv
    <3>2. asked[v] \in Seq(Queries)
      BY DEF Inv, TypeOK
    <3> QED BY <1>5, <3>1, <3>2
  <2>2. reply[w] # NoAnswer
    BY <2>1 DEF NoAnswer, Results
  <2> QED BY <2>2 DEF Inv, TypeOK
<1> QED BY <1>3, <1>4, <1>5, <1>6

\* What Take makes of wasDown.
LEMMA TakeDown ==
    ASSUME TypeOK, NEW w \in Workers, NEW q, Take(w, q)
    PROVE  /\ wasDown' \in [Workers -> BOOLEAN]
           /\ \A d \in Workers : wasDown'[d] <=> IF d = w THEN q[2] \notin tsUp ELSE wasDown[d]
<1> DEFINE down == q[2] \notin tsUp
<1>1. wasDown' = [wasDown EXCEPT ![w] = down] /\ down \in BOOLEAN /\ wasDown \in [Workers -> BOOLEAN]
  BY DEF Take, TypeOK
<1> HIDE DEF down
<1>2. /\ wasDown' \in [Workers -> BOOLEAN]
      /\ \A d \in Workers : wasDown'[d] = IF d = w THEN down ELSE wasDown[d]
  BY <1>1
<1> QED BY <1>2 DEF down

\* dns.go:361-367: a datagram comes in.
LEMMA ReadFromInv == ASSUME Inv, NEW w \in Workers, ReadFrom(w) PROVE Inv'
<1>0. TypeOK /\ WorkerInv(w) /\ WireInv
  BY DEF Inv
<1>1. PICK q \in Queries : asked' = [asked EXCEPT ![w] = <<q>>] /\ Take(w, q)
  BY DEF ReadFrom
<1>2. /\ w \in Udp /\ pc[w] = "idle" /\ asked[w] = <<>> /\ taken[w] = 0 /\ answered[w] = <<>>
      /\ MaxQueries \in Nat \ {0}
  <2>1. asked[w] \in Seq(Queries) /\ answered[w] \in Seq(Answers) /\ taken[w] \in 0..MaxQueries
    BY <1>0 DEF TypeOK
  <2> QED BY <1>0, <2>1, DnsAssumption DEF ReadFrom, Goto, WorkerInv
<1>3. /\ pc' = [pc EXCEPT ![w] = "self"] /\ taken' = [taken EXCEPT ![w] = 1]
      /\ \A d \in Workers : wasDown'[d] <=> IF d = w THEN q[2] \notin tsUp ELSE wasDown[d]
      /\ wasDown' \in [Workers -> BOOLEAN]
      /\ UNCHANGED <<reply, answered, port, wire, loops, tsUp>>
  <2>1. pc' = [pc EXCEPT ![w] = "self"] /\ UNCHANGED <<reply, answered, port, wire, loops, tsUp>>
    BY DEF ReadFrom, Goto
  <2>2. taken' = [taken EXCEPT ![w] = 1]
    BY <1>0, <1>1, <1>2 DEF Take, TypeOK
  <2> QED BY <1>0, <1>1, <2>1, <2>2, TakeDown
<1>4. asked' \in [Workers -> Seq(Queries)] /\ \A d \in Workers : d # w => asked'[d] = asked[d]
  <2>1. <<q>> \in Seq(Queries)
    OBVIOUS
  <2> QED BY <1>0, <1>1, <2>1 DEF TypeOK
<1>5. TypeOK'
  <2>1. 1 \in 0..MaxQueries
    BY <1>2
  <2>2. taken' \in [Workers -> 0..MaxQueries]
    BY <1>0, <1>3, <2>1 DEF TypeOK
  <2>3. pc' \in [Workers -> {"idle", "read", "self", "alias", "send", "receive", "forward",
                              "write", "done"}]
    BY <1>0, <1>3 DEF TypeOK
  <2> QED BY <1>0, <1>3, <1>4, <2>2, <2>3 DEF TypeOK
<1>6. Kept
  <2>1. DOMAIN asked[w] = {}
    BY <1>2
  <2>2. \A d \in Workers : d # w => pc'[d] = pc[d]
    BY <1>0, <1>3 DEF TypeOK
  <2> QED BY <1>2, <1>4, <2>1, <2>2 DEF Kept
<1>7. WireInv'
  BY <1>0, <1>2, <1>3, <1>6, WireKept DEF Sent, TypeOK, Workers
<1>8. \A d \in Workers \ {w} : Untouched(d)
  <2>1. \A d \in Workers : wasDown[d] \in BOOLEAN /\ wasDown'[d] \in BOOLEAN
    BY <1>0, <1>3 DEF TypeOK
  <2> QED BY <1>0, <1>1, <1>3, <1>4, <2>1 DEF Untouched, TypeOK
<1>9. pc'[w] = "self" /\ asked'[w] = <<q>> /\ taken'[w] = 1 /\ answered'[w] = <<>>
      /\ (wasDown'[w] <=> q[2] \notin tsUp)
  BY <1>0, <1>1, <1>2, <1>3 DEF TypeOK
<1>10. WorkerInv(w)'
  BY <1>2, <1>9, DnsAssumption DEF WorkerInv, Busy
<1>11. DownInv(w)'
  BY <1>3, <1>9 DEF DownInv, Query
<1> QED BY <1>5, <1>6, <1>7, <1>8, <1>10, <1>11, OneWorker

\* A goroutine goes on: it may have settled its reply, or written it.
Moved(w, to) ==
    /\ pc' = [pc EXCEPT ![w] = to]
    /\ UNCHANGED <<client, port, wire, loops, tsUp>>
    /\ wasDown' \in {wasDown, [wasDown EXCEPT ![w] = TRUE]}
    /\ \/ UNCHANGED reply
       \/ \E a \in Answers : reply' = [reply EXCEPT ![w] = a]
    /\ \/ UNCHANGED answered
       \/ pc[w] = "write" /\ answered' = [answered EXCEPT ![w] = Append(@, reply[w])]

\* dns.go:367-448: such a step keeps all but the goroutine's own invariant.
LEMMA MovedInv ==
    ASSUME Inv, NEW w \in Workers,
           NEW to \in {"read", "self", "alias", "send", "forward", "write", "done"},
           Moved(w, to), pc[w] # "done",
           w \in Udp /\ pc[w] \in {"write", "done"} => to = "done",
           w \in Udp /\ pc[w] = "receive" => to \in {"write", "done"},
           WorkerInv(w)', DownInv(w)'
    PROVE  Inv'
<1>0. TypeOK /\ WireInv /\ UNCHANGED <<asked, taken, port, wire, loops, tsUp>>
  BY DEF Inv, Moved, client
<1>a. wasDown' \in [Workers -> BOOLEAN] /\ \A d \in Workers : d # w => wasDown'[d] = wasDown[d]
  BY <1>0 DEF Moved, TypeOK
<1>1. /\ pc' \in [Workers -> {"idle", "read", "self", "alias", "send", "receive", "forward",
                               "write", "done"}]
      /\ pc'[w] = to /\ \A d \in Workers : d # w => pc'[d] = pc[d]
  BY <1>0 DEF Moved, TypeOK
<1>2. /\ reply' \in [Workers -> Answers \cup {NoAnswer}]
      /\ \A d \in Workers : d # w => reply'[d] = reply[d]
  <2>1. reply \in [Workers -> Answers \cup {NoAnswer}]
    BY <1>0 DEF TypeOK
  <2>2. CASE UNCHANGED reply
    BY <2>1, <2>2
  <2>3. CASE \E a \in Answers : reply' = [reply EXCEPT ![w] = a]
    BY <2>1, <2>3
  <2> QED BY <2>2, <2>3 DEF Moved
<1>3. /\ answered' \in [Workers -> Seq(Answers)]
      /\ \A d \in Workers : d # w => answered'[d] = answered[d]
  <2>1. CASE UNCHANGED answered
    BY <1>0, <2>1 DEF TypeOK
  <2>2. CASE pc[w] = "write" /\ answered' = [answered EXCEPT ![w] = Append(@, reply[w])]
    <3>1. reply[w] \in Answers /\ answered[w] \in Seq(Answers)
      BY <1>0, <2>2, Typed DEF TypeOK
    <3>2. Append(answered[w], reply[w]) \in Seq(Answers)
      BY <3>1
    <3> QED BY <1>0, <2>2, <3>2 DEF TypeOK
  <2> QED BY <2>1, <2>2 DEF Moved
<1>4. TypeOK'
  BY <1>0, <1>a, <1>1, <1>2, <1>3 DEF TypeOK
<1>5. Kept
  BY <1>0, <1>1 DEF Kept
<1>6. \A v \in Udp : /\ pc[v] \in Sent => pc'[v] \in Sent
                     /\ pc'[v] = "receive" => pc[v] = "receive"
  BY <1>1 DEF Sent, Workers
<1>7. WireInv'
  BY <1>0, <1>5, <1>6, WireKept
<1>8. \A d \in Workers \ {w} : Untouched(d)
  BY <1>0, <1>a, <1>1, <1>2, <1>3 DEF Untouched
<1> QED BY <1>4, <1>5, <1>7, <1>8, OneWorker

\* dns.go:368-384,427-446: a query is settled by an answer it may have.
LEMMA ReplyInv ==
    ASSUME Inv, NEW w \in Workers, NEW from \in {"self", "alias", "forward"},
           NEW rr \in RightFor(Query(w)), Reply(w, from, rr),
           UNCHANGED <<client, answered, network>>,
           AboutSelf(Query(w)) => wasDown[w] \/ rr = "tailscale"
    PROVE  Inv'
<1>0. TypeOK /\ WorkerInv(w) /\ pc[w] = from /\ Busy(w)
      /\ UNCHANGED <<asked, taken, answered, port, wire, loops, tsUp, wasDown>>
  BY DEF Inv, Reply, Goto, Busy, client, network
<1>1. /\ taken[w] \in 1..MaxQueries /\ taken[w] \in DOMAIN asked[w] /\ Query(w) \in Queries
      /\ rr \in Results \cup {"tailscale"}
  BY <1>0, Typed
<1>2. AnswerTo(w, rr) \in Answers
  BY <1>1 DEF AnswerTo, Answers
<1>3. Moved(w, "write")
  BY <1>0, <1>2 DEF Moved, Reply, Goto, client, network
<1>4. pc'[w] = "write" /\ reply'[w] = [id |-> <<w, taken[w]>>, rr |-> rr]
  BY <1>0 DEF TypeOK, Reply, Goto, AnswerTo
<1>5. RightFor(asked'[w][taken'[w]]) = RightFor(Query(w))
  BY <1>0 DEF RightFor, Query
<1>6. WorkerInv(w)'
  <2>1. /\ reply'[w].id = <<w, taken'[w]>> /\ taken'[w] \in DOMAIN asked'[w]
        /\ reply'[w].rr \in RightFor(asked'[w][taken'[w]])
    BY <1>0, <1>1, <1>4, <1>5
  <2>2. \E v \in Workers :
             /\ reply'[w].id = <<v, taken'[w]>> /\ taken'[w] \in DOMAIN asked'[v]
             /\ reply'[w].rr \in RightFor(asked'[v][taken'[w]])
             /\ v = w \/ ({v, w} \subseteq Udp /\ pc'[v] \in {"write", "done"})
    BY <2>1
  <2> QED BY <1>0, <1>4, <2>2 DEF WorkerInv, Busy, RightFor
<1>7. DownInv(w)'
  <2>1. (AboutSelf(Query(w)) <=> AboutSelf(Query(w))') /\ wasDown'[w] = wasDown[w]
    BY <1>0 DEF AboutSelf, Query
  <2> QED BY <1>4, <2>1 DEF DownInv
<1> QED BY <1>0, <1>3, <1>6, <1>7, MovedInv

\* A query goes on to the next source.
LEMMA PassOnInv ==
    ASSUME Inv, NEW w \in Workers, NEW from \in {"self", "alias"}, NEW to \in {"alias", "send", "forward"},
           to = "send" => w \in Udp, to = "forward" => w \in Tcp,
           Goto(w, from, to), UNCHANGED <<client, reply, answered, port, wire, loops, tsUp>>,
           wasDown' \in {wasDown, [wasDown EXCEPT ![w] = TRUE]},
           AboutSelf(Query(w)) => wasDown'[w]
    PROVE  Inv'
<1>0. TypeOK /\ WorkerInv(w) /\ pc[w] = from /\ Busy(w) /\ Udp \cap Tcp = {}
      /\ UNCHANGED <<asked, taken, reply, answered, port, wire, loops, tsUp>>
  BY DnsAssumption DEF Inv, Goto, Busy, client
<1>1. Moved(w, to) /\ pc'[w] = to
  BY <1>0 DEF Moved, Goto, client, TypeOK
<1>2. WorkerInv(w)'
  BY <1>0, <1>1 DEF WorkerInv, Busy
<1>3. DownInv(w)'
  <2>1. AboutSelf(Query(w)) <=> AboutSelf(Query(w))'
    BY <1>0 DEF AboutSelf, Query
  <2> QED BY <2>1 DEF DownInv
<1> QED BY <1>0, <1>1, <1>2, <1>3, MovedInv

\* A goroutine ends without a word.
LEMMA EndInv ==
    ASSUME Inv, NEW w \in Workers, NEW from \in {"read", "send", "receive", "forward", "write"},
           Goto(w, from, "done"), UNCHANGED <<client, reply, answered, network>>
    PROVE  Inv'
<1>0. TypeOK /\ WorkerInv(w) /\ pc[w] = from
      /\ UNCHANGED <<asked, taken, reply, answered, port, wire, loops, tsUp, wasDown>>
  BY DEF Inv, Goto, client, network
<1>1. Moved(w, "done") /\ pc'[w] = "done"
  BY <1>0 DEF Moved, Goto, client, network, TypeOK
<1>2. WorkerInv(w)'
  BY <1>0, <1>1 DEF WorkerInv, Busy
<1>3. DownInv(w)'
  BY <1>1 DEF DownInv, Busy
<1> QED BY <1>0, <1>1, <1>2, <1>3, MovedInv

\* dns.go:344-354: the own name has a Tailscale address, or had none for a while,
\* or none that could be read.
LEMMA dnsSelfAnswerInv == ASSUME Inv, NEW w \in Workers, dnsSelfAnswer(w) PROVE Inv'
<1>1. /\ pc[w] = "self" /\ Busy(w) /\ DownInv(w) /\ wasDown \in [Workers -> BOOLEAN]
      /\ UNCHANGED <<client, answered, port, wire, loops, tsUp>>
  BY DEF dnsSelfAnswer, Busy, Inv, TypeOK
<1>2. CASE /\ AboutSelf(Query(w)) /\ selfTailscaleAddr(Query(w)[2])
           /\ Reply(w, "self", "tailscale") /\ UNCHANGED wasDown
  <2>1. "tailscale" \in RightFor(Query(w))
    BY <1>2 DEF RightFor
  <2>2. UNCHANGED network
    BY <1>1, <1>2 DEF network
  <2> QED BY <1>1, <1>2, <2>1, <2>2, ReplyInv
<1>3. CASE /\ ~(AboutSelf(Query(w)) /\ selfTailscaleAddr(Query(w)[2]))
           /\ Goto(w, "self", "alias") /\ UNCHANGED <<reply, wasDown>>
  <2>1. AboutSelf(Query(w)) => wasDown'[w]
    BY <1>1, <1>3 DEF DownInv, selfTailscaleAddr
  <2> QED BY <1>1, <1>3, <2>1, PassOnInv
<1>4. CASE /\ Goto(w, "self", "alias") /\ UNCHANGED reply
           /\ wasDown' = [wasDown EXCEPT ![w] = TRUE]
  <2>1. wasDown'[w]
    BY <1>1, <1>4
  <2> QED BY <1>1, <1>4, <2>1, PassOnInv
<1> QED BY <1>2, <1>3, <1>4 DEF dnsSelfAnswer

\* dns.go:297-339: an alias has the target's addresses, or is forwarded.
LEMMA resolveAliasInv == ASSUME Inv, NEW w \in Workers, resolveAlias(w) PROVE Inv'
<1>1. pc[w] = "alias" /\ Busy(w) /\ DownInv(w) /\ UNCHANGED <<client, answered, network>>
  BY DEF resolveAlias, Busy, Inv
<1>2. AboutSelf(Query(w)) => wasDown[w]
  BY <1>1 DEF DownInv
<1>3. CASE /\ AboutAlias(Query(w)) /\ Zone[TargetOf(Query(w))] = "addr"
           /\ Reply(w, "alias", "addr")
  <2>1. "addr" \in RightFor(Query(w))
    BY <1>3 DEF RightFor
  <2> QED BY <1>1, <1>2, <1>3, <2>1, ReplyInv
<1>4. CASE Goto(w, "alias", IF w \in Udp THEN "send" ELSE "forward") /\ UNCHANGED reply
  <2>0. UNCHANGED <<port, wire, loops, tsUp, wasDown>>
    BY <1>1 DEF network
  <2>1. CASE w \in Udp
    BY <1>1, <1>2, <1>4, <2>0, <2>1, PassOnInv
  <2>2. CASE w \notin Udp
    BY <1>1, <1>2, <1>4, <2>0, <2>2, PassOnInv DEF Workers
  <2> QED BY <2>1, <2>2
<1> QED BY <1>3, <1>4 DEF resolveAlias

\* dns.go:472-483: the resolver's answer over TCP.
LEMMA forwardDNSTCPInv == ASSUME Inv, NEW w \in Workers, forwardDNSTCP(w) PROVE Inv'
<1>1. pc[w] = "forward" /\ Busy(w) /\ DownInv(w) /\ UNCHANGED <<client, answered, network>>
  BY DEF forwardDNSTCP, Reply, Goto, Busy, Inv
<1>2. AboutSelf(Query(w)) => wasDown[w]
  BY <1>1 DEF DownInv
<1>3. Zone[Query(w)] \in RightFor(Query(w))
  BY DEF RightFor
<1> QED BY <1>1, <1>2, <1>3, ReplyInv DEF forwardDNSTCP

\* dns.go:398-403: whose answer it is that comes to an open socket.
LEMMA Received ==
    ASSUME Inv, NEW w \in Udp, pc[w] = "receive", NEW d \in wire, d[1] = port[w]
    PROVE  /\ d[2] \in Answers
           /\ \E v \in Udp : /\ d[2].id = <<v, 1>> /\ 1 \in DOMAIN asked[v]
                             /\ d[2].rr = Zone[asked[v][1]]
                             /\ v = w \/ pc[v] \in {"write", "done"}
<1>1. WireInv /\ TypeOK
  BY DEF Inv
<1>2. PICK v \in Udp : /\ d[1] = port[v] /\ d[2].id = <<v, 1>> /\ pc[v] \in Sent
                       /\ 1 \in DOMAIN asked[v] /\ d[2].rr = Zone[asked[v][1]]
  BY <1>1 DEF WireInv, Sent
<1>3. v = w \/ pc[v] \in {"write", "done"}
  BY <1>1, <1>2 DEF WireInv, Sent
<1>4. d[2] \in Answers
  BY <1>1 DEF TypeOK
<1> QED BY <1>2, <1>3, <1>4

\* dns.go:398-403: whatever comes to the socket becomes the reply.
LEMMA ReceiveInv == ASSUME Inv, NEW w \in Udp, Receive(w) PROVE Inv'
<1>0. TypeOK /\ WorkerInv(w) /\ DownInv(w) /\ pc[w] = "receive" /\ Busy(w) /\ w \in Workers
      /\ UNCHANGED <<asked, taken, answered, port, wire, loops, tsUp, wasDown>>
  BY DEF Inv, Receive, Goto, Busy, client, network, Workers
<1>1. PICK d \in wire : d[1] = port[w] /\ reply' = [reply EXCEPT ![w] = d[2]]
  BY DEF Receive
<1>2. PICK v \in Udp : /\ d[2].id = <<v, 1>> /\ 1 \in DOMAIN asked[v]
                       /\ d[2].rr = Zone[asked[v][1]]
                       /\ v = w \/ pc[v] \in {"write", "done"}
  BY <1>0, <1>1, Received
<1>3. d[2] \in Answers /\ taken[w] = 1
  BY <1>0, <1>1, Received, Typed
<1>4. Moved(w, "write")
  BY <1>0, <1>1, <1>3 DEF Moved, Receive, Goto, client, network
<1>5. /\ pc'[w] = "write" /\ reply'[w] = d[2]
      /\ \A u \in Workers : u # w => pc'[u] = pc[u]
  BY <1>0, <1>1 DEF TypeOK, Receive, Goto
<1>6. WorkerInv(w)'
  <2>1. d[2].rr \in RightFor(asked[v][1])
    BY <1>2 DEF RightFor
  <2>2. RightFor(asked[v][1]) = RightFor(asked'[v][taken'[w]])
    BY <1>0, <1>3 DEF RightFor
  <2>3. /\ reply'[w].id = <<v, taken'[w]>> /\ taken'[w] \in DOMAIN asked'[v]
        /\ reply'[w].rr \in RightFor(asked'[v][taken'[w]])
        /\ v = w \/ ({v, w} \subseteq Udp /\ pc'[v] \in {"write", "done"})
    BY <1>0, <1>2, <1>3, <1>5, <2>1, <2>2 DEF Workers
  <2>4. \E u \in Workers :
             /\ reply'[w].id = <<u, taken'[w]>> /\ taken'[w] \in DOMAIN asked'[u]
             /\ reply'[w].rr \in RightFor(asked'[u][taken'[w]])
             /\ u = w \/ ({u, w} \subseteq Udp /\ pc'[u] \in {"write", "done"})
    BY <2>3 DEF Workers
  <2> QED BY <1>0, <1>5, <2>4, DnsAssumption DEF WorkerInv, Busy, RightFor
<1>7. DownInv(w)'
  <2>1. (AboutSelf(Query(w)) <=> AboutSelf(Query(w))') /\ wasDown'[w] = wasDown[w]
    BY <1>0 DEF AboutSelf, Query
  <2> QED BY <1>0, <2>1 DEF DownInv
<1> QED BY <1>0, <1>4, <1>6, <1>7, MovedInv

\* dns.go:367-384,427-446: an answer is written, or its client is gone.
LEMMA WriteInv ==
    ASSUME Inv, NEW w \in Workers, WriteTo(w) \/ WriteDNSTCP(w) \/ WriteFails(w)
    PROVE  Inv'
<1>0. TypeOK /\ WorkerInv(w) /\ pc[w] = "write" /\ Busy(w)
      /\ UNCHANGED <<asked, taken, reply, port, wire, loops, tsUp, wasDown>>
  BY DEF Inv, WriteTo, WriteDNSTCP, WriteFails, Goto, Busy, client, network
<1>1. ASSUME answered' = [answered EXCEPT ![w] = Append(@, reply[w])]
      PROVE  answered[w] \in Seq(Answers) /\ Len(answered'[w]) = Len(answered[w]) + 1
  BY <1>0, <1>1 DEF TypeOK
<1>2. taken[w] = Len(answered[w]) + 1
  BY <1>0 DEF WorkerInv
<1>3. CASE WriteTo(w)
  <2>1. /\ pc' = [pc EXCEPT ![w] = "done"] /\ pc'[w] = "done"
        /\ UNCHANGED answered \/ answered' = [answered EXCEPT ![w] = Append(@, reply[w])]
    BY <1>0, <1>3 DEF WriteTo, Goto, TypeOK
  <2>2. Moved(w, "done")
    BY <1>0, <2>1 DEF Moved, client, network
  <2>3. WorkerInv(w)' /\ DownInv(w)'
    BY <1>0, <2>1 DEF WorkerInv, DownInv, Busy
  <2> QED BY <1>0, <2>2, <2>3, MovedInv
<1>4. CASE WriteDNSTCP(w)
  <2>1. /\ pc' = [pc EXCEPT ![w] = "read"] /\ pc'[w] = "read" /\ w \in Tcp /\ w \notin Udp
        /\ answered' = [answered EXCEPT ![w] = Append(@, reply[w])]
    BY <1>0, <1>4, DnsAssumption DEF WriteDNSTCP, Goto, TypeOK
  <2>2. Moved(w, "read")
    BY <1>0, <2>1 DEF Moved, client, network
  <2>3. WorkerInv(w)' /\ DownInv(w)'
    BY <1>0, <1>1, <1>2, <2>1 DEF WorkerInv, DownInv, Busy
  <2> QED BY <1>0, <2>1, <2>2, <2>3, MovedInv
<1>5. CASE WriteFails(w)
  BY <1>5, EndInv DEF WriteFails
<1> QED BY <1>3, <1>4, <1>5

\* dns.go:408-416: a connection comes in.
LEMMA AcceptInv == ASSUME Inv, NEW w \in Workers, Accept(w) PROVE Inv'
<1>0. TypeOK /\ WorkerInv(w) /\ pc[w] = "idle" /\ w \in Tcp /\ w \notin Udp
      /\ UNCHANGED <<asked, taken, reply, answered, port, wire, loops, tsUp, wasDown>>
  BY DnsAssumption DEF Inv, Accept, Goto, client, network
<1>1. Moved(w, "read") /\ pc'[w] = "read"
  BY <1>0 DEF Moved, Accept, Goto, client, network, TypeOK
<1>2. WorkerInv(w)' /\ DownInv(w)'
  BY <1>0, <1>1 DEF WorkerInv, DownInv, Busy
<1> QED BY <1>0, <1>1, <1>2, MovedInv

\* dns.go:450-460: a client pipelines another query behind the ones it has asked.
LEMMA AskInv == ASSUME Inv, NEW w \in Workers, Ask(w) PROVE Inv'
<1>0. /\ TypeOK /\ WorkerInv(w) /\ DownInv(w) /\ WireInv /\ w \in Tcp /\ w \notin Udp
      /\ Len(asked[w]) < MaxQueries /\ MaxQueries \in Nat /\ asked[w] \in Seq(Queries)
      /\ UNCHANGED <<pc, taken, reply, answered, port, wire, loops, tsUp, wasDown>>
  BY DnsAssumption DEF Inv, TypeOK, Ask, network
<1>1. PICK q \in Queries : asked' = [asked EXCEPT ![w] = Append(@, q)]
  BY DEF Ask
<1>2. /\ Append(asked[w], q) \in Seq(Queries)
      /\ Len(Append(asked[w], q)) = Len(asked[w]) + 1
      /\ \A k \in DOMAIN asked[w] : /\ k \in DOMAIN Append(asked[w], q)
                                    /\ Append(asked[w], q)[k] = asked[w][k]
  BY <1>0
<1>3. /\ asked' \in [Workers -> Seq(Queries)] /\ asked'[w] = Append(asked[w], q)
      /\ \A d \in Workers : d # w => asked'[d] = asked[d]
  BY <1>0, <1>1, <1>2 DEF TypeOK
<1>4. TypeOK'
  BY <1>0, <1>3 DEF TypeOK
<1>5. Kept
  BY <1>0, <1>2, <1>3 DEF Kept
<1>6. WireInv'
  BY <1>0, <1>5, WireKept
<1>7. \A d \in Workers \ {w} : Untouched(d)
  BY <1>0, <1>3 DEF Untouched
<1>8. WorkerInv(w)'
  <2>1. ASSUME pc[w] = "write"
        PROVE  /\ reply[w].id = <<w, taken[w]>> /\ taken[w] \in DOMAIN asked[w]
               /\ reply[w].rr \in RightFor(asked[w][taken[w]])
    BY <1>0, <2>1 DEF WorkerInv
  <2>2. ASSUME pc[w] = "write"
        PROVE  \E v \in Workers :
             /\ reply[w].id = <<v, taken[w]>> /\ taken[w] \in DOMAIN asked'[v]
             /\ reply[w].rr \in RightFor(asked'[v][taken[w]])
             /\ v = w \/ ({v, w} \subseteq Udp /\ pc'[v] \in {"write", "done"})
    BY <1>2, <1>3, <2>1, <2>2
  <2>3. taken[w] \in 0..MaxQueries /\ Len(asked[w]) \in Nat /\ Len(asked'[w]) = Len(asked[w]) + 1
    BY <1>0, <1>2, <1>3 DEF TypeOK
  <2> QED BY <1>0, <2>2, <2>3 DEF WorkerInv, Busy, RightFor
<1>9. DownInv(w)'
  <2>1. Busy(w) => Query(w)' = Query(w)
    BY <1>0, <1>2, <1>3, Typed DEF Query
  <2> QED BY <1>0, <2>1 DEF DownInv, Busy, AboutSelf, Own
<1> QED BY <1>4, <1>5, <1>6, <1>7, <1>8, <1>9, OneWorker

\* dns.go:427-433: the next query of a connection is read.
LEMMA ReadInv == ASSUME Inv, NEW w \in Workers, Read(w) PROVE Inv'
<1> DEFINE q == asked[w][taken[w] + 1]
<1>0. /\ TypeOK /\ WorkerInv(w) /\ WireInv /\ pc[w] = "read" /\ w \notin Udp
      /\ taken[w] < Len(asked[w]) /\ Take(w, q)
      /\ UNCHANGED <<asked, reply, answered, port, wire, loops, tsUp>>
  BY DEF Inv, Read, Goto, WorkerInv
<1>1. /\ taken[w] \in 0..MaxQueries /\ Len(asked[w]) \in Nat /\ MaxQueries \in Nat
      /\ Len(asked[w]) <= MaxQueries /\ Len(answered[w]) = taken[w]
  BY <1>0, DnsAssumption DEF TypeOK, WorkerInv
<1>2. /\ taken[w] + 1 \in 0..MaxQueries /\ taken' = [taken EXCEPT ![w] = @ + 1]
      /\ pc' = [pc EXCEPT ![w] = "self"]
  BY <1>0, <1>1 DEF Take, Read, Goto
<1>3. /\ taken' \in [Workers -> 0..MaxQueries] /\ taken'[w] = taken[w] + 1
      /\ \A d \in Workers : d # w => taken'[d] = taken[d]
  BY <1>0, <1>2 DEF TypeOK
<1>4. /\ pc' \in [Workers -> {"idle", "read", "self", "alias", "send", "receive", "forward",
                               "write", "done"}]
      /\ pc'[w] = "self" /\ \A d \in Workers : d # w => pc'[d] = pc[d]
  BY <1>0, <1>2 DEF TypeOK
<1>5. /\ wasDown' \in [Workers -> BOOLEAN] /\ (wasDown'[w] <=> q[2] \notin tsUp)
      /\ \A d \in Workers : d # w => (wasDown'[d] <=> wasDown[d])
  BY <1>0, TakeDown
<1>6. TypeOK'
  BY <1>0, <1>3, <1>4, <1>5 DEF TypeOK
<1>7. Kept
  BY <1>0, <1>4 DEF Kept
<1>8. WireInv'
  BY <1>0, <1>4, <1>7, WireKept DEF Sent, Workers
<1>9. \A d \in Workers \ {w} : Untouched(d)
  <2>1. \A d \in Workers : wasDown[d] \in BOOLEAN /\ wasDown'[d] \in BOOLEAN
    BY <1>0, <1>5 DEF TypeOK
  <2> QED BY <1>0, <1>3, <1>4, <1>5, <2>1 DEF Untouched
<1>10. WorkerInv(w)'
  BY <1>0, <1>1, <1>3, <1>4 DEF WorkerInv, Busy
<1>11. DownInv(w)'
  <2>1. Query(w)' = q
    BY <1>0, <1>3 DEF Query
  <2> QED BY <1>0, <1>4, <1>5, <2>1 DEF DownInv
<1> QED BY <1>6, <1>7, <1>8, <1>9, <1>10, <1>11, OneWorker

\* dns.go:388-397: a UDP query gets a socket of its own and is sent.
LEMMA SendInv == ASSUME Inv, NEW w \in Udp, Send(w) PROVE Inv'
<1>0. /\ TypeOK /\ WorkerInv(w) /\ DownInv(w) /\ WireInv /\ pc[w] = "send" /\ Busy(w) /\ w \in Workers
      /\ UNCHANGED <<asked, taken, reply, answered, loops, tsUp, wasDown>>
  BY DEF Inv, Send, Goto, Busy, client, Workers
<1>1. PICK p \in PortsFor(w) : /\ port' = [port EXCEPT ![w] = p]
                               /\ wire' = wire \cup {<<p, AnswerTo(w, Zone[Query(w)])>>}
  BY DEF Send
<1>2. /\ taken[w] = 1 /\ 1 \in 1..MaxQueries /\ 1 \in DOMAIN asked[w]
      /\ Query(w) = asked[w][1] /\ Query(w) \in Queries
  BY <1>0, Typed DEF Query
<1>3. /\ p \in Udp /\ port[w] \in Udp
      /\ p = w \/ \E v \in Udp : pc[v] \in {"write", "done"} /\ port[v] = p
      /\ \A v \in Udp : pc[v] = "receive" => port[v] # p
  <2>1. CASE p = w
    BY <1>0, <2>1 DEF WireInv, TypeOK
  <2>2. CASE p \in PortsOf({"write", "done"}) \ PortsOf({"receive"})
    BY <1>0, <2>2 DEF PortsOf, TypeOK
  <2> QED BY <2>1, <2>2 DEF PortsFor
<1>4. AnswerTo(w, Zone[Query(w)]) = [id |-> <<w, 1>>, rr |-> Zone[asked[w][1]]]
  BY <1>2 DEF AnswerTo
<1>5. AnswerTo(w, Zone[Query(w)]) \in Answers
  <2>1. Zone[Query(w)] \in Results
    BY <1>2, DnsAssumption
  <2> QED BY <1>0, <1>2, <2>1 DEF AnswerTo, Answers
<1>6. /\ pc' \in [Workers -> {"idle", "read", "self", "alias", "send", "receive", "forward",
                               "write", "done"}]
      /\ pc'[w] = "receive" /\ \A d \in Workers : d # w => pc'[d] = pc[d]
  BY <1>0 DEF TypeOK, Send, Goto
<1>7. /\ port' \in [Udp -> Udp] /\ port'[w] = p
      /\ \A d \in Udp : d # w => port'[d] = port[d]
  BY <1>0, <1>1, <1>3 DEF TypeOK
<1>8. wire' \subseteq Udp \X Answers
  BY <1>0, <1>1, <1>3, <1>5 DEF TypeOK
<1>9. TypeOK'
  BY <1>0, <1>6, <1>7, <1>8 DEF TypeOK
<1>10. Kept
  BY <1>0, <1>6 DEF Kept
<1>11. WireInv'
  <2>1. ASSUME NEW d \in wire'
        PROVE  \E v \in Udp :
                  /\ d[1] = port'[v] /\ d[2].id = <<v, 1>> /\ pc'[v] \in {"receive", "write", "done"}
                  /\ 1 \in DOMAIN asked'[v] /\ d[2].rr = Zone[asked'[v][1]]
    <3>1. CASE d = <<p, AnswerTo(w, Zone[Query(w)])>>
      BY <1>0, <1>2, <1>4, <1>6, <1>7, <3>1
    <3>2. CASE d \in wire
      <4>1. PICK v \in Udp :
                  /\ d[1] = port[v] /\ d[2].id = <<v, 1>> /\ pc[v] \in {"receive", "write", "done"}
                  /\ 1 \in DOMAIN asked[v] /\ d[2].rr = Zone[asked[v][1]]
        BY <1>0, <3>2 DEF WireInv
      <4> QED BY <1>0, <1>6, <1>7, <4>1 DEF Workers
    <3> QED BY <1>1, <2>1, <3>1, <3>2
  <2>2. \A u, v \in Udp : pc'[u] = "receive" /\ pc'[v] = "receive" /\ port'[u] = port'[v] => u = v
    BY <1>0, <1>3, <1>6, <1>7 DEF WireInv, Workers
  <2>3. ASSUME NEW u \in Udp, NEW v \in Udp, port'[u] = v, pc'[v] \notin {"receive", "write", "done"}
        PROVE  u = v
    <3>1. v # w /\ pc[v] \notin {"receive", "write", "done"}
      BY <1>6, <2>3 DEF Workers
    <3>2. u # w
      BY <1>0, <1>3, <1>7, <2>3, <3>1 DEF WireInv
    <3> QED BY <1>0, <1>7, <2>3, <3>1, <3>2 DEF WireInv
  <2> QED BY <2>1, <2>2, <2>3 DEF WireInv
<1>12. \A d \in Workers \ {w} : Untouched(d)
  BY <1>0, <1>6 DEF Untouched
<1>13. WorkerInv(w)'
  BY <1>0, <1>6, DnsAssumption DEF WorkerInv, Busy
<1>14. DownInv(w)'
  <2>1. (AboutSelf(Query(w)) <=> AboutSelf(Query(w))') /\ wasDown'[w] = wasDown[w]
    BY <1>0 DEF AboutSelf, Query
  <2> QED BY <1>0, <2>1 DEF DownInv
<1> QED BY <1>0, <1>9, <1>10, <1>11, <1>12, <1>13, <1>14, OneWorker

\* dns.go:201-228: tailscaled comes up or goes down; a loop returns.
LEMMA AddressInv ==
    ASSUME Inv, NEW f \in Families, AddressUp(f) \/ AddressDown(f)
    PROVE  Inv'
<1>0. /\ TypeOK /\ WireInv /\ tsUp' \subseteq Families
      /\ UNCHANGED <<pc, asked, taken, reply, answered, port, wire, loops>>
  BY DEF Inv, TypeOK, AddressUp, AddressDown, client
<1>1. wasDown' \in [Workers -> BOOLEAN] /\ \A w \in Workers : wasDown[w] => wasDown'[w]
  BY <1>0 DEF AddressUp, AddressDown, TypeOK
<1>2. \A w \in Workers : Busy(w) /\ Query(w)[2] \in tsUp /\ Query(w)[2] \notin tsUp' => wasDown'[w]
  BY <1>0 DEF AddressUp, AddressDown, TypeOK
<1>3. TypeOK'
  BY <1>0, <1>1 DEF TypeOK
<1>4. WireInv'
  BY <1>0 DEF WireInv
<1>5. ASSUME NEW w \in Workers PROVE WorkerInv(w)' /\ DownInv(w)'
  <2>1. WorkerInv(w)'
    BY <1>0 DEF Inv, WorkerInv, Busy, RightFor
  <2>2. DownInv(w)'
    BY <1>0, <1>1, <1>2 DEF Inv, DownInv, Busy, Query, AboutSelf, Own
  <2> QED BY <2>1, <2>2
<1> QED BY <1>3, <1>4, <1>5 DEF Inv

\* dns.go:364,412: an accept loop returns, or nothing happens.
LEMMA LoopEndsInv ==
    ASSUME Inv, (\E l \in {"udp", "tcp"} : LoopEnds(l)) \/ UNCHANGED vars
    PROVE  Inv'
<1>0. loops' \subseteq loops /\ UNCHANGED <<pc, asked, taken, reply, answered, port, wire, tsUp, wasDown>>
  BY DEF LoopEnds, vars, client
<1>1. TypeOK' /\ WireInv'
  BY <1>0 DEF Inv, TypeOK, WireInv
<1>2. ASSUME NEW w \in Workers PROVE WorkerInv(w)' /\ DownInv(w)'
  BY <1>0 DEF Inv, WorkerInv, DownInv, Busy, Query, AboutSelf, Own, RightFor
<1> QED BY <1>1, <1>2 DEF Inv

\* Every step of the forwarder.
LEMMA InvInductive == Inv /\ [Next]_vars => Inv'
<1> SUFFICES ASSUME Inv, [Next]_vars PROVE Inv'
  OBVIOUS
<1>1. ASSUME NEW w \in Workers, Goroutine(w) PROVE Inv'
  <2>1. CASE ReadEnds(w)
    BY <2>1, EndInv DEF ReadEnds
  <2>2. CASE ForwardFails(w)
    BY <2>2, EndInv DEF ForwardFails
  <2>3. CASE Send(w) \/ Receive(w)
    <3>1. w \in Udp
      BY <2>3, DnsAssumption DEF Send, Receive, Goto, Inv, WorkerInv, Workers
    <3> QED BY <2>3, <3>1, SendInv, ReceiveInv
  <2> QED BY <1>1, <2>1, <2>2, <2>3, ReadInv, dnsSelfAnswerInv, resolveAliasInv, forwardDNSTCPInv,
             WriteInv DEF Goroutine
<1>2. CASE UNCHANGED vars \/ \E l \in {"udp", "tcp"} : LoopEnds(l)
  BY <1>2, LoopEndsInv
<1> QED BY <1>1, <1>2, ReadFromInv, AcceptInv, AskInv, WriteInv, AddressInv DEF Next

\* dns.go:359-448: the inductive invariant, for any number of clients.
THEOREM Invariance == Spec => []Inv
<1> QED BY InitInv, InvInductive, PTL DEF Spec

\* dns.go:9-12,196-200: a query for the own name is answered with the Tailscale
\* address unless there was none, or none that could be read, at some time since
\* the query was read.
THEOREM SelfAnswered == Spec => []SelfOnceUp
<1>1. Inv => SelfOnceUp
  BY DEF Inv, SelfOnceUp, DownInv, Busy
<1> QED BY <1>1, Invariance, PTL

-----------------------------------------------------------------------------
(* The forwarder implements the service.                                   *)

chosen == [w \in Workers |-> IF pc[w] = "write" THEN {reply[w]} ELSE {}]
over == {w \in Workers : pc[w] = "done"}

\* What a step shows of the service where it moves one worker.
Shows(w, what, ended) ==
    /\ chosen' = [chosen EXCEPT ![w] = what]
    /\ over' = IF ended THEN over \cup {w} ELSE over

\* What a change of pc shows.
LEMMA Shown ==
    ASSUME TypeOK, NEW w \in Workers, NEW from, NEW to, Goto(w, from, to), from # "done",
           \A d \in Workers \ {w} : reply'[d] = reply[d]
    PROVE  Shows(w, IF to = "write" THEN {reply'[w]} ELSE {}, to = "done")
<1>1. pc'[w] = to /\ pc[w] = from /\ \A d \in Workers : d # w => pc'[d] = pc[d]
  BY DEF TypeOK, Goto
<1>2. chosen' = [chosen EXCEPT ![w] = IF to = "write" THEN {reply'[w]} ELSE {}]
  BY <1>1 DEF chosen
<1>3. over' = IF to = "done" THEN over \cup {w} ELSE over
  BY <1>1 DEF over
<1> QED BY <1>2, <1>3 DEF Shows

\* An answer is chosen.
LEMMA Chosen ==
    ASSUME Inv, NEW w \in Workers, NEW from \in {"self", "alias", "forward", "receive"},
           Goto(w, from, "write"), UNCHANGED <<asked, answered>>,
           NEW v \in Workers, v = w \/ ({v, w} \subseteq Udp /\ pc[v] \in {"write", "done"}),
           NEW rr, reply' = [reply EXCEPT ![w] = [id |-> <<v, taken[w]>>, rr |-> rr]],
           taken[w] \in DOMAIN asked[v], rr \in RightFor(asked[v][taken[w]])
    PROVE  Promise!Choose(w)
<1> DEFINE a == [id |-> <<v, taken[w]>>, rr |-> rr]
<1>0. TypeOK /\ WorkerInv(w) /\ pc[w] = from /\ taken[w] = Len(answered[w]) + 1
  BY DEF Inv, Goto, WorkerInv, Busy
<1>1. reply'[w] = a /\ \A d \in Workers : d # w => reply'[d] = reply[d]
  BY <1>0 DEF TypeOK
<1>2. Shows(w, {a}, FALSE)
  BY <1>0, <1>1, Shown
<1>3. chosen' = [chosen EXCEPT ![w] = {a}] /\ over' = over
  BY <1>2 DEF Shows
<1>4. w \notin over /\ chosen[w] = {}
  BY <1>0 DEF over, chosen
<1>5. v = w \/ ({v, w} \subseteq Udp /\ (v \in over \/ chosen[v] # {}))
  BY DEF over, chosen
<1>6. v \in Promise!Givers(w, taken[w])
  BY <1>5 DEF Promise!Givers, Promise!NoLongerWaits, chosen, over
<1>7. Len(answered[w]) + 1 \in DOMAIN asked[w]
  BY <1>0, Typed DEF Busy
<1> QED BY <1>0, <1>3, <1>4, <1>6, <1>7 DEF Promise!Choose, chosen, over

\* A client gets nothing more.
LEMMA Ends ==
    ASSUME Inv, NEW w \in Workers, NEW from \in {"read", "send", "receive", "forward", "write"},
           Goto(w, from, "done"), UNCHANGED <<asked, reply, answered>>
    PROVE  Promise!End(w)
<1>1. Shows(w, {}, TRUE) /\ pc[w] = from
  BY Shown DEF Inv, Goto
<1> QED BY <1>1 DEF Promise!End, Shows, chosen, over

\* An answer is written.
LEMMA Delivers ==
    ASSUME Inv, NEW w \in Workers, NEW to \in {"read", "done"}, Goto(w, "write", to),
           UNCHANGED <<asked, reply>>, answered' = [answered EXCEPT ![w] = Append(@, reply[w])]
    PROVE  Promise!Deliver(w)
<1>1. Shows(w, {}, to = "done") /\ pc[w] = "write"
  BY Shown DEF Inv, Goto
<1>2. chosen[w] = {reply[w]} /\ chosen' = [chosen EXCEPT ![w] = {}] /\ over' \in {over, over \cup {w}}
  BY <1>1 DEF chosen, Shows
<1> QED BY <1>2 DEF Promise!Deliver, chosen, over

\* What the service does not see.
LEMMA Unseen ==
    ASSUME Inv, UNCHANGED <<asked, reply, answered>>,
           \A w \in Workers : pc'[w] # pc[w] => {pc[w], pc'[w]} \cap {"write", "done"} = {}
    PROVE  UNCHANGED <<asked, chosen, answered, over>>
<1>1. \A w \in Workers : (pc'[w] = "write" <=> pc[w] = "write") /\ (pc'[w] = "done" <=> pc[w] = "done")
  OBVIOUS
<1> QED BY <1>1 DEF chosen, over

\* A goroutine's step is one of the service, or invisible.
LEMMA GoroutineSeen ==
    ASSUME Inv, NEW w \in Workers, Goroutine(w) \/ WriteDNSTCP(w) \/ WriteFails(w)
    PROVE  Promise!Choose(w) \/ Promise!Deliver(w) \/ Promise!End(w) \/ UNCHANGED <<asked, chosen, answered, over>>
<1>0. TypeOK
  BY DEF Inv
<1>a. ASSUME NEW from \in {"idle", "read", "self", "alias", "send"},
             NEW to \in {"self", "alias", "send", "receive", "forward"},
             Goto(w, from, to), UNCHANGED <<asked, reply, answered>>
      PROVE  UNCHANGED <<asked, chosen, answered, over>>
  BY <1>0, <1>a, Unseen DEF Goto, TypeOK
<1>b. ASSUME NEW from \in {"self", "alias", "forward"}, NEW rr \in RightFor(Query(w)),
             Reply(w, from, rr), UNCHANGED <<asked, answered>>
      PROVE  Promise!Choose(w)
  <2>1. taken[w] \in DOMAIN asked[w]
    BY <1>b, Typed DEF Reply, Goto, Busy
  <2> QED BY <1>b, <2>1, Chosen DEF Reply, AnswerTo, Query
<1>1. CASE Read(w)
  BY <1>1, <1>a DEF Read
<1>2. CASE ReadEnds(w) \/ ForwardFails(w) \/ WriteFails(w)
  BY <1>2, Ends DEF ReadEnds, ForwardFails, WriteFails, client
<1>3. CASE dnsSelfAnswer(w)
  <2>1. CASE AboutSelf(Query(w)) /\ Reply(w, "self", "tailscale")
    <3>1. "tailscale" \in RightFor(Query(w))
      BY <2>1 DEF RightFor
    <3> QED BY <1>3, <2>1, <3>1, <1>b DEF dnsSelfAnswer, client
  <2>2. CASE Goto(w, "self", "alias") /\ UNCHANGED reply
    BY <1>3, <2>2, <1>a DEF dnsSelfAnswer, client
  <2> QED BY <1>3, <2>1, <2>2 DEF dnsSelfAnswer
<1>4. CASE resolveAlias(w)
  <2>1. CASE AboutAlias(Query(w)) /\ Zone[TargetOf(Query(w))] = "addr" /\ Reply(w, "alias", "addr")
    <3>1. "addr" \in RightFor(Query(w))
      BY <2>1 DEF RightFor
    <3> QED BY <1>4, <2>1, <3>1, <1>b DEF resolveAlias, client
  <2>2. CASE Goto(w, "alias", IF w \in Udp THEN "send" ELSE "forward") /\ UNCHANGED reply
    <3>1. \E to \in {"send", "forward"} : Goto(w, "alias", to)
      BY <2>2
    <3> QED BY <1>4, <2>2, <3>1, <1>a DEF resolveAlias, client
  <2> QED BY <1>4, <2>1, <2>2 DEF resolveAlias
<1>5. CASE forwardDNSTCP(w)
  <2>1. Zone[Query(w)] \in RightFor(Query(w))
    BY DEF RightFor
  <2> QED BY <1>5, <2>1, <1>b DEF forwardDNSTCP, client
<1>6. CASE Send(w)
  BY <1>6, <1>a DEF Send, client
<1>7. CASE Receive(w)
  <2>1. pc[w] = "receive" /\ w \in Udp /\ UNCHANGED <<asked, answered>> /\ taken[w] = 1
    BY <1>7, Typed, DnsAssumption DEF Receive, Goto, Inv, WorkerInv, Workers, client, Busy
  <2>2. PICK d \in wire : d[1] = port[w] /\ reply' = [reply EXCEPT ![w] = d[2]]
    BY <1>7 DEF Receive
  <2>3. PICK v \in Udp : /\ d[2].id = <<v, 1>> /\ 1 \in DOMAIN asked[v]
                         /\ d[2].rr = Zone[asked[v][1]]
                         /\ v = w \/ pc[v] \in {"write", "done"}
    BY <2>1, <2>2, Received
  <2>4. d[2] = [id |-> <<v, taken[w]>>, rr |-> Zone[asked[v][1]]]
    <3>1. d[2] \in Answers
      BY <2>1, <2>2, Received
    <3> QED BY <2>1, <2>3, <3>1 DEF Answers
  <2>5. Zone[asked[v][1]] \in RightFor(asked[v][taken[w]])
    BY <2>1 DEF RightFor
  <2>6. Goto(w, "receive", "write")
    BY <1>7 DEF Receive
  <2> QED BY <2>1, <2>2, <2>3, <2>4, <2>5, <2>6, Chosen DEF Workers
<1>8. CASE WriteTo(w)
  <2>1. Goto(w, "write", "done") /\ UNCHANGED <<asked, reply>>
    BY <1>8 DEF WriteTo, client
  <2>2. UNCHANGED answered \/ answered' = [answered EXCEPT ![w] = Append(@, reply[w])]
    BY <1>8 DEF WriteTo
  <2> QED BY <2>1, <2>2, Ends, Delivers
<1>9. CASE WriteDNSTCP(w)
  BY <1>9, Delivers DEF WriteDNSTCP, client
<1> QED BY <1>1, <1>2, <1>3, <1>4, <1>5, <1>6, <1>7, <1>8, <1>9 DEF Goroutine

\* A query is asked: over UDP it is the datagram.
LEMMA AskSeen ==
    ASSUME Inv, NEW w \in Workers, ReadFrom(w) \/ Ask(w)
    PROVE  Promise!Ask(w)
<1>0. TypeOK /\ WorkerInv(w) /\ asked[w] \in Seq(Queries)
  BY DEF Inv, TypeOK
<1>1. CASE Ask(w)
  <2>1. w \notin over /\ UNCHANGED <<chosen, answered, over>>
    BY <1>1 DEF Ask, network, chosen, over
  <2> QED BY <1>1, <2>1 DEF Ask, Promise!Ask, chosen, over
<1>2. CASE ReadFrom(w)
  <2>1. pc[w] = "idle" /\ asked[w] = <<>> /\ MaxQueries \in Nat \ {0} /\ Len(asked[w]) < MaxQueries
    BY <1>0, <1>2, DnsAssumption DEF ReadFrom, Goto, WorkerInv
  <2>2. Goto(w, "idle", "self") /\ UNCHANGED <<reply, answered>>
    BY <1>2 DEF ReadFrom
  <2>3. Shows(w, {}, FALSE)
    <3>1. Shows(w, IF "self" = "write" THEN {reply'[w]} ELSE {}, "self" = "done")
      BY <1>0, <2>2, Shown
    <3> QED BY <3>1 DEF Shows
  <2>4. w \notin over /\ UNCHANGED <<chosen, answered, over>>
    BY <2>1, <2>2, <2>3 DEF Shows, chosen, over
  <2>5. PICK q \in Queries : asked' = [asked EXCEPT ![w] = <<q>>]
    BY <1>2 DEF ReadFrom
  <2>6. asked' = [asked EXCEPT ![w] = Append(@, q)]
    BY <2>1, <2>5
  <2> QED BY <2>1, <2>4, <2>6 DEF Promise!Ask, chosen, over
<1> QED BY <1>1, <1>2

\* dns.go:359-448: sockets, goroutines, deadlines and datagrams together are the
\* DNS service, for any clients, queries and resolver.
THEOREM ServiceImplemented == Spec => ImplementsService
<1>1. Init => Promise!Init
  BY DEF Init, Promise!Init
<1>2. Inv /\ [Next]_vars => [Promise!Next]_(Promise!vars)
  <2> SUFFICES ASSUME Inv, [Next]_vars
               PROVE  Promise!Next \/ UNCHANGED <<asked, chosen, answered, over>>
    BY DEF Promise!vars, chosen, over
  <2>1. ASSUME NEW w \in Workers, Goroutine(w) \/ WriteDNSTCP(w) \/ WriteFails(w)
        PROVE  Promise!Next \/ UNCHANGED <<asked, chosen, answered, over>>
    BY <2>1, GoroutineSeen DEF Promise!Next
  <2>2. ASSUME NEW w \in Workers, ReadFrom(w) \/ Ask(w) PROVE Promise!Next
    BY <2>2, AskSeen DEF Promise!Next
  <2>3. ASSUME NEW w \in Workers, Accept(w) PROVE UNCHANGED <<asked, chosen, answered, over>>
    BY <2>3, Unseen DEF Accept, Goto, client, Inv, TypeOK
  <2>4. ASSUME \/ \E l \in {"udp", "tcp"} : LoopEnds(l)
               \/ \E f \in Families : AddressUp(f) \/ AddressDown(f)
               \/ UNCHANGED vars
        PROVE  UNCHANGED <<asked, chosen, answered, over>>
    <3>1. UNCHANGED <<pc, asked, reply, answered>>
      BY <2>4 DEF LoopEnds, AddressUp, AddressDown, client, vars
    <3> QED BY <3>1, Unseen
  <2> QED BY <2>1, <2>2, <2>3, <2>4 DEF Next
<1> QED BY <1>1, <1>2, Invariance, PTL DEF Spec, ImplementsService, Promise!Spec
=============================================================================
