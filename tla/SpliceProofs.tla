---------------------------- MODULE SpliceProofs ----------------------------
(***************************************************************************)
(* What the steps of Splice preserve, for every proxy that is built on it. *)
(***************************************************************************)
EXTENDS Splice, TLAPS

\* A connection that a step does not touch keeps its invariant.
LEMMA SpliceInvUntouched ==
    ASSUME NEW c \in Conns, SpliceInv(c),
           pc'[c] = pc[c], peer'[c] = peer[c], open'[c] = open[c], sent'[c] = sent[c],
           put'[c] = put[c], copier'[c] = copier[c], errc'[c] = errc[c]
    PROVE  SpliceInv(c)'
BY DEF SpliceInv, Together, NothingMadeUp, Balanced, EndsForAReason, OpenInSession,
       Copied, EndedBy, Exited, Received, Sides

\* Once a result has been received, at least one goroutine is gone, and what
\* is still to be posted fits.
LEMMA ResultsAccounted ==
    ASSUME SpliceTypeOK, NEW c \in Conns, SpliceInv(c), Copied(c), pc[c] # "splice"
    PROVE  /\ \E s \in Sides : copier[c][s] = "exit"
           /\ \A s \in Sides : copier[c][s] # "exit" => Len(errc[c]) = 0
<1>1. Len(errc[c]) + 1 = Exited(c, "client") + Exited(c, "upstream")
  BY DEF SpliceInv, Balanced, Received
<1>2. Len(errc[c]) \in Nat
  BY DEF SpliceTypeOK
<1> QED BY <1>1, <1>2 DEF Exited, Sides

\* The promises of the session core follow from its invariant.
LEMMA ClosedForAReason ==
    ASSUME SpliceTypeOK, NEW c \in Conns, SpliceInv(c), Copied(c), \E s \in Sides : ~open[c][s]
    PROVE  \E s \in Sides : EndedBy(c, s)
<1>1. pc[c] # "splice"
  BY DEF SpliceInv, OpenInSession
<1>2. \E s \in Sides : copier[c][s] = "exit"
  BY <1>1, ResultsAccounted
<1> QED BY <1>2 DEF SpliceInv, EndsForAReason

\* tcpproxy.go:105, pgproxy.go:286: sockets are closed after an end only.
LEMMA CloseOnlyAfterEndFollows ==
    ASSUME SpliceTypeOK, \A c \in Conns : SpliceInv(c)
    PROVE  CloseOnlyAfterEnd
BY ClosedForAReason DEF CloseOnlyAfterEnd

\* tcpproxy.go:107, pgproxy.go:277: a buffer of one is enough.
LEMMA SendersNeverBlockFollows ==
    ASSUME SpliceTypeOK, \A c \in Conns : SpliceInv(c)
    PROVE  SendersNeverBlock
<1> SUFFICES ASSUME NEW c \in Conns, Copied(c), pc[c] # "splice",
                    NEW s \in Sides, copier[c][s] # "exit"
             PROVE  Room(c)
  BY DEF SendersNeverBlock
<1>1. Len(errc[c]) = 0
  BY ResultsAccounted
<1> QED BY <1>1, SpliceAssumption DEF Room

\* The peers and the kernel: the types.
LEMMA EnvironmentTypeOK ==
    ASSUME SpliceTypeOK, NEW c \in Conns, NEW s \in Sides, PeerStep(c, s) \/ KeepAlive(c, s)
    PROVE  SpliceTypeOK'
<1>1. CASE PeerSend(c, s)
  <2>1. sent[c][s] + 1 \in 0..MaxChunks
    BY <1>1, SpliceAssumption DEF PeerSend, SpliceTypeOK
  <2>2. sent' \in [Conns -> [Sides -> 0..MaxChunks]]
    BY <1>1, <2>1 DEF PeerSend, SpliceTypeOK
  <2> QED BY <1>1, <2>2 DEF PeerSend, SpliceTypeOK
<1>2. ASSUME NEW new \in PeerStates, NEW states, PeerBecomes(c, s, states, new)
      PROVE  SpliceTypeOK'
  <2>1. peer' \in [Conns -> [Sides -> PeerStates]]
    BY <1>2 DEF PeerBecomes, SpliceTypeOK
  <2> QED BY <1>2, <2>1 DEF PeerBecomes, SpliceTypeOK
<1>3. "fin" \in PeerStates /\ "reset" \in PeerStates /\ "gone" \in PeerStates
  BY DEF PeerStates
<1> QED BY <1>1, <1>2, <1>3 DEF PeerStep, PeerFin, PeerReset, PeerVanish, KeepAlive

\* The copying goroutines: the types.  A chunk is held only if it was sent.
LEMMA CopyingTypeOK ==
    ASSUME SpliceTypeOK, NEW c \in Conns, NEW s \in Sides, SpliceInv(c),
           CopierStep(c, s) \/ WriteOk(c, s)
    PROVE  SpliceTypeOK'
<1>1. ASSUME NEW from, NEW to \in CopierStates, CopierBecomes(c, s, from, to)
      PROVE  copier' \in [Conns -> [Sides -> CopierStates]]
  BY <1>1 DEF CopierBecomes, SpliceTypeOK
<1>2. {"read", "write", "eof", "err", "exit"} \subseteq CopierStates
  BY DEF CopierStates
<1>3. CASE CopyRead(c, s) \/ CopyReadEnd(c, s) \/ WriteErr(c, s)
  BY <1>1, <1>2, <1>3 DEF CopyRead, CopyReadEnd, WriteErr, SpliceTypeOK
<1>4. CASE Post(c, s)
  <2>1. copier' \in [Conns -> [Sides -> CopierStates]]
    BY <1>1, <1>2, <1>4 DEF Post
  <2>2. errc' \in [Conns -> Seq({"nil", "err"})]
    <3>1. PICK r \in {"nil", "err"} : errc' = [errc EXCEPT ![c] = Append(errc[c], r)]
      BY <1>4 DEF Post
    <3>2. Append(errc[c], r) \in Seq({"nil", "err"})
      BY DEF SpliceTypeOK
    <3> QED BY <3>1, <3>2 DEF SpliceTypeOK
  <2> QED BY <1>4, <2>1, <2>2 DEF Post, SpliceTypeOK
<1>5. CASE WriteOk(c, s)
  <2>1. copier' \in [Conns -> [Sides -> CopierStates]]
    BY <1>1, <1>2, <1>5 DEF WriteOk
  <2>2. put[c][s] + 1 \in 0..MaxChunks
    <3>1. put[c][s] \in Nat /\ sent[c][s] \in 0..MaxChunks
      BY DEF SpliceTypeOK
    <3>2. put[c][s] < sent[c][s]
      BY <1>5 DEF WriteOk, CopierBecomes, SpliceInv, NothingMadeUp
    <3> QED BY <3>1, <3>2, SpliceAssumption
  <2>3. put' \in [Conns -> [Sides -> 0..MaxChunks]]
    BY <1>5, <2>2 DEF WriteOk, SpliceTypeOK
  <2> QED BY <1>5, <2>1, <2>3 DEF WriteOk, SpliceTypeOK
<1> QED BY <1>3, <1>4, <1>5 DEF CopierStep

\* A step of c that leaves pc, copier and errc alone and lets no peer take
\* back an end keeps the invariant, if it makes up no chunk.
LEMMA PeerInv ==
    ASSUME NEW c \in Conns, SpliceInv(c),
           UNCHANGED <<pc, open, copier, errc>>, NothingMadeUp(c)',
           \A s \in Sides : EndedBy(c, s) => EndedBy(c, s)'
    PROVE  SpliceInv(c)'
BY DEF SpliceInv, Together, Balanced, EndsForAReason, OpenInSession, Copied, Exited, Received

\* The peers and the kernel: a peer that ended a session has ended it for good.
LEMMA EnvironmentInv ==
    ASSUME SpliceTypeOK, NEW c \in Conns, NEW s \in Sides, PeerStep(c, s) \/ KeepAlive(c, s),
           NEW d \in Conns, SpliceInv(d)
    PROVE  SpliceInv(d)'
<1>1. CASE d # c
  <2>1. /\ pc'[d] = pc[d] /\ peer'[d] = peer[d] /\ open'[d] = open[d] /\ sent'[d] = sent[d]
        /\ put'[d] = put[d] /\ copier'[d] = copier[d] /\ errc'[d] = errc[d]
    BY <1>1 DEF PeerStep, PeerSend, PeerFin, PeerReset, PeerVanish, KeepAlive, PeerBecomes,
                SpliceTypeOK
  <2> QED BY <2>1, SpliceInvUntouched
<1>2. CASE d = c /\ PeerSend(c, s)
  <2>1. /\ \A t \in Sides : sent'[c][t] = IF t = s THEN sent[c][t] + 1 ELSE sent[c][t]
        /\ \A t \in Sides : sent[c][t] \in Nat /\ put[c][t] \in Nat
    BY <1>2 DEF PeerSend, SpliceTypeOK
  <2>2. \A t \in Sides : EndedBy(c, t) => EndedBy(c, t)'
    BY <1>2, <2>1 DEF PeerSend, EndedBy
  <2>3. NothingMadeUp(c)'
    BY <1>2, <2>1 DEF PeerSend, SpliceInv, NothingMadeUp
  <2> QED BY <1>2, <2>2, <2>3, PeerInv DEF PeerSend
<1>3. ASSUME d = c, NEW states, NEW new, PeerBecomes(c, s, states, new),
             peer[c][s] = "up" \/ new = "reset"
      PROVE  SpliceInv(d)'
  <2>1. \A t \in Sides : peer'[c][t] = IF t = s THEN new ELSE peer[c][t]
    BY <1>3 DEF PeerBecomes, SpliceTypeOK
  <2>2. \A t \in Sides : EndedBy(c, t) => EndedBy(c, t)'
    BY <1>3, <2>1 DEF PeerBecomes, EndedBy
  <2>3. NothingMadeUp(c)'
    BY <1>3 DEF PeerBecomes, SpliceInv, NothingMadeUp
  <2> QED BY <1>3, <2>2, <2>3, PeerInv DEF PeerBecomes
<1>4. CASE d = c /\ (PeerFin(c, s) \/ PeerReset(c, s) \/ PeerVanish(c, s) \/ KeepAlive(c, s))
  BY <1>3, <1>4 DEF PeerFin, PeerReset, PeerVanish, KeepAlive, PeerBecomes
<1> QED BY <1>1, <1>2, <1>4 DEF PeerStep

\* A step of the goroutine that copies from s: it moves on without ending, or
\* it ends and a peer has ended the session.
LEMMA CopierMoveInv ==
    ASSUME NEW c \in Conns, NEW s \in Sides, NEW from, NEW to,
           SpliceTypeOK, SpliceInv(c), CopierBecomes(c, s, from, to),
           from \in {"read", "write"}, to \in {"read", "write", "eof", "err"},
           to \in {"eof", "err"} => \E t \in Sides : EndedBy(c, t),
           UNCHANGED <<pc, open, errc>>, NothingMadeUp(c)',
           \A t \in Sides : EndedBy(c, t) => EndedBy(c, t)'
    PROVE  SpliceInv(c)'
<1>1. \A t \in Sides : copier'[c][t] = IF t = s THEN to ELSE copier[c][t]
  BY DEF CopierBecomes, SpliceTypeOK
<1>2. copier[c][s] = from
  BY DEF CopierBecomes
<1>3. Together(c)' /\ Copied(c) /\ Copied(c)'
  BY <1>1, <1>2 DEF SpliceInv, Together, Copied, Sides
<1>4. \A t \in Sides : Exited(c, t)' = Exited(c, t)
  BY <1>1, <1>2 DEF Exited
<1>5. Balanced(c)'
  BY <1>3, <1>4 DEF SpliceInv, Balanced, Received, Sides
<1>6. EndsForAReason(c)'
  BY <1>1 DEF SpliceInv, EndsForAReason
<1>7. OpenInSession(c)'
  BY DEF SpliceInv, OpenInSession
<1> QED BY <1>3, <1>5, <1>6, <1>7 DEF SpliceInv

\* The copying goroutines: each result is posted once, and only for an end.
LEMMA CopyingInv ==
    ASSUME SpliceTypeOK, NEW c \in Conns, NEW s \in Sides, CopierStep(c, s) \/ WriteOk(c, s),
           NEW d \in Conns, SpliceInv(d)
    PROVE  SpliceInv(d)'
<1>1. CASE d # c
  <2>1. /\ pc'[d] = pc[d] /\ peer'[d] = peer[d] /\ open'[d] = open[d] /\ sent'[d] = sent[d]
        /\ put'[d] = put[d] /\ copier'[d] = copier[d] /\ errc'[d] = errc[d]
    BY <1>1 DEF CopierStep, CopyRead, CopyReadEnd, WriteErr, WriteOk, Post, CopierBecomes,
                SpliceTypeOK
  <2> QED BY <2>1, SpliceInvUntouched
<1>2. CASE d = c
  <2>0. /\ \A t \in Sides : sent[c][t] \in Nat /\ put[c][t] \in Nat
        /\ s \in Sides /\ Other(s) \in Sides
    BY DEF SpliceTypeOK, Sides, Other
  <2>1. ASSUME NEW from, NEW to, CopierBecomes(c, s, from, to)
        PROVE  /\ \A t \in Sides : copier'[c][t] = IF t = s THEN to ELSE copier[c][t]
               /\ copier[c][s] = from
               /\ from # "off" => Copied(c)
    BY <1>2, <2>1 DEF CopierBecomes, SpliceTypeOK, SpliceInv, Together, Copied, Sides
  <2>2. CASE CopyRead(c, s)
    <3>1. NothingMadeUp(c)'
      BY <1>2, <2>1, <2>2 DEF CopyRead, Pending, SpliceInv, NothingMadeUp
    <3>2. \A t \in Sides : EndedBy(c, t) => EndedBy(c, t)'
      BY <2>2 DEF CopyRead, EndedBy
    <3> QED BY <1>2, <2>2, <3>1, <3>2, CopierMoveInv DEF CopyRead
  <2>3. ASSUME NEW from \in {"read", "write"}, NEW to \in {"eof", "err"},
               CopierBecomes(c, s, from, to), \E t \in Sides : EndedBy(c, t),
               UNCHANGED <<pc, peer, open, sent, put, errc>>
        PROVE  SpliceInv(c)'
    <3>1. NothingMadeUp(c)'
      BY <1>2, <2>1, <2>3 DEF SpliceInv, NothingMadeUp
    <3>2. \A t \in Sides : EndedBy(c, t) => EndedBy(c, t)'
      BY <2>3 DEF EndedBy
    <3> QED BY <1>2, <2>3, <3>1, <3>2, CopierMoveInv
  <2>4. CASE CopyReadEnd(c, s)
    <3>1. Copied(c)
      BY <2>1, <2>4 DEF CopyReadEnd
    <3>2. \E t \in Sides : EndedBy(c, t)
      BY <1>2, <2>4, <3>1, ClosedForAReason DEF CopyReadEnd, ReadEof, ReadFails, EndedBy
    <3> QED BY <1>2, <2>3, <2>4, <3>2 DEF CopyReadEnd
  <2>5. CASE WriteErr(c, s)
    <3>1. Copied(c)
      BY <2>1, <2>5 DEF WriteErr
    <3>2. \E t \in Sides : EndedBy(c, t)
      BY <1>2, <2>0, <2>5, <3>1, ClosedForAReason DEF WriteErr, EndedBy
    <3> QED BY <1>2, <2>3, <2>5, <3>2 DEF WriteErr
  <2>6. CASE WriteOk(c, s)
    <3>1. \A t \in Sides : put'[c][t] = IF t = s THEN put[c][t] + 1 ELSE put[c][t]
      BY <2>6 DEF WriteOk, SpliceTypeOK
    <3>2. /\ copier[c][s] = "write" /\ put[c][s] < sent[c][s]
          /\ \A t \in Sides : copier'[c][t] = IF t = s THEN "read" ELSE copier[c][t]
      BY <1>2, <2>1, <2>6 DEF WriteOk, SpliceInv, NothingMadeUp
    <3>3. NothingMadeUp(c)'
      BY <1>2, <2>0, <2>6, <3>1, <3>2 DEF WriteOk, SpliceInv, NothingMadeUp
    <3>4. \A t \in Sides : EndedBy(c, t) => EndedBy(c, t)'
      BY <2>0, <2>6, <3>1, <3>2 DEF WriteOk, EndedBy
    <3> QED BY <1>2, <2>6, <3>3, <3>4, CopierMoveInv DEF WriteOk
  <2>7. CASE Post(c, s)
    <3>1. PICK result \in {"nil", "err"} :
             /\ copier[c][s] \in {"eof", "err"}
             /\ \A t \in Sides : copier'[c][t] = IF t = s THEN "exit" ELSE copier[c][t]
             /\ errc'[c] = Append(errc[c], result)
      BY <2>1, <2>7 DEF Post, SpliceTypeOK
    <3>2. Len(errc'[c]) = Len(errc[c]) + 1 /\ Len(errc[c]) \in Nat
      BY <3>1 DEF SpliceTypeOK
    <3>3. Together(c)' /\ Copied(c) /\ Copied(c)'
      BY <1>2, <3>1 DEF SpliceInv, Together, Copied, Sides
    <3>4. Exited(c, "client")' + Exited(c, "upstream")'
            = Exited(c, "client") + Exited(c, "upstream") + 1
      BY <2>0, <3>1 DEF Exited, Sides
    <3>5. Received(c)' = Received(c) /\ Received(c) \in Nat
      BY <2>7 DEF Post, Received
    <3>6. Balanced(c)'
      <4>1. Len(errc[c]) + Received(c) = Exited(c, "client") + Exited(c, "upstream")
        BY <1>2, <3>3 DEF SpliceInv, Balanced
      <4>2. Exited(c, "client") \in Nat /\ Exited(c, "upstream") \in Nat
        BY DEF Exited
      <4> QED BY <3>2, <3>3, <3>4, <3>5, <4>1, <4>2 DEF Balanced
    <3>7. EndsForAReason(c)'
      BY <1>2, <2>7, <3>1 DEF Post, SpliceInv, EndsForAReason, EndedBy
    <3>8. NothingMadeUp(c)' /\ OpenInSession(c)'
      BY <1>2, <2>7, <3>1 DEF Post, SpliceInv, NothingMadeUp, OpenInSession
    <3> QED BY <1>2, <3>3, <3>6, <3>7, <3>8 DEF SpliceInv
  <2> QED BY <1>2, <2>2, <2>4, <2>5, <2>6, <2>7 DEF CopierStep
<1> QED BY <1>1, <1>2

\* A step of the session core as a whole: what the proxies rely on.
LEMMA CoreStep ==
    ASSUME SpliceTypeOK, \A d \in Conns : SpliceInv(d), NEW c \in Conns, NEW s \in Sides,
           PeerStep(c, s) \/ KeepAlive(c, s) \/ CopierStep(c, s) \/ WriteOk(c, s)
    PROVE  /\ SpliceTypeOK' /\ pc' = pc /\ open' = open
           /\ \A d \in Conns : /\ SpliceInv(d)'
                               /\ Copied(d)' <=> Copied(d)
                               /\ peer[d]["client"] = "reset" => peer'[d]["client"] = "reset"
                               /\ \A t \in Sides : peer'[d][t] = "none" <=> peer[d][t] = "none"
<1>1. SpliceTypeOK' /\ \A d \in Conns : SpliceInv(d)'
  BY EnvironmentTypeOK, EnvironmentInv, CopyingTypeOK, CopyingInv
<1>2. pc' = pc /\ open' = open
  BY DEF PeerStep, PeerSend, PeerFin, PeerReset, PeerVanish, KeepAlive, PeerBecomes,
         CopierStep, CopyRead, CopyReadEnd, WriteErr, Post, WriteOk
<1>3. \A d \in Conns : Copied(d)' <=> Copied(d)
  <2>1. CASE copier' = copier
    BY <2>1 DEF Copied
  <2>2. ASSUME NEW from, NEW to, CopierBecomes(c, s, from, to), from # "off", to # "off"
        PROVE  \A d \in Conns : Copied(d)' <=> Copied(d)
    <3>1. copier[c]["client"] # "off" /\ copier[c]["upstream"] # "off"
      BY <2>2 DEF CopierBecomes, SpliceInv, Together, Sides
    <3> QED BY <2>2, <3>1 DEF CopierBecomes, Copied, SpliceTypeOK, Sides
  <2>3. CASE PeerStep(c, s) \/ KeepAlive(c, s)
    BY <2>1, <2>3 DEF PeerStep, PeerSend, PeerFin, PeerReset, PeerVanish, KeepAlive, PeerBecomes
  <2>4. CASE CopyRead(c, s) \/ WriteErr(c, s) \/ WriteOk(c, s)
    BY <2>2, <2>4 DEF CopyRead, WriteErr, WriteOk
  <2>5. CASE CopyReadEnd(c, s) \/ Post(c, s)
    BY <2>2, <2>5 DEF CopyReadEnd, Post
  <2> QED BY <2>3, <2>4, <2>5 DEF CopierStep
<1>4. \A d \in Conns : /\ peer[d]["client"] = "reset" => peer'[d]["client"] = "reset"
                       /\ \A t \in Sides : peer'[d][t] = "none" <=> peer[d][t] = "none"
  <2>1. CASE peer' = peer
    BY <2>1
  <2>2. ASSUME NEW states, NEW new, PeerBecomes(c, s, states, new),
               "none" \notin states, "reset" \notin states, new # "none"
        PROVE  \A d \in Conns : /\ peer[d]["client"] = "reset" => peer'[d]["client"] = "reset"
                                /\ \A t \in Sides : peer'[d][t] = "none" <=> peer[d][t] = "none"
    BY <2>2 DEF PeerBecomes, SpliceTypeOK, Sides
  <2>3. CASE PeerSend(c, s) \/ CopierStep(c, s) \/ WriteOk(c, s)
    BY <2>1, <2>3 DEF PeerSend, CopierStep, CopyRead, CopyReadEnd, WriteErr, Post, WriteOk
  <2>4. CASE PeerFin(c, s) \/ PeerVanish(c, s)
    BY <2>2, <2>4 DEF PeerFin, PeerVanish
  <2>5. CASE PeerReset(c, s) \/ KeepAlive(c, s)
    BY <2>2, <2>5 DEF PeerReset, KeepAlive
  <2> QED BY <2>3, <2>4, <2>5 DEF PeerStep
<1> QED BY <1>1, <1>2, <1>3, <1>4

\* The handler receives one result and goes on to its deferred calls.
LEMMA AwaitInv ==
    ASSUME SpliceTypeOK, DOMAIN pc = Conns, NEW c \in Conns, NEW next, NEW result,
           next # "splice", Await(c, next, result), NEW d \in Conns, SpliceInv(d)
    PROVE  SpliceInv(d)'
<1>1. CASE d # c
  <2>1. /\ pc'[d] = pc[d] /\ peer'[d] = peer[d] /\ open'[d] = open[d] /\ sent'[d] = sent[d]
        /\ put'[d] = put[d] /\ copier'[d] = copier[d] /\ errc'[d] = errc[d]
    BY <1>1 DEF Await, SpliceTypeOK
  <2> QED BY <2>1, SpliceInvUntouched
<1>2. CASE d = c
  <2>1. pc'[c] = next /\ pc[c] = "splice"
    BY DEF Await
  <2>2. Len(errc'[c]) = Len(errc[c]) - 1 /\ Len(errc[c]) \in Nat
    BY DEF Await, SpliceTypeOK
  <2>3. Copied(c) /\ Copied(c)'
    BY <1>2, <2>1 DEF Await, SpliceInv, Balanced, Copied
  <2>4. Balanced(c)'
    BY <1>2, <2>1, <2>2, <2>3 DEF Await, SpliceInv, Balanced, Exited, Received
  <2> QED BY <1>2, <2>1, <2>4 DEF Await, SpliceInv, Together, NothingMadeUp, EndsForAReason,
                                 OpenInSession, EndedBy
<1> QED BY <1>1, <1>2

\* Any other step of a handler, outside of the session.
LEMMA HandlerInv ==
    ASSUME NEW c \in Conns, SpliceInv(c), UNCHANGED <<sent, put, copier, errc>>,
           pc[c] # "splice", pc'[c] # "splice",
           \A s \in Sides : EndedBy(c, s) => EndedBy(c, s)'
    PROVE  SpliceInv(c)'
BY DEF SpliceInv, Together, NothingMadeUp, Balanced, EndsForAReason, OpenInSession,
       Copied, Exited, Received

\* The goroutines are started when both sockets are open.
LEMMA StartInv ==
    ASSUME SpliceTypeOK, NEW c \in Conns, SpliceInv(c), ~Copied(c), StartCopying(c),
           pc'[c] = "splice", \A s \in Sides : open[c][s],
           UNCHANGED <<peer, open, sent, put, errc>>
    PROVE  SpliceInv(c)'
<1>1. \A s \in Sides : copier'[c][s] = "read"
  BY DEF StartCopying, SpliceTypeOK
<1>2. Together(c)' /\ Copied(c)' /\ NothingMadeUp(c)' /\ OpenInSession(c)'
  BY <1>1 DEF SpliceInv, Together, NothingMadeUp, Copied, OpenInSession, Sides
<1>3. EndsForAReason(c)'
  BY <1>1 DEF EndsForAReason
<1>4. Balanced(c)'
  BY <1>1, <1>2 DEF SpliceInv, Balanced, Received, Exited, Sides
<1> QED BY <1>2, <1>3, <1>4 DEF SpliceInv
=============================================================================
