-------------------------------- MODULE Relay --------------------------------
(***************************************************************************)
(* What a proxy session promises its two peers, without handlers, copying  *)
(* goroutines, channels or sockets: an upstream is dialled for clients     *)
(* from trusted sources only, a session is opened with a genuine upstream  *)
(* only, what one peer sends is passed on in order while the session is    *)
(* open and never before, and it is closed only because a peer ended it.   *)
(* TcpProxy, ConnectProxy and PgProxy are shown to implement this.         *)
(***************************************************************************)
EXTENDS Naturals

CONSTANTS Conns, MaxChunks, Sources, TrustedSources

VARIABLES phase,   \* "idle", "new", "open" or "closed"
          source,  \* the range the client's address is in
          genuine, \* the upstream is what the proxy demands of it
          peer, sent, put   \* as in Splice

vars == <<phase, source, genuine, peer, sent, put>>

Sides == {"client", "upstream"}
Other(s) == IF s = "client" THEN "upstream" ELSE "client"

Init ==
    /\ phase = [c \in Conns |-> "idle"]
    /\ source \in [Conns -> Sources]
    /\ genuine \in [Conns -> BOOLEAN]
    /\ peer = [c \in Conns |-> [s \in Sides |-> "none"]]
    /\ sent = [c \in Conns |-> [s \in Sides |-> 0]]
    /\ put = [c \in Conns |-> [s \in Sides |-> 0]]

Becomes(c, from, to) == phase[c] = from /\ phase' = [phase EXCEPT ![c] = to]

Arrive(c) ==
    /\ Becomes(c, "idle", "new")
    /\ peer' = [peer EXCEPT ![c]["client"] = "up"]
    /\ UNCHANGED <<source, genuine, sent, put>>

Dials(c) ==
    /\ source[c] \in TrustedSources
    /\ peer[c]["upstream"] = "none"
    /\ peer' = [peer EXCEPT ![c]["upstream"] = "up"]

\* A proxy that talks to both peers before the session dials on its own.
Dial(c) == phase[c] = "new" /\ Dials(c) /\ UNCHANGED <<phase, source, genuine, sent, put>>

Open(c) ==
    /\ genuine[c]
    /\ Becomes(c, "new", "open")
    /\ Dials(c) \/ (peer[c]["upstream"] # "none" /\ UNCHANGED peer)
    /\ UNCHANGED <<source, genuine, sent, put>>

Refuse(c) ==
    /\ Becomes(c, "new", "closed")
    /\ UNCHANGED <<source, genuine, peer, sent, put>>

PeerBecomes(c, s, states, new) ==
    /\ phase[c] # "closed"
    /\ peer[c][s] \in states
    /\ peer' = [peer EXCEPT ![c][s] = new]
    /\ UNCHANGED <<phase, source, genuine, sent, put>>

Send(c, s) ==
    /\ phase[c] # "closed"
    /\ peer[c][s] = "up"
    /\ sent[c][s] < MaxChunks
    /\ sent' = [sent EXCEPT ![c][s] = @ + 1]
    /\ UNCHANGED <<phase, source, genuine, peer, put>>

Fin(c, s)    == PeerBecomes(c, s, {"up"}, "fin")
Vanish(c, s) == PeerBecomes(c, s, {"up"}, "gone")
Break(c, s)  == PeerBecomes(c, s, {"up", "fin", "gone"}, "reset")

Forward(c, s) ==
    /\ phase[c] = "open"
    /\ put[c][s] < sent[c][s]
    /\ peer[c][Other(s)] # "reset"
    /\ put' = [put EXCEPT ![c][s] = @ + 1]
    /\ UNCHANGED <<phase, source, genuine, peer, sent>>

EndedBy(c, s) == \/ peer[c][s] = "reset"
                 \/ peer[c][s] = "fin" /\ put[c][s] = sent[c][s]

Close(c) ==
    /\ \E s \in Sides : EndedBy(c, s)
    /\ Becomes(c, "open", "closed")
    /\ UNCHANGED <<source, genuine, peer, sent, put>>

Next == \E c \in Conns :
           \/ Arrive(c) \/ Dial(c) \/ Open(c) \/ Refuse(c) \/ Close(c)
           \/ \E s \in Sides : \/ Send(c, s) \/ Fin(c, s) \/ Vanish(c, s)
                               \/ Break(c, s) \/ Forward(c, s)

Spec == Init /\ [][Next]_vars

\* A connection is decided on, what was sent is passed on while the session
\* lasts, a vanished peer is noticed, and an ended session is closed.
Fairness == \A c \in Conns :
    /\ WF_vars(Open(c) \/ Refuse(c))
    /\ WF_vars(Close(c))
    /\ \A s \in Sides :
          /\ WF_vars(Forward(c, s))
          /\ WF_vars(peer[c][s] = "gone" /\ Break(c, s))

FairSpec == Spec /\ Fairness
==============================================================================
