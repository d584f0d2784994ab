----------------------------- MODULE DnsService -----------------------------
(***************************************************************************)
(* What a DNS forwarder promises its clients, without sockets, goroutines  *)
(* or deadlines.  A client asks queries; for each in turn an answer is     *)
(* chosen, then delivered.  An answer is one the query may have (Right),   *)
(* except that a client of an unreliable transport may get the answer to   *)
(* the query of another one that no longer waits for it.  A client that is *)
(* over, which may happen at any time, gets nothing more.  DnsForwarder is *)
(* shown to implement this.                                                *)
(***************************************************************************)
EXTENDS Naturals, Sequences

CONSTANTS Clients, Unreliable,   \* clients, and those of an unreliable transport
          Queries,               \* what can be asked
          Right(_),              \* the results that a query may have
          MaxQueries             \* bound: queries of one client

VARIABLES asked,      \* client -> the queries it has asked
          chosen,     \* client -> the answer it is about to get, in a set
          answered,   \* client -> the answers it has been sent
          over        \* the clients that get nothing more

vars == <<asked, chosen, answered, over>>

Init ==
    /\ asked = [c \in Clients |-> <<>>]
    /\ chosen = [c \in Clients |-> {}]
    /\ answered = [c \in Clients |-> <<>>]
    /\ over = {}

Ask(c) ==
    /\ c \notin over
    /\ Len(asked[c]) < MaxQueries
    /\ \E q \in Queries : asked' = [asked EXCEPT ![c] = Append(@, q)]
    /\ UNCHANGED <<chosen, answered, over>>

\* The clients whose answer to their query k may be given to c.
NoLongerWaits(d) == d \in over \/ chosen[d] # {}
Givers(c, k) ==
    {d \in {c} \cup (IF c \in Unreliable THEN {d \in Unreliable : NoLongerWaits(d)} ELSE {}) :
        k \in DOMAIN asked[d]}

Choose(c) ==
    LET k == Len(answered[c]) + 1 IN
    /\ c \notin over /\ chosen[c] = {}
    /\ k \in DOMAIN asked[c]
    /\ \E d \in Givers(c, k) : \E rr \in Right(asked[d][k]) :
          chosen' = [chosen EXCEPT ![c] = {[id |-> <<d, k>>, rr |-> rr]}]
    /\ UNCHANGED <<asked, answered, over>>

Deliver(c) ==
    /\ \E a \in chosen[c] : answered' = [answered EXCEPT ![c] = Append(@, a)]
    /\ chosen' = [chosen EXCEPT ![c] = {}]
    /\ over' \in {over, over \cup {c}}
    /\ UNCHANGED asked

End(c) ==
    /\ c \notin over
    /\ over' = over \cup {c}
    /\ chosen' = [chosen EXCEPT ![c] = {}]
    /\ UNCHANGED <<asked, answered>>

Next == \E c \in Clients : Ask(c) \/ Choose(c) \/ Deliver(c) \/ End(c)

Spec == Init /\ [][Next]_vars
=============================================================================
