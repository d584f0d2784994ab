------------------------------ MODULE MCPgProxy ------------------------------
(* PgProxy for TLC: the sets of inputs that the runs consider.              *)
EXTENDS PgProxy

\* A name that is missing, given once or given twice.
Own == {"client's"}
BoundedInputs ==
    [managed : BOOLEAN, source : Sources, genuine : BOOLEAN,
     opening : {"ssl", "plain", "other"}, startup : {"v3", "cancel", "malformed"},
     ownNames : {<<>>, <<Own>>, <<Own, Own>>}]

\* Every source, upstream, opening and startup; with only the inputs that
\* differ: after another opening no startup is read, only a v3 one has names,
\* they go to sound upstreams only and are read alike after either opening, and
\* the second one matters to who is stamped.
EveryInput ==
    {i \in BoundedInputs :
        /\ i.opening = "plain" => i.startup # "cancel"
        /\ i.opening = "other" => i.startup = "malformed"
        /\ i.startup # "v3" => i.ownNames = <<>>
        /\ i.startup = "v3" /\ (~i.genuine \/ i.opening = "plain") => i.ownNames = <<Own>>
        /\ Len(i.ownNames) > 1 => i.source = "tailnet"}

\* A trusted client that does everything right, and a sound upstream.
Good(managed, opening) ==
    {[managed |-> managed, source |-> "sixpn", genuine |-> TRUE, opening |-> opening,
      startup |-> "v3", ownNames |-> <<Own>>]}

PassthroughInput == Good(FALSE, "ssl")
ManagedInput == Good(TRUE, "ssl")
PlainInput == Good(FALSE, "plain")
==============================================================================
