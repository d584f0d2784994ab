--------------------------- MODULE MCDnsForwarder ---------------------------
(* Instances of DnsForwarder.  The app behind the alias has 6PN addresses  *)
(* only, as on Fly, and the resolver knows nothing under the alias domain. *)
EXTENDS DnsForwarder

QueriesDef == {<<"self", "TXT">>, <<"self", "AAAA">>, <<"alias", "A">>, <<"alias", "AAAA">>}

ZoneDef == [q \in Names \X {"A", "AAAA", "TXT"} |->
    CASE q[1] = "alias" -> "nxdomain"
      [] q[1] # "alias" /\ q[2] = "A" -> "nodata"
      [] q[1] # "alias" /\ q[2] # "A" -> "addr"]

\* The transports share nothing but the node's addresses: clients of one of
\* them per behaviour.
OneTransport == (\A w \in Udp : pc'[w] = "idle") \/ (\A w \in Tcp : pc'[w] = "idle")

MCSpec == Init /\ [][Next /\ OneTransport]_vars /\ Fairness
=============================================================================
