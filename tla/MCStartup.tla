----------------------------- MODULE MCStartup -----------------------------
(* Instances of Startup: up to three parameters, well or badly ended.      *)
EXTENDS Startup

Bob == <<"bob">>
Psql == <<"psql">>
Pairs == {User, Database, AppName, <<"options">>} \X {Empty, Bob, Psql}

Endings == {<<Empty>>, <<>>, <<<<"options">>>>, <<Empty, Empty>>, <<Empty, AppName, Psql, Empty>>}

MessagesDef ==
    {m \in {[v3 |-> TRUE, terminated |-> t, fields |-> SubSeq(Encode(ps), 1, 2 * Len(ps)) \o end] :
                t \in BOOLEAN, ps \in UNION {[1..n -> Pairs] : n \in 0..3}, end \in Endings} :
        m.terminated => m.fields # <<>>}
    \cup {[v3 |-> FALSE, terminated |-> FALSE, fields |-> <<>>]}

IdentitiesDef == {<<"id">>}
DBNameDef == <<"default">>
=============================================================================
