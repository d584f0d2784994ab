------------------------------- MODULE Startup -------------------------------
(***************************************************************************)
(* The parameters of a Postgres StartupMessage on their way upstream: of   *)
(* one client that connects to a passthrough entry (rewriteStartup, fly.go)*)
(* and to a managed one (serveManaged, credentials-manager.go).            *)
(*                                                                         *)
(* A text is a sequence of words.  A message is the protocol version (v3   *)
(* or not), whether the last byte is a NUL, and the fields that the NULs   *)
(* end: key, value, key, value, ..., and an empty one in a sound message.  *)
(* Lengths and encodings are left out.  What the server (external) makes   *)
(* of a message is its own: it takes sound ones only, and of an option     *)
(* that occurs twice the last value.                                       *)
(***************************************************************************)
EXTENDS Naturals, Sequences, FiniteSetsExt

CONSTANTS Messages,     \* the messages that clients send
          Identities,   \* what identifyClient returns
          DBName        \* the default database of the managed entry

Empty == <<>>
AppName == <<"application_name">>
User == <<"user">>
Database == <<"database">>
Replication == <<"replication">>

Texts == Seq(STRING)

ASSUME StartupAssumption ==
    /\ \A m \in Messages : /\ m.v3 \in BOOLEAN /\ m.terminated \in BOOLEAN
                           /\ m.fields \in Seq(Texts)
                           /\ m.terminated => Len(m.fields) > 0
    /\ Identities \subseteq Texts /\ DBName \in Texts

\* A fact about strings that the provers do not have.
ASSUME WordsAssumption == AppName \in Texts

VARIABLES startup,    \* the client's message
          identity,   \* who the client is
          fromTS,     \* it comes from the tailnet
          forwarded,  \* passthrough: "none", "bad-startup" or "sent", and the message sent
          managed     \* managed: the same, and the parameters pgconn is to send

vars == <<startup, identity, fromTS, forwarded, managed>>

Init ==
    /\ startup \in Messages
    /\ identity \in Identities
    /\ fromTS \in BOOLEAN
    /\ forwarded = [state |-> "none"]
    /\ managed = [state |-> "none"]

-----------------------------------------------------------------------------
(* The loop over keys and values, the same in both files.  It stops at an  *)
(* empty key or at the end of the fields; the last field is read without   *)
(* the NUL that ends it.                                                   *)

Stop(f) == Min({k \in 1..Len(f) + 1 : k % 2 = 1 /\ (k >= Len(f) \/ f[k] = Empty)})

ParamsUntilName(f) ==        \* variant: leaves the loop when the name is found
    LET n == Min({k \in 1..Stop(f) : k % 2 = 1 /\ (k = Stop(f) \/ f[k] = AppName)}) IN
    [k \in 1..(IF n = Stop(f) THEN n - 1 ELSE n + 1) \div 2 |-> <<f[2 * k - 1], f[2 * k]>>]
Params(f) == [k \in 1..(Stop(f) - 1) \div 2 |-> <<f[2 * k - 1], f[2 * k]>>]

Malformed(m) ==
    LET f == m.fields IN
    ~m.terminated \/ Stop(f) > Len(f) \/ (Stop(f) = Len(f) /\ f[Len(f)] # Empty)

Encode(ps) ==
    [k \in 1..2 * Len(ps) + 1 |->
        IF k > 2 * Len(ps) THEN Empty ELSE ps[(k + 1) \div 2][2 - (k % 2)]]

Indexes(ps, key) == {k \in DOMAIN ps : ps[k][1] = key}

finalAppName(clientVal, id, ts) ==
    CASE clientVal = Empty -> id
      [] clientVal # Empty /\ ts -> clientVal \o id
      [] clientVal # Empty /\ ~ts -> clientVal

\* The name is replaced where it is first, or appended.
StampedUnlessNamed(ps) ==    \* variant: a name that is present is taken for set
    IF Indexes(ps, AppName) = {} THEN Append(ps, <<AppName, identity>>)
    ELSE LET first == Min(Indexes(ps, AppName)) IN
         [ps EXCEPT ![first][2] = IF fromTS THEN finalAppName(@, identity, fromTS) ELSE @]
Stamped(ps) ==
    IF Indexes(ps, AppName) = {} THEN Append(ps, <<AppName, identity>>)
    ELSE LET first == Min(Indexes(ps, AppName)) IN
         [ps EXCEPT ![first] = <<AppName, finalAppName(@[2], identity, fromTS)>>]

Forwarded(fields) == [state |-> "sent", fields |-> fields]

Rewritten ==
    CASE ~startup.v3 \/ identity = Empty -> Forwarded(startup.fields)
      [] startup.v3 /\ identity # Empty /\ Malformed(startup) -> [state |-> "bad-startup"]
      [] startup.v3 /\ identity # Empty /\ ~Malformed(startup) ->
             LET ps == Params(startup.fields) IN
             Forwarded(IF Stamped(ps) = ps THEN startup.fields ELSE Encode(Stamped(ps)))

rewriteStartup ==
    /\ forwarded.state = "none"
    /\ forwarded' = Rewritten
    /\ UNCHANGED <<startup, identity, fromTS, managed>>

\* A map: of a key that occurs twice, the last value.
LookupFirst(ps, key) ==      \* variant: the first value is kept
    IF Indexes(ps, key) = {} THEN Empty ELSE ps[Min(Indexes(ps, key))][2]
Lookup(ps, key) == IF Indexes(ps, key) = {} THEN Empty ELSE ps[Max(Indexes(ps, key))][2]

chooseDatabase(clientUser, clientDB) ==
    IF clientDB \notin {Empty, clientUser} THEN clientDB ELSE DBName

LogInWith(ps) ==             \* the configuration that pgconn is given
    LET keys == {ps[k][1] : k \in DOMAIN ps} \ {User, Database, AppName, Replication} IN
    [state |-> "sent",
     database |-> chooseDatabase(Lookup(ps, User), Lookup(ps, Database)),
     params |-> [key \in keys |-> Lookup(ps, key)],
     name |-> finalAppName(Lookup(ps, AppName), identity, fromTS)]

serveManaged ==
    /\ managed.state = "none"
    /\ managed' = IF ~startup.v3 \/ Malformed(startup) THEN [state |-> "bad-startup"]
                                                       ELSE LogInWith(Params(startup.fields))
    /\ UNCHANGED <<startup, identity, fromTS, forwarded>>

Next == rewriteStartup \/ serveManaged

Spec == Init /\ [][Next]_vars

-----------------------------------------------------------------------------
(* The server, as the reference.                                           *)

\* Pairs up to the first empty key, which has to be the last field.
Sound(f) == /\ Len(f) % 2 = 1 /\ f[Len(f)] = Empty
            /\ \A k \in 1..Len(f) \div 2 : f[2 * k - 1] # Empty
ServerPairs(f) == [k \in 1..Len(f) \div 2 |-> <<f[2 * k - 1], f[2 * k]>>]

\* What an option ends up as, <<>> if it is not set.
ServerOption(f, key) ==
    LET last == {k \in 1..Len(f) \div 2 :
                    /\ f[2 * k - 1] = key
                    /\ \A l \in k + 1..Len(f) \div 2 : f[2 * l - 1] # key}
    IN IF last = {} THEN Empty ELSE f[2 * CHOOSE k \in last : TRUE]

Taken == startup.v3 /\ startup.terminated /\ Sound(startup.fields)
NamedTwice == \E k, l \in 1..Len(startup.fields) \div 2 :
    k # l /\ startup.fields[2 * k - 1] = AppName /\ startup.fields[2 * l - 1] = AppName

\* fly.go:773-831: the rewriting loses, moves and changes nothing but the value
\* of an application_name: a message that the server would have taken is still
\* one, each of the client's parameters is where it was, and the only one that
\* may follow them is an application_name that the client did not give.
OthersKept ==
    LET mine == ServerPairs(startup.fields)
        theirs == ServerPairs(forwarded.fields)
    IN forwarded.state # "none" /\ Taken =>
        /\ forwarded.state = "sent" /\ Sound(forwarded.fields)
        /\ Len(theirs) \in Len(mine)..Len(mine) + 1
        /\ \A k \in 1..Len(mine) : /\ theirs[k][1] = mine[k][1]
                                   /\ mine[k][1] # AppName => theirs[k][2] = mine[k][2]
        /\ Len(theirs) > Len(mine) => /\ theirs[Len(theirs)][1] = AppName
                                      /\ \A k \in 1..Len(mine) : mine[k][1] # AppName

\* fly.go:630-646, credentials-manager.go:82: the server sees a client by the
\* same application_name on both paths, which look for it in different code,
\* and by one that ends in the client's identity if it comes from the tailnet.
\* It takes a message without a second application_name, as passthrough attributes
\* no other (TailnetAttributed); of two names the managed path looks at the last,
\* like the server (ManagedAsServer).
SameNameOnBothPaths ==
    forwarded.state = "sent" /\ managed.state = "sent" /\ Taken /\ ~NamedTwice =>
        LET name == ServerOption(forwarded.fields, AppName) IN
        /\ name = managed.name
        /\ fromTS => \E own \in {Empty, ServerOption(startup.fields, AppName)} :
                        name = own \o identity

\* fly.go:630-633: "For Tailscale clients we always append the tailnet identity,
\* so a human behind a client-set name (e.g. psql) is still attributable": of a
\* passthrough client that comes from the tailnet, the application_name that the
\* server ends up with is one of the client's own, or none, and the identity.
TailnetAttributed ==
    forwarded.state = "sent" /\ Taken /\ fromTS =>
        \E own \in {Empty} \cup {pair[2] : pair \in Range(ServerPairs(startup.fields))} :
            ServerOption(forwarded.fields, AppName) = own \o identity

\* credentials-manager.go:81-109: a managed session runs with the options that
\* the server would have read from the client's own message, repeated ones
\* included, in the database it would have chosen, unless that is what a driver
\* fills in, and by the application_name it would have had, stamped.
ManagedAsServer ==
    managed.state # "none" /\ Taken =>
        LET option(key) == ServerOption(startup.fields, key)
            given == {startup.fields[2 * k - 1] : k \in 1..Len(startup.fields) \div 2}
        IN /\ managed.state = "sent"
           /\ managed.params = [key \in given \ {User, Database, AppName, Replication} |-> option(key)]
           /\ managed.database = IF option(Database) \in {Empty, option(User)}
                                 THEN DBName ELSE option(Database)
           /\ managed.name = finalAppName(option(AppName), identity, fromTS)
=============================================================================
