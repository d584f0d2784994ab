---------------------------- MODULE StartupProofs ----------------------------
(***************************************************************************)
(* Proofs about Startup for messages with any number of parameters, any    *)
(* identities and any default database.  Each path is one step, so that    *)
(* what matters is what the two functions compute of a sound message.      *)
(***************************************************************************)
EXTENDS Startup, FiniteSetTheorems, WellFoundedInduction, TLAPS

-----------------------------------------------------------------------------
(* Least and greatest numbers.                                             *)

\* The least number of a set: the segments up to its members are finite sets,
\* and of those one is minimal.
LEMMA Least ==
    ASSUME NEW n \in Nat, NEW T \in SUBSET (1..n), T # {}
    PROVE  Min(T) \in T /\ \A k \in T : Min(T) =< k
<1> DEFINE Up == {1..k : k \in T}
<1>1. Up \subseteq FiniteSubsetsOf(1..n)
  <2>1. ASSUME NEW k \in T PROVE 1..k \in FiniteSubsetsOf(1..n)
    <3>1. IsFiniteSet(1..k) /\ 1..k \subseteq 1..n
      BY FS_Interval
    <3> QED BY <3>1 DEF FiniteSubsetsOf
  <2> QED BY <2>1
<1>2. IsWellFoundedOn(StrictSubsetOrdering(1..n), FiniteSubsetsOf(1..n)) /\ Up # {}
  BY FS_StrictSubsetOrderingWellFounded
<1>3. \E x \in Up : \A y \in Up : <<y, x>> \notin StrictSubsetOrdering(1..n)
  <2> HIDE DEF Up
  <2> QED BY <1>1, <1>2, WFMin
<1>4. PICK m \in T : \A k \in T : <<1..k, 1..m>> \notin StrictSubsetOrdering(1..n)
  BY <1>3
<1>5. \A k \in T : m =< k
  <2> SUFFICES ASSUME NEW k \in T, k < m PROVE FALSE
    OBVIOUS
  <2>1. 1..k \subseteq 1..m /\ m \in 1..m /\ m \notin 1..k /\ 1..m \subseteq 1..n
    OBVIOUS
  <2> QED BY <1>4, <2>1 DEF StrictSubsetOrdering
<1> QED BY <1>5 DEF Min

\* The greatest number of a set, from the least one of its mirror image.
LEMMA Greatest ==
    ASSUME NEW n \in Nat, NEW T \in SUBSET (1..n), T # {}
    PROVE  Max(T) \in T /\ \A k \in T : k =< Max(T)
<1> DEFINE Mirror == {n + 1 - k : k \in T}
<1>1. Mirror \in SUBSET (1..n) /\ Mirror # {}
  <2>1. \A k \in T : n + 1 - k \in 1..n
    OBVIOUS
  <2> QED BY <2>1
<1>2. PICK m \in Mirror : \A k \in Mirror : m =< k
  BY <1>1, Least
<1>3. n + 1 - m \in T
  <2>1. PICK j \in T : m = n + 1 - j
    OBVIOUS
  <2>2. j \in Nat
    OBVIOUS
  <2> HIDE DEF Mirror
  <2>3. n + 1 - m = j
    BY <2>1, <2>2
  <2> QED BY <2>1, <2>3
<1>4. ASSUME NEW k \in T PROVE k =< n + 1 - m
  <2>1. n + 1 - k \in Mirror
    OBVIOUS
  <2>2. m =< n + 1 - k
    BY <1>2, <2>1
  <2>3. m \in Nat /\ k \in Nat
    BY <1>1
  <2> HIDE DEF Mirror
  <2> QED BY <2>2, <2>3
<1> QED BY <1>3, <1>4 DEF Max

-----------------------------------------------------------------------------
(* The loop and the encoding of a sound message.                           *)

Pairs(f) == Len(f) \div 2

\* fly.go:777-795: the loop ends at the last byte of a sound message.
LEMMA StopsAtEnd ==
    ASSUME NEW f \in Seq(Texts), Sound(f)
    PROVE  /\ Pairs(f) \in Nat /\ Len(f) = 2 * Pairs(f) + 1
           /\ Stop(f) = Len(f)
<1>1. Pairs(f) \in Nat /\ Len(f) = 2 * Pairs(f) + 1
  BY DEF Pairs, Sound
<1> DEFINE S == {k \in 1..Len(f) + 1 : k % 2 = 1 /\ (k >= Len(f) \/ f[k] = Empty)}
<1>2. Len(f) \in S
  BY <1>1
<1>3. ASSUME NEW k \in S, k # Len(f) PROVE FALSE
  <2>1. k \in 1..Len(f) + 1 /\ k % 2 = 1 /\ (k >= Len(f) \/ f[k] = Empty)
    BY <1>3
  <2>2. k = 2 * (k \div 2) + 1 /\ k \div 2 \in Nat
    BY <2>1
  <2>3. k < Len(f)
    BY <1>1, <1>3, <2>1, <2>2
  <2>4. k \div 2 + 1 \in 1..Pairs(f) /\ k = 2 * (k \div 2 + 1) - 1
    BY <1>1, <2>2, <2>3
  <2> QED BY <2>1, <2>3, <2>4 DEF Sound, Pairs
<1>4. S = {Len(f)}
  BY <1>2, <1>3
<1>5. Stop(f) = Len(f)
  BY <1>4 DEF Stop, Min
<1> QED BY <1>1, <1>5

\* fly.go:775-795: it reads what a server reads, pair by pair.
LEMMA ReadsPairs ==
    ASSUME NEW f \in Seq(Texts), Sound(f)
    PROVE  /\ Params(f) \in Seq(Texts \X Texts) /\ Len(Params(f)) = Pairs(f)
           /\ \A k \in 1..Pairs(f) : Params(f)[k] = <<f[2 * k - 1], f[2 * k]>>
<1>1. Pairs(f) \in Nat /\ Len(f) = 2 * Pairs(f) + 1 /\ Stop(f) = Len(f)
  BY StopsAtEnd
<1>2. (Stop(f) - 1) \div 2 = Pairs(f)
  BY <1>1
<1>3. Params(f) = [k \in 1..Pairs(f) |-> <<f[2 * k - 1], f[2 * k]>>]
  BY <1>2 DEF Params
<1>4. \A k \in 1..Pairs(f) : f[2 * k - 1] \in Texts /\ f[2 * k] \in Texts
  BY <1>1
<1> DEFINE g(k) == <<f[2 * k - 1], f[2 * k]>>
<1>5. \A k \in 1..Pairs(f) : g(k) \in Texts \X Texts
  BY <1>4
<1>6. Params(f) \in Seq(Texts \X Texts) /\ Len(Params(f)) = Pairs(f)
  <2>1. Params(f) = [k \in 1..Pairs(f) |-> g(k)]
    BY <1>3
  <2> HIDE DEF g
  <2> QED BY <1>1, <1>5, <2>1
<1> QED BY <1>3, <1>6

\* fly.go:817-832: what is written is read again as the same pairs.
LEMMA WritesPairs ==
    ASSUME NEW ps \in Seq(Texts \X Texts)
    PROVE  /\ Encode(ps) \in Seq(Texts) /\ Len(Encode(ps)) = 2 * Len(ps) + 1
           /\ Pairs(Encode(ps)) = Len(ps)
           /\ Encode(ps)[2 * Len(ps) + 1] = Empty
           /\ \A k \in 1..Len(ps) : /\ Encode(ps)[2 * k - 1] = ps[k][1]
                                    /\ Encode(ps)[2 * k] = ps[k][2]
<1> DEFINE at(k) == IF k > 2 * Len(ps) THEN Empty ELSE ps[(k + 1) \div 2][2 - (k % 2)]
<1>1. ASSUME NEW k \in 1..Len(ps)
      PROVE  at(2 * k - 1) = ps[k][1] /\ at(2 * k) = ps[k][2]
  <2>1. (2 * k - 1 + 1) \div 2 = k /\ (2 * k - 1) % 2 = 1 /\ (2 * k + 1) \div 2 = k /\ (2 * k) % 2 = 0
    OBVIOUS
  <2>2. ~(2 * k - 1 > 2 * Len(ps)) /\ ~(2 * k > 2 * Len(ps))
    OBVIOUS
  <2>3. at(2 * k - 1) = ps[k][2 - 1] /\ at(2 * k) = ps[k][2 - 0]
    BY <2>1, <2>2, Zenon
  <2> HIDE DEF at
  <2> QED BY <2>3
<1>2. Empty \in Texts
  BY DEF Empty, Texts
<1>3. ASSUME NEW k \in 1..2 * Len(ps) + 1 PROVE at(k) \in Texts
  <2>1. CASE k > 2 * Len(ps)
    BY <1>2, <2>1
  <2>2. CASE k =< 2 * Len(ps)
    <3>1. (k + 1) \div 2 \in 1..Len(ps) /\ 2 - (k % 2) \in {1, 2}
      BY <2>2
    <3> QED BY <2>2, <3>1
  <2> QED BY <2>1, <2>2
<1>4. Encode(ps) = [k \in 1..2 * Len(ps) + 1 |-> at(k)]
  BY DEF Encode
<1>5. Encode(ps) \in Seq(Texts) /\ Len(Encode(ps)) = 2 * Len(ps) + 1
  <2> HIDE DEF at
  <2> QED BY <1>3, <1>4
<1>6. Pairs(Encode(ps)) = Len(ps)
  BY <1>5 DEF Pairs
<1>7. \A k \in 1..Len(ps) : 2 * k - 1 \in 1..2 * Len(ps) + 1 /\ 2 * k \in 1..2 * Len(ps) + 1
  OBVIOUS
<1>8. Encode(ps)[2 * Len(ps) + 1] = Empty
  BY <1>4
<1>9. ASSUME NEW k \in 1..Len(ps)
      PROVE  Encode(ps)[2 * k - 1] = ps[k][1] /\ Encode(ps)[2 * k] = ps[k][2]
  <2> HIDE DEF at
  <2> QED BY <1>1, <1>4, <1>7
<1> QED BY <1>5, <1>6, <1>8, <1>9

\* A server reads the pairs that either path works with.
LEMMA ServerReads ==
    ASSUME NEW f \in Seq(Texts), Sound(f)
    PROVE  /\ ServerPairs(f) = Params(f)
           /\ \A k \in 1..Len(Params(f)) : Params(f)[k][1] # Empty
<1>1. \A k \in 1..Pairs(f) : Params(f)[k] = <<f[2 * k - 1], f[2 * k]>>
  BY ReadsPairs
<1>2. Params(f) = [k \in 1..Pairs(f) |-> <<f[2 * k - 1], f[2 * k]>>]
  BY StopsAtEnd DEF Params
<1>3. \A k \in 1..Pairs(f) : f[2 * k - 1] # Empty
  BY DEF Sound, Pairs
<1> QED BY <1>1, <1>2, <1>3, ReadsPairs DEF ServerPairs, Pairs

\* Pairs with keys make a sound message, and are what a server reads of it.
LEMMA ServerReadsWritten ==
    ASSUME NEW ps \in Seq(Texts \X Texts), \A k \in 1..Len(ps) : ps[k][1] # Empty
    PROVE  Sound(Encode(ps)) /\ ServerPairs(Encode(ps)) = ps
<1> DEFINE f == Encode(ps)
<1>1. /\ f \in Seq(Texts) /\ Len(f) = 2 * Len(ps) + 1 /\ Pairs(f) = Len(ps) /\ f[Len(f)] = Empty
      /\ \A k \in 1..Len(ps) : f[2 * k - 1] = ps[k][1] /\ f[2 * k] = ps[k][2]
  BY WritesPairs
<1> HIDE DEF f
<1>2. Sound(f)
  BY <1>1 DEF Sound, Pairs
<1>3. \A k \in 1..Len(ps) : ps[k] = <<f[2 * k - 1], f[2 * k]>>
  BY <1>1
<1>4. ps = [k \in 1..Len(ps) |-> <<f[2 * k - 1], f[2 * k]>>]
  BY <1>3
<1>5. ServerPairs(f) = ps
  BY <1>1, <1>4 DEF ServerPairs, Pairs
<1> QED BY <1>2, <1>5 DEF f

\* Of an option that occurs twice a server takes the last value, as the map of
\* parseStartupParams does (credentials-manager.go:183).
LEMMA ServerLooksUp ==
    ASSUME NEW f \in Seq(Texts), Sound(f), NEW key
    PROVE  ServerOption(f, key) = Lookup(Params(f), key)
<1> DEFINE ps == Params(f)
           n == Pairs(f)
           last == {k \in 1..n : /\ f[2 * k - 1] = key
                                 /\ \A l \in k + 1..n : f[2 * l - 1] # key}
<1>1. /\ n \in Nat /\ Len(ps) = n /\ ps \in Seq(Texts \X Texts)
      /\ \A k \in 1..n : ps[k] = <<f[2 * k - 1], f[2 * k]>>
  BY ReadsPairs, StopsAtEnd
<1>2. Indexes(ps, key) = {k \in 1..n : f[2 * k - 1] = key}
  BY <1>1 DEF Indexes
<1>3. ServerOption(f, key) = IF last = {} THEN Empty ELSE f[2 * CHOOSE k \in last : TRUE]
  BY DEF ServerOption, Pairs
<1> HIDE DEF ps, n
<1>4. CASE Indexes(ps, key) = {}
  <2>1. last = {}
    BY <1>2, <1>4
  <2> QED BY <1>3, <1>4, <2>1 DEF Lookup, ps
<1>5. CASE Indexes(ps, key) # {}
  <2> DEFINE m == Max(Indexes(ps, key))
  <2>1. m \in Indexes(ps, key) /\ \A k \in Indexes(ps, key) : k =< m
    <3>1. Indexes(ps, key) \in SUBSET (1..n)
      BY <1>2
    <3> QED BY <1>1, <1>5, <3>1, Greatest
  <2> HIDE DEF m
  <2>2. m \in last
    <3>1. m \in 1..n /\ f[2 * m - 1] = key
      BY <1>2, <2>1
    <3>2. ASSUME NEW l \in m + 1..n, f[2 * l - 1] = key PROVE FALSE
      <4>1. l \in Indexes(ps, key)
        BY <1>1, <1>2, <3>1, <3>2
      <4> QED BY <1>1, <2>1, <3>1, <4>1
    <3> QED BY <3>1, <3>2
  <2>3. ASSUME NEW k \in last PROVE k = m
    <3>1. k \in Indexes(ps, key) /\ k =< m
      BY <1>2, <2>1, <2>3
    <3>2. ~(m \in k + 1..n)
      BY <1>2, <2>1, <2>3
    <3> QED BY <1>1, <1>2, <2>1, <3>1, <3>2
  <2>4. last = {m}
    BY <2>2, <2>3
  <2>5. ServerOption(f, key) = f[2 * m]
    BY <1>3, <2>4
  <2>6. Lookup(ps, key) = ps[m][2]
    BY <1>5 DEF Lookup, m
  <2> QED BY <1>1, <1>2, <2>1, <2>5, <2>6 DEF ps
<1> QED BY <1>4, <1>5

-----------------------------------------------------------------------------
(* The application_name.                                                   *)

\* fly.go:635-646: the name is a text, and an empty identity leaves it alone.
LEMMA NameIsText ==
    ASSUME NEW own \in Texts, NEW id \in Texts, NEW ts \in BOOLEAN
    PROVE  /\ finalAppName(own, id, ts) \in Texts
           /\ id = Empty => finalAppName(own, id, ts) = own
           /\ own = Empty => finalAppName(own, id, ts) = id
           /\ ts => finalAppName(own, id, ts) \in {Empty \o id, own \o id}
<1>1. own \o id \in Texts /\ own \o <<>> = own /\ <<>> \o id = id
  BY DEF Texts
<1>2. CASE own = Empty
  BY <1>1, <1>2 DEF finalAppName, Empty
<1>3. CASE own # Empty /\ ts
  BY <1>1, <1>3 DEF finalAppName, Empty
<1>4. CASE own # Empty /\ ~ts
  BY <1>1, <1>4 DEF finalAppName, Empty
<1> QED BY <1>2, <1>3, <1>4

\* fly.go:797-815: what the stamping makes of a client's parameters.
LEMMA Stamping ==
    ASSUME NEW ps \in Seq(Texts \X Texts), identity \in Texts, fromTS \in BOOLEAN
    PROVE  /\ Stamped(ps) \in Seq(Texts \X Texts)
           /\ Indexes(ps, AppName) = {} =>
                /\ Len(Stamped(ps)) = Len(ps) + 1
                /\ Stamped(ps)[Len(ps) + 1] = <<AppName, identity>>
                /\ \A k \in 1..Len(ps) : Stamped(ps)[k] = ps[k]
           /\ Indexes(ps, AppName) # {} =>
                /\ Len(Stamped(ps)) = Len(ps)
                /\ \E first \in Indexes(ps, AppName) : \A k \in 1..Len(ps) :
                      Stamped(ps)[k] = IF k = first
                                       THEN <<AppName, finalAppName(ps[k][2], identity, fromTS)>>
                                       ELSE ps[k]
<1>0. AppName \in Texts
  BY WordsAssumption
<1>1. CASE Indexes(ps, AppName) = {}
  <2>1. Stamped(ps) = Append(ps, <<AppName, identity>>) /\ <<AppName, identity>> \in Texts \X Texts
    BY <1>0, <1>1 DEF Stamped
  <2> QED BY <1>1, <2>1
<1>2. CASE Indexes(ps, AppName) # {}
  <2> DEFINE first == Min(Indexes(ps, AppName))
             stamp == <<AppName, finalAppName(ps[first][2], identity, fromTS)>>
  <2>1. first \in Indexes(ps, AppName) /\ first \in 1..Len(ps)
    <3>1. Indexes(ps, AppName) \in SUBSET (1..Len(ps)) /\ Len(ps) \in Nat
      BY DEF Indexes
    <3> QED BY <1>2, <3>1, Least
  <2>2. Stamped(ps) = [ps EXCEPT ![first] = stamp]
    BY <1>2 DEF Stamped
  <2>3. stamp \in Texts \X Texts
    <3>1. ps[first][2] \in Texts
      BY <2>1
    <3> QED BY <1>0, <3>1, NameIsText
  <2> HIDE DEF first
  <2>4. \A k \in 1..Len(ps) :
           Stamped(ps)[k] = IF k = first
                            THEN <<AppName, finalAppName(ps[k][2], identity, fromTS)>> ELSE ps[k]
    <3>1. ASSUME NEW k \in 1..Len(ps) PROVE Stamped(ps)[k] = IF k = first THEN stamp ELSE ps[k]
      <4> HIDE DEF stamp
      <4> QED BY <2>1, <2>2
    <3> QED BY <3>1
  <2> HIDE DEF stamp
  <2>5. Stamped(ps) \in Seq(Texts \X Texts) /\ Len(Stamped(ps)) = Len(ps)
    BY <2>1, <2>2, <2>3
  <2> QED BY <1>2, <2>1, <2>4, <2>5
<1> QED BY <1>1, <1>2

-----------------------------------------------------------------------------
(* What the two paths make of a message that a server would take.          *)

\* What is known of the variables: each path has not run, or has run on the
\* message, the identity and the source that the client still has.
Runs == /\ startup \in Messages /\ identity \in Texts /\ fromTS \in BOOLEAN
        /\ forwarded \in {[state |-> "none"], Rewritten}
        /\ managed.state = "none"
              \/ managed = IF ~startup.v3 \/ Malformed(startup)
                           THEN [state |-> "bad-startup"] ELSE LogInWith(Params(startup.fields))

\* fly.go:757, credentials-manager.go:40: both are functions of these.
LEMMA RunsInvariant == Spec => []Runs
<1>1. Init => Runs
  BY StartupAssumption DEF Init, Runs
<1>2. Runs /\ [Next]_vars => Runs'
  <2> SUFFICES ASSUME Runs, [Next]_vars PROVE Runs'
    OBVIOUS
  <2>1. UNCHANGED <<startup, identity, fromTS>>
    BY DEF Next, vars, rewriteStartup, serveManaged
  <2>2. \A ps : Stamped(ps)' = Stamped(ps)
    BY <2>1 DEF Stamped
  <2>3. Rewritten' = Rewritten
    BY <2>1, <2>2 DEF Rewritten
  <2>4. forwarded' \in {forwarded, Rewritten}
    BY DEF Next, vars, rewriteStartup, serveManaged
  <2>5. \A ps : LogInWith(ps)' = LogInWith(ps)
    BY <2>1 DEF LogInWith
  <2>6. managed' \in {managed, IF ~startup.v3 \/ Malformed(startup)
                               THEN [state |-> "bad-startup"] ELSE LogInWith(Params(startup.fields))}
    BY DEF Next, vars, rewriteStartup, serveManaged
  <2> QED BY <2>1, <2>3, <2>4, <2>5, <2>6 DEF Runs
<1> QED BY <1>1, <1>2, PTL DEF Spec

\* fly.go:759-795, credentials-manager.go:153-188: a message that a server
\* would take is not malformed.
LEMMA TakenIsRead ==
    ASSUME Runs, Taken
    PROVE  /\ startup.fields \in Seq(Texts) /\ Sound(startup.fields) /\ ~Malformed(startup)
           /\ startup.v3
<1>1. startup.fields \in Seq(Texts) /\ Sound(startup.fields) /\ startup.terminated /\ startup.v3
  BY StartupAssumption DEF Runs, Taken
<1>2. Stop(startup.fields) = Len(startup.fields) /\ Len(startup.fields) \in Nat
  BY <1>1, StopsAtEnd
<1>3. startup.fields[Len(startup.fields)] = Empty
  BY <1>1 DEF Sound
<1>4. ~Malformed(startup)
  BY <1>1, <1>2, <1>3 DEF Malformed
<1> QED BY <1>1, <1>4

\* fly.go:757-832: what a server reads of the rewritten message is what the
\* client gave, stamped with the identity if there is one.
LEMMA RewrittenIsStamped ==
    ASSUME Runs, Taken, forwarded.state # "none"
    PROVE  LET ps == Params(startup.fields) IN
           /\ forwarded.state = "sent" /\ forwarded.fields \in Seq(Texts) /\ Sound(forwarded.fields)
           /\ ServerPairs(forwarded.fields) = IF identity = Empty THEN ps ELSE Stamped(ps)
<1> DEFINE f == startup.fields
           ps == Params(f)
<1>1. f \in Seq(Texts) /\ Sound(f) /\ ~Malformed(startup) /\ startup.v3
  BY TakenIsRead
<1>2. /\ ps \in Seq(Texts \X Texts) /\ ServerPairs(f) = ps
      /\ \A k \in 1..Len(ps) : ps[k][1] # Empty
  BY <1>1, ReadsPairs, ServerReads
<1>3. forwarded = Rewritten
  BY DEF Runs
<1>4. CASE identity = Empty \/ Stamped(ps) = ps
  <2>1. forwarded = Forwarded(f)
    BY <1>1, <1>3, <1>4 DEF Rewritten
  <2> QED BY <1>1, <1>2, <1>4, <2>1 DEF Forwarded
<1>5. CASE identity # Empty /\ Stamped(ps) # ps
  <2>1. forwarded = Forwarded(Encode(Stamped(ps)))
    BY <1>1, <1>3, <1>5 DEF Rewritten
  <2>2. Stamped(ps) \in Seq(Texts \X Texts)
    BY <1>2, Stamping DEF Runs
  <2>3. \A k \in 1..Len(Stamped(ps)) : Stamped(ps)[k][1] # Empty
    <3>1. AppName # Empty
      BY DEF AppName, Empty
    <3>2. identity \in Texts /\ fromTS \in BOOLEAN
      BY DEF Runs
    <3> HIDE DEF ps
    <3>3. CASE Indexes(ps, AppName) = {}
      BY <1>2, <3>1, <3>2, <3>3, Stamping
    <3>4. CASE Indexes(ps, AppName) # {}
      <4>1. Len(Stamped(ps)) = Len(ps)
        BY <1>2, <3>2, <3>4, Stamping
      <4>2. PICK first \in Indexes(ps, AppName) : \A k \in 1..Len(ps) :
               Stamped(ps)[k] = IF k = first THEN <<AppName, finalAppName(ps[k][2], identity, fromTS)>>
                                            ELSE ps[k]
        BY <1>2, <3>2, <3>4, Stamping
      <4>3. ASSUME NEW k \in 1..Len(ps) PROVE Stamped(ps)[k][1] # Empty
        <5>1. CASE k = first
          <6>1. Stamped(ps)[k] = <<AppName, finalAppName(ps[k][2], identity, fromTS)>>
            BY <4>2, <5>1
          <6> QED BY <3>1, <6>1
        <5>2. CASE k # first
          BY <1>2, <4>2, <5>2
        <5> QED BY <5>1, <5>2
      <4> QED BY <4>1, <4>3
    <3> QED BY <3>3, <3>4
  <2>4. Encode(Stamped(ps)) \in Seq(Texts)
    BY <2>2, WritesPairs
  <2>5. Sound(Encode(Stamped(ps))) /\ ServerPairs(Encode(Stamped(ps))) = Stamped(ps)
    BY <2>2, <2>3, ServerReadsWritten
  <2> QED BY <1>5, <2>1, <2>4, <2>5 DEF Forwarded
<1> QED BY <1>4, <1>5

\* fly.go:773-831: nothing of a client's startup is lost, moved or changed but
\* its application_name, for messages with any number of parameters.
THEOREM ParametersKept == Spec => []OthersKept
<1>1. Runs => OthersKept
  <2> SUFFICES ASSUME Runs, forwarded.state # "none", Taken PROVE OthersKept
    BY DEF OthersKept
  <2> DEFINE mine == ServerPairs(startup.fields)
             theirs == ServerPairs(forwarded.fields)
  <2>1. startup.fields \in Seq(Texts) /\ Sound(startup.fields)
    BY TakenIsRead
  <2>2. mine = Params(startup.fields) /\ mine \in Seq(Texts \X Texts)
    BY <2>1, ServerReads, ReadsPairs
  <2>3. /\ forwarded.state = "sent" /\ Sound(forwarded.fields)
        /\ theirs = IF identity = Empty THEN mine ELSE Stamped(mine)
    BY <2>2, RewrittenIsStamped
  <2>4. identity \in Texts /\ fromTS \in BOOLEAN
    BY DEF Runs
  <2> HIDE DEF mine, theirs
  <2>5. /\ Len(theirs) \in Len(mine)..Len(mine) + 1
        /\ \A k \in 1..Len(mine) : /\ theirs[k][1] = mine[k][1]
                                   /\ mine[k][1] # AppName => theirs[k][2] = mine[k][2]
        /\ Len(theirs) > Len(mine) => /\ theirs[Len(theirs)][1] = AppName
                                      /\ \A k \in 1..Len(mine) : mine[k][1] # AppName
    <3>0. Len(mine) \in Nat /\ DOMAIN mine = 1..Len(mine)
      BY <2>2
    <3>1. CASE identity = Empty
      BY <2>3, <3>0, <3>1
    <3>2. CASE identity # Empty /\ Indexes(mine, AppName) = {}
      <4>1. /\ Len(theirs) = Len(mine) + 1 /\ theirs[Len(mine) + 1] = <<AppName, identity>>
            /\ \A k \in 1..Len(mine) : theirs[k] = mine[k]
        BY <2>2, <2>3, <2>4, <3>2, Stamping
      <4>2. \A k \in 1..Len(mine) : mine[k][1] # AppName
        BY <3>0, <3>2 DEF Indexes
      <4> QED BY <3>0, <4>1, <4>2
    <3>3. CASE identity # Empty /\ Indexes(mine, AppName) # {}
      <4>0. theirs = Stamped(mine)
        BY <2>3, <3>3
      <4>a. /\ Len(Stamped(mine)) = Len(mine)
            /\ \E first \in Indexes(mine, AppName) : \A k \in 1..Len(mine) :
                  Stamped(mine)[k] = IF k = first
                                     THEN <<AppName, finalAppName(mine[k][2], identity, fromTS)>>
                                     ELSE mine[k]
        BY <2>2, <2>4, <3>3, Stamping
      <4>1. /\ Len(theirs) = Len(mine)
            /\ \E first \in Indexes(mine, AppName) : \A k \in 1..Len(mine) :
                  theirs[k] = IF k = first
                              THEN <<AppName, finalAppName(mine[k][2], identity, fromTS)>>
                              ELSE mine[k]
        BY <4>0, <4>a
      <4>2. PICK first \in Indexes(mine, AppName) : \A k \in 1..Len(mine) :
               theirs[k] = IF k = first THEN <<AppName, finalAppName(mine[k][2], identity, fromTS)>>
                                        ELSE mine[k]
        BY <4>1
      <4>3. mine[first][1] = AppName
        BY <4>2 DEF Indexes
      <4>4. ASSUME NEW k \in 1..Len(mine)
            PROVE  /\ theirs[k][1] = mine[k][1]
                   /\ mine[k][1] # AppName => theirs[k][2] = mine[k][2]
        <5>1. CASE k = first
          <6>1. theirs[k] = <<AppName, finalAppName(mine[k][2], identity, fromTS)>>
            BY <4>2, <5>1
          <6> QED BY <4>3, <5>1, <6>1
        <5>2. CASE k # first
          BY <4>2, <5>2
        <5> QED BY <5>1, <5>2
      <4> QED BY <3>0, <4>1, <4>4
    <3> QED BY <3>1, <3>2, <3>3
  <2> QED BY <2>3, <2>5 DEF OthersKept, mine, theirs
<1> QED BY <1>1, RunsInvariant, PTL

\* credentials-manager.go:76-109: a managed session gets every option as the
\* server would have read it, for messages with any number of parameters.
THEOREM ManagedOptions == Spec => []ManagedAsServer
<1>1. Runs => ManagedAsServer
  <2> SUFFICES ASSUME Runs, managed.state # "none", Taken PROVE ManagedAsServer
    BY DEF ManagedAsServer
  <2> DEFINE f == startup.fields
             ps == Params(f)
             given == {f[2 * k - 1] : k \in 1..Len(f) \div 2}
             left == {User, Database, AppName, Replication}
  <2>1. f \in Seq(Texts) /\ Sound(f) /\ ~Malformed(startup) /\ startup.v3
    BY TakenIsRead
  <2>2. \A key : ServerOption(f, key) = Lookup(ps, key)
    BY <2>1, ServerLooksUp
  <2>3. {ps[k][1] : k \in DOMAIN ps} = given
    <3>1. given = {f[2 * k - 1] : k \in 1..Pairs(f)}
      BY DEF Pairs
    <3>2. /\ ps \in Seq(Texts \X Texts) /\ Len(ps) = Pairs(f)
          /\ \A k \in 1..Pairs(f) : ps[k] = <<f[2 * k - 1], f[2 * k]>>
      BY <2>1, ReadsPairs
    <3> HIDE DEF ps, f, given
    <3>3. DOMAIN ps = 1..Pairs(f)
      BY <3>2
    <3>4. \A k \in DOMAIN ps : ps[k][1] = f[2 * k - 1]
      BY <3>2, <3>3
    <3> QED BY <3>1, <3>3, <3>4
  <2>4. managed = LogInWith(ps)
    BY <2>1 DEF Runs
  <2> HIDE DEF ps, f, given
  <2>5. /\ managed.state = "sent"
        /\ managed.params = [key \in given \ left |-> ServerOption(f, key)]
        /\ managed.database = chooseDatabase(ServerOption(f, User), ServerOption(f, Database))
        /\ managed.name = finalAppName(ServerOption(f, AppName), identity, fromTS)
    BY <2>2, <2>3, <2>4 DEF LogInWith
  <2>6. managed.database = IF ServerOption(f, Database) \in {Empty, ServerOption(f, User)}
                           THEN DBName ELSE ServerOption(f, Database)
    BY <2>5 DEF chooseDatabase
  <2> QED BY <2>5, <2>6 DEF ManagedAsServer, f, given
<1> QED BY <1>1, RunsInvariant, PTL

\* fly.go:797-815: a client that names itself at most once has its name where
\* the stamp goes.
LEMMA StampedName ==
    ASSUME NEW ps \in Seq(Texts \X Texts), identity \in Texts, fromTS \in BOOLEAN,
           \A k, l \in Indexes(ps, AppName) : k = l
    PROVE  /\ Lookup(ps, AppName) \in Texts
           /\ Lookup(Stamped(ps), AppName) = finalAppName(Lookup(ps, AppName), identity, fromTS)
<1>0. Len(ps) \in Nat /\ DOMAIN ps = 1..Len(ps) /\ Empty \in Texts
  BY DEF Empty, Texts
<1>1. ASSUME NEW k \in Nat PROVE Max({k}) = k
  BY DEF Max
<1>2. ASSUME NEW qs, NEW k \in Nat, Indexes(qs, AppName) = {k}
      PROVE  Lookup(qs, AppName) = qs[k][2]
  BY <1>1, <1>2 DEF Lookup
<1>3. CASE Indexes(ps, AppName) = {}
  <2>1. /\ Stamped(ps) \in Seq(Texts \X Texts) /\ Len(Stamped(ps)) = Len(ps) + 1
        /\ Stamped(ps)[Len(ps) + 1] = <<AppName, identity>>
        /\ \A k \in 1..Len(ps) : Stamped(ps)[k] = ps[k]
    BY <1>3, Stamping
  <2>2. \A k \in 1..Len(ps) : ps[k][1] # AppName
    BY <1>0, <1>3 DEF Indexes
  <2>3. Indexes(Stamped(ps), AppName) = {Len(ps) + 1}
    <3>1. DOMAIN Stamped(ps) = 1..Len(ps) + 1
      BY <2>1
    <3>2. Stamped(ps)[Len(ps) + 1][1] = AppName /\ \A k \in 1..Len(ps) : Stamped(ps)[k][1] # AppName
      BY <2>1, <2>2
    <3> QED BY <1>0, <3>1, <3>2 DEF Indexes
  <2>4. Lookup(Stamped(ps), AppName) = identity
    BY <1>0, <1>2, <2>1, <2>3
  <2>5. Lookup(ps, AppName) = Empty
    BY <1>3 DEF Lookup
  <2> QED BY <1>0, <2>4, <2>5, NameIsText
<1>4. CASE Indexes(ps, AppName) # {}
  <2>1. PICK first \in Indexes(ps, AppName) : \A k \in 1..Len(ps) :
           Stamped(ps)[k] = IF k = first THEN <<AppName, finalAppName(ps[k][2], identity, fromTS)>>
                                        ELSE ps[k]
    BY <1>4, Stamping
  <2>2. Stamped(ps) \in Seq(Texts \X Texts) /\ Len(Stamped(ps)) = Len(ps)
    BY <1>4, Stamping
  <2>3. Indexes(ps, AppName) = {first} /\ first \in 1..Len(ps)
    BY <1>0, <2>1 DEF Indexes
  <2>4. Lookup(ps, AppName) = ps[first][2] /\ ps[first][2] \in Texts
    BY <1>0, <1>2, <2>3
  <2>5. Stamped(ps)[first] = <<AppName, finalAppName(ps[first][2], identity, fromTS)>>
    BY <2>1, <2>3
  <2>6. ASSUME NEW k \in 1..Len(ps) PROVE Stamped(ps)[k][1] = AppName <=> k = first
    <3>1. CASE k = first
      BY <2>5, <3>1
    <3>2. CASE k # first
      <4>1. Stamped(ps)[k] = ps[k]
        BY <2>1, <3>2
      <4>2. ps[k][1] # AppName
        BY <1>0, <2>3, <3>2 DEF Indexes
      <4> QED BY <3>2, <4>1, <4>2
    <3> QED BY <3>1, <3>2
  <2>7. Indexes(Stamped(ps), AppName) = {first}
    <3>1. DOMAIN Stamped(ps) = 1..Len(ps)
      BY <2>2
    <3> QED BY <2>3, <2>6, <3>1 DEF Indexes
  <2>8. Lookup(Stamped(ps), AppName) = finalAppName(ps[first][2], identity, fromTS)
    <3>1. Lookup(Stamped(ps), AppName) = Stamped(ps)[first][2]
      BY <1>0, <1>2, <2>3, <2>7
    <3> QED BY <2>5, <3>1
  <2> QED BY <2>4, <2>8
<1> QED BY <1>3, <1>4

\* fly.go:630-646, credentials-manager.go:82: the server sees one name on both
\* paths, and a tailnet client's ends in its identity.
THEOREM OneNameOnBothPaths == Spec => []SameNameOnBothPaths
<1>1. Runs => SameNameOnBothPaths
  <2> SUFFICES ASSUME Runs, forwarded.state = "sent", managed.state = "sent", Taken, ~NamedTwice
               PROVE  LET name == ServerOption(forwarded.fields, AppName) IN
                      /\ name = managed.name
                      /\ fromTS => \E own \in {Empty, ServerOption(startup.fields, AppName)} :
                                      name = own \o identity
    BY DEF SameNameOnBothPaths
  <2> DEFINE f == startup.fields
             ps == Params(f)
             own == Lookup(ps, AppName)
             name == ServerOption(forwarded.fields, AppName)
  <2>1. /\ f \in Seq(Texts) /\ Sound(f) /\ ~Malformed(startup) /\ startup.v3
        /\ ps \in Seq(Texts \X Texts) /\ identity \in Texts /\ fromTS \in BOOLEAN
    BY TakenIsRead, ReadsPairs DEF Runs
  <2>2. managed.name = finalAppName(own, identity, fromTS)
    BY <2>1 DEF Runs, LogInWith
  <2>3. ServerOption(f, AppName) = own
    BY <2>1, ServerLooksUp
  <2>4. \A k, l \in Indexes(ps, AppName) : k = l
    <3>1. /\ Len(ps) = Pairs(f)
          /\ \A k \in 1..Pairs(f) : ps[k] = <<f[2 * k - 1], f[2 * k]>>
      BY <2>1, ReadsPairs
    <3>2. \A k, l \in 1..Pairs(f) : f[2 * k - 1] = AppName /\ f[2 * l - 1] = AppName => k = l
      BY DEF NamedTwice, Pairs
    <3> HIDE DEF ps, f
    <3>3. DOMAIN ps = 1..Pairs(f)
      BY <2>1, <3>1
    <3>4. \A k \in Indexes(ps, AppName) : k \in 1..Pairs(f) /\ f[2 * k - 1] = AppName
      BY <3>1, <3>3 DEF Indexes
    <3> QED BY <3>2, <3>4
  <2>5. name = Lookup(IF identity = Empty THEN ps ELSE Stamped(ps), AppName)
    <3>1. /\ forwarded.fields \in Seq(Texts) /\ Sound(forwarded.fields)
          /\ ServerPairs(forwarded.fields) = IF identity = Empty THEN ps ELSE Stamped(ps)
      BY RewrittenIsStamped
    <3>2. ServerPairs(forwarded.fields) = Params(forwarded.fields)
      BY <3>1, ServerReads
    <3> QED BY <3>1, <3>2, ServerLooksUp
  <2>6. own \in Texts /\ Lookup(Stamped(ps), AppName) = finalAppName(own, identity, fromTS)
    BY <2>1, <2>4, StampedName
  <2> HIDE DEF own, name
  <2>7. name = finalAppName(own, identity, fromTS)
    <3>1. CASE identity = Empty
      BY <2>1, <2>5, <2>6, <3>1, NameIsText DEF own
    <3>2. CASE identity # Empty
      BY <2>5, <2>6, <3>2
    <3> QED BY <3>1, <3>2
  <2>8. fromTS => \E o \in {Empty, own} : name = o \o identity
    <3>1. fromTS => finalAppName(own, identity, fromTS) \in {Empty \o identity, own \o identity}
      BY <2>1, <2>6, NameIsText
    <3> QED BY <2>7, <3>1
  <2> QED BY <2>2, <2>3, <2>7, <2>8 DEF name
<1> QED BY <1>1, RunsInvariant, PTL
=============================================================================
