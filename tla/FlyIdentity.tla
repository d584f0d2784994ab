----------------------------- MODULE FlyIdentity -----------------------------
(***************************************************************************)
(* The identity of a Fly client (fly.go): lookupFlyIdent, the two caches   *)
(* it fills, and the session goroutines that call it at the same time.     *)
(* The reverse name of an address names a machine; a machine stands for    *)
(* its label <region>.<app>, and its application alone for the label that  *)
(* is given when the region is not found.                                  *)
(*                                                                         *)
(* Time passes only while goroutines wait for DNS, each query for at most  *)
(* QueryTimeout: the code's own steps take none.                           *)
(***************************************************************************)
EXTENDS Naturals

CONSTANTS Lookups,       \* calls of lookupFlyIdent that may be under way
          IPs, Machines, Apps,
          AppOf,         \* the application of a machine
          Unknown,       \* the label "fly-unknown"
          flyCacheTTL,
          QueryTimeout,  \* 500 ms
          MaxTime        \* bound: the time

ASSUME IdentityAssumption ==
    /\ AppOf \in [Machines -> Apps]
    /\ Unknown \notin Machines \cup Apps
    /\ Machines \cap Apps = {}
    /\ flyCacheTTL \in Nat /\ QueryTimeout \in Nat /\ MaxTime \in Nat

VARIABLES now,
          ptr,            \* the machine that has an address
          movedAt,        \* history: when it last got another one
          failedAt,       \* history: when a lookup of it last went without an answer
          flyIdentCache, flyVmsCache,
          pc, addr,       \* what a lookup waits for, and its address
          since, found    \* when its query began, and the machine DNS named

world == <<ptr, movedAt, failedAt>>
caches == <<flyIdentCache, flyVmsCache>>
vars == <<now, world, caches, pc, addr, since, found>>

Labels == Machines \cup Apps \cup {Unknown}

TypeOK ==
    /\ now \in Nat
    /\ ptr \in [IPs -> Machines]
    /\ movedAt \in [IPs -> Nat] /\ failedAt \in [IPs -> Nat]
    /\ flyIdentCache \in [IPs -> [ident : Labels, expiresAt : Nat]]
    /\ \A ip \in IPs : flyIdentCache[ip].expiresAt =< now + flyCacheTTL
    /\ flyVmsCache \in [Apps -> [byID : SUBSET Machines, expiresAt : Nat]]
    /\ pc \in [Lookups -> {"idle", "ptr", "ptrBack", "txt"}]
    /\ addr \in [Lookups -> IPs]
    /\ since \in [Lookups -> Nat]
    /\ found \in [Lookups -> Machines]

Init ==
    /\ now = 0
    /\ ptr \in [IPs -> Machines]
    /\ movedAt = [ip \in IPs |-> 0] /\ failedAt = [ip \in IPs |-> 0]
    /\ flyIdentCache = [ip \in IPs |-> [ident |-> Unknown, expiresAt |-> 0]]
    /\ flyVmsCache = [a \in Apps |-> [byID |-> {}, expiresAt |-> 0]]
    /\ pc = [l \in Lookups |-> "idle"]
    /\ addr \in [Lookups -> IPs]
    /\ since = [l \in Lookups |-> 0]
    /\ found \in [Lookups -> Machines]

-----------------------------------------------------------------------------
(* DNS and the platform.                                                   *)

Tick ==
    /\ now < MaxTime
    /\ \A l \in Lookups : pc[l] # "idle" => now < since[l] + QueryTimeout
    /\ now' = now + 1
    /\ UNCHANGED <<world, caches, pc, addr, since, found>>

Move(ip) ==                     \* the address goes to another machine
    /\ ptr' \in {[ptr EXCEPT ![ip] = m] : m \in Machines \ {ptr[ip]}}
    /\ movedAt' = [movedAt EXCEPT ![ip] = now]
    /\ UNCHANGED <<now, failedAt, caches, pc, addr, since, found>>

NameServerAnswers(l) ==         \* the answer is under way
    /\ pc[l] = "ptr"
    /\ pc' = [pc EXCEPT ![l] = "ptrBack"]
    /\ found' = [found EXCEPT ![l] = ptr[addr[l]]]
    /\ UNCHANGED <<now, world, caches, addr, since>>

-----------------------------------------------------------------------------
(* The lookup.                                                             *)

Expiry == now + flyCacheTTL

FreshUnknown(ip) ==             \* variant: a failure is remembered for good
    \/ now < flyIdentCache[ip].expiresAt
    \/ flyIdentCache[ip].ident = Unknown /\ flyIdentCache[ip].expiresAt > 0
Fresh(ip) == now < flyIdentCache[ip].expiresAt

Query(l, what) ==
    /\ pc' = [pc EXCEPT ![l] = what]
    /\ since' = [since EXCEPT ![l] = now]

LookupSliding(l, ip) ==         \* variant: a hit makes the entry young again
    /\ pc[l] = "idle"
    /\ IF Fresh(ip)
       THEN /\ flyIdentCache' = [flyIdentCache EXCEPT ![ip].expiresAt = Expiry]
            /\ UNCHANGED <<pc, addr, since>>
       ELSE /\ Query(l, "ptr") /\ addr' = [addr EXCEPT ![l] = ip]
            /\ UNCHANGED flyIdentCache
    /\ UNCHANGED <<now, world, flyVmsCache, found>>
Lookup(l, ip) ==                \* a hit returns the entry, a miss asks DNS
    /\ pc[l] = "idle"
    /\ IF Fresh(ip) THEN UNCHANGED <<pc, addr, since>>
                    ELSE Query(l, "ptr") /\ addr' = [addr EXCEPT ![l] = ip]
    /\ UNCHANGED <<now, world, caches, found>>

StoreTwice(l, label) ==         \* variant: the lifetime counted twice
    /\ flyIdentCache' = [flyIdentCache EXCEPT
           ![addr[l]] = [ident |-> label, expiresAt |-> Expiry + flyCacheTTL]]
    /\ pc' = [pc EXCEPT ![l] = "idle"]
\* The last one to store wins, whoever asked DNS last.
Store(l, label) ==
    /\ flyIdentCache' = [flyIdentCache EXCEPT ![addr[l]] = [ident |-> label, expiresAt |-> Expiry]]
    /\ pc' = [pc EXCEPT ![l] = "idle"]

Remember(l) == failedAt' = [failedAt EXCEPT ![addr[l]] = now]

\* No answer in time, an error, no name, or a name that is not <id>.vm.<app>.internal.
PtrFails(l) ==
    /\ pc[l] \in {"ptr", "ptrBack"}
    /\ Store(l, Unknown) /\ Remember(l)
    /\ UNCHANGED <<now, ptr, movedAt, flyVmsCache, addr, since, found>>

PtrArrives(l) ==
    /\ pc[l] = "ptrBack"
    /\ LET vms == flyVmsCache[AppOf[found[l]]]
       IN IF now < vms.expiresAt /\ found[l] \in vms.byID
          THEN Store(l, found[l]) /\ UNCHANGED since
          ELSE Query(l, "txt") /\ UNCHANGED flyIdentCache
    /\ UNCHANGED <<now, world, flyVmsCache, addr, found>>

TxtFails(l) ==
    /\ pc[l] = "txt"
    /\ Store(l, AppOf[found[l]]) /\ Remember(l)
    /\ UNCHANGED <<now, ptr, movedAt, flyVmsCache, addr, since, found>>

\* vms.<app>.internal lists machines of the application, perhaps not this one.
TxtArrives(l) ==
    /\ pc[l] = "txt"
    /\ \E ids \in SUBSET {m \in Machines : AppOf[m] = AppOf[found[l]]} :
          /\ flyVmsCache' = [flyVmsCache EXCEPT
                 ![AppOf[found[l]]] = [byID |-> ids, expiresAt |-> Expiry]]
          /\ IF found[l] \in ids
             THEN Store(l, found[l]) /\ UNCHANGED failedAt
             ELSE Store(l, AppOf[found[l]]) /\ Remember(l)
    /\ UNCHANGED <<now, ptr, movedAt, addr, since, found>>

Next ==
    \/ Tick
    \/ \E ip \in IPs : Move(ip) \/ \E l \in Lookups : Lookup(l, ip)
    \/ \E l \in Lookups : \/ NameServerAnswers(l) \/ PtrFails(l) \/ PtrArrives(l)
                          \/ TxtFails(l) \/ TxtArrives(l)

Spec == Init /\ [][Next]_vars

-----------------------------------------------------------------------------
(* Properties.  A lookup is given the entry of the cache while it is fresh, *)
(* or the one that it has just stored.                                      *)

Bound == flyCacheTTL + 2 * QueryTimeout

\* fly.go:855-865: however lookups overlap and overwrite each other's entries,
\* also with older answers, no client is taken for one that had its address
\* more than the lifetime of an entry and two query timeouts ago.
BoundedStaleness ==
    \A ip \in IPs : Fresh(ip) /\ now >= movedAt[ip] + Bound
        => flyIdentCache[ip].ident \in {ptr[ip], AppOf[ptr[ip]], Unknown}

\* fly.go:604-606, best effort: failures are cached like answers, and yet as
\* long after the last failure every client is given its full label again.
LabelsRecover ==
    \A ip \in IPs : Fresh(ip) /\ now >= movedAt[ip] + Bound /\ now >= failedAt[ip] + Bound
        => flyIdentCache[ip].ident = ptr[ip]

(* The inductive invariant: what a lookup holds is as old as its queries, *)
(* and what a cache entry says is as old as the lookup that stored it.     *)

Age(l) == IF pc[l] = "txt" THEN QueryTimeout ELSE 0

HeldIsRecent(l) ==
    /\ pc[l] # "idle" => since[l] =< now /\ now =< since[l] + QueryTimeout
    /\ pc[l] \in {"ptrBack", "txt"} /\ found[l] # ptr[addr[l]]
        => since[l] =< movedAt[addr[l]] + Age(l)

EntryIsRecent(ip) ==
    LET e == flyIdentCache[ip]
    IN /\ e.ident \in {ptr[ip], AppOf[ptr[ip]], Unknown} \/ e.expiresAt =< movedAt[ip] + Bound
       /\ \/ e.ident = ptr[ip]
          \/ e.expiresAt =< movedAt[ip] + Bound
          \/ e.expiresAt =< failedAt[ip] + Bound

Inv == TypeOK /\ (\A l \in Lookups : HeldIsRecent(l)) /\ (\A ip \in IPs : EntryIsRecent(ip))
=============================================================================
