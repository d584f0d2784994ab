-------------------------- MODULE FlyIdentityProofs --------------------------
(***************************************************************************)
(* The bounds on what a client is taken for hold for any number of         *)
(* concurrent lookups, any addresses and machines, and any lifetimes.      *)
(***************************************************************************)
EXTENDS FlyIdentity, TLAPS

\* fly.go:863: what a lookup stores is as old as its queries, so the entry
\* that it leaves respects the bounds whatever entry it overwrites.
LEMMA StoreIsRecent ==
    ASSUME Inv, NEW l \in Lookups, NEW label \in Labels, Store(l, label),
           UNCHANGED <<now, ptr, movedAt>>,
           failedAt' \in [IPs -> Nat],
           \A ip \in IPs : failedAt'[ip] = failedAt[ip] \/ failedAt'[ip] = now,
           \/ label = Unknown /\ failedAt'[addr[l]] = now
           \/ pc[l] \in {"ptrBack", "txt"} /\ label = found[l]
           \/ pc[l] = "txt" /\ label = AppOf[found[l]] /\ failedAt'[addr[l]] = now
    PROVE  \A ip \in IPs : EntryIsRecent(ip)'
<1> SUFFICES ASSUME NEW ip \in IPs PROVE EntryIsRecent(ip)'
  OBVIOUS
<1> USE IdentityAssumption
<1>1. addr[l] \in IPs /\ flyIdentCache'[ip] = IF ip = addr[l]
                          THEN [ident |-> label, expiresAt |-> now + flyCacheTTL]
                          ELSE flyIdentCache[ip]
  BY DEF Store, Inv, TypeOK, Expiry
<1>2. /\ now \in Nat /\ movedAt[ip] \in Nat /\ failedAt[ip] \in Nat /\ failedAt'[ip] \in Nat
      /\ since[l] \in Nat /\ flyIdentCache[ip].expiresAt \in Nat
      /\ flyIdentCache[ip].expiresAt =< now + flyCacheTTL
  BY DEF Inv, TypeOK
<1>3. CASE ip # addr[l]
  BY <1>1, <1>2, <1>3 DEF Inv, EntryIsRecent, Bound
<1>4. CASE ip = addr[l]
  <2>1. HeldIsRecent(l) /\ found[l] \in Machines /\ ptr[ip] \in Machines
    BY <1>4 DEF Inv, TypeOK
  <2>2. CASE label = Unknown /\ failedAt'[addr[l]] = now
    BY <1>1, <1>2, <1>4, <2>2 DEF EntryIsRecent, Bound
  <2>3. CASE pc[l] \in {"ptrBack", "txt"} /\ label = found[l]
    BY <1>1, <1>2, <1>4, <2>1, <2>3 DEF EntryIsRecent, HeldIsRecent, Age, Bound
  <2>4. CASE pc[l] = "txt" /\ label = AppOf[found[l]] /\ failedAt'[addr[l]] = now
    BY <1>1, <1>2, <1>4, <2>1, <2>4 DEF EntryIsRecent, HeldIsRecent, Age, Bound
  <2> QED BY <2>2, <2>3, <2>4
<1> QED BY <1>3, <1>4

\* fly.go:863: the same step leaves every lookup as recent as it was.
LEMMA StoreKeepsHeld ==
    ASSUME Inv, NEW l \in Lookups, NEW label, Store(l, label),
           UNCHANGED <<now, ptr, movedAt, addr, since, found>>
    PROVE  \A k \in Lookups : HeldIsRecent(k)'
BY DEF Inv, TypeOK, Store, HeldIsRecent, Age

\* fly.go:848-851: empty caches are as recent as can be.
LEMMA InitInv == Init => Inv
BY IdentityAssumption DEF Init, Inv, TypeOK, HeldIsRecent, EntryIsRecent, Labels, Bound

\* fly.go:855-911: the steps of a lookup that has had its answer.
LEMMA StoringInv ==
    ASSUME Inv, NEW l \in Lookups, PtrFails(l) \/ PtrArrives(l) \/ TxtFails(l) \/ TxtArrives(l)
    PROVE  Inv'
<1> USE IdentityAssumption
<1>0. /\ addr[l] \in IPs /\ found[l] \in Machines /\ AppOf[found[l]] \in Apps
      /\ now \in Nat /\ Expiry \in Nat /\ Expiry = now + flyCacheTTL
  BY DEF Inv, TypeOK, Expiry
<1>1. ASSUME NEW label \in Labels, Store(l, label), UNCHANGED <<now, ptr, movedAt, addr, since, found>>,
             failedAt' = failedAt \/ Remember(l),
             flyVmsCache' \in [Apps -> [byID : SUBSET Machines, expiresAt : Nat]],
             \/ label = Unknown /\ Remember(l)
             \/ pc[l] \in {"ptrBack", "txt"} /\ label = found[l]
             \/ pc[l] = "txt" /\ label = AppOf[found[l]] /\ Remember(l)
      PROVE  Inv'
  <2>1. /\ failedAt' \in [IPs -> Nat]
        /\ \A ip \in IPs : failedAt'[ip] = failedAt[ip] \/ failedAt'[ip] = now
        /\ Remember(l) => failedAt'[addr[l]] = now
    BY <1>0, <1>1 DEF Inv, TypeOK, Remember
  <2>2. \A ip \in IPs : EntryIsRecent(ip)'
    BY <1>1, <2>1, StoreIsRecent
  <2>3. \A k \in Lookups : HeldIsRecent(k)'
    BY <1>1, StoreKeepsHeld
  <2>4. TypeOK'
    <3>1. flyIdentCache' \in [IPs -> [ident : Labels, expiresAt : Nat]]
      BY <1>0, <1>1 DEF Inv, TypeOK, Store
    <3>2. ASSUME NEW ip \in IPs PROVE flyIdentCache'[ip].expiresAt =< now + flyCacheTTL
      BY <1>0, <1>1 DEF Inv, TypeOK, Store
    <3> QED BY <1>1, <2>1, <3>1, <3>2 DEF Inv, TypeOK, Store
  <2> QED BY <2>2, <2>3, <2>4 DEF Inv
<1>2. CASE PtrFails(l)
  BY <1>1, <1>2 DEF PtrFails, Labels, Inv, TypeOK
<1>3. CASE PtrArrives(l) /\ Store(l, found[l])
  BY <1>0, <1>1, <1>3 DEF PtrArrives, Labels, Inv, TypeOK, Query, Store, world
<1>4. CASE PtrArrives(l) /\ Query(l, "txt")
  <2>1. TypeOK'
    BY <1>0, <1>4 DEF PtrArrives, Query, Inv, TypeOK, Store, world
  <2>2. ASSUME NEW k \in Lookups PROVE HeldIsRecent(k)'
    BY <1>0, <1>4 DEF PtrArrives, Query, Inv, TypeOK, Store, world, HeldIsRecent, Age
  <2>3. \A ip \in IPs : EntryIsRecent(ip)'
    BY <1>4 DEF PtrArrives, Query, Inv, TypeOK, Store, world, EntryIsRecent
  <2> QED BY <2>1, <2>2, <2>3 DEF Inv
<1>5. CASE TxtFails(l)
  BY <1>0, <1>1, <1>5 DEF TxtFails, Labels, Inv, TypeOK
<1>6. CASE TxtArrives(l)
  <2>1. PICK ids \in SUBSET Machines :
          /\ flyVmsCache' = [flyVmsCache EXCEPT
                 ![AppOf[found[l]]] = [byID |-> ids, expiresAt |-> Expiry]]
          /\ \/ Store(l, found[l]) /\ UNCHANGED failedAt
             \/ Store(l, AppOf[found[l]]) /\ Remember(l)
    BY <1>6 DEF TxtArrives
  <2>2. flyVmsCache' \in [Apps -> [byID : SUBSET Machines, expiresAt : Nat]]
    BY <1>0, <2>1 DEF Inv, TypeOK
  <2>3. UNCHANGED <<now, ptr, movedAt, addr, since, found>> /\ pc[l] = "txt"
    BY <1>6 DEF TxtArrives
  <2>4. CASE Store(l, found[l]) /\ UNCHANGED failedAt
    <3>1. found[l] \in Labels
      BY <1>0 DEF Labels
    <3> QED BY <1>1, <2>2, <2>3, <2>4, <3>1
  <2>5. CASE Store(l, AppOf[found[l]]) /\ Remember(l)
    <3>1. AppOf[found[l]] \in Labels
      BY <1>0 DEF Labels
    <3> QED BY <1>1, <2>2, <2>3, <2>5, <3>1
  <2> QED BY <2>1, <2>4, <2>5
<1>7. PtrArrives(l) => Store(l, found[l]) \/ Query(l, "txt")
  BY DEF PtrArrives
<1> QED BY <1>2, <1>3, <1>4, <1>5, <1>6, <1>7

\* fly.go:853,868,902: time and the platform keep what lookups and entries
\* are as old as.
LEMMA WorldInv ==
    ASSUME Inv, \/ Tick
                \/ \E ip \in IPs : Move(ip)
                \/ \E l \in Lookups : NameServerAnswers(l)
    PROVE  Inv'
<1> USE IdentityAssumption
<1>1. CASE Tick
  <2>1. TypeOK'
    BY <1>1 DEF Tick, world, caches, Inv, TypeOK
  <2>2. \A l \in Lookups : HeldIsRecent(l)'
    BY <1>1 DEF Tick, world, caches, Inv, TypeOK, HeldIsRecent, Age
  <2>3. \A ip \in IPs : EntryIsRecent(ip)'
    BY <1>1 DEF Tick, world, caches, Inv, EntryIsRecent
  <2> QED BY <2>1, <2>2, <2>3 DEF Inv
<1>2. ASSUME NEW ip \in IPs, Move(ip) PROVE Inv'
  <2>0. PICK m \in Machines : ptr' = [ptr EXCEPT ![ip] = m]
    BY <1>2 DEF Move
  <2>1. TypeOK'
    BY <1>2, <2>0 DEF Move, caches, Inv, TypeOK
  <2>2. ASSUME NEW l \in Lookups PROVE HeldIsRecent(l)'
    <3>1. /\ since[l] \in Nat /\ now \in Nat /\ HeldIsRecent(l)
          /\ addr[l] # ip => /\ ptr'[addr[l]] = ptr[addr[l]]
                             /\ movedAt'[addr[l]] = movedAt[addr[l]]
          /\ addr[l] = ip => movedAt'[addr[l]] = now
      BY <1>2, <2>0 DEF Move, Inv, TypeOK
    <3> QED BY <1>2, <3>1 DEF Move, HeldIsRecent, Age
  <2>3. ASSUME NEW a \in IPs PROVE EntryIsRecent(a)'
    <3>1. /\ now \in Nat /\ EntryIsRecent(a)
          /\ flyIdentCache[a].expiresAt \in Nat
          /\ flyIdentCache[a].expiresAt =< now + flyCacheTTL
          /\ a # ip => ptr'[a] = ptr[a] /\ movedAt'[a] = movedAt[a]
          /\ a = ip => movedAt'[a] = now
      BY <1>2, <2>0 DEF Move, Inv, TypeOK
    <3> QED BY <1>2, <3>1 DEF Move, caches, EntryIsRecent, Bound
  <2> QED BY <2>1, <2>2, <2>3 DEF Inv
<1>3. ASSUME NEW l \in Lookups, NameServerAnswers(l) PROVE Inv'
  <2>1. TypeOK'
    BY <1>3 DEF NameServerAnswers, world, caches, Inv, TypeOK
  <2>2. \A k \in Lookups : HeldIsRecent(k)'
    BY <1>3 DEF NameServerAnswers, world, caches, Inv, TypeOK, HeldIsRecent, Age
  <2>3. \A ip \in IPs : EntryIsRecent(ip)'
    BY <1>3 DEF NameServerAnswers, world, caches, Inv, EntryIsRecent
  <2> QED BY <2>1, <2>2, <2>3 DEF Inv
<1> QED BY <1>1, <1>2, <1>3

\* fly.go:855-861: a call that hits takes the entry, one that misses is young.
LEMMA LookupInv ==
    ASSUME Inv, NEW l \in Lookups, NEW ip \in IPs, Lookup(l, ip)
    PROVE  Inv'
<1> USE IdentityAssumption
<1>1. TypeOK'
  <2>1. \/ UNCHANGED <<pc, addr, since>>
        \/ /\ pc' = [pc EXCEPT ![l] = "ptr"] /\ since' = [since EXCEPT ![l] = now]
           /\ addr' = [addr EXCEPT ![l] = ip]
    BY DEF Lookup, Query
  <2>2. pc' \in [Lookups -> {"idle", "ptr", "ptrBack", "txt"}]
    BY <2>1 DEF Inv, TypeOK
  <2>3. addr' \in [Lookups -> IPs] /\ since' \in [Lookups -> Nat]
    <3>1. addr \in [Lookups -> IPs] /\ since \in [Lookups -> Nat] /\ now \in Nat
      BY DEF Inv, TypeOK
    <3> QED BY <2>1, <3>1
  <2>4. UNCHANGED <<now, ptr, movedAt, failedAt, flyIdentCache, flyVmsCache, found>>
    BY DEF Lookup, world, caches
  <2> QED BY <2>2, <2>3, <2>4 DEF Inv, TypeOK
<1>2. \A k \in Lookups : HeldIsRecent(k)'
  BY DEF Lookup, Query, world, caches, Inv, TypeOK, HeldIsRecent, Age
<1>3. \A a \in IPs : EntryIsRecent(a)'
  BY DEF Lookup, world, caches, Inv, EntryIsRecent
<1> QED BY <1>1, <1>2, <1>3 DEF Inv

\* fly.go:855-911: what lookups hold and what the cache says is always as
\* recent as the queries behind it.
THEOREM Invariance == Spec => []Inv
<1>1. Inv /\ [Next]_vars => Inv'
  <2> SUFFICES ASSUME Inv, [Next]_vars PROVE Inv'
    OBVIOUS
  <2>1. CASE UNCHANGED vars
    BY <2>1 DEF vars, world, caches, Inv, TypeOK, HeldIsRecent, Age, EntryIsRecent
  <2> QED BY <2>1, WorldInv, LookupInv, StoringInv DEF Next
<1> QED BY <1>1, InitInv, PTL DEF Spec

\* fly.go:837-924: type correctness.
THEOREM TypeCorrect == Spec => []TypeOK
<1>1. Inv => TypeOK
  BY DEF Inv
<1> QED BY <1>1, Invariance, PTL

\* fly.go:853-865: nobody is taken for a client that had the address more than
\* the lifetime of an entry and two query timeouts ago.
THEOREM StalenessBounded == Spec => []BoundedStaleness
<1>1. Inv => BoundedStaleness
  BY IdentityAssumption DEF Inv, TypeOK, EntryIsRecent, BoundedStaleness, Fresh, Bound
<1> QED BY <1>1, Invariance, PTL

\* fly.go:604-606: failures are forgotten as fast as answers are.
THEOREM FailuresForgotten == Spec => []LabelsRecover
<1>1. Inv => LabelsRecover
  <2> SUFFICES ASSUME Inv, NEW ip \in IPs, Fresh(ip),
                      now >= movedAt[ip] + Bound, now >= failedAt[ip] + Bound
               PROVE  flyIdentCache[ip].ident = ptr[ip]
    BY DEF LabelsRecover
  <2>1. /\ now \in Nat /\ movedAt[ip] \in Nat /\ failedAt[ip] \in Nat /\ Bound \in Nat
        /\ flyIdentCache[ip].expiresAt \in Nat /\ now < flyIdentCache[ip].expiresAt
    BY IdentityAssumption DEF Inv, TypeOK, Fresh, Bound
  <2> QED BY <2>1 DEF Inv, EntryIsRecent
<1> QED BY <1>1, Invariance, PTL
=============================================================================
