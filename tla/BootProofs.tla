------------------------------ MODULE BootProofs ------------------------------
(***************************************************************************)
(* Proofs about Boot for every configuration, with lists of any length,    *)
(* and every set of ports that other processes hold.                       *)
(***************************************************************************)
EXTENDS Boot, TLAPS

Pairs == {<<o, bound[o]>> : o \in DOMAIN bound}

\* fly.go:222-277: a configuration that passed the checks wants no port twice
\* for one transport, and none out of range but the debug page's.
LEMMA WantedDiffer ==
    ASSUME validateListenPorts(cfg),
           NEW a \in Wanted, NEW b \in Wanted, a[2] = b[2], Proto(a[1]) = Proto(b[1])
    PROVE  a = b
<1>1. a \in Claims(cfg) \/ a = <<<<"dnsUdp", 0>>, dnsPort>>
  BY DEF Wanted
<1>2. b \in Claims(cfg) \/ b = <<<<"dnsUdp", 0>>, dnsPort>>
  BY DEF Wanted
<1>3. \A claim \in Claims(cfg) : Proto(claim[1]) = "tcp"
  BY DEF Claims, Proto
<1>4. Proto(<<"dnsUdp", 0>>) = "udp"
  BY DEF Proto
<1> QED BY <1>1, <1>2, <1>3, <1>4 DEF validateListenPorts

\* A listener that cannot be bound, though it is wanted and not bound yet, has
\* its port taken by another process.
LEMMA ClashIsForeign ==
    ASSUME validateListenPorts(cfg), NEW owner, NEW port, <<owner, port>> \in Wanted,
           Pairs \subseteq Wanted, owner \notin DOMAIN bound,
           ValidPort(port), ~Free(owner, port)
    PROVE  <<Proto(owner), port>> \in foreign
<1>1. ASSUME NEW o \in DOMAIN bound, bound[o] = port, Proto(o) = Proto(owner) PROVE FALSE
  <2>1. <<o, bound[o]>> \in Wanted
    BY DEF Pairs
  <2>2. <<o, bound[o]>> = <<owner, port>>
    BY <1>1, <2>1, WantedDiffer
  <2> QED BY <2>2
<1> QED BY <1>1 DEF Free

\* net.Listen adds one pair.
LEMMA ListenAdds ==
    ASSUME NEW owner, NEW port, owner \notin DOMAIN bound, Listen(owner, port)
    PROVE  /\ Pairs' = Pairs \cup {<<owner, port>>}
           /\ DOMAIN bound' = DOMAIN bound \cup {owner}
<1>1. bound' = [o \in DOMAIN bound \cup {owner} |-> IF o = owner THEN port ELSE bound[o]]
  BY DEF Listen
<1>2. DOMAIN bound' = DOMAIN bound \cup {owner}
  BY <1>1
<1>3. \A o \in DOMAIN bound : o # owner /\ bound'[o] = bound[o]
  BY <1>1
<1>4. bound'[owner] = port
  BY <1>1
<1> QED BY <1>2, <1>3, <1>4 DEF Pairs

\* fly.go:222-277: what is wanted, by owner.
LEMMA WantedIs ==
    /\ \A k \in DOMAIN cfg.pgs : cfg.flyHost => <<<<"pg", k>>, cfg.pgs[k].listen>> \in Wanted
    /\ \A k \in DOMAIN cfg.tcps : cfg.flyHost => <<<<"tcp", k>>, cfg.tcps[k].listen>> \in Wanted
    /\ cfg.http # 0 => <<<<"http", 0>>, cfg.http>> \in Wanted
    /\ cfg.debug > 0 => <<<<"debug", 0>>, cfg.debug>> \in Wanted
    /\ cfg.resolver => <<<<"dns", 0>>, dnsPort>> \in Wanted /\ <<<<"dnsUdp", 0>>, dnsPort>> \in Wanted
    /\ \A claim \in Wanted :
          \/ \E k \in DOMAIN cfg.pgs : cfg.flyHost /\ claim = <<<<"pg", k>>, cfg.pgs[k].listen>>
          \/ \E k \in DOMAIN cfg.tcps : cfg.flyHost /\ claim = <<<<"tcp", k>>, cfg.tcps[k].listen>>
          \/ cfg.http # 0 /\ claim = <<<<"http", 0>>, cfg.http>>
          \/ cfg.debug > 0 /\ claim = <<<<"debug", 0>>, cfg.debug>>
          \/ cfg.resolver /\ claim \in {<<<<"dns", 0>>, dnsPort>>, <<<<"dnsUdp", 0>>, dnsPort>>}
BY DEF Wanted, Claims, IsDns

\* The configuration never changes, nor what it asks for.
LEMMA SameWanted ==
    ASSUME UNCHANGED <<cfg, foreign>>
    PROVE  /\ Wanted' = Wanted /\ (validateListenPorts(cfg)' <=> validateListenPorts(cfg))
           /\ UNCHANGED cause => ClashesAreForeign' = ClashesAreForeign
<1>1. Wanted' = Wanted
  BY DEF Wanted
<1> QED BY <1>1 DEF ClashesAreForeign

\* A step that binds nothing and passes nobody by.
LEMMA SkipInv ==
    ASSUME Inv, pc # "dead", pc' \in Stages \ {"dead"}, i' \in Nat \ {0},
           UNCHANGED <<cfg, foreign, bound, deaf, cause>>,
           pc' \in {"pg", "tcp", "http", "dnsUdp", "dns", "serving"} => validateListenPorts(cfg),
           pc' = "dns" => cfg.resolver,
           \A claim \in Wanted : Done(claim[1])' <=> Done(claim[1])
    PROVE  Inv'
<1>1. Wanted' = Wanted /\ (validateListenPorts(cfg)' <=> validateListenPorts(cfg))
  BY SameWanted
<1>2. TypeOK'
  BY DEF Inv, TypeOK
<1>3. ClashesAreForeign'
  BY SameWanted DEF Inv
<1> QED BY <1>1, <1>2, <1>3 DEF Inv

\* A step that binds the next listener and passes it by.
LEMMA ListenInv ==
    ASSUME Inv, NEW owner \in Owners, NEW port, <<owner, port>> \in Wanted, ~Done(owner),
           Listen(owner, port), pc # "dead", pc' \in Stages \ {"dead"}, i' \in Nat \ {0},
           UNCHANGED <<cfg, foreign, deaf>>,
           pc' \in {"pg", "tcp", "http", "dnsUdp", "dns", "serving"} => validateListenPorts(cfg),
           pc' = "dns" => cfg.resolver,
           \A claim \in Wanted : Done(claim[1])' <=> Done(claim[1]) \/ claim = <<owner, port>>
    PROVE  Inv'
<1>1. Wanted' = Wanted /\ (validateListenPorts(cfg)' <=> validateListenPorts(cfg))
  BY SameWanted
<1>2. Pairs = {claim \in Wanted : Done(claim[1])}
  BY DEF Inv, Pairs
<1>3. owner \notin DOMAIN bound
  <2>1. SUFFICES ASSUME owner \in DOMAIN bound PROVE FALSE
    OBVIOUS
  <2>2. <<owner, bound[owner]>> \in Pairs
    BY <2>1 DEF Pairs
  <2> QED BY <1>2, <2>2
<1>4. Pairs' = Pairs \cup {<<owner, port>>} /\ DOMAIN bound' = DOMAIN bound \cup {owner}
  BY <1>3, ListenAdds
<1>5. cause' = cause /\ cause = "none"
  BY DEF Listen, Inv, TypeOK
<1>6. TypeOK'
  BY <1>4, <1>5 DEF Inv, TypeOK
<1>7. Pairs' = {claim \in Wanted' : Done(claim[1])'}
  BY <1>1, <1>2, <1>4
<1>8. ClashesAreForeign'
  BY <1>5, SameWanted DEF Inv
<1> QED BY <1>1, <1>5, <1>6, <1>7, <1>8 DEF Inv, Pairs

\* A step at which the process gives up.
LEMMA DieInv ==
    ASSUME Inv, NEW why \in {"flags", "ports", "ca", "listen", "system", "accept"}, Die(why),
           UNCHANGED <<cfg, foreign, deaf>>,
           why \in {"flags", "ports"} => \A o \in DOMAIN bound : o[1] = "debug",
           why = "listen" => \/ \E claim \in Wanted : <<Proto(claim[1]), claim[2]>> \in foreign
                             \/ cfg.debug # 0 /\ ~ValidPort(cfg.debug)
    PROVE  Inv'
<1>1. Wanted' = Wanted
  BY SameWanted
<1>2. pc' = "dead" /\ cause' = why /\ UNCHANGED <<i, bound, cfg, foreign, deaf>>
  BY DEF Die
<1>3. TypeOK'
  BY <1>2 DEF Inv, TypeOK, Stages
<1>4. ClashesAreForeign'
  BY <1>1, <1>2 DEF ClashesAreForeign
<1> QED BY <1>2, <1>3, <1>4 DEF Inv

\* A checked listener that cannot be bound.
LEMMA ListenFailsInv ==
    ASSUME Inv, NEW owner, NEW port, <<owner, port>> \in Wanted, ~Done(owner), pc # "dead",
           ValidPort(port), validateListenPorts(cfg), ListenFails(owner, port),
           UNCHANGED <<cfg, foreign, deaf>>
    PROVE  Inv'
<1>1. Pairs = {claim \in Wanted : Done(claim[1])}
  BY DEF Inv, Pairs
<1>2. owner \notin DOMAIN bound
  <2>1. SUFFICES ASSUME owner \in DOMAIN bound PROVE FALSE
    OBVIOUS
  <2>2. <<owner, bound[owner]>> \in Pairs
    BY <2>1 DEF Pairs
  <2> QED BY <1>1, <2>2
<1>3. CASE ~Free(owner, port) /\ Die("listen")
  <2>1. <<Proto(owner), port>> \in foreign
    BY <1>1, <1>2, <1>3, ClashIsForeign
  <2>2. \E claim \in Wanted : <<Proto(claim[1]), claim[2]>> \in foreign
    BY <2>1
  <2> QED BY <1>3, <2>2, DieInv
<1>4. CASE Die("system")
  BY <1>4, DieInv
<1> QED BY <1>3, <1>4 DEF ListenFails

-----------------------------------------------------------------------------
(* The initial state and the steps.                                        *)

\* pgproxy.go:38: nothing is bound before main begins.
LEMMA InitInv == Init => Inv
<1> SUFFICES ASSUME Init PROVE Inv
  OBVIOUS
<1>1. DOMAIN bound = {}
  BY DEF Init
<1>2. ASSUME NEW claim \in Wanted PROVE ~Done(claim[1])
  <2>1. claim[1][1] \in {"pg", "tcp", "http", "debug", "dns", "dnsUdp"} /\ pc = "debug"
    BY WantedIs DEF Init
  <2> QED BY <2>1 DEF Done
<1>3. TypeOK
  BY <1>1 DEF Init, TypeOK, Stages
<1> QED BY <1>1, <1>2, <1>3 DEF Init, Inv, ClashesAreForeign

\* pgproxy.go:42-58: the debug listener, of a port that nobody has checked yet.
LEMMA DebugInv == ASSUME Inv, Debug PROVE Inv'
<1>1. pc = "debug" /\ UNCHANGED <<cfg, foreign, deaf>> /\ cfg.debug \in Int
  BY BootAssumption DEF Debug, Inv, TypeOK
<1>2. \A claim \in Wanted : ~Done(claim[1])
  BY <1>1, WantedIs DEF Done
<1>3. DOMAIN bound = {}
  BY <1>1, <1>2 DEF Inv
<1>4. CASE cfg.debug = 0 /\ Skip("parse")
  <2>1. /\ pc' = "parse" /\ i' = 1 /\ UNCHANGED <<bound, cause>>
    BY <1>4 DEF Skip, Go
  <2>2. \A claim \in Wanted : ~Done(claim[1])'
    BY <1>4, <2>1, WantedIs DEF Done
  <2> QED BY <1>1, <1>2, <2>1, <2>2, SkipInv DEF Stages
<1>5. CASE cfg.debug # 0 /\ Listen(<<"debug", 0>>, cfg.debug) /\ Go("parse")
  <2>1. pc' = "parse" /\ i' = 1
    BY <1>5 DEF Go
  <2>2. cfg.debug > 0
    BY <1>5 DEF Listen, Free, ValidPort
  <2>3. <<<<"debug", 0>>, cfg.debug>> \in Wanted
    BY <2>2, WantedIs
  <2>4. \A claim \in Wanted : Done(claim[1])' <=> claim = <<<<"debug", 0>>, cfg.debug>>
    BY <2>1, WantedIs DEF Done
  <2>5. <<"debug", 0>> \in Owners
    BY DEF Owners
  <2> QED BY <1>1, <1>2, <1>5, <2>1, <2>3, <2>4, <2>5, ListenInv DEF Stages
<1>6. CASE cfg.debug # 0 /\ ListenFails(<<"debug", 0>>, cfg.debug)
  <2>1. ValidPort(cfg.debug) => <<<<"debug", 0>>, cfg.debug>> \in Wanted
    BY WantedIs DEF ValidPort
  <2>2. CASE ~Free(<<"debug", 0>>, cfg.debug) /\ Die("listen")
    <3>1. ValidPort(cfg.debug) => <<Proto(<<"debug", 0>>), cfg.debug>> \in foreign
      BY <1>3, <2>2 DEF Free
    <3>2. \/ \E claim \in Wanted : <<Proto(claim[1]), claim[2]>> \in foreign
          \/ cfg.debug # 0 /\ ~ValidPort(cfg.debug)
      BY <1>6, <2>1, <3>1
    <3> QED BY <1>1, <2>2, <3>2, DieInv
  <2>3. CASE Die("system")
    BY <1>1, <2>3, DieInv
  <2> QED BY <1>6, <2>2, <2>3 DEF ListenFails
<1>7. CASE Die("flags")
  BY <1>1, <1>3, <1>7, DieInv
<1> QED BY <1>4, <1>5, <1>6, <1>7 DEF Debug

\* fly.go:281-288: a rejected list leaves the debug page only.
LEMMA ParseInv == ASSUME Inv, Parse PROVE Inv'
<1>1. pc = "parse" /\ UNCHANGED <<cfg, foreign, deaf>>
  BY DEF Parse
<1>2. CASE Skip("validate")
  <2>1. pc' = "validate" /\ i' = 1 /\ UNCHANGED <<bound, cause>>
    BY <1>2 DEF Skip, Go
  <2>2. \A claim \in Wanted : Done(claim[1])' <=> Done(claim[1])
    BY <1>1, <2>1, WantedIs DEF Done
  <2> QED BY <1>1, <2>1, <2>2, SkipInv DEF Stages
<1>3. CASE Die("flags")
  <2>1. ASSUME NEW o \in DOMAIN bound PROVE o[1] = "debug"
    <3>1. <<o, bound[o]>> \in Wanted /\ Done(o)
      BY <1>1 DEF Inv
    <3> QED BY <1>1, <3>1, WantedIs DEF Done
  <2> QED BY <1>1, <1>3, <2>1, DieInv
<1> QED BY <1>2, <1>3 DEF Parse

\* fly.go:289-293: from here on the configuration has passed the checks.
LEMMA ValidateInv == ASSUME Inv, Validate PROVE Inv'
<1>1. pc = "validate" /\ UNCHANGED <<cfg, foreign, deaf>>
  BY DEF Validate
<1>2. CASE validateListenPorts(cfg) /\ Skip("pg")
  <2>1. pc' = "pg" /\ i' = 1 /\ UNCHANGED <<bound, cause>>
    BY <1>2 DEF Skip, Go
  <2>2. \A k : k \in DOMAIN cfg.pgs => ~(k < 1)
    BY <1>1, BootAssumption DEF Inv, TypeOK
  <2>3. \A claim \in Wanted : Done(claim[1])' <=> Done(claim[1])
    BY <1>1, <2>1, <2>2, WantedIs DEF Done
  <2> QED BY <1>1, <1>2, <2>1, <2>3, SkipInv DEF Stages
<1>3. CASE Die("ports")
  <2>1. ASSUME NEW o \in DOMAIN bound PROVE o[1] = "debug"
    <3>1. <<o, bound[o]>> \in Wanted /\ Done(o)
      BY <1>1 DEF Inv
    <3> QED BY <1>1, <3>1, WantedIs DEF Done
  <2> QED BY <1>1, <1>3, <2>1, DieInv
<1> QED BY <1>2, <1>3 DEF Validate

\* fly.go:299-321: the Postgres listeners, in the order of the list.
LEMMA StartPgInv == ASSUME Inv, StartPg PROVE Inv'
<1>1. /\ pc = "pg" /\ UNCHANGED <<cfg, foreign, deaf>> /\ validateListenPorts(cfg)
      /\ i \in Nat \ {0} /\ DOMAIN cfg.pgs \subseteq Nat \ {0} /\ DOMAIN cfg.tcps \subseteq Nat \ {0}
  <2>1. cfg.pgs \in Seq(Entries) /\ cfg.tcps \in Seq(Entries)
    BY BootAssumption DEF Inv, TypeOK
  <2> QED BY <2>1 DEF StartPg, Inv, TypeOK
<1>2. \A k \in DOMAIN cfg.tcps : ~(k < 1)
  BY <1>1
<1>3. ASSUME i \in DOMAIN cfg.pgs, NextEntry(<<"pg", i>>, cfg.pgs[i].listen) PROVE Inv'
  <2> DEFINE owner == <<"pg", i>>
             port == cfg.pgs[i].listen
  <2>1. owner \in Owners /\ ~Done(owner)
    BY <1>1 DEF Owners, Done
  <2>2. CASE cfg.flyHost /\ Listen(owner, port) /\ i' = i + 1 /\ UNCHANGED pc
    <3>1. <<owner, port>> \in Wanted
      BY <1>3, <2>2, WantedIs
    <3>2. \A claim \in Wanted : Done(claim[1])' <=> Done(claim[1]) \/ claim = <<owner, port>>
      BY <1>1, <2>2, WantedIs DEF Done
    <3>3. pc' \in Stages \ {"dead"} /\ i' \in Nat \ {0}
      BY <1>1, <2>2 DEF Stages
    <3> HIDE DEF owner, port
    <3> QED BY <1>1, <2>1, <2>2, <3>1, <3>2, <3>3, ListenInv
  <2>3. CASE cfg.flyHost /\ ListenFails(owner, port)
    <3>1. <<owner, port>> \in Wanted
      BY <1>3, <2>3, WantedIs
    <3>2. cfg.pgs \in Seq(Entries)
      BY BootAssumption DEF Inv, TypeOK
    <3>3. cfg.pgs[i] \in Entries
      BY <1>3, <3>2
    <3>4. port \in Int
      BY <3>3 DEF Entries
    <3>5. ValidPort(port)
      BY <1>1, <1>3, <3>4 DEF validateListenPorts, InPgRange, InTcpRange, ValidPort
    <3> HIDE DEF owner, port
    <3> QED BY <1>1, <2>1, <2>3, <3>1, <3>5, ListenFailsInv
  <2>4. CASE ~cfg.flyHost /\ i' = i + 1 /\ UNCHANGED <<pc, bound, cause>>
    <3>1. \A claim \in Wanted : Done(claim[1])' <=> Done(claim[1])
      BY <1>1, <2>4, WantedIs DEF Done
    <3>2. pc' \in Stages \ {"dead"} /\ i' \in Nat \ {0} /\ pc # "dead"
      BY <1>1, <2>4 DEF Stages
    <3> QED BY <1>1, <2>4, <3>1, <3>2, SkipInv
  <2> QED BY <1>3, <2>2, <2>3, <2>4 DEF NextEntry
<1>4. CASE i \notin DOMAIN cfg.pgs /\ Skip("tcp")
  <2>1. pc' = "tcp" /\ i' = 1 /\ UNCHANGED <<bound, cause>>
    BY <1>4 DEF Skip, Go
  <2>2. \A k \in DOMAIN cfg.pgs : k < i
    <3>1. DOMAIN cfg.pgs = 1..Len(cfg.pgs) /\ Len(cfg.pgs) \in Nat
      BY BootAssumption DEF Inv, TypeOK
    <3> QED BY <1>1, <1>4, <3>1
  <2>3. \A claim \in Wanted : Done(claim[1])' <=> Done(claim[1])
    BY <1>1, <1>2, <2>1, <2>2, WantedIs DEF Done
  <2> QED BY <1>1, <2>1, <2>3, SkipInv DEF Stages
<1>5. CASE Die("ca")
  BY <1>1, <1>5, DieInv
<1> QED BY <1>3, <1>4, <1>5 DEF StartPg

\* fly.go:323-334: the plain-TCP listeners.
LEMMA StartTcpInv == ASSUME Inv, StartTcp PROVE Inv'
<1>1. /\ pc = "tcp" /\ UNCHANGED <<cfg, foreign, deaf>> /\ validateListenPorts(cfg)
      /\ i \in Nat \ {0} /\ DOMAIN cfg.pgs \subseteq Nat \ {0} /\ DOMAIN cfg.tcps \subseteq Nat \ {0}
  <2>1. cfg.pgs \in Seq(Entries) /\ cfg.tcps \in Seq(Entries)
    BY BootAssumption DEF Inv, TypeOK
  <2> QED BY <2>1 DEF StartTcp, Inv, TypeOK
<1>2. \A k \in DOMAIN cfg.tcps : ~(k < 1)
  BY <1>1
<1>3. ASSUME i \in DOMAIN cfg.tcps, NextEntry(<<"tcp", i>>, cfg.tcps[i].listen) PROVE Inv'
  <2> DEFINE owner == <<"tcp", i>>
             port == cfg.tcps[i].listen
  <2>1. owner \in Owners /\ ~Done(owner)
    BY <1>1 DEF Owners, Done
  <2>2. CASE cfg.flyHost /\ Listen(owner, port) /\ i' = i + 1 /\ UNCHANGED pc
    <3>1. <<owner, port>> \in Wanted
      BY <1>3, <2>2, WantedIs
    <3>2. \A claim \in Wanted : Done(claim[1])' <=> Done(claim[1]) \/ claim = <<owner, port>>
      BY <1>1, <2>2, WantedIs DEF Done
    <3>3. pc' \in Stages \ {"dead"} /\ i' \in Nat \ {0}
      BY <1>1, <2>2 DEF Stages
    <3> HIDE DEF owner, port
    <3> QED BY <1>1, <2>1, <2>2, <3>1, <3>2, <3>3, ListenInv
  <2>3. CASE cfg.flyHost /\ ListenFails(owner, port)
    <3>1. <<owner, port>> \in Wanted
      BY <1>3, <2>3, WantedIs
    <3>2. cfg.tcps \in Seq(Entries)
      BY BootAssumption DEF Inv, TypeOK
    <3>3. cfg.tcps[i] \in Entries
      BY <1>3, <3>2
    <3>4. port \in Int
      BY <3>3 DEF Entries
    <3>5. ValidPort(port)
      BY <1>1, <1>3, <3>4 DEF validateListenPorts, InPgRange, InTcpRange, ValidPort
    <3> HIDE DEF owner, port
    <3> QED BY <1>1, <2>1, <2>3, <3>1, <3>5, ListenFailsInv
  <2>4. CASE ~cfg.flyHost /\ i' = i + 1 /\ UNCHANGED <<pc, bound, cause>>
    <3>1. \A claim \in Wanted : Done(claim[1])' <=> Done(claim[1])
      BY <1>1, <2>4, WantedIs DEF Done
    <3>2. pc' \in Stages \ {"dead"} /\ i' \in Nat \ {0} /\ pc # "dead"
      BY <1>1, <2>4 DEF Stages
    <3> QED BY <1>1, <2>4, <3>1, <3>2, SkipInv
  <2> QED BY <1>3, <2>2, <2>3, <2>4 DEF NextEntry
<1>4. CASE i \notin DOMAIN cfg.tcps /\ Skip("http")
  <2>1. pc' = "http" /\ i' = 1 /\ UNCHANGED <<bound, cause>>
    BY <1>4 DEF Skip, Go
  <2>2. \A k \in DOMAIN cfg.tcps : k < i
    <3>1. DOMAIN cfg.tcps = 1..Len(cfg.tcps) /\ Len(cfg.tcps) \in Nat
      BY BootAssumption DEF Inv, TypeOK
    <3> QED BY <1>1, <1>4, <3>1
  <2>3. \A claim \in Wanted : Done(claim[1])' <=> Done(claim[1])
    BY <1>1, <1>2, <2>1, <2>2, WantedIs DEF Done
  <2> QED BY <1>1, <2>1, <2>3, SkipInv DEF Stages
<1> QED BY <1>3, <1>4 DEF StartTcp

\* fly.go:345-356: the CONNECT proxy.
LEMMA StartHttpInv == ASSUME Inv, StartHttp PROVE Inv'
<1> DEFINE owner == <<"http", 0>>
<1>1. pc = "http" /\ UNCHANGED <<cfg, foreign, deaf>> /\ validateListenPorts(cfg)
  BY DEF StartHttp, Inv
<1>2. owner \in Owners /\ ~Done(owner)
  BY <1>1 DEF Owners, Done
<1>3. ValidPort(cfg.http) \/ ~(cfg.http # 0)
  BY <1>1 DEF validateListenPorts, ValidPort, dnsPort
<1>4. cfg.http # 0 => <<owner, cfg.http>> \in Wanted
  BY WantedIs
<1>5. CASE cfg.http # 0 /\ Listen(owner, cfg.http) /\ Go("dnsUdp")
  <2>1. pc' = "dnsUdp" /\ i' = 1
    BY <1>5 DEF Go
  <2>2. \A claim \in Wanted : Done(claim[1])' <=> Done(claim[1]) \/ claim = <<owner, cfg.http>>
    BY <1>1, <2>1, WantedIs DEF Done
  <2> HIDE DEF owner
  <2> QED BY <1>1, <1>2, <1>4, <1>5, <2>1, <2>2, ListenInv DEF Stages
<1>6. CASE cfg.http # 0 /\ ListenFails(owner, cfg.http)
  <2> HIDE DEF owner
  <2> QED BY <1>1, <1>2, <1>3, <1>4, <1>6, ListenFailsInv
<1>7. CASE ~(cfg.http # 0) /\ Skip("dnsUdp")
  <2>1. pc' = "dnsUdp" /\ i' = 1 /\ UNCHANGED <<bound, cause>>
    BY <1>7 DEF Skip, Go
  <2>2. \A claim \in Wanted : Done(claim[1])' <=> Done(claim[1])
    BY <1>1, <1>7, <2>1, WantedIs DEF Done
  <2> QED BY <1>1, <2>1, <2>2, SkipInv DEF Stages
<1> QED BY <1>5, <1>6, <1>7 DEF StartHttp

\* dns.go:88-135: the DNS forwarder over UDP.
LEMMA StartDnsUdpInv == ASSUME Inv, StartDnsUdp PROVE Inv'
<1> DEFINE owner == <<"dnsUdp", 0>>
<1>1. pc = "dnsUdp" /\ UNCHANGED <<cfg, foreign, deaf>> /\ validateListenPorts(cfg)
  BY DEF StartDnsUdp, Inv
<1>2. owner \in Owners /\ ~Done(owner)
  BY <1>1 DEF Owners, Done
<1>3. ValidPort(dnsPort) \/ ~(cfg.resolver)
  BY <1>1 DEF validateListenPorts, ValidPort, dnsPort
<1>4. cfg.resolver => <<owner, dnsPort>> \in Wanted
  BY WantedIs
<1>5. CASE cfg.resolver /\ Listen(owner, dnsPort) /\ Go("dns")
  <2>1. pc' = "dns" /\ i' = 1
    BY <1>5 DEF Go
  <2>2. \A claim \in Wanted : Done(claim[1])' <=> Done(claim[1]) \/ claim = <<owner, dnsPort>>
    BY <1>1, <2>1, WantedIs DEF Done
  <2> HIDE DEF owner
  <2> QED BY <1>1, <1>2, <1>4, <1>5, <2>1, <2>2, ListenInv DEF Stages
<1>6. CASE cfg.resolver /\ ListenFails(owner, dnsPort)
  <2> HIDE DEF owner
  <2> QED BY <1>1, <1>2, <1>3, <1>4, <1>6, ListenFailsInv
<1>7. CASE ~(cfg.resolver) /\ Skip("serving")
  <2>1. pc' = "serving" /\ i' = 1 /\ UNCHANGED <<bound, cause>>
    BY <1>7 DEF Skip, Go
  <2>2. \A claim \in Wanted : Done(claim[1])' <=> Done(claim[1])
    BY <1>1, <1>7, <2>1, WantedIs DEF Done
  <2> QED BY <1>1, <2>1, <2>2, SkipInv DEF Stages
<1> QED BY <1>5, <1>6, <1>7 DEF StartDnsUdp

\* dns.go:88-135: the DNS forwarder over TCP.
LEMMA StartDnsInv == ASSUME Inv, StartDns PROVE Inv'
<1> DEFINE owner == <<"dns", 0>>
<1>1. /\ pc = "dns" /\ UNCHANGED <<cfg, foreign, deaf>> /\ validateListenPorts(cfg)
      /\ cfg.resolver
  BY DEF StartDns, Inv
<1>2. owner \in Owners /\ ~Done(owner)
  BY <1>1 DEF Owners, Done
<1>3. ValidPort(dnsPort) \/ ~(cfg.resolver)
  BY <1>1 DEF validateListenPorts, ValidPort, dnsPort
<1>4. cfg.resolver => <<owner, dnsPort>> \in Wanted
  BY WantedIs
<1>5. CASE cfg.resolver /\ Listen(owner, dnsPort) /\ Go("serving")
  <2>1. pc' = "serving" /\ i' = 1
    BY <1>5 DEF Go
  <2>2. \A claim \in Wanted : Done(claim[1])' <=> Done(claim[1]) \/ claim = <<owner, dnsPort>>
    BY <1>1, <2>1, WantedIs DEF Done
  <2> HIDE DEF owner
  <2> QED BY <1>1, <1>2, <1>4, <1>5, <2>1, <2>2, ListenInv DEF Stages
<1>6. CASE cfg.resolver /\ ListenFails(owner, dnsPort)
  <2> HIDE DEF owner
  <2> QED BY <1>1, <1>2, <1>3, <1>4, <1>6, ListenFailsInv
<1> QED BY <1>1, <1>5, <1>6 DEF StartDns

\* fly.go:317,332,355, dns.go:364,412: an accept loop returns.
LEMMA AcceptFailsInv ==
    ASSUME Inv, NEW o \in DOMAIN bound, AcceptFails(o) PROVE Inv'
<1>1. CASE Die("accept") /\ UNCHANGED <<cfg, foreign, deaf>>
  BY <1>1, DieInv
<1>2. CASE /\ IsDns(o) /\ deaf' = deaf \cup {o}
           /\ UNCHANGED <<pc, cfg, foreign, i, bound, cause>>
  <2>1. Wanted' = Wanted /\ ClashesAreForeign' /\ (validateListenPorts(cfg)' <=> validateListenPorts(cfg))
    BY <1>2, SameWanted DEF Inv
  <2>2. TypeOK'
    BY <1>2 DEF Inv, TypeOK
  <2>3. \A claim : Done(claim[1])' <=> Done(claim[1])
    BY <1>2 DEF Done
  <2> QED BY <1>2, <2>1, <2>2, <2>3 DEF Inv
<1> QED BY <1>1, <1>2 DEF AcceptFails

\* Every step preserves the invariant.
LEMMA InvInductive == Inv /\ [Next]_vars => Inv'
<1> SUFFICES ASSUME Inv, [Next]_vars PROVE Inv'
  OBVIOUS
<1>1. CASE UNCHANGED vars
  <2>1. Wanted' = Wanted /\ ClashesAreForeign' /\ (validateListenPorts(cfg)' <=> validateListenPorts(cfg))
    BY <1>1, SameWanted DEF Inv, vars
  <2>2. TypeOK' /\ UNCHANGED <<pc, cfg, i, bound, deaf, cause>>
    BY <1>1 DEF Inv, TypeOK, vars
  <2>3. \A claim : Done(claim[1])' <=> Done(claim[1])
    BY <2>2 DEF Done
  <2> QED BY <2>1, <2>2, <2>3 DEF Inv
<1>2. CASE \E o \in DOMAIN bound : AcceptFails(o)
  BY <1>2, AcceptFailsInv
<1> QED BY <1>1, <1>2, DebugInv, ParseInv, ValidateInv, StartPgInv, StartTcpInv, StartHttpInv,
           StartDnsUdpInv, StartDnsInv DEF Next

\* fly.go:280-361: the inductive invariant, for every configuration.
THEOREM Invariance == Spec => []Inv
<1> QED BY InitInv, InvInductive, PTL DEF Spec

\* fly.go:217-221: a start fails over a port only because of another process, or
\* of a debug port that is no port.
THEOREM OwnPortsNeverClash == Spec => []ClashesAreForeign
<1>1. Inv => ClashesAreForeign
  BY DEF Inv
<1> QED BY <1>1, Invariance, PTL

\* At the end of the walk all that is wanted is done.
LEMMA AllDone ==
    ASSUME pc = "serving", NEW claim \in Wanted
    PROVE  Done(claim[1])
BY WantedIs DEF Done

\* fly.go:287-288: a process that serves has every wanted listener, and only DNS
\* loops may have returned; one that rejected its configuration had none but the
\* debug page's.
THEOREM GatewayIsWhole == Spec => []NoPartialGateway
<1>1. ASSUME Inv PROVE NoPartialGateway
  <2> DEFINE Served == {<<o, bound[o]>> : o \in DOMAIN bound \ deaf}
  <2>1. ASSUME pc = "serving" PROVE Pairs = Wanted
    <3>1. Pairs = {claim \in Wanted : Done(claim[1])}
      BY <1>1, <2>1 DEF Inv, Pairs
    <3> QED BY <2>1, <3>1, AllDone
  <2>2. ASSUME pc = "serving" PROVE Served \subseteq Wanted
    BY <2>1, <2>2 DEF Pairs
  <2>3. ASSUME pc = "serving", NEW claim \in Wanted \ Served PROVE IsDns(claim[1])
    <3>1. PICK o \in DOMAIN bound : claim = <<o, bound[o]>>
      BY <2>1, <2>3 DEF Pairs
    <3>2. o \in deaf
      BY <2>3, <3>1
    <3> QED BY <1>1, <3>1, <3>2 DEF Inv
  <2> QED BY <1>1, <2>2, <2>3 DEF NoPartialGateway, Inv
<1>2. Inv => NoPartialGateway
  BY <1>1
<1> QED BY <1>2, Invariance, PTL
=============================================================================
