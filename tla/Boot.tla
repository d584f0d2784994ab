-------------------------------- MODULE Boot --------------------------------
(***************************************************************************)
(* The life of the process: main (pgproxy.go), runProxies with its parsing *)
(* and port validation (fly.go), startDNSForwarder (dns.go) and the accept *)
(* loops, for one configuration and the ports that other processes hold.   *)
(*                                                                         *)
(* A configuration is what the flags say.  The two JSON lists are sets of  *)
(* entries with an index, because runProxies walks them in order; an entry *)
(* that the parser refuses by itself (empty name, bad target, half a       *)
(* credential) is one with sound = FALSE.  A port is bound by an owner:    *)
(* <<"pg", i>>, <<"tcp", i>>, <<"http", 0>>, <<"debug", 0>>, <<"dns", 0>>  *)
(* (its TCP listener), <<"dnsUdp", 0>>.                                    *)
(***************************************************************************)
EXTENDS Integers, Sequences, FiniteSets, Functions

CONSTANTS Configs,   \* the configurations to start with
          Foreign    \* the sets of ports that other processes may hold, <<"tcp", n>> or <<"udp", n>>

Entries == [name : STRING, listen : Int, sound : BOOLEAN]

ASSUME BootAssumption ==
    \A cfg \in Configs :
        /\ cfg.pgs \in Seq(Entries) /\ cfg.tcps \in Seq(Entries)
        /\ cfg.http \in Int         \* port of --http-proxy-listen, 0 if empty, -1 if malformed
        /\ cfg.debug \in Int        \* --debug-port, 0 disables
        /\ cfg.flyHost \in BOOLEAN  \* --fly-listen-host is not empty
        /\ cfg.resolver \in BOOLEAN \* --dns-resolver is set, or defaulted on Fly
        /\ cfg.ca \in {"missing",   \* --upstream-ca-file is empty
                       "bad",       \* the file cannot be read, or holds no certificate
                       "good"}

VARIABLES pc,       \* the next step of the main goroutine
          cfg,      \* the configuration
          foreign,  \* ports held by other processes
          i,        \* index in the list that is being walked
          bound,    \* owner -> port, what this process listens on (or did when it exited)
          deaf,     \* the owners whose accept loop has returned
          cause     \* why the process exited

vars == <<pc, cfg, foreign, i, bound, deaf, cause>>

Stages == {"debug", "parse", "validate", "pg", "tcp", "http", "dnsUdp", "dns", "serving", "dead"}
Owners == {"pg", "tcp", "http", "debug", "dns", "dnsUdp"} \X Nat

dnsPort == 53
InPgRange(p) == 5400 <= p /\ p <= 6000
InTcpRange(p) == 9000 <= p /\ p <= 9999

TypeOK ==
    /\ pc \in Stages
    /\ cfg \in Configs /\ foreign \in Foreign
    /\ i \in Nat \ {0}
    /\ DOMAIN bound \subseteq Owners
    /\ deaf \subseteq DOMAIN bound
    /\ cause \in {"none", "flags", "ports", "ca", "listen", "system", "accept"}
    /\ pc = "dead" <=> cause # "none"

Init ==
    /\ pc = "debug"
    /\ cfg \in Configs /\ foreign \in Foreign
    /\ i = 1
    /\ bound = <<>>
    /\ deaf = {}
    /\ cause = "none"

-----------------------------------------------------------------------------
Die(why) == pc' = "dead" /\ cause' = why /\ UNCHANGED <<i, bound>>

\* net.Listen on every address; after a failure log.Fatal ends the process,
\* with every listener that it has.  It fails over a port that is not free, or
\* over anything else ("system"): a host that cannot be resolved or is not of
\* this machine, a port that takes a privilege, want of a descriptor.
ValidPort(p) == 0 < p /\ p <= 65535
Proto(owner) == IF owner[1] = "dnsUdp" THEN "udp" ELSE "tcp"
Free(owner, port) ==
    /\ ValidPort(port)
    /\ <<Proto(owner), port>> \notin foreign
    /\ \A o \in DOMAIN bound : bound[o] = port => Proto(o) # Proto(owner)

Listen(owner, port) ==
    /\ Free(owner, port)
    /\ bound' = [o \in DOMAIN bound \cup {owner} |-> IF o = owner THEN port ELSE bound[o]]
    /\ UNCHANGED cause
ListenFailsLogged(owner, port) ==          \* variant: log.Printf for log.Fatal
    ~Free(owner, port) /\ cause' = "listen" /\ UNCHANGED <<pc, i, bound>>
ListenFails(owner, port) ==
    \/ ~Free(owner, port) /\ Die("listen")
    \/ Die("system")

GoOn(to) == pc' = to /\ UNCHANGED i        \* variant: one index for both lists
Go(to) == pc' = to /\ i' = 1
Skip(to) == Go(to) /\ UNCHANGED <<bound, cause>>

\* main: without a CA file nothing is started; then the debug listener comes
\* first.
Debug ==
    /\ pc = "debug"
    /\ \/ cfg.ca = "missing" /\ Die("flags")
       \/ /\ cfg.ca # "missing"
          /\ \/ cfg.debug = 0 /\ Skip("parse")
             \/ cfg.debug # 0 /\ Listen(<<"debug", 0>>, cfg.debug) /\ Go("parse")
             \/ cfg.debug # 0 /\ ListenFails(<<"debug", 0>>, cfg.debug)
    /\ UNCHANGED <<cfg, foreign, deaf>>

parseDestinationPgDbs(list) ==
    /\ \A k \in DOMAIN list : list[k].sound /\ ValidPort(list[k].listen)
    /\ IsInjective([k \in DOMAIN list |-> list[k].name])
    /\ IsInjective([k \in DOMAIN list |-> list[k].listen])

parseDestinationTCPTargets(list) ==        \* ports are left to validateListenPorts
    /\ \A k \in DOMAIN list : list[k].sound /\ ValidPort(list[k].listen)
    /\ IsInjective([k \in DOMAIN list |-> list[k].name])

Parse ==
    /\ pc = "parse"
    /\ IF parseDestinationPgDbs(cfg.pgs) /\ parseDestinationTCPTargets(cfg.tcps)
       THEN Skip("validate") ELSE Die("flags")
    /\ UNCHANGED <<cfg, foreign, deaf>>

\* The port claims, as owner-port pairs; the DNS forwarder claims its port
\* whether or not it is going to run.
ClaimsPerList(c) ==                        \* variant: the lists only
    {<<<<"pg", k>>, c.pgs[k].listen>> : k \in DOMAIN c.pgs}
        \cup {<<<<"tcp", k>>, c.tcps[k].listen>> : k \in DOMAIN c.tcps}
Claims(c) ==
    {<<<<"pg", k>>, c.pgs[k].listen>> : k \in DOMAIN c.pgs}
        \cup {<<<<"tcp", k>>, c.tcps[k].listen>> : k \in DOMAIN c.tcps}
        \cup (IF c.http # 0 THEN {<<<<"http", 0>>, c.http>>} ELSE {})
        \cup (IF c.debug > 0 THEN {<<<<"debug", 0>>, c.debug>>} ELSE {})
        \cup {<<<<"dns", 0>>, dnsPort>>}

validateListenPorts(c) ==
    /\ \A k \in DOMAIN c.pgs : InPgRange(c.pgs[k].listen)
    /\ \A k \in DOMAIN c.tcps : InTcpRange(c.tcps[k].listen)
    /\ c.http # 0 => ValidPort(c.http)
    /\ \A a, b \in Claims(c) : a[2] = b[2] => a = b

Validate ==
    /\ pc = "validate"
    /\ IF validateListenPorts(cfg) THEN Skip("pg") ELSE Die("ports")
    /\ UNCHANGED <<cfg, foreign, deaf>>

\* The listeners, one per step: each serves as soon as it is bound.
NextEntry(owner, port) ==
    \/ cfg.flyHost /\ Listen(owner, port) /\ i' = i + 1 /\ UNCHANGED pc
    \/ cfg.flyHost /\ ListenFails(owner, port)
    \/ ~cfg.flyHost /\ i' = i + 1 /\ UNCHANGED <<pc, bound, cause>>

StartPg ==
    /\ pc = "pg"
    /\ \/ i \in DOMAIN cfg.pgs /\ cfg.ca = "good" /\ NextEntry(<<"pg", i>>, cfg.pgs[i].listen)
       \/ i \in DOMAIN cfg.pgs /\ cfg.ca = "bad" /\ Die("ca")         \* newProxy
       \/ i \notin DOMAIN cfg.pgs /\ Skip("tcp")
    /\ UNCHANGED <<cfg, foreign, deaf>>

StartTcp ==
    /\ pc = "tcp"
    /\ \/ i \in DOMAIN cfg.tcps /\ NextEntry(<<"tcp", i>>, cfg.tcps[i].listen)
       \/ i \notin DOMAIN cfg.tcps /\ Skip("http")
    /\ UNCHANGED <<cfg, foreign, deaf>>

StartHttp ==
    /\ pc = "http"
    /\ \/ cfg.http = 0 /\ Skip("dnsUdp")
       \/ cfg.http # 0 /\ Listen(<<"http", 0>>, cfg.http) /\ Go("dnsUdp")
       \/ cfg.http # 0 /\ ListenFails(<<"http", 0>>, cfg.http)
    /\ UNCHANGED <<cfg, foreign, deaf>>

StartDnsUdp ==
    /\ pc = "dnsUdp"
    /\ \/ ~cfg.resolver /\ Skip("serving")
       \/ cfg.resolver /\ Listen(<<"dnsUdp", 0>>, dnsPort) /\ Go("dns")
       \/ cfg.resolver /\ ListenFails(<<"dnsUdp", 0>>, dnsPort)
    /\ UNCHANGED <<cfg, foreign, deaf>>

StartDns ==
    /\ pc = "dns"
    /\ \/ Listen(<<"dns", 0>>, dnsPort) /\ Go("serving")
       \/ ListenFails(<<"dns", 0>>, dnsPort)
    /\ UNCHANGED <<cfg, foreign, deaf>>

\* An accept loop returns, as soon as it runs: on any error of Accept (pg, tcp,
\* dns), so also for want of a descriptor, or on a permanent one (net/http).
\* log.Fatal takes everybody down; a DNS loop returns and nobody is told.
IsDns(o) == o[1] \in {"dns", "dnsUdp"}
AcceptFailsLogged(o) ==                    \* variant: log.Print(p.Serve(ln))
    /\ pc # "dead" /\ o \notin deaf
    /\ deaf' = deaf \cup {o}
    /\ UNCHANGED <<pc, cfg, foreign, i, bound, cause>>
AcceptFails(o) ==
    /\ pc # "dead" /\ o \notin deaf
    /\ \/ ~IsDns(o) /\ Die("accept") /\ UNCHANGED deaf
       \/ IsDns(o) /\ deaf' = deaf \cup {o} /\ UNCHANGED <<pc, i, bound, cause>>
    /\ UNCHANGED <<cfg, foreign>>

Next == \/ Debug \/ Parse \/ Validate \/ StartPg \/ StartTcp \/ StartHttp
        \/ StartDnsUdp \/ StartDns
        \/ \E o \in DOMAIN bound : AcceptFails(o)

Spec == Init /\ [][Next]_vars

-----------------------------------------------------------------------------
(* Properties.                                                             *)

\* What the configuration asks the process to listen on, as owner-port pairs.
Wanted ==
    {claim \in Claims(cfg) \cup {<<<<"dnsUdp", 0>>, dnsPort>>} :
        /\ claim[1][1] \in {"pg", "tcp"} => cfg.flyHost
        /\ IsDns(claim[1]) => cfg.resolver}

\* fly.go:217-221: a start that passed the checks never fails because two of its
\* own listeners want one port: whenever a bind fails over a port, another
\* process holds it, or it is the debug port, the only one whose range nobody
\* checks.  (A bind that fails over anything else than a port says nothing of
\* clashes.)  It is the validation that has to see to this, for listeners that
\* are bound in six different places.
ClashesAreForeign ==
    cause = "listen" => \/ \E claim \in Wanted : <<Proto(claim[1]), claim[2]>> \in foreign
                        \/ cfg.debug # 0 /\ ~ValidPort(cfg.debug)

\* fly.go:287-288 "a port clash must fail the start outright rather than
\* half-bind and serve a partial gateway", and fly.go:317,332,355: as long as
\* the process runs, it serves all that is configured, whichever accept loops
\* have returned, with the exception of the DNS forwarder (dns.go:364,412); a
\* start that is rejected has served nothing but the debug page.
NoPartialGateway ==
    LET Served == {<<o, bound[o]>> : o \in DOMAIN bound \ deaf} IN
    /\ pc = "serving" => /\ Served \subseteq Wanted
                         /\ \A claim \in Wanted \ Served : IsDns(claim[1])
    /\ cause \in {"flags", "ports"} => \A o \in DOMAIN bound : o[1] = "debug"

\* fly.go:306-373: the listeners are bound in a fixed order; the walk is past o.
Done(o) ==
    \/ o[1] = "debug" /\ pc # "debug"
    \/ o[1] = "pg" /\ \/ pc \in {"tcp", "http", "dnsUdp", "dns", "serving"}
                      \/ pc = "pg" /\ o[2] < i
    \/ o[1] = "tcp" /\ \/ pc \in {"http", "dnsUdp", "dns", "serving"}
                       \/ pc = "tcp" /\ o[2] < i
    \/ o[1] = "http" /\ pc \in {"dnsUdp", "dns", "serving"}
    \/ o[1] = "dnsUdp" /\ pc \in {"dns", "serving"}
    \/ o[1] = "dns" /\ pc = "serving"

\* The inductive invariant: what is bound is what is wanted, as far as the walk
\* has come; from the first list on the configuration has passed the checks;
\* only DNS loops have returned; and what a rejected or failed start leaves.
Inv ==
    /\ TypeOK
    /\ pc # "dead" => {<<o, bound[o]>> : o \in DOMAIN bound} = {claim \in Wanted : Done(claim[1])}
    /\ pc \in {"pg", "tcp", "http", "dnsUdp", "dns", "serving"} => validateListenPorts(cfg)
    /\ pc = "dns" => cfg.resolver
    /\ \A o \in deaf : IsDns(o)
    /\ cause \in {"flags", "ports"} => \A o \in DOMAIN bound : o[1] = "debug"
    /\ ClashesAreForeign
=============================================================================
