# A TLA+ model of private-gateway

private-gateway is one Go process on a private network: Postgres listeners
that force verified TLS to their upstream, plain-TCP forwards, an HTTP CONNECT
proxy and a DNS forwarder, open only to Fly's 6PN network and to the tailnet.
This directory models its behaviour in TLA+, checks it with TLC on small
instances and proves the main results with TLAPS for every instance.

## 1. The system

| part | state | operations | talks to |
|---|---|---|---|
| TCP proxy (`tcpproxy.go`) | per connection: handler, two sockets, two copying goroutines, `errc`; metrics | `Serve`, `handle`, deferred closes | gate, client, upstream |
| Postgres proxy (`pgproxy.go`) | the same, plus the handshake (`buf`, the 30 s context, TLS states), the last session id | `Serve`, `serve`, `forwardStartup` | gate, identity, client, upstream |
| managed databases (`credentials-manager.go`) | the credentials, the connection that pgconn opens | `serveManaged` | `pgconn`, startup parsing |
| source gate (`fly.go` `classifyPeer`) | none | one classification | every listener |
| Fly identity (`fly.go` 837-924) | `flyIdentCache`, `flyVmsCache`, shared by all sessions | `lookupFlyIdent`, `resolveFlyIdent`, `lookupFlyRegion` | Fly's DNS |
| Tailscale identity (`whoisTailscale`) | none | one request over a unix socket | tailscaled |
| startup messages (`rewriteStartup`, `parseStartupParams`) | none | parse, rewrite `application_name` | both Postgres paths |
| CONNECT proxy (`httpproxy.go`) | as the TCP proxy, plus the reader that `net/http` fills until `Hijack` | `ServeHTTP` | gate, client, any host |
| DNS forwarder (`dns.go`) | settings fixed at start; per query a socket with a port | UDP and TCP serve loops, self answers, aliases, forwarding | resolver, the node's own addresses |
| start (`main`, `runProxies`) | listeners bound so far | parse, validate, bind in order | all listeners |
| process | all of the above | `log.Fatal` on an Accept error, except of the DNS loops | — |
| scripts (`entrypoint.sh`, `fly-router.sh`) | tailscaled, routes | start in order | process |
| dev page, packaging | none | — | — |

Interaction: every listener calls the gate first; a session shares nothing with
other sessions except metrics, the session id counter and the identity caches;
within a session the handler and its two goroutines communicate through the
sockets and `errc` alone.

### What is hard

* **Teardown.** One result of two is received; both sockets are closed under a
  goroutine that may be reading, writing or stuck on a peer that does not read.
* **Peers.** They send, half-close, reset, vanish without a FIN, or stall, at
  every step of a handshake.
* **Deadlines.** Some reads have one (TLS, under a 30 s context that starts at
  accept), others have none (the first 8 bytes, the SSL answer, the startup).
* **Early returns.** Each must close what was opened and count once.
* **Shared caches.** Lookups overlap; whoever stores last wins; failures are
  cached.
* **Read-ahead.** `net/http` reads what follows a CONNECT before the proxy takes
  the connection over.
* **UDP.** One socket per query; answers come late, twice or never, to ports that
  are used again, and the forwarder does not compare IDs.
* **An identity that comes and goes.** The forwarder starts before tailscaled.
* **One text, three readers.** A StartupMessage is read by the rewriting, by the
  managed path and by the server, each with a loop of its own.
* **Start and accept loops.** Six kinds of listeners bound in different places;
  any of their loops may return.

The full list, each at its line and with the properties that cover it, is
`hazards` in `PROJECT.json`.

### What makes each part correct

TCP proxy: it is a relay (below). Postgres proxy: the same for the session
proper, and nothing reaches an unverified upstream; every failure is counted
once; attribution survives; a client that leaves releases its session. Startup
messages: rewriting touches the `application_name` only, and both paths and the
server agree on what the client asked for, and on who it is. Identity: labels are stale, or
degraded, for a bounded time. CONNECT proxy: a relay for those admitted, which
loses nothing of a client that waits for its 200. DNS: every query is answered
at most once, in order, from a source that its name calls for; the node's own
name by its Tailscale address as soon as there is one. Start and process: all or
nothing, and nothing less later on, except for the DNS loops.

## 2. The modules

| module | models |
|---|---|
| `Peer` | `classifyPeer`, and what it promises (`TrustedSources`) |
| `Splice` | the session core shared by all proxies: peers, kernel, `io.Copy`, `errc`, and its invariant and promises |
| `Relay` | abstract specification: what a session promises its two peers, with or without a handshake before it |
| `TcpProxy` | `tcpproxy.go` around `Splice`; refinement of `Relay` |
| `PgProxy` | `pgproxy.go` and `credentials-manager.go` around `Splice`; refinement of `Relay` |
| `ConnectProxy` | `httpproxy.go` around `Splice`; refinement of `Relay` |
| `Startup` | `rewriteStartup`, `serveManaged`'s use of the parameters, and a server as the reference |
| `FlyIdentity` | the identity caches and the lookups that fill them |
| `DnsService` | abstract specification: what a DNS forwarder promises its clients |
| `DnsForwarder` | `dns.go` from the accept loops on; refinement of `DnsService` |
| `Boot` | `main`, `runProxies`, port validation, every bind, every accept loop's end |
| `SpliceProofs` | lemmas about the session core, used by the next three |
| `TcpProxyProofs`, `PgProxyProofs`, `ConnectProxyProofs`, `StartupProofs`, `FlyIdentityProofs`, `DnsForwarderProofs`, `BootProofs` | the theorems |
| `MC*` | constants for TLC; one `.cfg` per run |

`TcpProxy`, `PgProxy` and `ConnectProxy` EXTEND `Splice` and `Peer`; `Splice` leaves `pc`
to them, and each says with `UNCHANGED` what of its own state a step of the
session core leaves alone.

**The three proxies and `Relay`.** `Relay` has an `Open` for proxies that dial as they
open the session, and a `Dial` before it for those that first talk to both peers. An
upstream is dialled for a trusted source only, a session opens with a `genuine` one
only, and nothing is passed on before. For `PgProxy` a session is open once its
copying starts and `genuine` is a certificate that verifies; the other two demand
nothing of their upstream, so theirs always is.

**From code to model.** A handler goroutine is a program counter `pc[c]`, whose
value names the next statement that shared state or a peer can observe; one
action per such statement, with its error branch as another disjunct. A deferred
call is an action of its own, in LIFO order. A socket is `open[c][s]` (the
proxy's end) and `peer[c][s]` (what the other end did). Bytes are counted in
chunks, one per `Read` of `io.Copy`; chunks move in order, so `sent` and `put`
suffice. `errc` is a bounded sequence, and a handler that waits on it makes room
for one more. A Write may block for ever: `WriteOk` has no fairness of its own.
TLS is its outcome: it succeeds only on a verified certificate, with both ends
there, before the context expires. In `PgProxy` a startup is a message of protocol
version 3, a CancelRequest or `malformed`; `ownNames` are the `application_name`s
that the message gives, each the set of its parts, of which passthrough stamps
the first, `serveManaged` and the server take the last. In `FlyIdentity` a machine stands for its label `<region>.<app>`, an
application for the label without region.

*`ConnectProxy`.* `net/http` is external and does what `ServeHTTP` relies on: it
accepts, reads one request after another and closes a connection whose client is
done. Until `Hijack` it reads ahead; what it has read goes to `dropped`. `told` and
`hasty` are history: the client has been sent the 200, it sent data before that.

*`DnsForwarder`.* A worker is a goroutine, with the queries its client has asked
and the answers it has written. A query is a pair of a name (own, alias, target
of the alias) and a type; `Zone` is what the resolver knows. A datagram from the
resolver is a port and an answer; it is never taken off `wire`, so it may come
late and often, and a port passes to a new socket when its goroutine has closed
it. `wasDown` is history: the family had no Tailscale address at some time since
the query was read, or `net.InterfaceAddrs` failed, upon which the code forwards
the query as if there were none. `Names` stands for what `parseDNSQuestion` makes of
a question.

*`Startup`.* A text is a sequence of words, so that joining two of them can be told
from either; a message is its protocol version, whether a NUL ends it, and the
fields between NULs. What the server makes of a message is defined on its own.

*`Boot`.* A configuration is its ports, names and switches; each bind is a step,
port 53 is bound twice (UDP, TCP), and every accept loop may return at any time. A
bind fails over its port (`cause` is `"listen"`) or over anything else (`"system"`: the
host, a privilege, descriptors), at every listener.

Operators marked `variant:` stand just before the definition they alter. They are
plausible mistakes in that code, used to show that each property can fail;
no specification uses them.

## 3. The runs

| run | instance | question | states |
|---|---|---|---|
| `tcp_session` | 1 connection, 2 chunks each way, Tailscale off | types, the inductive invariant, no session cut, no goroutine leaked, counters exact, refinement of `Relay`, teardown completes; a session ends with either peer if the other one takes in what that peer has sent; with peers that read, also the liveness of `Relay`: data passed on, ended and vanished sessions closed | 14 127 |
| `pg_session` | 1 connection, passthrough and managed, every source, opening, startup and certificate, up to 2 names, 1 chunk | the inductive invariant, TLS strictness, failures counted, attribution, no session cut, no goroutine leaked, refinement of `Relay`, teardown; with peers that answer, a client that leaves releases its session | 153 956 |
| `connect_session` | 1 connection, 2 requests, 2 chunks, no tailnet opt-in | the inductive invariant, only hasty clients lose data, every request counted, refinement of `Relay` for admitted clients, teardown; with peers that read, a client that leaves is released | 138 203 |
| `startup_messages` | up to 3 parameters over 4 keys and 3 values, 5 endings | nothing but the name is rewritten and every parameter stays in its place; the managed path reads every message like the server; both paths name a client alike that names itself at most once | 150 800 |
| `fly_identity` | 2 lookups, 2 machines, TTL 2, timeout 1, time to 7 | staleness, recovery, the inductive invariant | 1 162 738 |
| `dns_forward` | 2 UDP queries, 1 TCP connection with 2 queries | the inductive invariant, own name by its address once up, refinement of `DnsService`; with clients that read, every goroutine ends | 100 784 |
| `boot_start` | 9 408 configurations × 5 sets of foreign ports | the inductive invariant, no clash of own ports reaches a bind, served means complete | 184 048 |

The remaining five runs (`pg_session_ids`, `pg_sync_failure`, `pg_plaintext`,
`startup_named_twice`, `dns_alias`) check what a comment or the documentation says and
find it violated; see section 6.

**Bounds.** *Connections*: handlers touch only their own connection and the
metrics, so one connection shows everything about a session; that the metrics
stay exact with several that overlap is not in these runs but proved, for any
number (`ActiveExact`, `ConnectionsCounted`, `FailuresCounted`). Session ids take three connections, where
the collision needs two predecessors. *MaxChunks*: two chunks let a goroutine hold
one while another is unread, in both directions, which is all that the copy loop
distinguishes; `pg_session` uses one. *ErrcCap* is 2 for the TCP proxy and 1 for the
others, as in the code. *MaxRequests*: with two requests a refused one is followed by
another; a tunnel is the last. *MaxClock*: the clock is read at accept and may
stand still between two accepts; ids only compare readings, so two of them
suffice. *MaxTime* 7 with TTL 2 and timeout 1: an entry can be stored as late as
possible after a move, live its full life, and expire with time left to look
again. *Workers*: two UDP queries are enough for a port to pass from one to the
other with an answer still on its way. `MCSpec` keeps a behaviour to the clients
of one transport, which share nothing but the node's addresses with those of the
other; `ServiceImplemented` is proved without that. *MaxQueries*: two, one
answered while the other waits. *Parameters*: three, so that a key can occur
twice with another on either side. *Ports* lie on both sides of each range limit
and on each infrastructure port; the debug port is also tried negative and out
of range. In `fly_identity` the lookups are interchangeable (symmetry; safety
only). Deadlock is not checked: connections end, the start ends, time is bounded.

**Fairness.** Handlers and copying goroutines are weakly fair: Go schedules
every runnable goroutine and `Dial` has a 10 s timeout. The expiry of the context
is weakly fair: it is a timer. `KeepAlive` is weakly fair: keepalives are on for
both legs of every proxy (`tcpproxy.go:57-60,121-132`; on by default in Go's
listeners and dialers elsewhere), so the kernel finds out about a vanished
peer. Goroutines of the DNS forwarder are weakly fair because each of their waits
ends, except a write on TCP: a read of a query after 30 s, an exchange with the
resolver after 5 s. `net.Dial` to the resolver over TCP (`dns.go:473`) is the one
wait that the program itself does not bound; it ends when the kernel gives up its
SYNs. `GoroutinesEnd` rests on that, and on `MaxQueries`: a client that keeps asking
within 30 s keeps its goroutine. Peers owe nothing in `FairSpec`. What is expected of them is the hypothesis of the property that needs
it: `PeersDrain` (peers read what they are sent) of `RelayIsLive` and of
`ConnectProxy`'s `ClientLeaves`, one direction of it, the data of the peer that ended,
of `EndNoticed`, `PeersAnswer` (the same, and the upstream answers an
SSLRequest) of `PgProxy`'s, and `ClientsRead` of `GoroutinesEnd`. The code has no
deadline for these, so without them nothing is claimed. A peer that stops reading after its own FIN and then
disappears is a stalled reader to the other side; TCP retransmission, not the
proxy, resolves that, and `PeerVanish` starts from `up` only.

## 4. What is proved

For all values of the constants, under the assumptions that the modules name:
`SpliceAssumption` (errc has room for at least one result), `PeerAssumption` (flags
are Boolean), `TcpAssumption` and `ConnectAssumption` (finitely many connections,
which only the counting theorems need), `InputsAssumption` and `PgAssumption` (inputs
are of their kinds; finitely many connections and a clock), `IdentityAssumption`
(labels are told apart, durations are natural numbers), `StartupAssumption` (messages,
identities and the default database are texts, and a message that ends in a NUL
has a field), `WordsAssumption` (`"application_name"` is a string, a fact of TLA+ that
the provers are not told and TLC evaluates), `DnsAssumption` (a worker
has one transport, `Zone` answers every query) and `BootAssumption` (a configuration
is one).

| theorem | statement |
|---|---|
| `TcpProxyProofs!Invariance` | `Spec => []Inv` (with it `TypeCorrect`) |
| `TcpProxyProofs!SessionsNotCut` | `Spec => []CloseOnlyAfterEnd` |
| `TcpProxyProofs!NoSenderLeaks` | `Spec => []SendersNeverBlock` |
| `TcpProxyProofs!ActiveExact` | `Spec => []ActiveCountsLive` |
| `TcpProxyProofs!ConnectionsCounted` | `Spec => []EveryConnectionCounted` |
| `TcpProxyProofs!RelayImplemented` | `Spec => ImplementsRelay` |
| `PgProxyProofs!Invariance` | `Spec => []Inv` |
| `PgProxyProofs!UpstreamTLSIsStrict` | `Spec => []StrictUpstreamTLS` |
| `PgProxyProofs!SessionsAttributed` | `Spec => []AttributedSession` (on passthrough, of a client that names itself at most once) |
| `PgProxyProofs!FailuresCounted` | `Spec => []FailureCounted` |
| `PgProxyProofs!SessionsNotCut`, `!NoSenderLeaks` | as for TCP |
| `PgProxyProofs!RelayImplemented` | `Spec => ImplementsRelay` |
| `ConnectProxyProofs!Invariance` | `Spec => []Inv` |
| `ConnectProxyProofs!PatientLoseNothing` | `Spec => []OnlyEarlyDataLost` |
| `ConnectProxyProofs!SessionsNotCut`, `!NoSenderLeaks`, `!ActiveExact` | as for TCP |
| `ConnectProxyProofs!RelayImplemented` | `Spec => ImplementsRelay` |
| `ConnectProxyProofs!RequestsCounted` | `Spec => []EveryRequestCounted` |
| `StartupProofs!ParametersKept` | `Spec => []OthersKept` |
| `StartupProofs!ManagedOptions` | `Spec => []ManagedAsServer` |
| `StartupProofs!OneNameOnBothPaths` | `Spec => []SameNameOnBothPaths` |
| `FlyIdentityProofs!Invariance` | `Spec => []Inv` (with it `TypeCorrect`) |
| `FlyIdentityProofs!StalenessBounded` | `Spec => []BoundedStaleness` |
| `FlyIdentityProofs!FailuresForgotten` | `Spec => []LabelsRecover` |
| `DnsForwarderProofs!Invariance` | `Spec => []Inv` |
| `DnsForwarderProofs!SelfAnswered` | `Spec => []SelfOnceUp` |
| `DnsForwarderProofs!ServiceImplemented` | `Spec => ImplementsService` |
| `BootProofs!Invariance` | `Spec => []Inv` |
| `BootProofs!OwnPortsNeverClash` | `Spec => []ClashesAreForeign` |
| `BootProofs!GatewayIsWhole` | `Spec => []NoPartialGateway` |

**The argument about sessions.** `CloseOnlyAfterEnd` and `SendersNeverBlock` say nothing
of how results travel, so neither is inductive. `SpliceInv` adds it: results on
`errc` plus the one received equal the goroutines that have exited (`Balanced`), a
goroutine ends only after a peer did (`EndsForAReason`, stable because a peer's
end is final and its last chunk is written before its goroutine sees the end),
sockets stay open until a result is taken (`OpenInSession`). Hence a handler past
`splice` has taken a result, some goroutine has exited, and at most one result is
still to come: it finds an empty channel. The lemmas about `Splice` mention none
of its users; each of the three proxies adds a `SessionInv` that ties its `pc` to
the sockets, the peers and the gate, and reuses them for every step of the
session core.

**Postgres.** The step at which the client's startup, or the credentials, go
upstream lies behind the step that verified the certificate, on every path;
`SessionInv` carries that fact along `pc`, with what the startup has become by
then. The counters are compared with the set of sessions that have failed: a
step either leaves both alone or adds one session and one count. That the paths
implement `Relay` needs one more conjunct, that a session past its dial has an
upstream: the certificate is what opens the session, and the gate, several steps
earlier, is what allowed the dial.

**CONNECT.** `EveryRequestCounted` adds numbers up over connections. It is stated with a
set instead, of the pairs of a connection and the number of a request of its own
that has been decided, so that a step adds one pair or none, and a connection can
go on to its next request only when the last is in the set. An admitted source is remembered from the gate to the end of the tunnel
although another request may have been refused before; data is dropped only
before `Hijack`, which precedes the 200.

**Counting.** `ActiveCountsLive` and `EveryConnectionCounted` compare a number with the
size of a set of connections. Each step moves at most one connection in or out
of that set, and the library's theorems about finite sets give its new size.

**Startup.** Both loops stop at the least index that meets a condition, and both parsers
and the server look options up at a least or a greatest one. That a set of indexes
has a least element is shown without induction, from the library's theorem that
finite sets are well-founded under inclusion: the segment up to that element is
minimal (`Least`, `Greatest`). From there on, a message that a server takes makes
the loop stop at its last byte (`StopsAtEnd`), so its parameters are the pairs that
the server reads (`ReadsPairs`, `ServerReads`); what `Encode` writes of them is read
back the same (`ServerReadsWritten`); and the map that the managed path builds holds
what the server would use (`ServerLooksUp`). Each path is one step, so the
invariant (`Runs`) says that its outcome is that function of the message.

**Attribution.** `NameFor` follows the code: of several names, passthrough stamps the
first and the server keeps the last. `SessionsAttributed` therefore says of every
client that its own last name survives, and that of 6PN alone; and that the
identity is in it for the tailnet and for the nameless, on the managed path
always, on passthrough if there is at most one name. The case that is left out is
the finding of `startup_named_twice`.

**Identity.** What a lookup holds was true no earlier than when its first query
began, at most one timeout before the second (`HeldIsRecent`); so the entry it
stores, whatever it overwrites, expires within the entry's lifetime and two
timeouts of the address's last move or last failure (`EntryIsRecent`).

**DNS.** An answer that comes to a port is for a query that had the port. Ports are
named by the worker that had them first, and a port passes on only from a
goroutine that has its answer (`WireInv`); hence an answer is for the query itself
or for one that no longer waits, which is what `DnsService` allows on UDP. On TCP
there are as many answers as queries read (`WorkerInv`). `DownInv` follows a query
for the own name: before it is looked at, its family has an address or was down;
after it, it has been answered with the address, or that was down or unread.

**Start.** What is bound is exactly the part of `Wanted` that the walk has passed
(`Done`), and the claims of a validated configuration differ pairwise; so a bind
that fails over its port does so because of somebody else. The debug port is bound before
validation and outside every range check, hence the exception.

**Only model-checked**: liveness (`TeardownCompletes`, `EndNoticed`, `ClientLeaves`,
`RelayIsLive`, `GoroutinesEnd`), which the prover does not reach. Every safety property and every
refinement that a passing run checks is also a theorem. Not theorems either are the
five properties that section 6 refutes.

## 5. What is not modelled

The scripts (`entrypoint.sh`, `fly-router.sh`) are a straight line of shell commands:
what can go wrong happens inside the programs they call, of which the repository
says nothing. The dev page renders the configuration, without state. Packaging
has no behaviour. Of `whoisTailscale` only the outcome is modelled (a login, or
the fallback label and a count): the request itself is one exchange under one
deadline and keeps nothing.

Within what is modelled: cryptography, parsing of addresses and JSON, wording and
logging are abstracted; so are the layout of DNS messages and their 64 KiB framing,
and the server's limit of 63 bytes for an `application_name`. `FlyIdentity` lets time
pass only while a lookup waits for DNS, so its bounds hold up to the time the code
itself takes. In `PgProxy` a CancelRequest inside client TLS is forwarded as it is,
and the session that follows is spliced, as in the code. An exit of the process
ends every session at once and nothing is persisted, so a restart is a new start
of `Boot` and of every other module.

## 6. Where code and comments disagree

1. **Session ids** (`pgproxy.go:133`): three accepts at one clock reading get
   `t`, `t+1`, `t`; the comment promises uniqueness.
2. **Managed clients hung up on** (`credentials-manager.go:117`): an upstream that
   fails between login and `SyncConn` is neither reported to the client nor
   counted; the comment at 232-234 promises an ErrorResponse.
3. **Names given twice** (`fly.go:801`): of two `application_name`s `rewriteStartup` stamps
   the first and a server uses the last, so a tailnet client that sends two to a
   passthrough listener reaches the upstream without its identity; the comment at
   630-633 says that it is always appended.
4. **Plaintext passthrough clients** (`pgproxy.go:220`): the upstream's `S` is read
   over the first byte of the opening that `pgproxy.go:263` reuses, so the startup
   length is out of range and every such session ends in `bad-startup`.
5. **Aliases** (`dns.go:335`): an alias whose target has no address of the family asked
   for is forwarded under its own name, which the resolver does not know. The
   client gets NXDOMAIN where the target has NODATA, although `README.md:128` of
   the repository says that an alias resolves like its target. On an IPv6-only
   network this is every A query for an alias.

Things that no run states as a promise, and that the properties of the passing
runs permit:

* The debug listener is bound (`pgproxy.go:51-58`) before `validateListenPorts`, whose
  comment (`fly.go:221`) says that all is checked before anything binds, and its range
  is not checked: `NoPartialGateway` and `ClashesAreForeign` have an exception for it.
* A DNS loop that ends takes DNS away without ending the process, unlike every other
  loop (`dns.go:364,412`): `NoPartialGateway` exempts the two.
* A late UDP answer from the resolver to a port that is used again is passed on
  (`dns.go:399`): `DnsService` allows it if the query it is for no longer waits.
* `sessions_active` and `sessions_started` of a Postgres listener are published
  (`pgproxy.go:113-116`) and never changed; the model leaves them out.

## 7. Plan

Done, in this order: `Peer`, `Splice`, `TcpProxy` and `Relay` with their proofs;
`PgProxy`; `Boot`; `FlyIdentity` with its proofs; `ConnectProxy` over `Splice`;
`DnsForwarder` and `DnsService`; `Startup`; the accept loops' ends in `Boot`; proofs
about `PgProxy`, `ConnectProxy`, `DnsForwarder` and `Boot`, and
`EveryConnectionCounted`; `EveryRequestCounted`, `PgProxy` as a `Relay`, and the proofs
about `Startup`.

Left:

1. What `Relay` and `DnsService` promise, proved from them alone (nothing is passed on
   that was not sent; nothing of an untrusted client reaches an upstream), and so
   inherited by every proxy.
2. `dns_forward` with clients of both transports in one behaviour, if its state
   space can be cut down.
3. The `Fairness` of an abstract DNS service: every query that can be answered is,
   or its client is over.
