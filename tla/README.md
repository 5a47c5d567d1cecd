# safexip in TLA+

safexip is one process that answers DNS for one zone. It gives an address to
every name that spells one (`host-192-0-2-10.zone`), and it serves the TXT
values with which ACME clients prove control of the zone; an authenticated HTTP
API adds and removes those values. This directory models that process, checks
the models with TLC and proves their main properties with TLAPS. Paths are
relative to the repository; `src/state.rs` and its neighbours are the program.

## 1. The system

| Part | State | Operations | Hard behaviour | What makes it correct |
|---|---|---|---|---|
| Challenge store, `src/state.rs` | tokens with expiry instants, zone serial, behind one `RwLock` | `add`, `remove`, `get_with_serial`, `serial`, each of which prunes first | any number of HTTP and DNS tasks; the clock moves between its two readings; callers use replies after the lock is gone; a waiting handler may be dropped; restarts | bounds never exceeded; one token per value; a serial names one content; exact expiry though pruning is lazy; every call ends |
| Wire capacity, `src/wire.rs` | none | `fits`, `maximum_token_count` | a search with boundaries at 0, powers of two and 65535 | the search finds the exact maximum and ends |
| Configuration, `src/config.rs` | none | parsing, then `validate` | two names in two spellings; a limit of tokens that depends on the zone's names; the order of the checks | nothing is bound under a configuration that cannot be served; a limit is accepted exactly when that many tokens fit |
| Request gate, `src/api.rs` | token bucket behind a mutex, semaphore | `check_rate`, `try_acquire` | lazy refill; two checks one after the other, with other requests between them | bounded requests per window; permits conserved |
| HTTP API, `src/api.rs` | none of its own | `present`, `cleanup`, `health` | layers (gate around timeout around body); timeout against lock; disconnection at any await | statuses tell the truth; permits come back |
| DNS answers, `src/dns.rs`, `src/xip.rs` | none | `build_response`, `name_exists`, `parse_xip_ip` | caching resolvers that infer more than was said (RFC 8020), random spelling, late answers | nothing that exists is denied; a challenge is seen |
| DNS encoding, `src/dns.rs` | none | `handle`, `handle_udp`, truncation, SERVFAIL | UDP answer cut, retry over TCP against a changed zone | an answer is complete or says that it is not |
| DNS listeners, `src/main.rs` | TCP permits, a buffer | UDP loop, TCP accept loop, one task per connection | idle and slow clients, permits taken before accept | nobody keeps a permit by being silent |
| HTTP listener, `src/main.rs` | connection permits | accept, then try a permit | header timeout, rejection when full | as above; never stops accepting |
| Startup, shutdown, `src/main.rs`, `safexip.service` | phase of the process | parse, validate, bind three listeners, `select!`, signals; restart by the supervisor | an address that is taken, a listener that ends, a signal before its handler is there | no half-working process; a wanted service comes back; it ends well only when asked |
| Serial over restarts, `src/state.rs` | nothing is kept | a new serial from the wall clock | more changes than seconds; a clock set back | a serial names one content for ever |
| Deployment, `deploy/initialize.sh` | key file, ACME file | create if absent | concurrent and interrupted runs, a proxy that writes meanwhile | one key, never replaced; no certificates lost |
| Packages, `packaging/scripts` | service running, enabled | install, upgrade, removal scripts | order of old and new scripts; crashes and an administrator between a look and a restart | an upgrade leaves the service as it was; a removal leaves nothing |

The parts meet as follows. `main` builds one store and gives it to the HTTP
router and to the DNS handler; both are `Arc` clones, so store, lock and serial
are shared between all tasks. An HTTP request goes connection → authentication →
rate → permit → (timeout: body → handler → store) → response. A DNS question
goes listener → `build_response` → store → encoder → listener, and from there
to a resolver that this program does not control. Nothing is persisted. The
program calls nothing back.

## 2. The modules

| Module | Models | Builds on |
|---|---|---|
| `AcmeTokens` | tokens, calls, their sets and the configuration's constants | |
| `ChallengeZone` | abstract: what the store promises | `AcmeTokens` |
| `AcmeRecords` | `src/state.rs` | `AcmeTokens`, refines `ChallengeZone` |
| `TokenBucket` | abstract: what the rate limit promises | |
| `RequestGate` | `RequestGate` of `src/api.rs` | refines `TokenBucket` |
| `TokenLimit` | `maximum_token_count`, the comparison in `validate` | |
| `HttpApi` | `src/api.rs` | composes `AcmeRecords` and `RequestGate` |
| `DnsAnswer` | the match of `build_response`, `src/xip.rs` (operators only) | |
| `DnsResolver` | a caching resolver in front of `DnsAnswer` | `DnsAnswer` |
| `DnsServer` | `handle`, `handle_udp`, the refusals, encoding, truncation; a client that goes on over TCP | `DnsAnswer` |
| `UdpLoop` | `run_udp_dns` | |
| `TcpListener` | `run_tcp_dns` | |
| `HttpListener` | `run_http_api_with_limits` | |
| `Process` | `main`, `shutdown_signal`, `Config::validate`, `safexip.service` | |
| `ZoneSerial` | the serial over the lives of the process | |
| `Initialize` | `deploy/initialize.sh` | |
| `PackageLifecycle` | `packaging/scripts`, as `nfpm.yaml` assigns them | |
| `ListenersMC` | the three listeners side by side | `UdpLoop`, `TcpListener`, `HttpListener` |
| `DeploymentMC` | what runs around and before the process | `PackageLifecycle`, `Initialize`, `Process`, `ZoneSerial` |
| other `...MC` | values for the constants of the runs | |
| `...Proofs` | theorems about the module of that name and their proofs; `ListenersProofs` and `DeploymentProofs` about the parts of `ListenersMC` and `DeploymentMC` | |

Operators whose comment says *defect* are wrong on purpose. No specification
uses them; replacing the definition that follows them by one of them must make
a run fail, which shows that the property of that run looks at that code.

### AcmeRecords and code

The vector of tokens is a set of `[value, remaining]`. The code keeps a map from
names to vectors, but `validate_request` admits the challenge name only, so the
map has at most one entry. An `Instant` becomes the time a token has left: `Tick`
ages every token, `expires_at > now` is `remaining > 0`, and no bound on time is
needed. An operation of the code is three steps:

* `Call`: the task waits for `state.write().await`, the only await inside;
* `Begin`: it has the lock and prunes, with its first reading of the clock;
* one of `AddRefresh`, `AddOverLimit`, `AddOverWire`, `AddPush`, `Remove`,
  `GetWithSerial`, `ReadSerial`: the rest up to the return, with the second
  reading of the clock for additions, and the guard is dropped.

`Return` is the moment at which the caller has used the reply, so that a reply
and its serial can be held while the zone moves on. `Cancel` is the drop of a
handler's future by the timeout or a lost connection; it is possible only where
the future can be suspended. DNS tasks are never dropped. `Restart` forgets
everything and takes any serial, since the code takes it from the wall clock.
`changed` is the local variable of that name. `Fits` stands for the encoder:
which sets of values fit one message; only that it is monotone and holds of the
empty set is assumed. `drift` is a history variable that counts how far the
serial has moved since an answer was formed. It only tells an answer that is so
old that the serial has gone round from a wrong one.

One remark on the code that the model makes plain: the `if changed` in the
token-limit refusal (`state.rs:75`) never finds `changed` true. A prune that
removed a token leaves room, because the limit held before it.

### RequestGate and code

`check_rate` runs whole under its mutex and is one step with two outcomes,
`PassRate` and `RateLimit`. `try_acquire` is another step, `Acquire` or
`Saturate`; a request that is saturated has spent its rate token, as in the
code. `last_refill` becomes `unseen`, what the bucket has gained since then. The
`f64` becomes exact arithmetic in units of which a token costs `Price`, so that
fractions of a token occur. `window` is a history variable: an observation
window that opens at any instant.

### TokenLimit and code

Each round of either loop of `maximum_token_count` is a step. `largest` is the
unknown that the search must find; `FitsCount` compares with it, which assumes
only that a message with fewer records is not larger.

### HttpApi and code

A task of `Handler` is one HTTP exchange at a time, and a phase follows it
through the layers of `router_with_limits`. A request is chosen with the right
or wrong credentials, and a body that asks for a change, is refused by
`validate_request` or the JSON and size layers, or never comes. The steps of the
store (`Lock`, `Operate`, `Respond`) are those of `AcmeRecords`, and those of
the gate are those of `RequestGate`: both modules are used as they are.
`TimeOut` and `HangUp` can happen where the code waits, for the body or for the
lock. DNS tasks use the store at the same time (`Lookup`). Restarts are left to
`AcmeRecords`.

`ZoneFollowsRequests` looks at the whole from outside: what DNS serves changes
by time, or by exactly what one request asks for that is authenticated, holds a
permit and is still waited for. The comment at `src/api.rs:130`
("authentication and admission happen before any body is read") is about the
order of the layers on which this rests.

### DnsAnswer, DnsResolver and code

A name is the sequence of its labels below the apex, and a label the sequence of
its hyphen-separated parts: a number up to 255 or a word. `HyphenParts` does to
them what splitting the dotted string at hyphens does: the parts at both sides
of a dot are one part, which is no number. `Folded` is the lower-casing. All
types that are not matched are one type, `CAA`. The resolver and the network are
external: answers may arrive late, in any order relative to other questions, or
never. TTLs are finite but otherwise unknown. The zone's values come and go at
any time, which is what `ChallengeZone` allows when its calls are forgotten.

### DnsServer and code

`versions` is the sequence of the zone's contents and a serial is a position in
it, which `SerialNamesContent` justifies. `Refusals` lists the early returns of
`build_response` in the code's order; the first that applies wins. `Encoded` is
`encode_complete_or_servfail`, `HandleUdp` adds the limit
`max_payload().min(1232)` and the truncation, which keeps header and question.
Both are sets of at most one message: each encoding may fail, that of the
truncated message (`dns.rs:49-52`) and of the SERVFAIL (`dns.rs:82-88`)
included, and then nothing is sent. Whether the library encodes again the
question it has decoded is a property of the question, `echoes`; the refusals
that return before the question is added do not depend on it. `glue` stands for
the addresses that an answer about the apex's name servers carries
(`dns.rs:182-184`). Sizes are so much for an answer without records (the largest
such answer), so much per record and so much for the glue. The encoder of the
library is external; whether its name compression distinguishes upper from lower
case is not visible in `src/`, so `SpellingCost` leaves both open, and
`CapacityServed` speaks of questions in lower case only, which is how
`AcmeWireCapacity::fits` measures. `Change` adds a value only when it fits, as
the store does.

`DatagramsFit` does not use the server's own limit. `Takes` says what may come
to a client: what UDP always carries, or as much as it announced up to the 1232
bytes that cross every network. An announcement below 512 does not lower the
first, which is also what the library's `max_payload` makes of it. In the other
direction an answer is marked as truncated only when, from some version of the
zone, the whole answer is more than that.

### UdpLoop and code

One loop receives, answers and sends. A question that needs the store waits for
its lock; the lock serves its waiters in order, hence `ahead` and `behind`. The
socket's buffer has `Room`; a datagram that finds it full is lost, which no
property forbids.

### TcpListener and code

The loop takes a permit, then accepts, then hands both to a task. A frame is four
units, two of the length and two of the message, so that a deadline can fire in
the middle of either. Every exit of the task is `Close`, which drops the permit:
deadlines, a closed connection, a message of length zero, no answer, an answer
above 65535 bytes. `sent` and `received` are history variables that count where
in a frame the client is. `mute` clients neither send nor read.

### HttpListener and code

The loop accepts, then tries a permit, and drops the connection when there is
none; nothing waits between the two, so they are one step. A failed accept
changes nothing here and is left out. `Buffer` is what the system takes of
responses that the client does not read. Writing a response has no deadline in
the code: `HttpSilentLeave` holds for clients whose unread responses have room,
and needs this condition.

### Process and code

`phase` follows `main`: parse, validate, bind UDP, TCP and HTTP, serve. The
guard of each step is the `?` after the call. `caught` says that
`shutdown_signal` has been polled and its handler registered; until then a
signal kills. `taken` are the addresses that other programs hold. `AllOrNothing`
includes that nothing is bound under a configuration that was not accepted.

After an exit with success `Restart=on-failure` does nothing, so it matters who
can cause one. `ended` is a history variable that says what ended the process.
`StaysDownOnlyWhenAsked` says that a service that is wanted is down only after
an error, which the supervisor repairs, with two exceptions:

* Ctrl-C cannot be waited for, whether or not SIGTERM can. `shutdown_signal`
  returns as after a signal (`main.rs:154`; `WaitFails`).
* The HTTP listener returns `Ok`. `main.rs:83-85` passes on what it returned,
  while any return of the UDP or TCP listener is made an error
  (`ListenerExits`). The loops have no way out today but one of TCP's, for a
  closed semaphore, which nobody closes, and a panic, which is an error to the
  supervisor; the three branches are modelled as `main` is ready for them.

`ServiceReturns` has the same two provisos. The property also says that no
signal, neither one that comes before its handler nor one meant for an earlier
process, ends a service that is wanted.

### ZoneSerial and code

A life begins with the wall clock's seconds and counts up. The 32 bits hold the
clock until 2106 and are not modelled here; wrapping is in `AcmeRecords`. `told`
and `outran` are history variables. `outran` becomes true when a life begins
before the clock has passed every serial told earlier, which takes more changes
than seconds in an earlier life or a clock that is set back. Then, and only then,
a serial may name two contents.

### Initialize and code

A run is a sequence of looks and of creations with `set -C`. A run can stop
anywhere; a `printf` that fails counts as interrupted, because the script takes
the failure for "created concurrently". An interruption between the creation of
the environment file and the write of the key leaves an empty file, which every
later run preserves: `KeyOrInterrupted` says that this is the only way to it.
`interrupted` is therefore a history of where each run was interrupted, and an
interruption at any other line excuses nothing.
`docs/production.md` ("creates only when absent", "never rotates a key or
truncates ACME data") is `NothingReplaced`.

### PackageLifecycle and code

`Plan` is external: which scripts each package manager calls, with which
arguments and in which order. `Stops` and `Restarts` are the calls for which the
scripts do something to the service. `deb-postinstall.sh` and its siblings look
whether the service is active and then restart it, and somebody may stop it in
between; `StartsOnlyWhatRan` states what remains true: only a service that ran
since the operation began is started. dpkg's `deconfigure` is left out.

A stop or a disable that fails is passed over: the commands end in `|| true`
(`deb-preremove.sh:7`, `rpm-preremove.sh:6`, `systemd-preremove.sh:5`,
`openrc-preremove.sh:5,8`), and without the manager's command they are not even
tried. `StopAndDisable` may fail at either half, and `missed` remembers what the
last removal tried in vain. `RemovedMeansStopped` and `NoOldVersionLeft` have
what was missed as their only exception: what could not be stopped runs on
without its package, also when the package is installed again (`reinstall`; on
Debian its postinst is told of an old version and restarts), until an upgrade or
another removal ends it. "Package removal stops and disables the service"
(`README.md:134`) holds when the service manager does what the script asks of
it.

## 3. The runs

| Run | Question | Instance |
|---|---|---|
| `acme_records` | Do the bounds hold at every instant, is a value stored once, and is the store the abstract zone? | 2 handlers and 1 query; 2 values of one unit and 1 of two; room for 2 tokens and 2 units; lifetime 2; serials modulo 3 |
| `acme_answers` | Do equal serials mean equal contents? | 1 handler and 2 queries that hold their answers; otherwise the same |
| `acme_liveness` | Does every call end; do abandoned tokens disappear from answers? | 2 handlers, 1 query, 2 values, lifetime 1, no symmetry |
| `request_gate` | Is any window's traffic bounded; is laziness invisible? | 3 requests, 2 permits, burst 5, price 2, refill 1, windows of 9 units |
| `token_limit` | Is a limit accepted exactly when it fits? | every capacity 0..21, every limit 1..23 |
| `http_api` | Do statuses tell the truth, do permits follow the work, are store and gate used as specified, does the zone change only as admitted requests ask? | 3 exchanges, 2 permits, burst 1, 2 values, room for 1 token |
| `http_liveness` | Do permits come back whatever clients do? | 2 exchanges and 1 query, 1 permit, no symmetry |
| `dns_resolver` | Is every type of a name with data kept; is a lasting challenge seen? | the challenge, an address, an address below another name, that name; types A and TXT; 1 value |
| `nxdomain_cut` | Is a name with data ever denied? Expected to fail, see section 5 | the same |
| `dns_server` | Is every answer complete or marked; is what was accepted served; does every datagram fit, and is none cut without need; does every lookup end? | 1 client; 4 values of size 4 and glue of 4 beside 5; datagrams of 9 to 14, messages of 17; no announcement and announcements of 6, 13 and 20; 5 versions of the zone |
| `listeners` | Are permits and frames kept; do silent clients go; is what is buffered dealt with? | 3 clients and 2 permits for TCP and for HTTP; 2 unread responses; 4 datagrams, room for 2, 2 others at the store |
| `deployment` | Is the service whole, kept and ended as asked; are serials unambiguous; is nothing replaced? | 4 package formats, 3 versions; 3 initialisations; 8 configurations, any addresses taken; 2 values, 3 seconds, serials at most 1 ahead |

Why the bounds are enough. Every hazard of the store needs at most two actors
besides the clock: two writers racing for the last place, a writer and a reader
that holds an answer, two readers with answers of different versions. Three
values of two sizes fill the store by count (two small ones) and by size (the
large one alone), and a refused addition can meet expired tokens. Lifetime 2
lets a token age and expire between any two steps, in particular between the two
clock readings. Serials modulo 3 wrap. Three requests for two permits make a
request find none after its rate check; with a burst of two and a half prices
the bucket reaches fractions, the burst and zero, and windows are long enough
for several refills. 21 is no power of two, so the doubling of the search meets
its cap, and the capacities include 0, 1, all powers of two and the cap itself;
23 exceeds it. The safety properties are moreover proved for all values, see
section 4.

In `dns_server` three values fit a message, two a large datagram and one a small
one, so that answers are complete, cut and impossible, and a question in mixed
case can fail where one in lower case does not. Clients announce nothing, less
than the small datagram, a size in between that an answer meets exactly and one
in mixed case passes by one, and more than the large datagram. In `listeners`
the third client finds no permit, a frame can be cut anywhere, and the buffer
overflows. In `deployment` three versions allow an upgrade of an upgraded
package; three initialisations allow two that race and one that finds what they
left; serials that run one ahead of a clock of three seconds are enough to be
told twice.

`ListenersMC` and `DeploymentMC` put components together that share no state. A
behaviour of the whole is an interleaving of behaviours of the parts, so each
part is explored while the others rest; the variables `listener` and `way` say
which one. What the parts do to each other through the store appears in each
(`ahead`, `behind`, `Handle`).

In `ImplementsZone` a lookup and a refused addition take effect at their prune
and an accepted addition or removal at its end; this is the refinement mapping
`TakenEffect`, `ZoneStatus`, `ZoneResult`, `ZoneValues`.

The search stops when it is done (`CHECK_DEADLOCK FALSE` in `TokenLimit.cfg`).
Everywhere else a clock, a client or an administrator can always take a step, so
that the question "is anybody stuck" is asked by the liveness properties.

### Fairness

* Store: `SF(Begin)`, because tokio's `RwLock` is fair and serves its waiters in
  order; `WF` of the work under the lock and of the caller's use of the reply,
  because the runtime polls what is ready; `WF(Tick)`, because time passes. No
  fairness on calls, cancellations or restarts.
* HTTP: `SF(Lock)` for the same reason; `WF` of the gate's, the handler's and
  the timer's steps. Nothing is assumed of clients: not that they send a body,
  authenticate, read a response or leave.
* Search: one thread runs it.
* Resolver: `WF` of asking and of the end of each TTL; `SF(Deliver)`, since the
  network does not lose every answer for ever.
* `DnsServer`: `WF` of the server's answers, `SF(Deliver)` for the same reason.
  Clients need not ask again, and need not wait.
* UDP: `WF` of the loop and of other tasks leaving the store (`CallsComplete`).
* TCP: `WF` of taking a permit, of answering and of each deadline; `SF(Accept)`,
  since the system hands out connections in order and accept does not fail for
  ever. Nothing is assumed of clients, who may talk for ever: `QueueServed`
  therefore supposes that the others do not.
* HTTP connections: `WF` of accepting or rejecting, of the end of an exchange
  (which `PermitsComeBack` shows) and of the header deadline.
* Process: `WF` of its own steps and of the supervisor's restart.

## 4. What is proved

For every value of the constants that meets the named assumptions
(`ConfigAssumption`, `FitsAssumption`, `LockAssumption`, `SerialAssumption`,
`GateAssumption`, `RecordsAssumption`, `PermitsAssumption`, `SizeAssumption`,
`ListenerAssumption`, `HttpAssumption`, `VersionsAssumption`, `FilesAssumption`,
`ClockAssumption`):

| Theorem | States |
|---|---|
| `TypeCorrect`, `NeverOverCapacity`, `NeverTwice` | `Spec => []TypeOK`, `[]Capacity`, `[]OneTokenPerValue` |
| `SerialSound` | `Spec => []SerialNamesContent` |
| `Implements` | `Spec => ImplementsZone` |
| `GateTypeCorrect`, `RateBounded`, `LazyRefill` | `GateSpec => []GateTypeOK`, `[]WindowBound`, `LazyIsEager` |
| `LimitExact`, `LimitTypeCorrect`, `SearchBracketed` | `LimitSpec => []AcceptedExactly`, `[]LimitTypeOK`, `[]Bracketed` |
| `UsesStore`, `UsesGate`, `UsesParts` | `HttpSpec => StoreUsedProperly`, `GateUsedProperly`, `PartsUsedProperly` |
| `HttpCapacity`, `HttpZone`, `HttpSerials` | `HttpSpec => []Capacity`, `ImplementsZone`, `[](SerialNamesContent /\ OneTokenPerValue)` |
| `ZoneAccountable` | `HttpSpec => ZoneFollowsRequests` |
| `StatusTruth` | `HttpSpec => []StatusHonest` |
| `PermitsFollowWork` | `HttpSpec => []PermitsHeldByWork` |
| `Complete`, `AcceptedIsServed`, `DatagramsSmall` | `ServerSpec => []CompleteOrMarked`, `[]CapacityServed`, `[]DatagramsFit` |
| `ListenerTypeCorrect`, `NoPermitLost`, `NeverMidFrame` | `ListenerSpec => []ListenerTypeOK`, `[]PermitsConserved`, `[]FramesAligned` |
| `TcpAmongOthers` | `ListenersSpec => [](PermitsConserved /\ FramesAligned)` |
| `HttpLimitExact` | `ListenersSpec => HttpTurnedAwayWhenFull` |
| `NoOldVersion`, `RemovalStops` | `DeploymentSpec => []NoOldVersionLeft`, `[]RemovedMeansStopped` |
| `NoUnaskedStart`, `UpgradeGentle` | `DeploymentSpec => StartsOnlyWhatRan`, `UpgradeKeepsService` |
| `FilesSafe`, `KeyIsThere` | `DeploymentSpec => NothingReplaced`, `[]KeyOrInterrupted` |
| `WholeService`, `NotLeftDown` | `DeploymentSpec => []AllOrNothing`, `[]StaysDownOnlyWhenAsked` |
| `SerialForEver`, `SerialForward` | `DeploymentSpec => []NamesForEver`, `NeverOlder` |
| `SiblingsSafe` | `ResolverSpec => []SiblingsKept` |

The arguments:

* **Store.** `StoreInv` adds to the types that the stored set is `Sound` (both
  bounds and uniqueness), that a task is in its critical section exactly when it
  holds the lock (`Guarded`) and that it runs an operation it called (`Called`).
  `Capacity` alone is not inductive: `AddPush` needs to know that nobody came
  between its count and its write, which is what `Guarded` says. Soundness
  survives aging, pruning, removal, refresh and a push within the bounds; each
  is a lemma.
* **Serials.** `Versioned` relates each held answer to the present: if the serial
  has not moved since (`drift` 0), the values are the stored ones, and while a
  holder's `changed` is set, the serial that is to come is a new one. Two answers
  agree because the distance between their serials is the difference of their
  drifts.
* **Refinement.** Each step of the store is mapped to a step of the zone or a
  stutter, with `Blank` (no reply is left over from an earlier call) added to
  the invariant. The interesting steps are `Begin`, where lookups and refusals
  take effect, and `Tick` between the two clock readings.
* **Gate.** `WindowBudget` strengthens `WindowBound` by what could still be paid
  now: paying moves units from one side to the other, and a tick adds as much to
  the bound as to the budget at most.
* **Search.** `Bracketed` holds of every round.
* **HTTP.** `UsesStore` and `UsesGate` map steps of the composition to steps of
  its parts, which carries the theorems about the parts over. For `WindowBound`
  it carries nothing: the observation window is never opened in `HttpApi`, and
  the bound is proved of the gate alone. `HonestInv` says
  that the store is touched only in the storing phase and, there, exactly from
  the moment the lock was taken. `PermitInv` counts permits with the exchanges
  that are read or stored; each step begins work (`WorkBegins`), ends it
  (`WorkEnds`) or neither (`SameWork`).
* **The zone and its requests.** `WorkChanges` says that an operation under the
  lock changes what is served not at all or by exactly what its call asks;
  `QueriesOnlyRead` and `OthersKeep` that nothing else changes it but time.
  `ServesInv` ties the call to its client: who is read or stored has the right
  credentials, and what is asked of the store is what the body asked. Together
  with `PermitInv` this gives `ZoneFollowsRequests`, step by step.
* **Resolver.** `DataExists` shows that the list of existing names covers the
  lists of answered ones, `DenialIsTrue` that an NXDOMAIN therefore denies
  nothing of the name itself, and `FlightHonest` carries that through the
  network.

* **DNS server.** `ZoneInv` says that the present zone fits a message. From it
  `AnswerFits` shows that an answer in lower case fits: what is not a challenge
  has at most two records (`FewAnswers`), and a challenge has what fits.
  `FirstOfFive` and `RefusalsAre` reduce the table of refusals to its effect,
  `SentShapes` what is sent to a response, a SERVFAIL or a marked answer. `Good`
  says of an answer under way that it keeps its promise to the question its
  client still waits for; a later version of the zone does not break it, because
  `versions` only grows (`StillPromised`). `Datagram` does the same for sizes:
  what stays within `UdpLimit` is what the receiver takes, in both directions
  (`LimitIsTaken`).
* **TCP.** `Aligned` ties the place in the frame to what the task does about the
  connection. `Opens`, `Closes` and `Stays` count connections; the permit count
  follows from them, action by action.
* **HTTP listener.** `HttpInv` counts permits with open connections, as for TCP;
  the loop holds none. `TurnedAway` then reads off that a rejection, the only
  step that takes a waiting connection away, finds as many open connections as
  the limit allows.
* **Packages.** Whether a service ends as it should depends on what the package
  manager has yet to call, so `PackageInv` speaks of the rest of the plan: an
  old version runs only while a restart is still to come, a removal whose stops
  are done has nothing running left, and nothing runs before the files are
  there, each time but for what was missed (`Left`, `Stopped`). `Orderly` is
  what all plans have in common; it is shown of each format's plan
  (`InstallShape`, `UpgradeShape`, `RemoveShape`) and kept by every tail
  (`TailOrderly`). Crashes, the supervisor and the administrator act between any
  two calls.
* **Files.** `FilesInv`: at most one run has created the environment file and not
  written its key, and until it does the file is empty. `NothingReplaced` needs
  both: the write of the key, the only write to a file that is there, finds it
  empty.
* **Process.** `ServiceInv`: what is bound (`BoundSoFar`) and what has been
  checked of the configuration follow from how far `main` has come, a signal
  is under way only to a process that nobody wants any more, and what ended the
  last process goes with its outcome.
* **Serial over restarts.** `ToldBefore`: unless `outran`, everything told lies
  at or below the present serial, and under the present serial only the present
  content was told. A new life keeps it because it begins above what was told.

The inductive invariants of the last four were checked by TLC on the instance of
`deployment` before they were proved. `ListenersSpec` and `DeploymentSpec` put
their parts side by side; each step is a step of one part and leaves the
variables of the others alone (`ListenersParts`, `DeploymentParts`), so that what
is proved of the parts adds up.

Every safety property that a passing run checks is the subject of a theorem. Only
model-checked is liveness (`CallsComplete`, `AbandonedExpire`, `SearchEnds`,
`PermitsComeBack`, `ChallengeVisible`, `LookupEnds`, `BufferedHandled`,
`SilentLeave`, `QueueServed`, `HttpSilentLeave`, `ServiceReturns`): a proof from
fairness needs ENABLED, which the prover does not handle. Some limits of the
models are limits of the theorems: `LastSecond` and `MaxLead` are arbitrary, but
the serial of `ZoneSerial` does not wrap; the four formats, the shapes of names
and the configurations are those of the modules.

## 5. A disagreement between code and comment

`name_exists` (`src/dns.rs:256-274`) is commented: "Existing names must answer
NODATA, never NXDOMAIN, to avoid RFC 8020 NXDOMAIN-cut poisoning sibling record
types." That holds for names with data (`SiblingsKept`). It does not hold for a
name that exists only because something below it has data.
`192-0-2-10-host.dept.zone` has an address, since `parse_xip_ip` splits at
hyphens and finds four octets, but `dept.zone` is answered NXDOMAIN. A
nameserver configured as `ns1.dept.zone` does the same. A resolver that
implements RFC 8020 then answers NXDOMAIN for the name below as well, until the
negative TTL ends. Run `nxdomain_cut` shows it in three states. The challenge
name itself, directly below the apex, is not affected (`ChallengeVisible`
includes these names).

## 6. Not modelled

* The syntax of names, credentials, JSON and options, the contents of records,
  logging and the `health` endpoint: stateless, and no property is about them.
* The encoder, tokio, hyper, axum: external, represented by what the code relies
  on.
* An `accept` that fails again at once makes both accept loops spin
  (`main.rs:105`, `main.rs:212`); time that is burnt has no state here, and
  fairness assumes that accept does not fail for ever.
* `deploy/initialize-employee.sh`: one look and one exclusive creation of an
  empty file, which are the steps that `Initialize` has for the ACME file.
* In the package scripts: users, capabilities, files under `/run`, and dpkg's
  `deconfigure`. In `initialize.sh`: permissions.
* CI, release automation, container and unit files (except `Restart` of
  `safexip.service`): declarative or external.
* The token bucket across restarts: a new process starts with a full bucket, so
  the window bound holds within one process only.

## 7. What could follow

* `AcmeClients`: presents, validations and cleanups by clients that crash, retry
  and time out, with duplicated and delayed requests, against `ChallengeZone`.
* The package scripts' effect on users and files.
