# Proxinator: TLA+ models, model checking and proofs

Proxinator is a Node.js library of proxy servers (forward/HTTP CONNECT, reverse/SNI, SOCKS5), proxy
clients, proxy chains and the tunnel that joins a client socket to a target socket, with utilities
(SNI parsing, DNS through random servers, a load balancer, measuring streams). This directory
holds TLA+ modules that model it, the TLC configurations that model-check them on small instances,
and theorems about them that TLAPS checks for every value of the constants.

Source paths are relative to the repository's `src/` directory unless they start with `README.md` or
`test/`. `PROJECT.json` maps each definition to the lines it models.

    tlc -workers 2 -config Tunnel.cfg MCTunnel      # any run of the table below
    tlapm TunnelProofs.tla                          # or any other module of section 4

## 1. The system

### Components

| Component | State it keeps | Operations | Talks to |
|---|---|---|---|
| tunnel (`utils/tunnel`) | listeners, pipes and idle timers on two sockets | tunnel setup; 'end', 'close', 'error', 'timeout' handlers | both sockets, the server's "error"/"timeout" events |
| forward server (`proxy/server/forward`) | `_connections`; per connection `_head`; the http.Server's own socket list | 'request', 'connect', 'error', 'close' listeners; `bind`, `error`, `end`, `close` | http.Server, tunnel, application |
| reverse server (`proxy/server/reverse`) | `_connections`; per connection `_head`; SNI timer, wait listeners | 'connection', `waitSNI`, `bind`, `error`, `end`, `close` | net.Server, sni, tunnel, application |
| SOCKS5 server (`proxy/server/socks5`) | `_handshaking`, `_connections`, handshake timers, one `once("data")` listener per socket | greeting, auth and request listeners, `authenticate` continuation, promotion, timeout, `bind`, `close` | net.Server, tunnel, application |
| SOCKS5 parsing (same file) | none | `parseAddress`, `parseAuth` | the listeners above |
| server arguments (`proxy/server/arguments`) | none | normalises the arguments of `bind` and of the factories | the three servers |
| clients reverse, forward, socks5 (`proxy/client/*`) | the socket they dial or are given, a timer | dial, handshake, timeout, error | net, http(s), the `socks` package |
| chain (`proxy/client/chain`) | `sockets` pushed so far, the promise | one hop after another, `catch` cleanup | the three clients |
| agent (`proxy/client/agent`) | none | passes a chain's outcome to http.Agent | chain |
| sni (`utils/sni`) | none | `isClientHello`, `isComplete`, server name | reverse server |
| dns, dns-cache, dns-lookup | rate-limit queue; per query its resolver and the retries left | query, bogus filter, retry | node:dns, queue-promised, cacheable-lookup |
| balancer (`utils/balancer`) | candidates, weights, cached running sums | push, addMany, delete, choice by a random or given pointer | application |
| ip, obfuscator | none | masks, subnets, host name formats | application |
| measure (speed, bandwidth, slowdown, chain) | one-second buckets, a count, a timer, inner streams | transforms used as `up`/`down` of `bind` | tunnel |

Life of a connection: a server accepts a socket, reads what its protocol asks for and emits
`"connection"`. The application looks at it and, any number of event-loop turns later, dials a target
with a client or a chain and calls `bind(socket)`, or refuses with `error()` or `end()`. `bind()`
writes the protocol's success reply and the buffered head, then hands both sockets to `tunnel()`.
`close()` of a server destroys the sockets in its registries and resolves when the listening server
has closed.

### What is hard about it

Everything runs on one thread, so interference comes from the *order of events*: two sockets with
independent 'data', 'end', 'error', 'close', 'drain' and timeout events; promises (`authenticate()`,
`waitSNI()`, the dial, DNS queries) that settle while sockets die; timers that race the event they guard; bytes
that arrive while no listener, or the wrong one, is on; a server closed in the middle of a handshake.
No state is persisted and the library retries nothing except DNS queries, so there is no crash
recovery to model. `PROJECT.json` lists each hazard at its line with the properties that watch it.

### What makes each component correct

- *tunnel*: a FIN never overtakes data; half-close stays half-close; an error or timeout never leaves
  half a tunnel; buffering is bounded; every tunnel whose peers finish or fail is torn down.
- *servers*: every open socket is in exactly one registry, so `close()` reaches it and resolves; a
  timer is set exactly while the thing it guards is pending; the target gets the client's stream from
  its first byte; a refused connection goes away.
- *SOCKS5*: nobody is served without the verdict of `authenticate()` on exactly what they presented;
  one socket is one connection; a client that follows the protocol is heard; parts of messages are
  never read as whole ones.
- *chain*: the socket returned goes through every proxy in order; a failure at any hop, of any kind,
  leaves no socket; the promise settles.
- *sni*: however the bytes are cut, incomplete until the last byte is there, then the name that was
  asked for; once an answer is given, more bytes do not change it.
- *dns*: a sinkhole's answer is returned only when every try met a sinkhole; retries never starve or
  deadlock the queue.
- *balancer*: after any history of additions and deletions, shares are proportional to weights.
- *measure*: a speed is that of its window, and meters in a chain count every byte that passes.

## 2. The modules

| Module | Models | Built on |
|---|---|---|
| `Duplex` | the abstract promise: two independent one-way channels | |
| `Tunnel` | `tunnel()`, `bind()` and Node's socket rules for two sockets | refines `Duplex` |
| `MCTunnel` | the tunnel setups TLC looks at | `Tunnel` |
| `TunnelProofs` | theorems about it, and that it implements `Duplex` | `Tunnel` |
| `Socks5Server` | TCP accept to `"connection"`, `bind`/`end`/`error`, registries, `close()` | |
| `Socks5ServerProofs` | theorems about it | `Socks5Server` |
| `Buffers` | the operations of Node's Buffer that the parsers use | |
| `Socks5Parse` | `parseAddress`, `parseAuth`, the request listener's checks | `Buffers` |
| `Sni` | `isClientHello`, `isComplete`, `parseSNI` | `Buffers` |
| `Messages` | the arrival of a message, byte by byte | `Socks5Parse`, `Sni` |
| `Induction` | induction over data, sums, recursion: what the proofs of the next two need | |
| `MessagesProofs` | theorems about both halves of it | `Messages`, `Induction` |
| `Dns` | the resolver: filter, retries, rate limit | |
| `Balancer` | the pool and the choice from it | |
| `Measure` | meters, throttle and `chain()` | |
| `UtilityProofs` | theorems about these three | `Dns`, `Balancer`, `Measure`, `Induction` |
| `MCUtilities` | the utilities for TLC | `Messages`, `Dns`, `Balancer`, `Measure` |
| `ReverseServer` | accept, `waitSNI()`, `bind`/`end`/`error`, `close()` | |
| `ForwardServer` | requests, CONNECT, `bind`/`end`/`error`, `close()` | |
| `ReverseServerProofs`, `ForwardServerProofs` | theorems about them | the two above |
| `Chain` | `chain()` and the client of each hop | |
| `MCChain` | every chain up to a length | `Chain` |
| `ChainProofs` | theorems about it | `Chain` |

The three servers and the tunnel are composed at `bind()`: a server module carries a connection up to
`bind()` (and counts what it handed over), `Tunnel` starts when the connection reaches the
application and covers every way the servers call `bind()` through its `Setups` (which server, head,
transforms, idle timeout, dial under way, what the client does early, how much each peer sends). The two halves overlap in the
interval between `"connection"` and `bind()`, which both model.

One action is one callback of the event loop with every call it makes, synchronous listeners and
microtasks included; helper operators (`OnError`, `TunnelDestroy`, `Promote`, `Reject`, ...) are the
functions it calls. Operators marked `seeded bug` are the changes of the code each property is shown
to notice; they are used by nothing else.

### Tunnel

`sock[s]` holds the flags of a Node socket (connected, ended = 'end' emitted, ending = `end()` called,
finished, destroyed, closed, timer), `flow[s]` counts the chunks that `s` sends through the proxy:
`sent >= read >= passed >= flushed`, with `held` inside a transform, `stalled` after a `write()` that
returned false, `piped` while the pipe is on. Data is counted, not stored: order within one direction
is kept by streams and only prefixes matter. `Bind` is `bind()` followed by `tunnel()`;
`Relay`/`Fill`/`Emit`/`Flush` are the pipes; `EndOfStream`, `Close`, `Fail`, `Expire` are the listeners
of `utils/tunnel/index.js`; `Connect` is the 'connect' listener of `client.reverse`. Node's own rules
(autoDestroy, write after end, drain, allowHalfOpen) are external and modelled from how the code uses
them.

### Socks5Server

`phase[c]` is the listener the socket has, or what the application did with the connection: `AppBind`
is `bind()`, `AppEnd` is `error()` or `end()`, which differ in the reply only. `Data` takes the next 'data' event off the wire - a whole
message, a part of one, or several at once - and gives it to that listener or, if there is none,
drops it and sets `dropped`. `Check`/`Settle` are `authenticate()` answering at once or later. `claim`
and `verdict` are ghosts that remember what was asked and answered. The bytes of a message that reach
the wrong listener may parse as something else: as credentials, or, since the listener of the request
does not read the version, as a request.

### ReverseServer and ForwardServer

Client bytes are counted in segments. In `ReverseServer`, `kind[c]` says what the bytes are (a
ClientHello complete after `HelloSize` segments, a malformed one, something else) and `Ready` is what
the SNI parser says of the first `head[c]` segments. In `ForwardServer`, `httpSockets` is the list of
Node's http.Server, which a socket leaves at its CONNECT; `wrapped` says that the http.Server was
given by the application. A CONNECT may be pipelined behind a plain request: the parser hands it to the
"connect" listener whatever was answered before, while http still ends the socket when its last
response is out (`last`, `LastResponse`). `PlainCloses` is about both orders. `crashed[c]` in
`ReverseServer` notes an 'error' event that had no listener.

### Messages, Socks5Parse and Sni

A buffer is a sequence of bytes and the parsers are operators on it, field by field as in the code; a
read past the end, which throws in Node, is a guard. `ReadHandshake` answers "incomplete", "malformed"
or the message. `Messages` lets a client compose one message, maybe with one byte of a ClientHello
replaced (`Spoil`), brings its bytes one by one (so `Buf` is every prefix, which is what a
segment boundary can make of it) and lets other bytes follow. `NameRead` and `AnswerStable` are what
`ReverseServer` relies on when its `Ready` counts segments instead of looking at bytes. A ClientHello
is what RFC 8446 and 6066 make of a session id, cipher suites and compression methods (`Fronts`), a
list of extensions (`ExtensionLists`), and places at which the message is cut into records (`Cuts`);
`Meant` is the name the client asks for.

### Dns

A lookup is queued, asked when the queue counts fewer than `Limit` calls, and answered by one of the
servers picked for it. An answer is "real" or "bogus"; `HasBogusIPs` is where a call with a ttl option
escapes the filter. A retry is a new call at the end of the queue.

### Balancer

The lists, the cached running sums, and the history `added` of each candidate as the reference. The
code divides weights by the smallest; the model multiplies by it, and a random pointer is one of the
unit intervals below the total, all equally likely.

### Measure

`Stages` is a chain. `Chunk` is the outer stream: the chunk is passed on and a copy is queued for the
first inner stream; `Bandwidth`, `Sample`, `Delay` and `Release` are the inner streams. Time is counted
in seconds and a throttle's timer fires whenever it likes. `arrivals` is the history that `WindowExact`
compares a reading with. `MetersExact` balances a meter's count with what is still in the buffers
and behind the timers upstream of it; `MetersCatchUp` says that this becomes nothing.

### Chain

A socket is named by the hop that dialled it, and `route[k]` records which proxies opened a tunnel on
it, so `EveryHopRouted` can say where its bytes come out. The client of a hop either uses the socket
given in its options or ignores it and dials (`UsesSocket`). A promise continuation is part of the
step that settles the promise.

## 3. The runs

| Run | Checks | Bounds | Distinct states |
|---|---|---|---|
| `Tunnel` | `TypeOK`, `DrainBeforeFin`, `BufferBound`, `AbortIsJoint`, `ImplementsDuplex`, `FinArrives`, `PairedTeardown`, `IdleEnds` | 6 setups, 1 or 2 chunks per peer plus a head, high-water mark 1 | 163 263 |
| `Socks5` | `AuthenticatedOnly`, `Tracked`, `TimerGuardsHandshake`, `PatientClientHeard`, `HandshakeEnds`, `CloseResolves` | an eager client with split messages and a patient one; `authenticate` answers at once about no-auth clients, at once or later about credentials | 592 123 |
| `Reverse` | `TypeOK`, `StreamIntact`, `TimerGuardsWait`, `HeadBounded`, `Tracked`, `WaitSettles`, `EndedCloses`, `CloseResolves` | 1 client, 4 segments, ClientHello of 2, limit 2 | 4 089 |
| `Forward` | `StreamIntact`, `Tracked`, `RefusedCloses`, `PlainCloses`, `CloseResolves` | 2 clients, 1 segment behind the CONNECT | 594 118 |
| `Chain` | `HopsRouted`, `NothingLeaks`, `OneSocket`, `Settles` | every chain of at most 4 proxies | 2 965 |
| `Utilities` | `ReadAsMeant`, `NameRead`, `AnswerStable`, `BogusOnlyAsLastResort`, `QueriesSettle`, `Proportional`, `WindowExact`, `MetersExact`, `MetersCatchUp` | see below | 143 625 |
| `TunnelTruncates`, `TunnelEarlyFin`, `Socks5Unheard`, `ReverseCrash`, `ChainBypass`, `DnsUnfiltered` | one documented sentence each, which the code does not keep (section 6) | the smallest instance that shows it | |

Why the bounds are enough:

- *Tunnel.* Two chunks and a mark of 1 make every buffer full, drained and full again; a head plus a
  chunk reaches the over-full buffer that `resume()` causes. The setups are chosen per mechanism
  (head, dial under way, half-close, transforms on both sides or on one, idle timers, early
  bytes/FIN/reset, `close()`), because their product adds states and no new handler. For the safety
  properties and the refinement the theorems remove every one of these bounds.
- *SOCKS5.* Clients meet only in the registries and `close()`, so two of them, one that waits for
  replies and one that does not, show every interaction. The theorems remove the bound.
- *Reverse.* Connections share only `_connections` and `close()`, which treats each alike; one client
  with more segments (beyond the ClientHello and beyond the limit) says more than two with fewer. The
  theorems cover any number of both, and of those of *Forward*.
- *Forward.* Two clients, since a socket may be in either of two lists when `close()` comes.
- *Chain.* Four hops put every protocol before, after and between every other; a chain keeps state of
  its previous hop only. The theorems remove the bound.
- *Utilities* follows one utility in each behaviour, since they share no state and each has one
  initial state. Messages: names of 1, 2 and 5 bytes and hosts of 3, 4 and 11 lie on both sides of
  every minimum except the one of section 6; ClientHellos with two sets of fields in front, with and
  without extensions, the server name first, last or alone, with every kind of entry in its list or
  none, in one record, with a first record shorter than the handshake header, and in three records;
  the bytes spoilt are record types and lengths, the handshake length and the
  lengths up to the name. Dns: two lookups of any kind, one slot, an honest server and a sinkhole, the
  default three retries: one lookup always waits for the other. Balancer: two candidates, weights
  omitted, 2 or 3, four entries, so that each candidate is there several times with different weights.
  Measure: a meter, a throttle and a meter, three chunks, seven seconds, one more than the window.

`CHECK_DEADLOCK FALSE` is in every configuration: clients may fall silent and connections may be
over, so the system really stops.

### Fairness

Weak fairness, and only on steps the event loop owes: a callback whose event has happened runs, a
timer that is set fires, 'close' follows `destroy()`, the operating system ends a dial one way or the
other, and the application that got a connection calls `bind()` (`Tunnel` only). In `Tunnel` a peer
that has not broken the connection reads what is sent to it, and in `ForwardServer` a response that was
written goes out (`LastResponse`). Nothing else is assumed of what peers, clients
and proxies send, of `authenticate()`, or of the application in the server modules: `WaitSettles`,
`HandshakeEnds` and `Settles` hold with everyone else silent, because of the timers. In `Dns` a query
ends, since its resolver has a timeout, and the queue runs what waits while it has a slot; in `Measure`
an inner stream that has a chunk transforms it and a throttle's timer fires.

## 4. The theorems

Every invariant and every action property that a run checks, and the refinement, is a theorem, for
every value of the constants. (`TypeOK` of `Forward` is a theorem only: no run has to repeat it.) Each
component has one inductive invariant, proved action by action and conjunct by conjunct, usually by a
theorem `Invariance`; the properties follow from it. The proofs assume what the modules assume of
their constants and, where a theorem says so, one more thing.

| Module | Theorems | Hypotheses |
|---|---|---|
| `Socks5ServerProofs` | `TypeCorrect`, `Authenticated`, `Once`, `TrackedAlways`, `TimerGuards`, `PatientHeard` | `Socks5Assumption`; for `PatientHeard`, `"anonymous" \notin Slow` |
| `ChainProofs` | `ChainTypeOK`, `ChainNothingLeaks`, `ChainHopsRouted`, `ChainOneSocket` | `ChainAssumption` |
| `ReverseServerProofs` | `ReverseTypeOK`, `ReverseStreamIntact`, `ReverseTimerGuardsWait`, `ReverseHeadBounded`, `ReverseTracked` | `ReverseAssumption` |
| `ForwardServerProofs` | `ForwardTypeOK`, `ForwardStreamIntact`, `ForwardTracked` | `ForwardAssumption` |
| `TunnelProofs` | `TunnelTypeOK`, `TunnelDrainBeforeFin`, `TunnelBufferBound`, `TunnelAbortIsJoint`, `TunnelImplementsDuplex` | `TunnelAssumption` |
| `UtilityProofs` | `DnsLastResort`, `DnsAtMostLimit`, `DnsAskedOnce` | `DnsAssumption` |
| | `BalancerProportional` | `BalancerAssumption` |
| | `MeasureWindowExact`, `MeasureMetersExact` | `MeasureAssumption` |
| `MessagesProofs` | `MessagesReadAsMeant` | `Socks5ParseAssumption` |
| | `MessagesAnswerStable`, `MessagesNameRead` | `SniAssumption` |

*Socks5Server*, `IInv == TypeOK /\ AuthInv /\ RegistryInv`. That an emitted connection was verified
follows from what the request *listener's being there* implies about an earlier `authenticate()`
(`AuthOf`), and both `Tracked` and `TimerGuardsHandshake` need the tie between a socket's listener, its
registry and its timer (`RegistryOf`). The theorems hold for any set of clients, eager or not, any
segmentation and any `authenticate` option, the omitted one included, which no run covers.
`PatientHeard` is `PatientClientHeard`, about the clients that wait for each reply and whose messages
come whole (`Clients \ (Eager \cup Split)`): none of their messages is lost, unless they were turned
away. A message that comes in two segments is refused by the code and its rest is lost, so nothing of
the kind holds of the others. Its own invariant, `PatientInv`, follows one such client through the
handshake: for each listener, which reply came last, and that the wire is empty or holds exactly the one
message that answers it (`InTurn`); hence no event finds a socket without the right listener, but for
one whose client was turned away (`TurnedAway`). This is false when `authenticate()` takes its time
over a client without credentials, which is finding 2, so the theorem assumes that it does not.

*Chain*, `IInv == TypeOK /\ StageOK /\ FreshHops /\ Reachable /\ OneTunnel`, for chains of any length.
`NothingLeaks` needs `Reachable`: *while the chain runs* every live socket is either the running
client's or in the array the `catch` walks. `HopsRouted` needs that the tunnel at hop *h* already goes
through exactly the first *h - 1* proxies (`OneTunnel`), which in turn needs that hops not yet run have
touched nothing (`FreshHops`).

*ReverseServer*, `IInv == TypeOK /\ TimerGuardsWait /\ HeadInv /\ StreamInv /\ Tracked`.
`StreamIntact` is kept only if an open socket that flows has somebody who takes what it emits
(`StreamOf`): a pending wait, the tunnel, or an `end()` after which nobody has to. `HeadBounded` needs
that a wait that goes on has a head *within* the limit, since it is looked at after a segment is
appended, and that a connection nobody waited on has an empty one (`HeadOf`).

*ForwardServer*, `IInv == TypeOK /\ StreamInv /\ RegistryInv`. The stage of a connection
says which of the two lists an open socket is in (`RegistryOf`) and where its segments are: the socket
of a CONNECT stays paused until the application has decided (`StreamOf`).

*Tunnel*, `IInv == TypeOK /\ UnboundInv /\ CountersInv /\ EndsInv /\ RelayedInv /\ RoomInv /\
DrainBeforeFin`. `DrainBeforeFin` rests on four facts: the counters of a direction
are ordered (`CountersOf`); a socket that emitted 'end' was read to the end, and one that is finished
has nothing left to write and was ended because the other one ended or died (`EndsOf`); a pipe without a transform keeps
nothing back from a live socket (`RelayedOf`); and before `bind()` nothing was relayed (`UnboundInv`).
`BufferBound` alone is not inductive: a pipe that may write must have room for one more chunk, or only
the head in front of it (`RoomOf`). `AbortIsJoint` is proved as an action property: of each action,
either it destroys both sides or the one it destroys had ended both ways.

*The refinement* maps the peers' streams, the flushed counts and the finished flags onto the channels
of `Duplex` (`Channels` in `Tunnel`), and shows step by step (`Maps...`) that a peer's bytes and FIN are
the channel's `Send` and `Finish`, a flush is `Deliver`, a FIN that goes out is `Eof` - enabled because
of `DrainBeforeFin` - a fault or a timeout is `Break`, and reading, relaying, 'end' and 'close' are
stutters. The runs check the same on six setups; the theorem covers all of them.

*Induction.* The library's induction theorems take a predicate as a parameter, which the installed
provers cannot instantiate. A set can stand for it: `SetInduction` says that a set that has 0, and
`n + 1` with each `n`, has every number; `FiniteInduction` the same of finite sets and one more
element. They follow from the well-foundedness of the strict subsets of a finite set, which the library
proves. From them come that a recursive function exists if what it calls itself with is smaller
(`RecursionExists`), what `FlattenSeq` does one sequence at a time (`FlattenJoins`), that a finite
set of numbers can be sorted (`SortedExists`), and the laws of sums over sets and sequences (`SumRemove`,
`SumUnion`, `SumExcept`, `TotalAppend`, ...), which the community modules define by folds.

*Dns*, `DnsIInv == DnsTypeOK /\ OnceInv /\ TriedInv /\ CountInv /\ BogusOnlyAsLastResort`. While a
lookup is pending, the answers it got and the retries it has left add up to the retry limit, and all of
those answers were bogus (`TriedOf`); this needs that a lookup is in the queue or with a server, and
there once (`OnceOf`), since otherwise an answer could come twice. `DnsAtMostLimit` says that the queue's
counter of calls is the number of calls, and never more than the limit.

*Balancer*, `BalancerIInv == BalancerTypeOK /\ SumsInv /\ TallyInv`. `TallyInv` says that the weights
at a candidate's places in the pool, in order, are the ones it was added with and not yet deleted;
`delete()` takes away the first place and the oldest weight. `SumsInv` says that the cached sums are
those of the weights. All weights are positive, so the sums grow, and a pointer falls between two of
them: counting the pointers of each place gives its weight, and summing over a candidate's places gives
`Proportional`.

*Measure*. `MeasureIInv == MeasureTypeOK /\ BucketsInv /\ ReadingInv`: a bucket holds what arrived in
its second, and a second of the window without a bucket had no arrivals (`BucketsOf`), whatever was
pruned in between. The sum over the buckets is then the sum over the window. `MetersExact` is inductive
together with `HeldInv` (a throttle holds one chunk at most): a chunk that moves from one stage to the
next leaves every sum of the stages up to a later meter as it was.

*Messages, SOCKS5*. The stream always begins with the encoding of the message the client means (`Sent`).
Where each field stands in that encoding is `LoginLayout` and `RequestLayout`; what the parsers say of
any buffer that agrees with its first bytes, shorter, equal or longer, is `LoginParsed` and
`RequestParsed`. The lengths are those a byte can hold, from one (names, passwords) and three (domains,
see finding 11) up; the run has three of each.

*Messages, TLS*. `ReadHandshake` is a recursion over places in the buffer, each behind the one before
(`ReaderAt`). `AnswerStable` needs no invariant but that the stream grows: at each place the reader stops in
the same way, or goes on to the same place, in the longer buffer, unless it ran out of bytes
(`StopsAlike`, `GoesOnAlike`); by induction along its places the answer is the same (`StableFrom`,
`AnswerKept`). This holds of any bytes, a well-formed ClientHello or not.

`NameRead` rests on `HelloInv`, that what a client sends stays at the front of the stream, and goes in
three steps. The records stand in the stream one behind the other (`HelloLaid`), so the reader
reaches the end of record *k* with the first bytes of the message, up to the *k*-th cut (`ReadUpto`, by
induction), and it has enough exactly behind the last one (`HelloRead`). The fields in front of the
extensions are as long as their lengths say (`OpeningHeld`, `MessageHeld`). Each loop then passes over
what it does not look for: `FirstMet` says that a loop that stops at the first part of type 0 returns
what that part gives, by induction over the parts, and serves both the extensions
(`ExtensionsWalked`) and the list of names (`ListParsed`). The theorem covers every session id, cipher
suites and compression methods, any number of extensions with any data, any list of names, any cuts
and any prefix. In it lengths and types are unbounded and a "byte" is any number, so it includes the
ClientHellos whose lengths and types fit the fields TLS gives them, the only ones there are.

Only model-checked: the liveness properties `FinArrives`, `PairedTeardown`, `IdleEnds`,
`HandshakeEnds`, `CloseResolves`, `WaitSettles`, `EndedCloses`, `RefusedCloses`, `PlainCloses`, `Settles`,
`QueriesSettle` and `MetersCatchUp`, because TLAPS has no rules here for fairness and ENABLED; and the
six violations of section 6, which are counterexamples.

## 5. Abstractions and assumptions

- The target socket a client hands out is bound in the tick it is handed out, or is still connecting
  (`client.reverse`). Idle timers fire at any time while set: durations are not modelled.
- The application calls `waitSNI()` once and does not call `end()` while it is pending, nor `error()`
  after `bind()`, as the documentation shows; a second `close()` of a server is not modelled.
- Bytes of protocol replies are not counted in the flows. Errors raised by user-supplied transforms
  are not modelled.
- A client's reset between `"connection"` and `bind()` on the reverse server is in `ReverseServer`
  (there it ends the process), so `Tunnel` does not let it happen.
- `ReverseServer` assumes `pauseOnConnect`, which the server gives the net.Server it makes. One that the
  caller brings without it reads from the start; its socket is paused by the first `pause()` all the same.
- In `Socks5Server` only the messages of the clients in `Split` may come in parts. Such a message is
  refused and what is left of it is lost, as in the code; `PatientClientHeard` does not speak of those clients, nor of
  bytes sent behind a request before `bind()`, which nobody listens to.
- What a client writes late to a socket that Node has ended is an EPIPE in `Tunnel` where the SOCKS5 reply
  is concerned and a write after end elsewhere; both codes are benign.
- A tunnel that an https hop of a chain leaves unused has no 'error' listener. `Break` of `Chain`
  destroys it; the unhandled event is not modelled.
- `AddMany` of `Balancer` adds two items; the code takes any number.
- The request timeout of an HTTP client hop runs from 'connect' of its socket; a dial under way is
  ended by the operating system. A SOCKS hop is timed from its start.
- `SocksClient`, `http.Server`, `http.request` and the streams are external: modelled by what the code
  relies on.

## 6. Where the code and its documentation disagree

Shown by a run:

1. `TunnelTruncates`: 'end' of one socket calls `end()` on the other at once
   (`utils/tunnel/index.js:49`); chunks inside a transform are written after that and lost, though the
   comment at lines 5-6 says buffered bytes drain. `DrainBeforeFin` and `ImplementsDuplex` therefore do
   not rely on a direction with a transform.
2. `Socks5Unheard`: the no-auth reply precedes an asynchronous `authenticate()`
   (`socks5/index.js:394`); a client that then sends its request is not heard.
   `PatientClientHeard` holds when `authenticate()` answers at once about no-auth clients (`Socks5`).
3. `ReverseCrash`: no 'error' listener before `bind()` (`reverse/index.js:139`, README.md:503): a reset
   while `waitSNI()` is pending is an unhandled event.
4. `ChainBypass`: an https proxy after the first hop is dialled directly (`client/forward/index.js:54`,
   README.md:178); the run shows it with an http proxy in front, whose tunnel stays open and unused.
   `HopsRouted` and `OneSocket` are stated for the other chains.
5. `DnsUnfiltered`: `isBogusIP` knows strings only (`utils/dns/index.js:47-58`). cacheable-lookup, which
   `dnsLookup()` and `dnsCache(resolver)` put in front of the resolver, asks for ttl values and gets
   objects, so the lookups README.md:452 speaks of are never filtered. `BogusOnlyAsLastResort` is
   stated for calls without the ttl option.
6. `TunnelEarlyFin`: README.md:508 says a half-close leaves the other direction open. On the reverse and
   SOCKS5 servers `allowHalfOpen` is set at `bind()` (`utils/tunnel/index.js:30`); a client FIN that is
   read before that ends both directions. `DrainBeforeFin` and `ImplementsDuplex` take such a direction
   as a lossy one (`Lossy`).

Met while modelling; the properties say where they do not apply:

7. README.md:503 and `utils/tunnel/index.js:8` say that benign errors are not reported. The forward and
   SOCKS5 servers also report every error of the client socket themselves (`forward/index.js:97-101`,
   `socks5/index.js:166-168`), and with it the reset of a tunnel's client (`ServerReports`).
8. README.md:511 says any socket error destroys both sides. A client that was reset before `bind()` has
   emitted its error already: the target is only ended, and stays open while it is silent.
   `AbortIsJoint` and `PairedTeardown` are stated for what happens from `bind()` on.
9. README.md:512 promises `idleTimeout`. `client.reverse` calls `setTimeout(0)` on 'connect'
   (`client/reverse/index.js:54`), which also disarms the idle timer that `bind()` set on the target
   while it was connecting. `IdleEnds` is stated for targets connected at `bind()`.
10. README.md:392-393 says that a chain of a meter and a throttle measures and shapes the stream. The
   outer stream of `chain()` calls back at once and what the inner streams let out is thrown away
   (`measure/chain/index.js:17,35-37`), so a chained throttle slows nothing down (`Chunk` of `Measure`).
11. `MIN_REQUEST_SIZE` is 10 (`socks5/index.js:54-55`), which is right for IPv4 only: a domain of one or
   two characters makes a shorter request, which is refused as malformed. The hosts of `Messages` have
   three characters or more.
12. `AVERAGE_DURATION` is 5 seconds (`measure/speed/index.js:8-9`), but the window holds the current
   second and the five before it: a steady stream reads up to six fifths of its rate. `WindowExact`
   states the six buckets.
13. README.md:452 says "other random servers". `pickRandomServers` chooses with replacement and a retry
   does not know what was asked before (`utils/dns/index.js:103-108`): it may meet the same servers,
   and `Dns` lets it.

## 7. Not modelled

- The agent (no state of its own), auth headers and destination URLs (formatting), the obfuscator
  (formatting and one query), the re-exporting entry points, the development tools, examples and data.
- `utils/ip`: pure functions of one argument; what can be wrong in them a unit test reaches.
- The cache of cacheable-lookup: another package; of the library's own code there is a constructor.
- The seed of `getRandomCandidate(seed)`: a pointer the caller gives, of which nothing is promised.
- `chain()`'s forwarding of `on()` and `once()` to its inner streams: what goes wrong there (a 'drain'
  of an inner stream resumes the source of the outer one) is inside Node's `pipe()`.

## 8. Plan

Done: `Tunnel` and `Duplex`; `Socks5Server`; `Socks5Parse`, `Sni` and `Messages`; `ReverseServer`;
`ForwardServer`; `Chain`; `Dns`, `Balancer` and `Measure`; and the theorems of section 4.

Left, in this order:

1. A finer arrival of segments in `ReverseServer`, so that its `Ready` is `IsComplete` of `Sni` on the
   bytes of `Messages` and the two are joined by a refinement instead of by `NameRead` and `AnswerStable`.
2. `FinArrives` and `HandshakeEnds` as leads-to chains, if a prover with fairness rules becomes available:
   the invariants they rest on are proved.
3. A second `close()` of a server, and `waitSNI()` called twice, which the documentation does not forbid.
