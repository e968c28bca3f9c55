# A TLA+ verification of SnapPipe

SnapPipe is an identity-gated transport over QUIC: a client presents a ticket
signed by an issuer, the server checks it against a trust store, and bytes are
then relayed (relay) or bridged to TCP (tunnel) under a rate limit per node.
This directory models it in TLA+, checks it with TLC on small instances and
proves the most important properties with TLAPS. Paths below are relative to the
crate root `src/`.

## The system

| Part | State | Operations | What makes it hard |
|---|---|---|---|
| Rate limiter, `src/rate_limit.rs` | map node -> token bucket behind a mutex, four atomic counters | `try_consume`, `set_limit`, `new` | times read before the mutex is taken go backwards inside it; rates change while tokens are spent; counters live outside the mutex |
| Nonce store, `src/nonce_store.rs` | map nonce -> time behind a mutex, four counters, a file | `check_and_record`, `cleanup_expired`, `persist_to`, `load_from` | old times, cleanup racing a check, two writers of the file, a crash in the middle of a write |
| Tickets, `src/lib.rs` | none | `issue_ticket`, `sign_ticket`, `verify_ticket` | order of the checks, boundary of the expiry, overflow of the sum that makes it |
| Handshake, `src/session.rs` | one request and one reply stream per connection | `client_handshake`, `server_handshake` | two ends, a connection that breaks at any step, a trust store and a clock that go on meanwhile |
| Trust store, `src/trust.rs` | map node -> entry behind an RwLock, a file | `add`, `remove`, `save`, `load_from_path`, `is_trusted`, `get` | saving is not atomic; edits between the snapshot and the write; clones that save at once; the file format |
| Relay, `src/relay/mod.rs` | per stream: where it is, bytes in and out | `handle_connection`, `sync_node_limit`, `serve` | streams of one node share one bucket; trust changes between two lookups |
| Relay listener, `src/relay/listener.rs` | accepted connections, `cancel` | `run_listener`, `handle_connection`, stream adapters | opens the handshake stream itself; finishes a stream after each write; goes on after errors |
| Tunnel, `src/transport/tunnel.rs` | accepted connections, bridges, `cancel` | `serve`, `connect_with`, `bridge_quic_to_tcp` | half-closes, cancellation only between two accepts, QUIC handshakes inside the accept loop |
| Sync plane, `src/sync.rs` | none | `walk_dir_with`, `diff_entries`, `apply_mtime` | files that change during the walk, unreadable directories, times within a second |
| QUIC profiles and endpoints, `src/quic/` | none | constructors of certificates and configurations | what both sides must agree on |
| Command line, `src/main.rs` | key, ticket and certificate files | `keygen`, `ticket issue/inspect/verify`, `tunnel serve/connect` | processes that share files and can be killed between two writes |

The handshake asks the trust store and a clock; the accept loops of the tunnel
and the listener run a handshake per connection; the listener hands each further
stream to the relay, the tunnel bridges it; the relay asks the trust store,
tunes the limiter from the trust entry, and charges the limiter once per stream
and once per chunk. The command line feeds the tunnel with files. The nonce store
and the sync plane are library parts: nothing else in the crate calls them in
this version.

## The modules

- `HashMap`: `empty`, `insert`, `retain` of `std::collections::HashMap`.
- `TokenBucket`: the bucket as operators. The code keeps `f64` tokens and adds
  `capacity / 60.0` per second. Here a token is `Period` units (`Period` stands
  for 60), so one second adds exactly `capacity` units and all is integer; the
  rounding of `f64` is abstracted away.
- `RateLimiter`: every call is two steps, the `fetch_add` before the mutex and
  the critical section. A call may carry any time up to the present, because the
  relay passes both the present second and the second a connection was accepted
  in. `hist` is a history variable (what was granted, since when, largest
  capacity).
- `NonceStore`: the same two-step calls; `persist_to` is snapshot, truncate,
  write, by any thread, so that two of them can overlap. A write that fails or is
  cut by a crash leaves some of the lines, the last of which may be cut in its
  timestamp and still parse; a write over another one may leave the rest of it
  behind. `last` and `saved` are history variables.
- `Ticket`: a signature is the pair of the key and the claims it was made over.
  `expires_at` has the width of `i64` (`MaxI64` stands for its maximum), and a sum
  that leaves it wraps. Fields that are compared with nothing are left out.
- `Handshake`: both ends of the handshake on concurrent connections, with their
  callers. The client writes a header and then the ticket, and the server may
  accept the stream and read its clock between the two. `ServerOpens` chooses
  between the tunnel, which accepts the stream of the client, and the relay
  listener, which opens one. `Verifying` are the clients that check their own
  ticket first, as `connect_with` does.
- `Relay`: the tasks of `handle_connection`, one step per call into the shared
  stores and per stream operation. `QuicStreams` are the streams whose outgoing
  end is the adapter of the listener.
- `TrustStore`: the registry and its file, saved by several clones at once.
  Display names are reduced to what the file format tells apart. Names are written
  unescaped, so a file with a colon or a line break in one (`odd`) is refused or
  gives a registry that `parse` leaves open: every node of its whole lines, with any
  rate, and maybe others. `saved` and `revoked` are history variables.
- `Bridge`: one proxied TCP connection from end to end: application, bridge of
  `connect_with`, QUIC stream, bridge of `serve`, target. Each of the two
  directions has a near pump (`tcp_to_qs`) and a far pump (`qs_to_tcp`). A bridge
  drops its stream and socket only when both of its pumps are done (`join!`), and
  that drop is what stops a writer at the other end. A destination reads (`Takes`)
  when it likes, and its socket holds `Buffer` chunks it has not taken: then the
  `write_all` of the far pump waits. Chunks are counted. `fault` is a history
  variable. The part of the endpoints, the kernel and quinn (`Writes`, `Takes`,
  `Ends`, `LosesLink`, `Stopped`) is external.
- `Pipe`: the abstract connection that `Bridge` implements.
- `AcceptLoops`: the outer loops of `serve` and `run_listener`, which are alike, and
  their handlers, which part when `accept_bi` fails (`after_error`); the endpoint's
  queue; `cancel`; the stub `Relay::serve`. The ticket handshake is one step, whose
  detail is in `Handshake`; what is done with a stream is in `Bridge` and `Relay`.
  `late` is a history variable.
- `Sync`: a tree that other programs change; `walk_dir_with` in its two phases,
  the enumeration (one step per directory opened and per name reached) and one
  `metadata` call per entry, in any order as with several threads;
  `diff_entries`; and a replay of the difference on another host that uses
  `apply_mtime` and can stop anywhere. The replay is the use the module's doc
  describes and is external. `touched` and `moved` are history variables.
- `CommandLine`: each command reads its files one by one, computes, and writes its
  outputs one by one (truncate, write). `tunnel serve` reads its keys and ends with
  an error (see below). The server that `tunnel connect` meets is therefore of
  another program (`Host`, external), which calls the library as
  `tests/tunnel_e2e.rs` does: it makes a certificate at every start and keeps the
  keys it has read. `tunnel connect` pins a certificate, verifies its ticket and
  presents it, and stays in its accept loop when the server is gone. `ticket verify`
  takes the clock or any `--now`. `issued` and `paired` are history variables.
- `MC*`: the instances. `*Proofs`: theorems and proofs. `FileProofs` is about
  `TrustStore` and `Sync`, `TunnelProofs` about `Bridge` and `AcceptLoops`; so that
  one module can extend two, the definitions of `Sync` and `AcceptLoops` that every
  specification has are called `SyncInit`, `LoopsInit` and so on.

Variables and actions keep the names of the code where TLA+ allows it. The
definitions called "Mutant of ..." next to an operation are deliberately wrong
versions of it; no specification uses them. They show, for each property, a
plausible mistake that the property notices.

## What the runs check

| Run (config) | States | Properties |
|---|---|---|
| `MCRateLimiter.cfg` | 544,093 | `TypeOK`; `Budget`: a node is never granted more than a bucket and its refill, for any interleaving and any old times; `NeverStarved`: a node not served for a period has a token; `CountersBalance` |
| `MCNonceStore.cfg` | 1,137,470 | `TypeOK`; `NoEarlyReplay`: two acceptances of a nonce are the ttl less the skew apart, across cleanups, and across a crash after a `persist_to` that ran alone; `ReuseIsCounted`: a reuse counts as a first sighting only when a cleanup may have dropped its entry; `CountersBalance` |
| `MCHandshake.cfg` | 319,150 | `TypeOK`; `SuccessIsAuthorised`: a client that succeeded has a ticket of the issuer for the subject, its issuer was trusted during the handshake, and the server accepted these claims; `FreshWhenSent`: an expired ticket is not accepted, although the server's time is older than its check; `ClientEnds`: a client that began the handshake gets the response or an error |
| `MCRelay.cfg` | 477,779 | `TypeOK`; `RelayBudget`: all streams of a node together forward no more than one bucket and its refill since the first of them, at some rate that was in effect, whatever the operator edits; `LogsAreHonest`: the log of a stream says what was forwarded, if its source closed it, it was limited or its peer was refused (a write that fails half way ends in `Error`, of which nothing is claimed) |
| `TrustStore.cfg` | 785,834 | `TypeOK`; `RevokedStaysOut`: a removal that was saved survives crashes and later saves that fail or overlap (a load that reads the node out of a name with a line break counts as adding it); `SavedLoads`: a save that ran alone leaves a file that loads, and `SavedComesBack`: with the nodes and rates of that save, both if no name has a colon or a line break |
| `MCBridge.cfg` | 93,113 | `TypeOK`; `IsPipe`: `Bridge` implements `Pipe`, so chunks are neither lost, repeated nor invented and a clean end comes after all of them; `ChunksArrive`: where the destination goes on reading or has closed, each chunk arrives unless its direction fails, also if the other direction is stuck; `BridgesReturn`: no bridge outlives both endpoints; `EveryConnectionDialled`: the target is dialled once the application has written or ended |
| `AcceptLoops.cfg` | 75,500 | `LoopsTypeOK`; `AtMostOneMore`: after `cancel` a loop takes at most one connection, a handler at most one stream; `HandlersEnd`: handlers end with their connection (the listener's only after `cancel`); `CancelIsSeen`: a loop that is woken after `cancel` returns; `ArrivalsAreServed`: nothing waits for ever behind another connection's handshake or another stream |
| `MCSync.cfg` | 218,573 | `SyncTypeOK`; `WalkIsComplete`: a walk that returns Ok has every regular file that nobody touched and that is kept with the directories above it, as it is, and nothing excluded; `FailuresHaveCause`; `NoPhantomChange`: the difference of two walks has only what was changed; `EditsAreSeen`: also within one second; `ReplayConverges`: a full round mends what interrupted rounds left; `WalksReturn` |
| `MCCommandLine.cfg` | 1,435,828 | `TypeOK`; `KeyFilesAgree`: a `keygen` that ran alone leaves halves of one key, whatever killed and overlapping ones left; `VerifiedIsValid`: `ticket verify` says so only of a ticket of that key within its ttl at the time it used, also when the sum overflowed; `TunnelIsAuthorised`: a tunnel leads to the pinned server with a valid ticket of that server's issuer, across rotations and restarts |

Three runs state what a comment of the code says and find that the code does
otherwise:

- `MCHandshakeListener.cfg`, `ClientEnds`: the relay listener opens its own
  stream for the handshake (`src/relay/listener.rs:121`) and so does the client;
  each waits for the other, and keep-alives hold the connection up.
- `MCRelayQuic.cfg`, `PumpsUnlessFault`: the adapter finishes the stream after
  each write (`src/relay/listener.rs:238`), so the second chunk is an error.
- `MCCommandLineAlpn.cfg`, `SameAlpnConnects`: the ALPN of a tunnel server goes into
  the transport profile only, and `default_server_config` offers the ALPN of the
  relay (`src/quic/endpoint.rs:135`); a `tunnel::connect` with the ALPN that the
  server's profile was built for is refused, although `src/transport/tunnel.rs:451`
  asks for exactly that one.

Other comments were found to be inexact while modelling. The models follow the
code, and these have no run of their own:

- `tunnel serve` never starts. It calls `quinn::Endpoint::server`
  (`src/main.rs:410`) before it has built a tokio runtime (418), and quinn returns
  an error for want of one; lines 362 to 365 say that it runs the accept loop. Line
  363 says also that it reads the trust store from disk; the flag is refused. And
  nothing writes the certificate it makes to a file, which `tunnel connect` needs.
- `src/session.rs:201` says that a failure closes the response stream with the
  failure kind; the future that would send it is dropped (221, 229, 237, 244), and
  the client sees the end of the connection.
- `src/transport/tunnel.rs:13` says that the server bridges every accepted TCP
  connection; `open_bi` sends nothing, so the target of an application that waits
  to be spoken to is never dialled. `EveryConnectionDialled` has the guard.
- `src/transport/tunnel.rs:287` says that `bridge_quic_to_tcp` returns when either
  side ends; it waits for both, and `ChunksArrive` depends on that.
- `src/transport/tunnel.rs:151` says that `serve` returns when `cancel` flips; an
  idle loop waits in `accept` and sees it only after a next connection or the end
  of the endpoint, which is what `CancelIsSeen` says.
- `src/nonce_store.rs:128` says that reuses after the ttl are counted apart from
  first sightings, which holds only until `cleanup_expired` has removed the entry.
- `src/trust.rs:8` speaks of one line per entry. A display name with a colon or a
  line break, which nothing refuses (155), makes a file that does not load, or that
  loads with another rate or with nodes nobody added. The properties exclude it.
- `src/sync.rs:87` says that a `false` of the predicate excludes the descendants
  too; the code goes down into the directory all the same. `src/sync.rs:9` says
  that symlinks are not followed, and 58 that an entry is a regular file; the walk
  does not descend through links, but lists them with the `std::fs::metadata` of
  what they lead to. `WalkIsComplete` claims neither.
- `src/relay/listener.rs:105` says that streams are passed one at a time until the
  connection is closed; each gets a task, and after the close `accept_bi` fails
  and is called again until `cancel`. Line 38 says that dropping `cancel` stops
  the listener; the loop owns a reference of its own. The `RelayStats` that it
  returns are never recorded into.

### Bounds, and why they are enough

Two threads, connections, streams, savers or shells make every race between two
calls happen; where there is a proof it covers any number. `RateLimiter`: three
seconds with a `Period` of two let a bucket empty, refill, shrink and grow; rates
0, 1 and 3 lie below, at half of and above the default 2. `NonceStore`: a ttl of
3 and a skew of 1 in 5 seconds let a nonce expire, be cleaned up and be accepted
again; one crash separates two lives of the process. `Handshake`: a clock up to 1
and tickets that expire at 0 and at 1, one for each outcome of `verify_ticket`
and of the subject check; two connections share trust and time. `Relay`: two
chunks per stream and two edits of the trust entry. `TrustStore`: two nodes, so
that a file can be cut between them, three edits, three saves of which two can
overlap and a third repairs, and two crashes. `Bridge`: three chunks up fill the
socket of a target that does not read, the far pump, a stream with room for one,
or the near pump behind them; one chunk down makes both directions carry data.
`AcceptLoops`: two connections, so that one waits behind the other, and two
streams on each, so that one can be late and another would be. `Sync`: a
directory with a file, a file beside it, and a link to either; the predicate
excludes the file beside it; two changes, two walks and two rounds of replay;
clocks on both sides of the epoch. `CommandLine`: three commands in two shells,
which is enough to rotate a key or restart a server between two others; `MaxI64`
of 3 and a ttl of 3 overflow. The bounds (`Max...`) stand only in guards.
Deadlock is not checked: a bounded run stops when its bounds are used up, and
idle servers may wait for ever.

### Fairness

Weak fairness only, and only of steps that a task takes when it is polled:

- `FairSpec` of `Handshake`: the steps of each end once they are enabled. QUIC
  delivers what was written or ends the connection.
- `Spec` of `Bridge`: the pumps, and the two tasks that open the stream and dial.
- `LoopsSpec` of `AcceptLoops`: the loop, the handlers, and the stub. That a QUIC
  handshake ends is the idle timeout of the profiles; a ticket handshake ends only
  once its connection has, because its reads have no time limit.
- `SyncSpec` of `Sync`: a walk goes on until it returns.

Nothing is assumed about clients starting, connections breaking, the operator,
`cancel`, the clock, other programs, or what the endpoints of a bridged
connection do; `ChunksArrive` itself asks that the destination of its direction
takes what it was given, again and again, or closes.

## What is proved

For all values of the constants that satisfy the assumptions named in the modules
(such as finitely many threads, a positive period and default rate, a window and
a socket of at least one chunk, ttls that an `i64` can hold, trees without
cycles). Each proof shows that `Init` implies the inductive invariant `IInv`,
that every action preserves it, and that it implies the property. The larger
proof modules use Zenon unless a step names SMT, for its numbers, records or
tuples; each module is checked from nothing in a few minutes.

- `TokenBucketProofs`: lemmas on `refill`, `consumed`, `retune` and `full`, and the
  few facts on products that the SMT solver needs to be told. `Within` relates a
  bucket to what it has granted: tokens left and tokens granted together are at
  most a bucket and its refill up to the anchor. Each operation keeps it, which
  serves the limiter and the relay alike.
- `RateLimiterProofs`: `TypeCorrect`, `BudgetHolds`, `NeverStarvedHolds`,
  `CountersBalanceHolds`. `Budget` is not inductive: it forgets the tokens still
  in the bucket. `Ledger` (`Within` for the history of a node) adds them to those
  granted and measures time by the anchor of the bucket instead of the clock;
  `Regained` says that since its last grant a bucket has gained a unit per second
  or holds a whole token. `IInv` is the type invariant, `Ledger` and `Regained` of
  every node, and that pending calls carry no time from the future.
- `NonceStoreProofs`: `TypeCorrect`, `NoEarlyReplayHolds` and `ReuseIsCountedHolds`
  (action properties) and `CountersBalanceHolds`. The invariant says that a nonce
  accepted is in the map with its time, or its time is more than the ttl ago
  (`Kept`); that calls and acceptances are at most the skew old; and that what a
  `persist_to` wrote that ran alone is in the file until the next one truncates
  it (`Durable`, `Down`).
- `HandshakeProofs`: `TypeCorrect`, `SuccessIsAuthorisedHolds`,
  `FreshWhenSentHolds`. The checks are made at the server and the success is seen
  at the client, so the invariant carries them across: a server past its checks
  has a ticket that passed them at the time it had read (`Approved`), that time is
  not before the client began to write (`Clocks`), the issuers trusted while a
  handshake runs are remembered (`Vouching`), and an Ok that a client reads is one
  that the server wrote for this ticket (`Ends`).
- `RelayProofs`: `TypeCorrect`, `LogsAreHonestHolds`, `RelayBudgetHolds`. `Pending`
  gives, for every place in `handle_connection`, the chunks read and not written.
  For the budget, what a node has forwarded is the cardinality of a set with one
  element per admitted stream and per chunk, so that no sum needs an induction.
  `Accounts` bounds the larger set of what was charged, a chunk between its charge
  and its write included, by `Within` of the node's bucket: each `try_consume` adds
  one element and takes one token, `sync_node_limit` may only retune.
- `FileProofs`, on `TrustStore`: `TypeCorrect`, `RevokedStaysOutHolds`, `SavedLoadsHolds`,
  `SavedComesBackHolds`. A save that has been alone since it began writes into an
  empty file (`Alone`); what it wrote stays until the next truncation
  (`Durable`); a saved removal is in no file and in no snapshot that is still to
  be written (`Removals`), which is what overlapping saves could break; a load has
  only nodes of the file, unless a broken name made others; `Down` and
  `Resting` say what is left of a process that crashed and of a save that is over.
- `FileProofs`, on `Sync`: `SyncTypeCorrect`, `WalkIsCompleteHolds`,
  `FailuresHaveCauseHolds`, `NoPhantomChangeHolds`, `EditsAreSeenHolds`,
  `ReplayConvergesHolds`. It is assumed that going up from a path ends at the root,
  that the trees to start from have every file in a directory, and that no link
  leads to a link; that every change keeps this is proved. A walk is complete
  because a file that nobody touched is listed, found, or below a directory that
  is still to be opened (`Pending`); the directories above a path (`Above`) are an
  intersection of closed sets, which takes the place of an induction over the
  depth. What was found stays true unless it, or what its link leads to, is
  changed (`Faithful`), relative to the walk (`touched`) for `Found` and to all
  walks (`moved`) for `Recorded`. `Replayed`: what a round has not on its list, or
  has done, agrees with the walk.
- `TunnelProofs`, on `Bridge`: `TypeCorrect` and `IsPipeHolds`, that every step of
  `Bridge` is a step of `Pipe` or a stutter. The invariant counts the chunks along
  the way (`Counts`), says how a direction can end (`Endings`), and which pumps a
  task can have (`Tasks`).
- `TunnelProofs`, on `AcceptLoops`: `LoopsTypeCorrect`, `AtMostOneMoreHolds`.
  `Lateness`: nothing is late before `cancel`, nor while a loop still waits in the
  accept it began before.
- `CommandLineProofs`: `TypeCorrect`, `KeyFilesAgreeHolds`, `VerifiedIsValidHolds`,
  `TunnelIsAuthorisedHolds`. A file that is whole holds a key, a certificate or a
  ticket that was issued, whichever belongs there (`Contents`); a ticket that was
  issued is signed by its issuer and expires no later than its ttl says, also if
  the sum wrapped (`Issues`); and a command has read such files in the order of its
  plan, and has checked what it says it has (`Sound`). A `keygen` that no other has
  met is the only one that writes its files, and with only the public half left to
  write, the secret half is in place (`Pairing`).

Only model-checked: liveness under fairness (`ClientEnds`, `ChunksArrive`,
`BridgesReturn`, `EveryConnectionDialled`, `HandlersEnd`, `CancelIsSeen`,
`ArrivalsAreServed`, `WalksReturn`), which is out of the prover's reach, and the
three violations. Every invariant and action property of a passing run is proved.

## What is not modelled

- Sizes and contents of messages, TLS and QUIC below streams, encodings of keys,
  tickets and nonces, `f64` rounding: data that no property tells apart. That the
  handshake sizes its buffer by what the peer announces (`src/session.rs:215`) is
  therefore outside the model. That its reads have no time limit is in it, but no
  property can ask for more than the code does.
- The transport profiles (`src/quic/mod.rs`) and the rest of the endpoint
  constructors: constants and constructors without state. The certificate and the
  ALPN are in `CommandLine`.
- The names of paths in a walk: separators become slashes, a backslash in a name
  too, and bytes that are no UTF-8 a replacement character, so that two files may
  get one name (`src/sync.rs:145`). Paths in `Sync` are unique.
- `relay sample-config`, `quic profile` and `metrics` of the command line: they
  print or write constants, or run a fixed demonstration.
- `metrics`, `snapshot`, `len` and other readers; `RelayStats`, which nothing
  records into; `MemoryStream`, which only tests use; `TunnelConfig::validate`,
  which only tests call.
- Clients that open more streams than the transport allows at a time: the limit is
  in quinn.
