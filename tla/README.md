# Snow Radar: a TLA+ development

Snow Radar is a small VPN service. A Go control plane (`src/api`) sells
subscriptions, issues tokens and provisions WireGuard / AmneziaWG tunnels on two
nodes (Singapore `sgp`, Falkenstein `fsn`); a Flutter client (`src/client`) asks
it for tunnels; `src/infra` builds the hosts. This directory holds TLA+ models
of the parts of that system whose correctness depends on the order in which
things happen, the TLC configurations that check them, and TLAPS proofs about
them. Paths below are relative to `src/api/internal` unless they say otherwise.

To check a model: `tlc -config MCNetalloc.cfg MCNetalloc`. To check the proofs:
`tlapm NetallocProofs.tla`.

## 1. The system

### Components

| Component | State | Operations | What makes it correct |
|---|---|---|---|
| Address allocators, `netalloc/allocator.go` (four: node x protocol) | `held` map, `free` LIFO list, `next` cursor, one mutex each | `Allocate`, `Release`, `HeldBy`, `InUse` | an address has one holder; none is lost; exhausted means exhausted |
| Peer service, `peer/service.go`, behind `POST /connect`, `GET /peers`, `DELETE /peers/:id` | none of its own: it moves the allocators and the peer table | `Connect`, `Revoke` | device limit; idempotence on (node, protocol, key); one address per peer; no address leaks; a user touches only what is the user's |
| Sessions, `api/router.go` (signup, login, refresh, logout), `api/middleware.go` (`sessionManager`) | refresh rows (`jti`, user, consumed) and accounts in the store | `SaveRefreshToken`, `ConsumeRefreshToken`, `RevokeAllRefreshTokens` | a refresh token works once; a session never forks and is not lost; a replay or a logout ends the user's sessions |
| Rate limiter, `api/middleware.go` | window per remote address, one mutex | `rateLimit` | every request that reaches it is answered |
| Token issuer and passwords, `auth/auth.go` | none | `Issue`, `Verify`, hash and compare | cryptographic |
| Billing, `billing/*.go`, webhooks in `api/router.go` | subscription rows in the store | `Mint`, `Verify`, `paddleWebhook`, `payHereWebhook` | a row is what the provider said of a subscription that user checked out; an active subscription is not displaced; the state follows the provider |
| Stores, `store/memory.go`, `store/postgres.go`, `migrations/001_init.sql` | users, peers, subscriptions, refresh rows | one method or statement each | each method atomic; both stores answer alike |
| Process wiring, `src/api/cmd/api/main.go` | which store is used | start, stop | what survives a restart |
| Client, `src/client/lib` | connection state, key pair in the keychain | connect, disconnect, toggle, select; ensure and destroy keys | the state shown is that of the tunnel; the stored pair matches; the button comes back |
| Infrastructure, `src/infra` | hosts | one-shot scripts, Terraform, Ansible | not a protocol |

### How they interact

A request to `/auth/*` passes the rate limiter, then the handler, then one or
two calls of the store. A request to `/connect` or `/peers` passes `requireAuth`
(which reads only the signed token), then `peer.Service`, which makes up to five
calls: the store's subscription, the store's peers, an allocator, the store's
peer table, and the allocator again when the insert fails. Webhooks write the
subscription table that `Connect` reads. There is no shared lock: every store
method, every allocator method and the limiter hold one of their own, and
nothing is held from one to the next.

### What is hard

* Calls of the same user overlap (two devices, a client that retries): each of
  `Connect`, `Revoke` and `refresh` reads under one lock and acts under another.
* `Revoke` uses a copy of a row which other calls may have invalidated.
* The store may fail at any call, and several errors are dropped
  (`service.go:81`, `:114`, `:151`, `postgres.go:196`).
* A restart: what is in memory (allocators, always; the store, as wired today)
  is gone, tokens stay valid for 30 days.
* A replayed token, a lost answer, a retry.
* Payment providers deliver late, repeatedly and out of order; a webhook reads the
  subscription and writes it in two calls, and carries a checkout token that
  expires long before the subscription does.
* In the client anything may happen between two awaits, whatever is awaited may
  throw with or without effect, and the app may be killed.
* A panic under a mutex.

`PROJECT.json` lists these hazards at their lines, with the properties that
cover them; the few without a property say why.

## 2. The modules

| Module | What it is |
|---|---|
| `LeasePool` | abstract: leases on addresses, granted and returned |
| `Netalloc` | the allocators; implements `LeasePool` |
| `NetallocProofs` | proofs about `Netalloc` |
| `TunnelBook` | abstract: open tunnels, with the address, device and limit rules |
| `PeerService` | `Connect` and `Revoke` step by step over `Netalloc`; implements `TunnelBook` when a user's calls do not overlap |
| `PeerServiceProofs` | proofs about `PeerService`, on top of `NetallocProofs` |
| `PeerSerialProofs` | proofs about it when a user's calls do not overlap |
| `SessionBook` | abstract: sessions, each open, moving between two tokens, or over |
| `Sessions` | accounts and refresh tokens over either store; implements `SessionBook` |
| `SessionsProofs` | proofs about `Sessions` |
| `Billing` | checkout tokens, both webhooks call by call, the subscription table of either store |
| `BillingProofs` | proofs about `Billing` |
| `Client` | the app's connection controller and keychain, await by await |
| `ClientProofs` | proofs about `Client` |
| `RateLimiter` | the limiter with its mutex and its panic |
| `RateLimiterProofs` | proofs about `RateLimiter` |
| `MC...` | constants and symmetry sets for TLC |

In each module the definitions whose comment starts with "Mutant:" are broken
variants of the definition after them. They are used by nothing; putting one in
the place of the definition must make TLC refute the property `PROJECT.json`
pairs it with, which shows that the property depends on that piece of the code.

### Netalloc

One action per way `Allocate` and `Release` end. A call runs under one lock, so
it is one step. An address is its host octet, 2 to 254 in the code and
`FirstHost .. LastHost` here. The sweep of `Allocate` (a loop that moves the
cursor until it meets a free octet) is written as "the first index from the
cursor that is not taken"; a failed sweep moves the cursor once around, which
`AllocateFails` says with `Cursor(@, Tries)` and does not assume to be nothing.

### PeerService

`call[d]` is the request of device `d` and where it is; a device has one request
at a time and `UserOf[d]` is its user, so requests of one user overlap exactly
when two devices belong to it. Between two calls of a store or an allocator any
other device may step. The steps are: `check` (decode the key, read the
subscription), `list` (read the peers, match, count), `allocate`, `save`,
`undo` for `Connect`; `find`, `release`, `revoke` for `Revoke`. A pool is a
(node, protocol) pair. The webhooks are an environment that stores any
subscription state at any time. `StoreFails` gives the store failing calls,
which the interface allows and `store.Memory` does not make; a call that fails
has no effect. The error of `PeersByUser` is dropped by the code, so there it
means an empty list.

`RevokePeer` marks a row whatever its state: two revocations of one peer
overlap and both succeed, as in the code.

### Sessions

A token is its jti. Any client may present any token that was handed out, at any
time and repeatedly: that covers retries after a lost answer, stolen tokens and
several devices. `store` is chosen at start. With `Memory`, `consume` and the
burn are one step under one lock, nothing errs, and a restart loses rows and
accounts. With `Postgres`, the burn is a statement of its own whose error is
dropped, a call may fail before or after it took effect, and rows survive; a
signup never succeeds there (section 3), so the accounts are the ones somebody
put into the table, and `Init` chooses them.
`root`, `ended` and `exempt` are history variables: they never guard a
step, except that `root` says which jtis have been drawn.

`SessionBook` says what this amounts to for one who knows neither rows nor
requests: a session is opened in somebody's name, is then "open" (one fresh
token) or "moving" (a refresh between consume and issue), and ends for good. A
logout or a burn ends every open session of the user in one step and misses the
moving ones. `Standing` maps rows and requests to that; a session with two ways to go
on has no standing in the book, so implementing it includes that none forks. The
book loses a session only by a failed write or a restart.

The handlers are modelled as the router runs them behind the limiter. As
`RateLimiter` shows, today's limiter lets no first request through; `Sessions`
is about what happens once it does, and about logout and the store, which it
does not guard.

### Billing

`said` is what the providers have said, and signed, of the subscriptions they
have; each subscription has the checkout token it was made with (`deal`).
Elements stay in `said`: their webhooks may arrive late, again, in another order, or
never. A request, an element of `Deliveries`, carries a signature made for an element
of `said`, and a subscription, a status and a token. Paddle signs the whole body, so its
request is what was said (`AsSent`). PayHere's hash covers merchant, order, amount,
currency and status (`billing.go:78-86`), so of its request only the status is vouched
for: its subscription is any, and its token any that the checkout has handed out. `Hooks`
handlers run at once. A handler
checks configuration, signature age, status and token without touching the store:
`Refusal` is the first of these checks that fails, and a refused event changes
nothing. Then it makes one store call per step: `user`, `read` (Paddle only),
`write`. `Configs` are the triples of secrets the operator may have set. `store`
is chosen at start. `Memory` has one subscription per user and loses everything in
a restart; Postgres has one per user and provider, prefers the active and then
the newest, takes only the four states of its schema, and may fail before or
after the write. Nothing says that rows come in the order of events, and they do
not: `RowsVouched` is what is left, that a row is *something* that was said. It
fixes the state of every row, the four of the schema and the empty one. Of a Paddle
row it fixes the subscription and the user too; of PayHere's that its state
was said of some subscription, and that its user has checked out.

Signatures and ages: a token carries the key it was signed with, and verifies
under that key only. Paddle's signature has an age limit, PayHere's has none. The
clock of the providers is ours (the code tolerates two minutes of skew).

### Client

Dart runs one event loop, so a handler is atomic from one await to the next, and
`flow[f]` is the await call `f` is at: `readPub`, `writePriv`, `writePub` (inside
`ensureKeyPair`), `api`, `readPriv`, `setConfig`, then `up` and `raised` for
`connect`; `down` and `lowered` for `toggleStealth`'s disconnect. The plugin's
`connect` and `disconnect` are two steps each: the tunnel changes (`Up`, `Down`), and
later the answer arrives and the handler goes on (`Connected`, `Disconnected`); other
calls run between the two. `Fails` is the catch of `connect`: any await throws, the
plugin's `connect` before or after the tunnel came up, and a write or `setConfig`
that throws may have been made. `DownFails` is the same for `disconnect`. `Kill` ends
the app at any point; keychain persists, and the tunnel may. A lease is what the API
was asked for (key, node, protocol), and a configuration is a lease and the private
key merged into it. The address is only displayed, and left out.

The button is judged by `status`, that is, the screen is taken to have been
redrawn before the next tap is handled. The access token is left out.

### RateLimiter

`rateLimit` from the clock reading to the unlock: `Arrives` (reads the time),
`Locks`, and then one of `Panics`, `Reopens`, `Counts`. For an address without
a window the code stores a window in the map and leaves the local `w` nil;
`w.count` at `middleware.go:65` panics between `Lock` and `Unlock`. `Panics`
therefore stores the window, ends the request (gin's recovery answers 500) and
leaves `mu` held.

## 3. The runs

| Run | Question | Result |
|---|---|---|
| `netalloc` | are the free list and the cursor right, and is the allocator a lease pool? | holds |
| `peer_overlap` | whatever overlaps and fails, is an address lost, or somebody else's peer or lease touched? | holds |
| `peer_serial` | when a user's calls do not overlap, are the calls atomic, the limit and idempotence kept in the book and in the peer table, addresses unshared? | holds |
| `peer_limit` | is the device limit kept when they do? | violated |
| `peer_address` | has each peer an address of its own when they do? | violated |
| `sessions` | do sessions fork, get lost, come back, or hurt one another; is it all one book of sessions? | they do not; it is |
| `sessions_final` | does a replay or a logout leave no usable token? | violated |
| `rate_limiter` | is every request answered? | violated |
| `billing` | is each row vouched for, and an active subscription kept? | holds |
| `billing_sync` | is a provider's word that a subscription is no longer active taken? | violated |
| `client` | do keys match and stay, does the button come back? | holds |
| `client_protocol` | is "connected" shown over a tunnel, and of the protocol shown? | violated |

### What the violations show

* `rate_limiter`. A first request from any address locks the limiter for good.
  A process starts without a window for anyone, so the first signup, login or
  refresh answers 500 and every later one waits forever. Logout, connect and the
  webhooks do not pass the limiter. No test of the repository sends a request
  through the router.
* `peer_limit`. `Connect` lists the peers, decides, and only
  then allocates and saves. Two requests of one user that both list before either
  saves are both admitted: past the limit of three, or as two peers with the
  same key on the same node.
* `peer_address`. Two revocations of one peer. Both find it; the first releases
  the address and revokes; a `Connect` of the same user is given the address,
  which is on top of the free list; the second releases it again, successfully,
  because `held` names the *user*, and not the peer. The next `Connect`, of
  whomever, gets the same address: two active peers share it.
* `sessions_final`. `refresh` consumes the old token and inserts the new one in
  two calls. A logout or a replay's burn between them does not see the session,
  and the token inserted afterwards works.
* `billing_sync`. A checkout token is good for 30 minutes (`router.go:373`,
  `checkout.go:88`), and every webhook of a subscription carries the token it was
  checked out with. A cancellation, a failed payment or a renewal that comes later is
  answered 403, and the subscription stays active here. `ClosedByExpiry` says how far
  this reaches: nothing a provider sends changes the user's rows until the user's next
  checkout.
* `client_protocol`. While `connect` is under way the switch is live. Moved after
  the API was asked, it changes what the screen will say and not the tunnel,
  whether the tunnel was up already or not.

Met while modelling, and not given a run of their own:

* `middleware.go:86` says that rotation and revocation survive restarts because
  rows go through `store.Store`, while `main.go:55` wires the in-memory store.
* A `Connect` repeated before the first has saved its peer finds no match and
  provisions a second peer: the same overlap as `peer_limit` (`service.go:82`).
* "Device limit reached" (`service.go:23`, `router.go:251`) counts tunnels per
  node and protocol: one device that uses all four combinations is refused, and
  the client never revokes.
* Logout and the burn mark rows the way a use does (`memory.go:132`). A device
  logged out with the others that then refreshes counts as a replay and ends the
  session the user has opened since.
* On Postgres, `CreateUser` inserts no id (`postgres.go:48`) into a `TEXT PRIMARY
  KEY` without a default (`001_init.sql:5`), and `SavePeer` inserts an address
  with host bits (`postgres.go:82`) into a `CIDR` column (`001_init.sql:28`). Neither
  insert can succeed. The integration tests that would show it have not been run
  (`src/PROGRESS.md:32`), and the API does not use this store yet.
* `NewServer` mints tokens under `CheckoutSecret` (`router.go:61`); the webhooks
  verify them under `PaddleSecret` (`:287`) and `PayHereSecret` (`:340`). With three
  different secrets every webhook that gets that far is answered 403. The second
  conjunct of `RowsVouched` says it: a row exists only of a provider whose secret is
  the checkout's. `Honoured` says that with one secret for all a token is refused only
  once it has expired.
* PayHere's hash covers neither the subscription nor the checkout token
  (`billing.go:84`), so a row of PayHere says less than one of Paddle: see `RowsVouched`.
* Two Paddle webhooks may pass the conflict check together, and PayHere's handler
  has none (`ActiveKept` says what remains). A Paddle status missing from
  `ParsePaddle`'s map is stored as the empty state by `Memory` and refused by the
  table's CHECK on Postgres (`TypeOK` of `Billing` has the first).
* `disconnect` sets the status only after the plugin has answered
  (`connection_controller.dart:97-99`), so until then the screen says "connected" over
  no tunnel. A disconnect that takes effect between the tunnel's coming up (`:85`) and
  `connect`'s next line (`:87`) leaves it so when both have ended: `ShownIsTunnel`, which
  excuses the time of a disconnect, fails that way too, and `Patient` rules it out.
* The client's button reads DISCONNECT while connected and calls `connect`
  (`main.dart:87-94`); the address stays on the screen after a disconnect; the
  merged configuration has two `[Interface]` lines; the token sent is a placeholder
  (`main.dart:90`).

### Bounds

* `netalloc`: 2 pools of 3 addresses, 2 owners. Each pool fills, drains in any
  order, wraps and runs out, with the other in any state.
* `peer_overlap`: two devices of one user and one of another, one pool of two
  addresses, three peer identifiers, limit 2. Two devices are what an overlap
  takes, the third is the one that is given the address they fight for; with two
  addresses the pool is exhausted and its free list reorders. Identifiers are
  never reused (the code draws 96 random bits), so their number bounds how many
  peers a behaviour creates: three are enough for a peer to be created, revoked
  and replaced while another exists. Calls are otherwise unbounded.
* `peer_serial`: two users with one device each, two pools of two addresses,
  two keys, three identifiers, limit 2: below, at and (attempted) above the limit,
  same key on two pools and two keys on one. By how much
  overlapping calls of one user exceed the limit is proved (`Overshoot`), and not a run.
* violations of `PeerService`: one user, two devices, one pool of four
  addresses, the code's own limit of 3.
* `sessions`: two users, three concurrent refreshes, four tokens ever issued. A
  fork needs two refreshes of one token, a burn a third; four tokens are a login,
  two refreshes, and another login of either user.
* `billing`: two users, two subscriptions, two webhooks at once, two tokens, three
  events, two ticks, with tokens and signatures good within their tick. Paddle says
  active, canceled or paused, for which the code has no state; PayHere says paid or an
  unknown code; both settings of the secrets and both stores. A conflict takes two
  subscriptions of one user, a race two webhooks, an overwrite by an old event two
  events of one subscription and a third of the other; two tokens are one before and
  one after the expiry, or one of each user.
* `billing_sync`: one secret for all, `Memory`, one webhook at a time, three ticks with a
  token life of one: what is violated there needs no race, no failure and no
  misconfiguration.
* `client`: three calls, three key pairs, two nodes. A flow left over, one that
  overtakes it and a toggle are three; three pairs are two lost to kills or
  failures and one that stays.
* `rate_limiter`: two requests, two addresses, four ticks with windows of one,
  collection above one window (10000 in the code).

Symmetry: identifiers, keys, jtis, clients, subscriptions, handlers and users are
interchangeable in the modules. In `peer_serial` users may be exchanged only together with their
devices, which is what `Exchange` does; `peer_overlap` is symmetric in the peer
identifiers alone. No run with symmetry checks a liveness property.

### Fairness

Only `RateLimiter` has any. Each request runs in a goroutine, which the Go
scheduler does not starve, and `sync.Mutex` in starvation mode hands the lock to
a waiter passed over for a millisecond: strong fairness of each request's steps.
With it the request that waits on the abandoned mutex still waits forever. No
fairness is assumed of arrivals or of the clock. `PeerService`, `Sessions` and
`Billing` promise nothing that must eventually happen: a request ends by running
to its end, and no request waits for another; a webhook may never be delivered.
In the client the calls awaited have no timeout, so nothing justifies that
"connecting" ends; `NeverStuck` is the part that is the code's, that a call which
will end it is still running.

## 4. The proofs

`NetallocProofs`, for pools of any size (`FirstHost <= LastHost`), any owners
(`NoOwner` not among them) and any number of pools:

* `Invariance`: `IInv == TypeOK /\ FreeListSound /\ CursorAtFrontier` is
  inductive. `FreeListSound` is not inductive alone: a fresh address must not be
  on the list, which is what `CursorAtFrontier` says (the cursor is ahead of every
  touched address, or the whole pool is touched). Both together carry each other.
* `TypeCorrect`, `FreeListCorrect`, `FrontierCorrect`: its three parts.
* `ExhaustionIsExact`: the sweep fails exactly when every address of the pool is
  leased. This is not a run's property; it follows from `CursorAtFrontier`.
* `Implementation`: `Spec => LP!Spec`. The one thing to show is that the fast
  path, which does not look at `held`, grants an address nobody holds.

The lemmas `PopFacts`, `PopRange`, `PushFacts`, `CursorFacts`, `SweepCovers` say
what popping, pushing and the cyclic sweep do.

`PeerServiceProofs`, for any users, devices, pools, keys, limit, and with or
without failing store calls:

* `Invariance`: `IInv` joins `PoolInv` (the invariant of the allocators),
  `TablesOK` (types), `TargetsOwn` (past its lookup, a revocation works on a peer
  of its own user) and `NoLeaseLeak`. `TargetsOwn` is needed because `Revoke` uses the
  row's address with the caller's name: without it the release could orphan
  somebody else's lease.
* `TypeCorrect`, `NoLeak` (`[]NoLeaseLeak`) and `Ownership` (`OwnPeersOnly`).

The allocators' invariant is not proved again. `NAP == INSTANCE NetallocProofs
WITH Owners <- Users` brings its lemmas, and each step of the service is shown to
be a step of the allocators or to leave them alone.

`PeerSerialProofs`, first with overlapping calls, if no store call fails:

* `Overshoot` (`[]OvershootBounded`): a user has fewer active peers than the limit
  and the user's devices together. This bounds the harm `peer_limit` shows. The inductive
  invariant `LimitInv` counts, for each user, the active peers and the `Connect`s
  past the check (`Counted`): a call that is about to be admitted is itself one
  of the devices and not yet counted, and saw fewer peers than the limit. It
  takes finitely many devices, for the counts to be numbers.

Then under a further hypothesis, `Serial` (`UserOf` is injective: a user has one
request in flight, those of different users overlap). All of these are false without
it, as `peer_address` and `peer_limit` show.

* `LiveLeases` (`Spec => []LivePeersHoldTheirLease`) and `Implements`
  (`Spec => ImplementsTunnelBook`).
* `LimitKept` (`[]DeviceLimit`, from `Overshoot` with one device),
  `OneAddress` (`[]OneAddressPerPeer`) and `OnePerKey` (`[]OnePeerPerKey`): what
  the book promises, said of the peer table itself. The first two are the very
  statements that the runs `peer_limit` and `peer_address` violate.
* Their invariant `SInv` stands on `IInv`. A live peer keeps its lease because no
  other live peer has its address (`LiveApart`), and no `Connect` past
  `Allocate` has it either (`SaversApart`, `SaversHold`), so only its own
  `Release` can free it; a `Revoke` past its lookup still works on an active
  peer (`TargetsActive`). `Admitted` carries what `Connect` saw when it listed
  the peers (no match, below the limit) to the moment it inserts, which is where
  the book wants it; with overlapping calls this is the part that fails.
* `TunnelCount` relates the two counts: the book counts open tunnels, the
  service active peers, and the tunnels of a user are an image of its peers.

`SessionsProofs`, for any users, tokens and requests in flight, over either
store, with failures and restarts:

* `Invariance`: `IInv` adds to `TypeOK` the parts `Chains` (a token belongs to a
  session of its own user; a jti not drawn has left no trace), `Flights` (so do
  the refreshes in flight), and the three properties said of single tokens and
  requests: `OneWay`, `WaysOpen`, `WaysOver`. `OneWay` needs `Chains`, for a login to
  start a session to which nothing belongs yet; `WaysOver` needs `OneWay`, for a
  session that loses its token to have no second one.
* `TypeCorrect`, `NeverForks`, `GoesOn`, `StaysEnded`, and `RevokedByOwner`, an
  action property proved from the same invariant.
* `Implements` (`Spec => ImplementsSessionBook`). `StandingRead` reads off `IInv`
  how a session stands, `Turn` says that a step which concerns one session leaves the
  others standing, and each call of the store is then one step of the book: login
  opens, consume departs, issue arrives, `RevokeAll` ends all, a failed write
  loses. A replay in Postgres is a stutter until its burn.
* `FinalUnlessMoving`: see below.

`BillingProofs`, for any users, subscriptions, secrets and statuses, any number
of webhooks at once, over either store:

* `Invariance`: `IInv` adds to `TypeOK` and `RowsVouched` where their parts come from:
  every token was minted by the checkout; providers speak of subscriptions they have; a
  webhook past `Verify` is vouched for already, as its row will be, was verified
  under a secret that is the checkout's, and, about to write a Paddle row, saw no
  conflict. `RowsVouched` alone is not inductive: the write uses what the handler
  carries from checks it made calls earlier.
* `TypeCorrect`, `Vouching`, and two action properties from the same invariant:
  `ActiveStays`, and `ClosedByExpiry` (a webhook that is accepted has an unexpired token,
  so one of a settled user is not), the extent of what `billing_sync` shows.
* `Honoured` and `ConflictsCaught`: see below. The latter has an invariant of its own:
  while no two webhooks of a user are past `Verify`, a user's only row in
  `Memory` is what `GetSubscription` returned (`ExistingCurrent`) and still is when
  the webhook writes.

`ClientProofs`, for any number of overlapping calls, key pairs and nodes:

* `Invariance`: `PairStored` is not inductive, since two calls that generate a pair
  at once would mix their halves. `FirstPair` says why they do not: until a
  public key is stored there is at most one call, and the screen says "connecting",
  so the button stays off; nothing connected, so the switch starts nothing.
  `FlowKeys` carries the pair from there through each await of a call.
* `TypeCorrect`, `PairCorrect`, `TunnelCorrect`,
  `ButtonComesBack`, and `PairStays` (`PairKept`): once the public key is stored no
  call is at either write, so neither half changes again (`KeychainKept`).
* `ShownWhenPatient`: see below. It also shows when "connected" means a tunnel.

`RateLimiterProofs`, for any addresses and requests, any window, any sweep
threshold:

* `NobodyPasses`: no request ever takes a branch that unlocks, and `PoisonStays`: once
  the holder of the mutex is gone the mutex stays locked. Together they say why
  `EveryRequestAnswered` fails, and that whoever comes after the request that
  panicked waits in every behaviour, not only in the one TLC finds. The invariant `MutexInv`: until the
  mutex is first taken there is no window, and whoever holds it finds none.

### What it takes for the violated statements to hold

For each run that finds a violation, but the limiter's and `billing_sync`, a theorem gives a
condition under which the same statement holds: every counterexample breaks that
condition, so the condition names the whole cause.

| Violated in | Condition | Theorem |
|---|---|---|
| `peer_limit` | no store call fails, and a user has one request in flight | `LimitKept` |
| `peer_address` | the same | `OneAddress` |
| `sessions_final` | no logout or burn meets a refresh of the user between consume and issue (`NoneMoving`) | `FinalUnlessMoving` |
| `client_protocol` | no connect is pressed while a disconnect runs, and the switch is left alone while a connect does (`Patient`) | `ShownWhenPatient` |

What `billing_sync` violates holds only while the token lasts. If every webhook secret
that is set is the checkout's (`OneSecretForAll`), the token's age is the one cause of
that refusal: `Honoured`.

`ConflictsCaught` does the same as the theorems of the table for the conflict check of `paddleWebhook`, which
`ActiveKept` shows to be as good as its read: over `Memory`, and with no two webhooks
of one user past `Verify` (`OneEach`), a Paddle webhook never moves a user
from one active subscription to another.

`NoneMoving`, `Patient` and `OneEach` restrict steps, not states: the theorems have
the form `Spec /\ [][Condition]_vars => ...`, so all else still overlaps,
fails and restarts.

### Assumptions

The named assumptions of the modules, the conditions above, and: `Serial`,
`~StoreFails` and `IsFiniteSet(Devices)` where `PeerSerialProofs` names them;
`NoClient \notin Clients` in `RateLimiterProofs` (the mutex's "nobody" is no request).

Model-checked only: the violations, `EveryRequestAnswered` among them, which is
liveness and out of TLAPS's reach. Every property of a passing run is also a theorem.

## 5. What is not modelled

* Cryptography: signatures, password hashes, key pairs. Only a token that was
  issued verifies; keys are distinct values, and one `BadKey` fails to decode.
* The rendering of WireGuard configurations, HTTP status codes, logging.
* Request validation and `requireAuth`, which read and change no state.
* The client's API wrapper (`api_client.dart`): HTTP and decoding, no state.
* The Postgres peer table as a table of its own. Since `SavePeer` cannot succeed
  there, no peer row exists, and what is left of the service over it, that each
  `Connect` gives its address back, is `NoLeaseLeak` with `StoreFails`.
* The composition of the webhooks with `Connect`. `Connect` reads the subscription
  once and nothing revokes peers when it ends; the repository promises nothing
  about it, so there is no property to check. `PeerService` takes any change of
  the subscription at any time, which includes what `Billing` does.
* Two taps handled before the screen is redrawn. They would start two calls
  of `connect` without a stored key, which `PairStored` needs not to happen.
* Terraform, Ansible, host scripts, dashboards, the client's theme.

## 6. What remains

* If `SavePeer` is mended, `PeerService` over the Postgres schema is worth a module:
  `UNIQUE(address)` and `UNIQUE(public_key)` count revoked rows, the allocators start
  empty after a restart while the rows persist, and an insert may commit although
  its call reports an error.
* Once the limiter opens its first window properly, the judgement of windows by a
  clock read before the mutex is taken (`middleware.go:46`) becomes reachable, and
  `EveryRequestAnswered` should hold under the fairness stated.
* If the code comes to promise something about peers whose subscription has ended,
  the composition of `Billing` and `PeerService`.
