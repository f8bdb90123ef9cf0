------------------------------- MODULE Billing -------------------------------
(***************************************************************************)
(* Subscriptions: checkout tokens (billing/checkout.go), the webhooks of   *)
(* the two payment providers (billing/billing.go, router.go) and the       *)
(* subscription table of the two stores (memory.go, postgres.go).          *)
(*                                                                         *)
(* A provider speaks of its subscriptions and signs what it says; a        *)
(* webhook may arrive late, repeatedly, out of order or never.  Paddle     *)
(* signs the whole body.  PayHere's hash covers the status but neither the *)
(* subscription's id nor our checkout token: those two are taken to be     *)
(* anything, as long as the token is one that we have minted.              *)
(*                                                                         *)
(* A webhook handler checks signature, age and token without touching the  *)
(* store, and then makes up to three store calls under no common lock: two *)
(* handlers interleave between any two of them.                            *)
(***************************************************************************)
EXTENDS Naturals, FiniteSets

CONSTANTS
  Users, Externals,      \* Externals: subscription ids the providers give out
  Hooks,                 \* the webhooks that may be handled at once
  Stores, Configs,       \* what main may have wired and read from ENV
  Unset,                 \* a secret that is not configured
  Statuses,              \* Statuses[p]: what provider p says of a subscription
  TTL,                   \* how long a checkout token is good
  Window,                \* how old a Paddle signature may be
  None,
  MaxTime, MaxTokens, MaxEvents   \* bounds of a behaviour

Providers == {"paddle", "payhere"}

ASSUME StoresAssumption == Stores \subseteq {"memory", "postgres"}
ASSUME TimeAssumption == TTL \in Nat /\ Window \in Nat /\ MaxTime \in Nat

VARIABLES
  store, secret,  \* secret: who signs with what: checkout, paddle, payhere
  now,            \* the clock, in ticks
  known,          \* the users whose account the store has
  minted,         \* the checkout tokens handed out
  deal,           \* deal[x]: provider and token of subscription x
  said,           \* what the providers have said, and signed
  rows, latest,   \* the subscription table; whose row of a user is the newest
  hook            \* hook[h]: the webhook handler h is at

site == <<store, secret>>
world == <<now, minted, deal, said>>
table == <<rows, latest>>

vars == <<store, secret, now, known, minted, deal, said, rows, latest, hook>>

Token == [user : Users, expiry : 0 .. MaxTime + TTL, key : {c.checkout : c \in Configs}]

Event ==
  [ext : Externals, status : UNION {Statuses[p] : p \in Providers}, at : 0 .. MaxTime]

\* Mutant: a status the map of ParsePaddle lacks is taken for "active".
StateOrActive(s) ==
  CASE s = "trialing" -> "trialing"
    [] s \in {"past_due", "0", "-2"} -> "past_due"
    [] s \in {"canceled", "cancelled", "-1", "-3"} -> "cancelled"
    [] OTHER -> "active"

\* The state a status stands for.  A status of Paddle that is not in the map is
\* stored as ""; PayHere's are turned away.
StateOf(s) ==
  CASE s \in {"active", "2"} -> "active"
    [] s = "trialing" -> "trialing"
    [] s \in {"past_due", "0", "-2"} -> "past_due"
    [] s \in {"canceled", "cancelled", "-1", "-3"} -> "cancelled"
    [] OTHER -> ""

States == {"active", "trialing", "past_due", "cancelled"}

Row == [ext : Externals, state : States \cup {""}]

ASSUME NoneAssumption == None \notin Row

Idle == [at |-> "idle"]

(***************************************************************************)
(* A webhook, by the store call it makes next: look the user up; read the  *)
(* subscription (Paddle only); write it, remembering what was read.        *)
(***************************************************************************)
Hook ==
  {Idle}
    \cup [at : {"user", "read"}, provider : Providers, user : Users, row : Row]
    \cup [at : {"write"}, provider : Providers, user : Users, row : Row,
          saw : Row \cup {None}]

NoRows == [p \in Providers |-> None]

Init ==
  /\ store \in Stores
  /\ secret \in Configs
  /\ now = 0
  /\ known = Users     \* in Postgres, put there by other means than CreateUser
  /\ minted = {}
  /\ deal = [x \in Externals |-> None]
  /\ said = {}
  /\ rows = [u \in Users |-> NoRows]
  /\ latest = [u \in Users |-> None]
  /\ hook = [h \in Hooks |-> Idle]

Goes(h, s) == hook' = [hook EXCEPT ![h] = s]

\* Any answer: what it says changes nothing here.
Answers(h) == Goes(h, Idle)

StoreFails == store = "postgres"

-----------------------------------------------------------------------------
(* The world: time, users who check out, providers who speak.               *)

Tick ==
  /\ now < MaxTime
  /\ now' = now + 1
  /\ UNCHANGED <<site, known, minted, deal, said, table, hook>>

Mint(u) == [user |-> u, expiry |-> now + TTL, key |-> secret.checkout]

\* POST /billing/checkout; nobody asks whether the account is still there
CheckoutSession(u) ==
  /\ Cardinality(minted) < MaxTokens
  /\ minted' = minted \cup {Mint(u)}
  /\ UNCHANGED <<site, known, now, deal, said, table, hook>>

Subscribe(x, p, t) ==
  /\ deal[x] = None
  /\ deal' = [deal EXCEPT ![x] = [provider |-> p, token |-> t]]
  /\ UNCHANGED <<site, known, now, minted, said, table, hook>>

ProviderSays(x, s) ==
  /\ deal[x] # None
  /\ s \in Statuses[deal[x].provider]
  /\ Cardinality(said) < MaxEvents
  /\ said' = said \cup {[ext |-> x, status |-> s, at |-> now]}
  /\ UNCHANGED <<site, known, now, minted, deal, table, hook>>

-----------------------------------------------------------------------------
(* The subscription table.                                                  *)

\* GetSubscription: Memory has one row per user, Postgres one per user and
\* provider, and prefers an active one, then the one written last.
Existing(u) ==
  LET there  == {p \in Providers : rows[u][p] # None}
      active == {p \in there : rows[u][p].state = "active"}
      best   == IF active = {} THEN there ELSE active
  IN  IF there = {} THEN None
      ELSE IF latest[u] \in best THEN rows[u][latest[u]]
      ELSE rows[u][CHOOSE p \in best : TRUE]

UpsertSubscription(u, p, r) ==
  /\ rows' = [rows EXCEPT ![u] =
                 [q \in Providers |-> IF q = p THEN r
                                      ELSE IF store = "memory" THEN None
                                      ELSE rows[u][q]]]
  /\ latest' = [latest EXCEPT ![u] = p]

-----------------------------------------------------------------------------
(* The webhooks: paddleWebhook and payHereWebhook.                          *)

\* What a request may carry: the signature made for sig, and a subscription, a
\* status and a token; a token that is not ours is as good as none.
Deliveries ==
  [sig : said, ext : Externals, token : minted,
   status : UNION {Statuses[p] : p \in Providers}]

ProviderOf(d) == deal[d.sig.ext].provider

\* The webhook for event e as its provider sends it.
AsSent(e) ==
  [sig |-> e, ext |-> e.ext, token |-> deal[e.ext].token, status |-> e.status]

\* Paddle signs the body, and when.
VerifyPaddle(d) == d = AsSent(d.sig) /\ now - d.sig.at <= Window

\* PayHere's hash is over the order and its status (billing.go:84).
VerifyPayHere(d) == d.status = d.sig.status

Signed(d) == IF ProviderOf(d) = "paddle" THEN VerifyPaddle(d) ELSE VerifyPayHere(d)

Understood(d) == ProviderOf(d) = "payhere" => StateOf(d.status) # ""

Verify(p, t) == t.key = secret[p] /\ now <= t.expiry

\* Mutant: an unknown status_code of PayHere is not turned away (router.go:334).
RefusalLax(d) ==
  IF secret[ProviderOf(d)] = Unset THEN "unconfigured"
  ELSE IF ~Signed(d) THEN "signature"
  ELSE IF ~Verify(ProviderOf(d), d.token) THEN "checkout"
  ELSE "none"

\* Why the webhook is turned away before the store is asked, if it is: one that
\* is turned away there is a step that changes nothing.
Refusal(d) ==
  IF secret[ProviderOf(d)] = Unset THEN "unconfigured"
  ELSE IF ~Signed(d) THEN "signature"
  ELSE IF ~Understood(d) THEN "status"
  ELSE IF ~Verify(ProviderOf(d), d.token) THEN "checkout"
  ELSE "none"

HookAccepted(h, d) ==
  /\ hook[h] = Idle
  /\ Refusal(d) = "none"
  /\ Goes(h, [at |-> "user", provider |-> ProviderOf(d), user |-> d.token.user,
              row |-> [ext |-> d.ext, state |-> StateOf(d.status)]])
  /\ UNCHANGED <<site, known, world, table>>

Ext(h) == hook[h].row.ext

HookUnknownUser(h) ==
  /\ hook[h].at = "user"
  /\ StoreFails \/ hook[h].user \notin known
  /\ Answers(h)
  /\ UNCHANGED <<site, known, world, table>>

Writing(h, saw) ==
  [at |-> "write", provider |-> hook[h].provider, user |-> hook[h].user,
   row |-> hook[h].row, saw |-> saw]

\* Only the Paddle handler reads the subscription before it writes it.
HookFindsUser(h) ==
  /\ hook[h].at = "user"
  /\ hook[h].user \in known
  /\ Goes(h, IF hook[h].provider = "paddle"
             THEN [hook[h] EXCEPT !.at = "read"]
             ELSE Writing(h, None))
  /\ UNCHANGED <<site, known, world, table>>

\* An error of GetSubscription is taken for "no subscription" (router.go:298).
Readings(h) == {Existing(hook[h].user)} \cup (IF StoreFails THEN {None} ELSE {})

\* Mutant: any subscription of the same id conflicts (== for !=, router.go:298).
ConflictsSame(r, x) == r # None /\ r.ext = x /\ r.state = "active"

Conflicts(r, x) == r # None /\ r.ext # x /\ r.state = "active"

HookConflicts(h) ==
  /\ hook[h].at = "read"
  /\ \E saw \in Readings(h) : Conflicts(saw, Ext(h))
  /\ Answers(h)
  /\ UNCHANGED <<site, known, world, table>>

HookProceeds(h) ==
  /\ hook[h].at = "read"
  /\ \E saw \in Readings(h) : ~Conflicts(saw, Ext(h)) /\ Goes(h, Writing(h, saw))
  /\ UNCHANGED <<site, known, world, table>>

\* The table of Postgres takes only the four states (001_init.sql:15).
Storable(r) == store = "postgres" => r.state # ""

\* The write; Postgres may have made it and the answer be lost.
HookWrites(h) ==
  /\ hook[h].at = "write"
  /\ Storable(hook[h].row)
  /\ UpsertSubscription(hook[h].user, hook[h].provider, hook[h].row)
  /\ Answers(h)
  /\ UNCHANGED <<site, known, world>>

HookWriteFails(h) ==
  /\ StoreFails
  /\ hook[h].at = "write"
  /\ Answers(h)
  /\ UNCHANGED <<site, known, world, table>>

Webhook(h) ==
  \/ \E d \in Deliveries : HookAccepted(h, d)
  \/ HookUnknownUser(h)
  \/ HookFindsUser(h)
  \/ HookConflicts(h)
  \/ HookProceeds(h)
  \/ HookWrites(h)
  \/ HookWriteFails(h)

\* The process restarts; what store.Memory had is gone, and an account that is
\* created again has another id.
Restart ==
  /\ hook' = [h \in Hooks |-> Idle]
  /\ IF store = "memory"
       THEN /\ known' = {}
            /\ rows' = [u \in Users |-> NoRows]
            /\ latest' = [u \in Users |-> None]
       ELSE UNCHANGED <<known, table>>
  /\ UNCHANGED <<site, world>>

Next ==
  \/ Tick
  \/ \E u \in Users : CheckoutSession(u)
  \/ \E x \in Externals :
       \/ \E p \in Providers, t \in minted : Subscribe(x, p, t)
       \/ deal[x] # None /\ \E s \in Statuses[deal[x].provider] : ProviderSays(x, s)
  \/ \E h \in Hooks : Webhook(h)
  \/ Restart

Spec == Init /\ [][Next]_vars

-----------------------------------------------------------------------------
(* Properties.                                                              *)

TypeOK ==
  /\ store \in Stores /\ secret \in Configs
  /\ now \in 0 .. MaxTime
  /\ known \subseteq Users
  /\ minted \subseteq Token
  /\ deal \in [Externals -> [provider : Providers, token : minted] \cup {None}]
  /\ said \subseteq Event
  /\ rows \in [Users -> [Providers -> Row \cup {None}]]
  /\ latest \in [Users -> Providers \cup {None}]
  /\ hook \in [Hooks -> Hook]
  \* only Paddle with store.Memory leaves a state the schema does not have
  /\ \A u \in Users, p \in Providers :
       rows[u][p] # None /\ rows[u][p].state = "" => p = "paddle" /\ store = "memory"

\* The statuses that stand for a state.
Meaning ==
  [active |-> {"active", "2"}, trialing |-> {"trialing"},
   past_due |-> {"past_due", "0", "-2"},
   cancelled |-> {"canceled", "cancelled", "-1", "-3"}]

\* Row r can be user u's row of provider p.
Vouched(u, p, r) ==
  \E e \in said :
    /\ deal[e.ext].provider = p
    /\ \A m \in States : r.state = m <=> e.status \in Meaning[m]
    /\ IF p = "paddle" THEN r.ext = e.ext /\ deal[e.ext].token.user = u
       ELSE \E t \in minted : t.user = u

(***************************************************************************)
(* Identity comes from our signature over our record of who was checking   *)
(* out (checkout.go:26), and the state from the provider.  Whatever        *)
(* webhooks are delivered late, twice, out of order or at once, and        *)
(* whatever fails or restarts: a user's row of Paddle says exactly what    *)
(* Paddle said of that very subscription, which was checked out with a     *)
(* token of that user.  A row of PayHere says what PayHere said of some    *)
(* subscription, and the user has checked out: which subscription, and     *)
(* with which token, PayHere's hash does not tell.  Either takes the       *)
(* provider's webhook secret to be the checkout secret: with a different   *)
(* one no row ever appears.                                                *)
(***************************************************************************)
RowsVouched ==
  \A u \in Users, p \in Providers :
    rows[u][p] # None =>
      Vouched(u, p, rows[u][p]) /\ secret[p] = secret.checkout

(***************************************************************************)
(* A user who holds an active subscription is not moved to another one     *)
(* (router.go:298-302): when the row of an active subscription goes and    *)
(* another subscription's stays or comes, some webhook has just written,   *)
(* and if it was Paddle's it had read something else: the row changed      *)
(* after that, or the read failed.  PayHere's handler does not look.       *)
(***************************************************************************)
Displaced(u, r) ==
  /\ rows'[u] # NoRows
  /\ \A p \in Providers : rows'[u][p] = None \/ rows'[u][p].ext # r.ext

ActiveKept ==
  [][ \A u \in Users, p \in Providers :
        LET r == rows[u][p] IN
        r # None /\ r.state = "active" /\ Displaced(u, r) =>
          \E h \in Hooks :
            /\ hook[h].at = "write" /\ hook'[h] = Idle /\ hook[h].user = u
            /\ hook[h].provider = "paddle" => hook[h].saw # r
    ]_vars

-----------------------------------------------------------------------------
(* A statement the repository makes which the program does not keep.        *)

(***************************************************************************)
(* Subscription state is synced from the payment providers (billing.go:1): *)
(* when a provider says that a subscription which is active here is so no  *)
(* longer, and its webhook arrives at once and as it was sent, it is not   *)
(* turned away for the token of a checkout completed long ago.             *)
(***************************************************************************)
SubscriptionsSynced ==
  \A u \in Users, p \in Providers, e \in said :
    /\ rows[u][p] = [ext |-> e.ext, state |-> "active"]
    /\ deal[e.ext].provider = p
    /\ StateOf(e.status) # "active" /\ e.at = now
    => Refusal(AsSent(e)) # "checkout"
=============================================================================
