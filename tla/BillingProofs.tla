---------------------------- MODULE BillingProofs ----------------------------
(***************************************************************************)
(* Theorems about the subscriptions, for any users, subscriptions, secrets *)
(* and provider statuses, any number of webhooks at once, and both stores. *)
(***************************************************************************)
EXTENDS Billing, TLAPS

(***************************************************************************)
(* The invariant.  Tokens are the ones our checkout signs; a provider      *)
(* speaks of subscriptions it has; a webhook past Verify is vouched for as *)
(* its row will be, and verified it under a secret that is the checkout's; *)
(* one about to write Paddle's row saw no conflict.                        *)
(***************************************************************************)
TokensOurs == \A t \in minted : t.key = secret.checkout

SaidOfDeals == \A e \in said : deal[e.ext] # None

HookVouched(h) ==
  LET u == hook[h].user
      r == hook[h].row
      p == hook[h].provider
  IN  /\ Vouched(u, p, r)
      /\ secret[p] = secret.checkout
      /\ r.state = "" => p = "paddle"
      /\ hook[h].at = "write" /\ p = "paddle" => ~Conflicts(hook[h].saw, r.ext)

HooksVouched == \A h \in Hooks : hook[h].at # "idle" => HookVouched(h)

IInv == TypeOK /\ TokensOurs /\ SaidOfDeals /\ HooksVouched /\ RowsVouched

-----------------------------------------------------------------------------
(* What the types say of a webhook, a subscription and its row.             *)

(* What the webhook at its two pending calls carries.                       *)
LEMMA HookFields ==
  ASSUME hook \in [Hooks -> Hook], NEW h \in Hooks
  PROVE  /\ hook[h].at \in {"idle", "user", "read", "write"}
         /\ hook[h].at = "idle" <=> hook[h] = Idle
         /\ hook[h].at # "idle" => 
              /\ hook[h].user \in Users /\ hook[h].row \in Row
              /\ hook[h].provider \in Providers
         /\ hook[h].at = "write" => hook[h].saw \in Row \cup {None}
BY DEF Hook, Idle

(* A subscription the provider has carries a token that was minted.         *)
LEMMA DealFields ==
  ASSUME TypeOK, NEW x \in Externals, deal[x] # None
  PROVE  /\ deal[x].provider \in Providers
         /\ deal[x].token \in minted /\ deal[x].token \in Token
BY DEF TypeOK

(* A provider speaks of its subscriptions only.                             *)
LEMMA SaidExt == ASSUME TypeOK, NEW e \in said PROVE e.ext \in Externals
BY DEF TypeOK, Event

(* GetSubscription returns a row of the user, if there is one.              *)
LEMMA ExistingIsRow ==
  ASSUME TypeOK, NEW u \in Users
  PROVE  Existing(u) \in Row \cup {None}
<1> DEFINE there  == {p \in Providers : rows[u][p] # None}
           active == {p \in there : rows[u][p].state = "active"}
           best   == IF active = {} THEN there ELSE active
<1>1. CASE there = {}
  BY <1>1 DEF Existing
<1>2. CASE there # {}
  <2>1. best # {} /\ best \subseteq Providers
    BY <1>2
  <2>2. \A p \in best : rows[u][p] \in Row \cup {None}
    BY <2>1 DEF TypeOK
  <2>3. (CHOOSE p \in best : TRUE) \in best
    BY <2>1
  <2>4. Existing(u) = IF latest[u] \in best THEN rows[u][latest[u]]
                      ELSE rows[u][CHOOSE p \in best : TRUE]
    BY <1>2 DEF Existing
  <2> HIDE DEF best
  <2> QED
    BY <2>2, <2>3, <2>4
<1> QED
  BY <1>1, <1>2

(* What a request carries, and what its signature was made for.             *)
LEMMA DeliveryFields ==
  ASSUME TypeOK, SaidOfDeals, NEW d \in Deliveries
  PROVE  /\ d.sig \in said /\ d.sig.ext \in Externals /\ deal[d.sig.ext] # None
         /\ ProviderOf(d) \in Providers
         /\ d.ext \in Externals /\ d.token \in minted /\ d.token \in Token
<1>1. d.sig \in said /\ d.ext \in Externals /\ d.token \in minted
  BY DEF Deliveries
<1>2. d.sig.ext \in Externals /\ deal[d.sig.ext] # None
  BY <1>1, SaidExt DEF SaidOfDeals
<1> QED
  BY <1>1, <1>2, DealFields DEF ProviderOf, TypeOK

(* What is vouched for stays so: providers only ever say more, users only   *)
(* ever check out again, and a subscription keeps its provider and token.   *)
LEMMA VouchedStays ==
  ASSUME TypeOK, SaidOfDeals,
         \A x \in Externals : deal[x] # None => deal'[x] = deal[x],
         said \subseteq said', minted \subseteq minted',
         NEW u, NEW p, NEW r, Vouched(u, p, r)
  PROVE  Vouched(u, p, r)'
<1>1. PICK e \in said :
        /\ deal[e.ext].provider = p
        /\ \A m \in States : r.state = m <=> e.status \in Meaning[m]
        /\ IF p = "paddle" THEN r.ext = e.ext /\ deal[e.ext].token.user = u
           ELSE \E t \in minted : t.user = u
  BY DEF Vouched
<1>2. deal'[e.ext] = deal[e.ext] /\ e \in said'
  BY SaidExt DEF SaidOfDeals
<1> QED
  BY <1>1, <1>2 DEF Vouched

(* A step that leaves the webhooks and the rows alone keeps the invariant   *)
(* of both.                                                                 *)
LEMMA WorldStep ==
  ASSUME IInv, TypeOK', TokensOurs', SaidOfDeals', UNCHANGED <<store, secret, table, hook>>,
         \A x \in Externals : deal[x] # None => deal'[x] = deal[x],
         said \subseteq said', minted \subseteq minted'
  PROVE  IInv'
<1>0. TypeOK /\ SaidOfDeals
  BY DEF IInv
<1>1. HooksVouched'
  <2> SUFFICES ASSUME NEW h \in Hooks, hook[h].at # "idle"
               PROVE  HookVouched(h)'
    BY DEF HooksVouched
  <2>1. HookVouched(h)
    BY DEF IInv, HooksVouched
  <2>2. Vouched(hook[h].user, hook[h].provider, hook[h].row)'
    <3>1. Vouched(hook[h].user, hook[h].provider, hook[h].row)
      BY <2>1 DEF HookVouched
    <3> DEFINE u == hook[h].user
               p == hook[h].provider
               row == hook[h].row
    <3> HIDE DEF u, p, row
    <3>2. Vouched(u, p, row)
      BY <3>1 DEF u, p, row
    <3>3. Vouched(u, p, row)' /\ u' = u /\ p' = p /\ row' = row
      BY <1>0, <3>2, VouchedStays DEF u, p, row
    <3> QED
      BY <3>3 DEF u, p, row, Vouched
  <2> QED
    BY <2>1, <2>2 DEF HookVouched, Conflicts
<1>2. RowsVouched'
  <2> SUFFICES ASSUME NEW u \in Users, NEW p \in Providers, rows[u][p] # None
               PROVE  Vouched(u, p, rows[u][p])' /\ secret[p] = secret.checkout
    BY DEF RowsVouched, table
  <2> DEFINE row == rows[u][p]
  <2>1. Vouched(u, p, row) /\ secret[p] = secret.checkout
    BY DEF IInv, RowsVouched
  <2> HIDE DEF row
  <2>2. Vouched(u, p, row)' /\ row' = row
    BY <1>0, <2>1, VouchedStays DEF row, table
  <2> QED
    BY <2>1, <2>2 DEF row, Vouched
<1> QED
  BY <1>1, <1>2 DEF IInv

-----------------------------------------------------------------------------
(* The steps.                                                               *)

(* Nothing is said, minted or stored at the start.                          *)
LEMMA InitIInv == Init => IInv
<1> SUFFICES ASSUME Init PROVE IInv
  OBVIOUS
<1>1. TypeOK
  BY TimeAssumption DEF Init, TypeOK, NoRows, Hook, Idle, Providers
<1>2. HooksVouched
  BY DEF Init, HooksVouched, Idle
<1>3. TokensOurs /\ SaidOfDeals /\ RowsVouched
  BY DEF Init, TokensOurs, SaidOfDeals, RowsVouched, NoRows
<1> QED
  BY <1>1, <1>2, <1>3 DEF IInv

(* Time only makes tokens older.                                            *)
LEMMA TickIInv == IInv /\ Tick => IInv'
<1> SUFFICES ASSUME IInv, Tick PROVE IInv'
  OBVIOUS
<1>a. now \in 0 .. MaxTime /\ now < MaxTime /\ now' = now + 1
  BY DEF IInv, TypeOK, Tick
<1>b. now' \in 0 .. MaxTime
  BY <1>a, TimeAssumption
<1>1. TypeOK'
  BY <1>b DEF IInv, TypeOK, Tick, site, table
<1>2. TokensOurs' /\ SaidOfDeals'
  BY DEF IInv, TokensOurs, SaidOfDeals, Tick, site
<1> QED
  BY <1>1, <1>2, WorldStep DEF Tick, site

(* A new token bears the name of the user who asked for it.                 *)
LEMMA CheckoutSessionIInv ==
  ASSUME IInv, NEW u \in Users, CheckoutSession(u) PROVE IInv'
<1> DEFINE t == [user |-> u, expiry |-> now + TTL, key |-> secret.checkout]
<1>1. minted' = minted \cup {t} /\ UNCHANGED <<site, known, now, deal, said, table, hook>>
  BY DEF CheckoutSession, Mint
<1>a. now \in 0 .. MaxTime /\ secret \in Configs
  BY DEF IInv, TypeOK
<1>b. now + TTL \in 0 .. MaxTime + TTL
  BY <1>a, TimeAssumption
<1>2. t \in Token
  BY <1>a, <1>b DEF Token
<1>3. TypeOK'
  BY <1>1, <1>2 DEF IInv, TypeOK, site, table
<1>4. TokensOurs' /\ SaidOfDeals'
  BY <1>1 DEF IInv, TokensOurs, SaidOfDeals, site
<1> QED
  BY <1>1, <1>3, <1>4, WorldStep DEF site

(* The token attached is one that was minted.                               *)
LEMMA SubscribeIInv ==
  ASSUME IInv, NEW x \in Externals, NEW p \in Providers, NEW t \in minted,
         Subscribe(x, p, t)
  PROVE  IInv'
<1>1. /\ deal[x] = None /\ deal' = [deal EXCEPT ![x] = [provider |-> p, token |-> t]]
      /\ UNCHANGED <<site, known, now, minted, said, table, hook>>
  BY DEF Subscribe
<1>2. deal \in [Externals -> [provider : Providers, token : minted] \cup {None}]
  BY DEF IInv, TypeOK
<1>3. /\ deal' \in [Externals -> [provider : Providers, token : minted] \cup {None}]
      /\ \A y \in Externals : deal[y] # None => deal'[y] = deal[y]
  BY <1>1, <1>2
<1>4. TypeOK'
  BY <1>1, <1>3 DEF IInv, TypeOK, site, table
<1>5. TokensOurs' /\ SaidOfDeals'
  BY <1>1, <1>3, SaidExt DEF IInv, TokensOurs, SaidOfDeals, site
<1> QED
  BY <1>1, <1>3, <1>4, <1>5, WorldStep DEF site

(* What is said is said of a subscription the provider has.                 *)
LEMMA ProviderSaysIInv ==
  ASSUME IInv, NEW x \in Externals, deal[x] # None,
         NEW s \in Statuses[deal[x].provider], ProviderSays(x, s)
  PROVE  IInv'
<1> DEFINE e == [ext |-> x, status |-> s, at |-> now]
<1>1. /\ said' = said \cup {e}
      /\ UNCHANGED <<site, known, now, minted, deal, table, hook>>
  BY DEF ProviderSays
<1>2. deal[x].provider \in Providers
  BY DealFields DEF IInv
<1>3. e \in Event
  BY <1>2 DEF IInv, TypeOK, Event
<1>4. TypeOK'
  BY <1>1, <1>3 DEF IInv, TypeOK, site, table
<1>5. TokensOurs' /\ SaidOfDeals'
  BY <1>1 DEF IInv, TokensOurs, SaidOfDeals, site
<1> QED
  BY <1>1, <1>4, <1>5, WorldStep DEF site

(* A webhook that goes on as its new step must be vouched for.              *)
LEMMA HookStep ==
  ASSUME IInv, NEW h \in Hooks, NEW s \in Hook, Goes(h, s),
         UNCHANGED <<site, known, world, table>>,
         s.at # "idle" => HookVouched(h)'
  PROVE  IInv'
<1>1. hook \in [Hooks -> Hook] /\ hook' = [hook EXCEPT ![h] = s]
  BY DEF IInv, TypeOK, Goes
<1>2. hook' \in [Hooks -> Hook]
  BY <1>1
<1>3. TypeOK'
  BY <1>2 DEF IInv, TypeOK, site, world, table
<1>4. HooksVouched'
  <2> SUFFICES ASSUME NEW g \in Hooks, hook'[g].at # "idle" PROVE HookVouched(g)'
    BY DEF HooksVouched
  <2>1. CASE g = h
    BY <1>1, <2>1
  <2>2. CASE g # h
    <3>1. hook'[g] = hook[g]
      BY <1>1, <2>2
    <3>2. HookVouched(g)
      BY <3>1 DEF IInv, HooksVouched
    <3>3. \A u, p, r : Vouched(u, p, r)' <=> Vouched(u, p, r)
      BY DEF Vouched, world
    <3> QED
      BY <3>1, <3>2, <3>3 DEF HookVouched, Conflicts, site
  <2> QED
    BY <2>1, <2>2
<1>5. TokensOurs' /\ SaidOfDeals' /\ RowsVouched'
  BY DEF IInv, TokensOurs, SaidOfDeals, RowsVouched, Vouched, site, world, table
<1> QED
  BY <1>3, <1>4, <1>5 DEF IInv

(* An answer leaves nothing to vouch for.                                   *)
LEMMA AnswerIInv ==
  ASSUME IInv, NEW h \in Hooks, Answers(h), UNCHANGED <<site, known, world, table>>
  PROVE  IInv'
<1>1. Idle \in Hook /\ Idle.at = "idle"
  BY DEF Hook, Idle
<1> QED
  BY <1>1, HookStep DEF Answers

(* The state stored is the one the status stands for.                       *)
LEMMA StateMeant ==
  ASSUME NEW s
  PROVE  /\ StateOf(s) \in States \cup {""}
         /\ \A m \in States : StateOf(s) = m <=> s \in Meaning[m]
<1>1. \A m \in States : m \in {"active", "trialing", "past_due", "cancelled"}
  BY DEF States
<1>2. StateOf(s) \in States \cup {""}
  BY DEF StateOf, States
<1>3. StateOf(s) = "active" <=> s \in Meaning.active
  BY DEF StateOf, Meaning
<1>4. StateOf(s) = "trialing" <=> s \in Meaning.trialing
  BY DEF StateOf, Meaning
<1>5. StateOf(s) = "past_due" <=> s \in Meaning.past_due
  BY DEF StateOf, Meaning
<1>6. StateOf(s) = "cancelled" <=> s \in Meaning.cancelled
  BY DEF StateOf, Meaning
<1> QED
  BY <1>1, <1>2, <1>3, <1>4, <1>5, <1>6

(* A webhook that passes the checks carries what its row will say, under a  *)
(* token of the row's user, which has not expired.                          *)
LEMMA AcceptedVouched ==
  ASSUME IInv, NEW d \in Deliveries, Refusal(d) = "none",
         NEW r, r = [ext |-> d.ext, state |-> StateOf(d.status)]
  PROVE  /\ d.token.user \in Users /\ r \in Row /\ ProviderOf(d) \in Providers
         /\ Vouched(d.token.user, ProviderOf(d), r)
         /\ secret[ProviderOf(d)] = secret.checkout
         /\ r.state = "" => ProviderOf(d) = "paddle"
         /\ d.token \in minted /\ now <= d.token.expiry
<1>1. Verify(ProviderOf(d), d.token) /\ Understood(d) /\ Signed(d)
  BY DEF Refusal
<1>2. /\ d.sig \in said /\ ProviderOf(d) \in Providers
      /\ d.ext \in Externals /\ d.token \in minted /\ d.token \in Token
  BY DeliveryFields DEF IInv
<1>3. d.token.user \in Users
  BY <1>2 DEF Token
<1>4. r \in Row /\ \A m \in States : r.state = m <=> d.status \in Meaning[m]
  BY <1>2, StateMeant DEF Row
<1>5. d.status = d.sig.status
  BY <1>1 DEF Signed, VerifyPaddle, VerifyPayHere, AsSent
<1>6. ProviderOf(d) = "paddle" => d.ext = d.sig.ext /\ d.token = deal[d.sig.ext].token
  BY <1>1 DEF Signed, VerifyPaddle, AsSent
<1>7. Vouched(d.token.user, ProviderOf(d), r)
  BY <1>2, <1>4, <1>5, <1>6 DEF Vouched, ProviderOf
<1>8. r.state = "" => ProviderOf(d) = "paddle"
  BY <1>1, <1>2 DEF Understood, Providers
<1> QED
  BY <1>1, <1>2, <1>3, <1>4, <1>7, <1>8 DEF Verify, IInv, TokensOurs

(* A webhook past Verify is vouched for.                                    *)
LEMMA AcceptedIInv ==
  ASSUME IInv, NEW h \in Hooks, NEW d \in Deliveries, HookAccepted(h, d)
  PROVE  IInv'
<1> DEFINE u == d.token.user
           p == ProviderOf(d)
           r == [ext |-> d.ext, state |-> StateOf(d.status)]
           s == [at |-> "user", provider |-> p, user |-> u, row |-> r]
<1>1. /\ Refusal(d) = "none" /\ Goes(h, s)
      /\ UNCHANGED <<site, known, world, table>>
  BY DEF HookAccepted
<1>2. /\ u \in Users /\ p \in Providers /\ r \in Row /\ Vouched(u, p, r)
      /\ secret[p] = secret.checkout
      /\ r.state = "" => p = "paddle"
  BY <1>1, AcceptedVouched
<1> HIDE DEF u, p, r
<1>3. s \in Hook
  BY <1>2 DEF Hook
<1>4. hook'[h] = s
  BY <1>1 DEF Goes, IInv, TypeOK
<1>5. /\ hook'[h].at = "user" /\ hook'[h].user = u /\ hook'[h].row = r
      /\ hook'[h].provider = p
  BY <1>4
<1> HIDE DEF s
<1>6. HookVouched(h)'
  BY <1>1, <1>2, <1>5 DEF HookVouched, Vouched, site, world
<1> QED
  BY <1>1, <1>3, <1>6, HookStep

(* A webhook that goes on to its next store call stays vouched for.         *)
LEMMA OnwardIInv ==
  ASSUME IInv, NEW h \in Hooks, hook[h].at # "idle",
         NEW s \in Hook, s.user = hook[h].user, s.row = hook[h].row,
         s.provider = hook[h].provider,
         s.at = "write" /\ hook[h].provider = "paddle" => ~Conflicts(s.saw, Ext(h)),
         Goes(h, s), UNCHANGED <<site, known, world, table>>
  PROVE  IInv'
<1>1. hook'[h] = s
  BY DEF Goes, IInv, TypeOK
<1>2. HookVouched(h)
  BY DEF IInv, HooksVouched
<1>3. HookVouched(h)'
  BY <1>1, <1>2 DEF HookVouched, Vouched, Conflicts, Ext, site, world
<1> QED
  BY <1>3, HookStep

(* The lookup of the user changes nothing but the place of the webhook.     *)
LEMMA FindsUserIInv == ASSUME IInv, NEW h \in Hooks, HookFindsUser(h) PROVE IInv'
<1>1. hook[h].at = "user" /\ UNCHANGED <<site, known, world, table>>
  BY DEF HookFindsUser
<1>2. /\ hook[h].user \in Users /\ hook[h].row \in Row /\ hook[h] \in Hook
      /\ hook[h].provider \in Providers
  BY <1>1, HookFields DEF IInv, TypeOK
<1>3. hook[h] \in [at : {"user", "read"}, provider : Providers, user : Users, row : Row]
  BY <1>1, <1>2 DEF Hook, Idle
<1>4. CASE hook[h].provider = "paddle"
  <2> DEFINE s == [hook[h] EXCEPT !.at = "read"]
  <2>1. /\ s \in Hook /\ s.at = "read" /\ s.user = hook[h].user
        /\ s.row = hook[h].row /\ s.provider = hook[h].provider
    BY <1>3 DEF Hook
  <2>2. Goes(h, s)
    BY <1>4 DEF HookFindsUser
  <2> HIDE DEF s
  <2> QED
    BY <1>1, <2>1, <2>2, OnwardIInv
<1>5. CASE hook[h].provider # "paddle"
  <2> DEFINE s == Writing(h, None)
  <2>1. /\ s \in Hook /\ s.user = hook[h].user /\ s.row = hook[h].row
        /\ s.provider = hook[h].provider
    BY <1>2 DEF Hook, Writing
  <2>2. Goes(h, s)
    BY <1>5 DEF HookFindsUser
  <2> HIDE DEF s
  <2> QED
    BY <1>1, <1>5, <2>1, <2>2, OnwardIInv
<1> QED
  BY <1>4, <1>5

(* A Paddle webhook about to write saw no conflict.                         *)
LEMMA ProceedsIInv == ASSUME IInv, NEW h \in Hooks, HookProceeds(h) PROVE IInv'
<1>1. hook[h].at = "read" /\ UNCHANGED <<site, known, world, table>>
  BY DEF HookProceeds
<1>2. hook[h].user \in Users /\ hook[h].row \in Row /\ hook[h].provider \in Providers
  BY <1>1, HookFields DEF IInv, TypeOK
<1>3. PICK saw \in Readings(h) : ~Conflicts(saw, Ext(h)) /\ Goes(h, Writing(h, saw))
  BY DEF HookProceeds
<1>4. saw \in Row \cup {None}
  BY <1>2, <1>3, ExistingIsRow DEF Readings, IInv
<1> DEFINE s == Writing(h, saw)
<1>5. /\ s \in Hook /\ s.user = hook[h].user /\ s.row = hook[h].row
      /\ s.saw = saw /\ s.provider = hook[h].provider
  BY <1>2, <1>4 DEF Hook, Writing
<1>6. Goes(h, s)
  BY <1>3
<1> HIDE DEF s
<1> QED
  BY <1>1, <1>3, <1>5, <1>6, OnwardIInv

(* The write: the user's row becomes the webhook's, and store.Memory drops  *)
(* any other.                                                               *)
LEMMA WriteEffect ==
  ASSUME IInv, NEW h \in Hooks, HookWrites(h)
  PROVE  LET u == hook[h].user
             p == hook[h].provider
         IN  /\ u \in Users /\ p \in Providers /\ hook[h].row \in Row
             /\ HookVouched(h) /\ hook[h].at = "write"
             /\ hook' = [hook EXCEPT ![h] = Idle]
             /\ store = "postgres" => hook[h].row.state # ""
             /\ rows' \in [Users -> [Providers -> Row \cup {None}]]
             /\ latest' \in [Users -> Providers \cup {None}]
             /\ rows'[u][p] = hook[h].row
             /\ \A v \in Users, q \in Providers :
                  v # u \/ q # p => rows'[v][q] \in {rows[v][q], None}
             /\ \A v \in Users \ {u} : rows'[v] = rows[v]
             /\ UNCHANGED <<site, known, world>>
<1> DEFINE u == hook[h].user
           p == hook[h].provider
<1>1. /\ hook[h].at = "write" /\ UNCHANGED <<site, known, world>>
      /\ store = "postgres" => hook[h].row.state # ""
      /\ hook' = [hook EXCEPT ![h] = Idle]
      /\ UpsertSubscription(u, p, hook[h].row)
  BY DEF HookWrites, Storable, Answers, Goes
<1>2. HookVouched(h)
  BY <1>1 DEF IInv, HooksVouched
<1>3. u \in Users /\ hook[h].row \in Row
  BY <1>1, HookFields DEF IInv, TypeOK
<1>5. p \in Providers
  BY <1>1, HookFields DEF IInv, TypeOK
<1>6. /\ rows \in [Users -> [Providers -> Row \cup {None}]]
      /\ latest \in [Users -> Providers \cup {None}]
  BY DEF IInv, TypeOK
<1> DEFINE new == [q \in Providers |-> IF q = p THEN hook[h].row
                                       ELSE IF store = "memory" THEN None
                                       ELSE rows[u][q]]
<1>7. rows' = [rows EXCEPT ![u] = new] /\ latest' = [latest EXCEPT ![u] = p]
  BY <1>1 DEF UpsertSubscription
<1>8. new \in [Providers -> Row \cup {None}]
  BY <1>3, <1>6
<1>9. new[p] = hook[h].row /\ \A q \in Providers \ {p} : new[q] \in {rows[u][q], None}
  BY <1>5
<1> HIDE DEF u, p, new
<1>10. /\ rows' \in [Users -> [Providers -> Row \cup {None}]]
       /\ latest' \in [Users -> Providers \cup {None}]
       /\ rows'[u] = new /\ \A v \in Users \ {u} : rows'[v] = rows[v]
  BY <1>3, <1>5, <1>6, <1>7, <1>8
<1> QED
  BY <1>1, <1>2, <1>3, <1>5, <1>9, <1>10 DEF u, p

(* The row written is the one the webhook was vouched for.                  *)
LEMMA WritesIInv == ASSUME IInv, NEW h \in Hooks, HookWrites(h) PROVE IInv'
<1> DEFINE u == hook[h].user
           p == hook[h].provider
           r == hook[h].row
<1>1. /\ u \in Users /\ p \in Providers /\ r \in Row
      /\ hook' = [hook EXCEPT ![h] = Idle]
      /\ store = "postgres" => r.state # ""
      /\ rows' \in [Users -> [Providers -> Row \cup {None}]]
      /\ latest' \in [Users -> Providers \cup {None}]
      /\ rows'[u][p] = r
      /\ \A v \in Users, q \in Providers :
           v # u \/ q # p => rows'[v][q] \in {rows[v][q], None}
      /\ UNCHANGED <<site, known, world>>
  BY WriteEffect
<1>2. /\ Vouched(u, p, r) /\ secret[p] = secret.checkout
      /\ r.state = "" => p = "paddle"
  BY WriteEffect DEF HookVouched
<1> HIDE DEF u, p, r
<1>3. hook' \in [Hooks -> Hook]
  BY <1>1 DEF IInv, TypeOK, Hook
<1>4. \A v \in Users, q \in Providers :
        rows'[v][q] # None /\ rows'[v][q].state = "" => q = "paddle" /\ store = "memory"
  <2>1. store \in {"memory", "postgres"}
    BY StoresAssumption DEF IInv, TypeOK
  <2> QED
    BY <1>1, <1>2, <2>1 DEF IInv, TypeOK
<1>5. TypeOK'
  BY <1>1, <1>3, <1>4 DEF IInv, TypeOK, site, world
<1>6. HooksVouched'
  <2> SUFFICES ASSUME NEW g \in Hooks, hook'[g].at # "idle" PROVE HookVouched(g)'
    BY DEF HooksVouched
  <2>1. hook'[g] = hook[g]
    BY <1>1 DEF IInv, TypeOK, Idle
  <2>2. HookVouched(g)
    BY <2>1 DEF IInv, HooksVouched
  <2> QED
    BY <1>1, <2>1, <2>2 DEF HookVouched, Vouched, Conflicts, site, world
<1>7. RowsVouched'
  <2> SUFFICES ASSUME NEW v \in Users, NEW q \in Providers, rows'[v][q] # None
               PROVE  Vouched(v, q, rows[v][q])' /\ secret'[q] = secret'.checkout
    BY DEF RowsVouched
  <2>1. Vouched(v, q, rows'[v][q]) /\ secret[q] = secret.checkout
    BY <1>1, <1>2 DEF IInv, RowsVouched
  <2> QED
    BY <1>1, <2>1 DEF Vouched, site, world
<1>8. TokensOurs' /\ SaidOfDeals'
  BY <1>1 DEF IInv, TokensOurs, SaidOfDeals, site, world
<1> QED
  BY <1>5, <1>6, <1>7, <1>8 DEF IInv

(* A restart drops the webhooks in flight and perhaps the rows.             *)
LEMMA RestartIInv == IInv /\ Restart => IInv'
<1> SUFFICES ASSUME IInv, Restart PROVE IInv'
  OBVIOUS
<1>1. hook' = [h \in Hooks |-> Idle] /\ UNCHANGED <<site, world>>
  BY DEF Restart
<1>2. UNCHANGED <<known, table>> \/ (known' = {} /\ rows' = [u \in Users |-> NoRows]
                                     /\ latest' = [u \in Users |-> None])
  BY DEF Restart
<1>a. hook' \in [Hooks -> Hook]
  BY <1>1 DEF Hook
<1>b. ASSUME UNCHANGED <<known, table>> PROVE TypeOK'
  BY <1>1, <1>a, <1>b DEF IInv, TypeOK, site, world, table
<1>c. ASSUME known' = {}, rows' = [u \in Users |-> NoRows],
             latest' = [u \in Users |-> None]
      PROVE  TypeOK'
  <2>1. rows' \in [Users -> [Providers -> Row \cup {None}]]
    BY <1>c DEF NoRows
  <2>2. \A u \in Users, p \in Providers : rows'[u][p] = None
    BY <1>c DEF NoRows
  <2> QED
    BY <1>1, <1>a, <1>c, <2>1, <2>2 DEF IInv, TypeOK, site, world
<1>3. TypeOK'
  BY <1>2, <1>b, <1>c
<1>4. HooksVouched'
  BY <1>1 DEF HooksVouched, Idle
<1>5. TokensOurs' /\ SaidOfDeals' /\ RowsVouched'
  BY <1>1, <1>2 DEF IInv, TokensOurs, SaidOfDeals, RowsVouched, Vouched, NoRows,
     site, world, table
<1> QED
  BY <1>3, <1>4, <1>5 DEF IInv

(* The steps of a webhook, joined.                                          *)
LEMMA WebhookIInv == ASSUME IInv, NEW h \in Hooks, Webhook(h) PROVE IInv'
<1>1. HookUnknownUser(h) \/ HookConflicts(h) \/ HookWriteFails(h) => IInv'
  BY AnswerIInv DEF HookUnknownUser, HookConflicts, HookWriteFails
<1> QED
  BY <1>1, AcceptedIInv, FindsUserIInv, ProceedsIInv, WritesIInv DEF Webhook

(* The invariant is inductive.                                              *)
LEMMA NextIInv == IInv /\ [Next]_vars => IInv'
<1> SUFFICES ASSUME IInv, [Next]_vars PROVE IInv'
  OBVIOUS
<1>1. CASE UNCHANGED vars
  <2>1. TypeOK'
    BY <1>1 DEF vars, site, world, table, IInv, TypeOK
  <2>2. TokensOurs' /\ SaidOfDeals'
    BY <1>1 DEF vars, site, world, table, IInv, TokensOurs, SaidOfDeals
  <2> QED
    BY <1>1, <2>1, <2>2, WorldStep DEF vars, site, world, table
<1>2. CASE Next
  BY <1>2, TickIInv, CheckoutSessionIInv, SubscribeIInv, ProviderSaysIInv, WebhookIInv,
     RestartIInv DEF Next
<1> QED
  BY <1>1, <1>2

(* The inductive invariant holds of the webhooks and the table.             *)
THEOREM Invariance == Spec => []IInv
BY InitIInv, NextIInv, PTL DEF Spec

(* The tables and the webhooks keep their types, and only store.Memory ever *)
(* holds a state the schema does not have.                                  *)
THEOREM TypeCorrect == Spec => []TypeOK
<1>1. IInv => TypeOK
  BY DEF IInv
<1> QED
  BY Invariance, <1>1, PTL

(* Whatever webhooks overlap, repeat or fail, the state of a row, any of    *)
(* the five, is what its provider's words stand for; Paddle's are bound to  *)
(* the very subscription and to its user, PayHere's to neither, but for     *)
(* the user's having checked out.                                           *)
THEOREM Vouching == Spec => []RowsVouched
<1>1. IInv => RowsVouched
  BY DEF IInv
<1> QED
  BY Invariance, <1>1, PTL

-----------------------------------------------------------------------------
(* What a user's rows go through.                                           *)

(* Only a write of a webhook and a restart of store.Memory change rows.     *)
LEMMA RowsStep ==
  ASSUME IInv, Next, rows' # rows
  PROVE  \/ \E h \in Hooks : HookWrites(h)
         \/ store = "memory" /\ rows' = [u \in Users |-> NoRows]
BY DEF Next, Tick, CheckoutSession, Subscribe, ProviderSays, Webhook, HookAccepted,
   HookUnknownUser, HookFindsUser, HookConflicts, HookProceeds, HookWriteFails,
   Restart, table, IInv, TypeOK

(* A webhook that is not new keeps its user until it is answered.           *)
LEMMA HookStays ==
  ASSUME IInv, [Next]_vars, NEW h \in Hooks, hook'[h] # Idle
  PROVE  \/ hook[h] # Idle /\ hook'[h].user = hook[h].user
         \/ \E g \in Hooks, d \in Deliveries : HookAccepted(g, d)
<1>1. hook \in [Hooks -> Hook]
  BY DEF IInv, TypeOK
<1>2. CASE hook' = hook
  BY <1>2
<1>3. ASSUME NEW g \in Hooks, Answers(g) PROVE hook'[h] = hook[h]
  BY <1>1, <1>3 DEF Answers, Goes
<1>4. ASSUME NEW g \in Hooks, HookFindsUser(g) \/ HookProceeds(g)
      PROVE  hook[h] # Idle /\ hook'[h].user = hook[h].user
  <2>1. hook[g].at # "idle"
    BY <1>4 DEF HookFindsUser, HookProceeds
  <2>2. hook[g] \in Hook \ {Idle}
    BY <1>1, <2>1 DEF Idle
  <2>3. PICK s : Goes(g, s) /\ s.user = hook[g].user
    <3>1. [hook[g] EXCEPT !.at = "read"].user = hook[g].user
      BY <2>2 DEF Hook
    <3>2. \A saw : Writing(g, saw).user = hook[g].user
      BY DEF Writing
    <3> QED
      BY <1>4, <3>1, <3>2 DEF HookFindsUser, HookProceeds
  <2> QED
    BY <1>1, <2>2, <2>3 DEF Goes
<1>5. ASSUME Restart PROVE hook'[h] = Idle
  BY <1>5 DEF Restart
<1> QED
  BY <1>2, <1>3, <1>4, <1>5 DEF Next, Tick, CheckoutSession, Subscribe, ProviderSays, Webhook,
     HookUnknownUser, HookConflicts, HookWrites, HookWriteFails, vars

(* User u's checkout tokens have expired, and no webhook under one of them  *)
(* is still being handled.                                                  *)
Settled(u) ==
  /\ \A t \in minted : t.user = u => t.expiry < now
  /\ \A h \in Hooks : hook[h] # Idle => hook[h].user # u

(***************************************************************************)
(* How far the refusal of a token reaches (checkout.go:88): whatever the   *)
(* providers say and deliver, the rows of a settled user do not change,    *)
(* short of a restart of store.Memory, and the user is settled until the   *)
(* next checkout.                                                          *)
(***************************************************************************)
NothingAfterExpiry ==
  [][ \A u \in Users :
        Settled(u) =>
          /\ Settled(u)' \/ \E t \in minted' \ minted : t.user = u
          /\ rows'[u] = rows[u] \/ (rows'[u] = NoRows /\ store = "memory")
    ]_vars

(* An expired user stays expired, and is not written, until a new checkout. *)
LEMMA StepExpiry ==
  ASSUME IInv, [Next]_vars, NEW u \in Users, Settled(u)
  PROVE  /\ Settled(u)' \/ \E t \in minted' \ minted : t.user = u
         /\ rows'[u] = rows[u] \/ (rows'[u] = NoRows /\ store = "memory")
<1>1. /\ \A t \in minted : t.user = u => t.expiry < now
      /\ \A h \in Hooks : hook[h] # Idle => hook[h].user # u
  BY DEF Settled
<1>2. rows'[u] = rows[u] \/ (rows'[u] = NoRows /\ store = "memory")
  <2>1. CASE rows' = rows
    BY <2>1
  <2>2. CASE rows' # rows
    <3>1. Next
      BY <2>2 DEF vars, table
    <3>2. ASSUME NEW h \in Hooks, HookWrites(h) PROVE rows'[u] = rows[u]
      <4>1. hook[h] # Idle
        BY <3>2 DEF HookWrites, Idle
      <4> QED
        BY <1>1, <3>2, <4>1, WriteEffect
    <3> QED
      BY <2>2, <3>1, <3>2, RowsStep
  <2> QED
    BY <2>1, <2>2
<1>3. now \in Nat /\ \A t \in minted : t.expiry \in Nat
  <2>1. now \in 0 .. MaxTime /\ minted \subseteq Token
    BY DEF IInv, TypeOK
  <2>2. \A t \in minted : t.expiry \in 0 .. MaxTime + TTL
    BY <2>1 DEF Token
  <2> QED
    BY <2>1, <2>2, TimeAssumption
<1>4. (\A t \in minted' : t.user = u => t.expiry < now')
         \/ \E t \in minted' \ minted : t.user = u
  <2>1. now' = now \/ now' = now + 1
    BY DEF Next, Tick, CheckoutSession, Subscribe, ProviderSays, Webhook, HookAccepted,
       HookUnknownUser, HookFindsUser, HookConflicts, HookProceeds, HookWrites,
       HookWriteFails, Restart, world, vars
  <2> QED
    BY <1>1, <1>3, <2>1
<1>5. \A h \in Hooks : hook'[h] # Idle => hook'[h].user # u
  <2> SUFFICES ASSUME NEW h \in Hooks, hook'[h] # Idle PROVE hook'[h].user # u
    OBVIOUS
  <2>1. ASSUME NEW g \in Hooks, NEW d \in Deliveries, HookAccepted(g, d)
        PROVE  hook'[h].user # u
    <3>1. d.token.user # u
      <4>1. d.token \in minted /\ now <= d.token.expiry
        BY <2>1, AcceptedVouched DEF HookAccepted
      <4> QED
        BY <1>1, <1>3, <4>1
    <3>2. hook' = [hook EXCEPT ![g] =
             [at |-> "user", provider |-> ProviderOf(d), user |-> d.token.user,
              row |-> [ext |-> d.ext, state |-> StateOf(d.status)]]]
      BY <2>1 DEF HookAccepted, Goes
    <3> QED
      BY <1>1, <3>1, <3>2 DEF IInv, TypeOK
  <2> QED
    BY <1>1, <2>1, HookStays
<1> QED
  BY <1>2, <1>4, <1>5 DEF Settled

(* Once the tokens of a user have expired nothing changes the user's        *)
(* subscription until the next checkout, short of a restart that loses it.  *)
THEOREM ClosedByExpiry == Spec => NothingAfterExpiry
<1>1. IInv /\ [Next]_vars =>
        \A u \in Users :
          Settled(u) =>
            /\ Settled(u)' \/ \E t \in minted' \ minted : t.user = u
            /\ rows'[u] = rows[u] \/ (rows'[u] = NoRows /\ store = "memory")
  BY StepExpiry
<1> QED
  BY Invariance, <1>1, PTL DEF Spec, NothingAfterExpiry

(* A step that replaces an active row read something else, or nothing.      *)
LEMMA StepActiveKept ==
  ASSUME IInv, Next, NEW u \in Users, NEW p \in Providers,
         rows[u][p] # None, rows[u][p].state = "active", Displaced(u, rows[u][p])
  PROVE  \E h \in Hooks :
           /\ hook[h].at = "write" /\ hook'[h] = Idle /\ hook[h].user = u
           /\ hook[h].provider = "paddle" => hook[h].saw # rows[u][p]
<1> DEFINE r == rows[u][p]
<1>1. rows' # rows /\ rows' # [v \in Users |-> NoRows] /\ rows'[u] # rows[u]
  BY DEF Displaced
<1>2. PICK h \in Hooks : HookWrites(h)
  BY <1>1, RowsStep
<1>3. /\ hook[h].at = "write" /\ hook' = [hook EXCEPT ![h] = Idle]
      /\ HookVouched(h) /\ hook[h].row \in Row
      /\ rows'[hook[h].user][hook[h].provider] = hook[h].row
      /\ hook[h].provider \in Providers
      /\ \A v \in Users \ {hook[h].user} : rows'[v] = rows[v]
  BY <1>2, WriteEffect
<1>4. hook[h].user = u
  BY <1>1, <1>3
<1>5. hook'[h] = Idle
  BY <1>3 DEF IInv, TypeOK
<1>6. hook[h].row # None
  BY <1>3, NoneAssumption
<1>7. Ext(h) # r.ext
  BY <1>3, <1>4, <1>6 DEF Displaced, Ext
<1>8. ASSUME hook[h].provider = "paddle" PROVE hook[h].saw # r
  <2>1. ~Conflicts(hook[h].saw, Ext(h))
    BY <1>3, <1>8 DEF HookVouched, Ext
  <2> QED
    BY <1>7, <2>1 DEF Conflicts
<1> QED
  BY <1>3, <1>4, <1>5, <1>8

(* A Paddle webhook displaces an active subscription only if that has       *)
(* changed since the webhook read it, or the read failed.                   *)
THEOREM ActiveStays == Spec => ActiveKept
<1>1. IInv /\ [Next]_vars =>
        [ \A u \in Users, p \in Providers :
            LET r == rows[u][p] IN
            r # None /\ r.state = "active" /\ Displaced(u, r) =>
              \E h \in Hooks :
                /\ hook[h].at = "write" /\ hook'[h] = Idle /\ hook[h].user = u
                /\ hook[h].provider = "paddle" => hook[h].saw # r
        ]_vars
  BY StepActiveKept
<1> QED
  BY Invariance, <1>1, PTL DEF Spec, ActiveKept

-----------------------------------------------------------------------------
(* What it takes for the checkout to be honoured.                           *)

OneSecretForAll ==
  \A c \in Configs, p \in Providers : c[p] # Unset => c[p] = c.checkout

(* A webhook that is refused for its checkout token bears an expired one.   *)
CheckoutHonoured ==
  \A d \in Deliveries : Refusal(d) = "checkout" => d.token.expiry < now

(* If the webhooks that are configured have the secret of the checkout      *)
(* (router.go:61, :287, :340), a token is refused only when it has expired. *)
THEOREM Honoured ==
  ASSUME OneSecretForAll
  PROVE  Spec => []CheckoutHonoured
<1>1. ASSUME IInv PROVE CheckoutHonoured
  <2> SUFFICES ASSUME NEW d \in Deliveries, Refusal(d) = "checkout"
               PROVE  d.token.expiry < now
    BY DEF CheckoutHonoured
  <2>1. PICK p, t : p = ProviderOf(d) /\ t = d.token
    OBVIOUS
  <2>2. p \in Providers /\ t \in minted /\ t \in Token
    BY <1>1, <2>1, DeliveryFields DEF IInv
  <2>3. secret[p] # Unset /\ ~Verify(p, t)
    BY <2>1 DEF Refusal
  <2>4. secret[p] = secret.checkout
    BY <1>1, <2>2, <2>3 DEF IInv, TypeOK, OneSecretForAll
  <2>5. t.key = secret.checkout
    BY <1>1, <2>2 DEF IInv, TokensOurs
  <2>6. t.expiry \in Nat /\ now \in Nat
    <3>1. t.expiry \in 0 .. MaxTime + TTL /\ now \in 0 .. MaxTime
      BY <1>1, <2>2 DEF IInv, TypeOK, Token
    <3> QED
      BY <3>1, TimeAssumption
  <2> QED
    BY <2>1, <2>3, <2>4, <2>5, <2>6 DEF Verify
<1> QED
  BY Invariance, <1>1, PTL

-----------------------------------------------------------------------------
(* What it takes for the conflict check to hold good.                       *)

(* No webhook about a user gets past Verify while another one is handled.   *)
OneEach ==
  \A h \in Hooks, d \in Deliveries :
    HookAccepted(h, d) =>
      \A g \in Hooks : hook[g] # Idle => hook[g].user # d.token.user

(* Then, with store.Memory, what a Paddle webhook has read is still there   *)
(* when it writes.                                                          *)
Current(u, saw) == \A p \in Providers : rows[u][p] # None => saw = rows[u][p]

LoneInv ==
  /\ \A g, h \in Hooks :
       hook[g] # Idle /\ hook[h] # Idle /\ hook[g].user = hook[h].user => g = h
  /\ store = "memory" =>
       /\ \A u \in Users : \E r : Current(u, r)
       /\ \A h \in Hooks :
            hook[h].at = "write" /\ hook[h].provider = "paddle" =>
              Current(hook[h].user, hook[h].saw)

(* A user's one row is what GetSubscription returns.                        *)
LEMMA ExistingCurrent ==
  ASSUME NEW u \in Users, NEW r, Current(u, r)
  PROVE  Current(u, Existing(u))
<1> DEFINE there  == {p \in Providers : rows[u][p] # None}
           active == {p \in there : rows[u][p].state = "active"}
           best   == IF active = {} THEN there ELSE active
<1>1. CASE there = {}
  BY <1>1 DEF Current
<1>2. CASE there # {}
  <2>1. best # {} /\ best \subseteq there
    BY <1>2
  <2>2. \A p \in best : rows[u][p] = r
    BY <2>1 DEF Current
  <2>3. (CHOOSE p \in best : TRUE) \in best
    BY <2>1
  <2>4. Existing(u) = IF latest[u] \in best THEN rows[u][latest[u]]
                      ELSE rows[u][CHOOSE p \in best : TRUE]
    BY <1>2 DEF Existing
  <2> HIDE DEF best
  <2>5. Existing(u) = r
    BY <2>2, <2>3, <2>4
  <2> QED
    BY <2>5
<1> QED
  BY <1>1, <1>2

(* A handler that goes on, or starts, alone with its user.                  *)
LEMMA LoneMoves ==
  ASSUME IInv, LoneInv, NEW h \in Hooks, NEW s, Goes(h, s),
         s # Idle => \A g \in Hooks \ {h} : hook[g] # Idle => hook[g].user # s.user,
         store = "memory" /\ s.at = "write" /\ s.provider = "paddle" =>
           Current(s.user, s.saw),
         UNCHANGED <<store, rows>>
  PROVE  LoneInv'
<1>1. hook'[h] = s /\ \A g \in Hooks \ {h} : hook'[g] = hook[g]
  BY DEF Goes, IInv, TypeOK
<1>2. \A u, r : Current(u, r)' <=> Current(u, r)
  BY DEF Current
<1>3. \A g, k \in Hooks :
        hook'[g] # Idle /\ hook'[k] # Idle /\ hook'[g].user = hook'[k].user => g = k
  BY <1>1 DEF LoneInv
<1>4. ASSUME store = "memory", NEW g \in Hooks,
             hook'[g].at = "write", hook'[g].provider = "paddle"
      PROVE  Current(hook'[g].user, hook'[g].saw)
  BY <1>1, <1>4 DEF LoneInv
<1> QED
  BY <1>2, <1>3, <1>4 DEF LoneInv

(* What is said and sold elsewhere does not touch a webhook in flight.      *)
LEMMA LoneWorld ==
  ASSUME LoneInv, UNCHANGED <<store, rows, hook>>
  PROVE  LoneInv'
<1>1. \A u, r : Current(u, r)' <=> Current(u, r)
  BY DEF Current
<1> QED
  BY <1>1 DEF LoneInv

(* A write leaves the user one row, and there is no other handler to mind.  *)
LEMMA LoneWrites ==
  ASSUME IInv, LoneInv, NEW h \in Hooks, HookWrites(h)
  PROVE  LoneInv'
<1> DEFINE u == hook[h].user
           p == hook[h].provider
<1>1. /\ u \in Users /\ p \in Providers /\ hook[h].row # None
      /\ hook' = [hook EXCEPT ![h] = Idle]
      /\ \A v \in Users \ {u} : rows'[v] = rows[v]
      /\ UNCHANGED <<site, known, world>>
  BY WriteEffect, NoneAssumption
<1>2. hook[h].at = "write"
  BY WriteEffect
<1>3. hook[h] # Idle /\ Idle.at = "idle"
  BY <1>2 DEF Idle
<1>4. hook'[h] = Idle /\ \A g \in Hooks \ {h} : hook'[g] = hook[g]
  BY <1>1 DEF IInv, TypeOK
<1>5. \A g \in Hooks : hook'[g] # Idle => hook[g] # Idle /\ hook[g].user # u
  BY <1>3, <1>4 DEF LoneInv
<1>6. store' = store
  BY <1>1 DEF site
<1>7. ASSUME store = "memory" PROVE \A q \in Providers : q # p => rows'[u][q] = None
  BY <1>1, <1>7 DEF HookWrites, UpsertSubscription, Ext, IInv, TypeOK
<1>8. ASSUME store = "memory", NEW v \in Users PROVE \E r : Current(v, r)'
  <2>1. CASE v = u
    <3>1. PICK r : r = hook[h].row
      OBVIOUS
    <3>2. rows'[u][p] = r
      BY <3>1, WriteEffect
    <3>3. Current(v, r)'
      BY <1>7, <1>8, <2>1, <3>2 DEF Current
    <3> QED
      BY <3>3
  <2>2. CASE v # u
    <3>1. PICK r : Current(v, r)
      BY <1>8 DEF LoneInv
    <3>2. Current(v, r)'
      BY <1>1, <1>8, <2>2, <3>1 DEF Current
    <3> QED
      BY <3>2
  <2> QED
    BY <2>1, <2>2
<1>9. ASSUME store = "memory", NEW g \in Hooks,
             hook'[g].at = "write", hook[g].provider = "paddle"
      PROVE  Current(hook[g].user, hook[g].saw)'
  <2>1. hook'[g] # Idle /\ g # h /\ hook[g] = hook'[g]
    BY <1>3, <1>4, <1>9
  <2>2. hook[g].user \in Users \ {u}
    BY <1>5, <1>9, <2>1, HookFields DEF IInv, TypeOK
  <2>3. Current(hook[g].user, hook[g].saw)
    BY <1>9, <2>1 DEF LoneInv
  <2> QED
    BY <1>1, <2>1, <2>2, <2>3 DEF Current
<1> QED
  BY <1>3, <1>4, <1>5, <1>6, <1>8, <1>9 DEF LoneInv

(* Every step, of webhooks that meet no other of their user.                *)
LEMMA NextLoneInv ==
  ASSUME IInv, LoneInv, [Next]_vars, [OneEach]_vars
  PROVE  LoneInv'
<1>1. CASE UNCHANGED vars
  BY <1>1, LoneWorld DEF vars
<1>2. CASE Tick \/ (\E u \in Users : CheckoutSession(u))
             \/ (\E x \in Externals : \E s : ProviderSays(x, s))
  BY <1>2, LoneWorld DEF Tick, CheckoutSession, ProviderSays, site, table
<1>3. ASSUME NEW x \in Externals, NEW p \in Providers, NEW t \in minted, Subscribe(x, p, t)
      PROVE  LoneInv'
  BY <1>3, LoneWorld DEF Subscribe, site, table
<1>4. ASSUME NEW h \in Hooks, Webhook(h), OneEach PROVE LoneInv'
  <2>0. Idle.at = "idle"
    BY DEF Idle
  <2>1. ASSUME NEW d \in Deliveries, HookAccepted(h, d) PROVE LoneInv'
    <3> DEFINE s == [at |-> "user", provider |-> ProviderOf(d), user |-> d.token.user,
                     row |-> [ext |-> d.ext, state |-> StateOf(d.status)]]
    <3>1. Goes(h, s) /\ UNCHANGED <<store, rows>>
      BY <2>1 DEF HookAccepted, site, table
    <3>2. s.at = "user" /\ s.user = d.token.user
      OBVIOUS
    <3>3. \A g \in Hooks : hook[g] # Idle => hook[g].user # s.user
      BY <1>4, <2>1, <3>2 DEF OneEach
    <3> HIDE DEF s
    <3> QED
      BY <3>1, <3>2, <3>3, LoneMoves
  <2>2. ASSUME HookUnknownUser(h) \/ HookConflicts(h) \/ HookWriteFails(h) PROVE LoneInv'
    BY <2>0, <2>2, LoneMoves DEF HookUnknownUser, HookConflicts, HookWriteFails, Answers,
       site, table, world
  <2>3. ASSUME HookFindsUser(h) \/ HookProceeds(h), hook[h].at # "idle" PROVE LoneInv'
    <3>1. hook[h] # Idle /\ hook[h] \in Hook /\ hook[h].user \in Users
      BY <2>0, <2>3, HookFields DEF IInv, TypeOK
    <3>2. \A g \in Hooks \ {h} : hook[g] # Idle => hook[g].user # hook[h].user
      BY <3>1 DEF LoneInv
    <3>3. CASE HookFindsUser(h) /\ hook[h].provider = "paddle"
      <4> DEFINE s == [hook[h] EXCEPT !.at = "read"]
      <4>1. s.at = "read" /\ s.user = hook[h].user
        BY <3>1 DEF Hook, Idle
      <4>2. Goes(h, s) /\ UNCHANGED <<store, rows>>
        BY <3>3 DEF HookFindsUser, site, table, world
      <4> HIDE DEF s
      <4> QED
        BY <3>2, <4>1, <4>2, LoneMoves
    <3>4. CASE HookFindsUser(h) /\ hook[h].provider # "paddle"
      <4> DEFINE s == Writing(h, None)
      <4>1. s.user = hook[h].user /\ s.provider = hook[h].provider
        BY DEF Writing
      <4>2. Goes(h, s) /\ UNCHANGED <<store, rows>>
        BY <3>4 DEF HookFindsUser, site, table, world
      <4> HIDE DEF s
      <4> QED
        BY <3>2, <3>4, <4>1, <4>2, LoneMoves
    <3>5. CASE HookProceeds(h)
      <4>1. PICK saw \in Readings(h) : Goes(h, Writing(h, saw))
        BY <3>5 DEF HookProceeds
      <4> DEFINE s == Writing(h, saw)
      <4>2. s.user = hook[h].user /\ s.saw = saw
        BY DEF Writing
      <4>3. store = "memory" => Current(s.user, s.saw)
        <5>1. store = "memory" => saw = Existing(hook[h].user)
          BY <4>1 DEF Readings, StoreFails
        <5> QED
          BY <3>1, <4>2, <5>1, ExistingCurrent DEF LoneInv
      <4>4. Goes(h, s) /\ UNCHANGED <<store, rows>>
        BY <3>5, <4>1 DEF HookProceeds, site, table, world
      <4> HIDE DEF s
      <4> QED
        BY <3>2, <4>2, <4>3, <4>4, LoneMoves
    <3> QED
      BY <2>3, <3>3, <3>4, <3>5
  <2>4. HookFindsUser(h) \/ HookProceeds(h) => hook[h].at # "idle"
    BY DEF HookFindsUser, HookProceeds
  <2> QED
    BY <1>4, <2>1, <2>2, <2>3, <2>4, LoneWrites DEF Webhook
<1>5. ASSUME Restart PROVE LoneInv'
  <2>1. \A h \in Hooks : hook'[h] = Idle /\ Idle.at = "idle"
    BY <1>5 DEF Restart, Idle
  <2>2. store' = store
    BY <1>5 DEF Restart, site
  <2>3. store = "memory" => \A u \in Users : Current(u, None)'
    BY <1>5 DEF Restart, NoRows, Current
  <2> QED
    BY <2>1, <2>2, <2>3 DEF LoneInv
<1> QED
  BY <1>1, <1>2, <1>3, <1>4, <1>5 DEF Next

(***************************************************************************)
(* With the store main.go wires, and no two webhooks of one user past      *)
(* Verify at once, the conflict check does what it is for                  *)
(* (router.go:298-302): a Paddle webhook never moves a user from one       *)
(* active subscription to another.  Only PayHere's, which does not look,   *)
(* still does.                                                             *)
(***************************************************************************)
PaddleKeepsActive ==
  [][ \A u \in Users, p \in Providers :
        LET r == rows[u][p] IN
        store = "memory" /\ r # None /\ r.state = "active" /\ Displaced(u, r) =>
          \E h \in Hooks :
            /\ hook[h].at = "write" /\ hook'[h] = Idle /\ hook[h].user = u
            /\ hook[h].provider = "payhere"
    ]_vars

(* The row a Paddle webhook would displace is the one it has read.          *)
THEOREM ConflictsCaught == Spec /\ [][OneEach]_vars => PaddleKeepsActive
<1>1. Init => LoneInv
  BY DEF Init, LoneInv, NoRows, Current, Idle
<1>2. IInv /\ LoneInv /\ [Next]_vars /\ [OneEach]_vars => LoneInv'
  BY NextLoneInv
<1> DEFINE Goal ==
      \A u \in Users, p \in Providers :
        LET r == rows[u][p] IN
        store = "memory" /\ r # None /\ r.state = "active" /\ Displaced(u, r) =>
          \E h \in Hooks :
            /\ hook[h].at = "write" /\ hook'[h] = Idle /\ hook[h].user = u
            /\ hook[h].provider = "payhere"
<1>3. IInv /\ LoneInv /\ [Next]_vars => [Goal]_vars
  <2> SUFFICES ASSUME IInv, LoneInv, Next, NEW u \in Users, NEW p \in Providers,
                      store = "memory", rows[u][p] # None, rows[u][p].state = "active",
                      Displaced(u, rows[u][p])
               PROVE  \E h \in Hooks :
                        /\ hook[h].at = "write" /\ hook'[h] = Idle /\ hook[h].user = u
                        /\ hook[h].provider = "payhere"
    OBVIOUS
  <2>1. PICK h \in Hooks :
          /\ hook[h].at = "write" /\ hook'[h] = Idle /\ hook[h].user = u
          /\ hook[h].provider = "paddle" => hook[h].saw # rows[u][p]
    BY StepActiveKept
  <2>2. hook[h].provider # "paddle"
    BY <2>1 DEF LoneInv, Current
  <2>3. hook[h].provider \in Providers
    BY <2>1, HookFields DEF IInv, TypeOK
  <2> QED
    BY <2>1, <2>2, <2>3 DEF Providers
<1> QED
  BY <1>1, <1>2, <1>3, Invariance, PTL DEF Spec, PaddleKeepsActive
=============================================================================
