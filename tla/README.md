# A verification development of the SSI REST API

The repository is a family of Odoo 19 add-ons that put a REST API on an Odoo
database: a dispatcher for routes of type `ssi_rest`, a registry of
authentication schemes with five providers, access profiles, an OAuth2
authorization server, a request log, and routes for records, reports, binary
content, custom endpoints and documentation. These modules model what in it
depends on the order of events: transactions that run over snapshots and are
run again, rows written in transactions of their own, configuration that
changes while requests use it. They are checked with TLC on small instances;
what matters most is proved with TLAPS for every instance.

## The system

Every request runs in a worker thread of Odoo. `odoo.service.model.retrying`
opens a PostgreSQL REPEATABLE READ transaction, runs authentication,
`pre_dispatch`, the endpoint and `post_dispatch`, flushes the ORM's pending
updates and commits; on a serialization failure it rolls back and runs all of
that again on the same request object. A route declared `readonly` starts on a
read-only cursor, on a replica if there is one, and is run again on a writable
one when it turns out to write. Components call each other within that
transaction; they interact across requests through rows of the database, through
registry caches, and through two transactions that are not the request's: the log
row's and the API key's record of use.

| Component | State it keeps | Operations | Hard behaviour | What makes it correct |
|---|---|---|---|---|
| Dispatcher, `ir.http`, errors (`ssi_rest_api/lib`, `models/ir_http.py`) | what the request object remembers between attempts: request id, `rest_auth`, matched rule | authenticate, check the profile, resolve the company, dispatch, render an error | attempts are rerun, cursors are exchanged, authority is withdrawn meanwhile | served under one authority; the answer says what was committed; one request id |
| Authentication (`_auth_method_ssi_rest`, `ssi_rest_auth_scheme`, providers) | the active schemes, cached in the registry | extract from every scheme, refuse ambiguity, verify with one | five schemes over two headers, order, provider failures | the identity is vouched for by the one scheme that found a credential; the list of schemes is current |
| Access profiles | profiles, rules, grants | evaluate, administer | order of rules, union of profiles, archival | first match by sequence decides; a profile reaches only those it governs |
| OAuth2 server (`ssi_rest_api_auth_oauth2`) | clients, tokens | authorize, three grants, revoke, lookup, purge | races for one code, revocation under reruns, purge and deletion beside requests | a code is redeemed once; a revocation is heeded; tokens follow their parents |
| API keys (`ssi_rest_api_auth_apikey`) | keys | generate, verify, record a use, archive | the record of use is a transaction of its own on the same row | a dead key is refused; the key that was shown is the one that works |
| Request log (`ssi_rest_api_log`) | log rows | write a row on success and on error | its transaction outlives the attempt's rollback | the last row says what the client was told, and names what the request reached |
| Custom endpoints (`ssi_rest_api_endpoint`) | endpoint records | choose a cursor, look up, check the list, run a handler | the cursor is chosen before the record is read again | its updates happen once whatever the mark says |
| JWT (`ssi_rest_api_auth_jwt`) | issuers, cached key sets per process | extract, verify | threads share a client while keys rotate and issuers are edited | a withdrawn key dies with the time to live; a served one is found |
| ORM routes and serializer (`ssi_rest_api_orm`, `ssi_rest_serializer`) | none | eight routes over records, a call route; specifications from dotted paths, nested output | clamped pages, rights on the way down a path, checks made while records are serialised | what is shown is what was asked for and may be seen; wrong requests are refused whatever is stored; writes happen once |
| Introspection, reports, binary, OpenAPI | none | conversions and reads | I/O | pure |
| Users and settings | one flag, parameters | forms | none | nothing reads `ssi_rest_enabled` |

## The modules

| Module | What it models | Proofs |
|---|---|---|
| `OAuth2Tokens` | the authorization server over snapshot transactions | `OAuth2TokensProofs` |
| `OAuthLedger` | what it promises: a ledger of credentials handed out and spent, one step per commit | `OAuth2TokensProofs` |
| `RestRequest` | the life of a request from the choice of its cursor to its answer, with the log and the custom endpoints | `RestRequestProofs` |
| `Authentication` | the resolution of one request's credential | `AuthenticationProofs` |
| `SchemeCache` | the cached list of active schemes, in a process with threads | `AuthenticationProofs` |
| `JwksCache` | an issuer's cached key set, in a process with threads | `JwksCacheProofs` |
| `ApiKey` | one API key under uses, generations and archivals | `ApiKeyProofs` |
| `AccessProfile` | the profiles' administration and decisions | `AccessProfileProofs` |
| `Serializer` | specifications, their validation and what they show, as operators | `OrmRoutesProofs` |
| `OrmRoutes` | one request for records, from its arguments to its reply | `OrmRoutesProofs` |
| `Filtering` | a list filtered by membership, which `Authentication` and `OrmRoutes` use | `FilteringFacts` |

`MCOAuth2Tokens`, `MCRestRequest`, `MCApiKey`, `MCAccessProfile`, `MCOrmRoutes` and
`MCWorker` give them small instances. `Authenticate` and `PreDispatch` of
`RestRequest` take the outcome of the credential's and of the profiles' check from
the attempt's snapshot; `Authentication` and `AccessProfile` say how those
outcomes come about, `SchemeCache` which list of schemes `Authentication` works
with, `JwksCache`, `OAuth2Tokens` and `ApiKey` what stands behind three of the
providers, `OrmRoutes` and `Serializer` what an endpoint of `ssi_rest_api_orm`
does between `Dispatch` and its result.

`MCWorker` puts the four parts that share no state into one run: `moving` says
which of them a behaviour is about, the others stay as they begin. What holds of
each of them alone holds of all together, so nothing is lost by not interleaving
them, and their states are not multiplied.

### Transactions

The three modules with concurrent requests treat PostgreSQL and Odoo alike.
`Begin` takes the snapshot. An endpoint's updates reach the database at a flush
(`Update`, `Flush`), which waits for the row's lock; a request whose row was
updated since its snapshot is `beaten` and fails instead of waiting successfully
(first updater wins). A failure is a `Retry`: rollback and a new attempt, or an
error once `MaxTries` attempts are spent. `Commit` makes everything visible at
once and answers, or the worker dies before it could answer. `Crash` may come
at any point. Odoo allows five attempts; two or three show everything: the
first, one rerun, and the exhaustion of attempts.

### The replica

A transaction on a read-only cursor may read a replica, which applies the primary's commits in
their order and as late as it likes, or the primary, when no replica is there or none can be
reached. Four modules say so, each of the rows it is about. In `RestRequest` it is the caller's
authority (`replica`). In `OAuth2Tokens` the operation `read` presents a bearer token to a
read-only route: `behind` holds the tokens that have died and that the replica still shows
alive, and a token may also not have reached it (`ReplicaStates`). In `ApiKey` the operation
`read` finds the key in any of the rows the replica has yet to leave (`behind`), and in
`SchemeCache` the list of schemes and the sequence of signals come from it. What reads the
primary in any case are the routes that may write, the record of a key's use and the log row.
The properties claim what holds nevertheless: `RevocationIsHeeded` and `DeadKeyIsRefused` hold of
what the replica had heard of when the request arrived or its attempt began, `SchemesAreCurrent`
names the replica as one of two ways to a stale list. A revoked token or archived key is served on
read-only routes for as long as the replica lags; no line of the repository says otherwise.

### OAuth2Tokens

A token is named by the request whose commit stored it and by its kind, since raw
tokens are drawn at random. `Granted` follows each route's checks in order:
the client, its secret, the grant type, the lookup of the credential in the
snapshot, PKCE. An exchange updates the code's row (`Updates`) and inserts an
access and a refresh token (`NewRows`); a refresh inserts one access token
and leaves the refresh token alone. `GcSearch` and `GcUnlink` are the
autovacuum's search and delete in a transaction of its own; `ToggleClient` and
`UnlinkClient` an administrator's changes, the latter with the cascade
to tokens; `UnlinkUser` is the cascade of `user_id`, and `UnlinkOwn` what a user of
`base.group_system` may delete in the list of tokens, where the record rule leaves only that
user's own. An insertion whose client or user was deleted meanwhile fails at the foreign key
and is run again (`InsertConflict`). The clock is read more than once: `Handle` looks the credential up
at one moment (`granted`), and `Insert` issues each row at a later one (`at`), after the hash.
`parent` and `granted` are history the code does not store; `settled` remembers
that a credential was already spent or gone, and known to be so where it is asked, when a request
arrived. An administrator who writes `revoked` back through the ORM is left out; no form offers it.

### RestRequest

`object` is what survives an attempt; `log` what was committed beside it;
`covered` whether there was a moment since the attempt began at which
the primary would have let the request through. Routes read, write, fail or break
a constraint. The custom endpoint's record is part of what administrators
change: `Readonly` reads it in a transaction of its own (`_custom_endpoint_readonly`),
`CustomCall` again in the attempt's snapshot. `WriteLog` may fail, as the code
swallows its failure. `Replicate` lets the replica lag for as long as it likes.
Authentication fails with a 401, with a 400 when the request carries several credentials or one that
cannot be read, or with a 500 when a provider raises anything else (`Failures`); in each case the log row
names no scheme unless an earlier attempt had set one.
A body is sound, malformed (a `BadRequest` that `classify_exception` does not know:
500) or too large (413); both end in the dispatch. The deed `spoil` updates the
shared record and raises afterwards, before or after the update was flushed.

### Authentication

Headers are what the providers tell apart: the shape of what follows `Basic` or
`Bearer` and whether `X-Api-Key` is there. `session` is the user of the session that a cookie names,
whom Odoo puts into the environment before any scheme is asked. `Verify` calls one provider, which may
vouch for any user, refuse, or fail.

### SchemeCache

`Lookup` and `Fill` are the two halves of a cached `_get_active_schemes`: a miss
searches in the request's snapshot and caches what it finds. `Forget` is the
`clear_cache` of `create`, `write` and `unlink`, made before the commit; `Signal`
and `CheckSignaling` are Odoo's sequence by which other processes hear of it,
after the commit and at their next request. Odoo's source is not in the repository, so both
places where `check_signaling` may read the sequence, the primary and the replica, are allowed.
`beside` marks what was read by one
thread while another changed the schemes or cleared the cache, or from a replica that had yet to apply a
change; `late` a request that heard an old sequence, `known` which lists
were committed since the request arrived; all are kept for the properties.
A worker that dies between a commit and its signal is not modelled.

### JwksCache

`clients` is the issuer's entry of `_clients`, `heap` the `PyJWKClient` objects
that the entry or a thread refers to. A thread holds no lock between `GetClient`,
`ReadKeys`, `Reply` and `Put`: another may fetch with the same client, replace it or
drop it in between. `FetchTime` bounds a fetch, `gone` is when a key was
withdrawn. Administrators edit the issuer one at a time, in this process (which
drops the client when the write is made) or elsewhere (which tells nobody); the
edit is committed or rolled back by `EndEdit`. `drops` counts the edits that drop
the client. The behaviour of `PyJWKClient` is external: it follows PyJWT's use
by `_resolve_signing_key`. Empty key sets and answers that are no JSON, which PyJWT
treats as failures, are failures; HMAC issuers have no keys to fetch; `_clients` is
keyed by the issuer's id alone and shared by the databases of a process, of which
there is one here.

### ApiKey

Raw keys are numbered in the order in which they were drawn. `Touch` is the record of use, in
a transaction that begins after the request's snapshot and commits before the
request does; `TouchFailed` is its swallowed failure. `NoManagementIsLost` asks of every change of
the key or its active field that the transaction which commits it had read the row as it was:
a record of use that wrote back what its request saw would break it, and so would a generation
that ignored another.

### Serializer and OrmRoutes

A record is a model, its values and whether record rules show it to the caller. A
specification is the set of the paths into the code's nested dictionaries, each with
those on the way to it: `Fields` are the keys of its outer level, `Below` the level under
one of them, and a nested dictionary that is empty is one that is not there, as the code
takes it. It is built from the query's dotted paths one after the other
(`SpecificationFromQuery`, `MergeDottedPath`) and checked by `Valid` model by model,
before anything is serialised. `Valid` and `SerializeRecords` recurse level by level as
the code does, up to `MaxDepth`, which is the longest path of any query and so no limit
of what the code would do. The output keeps, of every value shown, the triple of record,
field and value, which is what the properties tell apart.
An x2many field shows what record rules leave of it; a many2one shows whatever it
refers to, but its `display_name` is read as the caller, so that one hidden target
makes the whole reply a 403 unless `m2o` is `id`. The properties say the same of
the paths themselves (`Closure`, `Reach`, `Wanted`), without specifications.

A route of `OrmRoutes` is one step. `Paginate` clamps, `Page` is the search's LIMIT and
OFFSET: 0 is no limit to the ORM and a negative one an error of PostgreSQL. The
default page may be larger than the largest one, since nothing in the settings forbids it. `OrmSearch`
shows identifiers alone. `OrmWrite` and `OrmCreate` leave the database as it was when
they are refused, as the rollback of the attempt does. `grant` is what `ir.model.access` gives
the caller of the model: without the right to read it a search is a 403 whatever it would find, without
the right to write or create so are those, also for records that may be read; a write of no record
asks for no right. `Invalid` is a value that a constraint of the model refuses with a 422.

### AccessProfile

A pattern stands for the set of paths or models it matches. Decisions are sets of
possible results because `_order` of the rules does not break ties of their
sequence. `Listed` reads a many2many field, which hides archived profiles.
The actions are one write each. A stored rule may be
added, edited in place and removed; rules are kept in the order of creation so
that sorting by sequence is something the model does.

## The runs

| Run | Instance | What it shows |
|---|---|---|
| `oauth_races` | 4 requests, a confidential and a public client, a replica | a code is redeemed once (`CodeRedeemedOnce`); a revocation committed before a request arrived, and heard of by the replica where that is asked, is heeded in every attempt of it (`RevocationIsHeeded`); nobody revokes another client's token, tokens without an owner come from client credentials only, and every step is a step of the ledger (`LedgerSpec`) |
| `oauth_lifecycle` | 3 requests, 2 ticks, changes and deletion of the client or deletion of the user, deletion of rows, purge, credentials of the wrong kind | rows follow their parents, answers tell effects, revocations take effect |
| `oauth_scope` | 1 request | violation: a scope beyond the client's is stored |
| `requests` | 1 request on every route with every body, 2 changes of authority or endpoint, both cursors | `ServedUnderOneAuthority`, `AnswerTellsEffect`, `LogTellsAnswer`, `OneRequestId`, `RowsNameTheirRequest` |
| `request_races` | 2 requests that write, fair threads | `AnswerTellsEffect`, and every request is answered unless its worker dies (`Answered`) |
| `request_log` | 1 request | violation: a request leaves several log rows |
| `worker` | 2 threads over the schemes' cache; 2 threads, 2 URLs and 2 keys over the key cache; five schemes in every order and every pair of headers; 3 partners and a user under many visibilities, with and without rights to the model | `SchemesAreCurrent`; `AcceptedByRecentKey`, `ServedKeyIsFound`, `EditDropsKeys`; `IdentityIsVouchedFor`, `OrderDoesNotMatter`, `TokensAreToldApart`; `ShownAsAsked`, `RefusedAsWritten`, `ShortPageIsLast` |
| `page_size` | the same records | violation: a page of 0 has no bound |
| `api_keys` | 3 requests and clicks, 1 tick, a replica | `DeadKeyIsRefused`, `ShownKeyReplacesAll`, `NoManagementIsLost` |
| `api_key_own` | 1 request | violation: archiving the key one authenticates with ends in an error |
| `profiles` | 2 profiles, 4 rules, 1 user, 1 group | `AddedRuleTakesItsPlace`, `OnlyThoseItGoverns`, `MoreProfilesNeverNarrow` |
| `key_profile` | the same | violation: the key's profile is not enforced |

Every property of a passing run is matched by a faulty variant of a definition,
kept next to it and marked as such, under which the run finds the property
violated; `PROJECT.json` lists them.

### Bounds, and why they suffice

- `Request`: a code's double redemption takes an authorize request and two
  exchanges, and a fourth request can refresh, use or revoke beside them; a row race
  takes two requests, and `UpdateOutside` adds as many rivals as TLC likes.
- `MaxTries` is 2, in `requests` 3: see Transactions.
- `MaxClock`: lifetimes are one or two ticks, so a code or token can expire before, during and
  after the request that presents it; expiry itself (`>` in the lookup, `<` in
  the purge) falls on a tick.
- `MaxChanges` is 2: an authority is withdrawn and restored, or
  withdrawn in two parts at different moments.
- `MaxWrites` is 2: a change that is signalled while another is made. Two threads
  are one that reads and one that arrives beside it; the administrator is neither. At
  first both schemes are active; the writes reach every other list from there.
- `TimeToLive` and `FetchTime` are 1, `MaxClock` 3: a key may be withdrawn, fetched late, and outlive
  the time to live. `MaxEdits` and `MaxRotations` are 1; `InBounds` of `MCWorker` lets
  both happen in one behaviour only as long as the clock is within the time to live.
- Records: three partners, of which one may be the other's parent and child, and a user
  behind them, each hidden or not, though p3 is seen unless all three are hidden; one or two paths of up to four fields, in
  either order, right and wrong ones; limits from -1 to one above the largest page.
- `MaxRules` counts the rules of all profiles: two rules of one profile show their order,
  one rule each shows the union.
- `Ops`, `Faults`, `Administered` and `Asked` leave out callers that a run is not about. In
  `oauth_lifecycle` nobody changes the client once the user is deleted (`OneIsChanged`, a
  constraint): either deletion alone takes away every row the other could.
- Requests, and in `profiles` the profiles, in `worker` the
  threads, keys and URLs of the key cache, are symmetric: no definition orders them.
  Liveness is checked without symmetry.

### Fairness

`FairSpec` of `RestRequest` assumes weak fairness of each request's own steps:
a worker thread that can run does run, and PostgreSQL hands a lock on when its
holder ends. It assumes nothing of callers, administrators, the replica or
crashes. A lock's holder either commits by itself or dies, and attempts are
counted, so that suffices for `Answered`.

## What is proved

Every theorem holds for any sets of requests, threads, clients, users, companies,
profiles, rules, keys and URLs, and for every bound, number of attempts and
lifetime, from the named assumptions on the constants alone.

**OAuth2Tokens.** `TypeCorrect`, `RedeemedOnce` (`OAuth2TokensProofs`).
`CodeRedeemedOnce` is not inductive: it looks at committed rows, and what keeps
a second exchange from committing lies in the open transactions. `IInv` adds
(a) what each request's state says of itself (`RequestSound`: calls are
well-formed, a draft stems from the credential that was presented, an update
has seen its row); (b) `NotYetStored`, a request that is not over has
committed nothing; (c) `LocksDisjoint`, no two requests at their commit lock
one row; (d) `CodeUnrevoked`, an exchange whose snapshot shows a live code and
which nobody has beaten is right about the code; (e) `CodeConsumed`, whatever stems
from a code finds it revoked. The argument: the commit of an exchange inserts rows
of a code that by (d) is still unrevoked, so by (e) nothing stems from it
yet; by (c) and the `beaten` marks every other exchange of it loses. Each
conjunct has a lemma of its own, most of which first reduce a step to the one
request it is about (`StepIsAboutOne`).

**The ledger.** `ImplementsLedger` (`OAuth2TokensProofs`): every step of the server is a
step of `OAuthLedger` under its refinement mapping, or leaves it as it is. Only a commit
writes the ledger, and it writes one entry of it: that the spent code was not spent
before is `CodeUnrevoked`, that a derived credential equals its parent's entry is
`DraftFollows`. On top of `IInv`, `JInv` gives `RevocationHeeded` (`Late`: who arrived
after its credential died sees it dead in every snapshot, since revocations and
deletions only grow and a death the replica has applied stays applied, `StaysDead`),
`RevocationEffective` and `AnswersTrue` (`Told`, and `DeletedForAReason` for the four ways in which a row may
be gone), `ParentsFollowed` (`GrantFollows`: the parent was alive and unexpired at `granted`, whenever the
row is issued), `OwnerlessTokens` and `OwnRevocations`.

**RestRequest.** `TypeCorrect`, `AnswerIsTrue`, `OneAuthority`, `LogIsTrue`, `IdIsOne`
and `RowsAreNamed` (`RestRequestProofs`). The invariant says of one request what
its attempt has passed (`Passed`), that its snapshot on the primary was the primary's
when `covered` was set (`Vouched`), that updates are pending on the primary only and
end with the attempt (`Pending`), and that nothing is committed before the end
(`Unfinished`); rows and ids have invariants of their own. A lemma for each
action and kind of fact shows that a step keeps them, for the request it is about
and for the others.

**SchemeCache.** `SchemeTypeCorrect`, `CurrentSchemes`. `SchemeInv` says when a cached list is
current: it is the active one, or this process has a signal still to hear, or it was read beside
a change. The argument turns on the moment of a request's arrival: who is not `late` heard every signal.

**JwksCache.** `KeyTypeCorrect`, `WithdrawnKeyDies`, `NewKeyIsFound`, `EditedIssuerDropsKeys`.
`KeyInv` adds that what a client holds was served at its URL a fetch before it came
(`GoodClient`), what each thread knows at its step (`GoodThread`), and that the entry has
seen every drop so far (`DropsCounted`). A thread's and a client's slack add up to the
time to live and one fetch.

**ApiKey.** `TypeCorrect`, `DeadKeyRefused`, `ShownKeyIsTheRows`, `ManagementStands`.
`KInv` adds that a generation nobody has beaten will replace every key stored
(`Newer`), that keys are stored in their order, that one transaction holds the row, and that a
writer which nobody has beaten still sees the row as it is (`Fresh`), from which `ManagementStands`
follows.

**AccessProfile.** `TypeCorrect`, `RuleTakesItsPlace`, `OnlyTheGoverned`, and
`MoreNeverNarrow`, which is about the decisions alone. That a rule takes its place rests on
lemmas about sequences: an appended rule leaves the others in their places
(`AppendedRule`), and those first by sequence stay first or give way to it
(`LaterIsNotFirst`, `EarliestIsFirst`). That a change reaches only the governed rests on
`OneProfileChanges`.

**Authentication.** `AuthTypeCorrect`, `IdentityVouchedFor`, `OrderIsIrrelevant`,
`TokensToldApart` (`AuthenticationProofs`), for every sequence of distinct schemes, every
restriction of a route and every pair of headers. `AuthInv` says what
has been asked so far and what of it was extracted (`ExtractedOfAsked`), and how a request that
is over ended: by one candidate while it was asked (`EndedByAsked`), which only the Basic scheme does, or
by all of them (`EndedByAll`). Once all were asked the credentials extracted are
the `Carried` ones, a set that knows no order. That filtering keeps the
elements and their order comes from `KeptProperties` (`FilteringFacts`).

**Serializer.** `MergeIsClosure`: merging the paths in whichever order gives the paths and what
is on the way to them. `ValidationIsOfPaths`: the validation, which goes down the levels, accepts what
`WellFormed`, which follows one path at a time, accepts. `SerializerShowsWhatIsAsked`: over records that
satisfy `WellTyped`, the recursive serialisation is `invalid` exactly if the
specification is ill-formed, `denied` exactly if a value that is
needed may not be read, and otherwise shows `Wanted`, exactly. The last two are inductions over
the depth of a specification (`ValidMeansWellFormed`, `LevelsAreServed`); each step
matches the level below a field with the paths that begin with that field
(`WantedByField`, `HiddenByField`, `WellFormedByField`), which in turn is an induction
along a path (`ReachNext`, `ModelAtNext`).

**OrmRoutes.** `ShowsWhatIsAsked`, `RefusesWhatIsIllFormed`, `ShortPagesAreLast`, for all
schemas, records, queries and page sizes, the latter negative or zero if an administrator
sets them so. A request is one step, so the invariant (`OrmInv`) says little: while it waits the
records and the query are those of `OrmInit`, and the three properties hold. What is `Forbidden` is
the same before and after a step, since no route changes who sees a record. The work is in what a route
does to the records before it serialises them: a write of names changes nothing
that is hidden (`WrittenRows`, `HiddenAlike`), a record that was just created hides nothing
of itself (`CreatedIsNotHidden`), and a page is the part of the search that
`offset` and its own length say (`PageIsChosen`).

These rest on `SchemaAssumption` (every model has an `id` and a `name` that no group
restricts, and a relation leads to a model), `OrmAssumption` (relations of stored records lead to records of
their comodel; a search returns every record once) and `RecordsAssumption` (a request names
records that exist, a creation one that does not). TLC evaluates them on the
instance of the runs.

The library's induction theorems take an operator as a parameter, which no installed prover
instantiates; `FilteringFacts` proves induction over the numbers up to a bound for a set of
them (`SetInduction`), and from it that a recursive function satisfies its own
equations (`RecursionDefines`). Both are used wherever a definition recurs.

Model-checked only: `Answered`, since liveness and fairness are beyond the prover. What the five
violated runs refute is not a candidate for a proof.

## Where code and documentation part

Five runs show it; `PROJECT.json` quotes the lines. An OAuth scope is stored as
the caller gave it (`oauth_scope`). A rerun request leaves a log row per attempt
that reached `post_dispatch` (`request_log`). A request that writes the key row it
authenticated with always conflicts with its own record of use
(`api_key_own`). A key's profile is returned by the provider and read by nobody
(`key_profile`). A page of 0 records is a page of all of them (`page_size`).

Noticed without a run: after a rerun, `rest_auth` and the matched rule of an
earlier attempt reach the log row of a failed authentication or a 403. A `Basic` header that is
not ASCII is answered with 500. A malformed JSON body is answered with 500,
since `classify_exception` knows no `BadRequest`. `X-Api-Key` beside `Authorization`
is `multiple_credentials`, although its provider's docstring allows both. The
help of an endpoint's `http_method` allows one path under several methods, its
`UNIQUE (path)` does not. `last_used_date` may go back when two uses overlap. In a
process with several threads, a list of schemes that one thread reads while another
commits a change, or reads on a lagging replica, can stay cached until the next change
(the `beside` of `SchemesAreCurrent`), though the comment in
`ssi_rest_auth_scheme.py:50` says that each create, write and unlink clears it. A
`specification` given in the query string reaches `dict()` as text and is answered with
500.

## Not modelled

- Introspection, reports and OpenAPI documents: reads and renderings
  without state between two steps. The repository's JavaScript is the boot script
  of the documentation page and the settings of linters; the program is Python. Binary content beyond its transaction: streams and
  headers.
- Plain values: dates, floats, binary fields and labels as texts.
- Of the ORM routes `read_group`, `unlink` and `call` beyond their transaction,
  missing records, and the parsing of ids and domains. Of access rights: rules that let a caller write or
  create what it may not read, and rights to the models of relations, which are as if granted.
- Passwords, hashes, signatures, claims and tokens as texts: a credential matches or it
  does not.
- Parsing of parameters, language, traceback disclosure, CORS.
- The purge, redaction and size cap of log rows.
- Several API keys with one prefix: `_authenticate` verifies each candidate's hash.
- Several issuers under one name, two administrators at once, several databases in a process.
- Faults of Odoo itself: a worker that dies after a commit and before its signal.

## Plan

Built, in this order: `OAuth2Tokens` with its ledger and proofs, `RestRequest`,
`Authentication`, `ApiKey`, `AccessProfile`; then the caches, `OrmRoutes` with
`Serializer`, and the proofs of each.

What could follow:

1. A statement of what a rule should decide for a custom endpoint, which is described
   once by the dispatcher and once by itself (`ssi_rest_endpoint.py:183`), if the team
   settles on one.
2. Liveness of the OAuth server under the fairness of `RestRequest`.
3. `read_group`, `unlink` and missing records in `OrmRoutes`.
4. An abstract specification of a cached list that is current or marked stale, which
   `SchemeCache` and `JwksCache` could both be shown to implement.
