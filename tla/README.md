# Verification of nexa-solver-integration

TLA+ models of the parts of this repository that keep state across steps,
interleave with others or can fail half-way, with the TLC runs that check them
and the TLAPS proofs about them. Paths below are relative to the repository.

    tlc  -workers 2 -config AccessJwks_safety.cfg MCAccessJwks.tla
    tlapm AccessJwks_proofs.tla

`PROJECT.json` lists every run, the definitions with the source lines they
model, the hazards with the properties that guard them, the findings, and for
each checked property a mutation of the model that it catches.

## 1. The system

The repository is the public side of the Nexa V6 solver integration: an edge
worker in front of a private origin, a documentation site with a ticket desk,
indexers of the on-chain registry, an analytics pipeline on Dune, a read-only
discovery contract, six client SDKs and the scripts that publish all of it. The
routers, registries and the solver API server themselves are elsewhere.

| part | state it keeps | operations | who it talks to |
| --- | --- | --- | --- |
| Edge worker, application login (`src/worker.mjs:330-479`) | `accessJwksByIssuer`, a promise per issuer | verify an Access assertion, refetch on an unknown key id | Access issuer, every concurrent request of the isolate |
| Edge worker, routing (`src/worker.mjs`, `src/public-endpoints.mjs`) | none between requests; telemetry detached with `waitUntil` | static and stable discovery documents, CORS, origin proxy, application shell | origin, assets, telemetry sink |
| Ticket desk (`docs-ticket-worker`, `docs-site/.../contact.*.js`) | the form's widget and button; the limiter's counters | submit, rate limit, trap, redeem a token, mail | Turnstile, limiter, mail binding |
| Dune synchronization (`scripts/sync-dune-v6.mjs`) | saved queries and one materialized view on Dune; four kinds of local files | `--audit`, `--apply`, `--activate-bnb` | Dune's API, its decoder and hourly cron, people who edit queries |
| Dune queries (`analytics/dune/sql`) | none | current tables and histories derived from one event view | the view |
| Subgraph (`indexing/graph/src/mapping.ts`) | entities per network, asset, route | one handler per event | The Graph's store and its block reorganisations |
| Substreams (`indexing/substreams/src/lib.rs`) | five key-value stores | decode a log, map a block, update stores | the Substreams engine |
| Discovery facade (`contracts/NexaSolverDiscoveryV6.sol`) | none (immutable addresses) | `isLive`, `systemState`, `route` | registry, router, module registry |
| Feed verification (`src/feed-verification.mjs`, six SDKs) | none | canonical JSON, hash, signature, freshness | the feed's signer |
| SDK permit requests (six SDKs) | none | normalize, encode, request, build, submit, status | the solver API |
| Release scripts and workflows (`scripts`, `.github/workflows`) | about thirty documents that repeat each other's facts, their digests, published packages | generate, validate, verify on chain, checksum, publish, submit | the people who edit documents, the chains, registries, IndexNow |

How they interact: the edge worker serves the documents the SDKs discover from
and proxies their calls; the facade, the subgraph, the Substreams stores and
Dune all show the same registry events, each through a fold of its own; the
synchronization script writes the SQL and the manifest its tests read; the
form and its worker share only an HTTP exchange that either side can lose.

### What is hard, and what makes each part correct

* **Application login.** One promise is shared by requests that arrive while it
  is pending, after it resolved and after it went stale; a forced refresh races
  with the failure of an older fetch. Correct when failures are never cached,
  withdrawn keys stop working within the TTL, rotation refuses nobody, and the
  issuer sees one fetch per TTL.
* **Ticket desk.** Four services that can each fail after having acted; answers
  that are lost; submissions that arrive twice. Correct when one token buys one
  mail, the trap costs nothing, a retry carries a fresh token, the page says
  "sent" only of mailed tickets, and the limiter bounds the mail.
* **Dune synchronization.** About twenty awaits between the first read and the
  last write, nothing is rolled back, and the remote side moves meanwhile.
  Correct when activation fails closed, audits only read, a completed run leaves
  everything in agreement, and a final manifest was earned.
* **Indexing.** Registration and status events of one entity in any order and
  number, handlers that update only what exists, two stores per entity, replays
  of blocks. Correct when every projection shows what the registry shows.
* **Routing.** The tables of the worker and of the public catalogue are written
  separately; identities are computed by two functions that must agree; the
  origin trusts headers a client could send; time passes between judging an
  assertion and forwarding it. Correct when every published request is served,
  the origin hears only the edge's word, and an identity carries the moment it
  was found to hold.
* **Discovery facade.** A deployment is live only if all it depends on agrees.
* **Feed verification.** Six implementations of one contract: the same feed
  must be trusted, or refused, by all, and what is returned must be what was
  signed.
* **Release scripts.** A fact of a release is stated in up to a dozen documents,
  some edited by hand, some generated from others, some of those from generated
  files; a generator can be stopped between two files; validation runs before
  the last generator of `release:check`. Correct when what is validated agrees,
  is what the generators would write, stays so, and states what the chains do.

## 2. Plan

Modules, most important behaviour first. All of them are described below.

| order | module | models | abstract specification or composition | status |
| --- | --- | --- | --- | --- |
| 1 | `AccessJwks` | key-set cache of the login | - | proved |
| 2 | `DuneSync` | synchronization script, Dune, files | - | proved |
| 3 | `DocsTicket` | form, ticket worker, services | - | proved |
| 4 | `FeedTrust` | `discover`, `verifyFeed` and `getRoutes` of the six SDKs and the reference verifier, the publisher and time | the implementations compared with each other and with the contract's errors | proved |
| 5 | `RegistryLog` | the events of the registry, router and module registry on each chain, reorganizations | what the indexes read | used by 6-9 |
| 6 | `GraphMapping` | `mapping.ts`, handlers over entities | operators of 9 | proved |
| 7 | `SubstreamsStores` | `lib.rs`, decoder and stores | operators of 9 | proved |
| 8 | `DuneQueries` | current-state queries over the decoded tables | operators of 9 | proved |
| 9 | `Indexing` | the three indexes following their chains | composes 5-8; refines `IndexFollower`, what an index promises its readers | proved |
| 10 | `ReleasePipeline` | maintainers, generators, checks, the chains | composes `ReleaseDocuments`, `ReleaseGenerators`, `ReleaseChecks` | proved |
| 11 | `EdgeRouting` | `handleRequest`, header hygiene, detached telemetry | its login step is `AccessJwks` | proved |

Every safety property of the runs is also a theorem (section 4). What stays with
TLC is listed at the end of that section, what is left out in section 5.

Parameters are CONSTANTS with named assumptions, and no module under proof uses
a recursive operator.

## 3. Modules

### AccessJwks

| TLA+ | code |
| --- | --- |
| `cache`, `fstart` | the entry of `accessJwksByIssuer`: the promise (named by the request that started it and whether it was forced) and `expiresAtMs - TTL` |
| `fstate`, `fkeys` | the promise: in flight, answered by the issuer but not yet read, resolved, rejected; the key ids in the answer |
| `pc`, `awaits` | where a call of `verifiedAccessEmailFromAssertion` is suspended, and on which promise |
| `kid`, `genuine` | the assertion: its key id; whether all its claims and its signature hold |
| `published`, `retiredAt`, `publishedAt`, `startedAt`, `steady` | the issuer, and history variables for the properties |
| `AskKeys`, `ForceRefresh` | `accessJwks(issuer, options)` and `accessJwks(issuer, options, true)` up to the await |
| `FetchServe`, `FetchResolve`, `FetchReject` | the subrequest; `FetchReject` includes the owner's catch block, which runs before any other request sees the rejection because the owner was the first to await the promise |
| `KeyFound`, `Deny`, `Verify` | the continuations |

A step is what runs between two awaits. The answer of the issuer is fixed at
`FetchServe` and read at `FetchResolve`, any time later: that gap is what makes
a cached key set older than its entry looks.

Abstracted: one issuer (it is a constant of a deployment); non-RSA and malformed
keys are keys that are not in the set; the e-mail itself.

Runs. `AccessJwks_safety` (two requests, two key ids, TTL 2, clock to 4, two
key changes, with symmetry; 2.9 million states): two requests are enough for an
entry started by one, joined by the other and replaced under it, since a fetch
is started by at most one request and a request starts at most two; a clock of
twice the TTL lets an entry expire and its replacement, too. `AccessJwks_live`
(TTL 1, one key change): every request that asked is answered.

Fairness: `Settle` for every fetch - the platform ends a subrequest, the code
has no timeout - and `Continue` for every request, the event loop. The clock,
the issuer and the arrival of requests are not fair.

### DuneSync

| TLA+ | code |
| --- | --- |
| `data`, `foreign` | the decoded tables of a network: missing, below `ACTIVATION_BASELINES`, full; rows of another contract address |
| `canonical`, `mv` | the saved canonical query, as the set of networks it reads or a hand-edited text; the rows of each network in the materialized view |
| `local` | `dune-manifest.json` (status, active networks, `remoteMutations`), `source-bindings.json`, `DASHBOARD_HANDOFF.md`, `sql/*.sql` |
| `pc` | the position in `main()`; one value per stretch that ends in an await that matters |
| `wasFinal`, `bnbReady`, `active`, `mutations` | `finalAlreadyActive`, `bnbDatasetsReady`, `networkStates`, `remoteMutations` |
| `Begin` ... `WriteHandoff` | `main()` from its first read to its last write |
| `Throw` | any other check, API error, timeout or kill; `main().catch` |
| `Redecode`, `Collide`, `CronRefresh`, `HandEdit` | Dune and its users |

Abstracted: the texts of the queries; `base` and `hyperevm` are the members of
`ActiveSlugs`; the nine derived executions are two steps, the overview, which a
short history may satisfy, and the eight whose minimums it may not; drift of a
derived query or of the view's configuration ends a run like drift of the
canonical query or like `Throw`. One maintainer runs the script at a time.

Runs. `DuneSync_edits` (one active network and BNB, four changes of the tables,
two hand edits; 1.5 million states) for the properties that survive hand edits:
two edits are needed to put a text back after it was changed. `DuneSync_alone`
(three networks, five changes, no hand edits; 100 thousand states) for what
the script can reach by itself: completing two active networks and BNB takes
three of the changes, two remain for losing a table and filling it again.

`DuneSync_failed_activation` shows where the code and what the repository says of
it disagree: the SQL files are written before the validation, so an activation
that fails afterwards leaves the 27-table SQL beside a manifest that is not
final, which `test/dune-analytics.test.mjs:165` refuses.

Met while modelling and not given a run: `--apply` on a final manifest, at a
moment when BNB's tables are short, narrows the saved query, the view and the
SQL file, then fails; the manifest stays final,
`test/dune-analytics.test.mjs:162` fails, and by `DisagreementNeedsHand` no
later run of the script repairs it. A successful `--apply` that changed nothing
rewrites a final manifest with an empty `remoteMutations`, which
`test/dune-analytics.test.mjs:112-115` refuses; and `--apply` does not update a
changed saved query, as `analytics/dune/README.md:36` has it, but gives up.

### DocsTicket

| TLA+ | code |
| --- | --- |
| `widget`, `trying`, `last`, `status` | `cf-turnstile-response`, the pending `fetch` of the form, the submission its message is about, the message |
| `pc`, `verdict`, `reply` | one delivery of a submission in `handleRequest`: before the limiter, admitted, waiting for siteverify, waiting for the mail binding, answered |
| `origin`, `sender`, `token`, `good`, `trap` | the payload: which submission it is a delivery of, the address, the token, whether `normalizeTicket` accepts it, whether `company` is filled |
| `issued`, `spent`, `mailed`, `hits`, `bound` | the anti-bot service, the mail binding, the limiter, and which bindings the deployment has |
| `Submit`, `ReadAnswer`, `LoseAnswer`, `Prompt` | the submit listener of the form |
| `Admit` ... `FailMail` | `handleRequest`, `verifyTurnstile`, `sendTicket` |
| `Redeliver`, `NextWindow`, `Solve`, `Siteverify`, `Deliver` | the transport and the services |

The anti-bot service and the mail binding act in one step and answer in
another, and the answer may be lost in between; a submission may be delivered
twice. The checks before the limiter (path, method, origin, content type) always
pass for a submission of the form and are left out. Two tickets never get the
same random reference. The limiter is exact, with fixed windows.

Runs. `DocsTicket_safety` (two pages, three deliveries, two tokens, a limit of
one, two windows, all eight deployments with and without their bindings, with
symmetry): three deliveries let one submission be delivered twice and retried.
`DocsTicket_live` (one page, two deliveries): every submission ends.
The page says "The ticket could not be sent" (`contact.8ac5ae43aae9.js:63`) after a
lost answer, too, when the ticket was mailed: `SentMeansMailed` has no converse.

Fairness: the worker's steps for each delivery, in which the services answer or
fail, and the page reading an answer that was sent. Losing an answer, solving
the widget, submitting and the limiter's clock are not fair.

### FeedTrust

| TLA+ | code |
| --- | --- |
| `client` | the SDK, its `expectedFeedSigner`, and how far its clock is off |
| `key`, `announced`, `feed` | the publisher: its signing key, `feedSigner` of the discovery document, the served feed |
| `pc`, `query`, `disco`, `held` | a call of `getRoutes`: before and after `discover()`, before and after the feed's body, with the query, the signer read and the body |
| `code`, `routes` | the error of the call, or OK and its routes |
| `named`, `waited` | history: signers announced since the call began; ticks it took |
| `TypeScriptVerify` ... `ReferenceVerify` | `verifyFeed` of each SDK as `getRoutes` uses it, and `verifyV6RouteFeed` |
| `TypeScriptRoutes` ... `ReferenceRoutes` | which of the body's routes each returns |
| `Call`, `Discover`, `ReadFeed`, `Verify`, `Fail` | the stretches of `getRoutes` between its awaits |
| `Publish`, `Rotate`, `Announce`, `Tick`, `ReadAltered` | the publisher, the clock, and a body that is not what was signed |

A route stands for its source chain, so a query is a chain. Hash and signature
are abstracted to who signed a body and whether it is what was signed. Ages count
ticks since `generatedAt` and stop at `Ancient`, where every clock calls a feed
expired; time itself is unbounded. The filtered top-level view is the filter of
the payload's routes (`openapi/openapi.json:1050`): how the server computes it is
not in the repository. A pin of the empty string is left out (Go and Python take
it for no pin, the others refuse every feed).

Runs. `FeedTrust_safety` (two signers, two chains, validity 2, skews -1 to 1, one
key change, one fault, all seven implementations; 3.3 million states): one key
change is enough for a feed, a discovery document and a call that each know
another moment of it, and a call may take three ticks, longer than a feed is
valid. `FeedTrust_live` (validity 3): a feed is republished within a tick and a call
takes at most one, so a body that was current when served is still valid when it
is judged; with slower publishers or requests no client could promise routes.

Where an implementation differs from the others or from the contract, the
property names the exception, so that any other difference is a violation.
`AnswerFollowsQuery`: Go, the JVM, .NET and the reference verifier send the query but
return the unfiltered payload, and Python returns every signed route when none
matches, since an empty view is taken for an absent one. `SignerOfTheCall`: a pin
that does not parse is replaced, in Go, by the signer the feed declares, so it
accepts any signer. `ErrorNamesCause`: a feed generated ahead of the client's clock
is refused as wrongly signed by every SDK (the contract's table has the window's
error for it), Rust's `getRoutes` has that one error for every refusal, and Go
looks at the window before the hash.

Fairness: `Publish` and `Announce`, since the publisher is in operation, and the
steps of a call, since its requests end. Time, key changes and faults are not
fair.

### RegistryLog, GraphMapping, SubstreamsStores, DuneQueries, Indexing

| TLA+ | code |
| --- | --- |
| `log`, `emits`, `forks` | the event log of each chain, external; an entry carries the state of the contracts after it, for the properties only |
| `Register` ... `Imitate`, `Reorganize` | transactions: a registration with its announcement (status 0 to 1, generation 1, as in the canonical fixtures), status, intake, module and fill events, an event of the same shape from a foreign contract; a reorganization to any depth |
| `handleNetworkRegisteredV6` ... , `touchDeployment`, `saveChange` | the handlers of `mapping.ts`, which update only entities they can load and write a change row regardless |
| `decode_log`, `store_networks` ..., `runStores` | the decoder, which sees every log of a block, and the stores, which write and never read |
| `canonical`, `current`, `routerState`, `registered` ... | `canonical-events.sql` with its deduplication, the current-state queries, the counts of `overview.sql` |
| `seen`, `graph`, `stores`, `table` | how far an index has come on its fork; its store after each entry; Dune's decoded rows |
| `Follow`, `Rewind`, `DecodeTwice` | the engines: the next entry, one entry taken back, a row decoded twice |

The three indexes share nothing but the chains. Each is shown to implement
`IndexFollower`, the abstract specification of an index: it takes the states of
its chain in order, falls back one at a time when the fork it is on is
abandoned, and shows no state the contracts never had. The refinement
(`ViewsFollowTheChain`) maps the chain to the sequence of contract states
along its log, an index's progress to those along what it has taken, and its
answer to what a reader gets from its store: the entity, the status record or
else the identity record, the joined rows. The stores could not be more
different (one keeps an entity and its changes, one may never read, one
recomputes everything from unordered rows), so the promise is one specification
and not three.

Abstracted: hashes, addresses and metadata are one value per event; the engines
work entry by entry where they work block by block, so a reader sees more
moments than in reality; the two lists of past events and the formatting columns of the
queries. An event of a foreign contract is the reason for the decoder's address
check. Two events of one key at one position cannot occur, so ties of
`row_number()` are left out.

Run. `indexing`: three transactions of any kind (a registration is two events),
one reorganization at any depth, one row decoded twice, one key of each kind,
two chains for Dune; 240,591 states. A behaviour has one kind of index in
service (`OneAtATime`), since they do not interact; all kinds of behaviour are
in the one run. Three transactions register a key, change it twice or once on
each side of a fork, or interleave two keys; a second key of a kind adds
nothing, as every handler touches only the key of its event. `ChangesAreTheLog`,
`ProvenanceIsTheEvent` and `CountsAreTheContracts` relate what the value does
not show: change rows, the positions named as provenance, and counts.

Fairness: every engine takes another step while there is one to take. The
chains owe nothing; they stop by themselves because transactions are bounded,
so `EveryIndexCatchesUp` says that an index ends up showing the last state of
its chain however the forks went.

### ReleaseDocuments, ReleaseGenerators, ReleaseChecks, ReleasePipeline

| TLA+ | code |
| --- | --- |
| `Authored`, `Facts` | the documents people edit, constants of scripts included, and the facts each states |
| `buildAbiBundle` ... `substreamsManifest`, `Built` | the builders: for each generated document and fact, the document the fact is copied from |
| `Outputs`, `CHECKSUM_FILES` | what each generator writes and in which order; what is digested |
| `releaseIdentity` ... `validateRebuilds`, `verifyOnboarding`, `verifyOnchain` | the comparisons and rebuilds of the four checks, as pairs of a fact and two documents |
| `files`, `digests`, `chain` | what each document says of the fact of this release, whether the digests are current, what the contracts answer |
| `job`, `plan`, `passed`, `rounds` | the running generator with what it read and has yet to write, the commands to come, and history for the properties |
| `Edit`, `ChainMoves`, `Generate`, `Write`, `Kill`, `Check` | people, the chain, the commands |
| `ReadmeBlock`, `ReleaseCheck` | `README.md`, "Release verification"; `release:check` of `package.json` |

A generator copies each fact from one document, so facts do not mix, and a
behaviour follows one fact through all documents that state it: a release
changes it from "old" to "new" where people write it, at any moment and in any
order, and the generators carry it on. A generator writes all its files, those
that state nothing of the fact unchanged; one with no file that states it is
passed over, since nothing it does matters. The generators are stopped between two
writes; a check is one step, since it only reads; commands run one after
another. The files of the three networks are one document each.

Run. `release`: every fact of the tables (`EveryFact`), edits at any moment,
generators alone, the README's block and the release check; 2,000,298
states. An edit changes a document once: what matters is which documents have
changed, and all subsets occur. `MaxRounds` is two because that is what the
fixpoint needs, which is what `RoundsSettle` says: the README's order settles in
one round but for the event catalogue, which the indexing generator writes
after the on-chain discovery was built from it, and for the SDK vectors and the
release identifier in them, written after the standard vectors were.

`Uncompared` and `Unverified` name the statements no check reaches, and
`ValidatedDocumentsAgree` and `ReleasedDocumentsStateTheChain` hold for all
others: they are the part of the documents a reviewer of a release has to read.

### EdgeRouting

| TLA+ | code |
| --- | --- |
| `env` | the bindings: secret, assets, origin (missing, malformed, one of the edge's own hosts, or right) |
| `request`, `now`, `email`, `sent`, `answer` | the request being handled, its `nowSeconds`, the login's result, the headers forwarded that others trust, the response |
| `work`, `log` | events handed to `waitUntil`, and logged |
| `NotFound` ... `proxyOriginRequest` | the branches of `handleRequest` up to the answer or the first await |
| `trustedAccessEmail`, `VerifyAssertion`, `Forward`, `OriginAnswers`, `AssetsAnswer`, `Log` | the continuations, with the clock passing in between |
| `Documents`, `allowedMethodsForPath`, `isDynamicApiPath` | `public-endpoints.mjs` |
| `PUBLIC_ROUTES`, `EDGE_STATIC_DISCOVERY`, `EDGE_STABLE_DISCOVERY` | the tables of `worker.mjs` |

Requests share nothing but the key-set cache, which is `AccessJwks`;
`VerifyAssertion` is that module's call seen from outside, so one request is
handled at a time, while the events of earlier ones may still be unlogged. The
execution context is always present, as in production. A path is named after what it
serves, a solver stands for an address and a user agent.

Run. `edge`: two requests, so that the event of one can meet the headers of
the other, over every host, path, method, login and combination of bindings, a
day of two ticks and a clock to three, so that the two can be on one day or on
two; 676,440 states.

## 4. Proofs

Every theorem holds for all values of the constants that satisfy the module's
assumptions: for any number of requests, networks, pages or deliveries, and any
bound. Each is `Spec => []Inv` or `Spec => [][A]_vars` and follows from an
inductive invariant `IInv`. Each conjunct of `IInv` has its own lemma where that keeps
the leaves small.

`AccessJwks_proofs` (assumes `TTL` positive, the absent fetch no fetch). The
invariant adds what the safety properties leave out: which promise a request at
each step can be waiting on (`Waiting`), that times do not exceed the clock
(`Times`), who used which fetch (`FetchUse`), how an answer can differ from what
is published now (`Answers`), that a key that stayed published is in every
answer written since (`Steady`), and that while a fetch is younger than a TTL
the entry is no older (`EntryYoung`). All properties of the safety run are
proved, and one no run repeats: a key that is known costs no refetch
(`KnownKeysCostNoRefetch`).

`DuneSync_proofs` (assumes an active network and that BNB is none). The
invariant follows a run through `main()`: the history variables have noticed
the present (`Noticed`), past the gates the verdict is what the mode asks for
(`Gated`), `wasFinal` describes the manifest until it is rewritten (`Started`),
without a hand edit the saved query is what the run believes (`Believed`), and
the files written so far are what the run wants (`Progress`). For `MaxEdits = 0`
a second invariant gives the three properties of the run without hand edits.
All properties of both passing runs are proved, and three no run repeats: the
type invariant, that audits only read (`AuditsAreReadOnly`) and that the manifest's
status is one of two (`ManifestStatusIsKnown`).

`DocsTicket_proofs` (assumes finitely many deliveries). A delivery carries its
payload from its arrival on (`Payloads`), its progress follows from payload and
verdict (`Stages`), every spent token was redeemed by one delivery (`Redeemed`),
a token a form may still submit is in no delivery (`Fresh`), a page that says
"sent" has a mailed or trapped delivery (`Honest`), and the deliveries that use
up an address's budget are at most its admissions (`Counted`, by the cardinality
lemmas). All safety properties of the run are proved, and that a submission in the
trap costs neither a token nor a mail (`TrapsCostNothing`).

`FeedTrust_proofs` (assumes clocks within `MaxSkew` and that the reference
verifier has no pin). `InHand` says what a call under way has in hand: the
signer discovery named was announced during the call, there is no outcome yet,
and a body that is whole carries the routes that were signed, its view being a
part of them. `AcceptanceMeans` and `RefusalMeans` reduce the seven
implementations to one statement each, from which the properties of the safety
run follow.

`Indexing_proofs` (assumes that keys of different kinds differ). A log is a
history, each entry leading from the contracts' state before it to the one
after it (`LogsAreHistories`); what an index has taken is a history of its fork
(`Trails`), since a reorganization keeps a prefix; and the store after each of
those entries shows the state there (`GraphShows`, `StoresShow`), by one lemma
per view: a handler turns a store that shows the state before an entry into one
that shows the state after it (`GraphStep`, `StoresStep`). The last needs that
a status record is never mistaken for a missing one (`StatusRecords`). A second
part of the same step says what else a store holds: one change row per change
event, and for each entity, record and deployment the position of the event it
comes from (`GraphRecords`, `StoreRecords`). Three theorems follow: the state
part of the refinement for these two kinds of index (`StoresShowTheContracts`),
`ChangesAreTheLog` and `ProvenanceIsTheEvent`.

`IndexingViews_proofs` (the same assumptions) is about the Dune queries and the
refinement. The queries keep nothing and compute from the rows of all chains at
once, so no step of an index turns one answer into the next; two facts take
the place of that step. The rows of a chain, one copy of each, are the entries
its index has taken, whatever was decoded twice (`TableShows`,
`CanonicalRows`). And what a history says of a key is its latest event, after a
registration for an item (`HistoryTells`): a statement about histories of any
length, argued by the shortest prefix that would refute it, since the rule of
induction cannot be instantiated here but the least element of a set of naturals
can (`Smallest`). `OverviewCounts` states `CountsAreTheContracts`, and
`IndexesAreFollowers` the whole refinement, `ViewsFollowTheChain`: a step of
`Follow` is `Advance`, a rewind `FallBack`, a transaction a longer chain of
states, and everything else a stutter, of all three kinds of index.

`ReleasePipeline_proofs` (assumes only that subjects are facts). While a pass of
`validate.mjs` stands, the rebuilt documents are current, the digests are, and no digesting
under way has missed an edit (`Standing`); what a generator has yet to write is
then what is there (`Idempotent`). That every generated document but the SDK
vectors is rebuilt by one of the two validations is `EverythingIsRebuilt`. Of
the tables, three facts carry the rest. Every fact of a generated document is
copied from a hand-written one that states it, but for a few pairs read from a
generated file (`Copies`, one lemma per builder, and `Origins`), so that no
chain of rebuilt documents is longer than two and a current document says what
its root says (`Rooted`). The comparisons connect every root to one document
per fact (`Hub`), but for the roots in `Uncompared` (`RootsConnect`, a case per
hand-written document). And the hub of a fact the contracts answer is held
against them (`HubIsTheChains`), for the discovery URI by way of the stored
fingerprint. What a check found stays true while its pass stands (`Answers`,
`StandsByTheStep`), which gives `ValidatedDocumentsAgree` and
`ReleasedDocumentsStateTheChain`.

`RoundsSettle`, the last of its theorems, needs the position in the README's
block as an invariant. What is left of a round is a suffix of the block
(`FollowsReadme`), a generator has run once no more than `Due` of them are left,
and the running job is the rest of what its generator writes (`Working`). `Progress`
then says, once a round has been clean and the hand-written documents agree
(`Settling`): what a command read is right, the documents of the commands behind
it in this round are right, those of a finished round stay right, and so do the
digests. Two documents read something generated later in the block and are owed
to the next round (`Lagging`, `Owed`), which is why the facts they repeat take
two. At the end every document is right and the digests are current, and every
comparison is between documents that state the fact (`ComparedState`), so that
`validate.mjs` passes (`RightPasses`).

`EdgeRouting_proofs` (assumes a positive day). A request is handled at a moment
that has come (`Moments`), an assertion was judged at that moment and by the
order of the sources (`Named`), what the origin got is the edge's own word of
that moment (`Words`), events carry their own day (`Events`), and requests under
way to an answer are published ones (`Catalogued`). All properties of the run
are proved.

Only model-checked: the liveness properties `EveryRequestAnswered`,
`EverySubmissionEnds`, `KeepsGettingRoutes` and `EveryIndexCatchesUp`, since
fairness and ENABLED are out of the prover's reach; and the violation, which needs
no proof. Out of the prover's reach is induction over data by its theorems, and
so what a recursive definition, such as canonical JSON, computes for every
input; such definitions are abstracted here.

## 5. Not modelled

* Parsing and formatting of JWTs, JSON, SQL and mail, and cryptography, which is
  a Boolean or a name.
* The discovery facade: view functions over the state of one block and
  immutable addresses. There is no storage and no interleaving, what they
  return is a conjunction of answers of contracts elsewhere, and a model would
  repeat it.
* SDK permit requests and execution: the clients keep nothing between calls and
  retry nothing; an operation is a pure normalization around one request.
  Idempotency keys and the life of a permit are the server's, which is not in
  the repository.
* Of the scripts: the generator and the validator of the documentation site,
  the checks of SDK packages and contracts, the packing scripts and the IndexNow
  submission (a loop that stops at its first failure and remembers nothing),
  which change none of the documents the release repeats; and the workflows,
  which call the modelled scripts. `scripts/generated` is a build product.
* The checks of one document's own form in `validate.mjs` and its siblings, and
  its scans of the sources.
* Of the queries: `recent-activity.sql`, `route-status-history.sql` and the
  fields of `source-fills.sql`, which list canonical rows as they are.
* Two behaviours no property covers. The key-set fetch has no timeout
  (`src/worker.mjs:352`): while it hangs, requests that join it wait; the fairness of
  `AccessJwks` assumes the platform ends it. And `form.reset()` erases what was
  typed while a submission was on its way (`contact.8ac5ae43aae9.js:58`): the
  fields stay usable, and the model has no field contents.
* Prose, fixtures and examples, which were read as statements of what the code
  promises.

`PROJECT.json` gives the state of each component.
