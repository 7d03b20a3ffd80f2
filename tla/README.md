# Entra Local in TLA+

Entra Local (`src/src`) is a local emulator of Microsoft Entra ID: one Fastify process over
one SQLite file, serving the OpenID Connect / OAuth 2.0 endpoints MSAL talks to, an admin API,
a small Microsoft Graph surface and an admin portal, a React application in the browser.
This directory holds TLA+ modules of the parts of it that keep state, TLC configurations that
check them on small instances, and proofs of the properties of the modules at the core.

Contents: 1 the system · 2 plan · 3 the modules · 4 what the runs show · 5 bounds ·
6 fairness · 7 what is proved · 8 where code and documents disagree · 9 what is left out.

## 1. The system

### How it executes

Every handler is JavaScript on one event loop over a synchronous SQLite driver
(`store/db.ts`, `node:sqlite` or `better-sqlite3`). Between two `await`s a handler is
therefore atomic with respect to every other request of the process, and a statement or a
`transaction()` is atomic with respect to a crash and to other processes on the same file.
What interleaves is:

- the awaits of `buildTokenResponse` (signing the access token, signing the ID token), of
  `ensureActiveKey` (generating a key) and of `getVerificationKey` (importing a key);
- requests of the same user, device or browser in any order, repeated, or with an answer
  that never arrived;
- pages: the sign-in and approval pages carry a signed state and may be posted at any later
  time, from any tab, by whoever is signed in by then;
- administration (deletes, disabling, redirect URIs, seed, reset) between any two requests;
- a crash or restart, which loses what is in memory and keeps the database;
- a second server process on the same file, which bootstraps before it finds the port taken;
- servers and commands that share the directory of the certificate, and commands and other
  programs that share the hosts file, without any lock;
- a browser tab: renderings, the answers to requests that overlap, time-outs of the search
  box and what the user clicks, each of which reads what is on the screen by then.

### Components

| Component | State it keeps | Operations | Correct when |
|---|---|---|---|
| Refresh-token rotation: `tokens/refresh.ts`, `store/repositories/refreshTokens.ts` | `refresh_tokens`: hash, app, user, scopes, expiry, `rotated_from`, `revoked` | issue, rotateAndIssue, revokeFamily | one redeemable token per sign-in; replay ends exactly that chain; grants only narrow |
| Token endpoint: `identity/token.ts`, `tokens/response.ts`, `identity/clientAuth.ts` | suspended requests | three user grants and client_credentials; buildTokenResponse | nothing is inserted for a user or app that has gone; an answer matches its grant |
| Device grant: `identity/deviceCode.ts`, `identity/deviceApproval.ts`, `store/repositories/deviceCodes.ts` | `device_codes` (pending, approved, denied) | devicecode, lookup, signin, decide, poll | one decision, one redemption, for the user who consented; polling ends |
| Code grant: `identity/authorize.ts`, `tokens/authCode.ts`, `store/repositories/authCodes.ts`, `identity/authState.ts` | `authorization_codes`, signing key of pages (per process) | GET and POST authorize, redeem | a code follows a sign-in, goes to a registered URI, and is worth tokens once |
| Sessions and sign-out: `identity/logout.ts`, `store/repositories/sessions.ts` | `sessions`, the browser's `el_session` cookie | create, resolve, delete | only live sessions of enabled users count |
| Signing keys: `tokens/keys.ts`, `tokens/jwks.ts`, `tokens/mint.ts`, `store/repositories/signingKeys.ts` | `signing_keys`, the imported-key caches | ensureActiveKey, getActiveSigner, getVerificationKey, jwks | one active key; what was signed stays verifiable |
| Access-token validation: `tokens/validate.ts`, `identity/bearer.ts`, `identity/userinfo.ts` | none but the key cache | validateAccessToken, requireScope | accepts what mint made for this audience, and nothing expired |
| Directory and admin API: `admin/routes.*.ts`, `store/repositories/{users,groups,apps}.ts` | `users`, `groups`, `group_members`, `app_registrations` and the parts of apps | create, patch, delete | no dangling reference; unique columns unique; a refused request changes nothing |
| Schema and transactions: `store/migrations`, `store/db.ts` | the database file | migrations, `transaction()` | constraints and cascades as the repositories expect |
| Seed, reset, boot: `store/seed.ts`, `store/reset.ts`, `store/plugin.ts`, `admin/routes.system.ts` | none of their own | seed, forced seed, reset (reseed, resetKeys), start | the seeded directory is restored; seeding only adds |
| Token contents: `tokens/claims.ts`, `tokens/tokenConfig.ts`, `identity/scopes.ts`, `identity/clientCredentials.ts` | none | resolve audience and resource, scopes, roles, group claims | the claims of a token follow from directory and grant |
| TLS certificate: `tls/cert.ts` | `cert.pem`, `key.pem` | reuse or regenerate at boot | the two files match and cover the configured hosts |
| Hosts file: `cli/hosts.ts` | a block in the system's hosts file | apply, remove | idempotent; foreign lines untouched |
| Graph endpoints: `graph/handlers.ts` | none: a nextLink is an offset | `/me`, collections by pages | a walk misses or repeats a row only for a write before it |
| Host routing: `http/hostRouting.ts`, `http/pathmap.ts`, `http/tenant.ts`, `http/spaFallback.ts`, `identity/metadata.ts` | none | rewrite, guard, route; advertise URLs | what is advertised is answered; surfaces stay on their hosts |
| Configuration: `config/*.ts` | fixed at start | derive origins and names | the surfaces can be told apart, or are one |
| Portal, lists: `usePagedList.ts`, `Users.tsx`, `Groups.tsx`, `Apps.tsx` | search, offset, page, dialog, drawer, requests in flight | search, page, delete, create, edit | the list is the answer to its own query and shows the tab's own writes |
| Portal, app page: `AppDetail.tsx`, `useAsync.ts`, `SecretOnceDialog.tsx` | the loaded app, forms, lists, secret, generator, requests in flight | edit, save, add, remove, toggle, generate, delete | own changes shown; a save undoes nothing unseen; buttons come back |
| Sign-in pages, server assembly, trust command, samples | none that is authoritative | rendering, wiring, wrappers of system tools | not a matter of state |

### How the components interact

The token endpoint is where they meet. A grant (a code, an approved device code, a refresh
token) is spent in its own table first, synchronously; then the user is looked up; then
`buildTokenResponse` reads the active key, awaits a signature, reads it again for the ID
token, awaits that, and issues a first refresh token (or embeds the successor the rotation
had already made). Administration and reset act on the same tables meanwhile: foreign keys
make `authorization_codes` and `refresh_tokens` hold on to their user and app,
`device_codes` to its app, while `sessions`, `group_members` and the parts of an app are
deleted with what they belong to. A reset empties the tables, on request the keys, but
neither the caches nor the requests in flight nor the pages in browsers.

The hosts command, the router and the metadata meet in the configuration: all three derive
hostnames from the same origins, and only together do they make a URL that the server hands
out reach its handler. The portal is a client of the admin API like any other; what it shows
is a copy, and everything hard about it is when that copy is replaced.

`PROJECT.json` lists, under `hazards`, each place where this is hard to test, with the
properties below that are aimed at it.

## 2. Plan

Written, checked and, where section 7 says so, proved, in this order: `RotationChain`,
`RefreshTokens`; `DeviceAuthorization`, `DeviceGrant`; `SigningKeys`; `AuthorizationCode`,
`AuthCodeGrant`; `Directory`; `TlsCertificate`; `TokenContents`; `Listing` with its readers
`GraphPaging` and `PortalList`, composed in `Listings`; `AppPage`; `HostsFile` and
`HostRouting`, composed in `LocalDomains`.

A module that describes one component is written so that it can be composed: `Listing` and
`HostsFile` leave the rest of the state to whoever extends them, and the pure parts
(`HostRouting`, the operators of `TokenContents` and `HostsFile`) are checked inside the run of
the component that uses them, over every input that run can reach, rather than in runs of
their own.

What remains, most important first: `DeviceGrant` and `AuthCodeGrant` composed with
`RefreshTokens`, so that every chain is shown to start from a consent; client secrets over time
(`identity/clientAuth.ts`).

## 3. The modules

| Module | Models | Used by |
|---|---|---|
| `RotationChain` | what rotation promises (abstract) | `RefreshTokens` (`ImplementsRotationChain`) |
| `RefreshTokens` | the table, the rotation service, both halves of a token request | `MCRefreshTokens`, `RefreshTokensProofs` |
| `DeviceAuthorization` | what the device grant promises (abstract) | `DeviceGrant` (`ImplementsDeviceAuthorization`) |
| `DeviceGrant` | device codes, approval pages, sessions, polling | `MCDeviceGrant`, `DeviceGrantProofs` |
| `SigningKeys` | key table, bootstraps, minting, verification cache | `MCSigningKeys`, `ServerProofs` |
| `AuthorizationCode` | what the code grant promises (abstract) | `AuthCodeGrant` (`ImplementsAuthorizationCode`) |
| `AuthCodeGrant` | authorize endpoint, pages, sessions, codes, redemption | `MCAuthCodeGrant`, `AuthCodeGrantProofs` |
| `Directory` | directory, admin API, seed, reset | `MCDirectory`, `DirectoryProofs` |
| `TlsCertificate` | the two files, who loads and who replaces them | `MCTlsCertificate`, `ServerProofs` |
| `TokenContents` | what tokens say, from authorization to the APIs behind them | `MCTokenContents`, `TokenContentsProofs` |
| `Listing` | one table of the directory and everybody who writes to it | `GraphPaging`, `PortalList` |
| `GraphPaging` | a client that follows nextLinks | `Listings` |
| `PortalList` | a portal tab that lists and edits the table | `Listings` |
| `Listings` | the table with one of the two readers | `MCListings`, `ListingsProofs` |
| `AppPage` | the portal's page of one app, the API, other administrators | `MCAppPage`, `AppPageProofs` |
| `HostsFile` | the hosts file, the command, other editors | `LocalDomains`, `ServerProofs` |
| `HostRouting` | origins, routing and advertised URLs, as operators | `LocalDomains`, `ServerProofs` |
| `LocalDomains` | server, hosts file and browser together | `MCLocalDomains`, `ServerProofs` |

Conventions. Tables are functions from primary keys to rows, with a value for "no row"
(`NoRow`), or two where a key must not be drawn again (`Undrawn`, `Gone`). Variables are named
after tables. Random values (tokens, codes, session ids, key ids) are drawn from a finite set
and never twice. Requests that end in an error and change nothing are not actions; those that
fail after having changed something are. Variables marked "history" are read by properties
only. Each module also holds the mutated forms of its definitions, named after what is wrong
with them and referred to by `PROJECT.json`; nothing else refers to them.

### RefreshTokens

`refresh_tokens` is the table; `inflight` the arguments of each suspended
`buildTokenResponse`; `held` what has reached a client; `directory` the ids that foreign keys
resolve against. `RedeemRotate` is the part of the refresh grant that ends with the call of
`buildTokenResponse`: the checks of `rotateAndIssue` in their order (revoked before expired
before bound to the client before scope), the compare-and-set with the insertion of the
successor, the lookup of the user, and the decision that a narrowed grant embeds no
successor. `RedeemReplay` is the branch that revokes the family. `BeginGrant` is the end of
the other two grants; `AnswerIssued`, `AnswerRotated`, `AnswerWithout` and `AnswerFailed` are
the resumed builder. An answer may be lost (`Deliver` either adds to `held` or not).
`Family` is the walk of `revokeFamily` as the least set closed under `rotated_from` in both
directions.

### DeviceGrant

One action per step of the protocol: `Authorize` (POST devicecode), `Lookup`, `Signin`,
`Decide` (the three steps of the approval page), `DropExpired` (each of them deletes a row it
finds expired), `Poll...` (one per outcome of the grant), `Answer`. `pages` holds the signed
states the running process would verify: a restart empties it because the key is drawn per
process. `Signin` takes any page for an open user code, whatever session it was made in, as
the code does; `Decide` demands that page and cookie are of one session.

### SigningKeys

`phase` is each process's way from start to serving: `Boot` looks for an active key and
`Generated` inserts one after the await, retiring whatever became active in between.
`MintAccess`, `MintId` and `Respond` are one token response with its two reads of the active
key. `FindVerificationKey` and `CacheVerificationKey` are the import of a public key, after
which `publicCache` never forgets it.

### AuthCodeGrant

`AuthorizeSso` and `AuthorizePage` are the two outcomes of GET authorize, `SignInSubmit` its
POST, which looks the app and the redirect URI up again; `Redeem` and `RedeemInvalidScope`
consume the code. A PKCE challenge is identified with its verifier.

### Directory

`parts` is the union of `app_redirect_uris`, `app_scopes`, `app_roles` and `app_secrets`,
which behave alike (unique per app, deleted with it); `rows` stands for the codes and tokens
that hold on to users and apps. Each handler is synchronous, hence one action, with its
refusals as disjuncts: `answer` is the last answer. `CreateApp` keeps the insertion of
redirect URIs one by one. `SeededUsers`, `SeededApps` and `SeedFails` are INSERT OR IGNORE
over any directory, with what it does not ignore. `Clears` evaluates `DATA_TABLES_IN_ORDER`
against the restricting foreign keys.

### TlsCertificate

`proc` is where each process is in `resolveTlsMaterial`, one step per file access: `ReadCert`
and `ReadKey` load the pair, `LookMissing` or a certificate that does not cover the names
leads to `Generate` and the four steps of the two `writeFileSync` calls (opening truncates).
`Start` enters for a boot or a command, `AskEndpoint` for `GET /admin/api/certificate`;
`Serve`, `BootAborts` and `Answer` are what becomes of the pair. `Stop` may come between any
two steps, `Remove` is somebody deleting a file. A pair is one value, so "this key is not this
certificate's" is inequality; `sans` is what a generated certificate carries. A file that two
processes write at once ends with what the last one wrote.

### TokenContents

The operators have the names of the functions in `tokens/claims.ts`, `tokens/tokenConfig.ts`
and `identity/scopes.ts`. A scope is a resource and a name, because the code compares whole
identifiers in some places (`MayNarrowTo`) and bare names in others (`Redeem`, `scp`). The
actions are one grant at a time, from `Authorize` through `Redeem` to any number of
`Refresh`, `ClientCredentials` and `Generate`, which need no grant, and the administrator's
edits between them. A device grant, which issues the same way as a code without a scope
parameter, is not distinguished. Who may redeem what, and the awaits inside a response, are
in `RefreshTokens`, `AuthCodeGrant` and `DeviceGrant`: here a handler is one step.

### Listing, GraphPaging, PortalList, Listings

A table is `status`, which of its rows are live, numbered in the order the repositories list
them (`created_at, id`); as ids are random and members of a group are ordered by when the
user was made, a new row can come anywhere. `Page` is LIMIT and OFFSET over what is live.

`PortalList` is `usePagedList` and the three routes that use it. `Load` is its effect: it
starts a request and disowns the one before, whose answer still comes (`DisownedArrives`).
`search` and `debounced` are apart by 250 ms. A user acts on `Shown`, what is on the screen,
not on the state behind it. `delete` and `posts` are the requests in flight: the dialog and the drawer can be
closed while they are, and the answer closes whatever is open by then (`setDeleting(null)`,
`onSaved`), which is modelled as it is. `ServerReads`, `ServerDeletes` and `ServerSaves` are
the API. `gone`, `made` and `excused` are history.

`GraphPaging` is a walk: `query` is the client's request, then each nextLink
(`buildNextLink` keeps `$top` and sets `$skiptoken` to the next offset); `Serve` is
`sendCollection`, `Refuse` every other answer. `start`, `lost` and `came` are history.

`Listings` has one reader at a time; the other kind of reader changes nothing that the other
writers, which are there too, could not.

### AppPage

`server` is the app in the directory, with its fields, its items (secrets, scopes, roles and
redirect URIs behave alike) and a version. `app`, `loading`, `error` and `load` are `useAsync`; as
in the code an error hides the section, which unmounts it, and a retry shows the old data again
before the new is there. `Mount` is what React does when a section appears: its state starts
anew from the data of that moment and requests of the section before it are nobody's any more
(`mine`), as those of a page that was left are no page's (`page`). `form` remembers which fields
were edited and which version it was mounted from, for `SavesUndoForCause` only. `calls` are
the writes in flight; only some of the buttons have a busy flag. `generating` is the token
request of the generator, with the choice it was made for.

### HostsFile, HostRouting, LocalDomains

The hosts file is a sequence of lines of other owners, the two markers, and the entries of a
block as one element. `Command` is `runHosts` up to the read, `Write` and `NothingWritten` its
ends; a read that fails leaves the empty text, a write truncates and can be cut off
(`TornWrite`). `HostRouting` has no variables: `AssembleConfig` derives origins, `Role`,
`RewriteUrl`, `Allowed`, `Routed` are the way of a request in the order of the code, `Served`
composes them, and `Advertised` are the URLs the server hands out. Paths are sequences of
segments; the lists and users stand for the other Graph and admin routes. `LocalDomains` adds a
server with a configuration, restarts with another one, and a browser that resolves names
through the hosts file.

## 4. What the runs show

Passing runs (distinct states in brackets). The first property of most is the type invariant
together with how the tables of the module must agree.

- **refresh** (42,480). Two requests at once on a chain of up to three tokens. `RowsSound`: no
  deletion or reset leaves a row without its user or app, although suspended requests insert
  afterwards, and no client holds a refresh token without offline_access. `ChainsSound`: a
  sign-in never has two redeemable tokens, and the walk of `revokeFamily` reaches the chain,
  all of it and nothing else. `ReplayedChainIsDead`: after a replay no token of the chain is
  ever redeemable again, not even the successor whose answer is still being signed.
  `RotationNarrows`: a successor has its predecessor's user and app, no more scopes, and was
  issued before the predecessor expired. `ChainEndsForCause`: a token is lost only by its own
  redemption, a replay in its chain or a reset. `ImplementsRotationChain`: refinement of
  `RotationChain`.
- **device** (488,060). Two requests that get the same user code one after the other, two people
  in one browser. `DevicesSound`: codes that are open at one time differ, and no code is
  reported denied and then expired, or denied and then granted. `ApprovalFollowsConsent`: a
  request becomes approved only out of a page made for its user code in a session of the
  approving user that is still alive. `ImplementsDeviceAuthorization`: one decision, one
  redemption, for the approver. `PollingEnds`: a device that keeps polling is answered for good.
- **keys** (24,798). `KeysSound`: one active key although two bootstraps both find none.
  `TokensVerify`: what was delivered is in the JWK set and accepted by every process until a
  reset deletes its key. `KeyLifecycle`: there is an active key from a bootstrap on until a
  wipe, and only the end of a bootstrap or a wipe takes one out of use.
- **authcode** (237,036). `CodesFollowSignIn`: however old the page, the code it yields is for
  an enabled user, to a URI registered at that moment, in a live session. `CodesSound`: the
  redemption that has consumed a code finds its user. `ImplementsAuthorizationCode`:
  refinement of `AuthorizationCode`.
- **directory** (394,353). `DirectorySound`: references hold over all deletions, cascades and
  rollbacks. `SharedUrisAreSeeded`: handlers alone never make two apps share an app_id_uri.
  `ResetRestoresSeed` and `SeedPromises`: what reset and seed restore, add and leave alone.
- **certificate** (374,468). `ServedCovers`: the certificate a server presents carries every
  name it is configured for, whatever it found on disk. `PairSound`: the files are one pair
  unless the last writer was killed or was not alone. `CertificateKept`: a certificate is
  replaced only for a name it does not carry or because its key is gone. `BootAbortsForCause`:
  a boot fails for a mismatch only after a disturbed write.
- **contents** (357,982). `GrantsSound`: no sequence of redemption, refreshes and narrowing
  reaches a scope that was not allowed at the authorization. `GraphTakesItsOwn`: /me and
  userinfo take the tokens of just the grants without a resource or for Graph, however URIs are
  moved, and no app-only token. `AudienceGoverns`: roles, groups and overage are those the
  configuration of the token's app gives. `PreviewMatches`: optional and group claims previewed
  are those issued.
- **listing** (4,241,752). `ListingSound`: a list at rest is the answer to the query of now,
  whatever loads it overtook, and its busy flags follow its requests. `OwnWritesShown`: it
  never settles on rows from before a write it was told of. `BeyondTheEndForCause`: an empty
  page of a search that has rows comes only of rows that went or of Next pressed under another
  query's count. `WalkErrsForCause`: a finished walk of nextLinks missed a row only if one
  before it was deleted on the way, repeated one only if one before it was created.
- **app_page** (654,864). `PageSound`: at rest the page shows every change of its own that was
  acknowledged, and a busy flag is up exactly while a request of the mounted section is out.
  `SavesUndoForCause`: a save changes a field its user did not touch only if somebody changed it
  since the form was mounted. `ShownStaysForCause`: the token on the screen belongs to the choice
  above it or came late, and the secret shown once goes only when it is closed, the page left or
  a load failed. `BusyEnds`: no button stays busy.
- **domains** (744,312). `LinesKeptForCause`: the command never costs a user a line nor brings
  one back, unless the file could not be read, a write was cut off, or the line changed between
  its read and its write. `ApplyConverges`: applying maps every name and applying again
  changes nothing, whatever remains were found. `AdvertisedReachable`: every URL handed out is
  answered by its handler once the names are mapped, with three hostnames or one origin.
  `SurfacesKeptApart`: with three hostnames no path reaches a handler of another surface, and no
  tenant route runs for another tenant.

Runs that end in a violation, each a documented statement the code does not keep (section 8):
**keys_reset**, **directory_atomic**.

Every property of a passing run is paired with a mutated definition under which the same run
finds it violated, so no property holds for want of the behaviour it is about.

## 5. Bounds, and why they are enough

| Run | Bound | Why |
|---|---|---|
| refresh | 3 tokens, 2 requests, 1 user, 1 app, 2 scopes, lifetime 1, clock 0..2 | 3 tokens make a chain with a middle, or a chain next to another sign-in; 2 requests make every race on one token; a token can be redeemed, be expired, and outlive its parent. The proofs hold for any number. |
| device | 2 device codes, 1 user code, 2 users, 2 sessions, 1 browser, device lifetime 2, session lifetime 1, clock 0..2 | One user code forces its reuse, and a code that is not drawn again while it is open leaves the second request waiting for the first; sessions that end before the request make stale pages. Two requests open at once under different user codes are not in this instance: they touch different rows and would multiply the states beyond what TLC finishes with liveness. No symmetry, as liveness is checked. `Authorize` only issues what can still expire within the clock. |
| keys | 3 keys, 2 processes, 2 responses, SEED_ON_START either way | Two racing bootstraps and one after a wipe. The proofs hold for any number. |
| keys_reset | 2 keys, 1 process, 1 response | A counterexample needs no more. |
| authcode | 2 codes, 2 users, 2 sessions, 1 confidential app, 2 redirect URIs, 1 verifier, 1 page, clock 0..1, lifetimes 1 | One page at a time is any page; two URIs so that one can be removed while the other is used. |
| directory | 2 users, 2 names, 2 groups, 2 apps, 2 app_id_uris, 2 redirect URIs, 1 row of a code or token | One seeded and one other of each, so that either can take what the other has; whether a row exists at all is what deletes depend on. |
| certificate | 2 processes, 3 pairs, 4 names (a base name, its wildcard, a name the wildcard covers, one it does not), 3 configurations | Two configurations that can share a certificate and one that cannot; two processes make every overlap, three pairs a replacement of a replacement. Files are removed only while nobody is reading or writing them. |
| contents | 2 apps, 1 user, 2 groups, 1 role, 3 URIs (an API's, Graph's, a path under it), 6 requests, 2 edits, overage limits 1 and 2 | The requests mix resources in every order with and without openid and offline_access. Two edits can move a URI from one app to another, or disable a scope and delete its app. A user in two groups is below, at and above a limit. |
| directory_atomic | as directory | A counterexample needs one request. |
| listing | 3 rows, page size 1, 2 texts (everything, some rows), 2 changes of the box, 2 writes by anybody; a walk with $top junk, 0, 1 and above the maximum, default 2, maximum 3, first $skiptoken junk or 1 | Three pages make a middle one, and one that a delete empties; a second load can overtake one, and a second write can meet the answer to the first. One disowned load at a time: an older one can do nothing that it cannot. |
| app_page | 2 forms, 1 secret to be made, 1 item that is there, 2 choices of the generator, 2 writes by anybody | Two writes are an own one and another of anybody's, in flight together or one after the other; loads, errors, retries and sections are unbounded. |
| domains | 2 shells, 2 foreign lines, 2 commands, 2 edits, 1 torn write, 1 restart, 9 configurations, some 60 paths | Two commands overlap or follow one another; a torn write leaves remains for the commands after it. The configurations are each way an origin can be given, and mixtures. Requests are made while the hosts file is untouched, since their answers do not depend on it, and links are followed while no command runs. |

`MaxTime`, `MaxPages`, `MaxRows`, `MaxEdits`, `MaxTyping`, `MaxWrites`, `MaxCommands`, `MaxTorn` and
`MaxRestarts` are the bounds that appear in guards; finite sets of tokens, codes, sessions and
keys bound how often something is drawn. Deadlock is checked in every run but **listing**, in
which a walk of nextLinks comes to its end and the client has nothing more to ask.

## 6. Fairness

- `DeviceGrant!FairSpec`: the clock advances (`WF(Tick)`), a client that has had no final
  answer polls again (`WF(Poll /\ answers = {})`, what RFC 8628 clients and MSAL do at the
  advertised interval), and a response once begun ends (`WF(Answer)`: the promises of the
  signing calls settle). No user, administrator or restart is assumed to do anything, nor to
  stop doing anything.
- `AppPage!FairSpec`: every write request that was sent is answered, or its connection breaks
  and the browser says so (`WF` for each request); the same for the token generator. Loads, the
  user and other administrators are assumed nothing.
- `SigningKeys!FairKeysSpec`: awaited operations end. A process is not assumed to stop or to be
  started again.

All other runs check safety only and assume no fairness.

## 7. What is proved

TLAPS proves, for every value of the constants that satisfies the assumptions named in the
modules (sentinels differ from values, lifetimes and bounds are natural numbers, the session
of a sign-in lasts at least one tick; no set needs to be finite but the groups of
`TokenContents` and the rows of `Listing`, which are counted). Each proof has an inductive
invariant, `IInv` or the names below, and one step per action; the properties of a step and
the refinements follow from it.

- `RefreshTokensProofs`: all invariants of the run, `ChainEndsForCause`, and the refinement of
  `RotationChain`. `IInv` conjoins `TypeOK`, `ChainInv`, `CreatedInThePast`, `CirculationInv`
  and `RowsReferToDirectory`. The part that matters is `Connected` in `ChainInv`: every set of
  tokens closed under `rotated_from` that holds one token of a chain holds the chain. It says
  that the walk of `revokeFamily` cannot get stuck half-way, it is what makes `FamilyIsChain`
  (a part of `ChainsSound`) inductive, and `ReplayedChainIsDead` rests on it.
  `RotateKeepsChains`, `IssueKeepsChains` and `ReplayKeepsChains` prove it for the three writers
  of the table. `CirculationInv` says that tokens held or in flight were drawn and, if their row
  exists, carry offline_access; `CreatedInThePast` gives the order of times in
  `RotationNarrows`.
- `AuthCodeGrantProofs`: all properties of the run, the refinement of `AuthorizationCode`
  included. `IInv` adds to `CodesSound` that a code that was granted had been drawn
  (`GrantedWereDrawn`), so that a code that is issued was never redeemed, as the abstract
  specification asks. That a code always goes into a live session needs a session lifetime
  above zero.
- `DeviceGrantProofs`: all safety properties of the run and the refinement of
  `DeviceAuthorization`. `OneFate` is not inductive by itself: `ToldWhenGone` says that until
  its row is gone a device was told nothing final, and `AnsweringIsOpen` that a response still
  being built is for a row that is gone and a device that was not told yet.
- `DirectoryProofs`: all properties of the run. `NobodyBeforeSeed` was found by the proof: a boot
  seeds without asking whether a seeded id or name is taken, which is safe only because a
  directory without a tenant is empty; so was `MembershipAssumption`, that every seeded user
  is in a seeded group, as in `seed.ts`: a user whose insert was ignored is noticed only by
  the foreign key of its membership.
- `ListingsProofs`: all properties of the run, for any table, page size and interleaving, in
  three invariants. `IInv` is for `ListingSound` and `OwnWritesShown`: what is claimed of a list
  at rest is made true while it loads, so `LoadIsOwnQuery` and `LoadShowsOwnWrites` say it of
  the request that is out, and `ToldIsTrue` that an answer in flight to a deletion or a creation
  is about a row that is gone or made. `BeyondInv` is for `BeyondTheEndForCause`: the page and
  the load were cut out of the rows that matched when they were read (`PagesMatch`), and an
  offset passes the count it was pressed on only for one of the two causes (`NotBeyond`).
  `WalkInv` is for `WalkErrsForCause`: it says of a walk under way what is claimed of one that
  has ended. A row behind the next offset was seen, or it slid there past a row deleted before
  it; a row seen twice was pushed there by one created before it (`WalkSoFar`). Both need that a
  page of n rows is n rows and that deleting a row moves the later ones by exactly one. These
  facts about positions are proved by counting, with the pigeonhole theorem of the library
  (`Places`, `EveryPlaceTaken`, `PageHasRows`, `PlaceGrows`), not by induction over the rows.
- `AppPageProofs`: all safety properties of the run, for any fields, items, choices and number
  of writes. `IInv` conjoins `TypeOK`, `CallsInv`, `ScreenInv` and `PageData`. `PageData` is the
  part that matters: whatever the page holds - the data shown, the answer to the load in
  flight, the untouched fields of a form, the body of a save that was sent - differs from the
  directory only in fields stamped later than the version it was read at (`Current`,
  `Untouched`), and `StillCurrent` shows that no write disturbs this, since it stamps what it
  changes. `ScreenInv` says which request may still reach the section on the screen, and that
  there is one busy request at most, so that the answer that opens the dialog of a secret never
  finds one open. `CallsInv` counts: the version of the app and the requests that may still
  add to it do not exceed the writes that were sent.
- `ServerProofs`: the properties of three runs about a server and its machine. Of what a server
  makes for itself, the certificate and the keys, for any number of processes: `CoverInv` is
  the invariant for `ServedCovers`: a pair in use anywhere covers the names of who uses it, and
  a pair on disk was drawn, so its names are settled. `PairInv` is the one for the other three:
  as long as nobody disturbs, who writes is alone (`OthersAway`), and the files are as far as
  its steps (`AtFiles`). `KeysInv` is `KeysTypeOK` and `SignedWithRows`: a key that has signed
  anything, in a delivered token or a response in flight, has its row or was wiped.
  Of the local domains, all four properties, for any files, shells, paths and configurations.
  About the hosts file: every text a command read, and the file, is `Tidy` (what is not a foreign
  line has a BEGIN before it, and only lines follow an END), which a write cut off anywhere keeps
  (`PrefixTidy`); while none was cut off it is also `Whole` (no part of a block is missing), and
  has the lines their owners want (`Good`). So stripping costs no line of a whole file
  (`StripTidy`), and two applies leave nothing of the remains in any other (`Converging`).
  `ApplyConverges` does not follow from the state's types: a stray END, or an entry outside every
  block, would break it, and `Tidy` says that no sequence of torn writes makes one.
  About the routing: `FittingGoes` says which paths a route can take, so that a path fits the
  routes of one handler only where it is advertised (`TenantPaths`, `GraphPaths`), `Reached` takes
  each advertised URL through rewrite, guard and routes, and `KeptApart` does so for any path. They
  need that the tenant id is none of the segments that the routes spell out
  (`RoutingAssumption`; it is a GUID) and that a set of names is no line (`DomainsAssumption`).
- `TokenContentsProofs`: all properties of the run. `UrisUnique` is what the rest stands on:
  create and patch refuse an app_id_uri that another app has, so the owner an audience resolves
  to is the app the request was made for, and the preview of an app shows the claims its tokens
  get (`OwnerIsUnique`, `AudienceCases`, `PreviewTyped`). `GrantApproved` carries what was found
  allowed at the authorization through every refresh. `ResponseSound` says of a response, with
  the configuration it was made under, all four properties; an administrator's next request
  leaves none to be judged (`EditKeeps`).

Only model-checked: all liveness (`PollingEnds`, `BusyEnds`), which the prover does not do, and
the violated properties.

## 8. Where code and documents disagree

Shown by a run:

- **keys_reset**: `POST /admin/api/reset` with `resetKeys` deletes the keys, and only a
  restart makes a new one; until then the JWK set is empty and every token request fails.
  The specification of the admin API says keys are regenerated.
- **directory_atomic**: an app whose creation is answered 409 for a repeated redirect URI
  exists afterwards. The specification says multi-row operations run in a transaction.

Noted while modelling, with no run of their own:

- `transaction()` is described as an IMMEDIATE transaction (`store/db.ts:25`) and executes a plain
  BEGIN, which takes SQLite's lock at the first write. Within one process, where transactions
  are synchronous, it makes no difference; a second one on the file
  waits for the lock inside its transaction, and not before it.
- A boot decides to seed before the transaction of the seed: a process that waited for
  another's seed to end seeds again, over whatever has become of the rows since.
- The busy timeout is set after the statement that converts a new file to WAL mode, so of two
  processes that open a new file at once one may fail without waiting.
- A forced seed is refused, and rolled back, when a seeded user was deleted and its user
  principal name given to someone else: the user is ignored, its membership is not.
  `specs/2026-06-22_11-admin-rest-api.md:149` says it never raises a conflict.
- A forced seed puts a seeded app back although another app has taken its app_id_uri; the schema
  has no unique index. `specs/2026-06-22_11-admin-rest-api.md:120` says the URI must be unique.
- `store/reset.ts:36` speaks of one transaction; clearing and seeding are two. After a crash
  between them a restart does not seed, because the tenant row is still there.
- Users and apps with codes or refresh tokens cannot be deleted (400), as consumed and expired
  rows stay: `deleteExpired` has no caller.
- The code and refresh grants do not look at `accountEnabled`, the device grant does.
- A code is consumed before the requested scope is compared (`RedeemInvalidScope`), and a
  refresh narrowed past offline_access leaves a successor no client ever holds.
- A client whose answer was lost and who retries with the old refresh token loses the family.
- Pages are described as short-lived (`identity/authState.ts`); their state has no expiry.
- A key deleted by a reset keeps verifying in processes that have it cached.
- Token preview and generation give an access token the audience `app_id_uri`, or the app id if
  there is none (`tokens/service.ts:159`); a token issued to a user for that app has the app id
  (`tokens/claims.ts:116`). `docs/token-configuration.md:204` and `tokens/tokenConfig.ts:11` say
  the preview matches what is issued; `PreviewMatches` is therefore about the claims only.
- A refresh that narrows the scopes keeps the resource of the grant, and with it the audience,
  also when the scopes left are another resource's; `scp` then names scopes of an API the token
  is not for. `specs/2026-06-22_07-refresh-token.md:105` says the narrowed set drives `aud`.
  The code grant checks a scope parameter and then issues all the scopes granted.
- The audience is looked up when a token is minted. If the app of a grant's resource loses its
  URI, or another app takes it, refreshed tokens follow the URI.
- `/me` answers for a disabled user, userinfo does not.
- `https://graph.microsoft.com` passes the scope check even if `graphResourceId` is configured
  otherwise; the audience is then an app's or that literal, and Graph refuses it.
- A mismatched pair of certificate and key stays: the certificate still covers the names, so
  every later boot loads the pair and fails until one of the files is removed.
- `GET /admin/api/certificate` describes the file, which need not be what the process serves
  once another process has replaced it; the endpoint itself generates a new one if it is gone.
- Where only some origins are given, two surfaces can share a hostname while the third does not.
  The host then counts as the first of login, graph and portal that has it, and the other
  surface on it is answered 404, its advertised URLs included.
- If the origins share a hostname but not a port, the router sees one host and drops nothing,
  while `graphPublicBase` compares whole origins and advertises URLs without the `/graph`
  prefix: `/oidc/userinfo` is then answered with the portal's page.
- An origin on `localhost` makes localhost a typed host; `http/hostRouting.ts:10-12` says that it
  serves everything, health check included.
- A nextLink names the Graph host also when the request came by localhost.
- A list that is empty because its search found nothing, or its page lies beyond the end, says
  "No users yet".
- `SecretOnceDialog.tsx:14-16` says the dialog is never dismissed on its own; it goes when the
  reload after the creation fails, since the section is unmounted, and the secret is lost.
- Going through the browser's history from one app's page to another's keeps the state of the
  open section, forms included: the page has no key. One app per page is modelled.
- After the creation of an app the list is reloaded and left for the app's page.

## 9. What is left out

Formatting, HTML, HTTP details, logging and password checks. Client authentication is a
guard. Cryptography is ideal: values are never drawn twice, signatures cannot be made
without the key. SQLite is trusted to be atomic per transaction. The clock does not run
backwards. React is trusted to run effects and renderings as documented; an answer and the
rendering it causes are one step.

Not modelled, with the reason:

- the trust command (`cli/trust.ts`): runs tools of the operating system in order, keeps no state;
- the sign-in pages (`identity/signinPage.ts`): HTML; the signed state they carry is modelled;
- the precedence and validation of settings (`config/loadConfig.ts`): merging, read once;
- the migration runner (`store/migrations/index.ts`): two transactions, each with the row that
  records it, run once on a new file; a process that plans them while another applies them fails
  to boot, since the tables are there;
- client secrets over time (`identity/clientAuth.ts`): a comparison of hashes and an expiry;
- in the portal: the shell, themes, toasts, the overview and settings pages, the members' drawer
  beyond the reload it causes, the MSAL snippet, which is text;
- the projections of Graph (`$select`) and of the admin API's DTOs: copying of columns;
- samples, scripts and deployment: not part of the running program.
