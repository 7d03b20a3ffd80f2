----------------------------- MODULE SigningKeys -----------------------------
(***************************************************************************)
(* Signing keys: the signing_keys table, the bootstrap that fills it, the  *)
(* minting of a token response and the keys tokens are verified with.      *)
(*                                                                         *)
(* A server process looks for an active key before it listens, and a       *)
(* second process started on the same database file does so before it      *)
(* finds the port taken, so two bootstraps can interleave with each other  *)
(* and with a server.  Generating a key, importing one and signing are     *)
(* awaited: they end in a step of their own, and anything may happen first.*)
(*                                                                         *)
(* A kid is the thumbprint of its key, so an imported private key is never *)
(* another one than the row's; privateCache is left out.  Nothing in the   *)
(* program sets not_after: the JWK set lists every row.  There is one      *)
(* tenant.  Requests that fail and change nothing are not actions.         *)
(***************************************************************************)
EXTENDS Naturals, FiniteSets

CONSTANTS
    Kids,           \* keys the generator may draw (never twice): the bound on bootstraps
    Servers,        \* server processes on the database file
    Slots,          \* token responses being built at once
    SeedOnStart,    \* the values SEED_ON_START takes from one start to the next
    NotMinting

VARIABLES
    signing_keys,   \* kid -> "none", "active" or "retired" (is_active = 0)
    tenant,         \* whether the tenants row exists
    phase,          \* per process: "down", "generating" (its bootstrap awaits a key) or "up"
    publicCache,    \* per process: kids whose public key it has imported
    importing,      \* per process: kids whose public key it is importing
    minting,        \* token responses being built
    delivered,      \* kids of the tokens clients have been given
    drawn,          \* history: kids generated so far
    wiped,          \* history: kids deleted by a reset
    bootstrapped    \* history: a bootstrap has ended since the last wipe

keysVars == <<signing_keys, tenant, phase, publicCache, importing, minting, delivered,
              drawn, wiped, bootstrapped>>

\* kid signs the token being minted, signed those of the response that are done.
Response == [process : Servers, kid : Kids, signed : SUBSET Kids]

ASSUME KeysAssumption ==
    /\ SeedOnStart \subseteq BOOLEAN
    /\ NotMinting \notin Response

KeysTypeOK ==
    /\ signing_keys \in [Kids -> {"none", "active", "retired"}]
    /\ tenant \in BOOLEAN
    /\ phase \in [Servers -> {"down", "generating", "up"}]
    /\ publicCache \in [Servers -> SUBSET Kids]
    /\ importing \in [Servers -> SUBSET Kids]
    /\ minting \in [Slots -> Response \cup {NotMinting}]
    /\ delivered \subseteq Kids
    /\ drawn \subseteq Kids
    /\ wiped \subseteq Kids
    /\ bootstrapped \in BOOLEAN

KeysInit ==
    /\ signing_keys = [k \in Kids |-> "none"]
    /\ tenant = FALSE
    /\ phase = [p \in Servers |-> "down"]
    /\ publicCache = [p \in Servers |-> {}]
    /\ importing = [p \in Servers |-> {}]
    /\ minting = [m \in Slots |-> NotMinting]
    /\ delivered = {}
    /\ drawn = {}
    /\ wiped = {}
    /\ bootstrapped = FALSE

-----------------------------------------------------------------------------
Rows == {k \in Kids : signing_keys[k] # "none"}

Active == {k \in Kids : signing_keys[k] = "active"}

\* Publishing the key in use only.
ActiveJwks == Active

Jwks == Rows

\* getVerificationKey finds the key of a token: in the cache, or in the table.
Accepts(p, k) == phase[p] = "up" /\ (k \in publicCache[p] \/ k \in Rows)

\* Leaving the other keys as they are.
InsertOnly(k) == signing_keys' = [signing_keys EXCEPT ![k] = "active"]

\* Any active key is retired and the new one inserted, in one transaction.
Insert(k) ==
    signing_keys' = [j \in Kids |->
        IF j = k THEN "active"
        ELSE IF signing_keys[j] = "active" THEN "retired" ELSE signing_keys[j]]

-----------------------------------------------------------------------------
\* registerStore (seeding an empty database) and the first half of ensureActiveKey.
\* Without a tenant the bootstrap is skipped.
Boot(p, seedOnStart) ==
    /\ phase[p] = "down"
    /\ tenant' = (tenant \/ seedOnStart)
    /\ \/ /\ tenant' /\ Active = {}
          /\ phase' = [phase EXCEPT ![p] = "generating"]
          /\ UNCHANGED bootstrapped
       \/ /\ tenant' /\ Active # {}
          /\ phase' = [phase EXCEPT ![p] = "up"]
          /\ bootstrapped' = TRUE
       \/ /\ ~tenant'
          /\ phase' = [phase EXCEPT ![p] = "up"]
          /\ UNCHANGED bootstrapped
    /\ UNCHANGED <<signing_keys, publicCache, importing, minting, delivered, drawn, wiped>>

\* The generated key is inserted, although another process may have inserted one since.
Generated(p, k) ==
    /\ phase[p] = "generating"
    /\ k \notin drawn
    /\ Insert(k)
    /\ drawn' = drawn \cup {k}
    /\ phase' = [phase EXCEPT ![p] = "up"]
    /\ bootstrapped' = TRUE
    /\ UNCHANGED <<tenant, publicCache, importing, minting, delivered, wiped>>

\* The process ends: shut down, crashed, or unable to listen.
StopServer(p) ==
    /\ phase[p] # "down"
    /\ phase' = [phase EXCEPT ![p] = "down"]
    /\ publicCache' = [publicCache EXCEPT ![p] = {}]
    /\ importing' = [importing EXCEPT ![p] = {}]
    /\ minting' = [m \in Slots |->
          IF minting[m] # NotMinting /\ minting[m].process = p THEN NotMinting ELSE minting[m]]
    /\ UNCHANGED <<signing_keys, tenant, delivered, drawn, wiped, bootstrapped>>

-----------------------------------------------------------------------------
\* buildTokenResponse up to the signing of the access token; without an active key
\* getActiveSigner throws.
MintAccess(m, p, k) ==
    /\ phase[p] = "up"
    /\ minting[m] = NotMinting
    /\ k \in Active
    /\ minting' = [minting EXCEPT ![m] = [process |-> p, kid |-> k, signed |-> {}]]
    /\ UNCHANGED <<signing_keys, tenant, phase, publicCache, importing, delivered,
                   drawn, wiped, bootstrapped>>

\* The access token is signed and the active key is read again for the ID token.
MintId(m, k) ==
    /\ minting[m] # NotMinting /\ minting[m].signed = {}
    /\ k \in Active
    /\ minting' = [minting EXCEPT
           ![m] = [process |-> @.process, kid |-> k, signed |-> {@.kid}]]
    /\ UNCHANGED <<signing_keys, tenant, phase, publicCache, importing, delivered,
                   drawn, wiped, bootstrapped>>

\* There is no active key any more: the request fails, its access token is lost.
MintIdFails(m) ==
    /\ minting[m] # NotMinting /\ minting[m].signed = {}
    /\ Active = {}
    /\ minting' = [minting EXCEPT ![m] = NotMinting]
    /\ UNCHANGED <<signing_keys, tenant, phase, publicCache, importing, delivered,
                   drawn, wiped, bootstrapped>>

Respond(m) ==
    /\ minting[m] # NotMinting
    /\ delivered' = delivered \cup {minting[m].kid} \cup minting[m].signed
    /\ minting' = [minting EXCEPT ![m] = NotMinting]
    /\ UNCHANGED <<signing_keys, tenant, phase, publicCache, importing, drawn, wiped,
                   bootstrapped>>

-----------------------------------------------------------------------------
\* validateAccessToken of a token whose key is not cached: the row is read ...
FindVerificationKey(p, k) ==
    /\ phase[p] = "up"
    /\ k \in delivered \cap Rows
    /\ k \notin publicCache[p]
    /\ importing' = [importing EXCEPT ![p] = @ \cup {k}]
    /\ UNCHANGED <<signing_keys, tenant, phase, publicCache, minting, delivered, drawn,
                   wiped, bootstrapped>>

\* ... and the key goes into the cache, where nothing ever removes it.
CacheVerificationKey(p, k) ==
    /\ k \in importing[p]
    /\ importing' = [importing EXCEPT ![p] = @ \ {k}]
    /\ publicCache' = [publicCache EXCEPT ![p] = @ \cup {k}]
    /\ UNCHANGED <<signing_keys, tenant, phase, minting, delivered, drawn, wiped, bootstrapped>>

-----------------------------------------------------------------------------
\* A reset that empties every table with data in it.
ResetEverything(p, reseed, resetKeys) ==
    /\ phase[p] = "up"
    /\ signing_keys' = [k \in Kids |-> "none"]
    /\ wiped' = IF resetKeys THEN wiped \cup Rows ELSE wiped
    /\ bootstrapped' = (bootstrapped /\ ~resetKeys)
    /\ tenant' = (tenant \/ reseed)
    /\ UNCHANGED <<phase, publicCache, importing, minting, delivered, drawn>>

\* POST /admin/api/reset: the tenants row stays, the keys only go on request.
Reset(p, reseed, resetKeys) ==
    /\ phase[p] = "up"
    /\ signing_keys' = IF resetKeys THEN [k \in Kids |-> "none"] ELSE signing_keys
    /\ wiped' = IF resetKeys THEN wiped \cup Rows ELSE wiped
    /\ bootstrapped' = (bootstrapped /\ ~resetKeys)
    /\ tenant' = (tenant \/ reseed)
    /\ UNCHANGED <<phase, publicCache, importing, minting, delivered, drawn>>

\* POST /admin/api/seed.
Seed(p) ==
    /\ phase[p] = "up"
    /\ tenant' = TRUE
    /\ UNCHANGED <<signing_keys, phase, publicCache, importing, minting, delivered, drawn,
                   wiped, bootstrapped>>

-----------------------------------------------------------------------------
KeysNext ==
    \/ \E p \in Servers, seedOnStart \in SeedOnStart : Boot(p, seedOnStart)
    \/ \E p \in Servers, k \in Kids : Generated(p, k)
    \/ \E p \in Servers : StopServer(p)
    \/ \E m \in Slots, p \in Servers, k \in Kids : MintAccess(m, p, k)
    \/ \E m \in Slots, k \in Kids : MintId(m, k)
    \/ \E m \in Slots : MintIdFails(m)
    \/ \E m \in Slots : Respond(m)
    \/ \E p \in Servers, k \in Kids : FindVerificationKey(p, k)
    \/ \E p \in Servers, k \in Kids : CacheVerificationKey(p, k)
    \/ \E p \in Servers, reseed, resetKeys \in BOOLEAN : Reset(p, reseed, resetKeys)
    \/ \E p \in Servers : Seed(p)

KeysSpec == KeysInit /\ [][KeysNext]_keysVars

\* What has been awaited ends: every promise is settled by the runtime.
FairKeysSpec ==
    /\ KeysSpec
    /\ \A p \in Servers : WF_keysVars(\E k \in Kids : Generated(p, k))
    /\ \A p \in Servers, k \in Kids : WF_keysVars(CacheVerificationKey(p, k))
    /\ \A m \in Slots : WF_keysVars(Respond(m))

-----------------------------------------------------------------------------
(* Properties *)

\* The tenant has one active key at most, although two bootstraps may both have found
\* none and each inserts its own.
OneActiveKey == Cardinality(Active) <= 1

\* A bootstrap leaves an active key behind, and it stays until a reset deletes it.
KeyUntilWiped == bootstrapped => Active # {}

\* A token in the hands of a client can be verified with the published JWK set, and is
\* accepted by every process, unless a reset deleted its key: also when the key was
\* retired by another bootstrap while the token was being signed.
TokensVerify ==
    \A k \in delivered \ wiped :
        k \in Jwks /\ \A p \in Servers : phase[p] = "up" => Accepts(p, k)

\* The key table: well typed, and with one active key at most.
KeysSound == KeysTypeOK /\ OneActiveKey

\* The life of a signing key: a bootstrap leaves an active one, also when it raced, and it
\* stops being the one in use only by a reset of the keys or by a bootstrap that was under
\* way before it was inserted.
KeyLifecycle ==
    [][/\ KeyUntilWiped'
       /\ \A k \in Active : k \notin Active' =>
              \/ k \in wiped'
              \/ \E p \in Servers : phase[p] = "generating" /\ phase'[p] = "up"]_keysVars

Serving == \E p \in Servers : phase[p] = "up"

\* specs/2026-06-22_11-admin-rest-api.md:150: with resetKeys, signing keys are
\* regenerated; at the latest when the server is started again.
KeysRegenerated == Serving /\ wiped # {} ~> Active # {} \/ ~Serving
=============================================================================
