------------------------------- MODULE OidcAuth -------------------------------
(***************************************************************************)
(* OIDC bearer authentication of the gateway's protected routes.           *)
(*                                                                         *)
(* At start the gateway discovers the provider and caches its key set.     *)
(* Every protected request then runs require_oidc: the token's key id is   *)
(* looked up in the cache; a miss or an expired cache sends the request    *)
(* through a gate of one permit, where it looks again and, unless a recent *)
(* refresh already answers the question, fetches the key set.  A request   *)
(* can be dropped by its client wherever it awaits.  The provider rotates  *)
(* its keys and may fail or answer nonsense at any time.                   *)
(*                                                                         *)
(* now is the clock; an Instant is a value it takes.  A key is known by    *)
(* its material.  Signatures, formats of tokens and documents, and the     *)
(* wording of errors are abstracted.                                       *)
(***************************************************************************)
EXTENDS Integers, Sequences, FiniteSets, FiniteSetsExt, SequencesExt

CONSTANTS
    Requests,   \* concurrent requests
    Inputs,     \* what a request carries: a path, a bearer token or None, an x-api-key
    Documents,  \* the key sets the provider serves, with their cache headers
    Metadata,   \* the provider metadata documents
    Issuer, Audience,
    Cooldown,   \* JWKS_REFRESH_COOLDOWN
    Coalesce,   \* JWKS_REFRESH_COALESCE_WINDOW
    Wait,       \* JWKS_REFRESH_WAIT_TIMEOUT
    DefaultTtl, MaxTtl, Skew, MaxKeys,
    MaxTime,    \* bound on the clock
    None

ASSUME TimesAssumption ==
    /\ {Cooldown, Coalesce, Wait, MaxKeys} \subseteq Nat \ {0}
    /\ {DefaultTtl, MaxTtl, Skew, MaxTime} \subseteq Nat
    /\ Coalesce <= Cooldown     \* 1 s and 30 s in auth.rs

\* fetch_json's faults: the request, the size of its answer, and the JSON in it.
\* Ages are numbers of seconds.
ASSUME DocumentsAssumption ==
    \A d \in Documents :
        /\ d.fault \in {None, "JwksRequest", "ProviderResponseTooLarge", "InvalidProviderJson"}
        /\ d.headers.noCache \in BOOLEAN
        /\ d.headers.maxAge \in SUBSET Nat
        /\ d.headers.age \in Nat

\* None stands for no request.
ASSUME NoneAssumption == None \notin Requests

VARIABLES
    now,        \* the clock
    served,     \* the document the provider serves now
    serving,    \* the authenticator exists: discovery succeeded
    keys,       \* CachedJwks: keys by id, and expires_at
    refresh,    \* RefreshState: last_completed, retry_after, coalesce_until
    gate,       \* the request that holds refresh_gate's permit, or None
    req,        \* the requests in flight
    answer,     \* what the last step answered, None if it did not
    attempts    \* ghost: the last refresh attempt, when it began and how it ended

authVars == <<now, served, serving, keys, refresh, gate, req, answer, attempts>>

-----------------------------------------------------------------------------
(* The configuration and the discovery documents.                           *)

\* is_loopback_http: plain HTTP to 127.0.0.1 or ::1, never to a host name.
IsLoopbackHttp(url) == url.scheme = "http" /\ url.host = "loopback"

SecureFor(url, loopback) == url.scheme = "https" \/ (loopback /\ IsLoopbackHttp(url))

\* OidcConfig::new
ConfigError ==
    CASE ~SecureFor(Issuer, TRUE) -> "InsecureIssuer"
      [] Issuer.extra             -> "InvalidIssuerComponents"
      [] Audience = ""            -> "EmptyAudience"
      [] OTHER                    -> None

\* the checks of discover on the provider metadata
MetadataError(m) ==
    CASE m.fails                                              -> "ProviderMetadataRequest"
      [] m.issuer # Issuer                                    -> "IssuerMismatch"
      [] ~SecureFor(m.jwksUri, IsLoopbackHttp(Issuer))        -> "InsecureJwksUri"
      [] OTHER                                                -> None

SupportedAlgorithms ==
    {"ES256", "ES384", "RS256", "RS384", "RS512", "PS256", "PS384", "PS512", "EdDSA"}

\* The algorithm a JWK is good for: a given one, any asymmetric one, or none.
VerificationAlgorithm(k) ==
    CASE k.use \notin {None, "sig"}                     -> "skip"
      [] k.ops # None /\ "verify" \notin k.ops          -> "skip"
      [] k.alg = None                                   -> "any"
      [] k.alg \in SupportedAlgorithms                  -> k.alg
      [] OTHER                                          -> "skip"

\* The keys of a set that compile_jwks keeps, by their places.
UsableKeys(ks) ==
    {i \in DOMAIN ks : ks[i].kid # None /\ VerificationAlgorithm(ks[i]) # "skip" /\ ks[i].parses}

KeyIds(ks) == {ks[i].kid : i \in UsableKeys(ks)}

\* compile_jwks: why a key set is refused, and what is kept of one that is not.
JwksError(ks) ==
    CASE ks = <<>>                                             -> "EmptyJwks"
      [] Len(ks) > MaxKeys                                     -> "TooManyJwksKeys"
      [] Cardinality(KeyIds(ks)) < Cardinality(UsableKeys(ks)) -> "DuplicateKeyId"
      [] UsableKeys(ks) = {}                                   -> "EmptyJwks"
      [] OTHER                                                 -> None

CompileJwks(ks) ==
    [kid \in KeyIds(ks) |->
        LET k == ks[CHOOSE i \in UsableKeys(ks) : ks[i].kid = kid]
        IN  [material |-> k.material, algorithm |-> VerificationAlgorithm(k)]]

Saturating(a, b) == IF a > b THEN a - b ELSE 0

\* jwks_ttl: how long a response may be cached, by its Cache-Control and Age.
JwksTtl(h) ==
    IF h.noCache THEN 0
    ELSE IF h.maxAge = {} THEN Saturating(DefaultTtl, h.age)
         ELSE Min({Saturating(Min(h.maxAge), h.age), MaxTtl})

\* fetch_json and fetch_jwks: the provider's answer, or why there is none.
FetchError(doc) == IF doc.fault # None THEN doc.fault ELSE JwksError(doc.keys)

FetchJwks(doc, t) ==
    [keys |-> CompileJwks(doc.keys), expires |-> t + JwksTtl(doc.headers)]

-----------------------------------------------------------------------------
(* What is decided of a token once its key is known.                        *)

\* IdentityClaims::audience_allows: every audience, and the authorized party if there is one.
AudienceAllows(tok) ==
    /\ tok.aud # {} /\ tok.aud \subseteq {Audience}
    /\ tok.azp \in {None, Audience}

\* The validation of build_validations, as decode applies it (external).
DecodeAccepts(tok, key, t) ==
    /\ tok.material = key.material
    /\ tok.iss = Issuer
    /\ Audience \in tok.aud
    /\ tok.exp + Skew >= t
    /\ tok.nbf <= t + Skew

\* The refusals of authenticate before it looks for the key ...
HeaderError(tok) ==
    CASE tok.alg = "malformed"                       -> "InvalidToken"
      [] tok.alg \in {"HS256", "HS384", "HS512"}     -> "UnsupportedTokenAlgorithm"
      [] tok.kid = None                              -> "MissingKeyId"
      [] OTHER                                       -> None

\* ... and after it has it.
TokenError(tok, key, t) ==
    CASE key.algorithm \notin {"any", tok.alg}       -> "AlgorithmMismatch"
      [] tok.alg \notin SupportedAlgorithms          -> "UnsupportedTokenAlgorithm"
      [] ~DecodeAccepts(tok, key, t)                 -> "InvalidToken"
      [] tok.sub = ""                                -> "EmptySubject"
      [] ~AudienceAllows(tok)                        -> "InvalidAuthorizedParty"
      [] OTHER                                       -> None

\* OidcAuthError::is_dependency_failure
DependencyFailures ==
    {"JwksRequest", "ProviderResponseTooLarge", "InvalidProviderJson", "EmptyJwks",
     "TooManyJwksKeys", "DuplicateKeyId", "JwksRefreshBackoff", "RefreshStateUnavailable"}

AnthropicPaths == {"/v1/messages", "/v1/messages/count_tokens"}

\* The x-api-key that goes upstream: only of the Messages API, and never the identity token.
ForwardedApiKey(in) ==
    IF in.apiKey = "token" \/ in.path \notin AnthropicPaths THEN None ELSE in.apiKey

\* The response of require_oidc to a refusal.
Refusal(error, kid) ==
    [status |-> IF error \in DependencyFailures THEN 503 ELSE 401, error |-> error, kid |-> kid]

-----------------------------------------------------------------------------
NoRequest == [at |-> "idle"]

NoKeys == [keys |-> <<>>, expires |-> 0]

AuthInit ==
    /\ now = 0
    /\ served \in Documents
    /\ serving = FALSE
    /\ keys = NoKeys
    /\ refresh = [lastCompleted |-> 0, retryAfter |-> None, coalesceUntil |-> None]
    /\ gate = None
    /\ req = [r \in Requests |-> NoRequest]
    /\ answer = None
    /\ attempts = [begun |-> None, ended |-> None, how |-> "none"]

\* OidcAuthenticator::discover, once, before the server accepts requests.
DiscoverProvider ==
    /\ ~serving /\ ConfigError = None
    /\ \E m \in Metadata :
        /\ MetadataError(m) = None
        /\ FetchError(served) = None
        /\ serving' = TRUE
        /\ keys' = FetchJwks(served, now)
        /\ refresh' = [lastCompleted |-> now, retryAfter |-> None, coalesceUntil |-> None]
    /\ answer' = None
    /\ UNCHANGED <<now, served, gate, req, attempts>>

\* Outcomes of a request; the permit, if it is held, is returned with it.
Answer(r, outcome) ==
    /\ req' = [req EXCEPT ![r] = NoRequest]
    /\ answer' = outcome
    /\ gate' = IF gate = r THEN None ELSE gate

Reject(r, error, kid) == Answer(r, Refusal(error, kid))

\* authenticate with a key in hand; set is the key set it is from.
Verify(r, in, set) ==
    LET tok == in.bearer
        error == TokenError(tok, set.keys[tok.kid], now)
    IN  IF error # None THEN Reject(r, error, tok.kid)
        ELSE Answer(r, [status |-> 200, apiKey |-> ForwardedApiKey(in), expires |-> set.expires])

Token(r) == req[r].in.bearer

Cached(set, kid, t) == t < set.expires /\ kid \in DOMAIN set.keys

\* require_oidc up to its first await: the header checks, and the lookup that takes no permit.
Arrive(r, in) ==
    /\ serving /\ req[r].at = "idle"
    /\ LET tok == in.bearer IN
       IF tok = None THEN Reject(r, "MissingBearerToken", None)
       ELSE IF HeaderError(tok) # None THEN Reject(r, HeaderError(tok), tok.kid)
       ELSE IF Cached(keys, tok.kid, now) THEN Verify(r, in, keys)
       ELSE /\ req' = [req EXCEPT ![r] = [at |-> "wait", in |-> in, deadline |-> now + Wait]]
            /\ gate' = gate /\ answer' = None
    /\ UNCHANGED <<now, served, serving, keys, refresh, attempts>>

AcquireGate(r) ==
    /\ req[r].at = "wait" /\ gate = None
    /\ gate' = r
    /\ req' = [req EXCEPT ![r] = [at |-> "recheck", in |-> @.in]]
    /\ answer' = None
    /\ UNCHANGED <<now, served, serving, keys, refresh, attempts>>

\* The wait for the permit times out.
GateTimeout(r) ==
    /\ req[r].at = "wait" /\ now >= req[r].deadline
    /\ Reject(r, "JwksRefreshBackoff", Token(r).kid)
    /\ UNCHANGED <<now, served, serving, keys, refresh, attempts>>

Before(deadline) == deadline # None /\ now < deadline

MutantCoalesceForEver(r) == refresh.coalesceUntil # None

\* A refresh that has just completed answers whoever waited for it, its key set expired or not.
Coalesced(r) == Before(refresh.coalesceUntil)

\* The second look, with the permit: an answer without a fetch, or RefreshAttempt::begin.
Recheck(r) ==
    /\ req[r].at = "recheck"
    /\ LET in == req[r].in
           kid == in.bearer.kid
           unknown == Reject(r, "UnknownKeyId", kid)
       IN  IF Cached(keys, kid, now) THEN Verify(r, in, keys) /\ UNCHANGED <<refresh, attempts>>
           ELSE IF now < keys.expires /\ now - refresh.lastCompleted < Cooldown
           THEN unknown /\ UNCHANGED <<refresh, attempts>>
           ELSE IF Coalesced(r)
           THEN /\ IF kid \in DOMAIN keys.keys THEN Verify(r, in, keys) ELSE unknown
                /\ UNCHANGED <<refresh, attempts>>
           ELSE IF Before(refresh.retryAfter)
           THEN Reject(r, "JwksRefreshBackoff", kid) /\ UNCHANGED <<refresh, attempts>>
           ELSE /\ refresh' = [refresh EXCEPT !.retryAfter = now + Cooldown]
                /\ req' = [req EXCEPT ![r] = [at |-> "fetch", in |-> in, own |-> now + Cooldown]]
                /\ attempts' = [begun |-> now, ended |-> None, how |-> "running"]
                /\ gate' = gate /\ answer' = None
    /\ UNCHANGED <<now, served, serving, keys>>

\* The provider answers, or fails: the attempt's backoff stays.
FetchFails(r) ==
    /\ req[r].at = "fetch"
    /\ FetchError(served) # None
    /\ Reject(r, FetchError(served), Token(r).kid)
    /\ attempts' = [attempts EXCEPT !.ended = now, !.how = "failed"]
    /\ UNCHANGED <<now, served, serving, keys, refresh>>

FetchSucceeds(r) ==
    /\ req[r].at = "fetch"
    /\ FetchError(served) = None
    /\ req' = [req EXCEPT ![r] = [at |-> "install", in |-> @.in, own |-> @.own,
                                  set |-> FetchJwks(served, now)]]
    /\ UNCHANGED <<now, served, serving, keys, refresh, gate, attempts>> /\ answer' = None

\* The write of the key set, visible to the lookups that take no permit ...
Install(r) ==
    /\ req[r].at = "install"
    /\ keys' = req[r].set
    /\ req' = [req EXCEPT ![r].at = "complete"]
    /\ UNCHANGED <<now, served, serving, refresh, gate, attempts>> /\ answer' = None

MutantCompleteUndated(r) ==
    /\ req[r].at = "complete"
    /\ refresh' = [refresh EXCEPT !.retryAfter = None, !.coalesceUntil = now + Coalesce]
    /\ attempts' = [attempts EXCEPT !.ended = now, !.how = "ok"]
    /\ LET set == req[r].set  tok == Token(r) IN
       IF tok.kid \in DOMAIN set.keys THEN Verify(r, req[r].in, set)
                                      ELSE Reject(r, "UnknownKeyId", Token(r).kid)
    /\ UNCHANGED <<now, served, serving, keys>>

\* ... then the refresh state, and the answer from the fetched set.
CompleteRefresh(r) ==
    /\ req[r].at = "complete"
    /\ refresh' = [lastCompleted |-> now, retryAfter |-> None, coalesceUntil |-> now + Coalesce]
    /\ attempts' = [attempts EXCEPT !.ended = now, !.how = "ok"]
    /\ LET set == req[r].set  tok == Token(r) IN
       IF tok.kid \in DOMAIN set.keys THEN Verify(r, req[r].in, set)
                                      ELSE Reject(r, "UnknownKeyId", Token(r).kid)
    /\ UNCHANGED <<now, served, serving, keys>>

MutantKeepBackoff(r) == refresh

\* RefreshAttempt::drop: an attempt that was cut off takes back its own backoff.
DropAttempt(r) ==
    IF req[r].at \in {"fetch", "install"} /\ refresh.retryAfter = req[r].own
    THEN [refresh EXCEPT !.retryAfter = None] ELSE refresh

\* The client goes away at an await: the future is dropped, attempt first, then the permit.
Cancel(r) ==
    /\ req[r].at \in {"wait", "recheck", "fetch", "install"}
    /\ refresh' = DropAttempt(r)
    /\ attempts' = IF req[r].at \in {"fetch", "install"}
                   THEN [attempts EXCEPT !.ended = now, !.how = "cancelled"] ELSE attempts
    /\ gate' = IF gate = r THEN None ELSE gate
    /\ req' = [req EXCEPT ![r] = NoRequest]
    /\ answer' = None
    /\ UNCHANGED <<now, served, serving, keys>>

\* The provider rotates its keys, breaks or recovers (external).
Rotate ==
    /\ served' \in Documents \ {served}
    /\ UNCHANGED <<now, serving, keys, refresh, gate, req, attempts>> /\ answer' = None

ClockTick ==
    /\ serving /\ now < MaxTime
    /\ now' = now + 1
    /\ UNCHANGED <<served, serving, keys, refresh, gate, req, attempts>> /\ answer' = None

Step(r) ==
    \/ AcquireGate(r) \/ GateTimeout(r) \/ Recheck(r)
    \/ FetchFails(r) \/ FetchSucceeds(r) \/ Install(r) \/ CompleteRefresh(r)

AuthNext ==
    \/ DiscoverProvider \/ Rotate \/ ClockTick
    \/ \E r \in Requests : (\E in \in Inputs : Arrive(r, in)) \/ Step(r) \/ Cancel(r)

AuthSpec == AuthInit /\ [][AuthNext]_authVars

-----------------------------------------------------------------------------
(* Properties.                                                              *)

At(r) == req[r].at

Instant == Nat \cup {None}

\* A compiled key set expires at some instant, and holds only keys that may verify a token:
\* each for an asymmetric algorithm or for any.
Compiled(set) ==
    /\ set.expires \in Nat
    /\ \A kid \in DOMAIN set.keys :
        kid # None /\ set.keys[kid].algorithm \in SupportedAlgorithms \cup {"any"}

\* What a request carries to where it is.
RequestOK(r) ==
    /\ At(r) \in {"idle", "wait", "recheck", "fetch", "install", "complete"}
    /\ At(r) # "idle" => req[r].in \in Inputs
    /\ At(r) = "wait" => req[r].deadline \in Nat
    /\ At(r) \in {"fetch", "install", "complete"} => req[r].own \in Nat
    /\ At(r) \in {"install", "complete"} => Compiled(req[r].set)

AuthTypeOK ==
    /\ now \in 0 .. MaxTime
    /\ served \in Documents
    /\ serving \in BOOLEAN
    /\ Compiled(keys)
    /\ refresh \in [lastCompleted : Nat, retryAfter : Instant, coalesceUntil : Instant]
    /\ attempts \in [begun : Instant, ended : Instant,
                    how : {"none", "running", "failed", "cancelled", "ok"}]
    /\ gate \in Requests \cup {None}
    /\ \A r \in Requests :
        RequestOK(r) /\ (gate = r) = (At(r) \in {"recheck", "fetch", "install", "complete"})

\* A backoff is the mark of a provider failure: it is in force only while a refresh runs or
\* after one that failed, never after one whose client went away or one that succeeded.
BackoffMeansFailure == Before(refresh.retryAfter) => attempts.how \in {"running", "failed"}

Answered == answer' # None

\* A token is accepted with a key set that is not expired, or with the one a refresh completed
\* within the coalescing window.
StaleKeysOnlyCoalesced ==
    [][(Answered /\ answer'.status = 200) =>
        \/ now < answer'.expires
        \/ keys'.expires = answer'.expires /\ now < refresh'.lastCompleted + Coalesce]_authVars

\* A key id is called unknown only on the word of a key set that does not have it and that
\* was completed less than a cooldown ago: a rotated key is refused no longer than that.
UnknownKeyIsFresh ==
    [][(Answered /\ answer'.status = 401 /\ answer'.error = "UnknownKeyId") =>
        /\ answer'.kid \notin DOMAIN keys'.keys
        /\ now - refresh'.lastCompleted < Cooldown]_authVars
=============================================================================
