------------------------------ MODULE MCOidcAuth ------------------------------
(* A provider that rotates key a out for key b, sometimes broken, and the   *)
(* tokens that tell the keys apart.                                         *)
EXTENDS OidcAuth, TLC

Symmetry == Permutations(Requests)

Https == [scheme |-> "https", host |-> "name", extra |-> FALSE]
LoopbackHttp == [scheme |-> "http", host |-> "loopback", extra |-> FALSE]
MCMetadata == {[fails |-> FALSE, issuer |-> Https, jwksUri |-> u] : u \in {Https, LoopbackHttp}}

Jwk(kid) == [kid |-> kid, use |-> "sig", ops |-> None, alg |-> "ES256", parses |-> TRUE, material |-> kid]
Encryption == [Jwk("e") EXCEPT !.use = "enc"]

Cacheable == [noCache |-> FALSE, maxAge |-> {9, 7}, age |-> 0]
Uncacheable == [noCache |-> TRUE, maxAge |-> {}, age |-> 0]

MCDocuments ==
    {[fault |-> None, keys |-> <<Jwk("a"), Encryption>>, headers |-> Cacheable],
     [fault |-> None, keys |-> <<Jwk("b")>>, headers |-> Uncacheable],
     [fault |-> None, keys |-> <<Jwk("a"), Jwk("a")>>, headers |-> Cacheable]}

TokenOf(kid) ==
    [alg |-> "ES256", kid |-> kid, material |-> kid, iss |-> Https, aud |-> {"agentic"},
     azp |-> None, sub |-> "user", exp |-> 3, nbf |-> 0]

MCInputs ==
    {[path |-> "/v1/messages", bearer |-> TokenOf("a"), apiKey |-> "own"],
     [path |-> "/v1/responses", bearer |-> TokenOf("b"), apiKey |-> "token"]}
=============================================================================
