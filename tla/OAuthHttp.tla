----------------------------- MODULE OAuthHttp -----------------------------
(***************************************************************************)
(* What the OAuth endpoints compute: server/oauth.ts and                   *)
(* server/oauth-http.ts, the metadata documents under .well-known, and the *)
(* client registration of oauth/register/route.ts.  A string that is taken *)
(* apart is a record of the parts that are looked at.                      *)
(***************************************************************************)
EXTENDS FiniteSets, Naturals

CONSTANT Absent   \* null: what a request, a form or the environment does not have

\* A host is its name and port, an origin a protocol and a host.  A request knows the
\* NEXTAUTH_URL of the deployment that serves it (configured), its Host header, its
\* x-forwarded-proto and the protocol of its own URL.  A resource is a URL.
Origin(proto, host) == [proto |-> proto, host |-> host]
Url(origin, path) == [origin |-> origin, path |-> path, slash |-> FALSE, hash |-> FALSE]

-----------------------------------------------------------------------------
(* oauth.ts *)

SCOPES == {"storycanon:read", "storycanon:write"}

\* The scopes of a request narrowed to those there are; without one, all of them.
normalizeScope(requested) == IF requested = Absent THEN SCOPES ELSE requested \cap SCOPES

scopeSatisfies(granted, required) == required \subseteq granted

isAllowedRedirectUri(uri) ==
    /\ ~uri.hash
    /\ \/ uri.scheme = "https"
       \/ uri.scheme = "http" /\ uri.loopback
       \/ uri.scheme \notin {"https", "http", "javascript", "data"}

isRegisteredRedirectUri(uri, registered) == uri \in registered

\* Mutant: the slash at the end is left.
MutCanonicalResource(url) == IF url = Absent THEN Absent ELSE [url EXCEPT !.hash = FALSE]

\* The same resource without a fragment or a slash at its end.
canonicalResource(url) ==
    IF url = Absent THEN Absent ELSE [url EXCEPT !.slash = FALSE, !.hash = FALSE]

resourceMatches(resource, expected) == resource = Absent \/ resource = canonicalResource(expected)

\* S256: the verifier is the one the challenge was computed from.
verifyCodeChallenge(verifier, challenge) == verifier = challenge

-----------------------------------------------------------------------------
(* oauth-http.ts *)

\* Host.split(":")[0], which leaves a bracket of an IPv6 address.
Hostname(host) == IF host.name = "[::1]" THEN "[" ELSE host.name

\* resolveHost: the Host is taken when it is loopback or the configured deployment.
Accepted(http) ==
    \/ Hostname(http.host) \in {"localhost", "127.0.0.1"}
    \/ http.configured = Absent
    \/ Hostname(http.host) = http.configured.host.name

\* The issuer: the origin the request came to, or the configured one if its Host is refused.
serverOrigin(http) ==
    IF ~Accepted(http) THEN http.configured
    ELSE Origin(IF http.forwarded # Absent THEN http.forwarded ELSE http.proto, http.host)

serverHostname(http) == IF Accepted(http) THEN Hostname(http.host) ELSE http.configured.host.name

mcpResourceUrl(origin) == Url(origin, "/mcp")

protectedResourceMetadata(origin) ==
    [resource |-> mcpResourceUrl(origin), authorization_server |-> origin, scopes_supported |-> SCOPES]

\* Every endpoint is at the origin.
authorizationServerMetadata(origin) == [issuer |-> origin, scopes_supported |-> SCOPES]

\* The origins a browser may call /mcp from (mcp-origin.ts), if it names one at all.
allowedMcpOriginHostnames(http) ==
    {serverHostname(http), "localhost", "127.0.0.1", "[::1]", "claude.ai", "claude.com"}

\* The authorization page and its actions make a request of their headers, of which the
\* protocol is http when no proxy names one.
originFromHeaders(http) == serverOrigin([http EXCEPT !.proto = IF http.forwarded = Absent THEN "http" ELSE http.forwarded])

-----------------------------------------------------------------------------
(* oauth/register/route.ts *)

\* Mutant: one allowed URI lets the others in.
MutRegistered(metadata) ==
    IF /\ metadata.wellFormed
       /\ \E uri \in metadata.uris : isAllowedRedirectUri(uri)
       /\ normalizeScope(metadata.scope) # {}
    THEN [uris |-> metadata.uris, scope |-> normalizeScope(metadata.scope)]
    ELSE Absent

\* The client row for the metadata a client sends, or Absent when it is refused; the form
\* of the body, the limit of ten URIs, and the grant and response types are one flag.
Registered(metadata) ==
    IF /\ metadata.wellFormed
       /\ \A uri \in metadata.uris : isAllowedRedirectUri(uri)
       /\ normalizeScope(metadata.scope) # {}
    THEN [uris |-> metadata.uris, scope |-> normalizeScope(metadata.scope)]
    ELSE Absent
=============================================================================
