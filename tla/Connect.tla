------------------------------ MODULE Connect ------------------------------
(***************************************************************************)
(* An AI client connects: from the challenge of the MCP endpoint it finds  *)
(* the authorization server, registers, sends the browser of Visit to the  *)
(* authorization page, exchanges the code and calls the endpoint with its  *)
(* token (app/mcp/route.ts, mcp-auth.ts, the .well-known documents, and    *)
(* the register, authorize and token endpoints).  Each request is one      *)
(* step: overlapping exchanges are OAuthStore's.  The client is external.  *)
(***************************************************************************)
EXTENDS Visit

CONSTANTS
    Doors,         \* the ways a client reaches the server: requests of OAuthHttp
    Metadata,      \* what it may register with
    MaxAttempts    \* bound: authorization requests of the client

\* Any string; the ones that the definitions write are named, as the provers know of no literal
\* that it is in STRING.
Text == STRING \cup {"http", "/mcp"}
Origins == [proto : Text, host : [name : Text, port : Text]]
Urls == [origin : Origins, path : Text, slash : BOOLEAN, hash : BOOLEAN]
Request == [configured : Origins \cup {Absent}, host : [name : Text, port : Text],
            forwarded : Text \cup {Absent}, proto : Text]
Uri == [scheme : Text, loopback : BOOLEAN, hash : BOOLEAN]
Token == [challenge : Nat, scope : SUBSET SCOPES, resource : Urls]

\* A request is numbered by its challenge.
ASSUME ConnectAssumption ==
    /\ MaxAttempts \in Nat /\ Doors \subseteq Request
    /\ Asks \subseteq [known : BOOLEAN, uri : Uri, wellFormed : BOOLEAN, scope : SUBSET STRING \cup {Absent},
                       resource : Urls \cup {Absent}, challenge : 1..MaxAttempts]
    /\ Metadata \subseteq [wellFormed : BOOLEAN, uris : SUBSET Uri, scope : SUBSET STRING \cup {Absent}]
    /\ Absent \notin Asks \cup Urls \cup Origins \cup Token

VARIABLES
    door,     \* the way this one does
    app,      \* the client
    code,     \* authorization request -> the OAuthAuthorizationCode row of its approval, or Absent
    issued,   \* the OAuthToken row of its access token, or Absent
    agreed    \* history: what was approved on the consent screen, as the screen showed it

connectVars == <<account, session, cookie, browser, pane, oauthClient, chosen, door, app, code, issued, agreed>>
stores == <<oauthClient, code, issued>>

AppSteps == {"start", "challenged", "resource", "issuer", "registered", "asking", "code", "token", "in",
             "narrow", "denied", "stopped"}

\* origin is where its next request goes, resource and issuer what the documents said.
\* History: has it made a mistake, or had its grant taken away?
App == [step : AppSteps, origin : Origins \cup {Absent}, resource : Urls \cup {Absent}, issuer : Origins \cup {Absent},
        ask : Asks \cup {Absent}, attempts : 0..MaxAttempts, fault : BOOLEAN]

\* The endpoint as the client reaches it, and a request to an origin it was told of.
Reach(origin) == [door EXCEPT !.host = origin.host]
Goes(step) == app' = [app EXCEPT !.step = step]
Is(step) == app.step = step

ConnectTypeOK ==
    /\ VisitTypeOK /\ app \in App /\ door \in Doors
    /\ oauthClient # Absent =>
          /\ oauthClient.scope \subseteq SCOPES
          /\ \A uri \in oauthClient.uris : uri.scheme # "http" \/ uri.loopback
    /\ agreed \subseteq [uri : {ask.uri : ask \in Asks}, challenge : 1..MaxAttempts, scope : SUBSET SCOPES,
                         resource : Urls]
    /\ \A n \in 1..MaxAttempts : code[n] # Absent => code[n].consumed \in BOOLEAN /\ \E a \in agreed : n = a.challenge
    /\ issued = Absent \/ issued.scope \subseteq SCOPES

ConnectInit ==
    /\ VisitInit /\ oauthClient = Absent
    /\ door \in Doors
    /\ app = [step |-> "start", origin |-> Absent, resource |-> Absent, issuer |-> Absent, ask |-> Absent,
              attempts |-> 0, fault |-> FALSE]
    /\ code = [n \in 1..MaxAttempts |-> Absent] /\ issued = Absent /\ agreed = {}

-----------------------------------------------------------------------------
(* Discovery and registration *)

\* rejectedOrigin: a client in a browser names its origin, others none.
rejectedOrigin(name, http) == name # Absent /\ name \notin allowedMcpOriginHostnames(http)

\* A call without a token is challenged with the place of the resource metadata, and so is
\* one with a token that was refused.
Challenged ==
    /\ Is("start") /\ ~rejectedOrigin(Absent, door)
    /\ app' = [app EXCEPT !.step = "challenged", !.origin = serverOrigin(door)]
    /\ UNCHANGED <<visitVars, door, code, issued, agreed>>

ReadResourceMetadata ==
    LET document == protectedResourceMetadata(serverOrigin(Reach(app.origin))) IN
    /\ Is("challenged")
    /\ app' = [app EXCEPT !.step = "resource", !.resource = document.resource,
                          !.origin = document.authorization_server]
    /\ UNCHANGED <<visitVars, door, code, issued, agreed>>

\* The client must refuse an issuer that is not the origin it fetched the document from.
ReadServerMetadata ==
    LET document == authorizationServerMetadata(serverOrigin(Reach(app.origin))) IN
    /\ Is("resource")
    /\ app' = IF document.issuer = app.origin THEN [app EXCEPT !.step = "issuer", !.issuer = document.issuer]
              ELSE [app EXCEPT !.step = "stopped"]
    /\ UNCHANGED <<visitVars, door, code, issued, agreed>>

\* The registration endpoint.
Register(metadata) ==
    LET row == Registered(metadata) IN
    /\ Is("issuer")
    /\ oauthClient' = row
    /\ app' = [app EXCEPT !.step = IF row = Absent THEN "stopped" ELSE "registered", !.fault = @ \/ row = Absent]
    /\ UNCHANGED <<rows, browser, pane, door, code, issued, agreed>>

\* The client sends a tab to the authorization page, first or after it was told that its
\* token has too narrow a scope, and if it comes to nothing again.
SendBrowser(p, ask) ==
    /\ app.step \in {"registered", "narrow", "asking"} /\ app.attempts < MaxAttempts
    /\ ask.challenge = app.attempts + 1
    /\ ask.resource \in {Absent, app.resource, [app.resource EXCEPT !.slash = TRUE]}
    /\ (Is("narrow") => ask.scope = SCOPES)
    /\ app' = [app EXCEPT !.step = "asking", !.ask = ask, !.attempts = @ + 1]
    /\ Load(p, Authorize(ask))
    /\ UNCHANGED <<rows, browser, stores, door, agreed>>

-----------------------------------------------------------------------------
(* The consent screen *)

Consents(p) == Shows(p, "authorize") /\ ~Unproven(pane[p].at.ask)

\* What the decision handlers do with the form the page rendered.  Both ask for a user
\* without naming a path to come back to.
Decide(p, decision) ==
    LET place == pane[p].at
        to == requireSessionUser(Absent, place)
    IN /\ Consents(p)
       /\ Follow(p, IF to # place THEN to
                    ELSE IF Unproven(place.ask) THEN Authorize([place.ask EXCEPT !.known = FALSE])
                    ELSE Callback(place.ask, decision))
       /\ UNCHANGED <<rows, browser, oauthClient, door>>

Decided(p) == requireSessionUser(Absent, pane[p].at) = pane[p].at

\* Mutant: the code is given every scope there is.
MutNewCode(ask) ==
    [uri |-> ask.uri, consumed |-> FALSE, scope |-> SCOPES,
     resource |-> IF ask.resource = Absent THEN mcpResourceUrl(originFromHeaders(Reach(app.issuer)))
                  ELSE canonicalResource(ask.resource)]

\* An audience is always bound: this endpoint, if the request named none.
NewCode(ask) ==
    [uri |-> ask.uri, consumed |-> FALSE, scope |-> normalizeScope(ask.scope),
     resource |-> IF ask.resource = Absent THEN mcpResourceUrl(originFromHeaders(Reach(app.issuer)))
                  ELSE canonicalResource(ask.resource)]

\* upsertGrant revokes what was issued when the scope is another: the client loses its token
\* when that was an older request of its own.
ApproveAuthorization(p) ==
    LET ask == pane[p].at.ask
        new == NewCode(ask)
        revokes == issued # Absent /\ issued.scope # new.scope
    IN /\ Decide(p, "code")
       /\ IF Decided(p)
          THEN /\ code' = [code EXCEPT ![ask.challenge] = new]
               /\ agreed' = agreed \cup {[challenge |-> ask.challenge, uri |-> ask.uri, resource |-> new.resource,
                                          scope |-> normalizeScope(ask.scope)]}
               /\ issued' = IF revokes THEN Absent ELSE issued
               /\ app' = [app EXCEPT !.fault = @ \/ (revokes /\ ask # app.ask)]
          ELSE UNCHANGED <<code, agreed, issued, app>>

DenyAuthorization(p) == Decide(p, "denied") /\ UNCHANGED <<code, issued, agreed, app>>

-----------------------------------------------------------------------------
(* The token endpoint and the call *)

\* The browser is at the client's redirect URI: an error, or a code with the issuer, which
\* the client compares.
ReceiveCallback(p) ==
    LET place == pane[p].at IN
    /\ Shows(p, "callback") /\ Is("asking") /\ place.ask = app.ask
    /\ app' = CASE place.answer = "denied" -> [app EXCEPT !.step = "denied"]
                [] place.answer = "error" -> [app EXCEPT !.step = "stopped", !.fault = TRUE]
                [] originFromHeaders(Reach(app.issuer)) # app.issuer -> [app EXCEPT !.step = "stopped"]
                [] OTHER -> [app EXCEPT !.step = "code"]
    /\ UNCHANGED <<visitVars, door, code, issued, agreed>>

\* Mutant: the audience is the one this request names.
MutRedeemedCode(row, uri, verifier, challenge, resource) ==
    IF ~row.consumed /\ uri = row.uri /\ verifyCodeChallenge(verifier, challenge)
    THEN [challenge |-> challenge, scope |-> row.scope,
          resource |-> IF resource = Absent THEN row.resource ELSE canonicalResource(resource)]
    ELSE Absent

\* What the token endpoint answers: the code is claimed, and then looked at.
RedeemedCode(row, uri, verifier, challenge, resource) ==
    IF /\ ~row.consumed
       /\ uri = row.uri /\ verifyCodeChallenge(verifier, challenge)
       /\ resource = Absent \/ canonicalResource(resource) = row.resource
    THEN [challenge |-> challenge, scope |-> row.scope, resource |-> row.resource]
    ELSE Absent

\* The client exchanges its code, with what belongs to it or, mistaken, with something else.
Exchange(uri, verifier, resource) ==
    LET n == app.ask.challenge
        token == RedeemedCode(code[n], uri, verifier, n, resource)
    IN /\ Is("code") /\ code[n] # Absent
       /\ app' = [app EXCEPT !.step = IF token = Absent THEN "stopped" ELSE "token",
                             !.fault = @ \/ uri # app.ask.uri \/ verifier # n
                                         \/ resource \notin {Absent, app.resource}]
       /\ code' = [code EXCEPT ![n].consumed = TRUE]
       /\ issued' = IF token = Absent THEN issued ELSE token
       /\ UNCHANGED <<visitVars, door, agreed>>

\* POST /mcp with the token.
Call ==
    /\ app.step \in {"token", "in"}
    /\ Goes(IF issued = Absent \/ ~resourceMatches(issued.resource, mcpResourceUrl(serverOrigin(door)))
            THEN "stopped"
            ELSE IF ~scopeSatisfies(issued.scope, SCOPES) THEN "narrow" ELSE "in")
    /\ UNCHANGED <<visitVars, door, code, issued, agreed>>

\* A step of the browser alone.  The local sign-in as a new user deletes the grant, and with it
\* the code and the token.
Browse ==
    /\ VisitNext
    /\ LET reset == \E p \in Panes : browser.dev /\ DevLogin(p, TRUE) IN
       IF reset
       THEN code' = [n \in 1..MaxAttempts |-> Absent] /\ issued' = Absent /\ app' = [app EXCEPT !.fault = TRUE]
       ELSE UNCHANGED <<code, issued, app>>
    /\ UNCHANGED <<door, agreed>>

ConnectNext ==
    \/ Browse
    \/ Challenged \/ ReadResourceMetadata \/ ReadServerMetadata \/ Call
    \/ \E metadata \in Metadata : Register(metadata)
    \/ \E p \in Panes :
          \/ \E ask \in Asks : SendBrowser(p, ask)
          \/ ApproveAuthorization(p) \/ DenyAuthorization(p) \/ ReceiveCallback(p)
    \/ \E uri \in {ask.uri : ask \in Asks}, verifier \in 1..MaxAttempts,
          resource \in {Absent} \cup {ask.resource : ask \in Asks} : Exchange(uri, verifier, resource)

ConnectSpec == ConnectInit /\ [][ConnectNext]_connectVars

-----------------------------------------------------------------------------
(* Properties *)

\* Codes and errors go to a redirect URI the client has registered and nowhere else, and a
\* token has the scope and the audience that somebody approved on the screen for that
\* request, whatever a client asks, and sends to the token endpoint.
ConsentBinds ==
    /\ \A p \in Panes : pane[p].at.page = "callback" => ~Unproven(pane[p].at.ask)
    /\ issued # Absent =>
          \E a \in agreed : a.challenge = issued.challenge /\ a.scope = issued.scope /\ a.resource = issued.resource

\* A client that follows the documents and makes no mistake is never turned away: the issuer
\* is where it fetched it from, in the callback too, and the token opens the door it came
\* to, behind a proxy, on a local port, and under a name the deployment does not go by.
FollowingGetsIn == Is("stopped") => app.fault

\* The protocol a door says it was reached by.
Protocol(http) == IF http.forwarded # Absent THEN http.forwarded ELSE http.proto

\* What that takes of the deployment: without a proxy the server speaks http; and who calls it
\* by another name than it goes by uses the protocol it is configured with.
SoundDoors ==
    \A http \in Doors :
        /\ http.forwarded = Absent => http.proto = "http"
        /\ ~Accepted(http) => Protocol(http) = http.configured.proto

\* And of the users: they come to the authorization page as the client sends them.
SentByClients ==
    \A one \in Browsers, ask \in Asks : {Authorize(ask), Login(Authorize(ask))} \cap one.opens = {}

\* "Come back to this exact authorization request after signing in"
\* (oauth/authorize/page.tsx:79).
RequestSurvivesSignIn == \A p \in Panes : pane[p].wish.page = "authorize" => ~pane[p].dropped
=============================================================================
