----------------------------- MODULE McpAccess -----------------------------
(***************************************************************************)
(* Who gets in from outside, and what the user is told of it.  A tool call *)
(* comes to the MCP endpoint (app/mcp/route.ts, server/mcp-auth.ts) with   *)
(* an OAuth token or an API key, or to the older REST actions              *)
(* (api/[[...path]]/route.ts) with a key; each await on its way to the     *)
(* tool is a step.  Meanwhile keys are issued and revoked on the settings  *)
(* page, tokens come and go (OAuthStore says how), and the connection      *)
(* panel (components/mcp-connect.tsx) asks until a client has arrived.     *)
(* The tools themselves are in MutationLog and Workspace.                  *)
(***************************************************************************)
EXTENDS Naturals

CONSTANTS
    Requests,  \* requests from AI clients at the same time
    Keys,      \* API tokens
    Tokens     \* OAuth tokens of one client

ASSUME McpAccessAssumption == Keys \cap Tokens = {}

VARIABLES
    key,      \* key -> its ApiToken row
    token,    \* token -> its OAuthToken row
    grant,    \* is there an OAuthGrant?
    request,  \* where each request stands
    panel,    \* what the connection panel shows
    poll,     \* the queries its question still waits for, and whether one found a client
    arrived   \* history: a client had arrived at some moment since the panel was opened

accessVars == <<key, token, grant, request, panel, poll, arrived>>
credentials == <<key, token, grant>>
shown == <<panel, poll>>

\* The hash of a key issued before the switch is bcrypt's until the key is used.  What has
\* expired counts as revoked; the tokens of a deleted grant are gone.
Key == [state : {"unissued", "live", "revoked"}, hash : {"bcrypt", "sha256"}, used : BOOLEAN]
Token == [state : {"unissued", "live", "revoked", "gone"}, kind : {"ACCESS", "REFRESH"},
          resource : BOOLEAN,   \* issued for this server?
          scope : BOOLEAN]      \* with every scope required?

Doors == {"mcp", "actions"}
AccessSteps == {"verify", "stamp", "lookup", "touch", "run", "refused"}
Request == [step : AccessSteps, door : Doors, by : Keys \cup Tokens,
            good : BOOLEAN]     \* history: did the credential open the door on arrival?
NoRequest == [step |-> "idle"]
NoPoll == [waits |-> {}, found |-> FALSE]

\* Does the credential, as it stands, open this door?
Opens(door, by) ==
    \/ by \in Keys /\ key[by].state = "live"
    \/ /\ by \in Tokens /\ door = "mcp"
       /\ token[by].state = "live" /\ token[by].kind = "ACCESS"
       /\ token[by].resource /\ token[by].scope

\* A client has arrived: by consent, or by using a key that is still live.
Arrived == grant \/ \E k \in Keys : key[k].state = "live" /\ key[k].used

AccessTypeOK ==
    /\ key \in [Keys -> Key] /\ token \in [Tokens -> Token] /\ grant \in BOOLEAN
    /\ request \in [Requests -> Request \cup {NoRequest}]
    /\ panel \in {"closed", "waiting", "connected"}
    /\ poll \in [waits : SUBSET {"grant", "key"}, found : BOOLEAN]
    /\ arrived \in BOOLEAN

\* Keys from before the switch of hashes are still about.
AccessInit ==
    /\ key \in [Keys -> {[state |-> "unissued", hash |-> "sha256", used |-> FALSE],
                         [state |-> "live", hash |-> "bcrypt", used |-> FALSE]}]
    /\ token = [x \in Tokens |-> [state |-> "unissued", kind |-> "ACCESS", resource |-> TRUE, scope |-> TRUE]]
    /\ grant = FALSE
    /\ request = [r \in Requests |-> NoRequest]
    /\ panel = "closed" /\ poll = NoPoll /\ arrived = FALSE

-----------------------------------------------------------------------------
(* The settings page, and the OAuth endpoints *)

Notice == arrived' = (arrived \/ Arrived')

CreateApiToken(k) ==
    /\ key[k].state = "unissued" /\ key' = [key EXCEPT ![k].state = "live"]
    /\ UNCHANGED <<token, grant, request, shown>> /\ Notice

RevokeApiToken(k) ==
    /\ key[k].state = "live" /\ key' = [key EXCEPT ![k].state = "revoked"]
    /\ UNCHANGED <<token, grant, request, shown>> /\ Notice

\* Consent makes the grant, before any token.
Approve == /\ ~grant /\ grant' = TRUE
           /\ UNCHANGED <<key, token, request, shown>> /\ Notice

\* issueTokens, for a code or a refresh token presented by the client.
IssueToken(x) ==
    /\ grant /\ token[x].state = "unissued"
    /\ \E kind \in {"ACCESS", "REFRESH"}, resource, scope \in BOOLEAN :
          token' = [token EXCEPT ![x] =
              [state |-> "live", kind |-> kind, resource |-> resource, scope |-> scope]]
    /\ UNCHANGED <<key, grant, request, shown>> /\ Notice

\* A token is revoked, replaced, or runs out.
EndToken(x) ==
    /\ token[x].state = "live" /\ token' = [token EXCEPT ![x].state = "revoked"]
    /\ UNCHANGED <<key, grant, request, shown>> /\ Notice

\* disconnectOAuthGrant: the grant is deleted, and every token with it.
DisconnectGrant ==
    /\ grant /\ grant' = FALSE
    /\ token' = [x \in Tokens |-> IF token[x].state = "unissued" THEN token[x] ELSE [token[x] EXCEPT !.state = "gone"]]
    /\ UNCHANGED <<key, request, shown>> /\ Notice

-----------------------------------------------------------------------------
(* A request *)

Move(r, step) == request' = [request EXCEPT ![r].step = step]
IsAt(r, step) == request[r].step = step

\* A client sends a credential it was given to one of the doors.
Present(r, door, by) ==
    /\ IsAt(r, "idle")
    /\ IF by \in Keys THEN key[by].state # "unissued" ELSE token[by].state # "unissued"
    /\ request' = [request EXCEPT ![r] =
          [step |-> IF door = "mcp" THEN "verify" ELSE "lookup",
           door |-> door, by |-> by, good |-> Opens(door, by)]]
    /\ UNCHANGED <<credentials, shown, arrived>>

\* Mutant: the kind of the token is not asked for.
MutVerify(r) ==
    /\ IsAt(r, "verify")
    /\ Move(r, IF request[r].by \in Tokens /\ token[request[r].by].state = "live"
               THEN "stamp" ELSE "lookup")
    /\ UNCHANGED <<credentials, shown, arrived>>

\* verifyAccessToken's query: what is no live access token is tried as a key.
Verify(r) ==
    LET x == request[r].by IN
    /\ IsAt(r, "verify")
    /\ Move(r, IF x \in Tokens /\ token[x].kind = "ACCESS" /\ token[x].state = "live"
               THEN "stamp" ELSE "lookup")
    /\ UNCHANGED <<credentials, shown, arrived>>

\* verifyAccessToken's stamp, which fails for a token that is gone by now, and
\* authenticateMcp's tests of the resource and the scope.
Stamp(r) ==
    LET x == request[r].by IN
    /\ IsAt(r, "stamp")
    /\ Move(r, IF token[x].state # "gone" /\ token[x].resource /\ token[x].scope THEN "run" ELSE "refused")
    /\ UNCHANGED <<credentials, shown, arrived>>

\* authenticateBearer's query, and the comparison under whichever hash the row has.
Lookup(r) ==
    /\ IsAt(r, "lookup")
    /\ Move(r, IF request[r].by \in Keys /\ key[request[r].by].state = "live" THEN "touch" ELSE "refused")
    /\ UNCHANGED <<credentials, shown, arrived>>

\* authenticateBearer's update, by id: it stamps the key and brings its hash up to date.
Touch(r) ==
    /\ IsAt(r, "touch") /\ Move(r, "run")
    /\ key' = [key EXCEPT ![request[r].by].used = TRUE, ![request[r].by].hash = "sha256"]
    /\ UNCHANGED <<token, grant, shown>> /\ Notice

\* The tool has run, or the refusal is answered; or a query failed on the way.
Answer(r) ==
    /\ request' = [request EXCEPT ![r] = NoRequest] /\ request[r] # NoRequest
    /\ UNCHANGED <<credentials, shown, arrived>>

-----------------------------------------------------------------------------
(* The connection panel *)

\* The page asks before it shows the panel, and the panel asks every POLL_MS while it
\* waits: two queries at the same time.
OpenPanel ==
    /\ panel' = "waiting" /\ poll' = [waits |-> {"grant", "key"}, found |-> FALSE]
    /\ arrived' = Arrived
    /\ UNCHANGED <<credentials, request>>

Ask ==
    /\ panel = "waiting" /\ poll.waits = {}
    /\ poll' = [waits |-> {"grant", "key"}, found |-> FALSE]
    /\ UNCHANGED <<credentials, request, panel, arrived>>

\* Mutant: a key that was never used counts.
MutFinds(query) == IF query = "grant" THEN grant ELSE \E k \in Keys : key[k].state = "live"

\* getMcpConnection's queries: any grant, and a live key that was used.
Finds(query) ==
    IF query = "grant" THEN grant ELSE \E k \in Keys : key[k].state = "live" /\ key[k].used

\* When both are answered the panel shows a client that was found, and asks no more.
Query(query) ==
    LET found == poll.found \/ Finds(query) IN
    /\ query \in poll.waits
    /\ poll' = IF poll.waits = {query} THEN NoPoll ELSE [waits |-> poll.waits \ {query}, found |-> found]
    /\ panel' = IF poll.waits = {query} /\ found THEN "connected" ELSE panel
    /\ UNCHANGED <<credentials, request, arrived>>

\* A failed poll, or one without a session, is passed over.
PollFails == /\ poll # NoPoll /\ poll' = NoPoll
             /\ UNCHANGED <<credentials, request, panel, arrived>>

ClosePanel == /\ panel # "closed" /\ panel' = "closed" /\ poll' = NoPoll
              /\ UNCHANGED <<credentials, request, arrived>>

AccessNext ==
    \/ \E k \in Keys : CreateApiToken(k) \/ RevokeApiToken(k)
    \/ Approve \/ DisconnectGrant
    \/ \E x \in Tokens : IssueToken(x) \/ EndToken(x)
    \/ \E r \in Requests :
          \/ \E door \in Doors, by \in Keys \cup Tokens : Present(r, door, by)
          \/ Verify(r) \/ Stamp(r) \/ Lookup(r) \/ Touch(r) \/ Answer(r)
    \/ OpenPanel \/ Ask \/ PollFails \/ ClosePanel
    \/ \E query \in {"grant", "key"} : Query(query)

AccessSpec == AccessInit /\ [][AccessNext]_accessVars

-----------------------------------------------------------------------------
(* Properties *)

\* A tool runs only for a request whose credential opened its door when the request
\* arrived, and a request is turned away only when its credential opens the door no
\* longer: credentials revoked, replaced or disconnected between two awaits, keys whose
\* hash another request has just replaced, and refresh tokens and keys shown at either
\* door included (mcp-auth.ts:33, auth-token.ts:24).
AdmittedExactly ==
    [][\A r \in Requests :
          /\ ~IsAt(r, "run") /\ request'[r].step = "run" => request[r].good
          /\ ~IsAt(r, "refused") /\ request'[r].step = "refused" => ~Opens(request[r].door, request[r].by)]_accessVars

\* The panel says connected only when, since it was opened, there was a grant or a live
\* key that a client had used; a key that was only issued does not count
\* (mcp-connection.ts:13).
ConnectedMeansArrived == panel = "connected" => arrived
=============================================================================
