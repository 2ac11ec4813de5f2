----------------------------- MODULE OAuthStore -----------------------------
(***************************************************************************)
(* The OAuth grant, authorization codes and tokens of one user and one     *)
(* client, and the requests that change them: the consent screen           *)
(* (authorize/actions.ts), the token and revocation endpoints, and the     *)
(* settings page's disconnect, over apps/web/src/server/oauth-store.ts.    *)
(*                                                                         *)
(* A request is a process and every awaited query one atomic step.  A row  *)
(* is named after the request that inserts it: a consent inserts at most   *)
(* one grant and one code, an exchange at most one pair of tokens.         *)
(***************************************************************************)
EXTENDS Naturals, FiniteSets

CONSTANTS
    Scopes,       \* normalised scope strings
    Reqs,         \* HTTP requests
    Null,         \* SQL NULL, and the row that does not exist
    MaxInFlight,  \* bound: requests being served at the same time
    Crashes,      \* may a request die between two awaits?
    Expiries      \* may codes and tokens expire?

Kinds    == {"ACCESS", "REFRESH"}
TokenIds == Reqs \X Kinds

Grant == [id : Reqs, scope : Scopes]

Code == [grant : Reqs, scope : Scopes, consumed : BOOLEAN, expired : BOOLEAN]

\* `code` is history: the authorization code the token descends from.
Token == [grant : Reqs, scope : Scopes, revoked : BOOLEAN, expired : BOOLEAN,
          replacedBy : Reqs \cup {Null}, code : Reqs]

ASSUME StoreAssumption ==
    /\ Scopes # {}
    /\ Null \notin Reqs \cup Grant \cup Code \cup Token
    /\ MaxInFlight \in Nat
    /\ Crashes \in BOOLEAN /\ Expiries \in BOOLEAN

VARIABLES
    grant,   \* the OAuthGrant row of the user and the client, or Null
    codes,   \* consent -> its OAuthAuthorizationCode row, or Null
    tokens,  \* exchange and kind -> OAuthToken row, or Null
    pc,      \* where each request is: an await, or its reply
    req,     \* each request's input and local variables
    spent,   \* history: <<p, s>> when p issued tokens for the code or token of s
    alone,   \* history: the requests that no other request has overlapped
    cut      \* history: the consents on record at some disconnect

vars == <<grant, codes, tokens, pc, req, spent, alone, cut>>

Replies == {"ok", "invalid", "reused", "error", "lost"}
Awaits  == {"narrow", "upsert", "code", "load", "replay", "revokeAll",
            "claim", "issue", "find", "record", "revokeOne"}

Request == [op     : {"approve", "redeem", "refresh", "revoke", "disconnect"},
            scope  : Scopes,
            grant  : Reqs \cup {Null},   \* the grant row worked on
            code   : Reqs \cup {Null},   \* the code the session descends from
            source : Reqs \cup {Null},   \* whose code or token is presented
            kind   : Kinds,
            good   : BOOLEAN,            \* client, redirect URI, verifier and resource match
            next   : Reqs \cup {Null}]

Blank == [op |-> "approve", scope |-> CHOOSE s \in Scopes : TRUE, grant |-> Null,
          code |-> Null, source |-> Null, kind |-> "ACCESS", good |-> TRUE, next |-> Null]

InFlight == {p \in Reqs : pc[p] \in Awaits}

At(p, step)   == pc[p] = step
Goto(p, step) == pc' = [pc EXCEPT ![p] = step]
HasGrant(g)   == grant # Null /\ grant.id = g

Init ==
    /\ grant = Null
    /\ codes = [p \in Reqs |-> Null]
    /\ tokens = [t \in TokenIds |-> Null]
    /\ pc = [p \in Reqs |-> "idle"]
    /\ req = [p \in Reqs |-> Blank]
    /\ spent = {}
    /\ alone = {}
    /\ cut = {}

\* Mutant: the refresh tokens of the grant are forgotten.
MutRevokedAll(g) ==
    [t \in TokenIds |-> IF tokens[t] # Null /\ tokens[t].grant = g /\ t[2] = "ACCESS"
                        THEN [tokens[t] EXCEPT !.revoked = TRUE] ELSE tokens[t]]

\* revokeGrantTokens.
RevokedAll(g) ==
    [t \in TokenIds |-> IF tokens[t] # Null /\ tokens[t].grant = g
                        THEN [tokens[t] EXCEPT !.revoked = TRUE] ELSE tokens[t]]

\* The pair of rows issueTokens inserts for request p.
NewToken(q) == [grant |-> q.grant, scope |-> q.scope, revoked |-> FALSE,
                expired |-> FALSE, replacedBy |-> Null, code |-> q.code]

(***************************************************************************)
(* A request arrives; its handler's first query of these tables is part of *)
(* the step.  One that is answered without a change to them is left out.   *)
(***************************************************************************)
Arrive(p, step, q) ==
    /\ pc[p] = "idle"
    /\ Cardinality(InFlight) < MaxInFlight
    /\ Goto(p, step)
    /\ req' = [req EXCEPT ![p] = q]
    /\ alone' = IF InFlight = {} THEN alone \cup {p} ELSE alone \ InFlight
    /\ UNCHANGED spent

\* approveAuthorization: upsertGrant looks for the standing consent.
StartApprove(p) ==
    \E s \in Scopes :
        LET q == [Blank EXCEPT !.op = "approve", !.scope = s] IN
        /\ IF grant # Null /\ grant.scope # s
           THEN Arrive(p, "narrow", [q EXCEPT !.grant = grant.id])
           ELSE Arrive(p, "upsert", q)
        /\ UNCHANGED <<grant, codes, tokens, cut>>

\* grant_type=authorization_code: the claim of consumeAuthorizationCode.  The
\* client, the redirect URI, the verifier and the resource are looked at later.
StartRedeem(p) ==
    \E c \in {c \in Reqs : codes[c] # Null}, good \in BOOLEAN :
        LET won == ~codes[c].consumed /\ ~codes[c].expired IN
        /\ Arrive(p, IF won THEN "load" ELSE "replay",
                  [Blank EXCEPT !.op = "redeem", !.source = c, !.code = c, !.good = good])
        /\ codes' = [codes EXCEPT ![c].consumed = @ \/ won]
        /\ UNCHANGED <<grant, tokens, cut>>

\* grant_type=refresh_token: rotateRefreshToken reads the row.  A token another
\* client presents, and one revoked or expired but not replaced, is refused.
StartRefresh(p) ==
    \E t \in {t \in Reqs : tokens[<<t, "REFRESH">>] # Null} :
        LET row == tokens[<<t, "REFRESH">>] IN
        /\ row.replacedBy # Null \/ (~row.revoked /\ ~row.expired)
        /\ Arrive(p, IF row.replacedBy # Null THEN "revokeAll" ELSE "claim",
                  [Blank EXCEPT !.op = "refresh", !.source = t, !.code = row.code,
                                !.grant = row.grant, !.scope = row.scope])
        /\ UNCHANGED <<grant, codes, tokens, cut>>

\* The revocation endpoint: revokeToken reads the row.
StartRevoke(p) ==
    \E t \in {t \in TokenIds : tokens[t] # Null} :
        /\ Arrive(p, "revokeOne", [Blank EXCEPT !.op = "revoke", !.source = t[1], !.kind = t[2]])
        /\ UNCHANGED <<grant, codes, tokens, cut>>

\* The consents that are past writing the grant row, or died on the way.
Recorded == {c \in Reqs : req[c].op = "approve" /\ pc[c] \notin {"idle", "narrow", "upsert"}}

\* Mutant: disconnecting deletes the tokens and leaves the grant's codes.
MutDisconnect(p) ==
    /\ grant # Null
    /\ Arrive(p, "ok", [Blank EXCEPT !.op = "disconnect"])
    /\ grant' = Null
    /\ cut' = cut \cup Recorded
    /\ tokens' = [t \in TokenIds |->
                    IF tokens[t] # Null /\ tokens[t].grant = grant.id THEN Null ELSE tokens[t]]
    /\ UNCHANGED codes

\* disconnectOAuthGrant: revokeGrant deletes the row, and with it (onDelete:
\* Cascade) its codes and tokens.
Disconnect(p) ==
    /\ grant # Null
    /\ Arrive(p, "ok", [Blank EXCEPT !.op = "disconnect"])
    /\ grant' = Null
    /\ cut' = cut \cup Recorded
    /\ codes' = [c \in Reqs |->
                    IF codes[c] # Null /\ codes[c].grant = grant.id THEN Null ELSE codes[c]]
    /\ tokens' = [t \in TokenIds |->
                    IF tokens[t] # Null /\ tokens[t].grant = grant.id THEN Null ELSE tokens[t]]

Start(p) ==
    StartApprove(p) \/ StartRedeem(p) \/ StartRefresh(p) \/ StartRevoke(p) \/ Disconnect(p)

(***************************************************************************)
(* The awaits of approveAuthorization.                                     *)
(***************************************************************************)

\* The consent's scope differs from the one there was: revokeGrantTokens.
Narrow(p) ==
    /\ At(p, "narrow")
    /\ Goto(p, "upsert")
    /\ tokens' = RevokedAll(req[p].grant)
    /\ UNCHANGED <<grant, codes, req, spent, alone, cut>>

Upsert(p) ==
    LET row == IF grant = Null THEN [id |-> p, scope |-> req[p].scope]
               ELSE [grant EXCEPT !.scope = req[p].scope]
    IN /\ At(p, "upsert")
       /\ Goto(p, "code")
       /\ grant' = row
       /\ req' = [req EXCEPT ![p].grant = row.id]
       /\ UNCHANGED <<codes, tokens, spent, alone, cut>>

\* issueAuthorizationCode.  A code of a deleted grant violates the foreign key.
IssueCode(p) ==
    LET q == req[p] IN
    /\ At(p, "code")
    /\ IF HasGrant(q.grant)
       THEN /\ Goto(p, "ok")
            /\ codes' = [codes EXCEPT ![p] = [grant |-> q.grant, scope |-> q.scope,
                                              consumed |-> FALSE, expired |-> FALSE]]
       ELSE Goto(p, "error") /\ UNCHANGED codes
    /\ UNCHANGED <<grant, tokens, req, spent, alone, cut>>

(***************************************************************************)
(* The awaits of the token endpoint.                                       *)
(***************************************************************************)

\* The claimed code is read back with its grant, and the request checked.
Load(p) ==
    LET row == codes[req[p].source] IN
    /\ At(p, "load")
    /\ IF row # Null /\ req[p].good
       THEN /\ Goto(p, "issue")
            /\ req' = [req EXCEPT ![p].grant = row.grant, ![p].scope = row.scope]
       ELSE Goto(p, "invalid") /\ UNCHANGED req
    /\ UNCHANGED <<grant, codes, tokens, spent, alone, cut>>

\* The claim of a code changed no row: was it used before?
Replay(p) ==
    LET row == codes[req[p].source] IN
    /\ At(p, "replay")
    /\ IF row # Null /\ row.consumed
       THEN Goto(p, "revokeAll") /\ req' = [req EXCEPT ![p].grant = row.grant]
       ELSE Goto(p, "invalid") /\ UNCHANGED req
    /\ UNCHANGED <<grant, codes, tokens, spent, alone, cut>>

\* A code or refresh token is presented again: revokeGrantTokens.
RevokeAll(p) ==
    /\ At(p, "revokeAll")
    /\ Goto(p, "reused")
    /\ tokens' = RevokedAll(req[p].grant)
    /\ UNCHANGED <<grant, codes, req, spent, alone, cut>>

\* Mutant: the claim trusts the row read before it.
MutClaim(p) ==
    LET t == <<req[p].source, "REFRESH">> IN
    /\ At(p, "claim")
    /\ IF tokens[t] # Null
       THEN Goto(p, "issue") /\ tokens' = [tokens EXCEPT ![t].revoked = TRUE]
       ELSE Goto(p, "revokeAll") /\ UNCHANGED tokens
    /\ UNCHANGED <<grant, codes, req, spent, alone, cut>>

\* Mutant: rotation issues the new pair and leaves the old token usable.
MutLazyClaim(p) ==
    LET t == <<req[p].source, "REFRESH">> IN
    /\ At(p, "claim")
    /\ IF tokens[t] # Null /\ ~tokens[t].revoked /\ tokens[t].replacedBy = Null
       THEN Goto(p, "issue")
       ELSE Goto(p, "revokeAll")
    /\ UNCHANGED <<grant, codes, tokens, req, spent, alone, cut>>

\* rotateRefreshToken claims the token by revoking it, if nobody else has.
Claim(p) ==
    LET t == <<req[p].source, "REFRESH">> IN
    /\ At(p, "claim")
    /\ IF tokens[t] # Null /\ ~tokens[t].revoked /\ tokens[t].replacedBy = Null
       THEN Goto(p, "issue") /\ tokens' = [tokens EXCEPT ![t].revoked = TRUE]
       ELSE Goto(p, "revokeAll") /\ UNCHANGED tokens
    /\ UNCHANGED <<grant, codes, req, spent, alone, cut>>

\* issueTokens: one createMany of both rows, refused when the grant is gone.
Issue(p) ==
    LET q == req[p] IN
    /\ At(p, "issue")
    /\ IF HasGrant(q.grant)
       THEN /\ Goto(p, IF q.op = "redeem" THEN "ok" ELSE "find")
            /\ tokens' = [t \in TokenIds |-> IF t[1] = p THEN NewToken(q) ELSE tokens[t]]
            /\ spent' = spent \cup {<<p, q.source>>}
       ELSE Goto(p, "error") /\ UNCHANGED <<tokens, spent>>
    /\ UNCHANGED <<grant, codes, req, alone, cut>>

\* Mutant: the hash, not the id, of the successor is looked up.
MutFind(p) ==
    /\ At(p, "find")
    /\ Goto(p, "record")
    /\ req' = [req EXCEPT ![p].next = IF tokens[<<p, "REFRESH">>] # Null THEN <<p, "REFRESH">> ELSE Null]
    /\ UNCHANGED <<grant, codes, tokens, spent, alone, cut>>

\* The successor is looked up by its hash.
Find(p) ==
    /\ At(p, "find")
    /\ Goto(p, "record")
    /\ req' = [req EXCEPT ![p].next = IF tokens[<<p, "REFRESH">>] # Null THEN p ELSE Null]
    /\ UNCHANGED <<grant, codes, tokens, spent, alone, cut>>

\* ... and recorded in the token it replaces.
Record(p) ==
    LET t == <<req[p].source, "REFRESH">> IN
    /\ At(p, "record")
    /\ IF tokens[t] # Null
       THEN Goto(p, "ok") /\ tokens' = [tokens EXCEPT ![t].replacedBy = req[p].next]
       ELSE Goto(p, "error") /\ UNCHANGED tokens
    /\ UNCHANGED <<grant, codes, req, spent, alone, cut>>

\* revokeToken's update.
RevokeOne(p) ==
    LET t == <<req[p].source, req[p].kind>> IN
    /\ At(p, "revokeOne")
    /\ IF tokens[t] # Null
       THEN Goto(p, "ok") /\ tokens' = [tokens EXCEPT ![t].revoked = TRUE]
       ELSE Goto(p, "error") /\ UNCHANGED tokens
    /\ UNCHANGED <<grant, codes, req, spent, alone, cut>>

Serve(p) ==
    \/ Narrow(p) \/ Upsert(p) \/ IssueCode(p)
    \/ Load(p) \/ Replay(p) \/ RevokeAll(p)
    \/ Claim(p) \/ Issue(p) \/ Find(p) \/ Record(p) \/ RevokeOne(p)

(***************************************************************************)
(* The environment.                                                        *)
(***************************************************************************)
Crash(p) ==
    /\ Crashes
    /\ pc[p] \in Awaits
    /\ Goto(p, "lost")
    /\ UNCHANGED <<grant, codes, tokens, req, spent, alone, cut>>

\* expiresAt passes.
ExpireCode(c) ==
    /\ Expiries
    /\ codes[c] # Null /\ ~codes[c].expired
    /\ codes' = [codes EXCEPT ![c].expired = TRUE]
    /\ UNCHANGED <<grant, tokens, pc, req, spent, alone, cut>>

ExpireToken(t) ==
    /\ Expiries
    /\ tokens[t] # Null /\ ~tokens[t].expired
    /\ tokens' = [tokens EXCEPT ![t].expired = TRUE]
    /\ UNCHANGED <<grant, codes, pc, req, spent, alone, cut>>

Next ==
    \/ \E p \in Reqs : Start(p) \/ Serve(p) \/ Crash(p)
    \/ \E c \in Reqs : ExpireCode(c)
    \/ \E t \in TokenIds : ExpireToken(t)

Spec == Init /\ [][Next]_vars

(***************************************************************************)
(* Properties.                                                             *)
(***************************************************************************)
TypeOK ==
    /\ grant \in Grant \cup {Null}
    /\ codes \in [Reqs -> Code \cup {Null}]
    /\ tokens \in [TokenIds -> Token \cup {Null}]
    /\ pc \in [Reqs -> {"idle"} \cup Awaits \cup Replies]
    /\ req \in [Reqs -> Request]
    /\ spent \subseteq Reqs \X Reqs
    /\ alone \subseteq Reqs
    /\ cut \subseteq Reqs

\* Two redemptions of one code, or of one refresh token, never both get tokens.
SpentOnce == \A a, b \in spent : a[2] = b[2] => a = b

Live(t) == tokens[t] # Null /\ ~tokens[t].revoked

\* However redemptions and rotations interleave, retry and die, one code has at
\* most one live refresh token: a client's session never forks.
OneLiveRefresh ==
    \A p, q \in Reqs :
        /\ Live(<<p, "REFRESH">>) /\ Live(<<q, "REFRESH">>)
        /\ tokens[<<p, "REFRESH">>].code = tokens[<<q, "REFRESH">>].code
        => p = q

\* Disconnecting ends every session there is and every one about to begin: a code
\* that was to be inserted for a recorded consent, an exchange between its claim
\* and its tokens, a rotation or a retry leave no row of that consent, even when
\* the user has consented anew.  A consent still to be recorded at the disconnect
\* is excepted: it makes a grant of its own, as one given afterwards does.
DisconnectEndsAccess ==
    \A c \in cut :
        /\ codes[c] = Null
        /\ \A t \in TokenIds : tokens[t] # Null => tokens[t].code # c

\* A code or refresh token presented again, while nothing else was being served,
\* has ended its session for good.
ReuseEndsSession ==
    \A p \in alone :
        pc[p] = "reused" =>
            \A t \in TokenIds : tokens[t] # Null /\ tokens[t].code = req[p].code => ~Live(t)
=============================================================================
