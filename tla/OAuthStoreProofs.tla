-------------------------- MODULE OAuthStoreProofs --------------------------
(***************************************************************************)
(* Proofs about OAuthStore, for any requests and scopes, any number of     *)
(* requests in flight, with crashes and expiry or without.                 *)
(***************************************************************************)
EXTENDS OAuthStore, TLAPS

(***************************************************************************)
(* The inductive invariants.                                               *)
(***************************************************************************)
Exchanges == {"redeem", "refresh"}

\* What a request that waits at an await may rely on.
RequestWellFormed(p) ==
    /\ pc[p] \in {"narrow", "upsert", "code"} => req[p].op = "approve"
    /\ pc[p] \in {"load", "replay"} => req[p].op = "redeem"
    /\ pc[p] \in {"claim", "find", "record"} => req[p].op = "refresh"
    /\ pc[p] = "issue" => req[p].op \in Exchanges
    /\ pc[p] = "revokeOne" => req[p].op = "revoke"
    /\ req[p].op \in Exchanges => req[p].source \in Reqs /\ req[p].code \in Reqs
    /\ req[p].op = "revoke" => req[p].source \in Reqs

TInv == TypeOK /\ \A p \in Reqs : RequestWellFormed(p)

\* A consent that has made its code, and an exchange that has issued its tokens.
CodeMade(c) == req[c].op = "approve" /\ pc[c] = "ok"
Issued(p)   == req[p].op \in Exchanges /\ pc[p] \in {"find", "record", "ok", "error", "lost"}

\* Codes, tokens and exchanges form trees, each rooted in the consent that made the code.
Lineage ==
    /\ \A c \in Reqs : codes[c] # Null => CodeMade(c)
    /\ \A p \in Reqs, k \in Kinds :
           tokens[<<p, k>>] # Null => Issued(p) /\ tokens[<<p, k>>].code = req[p].code
    /\ \A p \in Reqs : req[p].op \in Exchanges => CodeMade(req[p].code)
    /\ \A p \in Reqs : req[p].op = "redeem" => req[p].code = req[p].source
    /\ \A p \in Reqs : req[p].op = "refresh" =>
           Issued(req[p].source) /\ req[p].code = req[req[p].source].code
    /\ \A p, s \in Reqs : <<p, s>> \in spent => Issued(p) /\ req[p].source = s

\* An exchange owns what it presented from the claim of it on.
Owner(p) == \/ pc[p] \in {"load", "issue"}
            \/ <<p, req[p].source>> \in spent

\* What is owned is used up, and has one owner.
Ownership ==
    /\ \A p \in Reqs : Owner(p) /\ req[p].op = "redeem" =>
           codes[req[p].source] = Null \/ codes[req[p].source].consumed
    /\ \A p \in Reqs : Owner(p) /\ req[p].op = "refresh" => ~Live(<<req[p].source, "REFRESH">>)
    /\ \A p, q \in Reqs : Owner(p) /\ Owner(q) /\ req[p].source = req[q].source => p = q

\* A session is carried by its live refresh token, or by the exchange about to issue one.
Carrier(p) == pc[p] \in {"load", "issue"} \/ Live(<<p, "REFRESH">>)

\* A session has one carrier, and none before its code is claimed.
Carried ==
    /\ \A p, q \in Reqs : Carrier(p) /\ Carrier(q) /\ req[p].code = req[q].code => p = q
    /\ \A p \in Reqs : Carrier(p) =>
           codes[req[p].code] = Null \/ codes[req[p].code].consumed

Sessions == Lineage /\ Ownership /\ Carried

(***************************************************************************)
(* Type correctness.                                                       *)
(***************************************************************************)
LEMMA BlankType == Blank \in Request /\ Blank.op = "approve"
BY StoreAssumption DEF Blank, Request, Kinds

Steps == {"idle"} \cup Awaits \cup Replies

LEMMA TInvInit == Init => TInv
BY BlankType, StoreAssumption DEF Init, TInv, TypeOK, RequestWellFormed, Exchanges

\* A request that arrives well formed leaves the others as they are.
LEMMA Arrival ==
    ASSUME TInv, NEW p \in Reqs, NEW step \in Awaits \cup Replies, NEW q \in Request,
           Arrive(p, step, q)
    PROVE  /\ pc[p] = "idle"
           /\ pc' = [pc EXCEPT ![p] = step] /\ pc' \in [Reqs -> Steps]
           /\ req' = [req EXCEPT ![p] = q] /\ req' \in [Reqs -> Request]
           /\ spent' = spent /\ spent' \subseteq Reqs \X Reqs
           /\ alone' \subseteq Reqs
<1>1. InFlight \subseteq Reqs
  BY DEF InFlight
<1>2. QED
  BY <1>1 DEF Arrive, Goto, TInv, TypeOK, Steps

LEMMA RevokedAllType ==
    ASSUME TypeOK, NEW g
    PROVE  /\ RevokedAll(g) \in [TokenIds -> Token \cup {Null}]
           /\ \A t \in TokenIds :
                 /\ RevokedAll(g)[t] = Null <=> tokens[t] = Null
                 /\ tokens[t] # Null => /\ RevokedAll(g)[t].grant = tokens[t].grant
                                        /\ RevokedAll(g)[t].code = tokens[t].code
                                        /\ tokens[t].revoked => RevokedAll(g)[t].revoked
BY StoreAssumption DEF TypeOK, RevokedAll, Token

LEMMA TInvStart ==
    ASSUME TInv, NEW p \in Reqs, Start(p)
    PROVE  TInv'
<1>0. cut' \subseteq Reqs
  BY DEF Start, StartApprove, StartRedeem, StartRefresh, StartRevoke, Disconnect, Recorded, TInv, TypeOK
<1>1. CASE StartApprove(p)
  <2>1. PICK s \in Scopes :
            /\ IF grant # Null /\ grant.scope # s
               THEN Arrive(p, "narrow", [Blank EXCEPT !.op = "approve", !.scope = s, !.grant = grant.id])
               ELSE Arrive(p, "upsert", [Blank EXCEPT !.op = "approve", !.scope = s])
            /\ UNCHANGED <<grant, codes, tokens>>
    BY <1>1 DEF StartApprove
  <2>2. PICK q \in Request, step \in {"narrow", "upsert"} : q.op = "approve" /\ Arrive(p, step, q)
    <3>1. CASE grant # Null /\ grant.scope # s
      <4>1. [Blank EXCEPT !.op = "approve", !.scope = s, !.grant = grant.id] \in Request
        BY <3>1, BlankType DEF Request, TInv, TypeOK, Grant
      <4>2. QED
        BY <2>1, <3>1, <4>1, BlankType DEF Request
    <3>2. CASE ~(grant # Null /\ grant.scope # s)
      <4>1. [Blank EXCEPT !.op = "approve", !.scope = s] \in Request
        BY BlankType DEF Request
      <4>2. QED
        BY <2>1, <3>2, <4>1, BlankType DEF Request
    <3>3. QED
      BY <3>1, <3>2
  <2>3. step \in Awaits
    BY <2>2 DEF Awaits
  <2>4. QED
    BY <2>1, <2>2, <2>3, <1>0, Arrival DEF TInv, TypeOK, RequestWellFormed, Exchanges, Steps
<1>2. CASE StartRedeem(p)
  <2>1. PICK c \in {c \in Reqs : codes[c] # Null}, good \in BOOLEAN :
            /\ Arrive(p, IF ~codes[c].consumed /\ ~codes[c].expired THEN "load" ELSE "replay",
                      [Blank EXCEPT !.op = "redeem", !.source = c, !.code = c, !.good = good])
            /\ codes' = [codes EXCEPT ![c].consumed = @ \/ (~codes[c].consumed /\ ~codes[c].expired)]
            /\ UNCHANGED <<grant, tokens>>
    BY <1>2 DEF StartRedeem
  <2>2. codes' \in [Reqs -> Code \cup {Null}]
    BY <2>1 DEF TInv, TypeOK, Code
  <2>3. PICK q \in Request, step \in {"load", "replay"} :
            q.op = "redeem" /\ q.source = c /\ q.code = c /\ Arrive(p, step, q)
    <3>1. [Blank EXCEPT !.op = "redeem", !.source = c, !.code = c, !.good = good] \in Request
      BY BlankType DEF Request
    <3>2. QED
      BY <2>1, <3>1, BlankType DEF Request
  <2>4. step \in Awaits
    BY <2>3 DEF Awaits
  <2>5. QED
    BY <2>1, <2>2, <2>3, <2>4, <1>0, Arrival DEF TInv, TypeOK, RequestWellFormed, Exchanges, Steps
<1>3. CASE StartRefresh(p)
  <2>1. PICK t \in {t \in Reqs : tokens[<<t, "REFRESH">>] # Null} :
            /\ Arrive(p, IF tokens[<<t, "REFRESH">>].replacedBy # Null THEN "revokeAll" ELSE "claim",
                      [Blank EXCEPT !.op = "refresh", !.source = t,
                                    !.code = tokens[<<t, "REFRESH">>].code,
                                    !.grant = tokens[<<t, "REFRESH">>].grant,
                                    !.scope = tokens[<<t, "REFRESH">>].scope])
            /\ UNCHANGED <<grant, codes, tokens>>
    BY <1>3 DEF StartRefresh
  <2>2. tokens[<<t, "REFRESH">>] \in Token
    BY <2>1 DEF TInv, TypeOK, TokenIds, Kinds
  <2>3. PICK q \in Request, step \in {"revokeAll", "claim"} :
            /\ q.op = "refresh" /\ q.source = t /\ q.code = tokens[<<t, "REFRESH">>].code
            /\ Arrive(p, step, q)
    <3>1. [Blank EXCEPT !.op = "refresh", !.source = t,
                        !.code = tokens[<<t, "REFRESH">>].code,
                        !.grant = tokens[<<t, "REFRESH">>].grant,
                        !.scope = tokens[<<t, "REFRESH">>].scope] \in Request
      BY <2>2, BlankType DEF Request, Token
    <3>2. QED
      BY <2>1, <3>1, BlankType DEF Request
  <2>4. step \in Awaits /\ q.code \in Reqs
    BY <2>2, <2>3 DEF Awaits, Token
  <2>5. QED
    BY <2>1, <2>3, <2>4, <1>0, Arrival DEF TInv, TypeOK, RequestWellFormed, Exchanges, Steps
<1>4. CASE StartRevoke(p)
  <2>1. PICK t \in {t \in TokenIds : tokens[t] # Null} :
            /\ Arrive(p, "revokeOne", [Blank EXCEPT !.op = "revoke", !.source = t[1], !.kind = t[2]])
            /\ UNCHANGED <<grant, codes, tokens>>
    BY <1>4 DEF StartRevoke
  <2>2. t[1] \in Reqs /\ t[2] \in Kinds
    BY <2>1 DEF TokenIds
  <2>3. PICK q \in Request : q.op = "revoke" /\ q.source = t[1] /\ Arrive(p, "revokeOne", q)
    <3>1. [Blank EXCEPT !.op = "revoke", !.source = t[1], !.kind = t[2]] \in Request
      BY <2>2, BlankType DEF Request
    <3>2. QED
      BY <2>1, <3>1, BlankType DEF Request
  <2>4. "revokeOne" \in Awaits
    BY DEF Awaits
  <2>5. QED
    BY <2>1, <2>2, <2>3, <2>4, <1>0, Arrival DEF TInv, TypeOK, RequestWellFormed, Exchanges, Steps
<1>5. CASE Disconnect(p)
  <2>1. PICK q \in Request : q.op = "disconnect" /\ Arrive(p, "ok", q)
    <3>1. [Blank EXCEPT !.op = "disconnect"] \in Request
      BY BlankType DEF Request
    <3>2. QED
      BY <1>5, <3>1, BlankType DEF Disconnect, Request
  <2>2. "ok" \in Replies
    BY DEF Replies
  <2>3. grant' = Null /\ codes' \in [Reqs -> Code \cup {Null}] /\ tokens' \in [TokenIds -> Token \cup {Null}]
    BY <1>5 DEF Disconnect, TInv, TypeOK
  <2>4. QED
    BY <2>1, <2>2, <2>3, <1>0, Arrival DEF TInv, TypeOK, RequestWellFormed, Exchanges, Steps
<1>6. QED
  BY <1>1, <1>2, <1>3, <1>4, <1>5 DEF Start

\* An await leaves every request's input what it was.
SameInput(r) == /\ req'[r].op = req[r].op /\ req'[r].source = req[r].source
                /\ req'[r].code = req[r].code

\* A row that is revoked is still a row.
LEMMA RevokedType ==
    ASSUME TypeOK, NEW t \in TokenIds, tokens[t] # Null
    PROVE  [tokens EXCEPT ![t].revoked = TRUE] \in [TokenIds -> Token \cup {Null}]
<1>1. [tokens[t] EXCEPT !.revoked = TRUE] \in Token
  BY DEF TypeOK, Token
<1>2. QED
  BY <1>1 DEF TypeOK

LEMMA TInvServe ==
    ASSUME TInv, NEW p \in Reqs, Serve(p)
    PROVE  TInv'
<1> USE StoreAssumption DEF TInv, TypeOK, RequestWellFormed, Goto, At, Awaits, Replies, Exchanges
<1>1. CASE Narrow(p)
  BY <1>1, RevokedAllType DEF Narrow
<1>2. CASE Upsert(p)
  <2>1. grant' \in Grant /\ req' \in [Reqs -> Request]
    BY <1>2 DEF Upsert, Grant, Request
  <2>2. QED
    BY <1>2, <2>1 DEF Upsert
<1>3. CASE IssueCode(p)
  <2>1. codes' \in [Reqs -> Code \cup {Null}]
    <3>1. CASE HasGrant(req[p].grant)
      <4>1. [grant |-> req[p].grant, scope |-> req[p].scope, consumed |-> FALSE, expired |-> FALSE] \in Code
        BY <3>1 DEF HasGrant, Grant, Code, Request
      <4>2. QED
        BY <1>3, <3>1, <4>1 DEF IssueCode
    <3>2. CASE ~HasGrant(req[p].grant)
      BY <1>3, <3>2 DEF IssueCode
    <3>3. QED
      BY <3>1, <3>2
  <2>2. PICK step \in {"ok", "error"} : Goto(p, step)
    BY <1>3 DEF IssueCode
  <2>3. UNCHANGED <<grant, tokens, req, spent, alone, cut>>
    BY <1>3 DEF IssueCode
  <2>4. QED
    BY <2>1, <2>2, <2>3
<1>4. CASE Load(p)
  <2>1. req' \in [Reqs -> Request]
    BY <1>4 DEF Load, Code, Request
  <2>2. \A r \in Reqs : SameInput(r)
    BY <1>4 DEF Load, Request, SameInput
  <2>3. PICK step \in {"issue", "invalid"} : Goto(p, step)
    BY <1>4 DEF Load
  <2>4. req[p].op = "redeem" /\ UNCHANGED <<grant, codes, tokens, spent, alone, cut>>
    BY <1>4 DEF Load
  <2>5. QED
    BY <2>1, <2>2, <2>3, <2>4 DEF SameInput
<1>5. CASE Replay(p)
  <2>1. req' \in [Reqs -> Request]
    BY <1>5 DEF Replay, Code, Request
  <2>2. \A r \in Reqs : SameInput(r)
    BY <1>5 DEF Replay, Request, SameInput
  <2>3. PICK step \in {"revokeAll", "invalid"} : Goto(p, step)
    BY <1>5 DEF Replay
  <2>4. UNCHANGED <<grant, codes, tokens, spent, alone, cut>>
    BY <1>5 DEF Replay
  <2>5. QED
    BY <2>1, <2>2, <2>3, <2>4 DEF SameInput
<1>6. CASE RevokeAll(p)
  BY <1>6, RevokedAllType DEF RevokeAll
<1>7. CASE Claim(p)
  <2>1. <<req[p].source, "REFRESH">> \in TokenIds
    BY <1>7 DEF Claim, TokenIds, Kinds
  <2>2. tokens' \in [TokenIds -> Token \cup {Null}]
    <3>1. CASE tokens' = tokens
      BY <3>1
    <3>2. CASE tokens[<<req[p].source, "REFRESH">>] # Null
               /\ tokens' = [tokens EXCEPT ![<<req[p].source, "REFRESH">>].revoked = TRUE]
      BY <2>1, <3>2, RevokedType
    <3>3. QED
      BY <1>7, <3>1, <3>2 DEF Claim
  <2>3. PICK step \in {"issue", "revokeAll"} : Goto(p, step)
    BY <1>7 DEF Claim
  <2>4. req[p].op = "refresh" /\ UNCHANGED <<grant, codes, req, spent, alone, cut>>
    BY <1>7 DEF Claim
  <2>5. QED
    BY <2>2, <2>3, <2>4
<1>8. CASE Issue(p)
  <2>1. HasGrant(req[p].grant) => NewToken(req[p]) \in Token
    BY <1>8 DEF Issue, HasGrant, NewToken, Token, Grant, Request
  <2>2. tokens' \in [TokenIds -> Token \cup {Null}] /\ spent' \subseteq Reqs \X Reqs
    BY <1>8, <2>1 DEF Issue, TokenIds
  <2>3. QED
    BY <1>8, <2>2 DEF Issue
<1>9. CASE Find(p)
  <2>1. req' \in [Reqs -> Request]
    BY <1>9 DEF Find, Request
  <2>2. QED
    BY <1>9, <2>1 DEF Find
<1>10. CASE Record(p)
  <2>1. tokens' \in [TokenIds -> Token \cup {Null}]
    BY <1>10 DEF Record, Token, Request
  <2>2. QED
    BY <1>10, <2>1 DEF Record
<1>11. CASE RevokeOne(p)
  <2>1. <<req[p].source, req[p].kind>> \in TokenIds
    BY <1>11 DEF RevokeOne, TokenIds, Request
  <2>2. tokens' \in [TokenIds -> Token \cup {Null}]
    BY <1>11, <2>1, RevokedType DEF RevokeOne
  <2>3. PICK step \in {"ok", "error"} : Goto(p, step)
    BY <1>11 DEF RevokeOne
  <2>4. UNCHANGED <<grant, codes, req, spent, alone, cut>>
    BY <1>11 DEF RevokeOne
  <2>5. QED
    BY <2>2, <2>3, <2>4
<1>12. QED
  BY <1>1, <1>2, <1>3, <1>4, <1>5, <1>6, <1>7, <1>8, <1>9, <1>10, <1>11 DEF Serve

LEMMA TInvNext == TInv /\ [Next]_vars => TInv'
<1> SUFFICES ASSUME TInv, [Next]_vars PROVE TInv'
  OBVIOUS
<1>1. CASE \E p \in Reqs : Start(p)
  BY <1>1, TInvStart
<1>2. CASE \E p \in Reqs : Serve(p)
  BY <1>2, TInvServe
<1>3. ASSUME NEW p \in Reqs, Crash(p) PROVE TInv'
  BY <1>3 DEF Crash, Goto, TInv, TypeOK, RequestWellFormed, Awaits, Replies
<1>4. ASSUME NEW c \in Reqs, ExpireCode(c) PROVE TInv'
  <2>1. codes' \in [Reqs -> Code \cup {Null}]
    BY <1>4 DEF ExpireCode, TInv, TypeOK, Code
  <2>2. QED
    BY <1>4, <2>1 DEF ExpireCode, TInv, TypeOK, RequestWellFormed
<1>5. ASSUME NEW t \in TokenIds, ExpireToken(t) PROVE TInv'
  <2>1. tokens' \in [TokenIds -> Token \cup {Null}]
    BY <1>5 DEF ExpireToken, TInv, TypeOK, Token
  <2>2. QED
    BY <1>5, <2>1 DEF ExpireToken, TInv, TypeOK, RequestWellFormed
<1>6. CASE UNCHANGED vars
  BY <1>6 DEF vars, TInv, TypeOK, RequestWellFormed
<1>7. QED
  BY <1>1, <1>2, <1>3, <1>4, <1>5, <1>6 DEF Next

LEMMA WellFormed == Spec => []TInv
BY TInvInit, TInvNext, PTL DEF Spec

\* The rows and the requests' variables have the types their columns and code give them.
THEOREM TypeCorrect == Spec => []TypeOK
<1>1. TInv => TypeOK
  BY DEF TInv
<1>2. QED
  BY <1>1, WellFormed, PTL

(***************************************************************************)
(* Nothing is spent twice, and a session has one live refresh token.       *)
(***************************************************************************)

\* A step that neither claims, issues nor makes a code: rows are lost or revoked, and
\* requests move to where they own no more than before.
Winding ==
    /\ spent' = spent
    /\ \A p \in Reqs :
          /\ SameInput(p)
          /\ pc'[p] \in {"load", "issue"} => pc[p] \in {"load", "issue"}
          /\ pc[p] \in {"ok", "error", "lost"} => pc'[p] = pc[p]
          /\ pc[p] \in {"find", "record"} => pc'[p] \in {"find", "record", "ok", "error", "lost"}
          /\ codes'[p] # Null => codes[p] # Null /\ (codes[p].consumed => codes'[p].consumed)
    /\ \A t \in TokenIds :
          tokens'[t] # Null => /\ tokens[t] # Null /\ tokens'[t].code = tokens[t].code
                               /\ tokens[t].revoked => tokens'[t].revoked

\* Whoever owns or carries is an exchange, whose input is there.
LEMMA CarrierIsExchange ==
    ASSUME TInv, Lineage, NEW p \in Reqs, Owner(p) \/ Carrier(p)
    PROVE  /\ req[p].op \in Exchanges
           /\ req[p].source \in Reqs /\ req[p].code \in Reqs
           /\ pc[p] \in {"load", "issue"} \/ Issued(p)
<1>1. CASE pc[p] \in {"load", "issue"}
  BY <1>1 DEF TInv, RequestWellFormed, Exchanges
<1>2. CASE <<p, req[p].source>> \in spent
  <2>1. req[p].source \in Reqs
    BY <1>2 DEF TInv, TypeOK
  <2>2. Issued(p)
    BY <1>2, <2>1 DEF Lineage
  <2>3. QED
    BY <2>2 DEF Issued, TInv, RequestWellFormed
<1>3. CASE Live(<<p, "REFRESH">>)
  <2>1. Issued(p)
    BY <1>3 DEF Live, Lineage, Kinds
  <2>2. QED
    BY <2>1 DEF Issued, TInv, RequestWellFormed
<1>4. QED
  BY <1>1, <1>2, <1>3 DEF Owner, Carrier

LEMMA SessionsWind == TInv /\ Sessions /\ Winding => Sessions'
<1> SUFFICES ASSUME TInv, Sessions, Winding PROVE Sessions'
  OBVIOUS
<1> USE DEF Winding, SameInput
<1>1. \A p \in Reqs : (CodeMade(p) => CodeMade(p)') /\ (Issued(p) => Issued(p)')
  BY DEF CodeMade, Issued
<1>2. \A p \in Reqs, k \in Kinds : <<p, k>> \in TokenIds
  BY DEF TokenIds
<1>3. \A t \in TokenIds : Live(t)' => Live(t)
  BY DEF Live
<1>4. \A p \in Reqs : (Owner(p)' => Owner(p)) /\ (Carrier(p)' => Carrier(p))
  BY <1>2, <1>3 DEF Owner, Carrier, Kinds
<1>5. Lineage'
  <2>1. \A p \in Reqs : req[p].op \in Exchanges => req[p].source \in Reqs /\ req[p].code \in Reqs
    BY DEF TInv, RequestWellFormed
  <2>2. QED
    BY <1>1, <1>2, <2>1 DEF Sessions, Lineage, Exchanges
<1>6. \A p \in Reqs : Owner(p) \/ Carrier(p) => req[p].source \in Reqs /\ req[p].code \in Reqs
  BY CarrierIsExchange DEF Sessions
<1>7. Ownership'
  <2>1. ASSUME NEW p \in Reqs, Owner(p)', req'[p].op = "redeem"
        PROVE  codes'[req'[p].source] = Null \/ codes'[req'[p].source].consumed
    BY <1>4, <1>6, <2>1 DEF Sessions, Ownership
  <2>2. ASSUME NEW p \in Reqs, Owner(p)', req'[p].op = "refresh"
        PROVE  ~Live(<<req[p].source, "REFRESH">>)'
    <3>1. ~Live(<<req[p].source, "REFRESH">>) /\ <<req[p].source, "REFRESH">> \in TokenIds
      BY <1>2, <1>4, <1>6, <2>2 DEF Sessions, Ownership, Kinds
    <3>2. QED
      BY <3>1 DEF Live
  <2>3. \A p, q \in Reqs : Owner(p)' /\ Owner(q)' /\ req'[p].source = req'[q].source => p = q
    BY <1>4 DEF Sessions, Ownership
  <2>4. QED
    BY <2>1, <2>2, <2>3 DEF Ownership
<1>8. Carried'
  <2>1. \A p, q \in Reqs : Carrier(p)' /\ Carrier(q)' /\ req'[p].code = req'[q].code => p = q
    BY <1>4 DEF Sessions, Carried
  <2>2. ASSUME NEW p \in Reqs, Carrier(p)'
        PROVE  codes'[req'[p].code] = Null \/ codes'[req'[p].code].consumed
    BY <1>4, <1>6, <2>2 DEF Sessions, Carried
  <2>3. QED
    BY <2>1, <2>2 DEF Carried
<1>9. QED
  BY <1>5, <1>7, <1>8 DEF Sessions

\* A request that has not arrived is part of no session.
LEMMA IdleIsOutside ==
    ASSUME TInv, Lineage, NEW p \in Reqs, pc[p] = "idle"
    PROVE  /\ codes[p] = Null /\ \A k \in Kinds : tokens[<<p, k>>] = Null
           /\ \A s \in Reqs : <<p, s>> \notin spent
           /\ \A r \in Reqs : req[r].op \in Exchanges => req[r].code # p
           /\ \A r \in Reqs : req[r].op \in Exchanges => req[r].source # p
           /\ \A r \in Reqs : CodeMade(r) \/ Issued(r) => r # p
<1>1. ~CodeMade(p) /\ ~Issued(p)
  BY DEF CodeMade, Issued
<1>2. QED
  BY <1>1 DEF Lineage, Exchanges

\* Rows are deleted or used up, and p arrives.
Arriving(p, step, q) ==
    /\ pc[p] = "idle" /\ pc' = [pc EXCEPT ![p] = step] /\ req' = [req EXCEPT ![p] = q]
    /\ spent' = spent
    /\ q.op \in Exchanges => CodeMade(q.code)
    /\ q.op = "redeem" => q.code = q.source
    /\ q.op = "refresh" => Issued(q.source) /\ q.code = req[q.source].code
    /\ \A c \in Reqs : codes'[c] # Null => codes[c] # Null /\ (codes[c].consumed => codes'[c].consumed)
    /\ \A t \in TokenIds : tokens'[t] = tokens[t] \/ tokens'[t] = Null

\* The other requests, and their sessions, are what they were.
LEMMA LineageArrive ==
    ASSUME TInv, TInv', Sessions, NEW p \in Reqs, NEW step \in Awaits \cup Replies, NEW q \in Request,
           Arriving(p, step, q)
    PROVE  /\ Lineage'
           /\ \A r \in Reqs \ {p} :
                 /\ req'[r] = req[r] /\ pc'[r] = pc[r]
                 /\ Owner(r)' => Owner(r)
                 /\ Carrier(r)' => Carrier(r)
           /\ Owner(p)' \/ Carrier(p)' => step \in {"load", "issue"}
<1> USE DEF Arriving
<1>0. Lineage
  BY DEF Sessions
<1>1. \A p1 \in Reqs, k \in Kinds : <<p1, k>> \in TokenIds
  BY DEF TokenIds
<1>2. \A r \in Reqs \ {p} : req'[r] = req[r] /\ pc'[r] = pc[r]
  BY DEF TInv, TypeOK
<1>3. req'[p] = q /\ pc'[p] = step
  BY DEF TInv, TypeOK
<1>4. \A r \in Reqs : (CodeMade(r) => CodeMade(r)') /\ (Issued(r) => Issued(r)')
  BY <1>0, <1>2, IdleIsOutside DEF CodeMade, Issued
<1>5. \A r \in Reqs : req'[r].op \in Exchanges => req'[r].source \in Reqs /\ req'[r].code \in Reqs
  BY DEF TInv, RequestWellFormed
<1>6. \A c \in Reqs : codes'[c] # Null => CodeMade(c)'
  BY <1>0, <1>4 DEF Lineage
<1>7. \A r \in Reqs, k \in Kinds :
         tokens'[<<r, k>>] # Null => Issued(r)' /\ tokens'[<<r, k>>].code = req'[r].code
  BY <1>0, <1>1, <1>2, <1>4, IdleIsOutside DEF Lineage
<1>8. ASSUME NEW r \in Reqs, req'[r].op \in Exchanges
      PROVE  /\ req'[r].code \in Reqs /\ CodeMade(req'[r].code)
             /\ req'[r].op = "redeem" => req'[r].code = req'[r].source
             /\ req'[r].op = "refresh" =>
                   /\ req'[r].source \in Reqs \ {p} /\ Issued(req'[r].source)
                   /\ req'[r].code = req[req'[r].source].code
  <2>1. CASE r = p
    BY <1>0, <1>3, <1>5, <1>8, <2>1, IdleIsOutside
  <2>2. CASE r # p
    BY <1>0, <1>2, <1>5, <1>8, <2>2, IdleIsOutside DEF Lineage, Exchanges
  <2>3. QED
    BY <2>1, <2>2
<1>9. ASSUME NEW r \in Reqs, NEW s \in Reqs, <<r, s>> \in spent'
      PROVE  Issued(r)' /\ req'[r].source = s
  BY <1>0, <1>2, <1>4, <1>9, IdleIsOutside DEF Lineage
<1>10. Lineage'
  BY <1>2, <1>4, <1>6, <1>7, <1>8, <1>9 DEF Lineage, Exchanges
<1>11. \A r \in Reqs \ {p} : Owner(r)' => Owner(r)
  BY <1>2 DEF Owner
<1>12. \A r \in Reqs \ {p} : Carrier(r)' => Carrier(r)
  BY <1>1, <1>2 DEF Carrier, Live, Kinds
<1>13. Owner(p)' \/ Carrier(p)' => step \in {"load", "issue"}
  <2>1. \A s : <<p, s>> \notin spent
    BY <1>0, IdleIsOutside DEF TInv, TypeOK
  <2>2. tokens'[<<p, "REFRESH">>] = Null
    BY <1>0, <1>1, IdleIsOutside DEF Kinds
  <2>3. QED
    BY <1>3, <2>1, <2>2 DEF Owner, Carrier, Live
<1>14. QED
  BY <1>2, <1>10, <1>11, <1>12, <1>13

\* An arrival that claims nothing.
LEMMA SessionsArrive ==
    ASSUME TInv, TInv', Sessions, NEW p \in Reqs, NEW step \in Awaits \cup Replies, NEW q \in Request,
           Arriving(p, step, q), step \notin {"load", "issue"}
    PROVE  Sessions'
<1>1. /\ Lineage'
      /\ \A r \in Reqs : Owner(r)' => r # p /\ Owner(r)
      /\ \A r \in Reqs : Carrier(r)' => r # p /\ Carrier(r)
      /\ \A r \in Reqs \ {p} : req'[r] = req[r]
  BY LineageArrive
<1>2. \A r \in Reqs : Owner(r) \/ Carrier(r) => req[r].source \in Reqs /\ req[r].code \in Reqs
  BY CarrierIsExchange DEF Sessions
<1>3. Ownership'
  <2>1. ASSUME NEW r \in Reqs, Owner(r)', req'[r].op = "redeem"
        PROVE  codes'[req'[r].source] = Null \/ codes'[req'[r].source].consumed
    BY <1>1, <1>2, <2>1 DEF Sessions, Ownership, Arriving
  <2>2. ASSUME NEW r \in Reqs, Owner(r)', req'[r].op = "refresh"
        PROVE  ~Live(<<req[r].source, "REFRESH">>)'
    <3>1. ~Live(<<req[r].source, "REFRESH">>) /\ <<req[r].source, "REFRESH">> \in TokenIds
      BY <1>1, <1>2, <2>2 DEF Sessions, Ownership, Kinds, TokenIds
    <3>2. req'[r].source = req[r].source
      BY <1>1, <2>2
    <3>3. QED
      BY <3>1, <3>2 DEF Live, Arriving
  <2>3. \A r, s \in Reqs : Owner(r)' /\ Owner(s)' /\ req'[r].source = req'[s].source => r = s
    BY <1>1 DEF Sessions, Ownership
  <2>4. QED
    BY <2>1, <2>2, <2>3 DEF Ownership
<1>4. Carried'
  <2>1. \A r, s \in Reqs : Carrier(r)' /\ Carrier(s)' /\ req'[r].code = req'[s].code => r = s
    BY <1>1 DEF Sessions, Carried
  <2>2. ASSUME NEW r \in Reqs, Carrier(r)'
        PROVE  codes'[req'[r].code] = Null \/ codes'[req'[r].code].consumed
    BY <1>1, <1>2, <2>2 DEF Sessions, Carried, Arriving
  <2>3. QED
    BY <2>1, <2>2 DEF Carried
<1>5. QED
  BY <1>1, <1>3, <1>4 DEF Sessions

\* An arrival that claims a code: nobody owns it, and its session has not begun.
LEMMA SessionsRedeem ==
    ASSUME TInv, TInv', Sessions, NEW p \in Reqs, NEW q \in Request, Arriving(p, "load", q),
           q.op = "redeem", codes[q.source] # Null, ~codes[q.source].consumed,
           codes'[q.source].consumed
    PROVE  Sessions'
<1>1. /\ Lineage'
      /\ \A r \in Reqs \ {p} : (Owner(r)' => Owner(r)) /\ (Carrier(r)' => Carrier(r)) /\ req'[r] = req[r]
  BY LineageArrive DEF Awaits
<1>2. \A r \in Reqs : Owner(r) \/ Carrier(r) =>
          req[r].op \in Exchanges /\ req[r].source \in Reqs /\ req[r].code \in Reqs
  BY CarrierIsExchange DEF Sessions
<1>3. req'[p] = q /\ q.source \in Reqs /\ q.code = q.source
  <2>1. req'[p] = q
    BY DEF Arriving, TInv, TypeOK
  <2>2. QED
    BY <2>1 DEF Arriving, TInv, RequestWellFormed, Exchanges
<1>4. ASSUME NEW r \in Reqs, Owner(r)
      PROVE  req[r].source # q.source
  <2>1. CASE req[r].op = "redeem"
    BY <1>4, <2>1 DEF Sessions, Ownership
  <2>2. CASE req[r].op = "refresh"
    BY <1>3, <2>2 DEF Sessions, Lineage, CodeMade, Issued, Exchanges
  <2>3. QED
    BY <1>2, <1>4, <2>1, <2>2 DEF Exchanges
<1>5. \A r \in Reqs : Carrier(r) => req[r].code # q.code
  BY <1>3 DEF Sessions, Carried
<1>6. Ownership'
  <2>1. ASSUME NEW r \in Reqs, Owner(r)', req'[r].op = "redeem"
        PROVE  codes'[req'[r].source] = Null \/ codes'[req'[r].source].consumed
    BY <1>1, <1>2, <1>3, <2>1 DEF Sessions, Ownership, Arriving
  <2>2. ASSUME NEW r \in Reqs, Owner(r)', req'[r].op = "refresh"
        PROVE  ~Live(<<req[r].source, "REFRESH">>)'
    <3>1. r # p /\ req'[r].source = req[r].source
      BY <1>1, <1>3, <2>2
    <3>2. ~Live(<<req[r].source, "REFRESH">>) /\ <<req[r].source, "REFRESH">> \in TokenIds
      BY <1>1, <1>2, <2>2, <3>1 DEF Sessions, Ownership, Kinds, TokenIds
    <3>3. QED
      BY <3>1, <3>2 DEF Live, Arriving
  <2>3. \A r, s \in Reqs : Owner(r)' /\ Owner(s)' /\ req'[r].source = req'[s].source => r = s
    BY <1>1, <1>3, <1>4 DEF Sessions, Ownership
  <2>4. QED
    BY <2>1, <2>2, <2>3 DEF Ownership
<1>7. Carried'
  <2>1. \A r, s \in Reqs : Carrier(r)' /\ Carrier(s)' /\ req'[r].code = req'[s].code => r = s
    BY <1>1, <1>3, <1>5 DEF Sessions, Carried
  <2>2. ASSUME NEW r \in Reqs, Carrier(r)'
        PROVE  codes'[req'[r].code] = Null \/ codes'[req'[r].code].consumed
    BY <1>1, <1>2, <1>3, <2>2 DEF Sessions, Carried, Arriving
  <2>3. QED
    BY <2>1, <2>2 DEF Carried
<1>8. QED
  BY <1>1, <1>6, <1>7 DEF Sessions

LEMMA SessionsInit == Init => Sessions
BY BlankType, StoreAssumption
   DEF Init, Sessions, Lineage, Ownership, Carried, Owner, Carrier, Live, TokenIds, Kinds, Exchanges

\* A consent, a revocation and a disconnect exchange nothing.
LEMMA ArrivesOutside ==
    ASSUME NEW p \in Reqs, NEW step, NEW q, Arrive(p, step, q), q.op \notin Exchanges,
           \A c \in Reqs : codes'[c] = codes[c] \/ codes'[c] = Null,
           \A t \in TokenIds : tokens'[t] = tokens[t] \/ tokens'[t] = Null
    PROVE  Arriving(p, step, q)
<1>1. q.op # "redeem" /\ q.op # "refresh"
  BY DEF Exchanges
<1>2. QED
  BY <1>1 DEF Arriving, Arrive, Goto

LEMMA SessionsStart ==
    ASSUME TInv, TInv', Sessions, NEW p \in Reqs, Start(p)
    PROVE  Sessions'
<1> USE BlankType DEF Arrive, Goto
<1>0. \A x \in {"approve", "revoke", "disconnect"} : x \notin Exchanges
  BY DEF Exchanges
<1>1. CASE StartApprove(p)
  <2>1. PICK s \in Scopes :
            /\ IF grant # Null /\ grant.scope # s
               THEN Arrive(p, "narrow", [Blank EXCEPT !.op = "approve", !.scope = s, !.grant = grant.id])
               ELSE Arrive(p, "upsert", [Blank EXCEPT !.op = "approve", !.scope = s])
            /\ UNCHANGED <<grant, codes, tokens>>
    BY <1>1 DEF StartApprove
  <2>2. PICK q \in Request, step \in {"narrow", "upsert"} : q.op = "approve" /\ Arrive(p, step, q)
    <3>1. CASE grant # Null /\ grant.scope # s
      <4>1. [Blank EXCEPT !.op = "approve", !.scope = s, !.grant = grant.id] \in Request
        BY <3>1, BlankType DEF Request, TInv, TypeOK, Grant
      <4>2. [Blank EXCEPT !.op = "approve", !.scope = s, !.grant = grant.id].op = "approve"
        BY DEF Request
      <4>3. QED
        BY <2>1, <3>1, <4>1, <4>2
    <3>2. CASE ~(grant # Null /\ grant.scope # s)
      <4>1. [Blank EXCEPT !.op = "approve", !.scope = s] \in Request
        BY BlankType DEF Request
      <4>2. [Blank EXCEPT !.op = "approve", !.scope = s].op = "approve"
        BY DEF Request
      <4>3. QED
        BY <2>1, <3>2, <4>1, <4>2
    <3>3. QED
      BY <3>1, <3>2
  <2>3. Arriving(p, step, q)
    BY <1>0, <2>1, <2>2, ArrivesOutside
  <2>4. QED
    BY <2>2, <2>3, SessionsArrive DEF Awaits
<1>2. CASE StartRedeem(p)
  <2>1. PICK c \in {c \in Reqs : codes[c] # Null}, good \in BOOLEAN :
            /\ Arrive(p, IF ~codes[c].consumed /\ ~codes[c].expired THEN "load" ELSE "replay",
                      [Blank EXCEPT !.op = "redeem", !.source = c, !.code = c, !.good = good])
            /\ codes' = [codes EXCEPT ![c].consumed = @ \/ (~codes[c].consumed /\ ~codes[c].expired)]
            /\ UNCHANGED <<grant, tokens>>
    BY <1>2 DEF StartRedeem
  <2>2. PICK q : /\ q = [Blank EXCEPT !.op = "redeem", !.source = c, !.code = c, !.good = good]
                 /\ q.op = "redeem" /\ q.source = c /\ q.code = c
    <3>1. [Blank EXCEPT !.op = "redeem", !.source = c, !.code = c, !.good = good].op = "redeem"
      BY DEF Request
    <3>2. [Blank EXCEPT !.op = "redeem", !.source = c, !.code = c, !.good = good].source = c
      BY DEF Request
    <3>3. [Blank EXCEPT !.op = "redeem", !.source = c, !.code = c, !.good = good].code = c
      BY DEF Request
    <3>4. QED
      BY <3>1, <3>2, <3>3
  <2>3. codes[c] \in Code /\ CodeMade(c)
    BY <2>1 DEF TInv, TypeOK, Sessions, Lineage
  <2>4. \A d \in Reqs : codes'[d] # Null => codes[d] # Null /\ (codes[d].consumed => codes'[d].consumed)
    BY <2>1, <2>3 DEF TInv, TypeOK, Code
  <2>5. \A step : pc' = [pc EXCEPT ![p] = step] => Arriving(p, step, q)
    BY <2>1, <2>2, <2>3, <2>4 DEF Arriving
  <2>6. q \in Request
    BY <2>1, <2>2 DEF TInv, TypeOK
  <2>7. CASE ~codes[c].consumed /\ ~codes[c].expired
    <3>1. pc' = [pc EXCEPT ![p] = "load"] /\ codes'[c].consumed
      BY <2>1, <2>3, <2>7 DEF TInv, TypeOK, Code
    <3>2. QED
      BY <2>1, <2>2, <2>5, <2>6, <2>7, <3>1, SessionsRedeem
  <2>8. CASE ~(~codes[c].consumed /\ ~codes[c].expired)
    <3>1. pc' = [pc EXCEPT ![p] = "replay"]
      BY <2>1, <2>8
    <3>2. QED
      BY <2>5, <2>6, <3>1, SessionsArrive DEF Awaits
  <2>9. QED
    BY <2>7, <2>8
<1>3. CASE StartRefresh(p)
  <2>1. PICK t \in {t \in Reqs : tokens[<<t, "REFRESH">>] # Null} :
            /\ Arrive(p, IF tokens[<<t, "REFRESH">>].replacedBy # Null THEN "revokeAll" ELSE "claim",
                      [Blank EXCEPT !.op = "refresh", !.source = t,
                                    !.code = tokens[<<t, "REFRESH">>].code,
                                    !.grant = tokens[<<t, "REFRESH">>].grant,
                                    !.scope = tokens[<<t, "REFRESH">>].scope])
            /\ UNCHANGED <<grant, codes, tokens>>
    BY <1>3 DEF StartRefresh
  <2>2. PICK q : /\ q = [Blank EXCEPT !.op = "refresh", !.source = t,
                                      !.code = tokens[<<t, "REFRESH">>].code,
                                      !.grant = tokens[<<t, "REFRESH">>].grant,
                                      !.scope = tokens[<<t, "REFRESH">>].scope]
                 /\ q.op = "refresh" /\ q.source = t /\ q.code = tokens[<<t, "REFRESH">>].code
    <3> DEFINE row == tokens[<<t, "REFRESH">>]
               r == [Blank EXCEPT !.op = "refresh", !.source = t, !.code = row.code,
                                  !.grant = row.grant, !.scope = row.scope]
    <3>1. r.op = "refresh" /\ r.source = t /\ r.code = row.code
      <4> HIDE DEF row
      <4>1. QED
        BY DEF Request
    <3>2. QED
      BY <3>1
  <2>3. Issued(t) /\ q.code = req[t].code /\ CodeMade(q.code)
    BY <2>1, <2>2 DEF Sessions, Lineage, Kinds, Issued
  <2>4. PICK step \in {"revokeAll", "claim"} : Arriving(p, step, q)
    BY <2>1, <2>2, <2>3 DEF Arriving
  <2>5. q \in Request
    BY <2>4 DEF Arriving, TInv, TypeOK
  <2>6. QED
    BY <2>4, <2>5, SessionsArrive DEF Awaits
<1>4. CASE StartRevoke(p)
  <2>1. PICK t \in TokenIds :
            /\ Arrive(p, "revokeOne", [Blank EXCEPT !.op = "revoke", !.source = t[1], !.kind = t[2]])
            /\ UNCHANGED <<grant, codes, tokens>>
    BY <1>4 DEF StartRevoke
  <2>2. t[1] \in Reqs /\ t[2] \in Kinds
    BY DEF TokenIds
  <2>3. PICK q \in Request : q.op = "revoke" /\ Arrive(p, "revokeOne", q)
    <3>1. [Blank EXCEPT !.op = "revoke", !.source = t[1], !.kind = t[2]] \in Request
      BY <2>2, BlankType DEF Request
    <3>2. [Blank EXCEPT !.op = "revoke", !.source = t[1], !.kind = t[2]].op = "revoke"
      BY DEF Request
    <3>3. QED
      BY <2>1, <3>1, <3>2
  <2>4. Arriving(p, "revokeOne", q)
    BY <1>0, <2>1, <2>3, ArrivesOutside
  <2>5. QED
    BY <2>3, <2>4, SessionsArrive DEF Awaits
<1>5. CASE Disconnect(p)
  <2>1. PICK q \in Request : q.op = "disconnect" /\ Arrive(p, "ok", q)
    <3>1. [Blank EXCEPT !.op = "disconnect"] \in Request
      BY BlankType DEF Request
    <3>2. [Blank EXCEPT !.op = "disconnect"].op = "disconnect"
      BY DEF Request
    <3>3. QED
      BY <1>5, <3>1, <3>2 DEF Disconnect
  <2>2. /\ \A c \in Reqs : codes'[c] = codes[c] \/ codes'[c] = Null
        /\ \A t \in TokenIds : tokens'[t] = tokens[t] \/ tokens'[t] = Null
    BY <1>5 DEF Disconnect
  <2>3. Arriving(p, "ok", q)
    BY <1>0, <2>1, <2>2, ArrivesOutside
  <2>4. QED
    BY <2>1, <2>3, SessionsArrive DEF Replies
<1>6. QED
  BY <1>1, <1>2, <1>3, <1>4, <1>5 DEF Start

\* An await that claims nothing and issues nothing.
LEMMA ServeWinds ==
    ASSUME TInv, Sessions, NEW p \in Reqs,
           \/ Narrow(p) \/ Upsert(p) \/ Load(p) \/ Replay(p) \/ RevokeAll(p)
           \/ Find(p) \/ Record(p) \/ RevokeOne(p)
    PROVE  Winding
<1> USE DEF At, Goto, TInv, TypeOK
<1>1. CASE Narrow(p) \/ RevokeAll(p)
  BY <1>1, RevokedAllType DEF Narrow, RevokeAll, Winding, SameInput
<1>2. CASE Upsert(p)
  <2>1. \A r \in Reqs : SameInput(r)
    BY <1>2 DEF Upsert, SameInput, Request
  <2>2. QED
    BY <1>2, <2>1 DEF Upsert, Winding
<1>3. CASE Load(p)
  <2>1. \A r \in Reqs : SameInput(r)
    BY <1>3 DEF Load, SameInput, Request
  <2>2. PICK step \in {"issue", "invalid"} : pc' = [pc EXCEPT ![p] = step]
    BY <1>3 DEF Load
  <2>3. pc[p] = "load" /\ UNCHANGED <<codes, tokens, spent>>
    BY <1>3 DEF Load
  <2>4. QED
    BY <2>1, <2>2, <2>3 DEF Winding
<1>4. CASE Replay(p)
  <2>1. \A r \in Reqs : SameInput(r)
    BY <1>4 DEF Replay, SameInput, Request
  <2>2. PICK step \in {"revokeAll", "invalid"} : pc' = [pc EXCEPT ![p] = step]
    BY <1>4 DEF Replay
  <2>3. pc[p] = "replay" /\ UNCHANGED <<codes, tokens, spent>>
    BY <1>4 DEF Replay
  <2>4. QED
    BY <2>1, <2>2, <2>3 DEF Winding
<1>5. CASE Find(p)
  <2>1. \A r \in Reqs : SameInput(r)
    BY <1>5 DEF Find, SameInput, Request
  <2>2. QED
    BY <1>5, <2>1 DEF Find, Winding
<1>6. CASE Record(p)
  <2>1. \A t \in TokenIds :
            tokens'[t] # Null => /\ tokens[t] # Null /\ tokens'[t].code = tokens[t].code
                                 /\ tokens[t].revoked => tokens'[t].revoked
    BY <1>6 DEF Record, Token
  <2>2. QED
    BY <1>6, <2>1 DEF Record, Winding, SameInput
<1>7. CASE RevokeOne(p)
  <2>1. \A t \in TokenIds :
            tokens'[t] # Null => /\ tokens[t] # Null /\ tokens'[t].code = tokens[t].code
                                 /\ tokens[t].revoked => tokens'[t].revoked
    BY <1>7 DEF RevokeOne, Token
  <2>2. QED
    BY <1>7, <2>1 DEF RevokeOne, Winding, SameInput
<1>8. QED
  BY <1>1, <1>2, <1>3, <1>4, <1>5, <1>6, <1>7

\* What an exchange presents, and where its session began.
LEMMA ExchangeInput ==
    ASSUME TInv
    PROVE  \A r \in Reqs : req[r].op \in Exchanges => req[r].source \in Reqs /\ req[r].code \in Reqs
BY DEF TInv, RequestWellFormed

\* A consent makes a code, which is fresh: nothing descends from it yet.
LEMMA SessionsIssueCode ==
    ASSUME TInv, TInv', Sessions, NEW p \in Reqs, IssueCode(p)
    PROVE  Sessions'
<1> USE DEF At, Goto, TInv, TypeOK
<1>1. CASE ~HasGrant(req[p].grant)
  <2>1. pc' = [pc EXCEPT ![p] = "error"] /\ pc[p] = "code" /\ UNCHANGED <<codes, tokens, req, spent>>
    BY <1>1 DEF IssueCode
  <2>2. Winding
    BY <2>1 DEF Winding, SameInput
  <2>3. QED
    BY <2>2, SessionsWind
<1>2. CASE HasGrant(req[p].grant)
  <2>1. /\ pc[p] = "code" /\ pc' = [pc EXCEPT ![p] = "ok"]
        /\ UNCHANGED <<tokens, req, spent>> /\ \A c \in Reqs \ {p} : codes'[c] = codes[c]
    BY <1>2 DEF IssueCode
  <2>2. req[p].op = "approve" /\ ~CodeMade(p)
    BY <2>1 DEF RequestWellFormed, CodeMade
  <2>3. \A r \in Reqs : (CodeMade(r) => CodeMade(r)') /\ (Issued(r) => Issued(r)')
    BY <2>1, <2>2 DEF CodeMade, Issued, Exchanges
  <2>4. CodeMade(p)'
    BY <2>1, <2>2 DEF CodeMade
  <2>5. \A r \in Reqs : (Owner(r)' => Owner(r)) /\ (Carrier(r)' => Carrier(r))
    BY <2>1 DEF Owner, Carrier, Live
  <2>6. \A r \in Reqs : Owner(r) \/ Carrier(r) => req[r].op \in Exchanges
    BY CarrierIsExchange DEF Sessions
  <2>7. \A r \in Reqs : req[r].op \in Exchanges =>
            req[r].code \in Reqs \ {p} /\ (req[r].op = "redeem" => req[r].source \in Reqs \ {p})
    BY <2>2 DEF Sessions, Lineage, RequestWellFormed
  <2>8. Lineage'
    BY <2>1, <2>3, <2>4, ExchangeInput DEF Sessions, Lineage, Exchanges
  <2>9. Ownership'
    BY <2>1, <2>5, <2>6, <2>7 DEF Sessions, Ownership, Live
  <2>10. Carried'
    BY <2>1, <2>5, <2>6, <2>7 DEF Sessions, Carried
  <2>11. QED
    BY <2>8, <2>9, <2>10 DEF Sessions
<1>3. QED
  BY <1>1, <1>2

\* A rotation takes its session over from the token it revokes, or loses the race for it.
LEMMA SessionsClaim ==
    ASSUME TInv, TInv', Sessions, NEW p \in Reqs, Claim(p)
    PROVE  Sessions'
<1> DEFINE s == req[p].source
           t == <<s, "REFRESH">>
<1> USE DEF TInv, TypeOK
<1>1. pc[p] = "claim" /\ req[p].op = "refresh" /\ UNCHANGED <<codes, req, spent>>
  BY DEF Claim, At, RequestWellFormed
<1>2. s \in Reqs /\ req[p].code \in Reqs /\ t \in TokenIds
  BY <1>1 DEF RequestWellFormed, Exchanges, TokenIds, Kinds
<1>3. CASE ~(tokens[t] # Null /\ ~tokens[t].revoked /\ tokens[t].replacedBy = Null)
  <2>1. pc' = [pc EXCEPT ![p] = "revokeAll"] /\ tokens' = tokens
    BY <1>3 DEF Claim, Goto
  <2>2. Winding
    BY <1>1, <2>1 DEF Winding, SameInput
  <2>3. QED
    BY <2>2, SessionsWind
<1>4. CASE tokens[t] # Null /\ ~tokens[t].revoked /\ tokens[t].replacedBy = Null
  <2>1. pc' = [pc EXCEPT ![p] = "issue"] /\ tokens' = [tokens EXCEPT ![t].revoked = TRUE]
    BY <1>4 DEF Claim, Goto
  <2>2. Live(t) /\ tokens[t] \in Token /\ Issued(s) /\ req[p].code = req[s].code
    BY <1>1, <1>2, <1>4 DEF Live, Sessions, Lineage
  <2>3. s # p /\ pc[s] \notin {"load", "issue"}
    BY <1>1, <2>2 DEF Issued
  <2>4. \A u \in TokenIds :
            /\ tokens'[u] # Null => tokens[u] # Null /\ tokens'[u].code = tokens[u].code
            /\ Live(u)' => Live(u) /\ u # t
    BY <1>2, <2>1, <2>2 DEF Live, Token
  <2>5. \A u \in Reqs, k \in Kinds : <<u, k>> \in TokenIds
    BY DEF TokenIds
  <2>6. \A r \in Reqs : (CodeMade(r) => CodeMade(r)') /\ (Issued(r) => Issued(r)')
    BY <1>1, <2>1 DEF CodeMade, Issued
  <2>7. Lineage'
    BY <1>1, <2>4, <2>5, <2>6, ExchangeInput DEF Sessions, Lineage, Exchanges
  <2>8. \A r \in Reqs \ {p} : (Owner(r)' => Owner(r)) /\ (Carrier(r)' => Carrier(r) /\ r # s)
    BY <1>1, <2>1, <2>3, <2>4, <2>5 DEF Owner, Carrier, Kinds
  <2>9. \A r \in Reqs : Owner(r) => req[r].source # s
    <3>1. ASSUME NEW r \in Reqs, Owner(r), req[r].source = s PROVE FALSE
      <4>1. req[r].op \in Exchanges
        BY <3>1, CarrierIsExchange DEF Sessions
      <4>2. CASE req[r].op = "redeem"
        BY <2>2, <3>1, <4>2 DEF Sessions, Lineage, CodeMade, Issued, Exchanges
      <4>3. CASE req[r].op = "refresh"
        BY <2>2, <3>1, <4>3 DEF Sessions, Ownership
      <4>4. QED
        BY <4>1, <4>2, <4>3 DEF Exchanges
    <3>2. QED
      BY <3>1
  <2>10. Ownership'
    <3>1. ASSUME NEW r \in Reqs, Owner(r)', req'[r].op = "redeem"
          PROVE  codes'[req'[r].source] = Null \/ codes'[req'[r].source].consumed
      BY <1>1, <2>8, <3>1 DEF Sessions, Ownership
    <3>2. ASSUME NEW r \in Reqs, Owner(r)', req'[r].op = "refresh"
          PROVE  ~Live(<<req[r].source, "REFRESH">>)'
      <4>1. req[r].source \in Reqs
        BY <1>1, <3>2 DEF RequestWellFormed, Exchanges
      <4>2. <<req[r].source, "REFRESH">> \in TokenIds
        BY <2>5, <4>1 DEF Kinds
      <4>3. CASE r = p
        BY <1>1, <1>2, <2>4, <4>2, <4>3 DEF Live
      <4>4. CASE r # p
        BY <1>1, <2>4, <2>8, <3>2, <4>2, <4>4 DEF Sessions, Ownership
      <4>5. QED
        BY <4>3, <4>4
    <3>3. \A r, u \in Reqs : Owner(r)' /\ Owner(u)' /\ req'[r].source = req'[u].source => r = u
      BY <1>1, <2>8, <2>9 DEF Sessions, Ownership
    <3>4. QED
      BY <1>1, <3>1, <3>2, <3>3 DEF Ownership
  <2>11. Carrier(s)
    BY <2>2 DEF Carrier
  <2>12. Carried'
    <3>1. \A r, u \in Reqs : Carrier(r)' /\ Carrier(u)' /\ req'[r].code = req'[u].code => r = u
      BY <1>1, <1>2, <2>2, <2>8, <2>11 DEF Sessions, Carried
    <3>2. ASSUME NEW r \in Reqs, Carrier(r)'
          PROVE  codes'[req'[r].code] = Null \/ codes'[req'[r].code].consumed
      BY <1>1, <1>2, <2>2, <2>8, <2>11, <3>2 DEF Sessions, Carried
    <3>3. QED
      BY <3>1, <3>2 DEF Carried
  <2>13. QED
    BY <2>7, <2>10, <2>12 DEF Sessions
<1>5. QED
  BY <1>3, <1>4

\* The tokens an exchange issues carry on what it carried already.
LEMMA SessionsIssue ==
    ASSUME TInv, TInv', Sessions, NEW p \in Reqs, Issue(p)
    PROVE  Sessions'
<1> USE DEF TInv, TypeOK
<1>1. pc[p] = "issue" /\ req[p].op \in Exchanges /\ UNCHANGED <<codes, req>>
  BY DEF Issue, At, RequestWellFormed
<1>2. CASE ~HasGrant(req[p].grant)
  <2>1. pc' = [pc EXCEPT ![p] = "error"] /\ UNCHANGED <<tokens, spent>>
    BY <1>2 DEF Issue, Goto
  <2>2. Winding
    BY <1>1, <2>1 DEF Winding, SameInput
  <2>3. QED
    BY <2>2, SessionsWind
<1>3. CASE HasGrant(req[p].grant)
  <2>1. PICK step \in {"ok", "find"} : pc' = [pc EXCEPT ![p] = step]
    BY <1>3 DEF Issue, Goto
  <2>2. /\ tokens' = [t \in TokenIds |-> IF t[1] = p THEN NewToken(req[p]) ELSE tokens[t]]
        /\ spent' = spent \cup {<<p, req[p].source>>}
    BY <1>3 DEF Issue
  <2>3. \A u \in Reqs, k \in Kinds : <<u, k>> \in TokenIds
    BY DEF TokenIds
  <2>4. \A r \in Reqs : (CodeMade(r) => CodeMade(r)') /\ (Issued(r) => Issued(r)')
    BY <1>1, <2>1 DEF CodeMade, Issued
  <2>5. Issued(p)'
    BY <1>1, <2>1 DEF Issued
  <2>6. \A u \in Reqs \ {p}, k \in Kinds : tokens'[<<u, k>>] = tokens[<<u, k>>]
    BY <2>2, <2>3
  <2>7. \A k \in Kinds : tokens'[<<p, k>>] = NewToken(req[p])
    BY <2>2, <2>3
  <2>8. NewToken(req[p]).code = req[p].code
    BY DEF NewToken
  <2>9. Lineage'
    <3>1. \A r \in Reqs, k \in Kinds :
              tokens'[<<r, k>>] # Null => Issued(r)' /\ tokens'[<<r, k>>].code = req'[r].code
      BY <1>1, <2>4, <2>5, <2>6, <2>7, <2>8 DEF Sessions, Lineage
    <3>2. \A r, s \in Reqs : <<r, s>> \in spent' => Issued(r)' /\ req'[r].source = s
      BY <1>1, <2>2, <2>4, <2>5 DEF Sessions, Lineage
    <3>3. QED
      BY <1>1, <2>4, <3>1, <3>2, ExchangeInput DEF Sessions, Lineage, Exchanges
  <2>10. Owner(p) /\ Carrier(p)
    BY <1>1 DEF Owner, Carrier
  <2>11. \A r \in Reqs : (Owner(r)' => Owner(r)) /\ (Carrier(r)' => Carrier(r))
    BY <1>1, <2>1, <2>2, <2>6, <2>10 DEF Owner, Carrier, Live, Kinds
  <2>12. Ownership'
    <3>1. \A r, s \in Reqs : Owner(r)' /\ Owner(s)' /\ req'[r].source = req'[s].source => r = s
      BY <1>1, <2>11 DEF Sessions, Ownership
    <3>2. \A r \in Reqs : Owner(r)' /\ req'[r].op = "redeem" =>
              codes'[req'[r].source] = Null \/ codes'[req'[r].source].consumed
      BY <1>1, <2>11 DEF Sessions, Ownership
    <3>3. ASSUME NEW r \in Reqs, Owner(r)', req'[r].op = "refresh"
          PROVE  ~Live(<<req[r].source, "REFRESH">>)'
      <4>1. req[r].source \in Reqs \ {p}
        BY <1>1, <3>3, ExchangeInput DEF Sessions, Lineage, Issued, Exchanges
      <4>2. QED
        BY <1>1, <2>6, <2>11, <3>3, <4>1 DEF Sessions, Ownership, Live, Kinds
    <3>4. QED
      BY <1>1, <3>1, <3>2, <3>3 DEF Ownership
  <2>13. Carried'
    BY <1>1, <2>11 DEF Sessions, Carried
  <2>14. QED
    BY <2>9, <2>12, <2>13 DEF Sessions
<1>4. QED
  BY <1>2, <1>3

LEMMA SessionsNext == TInv /\ TInv' /\ Sessions /\ [Next]_vars => Sessions'
<1> SUFFICES ASSUME TInv, TInv', Sessions, [Next]_vars PROVE Sessions'
  OBVIOUS
<1>1. ASSUME NEW p \in Reqs, Start(p) PROVE Sessions'
  BY <1>1, SessionsStart
<1>2. ASSUME NEW p \in Reqs, Serve(p) PROVE Sessions'
  BY <1>2, ServeWinds, SessionsWind, SessionsIssueCode, SessionsClaim, SessionsIssue DEF Serve
<1>3. ASSUME NEW p \in Reqs, Crash(p) PROVE Sessions'
  <2>1. Winding
    BY <1>3 DEF Crash, Goto, Winding, SameInput, TInv, TypeOK, Awaits
  <2>2. QED
    BY <2>1, SessionsWind
<1>4. ASSUME NEW c \in Reqs, ExpireCode(c) PROVE Sessions'
  <2>1. Winding
    BY <1>4 DEF ExpireCode, Winding, SameInput, TInv, TypeOK, Code
  <2>2. QED
    BY <2>1, SessionsWind
<1>5. ASSUME NEW t \in TokenIds, ExpireToken(t) PROVE Sessions'
  <2>1. Winding
    BY <1>5 DEF ExpireToken, Winding, SameInput, TInv, TypeOK, Token
  <2>2. QED
    BY <2>1, SessionsWind
<1>6. CASE UNCHANGED vars
  <2>1. Winding
    BY <1>6 DEF vars, Winding, SameInput
  <2>2. QED
    BY <2>1, SessionsWind
<1>7. QED
  BY <1>1, <1>2, <1>3, <1>4, <1>5, <1>6 DEF Next

LEMMA SessionsHold == Spec => [](TInv /\ Sessions)
<1>1. Init => TInv /\ Sessions
  BY TInvInit, SessionsInit
<1>2. TInv /\ Sessions /\ [Next]_vars => (TInv /\ Sessions)'
  BY TInvNext, SessionsNext
<1>3. QED
  BY <1>1, <1>2, PTL DEF Spec

\* A code or refresh token is exchanged at most once, whatever the requests that present it do.
THEOREM NothingSpentTwice == Spec => []SpentOnce
<1>1. TInv /\ Sessions => SpentOnce
  <2> SUFFICES ASSUME TInv, Sessions, NEW a \in spent, NEW b \in spent, a[2] = b[2]
               PROVE  a = b
    BY DEF SpentOnce
  <2>1. /\ a[1] \in Reqs /\ a[2] \in Reqs /\ a = <<a[1], a[2]>>
        /\ b[1] \in Reqs /\ b[2] \in Reqs /\ b = <<b[1], b[2]>>
    BY DEF TInv, TypeOK
  <2>2. req[a[1]].source = a[2] /\ req[b[1]].source = b[2]
    BY <2>1 DEF Sessions, Lineage
  <2>3. Owner(a[1]) /\ Owner(b[1])
    BY <2>1, <2>2 DEF Owner
  <2>4. a[1] = b[1]
    BY <2>1, <2>2, <2>3 DEF Sessions, Ownership
  <2>5. QED
    BY <2>1, <2>4
<1>2. QED
  BY <1>1, SessionsHold, PTL

\* A session never forks: one code has at most one live refresh token.
THEOREM SessionNeverForks == Spec => []OneLiveRefresh
<1>1. TInv /\ Sessions => OneLiveRefresh
  <2> SUFFICES ASSUME TInv, Sessions, NEW p \in Reqs, NEW q \in Reqs,
                      Live(<<p, "REFRESH">>), Live(<<q, "REFRESH">>),
                      tokens[<<p, "REFRESH">>].code = tokens[<<q, "REFRESH">>].code
               PROVE  p = q
    BY DEF OneLiveRefresh
  <2>1. req[p].code = req[q].code
    BY DEF Sessions, Lineage, Live, Kinds
  <2>2. QED
    BY <2>1 DEF Sessions, Carried, Carrier
<1>2. QED
  BY <1>1, SessionsHold, PTL

(***************************************************************************)
(* Disconnecting ends access.                                              *)
(***************************************************************************)

\* The foreign keys: every code and token hangs off the standing grant.
RowsHangOffGrant ==
    /\ \A c \in Reqs : codes[c] # Null => HasGrant(codes[c].grant)
    /\ \A t \in TokenIds : tokens[t] # Null => HasGrant(tokens[t].grant)

\* The cascade and the constraints keep it.
LEMMA RowsHang == Spec => []RowsHangOffGrant
<1>1. Init => RowsHangOffGrant
  BY DEF Init, RowsHangOffGrant
<1>2. ASSUME TInv, RowsHangOffGrant, [Next]_vars PROVE RowsHangOffGrant'
  <2> USE <1>2 DEF RowsHangOffGrant, HasGrant
  <2>1. ASSUME NEW p \in Reqs, Start(p) PROVE RowsHangOffGrant'
    <3>1. CASE StartApprove(p) \/ StartRefresh(p) \/ StartRevoke(p)
      BY <3>1 DEF StartApprove, StartRefresh, StartRevoke
    <3>2. CASE StartRedeem(p)
      BY <3>2 DEF StartRedeem, TInv, TypeOK, Code
    <3>3. CASE Disconnect(p)
      BY <3>3 DEF Disconnect
    <3>4. QED
      BY <2>1, <3>1, <3>2, <3>3 DEF Start
  <2>2. ASSUME NEW p \in Reqs, Serve(p) PROVE RowsHangOffGrant'
    <3> USE DEF TInv, TypeOK
    <3>1. CASE Narrow(p)
      BY <3>1, RevokedAllType DEF Narrow
    <3>2. CASE Upsert(p)
      <4>1. grant' \in Grant /\ (grant # Null => grant'.id = grant.id)
        BY <3>2 DEF Upsert, Grant, Request
      <4>2. grant' # Null /\ UNCHANGED <<codes, tokens>>
        BY <3>2, <4>1, StoreAssumption DEF Upsert
      <4>3. QED
        BY <4>1, <4>2
    <3>3. CASE IssueCode(p)
      BY <3>3 DEF IssueCode
    <3>4. CASE Load(p) \/ Replay(p) \/ Find(p)
      BY <3>4 DEF Load, Replay, Find
    <3>5. CASE RevokeAll(p)
      BY <3>5, RevokedAllType DEF RevokeAll
    <3>6. CASE Claim(p)
      BY <3>6 DEF Claim, Token
    <3>7. CASE Issue(p)
      BY <3>7 DEF Issue, NewToken
    <3>8. CASE Record(p)
      BY <3>8 DEF Record, Token
    <3>9. CASE RevokeOne(p)
      BY <3>9 DEF RevokeOne, Token
    <3>10. QED
      BY <2>2, <3>1, <3>2, <3>3, <3>4, <3>5, <3>6, <3>7, <3>8, <3>9 DEF Serve
  <2>3. ASSUME NEW p \in Reqs, Crash(p) PROVE RowsHangOffGrant'
    BY <2>3 DEF Crash
  <2>4. ASSUME NEW c \in Reqs, ExpireCode(c) PROVE RowsHangOffGrant'
    BY <2>4 DEF ExpireCode, TInv, TypeOK, Code
  <2>5. ASSUME NEW t \in TokenIds, ExpireToken(t) PROVE RowsHangOffGrant'
    BY <2>5 DEF ExpireToken, TInv, TypeOK, Token
  <2>6. CASE UNCHANGED vars
    BY <2>6 DEF vars
  <2>7. QED
    BY <1>2, <2>1, <2>2, <2>3, <2>4, <2>5, <2>6 DEF Next
<1>3. QED
  BY <1>1, <1>2, WellFormed, PTL DEF Spec

\* The requests that may have given a grant row its id.
Made == {g \in Reqs : pc[g] \notin {"idle", "narrow", "upsert"}}

\* Grants, and what requests hold of them, carry the id of a request past its upsert.
GrantsMade ==
    /\ grant # Null => grant.id \in Made
    /\ \A p \in Reqs : req[p].grant # Null => req[p].grant \in Made
    /\ \A p \in Reqs : pc[p] \in {"code", "claim", "issue"} => req[p].grant # Null

\* A deleted grant: its id is not given again.
Gone(g)     == g \in Made /\ ~HasGrant(g)
GoneNext(g) == g \in Made' /\ ~(grant' # Null /\ grant'.id = g)

\* What is still under way for a consent that was cut holds a grant that is gone.
Severed ==
    \A c \in cut :
        /\ c \in Made
        /\ codes[c] = Null
        /\ \A t \in TokenIds : tokens[t] # Null => tokens[t].code # c
        /\ pc[c] = "code" => Gone(req[c].grant)
        /\ \A p \in Reqs : pc[p] = "issue" /\ req[p].code = c => Gone(req[p].grant)

\* No request that is past its upsert comes back to it.
LEMMA MadeGrows == ASSUME TInv, [Next]_vars PROVE Made \subseteq Made'
<1> USE DEF Made, TInv, TypeOK
<1>1. ASSUME NEW p \in Reqs, Start(p) PROVE Made \subseteq Made'
  <2>1. pc[p] = "idle" /\ \E step : pc' = [pc EXCEPT ![p] = step]
    BY <1>1 DEF Start, StartApprove, StartRedeem, StartRefresh, StartRevoke, Disconnect, Arrive, Goto
  <2>2. QED
    BY <2>1
<1>2. ASSUME NEW p \in Reqs, Serve(p) PROVE Made \subseteq Made'
  BY <1>2 DEF Serve, At, Goto, Narrow, Upsert, IssueCode, Load, Replay, RevokeAll, Claim, Issue,
              Find, Record, RevokeOne
<1>3. ASSUME NEW p \in Reqs, Crash(p) PROVE Made \subseteq Made'
  BY <1>3 DEF Crash, Goto
<1>4. QED
  BY <1>1, <1>2, <1>3 DEF Next, ExpireCode, ExpireToken, vars

\* A new request holds no grant, or the one its rows or the consent hang off.
LEMMA GrantsMadeStart ==
    ASSUME TInv, RowsHangOffGrant, GrantsMade, Made \subseteq Made', NEW p \in Reqs, Start(p)
    PROVE  GrantsMade'
<1> USE DEF TInv, TypeOK, GrantsMade, HasGrant
<1>1. ASSUME NEW step, NEW q, Arrive(p, step, q), grant' \in {grant, Null},
             q.grant # Null => q.grant \in Made,
             step \in {"code", "claim", "issue"} => q.grant # Null
      PROVE  GrantsMade'
  BY <1>1 DEF Arrive, Goto
<1>2. Blank.grant = Null
  BY DEF Blank
<1>3. CASE StartApprove(p)
  <2>1. PICK s \in Scopes : StartApprove(p)!(s)
    BY <1>3 DEF StartApprove
  <2> DEFINE q == [Blank EXCEPT !.op = "approve", !.scope = s]
  <2>2. CASE grant # Null /\ grant.scope # s
    <3>1. Arrive(p, "narrow", [q EXCEPT !.grant = grant.id]) /\ grant' = grant
      BY <2>1, <2>2
    <3>2. [q EXCEPT !.grant = grant.id].grant = grant.id
      BY DEF Blank
    <3>3. QED
      BY <1>1, <2>2, <3>1, <3>2
  <2>3. CASE ~(grant # Null /\ grant.scope # s)
    <3>1. Arrive(p, "upsert", q) /\ grant' = grant
      BY <2>1, <2>3
    <3>2. q.grant = Null
      BY DEF Blank
    <3>3. QED
      BY <1>1, <3>1, <3>2
  <2>4. QED
    BY <2>2, <2>3
<1>4. CASE StartRedeem(p)
  <2>1. PICK c \in {c \in Reqs : codes[c] # Null}, good \in BOOLEAN : StartRedeem(p)!(c, good)
    BY <1>4 DEF StartRedeem
  <2> DEFINE q == [Blank EXCEPT !.op = "redeem", !.source = c, !.code = c, !.good = good]
             won == ~codes[c].consumed /\ ~codes[c].expired
  <2>2. q.grant = Null
    BY DEF Blank
  <2>3. Arrive(p, IF won THEN "load" ELSE "replay", q) /\ grant' = grant
    BY <2>1
  <2> HIDE DEF q, won
  <2>4. QED
    BY <1>1, <2>2, <2>3
<1>5. CASE StartRefresh(p)
  <2>1. PICK t \in {t \in Reqs : tokens[<<t, "REFRESH">>] # Null} : StartRefresh(p)!(t)
    BY <1>5 DEF StartRefresh
  <2> DEFINE row == tokens[<<t, "REFRESH">>]
             q == [Blank EXCEPT !.op = "refresh", !.source = t, !.code = row.code,
                                !.grant = row.grant, !.scope = row.scope]
  <2>2. row \in Token /\ q.grant = row.grant
    BY DEF Blank, TokenIds, Kinds
  <2>3. HasGrant(row.grant) /\ row.grant # Null
    BY <2>2, StoreAssumption DEF RowsHangOffGrant, TokenIds, Kinds, Token
  <2>4. Arrive(p, IF row.replacedBy # Null THEN "revokeAll" ELSE "claim", q) /\ grant' = grant
    BY <2>1
  <2> HIDE DEF q, row
  <2>5. QED
    BY <1>1, <2>2, <2>3, <2>4
<1>6. CASE StartRevoke(p)
  <2>1. PICK t \in {t \in TokenIds : tokens[t] # Null} : StartRevoke(p)!(t)
    BY <1>6 DEF StartRevoke
  <2> DEFINE q == [Blank EXCEPT !.op = "revoke", !.source = t[1], !.kind = t[2]]
  <2>2. q.grant = Null
    BY DEF Blank
  <2>3. Arrive(p, "revokeOne", q) /\ grant' = grant
    BY <2>1
  <2> HIDE DEF q
  <2>4. QED
    BY <1>1, <2>2, <2>3
<1>7. CASE Disconnect(p)
  <2> DEFINE q == [Blank EXCEPT !.op = "disconnect"]
  <2>1. q.grant = Null
    BY DEF Blank
  <2>2. Arrive(p, "ok", q) /\ grant' = Null
    BY <1>7 DEF Disconnect
  <2> HIDE DEF q
  <2>3. QED
    BY <1>1, <2>1, <2>2
<1>8. QED
  BY <1>3, <1>4, <1>5, <1>6, <1>7 DEF Start

\* Only the upsert and the loading of a code change what a request holds.
LEMMA GrantsMadeNext ==
    ASSUME TInv, RowsHangOffGrant, GrantsMade, [Next]_vars PROVE GrantsMade'
<1>0. Made \subseteq Made'
  BY MadeGrows
<1> USE DEF TInv, TypeOK, GrantsMade
<1>1. ASSUME NEW p \in Reqs, Serve(p) PROVE GrantsMade'
  <2>1. CASE Upsert(p)
    <3> DEFINE row == IF grant = Null THEN [id |-> p, scope |-> req[p].scope]
                      ELSE [grant EXCEPT !.scope = req[p].scope]
    <3>1. /\ grant' = row /\ req' = [req EXCEPT ![p].grant = row.id]
          /\ pc' = [pc EXCEPT ![p] = "code"]
      BY <2>1 DEF Upsert, Goto
    <3>2. row.id \in {p} \cup Made /\ row.id \in Reqs
      BY DEF Grant, Made
    <3>3. p \in Made'
      BY <3>1 DEF Made
    <3>4. row.id # Null
      BY <3>2, StoreAssumption
    <3> HIDE DEF row
    <3>5. req'[p].grant = row.id /\ \A r \in Reqs \ {p} : req'[r] = req[r]
      BY <3>1 DEF Request
    <3>6. QED
      BY <1>0, <3>1, <3>2, <3>3, <3>4, <3>5
  <2>2. CASE Load(p) \/ Replay(p)
    <3> DEFINE row == codes[req[p].source]
               Refused == UNCHANGED req /\ Goto(p, "invalid") /\ grant' = grant
               Taken == /\ row # Null /\ grant' = grant /\ req' = [req EXCEPT ![p].grant = row.grant]
                        /\ \A r \in Reqs \ {p} : pc'[r] = pc[r]
    <3>1. CASE Refused
      BY <1>0, <3>1 DEF Goto
    <3>2. CASE Taken
      <4>1. req'[p].grant = row.grant /\ \A r \in Reqs \ {p} : req'[r] = req[r]
        BY <3>2 DEF Request
      <4>2. row.grant # Null /\ row.grant \in Made
        <5>1. req[p].source \in Reqs
          BY <2>2 DEF RequestWellFormed, Load, Replay, At, Exchanges
        <5>2. row \in Code /\ HasGrant(row.grant)
          BY <3>2, <5>1 DEF RowsHangOffGrant
        <5>3. QED
          BY <5>2, StoreAssumption DEF HasGrant, Code
      <4>3. QED
        BY <1>0, <3>2, <4>1, <4>2
    <3>3. QED
      <4>1. Load(p) => Refused \/ Taken
        BY DEF Load, Goto
      <4>2. Replay(p) => Refused \/ Taken
        BY DEF Replay, Goto
      <4>3. QED
        BY <2>2, <3>1, <3>2, <4>1, <4>2
  <2>3. CASE Narrow(p) \/ IssueCode(p) \/ RevokeAll(p) \/ Claim(p) \/ Issue(p) \/ Record(p) \/ RevokeOne(p)
    <3>1. UNCHANGED <<grant, req>>
      BY <2>3 DEF Narrow, IssueCode, RevokeAll, Claim, Issue, Record, RevokeOne
    <3>2. \A r \in Reqs : pc'[r] \in {"code", "claim", "issue"} => pc[r] \in {"code", "claim", "issue"}
      BY <2>3 DEF Narrow, IssueCode, RevokeAll, Claim, Issue, Record, RevokeOne, At, Goto
    <3>3. QED
      BY <1>0, <3>1, <3>2
  <2>4. CASE Find(p)
    <3>1. grant' = grant /\ \A r \in Reqs : req'[r].grant = req[r].grant
      BY <2>4 DEF Find, Request
    <3>2. \A r \in Reqs : pc'[r] \in {"code", "claim", "issue"} => pc[r] \in {"code", "claim", "issue"}
      BY <2>4 DEF Find, Goto
    <3>3. QED
      BY <1>0, <3>1, <3>2
  <2>5. QED
    BY <1>1, <2>1, <2>2, <2>3, <2>4 DEF Serve
<1>2. ASSUME NEW p \in Reqs, Crash(p) PROVE GrantsMade'
  BY <1>0, <1>2 DEF Crash, Goto
<1>3. QED
  <2>1. CASE UNCHANGED <<grant, req, pc>>
    BY <1>0, <2>1
  <2>2. QED
    BY <1>0, <1>1, <1>2, <2>1, GrantsMadeStart DEF Next, ExpireCode, ExpireToken, vars

\* A grant that is gone stays gone: only a consent at its upsert makes one, of its own id.
LEMMA GoneStays ==
    ASSUME TInv, GrantsMade, [Next]_vars, NEW g, Gone(g) PROVE GoneNext(g)
<1>1. g \in Made'
  BY MadeGrows DEF Gone
<1>2. CASE grant' \in {grant, Null}
  BY <1>1, <1>2 DEF Gone, GoneNext, HasGrant
<1>3. ASSUME NEW p \in Reqs, Upsert(p) PROVE ~(grant' # Null /\ grant'.id = g)
  <2>1. p \notin Made
    BY <1>3 DEF Upsert, At, Made
  <2>2. grant'.id = IF grant = Null THEN p ELSE grant.id
    BY <1>3 DEF Upsert, TInv, TypeOK, Grant
  <2>3. QED
    BY <2>1, <2>2 DEF Gone, HasGrant
<1>4. CASE \A p \in Reqs : ~Upsert(p)
  <2>1. grant' \in {grant, Null}
    BY <1>4 DEF Next, Start, StartApprove, StartRedeem, StartRefresh, StartRevoke, Disconnect,
                Serve, Narrow, IssueCode, Load, Replay, RevokeAll, Claim, Issue, Find, Record,
                RevokeOne, Crash, ExpireCode, ExpireToken, vars
  <2>2. QED
    BY <1>2, <2>1
<1>5. QED
  BY <1>1, <1>3, <1>4 DEF GoneNext


\* Rows are made only by a consent or an exchange that holds the standing grant, and
\* an exchange comes to hold one only by a row there is.
OnlyByRows ==
    /\ \A c \in Reqs : codes'[c] # Null =>
           codes[c] # Null \/ (pc[c] = "code" /\ HasGrant(req[c].grant))
    /\ \A t \in TokenIds : tokens'[t] # Null =>
           \/ tokens[t] # Null /\ tokens'[t].code = tokens[t].code
           \/ /\ pc[t[1]] = "issue" /\ HasGrant(req[t[1]].grant)
              /\ tokens'[t].code = req[t[1]].code
    /\ \A r \in Reqs : pc'[r] = "code" =>
           r \notin Made \/ (pc[r] = "code" /\ req'[r].grant = req[r].grant)
    /\ \A r \in Reqs : pc'[r] = "issue" =>
           \/ /\ pc[r] = "issue" /\ req'[r].grant = req[r].grant /\ req'[r].code = req[r].code
           \/ req'[r].code \in Reqs /\ codes[req'[r].code] # Null
           \/ \E t \in TokenIds : tokens[t] # Null /\ tokens[t].code = req'[r].code

\* A step that makes rows that way and cuts nothing leaves what was cut without any.
LEMMA SeveredKeeps ==
    ASSUME TInv, GrantsMade, Severed, [Next]_vars, cut' = cut, OnlyByRows
    PROVE  Severed'
<1> SUFFICES ASSUME NEW c \in cut
             PROVE  /\ c \in Made'
                    /\ codes'[c] = Null
                    /\ \A t \in TokenIds : tokens'[t] # Null => tokens'[t].code # c
                    /\ pc'[c] = "code" => GoneNext(req'[c].grant)
                    /\ \A p \in Reqs : pc'[p] = "issue" /\ req'[p].code = c => GoneNext(req'[p].grant)
  BY DEF Severed, Gone, GoneNext, HasGrant
<1>0. c \in Reqs /\ c \in Made /\ codes[c] = Null
  BY DEF TInv, TypeOK, Severed
<1>1. c \in Made'
  BY <1>0, MadeGrows
<1>2. codes'[c] = Null
  BY <1>0 DEF OnlyByRows, Severed, Gone
<1>3. ASSUME NEW t \in TokenIds, tokens'[t] # Null, tokens'[t].code = c PROVE FALSE
  <2>1. t[1] \in Reqs
    BY DEF TokenIds
  <2>2. QED
    BY <1>3, <2>1 DEF OnlyByRows, Severed, Gone
<1>4. ASSUME pc'[c] = "code" PROVE GoneNext(req'[c].grant)
  <2>1. req'[c].grant = req[c].grant /\ Gone(req[c].grant)
    BY <1>0, <1>4 DEF OnlyByRows, Severed
  <2>2. QED
    BY <2>1, GoneStays
<1>5. ASSUME NEW p \in Reqs, pc'[p] = "issue", req'[p].code = c PROVE GoneNext(req'[p].grant)
  <2>1. /\ pc[p] = "issue" /\ req'[p].grant = req[p].grant /\ req[p].code = c
    BY <1>0, <1>5 DEF OnlyByRows, Severed
  <2>2. Gone(req[p].grant)
    BY <2>1 DEF Severed
  <2>3. QED
    BY <2>1, <2>2, GoneStays
<1>6. QED
  BY <1>1, <1>2, <1>3, <1>4, <1>5

\* At the disconnect every row goes, and what was under way holds the grant that went.
LEMMA SeveredDisconnect ==
    ASSUME TInv, RowsHangOffGrant, GrantsMade, Severed, NEW p \in Reqs, Disconnect(p)
    PROVE  Severed'
<1> USE DEF TInv, TypeOK
<1>1. /\ grant # Null /\ grant' = Null /\ cut' = cut \cup Recorded
      /\ pc[p] = "idle" /\ pc' = [pc EXCEPT ![p] = "ok"]
      /\ req' = [req EXCEPT ![p] = [Blank EXCEPT !.op = "disconnect"]]
  BY DEF Disconnect, Arrive, Goto
<1>2. codes' = [c \in Reqs |-> Null] /\ tokens' = [t \in TokenIds |-> Null]
  <2>1. \A c \in Reqs : codes[c] # Null => codes[c].grant = grant.id
    BY DEF RowsHangOffGrant, HasGrant
  <2>2. \A t \in TokenIds : tokens[t] # Null => tokens[t].grant = grant.id
    BY DEF RowsHangOffGrant, HasGrant
  <2>3. QED
    BY <2>1, <2>2 DEF Disconnect
<1>3. \A g : ~HasGrant(g)'
  BY <1>1 DEF HasGrant
<1>4. ASSUME NEW r \in Reqs, pc'[r] \in {"code", "issue"} PROVE req'[r].grant \in Made'
  <2>1. r # p /\ req'[r] = req[r] /\ pc'[r] = pc[r]
    BY <1>1, <1>4
  <2>2. req[r].grant \in Made
    BY <1>4, <2>1 DEF GrantsMade
  <2>3. QED
    BY <1>1, <2>1, <2>2 DEF Made
<1>5. QED
  BY <1>1, <1>2, <1>3, <1>4 DEF Severed, Gone, Made, Recorded

\* Every other request makes rows that way.
LEMMA SeveredNext ==
    ASSUME TInv, Lineage, RowsHangOffGrant, GrantsMade, Severed, [Next]_vars PROVE Severed'
<1> USE DEF TInv, TypeOK, OnlyByRows
<1>1. ASSUME NEW p \in Reqs, Start(p) PROVE Severed'
  <2>1. CASE Disconnect(p)
    BY <2>1, SeveredDisconnect
  <2>2. CASE StartApprove(p) \/ StartRedeem(p) \/ StartRefresh(p) \/ StartRevoke(p)
    <3>1. /\ cut' = cut /\ tokens' = tokens
          /\ \A c \in Reqs : codes'[c] # Null => codes[c] # Null
      BY <2>2 DEF StartApprove, StartRedeem, StartRefresh, StartRevoke
    <3>2. PICK step \in {"narrow", "upsert", "load", "replay", "revokeAll", "claim", "revokeOne"} :
            \E q : Arrive(p, step, q)
      BY <2>2 DEF StartApprove, StartRedeem, StartRefresh, StartRevoke
    <3>3. \A r \in Reqs : pc'[r] \in {"code", "issue"} => pc[r] = pc'[r] /\ req'[r] = req[r]
      BY <3>2 DEF Arrive, Goto
    <3>4. OnlyByRows
      BY <3>1, <3>3
    <3>5. QED
      BY <3>1, <3>4, SeveredKeeps
  <2>3. QED
    BY <1>1, <2>1, <2>2 DEF Start
<1>2. ASSUME NEW p \in Reqs, Serve(p) PROVE Severed'
  <2>0. cut' = cut
    BY <1>2 DEF Serve, Narrow, Upsert, IssueCode, Load, Replay, RevokeAll, Claim, Issue, Find, Record, RevokeOne
  <2>1. CASE Narrow(p) \/ RevokeAll(p)
    <3>1. \A t \in TokenIds : tokens'[t] # Null => tokens[t] # Null /\ tokens'[t].code = tokens[t].code
      BY <2>1, RevokedAllType DEF Narrow, RevokeAll
    <3>2. OnlyByRows
      BY <2>1, <3>1 DEF Narrow, RevokeAll, Goto
    <3>3. QED
      BY <2>0, <3>2, SeveredKeeps
  <2>2. CASE Upsert(p)
    <3>1. p \notin Made /\ \A r \in Reqs \ {p} : req'[r] = req[r]
      BY <2>2 DEF Upsert, At, Made
    <3>2. OnlyByRows
      BY <2>2, <3>1 DEF Upsert, Goto
    <3>3. QED
      BY <2>0, <3>2, SeveredKeeps
  <2>3. CASE IssueCode(p)
    <3>1. OnlyByRows
      BY <2>3 DEF IssueCode, Goto, At
    <3>2. QED
      BY <2>0, <3>1, SeveredKeeps
  <2>4. CASE Load(p) \/ Replay(p)
    <3>1. /\ UNCHANGED <<codes, tokens>> /\ \A r \in Reqs : req'[r].code = req[r].code
          /\ \A r \in Reqs \ {p} : req'[r] = req[r] /\ pc'[r] = pc[r]
      BY <2>4 DEF Load, Replay, Goto, Request
    <3>2. pc'[p] # "code" /\ (pc'[p] = "issue" => codes[req[p].source] # Null /\ req[p].op = "redeem")
      BY <2>4 DEF Load, Replay, Goto, At, RequestWellFormed
    <3>3. pc'[p] = "issue" => req'[p].code \in Reqs /\ codes[req'[p].code] # Null
      BY <3>1, <3>2 DEF Lineage, RequestWellFormed, Exchanges
    <3>4. OnlyByRows
      BY <3>1, <3>2, <3>3
    <3>5. QED
      BY <2>0, <3>4, SeveredKeeps
  <2>5. CASE Claim(p)
    <3> DEFINE t == <<req[p].source, "REFRESH">>
    <3>1. req[p].op = "refresh" /\ req[p].source \in Reqs /\ t \in TokenIds
      BY <2>5 DEF Claim, At, RequestWellFormed, Exchanges, TokenIds, Kinds
    <3>2. tokens[t] # Null => tokens[t].code = req[p].code
      BY <3>1 DEF Lineage, Kinds
    <3>3. /\ UNCHANGED <<codes, req>> /\ pc'[p] # "code" /\ \A r \in Reqs \ {p} : pc'[r] = pc[r]
          /\ pc'[p] = "issue" => tokens[t] # Null
          /\ tokens' = tokens \/ (tokens[t] # Null /\ tokens' = [tokens EXCEPT ![t].revoked = TRUE])
      BY <2>5 DEF Claim, Goto
    <3> HIDE DEF t
    <3>4. \A u \in TokenIds : tokens'[u] # Null => tokens[u] # Null /\ tokens'[u].code = tokens[u].code
      BY <3>1, <3>3 DEF Token
    <3>5. OnlyByRows
      BY <3>1, <3>2, <3>3, <3>4
    <3>6. QED
      BY <2>0, <3>5, SeveredKeeps
  <2>6. CASE Issue(p)
    <3>1. ASSUME NEW t \in TokenIds
          PROVE  \/ tokens'[t] = tokens[t]
                 \/ t[1] = p /\ HasGrant(req[p].grant) /\ tokens'[t].code = req[p].code
      <4>1. CASE HasGrant(req[p].grant)
        <5>1. tokens' = [u \in TokenIds |-> IF u[1] = p THEN NewToken(req[p]) ELSE tokens[u]]
          BY <2>6, <4>1 DEF Issue
        <5>2. tokens'[t] = IF t[1] = p THEN NewToken(req[p]) ELSE tokens[t]
          BY <5>1
        <5>3. NewToken(req[p]).code = req[p].code
          BY DEF NewToken
        <5>4. QED
          BY <4>1, <5>2, <5>3
      <4>2. CASE ~HasGrant(req[p].grant)
        BY <2>6, <4>2 DEF Issue
      <4>3. QED
        BY <4>1, <4>2
    <3>2. OnlyByRows
      BY <2>6, <3>1 DEF Issue, Goto, At
    <3>3. QED
      BY <2>0, <3>2, SeveredKeeps
  <2>7. CASE Find(p)
    <3>1. \A r \in Reqs : req'[r].grant = req[r].grant /\ req'[r].code = req[r].code
      BY <2>7 DEF Find, Request
    <3>2. OnlyByRows
      BY <2>7, <3>1 DEF Find, Goto
    <3>3. QED
      BY <2>0, <3>2, SeveredKeeps
  <2>8. CASE Record(p) \/ RevokeOne(p)
    <3>1. \A t \in TokenIds : tokens'[t] # Null => tokens[t] # Null /\ tokens'[t].code = tokens[t].code
      BY <2>8 DEF Record, RevokeOne, Token
    <3>2. OnlyByRows
      BY <2>8, <3>1 DEF Record, RevokeOne, Goto
    <3>3. QED
      BY <2>0, <3>2, SeveredKeeps
  <2>9. QED
    BY <1>2, <2>1, <2>2, <2>3, <2>4, <2>5, <2>6, <2>7, <2>8 DEF Serve
<1>3. ASSUME NEW p \in Reqs, Crash(p) PROVE Severed'
  <2>1. OnlyByRows /\ cut' = cut
    BY <1>3 DEF Crash, Goto
  <2>2. QED
    BY <2>1, SeveredKeeps
<1>4. ASSUME NEW c \in Reqs, ExpireCode(c) PROVE Severed'
  <2>1. OnlyByRows /\ cut' = cut
    BY <1>4 DEF ExpireCode
  <2>2. QED
    BY <2>1, SeveredKeeps
<1>5. ASSUME NEW t \in TokenIds, ExpireToken(t) PROVE Severed'
  <2>1. \A u \in TokenIds : tokens'[u] # Null => tokens[u] # Null /\ tokens'[u].code = tokens[u].code
    BY <1>5 DEF ExpireToken, Token
  <2>2. OnlyByRows /\ cut' = cut
    BY <1>5, <2>1 DEF ExpireToken
  <2>3. QED
    BY <2>2, SeveredKeeps
<1>6. CASE UNCHANGED vars
  <2>1. OnlyByRows /\ cut' = cut
    BY <1>6 DEF vars
  <2>2. QED
    BY <2>1, SeveredKeeps
<1>7. QED
  BY <1>1, <1>2, <1>3, <1>4, <1>5, <1>6 DEF Next

\* A consent on record when the user disconnects has no code and no token from then on,
\* whatever was under way for it and whatever is consented to afterwards.
THEOREM DisconnectEnds == Spec => []DisconnectEndsAccess
<1>1. Init => GrantsMade /\ Severed
  BY DEF Init, GrantsMade, Severed, Blank
<1>2. TInv /\ Sessions /\ RowsHangOffGrant /\ GrantsMade /\ Severed /\ [Next]_vars => GrantsMade' /\ Severed'
  BY GrantsMadeNext, SeveredNext DEF Sessions
<1>3. Severed => DisconnectEndsAccess
  BY DEF Severed, DisconnectEndsAccess
<1>4. QED
  BY <1>1, <1>2, <1>3, SessionsHold, RowsHang, PTL DEF Spec

(***************************************************************************)
(* Presenting a code or a token again ends its session.                    *)
(***************************************************************************)

\* A code that will not be claimed any more.
Used(c) == CodeMade(c) /\ (codes[c] = Null \/ codes[c].consumed)

\* All that descends from a code hangs off the grant its consent worked on, and descends
\* from a code that is used.
Bound ==
    /\ \A c \in Reqs : codes[c] # Null => codes[c].grant = req[c].grant
    /\ \A t \in TokenIds : tokens[t] # Null =>
           tokens[t].grant = req[tokens[t].code].grant /\ Used(tokens[t].code)
    /\ \A p \in Reqs : req[p].op = "refresh" \/ pc[p] \in {"load", "issue", "revokeAll"} =>
           req[p].code \in Reqs /\ Used(req[p].code)
    /\ \A p \in Reqs : req[p].op = "refresh" \/ pc[p] \in {"issue", "revokeAll"} =>
           req[p].grant = req[req[p].code].grant

\* A request nobody has overlapped has the server for itself.
Solitude == \A p \in alone : pc[p] # "idle" /\ (pc[p] \in Awaits => InFlight = {p})

\* A session without a live token that nobody is about to carry on.
Ended(c) ==
    /\ c \in Reqs /\ Used(c)
    /\ \A t \in TokenIds : tokens[t] # Null /\ tokens[t].code = c => tokens[t].revoked
    /\ \A q \in Reqs : pc[q] \in {"load", "issue"} => req[q].code # c

Endings == Bound /\ Solitude /\ \A p \in alone : pc[p] = "reused" => Ended(req[p].code)

\* What every step does to a request and to the code its consent makes: inputs and the grants of
\* consents stay, codes are used up, and it gets to where it ends or carries on a session only
\* from where it may.
ReqOn(p) ==
    /\ pc[p] # "idle" => SameInput(p)
    /\ CodeMade(p) => pc'[p] = "ok" /\ req'[p].grant = req[p].grant
    /\ codes'[p] # Null =>
          \/ /\ codes[p] # Null /\ codes'[p].grant = codes[p].grant
             /\ codes[p].consumed => codes'[p].consumed
          \/ pc[p] = "code" /\ codes'[p].grant = req'[p].grant
    /\ req'[p].op = "refresh" =>
          \/ req[p].op = "refresh" /\ SameInput(p) /\ req'[p].grant = req[p].grant
          \/ \E t \in TokenIds : /\ tokens[t] # Null
                                 /\ req'[p].code = tokens[t].code /\ req'[p].grant = tokens[t].grant
    /\ pc'[p] = "load" =>
          \/ pc[p] = "load"
          \/ /\ req'[p].code \in Reqs /\ codes[req'[p].code] # Null
             /\ ~codes[req'[p].code].consumed /\ codes'[req'[p].code].consumed
    /\ pc'[p] = "issue" =>
          \/ pc[p] = "issue" /\ req'[p].grant = req[p].grant
          \/ /\ pc[p] = "load" /\ codes[req[p].code] # Null
             /\ req'[p].grant = codes[req[p].code].grant
          \/ /\ pc[p] = "claim" /\ req'[p].grant = req[p].grant
             /\ Live(<<req[p].source, "REFRESH">>)
    /\ pc'[p] = "revokeAll" =>
          \/ pc[p] = "revokeAll" /\ req'[p].grant = req[p].grant
          \/ req'[p].op = "refresh"
          \/ /\ pc[p] = "replay" /\ codes[req[p].code] # Null /\ codes[req[p].code].consumed
             /\ req'[p].grant = codes[req[p].code].grant

\* ... and to a token: it stays what it is, or is issued for the request it is named after.
TokenOn(t) ==
    tokens'[t] # Null =>
       \/ /\ tokens[t] # Null /\ tokens'[t].code = tokens[t].code /\ tokens'[t].grant = tokens[t].grant
          /\ tokens[t].revoked => tokens'[t].revoked
       \/ /\ pc[t[1]] = "issue"
          /\ tokens'[t].code = req[t[1]].code /\ tokens'[t].grant = req[t[1]].grant

Onward == (\A p \in Reqs : ReqOn(p)) /\ (\A t \in TokenIds : TokenOn(t))

LEMMA UsedStays ==
    ASSUME TInv, Lineage, Onward, NEW c \in Reqs, Used(c)
    PROVE  Used(c)' /\ req'[c].grant = req[c].grant
BY DEF Used, CodeMade, Onward, ReqOn, SameInput

\* The codes and the exchanges a clause of Bound speaks of are there.
LEMMA CodesThere ==
    ASSUME TInv
    PROVE  /\ \A t \in TokenIds : tokens[t] # Null => tokens[t].code \in Reqs
           /\ \A p \in Reqs : req[p].op = "refresh" \/ pc[p] \in {"load", "issue", "replay"} =>
                  req[p].code \in Reqs
BY DEF TInv, TypeOK, Token, RequestWellFormed, Exchanges

LEMMA BoundOn == ASSUME TInv, TInv', Lineage, Bound, Onward PROVE Bound'
<1>1. ASSUME NEW c \in Reqs, codes'[c] # Null PROVE codes'[c].grant = req'[c].grant
  <2>1. CASE codes[c] # Null /\ codes'[c].grant = codes[c].grant
    <3>1. CodeMade(c) /\ codes[c].grant = req[c].grant
      BY <2>1 DEF Lineage, Bound
    <3>2. QED
      BY <2>1, <3>1 DEF Onward, ReqOn
  <2>2. CASE codes'[c].grant = req'[c].grant
    BY <2>2
  <2>3. QED
    BY <1>1, <2>1, <2>2 DEF Onward, ReqOn, TokenOn
<1>2. ASSUME NEW t \in TokenIds, tokens'[t] # Null
      PROVE  tokens'[t].grant = req'[tokens'[t].code].grant /\ Used(tokens[t].code)'
  <2>1. PICK c \in Reqs : c = tokens'[t].code /\ tokens'[t].grant = req[c].grant /\ Used(c)
    <3>1. CASE tokens[t] # Null /\ tokens'[t].code = tokens[t].code /\ tokens'[t].grant = tokens[t].grant
      BY <3>1, CodesThere DEF Bound
    <3>2. CASE /\ pc[t[1]] = "issue"
               /\ tokens'[t].code = req[t[1]].code /\ tokens'[t].grant = req[t[1]].grant
      BY <3>2, CodesThere DEF Bound, TokenIds
    <3>3. QED
      BY <1>2, <3>1, <3>2 DEF Onward, ReqOn, TokenOn
  <2>2. Used(c)' /\ req'[c].grant = req[c].grant
    BY <2>1, UsedStays
  <2>3. QED
    BY <2>1, <2>2 DEF Used, CodeMade
<1>3. ASSUME NEW p \in Reqs, req'[p].op = "refresh" \/ pc'[p] \in {"load", "issue", "revokeAll"}
      PROVE  /\ req'[p].code \in Reqs /\ Used(req[p].code)'
             /\ req'[p].op = "refresh" \/ pc'[p] \in {"issue", "revokeAll"} =>
                    req'[p].grant = req'[req'[p].code].grant
  <2>1. PICK c : c = req'[p].code
    OBVIOUS
  <2>2. SUFFICES /\ c \in Reqs /\ Used(c)'
                 /\ req'[p].op = "refresh" \/ pc'[p] \in {"issue", "revokeAll"} =>
                        req'[p].grant = req'[c].grant
    BY <2>1 DEF Used, CodeMade
  <2>3. \A d \in Reqs : Used(d) => Used(d)' /\ req'[d].grant = req[d].grant
    BY UsedStays
  <2>4. \A d \in Reqs : codes[d] # Null => CodeMade(d) /\ codes[d].grant = req[d].grant
    BY DEF Bound, Lineage
  <2>5. CASE req'[p].op = "refresh"
    <3>1. CASE req[p].op = "refresh" /\ SameInput(p) /\ req'[p].grant = req[p].grant
      BY <2>1, <2>3, <3>1, CodesThere DEF Bound, SameInput
    <3>2. CASE \E t \in TokenIds : /\ tokens[t] # Null
                                   /\ req'[p].code = tokens[t].code /\ req'[p].grant = tokens[t].grant
      BY <2>1, <2>3, <3>2, CodesThere DEF Bound
    <3>3. QED
      BY <2>5, <3>1, <3>2 DEF Onward, ReqOn, TokenOn
  <2>6. CASE pc'[p] = "load" /\ req'[p].op # "refresh"
    <3>1. CASE pc[p] = "load"
      BY <2>1, <2>3, <2>6, <3>1, CodesThere DEF Bound, SameInput, Onward, ReqOn
    <3>2. CASE c \in Reqs /\ codes[c] # Null /\ codes'[c].consumed
      <4>1. CodeMade(c)'
        <5>1. CodeMade(c) /\ ReqOn(c)
          BY <2>4, <3>2 DEF Onward
        <5>2. QED
          BY <5>1 DEF ReqOn, CodeMade, SameInput
      <4>2. QED
        BY <2>6, <3>2, <4>1 DEF Used
    <3>3. QED
      BY <2>1, <2>6, <3>1, <3>2 DEF Onward, ReqOn, TokenOn
  <2>7. CASE pc'[p] = "issue"
    <3>0. ReqOn(p) /\ (pc[p] = "claim" => req[p].op = "refresh")
      BY DEF Onward, TInv, RequestWellFormed
    <3>1. c = req[p].code /\ c \in Reqs /\ Used(c)
      BY <2>1, <2>7, <3>0 DEF ReqOn, Bound, SameInput
    <3>2. req'[p].grant = req[c].grant
      BY <2>4, <2>7, <3>0, <3>1 DEF ReqOn, Bound
    <3>3. QED
      BY <2>3, <3>1, <3>2
  <2>8. CASE pc'[p] = "revokeAll" /\ req'[p].op # "refresh"
    <3>1. CASE pc[p] = "revokeAll" /\ req'[p].grant = req[p].grant
      <4>1. req[p].code \in Reqs /\ c = req[p].code
        BY <2>1, <3>1 DEF Onward, ReqOn, SameInput, Bound
      <4>2. QED
        BY <2>3, <3>1, <4>1 DEF Bound
    <3>2. CASE /\ pc[p] = "replay" /\ codes[req[p].code] # Null /\ codes[req[p].code].consumed
               /\ req'[p].grant = codes[req[p].code].grant
      <4>1. c \in Reqs /\ c = req[p].code
        BY <2>1, <3>2, CodesThere DEF Onward, ReqOn, TokenOn, SameInput
      <4>2. Used(c) /\ req'[p].grant = req[c].grant
        BY <2>4, <3>2, <4>1 DEF Used
      <4>3. QED
        BY <2>3, <4>1, <4>2
    <3>3. QED
      BY <2>8, <3>1, <3>2 DEF Onward, ReqOn, TokenOn
  <2>9. QED
    BY <1>3, <2>5, <2>6, <2>7, <2>8
<1>4. QED
  BY <1>1, <1>2, <1>3 DEF Bound

LEMMA EndedStays ==
    ASSUME TInv, Lineage, Onward, NEW c \in Reqs, Ended(c)
    PROVE  Ended(c)'
<1>1. Used(c)'
  BY UsedStays DEF Ended
<1>2. ASSUME NEW t \in TokenIds, tokens'[t] # Null, tokens'[t].code = c PROVE tokens'[t].revoked
  <2>1. t[1] \in Reqs
    BY DEF TokenIds
  <2>2. ~(pc[t[1]] = "issue" /\ tokens'[t].code = req[t[1]].code)
    BY <1>2, <2>1 DEF Ended
  <2>3. QED
    BY <1>2, <2>2 DEF Onward, ReqOn, TokenOn, Ended
<1>3. ASSUME NEW q \in Reqs, pc'[q] \in {"load", "issue"} PROVE req'[q].code # c
  <2>1. CASE pc[q] \in {"load", "issue"}
    BY <2>1 DEF Onward, ReqOn, SameInput, Ended
  <2>2. CASE pc'[q] = "load" /\ pc[q] # "load"
    <3>1. ReqOn(q)
      BY DEF Onward
    <3>2. codes[c] = Null \/ codes[c].consumed
      BY DEF Ended, Used
    <3>3. QED
      BY <2>2, <3>1, <3>2 DEF ReqOn
  <2>3. CASE pc[q] = "claim" /\ Live(<<req[q].source, "REFRESH">>)
    <3>1. /\ req[q].op = "refresh" /\ req[q].source \in Reqs /\ req'[q].code = req[q].code
          /\ <<req[q].source, "REFRESH">> \in TokenIds
      BY <2>3 DEF TInv, RequestWellFormed, Exchanges, Onward, ReqOn, SameInput, TokenIds, Kinds
    <3>2. tokens[<<req[q].source, "REFRESH">>].code = req[q].code
      BY <2>3, <3>1 DEF Lineage, Live, Kinds
    <3>3. QED
      BY <2>3, <3>1, <3>2 DEF Ended, Live
  <2>4. QED
    BY <1>3, <2>1, <2>2, <2>3 DEF Onward, ReqOn, TokenOn
<1>4. QED
  BY <1>1, <1>2, <1>3 DEF Ended

\* A request arrives: it is an exchange of what is there, or it exchanges nothing.
LEMMA StartOnward ==
    ASSUME TInv, NEW p \in Reqs, NEW step \in {"narrow", "upsert", "load", "replay", "revokeAll",
                                               "claim", "revokeOne", "ok"},
           NEW q, Arrive(p, step, q),
           q.op = "refresh" => \E t \in TokenIds : /\ tokens[t] # Null
                                                   /\ q.code = tokens[t].code /\ q.grant = tokens[t].grant,
           step = "load" => /\ q.code \in Reqs /\ codes[q.code] # Null
                            /\ ~codes[q.code].consumed /\ codes'[q.code].consumed,
           step = "revokeAll" => q.op = "refresh",
           \A c \in Reqs : codes'[c] # Null =>
               /\ codes[c] # Null /\ codes'[c].grant = codes[c].grant
               /\ codes[c].consumed => codes'[c].consumed,
           \A t \in TokenIds : tokens'[t] = tokens[t] \/ tokens'[t] = Null
    PROVE  Onward
<1>1. /\ pc[p] = "idle" /\ pc'[p] = step /\ req'[p] = q
      /\ \A r \in Reqs \ {p} : pc'[r] = pc[r] /\ req'[r] = req[r]
  BY DEF Arrive, Goto, TInv, TypeOK
<1>2. ASSUME NEW r \in Reqs \ {p} PROVE ReqOn(r)
  <2>1. pc'[r] = pc[r] /\ req'[r] = req[r]
    BY <1>1
  <2>2. SameInput(r)
    BY <2>1 DEF SameInput
  <2>3. QED
    BY <2>1, <2>2 DEF ReqOn, CodeMade
<1>3. ReqOn(p)
  BY <1>1 DEF ReqOn, CodeMade
<1>4. \A t \in TokenIds : TokenOn(t)
  BY DEF TokenOn
<1>5. QED
  BY <1>2, <1>3, <1>4 DEF Onward

LEMMA StartsOnward == ASSUME TInv, NEW p \in Reqs, Start(p) PROVE Onward
<1>0. Blank \in Request /\ Blank.op = "approve"
  BY BlankType
<1>1. CASE StartApprove(p)
  <2>1. PICK s \in Scopes :
            /\ IF grant # Null /\ grant.scope # s
               THEN Arrive(p, "narrow", [Blank EXCEPT !.op = "approve", !.scope = s, !.grant = grant.id])
               ELSE Arrive(p, "upsert", [Blank EXCEPT !.op = "approve", !.scope = s])
            /\ UNCHANGED <<grant, codes, tokens>>
    BY <1>1 DEF StartApprove
  <2>2. [Blank EXCEPT !.op = "approve", !.scope = s, !.grant = grant.id].op = "approve"
    BY <1>0 DEF Request
  <2>3. [Blank EXCEPT !.op = "approve", !.scope = s].op = "approve"
    BY <1>0 DEF Request
  <2>4. ASSUME NEW q, NEW step \in {"narrow", "upsert"}, q.op = "approve", Arrive(p, step, q)
        PROVE  Onward
    BY <2>1, <2>4, StartOnward
  <2>5. CASE grant # Null /\ grant.scope # s
    <3>1. Arrive(p, "narrow", [Blank EXCEPT !.op = "approve", !.scope = s, !.grant = grant.id])
      BY <2>1, <2>5
    <3>2. QED
      BY <2>2, <2>4, <3>1
  <2>6. CASE ~(grant # Null /\ grant.scope # s)
    <3>1. Arrive(p, "upsert", [Blank EXCEPT !.op = "approve", !.scope = s])
      BY <2>1, <2>6
    <3>2. QED
      BY <2>3, <2>4, <3>1
  <2>7. QED
    BY <2>5, <2>6
<1>2. CASE StartRedeem(p)
  <2>1. PICK c \in {c \in Reqs : codes[c] # Null}, good \in BOOLEAN :
            /\ Arrive(p, IF ~codes[c].consumed /\ ~codes[c].expired THEN "load" ELSE "replay",
                      [Blank EXCEPT !.op = "redeem", !.source = c, !.code = c, !.good = good])
            /\ codes' = [codes EXCEPT ![c].consumed = @ \/ (~codes[c].consumed /\ ~codes[c].expired)]
            /\ UNCHANGED <<grant, tokens>>
    BY <1>2 DEF StartRedeem
  <2>2. PICK q : /\ q = [Blank EXCEPT !.op = "redeem", !.source = c, !.code = c, !.good = good]
                 /\ q.op = "redeem" /\ q.code = c
    <3>1. [Blank EXCEPT !.op = "redeem", !.source = c, !.code = c, !.good = good].op = "redeem"
      BY <1>0 DEF Request
    <3>2. [Blank EXCEPT !.op = "redeem", !.source = c, !.code = c, !.good = good].code = c
      BY <1>0 DEF Request
    <3>3. QED
      BY <3>1, <3>2
  <2>3. \A d \in Reqs : codes'[d] # Null =>
            /\ codes[d] # Null /\ codes'[d].grant = codes[d].grant
            /\ codes[d].consumed => codes'[d].consumed
    BY <2>1 DEF TInv, TypeOK, Code
  <2>4. PICK step \in {"load", "replay"} :
            Arrive(p, step, q) /\ (step = "load" => ~codes[c].consumed /\ codes'[c].consumed)
    BY <2>1, <2>2 DEF TInv, TypeOK, Code
  <2>5. QED
    BY <2>1, <2>2, <2>3, <2>4, StartOnward
<1>3. CASE StartRefresh(p)
  <2>1. PICK t \in {t \in Reqs : tokens[<<t, "REFRESH">>] # Null} :
            /\ Arrive(p, IF tokens[<<t, "REFRESH">>].replacedBy # Null THEN "revokeAll" ELSE "claim",
                      [Blank EXCEPT !.op = "refresh", !.source = t,
                                    !.code = tokens[<<t, "REFRESH">>].code,
                                    !.grant = tokens[<<t, "REFRESH">>].grant,
                                    !.scope = tokens[<<t, "REFRESH">>].scope])
            /\ UNCHANGED <<grant, codes, tokens>>
    BY <1>3 DEF StartRefresh
  <2> DEFINE row == tokens[<<t, "REFRESH">>]
             r == [Blank EXCEPT !.op = "refresh", !.source = t, !.code = row.code,
                                !.grant = row.grant, !.scope = row.scope]
  <2>2. r.op = "refresh" /\ r.code = row.code /\ r.grant = row.grant
    <3> HIDE DEF row
    <3>1. QED
      BY <1>0 DEF Request
  <2>3. <<t, "REFRESH">> \in TokenIds /\ row # Null
    BY <2>1 DEF TokenIds, Kinds
  <2>4. PICK step \in {"revokeAll", "claim"} : Arrive(p, step, r) /\ UNCHANGED <<codes, tokens>>
    BY <2>1
  <2>5. r.op = "refresh" => \E u \in TokenIds : /\ tokens[u] # Null
                                               /\ r.code = tokens[u].code /\ r.grant = tokens[u].grant
    BY <2>2, <2>3
  <2> HIDE DEF r, row
  <2>6. QED
    BY <2>2, <2>4, <2>5, StartOnward
<1>4. CASE StartRevoke(p)
  <2>1. PICK t \in TokenIds :
            /\ Arrive(p, "revokeOne", [Blank EXCEPT !.op = "revoke", !.source = t[1], !.kind = t[2]])
            /\ UNCHANGED <<grant, codes, tokens>>
    BY <1>4 DEF StartRevoke
  <2>2. [Blank EXCEPT !.op = "revoke", !.source = t[1], !.kind = t[2]].op = "revoke"
    BY <1>0 DEF Request
  <2>3. PICK q : q.op = "revoke" /\ Arrive(p, "revokeOne", q)
    BY <2>1, <2>2
  <2>4. QED
    BY <2>1, <2>3, StartOnward
<1>5. CASE Disconnect(p)
  <2>1. [Blank EXCEPT !.op = "disconnect"].op = "disconnect"
    BY <1>0 DEF Request
  <2>2. PICK q : q.op = "disconnect" /\ Arrive(p, "ok", q)
    BY <1>5, <2>1 DEF Disconnect
  <2>3. /\ \A c \in Reqs : codes'[c] = codes[c] \/ codes'[c] = Null
        /\ \A t \in TokenIds : tokens'[t] = tokens[t] \/ tokens'[t] = Null
    BY <1>5 DEF Disconnect
  <2>4. QED
    BY <2>2, <2>3, StartOnward
<1>6. QED
  BY <1>1, <1>2, <1>3, <1>4, <1>5 DEF Start

\* A step of a request that is being served, as far as a session can tell.
LEMMA ServeOnward ==
    ASSUME TInv, NEW p \in Reqs, pc[p] \in Awaits,
           \A r \in Reqs \ {p} : pc'[r] = pc[r] /\ req'[r] = req[r], ReqOn(p),
           \A c \in Reqs \ {p} : codes'[c] = codes[c],
           \A t \in TokenIds : TokenOn(t)
    PROVE  Onward
<1>1. ASSUME NEW r \in Reqs \ {p} PROVE ReqOn(r)
  <2>1. pc'[r] = pc[r] /\ req'[r] = req[r] /\ codes'[r] = codes[r]
    OBVIOUS
  <2>2. SameInput(r)
    BY <2>1 DEF SameInput
  <2>3. QED
    BY <2>1, <2>2 DEF ReqOn, CodeMade
<1>2. QED
  BY <1>1 DEF Onward

LEMMA ServesOnward == ASSUME TInv, Lineage, NEW p \in Reqs, Serve(p) PROVE Onward
<1>0. TypeOK
  BY DEF TInv
<1> USE DEF At, Goto
<1>1. CASE Narrow(p) \/ RevokeAll(p)
  <2>1. \A t \in TokenIds : TokenOn(t)
    BY <1>0, <1>1, RevokedAllType DEF Narrow, RevokeAll, TokenOn
  <2>2. /\ pc[p] \in {"narrow", "revokeAll"} /\ UNCHANGED <<codes, req>> /\ pc'[p] \in {"upsert", "reused"}
        /\ \A r \in Reqs \ {p} : pc'[r] = pc[r]
    BY <1>0, <1>1 DEF Narrow, RevokeAll, TypeOK
  <2>3. ReqOn(p)
    BY <2>2 DEF ReqOn, SameInput, CodeMade
  <2>4. QED
    BY <2>1, <2>2, <2>3, ServeOnward DEF Awaits
<1>2. CASE Upsert(p)
  <2>1. /\ pc[p] = "upsert" /\ pc'[p] = "code" /\ UNCHANGED <<codes, tokens>> /\ SameInput(p)
        /\ \A r \in Reqs \ {p} : pc'[r] = pc[r] /\ req'[r] = req[r]
    BY <1>0, <1>2 DEF Upsert, TypeOK, SameInput, Request
  <2>2. req[p].op = "approve"
    BY <2>1 DEF TInv, RequestWellFormed
  <2>3. ReqOn(p)
    BY <2>1, <2>2 DEF ReqOn, CodeMade, SameInput
  <2>4. QED
    BY <2>1, <2>3, ServeOnward DEF Awaits, TokenOn
<1>3. CASE IssueCode(p)
  <2>1. /\ pc[p] = "code" /\ pc'[p] \in {"ok", "error"} /\ UNCHANGED <<tokens, req>>
        /\ \A r \in Reqs \ {p} : pc'[r] = pc[r] /\ codes'[r] = codes[r]
        /\ codes'[p] # codes[p] => codes'[p].grant = req[p].grant
    BY <1>0, <1>3 DEF IssueCode, TypeOK
  <2>2. ReqOn(p)
    BY <2>1 DEF ReqOn, CodeMade, SameInput
  <2>3. QED
    BY <2>1, <2>2, ServeOnward DEF Awaits, TokenOn
<1>4. CASE Load(p)
  <2>1. /\ pc[p] = "load" /\ pc'[p] \in {"issue", "invalid"} /\ UNCHANGED <<codes, tokens>> /\ SameInput(p)
        /\ \A r \in Reqs \ {p} : pc'[r] = pc[r] /\ req'[r] = req[r]
    BY <1>0, <1>4 DEF Load, TypeOK, SameInput, Request
  <2>2. req[p].op = "redeem"
    BY <2>1 DEF TInv, RequestWellFormed
  <2>3. pc'[p] = "issue" => /\ codes[req[p].source] # Null
                            /\ req'[p].grant = codes[req[p].source].grant
    BY <1>0, <1>4 DEF Load, TypeOK, Request
  <2>4. req[p].code = req[p].source
    BY <2>2 DEF Lineage
  <2>5. ReqOn(p)
    BY <2>1, <2>2, <2>3, <2>4 DEF ReqOn, CodeMade, SameInput
  <2>6. QED
    BY <2>1, <2>5, ServeOnward DEF Awaits, TokenOn
<1>5. CASE Replay(p)
  <2>1. /\ pc[p] = "replay" /\ pc'[p] \in {"revokeAll", "invalid"} /\ UNCHANGED <<codes, tokens>>
        /\ SameInput(p) /\ \A r \in Reqs \ {p} : pc'[r] = pc[r] /\ req'[r] = req[r]
    BY <1>0, <1>5 DEF Replay, TypeOK, SameInput, Request
  <2>2. req[p].op = "redeem"
    BY <2>1 DEF TInv, RequestWellFormed
  <2>3. pc'[p] = "revokeAll" => /\ codes[req[p].source] # Null /\ codes[req[p].source].consumed
                                /\ req'[p].grant = codes[req[p].source].grant
    BY <1>0, <1>5 DEF Replay, TypeOK, Request
  <2>4. req[p].code = req[p].source
    BY <2>2 DEF Lineage
  <2>5. ReqOn(p)
    BY <2>1, <2>2, <2>3, <2>4 DEF ReqOn, CodeMade, SameInput
  <2>6. QED
    BY <2>1, <2>5, ServeOnward DEF Awaits, TokenOn
<1>6. CASE Claim(p)
  <2>1. /\ pc[p] = "claim" /\ pc'[p] \in {"issue", "revokeAll"} /\ UNCHANGED <<codes, req>>
        /\ \A r \in Reqs \ {p} : pc'[r] = pc[r]
        /\ pc'[p] = "issue" => Live(<<req[p].source, "REFRESH">>)
    BY <1>0, <1>6 DEF Claim, TypeOK, Live
  <2>2. req[p].op = "refresh"
    BY <2>1 DEF TInv, RequestWellFormed
  <2>3. \A t \in TokenIds : TokenOn(t)
    BY <1>0, <1>6 DEF Claim, TypeOK, Token, TokenOn
  <2>4. ReqOn(p)
    BY <2>1, <2>2 DEF ReqOn, CodeMade, SameInput
  <2>5. QED
    BY <2>1, <2>3, <2>4, ServeOnward DEF Awaits
<1>7. CASE Issue(p)
  <2>1. /\ pc[p] = "issue" /\ pc'[p] \in {"ok", "find", "error"} /\ UNCHANGED <<codes, req>>
        /\ \A r \in Reqs \ {p} : pc'[r] = pc[r]
    BY <1>0, <1>7 DEF Issue, TypeOK
  <2>2. req[p].op \in Exchanges
    BY <2>1 DEF TInv, RequestWellFormed
  <2>3. NewToken(req[p]).code = req[p].code /\ NewToken(req[p]).grant = req[p].grant
    BY DEF NewToken
  <2>4. \A t \in TokenIds : TokenOn(t)
    BY <1>7, <2>1, <2>3 DEF Issue, TokenOn
  <2>5. ReqOn(p)
    BY <2>1, <2>2 DEF ReqOn, CodeMade, SameInput, Exchanges
  <2>6. QED
    BY <2>1, <2>4, <2>5, ServeOnward DEF Awaits
<1>8. CASE Find(p)
  <2>1. /\ pc[p] = "find" /\ pc'[p] = "record" /\ UNCHANGED <<codes, tokens>> /\ SameInput(p)
        /\ req'[p].grant = req[p].grant
        /\ \A r \in Reqs \ {p} : pc'[r] = pc[r] /\ req'[r] = req[r]
    BY <1>0, <1>8 DEF Find, TypeOK, SameInput, Request
  <2>2. ReqOn(p)
    BY <2>1 DEF ReqOn, CodeMade, SameInput
  <2>3. QED
    BY <2>1, <2>2, ServeOnward DEF Awaits, TokenOn
<1>9. CASE Record(p) \/ RevokeOne(p)
  <2>1. /\ pc[p] \in {"record", "revokeOne"} /\ pc'[p] \in {"ok", "error"} /\ UNCHANGED <<codes, req>>
        /\ \A r \in Reqs \ {p} : pc'[r] = pc[r]
    BY <1>0, <1>9 DEF Record, RevokeOne, TypeOK
  <2>2. \A t \in TokenIds : TokenOn(t)
    BY <1>0, <1>9 DEF Record, RevokeOne, TypeOK, Token, TokenOn
  <2>3. ReqOn(p)
    BY <2>1 DEF ReqOn, CodeMade, SameInput
  <2>4. QED
    BY <2>1, <2>2, <2>3, ServeOnward DEF Awaits
<1>10. QED
  BY <1>1, <1>2, <1>3, <1>4, <1>5, <1>6, <1>7, <1>8, <1>9 DEF Serve

LEMMA NextOnward == ASSUME TInv, Lineage, [Next]_vars PROVE Onward
<1>1. ASSUME NEW p \in Reqs, Start(p) PROVE Onward
  BY <1>1, StartsOnward
<1>2. ASSUME NEW p \in Reqs, Serve(p) PROVE Onward
  BY <1>2, ServesOnward
<1>3. ASSUME NEW p \in Reqs, Crash(p) PROVE Onward
  <2>1. /\ pc[p] \in Awaits /\ pc'[p] = "lost" /\ UNCHANGED <<codes, tokens, req>>
        /\ \A r \in Reqs \ {p} : pc'[r] = pc[r]
    BY <1>3 DEF Crash, Goto, TInv, TypeOK
  <2>2. ReqOn(p)
    BY <2>1 DEF ReqOn, CodeMade, SameInput, Awaits
  <2>3. QED
    BY <2>1, <2>2, ServeOnward DEF TokenOn
<1>4. ASSUME UNCHANGED <<pc, req>>,
             \A c \in Reqs : codes'[c] # Null =>
                 /\ codes[c] # Null /\ codes'[c].grant = codes[c].grant
                 /\ codes[c].consumed => codes'[c].consumed,
             \A t \in TokenIds : TokenOn(t)
      PROVE  Onward
  BY <1>4 DEF Onward, ReqOn, SameInput, CodeMade
<1>5. ASSUME NEW c \in Reqs, ExpireCode(c) PROVE Onward
  <2>1. UNCHANGED <<pc, req, tokens>>
    BY <1>5 DEF ExpireCode
  <2>2. \A d \in Reqs : codes'[d] # Null =>
            /\ codes[d] # Null /\ codes'[d].grant = codes[d].grant
            /\ codes[d].consumed => codes'[d].consumed
    BY <1>5 DEF ExpireCode, TInv, TypeOK, Code
  <2>3. QED
    BY <1>4, <2>1, <2>2 DEF TokenOn
<1>6. ASSUME NEW t \in TokenIds, ExpireToken(t) PROVE Onward
  <2>1. \A u \in TokenIds : TokenOn(u)
    BY <1>6 DEF ExpireToken, TInv, TypeOK, Token, TokenOn
  <2>2. QED
    BY <1>4, <1>6, <2>1 DEF ExpireToken
<1>7. CASE UNCHANGED vars
  BY <1>4, <1>7 DEF vars, TokenOn
<1>8. QED
  BY <1>1, <1>2, <1>3, <1>5, <1>6, <1>7 DEF Next

\* A request that arrives ends the solitude of the one being served.
LEMMA SolitudeNext ==
    ASSUME TInv, Solitude, [Next]_vars
    PROVE  /\ Solitude'
           /\ \A p \in alone' : pc'[p] = "reused" => p \in alone
<1>0. TypeOK
  BY DEF TInv
<1>1. ASSUME NEW p \in Reqs, NEW step, NEW q, Arrive(p, step, q), step # "idle", step # "reused"
      PROVE  Solitude' /\ \A r \in alone' : pc'[r] = "reused" => r \in alone
  <2>1. /\ pc[p] = "idle" /\ pc'[p] = step /\ \A r \in Reqs \ {p} : pc'[r] = pc[r]
        /\ alone' = IF InFlight = {} THEN alone \cup {p} ELSE alone \ InFlight
    BY <1>0, <1>1 DEF Arrive, Goto, TypeOK
  <2>2. p \notin InFlight /\ p \notin alone
    BY <2>1 DEF InFlight, Awaits, Solitude
  <2>3. InFlight' \subseteq InFlight \cup {p} /\ (step \in Awaits => p \in InFlight')
    BY <2>1 DEF InFlight
  <2>4. CASE InFlight = {}
    <3>1. \A r \in alone : r \in Reqs /\ pc[r] \notin Awaits
      BY <1>0, <2>4 DEF InFlight, TypeOK
    <3>2. QED
      BY <1>1, <2>1, <2>2, <2>3, <2>4, <3>1 DEF Solitude
  <2>5. CASE InFlight # {}
    <3>1. \A r \in alone' : r \in Reqs \ {p} /\ pc'[r] = pc[r] /\ pc[r] \notin Awaits /\ r \in alone
      BY <1>0, <2>1, <2>2, <2>5 DEF InFlight, TypeOK
    <3>2. QED
      BY <3>1 DEF Solitude
  <2>6. QED
    BY <2>4, <2>5
<1>2. ASSUME NEW p \in Reqs, Start(p)
      PROVE  Solitude' /\ \A r \in alone' : pc'[r] = "reused" => r \in alone
  <2>1. \E step \in {"narrow", "upsert", "load", "replay", "revokeAll", "claim", "revokeOne", "ok"} : \E q :
            Arrive(p, step, q)
    BY <1>2 DEF Start, StartApprove, StartRedeem, StartRefresh, StartRevoke, Disconnect
  <2>2. QED
    BY <1>1, <2>1
<1>3. ASSUME NEW p \in Reqs, pc[p] \in Awaits, pc'[p] # "idle", alone' = alone,
             \A r \in Reqs \ {p} : pc'[r] = pc[r]
      PROVE  Solitude'
  <2>1. InFlight' \subseteq InFlight /\ p \in InFlight
    BY <1>3 DEF InFlight
  <2>2. alone \subseteq Reqs /\ \A r \in alone : pc'[r] \in Awaits => r \in InFlight'
    BY <1>0 DEF InFlight, TypeOK
  <2>3. \A r \in alone : pc'[r] \in Awaits => pc[r] \in Awaits
    BY <1>3, <2>2
  <2>4. QED
    BY <1>3, <2>1, <2>2, <2>3 DEF Solitude
<1>4. ASSUME NEW p \in Reqs, Serve(p) \/ Crash(p) PROVE Solitude' /\ alone' = alone
  <2>1. PICK step \in (Awaits \cup Replies) : Goto(p, step)
    BY <1>4 DEF Serve, Crash, Narrow, Upsert, IssueCode, Load, Replay, RevokeAll, Claim, Issue, Find,
                Record, RevokeOne, Awaits, Replies
  <2>2. pc[p] \in Awaits /\ alone' = alone
    BY <1>4 DEF Serve, Crash, Narrow, Upsert, IssueCode, Load, Replay, RevokeAll, Claim, Issue, Find,
                Record, RevokeOne, Awaits, At
  <2>3. pc'[p] # "idle" /\ \A r \in Reqs \ {p} : pc'[r] = pc[r]
    BY <1>0, <2>1 DEF Goto, TypeOK, Awaits, Replies
  <2>4. QED
    BY <1>3, <2>2, <2>3
<1>5. CASE (\E c \in Reqs : ExpireCode(c)) \/ (\E t \in TokenIds : ExpireToken(t)) \/ UNCHANGED vars
  <2>1. UNCHANGED <<pc, alone>>
    BY <1>5 DEF ExpireCode, ExpireToken, vars
  <2>2. QED
    BY <2>1 DEF Solitude, InFlight
<1>6. QED
  BY <1>2, <1>4, <1>5 DEF Next

\* Only the revocation of a grant's tokens answers that something was reused.
LEMMA ReusedAfter ==
    ASSUME TInv, Lineage, Bound, Solitude, [Next]_vars, NEW p \in alone, pc'[p] = "reused", pc[p] # "reused"
    PROVE  Ended(req[p].code)'
<1>0. p \in Reqs /\ TypeOK
  BY DEF TInv, TypeOK
<1>1. RevokeAll(p)
  <2>1. ASSUME NEW r \in Reqs, Start(r) PROVE FALSE
    <3>1. \E step \in {"narrow", "upsert", "load", "replay", "revokeAll", "claim", "revokeOne", "ok"} : \E q :
              Arrive(r, step, q)
      BY <2>1 DEF Start, StartApprove, StartRedeem, StartRefresh, StartRevoke, Disconnect
    <3>2. QED
      BY <1>0, <3>1 DEF Arrive, Goto, TypeOK
  <2>2. ASSUME NEW r \in Reqs, Serve(r) PROVE RevokeAll(p)
    BY <1>0, <2>2 DEF Serve, Narrow, Upsert, IssueCode, Load, Replay, RevokeAll, Claim, Issue, Find,
                      Record, RevokeOne, Goto, TypeOK
  <2>3. ASSUME NEW r \in Reqs, Crash(r) PROVE FALSE
    BY <1>0, <2>3 DEF Crash, Goto, TypeOK
  <2>4. CASE (\E c \in Reqs : ExpireCode(c)) \/ (\E t \in TokenIds : ExpireToken(t)) \/ UNCHANGED vars
    BY <1>0, <2>4 DEF ExpireCode, ExpireToken, vars
  <2>5. QED
    BY <2>1, <2>2, <2>3, <2>4 DEF Next
<1>2. PICK c \in Reqs : c = req[p].code /\ Used(c) /\ req[p].grant = req[c].grant
  BY <1>0, <1>1 DEF RevokeAll, At, Bound
<1>3. /\ pc[p] = "revokeAll" /\ tokens' = RevokedAll(req[p].grant) /\ UNCHANGED <<codes, req>>
      /\ \A r \in Reqs \ {p} : pc'[r] = pc[r]
  BY <1>0, <1>1 DEF RevokeAll, At, Goto, TypeOK
<1>4. Used(c)' /\ req'[p].code = c
  BY <1>1, <1>2, <1>3, UsedStays, NextOnward
<1>5. ASSUME NEW q \in Reqs, pc'[q] \in {"load", "issue"} PROVE FALSE
  <2>1. q # p /\ pc[q] \in Awaits
    BY <1>3, <1>5 DEF Awaits
  <2>2. InFlight = {p} /\ q \in InFlight
    BY <1>3, <2>1 DEF Solitude, InFlight, Awaits
  <2>3. QED
    BY <2>1, <2>2
<1>6. ASSUME NEW t \in TokenIds, tokens'[t] # Null, tokens'[t].code = c PROVE tokens'[t].revoked
  <2>1. tokens[t] # Null /\ tokens[t].code = c
    BY <1>0, <1>3, <1>6, RevokedAllType
  <2>2. tokens[t].grant = req[p].grant
    BY <1>2, <2>1 DEF Bound
  <2>3. tokens[t] \in Token
    BY <1>0, <2>1 DEF TypeOK
  <2>4. QED
    BY <1>3, <2>1, <2>2, <2>3 DEF RevokedAll, Token
<1>7. QED
  BY <1>4, <1>5, <1>6 DEF Ended, Used, CodeMade

LEMMA EndingsNext ==
    ASSUME TInv, TInv', Sessions, Endings, [Next]_vars
    PROVE  Endings'
<1>1. Lineage /\ Onward
  BY NextOnward DEF Sessions
<1>2. Bound' /\ Solitude'
  BY <1>1, BoundOn, SolitudeNext DEF Endings
<1>3. ASSUME NEW p \in alone', pc'[p] = "reused" PROVE Ended(req[p].code)'
  <2>1. p \in alone /\ p \in Reqs
    BY <1>3, SolitudeNext DEF Endings, TInv, TypeOK
  <2>2. CASE pc[p] = "reused"
    <3>1. PICK c : c = req[p].code /\ Ended(c)
      BY <2>1, <2>2 DEF Endings
    <3>2. req'[p].code = c
      BY <1>1, <2>1, <2>2, <3>1 DEF Onward, ReqOn, SameInput
    <3>3. c \in Reqs
      BY <3>1 DEF Ended
    <3>4. Ended(c)'
      BY <1>1, <3>1, <3>3, EndedStays
    <3>5. QED
      BY <3>2, <3>4 DEF Ended, Used, CodeMade
  <2>3. CASE pc[p] # "reused"
    BY <1>1, <1>3, <2>1, <2>3, ReusedAfter DEF Endings
  <2>4. QED
    BY <2>2, <2>3
<1>4. QED
  BY <1>2, <1>3 DEF Endings

\* A code or a refresh token that is presented again, while the server does nothing else, has
\* no live token left in its session, and none comes: whatever arrives, dies or expires later.
THEOREM ReuseIsFinal == Spec => []ReuseEndsSession
<1>1. Init => Endings
  BY BlankType, StoreAssumption DEF Init, Endings, Bound, Solitude
<1>2. TInv /\ TInv' /\ Sessions /\ Endings /\ [Next]_vars => Endings'
  BY EndingsNext
<1>3. TInv /\ Endings => ReuseEndsSession
  BY DEF Endings, Ended, ReuseEndsSession, Live
<1>4. QED
  BY <1>1, <1>2, <1>3, SessionsHold, PTL DEF Spec

=============================================================================
