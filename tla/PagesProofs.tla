----------------------------- MODULE PagesProofs -----------------------------
(***************************************************************************)
(* Proofs about what MCPages runs side by side: the doors of McpAccess,    *)
(* for any keys, tokens and requests, and the parts a browser tab runs -   *)
(* the forms that edit one row (EditForm), reading progress (Reader) and   *)
(* the consent to analytics (Consent), for any number of tabs, fields,     *)
(* texts, scenes and writes.                                               *)
(***************************************************************************)
EXTENDS MCPages, SequenceTheorems, WellFoundedInduction, TLAPS

-----------------------------------------------------------------------------
(* The doors an AI client comes in by *)

\* What the awaits of a request have established by each step.  A credential that opens its
\* door now opened it when the request arrived: nothing is issued twice, or unrevoked.
Vetted(r) ==
    LET q == request[r] IN
    /\ q.by \in Keys => key[q.by].state # "unissued"
    /\ q.by \in Tokens => token[q.by].state # "unissued"
    /\ Opens(q.door, q.by) => q.good
    /\ q.step = "verify" => q.door = "mcp"
    /\ q.step = "stamp" => /\ q.door = "mcp" /\ q.by \in Tokens /\ token[q.by].kind = "ACCESS"
                           /\ token[q.by].resource /\ token[q.by].scope => q.good
    /\ q.step = "lookup" /\ q.by \in Tokens => ~Opens(q.door, q.by)
    /\ q.step = "touch" => q.by \in Keys /\ q.good

\* Whoever has arrived is known to have, and so is whoever a question has found.
Noticed == (Arrived => arrived) /\ (poll.found => arrived)

AccessIInv ==
    /\ AccessTypeOK
    /\ \A r \in Requests : request[r] # NoRequest => Vetted(r)
    /\ Noticed
    /\ ConnectedMeansArrived

LEMMA AccessInitial == AccessInit => AccessIInv
<1> SUFFICES ASSUME AccessInit PROVE AccessIInv
  OBVIOUS
<1>1. key \in [Keys -> Key] /\ \A k \in Keys : ~key[k].used
  <2> DEFINE one(state, hash) == [state |-> state, hash |-> hash, used |-> FALSE]
  <2>1. one("unissued", "sha256") \in Key /\ one("live", "bcrypt") \in Key
    BY DEF Key
  <2>2. key \in [Keys -> {one("unissued", "sha256"), one("live", "bcrypt")}]
    BY DEF AccessInit
  <2>3. \A k \in Keys : ~key[k].used
    BY <2>2
  <2>4. key \in [Keys -> Key]
    <3> HIDE DEF one
    <3>1. QED
      BY <2>1, <2>2
  <2>5. QED
    BY <2>3, <2>4
<1>2. token \in [Tokens -> Token]
  BY DEF AccessInit, Token
<1>3. request \in [Requests -> {NoRequest}]
  BY DEF AccessInit
<1>4. ~Arrived
  BY <1>1 DEF AccessInit, Arrived
<1>5. QED
  BY <1>1, <1>2, <1>3, <1>4
     DEF AccessInit, AccessIInv, AccessTypeOK, NoPoll, Noticed, ConnectedMeansArrived

\* NoRequest is no request.
LEMMA NotARequest == NoRequest \notin Request
BY DEF NoRequest, Request, AccessSteps

\* Every step keeps the rows typed.
LEMMA AccessTypes == AccessTypeOK /\ [AccessNext]_accessVars => AccessTypeOK'
<1> SUFFICES ASSUME AccessTypeOK, [AccessNext]_accessVars PROVE AccessTypeOK'
  OBVIOUS
<1> USE DEF AccessTypeOK, Notice, credentials, shown
<1>1. Arrived \in BOOLEAN /\ Arrived' \in BOOLEAN
  BY DEF Arrived
<1>2. ASSUME NEW k \in Keys, CreateApiToken(k) \/ RevokeApiToken(k) PROVE AccessTypeOK'
  BY <1>1, <1>2 DEF CreateApiToken, RevokeApiToken, Key
<1>3. CASE Approve \/ DisconnectGrant
  <2>1. CASE Approve
    BY <1>1, <2>1 DEF Approve
  <2>2. CASE DisconnectGrant
    <3>1. \A x \in Tokens : [token[x] EXCEPT !.state = "gone"] \in Token
      BY DEF Token
    <3>2. token' \in [Tokens -> Token]
      BY <2>2, <3>1 DEF DisconnectGrant
    <3>3. QED
      BY <1>1, <2>2, <3>2 DEF DisconnectGrant
  <2>3. QED
    BY <1>3, <2>1, <2>2
<1>4. ASSUME NEW x \in Tokens, IssueToken(x) \/ EndToken(x) PROVE AccessTypeOK'
  BY <1>1, <1>4 DEF IssueToken, EndToken, Token
<1>5. ASSUME NEW r \in Requests, NEW door \in Doors, NEW by \in Keys \cup Tokens, Present(r, door, by)
      PROVE  AccessTypeOK'
  BY <1>5 DEF Present, Request, AccessSteps, Opens
<1>6. ASSUME NEW r \in Requests, NEW step \in AccessSteps, request[r] # NoRequest, Move(r, step)
      PROVE  request' \in [Requests -> Request \cup {NoRequest}]
  BY <1>6 DEF Move, Request
<1>7. ASSUME NEW r \in Requests, Verify(r) \/ Stamp(r) \/ Lookup(r) PROVE AccessTypeOK'
  <2>1. request[r] # NoRequest
    BY <1>7 DEF Verify, Stamp, Lookup, IsAt, NoRequest
  <2>2. PICK step \in AccessSteps : Move(r, step)
    BY <1>7 DEF Verify, Stamp, Lookup, AccessSteps
  <2>3. QED
    BY <1>6, <1>7, <2>1, <2>2 DEF Verify, Stamp, Lookup
<1>8. ASSUME NEW r \in Requests, Touch(r) PROVE AccessTypeOK'
  <2>1. request[r] # NoRequest /\ Move(r, "run") /\ "run" \in AccessSteps
    BY <1>8 DEF Touch, IsAt, NoRequest, AccessSteps
  <2>2. key' \in [Keys -> Key]
    BY <1>8 DEF Touch, Key
  <2>3. QED
    BY <1>1, <1>6, <1>8, <2>1, <2>2 DEF Touch
<1>9. ASSUME NEW r \in Requests, Answer(r) PROVE AccessTypeOK'
  BY <1>9 DEF Answer
<1>10. CASE OpenPanel \/ Ask \/ PollFails \/ ClosePanel
  <2>1. poll' \in [waits : SUBSET {"grant", "key"}, found : BOOLEAN]
    <3>1. CASE OpenPanel \/ Ask
      <4>1. [waits |-> {"grant", "key"}, found |-> FALSE] \in [waits : SUBSET {"grant", "key"}, found : BOOLEAN]
        OBVIOUS
      <4>2. poll' = [waits |-> {"grant", "key"}, found |-> FALSE]
        BY <3>1 DEF OpenPanel, Ask
      <4>3. QED
        BY <4>1, <4>2
    <3>2. CASE PollFails \/ ClosePanel
      <4>1. NoPoll \in [waits : SUBSET {"grant", "key"}, found : BOOLEAN]
        BY DEF NoPoll
      <4>2. QED
        BY <3>2, <4>1 DEF PollFails, ClosePanel
    <3>3. QED
      BY <1>10, <3>1, <3>2
  <2>2. QED
    BY <1>1, <1>10, <2>1 DEF OpenPanel, Ask, PollFails, ClosePanel
<1>11. ASSUME NEW query \in {"grant", "key"}, Query(query) PROVE AccessTypeOK'
  BY <1>11 DEF Query, Finds, NoPoll
<1>12. CASE UNCHANGED accessVars
  BY <1>12 DEF accessVars
<1>13. QED
  BY <1>2, <1>3, <1>4, <1>5, <1>7, <1>8, <1>9, <1>10, <1>11, <1>12 DEF AccessNext

-----------------------------------------------------------------------------
(* The door *)

\* Rows go forward only: what was issued stays what it is, and ends once.
Forward ==
    /\ \A k \in Keys : key[k].state # "unissued" =>
          key'[k].state # "unissued" /\ (key'[k].state = "live" => key[k].state = "live")
    /\ \A x \in Tokens : token[x].state # "unissued" =>
          /\ token'[x].state # "unissued" /\ (token'[x].state = "live" => token[x].state = "live")
          /\ token'[x].kind = token[x].kind /\ token'[x].resource = token[x].resource
          /\ token'[x].scope = token[x].scope

LEMMA AccessForward == AccessTypeOK /\ [AccessNext]_accessVars => Forward
<1> SUFFICES ASSUME AccessTypeOK, [AccessNext]_accessVars PROVE Forward
  OBVIOUS
<1> USE DEF AccessTypeOK, Forward, credentials
<1>1. ASSUME NEW k \in Keys, CreateApiToken(k) \/ RevokeApiToken(k) PROVE Forward
  BY <1>1 DEF CreateApiToken, RevokeApiToken, Key
<1>2. CASE Approve
  BY <1>2 DEF Approve
<1>3. CASE DisconnectGrant
  BY <1>3 DEF DisconnectGrant, Token
<1>4. ASSUME NEW x \in Tokens, IssueToken(x) PROVE Forward
  BY <1>4 DEF IssueToken
<1>5. ASSUME NEW x \in Tokens, EndToken(x) PROVE Forward
  BY <1>5 DEF EndToken, Token
<1>6. ASSUME NEW r \in Requests, Touch(r) PROVE Forward
  BY <1>6 DEF Touch, Key
<1>7. ASSUME NEW r \in Requests,
             \/ \E door \in Doors, by \in Keys \cup Tokens : Present(r, door, by)
             \/ Verify(r) \/ Stamp(r) \/ Lookup(r) \/ Answer(r)
      PROVE  UNCHANGED <<key, token>>
  BY <1>7 DEF Present, Verify, Stamp, Lookup, Answer
<1>8. ASSUME OpenPanel \/ Ask \/ PollFails \/ ClosePanel \/ \E query \in {"grant", "key"} : Query(query)
      PROVE  UNCHANGED <<key, token>>
  BY <1>8 DEF OpenPanel, Ask, PollFails, ClosePanel, Query
<1>9. CASE UNCHANGED accessVars
  BY <1>9 DEF accessVars
<1>10. CASE UNCHANGED <<key, token>>
  BY <1>10
<1>11. QED
  BY <1>1, <1>2, <1>3, <1>4, <1>5, <1>6, <1>7, <1>8, <1>9, <1>10 DEF AccessNext

\* A credential that was issued and opens its door after a step opened it before.
LEMMA StillOpen ==
    ASSUME Forward, NEW door, NEW by, by \in Keys => key[by].state # "unissued",
           by \in Tokens => token[by].state # "unissued", Opens(door, by)'
    PROVE  Opens(door, by)
BY DEF Forward, Opens

\* A request that does not move stays vetted, whatever becomes of its credential.
LEMMA VettedStays ==
    ASSUME Forward, NEW r \in Requests, Vetted(r), request'[r] = request[r]
    PROVE  Vetted(r)'
<1> DEFINE q == request[r]
<1>1. Opens(q.door, q.by)' => Opens(q.door, q.by)
  BY StillOpen DEF Vetted, Opens, Forward
<1>2. QED
  BY <1>1 DEF Vetted, Forward, Opens

\* What a step of a request itself does: it arrives, or goes on, or is answered.
LEMMA VettedMoves ==
    ASSUME AccessTypeOK, NEW r \in Requests, UNCHANGED credentials,
           request[r] # NoRequest => Vetted(r),
           \/ \E door \in Doors, by \in Keys \cup Tokens : Present(r, door, by)
           \/ Verify(r) \/ Stamp(r) \/ Lookup(r)
    PROVE  /\ Vetted(r)'
           /\ request[r].step # "run" /\ request'[r].step = "run" => request[r].good
           /\ request[r].step # "refused" /\ request'[r].step = "refused" =>
                  ~Opens(request[r].door, request[r].by)
<1> USE McpAccessAssumption DEF AccessTypeOK, credentials
<1>1. ASSUME NEW door \in Doors, NEW by \in Keys \cup Tokens, Present(r, door, by)
      PROVE  /\ Vetted(r)' /\ request'[r].step \in {"verify", "lookup"}
  BY <1>1 DEF Present, Vetted, Opens, Doors
<1>2. ASSUME NEW step, Move(r, step), request[r] \in Request
      PROVE  /\ request'[r].step = step /\ request'[r].door = request[r].door
             /\ request'[r].by = request[r].by /\ request'[r].good = request[r].good
  BY <1>2 DEF Move, Request
<1>3. ASSUME IsAt(r, "verify") \/ IsAt(r, "stamp") \/ IsAt(r, "lookup")
      PROVE  request[r] \in Request /\ Vetted(r)
  BY <1>3 DEF IsAt, NoRequest
<1>4. CASE Verify(r)
  BY <1>2, <1>3, <1>4 DEF Verify, IsAt, Vetted, Opens
<1>5. CASE Stamp(r)
  BY <1>2, <1>3, <1>5 DEF Stamp, IsAt, Vetted, Opens
<1>6. CASE Lookup(r)
  BY <1>2, <1>3, <1>6 DEF Lookup, IsAt, Vetted, Opens, Request
<1>7. QED
  BY <1>1, <1>4, <1>5, <1>6

\* The key is stamped by the request that shows it, and then the tool runs.
LEMMA VettedTouch ==
    ASSUME AccessTypeOK, Forward, NEW r \in Requests, Vetted(r), Touch(r)
    PROVE  Vetted(r)' /\ request'[r].step = "run" /\ request[r].good
<1>1. request[r] \in Request
  BY DEF Touch, IsAt, NoRequest, AccessTypeOK
<1>2. /\ request'[r].step = "run" /\ request'[r].door = request[r].door
      /\ request'[r].by = request[r].by /\ request'[r].good = request[r].good
  BY <1>1 DEF Touch, Move, AccessTypeOK, Request
<1>3. request[r].good
  BY DEF Touch, IsAt, Vetted
<1>4. QED
  BY <1>2, <1>3 DEF Vetted, Forward

\* Every step leaves every request vetted.
LEMMA VettedNext ==
    ASSUME AccessIInv, AccessTypeOK', [AccessNext]_accessVars, NEW r \in Requests
    PROVE  /\ request'[r] # NoRequest => Vetted(r)'
           /\ request[r].step # "run" /\ request'[r].step = "run" => request[r].good
           /\ request[r].step # "refused" /\ request'[r].step = "refused" =>
                  ~Opens(request[r].door, request[r].by)
<1> USE DEF AccessIInv
<1>1. Forward
  BY AccessForward
<1>2. CASE request'[r] = request[r]
  BY <1>1, <1>2, VettedStays
<1>3. ASSUME \/ \E door \in Doors, by \in Keys \cup Tokens : Present(r, door, by)
             \/ Verify(r) \/ Stamp(r) \/ Lookup(r)
      PROVE  UNCHANGED credentials
  BY <1>3 DEF Present, Verify, Stamp, Lookup
<1>4. CASE \/ \E door \in Doors, by \in Keys \cup Tokens : Present(r, door, by)
           \/ Verify(r) \/ Stamp(r) \/ Lookup(r)
  BY <1>3, <1>4, VettedMoves
<1>5. CASE Touch(r)
  <2>1. request[r] # NoRequest
    BY <1>5 DEF Touch, IsAt, NoRequest
  <2>2. QED
    BY <1>1, <1>5, <2>1, VettedTouch
<1>6. CASE Answer(r)
  BY <1>6 DEF Answer, AccessTypeOK, NoRequest
<1>7. ASSUME NEW s \in Requests \ {r},
             \/ \E door \in Doors, by \in Keys \cup Tokens : Present(s, door, by)
             \/ Verify(s) \/ Stamp(s) \/ Lookup(s) \/ Touch(s) \/ Answer(s)
      PROVE  request'[r] = request[r]
  BY <1>7 DEF Present, Verify, Stamp, Lookup, Touch, Answer, Move, AccessTypeOK
<1>8. ASSUME \/ \E k \in Keys : CreateApiToken(k) \/ RevokeApiToken(k)
             \/ Approve \/ DisconnectGrant
             \/ \E x \in Tokens : IssueToken(x) \/ EndToken(x)
             \/ OpenPanel \/ Ask \/ PollFails \/ ClosePanel
             \/ \E query \in {"grant", "key"} : Query(query)
             \/ UNCHANGED accessVars
      PROVE  request' = request
  BY <1>8 DEF CreateApiToken, RevokeApiToken, Approve, DisconnectGrant, IssueToken, EndToken,
              OpenPanel, Ask, PollFails, ClosePanel, Query, accessVars
<1>9. QED
  BY <1>2, <1>4, <1>5, <1>6, <1>7, <1>8 DEF AccessNext

-----------------------------------------------------------------------------
(* The panel *)

LEMMA NoticedNext ==
    ASSUME AccessIInv, [AccessNext]_accessVars
    PROVE  Noticed' /\ ConnectedMeansArrived'
<1> USE DEF AccessIInv, Noticed, ConnectedMeansArrived, shown, credentials
<1>1. CASE UNCHANGED shown /\ Notice
  BY <1>1 DEF Notice
<1>2. CASE UNCHANGED <<credentials, shown, arrived>>
  BY <1>2 DEF Arrived
<1>3. CASE OpenPanel
  BY <1>3 DEF OpenPanel, Arrived
<1>4. CASE Ask \/ PollFails \/ ClosePanel
  BY <1>4 DEF Ask, PollFails, ClosePanel, NoPoll, Arrived
<1>5. ASSUME NEW query \in {"grant", "key"}, Query(query) PROVE Noticed' /\ ConnectedMeansArrived'
  <2>1. Finds(query) => Arrived
    BY DEF Finds, Arrived
  <2>2. Arrived' = Arrived
    BY <1>5 DEF Query, Arrived
  <2>3. QED
    BY <1>5, <2>1, <2>2 DEF Query, NoPoll
<1>6. ASSUME NEW k \in Keys, CreateApiToken(k) \/ RevokeApiToken(k) PROVE UNCHANGED shown /\ Notice
  BY <1>6 DEF CreateApiToken, RevokeApiToken
<1>7. ASSUME NEW x \in Tokens, IssueToken(x) \/ EndToken(x) PROVE UNCHANGED shown /\ Notice
  BY <1>7 DEF IssueToken, EndToken
<1>8. ASSUME Approve \/ DisconnectGrant PROVE UNCHANGED shown /\ Notice
  BY <1>8 DEF Approve, DisconnectGrant
<1>9. ASSUME NEW r \in Requests, Touch(r) PROVE UNCHANGED shown /\ Notice
  BY <1>9 DEF Touch
<1>10. ASSUME NEW r \in Requests,
              \/ \E door \in Doors, by \in Keys \cup Tokens : Present(r, door, by)
              \/ Verify(r) \/ Stamp(r) \/ Lookup(r) \/ Answer(r)
       PROVE  UNCHANGED <<credentials, shown, arrived>>
  BY <1>10 DEF Present, Verify, Stamp, Lookup, Answer
<1>11. CASE UNCHANGED accessVars
  BY <1>2, <1>11 DEF accessVars
<1>12. QED
  BY <1>1, <1>2, <1>3, <1>4, <1>5, <1>6, <1>7, <1>8, <1>9, <1>10, <1>11 DEF AccessNext

-----------------------------------------------------------------------------

LEMMA AccessInductive == AccessSpec => []AccessIInv
<1>1. AccessIInv /\ [AccessNext]_accessVars => AccessIInv'
  <2> SUFFICES ASSUME AccessIInv, [AccessNext]_accessVars PROVE AccessIInv'
    OBVIOUS
  <2>1. AccessTypeOK'
    BY AccessTypes DEF AccessIInv
  <2>2. QED
    BY <2>1, VettedNext, NoticedNext DEF AccessIInv
<1>2. QED
  BY <1>1, AccessInitial, PTL DEF AccessSpec

\* A tool runs only for a credential that opened its door when the request arrived, and only
\* a credential that opens it no longer is turned away, whatever is revoked between the awaits.
THEOREM DoorIsExact == AccessSpec => AdmittedExactly
<1>1. AccessIInv /\ [AccessNext]_accessVars =>
        [\A r \in Requests :
            /\ ~IsAt(r, "run") /\ request'[r].step = "run" => request[r].good
            /\ ~IsAt(r, "refused") /\ request'[r].step = "refused" =>
                   ~Opens(request[r].door, request[r].by)]_accessVars
  <2> SUFFICES ASSUME AccessIInv, [AccessNext]_accessVars, NEW r \in Requests
               PROVE  /\ request[r].step # "run" /\ request'[r].step = "run" => request[r].good
                      /\ request[r].step # "refused" /\ request'[r].step = "refused" =>
                             ~Opens(request[r].door, request[r].by)
    BY DEF IsAt
  <2>1. AccessTypeOK'
    BY AccessTypes DEF AccessIInv
  <2>2. QED
    BY <2>1, VettedNext
<1>2. QED
  BY <1>1, AccessInductive, PTL DEF AccessSpec, AdmittedExactly

\* The panel says connected only when a client had arrived since it was opened.
THEOREM PanelIsTrue == AccessSpec => []ConnectedMeansArrived
<1>1. AccessIInv => ConnectedMeansArrived
  BY DEF AccessIInv
<1>2. QED
  BY <1>1, AccessInductive, PTL

-----------------------------------------------------------------------------
(* Consent *)

ConsentBehaviour == ConsentInit /\ [][ConsentNext]_consentVars

\* A tab whose component has not read the storage yet has started nothing.
ConsentIInv ==
    /\ ConsentTypeOK
    /\ NoCaptureAgainstChoice
    /\ \A t \in Windows : consent[t] = "loading" => ~capturing[t]

LEMMA ConsentStep == ConsentIInv /\ [ConsentNext]_consentVars => ConsentIInv'
<1> SUFFICES ASSUME ConsentIInv, [ConsentNext]_consentVars
             PROVE  ConsentIInv'
  OBVIOUS
<1> USE DEF ConsentIInv, ConsentTypeOK, NoCaptureAgainstChoice, Answers
<1>1. ASSUME NEW t \in Windows, LoadWindow(t) PROVE ConsentIInv'
  BY <1>1 DEF LoadWindow
<1>2. ASSUME NEW t \in Windows, Mount(t) PROVE ConsentIInv'
  BY <1>2 DEF Mount, Apply
<1>3. ASSUME NEW t \in Windows, Choose(t, "granted") PROVE ConsentIInv'
  BY <1>3 DEF Choose, Apply
<1>4. ASSUME NEW t \in Windows, Choose(t, "denied") PROVE ConsentIInv'
  BY <1>4 DEF Choose, Apply
<1>5. ASSUME NEW t \in Windows, Reopen(t) PROVE ConsentIInv'
  BY <1>5 DEF Reopen, Apply
<1>6. CASE UNCHANGED consentVars
  BY <1>6 DEF consentVars
<1>7. QED
  BY <1>1, <1>2, <1>3, <1>4, <1>5, <1>6 DEF ConsentNext

LEMMA ConsentInvariant == ConsentBehaviour => []ConsentIInv
<1>1. ConsentInit => ConsentIInv
  BY DEF ConsentInit, ConsentIInv, ConsentTypeOK, NoCaptureAgainstChoice, Answers
<1>2. QED
  BY <1>1, ConsentStep, PTL DEF ConsentBehaviour

\* No tab captures after a denial in it, or after it was loaded without a grant in the
\* storage, until consent is granted in it, with any number of tabs.
THEOREM DenialStopsCapture == ConsentBehaviour => []NoCaptureAgainstChoice
<1>1. ConsentIInv => NoCaptureAgainstChoice
  BY DEF ConsentIInv
<1>2. QED
  BY <1>1, ConsentInvariant, PTL

-----------------------------------------------------------------------------
(* Forms *)

InFlight(t) == call[t].step \in {"check", "write", "render"}
Unwritten(t) == call[t].step \in {"check", "write"}

\* No number is above the count of writes, and a save has one.
Counted ==
    /\ \A f \in Fields : stamp[f] \leq writes
    /\ \A t \in Tabs, f \in Fields : form[t].seen[f] \leq writes
    /\ \A t \in Tabs : InFlight(t) => call[t].number \leq writes

\* The number of a save not yet written is its own: no other save has it, no column and no
\* rendering bears it.
Fresh ==
    \A t \in Tabs : Unwritten(t) =>
        /\ \A u \in Tabs \ {t} : InFlight(u) => call[u].number # call[t].number
        /\ \A f \in Fields : stamp[f] # call[t].number
        /\ \A u \in Tabs, f \in Fields : form[u].seen[f] # call[t].number

\* A column not written since a rendering shows what was rendered.
Faithful ==
    \A t \in Tabs, f \in Fields :
        stamp[f] = form[t].seen[f] => form[t].rendered[f] = Show(row)[f]

\* Only a column the form edits is typed over.
InColumns == \A t \in Tabs, f \in Fields : f \notin page.columns => form[t].typed[f] = Null

\* A save under way says what the form, which nobody can touch, still holds.
Composed ==
    \A t \in Tabs : InFlight(t) =>
        /\ call[t].text = Submitted(t)
        /\ call[t].meant = {f \in Fields : Content(t)[f] # form[t].rendered[f]}
        /\ call[t].input = Input(t)

\* After validation no required column is emptied.
Validated ==
    \A t \in Tabs : AtStep(t, "write") /\ page # Settings =>
        \A f \in DOMAIN call[t].input \cap Required : call[t].input[f] # Empty

\* What a save wrote is there while the column bears its number, and the column does not
\* bear the number its form was rendered with.
Kept ==
    \A t \in Tabs : AtStep(t, "render") =>
        \A f \in Fields :
            /\ stamp[f] = call[t].number =>
                   f \in DOMAIN call[t].input /\ row[f] = call[t].input[f]
            /\ f \in DOMAIN call[t].input => stamp[f] # form[t].seen[f]

\* The button that confirms a deletion has not been pressed while it can be.
Unconfirmed == \A t \in Tabs : ~dialog[t].submitted => dialog[t].requests = 0

FormIInv ==
    /\ FormTypeOK /\ Counted /\ Fresh /\ Faithful /\ InColumns
    /\ Composed /\ Validated /\ Kept /\ Unconfirmed

-----------------------------------------------------------------------------
(* Reading progress *)

\* The place stored once every request on its way has arrived in order.
Final == IF sent = <<>> THEN stored ELSE sent[Len(sent)]

\* An open reader is somewhere.  While nothing made the place doubtful, the last place
\* sent from the page is the one that will be stored, and so is the place a closed reader
\* was left at.
ReaderIInv ==
    /\ ReaderTypeOK
    /\ timer => mounted # {}
    /\ mounted # {} => at # Nowhere
    /\ certain /\ lastSent # Nowhere => Final = lastSent
    /\ certain /\ mounted = {} => Final = at

-----------------------------------------------------------------------------
(* Lemmas about the forms' operators *)

LEMMA PageFacts ==
    ASSUME page \in Pages
    PROVE  /\ page \in Page /\ page.columns \subseteq Fields
           /\ page.sends \in {"changed", "filled", "all"}
           /\ page.trims \in BOOLEAN /\ page.nulls \in BOOLEAN /\ page.closes \in BOOLEAN
           /\ page.sends = "changed" => page = Settings
           /\ page.nulls => page = Settings
<1> USE EditFormAssumption
<1>1. Pages = {Settings, Title, Mystery, Character, WorldNote}
  BY DEF Pages, Foreshadowing, PlotThread, RevisionTodo, StoryState, Scene
<1>2. CASE page = Settings
  BY <1>2 DEF Page, Settings
<1>3. CASE page = Title
  BY <1>3 DEF Page, Title
<1>4. CASE page = Mystery
  BY <1>4 DEF Page, Mystery
<1>5. CASE page = Character
  BY <1>5 DEF Page, Character
<1>6. CASE page = WorldNote
  BY <1>6 DEF Page, WorldNote, Character
<1>7. QED
  BY <1>1, <1>2, <1>3, <1>4, <1>5, <1>6

LEMMA SettingsFacts == Settings.trims /\ Settings.sends = "changed"
BY DEF Settings

LEMMA ShowType == ASSUME NEW r \in Row PROVE Show(r) \in [Fields -> Texts]
BY EditFormAssumption DEF Row, Show

LEMMA ShowAt == ASSUME NEW r, NEW f \in Fields PROVE Show(r)[f] = IF r[f] = Null THEN Empty ELSE r[f]
BY DEF Show

LEMMA ColumnFacts ==
    ASSUME page \in Pages, NEW text \in Texts
    PROVE  /\ Column(text) \in Texts \cup {Null}
           /\ page # Settings => Column(text) # Null
           /\ (IF Column(text) = Null THEN Empty ELSE Column(text))
                = IF page.trims THEN Trim[text] ELSE text
BY PageFacts, EditFormAssumption DEF Column

LEMMA ContentType ==
    ASSUME FormTypeOK, NEW t \in Tabs
    PROVE  /\ Content(t) \in [Fields -> Texts]
           /\ \A f \in Fields : Content(t)[f] =
                IF form[t].typed[f] = Null THEN form[t].rendered[f] ELSE form[t].typed[f]
<1>1. form[t] \in Form
  BY DEF FormTypeOK
<1>2. QED
  BY <1>1 DEF Content, Form

LEMMA SubmittedType ==
    ASSUME FormTypeOK, NEW t \in Tabs
    PROVE  /\ Submitted(t) \in [Fields -> Texts]
           /\ \A f \in Fields : Submitted(t)[f] = Sends[f][Content(t)[f]]
BY ContentType, EditFormAssumption DEF Submitted

\* What a save writes of a column, and why it leaves one out.
LEMMA InputFacts ==
    ASSUME FormTypeOK, NEW t \in Tabs
    PROVE  /\ DOMAIN Input(t) \subseteq page.columns
           /\ \A f \in DOMAIN Input(t) : Input(t)[f] = Column(Submitted(t)[f])
           /\ \A f \in DOMAIN Input(t) :
                page = Settings => Trim[Submitted(t)[f]] # form[t].rendered[f]
           /\ \A f \in page.columns \ DOMAIN Input(t) :
                \/ page = Settings /\ Trim[Submitted(t)[f]] = form[t].rendered[f]
                \/ page.sends = "filled" /\ Submitted(t)[f] = Empty
           /\ Input(t) \in UNION {[S -> Texts \cup {Null}] : S \in SUBSET Fields}
<1> DEFINE Changed(f) == Trim[Submitted(t)[f]] # form[t].rendered[f]
           Sent(f) == CASE page.sends = "changed" -> Changed(f)
                        [] page.sends = "filled"  -> Submitted(t)[f] # Empty
                        [] page.sends = "all"     -> TRUE
           sending == {f \in page.columns : Sent(f)}
<1>1. Input(t) = [f \in sending |-> Column(Submitted(t)[f])]
  BY DEF Input
<1>2. page \in Pages
  BY DEF FormTypeOK
<1>3. ASSUME NEW f PROVE /\ page.sends = "changed" => (Sent(f) <=> Changed(f))
                         /\ page.sends = "filled" => (Sent(f) <=> Submitted(t)[f] # Empty)
                         /\ page.sends = "all" => Sent(f)
  <2>1. CASE page.sends = "changed"
    BY <2>1
  <2>2. CASE page.sends = "filled"
    BY <2>2
  <2>3. CASE page.sends = "all"
    BY <2>3
  <2>4. QED
    BY <2>1, <2>2, <2>3
<1>4. DOMAIN Input(t) = sending /\ sending \subseteq page.columns
  <2> HIDE DEF Sent
  <2>1. QED
    BY <1>1
<1>5. \A f \in DOMAIN Input(t) : Input(t)[f] = Column(Submitted(t)[f])
  <2> HIDE DEF sending
  <2>1. QED
    BY <1>1, <1>4
<1>6. \A f \in DOMAIN Input(t) : page = Settings => Changed(f)
  <2> HIDE DEF Sent
  <2>1. QED
    BY <1>3, <1>4, SettingsFacts
<1>7. \A f \in page.columns \ DOMAIN Input(t) :
        \/ page = Settings /\ ~Changed(f)
        \/ page.sends = "filled" /\ Submitted(t)[f] = Empty
  <2> HIDE DEF Sent
  <2>1. QED
    BY <1>2, <1>3, <1>4, PageFacts
<1>8. Input(t) \in [sending -> Texts \cup {Null}]
  <2>1. \A f \in sending : Column(Submitted(t)[f]) \in Texts \cup {Null}
    <3> HIDE DEF Sent
    <3>1. ASSUME NEW f \in sending PROVE Column(Submitted(t)[f]) \in Texts \cup {Null}
      <4>1. Submitted(t)[f] \in Texts
        BY <1>2, SubmittedType, PageFacts
      <4>2. QED
        BY <4>1, <1>2, ColumnFacts
    <3>2. QED
      BY <3>1
  <2> HIDE DEF sending
  <2>2. QED
    BY <1>1, <2>1
<1>9. Input(t) \in UNION {[S -> Texts \cup {Null}] : S \in SUBSET Fields}
  <2> HIDE DEF sending
  <2>1. sending \in SUBSET Fields
    BY <1>2, <1>4, PageFacts
  <2>2. QED
    BY <1>8, <2>1
<1>10. QED
  BY <1>4, <1>5, <1>6, <1>7, <1>9

-----------------------------------------------------------------------------
(* Forms: every variable keeps its type *)

LEMMA RenderingType == ASSUME FormTypeOK PROVE Rendering \in Form
<1>1. Show(row) \in [Fields -> Texts]
  BY ShowType DEF FormTypeOK
<1>2. page.onDemand \in BOOLEAN
  BY DEF FormTypeOK, Page
<1>3. QED
  BY <1>1, <1>2 DEF Rendering, Form, Untouched, FormTypeOK

LEMMA NoCallType == ASSUME row \in Row PROVE NoCall \in Call
<1>1. Show(row) \in [Fields -> Texts]
  BY ShowType
<1>2. <<>> \in [{} -> Texts \cup {Null}]
  OBVIOUS
<1>3. <<>> \in UNION {[S -> Texts \cup {Null}] : S \in SUBSET Fields}
  BY <1>2
<1>4. QED
  BY <1>1, <1>3 DEF NoCall, Call, CallSteps

LEMMA StepType ==
    ASSUME FormTypeOK, NEW t \in Tabs, NEW step \in CallSteps, Step(t, step)
    PROVE  call' \in [Tabs -> Call]
BY DEF FormTypeOK, Step, Call

LEMMA OverwrittenFacts ==
    ASSUME row \in Row, NEW S \in SUBSET Fields, NEW input \in [S -> Texts \cup {Null}]
    PROVE  /\ Overwritten(input) \in Row
           /\ \A f \in Fields : Overwritten(input)[f] = IF f \in S THEN input[f] ELSE row[f]
BY DEF Overwritten, Row

LEMMA StampedFacts ==
    ASSUME stamp \in [Fields -> Nat], NEW S, NEW n \in Nat
    PROVE  /\ Stamped(S, n) \in [Fields -> Nat]
           /\ \A f \in Fields : Stamped(S, n)[f] = IF f \in S THEN n ELSE stamp[f]
BY DEF Stamped

LEMMA CallFacts ==
    ASSUME FormTypeOK, NEW t \in Tabs
    PROVE  /\ call[t] \in Call /\ call[t].number \in Nat
           /\ DOMAIN call[t].input \in SUBSET Fields
           /\ call[t].input \in [DOMAIN call[t].input -> Texts \cup {Null}]
<1>1. call[t] \in Call
  BY DEF FormTypeOK
<1>2. call[t].input \in UNION {[S -> Texts \cup {Null}] : S \in SUBSET Fields} /\ call[t].number \in Nat
  BY <1>1 DEF Call
<1>3. PICK S \in SUBSET Fields : call[t].input \in [S -> Texts \cup {Null}]
  BY <1>2
<1>4. DOMAIN call[t].input = S
  BY <1>3
<1>5. QED
  BY <1>1, <1>2, <1>3, <1>4

LEMMA RenderedFacts ==
    ASSUME FormTypeOK, NEW t \in Tabs, NEW fresh \in Rendered(t)
    PROVE  /\ fresh \in Form /\ fresh.rendered = Show(row) /\ fresh.seen = stamp
           /\ fresh.typed \in {form[t].typed, Untouched}
<1>1. form[t] \in Form /\ stamp \in [Fields -> Nat] /\ Untouched \in [Fields -> Texts \cup {Null}]
  BY DEF FormTypeOK, Untouched
<1>2. Show(row) \in [Fields -> Texts]
  BY ShowType DEF FormTypeOK
<1>3. QED
  BY <1>1, <1>2 DEF Rendered, Form

LEMMA WriteType ==
    ASSUME FormIInv, NEW t \in Tabs, Write(t)
    PROVE  FormTypeOK'
<1> USE DEF FormIInv
<1>0. /\ DOMAIN call[t].input \in SUBSET Fields /\ call[t].number \in Nat
      /\ call[t].input \in [DOMAIN call[t].input -> Texts \cup {Null}]
  BY CallFacts
<1>1. row' \in Row /\ stamp' \in [Fields -> Nat]
  <2>1. row \in Row /\ stamp \in [Fields -> Nat]
    BY DEF FormTypeOK
  <2>2. Overwritten(call[t].input) \in Row
    BY <1>0, <2>1, OverwrittenFacts
  <2>3. QED
    BY <1>0, <2>1, <2>2, StampedFacts DEF Write
<1>2. call' \in [Tabs -> Call]
  BY StepType DEF Write, CallSteps
<1>3. ASSUME page # Settings, NEW f \in Required PROVE row'[f] \notin {Null, Empty}
  <2>1. f \in Fields /\ row[f] \notin {Null, Empty}
    BY <1>3, EditFormAssumption DEF FormTypeOK
  <2>2. row'[f] = IF f \in DOMAIN call[t].input THEN call[t].input[f] ELSE row[f]
    <3>1. row \in Row
      BY DEF FormTypeOK
    <3>2. Overwritten(call[t].input)[f] = IF f \in DOMAIN call[t].input THEN call[t].input[f] ELSE row[f]
      BY <1>0, <2>1, <3>1, OverwrittenFacts
    <3>3. QED
      BY <3>2 DEF Write
  <2>3. CASE f \in DOMAIN call[t].input
    <3>1. call[t].input[f] # Empty
      BY <1>3, <2>3 DEF Validated, Write
    <3>2. call[t].input = Input(t)
      BY DEF Composed, InFlight, Write, AtStep
    <3>3. f \in DOMAIN Input(t) /\ Input(t)[f] = Column(Submitted(t)[f])
      BY <2>3, <3>2, InputFacts
    <3>4. Submitted(t)[f] \in Texts /\ page \in Pages
      BY <2>1, SubmittedType DEF FormTypeOK
    <3>5. Input(t)[f] # Null
      BY <1>3, <3>3, <3>4, ColumnFacts
    <3>6. QED
      BY <2>2, <2>3, <3>1, <3>2, <3>5
  <2>4. QED
    BY <2>1, <2>2, <2>3
<1>4. QED
  BY <1>1, <1>2, <1>3 DEF Write, FormTypeOK

LEMMA DictateType ==
    ASSUME FormTypeOK, NEW f \in Fields, NEW text \in Dictated \cup {Null}, Dictate(f, text)
    PROVE  FormTypeOK'
<1> DEFINE input == [g \in {f} |-> text]
<1>1. {f} \in SUBSET Fields /\ text \in Texts \cup {Null} /\ text # Empty
  BY EditFormAssumption
<1>2. input \in [{f} -> Texts \cup {Null}] /\ input[f] = text
  BY <1>1
<1>3. writes \in Nat /\ writes + 1 \in Nat /\ writes + 1 \in 0 .. MaxWrites
  BY EditFormAssumption DEF FormTypeOK, Dictate
<1>4. row' = Overwritten(input)
  BY DEF Dictate
<1> HIDE DEF input
<1>5. row' \in Row /\ \A g \in Fields : row'[g] = IF g \in {f} THEN input[g] ELSE row[g]
  BY <1>1, <1>2, <1>4, OverwrittenFacts DEF FormTypeOK
<1>6. stamp' \in [Fields -> Nat]
  BY <1>3, StampedFacts DEF Dictate, FormTypeOK
<1>7. ASSUME page # Settings, NEW g \in Required PROVE row'[g] \notin {Null, Empty}
  BY <1>1, <1>2, <1>5, <1>7, EditFormAssumption DEF Dictate, FormTypeOK
<1>8. QED
  BY <1>3, <1>5, <1>6, <1>7 DEF Dictate, FormTypeOK

LEMMA SubmitType ==
    ASSUME FormTypeOK, NEW t \in Tabs, Submit(t)
    PROVE  FormTypeOK'
<1>1. writes \in Nat /\ writes + 1 \in Nat /\ writes + 1 \in 0 .. MaxWrites
  BY EditFormAssumption DEF FormTypeOK, Submit
<1> DEFINE save == [step |-> IF Input(t) = <<>> THEN "render" ELSE "check",
                    input |-> Input(t), text |-> Submitted(t),
                    meant |-> {f \in Fields : Content(t)[f] # form[t].rendered[f]},
                    number |-> writes + 1]
<1>2. save \in Call
  BY <1>1, SubmittedType, InputFacts DEF Call, CallSteps
<1>3. call' = [call EXCEPT ![t] = save]
  BY DEF Submit
<1> HIDE DEF save
<1>4. QED
  BY <1>1, <1>2, <1>3 DEF Submit, FormTypeOK

\* What a step does to the dialogs and to the count of deletions.
LEMMA DialogStep ==
    ASSUME FormIInv, FormNext
    PROVE  dialog' \in [Tabs -> Dialog] /\ Unconfirmed' /\ deletes' \in 0 .. MaxDeletes /\ gone' \in BOOLEAN
<1> USE DEF FormIInv, FormTypeOK, Unconfirmed, Dialog, Closed
<1>0. deletes \in Nat
  BY EditFormAssumption
<1>1. ASSUME NEW t \in Tabs,
             Load(t) \/ Toggle(t) \/ DeleteRow(t) \/ Submit(t) \/ Check(t) \/ Write(t) \/ Render(t)
      PROVE  dialog' \in [Tabs -> Dialog] /\ Unconfirmed' /\ deletes' \in 0 .. MaxDeletes /\ gone' \in BOOLEAN
  <2>1. CASE Load(t)
    BY <2>1 DEF Load
  <2>2. CASE Toggle(t)
    BY <2>2 DEF Toggle
  <2>3. CASE DeleteRow(t)
    BY <1>0, <2>3, EditFormAssumption DEF DeleteRow
  <2>4. CASE Submit(t)
    BY <2>4 DEF Submit
  <2>5. CASE Check(t)
    BY <2>5 DEF Check
  <2>6. CASE Write(t)
    BY <2>6 DEF Write
  <2>7. CASE Render(t)
    BY <2>7 DEF Render
  <2>8. QED
    BY <1>1, <2>1, <2>2, <2>3, <2>4, <2>5, <2>6, <2>7
<1>2. ASSUME NEW t \in Tabs, NEW f \in Fields, NEW text \in Typed[f], Type(t, f, text)
      PROVE  dialog' \in [Tabs -> Dialog] /\ Unconfirmed' /\ deletes' \in 0 .. MaxDeletes /\ gone' \in BOOLEAN
  BY <1>2 DEF Type
<1>3. ASSUME NEW f \in Fields, NEW text \in Dictated \cup {Null}, Dictate(f, text)
      PROVE  dialog' \in [Tabs -> Dialog] /\ Unconfirmed' /\ deletes' \in 0 .. MaxDeletes /\ gone' \in BOOLEAN
  BY <1>3 DEF Dictate
<1>4. ASSUME Vanish
      PROVE  dialog' \in [Tabs -> Dialog] /\ Unconfirmed' /\ deletes' \in 0 .. MaxDeletes /\ gone' \in BOOLEAN
  BY <1>0, <1>4, EditFormAssumption DEF Vanish
<1>5. ASSUME NEW t \in Tabs, OpenDialog(t) \/ CloseDialog(t) \/ Confirm(t) \/ ShowPending(t) \/ Deleted(t)
      PROVE  dialog' \in [Tabs -> Dialog] /\ Unconfirmed' /\ deletes' \in 0 .. MaxDeletes /\ gone' \in BOOLEAN
  <2>0. dialog[t] \in Dialog
    OBVIOUS
  <2>1. CASE OpenDialog(t)
    BY <2>1 DEF OpenDialog
  <2>2. CASE CloseDialog(t)
    BY <2>2 DEF CloseDialog
  <2>3. CASE Confirm(t)
    <3>1. dialog[t].requests = 0
      BY <2>3 DEF Confirm
    <3>2. dialog' = [dialog EXCEPT ![t] = [dialog[t] EXCEPT !.submitted = TRUE, !.requests = 1]]
      BY <2>3, <3>1 DEF Confirm
    <3>3. QED
      BY <2>0, <2>3, <3>2 DEF Confirm
  <2>4. CASE ShowPending(t)
    BY <2>4 DEF ShowPending
  <2>5. CASE Deleted(t)
    <3>1. dialog[t].requests - 1 = 0
      BY <2>0, <2>5 DEF Deleted
    <3>2. dialog' = [dialog EXCEPT ![t] = Closed]
      <4>1. dialog' = [dialog EXCEPT ![t] = [Closed EXCEPT !.requests = 0]]
        BY <2>5, <3>1 DEF Deleted
      <4>2. [Closed EXCEPT !.requests = 0] = Closed
        OBVIOUS
      <4>3. QED
        BY <4>1, <4>2
    <3>3. dialog' \in [Tabs -> Dialog] /\ Unconfirmed'
      BY <3>2
    <3>4. deletes' \in 0 .. MaxDeletes /\ gone' \in BOOLEAN
      <4>1. \/ gone' = TRUE /\ deletes < MaxDeletes /\ deletes' = deletes + 1
            \/ gone' = gone /\ deletes' = deletes
        BY <2>5 DEF Deleted
      <4>2. gone \in BOOLEAN /\ deletes \in 0 .. MaxDeletes /\ MaxDeletes \in Nat
        BY EditFormAssumption
      <4>3. gone' \in BOOLEAN
        BY <4>1, <4>2, Zenon
      <4>4. deletes' \in 0 .. MaxDeletes
        <5> HIDE DEF FormIInv, FormTypeOK
        <5>1. QED
          BY <4>1, <4>2, SMT
      <4>5. QED
        BY <4>3, <4>4
    <3>5. QED
      BY <3>3, <3>4
  <2>6. QED
    BY <1>5, <2>1, <2>2, <2>3, <2>4, <2>5
<1>6. QED
  BY <1>1, <1>2, <1>3, <1>4, <1>5 DEF FormNext

-----------------------------------------------------------------------------
(* Forms: what each kind of step leaves true *)

FormClauses == Counted /\ Fresh /\ Faithful /\ InColumns /\ Composed /\ Validated /\ Kept

LEMMA SameContent ==
    ASSUME NEW t \in Tabs, page' = page, form'[t] = form[t]
    PROVE  Content(t)' = Content(t) /\ Submitted(t)' = Submitted(t) /\ Input(t)' = Input(t)
BY DEF Content, Submitted, Input, Column

\* A step that touches neither the row nor a form nor a save.
LEMMA QuietStep ==
    ASSUME FormIInv, UNCHANGED <<page, row, form, call, stamp, writes>>
    PROVE  FormClauses'
<1>1. Counted' /\ Fresh' /\ Faithful' /\ InColumns'
  BY DEF FormIInv, Counted, Fresh, Faithful, InColumns, InFlight, Unwritten, Show
<1>2. Composed' /\ Validated' /\ Kept'
  BY SameContent DEF FormIInv, Composed, Validated, Kept, InFlight, AtStep
<1>3. QED
  BY <1>1, <1>2 DEF FormClauses

\* A save, or none, that moves to another step without writing.
LEMMA MoveStep ==
    ASSUME FormIInv, NEW t \in Tabs, NEW step \in CallSteps, Step(t, step),
           step = "write" => /\ AtStep(t, "check")
                             /\ page # Settings => \A f \in DOMAIN call[t].input \cap Required : call[t].input[f] # Empty,
           step \notin {"check", "render"},
           UNCHANGED <<page, row, form, stamp, writes>>
    PROVE  FormClauses'
<1> USE DEF FormIInv
<1>1. call' = [call EXCEPT ![t].step = step] /\ call \in [Tabs -> Call]
  BY DEF Step, FormTypeOK
<1>2. \A u \in Tabs : /\ u # t => call'[u] = call[u]
                      /\ call'[u].step = IF u = t THEN step ELSE call[u].step
                      /\ call'[u].input = call[u].input /\ call'[u].text = call[u].text
                      /\ call'[u].meant = call[u].meant /\ call'[u].number = call[u].number
  BY <1>1 DEF Call
<1>3. \A u \in Tabs : /\ InFlight(u)' => InFlight(u)
                      /\ Unwritten(u)' => Unwritten(u)
                      /\ AtStep(u, "render")' => AtStep(u, "render")
  BY <1>2 DEF InFlight, Unwritten, AtStep
<1>4. Counted' /\ Fresh' /\ Faithful' /\ InColumns'
  BY <1>2, <1>3 DEF Counted, Fresh, Faithful, InColumns, Show
<1>5. Composed' /\ Kept'
  BY <1>2, <1>3, SameContent DEF Composed, Kept
<1>6. Validated'
  BY <1>2 DEF Validated, AtStep
<1>7. QED
  BY <1>4, <1>5, <1>6 DEF FormClauses

\* A tab shows the row as it is, and has no save any more.
LEMMA ShownStep ==
    ASSUME FormIInv, NEW t \in Tabs, NEW fresh \in Form,
           fresh.rendered = Show(row), fresh.seen = stamp,
           fresh.typed \in {form[t].typed, Untouched},
           form' = [form EXCEPT ![t] = fresh], call' = [call EXCEPT ![t] = NoCall],
           UNCHANGED <<page, row, stamp, writes>>
    PROVE  FormClauses'
<1> USE DEF FormIInv
<1>1. form \in [Tabs -> Form] /\ call \in [Tabs -> Call] /\ NoCall.step = "idle"
  BY DEF FormTypeOK, NoCall
<1>2. \A u \in Tabs : IF u = t THEN form'[u] = fresh /\ call'[u].step = "idle"
                      ELSE form'[u] = form[u] /\ call'[u] = call[u]
  BY <1>1
<1>3. \A u \in Tabs : /\ InFlight(u)' => InFlight(u) /\ u # t
                      /\ Unwritten(u)' => Unwritten(u) /\ u # t
                      /\ AtStep(u, "render")' => AtStep(u, "render") /\ u # t
                      /\ AtStep(u, "write")' => AtStep(u, "write") /\ u # t
  BY <1>2 DEF InFlight, Unwritten, AtStep
<1>4. Counted'
  BY <1>2, <1>3 DEF Counted
<1>5. Fresh'
  BY <1>2, <1>3 DEF Fresh
<1>6. Faithful' /\ InColumns'
  BY <1>2 DEF Faithful, InColumns, Untouched, Show
<1>7. Composed'
  BY <1>2, <1>3, SameContent DEF Composed
<1>8. Validated' /\ Kept'
  BY <1>2, <1>3 DEF Validated, Kept
<1>9. QED
  BY <1>4, <1>5, <1>6, <1>7, <1>8 DEF FormClauses

\* The author touches the form of a tab without a save under way.
LEMMA EditStep ==
    ASSUME FormIInv, NEW t \in Tabs, NEW fresh, AtStep(t, "idle"),
           form' = [form EXCEPT ![t] = fresh],
           fresh.rendered = form[t].rendered, fresh.seen = form[t].seen,
           \A f \in Fields \ page.columns : fresh.typed[f] = Null,
           UNCHANGED <<page, row, call, stamp, writes>>
    PROVE  FormClauses'
<1> USE DEF FormIInv
<1>1. \A u \in Tabs : form'[u] = IF u = t THEN fresh ELSE form[u]
  BY DEF FormTypeOK
<1>2. ~InFlight(t) /\ ~Unwritten(t) /\ ~AtStep(t, "render")
  BY DEF InFlight, Unwritten, AtStep
<1>3. \A u \in Tabs : form'[u].rendered = form[u].rendered /\ form'[u].seen = form[u].seen
  BY <1>1
<1>4. Counted' /\ Fresh'
  BY <1>3 DEF Counted, Fresh, InFlight, Unwritten
<1>5. Faithful' /\ InColumns'
  BY <1>1, <1>3 DEF Faithful, InColumns, Show
<1>6. Composed'
  BY <1>1, <1>2, SameContent DEF Composed, InFlight
<1>7. Validated' /\ Kept'
  BY <1>3 DEF Validated, Kept, AtStep
<1>8. QED
  BY <1>4, <1>5, <1>6, <1>7 DEF FormClauses

LEMMA SubmitStep ==
    ASSUME FormIInv, NEW t \in Tabs, Submit(t)
    PROVE  FormClauses'
<1> USE DEF FormIInv
<1> DEFINE save == [step |-> IF Input(t) = <<>> THEN "render" ELSE "check",
                    input |-> Input(t), text |-> Submitted(t),
                    meant |-> {f \in Fields : Content(t)[f] # form[t].rendered[f]},
                    number |-> writes + 1]
<1>1. call' = [call EXCEPT ![t] = save] /\ UNCHANGED <<page, row, form, stamp>> /\ writes' = writes + 1
  BY DEF Submit
<1>2. /\ save.step \in {"render", "check"} /\ save.input = Input(t) /\ save.text = Submitted(t)
      /\ save.meant = {f \in Fields : Content(t)[f] # form[t].rendered[f]} /\ save.number = writes + 1
      /\ save.step = "render" => Input(t) = <<>>
  OBVIOUS
<1> HIDE DEF save
<1>3. \A u \in Tabs : call'[u] = IF u = t THEN save ELSE call[u]
  BY <1>1 DEF FormTypeOK
<1>4. writes \in Nat /\ (\A f \in Fields : stamp[f] \in Nat) /\ (\A u \in Tabs, f \in Fields : form[u].seen[f] \in Nat)
  BY DEF FormTypeOK, Form
<1>5. \A u \in Tabs : call[u].number \in Nat
  BY CallFacts
<1>6. Counted'
  BY <1>1, <1>2, <1>3, <1>4, <1>5 DEF Counted, InFlight
<1>7. Fresh'
  BY <1>1, <1>2, <1>3, <1>4, <1>5 DEF Counted, Fresh, InFlight, Unwritten
<1>8. Faithful' /\ InColumns'
  BY <1>1 DEF Faithful, InColumns, Show
<1>9. Composed'
  <2>1. ASSUME NEW u \in Tabs PROVE /\ Content(u)' = Content(u) /\ Submitted(u)' = Submitted(u)
                                  /\ Input(u)' = Input(u)
    BY <1>1, SameContent
  <2>2. QED
    BY <1>1, <1>2, <1>3, <2>1 DEF Composed, InFlight
<1>10. Validated'
  BY <1>1, <1>2, <1>3 DEF Validated, AtStep
<1>11. Kept'
  <2>1. ASSUME NEW f \in Fields PROVE stamp[f] # writes + 1
    BY <1>4 DEF Counted
  <2>2. save.step = "render" => \A f : f \notin DOMAIN save.input
    BY <1>2
  <2>3. QED
    BY <1>1, <1>2, <1>3, <2>1, <2>2 DEF Kept, AtStep
<1>12. QED
  BY <1>6, <1>7, <1>8, <1>9, <1>10, <1>11 DEF FormClauses

\* What a write leaves in a column.
LEMMA WriteFacts ==
    ASSUME FormIInv, NEW t \in Tabs, Write(t)
    PROVE  /\ DOMAIN call[t].input \subseteq Fields
           /\ \A f \in Fields : row'[f] = IF f \in DOMAIN call[t].input THEN call[t].input[f] ELSE row[f]
           /\ \A f \in Fields : stamp'[f] = IF f \in DOMAIN call[t].input THEN call[t].number ELSE stamp[f]
           /\ \A f \in Fields \ DOMAIN call[t].input : Show(row')[f] = Show(row)[f]
<1>1. /\ DOMAIN call[t].input \in SUBSET Fields /\ call[t].number \in Nat
      /\ call[t].input \in [DOMAIN call[t].input -> Texts \cup {Null}]
  BY CallFacts DEF FormIInv
<1>2. row \in Row /\ stamp \in [Fields -> Nat]
  BY DEF FormIInv, FormTypeOK
<1>3. ASSUME NEW f \in Fields
      PROVE  row'[f] = IF f \in DOMAIN call[t].input THEN call[t].input[f] ELSE row[f]
  BY <1>1, <1>2, OverwrittenFacts DEF Write
<1>4. ASSUME NEW f \in Fields
      PROVE  stamp'[f] = IF f \in DOMAIN call[t].input THEN call[t].number ELSE stamp[f]
  BY <1>1, <1>2, StampedFacts DEF Write
<1>5. QED
  BY <1>1, <1>3, <1>4, ShowAt

LEMMA WriteStep ==
    ASSUME FormIInv, NEW t \in Tabs, Write(t)
    PROVE  FormClauses'
<1> USE DEF FormIInv
<1>1. /\ UNCHANGED <<page, form, writes>> /\ AtStep(t, "write")
      /\ call' = [call EXCEPT ![t].step = "render"]
  BY DEF Write, Step
<1>2. \A u \in Tabs : /\ u # t => call'[u] = call[u]
                      /\ call'[u].step = IF u = t THEN "render" ELSE call[u].step
                      /\ call'[u].input = call[u].input /\ call'[u].text = call[u].text
                      /\ call'[u].meant = call[u].meant /\ call'[u].number = call[u].number
  BY <1>1 DEF FormTypeOK, Call
<1>3. \A u \in Tabs : /\ InFlight(u)' <=> InFlight(u)
                      /\ Unwritten(u)' <=> (Unwritten(u) /\ u # t)
                      /\ AtStep(u, "render")' <=> (AtStep(u, "render") \/ u = t)
                      /\ AtStep(u, "write")' => AtStep(u, "write") /\ u # t
  BY <1>1, <1>2 DEF InFlight, Unwritten, AtStep
<1>4. InFlight(t) /\ Unwritten(t)
  BY <1>1 DEF InFlight, Unwritten, AtStep
<1>5. \A f \in Fields : stamp'[f] = IF f \in DOMAIN call[t].input THEN call[t].number ELSE stamp[f]
  BY WriteFacts
<1>6. Counted'
  BY <1>1, <1>2, <1>3, <1>4, <1>5 DEF Counted
<1>7. Fresh'
  BY <1>1, <1>2, <1>3, <1>4, <1>5 DEF Fresh
<1>8. Faithful'
  BY <1>1, <1>4, <1>5, WriteFacts DEF Faithful, Fresh
<1>9. InColumns'
  BY <1>1 DEF InColumns
<1>10. Composed'
  <2>1. ASSUME NEW u \in Tabs PROVE /\ Content(u)' = Content(u) /\ Submitted(u)' = Submitted(u)
                                  /\ Input(u)' = Input(u)
    BY <1>1, SameContent
  <2>2. QED
    BY <1>1, <1>2, <1>3, <2>1 DEF Composed
<1>11. Validated'
  BY <1>1, <1>2, <1>3 DEF Validated
<1>12. Kept'
  <2>1. ASSUME NEW u \in Tabs, AtStep(u, "render")', NEW f \in Fields
        PROVE  /\ stamp'[f] = call[u].number => f \in DOMAIN call[u].input /\ row'[f] = call[u].input[f]
               /\ f \in DOMAIN call[u].input => stamp'[f] # form[u].seen[f]
    <3>1. CASE u = t
      BY <1>4, <1>5, <3>1, WriteFacts DEF Fresh
    <3>2. CASE u # t
      <4>1. AtStep(u, "render") /\ InFlight(u)
        BY <1>3, <2>1, <3>2 DEF InFlight, AtStep
      <4>2. call[u].number # call[t].number /\ form[u].seen[f] # call[t].number
        BY <1>4, <3>2, <4>1 DEF Fresh
      <4>3. QED
        BY <1>5, <4>1, <4>2, WriteFacts DEF Kept
    <3>3. QED
      BY <3>1, <3>2
  <2>2. QED
    BY <1>1, <1>2, <2>1 DEF Kept
<1>13. QED
  BY <1>6, <1>7, <1>8, <1>9, <1>10, <1>11, <1>12 DEF FormClauses

LEMMA DictateFacts ==
    ASSUME FormIInv, NEW f \in Fields, NEW text \in Dictated \cup {Null}, Dictate(f, text)
    PROVE  /\ \A g \in Fields : row'[g] = IF g = f THEN text ELSE row[g]
           /\ \A g \in Fields : stamp'[g] = IF g = f THEN writes + 1 ELSE stamp[g]
           /\ \A g \in Fields \ {f} : Show(row')[g] = Show(row)[g]
<1> DEFINE input == [g \in {f} |-> text]
<1>1. {f} \in SUBSET Fields /\ text \in Texts \cup {Null} /\ writes + 1 \in Nat
  BY EditFormAssumption DEF FormIInv, FormTypeOK
<1>2. input \in [{f} -> Texts \cup {Null}] /\ input[f] = text
  BY <1>1
<1>3. row' = Overwritten(input) /\ stamp' = Stamped({f}, writes + 1)
  BY DEF Dictate
<1>4. row \in Row /\ stamp \in [Fields -> Nat]
  BY DEF FormIInv, FormTypeOK
<1> HIDE DEF input
<1>5. \A g \in Fields : row'[g] = IF g = f THEN text ELSE row[g]
  BY <1>1, <1>2, <1>3, <1>4, OverwrittenFacts
<1>6. \A g \in Fields : stamp'[g] = IF g = f THEN writes + 1 ELSE stamp[g]
  BY <1>1, <1>3, <1>4, StampedFacts
<1>7. QED
  BY <1>5, <1>6, ShowAt

LEMMA DictateStep ==
    ASSUME FormIInv, NEW f \in Fields, NEW text \in Dictated \cup {Null}, Dictate(f, text)
    PROVE  FormClauses'
<1> USE DEF FormIInv
<1>1. UNCHANGED <<page, form, call>> /\ writes' = writes + 1
  BY DEF Dictate
<1>2. writes \in Nat /\ (\A g \in Fields : stamp[g] \in Nat) /\ (\A u \in Tabs, g \in Fields : form[u].seen[g] \in Nat)
  BY DEF FormTypeOK, Form
<1>3. \A u \in Tabs : call[u].number \in Nat
  BY CallFacts
<1>4. \A g \in Fields : stamp'[g] = IF g = f THEN writes + 1 ELSE stamp[g]
  BY DictateFacts
<1>5. \A u \in Tabs : Unwritten(u) => InFlight(u)
  BY DEF InFlight, Unwritten
<1>6. \A u \in Tabs : (InFlight(u)' <=> InFlight(u)) /\ (Unwritten(u)' <=> Unwritten(u))
  BY <1>1 DEF InFlight, Unwritten
<1>7. Counted'
  BY <1>1, <1>2, <1>3, <1>4, <1>6 DEF Counted
<1>8. Fresh'
  BY <1>1, <1>2, <1>3, <1>4, <1>5, <1>6 DEF Counted, Fresh
<1>9. Faithful'
  BY <1>1, <1>2, <1>4, DictateFacts DEF Counted, Faithful
<1>10. InColumns' /\ Validated'
  BY <1>1 DEF InColumns, Validated, AtStep
<1>11. Composed'
  BY <1>1, <1>6, SameContent DEF Composed
<1>12. Kept'
  <2>1. ASSUME NEW u \in Tabs, AtStep(u, "render"), NEW g \in Fields
        PROVE  /\ stamp'[g] = call[u].number => g \in DOMAIN call[u].input /\ row'[g] = call[u].input[g]
               /\ g \in DOMAIN call[u].input => stamp'[g] # form[u].seen[g]
    <3>1. call[u].number \leq writes /\ form[u].seen[g] \leq writes
      BY <2>1 DEF Counted, InFlight, AtStep
    <3>2. QED
      BY <1>2, <1>3, <1>4, <2>1, <3>1, DictateFacts DEF Kept
  <2>2. QED
    BY <1>1, <2>1 DEF Kept, AtStep
<1>13. QED
  BY <1>7, <1>8, <1>9, <1>10, <1>11, <1>12 DEF FormClauses

-----------------------------------------------------------------------------
(* Forms: the invariant *)

LEMMA LoadStep == ASSUME FormIInv, NEW t \in Tabs, Load(t) PROVE FormTypeOK' /\ FormClauses'
<1> USE DEF FormIInv
<1>1. CASE gone
  <2>1. Step(t, "notFound") /\ UNCHANGED <<page, row, gone, form, stamp, writes, deletes>>
    BY <1>1 DEF Load
  <2>2. FormClauses'
    BY <2>1, MoveStep DEF CallSteps
  <2>3. call' \in [Tabs -> Call]
    BY <2>1, StepType DEF CallSteps
  <2>4. FormTypeOK'
    <3>1. dialog' \in [Tabs -> Dialog]
      BY DEF Load, FormTypeOK, Dialog, Closed
    <3>2. QED
      BY <2>1, <2>3, <3>1 DEF FormTypeOK
  <2>5. QED
    BY <2>2, <2>4
<1>2. CASE ~gone
  <2>1. /\ call' = [call EXCEPT ![t] = NoCall] /\ form' = [form EXCEPT ![t] = Rendering]
        /\ UNCHANGED <<page, row, gone, stamp, writes, deletes>>
    BY <1>2 DEF Load
  <2>2. Rendering \in Form /\ NoCall \in Call
    BY RenderingType, NoCallType DEF FormTypeOK
  <2>3. Rendering.rendered = Show(row) /\ Rendering.seen = stamp /\ Rendering.typed = Untouched
    BY DEF Rendering
  <2>4. FormClauses'
    BY <2>1, <2>2, <2>3, ShownStep
  <2>5. FormTypeOK'
    <3>1. dialog' \in [Tabs -> Dialog]
      BY DEF Load, FormTypeOK, Dialog, Closed
    <3>2. QED
      BY <2>1, <2>2, <3>1 DEF FormTypeOK
  <2>6. QED
    BY <2>4, <2>5
<1>3. QED
  BY <1>1, <1>2 DEF FormTypeOK

LEMMA RenderStep == ASSUME FormIInv, NEW t \in Tabs, Render(t) PROVE FormTypeOK' /\ FormClauses'
<1> USE DEF FormIInv
<1>1. CASE gone
  <2>1. Step(t, "notFound") /\ UNCHANGED <<page, row, gone, form, dialog, stamp, writes, deletes>>
    BY <1>1 DEF Render
  <2>2. FormClauses'
    BY <2>1, MoveStep DEF CallSteps
  <2>3. call' \in [Tabs -> Call]
    BY <2>1, StepType DEF CallSteps
  <2>4. QED
    BY <2>1, <2>2, <2>3 DEF FormTypeOK
<1>2. CASE ~gone
  <2>1. PICK fresh \in Rendered(t) : form' = [form EXCEPT ![t] = fresh]
    BY <1>2 DEF Render
  <2>2. call' = [call EXCEPT ![t] = NoCall] /\ UNCHANGED <<page, row, gone, dialog, stamp, writes, deletes>>
    BY <1>2 DEF Render
  <2>3. /\ fresh \in Form /\ fresh.rendered = Show(row) /\ fresh.seen = stamp
        /\ fresh.typed \in {form[t].typed, Untouched}
    BY RenderedFacts
  <2>4. NoCall \in Call
    BY NoCallType DEF FormTypeOK
  <2>5. FormClauses'
    BY <2>1, <2>2, <2>3, ShownStep
  <2>6. QED
    BY <2>1, <2>2, <2>3, <2>4, <2>5 DEF FormTypeOK
<1>3. QED
  BY <1>1, <1>2 DEF FormTypeOK

LEMMA CheckStep == ASSUME FormIInv, NEW t \in Tabs, Check(t) PROVE FormTypeOK' /\ FormClauses'
<1> USE DEF FormIInv
<1> DEFINE Bad == page # Settings /\ \E f \in DOMAIN call[t].input \cap Required : call[t].input[f] = Empty
           step == IF gone /\ page.owned THEN "notFound" ELSE IF Bad THEN "error" ELSE "write"
<1>1. AtStep(t, "check") /\ Step(t, step) /\ UNCHANGED <<page, row, gone, form, dialog, stamp, writes, deletes>>
  BY DEF Check
<1>2. step \in {"notFound", "error", "write"} /\ (step = "write" => ~Bad)
  OBVIOUS
<1> HIDE DEF step
<1>3. call' \in [Tabs -> Call]
  BY <1>1, <1>2, StepType DEF CallSteps
<1>4. FormClauses'
  BY <1>1, <1>2, MoveStep DEF CallSteps
<1>5. QED
  BY <1>1, <1>3, <1>4 DEF FormTypeOK

LEMMA EditingStep ==
    ASSUME FormIInv, NEW t \in Tabs,
           Toggle(t) \/ \E f \in Fields : \E text \in Typed[f] : Type(t, f, text)
    PROVE  FormTypeOK' /\ FormClauses'
<1> USE DEF FormIInv
<1>0. form[t] \in Form
  BY DEF FormTypeOK
<1>1. CASE Toggle(t)
  <2> DEFINE fresh == [form[t] EXCEPT !.open = ~form[t].open, !.typed = Untouched]
  <2>1. form' = [form EXCEPT ![t] = fresh] /\ AtStep(t, "idle")
    BY <1>1 DEF Toggle
  <2>2. /\ fresh \in Form /\ fresh.rendered = form[t].rendered /\ fresh.seen = form[t].seen
        /\ \A f \in Fields : fresh.typed[f] = Null
    BY <1>0 DEF Form, Untouched
  <2>3. UNCHANGED <<page, row, gone, call, dialog, stamp, writes, deletes>>
    BY <1>1 DEF Toggle
  <2> HIDE DEF fresh
  <2>4. FormClauses'
    BY <2>1, <2>2, <2>3, EditStep
  <2>5. QED
    BY <2>1, <2>2, <2>3, <2>4 DEF FormTypeOK
<1>2. ASSUME NEW f \in Fields, NEW text \in Typed[f], Type(t, f, text) PROVE FormTypeOK' /\ FormClauses'
  <2> DEFINE fresh == [form[t] EXCEPT !.typed[f] = text]
  <2>1. form' = [form EXCEPT ![t] = fresh] /\ AtStep(t, "idle") /\ f \in page.columns
    BY <1>2 DEF Type
  <2>2. text \in Texts
    BY EditFormAssumption
  <2>3. /\ fresh \in Form /\ fresh.rendered = form[t].rendered /\ fresh.seen = form[t].seen
        /\ \A g \in Fields \ {f} : fresh.typed[g] = form[t].typed[g]
    BY <1>0, <2>2 DEF Form
  <2>4. UNCHANGED <<page, row, gone, call, dialog, stamp, writes, deletes>>
    BY <1>2 DEF Type
  <2> HIDE DEF fresh
  <2>5. \A g \in Fields \ page.columns : fresh.typed[g] = Null
    BY <2>1, <2>3 DEF InColumns
  <2>6. FormClauses'
    BY <2>1, <2>3, <2>4, <2>5, EditStep
  <2>7. QED
    BY <2>1, <2>3, <2>4, <2>6 DEF FormTypeOK
<1>3. QED
  BY <1>1, <1>2

\* The steps of the buttons that delete.
LEMMA DeletionStep ==
    ASSUME FormIInv, FormNext, NEW t \in Tabs,
           DeleteRow(t) \/ OpenDialog(t) \/ CloseDialog(t) \/ Confirm(t) \/ ShowPending(t) \/ Deleted(t)
    PROVE  FormTypeOK' /\ FormClauses'
<1> USE DEF FormIInv
<1>1. UNCHANGED <<page, row, form, stamp, writes>>
  BY DEF DeleteRow, OpenDialog, CloseDialog, Confirm, ShowPending, Deleted
<1>2. CASE DeleteRow(t) \/ Deleted(t)
  <2>1. Step(t, "notFound") \/ Step(t, "error")
    BY <1>2 DEF DeleteRow, Deleted
  <2>2. call' \in [Tabs -> Call]
    BY <2>1, StepType DEF CallSteps
  <2>3. FormClauses'
    BY <1>1, <2>1, MoveStep DEF CallSteps
  <2>4. QED
    BY <1>1, <2>2, <2>3, DialogStep DEF FormTypeOK
<1>3. CASE OpenDialog(t) \/ CloseDialog(t) \/ Confirm(t) \/ ShowPending(t)
  <2>1. call' = call
    BY <1>3 DEF OpenDialog, CloseDialog, Confirm, ShowPending
  <2>2. FormClauses'
    BY <1>1, <2>1, QuietStep
  <2>3. QED
    BY <1>1, <2>1, <2>2, DialogStep DEF FormTypeOK
<1>4. QED
  BY <1>2, <1>3

LEMMA FormInvariantInit == FormInit => FormIInv
<1> SUFFICES ASSUME FormInit PROVE FormIInv
  OBVIOUS
<1> USE EditFormAssumption
<1>1. row \in Row /\ Show(row) \in [Fields -> Texts]
  <2>1. row \in Row
    BY DEF FormInit, Row
  <2>2. QED
    BY <2>1, ShowType
<1>2. Untouched \in [Fields -> Texts \cup {Null}] /\ \A f \in Fields : Untouched[f] = Null
  BY DEF Untouched
<1>3. page \in Page /\ page.onDemand \in BOOLEAN /\ page \in Pages
  <2>1. page \in Pages
    BY DEF FormInit
  <2>2. page \in Page
    BY <2>1, PageFacts
  <2>3. QED
    BY <2>1, <2>2 DEF Page
<1>4. \A t \in Tabs : /\ form[t] \in Form /\ form[t].rendered = Show(row) /\ form[t].typed = Untouched
                      /\ \A f \in Fields : form[t].seen[f] = 0
  BY <1>1, <1>2, <1>3 DEF FormInit, Form
<1>5. \A t \in Tabs : call[t] \in Call /\ call[t].step = "idle"
  <2>1. NoCall \in Call /\ NoCall.step = "idle"
    BY <1>1, NoCallType DEF NoCall
  <2>2. \A t \in Tabs : call[t] = NoCall
    BY DEF FormInit
  <2>3. QED
    BY <2>1, <2>2
<1>6. \A t \in Tabs : ~InFlight(t) /\ ~Unwritten(t) /\ ~AtStep(t, "write") /\ ~AtStep(t, "render")
  BY <1>5 DEF InFlight, Unwritten, AtStep
<1>7. FormTypeOK
  <2>1. form \in [Tabs -> Form] /\ call \in [Tabs -> Call]
    BY <1>4, <1>5 DEF FormInit
  <2>2. dialog \in [Tabs -> Dialog]
    BY DEF FormInit, Dialog, Closed
  <2>3. \A f \in Required : row[f] \notin {Null, Empty}
    BY DEF FormInit
  <2>4. /\ stamp = [f \in Fields |-> 0] /\ writes = 0 /\ deletes = 0 /\ gone = FALSE
        /\ MaxWrites \in Nat /\ MaxDeletes \in Nat
    BY DEF FormInit
  <2>5. stamp \in [Fields -> Nat] /\ gone \in BOOLEAN
    BY <2>4
  <2>6. writes \in 0 .. MaxWrites /\ deletes \in 0 .. MaxDeletes
    BY <2>4
  <2>7. QED
    BY <1>1, <1>3, <2>1, <2>2, <2>3, <2>5, <2>6 DEF FormTypeOK
<1>8. Counted /\ Fresh /\ Composed /\ Validated /\ Kept
  BY <1>4, <1>6 DEF FormInit, Counted, Fresh, Composed, Validated, Kept
<1>9. Faithful /\ InColumns
  BY <1>2, <1>4 DEF Faithful, InColumns
<1>10. Unconfirmed
  BY DEF FormInit, Unconfirmed, Closed
<1>11. QED
  BY <1>7, <1>8, <1>9, <1>10 DEF FormIInv

LEMMA FormInvariantStep == FormIInv /\ [FormNext]_formVars => FormIInv'
<1> SUFFICES ASSUME FormIInv, [FormNext]_formVars PROVE FormIInv'
  OBVIOUS
<1>1. CASE UNCHANGED formVars
  <2>1. UNCHANGED <<page, row, gone, form, call, dialog, stamp, writes, deletes>>
    BY <1>1 DEF formVars
  <2>2. FormClauses'
    BY <2>1, QuietStep
  <2>3. FormTypeOK' /\ Unconfirmed'
    BY <2>1 DEF FormIInv, FormTypeOK, Unconfirmed
  <2>4. QED
    BY <2>2, <2>3 DEF FormIInv, FormClauses
<1>2. CASE FormNext
  <2>1. FormTypeOK' /\ FormClauses'
    <3>1. ASSUME NEW t \in Tabs,
                 Load(t) \/ Toggle(t) \/ DeleteRow(t) \/ Submit(t) \/ Check(t) \/ Write(t) \/ Render(t)
          PROVE  FormTypeOK' /\ FormClauses'
      <4>1. CASE Load(t)
        BY <4>1, LoadStep
      <4>2. CASE Toggle(t)
        BY <4>2, EditingStep
      <4>3. CASE DeleteRow(t)
        BY <1>2, <4>3, DeletionStep
      <4>4. CASE Submit(t)
        BY <4>4, SubmitType, SubmitStep DEF FormIInv
      <4>5. CASE Check(t)
        BY <4>5, CheckStep
      <4>6. CASE Write(t)
        BY <4>6, WriteType, WriteStep
      <4>7. CASE Render(t)
        BY <4>7, RenderStep
      <4>8. QED
        BY <3>1, <4>1, <4>2, <4>3, <4>4, <4>5, <4>6, <4>7
    <3>2. ASSUME NEW t \in Tabs, NEW f \in Fields, NEW text \in Typed[f], Type(t, f, text)
          PROVE  FormTypeOK' /\ FormClauses'
      BY <3>2, EditingStep
    <3>3. ASSUME NEW f \in Fields, NEW text \in Dictated \cup {Null}, Dictate(f, text)
          PROVE  FormTypeOK' /\ FormClauses'
      BY <3>3, DictateType, DictateStep DEF FormIInv
    <3>4. CASE Vanish
      <4>1. UNCHANGED <<page, row, form, call, stamp, writes>>
        BY <3>4 DEF Vanish
      <4>2. QED
        BY <1>2, <4>1, QuietStep, DialogStep DEF FormIInv, FormTypeOK
    <3>5. ASSUME NEW t \in Tabs, OpenDialog(t) \/ CloseDialog(t) \/ Confirm(t) \/ ShowPending(t) \/ Deleted(t)
          PROVE  FormTypeOK' /\ FormClauses'
      BY <1>2, <3>5, DeletionStep
    <3>6. QED
      BY <1>2, <3>1, <3>2, <3>3, <3>4, <3>5 DEF FormNext
  <2>2. QED
    BY <1>2, <2>1, DialogStep DEF FormIInv, FormClauses
<1>3. QED
  BY <1>1, <1>2

LEMMA FormInvariant == FormSpec => []FormIInv
BY FormInvariantInit, FormInvariantStep, PTL DEF FormSpec

-----------------------------------------------------------------------------
(* Forms: results *)

LEMMA SavedFromInvariant == FormIInv => SavedAsTyped
<1> SUFFICES ASSUME FormIInv, NEW t \in Tabs, AtStep(t, "render"), NEW f \in call[t].meant,
                    stamp[f] \in {form[t].seen[f], call[t].number},
                    ~(page.sends = "filled" /\ call[t].text[f] = Empty)
             PROVE  Trim[Show(row)[f]] = Trim[call[t].text[f]]
  BY DEF SavedAsTyped
<1> USE DEF FormIInv
<1>1. /\ call[t].text = Submitted(t) /\ call[t].input = Input(t)
      /\ f \in Fields /\ Content(t)[f] # form[t].rendered[f]
  BY DEF Composed, InFlight, AtStep
<1>2. Submitted(t)[f] \in Texts /\ f \in page.columns
  BY <1>1, ContentType, SubmittedType DEF InColumns
<1>3. page \in Pages
  BY DEF FormTypeOK
<1>4. CASE f \in DOMAIN call[t].input
  <2>1. row[f] = Column(Submitted(t)[f])
    BY <1>1, <1>4, InputFacts DEF Kept
  <2>2. Show(row)[f] = IF page.trims THEN Trim[Submitted(t)[f]] ELSE Submitted(t)[f]
    BY <1>1, <1>2, <1>3, <2>1, ShowAt, ColumnFacts
  <2>3. QED
    BY <1>1, <1>2, <2>2, EditFormAssumption
<1>5. CASE f \notin DOMAIN call[t].input
  <2>1. Show(row)[f] = form[t].rendered[f]
    BY <1>1, <1>5 DEF Kept, Faithful
  <2>2. Trim[Submitted(t)[f]] = form[t].rendered[f]
    BY <1>1, <1>2, <1>5, InputFacts
  <2>3. QED
    BY <1>1, <1>2, <2>1, <2>2, EditFormAssumption
<1>6. QED
  BY <1>4, <1>5

\* What an author's browser sent is what the row holds when the page is rendered again, but
\* for blanks at its ends, unless somebody wrote the field since; only a sheet keeps a text
\* its author emptied.  For any number of tabs, fields, texts, clients and writes, and every
\* one of the ten forms.
THEOREM SavesAreKept == FormSpec => []SavedAsTyped
BY FormInvariant, SavedFromInvariant, PTL

\* Which step gives a column the number of a save that waits to write: that save's.
LEMMA OwnNumber ==
    ASSUME FormIInv, FormNext, NEW t \in Tabs, AtStep(t, "write"), NEW f \in Fields,
           stamp'[f] = call[t].number, stamp' # stamp
    PROVE  Write(t) /\ f \in DOMAIN call[t].input
<1> USE DEF FormIInv
<1>1. Unwritten(t) /\ InFlight(t)
  BY DEF Unwritten, InFlight, AtStep
<1>2. stamp[f] # call[t].number
  BY <1>1 DEF Fresh
<1>3. ASSUME NEW u \in Tabs, Write(u) PROVE Write(t) /\ f \in DOMAIN call[t].input
  <2>1. f \in DOMAIN call[u].input /\ call[u].number = call[t].number
    BY <1>2, <1>3, WriteFacts
  <2>2. InFlight(u)
    BY <1>3 DEF Write, InFlight, AtStep
  <2>3. u = t
    BY <1>1, <2>1, <2>2 DEF Fresh
  <2>4. QED
    BY <1>3, <2>1, <2>3
<1>4. ASSUME NEW g \in Fields, NEW text \in Dictated \cup {Null}, Dictate(g, text) PROVE FALSE
  <2>1. call[t].number = writes + 1
    BY <1>2, <1>4, DictateFacts
  <2>2. call[t].number \leq writes /\ writes \in Nat
    BY <1>1 DEF Counted, FormTypeOK
  <2>3. QED
    BY <2>1, <2>2
<1>5. QED
  BY <1>3, <1>4 DEF FormNext, Load, Toggle, Type, DeleteRow, Submit, Check, Render, Vanish,
     OpenDialog, CloseDialog, Confirm, ShowPending, Deleted

LEMMA DisturbedFacts ==
    ASSUME FormIInv, FormNext, NEW t \in Tabs, NEW f \in Fields, Disturbs(t, f),
           GivesBack(f, form[t].rendered[f])
    PROVE  page # Settings /\ stamp[f] # form[t].seen[f]
<1> USE DEF FormIInv
<1>0. AtStep(t, "write") /\ stamp' # stamp /\ stamp'[f] = call[t].number
      /\ f \notin call[t].meant /\ Show(row')[f] # Show(row)[f]
  BY DEF Disturbs
<1>1. Write(t) /\ f \in DOMAIN call[t].input
  BY <1>0, OwnNumber
<1>2. call[t].input = Input(t) /\ Content(t)[f] = form[t].rendered[f]
  BY <1>0 DEF Composed, InFlight, AtStep
<1>3. page \in Pages /\ Submitted(t)[f] \in Texts /\ Submitted(t)[f] = Sends[f][form[t].rendered[f]]
  BY <1>2, SubmittedType DEF FormTypeOK
<1>4. row'[f] = Column(Submitted(t)[f])
  BY <1>1, <1>2, WriteFacts, InputFacts
<1>5. Show(row')[f] = IF page.trims THEN Trim[Submitted(t)[f]] ELSE Submitted(t)[f]
  BY <1>3, <1>4, ShowAt, ColumnFacts
<1>6. /\ Show(row')[f] = form[t].rendered[f]
      /\ page.trims => Trim[Submitted(t)[f]] = form[t].rendered[f]
  BY <1>3, <1>5 DEF GivesBack
<1>7. page # Settings
  BY <1>1, <1>2, <1>6, InputFacts, SettingsFacts
<1>8. stamp[f] # form[t].seen[f]
  BY <1>0, <1>6 DEF Faithful
<1>9. QED
  BY <1>7, <1>8

\* A save disturbs a field its author left alone in two cases only: a form that sends
\* every field does, when the field was written since the form was rendered; and any form
\* does when the text it was rendered with does not come back from its control and the
\* trimming as it was.  For any number of tabs, fields, texts, clients and writes, any
\* trimming and any controls.
THEOREM LeftAloneSurvives == FormSpec => UntouchedSurvives
<1>1. FormIInv /\ [FormNext]_formVars =>
        [\A t \in Tabs, f \in Fields : Disturbs(t, f) =>
            \/ page # Settings /\ stamp[f] # form[t].seen[f]
            \/ ~GivesBack(f, form[t].rendered[f])]_formVars
  <2> SUFFICES ASSUME FormIInv, FormNext, NEW t \in Tabs, NEW f \in Fields, Disturbs(t, f),
                      GivesBack(f, form[t].rendered[f])
               PROVE  page # Settings /\ stamp[f] # form[t].seen[f]
    OBVIOUS
  <2>1. QED
    BY DisturbedFacts
<1>2. FormSpec => [][\A t \in Tabs, f \in Fields : Disturbs(t, f) =>
                        \/ page # Settings /\ stamp[f] # form[t].seen[f]
                        \/ ~GivesBack(f, form[t].rendered[f])]_formVars
  BY <1>1, FormInvariant, PTL DEF FormSpec
<1>3. QED
  BY <1>2 DEF UntouchedSurvives

-----------------------------------------------------------------------------
(* Reading progress *)

LEMMA Least ==
    ASSUME NEW S, S \subseteq Nat, S # {}
    PROVE  Min(S) \in S
<1> DEFINE R == OpToRel(<, Nat)
<1>1. IsWellFoundedOn(R, Nat)
  BY NatLessThanWellFounded
<1>2. \A x, y \in Nat : x < y => <<x, y>> \in R
  BY DEF OpToRel
<1> HIDE DEF R
<1>3. PICK x \in S : \A y \in S : ~(<<y, x>> \in R)
  BY <1>1, WFMin
<1>4. ASSUME NEW y \in S PROVE x =< y
  <2>1. x \in Nat /\ y \in Nat /\ ~(y < x)
    BY <1>2, <1>3
  <2>2. QED
    BY <2>1
<1>5. QED
  BY <1>4 DEF Min

LEMMA RemoveFacts ==
    ASSUME NEW s \in Seq(Place), NEW i \in DOMAIN s
    PROVE  /\ RemoveAt(s, i) \in Seq(Place)
           /\ i = 1 => /\ Len(RemoveAt(s, i)) = Len(s) - 1
                       /\ Len(s) > 1 => RemoveAt(s, i)[Len(s) - 1] = s[Len(s)]
<1> DEFINE front == SubSeq(s, 1, i - 1)
           back == SubSeq(s, i + 1, Len(s))
<1>1. i \in 1 .. Len(s) /\ Len(s) \in Nat /\ \A j \in 1 .. Len(s) : s[j] \in Place
  BY ElementOfSeq, LenProperties
<1>2. front \in Seq(Place) /\ Len(front) = i - 1
  <2>1. \A j \in 1 .. i - 1 : s[j] \in Place
    BY <1>1
  <2>2. QED
    BY <1>1, <2>1, SubSeqProperties
<1>3. /\ back \in Seq(Place) /\ Len(back) = Len(s) - i
      /\ \A j \in 1 .. Len(s) - i : back[j] = s[i + j]
  <2>1. \A j \in i + 1 .. Len(s) : s[j] \in Place
    BY <1>1
  <2>2. QED
    BY <1>1, <2>1, SubSeqProperties
<1> HIDE DEF front, back
<1>4. front \o back \in Seq(Place) /\ Len(front \o back) = Len(s) - 1
  BY <1>1, <1>2, <1>3, ConcatProperties
<1>5. ASSUME i = 1, Len(s) > 1 PROVE (front \o back)[Len(s) - 1] = s[Len(s)]
  <2>1. Len(front) = 0 /\ Len(back) = Len(s) - 1
    BY <1>1, <1>2, <1>3, <1>5
  <2>2. (front \o back)[Len(s) - 1] = back[Len(s) - 1]
    BY <1>1, <1>2, <1>3, <1>5, <2>1, ConcatProperties
  <2>3. back[Len(s) - 1] = s[Len(s)]
    BY <1>1, <1>3, <1>5
  <2>4. QED
    BY <2>2, <2>3
<1>6. QED
  BY <1>4, <1>5 DEF RemoveAt, front, back

LEMMA SendFacts ==
    ASSUME ReaderIInv, Send, UNCHANGED stored, at # Nowhere
    PROVE  /\ lastSent' = at /\ sent' \in Seq(Place)
           /\ at # lastSent => Final' = at
           /\ at = lastSent => Final' = Final
<1> USE DEF ReaderIInv, ReaderTypeOK
<1>1. CASE at = lastSent
  BY <1>1 DEF Send, Final
<1>2. CASE at # lastSent
  <2>1. sent' = Append(sent, at) /\ at \in Place /\ lastSent' = at
    BY <1>2 DEF Send
  <2>2. sent' \in Seq(Place) /\ Len(sent') = Len(sent) + 1 /\ sent'[Len(sent')] = at /\ Len(sent) \in Nat
    BY <2>1, AppendProperties
  <2>3. sent' # <<>>
    BY <2>2
  <2>4. QED
    BY <1>2, <2>1, <2>2, <2>3 DEF Final
<1>3. QED
  BY <1>1, <1>2

LEMMA ReaderStep == ReaderIInv /\ [ReaderNext]_readerVars => ReaderIInv'
<1> SUFFICES ASSUME ReaderIInv, [ReaderNext]_readerVars PROVE ReaderIInv'
  OBVIOUS
<1> USE DEF ReaderIInv, ReaderTypeOK
<1>0. Nowhere \notin Scenes /\ Scenes \subseteq Nat /\ (\A m \in 0 .. MaxScrolls : m < MaxScrolls => m + 1 \in 0 .. MaxScrolls)
  BY ReaderAssumption DEF Nowhere
<1>1. CASE OpenReader
  <2>1. Opening \in written
    BY <1>0, <1>1, Least DEF OpenReader, Opening
  <2>2. at' \in Scenes /\ at' # Nowhere /\ mounted' \subseteq Scenes /\ mounted' # {}
    BY <1>0, <1>1, <2>1 DEF OpenReader
  <2>3. scrolls' \in 0 .. MaxScrolls
    BY <1>0, <1>1 DEF OpenReader, Scrolls
  <2>4. timer' \in BOOLEAN /\ lastSent' = Nowhere /\ UNCHANGED <<written, stored, sent, certain>>
    BY <1>1 DEF OpenReader
  <2>5. QED
    BY <2>2, <2>3, <2>4 DEF Place
<1>2. CASE Rest
  <2>1. at # Nowhere /\ mounted # {}
    BY <1>2 DEF Rest
  <2>2. Send /\ UNCHANGED <<written, stored, mounted, at, scrolls, certain>> /\ timer' = FALSE
    BY <1>2 DEF Rest
  <2>3. QED
    BY <2>1, <2>2, SendFacts
<1>3. CASE Hide
  <2>1. at # Nowhere /\ mounted # {}
    BY <1>3 DEF Hide
  <2>2. Send /\ UNCHANGED <<written, stored, mounted, at, timer, scrolls, certain>>
    BY <1>3 DEF Hide
  <2>3. QED
    BY <2>1, <2>2, SendFacts
<1>4. CASE Close
  <2>1. at # Nowhere
    BY <1>4 DEF Close
  <2>2. /\ Send /\ UNCHANGED <<written, stored, at, scrolls>> /\ timer' = FALSE /\ mounted' = {}
        /\ certain' = (certain \/ (sent = <<>> /\ at # lastSent))
    BY <1>4 DEF Close
  <2>3. certain' \in BOOLEAN /\ (certain' => certain \/ at # lastSent)
    BY <2>2, Zenon
  <2>4. lastSent' = at /\ sent' \in Seq(Place) /\ (at # lastSent => Final' = at) /\ (at = lastSent => Final' = Final)
    BY <2>1, <2>2, SendFacts
  <2>5. certain' => Final' = at
    BY <2>1, <2>3, <2>4
  <2>6. QED
    BY <2>2, <2>3, <2>4, <2>5
<1>5. CASE FollowLink
  <2>1. at # Nowhere
    BY <1>5 DEF FollowLink
  <2>2. /\ UNCHANGED <<written, stored, at, lastSent, sent, scrolls>> /\ timer' = FALSE /\ mounted' = {}
        /\ certain' = (certain /\ at = lastSent)
    BY <1>5 DEF FollowLink
  <2>3. Final' = Final
    BY <2>2 DEF Final
  <2>4. certain' \in BOOLEAN /\ (certain' => certain /\ at = lastSent)
    BY <2>2, Zenon
  <2>5. QED
    BY <2>1, <2>2, <2>3, <2>4
<1>6. ASSUME NEW place \in Scenes, Scroll(place) PROVE ReaderIInv'
  <2>1. mounted' = mounted /\ mounted # {} /\ at' = place /\ place # Nowhere /\ timer' = TRUE
    BY <1>0, <1>6 DEF Scroll
  <2>2. UNCHANGED <<written, stored, lastSent, sent, certain>> /\ scrolls' \in 0 .. MaxScrolls
    BY <1>0, <1>6 DEF Scroll, Scrolls
  <2>3. QED
    BY <2>1, <2>2 DEF Final, Place
<1>7. ASSUME NEW scene \in Scenes, Rewrite(scene) PROVE ReaderIInv'
  <2>1. UNCHANGED <<stored, mounted, at, timer, lastSent, sent, certain>> /\ scrolls' \in 0 .. MaxScrolls
    BY <1>0, <1>7 DEF Rewrite, Scrolls
  <2>2. written' \subseteq Scenes
    BY <1>7 DEF Rewrite
  <2>3. QED
    BY <2>1, <2>2 DEF Final
<1>8. ASSUME NEW i \in DOMAIN sent, Arrive(i) PROVE ReaderIInv'
  <2>1. /\ stored' = sent[i] /\ sent' = RemoveAt(sent, i) /\ certain' = (certain /\ i = 1)
        /\ UNCHANGED <<written, mounted, at, timer, lastSent, scrolls>>
    BY <1>8 DEF Arrive
  <2>2. i \in 1 .. Len(sent) /\ sent[i] \in Place /\ Len(sent) \in Nat
    BY ElementOfSeq, LenProperties
  <2>3. sent' \in Seq(Place) /\ stored' \in Place
    BY <2>1, <2>2, RemoveFacts
  <2>4. certain' \in BOOLEAN /\ (certain' => certain /\ i = 1)
    BY <2>1, Zenon
  <2>5. ASSUME i = 1 PROVE Final' = Final
    <3>1. sent # <<>> /\ Len(sent') = Len(sent) - 1
      BY <2>1, <2>2, <2>5, RemoveFacts
    <3>2. CASE Len(sent) = 1
      <4>1. sent' = <<>>
        BY <2>3, <3>1, <3>2, EmptySeq
      <4>2. QED
        BY <2>1, <2>5, <3>1, <3>2, <4>1 DEF Final
    <3>3. CASE Len(sent) > 1
      <4>1. sent' # <<>> /\ sent'[Len(sent')] = sent[Len(sent)]
        BY <2>1, <2>2, <2>5, <3>1, <3>3, RemoveFacts
      <4>2. QED
        BY <3>1, <4>1 DEF Final
    <3>4. Len(sent) = 1 \/ Len(sent) > 1
      <4>1. \A m \in Nat : i \in 1 .. m => m = 1 \/ m > 1
        BY <2>5
      <4>2. QED
        BY <2>2, <4>1
    <3>5. QED
      BY <3>2, <3>3, <3>4
  <2>6. QED
    BY <2>1, <2>3, <2>4, <2>5
<1>9. ASSUME NEW i \in DOMAIN sent, Lose(i) PROVE ReaderIInv'
  <2>1. sent' \in Seq(Place) /\ certain' = FALSE /\ UNCHANGED <<written, stored, mounted, at, timer, lastSent, scrolls>>
    BY <1>9, RemoveFacts DEF Lose
  <2>2. QED
    BY <2>1
<1>10. CASE UNCHANGED readerVars
  BY <1>10 DEF readerVars, Final
<1>11. QED
  BY <1>1, <1>2, <1>3, <1>4, <1>5, <1>6, <1>7, <1>8, <1>9, <1>10 DEF ReaderNext

ReaderBehaviour == ReaderInit /\ [][ReaderNext]_readerVars

LEMMA ReaderInvariant == ReaderBehaviour => []ReaderIInv
<1>1. ReaderInit => ReaderIInv
  <2> SUFFICES ASSUME ReaderInit PROVE ReaderIInv
    OBVIOUS
  <2>1. sent \in Seq(Place) /\ scrolls \in 0 .. MaxScrolls
    BY ReaderAssumption DEF ReaderInit
  <2>2. QED
    BY <2>1 DEF ReaderInit, ReaderIInv, ReaderTypeOK, Final, Place
<1>2. QED
  BY <1>1, ReaderStep, PTL DEF ReaderBehaviour

\* A closed reader whose requests have arrived opens next where it was left, however
\* scrolling, hiding and returning alternate, if none was lost or passed another and no
\* link was followed before scrolling had rested: for any scenes and number of requests.
THEOREM ReadingIsKept == ReaderBehaviour => []LeftWhereRead
<1>1. ReaderIInv => LeftWhereRead
  BY DEF ReaderIInv, LeftWhereRead, Final
<1>2. QED
  BY <1>1, ReaderInvariant, PTL

-----------------------------------------------------------------------------
(* The pages together *)

\* Every variable of the parts a tab runs has its type, in the composition TLC checks,
\* where each of the parts behaves as it does by itself.
THEOREM PagesAreTyped == PagesSpec => []PagesTypeOK
<1>1. PagesSpec => FormSpec /\ ReaderBehaviour /\ ConsentBehaviour /\ AccessSpec
  <2>1. Init => FormInit /\ ReaderInit /\ ConsentInit /\ AccessInit
    BY DEF Init
  <2>2. [Next]_<<formVars, readerVars, consentVars, accessVars, part>> =>
          [FormNext]_formVars /\ [ReaderNext]_readerVars /\ [ConsentNext]_consentVars /\ [AccessNext]_accessVars
    BY DEF Next
  <2>3. QED
    BY <2>1, <2>2, PTL DEF PagesSpec, FormSpec, ReaderBehaviour, ConsentBehaviour, AccessSpec
<1>2. FormIInv => FormTypeOK
  BY DEF FormIInv
<1>3. ReaderIInv => ReaderTypeOK
  BY DEF ReaderIInv
<1>4. ConsentIInv => ConsentTypeOK
  BY DEF ConsentIInv
<1>5. AccessIInv => AccessTypeOK
  BY DEF AccessIInv
<1>6. PagesTypeOK <=> FormTypeOK /\ ReaderTypeOK /\ ConsentTypeOK /\ AccessTypeOK
  BY DEF PagesTypeOK
<1>7. QED
  BY <1>1, <1>2, <1>3, <1>4, <1>5, <1>6, FormInvariant, ReaderInvariant, ConsentInvariant, AccessInductive, PTL
=============================================================================
