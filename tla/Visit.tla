------------------------------- MODULE Visit -------------------------------
(***************************************************************************)
(* One browser at the site: signing in and out, onboarding, the language a *)
(* page is rendered in, and the redirects a tab follows from one to the    *)
(* other (session.ts, locale.ts, middleware.ts, auth.ts, dev-login, the    *)
(* landing, login, onboarding, settings and authorization pages).  A       *)
(* request is one step: it reads the session once (React's cache), and is  *)
(* answered by a page or by a redirect, which the tab follows with another *)
(* request.  Google is external.                                           *)
(***************************************************************************)
EXTENDS OAuthHttp

CONSTANTS
    Panes,    \* tabs of the browser
    Asks,     \* authorization requests that clients send the browser with
    Browsers  \* browsers, the servers they are at and what their users do

VARIABLES
    account,      \* the User row, or Absent
    session,      \* has the browser a live session?
    cookie,       \* the language kept in the browser, or Absent
    browser,      \* the one of Browsers there is
    pane,         \* tab -> where it is
    oauthClient,  \* the OAuthClient row of the client there is, or Absent
    chosen        \* history: has the account chosen its language since it is there, or was reset?

visitVars == <<account, session, cookie, browser, pane, oauthClient, chosen>>
rows == <<account, session, cookie, chosen>>

Locales == {"en", "ja"}

At(page) == [page |-> page]
Landing(lang) == [page |-> "landing", lang |-> lang]             \* "/", "/ja" and "/en"
Onboarding(step) == [page |-> "onboarding", step |-> step]      \* 1 without a step parameter
Authorize(ask) == [page |-> "authorize", ask |-> ask]
Callback(ask, answer) == [page |-> "callback", ask |-> ask, answer |-> answer]   \* the client's own
Login(next) == [page |-> "login", next |-> next]
Google(next) == [page |-> "google", next |-> next]

\* What asks for a session and gives its own path to come back to; the pages of a project
\* give none.
Returning == {At(page) : page \in {"dashboard", "projects", "settings", "admin"}}
Places == Returning \cup {At("project"), At("legal")}
          \cup {Landing(lang) : lang \in Locales \cup {"any"}} \cup {Onboarding(step) : step \in 1..3}
          \cup {Authorize(ask) : ask \in Asks}
\* A next from outside the site is "elsewhere".
Nexts == Places \cup {Absent, At("elsewhere")}
Answers == {"code", "denied", "error"}
Anywhere == Places \cup {Login(next) : next \in Nexts} \cup {Google(next) : next \in Places}
            \cup {Callback(ask, answer) : ask \in Asks, answer \in Answers}

\* What Accept-Language picks, is dev-login enabled, is the user an admin, and the places the
\* user opens.
Browser == [accept : Locales \cup {Absent}, dev : BOOLEAN, admin : BOOLEAN,
            opens : SUBSET (Places \cup {Login(next) : next \in Nexts})]
Account == [onboarded : BOOLEAN, locale : Locales]

ASSUME VisitAssumption == Browsers \subseteq Browser /\ Absent \notin Account \cup Places

\* A tab that waits for an answer has shown FALSE.  History: where the user or a client sent
\* it, and whether a redirect on the way has dropped that.
Pane == [at : Anywhere, shown : BOOLEAN, html : Locales, body : Locales \cup {"fixed"},
         wish : Anywhere, dropped : BOOLEAN]

VisitTypeOK ==
    /\ account \in Account \cup {Absent}
    /\ session \in BOOLEAN /\ (session => account # Absent)
    /\ cookie \in Locales \cup {Absent} /\ chosen \in BOOLEAN
    /\ browser \in Browsers
    /\ pane \in [Panes -> Pane]

-----------------------------------------------------------------------------
(* Where a request leads *)

\* normalizeNextPath.
MutNormalizeNextPath(next) == At("dashboard")
normalizeNextPath(next) == IF next \in {Absent, At("elsewhere")} THEN At("dashboard") ELSE next

\* Where requireSessionUser sends the request, or `to` when there is a user who is onboarded.
requireSessionUser(nextPath, to) ==
    IF ~session THEN Login(nextPath)
    ELSE IF ~account.onboarded THEN Onboarding(1)
    ELSE to

\* Mutant: the question whether the user is onboarded is left to the other pages.
MutOnboardingPage(place) ==
    IF ~session THEN Login(Onboarding(1))
    ELSE IF place.step = 1 THEN At("dashboard")
    ELSE place

OnboardingPage(place) ==
    IF ~session THEN Login(Onboarding(1))
    ELSE IF account.onboarded /\ place.step = 1 THEN At("dashboard")
    ELSE place

\* Stage one: the page shows the error itself.
Unproven(ask) == \/ ~ask.known \/ oauthClient = Absent
                 \/ ~isRegisteredRedirectUri(ask.uri, oauthClient.uris)

\* Mutant: errors go back to the client before its redirect URI is looked up.
MutAuthorizePage(place) ==
    IF ~place.ask.wellFormed \/ normalizeScope(place.ask.scope) = {} THEN Callback(place.ask, "error")
    ELSE IF Unproven(place.ask) THEN place
    ELSE IF ~session THEN Login(place)
    ELSE place

\* Stage two: errors go back to the client, and a visitor who is not signed in comes back.
AuthorizePage(place) ==
    IF Unproven(place.ask) THEN place
    ELSE IF ~place.ask.wellFormed \/ normalizeScope(place.ask.scope) = {} THEN Callback(place.ask, "error")
    ELSE IF ~session THEN Login(place)
    ELSE place

\* The page a request ends on, or the place it is redirected to.
Leads(place) ==
    CASE place.page = "landing" -> IF session THEN At("dashboard") ELSE place
      [] place.page = "login" -> IF session THEN normalizeNextPath(place.next) ELSE place
      [] place.page = "onboarding" -> OnboardingPage(place)
      [] place.page = "authorize" -> AuthorizePage(place)
      [] place \in Returning -> requireSessionUser(place, place)
      [] place.page = "project" -> requireSessionUser(Absent, place)
      [] OTHER -> place

-----------------------------------------------------------------------------
(* The language of a page *)

\* Mutant: the cookie wins over the account.
MutResolveLocale(place) ==
    IF place.page = "landing" /\ place.lang # "any" THEN place.lang
    ELSE IF cookie # Absent THEN cookie
    ELSE IF session THEN account.locale
    ELSE IF browser.accept # Absent THEN browser.accept ELSE "en"

\* The URL (the header the middleware sets for /ja and /en), the account, the cookie,
\* Accept-Language: the first there is.  The layout, the header and the footer use it.
resolveLocale(place) ==
    IF place.page = "landing" /\ place.lang # "any" THEN place.lang
    ELSE IF session THEN account.locale
    ELSE IF cookie # Absent THEN cookie
    ELSE IF browser.accept # Absent THEN browser.accept ELSE "en"

\* The text of the page itself; fixed are the legal pages, the login page, the first step
\* of onboarding, which is in both languages, and the 404 of a visitor who is no admin.
BodyLocale(place) ==
    CASE place.page = "landing" -> resolveLocale(place)
      [] place.page \in {"legal", "login", "google", "callback"} -> "fixed"
      [] place = Onboarding(1) \/ (place = At("admin") /\ ~browser.admin) -> "fixed"
      [] OTHER -> IF session THEN account.locale ELSE "en"

-----------------------------------------------------------------------------
(* The tabs *)

\* The tab is sent somewhere, or follows a redirect.
Load(p, place) ==
    pane' = [pane EXCEPT ![p].at = place, ![p].shown = FALSE, ![p].wish = place, ![p].dropped = FALSE]
Follow(p, to) ==
    pane' = [pane EXCEPT ![p].at = to, ![p].shown = FALSE,
                         ![p].dropped =
                @ \/ to = Login(Absent) \/ (to = Onboarding(1) /\ pane[p].at.page # "login")
                  \/ (to = Login(Onboarding(1)) /\ pane[p].at # Onboarding(1))]

\* A request is answered; on its way to /ja and /en the middleware sets the cookie.
Serve(p) ==
    LET place == pane[p].at
        to == Leads(place)
    IN /\ ~pane[p].shown /\ place.page # "google"
       /\ IF to = place
          THEN pane' = [pane EXCEPT ![p].shown = TRUE, ![p].html = resolveLocale(place),
                                    ![p].body = BodyLocale(place)]
          ELSE Follow(p, to)
       /\ cookie' = IF place.page = "landing" /\ place.lang # "any" THEN place.lang ELSE cookie
       /\ UNCHANGED <<account, session, browser, oauthClient, chosen>>

\* The user opens a page of the site: by a link, by its address, by the back button.
Open(p, place) ==
    /\ Load(p, place)
    /\ UNCHANGED <<rows, browser, oauthClient>>

Shows(p, page) == pane[p].shown /\ pane[p].at.page = page

\* The button of the login page.
PressGoogle(p) ==
    /\ Shows(p, "login")
    /\ Follow(p, Google(normalizeNextPath(pane[p].at.next)))
    /\ UNCHANGED <<rows, browser, oauthClient>>

\* Google sends the browser back: the adapter makes the account if there is none, and a session.
GoogleReturns(p) ==
    /\ pane[p].at.page = "google"
    /\ account' = IF account = Absent THEN [onboarded |-> FALSE, locale |-> "en"] ELSE account
    /\ session' = TRUE
    /\ Follow(p, pane[p].at.next)
    /\ UNCHANGED <<cookie, browser, oauthClient, chosen>>

\* The local sign-in, by the links under the button; `fresh` makes the account a new one.
DevLogin(p, fresh) ==
    /\ Shows(p, "login") /\ browser.dev
    /\ account' = IF account = Absent \/ fresh THEN [onboarded |-> FALSE, locale |-> "ja"] ELSE account
    /\ session' = TRUE
    /\ chosen' = (chosen /\ ~fresh)
    /\ IF fresh THEN Load(p, At("dashboard")) ELSE Follow(p, normalizeNextPath(pane[p].at.next))
    /\ UNCHANGED <<cookie, browser, oauthClient>>

\* The button of the header, on a page that asks for a session.
SignOut(p) ==
    /\ pane[p].shown /\ (pane[p].at \in Returning \cup {At("project")} \/ pane[p].at.page = "onboarding")
    /\ session' = FALSE /\ Load(p, Landing("any"))
    /\ UNCHANGED <<account, cookie, browser, oauthClient, chosen>>

\* The session runs out.
SessionEnds ==
    /\ session /\ session' = FALSE
    /\ UNCHANGED <<account, cookie, browser, pane, oauthClient, chosen>>

\* Mutant: the account is marked at the end of the steps, which may be skipped.
MutChooseLanguage(p, locale) ==
    /\ Shows(p, "onboarding") /\ pane[p].at.step = 1
    /\ IF session
       THEN /\ account' = [account EXCEPT !.locale = locale] /\ chosen' = TRUE
            /\ Load(p, Onboarding(2))
       ELSE Follow(p, Login(Onboarding(1))) /\ UNCHANGED <<account, chosen>>
    /\ UNCHANGED <<session, cookie, browser, oauthClient>>

\* The action of the first step.
ChooseLanguage(p, locale) ==
    /\ Shows(p, "onboarding") /\ pane[p].at.step = 1
    /\ IF session
       THEN /\ account' = [onboarded |-> TRUE, locale |-> locale] /\ chosen' = TRUE
            /\ Load(p, Onboarding(2))
       ELSE Follow(p, Login(Onboarding(1))) /\ UNCHANGED <<account, chosen>>
    /\ UNCHANGED <<session, cookie, browser, oauthClient>>

\* The language form of the settings page, which is rendered again.
UpdateLocale(p, locale) ==
    LET here == At("settings")
        to == requireSessionUser(here, here)
    IN /\ Shows(p, "settings")
       /\ account' = IF to = here THEN [account EXCEPT !.locale = locale] ELSE account
       /\ Follow(p, to)
       /\ UNCHANGED <<session, cookie, browser, oauthClient, chosen>>

VisitInit ==
    /\ account \in {Absent, [onboarded |-> TRUE, locale |-> "ja"]}
    /\ session = FALSE /\ cookie = Absent /\ browser \in Browsers
    /\ pane = [p \in Panes |-> [at |-> Landing("any"), shown |-> FALSE, html |-> "en", body |-> "fixed",
                                wish |-> Landing("any"), dropped |-> FALSE]]
    /\ chosen = (account # Absent)

\* The authorization page is opened by clients, and its form sent: Connect.
VisitNext ==
    \/ SessionEnds
    \/ \E p \in Panes :
          \/ Serve(p) \/ PressGoogle(p) \/ GoogleReturns(p) \/ SignOut(p)
          \/ \E place \in browser.opens : Open(p, place)
          \/ \E fresh \in BOOLEAN : DevLogin(p, fresh)
          \/ \E locale \in Locales : ChooseLanguage(p, locale) \/ UpdateLocale(p, locale)

-----------------------------------------------------------------------------
(* Properties *)

\* An account that has chosen its language is not asked for it again, whatever steps it
\* skipped and whichever tab it comes back in: "a returning user must never be trapped back
\* in here" (onboarding/page.tsx:16).
NeverTrapped ==
    [][\A p \in Panes :
          (pane'[p].shown /\ ~pane[p].shown /\ pane'[p].at = Onboarding(1)) => ~chosen]_visitVars

\* Where an onboarded user who asked for a place is meant to land.
Due(place) ==
    LET to == IF place.page = "login" THEN normalizeNextPath(place.next) ELSE place
    IN IF to.page = "landing" \/ to = Onboarding(1) THEN At("dashboard") ELSE to

\* The third redirect is the last.
Ends(place) == Leads(Leads(Leads(place)))

\* Wherever a tab has been sent, the redirects it follows come to a page.  For a user who is
\* onboarded it is the page asked for, through however many sign-ins and sessions that ended,
\* unless a redirect has dropped it: the pages of a project give the login no path, the steps
\* of onboarding the first one's, and onboarding keeps none.
LandsWhereAsked ==
    \A p \in Panes :
        LET end == Ends(pane[p].at)
        IN /\ Leads(end) = end
           /\ (/\ session /\ account.onboarded /\ ~pane[p].shown
               /\ ~pane[p].dropped /\ end.page \notin {"callback", "google"}) => end = Due(pane[p].wish)

\* The page and the frame around it are in one language, whatever the account, the URL, the
\* cookie and the browser say: "can never disagree" (locale.ts:10).  The error of the
\* authorization page is in English for visitors not signed in.
OneLanguage ==
    \A p \in Panes :
        (/\ pane[p].shown /\ pane[p].body # "fixed"
         /\ ~(pane[p].at.page = "authorize" /\ pane[p].body = "en")) => pane[p].body = pane[p].html
=============================================================================
