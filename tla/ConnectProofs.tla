---------------------------- MODULE ConnectProofs ----------------------------
(***************************************************************************)
(* Proofs about the browser of Visit, sent about by the client of Connect, *)
(* for any tabs, browsers, doors, requests of the client and attempts; in  *)
(* the last part about Tools, for any titles and bounds, and for any kinds *)
(* of rows that calls are made for; and about the composition of the three *)
(* that TLC checks.                                                        *)
(***************************************************************************)
EXTENDS MCConnect, SequenceTheorems, WellFoundedInduction, TLAPS

\* Who has a session has an account, and the language is chosen by who is onboarded.
Membership ==
    /\ session => account \in Account
    /\ chosen => account \in Account /\ account.onboarded

VisitIInv == VisitTypeOK /\ Membership /\ OneLanguage

-----------------------------------------------------------------------------
(* Places *)

\* What the places of the browser look like.
LEMMA PlaceShape ==
    ASSUME NEW place \in Anywhere
    PROVE  /\ place.page = "login" => place.next \in Nexts
           /\ place.page = "google" => place.next \in Places
           /\ place.page = "onboarding" => place \in Places /\ place.step \in 1..3
           /\ place.page = "landing" => place \in Places /\ place.lang \in Locales \cup {"any"}
           /\ place.page = "authorize" => place \in Places /\ place.ask \in Asks
           /\ place.page = "callback" => place.ask \in Asks
           /\ place.page \in {"landing", "login", "google", "onboarding", "authorize", "callback",
                              "legal", "project"} \/ place \in Returning
           /\ place \in Returning => place \in Places
<1>1. CASE place \in Places
  BY <1>1 DEF Places, Returning, At, Landing, Onboarding, Authorize
<1>2. CASE place \in {Login(next) : next \in Nexts}
  BY <1>2 DEF Login, Returning, At
<1>3. CASE place \in {Google(next) : next \in Places}
  BY <1>3 DEF Google, Returning, At
<1>4. CASE place \in {Callback(ask, answer) : ask \in Asks, answer \in Answers}
  BY <1>4 DEF Callback, Returning, At
<1>5. QED
  BY <1>1, <1>2, <1>3, <1>4 DEF Anywhere

LEMMA KnownPlaces ==
    /\ At("dashboard") \in Places /\ Onboarding(1) \in Places /\ Onboarding(2) \in Places
    /\ At("settings") \in Places /\ Landing("any") \in Places
    /\ Login(Absent) \in Anywhere /\ Login(Onboarding(1)) \in Anywhere
    /\ \A place \in Places : place \in Anywhere /\ Login(place) \in Anywhere /\ Google(place) \in Anywhere
<1>1. /\ At("dashboard") \in Places /\ Onboarding(1) \in Places /\ Onboarding(2) \in Places
      /\ At("settings") \in Places /\ Landing("any") \in Places
  BY DEF Places, Returning
<1>2. QED
  BY <1>1 DEF Anywhere, Nexts

LEMMA NextIsAPlace == ASSUME NEW next \in Nexts PROVE normalizeNextPath(next) \in Places
<1>1. next \notin {Absent, At("elsewhere")} => next \in Places
  BY DEF Nexts
<1>2. QED
  BY <1>1, KnownPlaces DEF normalizeNextPath

LEMMA ReturningPage == \A place \in Returning : place.page \in {"dashboard", "projects", "settings", "admin"}
BY DEF Returning, At

\* A redirect leads to a place of the browser.
LEMMA LeadsAnywhere == ASSUME NEW place \in Anywhere PROVE Leads(place) \in Anywhere
<1>1. CASE place.page = "landing"
  <2>1. Leads(place) = IF session THEN At("dashboard") ELSE place
    BY <1>1, ReturningPage DEF Leads
  <2>2. QED
    BY <2>1, KnownPlaces
<1>2. CASE place.page = "login"
  <2>1. Leads(place) = IF session THEN normalizeNextPath(place.next) ELSE place
    BY <1>2, ReturningPage DEF Leads
  <2>2. QED
    BY <1>2, <2>1, PlaceShape, NextIsAPlace, KnownPlaces
<1>3. CASE place.page = "onboarding"
  <2>1. Leads(place) = OnboardingPage(place)
    BY <1>3, ReturningPage DEF Leads
  <2>2. QED
    BY <2>1, KnownPlaces DEF OnboardingPage
<1>4. CASE place.page = "authorize"
  <2>1. Leads(place) = AuthorizePage(place)
    BY <1>4, ReturningPage DEF Leads
  <2>2. place \in Places /\ place.ask \in Asks
    BY <1>4, PlaceShape
  <2>3. Callback(place.ask, "error") \in Anywhere
    BY <2>2 DEF Anywhere, Answers
  <2>4. QED
    BY <2>1, <2>2, <2>3, KnownPlaces DEF AuthorizePage
<1>5. CASE place \in Returning
  <2>1. place.page \notin {"landing", "login", "onboarding", "authorize", "project"}
    BY <1>5, ReturningPage
  <2>2. Leads(place) = requireSessionUser(place, place)
    BY <1>5, <2>1 DEF Leads
  <2>3. QED
    BY <1>5, <2>2, PlaceShape, KnownPlaces DEF requireSessionUser
<1>6. CASE place.page = "project" /\ place \notin Returning
  <2>1. Leads(place) = requireSessionUser(Absent, place)
    BY <1>6 DEF Leads
  <2>2. QED
    BY <2>1, KnownPlaces DEF requireSessionUser
<1>7. CASE place.page \in {"google", "callback", "legal"} /\ place \notin Returning
  BY <1>7 DEF Leads
<1>8. QED
  BY <1>1, <1>2, <1>3, <1>4, <1>5, <1>6, <1>7, PlaceShape

-----------------------------------------------------------------------------
(* The page a request ends on *)

\* The text of a page is fixed, or in the language of its frame, or in the account's.
LEMMA BodyShape ==
    ASSUME NEW place
    PROVE  \/ place.page = "landing" /\ BodyLocale(place) = resolveLocale(place)
           \/ BodyLocale(place) = "fixed"
           \/ place.page # "landing" /\ BodyLocale(place) = IF session THEN account.locale ELSE "en"
<1>1. CASE place.page = "landing"
  <2>1. place # Onboarding(1) /\ place # At("admin")
    BY <1>1 DEF Onboarding, At
  <2>2. QED
    BY <1>1, <2>1 DEF BodyLocale
<1>2. CASE place.page \in {"legal", "login", "google", "callback"}
  <2>1. place # Onboarding(1) /\ place # At("admin") /\ place.page # "landing"
    BY <1>2 DEF Onboarding, At
  <2>2. QED
    BY <1>2, <2>1 DEF BodyLocale
<1>3. CASE /\ place.page \notin {"landing", "legal", "login", "google", "callback"}
           /\ place = Onboarding(1) \/ (place = At("admin") /\ ~browser.admin)
  BY <1>3 DEF BodyLocale
<1>4. CASE /\ place.page \notin {"landing", "legal", "login", "google", "callback"}
           /\ ~(place = Onboarding(1) \/ (place = At("admin") /\ ~browser.admin))
  BY <1>4 DEF BodyLocale
<1>5. QED
  BY <1>1, <1>2, <1>3, <1>4

\* Which pages a visitor without a session ends on.
LEMMA WithoutSession ==
    ASSUME NEW place \in Anywhere, Leads(place) = place, ~session
    PROVE  place.page \in {"landing", "login", "google", "authorize", "callback", "legal"}
<1>1. CASE place.page = "onboarding"
  <2>1. Leads(place) = OnboardingPage(place)
    BY <1>1, ReturningPage DEF Leads
  <2>2. Leads(place).page = "login"
    BY <2>1 DEF OnboardingPage, Login
  <2>3. QED
    BY <1>1, <2>2
<1>2. CASE place \in Returning
  <2>1. place.page \notin {"landing", "login", "onboarding", "authorize", "project"}
    BY <1>2, ReturningPage
  <2>2. Leads(place) = requireSessionUser(place, place)
    BY <1>2, <2>1 DEF Leads
  <2>3. Leads(place).page = "login"
    BY <2>2 DEF requireSessionUser, Login
  <2>4. QED
    BY <2>1, <2>3
<1>3. CASE place.page = "project" /\ place \notin Returning
  <2>1. Leads(place) = requireSessionUser(Absent, place)
    BY <1>3 DEF Leads
  <2>2. Leads(place).page = "login"
    BY <2>1 DEF requireSessionUser, Login
  <2>3. QED
    BY <1>3, <2>2
<1>4. QED
  BY <1>1, <1>2, <1>3, PlaceShape

LEMMA LocaleTypes ==
    ASSUME VisitTypeOK, Membership, NEW place \in Anywhere
    PROVE  resolveLocale(place) \in Locales /\ BodyLocale(place) \in Locales \cup {"fixed"}
<1>1. browser.accept \in Locales \cup {Absent} /\ (session => account.locale \in Locales)
  BY VisitAssumption DEF VisitTypeOK, Membership, Browser, Account
<1>2. "en" \in Locales /\ (place.page = "landing" /\ place.lang # "any" => place.lang \in Locales)
  BY PlaceShape DEF Locales
<1>3. resolveLocale(place) \in Locales
  BY <1>1, <1>2 DEF resolveLocale, VisitTypeOK
<1>4. QED
  BY <1>1, <1>2, <1>3, BodyShape

\* A page and its frame are in one language, but for the error of the authorization page.
LEMMA PageInOneLanguage ==
    ASSUME NEW place \in Anywhere, Leads(place) = place, BodyLocale(place) # "fixed",
           ~(place.page = "authorize" /\ BodyLocale(place) = "en")
    PROVE  BodyLocale(place) = resolveLocale(place)
<1>1. CASE place.page = "landing"
  BY <1>1, BodyShape
<1>2. CASE place.page # "landing" /\ session
  BY <1>2, BodyShape DEF resolveLocale
<1>3. CASE place.page # "landing" /\ ~session
  <2>1. BodyLocale(place) = "en" /\ place.page \in {"login", "google", "callback", "legal"}
    BY <1>3, BodyShape, WithoutSession
  <2>2. BodyLocale(place) = "fixed"
    <3>1. place # Onboarding(1) /\ place # At("admin") /\ place.page # "landing"
      BY <2>1 DEF Onboarding, At
    <3>2. place.page \in {"legal", "login", "google", "callback"}
      BY <2>1
    <3>3. QED
      BY <3>1, <3>2 DEF BodyLocale
  <2>3. QED
    BY <2>2
<1>4. QED
  BY <1>1, <1>2, <1>3

\* The first step of onboarding is shown to an account that is not onboarded.
LEMMA FirstStepShown ==
    ASSUME Leads(Onboarding(1)) = Onboarding(1)
    PROVE  session /\ ~account.onboarded
<1>1. Onboarding(1).page = "onboarding" /\ Onboarding(1).step = 1 /\ Onboarding(1) \notin Returning
  BY ReturningPage DEF Onboarding
<1>2. Leads(Onboarding(1)) = OnboardingPage(Onboarding(1))
  BY <1>1 DEF Leads
<1>3. Login(Onboarding(1)).page = "login" /\ At("dashboard").page = "dashboard"
  BY DEF Login, At
<1>4. QED
  BY <1>1, <1>2, <1>3 DEF OnboardingPage

-----------------------------------------------------------------------------
(* The tabs *)

\* A tab is sent to a place, and waits.
Sends(p, to) ==
    /\ DOMAIN pane' = Panes
    /\ \A q \in Panes \ {p} : pane'[q] = pane[q]
    /\ pane'[p] \in Pane /\ pane'[p].at = to /\ ~pane'[p].shown

LEMMA SendingTypes ==
    ASSUME VisitTypeOK, NEW p \in Panes, NEW to \in Anywhere, Load(p, to) \/ Follow(p, to)
    PROVE  pane' \in [Panes -> Pane] /\ Sends(p, to)
<1>1. CASE Load(p, to)
  BY <1>1 DEF Load, Sends, VisitTypeOK, Pane
<1>2. CASE Follow(p, to)
  <2> DEFINE drops == \/ pane[p].dropped \/ to = Login(Absent)
                      \/ (to = Onboarding(1) /\ pane[p].at.page # "login")
                      \/ (to = Login(Onboarding(1)) /\ pane[p].at # Onboarding(1))
  <2>1. drops \in BOOLEAN
    BY DEF VisitTypeOK, Pane
  <2>2. pane' = [pane EXCEPT ![p].at = to, ![p].shown = FALSE, ![p].dropped = drops]
    BY <1>2 DEF Follow
  <2> HIDE DEF drops
  <2>3. QED
    BY <2>1, <2>2 DEF Sends, VisitTypeOK, Pane
<1>3. QED
  BY <1>1, <1>2

\* What NeverTrapped says of a step.
ShownToNewcomers ==
    \A p \in Panes :
        (pane'[p].shown /\ ~pane[p].shown /\ pane'[p].at = Onboarding(1)) => ~chosen

\* The account is what it was, or what a sign-in or a form made of it.
RowsKept ==
    /\ account' \in Account \cup {Absent} /\ session' \in BOOLEAN /\ chosen' \in BOOLEAN
    /\ cookie' \in Locales \cup {Absent} /\ browser' = browser
    /\ (session' => account' # Absent) /\ Membership'

LEMMA SendingKeeps ==
    ASSUME VisitIInv, NEW p \in Panes, NEW to \in Anywhere, Load(p, to) \/ Follow(p, to), RowsKept
    PROVE  VisitIInv' /\ ShownToNewcomers
<1>1. pane' \in [Panes -> Pane] /\ Sends(p, to)
  BY SendingTypes DEF VisitIInv
<1>2. VisitTypeOK'
  BY <1>1 DEF VisitIInv, VisitTypeOK, RowsKept
<1>3. OneLanguage'
  BY <1>1 DEF VisitIInv, OneLanguage, Sends
<1>4. ShownToNewcomers
  BY <1>1 DEF ShownToNewcomers, Sends
<1>5. QED
  BY <1>2, <1>3, <1>4 DEF VisitIInv, RowsKept

\* A step that leaves the tabs alone.
LEMMA TabsKept ==
    ASSUME VisitIInv, UNCHANGED pane, RowsKept
    PROVE  VisitIInv' /\ ShownToNewcomers
<1>1. VisitTypeOK'
  BY DEF VisitIInv, VisitTypeOK, RowsKept
<1>2. OneLanguage'
  BY DEF VisitIInv, OneLanguage
<1>3. ShownToNewcomers
  BY DEF ShownToNewcomers
<1>4. QED
  BY <1>1, <1>2, <1>3 DEF VisitIInv, RowsKept

\* A session has an account that is one.
LEMMA AccountIsNotAbsent == \A row \in Account : row # Absent
BY VisitAssumption

LEMMA RowsUnchanged ==
    ASSUME VisitIInv, UNCHANGED <<account, session, chosen, browser>>, cookie' \in Locales \cup {Absent}
    PROVE  RowsKept
BY DEF VisitIInv, VisitTypeOK, RowsKept, Membership

LEMMA ServeKeeps ==
    ASSUME VisitIInv, NEW p \in Panes, Serve(p)
    PROVE  VisitIInv' /\ ShownToNewcomers
<1> DEFINE place == pane[p].at
<1>0. VisitTypeOK /\ place \in Anywhere /\ pane \in [Panes -> Pane]
  BY DEF VisitIInv, VisitTypeOK, Pane
<1>1. cookie' \in Locales \cup {Absent} /\ UNCHANGED <<account, session, browser, oauthClient, chosen>>
  BY <1>0, PlaceShape DEF Serve, VisitTypeOK
<1>2. RowsKept
  BY <1>1, RowsUnchanged
<1>3. CASE Leads(place) # place
  <2>1. Follow(p, Leads(place)) /\ Leads(place) \in Anywhere
    BY <1>0, <1>3, LeadsAnywhere DEF Serve
  <2>2. QED
    BY <1>2, <2>1, SendingKeeps
<1>4. CASE Leads(place) = place
  <2>1. pane' = [pane EXCEPT ![p].shown = TRUE, ![p].html = resolveLocale(place),
                             ![p].body = BodyLocale(place)]
    BY <1>4 DEF Serve
  <2>2. resolveLocale(place) \in Locales /\ BodyLocale(place) \in Locales \cup {"fixed"}
    BY <1>0, LocaleTypes DEF VisitIInv
  <2>3. /\ pane' \in [Panes -> Pane] /\ \A q \in Panes \ {p} : pane'[q] = pane[q]
        /\ pane'[p].at = place /\ pane'[p].html = resolveLocale(place) /\ pane'[p].body = BodyLocale(place)
    BY <1>0, <2>1, <2>2 DEF Pane
  <2>4. VisitTypeOK'
    BY <1>0, <1>2, <2>3 DEF VisitTypeOK, RowsKept
  <2>5. OneLanguage'
    <3>1. (/\ pane'[p].body # "fixed"
           /\ ~(pane'[p].at.page = "authorize" /\ pane'[p].body = "en")) => pane'[p].body = pane'[p].html
      BY <1>0, <1>4, <2>3, PageInOneLanguage
    <3>2. QED
      BY <2>3, <3>1 DEF VisitIInv, OneLanguage
  <2>6. ShownToNewcomers
    <3>1. ASSUME pane'[p].at = Onboarding(1) PROVE ~chosen
      <4>1. session /\ ~account.onboarded
        BY <1>4, <2>3, <3>1, FirstStepShown
      <4>2. QED
        BY <4>1 DEF VisitIInv, Membership
    <3>2. QED
      BY <2>3, <3>1 DEF ShownToNewcomers
  <2>7. QED
    BY <1>2, <2>4, <2>5, <2>6 DEF VisitIInv, RowsKept
<1>5. QED
  BY <1>3, <1>4

LEMMA SignInKeeps ==
    ASSUME VisitIInv, NEW p \in Panes,
           PressGoogle(p) \/ GoogleReturns(p) \/ (\E fresh \in BOOLEAN : DevLogin(p, fresh))
    PROVE  VisitIInv' /\ ShownToNewcomers
<1> DEFINE place == pane[p].at
<1>0. VisitTypeOK /\ Membership /\ place \in Anywhere
  BY DEF VisitIInv, VisitTypeOK, Pane
<1>1. CASE PressGoogle(p)
  <2>1. place.next \in Nexts
    BY <1>0, <1>1, PlaceShape DEF PressGoogle, Shows
  <2>2. Google(normalizeNextPath(place.next)) \in Anywhere
    BY <2>1, NextIsAPlace, KnownPlaces
  <2>3. Follow(p, Google(normalizeNextPath(place.next))) /\ UNCHANGED <<account, session, cookie, chosen, browser>>
    BY <1>1 DEF PressGoogle, rows
  <2>4. RowsKept
    BY <1>0, <2>3, RowsUnchanged DEF VisitTypeOK
  <2>5. QED
    BY <2>2, <2>3, <2>4, SendingKeeps
<1>2. CASE GoogleReturns(p)
  <2>1. place.next \in Anywhere
    BY <1>0, <1>2, PlaceShape, KnownPlaces DEF GoogleReturns
  <2>2. [onboarded |-> FALSE, locale |-> "en"] \in Account
    BY DEF Account, Locales
  <2>3. /\ account' \in Account /\ session' = TRUE /\ UNCHANGED <<cookie, browser, chosen>>
        /\ (account # Absent => account' = account)
    BY <1>0, <1>2, <2>2 DEF GoogleReturns, VisitTypeOK
  <2>4. RowsKept
    BY <1>0, <2>3, AccountIsNotAbsent DEF RowsKept, VisitTypeOK, Membership
  <2>5. QED
    BY <1>2, <2>1, <2>4, SendingKeeps DEF GoogleReturns
<1>3. ASSUME NEW fresh \in BOOLEAN, DevLogin(p, fresh) PROVE VisitIInv' /\ ShownToNewcomers
  <2>1. [onboarded |-> FALSE, locale |-> "ja"] \in Account
    BY DEF Account, Locales
  <2>2. /\ account' \in Account /\ session' = TRUE /\ UNCHANGED <<cookie, browser>>
        /\ chosen' = (chosen /\ ~fresh) /\ (account # Absent /\ ~fresh => account' = account)
    BY <1>0, <1>3, <2>1 DEF DevLogin, VisitTypeOK
  <2>3. RowsKept
    BY <1>0, <2>2, AccountIsNotAbsent DEF RowsKept, VisitTypeOK, Membership
  <2>4. PICK to \in Anywhere : Load(p, to) \/ Follow(p, to)
    <3>1. place.next \in Nexts
      BY <1>0, <1>3, PlaceShape DEF DevLogin, Shows
    <3>2. normalizeNextPath(place.next) \in Anywhere /\ At("dashboard") \in Anywhere
      BY <3>1, NextIsAPlace, KnownPlaces
    <3>3. QED
      BY <1>3, <3>2 DEF DevLogin
  <2>5. QED
    BY <2>3, <2>4, SendingKeeps
<1>4. QED
  BY <1>1, <1>2, <1>3

LEMMA FormKeeps ==
    ASSUME VisitIInv, NEW p \in Panes, NEW locale \in Locales,
           ChooseLanguage(p, locale) \/ UpdateLocale(p, locale)
    PROVE  VisitIInv' /\ ShownToNewcomers
<1>0. VisitTypeOK /\ Membership
  BY DEF VisitIInv
<1>1. CASE ChooseLanguage(p, locale)
  <2>1. [onboarded |-> TRUE, locale |-> locale] \in Account
    BY DEF Account
  <2>2. RowsKept
    <3>1. CASE session
      <4>1. /\ account' = [onboarded |-> TRUE, locale |-> locale] /\ chosen' = TRUE
            /\ UNCHANGED <<session, cookie, browser>>
        BY <1>1, <3>1 DEF ChooseLanguage
      <4>2. account' \in Account /\ account'.onboarded /\ account' # Absent
        BY <2>1, <4>1, AccountIsNotAbsent
      <4>3. QED
        BY <1>0, <4>1, <4>2 DEF RowsKept, VisitTypeOK, Membership
    <3>2. CASE ~session
      <4>1. UNCHANGED <<account, chosen, session, cookie, browser>>
        BY <1>1, <3>2 DEF ChooseLanguage
      <4>2. QED
        BY <1>0, <4>1, RowsUnchanged DEF VisitTypeOK
    <3>3. QED
      BY <3>1, <3>2
  <2>3. PICK to \in Anywhere : Load(p, to) \/ Follow(p, to)
    BY <1>1, KnownPlaces DEF ChooseLanguage
  <2>4. QED
    BY <2>2, <2>3, SendingKeeps
<1>2. CASE UpdateLocale(p, locale)
  <2> DEFINE here == At("settings")
             to == requireSessionUser(here, here)
  <2>1. to \in Anywhere /\ Follow(p, to)
    BY <1>2, KnownPlaces DEF UpdateLocale, requireSessionUser
  <2>2. to = here => session
    BY DEF requireSessionUser, Login, At
  <2>3. session => [account EXCEPT !.locale = locale] \in Account
                   /\ [account EXCEPT !.locale = locale].onboarded = account.onboarded
    BY <1>0 DEF Membership, Account
  <2>4. /\ account' = IF to = here THEN [account EXCEPT !.locale = locale] ELSE account
        /\ UNCHANGED <<session, cookie, browser, chosen>>
    BY <1>2 DEF UpdateLocale
  <2> HIDE DEF to, here
  <2>5. RowsKept
    BY <1>0, <2>2, <2>3, <2>4, AccountIsNotAbsent DEF RowsKept, VisitTypeOK, Membership
  <2>6. QED
    BY <2>1, <2>5, SendingKeeps
<1>3. QED
  BY <1>1, <1>2

LEMMA BrowserKeeps == ASSUME VisitIInv, VisitNext PROVE VisitIInv' /\ ShownToNewcomers
<1>0. VisitTypeOK /\ Membership
  BY DEF VisitIInv
<1>1. CASE SessionEnds
  <2>1. RowsKept
    BY <1>0, <1>1 DEF SessionEnds, RowsKept, VisitTypeOK, Membership
  <2>2. QED
    BY <1>1, <2>1, TabsKept DEF SessionEnds
<1>2. ASSUME NEW p \in Panes, SignOut(p) PROVE VisitIInv' /\ ShownToNewcomers
  <2>1. RowsKept
    BY <1>0, <1>2 DEF SignOut, RowsKept, VisitTypeOK, Membership
  <2>2. QED
    BY <1>2, <2>1, KnownPlaces, SendingKeeps DEF SignOut
<1>3. ASSUME NEW p \in Panes, NEW place \in browser.opens, Open(p, place)
      PROVE  VisitIInv' /\ ShownToNewcomers
  <2>1. place \in Anywhere
    BY <1>0, <1>3, VisitAssumption DEF VisitTypeOK, Browser, Anywhere
  <2>2. RowsKept
    BY <1>0, <1>3, RowsUnchanged DEF Open, rows, VisitTypeOK
  <2>3. QED
    BY <1>3, <2>1, <2>2, SendingKeeps DEF Open
<1>4. QED
  BY <1>1, <1>2, <1>3, ServeKeeps, SignInKeeps, FormKeeps DEF VisitNext

-----------------------------------------------------------------------------
(* The client *)

\* The client and the consent screen send the browser on, and touch nothing else of it.
LEMMA ConsentKeeps ==
    ASSUME VisitIInv, NEW p \in Panes,
           (\E ask \in Asks : SendBrowser(p, ask)) \/ ApproveAuthorization(p) \/ DenyAuthorization(p)
    PROVE  VisitIInv' /\ ShownToNewcomers
<1>0. VisitTypeOK
  BY DEF VisitIInv
<1>1. ASSUME NEW ask \in Asks, SendBrowser(p, ask) PROVE VisitIInv' /\ ShownToNewcomers
  <2>1. Authorize(ask) \in Anywhere
    BY KnownPlaces DEF Places
  <2>2. RowsKept
    BY <1>0, <1>1, RowsUnchanged DEF SendBrowser, rows, VisitTypeOK
  <2>3. QED
    BY <1>1, <2>1, <2>2, SendingKeeps DEF SendBrowser
<1>2. ASSUME NEW decision \in Answers, Decide(p, decision) PROVE VisitIInv' /\ ShownToNewcomers
  <2> DEFINE place == pane[p].at
             to == requireSessionUser(Absent, place)
  <2>1. place \in Anywhere /\ place.page = "authorize" /\ ~Unproven(place.ask)
    BY <1>0, <1>2 DEF Decide, Consents, Shows, VisitTypeOK, Pane
  <2>2. place.ask \in Asks
    BY <2>1, PlaceShape
  <2>3. Callback(place.ask, decision) \in Anywhere
    BY <2>2 DEF Anywhere
  <2>4. to \in Anywhere
    BY <2>1, KnownPlaces DEF requireSessionUser
  <2>5. RowsKept
    BY <1>0, <1>2, RowsUnchanged DEF Decide, rows, VisitTypeOK
  <2>6. PICK there \in Anywhere : Follow(p, there)
    BY <1>2, <2>1, <2>3, <2>4 DEF Decide
  <2>7. QED
    BY <2>5, <2>6, SendingKeeps
<1>3. QED
  BY <1>1, <1>2 DEF ApproveAuthorization, DenyAuthorization, Answers

\* Its requests to the server do not go through the browser.
LEMMA RequestsKeep ==
    ASSUME VisitIInv,
           \/ Challenged \/ ReadResourceMetadata \/ ReadServerMetadata \/ Call
           \/ \E metadata \in Metadata : Register(metadata)
           \/ \E p \in Panes : ReceiveCallback(p)
           \/ \E uri, verifier, resource : Exchange(uri, verifier, resource)
           \/ UNCHANGED connectVars
    PROVE  VisitIInv' /\ ShownToNewcomers
<1>1. UNCHANGED <<account, session, cookie, chosen, browser, pane>>
  <2>1. ASSUME NEW p \in Panes, ReceiveCallback(p) PROVE UNCHANGED visitVars
    BY <2>1 DEF ReceiveCallback
  <2>2. ASSUME Challenged \/ ReadResourceMetadata \/ ReadServerMetadata \/ Call PROVE UNCHANGED visitVars
    BY <2>2 DEF Challenged, ReadResourceMetadata, ReadServerMetadata, Call
  <2>3. ASSUME NEW uri, NEW verifier, NEW resource, Exchange(uri, verifier, resource)
        PROVE  UNCHANGED visitVars
    BY <2>3 DEF Exchange
  <2>4. ASSUME NEW metadata \in Metadata, Register(metadata)
        PROVE  UNCHANGED <<account, session, cookie, chosen, browser, pane>>
    BY <2>4 DEF Register, rows
  <2>5. QED
    BY <2>1, <2>2, <2>3, <2>4 DEF visitVars, connectVars
<1>2. RowsKept
  BY <1>1, RowsUnchanged DEF VisitIInv, VisitTypeOK
<1>3. QED
  BY <1>1, <1>2, TabsKept

LEMMA ConnectKeeps == VisitIInv /\ [ConnectNext]_connectVars => VisitIInv' /\ ShownToNewcomers
<1> SUFFICES ASSUME VisitIInv, [ConnectNext]_connectVars PROVE VisitIInv' /\ ShownToNewcomers
  OBVIOUS
<1>1. CASE Browse
  BY <1>1, BrowserKeeps DEF Browse
<1>2. ASSUME NEW p \in Panes,
             (\E ask \in Asks : SendBrowser(p, ask)) \/ ApproveAuthorization(p) \/ DenyAuthorization(p)
      PROVE  VisitIInv' /\ ShownToNewcomers
  BY <1>2, ConsentKeeps
<1>3. CASE \/ Challenged \/ ReadResourceMetadata \/ ReadServerMetadata \/ Call
           \/ \E metadata \in Metadata : Register(metadata)
           \/ \E p \in Panes : ReceiveCallback(p)
           \/ \E uri, verifier, resource : Exchange(uri, verifier, resource)
           \/ UNCHANGED connectVars
  BY <1>3, RequestsKeep
<1>4. QED
  BY <1>1, <1>2, <1>3 DEF ConnectNext

LEMMA VisitInitial == ConnectInit => VisitIInv
<1> SUFFICES ASSUME ConnectInit PROVE VisitIInv
  OBVIOUS
<1> USE DEF ConnectInit, VisitInit
<1>1. [onboarded |-> TRUE, locale |-> "ja"] \in Account
  BY DEF Account, Locales
<1>2. Landing("any") \in Anywhere
  BY KnownPlaces
<1>3. pane \in [Panes -> Pane] /\ \A p \in Panes : ~pane[p].shown
  BY <1>2 DEF Pane, Locales
<1>4. VisitTypeOK
  BY <1>1, <1>3 DEF VisitTypeOK
<1>5. Membership
  <2>1. CASE chosen
    <3>1. account = [onboarded |-> TRUE, locale |-> "ja"]
      BY <2>1
    <3>2. account.onboarded = TRUE
      BY <3>1, SMT
    <3>3. QED
      BY <1>1, <3>1, <3>2 DEF Membership
  <2>2. QED
    BY <2>1 DEF Membership
<1>6. OneLanguage
  BY <1>3 DEF OneLanguage
<1>7. QED
  BY <1>4, <1>5, <1>6 DEF VisitIInv

LEMMA VisitInductive == ConnectSpec => []VisitIInv
<1>1. VisitIInv /\ [ConnectNext]_connectVars => VisitIInv'
  BY ConnectKeeps
<1>2. QED
  BY <1>1, VisitInitial, PTL DEF ConnectSpec

\* The page a tab shows and the frame around it are in one language, whatever the account,
\* the URL, the cookie and the browser say, however a client sends the browser about.
THEOREM FrameAndPageAgree == ConnectSpec => []OneLanguage
<1>1. VisitIInv => OneLanguage
  BY DEF VisitIInv
<1>2. QED
  BY <1>1, VisitInductive, PTL

\* No tab shows the first step of onboarding to an account that has chosen its language.
THEOREM NobodyIsTrapped == ConnectSpec => NeverTrapped
<1>1. VisitIInv /\ [ConnectNext]_connectVars =>
        [\A p \in Panes :
            (pane'[p].shown /\ ~pane[p].shown /\ pane'[p].at = Onboarding(1)) => ~chosen]_visitVars
  BY ConnectKeeps DEF ShownToNewcomers
<1>2. QED
  BY <1>1, VisitInductive, PTL DEF ConnectSpec, NeverTrapped


\* A place outside the site is one the client has registered.
Fitting(place) == place.page = "callback" => ~Unproven(place.ask)
Bound == \A p \in Panes : Fitting(pane[p].at)

\* A row of a code is one of an approval.
Agrees(row, n, a) ==
    /\ {"scope", "resource"} \subseteq DOMAIN row
    /\ a.challenge = n /\ a.scope = row.scope /\ a.resource = row.resource

\* A code is of an approval, and so is the token.
Vouched ==
    /\ DOMAIN code = 1..MaxAttempts
    /\ \A n \in 1..MaxAttempts : code[n] # Absent => \E a \in agreed : Agrees(code[n], n, a)
    /\ issued # Absent =>
          \E a \in agreed : a.challenge = issued.challenge /\ a.scope = issued.scope /\ a.resource = issued.resource

\* Where the client stands: it is registered once, before it asks for anything.
Standing ==
    /\ {"step", "ask"} \subseteq DOMAIN app
    /\ app.step \in {"start", "challenged", "resource", "issuer"} => oauthClient = Absent
    /\ app.step \in {"asking", "code"} => app.ask \in Asks

ConnectIInv == VisitIInv /\ Bound /\ Vouched /\ Standing

-----------------------------------------------------------------------------
(* Where a tab is sent *)

LEMMA InsideIsFitting ==
    /\ \A place \in Places : place.page # "callback" /\ Fitting(place)
    /\ \A next : Fitting(Login(next)) /\ Fitting(Google(next))
<1>1. \A place \in Places : place.page # "callback"
  BY DEF Places, Returning, At, Landing, Onboarding, Authorize
<1>2. \A next : Login(next).page = "login" /\ Google(next).page = "google"
  BY DEF Login, Google
<1>3. QED
  BY <1>1, <1>2 DEF Fitting

LEMMA UserIsFitting ==
    ASSUME NEW next, NEW to, Fitting(to)
    PROVE  Fitting(requireSessionUser(next, to))
  BY InsideIsFitting, KnownPlaces DEF requireSessionUser

\* A redirect leads to a registered address if it leads outside.
LEMMA LeadsFitting ==
    ASSUME NEW place \in Anywhere, Fitting(place)
    PROVE  Fitting(Leads(place))
<1>1. CASE place.page = "landing"
  <2>1. Leads(place) = IF session THEN At("dashboard") ELSE place
    BY <1>1, ReturningPage DEF Leads
  <2>2. QED
    BY <2>1, KnownPlaces, InsideIsFitting
<1>2. CASE place.page = "login"
  <2>1. Leads(place) = IF session THEN normalizeNextPath(place.next) ELSE place
    BY <1>2, ReturningPage DEF Leads
  <2>2. QED
    BY <1>2, <2>1, PlaceShape, NextIsAPlace, InsideIsFitting
<1>3. CASE place.page = "onboarding"
  <2>1. Leads(place) = OnboardingPage(place)
    BY <1>3, ReturningPage DEF Leads
  <2>2. QED
    BY <2>1, KnownPlaces, InsideIsFitting DEF OnboardingPage
<1>4. CASE place.page = "authorize"
  <2>1. Leads(place) = AuthorizePage(place)
    BY <1>4, ReturningPage DEF Leads
  <2>2. ~Unproven(place.ask) => Fitting(Callback(place.ask, "error"))
    BY DEF Fitting, Callback
  <2>3. QED
    BY <2>1, <2>2, InsideIsFitting DEF AuthorizePage
<1>5. CASE place \in Returning
  <2>1. place.page \notin {"landing", "login", "onboarding", "authorize", "project"}
    BY <1>5, ReturningPage
  <2>2. Leads(place) = requireSessionUser(place, place)
    BY <1>5, <2>1 DEF Leads
  <2>3. QED
    BY <2>2, UserIsFitting
<1>6. CASE place.page = "project" /\ place \notin Returning
  <2>1. Leads(place) = requireSessionUser(Absent, place)
    BY <1>6 DEF Leads
  <2>2. QED
    BY <2>1, UserIsFitting
<1>7. CASE place.page \in {"google", "callback", "legal"} /\ place \notin Returning
  BY <1>7 DEF Leads
<1>8. QED
  BY <1>1, <1>2, <1>3, <1>4, <1>5, <1>6, <1>7, PlaceShape

LEMMA SendingBinds ==
    ASSUME VisitTypeOK, Bound, NEW p \in Panes, NEW to \in Anywhere, Load(p, to) \/ Follow(p, to),
           UNCHANGED oauthClient, Fitting(to)
    PROVE  Bound'
<1>1. Sends(p, to)
  BY SendingTypes
<1>2. Fitting(to)'
  BY DEF Fitting, Unproven
<1>3. ASSUME NEW q \in Panes, q # p PROVE Fitting(pane[q].at)'
  <2>1. pane'[q] = pane[q] /\ Fitting(pane[q].at)
    BY <1>1, <1>3 DEF Sends, Bound
  <2>2. QED
    BY <2>1 DEF Fitting, Unproven
<1>4. pane'[p].at = to
  BY <1>1 DEF Sends
<1>5. Fitting(pane[p].at)'
  BY <1>2, <1>4 DEF Fitting, Unproven
<1>6. QED
  BY <1>3, <1>5 DEF Bound

\* The tabs stay where they are, whoever the client is, or the client stays and there is none.
LEMMA StayingBinds ==
    ASSUME Bound, \A p \in Panes : pane'[p].at = pane[p].at, UNCHANGED oauthClient \/ oauthClient = Absent
    PROVE  Bound'
<1>1. CASE UNCHANGED oauthClient
  BY <1>1 DEF Bound, Fitting, Unproven
<1>2. CASE oauthClient = Absent
  <2>1. \A p \in Panes : pane[p].at.page # "callback"
    BY <1>2 DEF Bound, Fitting, Unproven
  <2>2. QED
    BY <2>1 DEF Bound, Fitting
<1>3. QED
  BY <1>1, <1>2

-----------------------------------------------------------------------------
(* The browser *)

LEMMA BrowserBinds ==
    ASSUME VisitIInv, Bound, VisitNext
    PROVE  Bound' /\ UNCHANGED oauthClient
<1>0. VisitTypeOK /\ \A p \in Panes : pane[p].at \in Anywhere
  BY DEF VisitIInv, VisitTypeOK, Pane
<1>1. CASE SessionEnds
  BY <1>1, StayingBinds DEF SessionEnds
<1>2. ASSUME NEW p \in Panes, Serve(p) PROVE Bound' /\ UNCHANGED oauthClient
  <2> DEFINE place == pane[p].at
  <2>1. place \in Anywhere /\ Fitting(place) /\ UNCHANGED oauthClient
    BY <1>0, <1>2 DEF Bound, Serve
  <2>2. CASE Leads(place) = place
    <3>1. \A q \in Panes : pane'[q].at = pane[q].at
      BY <1>0, <1>2, <2>2 DEF Serve, VisitTypeOK, Pane
    <3>2. QED
      BY <2>1, <3>1, StayingBinds
  <2>3. CASE Leads(place) # place
    <3>1. Follow(p, Leads(place)) /\ Leads(place) \in Anywhere /\ Fitting(Leads(place))
      BY <1>2, <2>1, <2>3, LeadsAnywhere, LeadsFitting DEF Serve
    <3>2. QED
      BY <1>0, <2>1, <3>1, SendingBinds
  <2>4. QED
    BY <2>2, <2>3
<1>3. ASSUME NEW p \in Panes, NEW to \in Anywhere, to.page # "callback", Load(p, to) \/ Follow(p, to),
             UNCHANGED oauthClient
      PROVE  Bound'
  BY <1>0, <1>3, SendingBinds DEF Fitting
<1>4. \A place \in Places : place \in Anywhere /\ place.page # "callback"
  BY KnownPlaces, InsideIsFitting
<1>5. \A next : Login(next).page = "login" /\ Google(next).page = "google"
  BY DEF Login, Google
<1>6. ASSUME NEW p \in Panes, PressGoogle(p) PROVE Bound' /\ UNCHANGED oauthClient
  <2>1. pane[p].at.next \in Nexts
    BY <1>0, <1>6, PlaceShape DEF PressGoogle, Shows
  <2>2. Google(normalizeNextPath(pane[p].at.next)) \in Anywhere
    BY <2>1, NextIsAPlace, KnownPlaces
  <2>3. QED
    BY <1>3, <1>5, <1>6, <2>2 DEF PressGoogle
<1>7. ASSUME NEW p \in Panes, GoogleReturns(p) PROVE Bound' /\ UNCHANGED oauthClient
  <2>1. pane[p].at.next \in Places
    BY <1>0, <1>7, PlaceShape DEF GoogleReturns
  <2>2. QED
    BY <1>3, <1>4, <1>7, <2>1 DEF GoogleReturns
<1>8. ASSUME NEW p \in Panes, NEW fresh \in BOOLEAN, DevLogin(p, fresh) PROVE Bound' /\ UNCHANGED oauthClient
  <2>1. pane[p].at.next \in Nexts
    BY <1>0, <1>8, PlaceShape DEF DevLogin, Shows
  <2>2. normalizeNextPath(pane[p].at.next) \in Places /\ At("dashboard") \in Places
    BY <2>1, NextIsAPlace, KnownPlaces
  <2>3. PICK to \in Places : Load(p, to) \/ Follow(p, to)
    BY <1>8, <2>2 DEF DevLogin
  <2>4. QED
    BY <1>3, <1>4, <1>8, <2>3 DEF DevLogin
<1>9. ASSUME NEW p \in Panes, SignOut(p) PROVE Bound' /\ UNCHANGED oauthClient
  BY <1>3, <1>4, <1>9, KnownPlaces DEF SignOut
<1>10. ASSUME NEW p \in Panes, NEW locale \in Locales, ChooseLanguage(p, locale) \/ UpdateLocale(p, locale)
       PROVE  Bound' /\ UNCHANGED oauthClient
  <2>1. CASE ChooseLanguage(p, locale)
    <3>1. PICK to \in Anywhere : to.page # "callback" /\ (Load(p, to) \/ Follow(p, to))
      BY <1>4, <1>5, <2>1, KnownPlaces DEF ChooseLanguage
    <3>2. QED
      BY <1>3, <2>1, <3>1 DEF ChooseLanguage
  <2>2. CASE UpdateLocale(p, locale)
    <3> DEFINE to == requireSessionUser(At("settings"), At("settings"))
    <3>1. to \in Anywhere /\ to.page # "callback"
      BY <1>4, <1>5, KnownPlaces DEF requireSessionUser
    <3>2. Follow(p, to) /\ UNCHANGED oauthClient
      BY <2>2 DEF UpdateLocale
    <3>3. QED
      BY <1>3, <3>1, <3>2
  <2>3. QED
    BY <1>10, <2>1, <2>2
<1>11. ASSUME NEW p \in Panes, NEW place \in browser.opens, Open(p, place)
       PROVE  Bound' /\ UNCHANGED oauthClient
  <2>1. place \in Places \cup {Login(next) : next \in Nexts}
    BY <1>0, <1>11, VisitAssumption DEF VisitTypeOK, Browser
  <2>2. place \in Anywhere /\ place.page # "callback"
    BY <1>4, <1>5, <2>1 DEF Anywhere
  <2>3. QED
    BY <1>3, <1>11, <2>2 DEF Open
<1>12. QED
  BY <1>1, <1>2, <1>6, <1>7, <1>8, <1>9, <1>10, <1>11, StayingBinds DEF VisitNext, SessionEnds

-----------------------------------------------------------------------------
(* The client *)

\* A step that makes no code and no token.
LEMMA VouchedStays ==
    ASSUME Vouched, UNCHANGED <<code, agreed>>, UNCHANGED issued \/ issued' = Absent
    PROVE  Vouched'
  BY DEF Vouched

LEMMA BrowseKeeps ==
    ASSUME ConnectIInv, Browse
    PROVE  Bound' /\ Vouched' /\ Standing'
<1>1. VisitNext /\ UNCHANGED agreed
  BY DEF Browse
<1>2. Bound' /\ UNCHANGED oauthClient
  BY <1>1, BrowserBinds DEF ConnectIInv
<1>3. CASE code' = [n \in 1..MaxAttempts |-> Absent] /\ issued' = Absent /\ app' = [app EXCEPT !.fault = TRUE]
  <2>1. Vouched'
    BY <1>3 DEF Vouched
  <2>2. Standing'
    BY <1>2, <1>3 DEF ConnectIInv, Standing
  <2>3. QED
    BY <1>2, <2>1, <2>2
<1>4. CASE UNCHANGED <<code, issued, app>>
  <2>1. Vouched'
    BY <1>1, <1>4, VouchedStays DEF ConnectIInv
  <2>2. Standing'
    BY <1>2, <1>4 DEF ConnectIInv, Standing
  <2>3. QED
    BY <1>2, <2>1, <2>2
<1>5. QED
  BY <1>3, <1>4 DEF Browse

LEMMA DiscoveryKeeps ==
    ASSUME ConnectIInv,
           \/ Challenged \/ ReadResourceMetadata \/ ReadServerMetadata \/ Call
           \/ \E metadata \in Metadata : Register(metadata)
           \/ \E p \in Panes : ReceiveCallback(p)
    PROVE  Bound' /\ Vouched' /\ Standing'
<1>1. Bound /\ Vouched /\ Standing
  BY DEF ConnectIInv
<1>2. CASE Challenged
  <2>1. UNCHANGED <<visitVars, code, issued, agreed>> /\ Standing'
    BY <1>1, <1>2 DEF Challenged, Is, Standing, visitVars
  <2>2. QED
    BY <1>1, <2>1, StayingBinds, VouchedStays DEF visitVars
<1>3. CASE ReadResourceMetadata
  <2>1. UNCHANGED <<visitVars, code, issued, agreed>> /\ Standing'
    BY <1>1, <1>3 DEF ReadResourceMetadata, Is, Standing, visitVars
  <2>2. QED
    BY <1>1, <2>1, StayingBinds, VouchedStays DEF visitVars
<1>4. CASE ReadServerMetadata
  <2>1. UNCHANGED <<visitVars, code, issued, agreed>> /\ Standing'
    BY <1>1, <1>4 DEF ReadServerMetadata, Is, Standing, visitVars
  <2>2. QED
    BY <1>1, <2>1, StayingBinds, VouchedStays DEF visitVars
<1>5. CASE Call
  <2>1. UNCHANGED <<visitVars, code, issued, agreed>> /\ Standing'
    BY <1>1, <1>5 DEF Call, Goes, Is, Standing, visitVars
  <2>2. QED
    BY <1>1, <2>1, StayingBinds, VouchedStays DEF visitVars
<1>6. ASSUME NEW metadata \in Metadata, Register(metadata) PROVE Bound' /\ Vouched' /\ Standing'
  <2>1. oauthClient = Absent /\ UNCHANGED <<pane, code, issued, agreed>>
    BY <1>1, <1>6 DEF Register, Is, Standing
  <2>2. Standing'
    BY <1>1, <1>6 DEF Register, Standing
  <2>3. QED
    BY <1>1, <2>1, <2>2, StayingBinds, VouchedStays
<1>7. ASSUME NEW p \in Panes, ReceiveCallback(p) PROVE Bound' /\ Vouched' /\ Standing'
  <2>1. UNCHANGED <<visitVars, code, issued, agreed>> /\ app.step = "asking"
    BY <1>7 DEF ReceiveCallback, Is
  <2>2. /\ {"step", "ask"} \subseteq DOMAIN app' /\ app'.ask = app.ask
        /\ app'.step \in {"denied", "stopped", "code"}
    BY <1>1, <1>7 DEF ReceiveCallback, Standing
  <2>3. Standing'
    BY <1>1, <2>1, <2>2 DEF Standing, visitVars
  <2>4. QED
    BY <1>1, <2>1, <2>3, StayingBinds, VouchedStays DEF visitVars
<1>8. QED
  BY <1>2, <1>3, <1>4, <1>5, <1>6, <1>7

\* The client sends a tab to the authorization page.
LEMMA AskingKeeps ==
    ASSUME ConnectIInv, NEW p \in Panes, NEW ask \in Asks, SendBrowser(p, ask)
    PROVE  Bound' /\ Vouched' /\ Standing'
<1>1. VisitTypeOK /\ Bound /\ Vouched /\ Standing
  BY DEF ConnectIInv, VisitIInv
<1>2. Load(p, Authorize(ask)) /\ UNCHANGED <<oauthClient, code, issued, agreed>>
  BY DEF SendBrowser, stores
<1>3. Authorize(ask) \in Anywhere /\ Fitting(Authorize(ask))
  BY KnownPlaces, InsideIsFitting DEF Places
<1>4. Bound'
  BY <1>1, <1>2, <1>3, SendingBinds
<1>5. Standing'
  <2>1. app' = [app EXCEPT !.step = "asking", !.ask = ask, !.attempts = @ + 1]
    BY DEF SendBrowser
  <2>2. app'.step = "asking" /\ app'.ask = ask /\ {"step", "ask"} \subseteq DOMAIN app'
    BY <1>1, <2>1 DEF Standing
  <2>3. QED
    BY <2>2 DEF Standing
<1>6. QED
  BY <1>1, <1>2, <1>4, <1>5, VouchedStays

\* A decision sends the tab to the address of the request that the page showed.
LEMMA DecisionBinds ==
    ASSUME ConnectIInv, NEW p \in Panes, NEW decision \in Answers, Decide(p, decision)
    PROVE  Bound' /\ UNCHANGED oauthClient /\ pane[p].at.ask \in Asks
<1> DEFINE place == pane[p].at
           to == requireSessionUser(Absent, place)
<1>1. VisitTypeOK /\ Bound /\ UNCHANGED oauthClient
  BY DEF ConnectIInv, VisitIInv, Decide
<1>2. place \in Anywhere /\ place.page = "authorize" /\ ~Unproven(place.ask)
  BY <1>1 DEF Decide, Consents, Shows, VisitTypeOK, Pane
<1>3. place.ask \in Asks
  BY <1>2, PlaceShape
<1>4. Callback(place.ask, decision) \in Anywhere /\ Fitting(Callback(place.ask, decision))
  BY <1>2, <1>3 DEF Anywhere, Fitting, Callback
<1>5. to \in Anywhere /\ Fitting(to)
  <2>1. Fitting(place)
    BY <1>2 DEF Fitting
  <2>2. Fitting(to)
    BY <2>1, UserIsFitting
  <2>3. QED
    BY <1>2, <2>2, KnownPlaces DEF requireSessionUser
<1>6. PICK there \in Anywhere : Fitting(there) /\ Follow(p, there)
  BY <1>2, <1>4, <1>5 DEF Decide
<1>7. QED
  BY <1>1, <1>3, <1>6, SendingBinds

\* An approval makes a code of what it agrees to.
LEMMA ApprovalKeeps ==
    ASSUME ConnectIInv, NEW p \in Panes, ApproveAuthorization(p)
    PROVE  Bound' /\ Vouched' /\ Standing'
<1> DEFINE ask == pane[p].at.ask
           new == NewCode(ask)
           agreement == [challenge |-> ask.challenge, uri |-> ask.uri, resource |-> new.resource,
                         scope |-> normalizeScope(ask.scope)]
<1>1. Vouched /\ Standing
  BY DEF ConnectIInv
<1>2. Bound' /\ UNCHANGED oauthClient /\ ask \in Asks
  BY DecisionBinds DEF ApproveAuthorization, Answers
<1>3. CASE Decided(p)
  <2>1. /\ code' = [code EXCEPT ![ask.challenge] = new]
        /\ agreed' = agreed \cup {agreement}
        /\ issued' = issued \/ issued' = Absent
        /\ app'.step = app.step /\ app'.ask = app.ask /\ {"step", "ask"} \subseteq DOMAIN app'
    BY <1>1, <1>3 DEF ApproveAuthorization, Standing
  <2>2. new = [uri |-> agreement.uri, consumed |-> FALSE, scope |-> agreement.scope,
               resource |-> agreement.resource]
    BY DEF NewCode
  <2>3. agreement.challenge = ask.challenge /\ ask.challenge \in 1..MaxAttempts
    BY <1>2, ConnectAssumption
  <2> HIDE DEF agreement, new
  <2>4. ASSUME NEW n \in 1..MaxAttempts, code'[n] # Absent
        PROVE  \E a \in agreed' : Agrees(code'[n], n, a)
    <3>1. CASE n = ask.challenge
      <4>1. code'[n] = new
        BY <1>1, <2>1, <3>1 DEF Vouched
      <4>2. QED
        BY <2>1, <2>2, <2>3, <3>1, <4>1 DEF Agrees
    <3>2. CASE n # ask.challenge
      <4>1. code'[n] = code[n]
        BY <1>1, <2>1, <3>2 DEF Vouched
      <4>2. PICK a \in agreed : Agrees(code[n], n, a)
        BY <1>1, <2>4, <4>1 DEF Vouched
      <4>3. QED
        BY <2>1, <4>1, <4>2
    <3>3. QED
      BY <3>1, <3>2
  <2>5. DOMAIN code' = 1..MaxAttempts
    BY <1>1, <2>1 DEF Vouched
  <2>6. issued' # Absent =>
           \E a \in agreed' : a.challenge = issued'.challenge /\ a.scope = issued'.scope /\ a.resource = issued'.resource
    BY <1>1, <2>1 DEF Vouched
  <2>7. Vouched'
    BY <2>4, <2>5, <2>6 DEF Vouched
  <2>8. Standing'
    BY <1>1, <1>2, <2>1 DEF Standing
  <2>9. QED
    BY <1>2, <2>7, <2>8
<1>4. CASE ~Decided(p)
  <2>1. UNCHANGED <<code, agreed, issued, app>>
    BY <1>4 DEF ApproveAuthorization
  <2>2. Standing'
    BY <1>1, <1>2, <2>1 DEF Standing
  <2>3. QED
    BY <1>1, <1>2, <2>1, <2>2, VouchedStays
<1>5. QED
  BY <1>3, <1>4

LEMMA DenialKeeps ==
    ASSUME ConnectIInv, NEW p \in Panes, DenyAuthorization(p)
    PROVE  Bound' /\ Vouched' /\ Standing'
<1>1. Bound' /\ UNCHANGED <<oauthClient, code, issued, agreed, app>>
  BY DecisionBinds DEF DenyAuthorization, Answers
<1>2. Standing'
  BY <1>1 DEF ConnectIInv, Standing
<1>3. QED
  BY <1>1, <1>2, VouchedStays DEF ConnectIInv

-----------------------------------------------------------------------------
(* The token endpoint *)

\* An exchange gives what the code was made of.
LEMMA ExchangeKeeps ==
    ASSUME ConnectIInv, NEW uri, NEW verifier, NEW resource, Exchange(uri, verifier, resource)
    PROVE  Bound' /\ Vouched' /\ Standing'
<1> DEFINE n == app.ask.challenge
           token == RedeemedCode(code[n], uri, verifier, n, resource)
<1>1. Bound /\ Vouched /\ Standing
  BY DEF ConnectIInv
<1>2. /\ app.step = "code" /\ code[n] # Absent
      /\ code' = [code EXCEPT ![n].consumed = TRUE]
      /\ issued' = (IF token = Absent THEN issued ELSE token)
      /\ UNCHANGED <<oauthClient, agreed, pane>>
  BY DEF Exchange, Is, visitVars
<1>3. n \in 1..MaxAttempts
  BY <1>1, <1>2, ConnectAssumption DEF Standing
<1>4. PICK a \in agreed : Agrees(code[n], n, a)
  BY <1>1, <1>2, <1>3 DEF Vouched
<1>5. token = Absent \/ token = [challenge |-> n, scope |-> a.scope, resource |-> a.resource]
  BY <1>4 DEF RedeemedCode, Agrees
<1> HIDE DEF token
<1>6. issued' # Absent =>
         \E b \in agreed' : b.challenge = issued'.challenge /\ b.scope = issued'.scope /\ b.resource = issued'.resource
  <2>1. CASE issued' = issued
    BY <1>1, <1>2, <2>1 DEF Vouched
  <2>2. CASE issued' = [challenge |-> n, scope |-> a.scope, resource |-> a.resource]
    <3>1. a.challenge = issued'.challenge /\ a.scope = issued'.scope /\ a.resource = issued'.resource
      BY <1>4, <2>2 DEF Agrees
    <3>2. QED
      BY <1>2, <3>1
  <2>3. QED
    BY <1>2, <1>5, <2>1, <2>2
<1>7. ASSUME NEW m \in 1..MaxAttempts, code'[m] # Absent
      PROVE  \E b \in agreed' : Agrees(code'[m], m, b)
  <2>1. CASE m = n
    <3>1. code'[m] = [code[n] EXCEPT !.consumed = TRUE]
      BY <1>1, <1>2, <1>3, <2>1 DEF Vouched
    <3>2. Agrees(code'[m], m, a)
      BY <1>4, <2>1, <3>1 DEF Agrees
    <3>3. QED
      BY <1>2, <3>2
  <2>2. CASE m # n
    <3>1. code'[m] = code[m]
      BY <1>1, <1>2, <2>2 DEF Vouched
    <3>2. PICK b \in agreed : Agrees(code[m], m, b)
      BY <1>1, <1>7, <3>1 DEF Vouched
    <3>3. QED
      BY <1>2, <3>1, <3>2
  <2>3. QED
    BY <2>1, <2>2
<1>8. DOMAIN code' = 1..MaxAttempts
  BY <1>1, <1>2 DEF Vouched
<1>9. Vouched'
  BY <1>6, <1>7, <1>8 DEF Vouched
<1>10. /\ {"step", "ask"} \subseteq DOMAIN app' /\ app'.ask = app.ask
       /\ app'.step \in {"stopped", "token"}
  BY <1>1 DEF Exchange, Standing
<1>11. Standing'
  BY <1>10 DEF Standing
<1>12. QED
  BY <1>1, <1>2, <1>9, <1>11, StayingBinds

-----------------------------------------------------------------------------
(* The invariant *)

LEMMA ConnectInitial == ConnectInit => ConnectIInv
<1> SUFFICES ASSUME ConnectInit PROVE ConnectIInv
  OBVIOUS
<1>1. VisitIInv
  BY VisitInitial
<1>2. Bound
  <2>1. \A p \in Panes : pane[p].at = Landing("any")
    BY DEF ConnectInit, VisitInit
  <2>2. Fitting(Landing("any"))
    BY KnownPlaces, InsideIsFitting
  <2>3. QED
    BY <2>1, <2>2 DEF Bound
<1>3. Vouched
  BY DEF ConnectInit, Vouched
<1>4. Standing
  BY DEF ConnectInit, Standing
<1>5. QED
  BY <1>1, <1>2, <1>3, <1>4 DEF ConnectIInv

LEMMA ConnectStep == ConnectIInv /\ [ConnectNext]_connectVars => ConnectIInv'
<1> SUFFICES ASSUME ConnectIInv, [ConnectNext]_connectVars PROVE ConnectIInv'
  OBVIOUS
<1>1. VisitIInv'
  BY ConnectKeeps DEF ConnectIInv
<1>2. CASE UNCHANGED connectVars
  BY <1>1, <1>2 DEF ConnectIInv, connectVars, Bound, Fitting, Unproven, Vouched, Standing
<1>3. CASE Browse
  BY <1>1, <1>3, BrowseKeeps DEF ConnectIInv
<1>4. CASE \/ Challenged \/ ReadResourceMetadata \/ ReadServerMetadata \/ Call
           \/ \E metadata \in Metadata : Register(metadata)
           \/ \E p \in Panes : ReceiveCallback(p)
  BY <1>1, <1>4, DiscoveryKeeps DEF ConnectIInv
<1>5. ASSUME NEW p \in Panes,
             (\E ask \in Asks : SendBrowser(p, ask)) \/ ApproveAuthorization(p) \/ DenyAuthorization(p)
      PROVE  ConnectIInv'
  BY <1>1, <1>5, AskingKeeps, ApprovalKeeps, DenialKeeps DEF ConnectIInv
<1>6. ASSUME NEW uri, NEW verifier, NEW resource, Exchange(uri, verifier, resource) PROVE ConnectIInv'
  BY <1>1, <1>6, ExchangeKeeps DEF ConnectIInv
<1>7. QED
  BY <1>2, <1>3, <1>4, <1>5, <1>6 DEF ConnectNext

\* Codes and errors go to registered addresses alone, and a token has the scope and the
\* audience somebody approved for that request: for any requests that clients make, whatever
\* they send to the token endpoint, and however the tabs are used meanwhile.
THEOREM TokenIsConsentedTo == ConnectSpec => []ConsentBinds
<1>1. ConnectIInv => ConsentBinds
  BY DEF ConnectIInv, Bound, Fitting, Vouched, ConsentBinds
<1>2. QED
  BY <1>1, ConnectInitial, ConnectStep, PTL DEF ConnectSpec

-----------------------------------------------------------------------------
(* Where redirects end *)

\* Where an onboarded user who is at a place ends up, once through Google.
Aim(place) == IF place.page = "google" THEN Due(place.next) ELSE Due(place)

\* A tab on whose way nothing was dropped is on its way to what was asked for, or outside.
OnTrack ==
    \A p \in Panes : ~pane[p].dropped => pane[p].at.page = "callback" \/ Aim(pane[p].at) = Due(pane[p].wish)

LEMMA LeadsByPage ==
    ASSUME NEW place \in Anywhere
    PROVE  /\ place.page = "landing" => Leads(place) = IF session THEN At("dashboard") ELSE place
           /\ place.page = "login" => Leads(place) = IF session THEN normalizeNextPath(place.next) ELSE place
           /\ place.page = "onboarding" => Leads(place) = OnboardingPage(place)
           /\ place.page = "authorize" => Leads(place) = AuthorizePage(place)
           /\ place \in Returning => Leads(place) = requireSessionUser(place, place)
           /\ place.page = "project" => Leads(place) = requireSessionUser(Absent, place)
           /\ place.page \in {"google", "callback", "legal"} => Leads(place) = place
<1>1. place \in Returning => place.page \in {"dashboard", "projects", "settings", "admin"}
  BY ReturningPage
<1>2. CASE place \in Returning
  BY <1>1, <1>2 DEF Leads
<1>3. CASE place.page = "landing"
  BY <1>1, <1>3 DEF Leads
<1>4. CASE place.page = "login"
  BY <1>1, <1>4 DEF Leads
<1>5. CASE place.page = "onboarding"
  BY <1>1, <1>5 DEF Leads
<1>6. CASE place.page = "authorize"
  BY <1>1, <1>6 DEF Leads
<1>7. CASE place.page = "project"
  BY <1>1, <1>7 DEF Leads
<1>8. CASE place.page \in {"google", "callback", "legal"}
  BY <1>1, <1>8 DEF Leads
<1>9. QED
  BY <1>2, <1>3, <1>4, <1>5, <1>6, <1>7, <1>8

LEMMA PagesOf ==
    /\ \A page : At(page).page = page
    /\ \A lang : Landing(lang).page = "landing"
    /\ \A step : Onboarding(step).page = "onboarding" /\ Onboarding(step).step = step
    /\ \A ask : Authorize(ask).page = "authorize" /\ Authorize(ask).ask = ask
    /\ \A ask, answer : Callback(ask, answer).page = "callback" /\ Callback(ask, answer).ask = ask
    /\ \A next : Login(next).page = "login" /\ Login(next).next = next
    /\ \A next : Google(next).page = "google" /\ Google(next).next = next
BY DEF At, Landing, Onboarding, Authorize, Callback, Login, Google

LEMMA DashboardReturns == At("dashboard") \in Returning /\ At("settings") \in Returning
BY DEF Returning

LEMMA OnboardingIsStep == ASSUME NEW place \in Places, place.page = "onboarding"
                          PROVE place = Onboarding(place.step)
BY DEF Places, Returning, At, Landing, Onboarding, Authorize

LEMMA InsidePages == \A place \in Places : place.page \notin {"google", "login", "callback"}
BY DEF Places, Returning, At, Landing, Onboarding, Authorize

\* What is due for a place inside, and for a login that leads to one.
LEMMA DueInside ==
    /\ \A place \in Places : Due(place) = IF place.page = "landing" \/ place = Onboarding(1)
                                          THEN At("dashboard") ELSE place
    /\ \A next \in Nexts : Due(Login(next)) = Due(normalizeNextPath(next))
<1>1. \A place \in Places : Due(place) = IF place.page = "landing" \/ place = Onboarding(1)
                                          THEN At("dashboard") ELSE place
  BY InsidePages DEF Due
<1>2. ASSUME NEW next \in Nexts PROVE Due(Login(next)) = Due(normalizeNextPath(next))
  <2>1. normalizeNextPath(next) \in Places
    BY NextIsAPlace
  <2>2. normalizeNextPath(next).page # "login"
    BY <2>1, InsidePages
  <2>3. QED
    BY <2>2, PagesOf DEF Due
<1>3. QED
  BY <1>1, <1>2

LEMMA AimInside ==
    /\ \A place \in Places : Aim(place) = Due(place)
    /\ \A next \in Nexts : Aim(Login(next)) = Due(normalizeNextPath(next))
    /\ \A next \in Places : Aim(Google(next)) = Due(next) /\ Aim(Login(next)) = Due(next)
<1>1. \A next \in Places : next \in Nexts /\ normalizeNextPath(next) = next
  <2>1. At("elsewhere") \notin Places
    BY DEF Places, Returning, At, Landing, Onboarding, Authorize
  <2>2. QED
    BY <2>1, VisitAssumption DEF Nexts, normalizeNextPath
<1>2. QED
  BY <1>1, InsidePages, PagesOf, DueInside DEF Aim

\* A visitor without a session comes to a page at once.
LEMMA VisitorSettles == ASSUME NEW place \in Anywhere, ~session PROVE Leads(Leads(place)) = Leads(place)
<1>1. Leads(place) \in Anywhere
  BY LeadsAnywhere
<1>2. Leads(place) = place \/ Leads(place).page \in {"login", "callback"}
  <2>1. CASE place.page \in {"landing", "login", "google", "callback", "legal"}
    BY <2>1, LeadsByPage
  <2>2. CASE place.page = "onboarding"
    BY <2>2, LeadsByPage, PagesOf DEF OnboardingPage
  <2>3. CASE place.page = "authorize"
    BY <2>3, LeadsByPage, PagesOf DEF AuthorizePage
  <2>4. CASE place.page = "project" \/ place \in Returning
    BY <2>4, LeadsByPage, PagesOf DEF requireSessionUser
  <2>5. QED
    BY <2>1, <2>2, <2>3, <2>4, PlaceShape
<1>3. QED
  BY <1>1, <1>2, LeadsByPage

\* A member who is not onboarded comes to a page in two redirects.
LEMMA NewcomerSettles ==
    ASSUME NEW place \in Places, session, ~account.onboarded
    PROVE  Leads(Leads(Leads(place))) = Leads(Leads(place))
<1>0. /\ place \in Anywhere /\ Onboarding(1) \in Anywhere /\ At("dashboard") \in Anywhere
      /\ At("dashboard") \in Returning
  BY KnownPlaces, DashboardReturns
<1>1. Leads(Onboarding(1)) = Onboarding(1)
  BY <1>0, LeadsByPage, PagesOf DEF OnboardingPage
<1>2. Leads(At("dashboard")) = Onboarding(1)
  BY <1>0, LeadsByPage DEF requireSessionUser
<1>3. Leads(place) \in {place, Onboarding(1), At("dashboard")} \/ Leads(place).page = "callback"
  <2>1. CASE place.page \in {"landing", "legal"}
    BY <1>0, <2>1, LeadsByPage
  <2>2. CASE place.page = "onboarding"
    BY <1>0, <2>2, LeadsByPage DEF OnboardingPage
  <2>3. CASE place.page = "authorize"
    BY <1>0, <2>3, LeadsByPage, PagesOf DEF AuthorizePage
  <2>4. CASE place.page = "project" \/ place \in Returning
    BY <1>0, <2>4, LeadsByPage DEF requireSessionUser
  <2>5. QED
    BY <1>0, <2>1, <2>2, <2>3, <2>4, PlaceShape, InsidePages
<1>4. Leads(place).page = "callback" => Leads(Leads(place)) = Leads(place)
  BY <1>0, LeadsAnywhere, LeadsByPage
<1>5. QED
  BY <1>1, <1>2, <1>3, <1>4

\* An onboarded one comes to the page that is due in one, or leaves the site.
LEMMA MemberSettles ==
    ASSUME NEW place \in Places, session, account.onboarded
    PROVE  /\ Leads(Leads(place)) = Leads(place)
           /\ Leads(place).page = "callback" \/ Leads(place) = Due(place)
<1>0. /\ place \in Anywhere /\ At("dashboard") \in Anywhere /\ At("dashboard") \in Returning
  BY KnownPlaces, DashboardReturns
<1>1. Leads(At("dashboard")) = At("dashboard")
  BY <1>0, LeadsByPage DEF requireSessionUser
<1>2. Leads(place).page = "callback" => Leads(Leads(place)) = Leads(place)
  BY <1>0, LeadsAnywhere, LeadsByPage
<1>3. CASE place.page \in {"landing", "legal"}
  BY <1>0, <1>1, <1>3, LeadsByPage, PagesOf, DueInside
<1>4. CASE place.page = "onboarding"
  <2>1. place = Onboarding(place.step)
    BY <1>4, OnboardingIsStep
  <2>2. Leads(place) = IF place.step = 1 THEN At("dashboard") ELSE place
    BY <1>0, <1>4, LeadsByPage DEF OnboardingPage
  <2>3. place = Onboarding(1) <=> place.step = 1
    BY <2>1, PagesOf
  <2>4. QED
    BY <1>1, <1>4, <2>2, <2>3, DueInside
<1>5. CASE place.page = "authorize"
  <2>1. Leads(place) = place \/ Leads(place).page = "callback"
    BY <1>0, <1>5, LeadsByPage, PagesOf DEF AuthorizePage
  <2>2. Due(place) = place
    BY <1>5, DueInside, PagesOf
  <2>3. QED
    BY <1>2, <2>1, <2>2
<1>6. CASE place.page = "project" \/ place \in Returning
  <2>1. Leads(place) = place
    BY <1>0, <1>6, LeadsByPage DEF requireSessionUser
  <2>2. Due(place) = place
    BY <1>6, DueInside, PagesOf, ReturningPage
  <2>3. QED
    BY <2>1, <2>2
<1>7. QED
  BY <1>0, <1>3, <1>4, <1>5, <1>6, PlaceShape, InsidePages

\* Whoever asks for whatever comes to a page in three redirects.
LEMMA RedirectsEnd ==
    ASSUME NEW place \in Anywhere, session => account.onboarded \in BOOLEAN
    PROVE  Leads(Ends(place)) = Ends(place)
<1>1. CASE ~session
  BY <1>1, VisitorSettles DEF Ends
<1>2. CASE session
  <2>1. ASSUME NEW inside \in Places PROVE Leads(Leads(Leads(inside))) = Leads(Leads(inside))
    BY <1>2, <2>1, NewcomerSettles, MemberSettles
  <2>2. CASE place.page = "login"
    <3>1. Leads(place) = normalizeNextPath(place.next) /\ normalizeNextPath(place.next) \in Places
      BY <1>2, <2>2, LeadsByPage, PlaceShape, NextIsAPlace
    <3>2. QED
      BY <2>1, <3>1 DEF Ends
  <2>3. CASE place.page \in {"google", "callback"}
    BY <2>3, LeadsByPage DEF Ends
  <2>4. CASE place \in Places
    BY <2>1, <2>4 DEF Ends
  <2>5. QED
    BY <2>2, <2>3, <2>4, PagesOf DEF Anywhere
<1>3. QED
  BY <1>1, <1>2

\* For a member it is what the tab was on its way to.
LEMMA RedirectsAim ==
    ASSUME NEW place \in Anywhere, session, account.onboarded,
           place.page # "callback", Ends(place).page \notin {"callback", "google"}
    PROVE  Ends(place) = Aim(place)
<1>1. ASSUME NEW inside \in Places
      PROVE  /\ Leads(Leads(inside)) = Leads(inside)
             /\ Leads(inside).page = "callback" \/ Leads(inside) = Due(inside)
  BY MemberSettles
<1>2. CASE place \in Places
  BY <1>1, <1>2, AimInside DEF Ends
<1>3. CASE place.page = "login"
  <2>1. Leads(place) = normalizeNextPath(place.next) /\ normalizeNextPath(place.next) \in Places
    BY <1>3, LeadsByPage, PlaceShape, NextIsAPlace
  <2>2. Aim(place) = Due(normalizeNextPath(place.next))
    BY <1>3, <2>1, InsidePages DEF Aim, Due
  <2>3. QED
    BY <1>1, <2>1, <2>2 DEF Ends
<1>4. CASE place.page = "google"
  BY <1>4, LeadsByPage DEF Ends
<1>5. QED
  BY <1>2, <1>3, <1>4, PagesOf DEF Anywhere

LEMMA LandsFromTrack == ASSUME VisitIInv, OnTrack PROVE LandsWhereAsked
<1> SUFFICES ASSUME NEW p \in Panes
             PROVE  LET end == Ends(pane[p].at)
                    IN /\ Leads(end) = end
                       /\ (/\ session /\ account.onboarded /\ ~pane[p].shown
                           /\ ~pane[p].dropped /\ end.page \notin {"callback", "google"}) => end = Due(pane[p].wish)
  BY DEF LandsWhereAsked
<1>1. pane[p].at \in Anywhere /\ (session => account.onboarded \in BOOLEAN)
  BY DEF VisitIInv, VisitTypeOK, Membership, Pane, Account
<1>2. Leads(Ends(pane[p].at)) = Ends(pane[p].at)
  BY <1>1, RedirectsEnd
<1>3. ASSUME session, account.onboarded, ~pane[p].dropped, Ends(pane[p].at).page \notin {"callback", "google"}
      PROVE  Ends(pane[p].at) = Due(pane[p].wish)
  <2>1. pane[p].at.page # "callback"
    BY <1>1, <1>3, LeadsByPage DEF Ends
  <2>2. QED
    BY <1>1, <1>3, <2>1, RedirectsAim DEF OnTrack
<1>4. QED
  BY <1>2, <1>3

\* What a redirect from one place to another drops.
Drops(from, to) ==
    \/ to = Login(Absent) \/ (to = Onboarding(1) /\ from.page # "login")
    \/ (to = Login(Onboarding(1)) /\ from # Onboarding(1))

\* It is one on the way, or it leaves the site, or it drops what was asked for.
OnTheWay(from, to) ==
    to \in Anywhere /\ (Drops(from, to) \/ to.page = "callback" \/ (from.page # "callback" /\ Aim(to) = Aim(from)))

LEMMA LoadTracks ==
    ASSUME VisitTypeOK, OnTrack, NEW p \in Panes, NEW to \in Anywhere, to.page # "google", Load(p, to)
    PROVE  OnTrack'
<1>1. /\ \A q \in Panes \ {p} : pane'[q] = pane[q]
      /\ pane'[p].at = to /\ pane'[p].wish = to
  BY DEF Load, VisitTypeOK, Pane
<1>2. Aim(to) = Due(to)
  BY DEF Aim
<1>3. QED
  BY <1>1, <1>2 DEF OnTrack

LEMMA FollowTracks ==
    ASSUME VisitTypeOK, OnTrack, NEW p \in Panes, NEW to, OnTheWay(pane[p].at, to), Follow(p, to)
    PROVE  OnTrack'
<1>1. /\ \A q \in Panes \ {p} : pane'[q] = pane[q]
      /\ pane'[p].at = to /\ pane'[p].wish = pane[p].wish
      /\ pane'[p].dropped = (\/ pane[p].dropped \/ to = Login(Absent)
                              \/ (to = Onboarding(1) /\ pane[p].at.page # "login")
                              \/ (to = Login(Onboarding(1)) /\ pane[p].at # Onboarding(1)))
  BY DEF Follow, VisitTypeOK, Pane
<1>2. ~pane'[p].dropped => ~pane[p].dropped /\ ~Drops(pane[p].at, to)
  BY <1>1, Zenon DEF Drops
<1>3. QED
  BY <1>1, <1>2 DEF OnTrack, OnTheWay

\* Every redirect of a request is one on the way.
LEMMA LeadsOnTheWay ==
    ASSUME NEW place \in Anywhere, Leads(place) # place
    PROVE  OnTheWay(place, Leads(place))
<1>0. Leads(place) \in Anywhere /\ At("dashboard") \in Places /\ Onboarding(1) \in Places
  BY LeadsAnywhere, KnownPlaces
<1>1. CASE place.page = "landing"
  <2>1. Leads(place) = At("dashboard") /\ place \in Places
    BY <1>1, LeadsByPage, PlaceShape
  <2>2. Aim(place) = At("dashboard") /\ Aim(At("dashboard")) = At("dashboard")
    BY <1>0, <1>1, <2>1, AimInside, DueInside, PagesOf
  <2>3. QED
    BY <1>0, <1>1, <2>1, <2>2 DEF OnTheWay
<1>2. CASE place.page = "login"
  <2>1. Leads(place) = normalizeNextPath(place.next) /\ normalizeNextPath(place.next) \in Places
    BY <1>2, LeadsByPage, PlaceShape, NextIsAPlace
  <2>2. Aim(place) = Due(normalizeNextPath(place.next))
    BY <1>2, <2>1, InsidePages DEF Aim, Due
  <2>3. QED
    BY <1>0, <1>2, <2>1, <2>2, AimInside DEF OnTheWay
<1>3. CASE place.page = "onboarding"
  <2>1. Leads(place) = OnboardingPage(place) /\ place \in Places /\ place = Onboarding(place.step)
    BY <1>3, LeadsByPage, PlaceShape, OnboardingIsStep
  <2>2. CASE ~session
    <3>1. Leads(place) = Login(Onboarding(1))
      BY <2>1, <2>2 DEF OnboardingPage
    <3>2. place = Onboarding(1) => Aim(Leads(place)) = Aim(place)
      BY <1>0, <3>1, AimInside
    <3>3. QED
      BY <1>0, <1>3, <3>1, <3>2 DEF OnTheWay, Drops
  <2>3. CASE session
    <3>1. Leads(place) = At("dashboard") /\ place = Onboarding(1)
      BY <2>1, <2>3 DEF OnboardingPage
    <3>2. Aim(place) = At("dashboard") /\ Aim(At("dashboard")) = At("dashboard")
      BY <1>0, <3>1, AimInside, DueInside, PagesOf
    <3>3. QED
      BY <1>0, <1>3, <3>1, <3>2 DEF OnTheWay
  <2>4. QED
    BY <2>2, <2>3
<1>4. CASE place.page = "authorize"
  <2>1. Leads(place) = Callback(place.ask, "error") \/ Leads(place) = Login(place)
    BY <1>4, LeadsByPage DEF AuthorizePage
  <2>2. place \in Places
    BY <1>4, PlaceShape
  <2>3. QED
    BY <1>0, <1>4, <2>1, <2>2, AimInside, PagesOf DEF OnTheWay
<1>5. CASE place \in Returning
  <2>1. Leads(place) = Login(place) \/ Leads(place) = Onboarding(1)
    BY <1>5, LeadsByPage DEF requireSessionUser
  <2>2. place \in Places /\ place.page \notin {"login", "callback"}
    BY <1>5, PlaceShape, ReturningPage
  <2>3. QED
    BY <1>0, <2>1, <2>2, AimInside DEF OnTheWay, Drops
<1>6. CASE place.page = "project"
  <2>1. Leads(place) = Login(Absent) \/ Leads(place) = Onboarding(1)
    BY <1>6, LeadsByPage DEF requireSessionUser
  <2>2. QED
    BY <1>0, <1>6, <2>1 DEF OnTheWay, Drops
<1>7. QED
  BY <1>1, <1>2, <1>3, <1>4, <1>5, <1>6, LeadsByPage, PlaceShape

\* And so are the sign-ins, which go on where the login was to lead.
LEMMA SignInOnTheWay ==
    ASSUME NEW place \in Anywhere
    PROVE  /\ place.page = "login" =>
                 /\ OnTheWay(place, Google(normalizeNextPath(place.next)))
                 /\ OnTheWay(place, normalizeNextPath(place.next))
           /\ place.page = "google" => OnTheWay(place, place.next)
<1>1. CASE place.page = "login"
  <2>1. normalizeNextPath(place.next) \in Places
    BY <1>1, PlaceShape, NextIsAPlace
  <2>2. Aim(place) = Due(normalizeNextPath(place.next))
    BY <1>1, <2>1, InsidePages DEF Aim, Due
  <2>3. QED
    BY <1>1, <2>1, <2>2, AimInside, KnownPlaces DEF OnTheWay
<1>2. CASE place.page = "google"
  <2>1. place.next \in Places
    BY <1>2, PlaceShape
  <2>2. Aim(place) = Due(place.next)
    BY <1>2 DEF Aim
  <2>3. QED
    BY <1>2, <2>1, <2>2, AimInside, KnownPlaces DEF OnTheWay
<1>3. QED
  BY <1>1, <1>2

LEMMA BrowserTracks == ASSUME VisitTypeOK, OnTrack, VisitNext PROVE OnTrack'
<1>0. \A p \in Panes : pane[p].at \in Anywhere
  BY DEF VisitTypeOK, Pane
<1>1. CASE SessionEnds
  BY <1>1 DEF SessionEnds, OnTrack
<1>2. ASSUME NEW p \in Panes, Serve(p) PROVE OnTrack'
  <2>1. CASE Leads(pane[p].at) = pane[p].at
    <3>1. pane' = [pane EXCEPT ![p].shown = TRUE, ![p].html = resolveLocale(pane[p].at),
                                ![p].body = BodyLocale(pane[p].at)]
      BY <1>2, <2>1 DEF Serve
    <3>2. \A q \in Panes : /\ pane'[q].at = pane[q].at /\ pane'[q].wish = pane[q].wish
                            /\ pane'[q].dropped = pane[q].dropped
      BY <3>1 DEF VisitTypeOK, Pane
    <3>3. QED
      BY <3>2 DEF OnTrack
  <2>2. CASE Leads(pane[p].at) # pane[p].at
    <3>1. Follow(p, Leads(pane[p].at))
      BY <1>2, <2>2 DEF Serve
    <3>2. QED
      BY <1>0, <2>2, <3>1, LeadsOnTheWay, FollowTracks
  <2>3. QED
    BY <2>1, <2>2
<1>3. ASSUME NEW p \in Panes, PressGoogle(p) PROVE OnTrack'
  BY <1>0, <1>3, SignInOnTheWay, FollowTracks DEF PressGoogle, Shows
<1>4. ASSUME NEW p \in Panes, GoogleReturns(p) PROVE OnTrack'
  BY <1>0, <1>4, SignInOnTheWay, FollowTracks DEF GoogleReturns
<1>5. ASSUME NEW p \in Panes, NEW fresh \in BOOLEAN, DevLogin(p, fresh) PROVE OnTrack'
  <2>1. CASE fresh
    <3>1. Load(p, At("dashboard")) /\ At("dashboard") \in Anywhere /\ At("dashboard").page # "google"
      BY <1>5, <2>1, KnownPlaces, PagesOf DEF DevLogin
    <3>2. QED
      BY <3>1, LoadTracks
  <2>2. CASE ~fresh
    <3>1. Follow(p, normalizeNextPath(pane[p].at.next)) /\ pane[p].at.page = "login"
      BY <1>5, <2>2 DEF DevLogin, Shows
    <3>2. QED
      BY <1>0, <3>1, SignInOnTheWay, FollowTracks
  <2>3. QED
    BY <2>1, <2>2
<1>6. ASSUME NEW p \in Panes, SignOut(p) PROVE OnTrack'
  <2>1. Landing("any") \in Anywhere /\ Landing("any").page # "google"
    BY KnownPlaces, PagesOf
  <2>2. QED
    BY <1>6, <2>1, LoadTracks DEF SignOut
<1>7. ASSUME NEW p \in Panes, NEW place \in browser.opens, Open(p, place) PROVE OnTrack'
  <2>1. place \in Places \cup {Login(next) : next \in Nexts}
    BY <1>7, VisitAssumption DEF VisitTypeOK, Browser
  <2>2. place \in Anywhere /\ place.page # "google"
    BY <2>1, InsidePages, PagesOf DEF Anywhere
  <2>3. QED
    BY <1>7, <2>2, LoadTracks DEF Open
<1>8. ASSUME NEW p \in Panes, NEW locale \in Locales, ChooseLanguage(p, locale) PROVE OnTrack'
  <2>1. CASE session
    <3>1. Load(p, Onboarding(2)) /\ Onboarding(2) \in Anywhere /\ Onboarding(2).page # "google"
      BY <1>8, <2>1, KnownPlaces, PagesOf DEF ChooseLanguage
    <3>2. QED
      BY <3>1, LoadTracks
  <2>2. CASE ~session
    <3>1. /\ Follow(p, Login(Onboarding(1))) /\ pane[p].at.page = "onboarding" /\ pane[p].at.step = 1
          /\ pane[p].at \in Places
      BY <1>0, <1>8, <2>2, PlaceShape DEF ChooseLanguage, Shows
    <3>2. pane[p].at = Onboarding(1)
      BY <3>1, OnboardingIsStep
    <3>3. OnTheWay(pane[p].at, Login(Onboarding(1)))
      BY <3>1, <3>2, AimInside, KnownPlaces DEF OnTheWay
    <3>4. QED
      BY <3>1, <3>3, FollowTracks
  <2>3. QED
    BY <2>1, <2>2
<1>9. ASSUME NEW p \in Panes, NEW locale \in Locales, UpdateLocale(p, locale) PROVE OnTrack'
  <2> DEFINE to == requireSessionUser(At("settings"), At("settings"))
  <2>1. Follow(p, to) /\ pane[p].at.page = "settings"
    BY <1>9 DEF UpdateLocale, Shows
  <2>2. pane[p].at \in Places /\ pane[p].at = At("settings")
    <3>1. pane[p].at \in Returning
      BY <1>0, <2>1, PlaceShape
    <3>2. QED
      BY <2>1, <3>1, PlaceShape, <1>0 DEF Returning, At
  <2>3. to \in {Login(At("settings")), Onboarding(1), At("settings")} /\ At("settings") \in Places
    BY KnownPlaces DEF requireSessionUser
  <2>4. OnTheWay(pane[p].at, to)
    BY <2>1, <2>2, <2>3, AimInside, KnownPlaces DEF OnTheWay, Drops
  <2>5. QED
    BY <2>1, <2>4, FollowTracks
<1>10. QED
  BY <1>1, <1>2, <1>3, <1>4, <1>5, <1>6, <1>7, <1>8, <1>9 DEF VisitNext

LEMMA DecisionTracks ==
    ASSUME VisitTypeOK, OnTrack, NEW p \in Panes, NEW decision \in Answers, Decide(p, decision)
    PROVE  OnTrack'
<1> DEFINE place == pane[p].at
           to == requireSessionUser(Absent, place)
<1>1. place \in Anywhere /\ place.page = "authorize" /\ ~Unproven(place.ask)
  BY DEF Decide, Consents, Shows, VisitTypeOK, Pane
<1>2. CASE to # place
  <2>1. Follow(p, to) /\ to \in {Login(Absent), Onboarding(1)}
    BY <1>2 DEF Decide, requireSessionUser
  <2>2. OnTheWay(place, to)
    BY <1>1, <2>1, KnownPlaces DEF OnTheWay, Drops
  <2>3. QED
    BY <2>1, <2>2, FollowTracks
<1>3. CASE to = place
  <2>1. Follow(p, Callback(place.ask, decision))
    BY <1>1, <1>3 DEF Decide
  <2>2. OnTheWay(place, Callback(place.ask, decision))
    <3>1. place.ask \in Asks
      BY <1>1, PlaceShape
    <3>2. Callback(place.ask, decision) \in Anywhere
      BY <3>1 DEF Anywhere
    <3>3. QED
      BY <3>2, PagesOf DEF OnTheWay
  <2>3. QED
    BY <2>1, <2>2, FollowTracks
<1>4. QED
  BY <1>2, <1>3

LEMMA ConnectTracks == VisitIInv /\ OnTrack /\ [ConnectNext]_connectVars => OnTrack'
<1> SUFFICES ASSUME VisitIInv, OnTrack, [ConnectNext]_connectVars PROVE OnTrack'
  OBVIOUS
<1>0. VisitTypeOK
  BY DEF VisitIInv
<1>1. CASE Browse
  BY <1>0, <1>1, BrowserTracks DEF Browse
<1>2. ASSUME NEW p \in Panes, NEW ask \in Asks, SendBrowser(p, ask) PROVE OnTrack'
  <2>1. Authorize(ask) \in Places
    BY DEF Places
  <2>2. QED
    BY <1>0, <1>2, <2>1, KnownPlaces, InsidePages, LoadTracks DEF SendBrowser
<1>3. ASSUME NEW p \in Panes, ApproveAuthorization(p) \/ DenyAuthorization(p) PROVE OnTrack'
  BY <1>0, <1>3, DecisionTracks DEF ApproveAuthorization, DenyAuthorization, Answers
<1>4. ASSUME UNCHANGED pane PROVE OnTrack'
  BY <1>4 DEF OnTrack
<1>5. CASE \/ Challenged \/ ReadResourceMetadata \/ ReadServerMetadata \/ Call
           \/ \E metadata \in Metadata : Register(metadata)
  BY <1>4, <1>5 DEF Challenged, ReadResourceMetadata, ReadServerMetadata, Call, Register, visitVars
<1>6. ASSUME NEW p \in Panes, ReceiveCallback(p) PROVE OnTrack'
  BY <1>4, <1>6 DEF ReceiveCallback, visitVars
<1>7. ASSUME NEW uri, NEW verifier, NEW resource, Exchange(uri, verifier, resource) PROVE OnTrack'
  BY <1>4, <1>7 DEF Exchange, visitVars
<1>8. CASE UNCHANGED connectVars
  BY <1>4, <1>8 DEF connectVars
<1>9. QED
  BY <1>1, <1>2, <1>3, <1>5, <1>6, <1>7, <1>8 DEF ConnectNext

\* Wherever a tab has been sent, three redirects bring it to a page, and a user who is
\* onboarded to the page asked for, unless a redirect dropped it: for any tabs, places,
\* requests of clients and sessions that end on the way.
THEOREM RedirectsLand == ConnectSpec => []LandsWhereAsked
<1>1. ConnectInit => OnTrack
  <2> SUFFICES ASSUME ConnectInit, NEW p \in Panes PROVE Aim(pane[p].at) = Due(pane[p].wish)
    BY DEF OnTrack
  <2>1. pane[p].at = Landing("any") /\ pane[p].wish = Landing("any")
    BY DEF ConnectInit, VisitInit
  <2>2. QED
    BY <2>1, PagesOf DEF Aim
<1>2. VisitIInv /\ OnTrack => LandsWhereAsked
  BY LandsFromTrack
<1>3. QED
  BY <1>1, <1>2, VisitInductive, ConnectTracks, PTL DEF ConnectSpec

-----------------------------------------------------------------------------
(* The types of the client and its rows *)

Knowing == {"registered", "asking", "code", "token", "in", "narrow"}
Asking == {"asking", "code", "token", "in", "narrow"}

CodeRow == [uri : {ask.uri : ask \in Asks}, consumed : BOOLEAN, scope : SUBSET SCOPES, resource : Urls]
Agreement == [uri : {ask.uri : ask \in Asks}, challenge : 1..MaxAttempts, scope : SUBSET SCOPES, resource : Urls]

\* What the client has learnt, at the steps it needs it.
AppTyped ==
    /\ app \in App /\ door \in Doors
    /\ app.step \in {"challenged", "resource"} => app.origin \in Origins
    /\ app.step \in {"resource", "issuer"} \cup Knowing => app.resource \in Urls
    /\ app.step \in {"issuer"} \cup Knowing \/ oauthClient # Absent => app.issuer \in Origins

ClientTyped ==
    oauthClient # Absent =>
        /\ oauthClient.scope \subseteq SCOPES
        /\ \A uri \in oauthClient.uris : uri.scheme # "http" \/ uri.loopback

RowsTyped ==
    /\ agreed \subseteq Agreement
    /\ \A n \in 1..MaxAttempts : code[n] # Absent => code[n] \in CodeRow

TypeIInv == ConnectIInv /\ AppTyped /\ ClientTyped /\ RowsTyped

LEMMA OriginTypes ==
    ASSUME NEW http \in Request
    PROVE  serverOrigin(http) \in Origins /\ originFromHeaders(http) \in Origins
<1>1. ASSUME NEW one \in Request PROVE serverOrigin(one) \in Origins
  <2>1. one.configured = Absent => Accepted(one)
    BY DEF Accepted
  <2>2. Origin(IF one.forwarded # Absent THEN one.forwarded ELSE one.proto, one.host) \in Origins
    BY DEF Request, Origins, Origin
  <2>3. QED
    BY <2>1, <2>2 DEF serverOrigin, Request
<1> DEFINE proto == IF http.forwarded = Absent THEN "http" ELSE http.forwarded
<1>2. proto \in Text
  BY DEF Request, Text
<1> HIDE DEF proto
<1>3. [http EXCEPT !.proto = proto] \in Request
  BY <1>2 DEF Request
<1>4. serverOrigin([http EXCEPT !.proto = proto]) \in Origins /\ serverOrigin(http) \in Origins
  BY <1>1, <1>3
<1>5. QED
  BY <1>4 DEF originFromHeaders, proto

LEMMA ReachTypes ==
    ASSUME door \in Doors
    PROVE  door \in Request /\ \A origin \in Origins : Reach(origin) \in Request
BY ConnectAssumption DEF Reach, Request, Origins

LEMMA UrlTypes ==
    /\ \A origin \in Origins : mcpResourceUrl(origin) \in Urls
    /\ \A url \in Urls : canonicalResource(url) \in Urls
<1>1. ASSUME NEW origin \in Origins PROVE mcpResourceUrl(origin) \in Urls
  <2>1. mcpResourceUrl(origin) = [origin |-> origin, path |-> "/mcp", slash |-> FALSE, hash |-> FALSE]
    BY DEF mcpResourceUrl, Url
  <2>2. "/mcp" \in Text
    BY DEF Text
  <2>3. QED
    BY <2>1, <2>2 DEF Urls
<1>2. \A url \in Urls : canonicalResource(url) \in Urls
  BY ConnectAssumption DEF canonicalResource, Urls
<1>3. QED
  BY <1>1, <1>2

LEMMA ScopeTypes == \A requested : normalizeScope(requested) \in SUBSET SCOPES
BY DEF normalizeScope

LEMMA AskTypes ==
    ASSUME NEW ask \in Asks
    PROVE  /\ ask.challenge \in 1..MaxAttempts /\ ask.resource \in Urls \cup {Absent}
           /\ ask.uri \in {one.uri : one \in Asks} /\ ask # Absent
BY ConnectAssumption

LEMMA NewCodeTypes ==
    ASSUME AppTyped, app.issuer \in Origins, NEW ask \in Asks
    PROVE  NewCode(ask) \in CodeRow /\ NewCode(ask).consumed = FALSE
<1> DEFINE resource == IF ask.resource = Absent THEN mcpResourceUrl(originFromHeaders(Reach(app.issuer)))
                       ELSE canonicalResource(ask.resource)
<1>1. resource \in Urls
  BY AskTypes, ReachTypes, OriginTypes, UrlTypes DEF AppTyped
<1>2. NewCode(ask) = [uri |-> ask.uri, consumed |-> FALSE, scope |-> normalizeScope(ask.scope),
                      resource |-> resource]
  BY DEF NewCode
<1> HIDE DEF resource
<1>3. QED
  BY <1>1, <1>2, AskTypes, ScopeTypes DEF CodeRow

LEMMA RegisteredTypes ==
    ASSUME NEW metadata, Registered(metadata) # Absent
    PROVE  /\ Registered(metadata).scope \subseteq SCOPES
           /\ \A uri \in Registered(metadata).uris : uri.scheme # "http" \/ uri.loopback
<1>1. /\ Registered(metadata) = [uris |-> metadata.uris, scope |-> normalizeScope(metadata.scope)]
      /\ \A uri \in metadata.uris : isAllowedRedirectUri(uri)
  BY DEF Registered
<1>2. QED
  BY <1>1, ScopeTypes DEF isAllowedRedirectUri

\* A step that changes none of them but, perhaps, what is remembered of mistakes.
LEMMA TypedStays ==
    ASSUME TypeIInv, UNCHANGED <<door, agreed, code, oauthClient>>,
           app' = app \/ (\E fault \in BOOLEAN : app' = [app EXCEPT !.fault = fault])
                      \/ (\E step \in {"denied", "stopped"} : app' = [app EXCEPT !.step = step])
    PROVE  AppTyped' /\ ClientTyped' /\ RowsTyped'
<1>1. ClientTyped' /\ RowsTyped'
  BY DEF TypeIInv, ClientTyped, RowsTyped
<1>2. AppTyped /\ app \in App
  BY DEF TypeIInv, AppTyped
<1>3. CASE app' = app
  BY <1>1, <1>2, <1>3 DEF AppTyped
<1>4. ASSUME NEW fault \in BOOLEAN, app' = [app EXCEPT !.fault = fault] PROVE AppTyped'
  BY <1>2, <1>4 DEF AppTyped, App
<1>5. ASSUME NEW step \in {"denied", "stopped"}, app' = [app EXCEPT !.step = step] PROVE AppTyped'
  BY <1>2, <1>5 DEF AppTyped, App, AppSteps, Knowing
<1>6. QED
  BY <1>1, <1>3, <1>4, <1>5

LEMMA DiscoveryTypes ==
    ASSUME TypeIInv, \/ Challenged \/ ReadResourceMetadata \/ ReadServerMetadata
                     \/ \E metadata \in Metadata : Register(metadata)
    PROVE  AppTyped' /\ ClientTyped' /\ RowsTyped'
<1>0. AppTyped /\ app \in App /\ door \in Doors /\ Standing
  BY DEF TypeIInv, AppTyped, ConnectIInv
<1>1. UNCHANGED <<agreed, code, door>>
  BY DEF Challenged, ReadResourceMetadata, ReadServerMetadata, Register
<1>2. RowsTyped'
  BY <1>1 DEF TypeIInv, RowsTyped
<1>3. ASSUME NEW step \in {"challenged", "resource", "issuer", "stopped"},
             NEW origin \in Origins \cup {Absent}, NEW resource \in Urls \cup {Absent},
             NEW issuer \in Origins \cup {Absent},
             step \in {"challenged", "resource"} => origin \in Origins,
             step \in {"resource", "issuer"} => resource \in Urls, step = "issuer" => issuer \in Origins,
             app' = [app EXCEPT !.step = step, !.origin = origin, !.resource = resource, !.issuer = issuer],
             oauthClient = Absent, UNCHANGED oauthClient
      PROVE  AppTyped' /\ ClientTyped'
  BY <1>0, <1>1, <1>3 DEF AppTyped, ClientTyped, App, AppSteps, Knowing
<1>4. CASE Challenged
  <2>1. serverOrigin(door) \in Origins /\ oauthClient = Absent /\ UNCHANGED oauthClient
    BY <1>0, <1>4, ReachTypes, OriginTypes DEF Challenged, Is, Standing, visitVars
  <2>2. app' = [app EXCEPT !.step = "challenged", !.origin = serverOrigin(door), !.resource = app.resource,
                           !.issuer = app.issuer]
    BY <1>0, <1>4 DEF Challenged, App
  <2>3. app.resource \in Urls \cup {Absent} /\ app.issuer \in Origins \cup {Absent}
    BY <1>0 DEF App
  <2>4. QED
    BY <1>2, <1>3, <2>1, <2>2, <2>3
<1>5. CASE ReadResourceMetadata
  <2> DEFINE there == serverOrigin(Reach(app.origin))
  <2>1. there \in Origins /\ mcpResourceUrl(there) \in Urls /\ oauthClient = Absent /\ UNCHANGED oauthClient
    BY <1>0, <1>5, ReachTypes, OriginTypes, UrlTypes DEF ReadResourceMetadata, Is, Standing, visitVars, AppTyped
  <2>2. app' = [app EXCEPT !.step = "resource", !.origin = there, !.resource = mcpResourceUrl(there),
                           !.issuer = app.issuer]
    BY <1>0, <1>5 DEF ReadResourceMetadata, App, protectedResourceMetadata
  <2>3. app.issuer \in Origins \cup {Absent}
    BY <1>0 DEF App
  <2> HIDE DEF there
  <2>4. QED
    BY <1>2, <1>3, <2>1, <2>2, <2>3
<1>6. CASE ReadServerMetadata
  <2> DEFINE there == serverOrigin(Reach(app.origin))
  <2>1. there \in Origins /\ oauthClient = Absent /\ UNCHANGED oauthClient
    BY <1>0, <1>6, ReachTypes, OriginTypes DEF ReadServerMetadata, Is, Standing, visitVars, AppTyped
  <2>2. /\ app.origin \in Origins \cup {Absent} /\ app.resource \in Urls \cup {Absent}
        /\ app.issuer \in Origins \cup {Absent} /\ app.resource \in Urls
    BY <1>0, <1>6 DEF ReadServerMetadata, Is, AppTyped, App
  <2>3. CASE there = app.origin
    <3>1. app' = [app EXCEPT !.step = "issuer", !.origin = app.origin, !.resource = app.resource, !.issuer = there]
      BY <1>0, <1>6, <2>3 DEF ReadServerMetadata, App, authorizationServerMetadata
    <3> HIDE DEF there
    <3>2. QED
      BY <1>2, <1>3, <2>1, <2>2, <3>1
  <2>4. CASE there # app.origin
    <3>1. app' = [app EXCEPT !.step = "stopped", !.origin = app.origin, !.resource = app.resource,
                             !.issuer = app.issuer]
      BY <1>0, <1>6, <2>4 DEF ReadServerMetadata, App, authorizationServerMetadata
    <3>2. QED
      BY <1>2, <1>3, <2>1, <2>2, <3>1
  <2>5. QED
    BY <2>3, <2>4
<1>7. ASSUME NEW metadata \in Metadata, Register(metadata) PROVE AppTyped' /\ ClientTyped'
  <2>1. /\ app.step = "issuer" /\ oauthClient' = Registered(metadata)
        /\ app' = [app EXCEPT !.step = IF Registered(metadata) = Absent THEN "stopped" ELSE "registered",
                              !.fault = @ \/ Registered(metadata) = Absent]
    BY <1>7 DEF Register, Is
  <2>2. ClientTyped'
    BY <2>1, RegisteredTypes DEF ClientTyped
  <2>3. PICK step \in {"stopped", "registered"}, fault \in BOOLEAN :
            app' = [app EXCEPT !.step = step, !.fault = fault]
    <3> DEFINE fault == app.fault \/ Registered(metadata) = Absent
    <3>1. fault \in BOOLEAN
      OBVIOUS
    <3>2. app' = [app EXCEPT !.step = IF Registered(metadata) = Absent THEN "stopped" ELSE "registered",
                             !.fault = fault]
      BY <2>1
    <3> HIDE DEF fault
    <3>3. QED
      BY <3>1, <3>2
  <2>4. AppTyped'
    BY <1>0, <1>1, <2>1, <2>3 DEF AppTyped, App, AppSteps, Knowing
  <2>5. QED
    BY <2>2, <2>4
<1>8. QED
  BY <1>2, <1>4, <1>5, <1>6, <1>7

LEMMA AskingTypes ==
    ASSUME TypeIInv, NEW p \in Panes, NEW ask \in Asks, SendBrowser(p, ask)
    PROVE  AppTyped' /\ ClientTyped' /\ RowsTyped'
<1>1. AppTyped /\ app \in App
  BY DEF TypeIInv, AppTyped
<1>2. /\ app.step \in {"registered", "narrow", "asking"} /\ app.attempts < MaxAttempts
      /\ app' = [app EXCEPT !.step = "asking", !.ask = ask, !.attempts = app.attempts + 1]
      /\ UNCHANGED <<oauthClient, code, issued, agreed, door>>
  BY DEF SendBrowser, stores
<1>3. ClientTyped' /\ RowsTyped'
  BY <1>2 DEF TypeIInv, ClientTyped, RowsTyped
<1>4. app.attempts + 1 \in 0..MaxAttempts
  BY <1>1, <1>2, ConnectAssumption DEF App
<1>5. AppTyped'
  BY <1>1, <1>2, <1>4 DEF AppTyped, App, AppSteps, Knowing
<1>6. QED
  BY <1>3, <1>5

LEMMA ApprovalTypes ==
    ASSUME TypeIInv, NEW p \in Panes, ApproveAuthorization(p)
    PROVE  AppTyped' /\ ClientTyped' /\ RowsTyped'
<1> DEFINE ask == pane[p].at.ask
           new == NewCode(ask)
           agreement == [challenge |-> ask.challenge, uri |-> ask.uri, resource |-> new.resource,
                         scope |-> normalizeScope(ask.scope)]
           fault == app.fault \/ ((issued # Absent /\ issued.scope # new.scope) /\ ask # app.ask)
<1>1. AppTyped /\ ClientTyped /\ RowsTyped /\ Vouched /\ app \in App
  BY DEF TypeIInv, AppTyped, ConnectIInv
<1>2. UNCHANGED <<oauthClient, door>> /\ ask \in Asks
  BY DecisionBinds DEF TypeIInv, ApproveAuthorization, Answers, Decide
<1>3. CASE Decided(p)
  <2>1. /\ code' = [code EXCEPT ![ask.challenge] = new] /\ agreed' = agreed \cup {agreement}
        /\ app' = [app EXCEPT !.fault = fault]
    BY <1>3 DEF ApproveAuthorization
  <2>2. fault \in BOOLEAN
    BY <1>1 DEF App
  <2>3. oauthClient # Absent
    BY DEF ApproveAuthorization, Decide, Consents, Unproven
  <2>4. new \in CodeRow
    BY <1>1, <1>2, <2>3, NewCodeTypes DEF AppTyped
  <2>5. agreement \in Agreement
    BY <1>2, <2>4, AskTypes, ScopeTypes DEF Agreement, CodeRow
  <2> HIDE DEF new, agreement, fault
  <2>6. RowsTyped'
    BY <1>1, <2>1, <2>4, <2>5 DEF RowsTyped, Vouched
  <2>7. AppTyped'
    BY <1>1, <1>2, <2>1, <2>2 DEF AppTyped, App
  <2>8. QED
    BY <1>1, <1>2, <2>6, <2>7 DEF ClientTyped
<1>4. CASE ~Decided(p)
  BY <1>2, <1>4, TypedStays DEF ApproveAuthorization
<1>5. QED
  BY <1>3, <1>4

LEMMA ReplyTypes ==
    ASSUME TypeIInv, Call \/ \E p \in Panes : ReceiveCallback(p)
    PROVE  AppTyped' /\ ClientTyped' /\ RowsTyped'
<1>1. AppTyped /\ ClientTyped /\ RowsTyped /\ app \in App
  BY DEF TypeIInv, AppTyped
<1>2. UNCHANGED <<door, agreed, code, oauthClient>>
  BY DEF Call, ReceiveCallback, visitVars
<1>3. ClientTyped' /\ RowsTyped'
  BY <1>1, <1>2 DEF ClientTyped, RowsTyped
<1>4. CASE Call
  <2>1. PICK step \in {"stopped", "narrow", "in"} : app' = [app EXCEPT !.step = step]
    BY <1>4 DEF Call, Goes
  <2>2. app.step \in Knowing
    BY <1>4 DEF Call, Knowing
  <2>3. QED
    BY <1>1, <1>2, <1>3, <2>1, <2>2 DEF AppTyped, App, AppSteps, Knowing
<1>5. ASSUME NEW p \in Panes, ReceiveCallback(p) PROVE AppTyped'
  <2>1. app.step = "asking"
    BY <1>5 DEF ReceiveCallback, Is
  <2>2. PICK step \in {"denied", "stopped", "code"}, fault \in BOOLEAN :
            app' = [app EXCEPT !.step = step, !.fault = fault]
    <3>1. app.fault \in BOOLEAN
      BY <1>1 DEF App
    <3>2. \/ app' = [app EXCEPT !.step = "denied"] \/ app' = [app EXCEPT !.step = "stopped", !.fault = TRUE]
          \/ app' = [app EXCEPT !.step = "stopped"] \/ app' = [app EXCEPT !.step = "code"]
      BY <1>5 DEF ReceiveCallback
    <3>3. \A step : [app EXCEPT !.step = step] = [app EXCEPT !.step = step, !.fault = app.fault]
      BY <1>1 DEF App
    <3>4. QED
      BY <3>1, <3>2, <3>3
  <2>3. QED
    BY <1>1, <1>2, <2>1, <2>2 DEF AppTyped, App, AppSteps, Knowing
<1>6. QED
  BY <1>3, <1>4, <1>5

LEMMA ExchangeTypes ==
    ASSUME TypeIInv, NEW uri, NEW verifier, NEW resource, Exchange(uri, verifier, resource)
    PROVE  AppTyped' /\ ClientTyped' /\ RowsTyped'
<1> DEFINE n == app.ask.challenge
           token == RedeemedCode(code[n], uri, verifier, n, resource)
           step == IF token = Absent THEN "stopped" ELSE "token"
           fault == app.fault \/ uri # app.ask.uri \/ verifier # n \/ resource \notin {Absent, app.resource}
<1>1. AppTyped /\ ClientTyped /\ RowsTyped /\ app \in App /\ Vouched /\ Standing
  BY DEF TypeIInv, AppTyped, ConnectIInv
<1>2. /\ app.step = "code" /\ code[n] # Absent
      /\ app' = [app EXCEPT !.step = step, !.fault = fault]
      /\ code' = [code EXCEPT ![n].consumed = TRUE]
      /\ UNCHANGED <<oauthClient, agreed, door>>
  BY DEF Exchange, Is, visitVars
<1>3. n \in 1..MaxAttempts
  BY <1>1, <1>2, AskTypes DEF Standing
<1>4. step \in {"stopped", "token"} /\ fault \in BOOLEAN
  BY <1>1 DEF App
<1> HIDE DEF step, fault
<1>5. AppTyped'
  BY <1>1, <1>2, <1>4 DEF AppTyped, App, AppSteps, Knowing
<1>6. \A m \in 1..MaxAttempts : code'[m] = IF m = n THEN [code[n] EXCEPT !.consumed = TRUE] ELSE code[m]
  BY <1>1, <1>2 DEF Vouched
<1>7. [code[n] EXCEPT !.consumed = TRUE] \in CodeRow
  BY <1>1, <1>2, <1>3 DEF RowsTyped, CodeRow
<1>8. RowsTyped'
  BY <1>1, <1>2, <1>6, <1>7 DEF RowsTyped
<1>9. QED
  BY <1>1, <1>2, <1>5, <1>8 DEF ClientTyped

LEMMA BrowseTypes ==
    ASSUME TypeIInv, Browse
    PROVE  AppTyped' /\ ClientTyped' /\ RowsTyped'
<1>1. UNCHANGED <<oauthClient, agreed, door>>
  BY BrowserBinds DEF TypeIInv, ConnectIInv, Browse
<1>2. CASE code' = [n \in 1..MaxAttempts |-> Absent] /\ app' = [app EXCEPT !.fault = TRUE]
  <2>1. RowsTyped' /\ ClientTyped'
    BY <1>1, <1>2 DEF TypeIInv, RowsTyped, ClientTyped
  <2>2. AppTyped'
    BY <1>1, <1>2 DEF TypeIInv, AppTyped, App
  <2>3. QED
    BY <2>1, <2>2
<1>3. CASE UNCHANGED <<code, app>>
  BY <1>1, <1>3, TypedStays
<1>4. QED
  BY <1>2, <1>3 DEF Browse

LEMMA TypeStep == TypeIInv /\ [ConnectNext]_connectVars => TypeIInv'
<1> SUFFICES ASSUME TypeIInv, [ConnectNext]_connectVars PROVE AppTyped' /\ ClientTyped' /\ RowsTyped'
  BY ConnectStep DEF TypeIInv
<1>1. CASE UNCHANGED connectVars
  BY <1>1, TypedStays DEF connectVars
<1>2. ASSUME NEW p \in Panes, DenyAuthorization(p) PROVE AppTyped' /\ ClientTyped' /\ RowsTyped'
  <2>1. UNCHANGED <<oauthClient, door, code, agreed, app>>
    BY <1>2 DEF DenyAuthorization, Decide
  <2>2. QED
    BY <2>1, TypedStays
<1>3. QED
  BY <1>1, <1>2, DiscoveryTypes, AskingTypes, ApprovalTypes, ReplyTypes, ExchangeTypes, BrowseTypes
  DEF ConnectNext

LEMMA TypeInitial == ConnectInit => TypeIInv
<1> SUFFICES ASSUME ConnectInit PROVE AppTyped /\ ClientTyped /\ RowsTyped
  BY ConnectInitial DEF TypeIInv
<1>1. /\ app = [step |-> "start", origin |-> Absent, resource |-> Absent, issuer |-> Absent, ask |-> Absent,
                attempts |-> 0, fault |-> FALSE]
      /\ code = [n \in 1..MaxAttempts |-> Absent] /\ agreed = {} /\ oauthClient = Absent /\ door \in Doors
  BY DEF ConnectInit
<1>2. app \in App
  BY <1>1, ConnectAssumption DEF App, AppSteps
<1>3. QED
  BY <1>1, <1>2 DEF AppTyped, ClientTyped, RowsTyped, Knowing

LEMMA ConnectTyped == TypeIInv => ConnectTypeOK
<1> SUFFICES ASSUME TypeIInv PROVE ConnectTypeOK
  OBVIOUS
<1>1. VisitTypeOK /\ Vouched /\ AppTyped /\ ClientTyped /\ RowsTyped
  BY DEF TypeIInv, ConnectIInv, VisitIInv
<1>2. \A n \in 1..MaxAttempts : code[n] # Absent => code[n].consumed \in BOOLEAN /\ \E a \in agreed : n = a.challenge
  BY <1>1 DEF Vouched, Agrees, RowsTyped, CodeRow
<1>3. issued = Absent \/ issued.scope \subseteq SCOPES
  BY <1>1 DEF Vouched, RowsTyped, Agreement
<1>4. QED
  BY <1>1, <1>2, <1>3 DEF ConnectTypeOK, AppTyped, ClientTyped, RowsTyped, Agreement

\* Every variable of the browser and the client has its type, for any doors, requests of
\* clients and attempts: no request is made of an origin or a resource that is not one.
THEOREM ConnectIsTyped == ConnectSpec => []ConnectTypeOK
BY ConnectTyped, TypeInitial, TypeStep, PTL DEF ConnectSpec

-----------------------------------------------------------------------------
(* A client that follows the documents *)

Here == serverOrigin(door)
Endpoint == mcpResourceUrl(Here)

\* The documents lead to the door the client came to.
Discovered ==
    /\ app.step \in {"challenged", "resource"} => app.origin = Here
    /\ app.step \in {"resource", "issuer"} \cup Knowing => app.resource = Endpoint
    /\ app.step \in {"issuer"} \cup Knowing => app.issuer = Here

\* A tab on the way to, at, or back from the authorization page.
Holds(place, ask) ==
    \/ place \in {Authorize(ask), Login(Authorize(ask)), Google(Authorize(ask))}
    \/ place.page = "callback" /\ place.ask = ask

\* A tab has no request to come, and with the number of the last it has the last.
Timely(place) ==
    \A ask \in Asks : Holds(place, ask) =>
        ask.challenge \leq app.attempts /\ (ask.challenge = app.attempts => ask = app.ask)

Numbered ==
    /\ \A p \in Panes : Timely(pane[p].at)
    /\ app.step \in Asking =>
          /\ app.ask \in Asks /\ app.ask.challenge = app.attempts
          /\ app.ask.resource \in {Absent, Endpoint, [Endpoint EXCEPT !.slash = TRUE]}

\* A code for the last request is what it asked for, and has not been used while the client
\* is about to.
Redeemable ==
    \A n \in 1..MaxAttempts : code[n] # Absent =>
        /\ n \leq app.attempts
        /\ app.step \in Asking /\ n = app.attempts =>
              code[n] = [uri |-> app.ask.uri, consumed |-> code[n].consumed,
                         scope |-> normalizeScope(app.ask.scope), resource |-> Endpoint]
        /\ app.step \in {"asking", "code"} /\ n = app.attempts => code[n].consumed = FALSE

\* The token of a client that made no mistake opens its door.
Admitted ==
    app.step \in {"token", "in"} /\ ~app.fault =>
        issued # Absent /\ issued.scope = normalizeScope(app.ask.scope) /\ issued.resource = Endpoint

FollowIInv == TypeIInv /\ Discovered /\ Numbered /\ Redeemable /\ Admitted /\ FollowingGetsIn

\* Wherever the client asks, the server says that it is the door the client came to.
LEMMA DoorFacts ==
    ASSUME SoundDoors, door \in Doors
    PROVE  /\ Here \in Origins /\ Endpoint \in Urls
           /\ serverOrigin(Reach(Here)) = Here /\ originFromHeaders(Reach(Here)) = Here
<1>1. door \in Request /\ (door.forwarded = Absent => door.proto = "http")
      /\ (~Accepted(door) => Protocol(door) = door.configured.proto)
  BY ReachTypes DEF SoundDoors
<1>2. Here \in Origins
  BY <1>1, OriginTypes DEF Here
<1>3. Endpoint \in Urls
  BY <1>2, UrlTypes DEF Endpoint
<1>4. CASE Accepted(door)
  <2>1. Here = Origin(Protocol(door), door.host)
    BY <1>4 DEF Here, serverOrigin, Protocol
  <2>2. Reach(Here) = door
    BY <1>1, <2>1 DEF Reach, Origin, Request
  <2>3. [door EXCEPT !.proto = IF door.forwarded = Absent THEN "http" ELSE door.forwarded] = 
        [door EXCEPT !.proto = Protocol(door)]
    BY <1>1 DEF Protocol
  <2> DEFINE http == [door EXCEPT !.proto = Protocol(door)]
  <2>4. /\ http.configured = door.configured /\ http.host = door.host /\ http.forwarded = door.forwarded
        /\ http.proto = Protocol(door)
    BY <1>1 DEF Request
  <2> HIDE DEF http
  <2>5. Accepted(http) /\ Protocol(http) = Protocol(door)
    BY <1>4, <2>4 DEF Accepted, Protocol
  <2>6. serverOrigin(http) = Here
    BY <2>1, <2>4, <2>5 DEF serverOrigin, Protocol
  <2>7. originFromHeaders(door) = Here
    BY <2>3, <2>6 DEF originFromHeaders, http
  <2>8. QED
    BY <1>2, <1>3, <2>2, <2>7 DEF Here
<1>5. CASE ~Accepted(door)
  <2>1. Here = door.configured /\ Protocol(door) = Here.proto
    BY <1>1, <1>5 DEF Here, serverOrigin
  <2> DEFINE there == Reach(Here)
  <2>2. /\ there.configured = Here /\ there.host = Here.host /\ there.forwarded = door.forwarded
        /\ there.proto = door.proto /\ there \in Request
    BY <1>1, <1>2, <2>1, ReachTypes DEF Reach, Request
  <2> HIDE DEF there
  <2>3. Origin(Here.proto, Here.host) = Here
    BY <1>2 DEF Origin, Origins
  <2>4. ASSUME NEW http, http.configured = Here, http.host = Here.host, Protocol(http) = Here.proto
        PROVE  serverOrigin(http) = Here
    BY <2>3, <2>4 DEF serverOrigin, Protocol
  <2>5. serverOrigin(there) = Here
    BY <2>1, <2>2, <2>4 DEF Protocol
  <2> DEFINE proto == IF there.forwarded = Absent THEN "http" ELSE there.forwarded
             http == [there EXCEPT !.proto = proto]
  <2>6. proto = Here.proto
    BY <1>1, <2>1, <2>2 DEF Protocol
  <2>7. /\ http.configured = Here /\ http.host = Here.host /\ http.forwarded = there.forwarded
        /\ http.proto = proto
    BY <2>2 DEF Request
  <2>8. serverOrigin(http) = Here
    <3>1. Protocol(http) = Here.proto
      BY <2>1, <2>2, <2>6, <2>7 DEF Protocol
    <3> HIDE DEF http
    <3>2. QED
      BY <2>4, <2>7, <3>1
  <2>9. QED
    BY <1>2, <1>3, <2>5, <2>8 DEF originFromHeaders, there
<1>6. QED
  BY <1>4, <1>5

LEMMA EndpointFacts ==
    ASSUME SoundDoors, door \in Doors
    PROVE  /\ canonicalResource(Endpoint) = Endpoint
           /\ canonicalResource([Endpoint EXCEPT !.slash = TRUE]) = Endpoint
           /\ Endpoint # Absent /\ resourceMatches(Endpoint, Endpoint)
<1>1. Endpoint \in Urls /\ Endpoint = [origin |-> Here, path |-> "/mcp", slash |-> FALSE, hash |-> FALSE]
  BY DoorFacts DEF Endpoint, mcpResourceUrl, Url
<1>2. Endpoint # Absent /\ [Endpoint EXCEPT !.slash = TRUE] \in Urls
  BY <1>1, ConnectAssumption DEF Urls
<1>3. [Endpoint EXCEPT !.slash = TRUE] # Absent
  BY <1>2, ConnectAssumption
<1>0. ASSUME NEW url \in Urls, url.slash = FALSE, url.hash = FALSE
      PROVE  /\ [url EXCEPT !.slash = FALSE, !.hash = FALSE] = url
             /\ [[url EXCEPT !.slash = TRUE] EXCEPT !.slash = FALSE, !.hash = FALSE] = url
  BY <1>0 DEF Urls
<1>4. canonicalResource(Endpoint) = Endpoint
  <2>1. [Endpoint EXCEPT !.slash = FALSE, !.hash = FALSE] = Endpoint
    BY <1>0, <1>1
  <2>2. QED
    BY <1>2, <2>1, Zenon DEF canonicalResource
<1>5. canonicalResource([Endpoint EXCEPT !.slash = TRUE]) = Endpoint
  <2>1. [[Endpoint EXCEPT !.slash = TRUE] EXCEPT !.slash = FALSE, !.hash = FALSE] = Endpoint
    BY <1>0, <1>1
  <2>2. QED
    BY <1>3, <2>1, Zenon DEF canonicalResource
<1>6. QED
  BY <1>2, <1>4, <1>5 DEF resourceMatches

\* What the door is does not change, and neither does what it is called.
LEMMA HereStays == ASSUME UNCHANGED door PROVE Here' = Here /\ Endpoint' = Endpoint
BY DEF Here, Endpoint, serverOrigin, Accepted

\* Of the tabs, one that is sent on has no request that it did not have before.
Carries(from, to) == \A ask \in Asks : Holds(to, ask) => Holds(from, ask)

LEMMA AskPlaces ==
    /\ \A ask \in Asks : Authorize(ask) \in Places /\ Authorize(ask) # Absent
    /\ \A a, b : Authorize(a) = Authorize(b) => a = b
    /\ \A a, b, answer : Holds(Callback(a, answer), b) => a = b
    /\ \A ask, next : (Holds(Login(next), ask) \/ Holds(Google(next), ask)) <=> next = Authorize(ask)
    /\ \A ask : \A place \in Places : Holds(place, ask) <=> place = Authorize(ask)
<1>1. \A ask \in Asks : Authorize(ask) \in Places /\ Authorize(ask) # Absent
  BY VisitAssumption DEF Places
<1>2. \A a, b : Authorize(a) = Authorize(b) => a = b
  BY PagesOf
<1>3. \A a, b, answer : Holds(Callback(a, answer), b) => a = b
  BY PagesOf DEF Holds
<1>4. ASSUME NEW ask, NEW next
      PROVE  (Holds(Login(next), ask) \/ Holds(Google(next), ask)) <=> next = Authorize(ask)
  BY PagesOf DEF Holds
<1>5. ASSUME NEW ask, NEW place \in Places PROVE Holds(place, ask) <=> place = Authorize(ask)
  BY InsidePages, PagesOf DEF Holds
<1>6. QED
  BY <1>1, <1>2, <1>3, <1>4, <1>5

\* What a place looks like that may have one.
LEMMA AskShapes ==
    ASSUME NEW place \in Anywhere
    PROVE  /\ place.page = "login" => place = Login(place.next)
           /\ place.page = "google" => place = Google(place.next)
           /\ place.page = "authorize" => place = Authorize(place.ask)
<1>1. \A one \in Places : one.page = "authorize" => one = Authorize(one.ask)
  BY PagesOf, ReturningPage DEF Places
<1>2. QED
  BY <1>1, InsidePages, PagesOf DEF Anywhere

LEMMA NextCarries ==
    ASSUME NEW next \in Nexts, NEW ask \in Asks, Holds(normalizeNextPath(next), ask)
    PROVE  next = Authorize(ask)
<1>1. normalizeNextPath(next) = Authorize(ask)
  BY NextIsAPlace, AskPlaces
<1>2. At("dashboard") # Authorize(ask)
  BY PagesOf
<1>3. QED
  BY <1>1, <1>2 DEF normalizeNextPath

LEMMA LeadsCarries == ASSUME NEW place \in Anywhere PROVE Carries(place, Leads(place))
<1> SUFFICES ASSUME NEW ask \in Asks, Holds(Leads(place), ask), Leads(place) # place PROVE Holds(place, ask)
  BY DEF Carries
<1>0. /\ At("dashboard") \in Places /\ Onboarding(1) \in Places
      /\ At("dashboard") # Authorize(ask) /\ Onboarding(1) # Authorize(ask)
  BY KnownPlaces, PagesOf
<1>1. CASE place.page = "landing"
  BY <1>0, <1>1, LeadsByPage, AskPlaces
<1>2. CASE place.page = "login"
  <2>1. place.next \in Nexts /\ Leads(place) = normalizeNextPath(place.next) /\ place = Login(place.next)
    BY <1>2, LeadsByPage, PlaceShape, AskShapes
  <2>2. place.next = Authorize(ask)
    BY <2>1, NextCarries
  <2>3. QED
    BY <2>1, <2>2 DEF Holds
<1>3. CASE place.page = "onboarding"
  <2>1. Leads(place) = Login(Onboarding(1)) \/ Leads(place) = At("dashboard")
    BY <1>3, LeadsByPage DEF OnboardingPage
  <2>2. QED
    BY <1>0, <2>1, AskPlaces
<1>4. CASE place.page = "authorize"
  <2>1. Leads(place) = Callback(place.ask, "error") \/ Leads(place) = Login(place)
    BY <1>4, LeadsByPage DEF AuthorizePage
  <2>2. place = Authorize(place.ask)
    BY <1>4, AskShapes
  <2>3. place = Authorize(ask)
    BY <2>1, <2>2, AskPlaces
  <2>4. QED
    BY <2>3 DEF Holds
<1>5. CASE place \in Returning
  <2>1. Leads(place) = Login(place) \/ Leads(place) = Onboarding(1)
    BY <1>5, LeadsByPage DEF requireSessionUser
  <2>2. place # Authorize(ask)
    BY <1>5, ReturningPage, PagesOf
  <2>3. QED
    BY <1>0, <2>1, <2>2, AskPlaces
<1>6. CASE place.page = "project"
  <2>1. Leads(place) = Login(Absent) \/ Leads(place) = Onboarding(1)
    BY <1>6, LeadsByPage DEF requireSessionUser
  <2>2. QED
    BY <1>0, <2>1, AskPlaces
<1>7. QED
  BY <1>1, <1>2, <1>3, <1>4, <1>5, <1>6, LeadsByPage, PlaceShape

LEMMA SendingCarries ==
    ASSUME VisitTypeOK, NEW p \in Panes, NEW to \in Anywhere, Load(p, to) \/ Follow(p, to),
           Carries(pane[p].at, to)
    PROVE  \A q \in Panes : Carries(pane[q].at, pane'[q].at)
<1>1. Sends(p, to)
  BY SendingTypes
<1>2. \A place : Carries(place, place)
  BY DEF Carries
<1>3. QED
  BY <1>1, <1>2 DEF Sends

LEMMA BrowserCarries ==
    ASSUME SentByClients, VisitTypeOK, VisitNext
    PROVE  \A q \in Panes : Carries(pane[q].at, pane'[q].at)
<1> DEFINE Carried == \A q \in Panes : Carries(pane[q].at, pane'[q].at)
<1>0. /\ \A p \in Panes : pane[p].at \in Anywhere
      /\ \A place : Carries(place, place)
  BY DEF VisitTypeOK, Pane, Carries
<1>1. ASSUME NEW p \in Panes, NEW to \in {At("dashboard"), At("settings"), Landing("any"), Onboarding(1), Onboarding(2),
                                         Login(Onboarding(1)), Login(At("settings"))},
             Load(p, to) \/ Follow(p, to)
      PROVE  Carried
  <2>1. to \in Anywhere
    BY KnownPlaces
  <2>2. \A ask \in Asks : ~Holds(to, ask)
    BY AskPlaces, KnownPlaces, PagesOf
  <2>3. QED
    BY <1>1, <2>1, <2>2, SendingCarries DEF Carries
<1>2. ASSUME NEW p \in Panes, pane[p].at.page = "login",
             LET to == normalizeNextPath(pane[p].at.next)
             IN  Follow(p, to) \/ Follow(p, Google(to))
      PROVE  Carried
  <2> DEFINE next == pane[p].at.next
  <2>1. next \in Nexts /\ pane[p].at = Login(next) /\ normalizeNextPath(next) \in Places
    BY <1>0, <1>2, PlaceShape, AskShapes, NextIsAPlace
  <2>2. PICK to \in {normalizeNextPath(next), Google(normalizeNextPath(next))} : Follow(p, to)
    BY <1>2
  <2>3. ASSUME NEW ask \in Asks, Holds(to, ask) PROVE Holds(pane[p].at, ask)
    <3>1. Holds(normalizeNextPath(next), ask)
      BY <2>1, <2>2, <2>3, AskPlaces
    <3>2. next = Authorize(ask)
      BY <2>1, <3>1, NextCarries
    <3>3. QED
      BY <2>1, <3>2 DEF Holds
  <2>4. to \in Anywhere
    BY <2>1, <2>2, KnownPlaces
  <2>5. QED
    BY <2>2, <2>3, <2>4, SendingCarries DEF Carries
<1>3. CASE SessionEnds
  BY <1>0, <1>3 DEF SessionEnds
<1>4. ASSUME NEW p \in Panes, Serve(p) PROVE Carried
  <2>1. CASE Leads(pane[p].at) = pane[p].at
    <3>1. \A q \in Panes : pane'[q].at = pane[q].at
      BY <1>4, <2>1 DEF Serve, VisitTypeOK, Pane
    <3>2. QED
      BY <1>0, <3>1
  <2>2. CASE Leads(pane[p].at) # pane[p].at
    <3>1. Follow(p, Leads(pane[p].at))
      BY <1>4, <2>2 DEF Serve
    <3>2. QED
      BY <1>0, <3>1, LeadsAnywhere, LeadsCarries, SendingCarries
  <2>3. QED
    BY <2>1, <2>2
<1>5. ASSUME NEW p \in Panes, PressGoogle(p) PROVE Carried
  BY <1>2, <1>5 DEF PressGoogle, Shows
<1>6. ASSUME NEW p \in Panes, GoogleReturns(p) PROVE Carried
  <2> DEFINE next == pane[p].at.next
  <2>1. next \in Places /\ next \in Anywhere /\ pane[p].at = Google(next) /\ Follow(p, next)
    BY <1>0, <1>6, PlaceShape, KnownPlaces, AskShapes DEF GoogleReturns
  <2>2. \A ask \in Asks : Holds(next, ask) => Holds(pane[p].at, ask)
    BY <2>1, AskPlaces DEF Holds
  <2>3. QED
    BY <2>1, <2>2, SendingCarries DEF Carries
<1>7. ASSUME NEW p \in Panes, NEW fresh \in BOOLEAN, DevLogin(p, fresh) PROVE Carried
  <2>1. CASE fresh
    BY <1>1, <1>7, <2>1 DEF DevLogin
  <2>2. CASE ~fresh
    BY <1>2, <1>7, <2>2 DEF DevLogin, Shows
  <2>3. QED
    BY <2>1, <2>2
<1>8. ASSUME NEW p \in Panes, SignOut(p) PROVE Carried
  BY <1>1, <1>8 DEF SignOut
<1>9. ASSUME NEW p \in Panes, NEW place \in browser.opens, Open(p, place) PROVE Carried
  <2>1. browser \in Browsers /\ place \in Places \cup {Login(next) : next \in Nexts}
    BY <1>9, VisitAssumption DEF VisitTypeOK, Browser
  <2>2. place \in Anywhere
    BY <2>1 DEF Anywhere
  <2>3. \A ask \in Asks : place # Authorize(ask) /\ place # Login(Authorize(ask))
    BY <1>9, <2>1 DEF SentByClients
  <2>4. \A ask \in Asks : ~Holds(place, ask)
    BY <2>1, <2>3, AskPlaces
  <2>5. QED
    BY <1>9, <2>2, <2>4, SendingCarries DEF Open, Carries
<1>10. ASSUME NEW p \in Panes, NEW locale \in Locales, ChooseLanguage(p, locale) PROVE Carried
  BY <1>1, <1>10 DEF ChooseLanguage
<1>11. ASSUME NEW p \in Panes, NEW locale \in Locales, UpdateLocale(p, locale) PROVE Carried
  BY <1>1, <1>11 DEF UpdateLocale, requireSessionUser
<1>12. QED
  BY <1>3, <1>4, <1>5, <1>6, <1>7, <1>8, <1>9, <1>10, <1>11 DEF VisitNext

LEMMA DecisionCarries ==
    ASSUME VisitTypeOK, NEW p \in Panes, NEW decision \in Answers, Decide(p, decision)
    PROVE  /\ \A q \in Panes : Carries(pane[q].at, pane'[q].at)
           /\ pane[p].at.ask \in Asks /\ Holds(pane[p].at, pane[p].at.ask)
<1> DEFINE place == pane[p].at
           to == requireSessionUser(Absent, place)
<1>1. place \in Anywhere /\ place.page = "authorize" /\ ~Unproven(place.ask)
  BY DEF Decide, Consents, Shows, VisitTypeOK, Pane
<1>2. place.ask \in Asks /\ place = Authorize(place.ask)
  BY <1>1, PlaceShape, AskShapes
<1>3. PICK there \in {Login(Absent), Onboarding(1), Callback(place.ask, decision)} : Follow(p, there)
  BY <1>1 DEF Decide, requireSessionUser
<1>4. there \in Anywhere
  BY <1>2, <1>3, KnownPlaces DEF Anywhere
<1>5. ASSUME NEW ask \in Asks, Holds(there, ask) PROVE Holds(place, ask)
  <2>1. ~Holds(Login(Absent), ask) /\ ~Holds(Onboarding(1), ask)
    BY AskPlaces, KnownPlaces, PagesOf
  <2>2. place.ask = ask
    BY <1>3, <1>5, <2>1, AskPlaces
  <2>3. QED
    BY <1>2, <2>2 DEF Holds
<1>6. Holds(place, place.ask)
  BY <1>2 DEF Holds
<1>7. QED
  BY <1>2, <1>3, <1>4, <1>5, <1>6, SendingCarries DEF Carries

-----------------------------------------------------------------------------
(* Following the documents, step by step *)

Following == Discovered /\ Numbered /\ Redeemable /\ Admitted /\ FollowingGetsIn

\* The tabs have no other requests than before, and the client has made none.
LEMMA NumberedStays ==
    ASSUME FollowIInv, UNCHANGED door, \A p \in Panes : Carries(pane[p].at, pane'[p].at),
           app'.attempts = app.attempts, app'.ask = app.ask, app'.step \in Asking => app.step \in Asking
    PROVE  Numbered'
<1>1. Numbered
  BY DEF FollowIInv
<1>2. ASSUME NEW p \in Panes PROVE Timely(pane[p].at)'
  BY <1>1, <1>2 DEF Numbered, Timely, Carries
<1>3. QED
  BY <1>1, <1>2, HereStays DEF Numbered

LEMMA DiscoveredStays ==
    ASSUME FollowIInv, UNCHANGED door,
           app'.origin = app.origin, app'.resource = app.resource, app'.issuer = app.issuer,
           app'.step \in Knowing => app.step \in Knowing,
           app'.step \in {"challenged", "resource", "issuer"} => app'.step = app.step
    PROVE  Discovered'
BY HereStays DEF FollowIInv, Discovered, Knowing

LEMMA RedeemableStays ==
    ASSUME FollowIInv, UNCHANGED <<door, code>>,
           app'.attempts = app.attempts, app'.ask = app.ask, app'.step \in Asking => app.step \in Asking,
           app'.step \in {"asking", "code"} => app.step \in {"asking", "code"}
    PROVE  Redeemable'
BY HereStays DEF FollowIInv, Redeemable

\* Finding the server and registering.
LEMMA DiscoveryFollows ==
    ASSUME SoundDoors, FollowIInv,
           \/ Challenged \/ ReadResourceMetadata \/ ReadServerMetadata
           \/ \E metadata \in Metadata : Register(metadata)
    PROVE  Following'
<1>0. /\ app \in App /\ door \in Doors /\ Discovered /\ FollowingGetsIn
      /\ \A place : Carries(place, place)
  BY DEF FollowIInv, TypeIInv, AppTyped, Carries
<1>1. UNCHANGED <<door, code, pane>>
  BY DEF Challenged, ReadResourceMetadata, ReadServerMetadata, Register, visitVars
<1>2. ASSUME app'.attempts = app.attempts, app'.ask = app.ask,
             app'.step \in {"challenged", "resource", "issuer", "registered", "stopped"}
      PROVE  Numbered' /\ Redeemable' /\ Admitted'
  <2>1. app'.step \notin Asking /\ app'.step \notin {"asking", "code", "token", "in"}
    BY <1>2 DEF Asking
  <2>2. QED
    BY <1>0, <1>1, <1>2, <2>1, NumberedStays, RedeemableStays DEF Admitted
<1>3. CASE Challenged
  <2>1. /\ app'.step = "challenged" /\ app'.origin = Here /\ app'.attempts = app.attempts /\ app'.ask = app.ask
    BY <1>0, <1>3 DEF Challenged, App, Here
  <2>2. Discovered' /\ FollowingGetsIn'
    BY <1>1, <2>1, HereStays DEF Discovered, FollowingGetsIn, Is, Knowing
  <2>3. QED
    BY <1>2, <2>1, <2>2 DEF Following
<1>4. CASE ReadResourceMetadata
  <2>1. app.origin = Here /\ serverOrigin(Reach(app.origin)) = Here
    BY <1>0, <1>4, DoorFacts DEF ReadResourceMetadata, Is, Discovered
  <2>2. /\ app'.step = "resource" /\ app'.origin = Here /\ app'.resource = Endpoint
        /\ app'.attempts = app.attempts /\ app'.ask = app.ask
    BY <1>0, <1>4, <2>1 DEF ReadResourceMetadata, App, Endpoint, protectedResourceMetadata
  <2>3. Discovered' /\ FollowingGetsIn'
    BY <1>1, <2>2, HereStays DEF Discovered, FollowingGetsIn, Is, Knowing
  <2>4. QED
    BY <1>2, <2>2, <2>3 DEF Following
<1>5. CASE ReadServerMetadata
  <2>1. app.origin = Here /\ serverOrigin(Reach(app.origin)) = Here /\ app.resource = Endpoint
    BY <1>0, <1>5, DoorFacts DEF ReadServerMetadata, Is, Discovered
  <2>2. app' = [app EXCEPT !.step = "issuer", !.issuer = Here]
    BY <1>5, <2>1 DEF ReadServerMetadata, authorizationServerMetadata
  <2>3. /\ app'.step = "issuer" /\ app'.issuer = Here /\ app'.resource = app.resource
        /\ app'.attempts = app.attempts /\ app'.ask = app.ask
    BY <1>0, <2>2 DEF App
  <2>4. Discovered' /\ FollowingGetsIn'
    BY <1>1, <2>1, <2>3, HereStays DEF Discovered, FollowingGetsIn, Is, Knowing
  <2>5. QED
    BY <1>2, <2>3, <2>4 DEF Following
<1>6. ASSUME NEW metadata \in Metadata, Register(metadata) PROVE Following'
  <2>1. /\ app.step = "issuer"
        /\ app' = [app EXCEPT !.step = IF Registered(metadata) = Absent THEN "stopped" ELSE "registered",
                              !.fault = @ \/ Registered(metadata) = Absent]
    BY <1>6 DEF Register, Is
  <2>2. /\ app'.step = IF Registered(metadata) = Absent THEN "stopped" ELSE "registered"
        /\ app'.resource = app.resource /\ app'.issuer = app.issuer /\ app'.attempts = app.attempts
        /\ app'.ask = app.ask
    BY <1>0, <2>1 DEF App
  <2>3. Registered(metadata) = Absent => app'.fault
    BY <1>0, <2>1 DEF App
  <2>4. app.resource = Endpoint /\ app.issuer = Here
    BY <1>0, <2>1 DEF Discovered
  <2>5. Discovered' /\ FollowingGetsIn'
    BY <1>1, <2>2, <2>3, <2>4, HereStays DEF Discovered, FollowingGetsIn, Is, Knowing
  <2>6. QED
    BY <1>2, <2>2, <2>5 DEF Following
<1>7. QED
  BY <1>3, <1>4, <1>5, <1>6

\* A step of the browser leaves the client be, or takes what it has with the account.
LEMMA BrowseFollows ==
    ASSUME SentByClients, FollowIInv, Browse
    PROVE  Following'
<1>0. app \in App /\ VisitTypeOK
  BY DEF FollowIInv, TypeIInv, AppTyped, ConnectIInv, VisitIInv
<1>1. UNCHANGED door /\ \A p \in Panes : Carries(pane[p].at, pane'[p].at)
  BY <1>0, BrowserCarries DEF Browse
<1>2. CASE code' = [n \in 1..MaxAttempts |-> Absent] /\ app' = [app EXCEPT !.fault = TRUE]
  <2>1. /\ app'.step = app.step /\ app'.origin = app.origin /\ app'.resource = app.resource
        /\ app'.issuer = app.issuer /\ app'.attempts = app.attempts /\ app'.ask = app.ask /\ app'.fault = TRUE
    BY <1>0, <1>2 DEF App
  <2>2. Discovered' /\ Numbered'
    BY <1>1, <2>1, DiscoveredStays, NumberedStays
  <2>3. Redeemable' /\ Admitted' /\ FollowingGetsIn'
    BY <1>2, <2>1 DEF Redeemable, Admitted, FollowingGetsIn
  <2>4. QED
    BY <2>2, <2>3 DEF Following
<1>3. CASE UNCHANGED <<code, issued, app>>
  <2>1. Discovered' /\ Numbered' /\ Redeemable'
    BY <1>1, <1>3, DiscoveredStays, NumberedStays, RedeemableStays
  <2>2. Admitted' /\ FollowingGetsIn'
    BY <1>1, <1>3, HereStays DEF FollowIInv, Admitted, FollowingGetsIn, Is
  <2>3. QED
    BY <2>1, <2>2 DEF Following
<1>4. QED
  BY <1>2, <1>3 DEF Browse

\* A new request has the next number, and no tab and no code has that yet.
LEMMA AskingFollows ==
    ASSUME FollowIInv, NEW p \in Panes, NEW ask \in Asks, SendBrowser(p, ask)
    PROVE  Following'
<1>0. app \in App /\ VisitTypeOK /\ Discovered /\ Numbered /\ Redeemable
  BY DEF FollowIInv, TypeIInv, AppTyped, ConnectIInv, VisitIInv
<1>1. /\ app.step \in {"registered", "narrow", "asking"} /\ ask.challenge = app.attempts + 1
      /\ ask.resource \in {Absent, app.resource, [app.resource EXCEPT !.slash = TRUE]}
      /\ app' = [app EXCEPT !.step = "asking", !.ask = ask, !.attempts = app.attempts + 1]
      /\ Load(p, Authorize(ask)) /\ UNCHANGED <<door, code>>
  BY DEF SendBrowser, stores
<1>2. /\ app'.step = "asking" /\ app'.ask = ask /\ app'.attempts = app.attempts + 1
      /\ app'.origin = app.origin /\ app'.resource = app.resource /\ app'.issuer = app.issuer
      /\ app.attempts \in Nat
  BY <1>0, <1>1 DEF App
<1>3. Discovered'
  BY <1>1, <1>2, DiscoveredStays DEF Knowing
<1>4. app.resource = Endpoint
  BY <1>0, <1>1 DEF Discovered, Knowing
<1>5. ASSUME NEW q \in Panes, NEW one \in Asks, Holds(pane'[q].at, one)
      PROVE  one.challenge \leq app.attempts + 1 /\ (one.challenge = app.attempts + 1 => one = ask)
  <2>1. CASE q = p
    <3>1. pane'[q].at = Authorize(ask)
      BY <1>0, <1>1, <2>1, AskPlaces, KnownPlaces, SendingTypes DEF Sends
    <3>2. one = ask
      BY <1>5, <3>1, AskPlaces
    <3>3. QED
      BY <1>1, <1>2, <3>2
  <2>2. CASE q # p
    <3>1. pane'[q].at = pane[q].at
      BY <1>0, <1>1, <2>2, AskPlaces, KnownPlaces, SendingTypes DEF Sends
    <3>2. one.challenge \leq app.attempts
      BY <1>0, <1>5, <3>1 DEF Numbered, Timely
    <3>3. one.challenge \in Nat
      BY AskTypes, ConnectAssumption
    <3>4. QED
      BY <1>2, <3>2, <3>3
  <2>3. QED
    BY <2>1, <2>2
<1>6. Numbered'
  <2>1. \A q \in Panes : Timely(pane[q].at)'
    BY <1>2, <1>5 DEF Timely
  <2>2. QED
    BY <1>1, <1>2, <1>4, <2>1, HereStays DEF Numbered
<1>7. Redeemable'
  <2>1. ASSUME NEW n \in 1..MaxAttempts, code[n] # Absent PROVE n \leq app.attempts /\ n \in Nat
    <3>1. n \leq app.attempts
      BY <1>0, <2>1 DEF Redeemable
    <3>2. n \in Nat
      BY ConnectAssumption
    <3>3. QED
      BY <3>1, <3>2
  <2>2. ASSUME NEW n \in 1..MaxAttempts, code[n] # Absent
        PROVE  n \leq app.attempts + 1 /\ n # app.attempts + 1
    BY <1>2, <2>1, <2>2
  <2>3. QED
    BY <1>1, <1>2, <2>2 DEF Redeemable
<1>8. Admitted' /\ FollowingGetsIn'
  BY <1>2 DEF Admitted, FollowingGetsIn, Is
<1>9. QED
  BY <1>3, <1>6, <1>7, <1>8 DEF Following

\* The code of an approval of the last request is what that asks for.
LEMMA CodeOfAsk ==
    ASSUME SoundDoors, FollowIInv, app.step \in Asking
    PROVE  NewCode(app.ask) = [uri |-> app.ask.uri, consumed |-> FALSE, scope |-> normalizeScope(app.ask.scope),
                               resource |-> Endpoint]
<1>1. door \in Doors /\ app.issuer = Here
  BY DEF FollowIInv, TypeIInv, AppTyped, Discovered, Asking, Knowing
<1>2. app.ask.resource \in {Absent, Endpoint, [Endpoint EXCEPT !.slash = TRUE]}
  BY DEF FollowIInv, Numbered
<1>3. mcpResourceUrl(originFromHeaders(Reach(app.issuer))) = Endpoint
  BY <1>1, DoorFacts DEF Endpoint
<1>4. app.ask.resource # Absent => canonicalResource(app.ask.resource) = Endpoint
  BY <1>1, <1>2, EndpointFacts
<1>5. QED
  BY <1>3, <1>4 DEF NewCode

LEMMA ApprovalFollows ==
    ASSUME SoundDoors, FollowIInv, NEW p \in Panes, ApproveAuthorization(p)
    PROVE  Following'
<1> DEFINE ask == pane[p].at.ask
           new == NewCode(ask)
           revokes == issued # Absent /\ issued.scope # new.scope
           mistake == revokes /\ ask # app.ask
<1>0. /\ app \in App /\ VisitTypeOK /\ Numbered /\ Redeemable /\ Admitted /\ FollowingGetsIn /\ Vouched
  BY DEF FollowIInv, TypeIInv, AppTyped, ConnectIInv, VisitIInv
<1>1. /\ UNCHANGED door /\ ask \in Asks /\ Holds(pane[p].at, ask)
      /\ \A q \in Panes : Carries(pane[q].at, pane'[q].at)
  BY <1>0, DecisionCarries DEF ApproveAuthorization, Answers, Decide
<1>2. CASE Decided(p)
  <2>1. /\ code' = [code EXCEPT ![ask.challenge] = new]
        /\ issued' = (IF revokes THEN Absent ELSE issued)
        /\ app' = [app EXCEPT !.fault = app.fault \/ mistake]
    BY <1>2 DEF ApproveAuthorization
  <2>2. ask.challenge \in 1..MaxAttempts /\ ask.challenge \leq app.attempts
        /\ (ask.challenge = app.attempts => ask = app.ask)
    BY <1>0, <1>1, AskTypes DEF Numbered, Timely
  <2>3. app.step \in Asking /\ ask = app.ask =>
            new = [uri |-> app.ask.uri, consumed |-> FALSE, scope |-> normalizeScope(app.ask.scope),
                   resource |-> Endpoint]
    BY CodeOfAsk
  <2>4. /\ app'.step = app.step /\ app'.origin = app.origin /\ app'.resource = app.resource
        /\ app'.issuer = app.issuer /\ app'.attempts = app.attempts /\ app'.ask = app.ask
    BY <1>0, <2>1 DEF App
  <2>5. ~app'.fault => ~app.fault /\ ~mistake
    <3> HIDE DEF mistake
    <3>1. app'.fault = (app.fault \/ mistake)
      BY <1>0, <2>1 DEF App
    <3>2. QED
      BY <3>1
  <2>6. app.fault => app'.fault
    <3> HIDE DEF mistake
    <3>1. app'.fault = (app.fault \/ mistake)
      BY <1>0, <2>1 DEF App
    <3>2. QED
      BY <3>1
  <2>7. Discovered' /\ Numbered'
    BY <1>1, <2>4, DiscoveredStays, NumberedStays
  <2>8. Redeemable'
    <3>1. ASSUME NEW n \in 1..MaxAttempts, code'[n] # Absent
          PROVE  /\ n \leq app.attempts
                 /\ app.step \in Asking /\ n = app.attempts =>
                       code'[n] = [uri |-> app.ask.uri, consumed |-> code'[n].consumed,
                                   scope |-> normalizeScope(app.ask.scope), resource |-> Endpoint]
                 /\ app.step \in {"asking", "code"} /\ n = app.attempts => code'[n].consumed = FALSE
      <4>1. CASE n = ask.challenge
        <5>1. code'[n] = new /\ new.consumed = FALSE
          BY <1>0, <2>1, <4>1 DEF Vouched, NewCode
        <5> HIDE DEF new
        <5>2. QED
          BY <2>2, <2>3, <4>1, <5>1
      <4>2. CASE n # ask.challenge
        <5>1. code'[n] = code[n]
          BY <1>0, <2>1, <4>2 DEF Vouched
        <5>2. QED
          BY <1>0, <3>1, <5>1 DEF Redeemable
      <4>3. QED
        BY <4>1, <4>2
    <3>2. Endpoint' = Endpoint
      BY <1>1, HereStays
    <3>3. QED
      BY <2>4, <3>1, <3>2 DEF Redeemable
  <2>9. Admitted'
    <3> SUFFICES ASSUME app.step \in {"token", "in"}, ~app'.fault
                 PROVE  /\ issued' # Absent /\ issued'.scope = normalizeScope(app.ask.scope)
                        /\ issued'.resource = Endpoint
      BY <1>1, <2>4, HereStays DEF Admitted
    <3>1. issued # Absent /\ issued.scope = normalizeScope(app.ask.scope) /\ issued.resource = Endpoint
      BY <1>0, <2>5 DEF Admitted
    <3>2. ask = app.ask => new.scope = normalizeScope(app.ask.scope)
      BY DEF NewCode
    <3> HIDE DEF new
    <3>3. ~revokes
      BY <2>5, <3>1, <3>2
    <3>4. QED
      BY <2>1, <3>1, <3>3
  <2>10. FollowingGetsIn'
    BY <1>0, <2>4, <2>6 DEF FollowingGetsIn, Is
  <2>11. QED
    BY <2>7, <2>8, <2>9, <2>10 DEF Following
<1>3. CASE ~Decided(p)
  <2>1. UNCHANGED <<code, issued, app>>
    BY <1>3 DEF ApproveAuthorization
  <2>2. Discovered' /\ Numbered' /\ Redeemable'
    BY <1>1, <2>1, DiscoveredStays, NumberedStays, RedeemableStays
  <2>3. QED
    BY <1>0, <1>1, <2>1, <2>2, HereStays DEF Following, Admitted, FollowingGetsIn, Is
<1>4. QED
  BY <1>2, <1>3

LEMMA DenialFollows ==
    ASSUME FollowIInv, NEW p \in Panes, DenyAuthorization(p)
    PROVE  Following'
<1>0. VisitTypeOK /\ Admitted /\ FollowingGetsIn
  BY DEF FollowIInv, TypeIInv, ConnectIInv, VisitIInv
<1>1. UNCHANGED <<door, code, issued, app>> /\ \A q \in Panes : Carries(pane[q].at, pane'[q].at)
  BY <1>0, DecisionCarries DEF DenyAuthorization, Answers, Decide
<1>2. Discovered' /\ Numbered' /\ Redeemable'
  BY <1>1, DiscoveredStays, NumberedStays, RedeemableStays
<1>3. QED
  BY <1>0, <1>1, <1>2, HereStays DEF Following, Admitted, FollowingGetsIn, Is

\* The callback names the issuer of the documents.
LEMMA CallbackFollows ==
    ASSUME SoundDoors, FollowIInv, NEW p \in Panes, ReceiveCallback(p)
    PROVE  Following'
<1>0. app \in App /\ door \in Doors /\ Discovered /\ \A place : Carries(place, place)
  BY DEF FollowIInv, TypeIInv, AppTyped, Carries
<1>1. UNCHANGED <<door, code, pane>> /\ app.step = "asking"
  BY DEF ReceiveCallback, visitVars, Is
<1>2. originFromHeaders(Reach(app.issuer)) = app.issuer
  BY <1>0, <1>1, DoorFacts DEF Discovered, Knowing
<1>3. \/ app' = [app EXCEPT !.step = "denied"] \/ app' = [app EXCEPT !.step = "stopped", !.fault = TRUE]
      \/ app' = [app EXCEPT !.step = "code"]
  BY <1>2 DEF ReceiveCallback
<1>4. /\ app'.step \in {"denied", "stopped", "code"} /\ (app'.step = "stopped" => app'.fault)
      /\ app'.origin = app.origin /\ app'.resource = app.resource
      /\ app'.issuer = app.issuer /\ app'.attempts = app.attempts /\ app'.ask = app.ask
  BY <1>0, <1>3 DEF App
<1>5. Discovered'
  BY <1>1, <1>4, DiscoveredStays DEF Knowing
<1>6. Numbered' /\ Redeemable'
  BY <1>0, <1>1, <1>4, NumberedStays, RedeemableStays DEF Asking
<1>7. Admitted' /\ FollowingGetsIn'
  BY <1>4 DEF Admitted, FollowingGetsIn, Is
<1>8. QED
  BY <1>5, <1>6, <1>7 DEF Following

\* An exchange of what belongs to the code gives the token that the code is for.
LEMMA ExchangeFollows ==
    ASSUME SoundDoors, FollowIInv, NEW uri, NEW verifier, NEW resource, Exchange(uri, verifier, resource)
    PROVE  Following'
<1> DEFINE n == app.ask.challenge
           token == RedeemedCode(code[n], uri, verifier, n, resource)
           step == IF token = Absent THEN "stopped" ELSE "token"
           fault == app.fault \/ uri # app.ask.uri \/ verifier # n \/ resource \notin {Absent, app.resource}
<1>0. /\ app \in App /\ door \in Doors /\ Discovered /\ Numbered /\ Redeemable /\ Vouched
      /\ \A place : Carries(place, place)
  BY DEF FollowIInv, TypeIInv, AppTyped, ConnectIInv, Carries
<1>1. /\ app.step = "code" /\ code[n] # Absent
      /\ app' = [app EXCEPT !.step = step, !.fault = fault]
      /\ code' = [code EXCEPT ![n].consumed = TRUE]
      /\ issued' = (IF token = Absent THEN issued ELSE token)
      /\ UNCHANGED <<door, pane>>
  BY DEF Exchange, Is, visitVars
<1>2. app.ask \in Asks /\ n = app.attempts /\ n \in 1..MaxAttempts /\ app.resource = Endpoint
  BY <1>0, <1>1, AskTypes DEF Numbered, Discovered, Asking, Knowing
<1>3. /\ code[n] = [uri |-> app.ask.uri, consumed |-> FALSE, scope |-> normalizeScope(app.ask.scope),
                    resource |-> Endpoint]
  BY <1>0, <1>1, <1>2 DEF Redeemable, Asking
<1>4. /\ app'.step = step /\ app'.fault = fault /\ app'.origin = app.origin /\ app'.resource = app.resource
      /\ app'.issuer = app.issuer /\ app'.attempts = app.attempts /\ app'.ask = app.ask
  BY <1>0, <1>1 DEF App
<1>5. Endpoint \in Urls /\ Endpoint' = Endpoint /\ canonicalResource(Endpoint) = Endpoint
  BY <1>0, <1>1, DoorFacts, EndpointFacts, HereStays
<1>6. Discovered'
  BY <1>1, <1>4, DiscoveredStays DEF Knowing
<1>7. Numbered'
  BY <1>0, <1>1, <1>4, NumberedStays DEF Asking
<1>8. Redeemable'
  <2>1. \A m \in 1..MaxAttempts : code'[m] = IF m = n THEN [code[n] EXCEPT !.consumed = TRUE] ELSE code[m]
    BY <1>0, <1>1 DEF Vouched
  <2>2. [code[n] EXCEPT !.consumed = TRUE] =
            [uri |-> app.ask.uri, consumed |-> TRUE, scope |-> normalizeScope(app.ask.scope), resource |-> Endpoint]
    <3>1. ASSUME NEW row \in CodeRow
          PROVE  [row EXCEPT !.consumed = TRUE] =
                     [uri |-> row.uri, consumed |-> TRUE, scope |-> row.scope, resource |-> row.resource]
      <4> DEFINE used == [row EXCEPT !.consumed = TRUE]
                 fresh == [uri |-> row.uri, consumed |-> TRUE, scope |-> row.scope, resource |-> row.resource]
      <4>1. /\ used \in CodeRow /\ used.uri = row.uri /\ used.consumed = TRUE /\ used.scope = row.scope
            /\ used.resource = row.resource
        BY <3>1 DEF CodeRow
      <4>2. fresh \in CodeRow
        BY <3>1 DEF CodeRow
      <4>3. /\ fresh.uri = row.uri /\ fresh.consumed = TRUE /\ fresh.scope = row.scope
            /\ fresh.resource = row.resource
        OBVIOUS
      <4> HIDE DEF used, fresh
      <4>4. used = fresh
        BY <4>1, <4>2, <4>3 DEF CodeRow
      <4>5. QED
        BY <4>4 DEF used, fresh
    <3>2. code[n] \in CodeRow
      BY <1>1, <1>2 DEF FollowIInv, TypeIInv, RowsTyped
    <3>3. /\ code[n].uri = app.ask.uri /\ code[n].scope = normalizeScope(app.ask.scope)
          /\ code[n].resource = Endpoint
      BY <1>3
    <3>4. QED
      BY <3>1, <3>2, <3>3
  <2>3. app'.step \notin {"asking", "code"}
    BY <1>4
  <2>4. ASSUME NEW m \in 1..MaxAttempts, code'[m] # Absent
        PROVE  /\ m \leq app.attempts
               /\ m = app.attempts =>
                     code'[m] = [uri |-> app.ask.uri, consumed |-> code'[m].consumed,
                                 scope |-> normalizeScope(app.ask.scope), resource |-> Endpoint]
    <3>1. CASE m = n
      <4>1. code'[m] = [uri |-> app.ask.uri, consumed |-> TRUE, scope |-> normalizeScope(app.ask.scope),
                        resource |-> Endpoint]
        BY <2>1, <2>2, <3>1
      <4>2. n \leq app.attempts
        BY <1>0, <1>1, <1>2 DEF Redeemable
      <4>3. QED
        BY <3>1, <4>1, <4>2
    <3>2. CASE m # n
      BY <1>0, <1>2, <2>1, <2>4, <3>2 DEF Redeemable
    <3>3. QED
      BY <3>1, <3>2
  <2>5. QED
    BY <1>4, <1>5, <2>3, <2>4 DEF Redeemable
<1>9. token # Absent => token.scope = normalizeScope(app.ask.scope) /\ token.resource = Endpoint
  BY <1>3 DEF RedeemedCode
<1>10. ~fault => token # Absent
  <2> SUFFICES ASSUME ~fault PROVE token # Absent
    OBVIOUS
  <2>1. uri = app.ask.uri /\ verifier = n /\ resource \in {Absent, Endpoint}
    BY <1>2
  <2>2. token = [challenge |-> n, scope |-> normalizeScope(app.ask.scope), resource |-> Endpoint]
    BY <1>3, <1>5, <2>1 DEF RedeemedCode, verifyCodeChallenge
  <2>3. [challenge |-> n, scope |-> normalizeScope(app.ask.scope), resource |-> Endpoint] \in Token
    BY <1>2, <1>5, ScopeTypes, ConnectAssumption DEF Token
  <2>4. QED
    BY <2>2, <2>3, ConnectAssumption
<1> HIDE DEF token, fault
<1>11. Admitted'
  <2>1. app'.step \in {"token", "in"} => token # Absent
    BY <1>4
  <2>2. QED
    BY <1>1, <1>4, <1>5, <1>9, <2>1 DEF Admitted
<1>12. FollowingGetsIn'
  BY <1>4, <1>10 DEF FollowingGetsIn, Is
<1>13. QED
  BY <1>6, <1>7, <1>8, <1>11, <1>12 DEF Following

\* The token opens the door.
LEMMA CallFollows ==
    ASSUME SoundDoors, FollowIInv, Call
    PROVE  Following'
<1>0. /\ app \in App /\ door \in Doors /\ Admitted /\ \A place : Carries(place, place)
  BY DEF FollowIInv, TypeIInv, AppTyped, Carries
<1>1. /\ app.step \in {"token", "in"} /\ UNCHANGED <<door, code, issued, pane>>
      /\ app' = [app EXCEPT !.step = IF issued = Absent \/ ~resourceMatches(issued.resource, Endpoint)
                                     THEN "stopped"
                                     ELSE IF ~scopeSatisfies(issued.scope, SCOPES) THEN "narrow" ELSE "in"]
  BY DEF Call, Goes, visitVars, Endpoint, Here
<1>2. /\ app'.step \in {"stopped", "narrow", "in"}
      /\ (app'.step = "stopped" => issued = Absent \/ ~resourceMatches(issued.resource, Endpoint))
      /\ app'.fault = app.fault /\ app'.origin = app.origin /\ app'.resource = app.resource
      /\ app'.issuer = app.issuer /\ app'.attempts = app.attempts /\ app'.ask = app.ask
  BY <1>0, <1>1 DEF App
<1>3. resourceMatches(Endpoint, Endpoint) /\ Endpoint' = Endpoint
  BY <1>0, <1>1, EndpointFacts, HereStays
<1>4. ~app.fault => issued # Absent /\ issued.scope = normalizeScope(app.ask.scope) /\ issued.resource = Endpoint
  BY <1>0, <1>1 DEF Admitted
<1>5. Discovered' /\ Numbered' /\ Redeemable'
  BY <1>0, <1>1, <1>2, DiscoveredStays, NumberedStays, RedeemableStays DEF Asking, Knowing
<1>6. Admitted'
  BY <1>1, <1>2, <1>3, <1>4 DEF Admitted
<1>7. FollowingGetsIn'
  BY <1>2, <1>3, <1>4 DEF FollowingGetsIn, Is
<1>8. QED
  BY <1>5, <1>6, <1>7 DEF Following

LEMMA FollowStep ==
    ASSUME SoundDoors, SentByClients
    PROVE  FollowIInv /\ [ConnectNext]_connectVars => FollowIInv'
<1> SUFFICES ASSUME FollowIInv, [ConnectNext]_connectVars PROVE FollowIInv'
  OBVIOUS
<1>1. TypeIInv'
  BY TypeStep DEF FollowIInv
<1>2. CASE UNCHANGED connectVars
  BY <1>1, <1>2, HereStays DEF FollowIInv, connectVars, Discovered, Numbered, Timely, Redeemable, Admitted,
                          FollowingGetsIn, Is
<1>3. CASE ConnectNext
  <2>1. Following'
    BY <1>3, DiscoveryFollows, BrowseFollows, AskingFollows, ApprovalFollows, DenialFollows, CallbackFollows,
       ExchangeFollows, CallFollows DEF ConnectNext
  <2>2. QED
    BY <1>1, <2>1 DEF FollowIInv, Following
<1>4. QED
  BY <1>2, <1>3

LEMMA FollowInitial == ConnectInit => FollowIInv
<1> SUFFICES ASSUME ConnectInit PROVE Discovered /\ Numbered /\ Redeemable /\ Admitted /\ FollowingGetsIn
  BY TypeInitial DEF FollowIInv
<1>1. /\ app.step = "start" /\ \A n \in 1..MaxAttempts : code[n] = Absent
      /\ \A p \in Panes : pane[p].at = Landing("any")
  BY DEF ConnectInit, VisitInit
<1>2. ASSUME NEW ask \in Asks PROVE ~Holds(Landing("any"), ask)
  BY AskPlaces, KnownPlaces, PagesOf
<1>3. Numbered
  BY <1>1, <1>2 DEF Numbered, Timely, Asking
<1>4. QED
  BY <1>1, <1>3 DEF Discovered, Redeemable, Admitted, FollowingGetsIn, Is, Knowing

\* A client that does what the documents say, and makes no mistake, is not turned away: the
\* issuer is the one it fetched the documents from, in the callback too, and the token opens
\* the endpoint it came to, by any doors whose protocol is the deployment's, in any order in
\* which the tabs of the user get to its requests.
THEOREM FollowersGetIn ==
    ASSUME SoundDoors, SentByClients
    PROVE  ConnectSpec => []FollowingGetsIn
<1>1. FollowIInv /\ [ConnectNext]_connectVars => FollowIInv'
  BY FollowStep
<1>2. FollowIInv => FollowingGetsIn
  BY DEF FollowIInv
<1>3. QED
  BY <1>1, <1>2, FollowInitial, PTL DEF ConnectSpec

-----------------------------------------------------------------------------
(* The tools *)

LEMMA ToolNames ==
    /\ DOMAIN WorkTools = {"help", "list_projects", "create_project", "update_project", "get_project_context",
                           "get_next_generation_context", "consult_title"}
    /\ DOMAIN SaveTools = {"save_scene", "save_character", "save_character_note", "save_world_note",
                           "save_foreshadowing", "save_mystery", "save_plot_thread", "save_revision_todo",
                           "save_story_state"}
    /\ DOMAIN UndoTools = {"delete_project_data", "rollback_command", "undo_last_command"}
    /\ DOMAIN ReadTools = {"list_chapters", "list_scenes", "list_characters", "list_world_notes",
                           "list_foreshadowings", "list_mysteries", "list_plot_threads", "list_revision_todos",
                           "list_story_states", "get_scene", "get_character", "list_character_notes",
                           "get_latest_story_state", "export_project"}
    /\ DOMAIN TimelineTools = {"list_timeline_events", "save_timeline_event", "list_timeline_tags",
                               "save_timeline_tag"}
BY DEF WorkTools, SaveTools, UndoTools, ReadTools, TimelineTools

LEMMA ToolOf ==
    /\ MCP_TOOLS["create_project"] = WorkTools["create_project"]
    /\ \A name \in DOMAIN SaveTools : MCP_TOOLS[name] = SaveTools[name]
    /\ \A name \in {"save_timeline_event", "save_timeline_tag"} : MCP_TOOLS[name] = TimelineTools[name]
<1>1. \A name \in DOMAIN SaveTools : name \notin DOMAIN WorkTools \cup DOMAIN UndoTools \cup DOMAIN ReadTools
                                                   \cup DOMAIN TimelineTools
  BY ToolNames
<1>2. \A name \in {"save_timeline_event", "save_timeline_tag"} :
          /\ name \in DOMAIN TimelineTools
          /\ name \notin DOMAIN WorkTools \cup DOMAIN UndoTools \cup DOMAIN ReadTools \cup DOMAIN SaveTools
  BY ToolNames
<1>3. /\ "create_project" \in DOMAIN WorkTools
      /\ "create_project" \notin DOMAIN UndoTools \cup DOMAIN ReadTools \cup DOMAIN SaveTools
                                 \cup DOMAIN TimelineTools
  BY ToolNames
<1>4. QED
  BY <1>1, <1>2, <1>3 DEF MCP_TOOLS

\* What the schema of a tool that saves requires is what its handler asks for.
LEMMA Required ==
    /\ MCP_TOOLS["create_project"].required = {"title"}
    /\ MCP_TOOLS["save_scene"].required = {"projectId", "title", "body"}
    /\ MCP_TOOLS["save_character_note"].required = {"projectId", "body"}
    /\ MCP_TOOLS["save_timeline_event"].required = {"projectId", "title"}
    /\ MCP_TOOLS["save_timeline_tag"].required = {"projectId", "name"}
    /\ \A name \in actionMap : \E kind \in Kinds :
          MCP_TOOLS[name].kinds = {kind} /\ Schemas[kind].required \subseteq MCP_TOOLS[name].required
<1>1. MCP_TOOLS["create_project"].required = {"title"}
  BY ToolOf DEF WorkTools, Tool
<1>2. \A does, kinds, required : Tool(does, kinds, required).kinds = kinds /\ Tool(does, kinds, required).required = required
  BY DEF Tool
<1>3. ASSUME NEW name \in DOMAIN SaveTools PROVE MCP_TOOLS[name] = SaveTools[name]
  BY ToolOf
<1>4. MCP_TOOLS["save_scene"].required = {"projectId", "title", "body"}
  BY <1>2, <1>3, ToolNames DEF SaveTools, In
<1>5. MCP_TOOLS["save_character_note"].required = {"projectId", "body"}
  BY <1>2, <1>3, ToolNames DEF SaveTools, In
<1>6. /\ MCP_TOOLS["save_timeline_event"].required = {"projectId", "title"}
      /\ MCP_TOOLS["save_timeline_tag"].required = {"projectId", "name"}
  BY <1>2, ToolOf DEF TimelineTools, In
<1>7. ASSUME NEW name \in actionMap
      PROVE  \E kind \in Kinds :
                MCP_TOOLS[name].kinds = {kind} /\ Schemas[kind].required \subseteq MCP_TOOLS[name].required
  <2>0. \A fields : Schema(fields).required = fields
    BY DEF Schema
  <2>1. MCP_TOOLS[name] = SaveTools[name]
    BY <1>3, ToolNames DEF actionMap
  <2>2. CASE name = "save_world_note"
    BY <1>2, <2>0, <2>1, <2>2 DEF SaveTools, In, Schemas, Kinds
  <2>3. CASE name = "save_foreshadowing"
    BY <1>2, <2>0, <2>1, <2>3 DEF SaveTools, In, Schemas, Kinds
  <2>4. CASE name = "save_mystery"
    BY <1>2, <2>0, <2>1, <2>4 DEF SaveTools, In, Schemas, Kinds
  <2>5. CASE name = "save_plot_thread"
    BY <1>2, <2>0, <2>1, <2>5 DEF SaveTools, In, Schemas, Kinds
  <2>6. CASE name = "save_revision_todo"
    BY <1>2, <2>0, <2>1, <2>6 DEF SaveTools, In, Schemas, Kinds
  <2>7. CASE name = "save_story_state"
    BY <1>2, <2>0, <2>1, <2>7 DEF SaveTools, In, Schemas, Kinds
  <2>8. QED
    BY <2>2, <2>3, <2>4, <2>5, <2>6, <2>7 DEF actionMap
<1>8. QED
  BY <1>1, <1>4, <1>5, <1>6, <1>7

LEMMA RowsNeed ==
    /\ Schemas["PROJECT"].required = {"title"}
    /\ Schemas["SCENE"].required = {"title", "body"}
    /\ Schemas["CHARACTER"].required = {"name"}
    /\ Schemas["CHARACTER_NOTE"].required = {"body"}
    /\ Schemas["TIMELINE_EVENT"].required = {"title"}
    /\ Schemas["TIMELINE_TAG"].required = {"name"}
<1>1. \A fields : Schema(fields).required = fields /\ [Schema(fields) EXCEPT !.filled = {"title"}].required = fields
  BY DEF Schema
<1>2. QED
  BY <1>1 DEF Schemas

\* A call that is let in gives what is required, but for an action that saves a scene.
LEMMA LetIn ==
    ASSUME NEW name, NEW call \in Calls(name)
    PROVE  /\ call.tool = name
           /\ name # "save_scene" => MCP_TOOLS[name].required \subseteq call.given
           /\ toolInputSchema(call) =>
                 /\ MCP_TOOLS[name].required \subseteq call.given
                 /\ name = "save_character" => call.given \cap {"characterId", "name"} # {}
<1>1. call.tool = name
  <2>1. PICK given, empty, excess : call = Calling(name, given, empty, excess)
    BY DEF Calls, Callings
  <2>2. QED
    BY <2>1 DEF Calling
<1>2. toolInputSchema(call) \/ DocumentedAction(call)
  BY DEF Calls
<1>3. QED
  BY <1>1, <1>2 DEF toolInputSchema, DocumentedAction

LEMMA ThereAreTools ==
    /\ {"create_project", "update_project", "save_scene", "save_character", "save_character_note",
        "save_timeline_event", "save_timeline_tag", "delete_project_data", "rollback_command",
        "undo_last_command"} \cup actionMap \subseteq DOMAIN MCP_TOOLS
    /\ \A name \in DOMAIN MCP_TOOLS : AllCalls[name] = Calls(name)
<1>1. DOMAIN WorkTools \cup DOMAIN SaveTools \cup DOMAIN UndoTools \cup DOMAIN TimelineTools \subseteq DOMAIN MCP_TOOLS
  BY DEF MCP_TOOLS
<1>2. QED
  BY <1>1, ToolNames DEF actionMap, AllCalls

\* Values that are neither empty nor out of bounds trip no check of their length.
LEMMA FitsPasses ==
    ASSUME NEW call, Fits(call)
    PROVE  /\ ~Unnamed(call) /\ \A kind : ~Exceeds(call, kind)
           /\ \A field : field \notin call.empty \cup call.excess
           /\ \A kind : ~Exceeds(Aliased(call), kind)
<1>1. call.empty = {} /\ call.excess = {}
  BY DEF Fits
<1>2. Aliased(call).empty = {} /\ Aliased(call).excess = {}
  BY <1>1 DEF Aliased, Calling
<1>3. QED
  BY <1>1, <1>2 DEF Unnamed, Exceeds

-----------------------------------------------------------------------------
(* Calls that are refused as invalid *)

\* What SchemasSuffice lets be refused.
Excused(call) ==
    Fits(call) =>
        \/ call.tool = "delete_project_data" /\ "targetId" \notin call.given
        \/ ~toolInputSchema(call) /\ call.tool \in {"save_scene", "save_character"}

LEMMA RefusedExcused ==
    ASSUME NEW call, NEW status, Refused(call, status), status = 400 => Excused(call)
    PROVE  SchemasSuffice'
<1>1. CASE status = 400
  <2>1. invalid' = {Complaint(call)} /\ Excused(call)
    BY <1>1 DEF Refused
  <2>2. /\ Complaint(call).tool = call.tool /\ Complaint(call).letIn = toolInputSchema(call)
        /\ Complaint(call).fits = Fits(call) /\ Complaint(call).names = ("targetId" \in call.given)
    BY DEF Complaint
  <2>3. QED
    BY <2>1, <2>2 DEF SchemasSuffice, Excused
<1>2. CASE status # 400
  BY <1>2 DEF Refused, SchemasSuffice
<1>3. QED
  BY <1>1, <1>2

LEMMA SavedExcused ==
    ASSUME NEW call, NEW d, NEW id, Saved(call, d, id)
    PROVE  SchemasSuffice'
BY DEF Saved, Answer, SchemasSuffice

LEMMA UnfitExcused ==
    ASSUME NEW call
    PROVE  /\ Unnamed(call) => Excused(call)
           /\ \A kind : Exceeds(call, kind) => Excused(call)
           /\ \A field : field \in call.empty \cup call.excess => Excused(call)
BY FitsPasses DEF Excused

\* A call whose values fit and that gives what is required has what the row needs.
LEMMA HasWhatItNeeds ==
    /\ \A call \in Calls("create_project") : Fails(call, "PROJECT") => Excused(call)
    /\ \A call \in Calls("save_character_note") : Fails(call, "CHARACTER_NOTE") => Excused(call)
    /\ \A call \in Calls("save_timeline_event") : Fails(call, "TIMELINE_EVENT") => Excused(call)
    /\ \A call \in Calls("save_timeline_tag") : Fails(call, "TIMELINE_TAG") => Excused(call)
    /\ \A call \in Calls("save_scene") : Fails(Aliased(call), "SCENE") => Excused(call)
    /\ \A call \in Calls("save_character") : ~Has(call, "characterId") /\ Fails(call, "CHARACTER") => Excused(call)
<1>1. \A call \in Calls("create_project") : Fails(call, "PROJECT") => Excused(call)
  BY LetIn, Required, RowsNeed, UnfitExcused DEF Fails
<1>2. \A call \in Calls("save_character_note") : Fails(call, "CHARACTER_NOTE") => Excused(call)
  BY LetIn, Required, RowsNeed, UnfitExcused DEF Fails
<1>3. \A call \in Calls("save_timeline_event") : Fails(call, "TIMELINE_EVENT") => Excused(call)
  BY LetIn, Required, RowsNeed, UnfitExcused DEF Fails
<1>4. \A call \in Calls("save_timeline_tag") : Fails(call, "TIMELINE_TAG") => Excused(call)
  BY LetIn, Required, RowsNeed, UnfitExcused DEF Fails
<1>5. ASSUME NEW call \in Calls("save_scene"), Fails(Aliased(call), "SCENE"), Fits(call), toolInputSchema(call)
      PROVE  FALSE
  <2>1. {"title", "body"} \subseteq call.given
    BY <1>5, LetIn, Required
  <2>2. {"title", "body"} \subseteq Aliased(call).given
    BY <2>1 DEF Aliased, Calling
  <2>3. QED
    BY <1>5, <2>2, FitsPasses, RowsNeed DEF Fails
<1>6. ASSUME NEW call \in Calls("save_character"), ~Has(call, "characterId"), Fails(call, "CHARACTER"), Fits(call),
             toolInputSchema(call)
      PROVE  FALSE
  <2>1. "name" \in call.given
    BY <1>6, LetIn, FitsPasses DEF Has
  <2>2. QED
    BY <1>6, <2>1, FitsPasses, RowsNeed DEF Fails
<1>7. /\ \A call \in Calls("save_scene") : Fails(Aliased(call), "SCENE") => Excused(call)
      /\ \A call \in Calls("save_character") : ~Has(call, "characterId") /\ Fails(call, "CHARACTER") => Excused(call)
  BY <1>5, <1>6, LetIn DEF Excused
<1>8. QED
  BY <1>1, <1>2, <1>3, <1>4, <1>7

LEMMA RecordHasWhatItNeeds ==
    ASSUME NEW name \in actionMap, NEW call \in Calls(name),
           Fails(call, CHOOSE k \in MCP_TOOLS[call.tool].kinds : TRUE)
    PROVE  Excused(call)
<1>1. call.tool = name /\ MCP_TOOLS[name].required \subseteq call.given
  BY LetIn DEF actionMap
<1>2. PICK kind \in Kinds : MCP_TOOLS[name].kinds = {kind} /\ Schemas[kind].required \subseteq MCP_TOOLS[name].required
  BY Required
<1>3. (CHOOSE k \in MCP_TOOLS[call.tool].kinds : TRUE) = kind
  BY <1>1, <1>2
<1>4. QED
  BY <1>1, <1>2, <1>3, UnfitExcused DEF Fails

LEMMA SaveExcused ==
    /\ \A call \in Calls("create_project") : \A title, limited : CreateProject(call, title, limited) => SchemasSuffice'
    /\ \A call, work, title : UpdateProject(call, work, title) => SchemasSuffice'
    /\ \A call \in Calls("save_scene") : \A work, title, chapter, chapterTitle, limited, taken :
          SaveScene(call, work, title, chapter, chapterTitle, limited, taken) => SchemasSuffice'
    /\ \A call \in Calls("save_character") : \A work, id, title, limited :
          SaveCharacter(call, work, id, title, limited) => SchemasSuffice'
    /\ \A call \in Calls("save_character_note") : \A work, id, name, title, limited :
          SaveCharacterNote(call, work, id, name, title, limited) => SchemasSuffice'
    /\ \A name \in actionMap : \A call \in Calls(name) : \A work, title, finished, limited :
          SaveRecord(call, work, title, finished, limited) => SchemasSuffice'
    /\ \A call \in Calls("save_timeline_event") : \A work, title, asked :
          SaveTimelineEvent(call, work, title, asked) => SchemasSuffice'
    /\ \A call \in Calls("save_timeline_tag") : \A work, title : SaveTimelineTag(call, work, title) => SchemasSuffice'
    /\ \A call \in Calls("delete_project_data") : \A kind, work, id :
          DeleteProjectData(call, kind, work, id) => SchemasSuffice'
    /\ \A call, work, k, force : Rollback(call, work, k, force) => SchemasSuffice'
<1>0. \A call, status : Refused(call, status) /\ status # 400 => SchemasSuffice'
  BY RefusedExcused
<1>1. \A call : Refused(call, 400) /\ Excused(call) => SchemasSuffice'
  BY RefusedExcused
<1>2. \A call, d, id : Saved(call, d, id) => SchemasSuffice'
  BY SavedExcused
<1>3. \A call, ids : Answer(call, ids) => SchemasSuffice'
  BY DEF Answer, SchemasSuffice
<1>4. ASSUME NEW call \in Calls("create_project"), NEW title, NEW limited, CreateProject(call, title, limited)
      PROVE  SchemasSuffice'
  BY <1>0, <1>1, <1>2, <1>4, HasWhatItNeeds DEF CreateProject
<1>5. ASSUME NEW call, NEW work, NEW title, UpdateProject(call, work, title) PROVE SchemasSuffice'
  BY <1>0, <1>1, <1>2, <1>5, UnfitExcused DEF UpdateProject
<1>6. ASSUME NEW call \in Calls("save_scene"), NEW work, NEW title, NEW chapter, NEW chapterTitle, NEW limited,
             NEW taken, SaveScene(call, work, title, chapter, chapterTitle, limited, taken)
      PROVE  SchemasSuffice'
  <2>1. \/ Refused(call, 404) \/ Refused(call, 403) \/ Refused(call, 500)
        \/ Refused(call, 400) /\ (Unnamed(call) \/ Fails(Aliased(call), "SCENE"))
        \/ \E d, id : Saved(call, d, id)
    BY <1>6, Zenon DEF SaveScene
  <2>2. QED
    BY <1>0, <1>1, <1>2, <2>1, HasWhatItNeeds, UnfitExcused
<1>7. ASSUME NEW call \in Calls("save_character"), NEW work, NEW id, NEW title, NEW limited,
             SaveCharacter(call, work, id, title, limited)
      PROVE  SchemasSuffice'
  <2>1. \/ Refused(call, 404) \/ Refused(call, 403) \/ Refused(call, 500)
        \/ Refused(call, 400) /\ (Unnamed(call) \/ Exceeds(call, "CHARACTER"))
        \/ Refused(call, 400) /\ ~Has(call, "characterId") /\ Fails(call, "CHARACTER")
        \/ \E d, new : Saved(call, d, new)
    BY <1>7, Zenon DEF SaveCharacter
  <2>2. QED
    BY <1>0, <1>1, <1>2, <2>1, HasWhatItNeeds, UnfitExcused
<1>8. ASSUME NEW call \in Calls("save_character_note"), NEW work, NEW id, NEW name, NEW title, NEW limited,
             SaveCharacterNote(call, work, id, name, title, limited)
      PROVE  SchemasSuffice'
  <2>1. \/ Refused(call, 404) \/ Refused(call, 403) \/ Refused(call, 500)
        \/ Refused(call, 400) /\ (Unnamed(call) \/ Fails(call, "CHARACTER_NOTE"))
        \/ \E d, new : Saved(call, d, new)
    BY <1>8, Zenon DEF SaveCharacterNote
  <2>2. QED
    BY <1>0, <1>1, <1>2, <2>1, HasWhatItNeeds, UnfitExcused
<1>9. ASSUME NEW name \in actionMap, NEW call \in Calls(name), NEW work, NEW title, NEW finished, NEW limited,
             SaveRecord(call, work, title, finished, limited)
      PROVE  SchemasSuffice'
  BY <1>0, <1>1, <1>2, <1>9, RecordHasWhatItNeeds, UnfitExcused DEF SaveRecord
<1>10. ASSUME NEW call \in Calls("save_timeline_event"), NEW work, NEW title, NEW asked,
              SaveTimelineEvent(call, work, title, asked)
       PROVE  SchemasSuffice'
  BY <1>0, <1>1, <1>2, <1>10, HasWhatItNeeds DEF SaveTimelineEvent
<1>11. ASSUME NEW call \in Calls("save_timeline_tag"), NEW work, NEW title, SaveTimelineTag(call, work, title)
       PROVE  SchemasSuffice'
  <2>1. \/ Refused(call, 404) \/ (Refused(call, 400) /\ Fails(call, "TIMELINE_TAG"))
        \/ \E d, id : Saved(call, d, id)
    BY <1>11, Zenon DEF SaveTimelineTag
  <2>2. QED
    BY <1>0, <1>1, <1>2, <2>1, HasWhatItNeeds
<1>12. ASSUME NEW call \in Calls("delete_project_data"), NEW kind, NEW work, NEW id,
              DeleteProjectData(call, kind, work, id)
       PROVE  SchemasSuffice'
  <2>1. call.tool = "delete_project_data"
    BY LetIn
  <2>2. "targetId" \notin call.given => Excused(call)
    BY <2>1 DEF Excused
  <2>3. QED
    BY <1>0, <1>1, <1>3, <1>12, <2>2, UnfitExcused DEF DeleteProjectData
<1>13. ASSUME NEW call, NEW work, NEW k, NEW force, Rollback(call, work, k, force) PROVE SchemasSuffice'
  <2>1. (Refused(call, 400) /\ Unnamed(call)) \/ Refused(call, 404) \/ Answer(call, {})
    BY <1>13, Zenon DEF Rollback
  <2>2. QED
    BY <1>0, <1>1, <1>3, <2>1, UnfitExcused
<1>14. QED
  BY <1>4, <1>5, <1>6, <1>7, <1>8, <1>9, <1>10, <1>11, <1>12, <1>13

\* A call that its schema lets in and whose values fit is not refused as invalid, but for a
\* deletion that names no row: for any rows, titles and calls before, and any number of
\* values that are empty or out of bounds.
THEOREM LetInIsEnough == ToolsSpec => []SchemasSuffice
<1>1. ToolsInit => SchemasSuffice
  BY DEF ToolsInit, SchemasSuffice
<1>2. SchemasSuffice /\ [ToolsNext]_toolVars => SchemasSuffice'
  <2> SUFFICES ASSUME SchemasSuffice, [ToolsNext]_toolVars PROVE SchemasSuffice'
    OBVIOUS
  <2>1. CASE UNCHANGED toolVars
    BY <2>1 DEF toolVars, SchemasSuffice
  <2>2. ASSUME NEW id \in DOMAIN table, AuthorDeletes(id) PROVE SchemasSuffice'
    BY <2>2 DEF AuthorDeletes, SchemasSuffice
  <2>3. CASE CallNext(Kinds, AllCalls)
    BY <2>3, SaveExcused, ThereAreTools DEF CallNext
  <2>4. QED
    BY <2>1, <2>2, <2>3 DEF ToolsNext
<1>3. QED
  BY <1>1, <1>2, PTL DEF ToolsSpec

-----------------------------------------------------------------------------
(* Tables and journals, before the bounds are looked at *)

WideRow == [kind : Kinds, work : Nat, title : Titles, about : Nat, links : SUBSET Nat, finished : BOOLEAN,
            deleted : BOOLEAN]
WideEntry == [target : Nat, work : Nat, action : {"CREATE", "UPDATE", "DELETE"}, tx : Nat, before : Seq(WideRow),
              undone : BOOLEAN]
Db == [table : Seq(WideRow), journal : Seq(WideEntry), stop : Nat]

\* What nothing changes of a row.
SameShape(a, b) == a.kind = b.kind /\ a.work = b.work /\ a.about = b.about /\ a.links = b.links

WorkIn(t, id) == IF t[id].kind = "PROJECT" THEN id ELSE t[id].work

\* What a row refers to is in the table, and in its work.
RowSound(t, row) ==
    /\ row.kind # "PROJECT" => row.work \in DOMAIN t /\ t[row.work].kind = "PROJECT"
    /\ row.kind = "CHARACTER_NOTE" =>
          row.about \in DOMAIN t /\ t[row.about].kind = "CHARACTER" /\ t[row.about].work = row.work
    /\ \A other \in row.links :
          other \in DOMAIN t /\ t[other].kind \in Linkable /\ t[other].work = row.work

\* An entry belongs to the work of its row, and an update found a row of that shape.
EntrySound(t, e) ==
    /\ e.target \in DOMAIN t /\ e.work = WorkIn(t, e.target)
    /\ IF e.action = "UPDATE" THEN Len(e.before) = 1 /\ SameShape(e.before[1], t[e.target]) ELSE e.before = <<>>

Sound(d) ==
    /\ d \in Db
    /\ \A id \in DOMAIN d.table : RowSound(d.table, d.table[id])
    /\ \A k \in DOMAIN d.journal : EntrySound(d.table, d.journal[k]) /\ d.journal[k].tx \leq Len(d.journal)

\* Rows are added and keep their shape.
Grows(t, u) == Len(t) \leq Len(u) /\ \A id \in DOMAIN t : SameShape(t[id], u[id])

\* ... and none goes out of sight.
StillShows(t, u) == Grows(t, u) /\ \A id \in DOMAIN t : ~t[id].deleted => ~u[id].deleted

ViewedIn(t, id) ==
    /\ id \in DOMAIN t /\ ~t[id].deleted
    /\ WorkIn(t, id) \in DOMAIN t /\ ~t[WorkIn(t, id)].deleted /\ t[WorkIn(t, id)].kind = "PROJECT"
    /\ t[id].kind = "CHARACTER_NOTE" => t[id].about \in DOMAIN t /\ ~t[t[id].about].deleted

ToolsIInv ==
    /\ Sound(db)
    /\ Len(table) \in 1..MaxRows /\ Len(journal) \in 0..MaxEntries
    /\ invalid \subseteq Complaints
    /\ kept \subseteq DOMAIN table
    /\ \A id \in kept : ViewedIn(table, id)

LEMMA DomainOf ==
    ASSUME NEW S, NEW t \in Seq(S)
    PROVE  DOMAIN t = 1..Len(t) /\ Len(t) \in Nat /\ \A i \in DOMAIN t : t[i] \in S
BY LenProperties, ElementOfSeq

LEMMA SeqOf ==
    ASSUME NEW S, NEW T, NEW s \in Seq(S), \A i \in DOMAIN s : s[i] \in T
    PROVE  s \in Seq(T)
<1>1. DOMAIN s = 1..Len(s) /\ Len(s) \in Nat /\ s \in [1..Len(s) -> S]
  BY LenProperties
<1>2. s \in [1..Len(s) -> T]
  BY <1>1
<1>3. QED
  BY <1>1, <1>2

\* References hold in a table that grows.
LEMMA StaysSound ==
    ASSUME NEW t \in Seq(WideRow), NEW u \in Seq(WideRow), Grows(t, u)
    PROVE  /\ DOMAIN t \subseteq DOMAIN u
           /\ \A row : RowSound(t, row) => RowSound(u, row)
           /\ \A e : EntrySound(t, e) => EntrySound(u, e)
<1>1. DOMAIN t \subseteq DOMAIN u
  BY DomainOf DEF Grows
<1>2. \A id \in DOMAIN t : SameShape(t[id], u[id])
  BY DEF Grows
<1>3. ASSUME NEW row, RowSound(t, row) PROVE RowSound(u, row)
  BY <1>1, <1>2, <1>3 DEF RowSound, SameShape
<1>4. ASSUME NEW e, EntrySound(t, e) PROVE EntrySound(u, e)
  BY <1>1, <1>2, <1>4 DEF EntrySound, SameShape, WorkIn
<1>5. QED
  BY <1>1, <1>3, <1>4

LEMMA SameShapeSound ==
    ASSUME NEW t, NEW a, NEW b, SameShape(a, b), RowSound(t, a)
    PROVE  RowSound(t, b)
BY DEF SameShape, RowSound

LEMMA GrowsOn ==
    ASSUME NEW t \in Seq(WideRow), NEW u \in Seq(WideRow), NEW v \in Seq(WideRow)
    PROVE  /\ Grows(t, t) /\ StillShows(t, t)
           /\ Grows(t, u) /\ Grows(u, v) => Grows(t, v)
           /\ StillShows(t, u) /\ StillShows(u, v) => StillShows(t, v)
<1>1. DOMAIN t = 1..Len(t) /\ DOMAIN u = 1..Len(u) /\ Len(t) \in Nat /\ Len(u) \in Nat /\ Len(v) \in Nat
  BY DomainOf
<1>2. Grows(t, u) => DOMAIN t \subseteq DOMAIN u
  BY <1>1 DEF Grows
<1>3. Grows(t, u) /\ Grows(u, v) => Grows(t, v)
  BY <1>1, <1>2 DEF Grows, SameShape
<1>4. Grows(t, t) /\ StillShows(t, t)
  BY <1>1 DEF Grows, StillShows, SameShape
<1>5. QED
  BY <1>2, <1>3, <1>4 DEF StillShows

\* What is in view stays in view.
LEMMA StaysInView ==
    ASSUME NEW t \in Seq(WideRow), NEW u \in Seq(WideRow), StillShows(t, u), NEW id, ViewedIn(t, id)
    PROVE  ViewedIn(u, id)
<1>1. DOMAIN t \subseteq DOMAIN u
  BY StaysSound DEF StillShows
<1>2. \A n \in DOMAIN t : SameShape(t[n], u[n]) /\ (~t[n].deleted => ~u[n].deleted)
  BY DEF StillShows, Grows
<1>3. WorkIn(u, id) = WorkIn(t, id)
  BY <1>2 DEF ViewedIn, WorkIn, SameShape
<1>4. QED
  BY <1>1, <1>2, <1>3 DEF ViewedIn, SameShape

-----------------------------------------------------------------------------
(* What createWithLog, updateWithLog, softDeleteWithLog and rollbackOne leave *)

LEMMA LoggedTyped ==
    ASSUME NEW id \in Nat, NEW row \in WideRow, NEW action \in {"CREATE", "UPDATE", "DELETE"},
           NEW before \in Seq(WideRow), NEW tx \in Nat
    PROVE  Logged(id, row, action, before, tx) \in WideEntry
BY DEF Logged, WideEntry, WideRow

\* A journal that is appended to.
LEMMA Journalled ==
    ASSUME NEW d, Sound(d), NEW u \in Seq(WideRow), Grows(d.table, u), NEW e \in WideEntry, EntrySound(u, e),
           e.tx \leq Len(d.journal) + 1
    PROVE  /\ Append(d.journal, e) \in Seq(WideEntry) /\ Len(Append(d.journal, e)) = Len(d.journal) + 1
           /\ \A k \in DOMAIN Append(d.journal, e) :
                 /\ EntrySound(u, Append(d.journal, e)[k])
                 /\ Append(d.journal, e)[k].tx \leq Len(Append(d.journal, e))
<1> DEFINE j == Append(d.journal, e)
<1>1. d.journal \in Seq(WideEntry) /\ d.table \in Seq(WideRow)
  BY DEF Sound, Db
<1>2. /\ j \in Seq(WideEntry) /\ Len(j) = Len(d.journal) + 1
      /\ \A k \in 1..Len(d.journal) : j[k] = d.journal[k]
      /\ j[Len(d.journal) + 1] = e
  BY <1>1, AppendProperties
<1>3. DOMAIN j = 1..Len(d.journal) + 1 /\ DOMAIN d.journal = 1..Len(d.journal) /\ Len(d.journal) \in Nat
  BY <1>1, <1>2, DomainOf
<1> HIDE DEF j
<1>4. ASSUME NEW k \in DOMAIN j PROVE EntrySound(u, j[k]) /\ j[k].tx \leq Len(j)
  <2>1. CASE k = Len(d.journal) + 1
    BY <1>2, <1>3, <2>1
  <2>2. CASE k \in DOMAIN d.journal
    <3>1. EntrySound(d.table, d.journal[k]) /\ d.journal[k].tx \leq Len(d.journal)
      BY <2>2 DEF Sound
    <3>2. d.journal[k].tx \in Nat
      <4>1. d.journal[k] \in WideEntry
        BY <1>1, <2>2, DomainOf
      <4>2. QED
        BY <4>1 DEF WideEntry
    <3>3. EntrySound(u, d.journal[k])
      BY <1>1, <3>1, StaysSound
    <3>4. QED
      BY <1>2, <1>3, <2>2, <3>1, <3>2, <3>3
  <2>3. QED
    BY <1>3, <1>4, <2>1, <2>2
<1>5. QED
  BY <1>2, <1>4 DEF j

LEMMA CreateSound ==
    ASSUME NEW d, Sound(d), NEW row \in WideRow, RowSound(d.table, row), NEW tx \in Nat,
           tx \leq Len(d.journal) + 1
    PROVE  LET c == createWithLog(d, row, tx) IN
           /\ Sound(c) /\ c.table = Append(d.table, row) /\ Len(c.journal) = Len(d.journal) + 1
           /\ StillShows(d.table, c.table)
           /\ Len(c.table) = Len(d.table) + 1 /\ c.table[Len(d.table) + 1] = row
           /\ \A id \in DOMAIN d.table : c.table[id] = d.table[id]
<1> DEFINE c == createWithLog(d, row, tx)
           u == Append(d.table, row)
           n == Len(d.table) + 1
           e == Logged(n, row, "CREATE", <<>>, tx)
<1>1. d \in Db /\ d.table \in Seq(WideRow)
  BY DEF Sound, Db
<1>2. /\ u \in Seq(WideRow) /\ Len(u) = n /\ u[n] = row /\ n \in Nat
      /\ \A id \in 1..Len(d.table) : u[id] = d.table[id]
  BY <1>1, AppendProperties, LenProperties
<1>3. DOMAIN u = 1..n /\ DOMAIN d.table = 1..Len(d.table) /\ Len(d.table) \in Nat
  BY <1>1, <1>2, DomainOf
<1>4. c.table = u /\ c.journal = Append(d.journal, e) /\ c.stop = d.stop
  BY <1>1 DEF createWithLog, Db
<1>5. e \in WideEntry /\ e.tx = tx /\ e.target = n /\ e.action = "CREATE" /\ e.before = <<>>
      /\ e.work = IF row.kind = "PROJECT" THEN n ELSE row.work
  BY <1>2, LoggedTyped, EmptySeq DEF Logged
<1> HIDE DEF u, e
<1>6. StillShows(d.table, u)
  BY <1>2, <1>3 DEF StillShows, Grows, SameShape
<1>7. EntrySound(u, e)
  BY <1>2, <1>3, <1>5 DEF EntrySound, WorkIn
<1>8. /\ Append(d.journal, e) \in Seq(WideEntry) /\ Len(Append(d.journal, e)) = Len(d.journal) + 1
      /\ \A k \in DOMAIN Append(d.journal, e) :
            EntrySound(u, Append(d.journal, e)[k]) /\ Append(d.journal, e)[k].tx \leq Len(Append(d.journal, e))
  BY <1>2, <1>5, <1>6, <1>7, Journalled DEF StillShows
<1>9. c \in Db
  BY <1>1, <1>2, <1>4, <1>8 DEF createWithLog, Db, u, e
<1>10. \A id \in DOMAIN u : RowSound(u, u[id])
  <2> SUFFICES ASSUME NEW id \in DOMAIN u PROVE RowSound(u, u[id])
    OBVIOUS
  <2>1. CASE id = n
    BY <1>1, <1>2, <1>6, <2>1, StaysSound DEF StillShows
  <2>2. CASE id \in DOMAIN d.table
    <3>1. RowSound(d.table, d.table[id]) /\ u[id] = d.table[id]
      BY <1>2, <1>3, <2>2 DEF Sound
    <3>2. QED
      BY <1>1, <1>2, <1>6, <3>1, StaysSound DEF StillShows
  <2>3. QED
    BY <1>3, <2>1, <2>2
<1> HIDE DEF c
<1>11. Sound(c)
  BY <1>4, <1>8, <1>9, <1>10 DEF Sound
<1>12. QED
  BY <1>2, <1>3, <1>4, <1>6, <1>8, <1>11 DEF c, u

\* A row that is replaced by one of its shape.
LEMMA Replaced ==
    ASSUME NEW d, Sound(d), NEW id \in DOMAIN d.table, NEW row \in WideRow, SameShape(d.table[id], row)
    PROVE  LET u == [d.table EXCEPT ![id] = row] IN
           /\ u \in Seq(WideRow) /\ Len(u) = Len(d.table) /\ DOMAIN u = DOMAIN d.table
           /\ u[id] = row /\ \A other \in DOMAIN d.table \ {id} : u[other] = d.table[other]
           /\ Grows(d.table, u) /\ Grows(u, d.table)
           /\ \A other \in DOMAIN u : RowSound(u, u[other])
           /\ (~d.table[id].deleted => ~row.deleted) => StillShows(d.table, u)
<1> DEFINE u == [d.table EXCEPT ![id] = row]
<1>1. d.table \in Seq(WideRow)
  BY DEF Sound, Db
<1>2. u \in Seq(WideRow) /\ Len(u) = Len(d.table) /\ DOMAIN u = DOMAIN d.table
      /\ u[id] = row /\ \A other \in DOMAIN d.table \ {id} : u[other] = d.table[other]
  <2>1. DOMAIN d.table = 1..Len(d.table) /\ Len(d.table) \in Nat /\ \A i \in DOMAIN d.table : d.table[i] \in WideRow
    BY <1>1, DomainOf
  <2>2. u \in Seq(WideRow) /\ Len(u) = Len(d.table)
    BY <1>1, <2>1, ExceptSeq
  <2>3. QED
    BY <1>1, <2>1, <2>2
<1> HIDE DEF u
<1>3. Len(d.table) \in Nat
  BY <1>1, DomainOf
<1>4. Grows(d.table, u) /\ Grows(u, d.table)
  BY <1>2, <1>3 DEF Grows, SameShape
<1>5. ASSUME NEW other \in DOMAIN u PROVE RowSound(u, u[other])
  <2>1. RowSound(d.table, d.table[other]) /\ SameShape(d.table[other], u[other])
    BY <1>2, <1>4 DEF Sound, Grows
  <2>2. QED
    BY <1>1, <1>2, <1>4, <2>1, StaysSound, SameShapeSound
<1>6. (~d.table[id].deleted => ~row.deleted) => StillShows(d.table, u)
  BY <1>2, <1>4 DEF StillShows
<1>7. QED
  BY <1>2, <1>4, <1>5, <1>6 DEF u

LEMMA UpdateSound ==
    ASSUME NEW d, Sound(d), NEW id \in DOMAIN d.table, NEW row \in WideRow, SameShape(d.table[id], row)
    PROVE  LET c == updateWithLog(d, id, row) IN
           /\ Sound(c) /\ c.table = [d.table EXCEPT ![id] = row] /\ Len(c.journal) = Len(d.journal) + 1
<1> DEFINE c == updateWithLog(d, id, row)
           u == [d.table EXCEPT ![id] = row]
           e == Logged(id, row, "UPDATE", <<d.table[id]>>, 0)
<1>1. d \in Db /\ d.table \in Seq(WideRow)
  BY DEF Sound, Db
<1>2. /\ u \in Seq(WideRow) /\ Len(u) = Len(d.table) /\ DOMAIN u = DOMAIN d.table /\ u[id] = row
      /\ Grows(d.table, u) /\ \A other \in DOMAIN u : RowSound(u, u[other])
  BY Replaced
<1>3. id \in Nat /\ d.table[id] \in WideRow
  <2>1. DOMAIN d.table = 1..Len(d.table) /\ d.table[id] \in WideRow
    BY <1>1, DomainOf
  <2>2. QED
    BY <2>1
<1>4. c.table = u /\ c.journal = Append(d.journal, e) /\ c.stop = d.stop
  BY <1>1 DEF updateWithLog, Db
<1>5. e \in WideEntry /\ e.tx = 0 /\ e.target = id /\ e.action = "UPDATE" /\ e.before = <<d.table[id]>>
      /\ e.work = IF row.kind = "PROJECT" THEN id ELSE row.work
  <2>1. <<d.table[id]>> \in Seq(WideRow)
    BY <1>3
  <2>2. QED
    BY <1>3, <2>1, LoggedTyped DEF Logged
<1> HIDE DEF u, e
<1>6. EntrySound(u, e)
  <2>1. e.work = WorkIn(u, id)
    BY <1>2, <1>5 DEF WorkIn
  <2>2. Len(e.before) = 1 /\ e.before[1] = d.table[id]
    BY <1>5
  <2>3. QED
    BY <1>2, <1>5, <2>1, <2>2 DEF EntrySound
<1>7. e.tx \leq Len(d.journal) + 1
  <2>1. Len(d.journal) \in Nat
    BY <1>1, DomainOf DEF Db
  <2>2. QED
    BY <1>5, <2>1
<1>8. /\ Append(d.journal, e) \in Seq(WideEntry) /\ Len(Append(d.journal, e)) = Len(d.journal) + 1
      /\ \A k \in DOMAIN Append(d.journal, e) :
            EntrySound(u, Append(d.journal, e)[k]) /\ Append(d.journal, e)[k].tx \leq Len(Append(d.journal, e))
  BY <1>2, <1>5, <1>6, <1>7, Journalled
<1>9. c \in Db
  BY <1>1, <1>2, <1>4, <1>8 DEF updateWithLog, Db, u, e
<1> HIDE DEF c
<1>10. Sound(c)
  BY <1>2, <1>4, <1>8, <1>9 DEF Sound
<1>11. QED
  BY <1>4, <1>8, <1>10 DEF c, u

LEMMA DeleteSound ==
    ASSUME NEW d, Sound(d), NEW id \in DOMAIN d.table
    PROVE  LET c == softDeleteWithLog(d, id) IN
           /\ Sound(c) /\ Len(c.table) = Len(d.table) /\ Len(c.journal) = Len(d.journal) + 1
<1> DEFINE c == softDeleteWithLog(d, id)
           row == [d.table[id] EXCEPT !.deleted = TRUE]
           u == [d.table EXCEPT ![id] = row]
           e == Logged(id, d.table[id], "DELETE", <<>>, 0)
<1>1. d \in Db /\ d.table \in Seq(WideRow)
  BY DEF Sound, Db
<1>2. id \in Nat /\ d.table[id] \in WideRow
  <2>1. DOMAIN d.table = 1..Len(d.table) /\ d.table[id] \in WideRow
    BY <1>1, DomainOf
  <2>2. QED
    BY <2>1
<1>3. row \in WideRow /\ SameShape(d.table[id], row)
  BY <1>2 DEF WideRow, SameShape
<1>4. c.table = u /\ c.journal = Append(d.journal, e) /\ c.stop = d.stop
  BY <1>1 DEF softDeleteWithLog, Db
<1> HIDE DEF row
<1>5. /\ u \in Seq(WideRow) /\ Len(u) = Len(d.table) /\ DOMAIN u = DOMAIN d.table /\ u[id] = row
      /\ Grows(d.table, u) /\ \A other \in DOMAIN u : RowSound(u, u[other])
  BY <1>3, Replaced
<1>6. e \in WideEntry /\ e.tx = 0 /\ e.target = id /\ e.action = "DELETE" /\ e.before = <<>>
      /\ e.work = WorkIn(d.table, id)
  BY <1>2, LoggedTyped, EmptySeq DEF Logged, WorkIn
<1> HIDE DEF u, e
<1>7. EntrySound(u, e)
  <2>1. EntrySound(d.table, e)
    BY <1>6 DEF EntrySound
  <2>2. QED
    BY <1>1, <1>5, <2>1, StaysSound
<1>8. e.tx \leq Len(d.journal) + 1
  <2>1. Len(d.journal) \in Nat
    BY <1>1, DomainOf DEF Db
  <2>2. QED
    BY <1>6, <2>1
<1>9. /\ Append(d.journal, e) \in Seq(WideEntry) /\ Len(Append(d.journal, e)) = Len(d.journal) + 1
      /\ \A k \in DOMAIN Append(d.journal, e) :
            EntrySound(u, Append(d.journal, e)[k]) /\ Append(d.journal, e)[k].tx \leq Len(Append(d.journal, e))
  BY <1>5, <1>6, <1>7, <1>8, Journalled
<1>10. c \in Db
  <2>1. c = [d EXCEPT !.table = u, !.journal = Append(d.journal, e)]
    BY <1>1 DEF softDeleteWithLog, Db, u, e, row
  <2>2. QED
    BY <1>1, <1>5, <1>9, <2>1 DEF Db
<1> HIDE DEF c
<1>11. Sound(c)
  BY <1>4, <1>5, <1>9, <1>10 DEF Sound
<1>12. QED
  BY <1>4, <1>5, <1>9, <1>11 DEF c

\* Undoing an entry keeps every row's shape, and every entry but its mark.
LEMMA UndoSound ==
    ASSUME NEW d, Sound(d), NEW k \in DOMAIN d.journal, NEW force
    PROVE  LET c == Undo(d, k, force) IN
           /\ Sound(c) /\ Len(c.table) = Len(d.table) /\ Len(c.journal) = Len(d.journal)
<1> DEFINE entry == d.journal[k]
           id == entry.target
           row == d.table[id]
           restored == CASE entry.action = "CREATE" -> [row EXCEPT !.deleted = TRUE]
                         [] entry.action = "DELETE" -> [row EXCEPT !.deleted = FALSE]
                         [] entry.action = "UPDATE" -> entry.before[1]
           later == \E n \in DOMAIN d.journal : n > k /\ d.journal[n].target = id /\ ~d.journal[n].undone
           stopped(status) == [d EXCEPT !.stop = status]
           undone == [d EXCEPT !.table[id] = restored, !.journal[k].undone = TRUE]
<1>1. d \in Db /\ d.table \in Seq(WideRow) /\ d.journal \in Seq(WideEntry)
  BY DEF Sound, Db
<1>2. entry \in WideEntry /\ EntrySound(d.table, entry)
  BY <1>1, DomainOf DEF Sound
<1>3. row \in WideRow /\ id \in DOMAIN d.table
  BY <1>1, <1>2, DomainOf DEF EntrySound
<1>4. restored \in WideRow /\ SameShape(row, restored)
  <2>1. CASE entry.action = "CREATE"
    BY <1>3, <2>1 DEF WideRow, SameShape
  <2>2. CASE entry.action = "DELETE"
    BY <1>3, <2>2 DEF WideRow, SameShape
  <2>3. CASE entry.action = "UPDATE"
    <3>1. entry.before \in Seq(WideRow) /\ Len(entry.before) = 1
      BY <1>2, <2>3 DEF WideEntry, EntrySound
    <3>2. entry.before[1] \in WideRow
      BY <3>1
    <3>3. SameShape(row, entry.before[1])
      BY <1>2, <2>3 DEF EntrySound, SameShape
    <3>4. QED
      BY <2>3, <3>2, <3>3
  <2>4. QED
    BY <1>2, <2>1, <2>2, <2>3 DEF WideEntry
<1>5. Undo(d, k, force) = d \/ Undo(d, k, force) = stopped(409) \/ Undo(d, k, force) = stopped(500)
      \/ Undo(d, k, force) = undone
  BY Zenon DEF Undo
<1>6. ASSUME NEW status \in Nat
      PROVE  Sound(stopped(status)) /\ stopped(status).table = d.table /\ stopped(status).journal = d.journal
  BY <1>1, <1>6 DEF Sound, Db
<1> DEFINE u == [d.table EXCEPT ![id] = restored]
           j == [d.journal EXCEPT ![k] = [entry EXCEPT !.undone = TRUE]]
<1>7. undone = [d EXCEPT !.table = u, !.journal = j]
  BY <1>1 DEF Db
<1> HIDE DEF restored
<1>8. id \in DOMAIN d.table /\ SameShape(d.table[id], restored)
  BY <1>3, <1>4
<1> HIDE DEF undone, row, id, entry
<1>9. /\ u \in Seq(WideRow) /\ Len(u) = Len(d.table) /\ Grows(d.table, u)
      /\ \A other \in DOMAIN u : RowSound(u, u[other])
  BY <1>8, <1>4, Replaced
<1> HIDE DEF u
<1>10. [entry EXCEPT !.undone = TRUE] \in WideEntry /\ EntrySound(u, [entry EXCEPT !.undone = TRUE])
      /\ [entry EXCEPT !.undone = TRUE].tx = entry.tx
  <2>1. EntrySound(u, entry)
    BY <1>1, <1>2, <1>9, StaysSound
  <2>2. QED
    BY <1>2, <2>1 DEF WideEntry, EntrySound
<1>11. j \in Seq(WideEntry) /\ Len(j) = Len(d.journal) /\ DOMAIN j = DOMAIN d.journal
  <2>1. DOMAIN d.journal = 1..Len(d.journal) /\ Len(d.journal) \in Nat
    BY <1>1, DomainOf
  <2>2. QED
    BY <1>1, <1>10, <2>1, ExceptSeq
<1>12. ASSUME NEW n \in DOMAIN j PROVE EntrySound(u, j[n]) /\ j[n].tx \leq Len(j)
  <2>1. CASE n = k
    <3>1. j[n] = [entry EXCEPT !.undone = TRUE]
      BY <1>11, <2>1
    <3>2. entry.tx \leq Len(d.journal)
      BY DEF Sound, entry
    <3>3. QED
      BY <1>10, <1>11, <3>1, <3>2
  <2>2. CASE n # k
    <3>1. j[n] = d.journal[n] /\ EntrySound(d.table, j[n]) /\ j[n].tx \leq Len(d.journal)
      BY <1>11, <2>2 DEF Sound
    <3>2. QED
      BY <1>1, <1>9, <1>11, <3>1, StaysSound
  <2>3. QED
    BY <2>1, <2>2
<1> HIDE DEF j
<1>13. Sound(undone) /\ undone.table = u /\ undone.journal = j
  <2>1. undone \in Db /\ undone.table = u /\ undone.journal = j
    BY <1>1, <1>7, <1>9, <1>11 DEF Db
  <2>2. QED
    BY <1>9, <1>12, <2>1 DEF Sound
<1>14. 409 \in Nat /\ 500 \in Nat /\ Len(undone.table) = Len(d.table) /\ Len(undone.journal) = Len(d.journal)
  BY <1>9, <1>11, <1>13
<1> HIDE DEF stopped
<1>15. QED
  BY <1>5, <1>6, <1>13, <1>14

\* Induction up to a bound, over a set.
LEMMA UpTo ==
    ASSUME NEW n \in Nat, NEW S, 0 \in S, \A m \in 0..n - 1 : m \in S => m + 1 \in S
    PROVE  0..n \subseteq S
<1> DEFINE T == {m \in 0..n : m \notin S}
           R == OpToRel(<, Nat)
<1>1. \A x, y \in Nat : x < y => <<x, y>> \in R
  BY DEF OpToRel
<1>2. IsWellFoundedOn(R, Nat)
  BY NatLessThanWellFounded
<1> HIDE DEF R
<1>3. SUFFICES ASSUME T # {} PROVE FALSE
  OBVIOUS
<1>4. T \subseteq Nat
  OBVIOUS
<1> HIDE DEF T
<1>5. PICK x \in T : \A y \in T : ~(<<y, x>> \in R)
  BY <1>2, <1>3, <1>4, WFMin
<1>6. x \in 1..n
  BY <1>5 DEF T
<1>7. x - 1 \in 0..n - 1 /\ x - 1 < x /\ (x - 1) + 1 = x
  BY <1>6
<1>8. x - 1 \in T
  BY <1>5, <1>6, <1>7 DEF T
<1>9. QED
  BY <1>1, <1>4, <1>5, <1>6, <1>7, <1>8

\* Undoing any choice of entries does so too: the function that Undone defines exists, and
\* what it gives is sound from the last entry down to the first.
LEMMA UndoneSound ==
    ASSUME Sound(db), NEW entries, NEW force
    PROVE  LET c == Undone(entries, force) IN
           /\ Sound(c) /\ Len(c.table) = Len(table) /\ Len(c.journal) = Len(journal)
<1> DEFINE n == Len(journal)
           Step(g, k) == IF k = n + 1 THEN db ELSE IF k \in entries THEN Undo(g[k + 1], k, force) ELSE g[k + 1]
           From(m) == (n + 1) - m..n + 1
           Defined == {m \in 0..n : \E g : g = [k \in From(m) |-> Step(g, k)]}
<1>1. n \in Nat /\ DOMAIN journal = 1..n
  <2>1. journal \in Seq(WideEntry)
    BY DEF Sound, Db, db
  <2>2. QED
    BY <2>1, DomainOf
<1> HIDE DEF n
<1>2. 0 \in Defined
  <2> DEFINE g == [k \in From(0) |-> db]
  <2>1. g = [k \in From(0) |-> Step(g, k)]
    BY <1>1
  <2>2. 0 \in 0..n
    BY <1>1
  <2> HIDE DEF g, Step, From
  <2>3. QED
    BY <2>1, <2>2
<1>3. ASSUME NEW m \in 0..n - 1, m \in Defined PROVE m + 1 \in Defined
  <2>1. PICK g : g = [k \in From(m) |-> Step(g, k)]
    BY <1>3
  <2> DEFINE k0 == n - m
             first == Step(g, k0)
             h == [k \in From(m + 1) |-> IF k = k0 THEN first ELSE g[k]]
  <2>2. From(m + 1) = From(m) \cup {k0} /\ k0 \notin From(m) /\ \A k \in From(m + 1) : k # n + 1 => k + 1 \in From(m)
    BY <1>1
  <2>3. \A k \in From(m) : g[k] = Step(g, k)
    <3> HIDE DEF Step, From
    <3>1. QED
      BY <2>1
  <2>4. ASSUME NEW k \in From(m + 1) PROVE h[k] = Step(h, k)
    <3>1. k # n + 1 => h[k + 1] = g[k + 1]
      <4> HIDE DEF first, From
      <4>1. k # n + 1 => k + 1 \in From(m + 1) /\ k + 1 # k0
        BY <2>2
      <4>2. QED
        BY <4>1
    <3>2. Step(h, k) = Step(g, k)
      <4> HIDE DEF h
      <4>1. QED
        BY <3>1
    <3>3. CASE k = k0
      <4>1. h[k] = first
        BY <3>3
      <4>2. QED
        BY <3>2, <3>3, <4>1
    <3>4. CASE k # k0
      <4> HIDE DEF first, Step, From
      <4>1. h[k] = g[k] /\ k \in From(m)
        BY <2>2, <3>4
      <4>2. QED
        BY <2>3, <3>2, <4>1
    <3>5. QED
      BY <3>3, <3>4
  <2>5. h = [k \in From(m + 1) |-> Step(h, k)]
    <3> HIDE DEF first, Step, From
    <3>1. DOMAIN h = From(m + 1)
      OBVIOUS
    <3>2. h = [k \in From(m + 1) |-> h[k]]
      OBVIOUS
    <3> HIDE DEF h
    <3>3. QED
      BY <2>4, <3>1, <3>2
  <2>6. m + 1 \in 0..n
    BY <1>1, <1>3
  <2> HIDE DEF h, Step, From
  <2>7. QED
    BY <2>5, <2>6
<1>4. n \in Defined
  <2> HIDE DEF Defined
  <2>1. \A m \in 0..n - 1 : m \in Defined => m + 1 \in Defined
    BY <1>3
  <2>2. 0..n \subseteq Defined
    BY <1>1, <1>2, <2>1, UpTo
  <2>3. n \in 0..n
    BY <1>1
  <2>4. QED
    BY <2>2, <2>3
<1> DEFINE Fills(g) == g = [k \in 1..n + 1 |-> Step(g, k)]
           after == CHOOSE g : Fills(g)
<1>5. \E g : Fills(g)
  <2>1. From(n) = 1..n + 1
    BY <1>1
  <2> HIDE DEF Step, From
  <2>2. QED
    BY <1>4, <2>1
<1>6. after = [k \in 1..n + 1 |-> Step(after, k)]
  <2>1. Fills(after)
    <3> HIDE DEF Fills
    <3>1. QED
      BY <1>5
  <2>2. QED
    BY <2>1
<1>7. Undone(entries, force) = after[1]
  BY DEF Undone, n
<1> DEFINE Good(c) == Sound(c) /\ Len(c.table) = Len(table) /\ Len(c.journal) = n
           Reached == {m \in 0..n : Good(after[n + 1 - m])}
<1>8. \A k \in 1..n + 1 : after[k] = Step(after, k)
  <2> HIDE DEF after, Step
  <2>1. QED
    BY <1>6
<1> HIDE DEF after
<1>9. Good(db)
  BY DEF db, n
<1>10. 0 \in Reached
  <2>1. after[n + 1] = db
    BY <1>1, <1>8
  <2> HIDE DEF Good
  <2>2. QED
    BY <1>1, <1>9, <2>1
<1>11. ASSUME NEW m \in 0..n - 1, m \in Reached PROVE m + 1 \in Reached
  <2> DEFINE k == n - m
             d == after[k + 1]
  <2>1. /\ k \in 1..n /\ k # n + 1 /\ k \in 1..n + 1 /\ n + 1 - m = k + 1 /\ n + 1 - (m + 1) = k /\ m + 1 \in 0..n
    BY <1>1, <1>11
  <2>2. Good(d)
    BY <1>11, <2>1
  <2>3. after[k] = IF k \in entries THEN Undo(d, k, force) ELSE d
    BY <1>8, <2>1
  <2> HIDE DEF d
  <2>4. k \in DOMAIN d.journal
    <3>1. d.journal \in Seq(WideEntry)
      BY <2>2 DEF Sound, Db
    <3>2. QED
      BY <2>1, <2>2, <3>1, DomainOf
  <2>5. Good(Undo(d, k, force))
    BY <2>2, <2>4, UndoSound
  <2> HIDE DEF Good, k
  <2>6. Good(after[k])
    BY <2>2, <2>3, <2>5
  <2>7. QED
    BY <2>1, <2>6
<1>12. n \in Reached
  <2> HIDE DEF Reached
  <2>1. \A m \in 0..n - 1 : m \in Reached => m + 1 \in Reached
    BY <1>11
  <2>2. 0..n \subseteq Reached
    BY <1>1, <1>10, <2>1, UpTo
  <2>3. n \in 0..n
    BY <1>1
  <2>4. QED
    BY <2>2, <2>3
<1>13. Good(after[1])
  <2> HIDE DEF Good
  <2>1. n + 1 - n = 1
    BY <1>1
  <2>2. QED
    BY <1>12, <2>1
<1>14. QED
  BY <1>7, <1>13 DEF n

-----------------------------------------------------------------------------
(* What an answer leaves *)

LEMMA InvariantFacts ==
    ASSUME ToolsIInv
    PROVE  /\ Sound(db) /\ db.table = table /\ db.journal = journal
           /\ table \in Seq(WideRow) /\ journal \in Seq(WideEntry)
           /\ DOMAIN table = 1..Len(table) /\ Len(table) \in 1..MaxRows
           /\ DOMAIN journal = 1..Len(journal) /\ Len(journal) \in Nat
           /\ \A id \in DOMAIN table : table[id] \in WideRow /\ RowSound(table, table[id])
           /\ StillShows(table, table)
<1>1. Sound(db) /\ Len(table) \in 1..MaxRows
  BY DEF ToolsIInv
<1>2. db.table = table /\ db.journal = journal
  BY DEF db
<1>3. table \in Seq(WideRow) /\ journal \in Seq(WideEntry)
  BY <1>1, <1>2 DEF Sound, Db
<1>4. \A id \in DOMAIN table : RowSound(table, table[id])
  BY <1>1, <1>2 DEF Sound
<1>5. QED
  BY <1>1, <1>2, <1>3, <1>4, DomainOf, GrowsOn

LEMMA InViewNext == \A id : InView(id)' <=> ViewedIn(table', id)
BY DEF InView, Live, Owned, IsA, WorkOf, ViewedIn, WorkIn

\* The bounds, and a sound table, are all that a step has to see to.
LEMMA Committed ==
    ASSUME NEW d, Sound(d), Len(d.table) \geq 1, Commit(d)
    PROVE  /\ Sound(db)' /\ table' = d.table
           /\ Len(table') \in 1..MaxRows /\ Len(journal') \in 0..MaxEntries
<1>1. d \in Db /\ d.table \in Seq(WideRow) /\ d.journal \in Seq(WideEntry)
  BY DEF Sound, Db
<1>2. table' = d.table /\ journal' = d.journal /\ Len(d.table) <= MaxRows /\ Len(d.journal) <= MaxEntries
  BY DEF Commit
<1>3. db' \in Db /\ db'.table = d.table /\ db'.journal = d.journal
  BY <1>1, <1>2 DEF db, Db
<1>4. Sound(db)'
  BY <1>3 DEF Sound
<1>5. Len(d.table) \in Nat /\ Len(d.journal) \in Nat
  BY <1>1, DomainOf
<1>6. QED
  BY <1>2, <1>4, <1>5, ToolsAssumption

LEMMA RefusedStep ==
    ASSUME ToolsIInv, NEW call, call.tool \in DOMAIN MCP_TOOLS, NEW status, Refused(call, status)
    PROVE  ToolsIInv'
<1>0. Complaint(call) \in Complaints
  <2>1. toolInputSchema(call) \in BOOLEAN /\ Fits(call) \in BOOLEAN /\ ("targetId" \in call.given) \in BOOLEAN
    BY DEF toolInputSchema, Fits
  <2>2. QED
    BY <2>1 DEF Complaint, Complaints
<1>1. UNCHANGED <<table, journal, kept>> /\ invalid' \subseteq Complaints
  BY <1>0 DEF Refused
<1>2. Sound(db)'
  BY <1>1 DEF ToolsIInv, db
<1>3. QED
  BY <1>1, <1>2 DEF ToolsIInv

\* A save that shows what there was and what it made.
LEMMA SavedStep ==
    ASSUME ToolsIInv, NEW call, ~MCP_TOOLS[call.tool].destructive, NEW d, Sound(d), StillShows(table, d.table),
           NEW id, ViewedIn(d.table, id), Saved(call, d, id)
    PROVE  ToolsIInv'
<1>1. d.table \in Seq(WideRow) /\ table \in Seq(WideRow)
  BY InvariantFacts DEF Sound, Db
<1>2. Commit(d) /\ invalid' = {} /\ kept' = kept \cup {id}
  BY DEF Saved, Answer
<1>3. Len(d.table) \geq 1
  <2>1. Len(table) \geq 1 /\ Len(table) <= Len(d.table) /\ Len(table) \in Nat /\ Len(d.table) \in Nat
    BY <1>1, InvariantFacts, DomainOf DEF StillShows, Grows
  <2>2. QED
    BY <2>1
<1>4. /\ Sound(db)' /\ table' = d.table
      /\ Len(table') \in 1..MaxRows /\ Len(journal') \in 0..MaxEntries
  BY <1>2, <1>3, Committed
<1>5. \A one \in kept' : ViewedIn(table', one)
  <2>1. \A one \in kept : ViewedIn(table, one)
    BY DEF ToolsIInv
  <2>2. QED
    BY <1>1, <1>2, <1>4, <2>1, StaysInView
<1>6. kept' \subseteq DOMAIN table'
  BY <1>5 DEF ViewedIn
<1>7. QED
  BY <1>2, <1>4, <1>5, <1>6 DEF ToolsIInv

\* A call of a destructive tool.
LEMMA TakenStep ==
    ASSUME ToolsIInv, NEW call, MCP_TOOLS[call.tool].destructive, NEW d, Sound(d), Len(d.table) = Len(table),
           Commit(d), Answer(call, {})
    PROVE  ToolsIInv'
<1>1. invalid' = {} /\ kept' = {id \in kept : InView(id)'}
  BY DEF Answer
<1>2. Len(d.table) \geq 1
  BY InvariantFacts
<1>3. /\ Sound(db)' /\ table' = d.table
      /\ Len(table') \in 1..MaxRows /\ Len(journal') \in 0..MaxEntries
  BY <1>2, Committed
<1>4. \A one \in kept' : ViewedIn(table', one)
  BY <1>1, InViewNext
<1>5. kept' \subseteq DOMAIN table'
  BY <1>4 DEF ViewedIn
<1>6. QED
  BY <1>1, <1>3, <1>4, <1>5 DEF ToolsIInv

\* A row is in view in a table that holds what it hangs on.
CanShow(t, row) ==
    /\ ~row.deleted
    /\ row.kind # "PROJECT" => row.work \in DOMAIN t /\ ~t[row.work].deleted
    /\ row.kind = "CHARACTER_NOTE" => ~t[row.about].deleted

LEMMA Shown ==
    ASSUME NEW t \in Seq(WideRow), NEW u \in Seq(WideRow), StillShows(t, u), NEW row, RowSound(t, row),
           CanShow(t, row), NEW id \in DOMAIN u, u[id] = row
    PROVE  ViewedIn(u, id)
<1>1. DOMAIN t \subseteq DOMAIN u
  BY StaysSound DEF StillShows
<1>2. \A n \in DOMAIN t : SameShape(t[n], u[n]) /\ (~t[n].deleted => ~u[n].deleted)
  BY DEF StillShows, Grows
<1>3. QED
  BY <1>1, <1>2 DEF ViewedIn, WorkIn, RowSound, CanShow, SameShape

LEMMA CreatedStep ==
    ASSUME ToolsIInv, NEW call, ~MCP_TOOLS[call.tool].destructive, NEW d, Sound(d), StillShows(table, d.table),
           NEW row \in WideRow, RowSound(d.table, row), CanShow(d.table, row),
           NEW tx \in Nat, tx \leq Len(d.journal) + 1,
           Saved(call, createWithLog(d, row, tx), Len(d.table) + 1)
    PROVE  ToolsIInv'
<1> DEFINE c == createWithLog(d, row, tx)
           id == Len(d.table) + 1
<1>1. /\ Sound(c) /\ StillShows(d.table, c.table) /\ Len(c.table) = id /\ c.table[id] = row
  BY CreateSound
<1>2. d.table \in Seq(WideRow) /\ c.table \in Seq(WideRow) /\ table \in Seq(WideRow)
  BY <1>1, InvariantFacts DEF Sound, Db
<1> HIDE DEF c
<1>3. id \in DOMAIN c.table
  BY <1>1, <1>2, DomainOf
<1>4. ViewedIn(c.table, id)
  BY <1>1, <1>2, <1>3, Shown
<1>5. StillShows(table, c.table)
  BY <1>1, <1>2, GrowsOn
<1>6. QED
  BY <1>1, <1>4, <1>5, SavedStep DEF c

LEMMA UpdatedStep ==
    ASSUME ToolsIInv, NEW call, ~MCP_TOOLS[call.tool].destructive, NEW id \in DOMAIN table,
           NEW row \in WideRow, SameShape(table[id], row), CanShow(table, row),
           Saved(call, updateWithLog(db, id, row), id)
    PROVE  ToolsIInv'
<1> DEFINE c == updateWithLog(db, id, row)
           u == [table EXCEPT ![id] = row]
<1>1. Sound(db) /\ db.table = table /\ table \in Seq(WideRow) /\ RowSound(table, table[id])
  BY InvariantFacts
<1>2. Sound(c) /\ c.table = u
  BY <1>1, UpdateSound
<1>3. u \in Seq(WideRow) /\ DOMAIN u = DOMAIN table /\ u[id] = row /\ StillShows(table, u)
  BY <1>1, Replaced DEF CanShow
<1> HIDE DEF c, u
<1>4. ViewedIn(u, id)
  BY <1>1, <1>3, SameShapeSound, Shown
<1>5. QED
  BY <1>2, <1>3, <1>4, SavedStep DEF c

-----------------------------------------------------------------------------
(* The handlers *)

LEMMA KindNames ==
    Kinds = {"PROJECT", "CHAPTER", "SCENE", "CHARACTER", "CHARACTER_NOTE", "WORLD_NOTE", "FORESHADOWING", "MYSTERY",
             "PLOT_THREAD", "REVISION_TODO", "TIMELINE_EVENT", "TIMELINE_TAG", "STORY_STATE_SNAPSHOT"}
BY DEF Kinds, Schemas

\* Which tools are marked destructive.
LEMMA Hints ==
    /\ \A name \in {"create_project", "update_project", "save_timeline_event", "save_timeline_tag"} \cup DOMAIN SaveTools :
          ~MCP_TOOLS[name].destructive
    /\ \A name \in DOMAIN UndoTools : MCP_TOOLS[name].destructive
<1>1. \A does, kinds, required :
          /\ Tool(does, kinds, required).destructive = FALSE
          /\ Destructive(Tool(does, kinds, required)).destructive = TRUE
  BY DEF Tool, Destructive
<1>2. ASSUME NEW name \in DOMAIN SaveTools PROVE ~MCP_TOOLS[name].destructive
  <2>1. MCP_TOOLS[name] = SaveTools[name]
    BY ToolOf
  <2>2. \E does, kinds, required : SaveTools[name] = Tool(does, kinds, required)
    BY ToolNames DEF SaveTools
  <2>3. QED
    BY <1>1, <2>1, <2>2
<1>3. ASSUME NEW name \in {"create_project", "update_project"} PROVE ~MCP_TOOLS[name].destructive
  <2>1. MCP_TOOLS[name] = WorkTools[name]
    BY ToolNames DEF MCP_TOOLS
  <2>2. \E does, kinds, required : WorkTools[name] = Tool(does, kinds, required)
    BY ToolNames DEF WorkTools
  <2>3. QED
    BY <1>1, <2>1, <2>2
<1>4. ASSUME NEW name \in {"save_timeline_event", "save_timeline_tag"} PROVE ~MCP_TOOLS[name].destructive
  <2>1. MCP_TOOLS[name] = TimelineTools[name]
    BY ToolOf
  <2>2. \E does, kinds, required : TimelineTools[name] = Tool(does, kinds, required)
    BY ToolNames DEF TimelineTools
  <2>3. QED
    BY <1>1, <2>1, <2>2
<1>5. ASSUME NEW name \in DOMAIN UndoTools PROVE MCP_TOOLS[name].destructive
  <2>1. name \notin DOMAIN WorkTools \cup DOMAIN SaveTools \cup DOMAIN ReadTools \cup DOMAIN TimelineTools
    BY ToolNames
  <2>2. MCP_TOOLS[name] = UndoTools[name]
    BY <2>1 DEF MCP_TOOLS
  <2>3. \E does, kinds, required : UndoTools[name] = Destructive(Tool(does, kinds, required))
    BY ToolNames DEF UndoTools
  <2>4. QED
    BY <1>1, <2>2, <2>3
<1>6. QED
  BY <1>2, <1>3, <1>4, <1>5

\* What a handler that found the work may rely on.
LEMMA OwnedFacts ==
    ASSUME ToolsIInv, NEW work, Owned(work)
    PROVE  /\ work \in DOMAIN table /\ work \in Nat /\ table[work].kind = "PROJECT" /\ ~table[work].deleted
           /\ ViewedIn(table, work)
           /\ NewId \in Nat /\ NextTx \in Nat /\ NextTx = Len(db.journal) + 1 /\ NewId = Len(db.table) + 1
<1>1. work \in DOMAIN table /\ table[work].kind = "PROJECT" /\ ~table[work].deleted
  BY DEF Owned, IsA, Live
<1>2. QED
  BY <1>1, InvariantFacts DEF ViewedIn, WorkIn, NewId, NextTx

\* A row made in a work that is there, that refers to nothing.
LEMMA PlainRow ==
    ASSUME ToolsIInv, NEW work, Owned(work), NEW d, Sound(d), StillShows(table, d.table), NEW row \in WideRow,
           row.work = work, row.kind # "CHARACTER_NOTE", row.links = {}, ~row.deleted
    PROVE  RowSound(d.table, row) /\ CanShow(d.table, row)
<1>1. d.table \in Seq(WideRow) /\ table \in Seq(WideRow)
  BY InvariantFacts DEF Sound, Db
<1>2. /\ work \in DOMAIN d.table /\ SameShape(table[work], d.table[work]) /\ ~d.table[work].deleted
      /\ table[work].kind = "PROJECT"
  BY <1>1, OwnedFacts, StaysSound DEF StillShows, Grows
<1>3. QED
  BY <1>2 DEF RowSound, CanShow, SameShape

LEMMA CreateProjectStep ==
    ASSUME ToolsIInv, NEW call \in Calls("create_project"), NEW title \in Titles, NEW limited,
           CreateProject(call, title, limited)
    PROVE  ToolsIInv'
<1> DEFINE first == Blank("PROJECT", 0, title)
           d == createWithLog(db, first, NextTx)
           row == Blank("STORY_STATE_SNAPSHOT", NewId, title)
           c == createWithLog(d, row, NextTx)
<1>1. call.tool = "create_project" /\ call.tool \in DOMAIN MCP_TOOLS
  BY LetIn, ThereAreTools
<1>2. (\E status : Refused(call, status)) \/ Saved(call, c, NewId)
  BY Zenon DEF CreateProject
<1>3. CASE \E status : Refused(call, status)
  BY <1>1, <1>3, RefusedStep
<1>4. CASE Saved(call, c, NewId)
  <2>1. /\ Sound(db) /\ db.table = table /\ db.journal = journal /\ table \in Seq(WideRow)
        /\ Len(table) \in Nat /\ Len(journal) \in Nat /\ DOMAIN table = 1..Len(table)
    BY InvariantFacts
  <2>2. NewId = Len(table) + 1 /\ NextTx = Len(journal) + 1 /\ NewId \in Nat /\ NextTx \in Nat
    BY <2>1 DEF NewId, NextTx
  <2>3. first \in WideRow /\ first.kind = "PROJECT" /\ first.links = {} /\ ~first.deleted
    BY KindNames DEF Blank, WideRow
  <2>4. RowSound(table, first) /\ CanShow(table, first)
    BY <2>3 DEF RowSound, CanShow
  <2>5. /\ Sound(d) /\ d.table \in Seq(WideRow) /\ Len(d.journal) = Len(journal) + 1 /\ StillShows(table, d.table)
        /\ Len(d.table) = NewId /\ d.table[NewId] = first
    <3>1. NextTx \leq Len(db.journal) + 1
      BY <2>1, <2>2
    <3> HIDE DEF first
    <3>2. QED
      BY <2>1, <2>2, <2>3, <2>4, <3>1, CreateSound DEF Sound, Db
  <2>6. row \in WideRow /\ row.kind = "STORY_STATE_SNAPSHOT" /\ row.work = NewId /\ row.links = {}
    BY <2>2, KindNames DEF Blank, WideRow
  <2> HIDE DEF first, d, row
  <2>7. NewId \in DOMAIN d.table
    BY <2>2, <2>5, DomainOf
  <2>8. RowSound(d.table, row)
    BY <2>3, <2>5, <2>6, <2>7 DEF RowSound
  <2>9. /\ Sound(c) /\ StillShows(d.table, c.table) /\ c.table \in Seq(WideRow)
    <3>1. NextTx \leq Len(d.journal) + 1
      BY <2>1, <2>2, <2>5
    <3>2. QED
      BY <2>2, <2>5, <2>6, <2>8, <3>1, CreateSound DEF Sound, Db
  <2> HIDE DEF c
  <2>10. ViewedIn(d.table, NewId)
    BY <2>3, <2>5, <2>7 DEF ViewedIn, WorkIn
  <2>11. ViewedIn(c.table, NewId) /\ StillShows(table, c.table)
    BY <2>1, <2>5, <2>9, <2>10, StaysInView, GrowsOn
  <2>12. ~MCP_TOOLS[call.tool].destructive
    BY <1>1, Hints
  <2>13. QED
    BY <1>4, <2>9, <2>11, <2>12, SavedStep
<1>5. QED
  BY <1>2, <1>3, <1>4

LEMMA UpdateProjectStep ==
    ASSUME ToolsIInv, NEW call \in Calls("update_project"), NEW work, NEW title \in Titles,
           UpdateProject(call, work, title)
    PROVE  ToolsIInv'
<1> DEFINE row == IF "title" \in call.given THEN [table[work] EXCEPT !.title = title] ELSE table[work]
<1>1. call.tool = "update_project" /\ call.tool \in DOMAIN MCP_TOOLS
  BY LetIn, ThereAreTools
<1>2. \/ \E status : Refused(call, status)
      \/ Owned(work) /\ Saved(call, updateWithLog(db, work, row), work)
  BY Zenon DEF UpdateProject
<1>3. CASE \E status : Refused(call, status)
  BY <1>1, <1>3, RefusedStep
<1>4. CASE Owned(work) /\ Saved(call, updateWithLog(db, work, row), work)
  <2>1. work \in DOMAIN table /\ table[work] \in WideRow /\ table[work].kind = "PROJECT" /\ ~table[work].deleted
    BY <1>4, OwnedFacts, InvariantFacts
  <2>2. row \in WideRow /\ SameShape(table[work], row) /\ row.kind = "PROJECT" /\ ~row.deleted
    BY <2>1 DEF WideRow, SameShape
  <2>3. CanShow(table, row)
    BY <2>2 DEF CanShow
  <2>4. ~MCP_TOOLS[call.tool].destructive
    BY <1>1, Hints
  <2> HIDE DEF row
  <2>5. QED
    BY <1>4, <2>1, <2>2, <2>3, <2>4, UpdatedStep
<1>5. QED
  BY <1>2, <1>3, <1>4

\* A chapter a title is not found for is made first.
LEMMA MadeFirst ==
    ASSUME ToolsIInv, NEW work, Owned(work), NEW kind \in {"CHAPTER", "CHARACTER"}, NEW title \in Titles
    PROVE  LET row == Blank(kind, work, title)
               d == createWithLog(db, row, NextTx)
           IN /\ Sound(d) /\ StillShows(table, d.table) /\ Len(d.journal) = Len(journal) + 1
              /\ Len(d.table) = NewId /\ d.table[NewId] = row /\ NewId \in DOMAIN d.table
<1> DEFINE row == Blank(kind, work, title)
           d == createWithLog(db, row, NextTx)
<1>1. /\ Sound(db) /\ db.table = table /\ db.journal = journal /\ table \in Seq(WideRow) /\ StillShows(table, table)
      /\ Len(table) \in Nat /\ Len(journal) \in Nat
  BY InvariantFacts
<1>2. NewId = Len(table) + 1 /\ NextTx = Len(journal) + 1 /\ NextTx \in Nat /\ NextTx \leq Len(db.journal) + 1
      /\ work \in Nat
  BY <1>1, OwnedFacts DEF NewId, NextTx
<1>3. row \in WideRow /\ row.work = work /\ row.kind # "CHARACTER_NOTE" /\ row.links = {} /\ ~row.deleted
  BY <1>2, KindNames DEF Blank, WideRow
<1> HIDE DEF row
<1>4. RowSound(table, row)
  BY <1>1, <1>3, PlainRow
<1>5. /\ Sound(d) /\ d.table = Append(table, row) /\ Len(d.journal) = Len(journal) + 1
      /\ StillShows(table, d.table) /\ Len(d.table) = NewId /\ d.table[NewId] = row
  BY <1>1, <1>2, <1>3, <1>4, CreateSound
<1> HIDE DEF d
<1>6. NewId \in DOMAIN d.table
  <2>1. d.table \in Seq(WideRow) /\ NewId \in Nat /\ NewId \geq 1
    BY <1>1, <1>2, <1>5 DEF Sound, Db
  <2>2. QED
    BY <1>5, <2>1, DomainOf
<1>7. QED
  BY <1>5, <1>6 DEF row, d

LEMMA SaveSceneStep ==
    ASSUME ToolsIInv, NEW call \in Calls("save_scene"), NEW work, NEW title \in Titles,
           NEW chapter \in Every("CHAPTER") \cup {0}, NEW chapterTitle \in Titles, NEW limited, NEW taken,
           SaveScene(call, work, title, chapter, chapterTitle, limited, taken)
    PROVE  ToolsIInv'
<1> DEFINE found == Named(work, "CHAPTER", chapterTitle)
           byTitle == ~Has(call, "chapterId") /\ Has(call, "chapterTitle")
           makes == byTitle /\ found = {}
           d == IF makes THEN createWithLog(db, Blank("CHAPTER", work, chapterTitle), NextTx) ELSE db
           scene(c) == [Blank("SCENE", work, title) EXCEPT !.about = c]
           of == IF Has(call, "chapterId") THEN {chapter} ELSE IF ~byTitle THEN {0}
                 ELSE IF makes THEN {NewId} ELSE found
<1>1. call.tool = "save_scene" /\ call.tool \in DOMAIN MCP_TOOLS
  BY LetIn, ThereAreTools
<1>2. \/ \E status : Refused(call, status)
      \/ Owned(work) /\ \E c \in of : Saved(call, createWithLog(d, scene(c), NextTx), Len(d.table) + 1)
  BY Zenon DEF SaveScene
<1>3. CASE \E status : Refused(call, status)
  BY <1>1, <1>3, RefusedStep
<1>4. ASSUME Owned(work), NEW c \in of, Saved(call, createWithLog(d, scene(c), NextTx), Len(d.table) + 1)
      PROVE  ToolsIInv'
  <2>1. c \in Nat
    <3>1. found \subseteq DOMAIN table /\ Every("CHAPTER") \subseteq DOMAIN table
      BY DEF Named, Of, Every
    <3>2. DOMAIN table \subseteq Nat /\ NewId \in Nat
      BY <1>4, InvariantFacts, OwnedFacts
    <3> HIDE DEF found, byTitle, makes
    <3>3. of \subseteq Nat
      BY <3>1, <3>2
    <3> HIDE DEF of
    <3>4. QED
      BY <3>3
  <2>2. /\ Sound(d) /\ StillShows(table, d.table) /\ NextTx \in Nat /\ NextTx \leq Len(d.journal) + 1 /\ work \in Nat
    <3>1. Sound(db) /\ db.table = table /\ db.journal = journal /\ StillShows(table, table) /\ Len(journal) \in Nat
      BY InvariantFacts
    <3>2. NextTx = Len(journal) + 1 /\ NextTx \in Nat /\ work \in Nat
      BY <1>4, <3>1, OwnedFacts DEF NextTx
    <3>3. CASE makes
      <4>1. Sound(d) /\ StillShows(table, d.table) /\ Len(d.journal) = Len(journal) + 1
        BY <1>4, <3>3, MadeFirst
      <4>2. QED
        BY <3>1, <3>2, <4>1
    <3>4. CASE ~makes
      BY <3>1, <3>2, <3>4
    <3>5. QED
      BY <3>3, <3>4
  <2>3. /\ scene(c) \in WideRow /\ scene(c).work = work /\ scene(c).kind # "CHARACTER_NOTE"
        /\ scene(c).links = {} /\ ~scene(c).deleted
    BY <2>1, <2>2, KindNames DEF Blank, WideRow
  <2> HIDE DEF d, scene
  <2>4. RowSound(d.table, scene(c)) /\ CanShow(d.table, scene(c))
    BY <1>4, <2>2, <2>3, PlainRow
  <2>5. ~MCP_TOOLS[call.tool].destructive
    BY <1>1, Hints, ToolNames
  <2>6. QED
    BY <1>4, <2>2, <2>3, <2>4, <2>5, CreatedStep
<1>5. QED
  BY <1>2, <1>3, <1>4

\* Characters found in a work.
LEMMA FoundFacts ==
    ASSUME ToolsIInv, NEW work, Owned(work), NEW c \in Of(work, "CHARACTER")
    PROVE  /\ c \in DOMAIN table /\ table[c] \in WideRow /\ table[c].kind = "CHARACTER" /\ table[c].work = work
           /\ ~table[c].deleted /\ CanShow(table, table[c])
<1>1. c \in DOMAIN table /\ ~table[c].deleted /\ table[c].kind = "CHARACTER" /\ WorkOf(c) = work
  BY DEF Of, IsA, Live
<1>2. table[c].work = work
  BY <1>1 DEF WorkOf
<1>3. QED
  BY <1>1, <1>2, InvariantFacts, OwnedFacts DEF CanShow

LEMMA SaveCharacterStep ==
    ASSUME ToolsIInv, NEW call \in Calls("save_character"), NEW work, NEW id, NEW title \in Titles, NEW limited,
           SaveCharacter(call, work, id, title, limited)
    PROVE  ToolsIInv'
<1> DEFINE found == Named(work, "CHARACTER", title)
           renamed == IF "name" \in call.given THEN [table[id] EXCEPT !.title = title] ELSE table[id]
           new == Blank("CHARACTER", work, title)
<1>1. call.tool = "save_character" /\ call.tool \in DOMAIN MCP_TOOLS /\ ~MCP_TOOLS[call.tool].destructive
  BY LetIn, ThereAreTools, Hints, ToolNames
<1>2. \/ \E status : Refused(call, status)
      \/ Owned(work) /\ id \in Of(work, "CHARACTER") /\ Saved(call, updateWithLog(db, id, renamed), id)
      \/ Owned(work) /\ \E c \in found : Saved(call, updateWithLog(db, c, table[c]), c)
      \/ Owned(work) /\ Saved(call, createWithLog(db, new, 0), NewId)
  BY Zenon DEF SaveCharacter
<1>3. CASE \E status : Refused(call, status)
  BY <1>1, <1>3, RefusedStep
<1>4. CASE Owned(work) /\ id \in Of(work, "CHARACTER") /\ Saved(call, updateWithLog(db, id, renamed), id)
  <2>1. /\ id \in DOMAIN table /\ table[id] \in WideRow /\ CanShow(table, table[id])
        /\ table[id].kind = "CHARACTER" /\ ~table[id].deleted
    BY <1>4, FoundFacts
  <2>2. /\ renamed \in WideRow /\ SameShape(table[id], renamed) /\ renamed.kind = "CHARACTER" /\ ~renamed.deleted
    BY <2>1 DEF WideRow, SameShape
  <2> HIDE DEF renamed
  <2>3. CanShow(table, renamed)
    BY <2>1, <2>2 DEF CanShow, SameShape
  <2>4. QED
    BY <1>1, <1>4, <2>1, <2>2, <2>3, UpdatedStep
<1>5. ASSUME Owned(work), NEW c \in found, Saved(call, updateWithLog(db, c, table[c]), c)
      PROVE  ToolsIInv'
  <2>1. c \in Of(work, "CHARACTER")
    BY DEF Named
  <2>2. c \in DOMAIN table /\ table[c] \in WideRow /\ CanShow(table, table[c]) /\ SameShape(table[c], table[c])
    BY <1>5, <2>1, FoundFacts DEF SameShape
  <2>3. QED
    BY <1>1, <1>5, <2>2, UpdatedStep
<1>6. CASE Owned(work) /\ Saved(call, createWithLog(db, new, 0), NewId)
  <2>1. Sound(db) /\ StillShows(table, db.table) /\ 0 \leq Len(db.journal) + 1 /\ NewId = Len(db.table) + 1 /\ work \in Nat
    BY <1>6, InvariantFacts, OwnedFacts
  <2>2. /\ new \in WideRow /\ new.work = work /\ new.kind # "CHARACTER_NOTE" /\ new.links = {} /\ ~new.deleted
    BY <2>1, KindNames DEF Blank, WideRow
  <2> HIDE DEF new
  <2>3. RowSound(db.table, new) /\ CanShow(db.table, new)
    BY <1>6, <2>1, <2>2, PlainRow
  <2>4. Saved(call, createWithLog(db, new, 0), Len(db.table) + 1)
    BY <1>6, <2>1
  <2>5. QED
    BY <1>1, <2>1, <2>2, <2>3, <2>4, CreatedStep
<1>7. QED
  BY <1>2, <1>3, <1>4, <1>5, <1>6

LEMMA SaveCharacterNoteStep ==
    ASSUME ToolsIInv, NEW call \in Calls("save_character_note"), NEW work, NEW id, NEW name \in Titles,
           NEW title \in Titles, NEW limited, SaveCharacterNote(call, work, id, name, title, limited)
    PROVE  ToolsIInv'
<1> DEFINE named == IF "characterName" \in call.given THEN name ELSE Unknown
           found == IF Has(call, "characterId") /\ id \in Of(work, "CHARACTER") THEN {id}
                    ELSE Named(work, "CHARACTER", named)
           new == Blank("CHARACTER", work, named)
           d == IF found = {} THEN createWithLog(db, new, NextTx) ELSE db
           note(c) == [Blank("CHARACTER_NOTE", work, title) EXCEPT !.about = c]
<1>1. call.tool = "save_character_note" /\ call.tool \in DOMAIN MCP_TOOLS /\ ~MCP_TOOLS[call.tool].destructive
  BY LetIn, ThereAreTools, Hints, ToolNames
<1>2. \/ \E status : Refused(call, status)
      \/ Owned(work) /\ \E c \in IF found = {} THEN {NewId} ELSE found :
            Saved(call, createWithLog(d, note(c), NextTx), Len(d.table) + 1)
  BY Zenon DEF SaveCharacterNote
<1>3. CASE \E status : Refused(call, status)
  BY <1>1, <1>3, RefusedStep
<1>4. ASSUME Owned(work), NEW c \in IF found = {} THEN {NewId} ELSE found,
             Saved(call, createWithLog(d, note(c), NextTx), Len(d.table) + 1)
      PROVE  ToolsIInv'
  <2>1. /\ Sound(db) /\ db.table = table /\ db.journal = journal /\ StillShows(table, table) /\ Len(journal) \in Nat
        /\ table \in Seq(WideRow) /\ DOMAIN table = 1..Len(table)
    BY InvariantFacts
  <2>2. NextTx = Len(journal) + 1 /\ NextTx \in Nat /\ work \in Nat
    BY <1>4, <2>1, OwnedFacts DEF NextTx
  <2>3. named \in Titles
    BY ToolsAssumption
  <2> HIDE DEF named
  <2>4. /\ Sound(d) /\ StillShows(table, d.table) /\ NextTx \leq Len(d.journal) + 1
        /\ c \in DOMAIN d.table /\ c \in Nat
        /\ d.table[c].kind = "CHARACTER" /\ d.table[c].work = work /\ ~d.table[c].deleted
    <3>1. CASE found = {}
      <4>1. /\ Sound(d) /\ StillShows(table, d.table) /\ Len(d.journal) = Len(journal) + 1
            /\ c \in DOMAIN d.table /\ d.table[c] = new
        BY <1>4, <2>3, <3>1, MadeFirst
      <4>2. new.kind = "CHARACTER" /\ new.work = work /\ ~new.deleted
        BY DEF Blank
      <4> HIDE DEF found, new, d
      <4>3. c \in Nat
        BY <1>4, <3>1, OwnedFacts
      <4>4. QED
        BY <2>1, <2>2, <4>1, <4>2, <4>3
    <3>2. CASE found # {}
      <4>1. c \in Of(work, "CHARACTER")
        BY <1>4, <3>2 DEF Named
      <4>2. c \in DOMAIN table /\ table[c].kind = "CHARACTER" /\ table[c].work = work /\ ~table[c].deleted
        BY <1>4, <4>1, FoundFacts
      <4>3. d = db
        BY <3>2
      <4> HIDE DEF found, new, d
      <4>4. QED
        BY <2>1, <2>2, <4>2, <4>3
    <3>3. QED
      BY <3>1, <3>2
  <2>5. /\ note(c) \in WideRow /\ note(c).work = work /\ note(c).kind = "CHARACTER_NOTE" /\ note(c).about = c
        /\ note(c).links = {} /\ ~note(c).deleted
    BY <2>2, <2>4, KindNames DEF Blank, WideRow
  <2>6. work \in DOMAIN d.table /\ d.table[work].kind = "PROJECT" /\ ~d.table[work].deleted
    <3>1. ViewedIn(table, work) /\ work \in DOMAIN table /\ table[work].kind = "PROJECT" /\ ~table[work].deleted
      BY <1>4, OwnedFacts
    <3>2. d.table \in Seq(WideRow)
      BY <2>4 DEF Sound, Db
    <3> HIDE DEF d
    <3>3. QED
      BY <2>1, <2>4, <3>1, <3>2, StaysSound DEF StillShows, Grows, SameShape
  <2> HIDE DEF d, note, found
  <2>7. RowSound(d.table, note(c)) /\ CanShow(d.table, note(c))
    BY <2>4, <2>5, <2>6 DEF RowSound, CanShow
  <2>8. QED
    BY <1>1, <1>4, <2>2, <2>4, <2>5, <2>7, CreatedStep
<1>5. QED
  BY <1>2, <1>3, <1>4

\* The kind a tool of actionMap saves is no work and no note.
LEMMA ActionKinds ==
    ASSUME NEW name \in actionMap
    PROVE  /\ name \in DOMAIN SaveTools
           /\ (CHOOSE k \in MCP_TOOLS[name].kinds : TRUE) \in Kinds \ {"PROJECT", "CHARACTER_NOTE"}
<1>1. name \in DOMAIN SaveTools /\ MCP_TOOLS[name] = SaveTools[name]
  BY ToolNames, ToolOf DEF actionMap
<1>2. \E kind \in Kinds \ {"PROJECT", "CHARACTER_NOTE"} : SaveTools[name].kinds = {kind}
  <2>1. \A does, kinds, required : Tool(does, kinds, required).kinds = kinds
    BY DEF Tool
  <2>2. QED
    BY <2>1, KindNames DEF SaveTools, actionMap
<1>3. QED
  BY <1>1, <1>2

LEMMA SaveRecordStep ==
    ASSUME ToolsIInv, NEW name \in actionMap, NEW call \in Calls(name), NEW work, NEW title \in Titles,
           NEW finished \in BOOLEAN, NEW limited, SaveRecord(call, work, title, finished, limited)
    PROVE  ToolsIInv'
<1> DEFINE kind == CHOOSE k \in MCP_TOOLS[call.tool].kinds : TRUE
           row == [Blank(kind, work, title) EXCEPT !.finished = finished /\ kind \in Finishing]
<1>1. call.tool = name /\ call.tool \in DOMAIN MCP_TOOLS /\ ~MCP_TOOLS[call.tool].destructive
  <2>1. name \in DOMAIN MCP_TOOLS
    BY ThereAreTools
  <2>2. call.tool = name /\ ~MCP_TOOLS[name].destructive
    BY LetIn, Hints, ActionKinds
  <2>3. QED
    BY <2>1, <2>2
<1>2. (\E status : Refused(call, status)) \/ (Owned(work) /\ Saved(call, createWithLog(db, row, 0), NewId))
  BY Zenon DEF SaveRecord
<1>3. CASE \E status : Refused(call, status)
  BY <1>1, <1>3, RefusedStep
<1>4. CASE Owned(work) /\ Saved(call, createWithLog(db, row, 0), NewId)
  <2>1. Sound(db) /\ StillShows(table, db.table) /\ 0 \leq Len(db.journal) + 1 /\ NewId = Len(db.table) + 1 /\ work \in Nat
    BY <1>4, InvariantFacts, OwnedFacts
  <2>2. kind \in Kinds \ {"PROJECT", "CHARACTER_NOTE"}
    BY <1>1, ActionKinds
  <2> HIDE DEF kind
  <2>3. /\ row \in WideRow /\ row.work = work /\ row.kind # "CHARACTER_NOTE" /\ row.links = {} /\ ~row.deleted
    BY <2>1, <2>2 DEF Blank, WideRow
  <2> HIDE DEF row
  <2>4. RowSound(db.table, row) /\ CanShow(db.table, row)
    BY <1>4, <2>1, <2>3, PlainRow
  <2>5. Saved(call, createWithLog(db, row, 0), Len(db.table) + 1)
    BY <1>4, <2>1
  <2>6. QED
    BY <1>1, <2>1, <2>3, <2>4, <2>5, CreatedStep
<1>5. QED
  BY <1>2, <1>3, <1>4

LEMMA SaveTimelineEventStep ==
    ASSUME ToolsIInv, NEW call \in Calls("save_timeline_event"), NEW work, NEW title \in Titles,
           NEW asked \in SUBSET DOMAIN table, SaveTimelineEvent(call, work, title, asked)
    PROVE  ToolsIInv'
<1> DEFINE row == [Blank("TIMELINE_EVENT", work, title) EXCEPT !.links = Linked(work, asked)]
<1>1. call.tool = "save_timeline_event" /\ call.tool \in DOMAIN MCP_TOOLS /\ ~MCP_TOOLS[call.tool].destructive
  BY LetIn, ThereAreTools, Hints
<1>2. (\E status : Refused(call, status)) \/ (Owned(work) /\ Saved(call, createWithLog(db, row, 0), NewId))
  BY Zenon DEF SaveTimelineEvent
<1>3. CASE \E status : Refused(call, status)
  BY <1>1, <1>3, RefusedStep
<1>4. CASE Owned(work) /\ Saved(call, createWithLog(db, row, 0), NewId)
  <2>1. /\ Sound(db) /\ StillShows(table, db.table) /\ 0 \leq Len(db.journal) + 1 /\ NewId = Len(db.table) + 1 /\ work \in Nat
        /\ db.table = table /\ DOMAIN table \subseteq Nat
    BY <1>4, InvariantFacts, OwnedFacts
  <2>2. \A other \in Linked(work, asked) :
            /\ other \in DOMAIN table /\ table[other].kind \in Linkable /\ table[other].work = work
    BY DEF Linked, Linkable, Of, IsA, Live, WorkOf
  <2>3. /\ row \in WideRow /\ row.work = work /\ row.kind = "TIMELINE_EVENT" /\ row.links = Linked(work, asked)
        /\ ~row.deleted
    <3>1. Linked(work, asked) \subseteq Nat
      BY <2>1, <2>2
    <3>2. QED
      BY <2>1, <3>1, KindNames DEF Blank, WideRow
  <2> HIDE DEF row
  <2>4. RowSound(table, row) /\ CanShow(table, row)
    BY <1>4, <2>2, <2>3, OwnedFacts DEF RowSound, CanShow
  <2>5. Saved(call, createWithLog(db, row, 0), Len(db.table) + 1)
    BY <1>4, <2>1
  <2>6. QED
    BY <1>1, <2>1, <2>3, <2>4, <2>5, CreatedStep
<1>5. QED
  BY <1>2, <1>3, <1>4

LEMMA SaveTimelineTagStep ==
    ASSUME ToolsIInv, NEW call \in Calls("save_timeline_tag"), NEW work, NEW title \in Titles,
           SaveTimelineTag(call, work, title)
    PROVE  ToolsIInv'
<1> DEFINE found == {id \in DOMAIN table : table[id].kind = "TIMELINE_TAG" /\ table[id].work = work
                                           /\ table[id].title = title}
           new == Blank("TIMELINE_TAG", work, title)
           back(id) == [table[id] EXCEPT !.deleted = FALSE]
<1>1. call.tool = "save_timeline_tag" /\ call.tool \in DOMAIN MCP_TOOLS /\ ~MCP_TOOLS[call.tool].destructive
  BY LetIn, ThereAreTools, Hints
<1>2. \/ \E status : Refused(call, status)
      \/ Owned(work) /\ Saved(call, createWithLog(db, new, 0), NewId)
      \/ Owned(work) /\ \E id \in found : Live(id) /\ Saved(call, db, id)
      \/ Owned(work) /\ \E id \in found : Saved(call, updateWithLog(db, id, back(id)), id)
  BY Zenon DEF SaveTimelineTag
<1>3. CASE \E status : Refused(call, status)
  BY <1>1, <1>3, RefusedStep
<1>4. CASE Owned(work) /\ Saved(call, createWithLog(db, new, 0), NewId)
  <2>1. Sound(db) /\ StillShows(table, db.table) /\ 0 \leq Len(db.journal) + 1 /\ NewId = Len(db.table) + 1 /\ work \in Nat
    BY <1>4, InvariantFacts, OwnedFacts
  <2>2. /\ new \in WideRow /\ new.work = work /\ new.kind # "CHARACTER_NOTE" /\ new.links = {} /\ ~new.deleted
    BY <2>1, KindNames DEF Blank, WideRow
  <2> HIDE DEF new
  <2>3. RowSound(db.table, new) /\ CanShow(db.table, new)
    BY <1>4, <2>1, <2>2, PlainRow
  <2>4. Saved(call, createWithLog(db, new, 0), Len(db.table) + 1)
    BY <1>4, <2>1
  <2>5. QED
    BY <1>1, <2>1, <2>2, <2>3, <2>4, CreatedStep
<1>5. ASSUME Owned(work), NEW id \in found, Live(id), Saved(call, db, id)
      PROVE  ToolsIInv'
  <2>1. Sound(db) /\ db.table = table /\ StillShows(table, table)
    BY InvariantFacts
  <2>2. ViewedIn(table, id)
    BY <1>5, OwnedFacts DEF ViewedIn, WorkIn, Live
  <2>3. QED
    BY <1>1, <1>5, <2>1, <2>2, SavedStep
<1>6. ASSUME Owned(work), NEW id \in found, Saved(call, updateWithLog(db, id, back(id)), id)
      PROVE  ToolsIInv'
  <2>1. id \in DOMAIN table /\ table[id] \in WideRow /\ table[id].kind = "TIMELINE_TAG" /\ table[id].work = work
    BY InvariantFacts
  <2>2. back(id) \in WideRow /\ SameShape(table[id], back(id)) /\ ~back(id).deleted
    BY <2>1 DEF WideRow, SameShape
  <2> HIDE DEF back, found
  <2>3. CanShow(table, back(id))
    BY <1>6, <2>1, <2>2, OwnedFacts DEF CanShow, SameShape
  <2>4. QED
    BY <1>1, <1>6, <2>1, <2>2, <2>3, UpdatedStep
<1>7. QED
  BY <1>2, <1>3, <1>4, <1>5, <1>6

LEMMA DeleteStep ==
    ASSUME ToolsIInv, NEW call \in Calls("delete_project_data"), NEW kind, NEW work, NEW id,
           DeleteProjectData(call, kind, work, id)
    PROVE  ToolsIInv'
<1> DEFINE target == IF kind = "PROJECT" /\ "targetId" \notin call.given THEN work ELSE id
           d == softDeleteWithLog(db, target)
<1>1. call.tool = "delete_project_data" /\ call.tool \in DOMAIN MCP_TOOLS /\ MCP_TOOLS[call.tool].destructive
  BY LetIn, ThereAreTools, Hints, ToolNames
<1>2. \/ \E status : Refused(call, status)
      \/ OwnedTarget(kind, target) /\ Commit(d) /\ Answer(call, {})
  BY Zenon DEF DeleteProjectData
<1>3. CASE \E status : Refused(call, status)
  BY <1>1, <1>3, RefusedStep
<1>4. CASE OwnedTarget(kind, target) /\ Commit(d) /\ Answer(call, {})
  <2>1. Sound(db) /\ db.table = table
    BY InvariantFacts
  <2>2. target \in DOMAIN db.table
    BY <1>4, <2>1 DEF OwnedTarget, IsA, Live
  <2> HIDE DEF target
  <2>3. Sound(d) /\ Len(d.table) = Len(table)
    BY <2>1, <2>2, DeleteSound
  <2> HIDE DEF d
  <2>4. QED
    BY <1>1, <1>4, <2>3, TakenStep
<1>5. QED
  BY <1>2, <1>3, <1>4

LEMMA RollbackStep ==
    ASSUME ToolsIInv, NEW name \in DOMAIN UndoTools, NEW call \in Calls(name), NEW work, NEW k, NEW force,
           Rollback(call, work, k, force)
    PROVE  ToolsIInv'
<1>1. call.tool = name /\ call.tool \in DOMAIN MCP_TOOLS /\ MCP_TOOLS[call.tool].destructive
  BY LetIn, ThereAreTools, Hints, ToolNames
<1>2. \/ \E status : Refused(call, status)
      \/ \E entries : Commit(Undone(entries, force)) /\ Answer(call, {})
  BY Zenon DEF Rollback
<1>3. CASE \E status : Refused(call, status)
  BY <1>1, <1>3, RefusedStep
<1>4. ASSUME NEW entries, Commit(Undone(entries, force)), Answer(call, {})
      PROVE  ToolsIInv'
  <2>1. Sound(Undone(entries, force)) /\ Len(Undone(entries, force).table) = Len(table)
    BY InvariantFacts, UndoneSound
  <2>2. QED
    BY <1>1, <1>4, <2>1, TakenStep
<1>5. QED
  BY <1>2, <1>3, <1>4

LEMMA AuthorDeletesStep ==
    ASSUME ToolsIInv, NEW id \in DOMAIN table, AuthorDeletes(id)
    PROVE  ToolsIInv'
<1> DEFINE row == [table[id] EXCEPT !.deleted = TRUE]
           u == [table EXCEPT ![id] = row]
<1>1. /\ table' = u /\ kept' = {other \in kept : InView(other)'} /\ journal' = journal /\ invalid' = invalid
  BY DEF AuthorDeletes
<1>2. Sound(db) /\ db.table = table /\ db.journal = journal /\ table[id] \in WideRow /\ table \in Seq(WideRow)
  BY InvariantFacts
<1>3. row \in WideRow /\ SameShape(table[id], row)
  BY <1>2 DEF WideRow, SameShape
<1> HIDE DEF row
<1>4. /\ u \in Seq(WideRow) /\ Len(u) = Len(table) /\ Grows(table, u)
      /\ \A other \in DOMAIN u : RowSound(u, u[other])
  BY <1>2, <1>3, Replaced
<1> HIDE DEF u
<1>5. \A k \in DOMAIN journal : EntrySound(u, journal[k]) /\ journal[k].tx \leq Len(journal)
  <2>1. \A k \in DOMAIN journal : EntrySound(table, journal[k]) /\ journal[k].tx \leq Len(journal)
    BY <1>2 DEF Sound
  <2>2. QED
    BY <1>2, <1>4, <2>1, StaysSound
<1>6. Sound(db)'
  <2>1. db' = [table |-> u, journal |-> journal, stop |-> 200]
    BY <1>1 DEF db
  <2>2. journal \in Seq(WideEntry)
    BY InvariantFacts
  <2>3. db' \in Db /\ db'.table = u /\ db'.journal = journal
    BY <1>4, <2>1, <2>2 DEF Db
  <2>4. QED
    BY <1>4, <1>5, <2>3 DEF Sound
<1>7. \A one \in kept' : ViewedIn(table', one)
  BY <1>1, InViewNext
<1>8. kept' \subseteq DOMAIN table'
  BY <1>7 DEF ViewedIn
<1>9. QED
  BY <1>1, <1>4, <1>6, <1>7, <1>8 DEF ToolsIInv

LEMMA CallStep ==
    ASSUME ToolsIInv, NEW kinds, NEW calls, \A name \in DOMAIN MCP_TOOLS : calls[name] \subseteq Calls(name),
           CallNext(kinds, calls)
    PROVE  ToolsIInv'
<1> DEFINE Made(name) == IF MCP_TOOLS[name].kinds \subseteq kinds THEN calls[name] ELSE {}
<1>0. /\ \A name \in DOMAIN MCP_TOOLS : Made(name) \subseteq Calls(name)
      /\ calls["delete_project_data"] \subseteq Calls("delete_project_data")
      /\ calls["rollback_command"] \subseteq Calls("rollback_command")
      /\ calls["undo_last_command"] \subseteq Calls("undo_last_command")
  BY ThereAreTools
<1>1. ASSUME NEW call \in Made("create_project"), NEW title \in Titles, NEW limited \in BOOLEAN,
             CreateProject(call, title, limited)
      PROVE  ToolsIInv'
  BY <1>0, <1>1, CreateProjectStep, ThereAreTools
<1>2. ASSUME NEW work \in Works, NEW title \in Titles, NEW call \in Made("update_project"),
             UpdateProject(call, work, title)
      PROVE  ToolsIInv'
  BY <1>0, <1>2, UpdateProjectStep, ThereAreTools
<1>3. ASSUME NEW work \in Works, NEW title \in Titles, NEW call \in Made("save_timeline_tag"),
             SaveTimelineTag(call, work, title)
      PROVE  ToolsIInv'
  BY <1>0, <1>3, SaveTimelineTagStep, ThereAreTools
<1>4. ASSUME NEW work \in Works, NEW title \in Titles, NEW call \in Made("save_timeline_event"),
             NEW asked \in SUBSET DOMAIN table, SaveTimelineEvent(call, work, title, asked)
      PROVE  ToolsIInv'
  BY <1>0, <1>4, SaveTimelineEventStep, ThereAreTools
<1>5. ASSUME NEW work \in Works, NEW title \in Titles, NEW limited \in BOOLEAN, NEW call \in Made("save_scene"),
             NEW chapter \in Every("CHAPTER") \cup {0}, NEW chapterTitle \in Titles, NEW taken \in BOOLEAN,
             SaveScene(call, work, title, chapter, chapterTitle, limited, taken)
      PROVE  ToolsIInv'
  BY <1>0, <1>5, SaveSceneStep, ThereAreTools
<1>6. ASSUME NEW work \in Works, NEW title \in Titles, NEW limited \in BOOLEAN, NEW call \in Made("save_character"),
             NEW id \in Every("CHARACTER") \cup {0}, SaveCharacter(call, work, id, title, limited)
      PROVE  ToolsIInv'
  BY <1>0, <1>6, SaveCharacterStep, ThereAreTools
<1>7. ASSUME NEW work \in Works, NEW title \in Titles, NEW limited \in BOOLEAN,
             NEW call \in Made("save_character_note"), NEW id \in Every("CHARACTER") \cup {0}, NEW name \in Titles,
             SaveCharacterNote(call, work, id, name, title, limited)
      PROVE  ToolsIInv'
  BY <1>0, <1>7, SaveCharacterNoteStep, ThereAreTools
<1>8. ASSUME NEW work \in Works, NEW title \in Titles, NEW limited \in BOOLEAN, NEW name \in actionMap,
             NEW finished \in BOOLEAN, NEW call \in Made(name), SaveRecord(call, work, title, finished, limited)
      PROVE  ToolsIInv'
  BY <1>0, <1>8, SaveRecordStep, ThereAreTools
<1>9. ASSUME NEW work \in Works, NEW call \in calls["delete_project_data"], NEW id \in DOMAIN table,
             DeleteProjectData(call, table[id].kind, work, id)
      PROVE  ToolsIInv'
  BY <1>0, <1>9, DeleteStep
<1>10. ASSUME NEW work \in Works, NEW call \in calls["rollback_command"] \cup calls["undo_last_command"],
              NEW k \in 0..Len(journal), NEW force \in BOOLEAN, Rollback(call, work, k, force)
       PROVE  ToolsIInv'
  BY <1>0, <1>10, RollbackStep, ToolNames
<1> HIDE DEF Made
<1>11. \/ \E call \in Made("create_project"), title \in Titles, limited \in BOOLEAN :
             CreateProject(call, title, limited)
       \/ \E work \in Works :
          \/ \E title \in Titles :
             \/ \E call \in Made("update_project") : UpdateProject(call, work, title)
             \/ \E call \in Made("save_timeline_tag") : SaveTimelineTag(call, work, title)
             \/ \E call \in Made("save_timeline_event"), asked \in SUBSET DOMAIN table :
                   SaveTimelineEvent(call, work, title, asked)
             \/ \E limited \in BOOLEAN :
                \/ \E call \in Made("save_scene"), chapter \in Every("CHAPTER") \cup {0}, chapterTitle \in Titles,
                      taken \in BOOLEAN : SaveScene(call, work, title, chapter, chapterTitle, limited, taken)
                \/ \E call \in Made("save_character"), id \in Every("CHARACTER") \cup {0} :
                      SaveCharacter(call, work, id, title, limited)
                \/ \E call \in Made("save_character_note"), id \in Every("CHARACTER") \cup {0}, name \in Titles :
                      SaveCharacterNote(call, work, id, name, title, limited)
                \/ \E name \in actionMap, finished \in BOOLEAN : \E call \in Made(name) :
                      SaveRecord(call, work, title, finished, limited)
          \/ \E call \in calls["delete_project_data"], id \in DOMAIN table :
                DeleteProjectData(call, table[id].kind, work, id)
          \/ \E call \in calls["rollback_command"] \cup calls["undo_last_command"], k \in 0..Len(journal),
                force \in BOOLEAN : Rollback(call, work, k, force)
  BY Zenon DEF CallNext, Made
<1>12. ASSUME NEW work \in Works, NEW title \in Titles,
              \/ \E call \in Made("update_project") : UpdateProject(call, work, title)
              \/ \E call \in Made("save_timeline_tag") : SaveTimelineTag(call, work, title)
              \/ \E call \in Made("save_timeline_event"), asked \in SUBSET DOMAIN table :
                    SaveTimelineEvent(call, work, title, asked)
       PROVE  ToolsIInv'
  BY <1>2, <1>3, <1>4, <1>12, Zenon
<1>13. ASSUME NEW work \in Works, NEW title \in Titles, NEW limited \in BOOLEAN,
              \/ \E call \in Made("save_scene"), chapter \in Every("CHAPTER") \cup {0}, chapterTitle \in Titles,
                    taken \in BOOLEAN : SaveScene(call, work, title, chapter, chapterTitle, limited, taken)
              \/ \E call \in Made("save_character"), id \in Every("CHARACTER") \cup {0} :
                    SaveCharacter(call, work, id, title, limited)
              \/ \E call \in Made("save_character_note"), id \in Every("CHARACTER") \cup {0}, name \in Titles :
                    SaveCharacterNote(call, work, id, name, title, limited)
              \/ \E name \in actionMap, finished \in BOOLEAN : \E call \in Made(name) :
                    SaveRecord(call, work, title, finished, limited)
       PROVE  ToolsIInv'
  <2>1. ASSUME NEW call \in Made("save_scene"), NEW chapter \in Every("CHAPTER") \cup {0},
               NEW chapterTitle \in Titles, NEW taken \in BOOLEAN,
               SaveScene(call, work, title, chapter, chapterTitle, limited, taken)
        PROVE  ToolsIInv'
    BY <1>5, <2>1, Zenon
  <2>2. ASSUME NEW call \in Made("save_character"), NEW id \in Every("CHARACTER") \cup {0},
               SaveCharacter(call, work, id, title, limited)
        PROVE  ToolsIInv'
    BY <1>6, <2>2, Zenon
  <2>3. ASSUME NEW call \in Made("save_character_note"), NEW id \in Every("CHARACTER") \cup {0}, NEW name \in Titles,
               SaveCharacterNote(call, work, id, name, title, limited)
        PROVE  ToolsIInv'
    BY <1>7, <2>3, Zenon
  <2>4. ASSUME NEW name \in actionMap, NEW finished \in BOOLEAN, NEW call \in Made(name),
               SaveRecord(call, work, title, finished, limited)
        PROVE  ToolsIInv'
    BY <1>8, <2>4, Zenon
  <2>5. QED
    BY <1>13, <2>1, <2>2, <2>3, <2>4, Zenon
<1>14. ASSUME NEW work \in Works,
              \/ \E call \in calls["delete_project_data"], id \in DOMAIN table :
                    DeleteProjectData(call, table[id].kind, work, id)
              \/ \E call \in calls["rollback_command"] \cup calls["undo_last_command"], k \in 0..Len(journal),
                    force \in BOOLEAN : Rollback(call, work, k, force)
       PROVE  ToolsIInv'
  BY <1>9, <1>10, <1>14, Zenon
<1>15. QED
  BY <1>1, <1>11, <1>12, <1>13, <1>14, Zenon

LEMMA ToolsInitial == ToolsInit => ToolsIInv
<1> SUFFICES ASSUME ToolsInit PROVE ToolsIInv
  OBVIOUS
<1> DEFINE row == Blank("PROJECT", 0, Unknown)
<1>1. table = <<row>> /\ journal = <<>> /\ kept = {1} /\ invalid = {}
  BY DEF ToolsInit
<1>2. row \in WideRow /\ row.kind = "PROJECT" /\ row.links = {} /\ ~row.deleted
  BY ToolsAssumption, KindNames DEF Blank, WideRow
<1> HIDE DEF row
<1>3. table \in Seq(WideRow) /\ Len(table) = 1 /\ table[1] = row /\ DOMAIN table = {1}
  BY <1>1, <1>2
<1>4. journal \in Seq(WideEntry) /\ Len(journal) = 0 /\ DOMAIN journal = {}
  BY <1>1, EmptySeq
<1>5. db \in Db /\ db.table = table /\ db.journal = journal
  BY <1>3, <1>4 DEF db, Db
<1>6. RowSound(table, row)
  BY <1>2 DEF RowSound
<1>7. Sound(db)
  BY <1>3, <1>4, <1>5, <1>6 DEF Sound
<1>8. ViewedIn(table, 1)
  BY <1>2, <1>3 DEF ViewedIn, WorkIn
<1>9. QED
  BY <1>1, <1>3, <1>4, <1>7, <1>8, ToolsAssumption DEF ToolsIInv

-----------------------------------------------------------------------------
(* The properties *)

LEMMA ToolsTyped == ToolsIInv => ToolsTypeOK
<1> SUFFICES ASSUME ToolsIInv PROVE ToolsTypeOK
  OBVIOUS
<1>1. /\ table \in Seq(WideRow) /\ journal \in Seq(WideEntry)
      /\ DOMAIN table = 1..Len(table) /\ Len(table) \in 1..MaxRows
      /\ DOMAIN journal = 1..Len(journal) /\ Len(journal) \in Nat
      /\ \A id \in DOMAIN table : table[id] \in WideRow /\ RowSound(table, table[id])
  BY InvariantFacts
<1>2. Len(journal) \in 0..MaxEntries /\ kept \subseteq DOMAIN table /\ invalid \subseteq Complaints
  BY DEF ToolsIInv
<1>3. DOMAIN table \subseteq 1..MaxRows
  BY <1>1, ToolsAssumption
<1>4. ASSUME NEW id \in DOMAIN table PROVE table[id] \in Row /\ table[id].links \subseteq 1..MaxRows
  <2>1. table[id].links \subseteq DOMAIN table
    BY <1>1 DEF RowSound
  <2>2. table[id] \in WideRow
    BY <1>1
  <2>3. QED
    BY <1>3, <2>1, <2>2 DEF WideRow, Row
<1>5. table \in Seq(Row)
  BY <1>1, <1>4
<1>6. ASSUME NEW k \in DOMAIN journal
      PROVE  /\ journal[k] \in WideEntry /\ EntrySound(table, journal[k])
             /\ journal[k].tx \leq Len(journal)
  BY <1>1, DomainOf DEF ToolsIInv, Sound, db
<1>7. ASSUME NEW k \in DOMAIN journal PROVE journal[k] \in Entry /\ journal[k].work = WorkOf(journal[k].target)
  <2> DEFINE e == journal[k]
  <2>1. e \in WideEntry /\ EntrySound(table, e) /\ e.tx \leq Len(journal)
    BY <1>6
  <2> HIDE DEF e
  <2>2. e.target \in DOMAIN table /\ e.work = WorkIn(table, e.target)
    BY <2>1 DEF EntrySound
  <2>3. e.work \in DOMAIN table
    BY <1>1, <2>2 DEF WorkIn, RowSound
  <2>4. e.tx \in 0..MaxEntries
    <3>1. e.tx \in Nat
      BY <2>1 DEF WideEntry
    <3>2. QED
      BY <1>2, <2>1, <3>1, ToolsAssumption
  <2>5. e.before \in Seq(Row)
    <3>1. CASE e.action = "UPDATE"
      <4>1. e.before \in Seq(WideRow) /\ Len(e.before) = 1 /\ e.before[1].links = table[e.target].links
        BY <2>1, <3>1 DEF WideEntry, EntrySound, SameShape
      <4>2. e.before[1] \in WideRow
        BY <4>1
      <4>3. e.before[1] \in Row
        BY <1>4, <2>2, <4>1, <4>2 DEF WideRow, Row
      <4>4. QED
        <5>1. \A i \in DOMAIN e.before : e.before[i] \in Row
          BY <4>1, <4>3, DomainOf
        <5>2. QED
          BY <4>1, <5>1, SeqOf
    <3>2. CASE e.action # "UPDATE"
      BY <2>1, <3>2, EmptySeq DEF EntrySound
    <3>3. QED
      BY <3>1, <3>2
  <2>6. e \in Entry
    BY <1>3, <2>1, <2>2, <2>3, <2>4, <2>5 DEF WideEntry, Entry
  <2>7. QED
    BY <2>2, <2>6 DEF e, WorkOf, WorkIn
<1>8. journal \in Seq(Entry)
  BY <1>1, <1>7
<1>9. ASSUME NEW id \in DOMAIN table
      PROVE  LET row == table[id] IN
             /\ row.kind = "CHARACTER_NOTE" => table[row.about].kind = "CHARACTER" /\ table[row.about].work = row.work
             /\ \A other \in row.links : table[other].kind \in Linkable /\ table[other].work = row.work
  BY <1>1 DEF RowSound
<1>10. QED
  BY <1>1, <1>2, <1>5, <1>7, <1>8, <1>9 DEF ToolsTypeOK

\* What the tools that read do.
Reading(tool) ==
    \/ tool.readOnly = FALSE
    \/ tool.kinds = {} \/ tool.does = "list" \/ tool.does = "get"
    \/ tool.does = "works" /\ tool.kinds = {"PROJECT"}
    \/ tool.does = "context" /\ tool.kinds = Needed
    \/ tool.does = "notes" /\ tool.kinds = {"CHARACTER_NOTE"}

LEMMA Readers ==
    ASSUME NEW name \in DOMAIN MCP_TOOLS
    PROVE  Reading(MCP_TOOLS[name])
<1>1. \A does, kinds, required :
          /\ Tool(does, kinds, required).readOnly = FALSE
          /\ Destructive(Tool(does, kinds, required)).readOnly = FALSE
          /\ ReadOnly(Tool(does, kinds, required)).does = does
          /\ ReadOnly(Tool(does, kinds, required)).kinds = kinds
  BY DEF Tool, Destructive, ReadOnly
<1>2. \A kind : Lists(kind).does = "list"
  BY <1>1 DEF Lists
<1>3. ASSUME NEW one \in DOMAIN WorkTools PROVE Reading(WorkTools[one])
  BY <1>1, <1>3, ToolNames DEF WorkTools, Reading
<1>4. ASSUME NEW one \in DOMAIN SaveTools PROVE Reading(SaveTools[one])
  BY <1>1, <1>4, ToolNames DEF SaveTools, Reading
<1>5. ASSUME NEW one \in DOMAIN UndoTools PROVE Reading(UndoTools[one])
  BY <1>1, <1>5, ToolNames DEF UndoTools, Reading
<1>6. ASSUME NEW one \in DOMAIN ReadTools PROVE Reading(ReadTools[one])
  BY <1>1, <1>2, <1>6, ToolNames DEF ReadTools, Reading
<1>7. ASSUME NEW one \in DOMAIN TimelineTools PROVE Reading(TimelineTools[one])
  BY <1>1, <1>2, <1>7, ToolNames DEF TimelineTools, Reading
<1>8. \/ name \in DOMAIN WorkTools /\ MCP_TOOLS[name] = WorkTools[name]
      \/ name \in DOMAIN SaveTools /\ MCP_TOOLS[name] = SaveTools[name]
      \/ name \in DOMAIN UndoTools /\ MCP_TOOLS[name] = UndoTools[name]
      \/ name \in DOMAIN ReadTools /\ MCP_TOOLS[name] = ReadTools[name]
      \/ name \in DOMAIN TimelineTools /\ MCP_TOOLS[name] = TimelineTools[name]
  BY DEF MCP_TOOLS
<1>9. QED
  BY <1>3, <1>4, <1>5, <1>6, <1>7, <1>8

\* A row in view is shown by every tool that reads its kind.
LEMMA ViewedIsFound == ToolsIInv => SavedIsFound
<1> SUFFICES ASSUME ToolsIInv, NEW id \in kept, NEW name \in DOMAIN MCP_TOOLS,
                    table[id].kind \in MCP_TOOLS[name].kinds,
                    ~(MCP_TOOLS[name].does = "context" /\ table[id].finished), MCP_TOOLS[name].readOnly
             PROVE  id \in Returns(name, Asked(name, id))
  BY DEF SavedIsFound
<1> DEFINE tool == MCP_TOOLS[name]
           work == WorkOf(id)
<1>1. /\ Live(id) /\ IsA(id, table[id].kind) /\ id \in DOMAIN table /\ Owned(work)
      /\ table[id].kind = "CHARACTER_NOTE" =>
            /\ Live(table[id].about) /\ table[table[id].about].kind = "CHARACTER"
            /\ WorkOf(table[id].about) = work
  <2>1. ViewedIn(table, id)
    BY DEF ToolsIInv
  <2>2. RowSound(table, table[id]) /\ id \in DOMAIN table
    BY <2>1, InvariantFacts DEF ViewedIn
  <2>3. QED
    BY <2>1, <2>2 DEF ViewedIn, WorkIn, RowSound, Live, Owned, IsA, WorkOf
<1>2. id \in Of(work, table[id].kind)
  BY <1>1 DEF Of
<1>3. tool.kinds # {} /\ tool.readOnly # FALSE /\ Reading(tool)
  BY Readers
<1>4. CASE tool.does = "works" /\ tool.kinds = {"PROJECT"}
  <2>1. Owned(id)
    BY <1>1, <1>4 DEF WorkOf
  <2>2. Returns(name, Asked(name, id)) = {w \in DOMAIN table : Owned(w)}
    BY <1>4 DEF Returns
  <2>3. QED
    BY <1>1, <2>1, <2>2
<1>5. CASE tool.does = "list"
  <2>1. Asked(name, id) = work
    BY <1>5 DEF Asked
  <2>2. Returns(name, work) = UNION {Of(work, kind) : kind \in tool.kinds}
    BY <1>1, <1>5 DEF Returns
  <2>3. QED
    BY <1>2, <2>1, <2>2
<1>6. CASE tool.does = "get"
  <2>1. Asked(name, id) = id
    BY <1>6 DEF Asked
  <2>2. OwnedTarget(table[id].kind, id)
    BY <1>1 DEF OwnedTarget
  <2>3. Returns(name, id) = {id}
    BY <1>6, <2>2 DEF Returns
  <2>4. QED
    BY <2>1, <2>3
<1>7. CASE tool.does = "notes" /\ tool.kinds = {"CHARACTER_NOTE"}
  <2> DEFINE about == table[id].about
  <2>1. Asked(name, id) = about /\ table[id].kind = "CHARACTER_NOTE"
    BY <1>7 DEF Asked
  <2>2. OwnedTarget("CHARACTER", about) /\ WorkOf(about) = work
    BY <1>1, <2>1 DEF OwnedTarget, IsA
  <2> HIDE DEF work
  <2>3. Returns(name, about) = {n \in Of(WorkOf(about), "CHARACTER_NOTE") : table[n].about = about}
    BY <1>7, <2>2 DEF Returns
  <2>4. QED
    BY <1>2, <2>1, <2>2, <2>3
<1>8. CASE tool.does = "context" /\ tool.kinds = Needed
  <2>1. Asked(name, id) = work
    BY <1>8 DEF Asked
  <2>2. Returns(name, work) = Context(work) \cup Latest(work)
    BY <1>1, <1>8 DEF Returns
  <2>3. id \in Context(work)
    BY <1>2, <1>8 DEF Context
  <2>4. QED
    BY <2>1, <2>2, <2>3
<1>9. QED
  BY <1>3, <1>4, <1>5, <1>6, <1>7, <1>8 DEF Reading

LEMMA ToolsQuiet ==
    ASSUME ToolsIInv, UNCHANGED toolVars
    PROVE  ToolsIInv'
<1>1. db' = db
  BY DEF toolVars, db
<1>2. Sound(db)'
  BY <1>1 DEF ToolsIInv
<1>3. QED
  BY <1>2 DEF toolVars, ToolsIInv

LEMMA ToolsInvariant == ToolsSpec => []ToolsIInv
<1>1. ToolsIInv /\ [ToolsNext]_toolVars => ToolsIInv'
  <2> SUFFICES ASSUME ToolsIInv, [ToolsNext]_toolVars PROVE ToolsIInv'
    OBVIOUS
  <2>1. CASE CallNext(Kinds, AllCalls)
    BY <2>1, CallStep, ThereAreTools
  <2>2. ASSUME NEW id \in DOMAIN table, AuthorDeletes(id) PROVE ToolsIInv'
    BY <2>2, AuthorDeletesStep
  <2>3. CASE UNCHANGED toolVars
    BY <2>3, ToolsQuiet
  <2>4. QED
    BY <2>1, <2>2, <2>3 DEF ToolsNext
<1>2. QED
  BY <1>1, ToolsInitial, PTL DEF ToolsSpec

\* A note stays about a character of its work, an event linked to rows of its work, and an entry
\* of the journal with the work of its row, whatever ids callers send and whatever is undone:
\* for any titles, and any number of rows and entries.
THEOREM ToolsAreTyped == ToolsSpec => []ToolsTypeOK
BY ToolsInvariant, ToolsTyped, PTL

\* What a save has answered with is shown by every tool that reads its kind until a tool
\* marked destructive, or the author, takes it out of view: for any calls in any order.
THEOREM SavesAreFound == ToolsSpec => []SavedIsFound
BY ToolsInvariant, ViewedIsFound, PTL

-----------------------------------------------------------------------------
(* The parts that TLC runs side by side *)

\* Whichever part runs, what it leaves alone stays typed, and so does what it changes: a visit,
\* a client that connects, and calls for any of the groups of kinds.
THEOREM PartsAreTyped == MCSpec => []PartsTypeOK
<1>1. Init => TypeIInv /\ ToolsIInv
  BY TypeInitial, ToolsInitial DEF Init
<1>2. TypeIInv /\ ToolsIInv /\ [Next]_<<connectVars, toolVars, part>> => TypeIInv' /\ ToolsIInv'
  <2> SUFFICES ASSUME TypeIInv, ToolsIInv, [Next]_<<connectVars, toolVars, part>>
               PROVE  TypeIInv' /\ ToolsIInv'
    OBVIOUS
  <2>1. CASE [ConnectNext]_connectVars /\ UNCHANGED toolVars
    BY <2>1, TypeStep, ToolsQuiet
  <2>2. ASSUME UNCHANGED connectVars, CallNext(part, MCCalls) \/ \E id \in DOMAIN table : AuthorDeletes(id)
        PROVE  TypeIInv' /\ ToolsIInv'
    BY <2>2, TypeStep, CallStep, AuthorDeletesStep, ThereAreTools DEF MCCalls, FittingCalls
  <2>3. Browse => ConnectNext
    BY DEF ConnectNext
  <2>4. QED
    BY <2>1, <2>2, <2>3 DEF Next
<1>3. TypeIInv /\ ToolsIInv => PartsTypeOK
  BY ConnectTyped, ToolsTyped DEF PartsTypeOK
<1>4. QED
  BY <1>1, <1>2, <1>3, PTL DEF MCSpec
=============================================================================
