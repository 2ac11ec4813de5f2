----------------------------- MODULE MCConnect -----------------------------
\* Small instances of Visit, Connect and Tools for TLC: a browser alone, one that a client sends,
\* and the calls of a client for some kinds of rows.
EXTENDS Connect, Tools

Host(name, port) == [name |-> name, port |-> port]
Site == Origin("https", Host("app", ""))
Door(configured, host, forwarded, proto) ==
    [configured |-> configured, host |-> host, forwarded |-> forwarded, proto |-> proto]

\* Production behind its proxy, by its name and by another; a local server, with and without a
\* NEXTAUTH_URL, on the port it says or another.
MCDoors ==
    {Door(Site, Host("app", ""), "https", "http"), Door(Site, Host("other", ""), "https", "https"),
     Door(Absent, Host("localhost", "3000"), Absent, "http"),
     Door(Origin("http", Host("localhost", "3000")), Host("localhost", "3001"), Absent, "http")}

Home == [scheme |-> "https", loopback |-> FALSE, hash |-> FALSE]
Local == [scheme |-> "http", loopback |-> TRUE, hash |-> FALSE]
Bare == [scheme |-> "http", loopback |-> FALSE, hash |-> FALSE]

MCMetadata ==
    {[wellFormed |-> TRUE, uris |-> {Home}, scope |-> Absent],
     [wellFormed |-> TRUE, uris |-> {Home, Bare}, scope |-> Absent]}

DoorUrls == {mcpResourceUrl(serverOrigin(d)) : d \in MCDoors}
Ask(known, uri, wellFormed, scope, resource, challenge) ==
    [known |-> known, uri |-> uri, wellFormed |-> wellFormed, scope |-> scope, resource |-> resource,
     challenge |-> challenge]

\* Requests without a mistake, and with one.
MCAsks ==
    {Ask(TRUE, Home, TRUE, scope, resource, challenge) :
        scope \in {{"storycanon:read"}, SCOPES},
        resource \in {Absent} \cup {[url EXCEPT !.slash = TRUE] : url \in DoorUrls}, challenge \in 1..MaxAttempts}
    \cup {Ask(TRUE, Local, FALSE, SCOPES, Absent, challenge) : challenge \in 1..MaxAttempts}
    \cup {Ask(TRUE, Home, FALSE, SCOPES, Absent, challenge) : challenge \in 1..MaxAttempts}

VARIABLE part   \* the one that runs, or the kinds of rows

Groups ==
    {{"PROJECT", "CHARACTER", "CHARACTER_NOTE"}, {"CHAPTER", "SCENE", "STORY_STATE_SNAPSHOT"},
     {"CHARACTER", "TIMELINE_EVENT", "TIMELINE_TAG"},
     {"PLOT_THREAD", "FORESHADOWING", "WORLD_NOTE", "MYSTERY", "REVISION_TODO"}}

\* A visitor with dev-login off and the landing pages, a developer, and users who only follow
\* what the client sends.
Walker == [accept |-> "ja", dev |-> FALSE, admin |-> FALSE,
           opens |-> {Landing("ja"), At("settings"), At("project"), Onboarding(1), Login(At("elsewhere"))}]
Developer == [accept |-> Absent, dev |-> TRUE, admin |-> FALSE, opens |-> {At("admin"), Onboarding(3)}]
Sent(dev) == [accept |-> "ja", dev |-> dev, admin |-> TRUE, opens |-> {}]
MCBrowsers == {Walker, Developer} \cup {Sent(dev) : dev \in BOOLEAN}

\* A call with a value that may not fit is made early: while the journal has one entry at most.
FittingCalls == [name \in DOMAIN MCP_TOOLS |-> {call \in AllCalls[name] : Fits(call)}]
MCCalls == IF Len(journal) <= 1 THEN AllCalls ELSE FittingCalls

\* What the proof that the client gets in assumes, these have.
ASSUME MCConnectAssumption == SoundDoors /\ SentByClients

Init ==
    /\ ConnectInit /\ ToolsInit
    /\ \/ /\ part = {"visit"} /\ door.configured = Site /\ door.host.name = "app"
          /\ browser \in {Walker, Developer}
       \/ /\ part = {"connect"} /\ browser = Sent(door.configured = Absent)
       \/ /\ part \in Groups /\ door.configured = Site /\ door.host.name = "app" /\ account = Absent
          /\ browser = Sent(FALSE)

Next ==
    /\ UNCHANGED part
    /\ \/ part = {"visit"} /\ Browse /\ UNCHANGED toolVars
       \/ part = {"connect"} /\ ConnectNext /\ UNCHANGED toolVars
       \/ /\ part \in Groups /\ UNCHANGED connectVars
          /\ CallNext(part, MCCalls) \/ \E id \in DOMAIN table : AuthorDeletes(id)

MCSpec == Init /\ [][Next]_<<connectVars, toolVars, part>>

\* Every variable has the type its module declares.
PartsTypeOK == ConnectTypeOK /\ ToolsTypeOK

Symmetry == Permutations(Panes)
=============================================================================
