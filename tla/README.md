# A verification development of StoryCanon

StoryCanon is a writing workspace for novelists: a Next.js application on a Cloudflare
Worker over a PostgreSQL database (Hyperdrive, Prisma), with an MCP endpoint through
which a language model edits the same manuscript as the author does. What the program
promises is mostly about *stored state that several parties share*: everything a model
writes can be undone, an access token ends when it should and is the one consented to,
an account has the plan it pays for, a timeline keeps the order its author gave it, a
form does not revert what its author never touched.

The repository is read as the reference; every definition here is translated from the
lines the `map` of `PROJECT.json` names. Paths below are relative to `src/apps/web/src/`
unless they begin with `docs/`.

## 1. Inventory

The server keeps no state between requests. All of it is in the tables, each handler is
an `async` function, and every `await` of a query is a point where other requests run.
Reads are fresh: query caching is switched off (`apps/web/wrangler.jsonc`). Except for
two places (`timeline/page.tsx:300` and `server/sample-project.ts:29`) no database
transaction spans two queries. So one class of hazards dominates: *read, decide, write*
with something else in between, and a handler that dies (eviction of the Worker, a
failed query) between two of its writes. The second class is in the browser: a page is
as old as its last rendering, tabs know nothing of one another, and a redirect is all
that is left of a request.

| Component | State | Operations | What is hard | What makes it correct |
|---|---|---|---|---|
| **Mutation log and rollback** `server/handlers.ts` | 13 tables of project data with `deletedAt`, `MutationLog` | create, update, soft delete, tag revival, commands of several rows; rollback of a command, a transaction, the last one | row and log are two queries; conflict check, restore and mark three more; page forms write the same rows with no log | what is marked undone was undone; the journal explains the rows; a transaction is undone in order and whole; serially it is an undo stack |
| **OAuth grants, codes, tokens** `server/oauth-store.ts`, `app/oauth/*` | `OAuthGrant`, `OAuthAuthorizationCode`, `OAuthToken` | consent, redemption, rotation, revocation, disconnect | redemption and rotation race themselves; claim, issue and record are separate; disconnect cascades under requests in flight | a code or token is spent once; a session does not fork; disconnecting ends it all |
| **OAuth metadata, registration, consent, exchange** `server/oauth.ts`, `oauth-http.ts`, `app/oauth/*`, `.well-known` | `OAuthClient`; what the client has learnt | challenge, two documents, registration, authorization page, decision, exchange, call | five documents made from five requests' own headers; consent, code and token are three requests of two parties | a token is the one consented to; who follows the documents gets in |
| **MCP endpoint and bearer authentication** `app/mcp`, `server/mcp-auth.ts`, `auth-token.ts`, `mcp-connection.ts`, `components/mcp-connect.tsx` | `ApiToken`, `OAuthToken`; the panel's polling | verify, stamp, look up, rehash; issue and revoke keys; poll | a credential ends between the query that accepts it and the stamp | admitted exactly when the credential stands; "connected" is true |
| **MCP tool table** `server/mcp-tools.ts`, `mcp-server.ts`, `validation.ts`, the OpenAPI document | the tables, seen through the tools | every tool | schema and handler are written apart; ids travel from answer to call | what a save answered is found until something destructive; a call that fits its schema is not refused as malformed |
| **Plan limits, sample work, manuscript order and names** `server/plan.ts`, `sample-project.ts`, `handlers.ts`, new-record pages | counts of live rows; `order`, unique names | check, then create; find by name or make | count, then create; rollbacks and forms skip the check; unique indexes cover deleted rows, counts do not | limits hold; a note stays in its work; a named chapter is made |
| **Export and reader view** `server/export.ts`, `read/page.tsx` | none | render | chapters deleted under their scenes | every live scene once, in order |
| **Billing** `api/stripe/webhook`, `settings/billing-actions.ts`, `admin/actions.ts`, `lib/stripe.ts` | `Subscription`; Stripe's customers and subscriptions | checkout, webhook, grant, kill switch | events repeated, delayed, reordered; each overwrites; two customers for one user | the row says what Stripe says; no paid access is stranded |
| **Timeline** `timeline/page.tsx`, `components/timeline-reorder-list.tsx` | `TimelineEvent.order`; the list's own order | create, edit, delete, revive, move; drag, commit, settle | moves computed from a list read earlier; the list is ahead of the server | a move disturbs nobody else; the list settles on what is stored |
| **Record and settings forms** ten pages, `components/editable-content.tsx` | a row; what each tab shows and its author typed | load, edit, save, delete | a save sends what was rendered long ago | a save keeps what its author left alone |
| **Reading progress** `read/reader.tsx` | `ReadingProgress`; place, timer, beacons | scroll, rest, hide, close | beacons fail or pass one another | the reader opens where it was left |
| **Analytics consent** `components/analytics-consent.tsx` | the choice in storage, each tab's copy | choose, reopen | a tab goes on with its copy | no capture against a refusal in the tab |
| **Session, locale, onboarding** `server/session.ts`, `locale.ts`, `middleware.ts`, `onboarding/page.tsx`, login pages | user, session, cookie; where each tab is | redirects, sign-in and out, language | a path is handed from redirect to redirect; three places choose a language | one lands where one asked; nobody is trapped; page and frame agree |
| Landing, legal and help pages, i18n; dashboard, settings and admin pages; database client; build | -- | render, configure | -- | not modelled, section 6 |

Interactions: pages and the MCP endpoint both reach the tables -- the pages partly
through server actions that write them directly, partly through `handleWebApi`; the MCP
endpoint only through `handleMcpApi`, which shares `createWithLog`, `updateWithLog`,
`softDeleteWithLog` and `rollbackCommand`. Creating handlers first ask `server/plan.ts`,
which reads the `Subscription` row that webhooks, checkouts and the admin page write.
The MCP endpoint is opened by tokens of the OAuth store or by API keys. The consent page
sits behind the session and the onboarding.

The hazards that follow from this, each at its line, are in `PROJECT.json` with the
properties that would catch them going wrong.

## 2. Modules

| Module | What it is | Proofs |
|---|---|---|
| `MutationLog` | the journal and the rows, await by await | `MutationLogProofs` |
| `UndoStack`, `MutationLogRefinement` | the abstract promise, per row a stack of changes, and the mapping to it | `MutationLogProofs` |
| `OAuthStore` | grant, codes and tokens of one user and client, await by await | `OAuthStoreProofs` |
| `OAuthHttp` | the operators of `oauth.ts` and `oauth-http.ts`, and client registration | used by the two below |
| `Visit` | one browser: sign-in, onboarding, languages, redirects | `ConnectProofs` |
| `Connect` | extends `Visit` with a client that connects: discovery, registration, consent, exchange, call | `ConnectProofs` |
| `Tools` | the table of MCP tools, its schemas, and the handlers behind it | `ConnectProofs` |
| `McpAccess` | the two doors a tool call comes through, keys, tokens, the connection panel | `PagesProofs` |
| `Workspace` | works and their records: limits, orders, names, sample, what is exported | `WorkspaceProofs` |
| `Billing` | the subscription row, with Stripe outside | `BillingProofs` |
| `Order` | rows in an order and lists of different ids: what `orderBy`, `filter`, `indexOf` and `splice` give | `OrderProofs` |
| `Timeline`, `TimelineList` | the timeline's rows, and one open page ahead of the server | `TimelineProofs` |
| `EditForm` | the ten pages' forms over one row | `PagesProofs` |
| `Reader` | reading progress of one tab | `PagesProofs` |
| `Consent` | analytics consent in several tabs | `PagesProofs` |
| `MC...` | instances for TLC. `MCPages` runs `EditForm`, `Reader`, `Consent` and `McpAccess`, which share no state, one at a time; `MCConnect` runs `Visit`, `Connect` or `Tools` | |

Conventions. A **request is a process**: `pc[p]` names the await it stands at, `req[p]`
its parameters and local variables. One action is one awaited query, with everything the
handler computes up to the next one. The query a handler begins with belongs to the
action that starts it. A request that is refused before it changes anything is left out
where nothing depends on the refusal. A definition whose name begins with `Mut` is a
plausible bug kept beside the definition it alters: each property of each passing run is
violated when one of them takes that definition's place. Variables commented as
*history* are no part of the program: they record what the properties are conditional
on. Several modules take part of the code one call at a time on purpose, because another
module has the interleavings: `Tools` leaves them to `MutationLog`, `Connect` to
`OAuthStore`. `\E x \in {e}` names the value of `e` where it is used several times.

### MutationLog

| Model | Code |
|---|---|
| `rec` | the project's tables, soft deletion as `deleted`; the other columns are one value of `Contents` |
| `log`, `rolledBack` | `MutationLog` in insertion order, and which of its rows have `rolledBackAt` |
| `at` of an entry | `createdAt`, which `orderBy` and the conflict check compare; with `Ties`, two entries may share it |
| `StartCreate`, `StartNewProject`, `StartChange`, `StartTag`, `StartPage`, `StartUndo` | the handlers, by what they do to rows |
| `Own`, `LookupTag`, `Insert`, `Write`, `Log` | `requireOwnedTarget`'s second query, the tag lookup, `delegate.create`, `delegate.update`, `recordMutation` |
| `Check`, `Fetch`, `Undo`, `Mark`, `LogBack` | the five queries of `rollbackOne`, and the loop of `rollbackCommand` |

`create` covers all collections; those that save several rows under one transactionId
are creates with `left = 2`. Tags are addressed by their unique name: creating a deleted
one revives it, logged as an UPDATE. Page forms write the same rows with no entry. Left
out: which columns an update touches (`rollbackOne` restores whole rows, and the
conflict check looks at whole rows), and which token made an entry (`undo-last-command`
filters by user and project, as in the code).

`UndoStack` is what an undo facility promises: each row has a stack of values, a change
pushes, an undo pops its own value. The mapping reads a row's stack off its entries that
are not rolled back.

### OAuthStore

`grant` is the one row of the user and the client; `codes` and `tokens` are named after
the request that inserted them. `Disconnect` is one deletion with its cascade. `Upsert`,
`IssueCode` and `Issue` fail when the row their foreign key points at is gone.
`ExpireCode` and `ExpireToken` let time pass. `spent`, `alone` and `cut` are history: the
codes and tokens used up, the requests nobody overlapped, and the consents that had
written the grant row when some disconnect deleted it.

### Visit, Connect and OAuthHttp

A tab is at a place: a page, or one of the two places outside the site that matter
(Google, and a client's redirect URI). `Leads(place)` is the redirect the page's own
code answers with, `Serve` one request: it reads the session once and shows the page or
follows. `wish` and `dropped` are history: where the user or a client sent the tab, and
whether a redirect on the way carried no path to come back to.

A URL, a host or an origin is a record of the parts the code looks at; a hash is a pair,
a timing-safe comparison an equality. A `door` is how the client reaches the server: the
deployment's configured URL, the `Host`, the forwarded protocol. Each document is
computed from the request that fetches it. The client is external: it does what the
documents say, compares issuers as it must, may ask for any scope and resource the
endpoints accept, and may give the token endpoint anything (history: `fault`). `agreed`
is history: what was on the screen when somebody approved it.

### Tools

`MCP_TOOLS` is the table: what a tool does, which kinds it reads or writes, what its
schema requires, and its hints; `Actions` are the tools that are actions of the API, the
ones its help lists. A call is a tool with the sets of fields that are given, of these the
ones whose value is empty, and the ones whose value is out of bounds (too long, or a
negative number); `rest` stands for the fields no branch of the code asks for. A schema
says which fields there are and bounds no value. `Schemas` says of each schema of
`validation.ts` which fields it requires, which must not be empty and which are bounded. A
handler tells a field that is missing from one that is empty the way the code does: `??`
takes an empty `sceneTitle` over a title (`Aliased`), `if (id)` takes an empty id for none
(`Has`). The handlers behind are written out by what they do to rows and journal. `kept` is
history: the rows a save has answered with that neither the author nor a tool marked
destructive has taken out of view since; `invalid` says what the last call was like when it
was answered VALIDATION_ERROR. Every tool that reads a kind is a reader, but for
`consult_title`, which shows the first eight characters, and `export_project`, which is in
`Workspace`.

### McpAccess

Both doors, await by await: `Verify`, `Stamp` for a token, `Lookup`, `Touch` for a key
(whose bcrypt hash its first use replaces). The panel asks two queries at once. Keys and
tokens are issued, revoked and deleted in between. `good` and `arrived` are history.

### Workspace

`rows` is all tables in the order rows were made. A row has what orders, names, limits
and the export look at, and a scene the length of its text, in units of characters
(`size`; other rows count as one). `CountedIn` is what a limit counts, unit by unit: for
scenes the texts, for everything else the rows. `Check` is the query of `plan.ts`, which
for a scene puts the length of its text on top of the sum, `Insert...` what follows;
`InsertState` is the first story state that the POST of a project goes on to make without
a check. `EditScene` is PATCH of a scene and the save of its page: another chapter, order
and text, and no check of the text's length. `excused` is history: kinds for which two
requests were found to have room at one time, a row came by a path that checks nothing, an
edit lengthened a scene, or the plan was lowered. A limit is a positive number (an
unlimited plan is one whose limit is out of reach); one collection, `record`, stands for
the six that are alike. What is exported and read is in the orders of `Order`.

### Billing

`stripe[s]` is the sequence of versions a subscription has gone through; `outbox` are
the events Stripe repeats until they are answered with success. A webhook handler is
`Receive` (which reads the event's own copy of the subscription), `Find`, `Update` or
`Create`, `Reply`; a checkout is the four awaits of `billing-actions.ts`. `live` is
`isBillingLive()`, which stops sales and never webhooks. `granted`, `hurried` and
`reordered` are history.

### Timeline and TimelineList

`ev[i]` is the i-th event ever created; of its columns only `order` and `deletedAt` are
kept. `Stored` is what `orderBy order, createdAt` returns (`InOrder`: the i-th row is the one
that i - 1 others come before), `Moved` the sequence
`moveEvent` works out, `Commit` its `$transaction`. `TimelineList` adds one page:
`items` is `serverOrder`, `shown` is `orderRef`, `drawn` the `order` state (the two
differ only after a failed save), `drag` and `dirty` the drag, `queue` and `serving` the
saves under way, `Sync` the reconciling effect. The framework runs the actions of a page
one after another (`Dispatch`, external), and the answer to one that called
`revalidatePath` brings the events rendered anew. Requests outside `Own` belong to other
pages and clients.

### EditForm, Reader, Consent

`EditForm` is one module for ten pages because they differ in six things, which a record
of type `Page` says: whether the form is opened by a button, whether a rendering closes
it, which columns it edits, whether a save sends what changed, what is filled in or
everything, whether it trims, whether it writes NULL for an emptied field, and whether
the row or only the work is looked for first. AI clients write the row meanwhile
(`Dictate`), and delete it (`Vanish`). What a form submits is not what it shows: `Sends`
is what the browser makes of a text by the control it is in (a textarea submits its line
breaks as CRLF, a line has none), and `Trim` what the action makes of that. Both are
constants, so that the proofs hold of any browser; the comparison of the settings form is
the code's, of the trimmed text submitted with the text as it was stored. `stamp` is
history. `Reader` has the place under
the reader's eyes, the timer, the last place sent and the requests on their way.
`Consent` is the storage, and per tab the component's state and whether PostHog runs.

## 3. Runs

| Run | Instance | States | What it shows |
|---|---|---|---|
| `journal_concurrent` | 3 rows (the project, one more, one tag), 2 contents, 3 requests, 2 at a time; crashes, ties, page forms and force | 1 273 454 | `TypeOK`, `MarkedWasUndone`, `TransactionUndoneNewestFirst`, `TransactionUndoneWhole`, `JournalExplainsRows` however requests interleave and die |
| `journal_serial` | the same rows, 4 requests one at a time, no force, no page forms | 124 542 | `VersionChain`, `UnforcedUndoMeetsItsOwnWrite` and the refinement `ImplementsUndoStack` |
| `oauth_concurrent` | 2 scopes, 4 requests, 2 at a time; crashes and expiry | 336 479 | `SpentOnce`, `OneLiveRefresh`, `DisconnectEndsAccess`, `ReuseEndsSession` |
| `timeline_list` | up to 3 events tied at order 0, the middle one hidden by the filter; 2 moves of the page, one request of a stranger, failures | 279 215 | `WillBeStored`, `MoveKeepsTheRest`, and the liveness property `Settles` |
| `billing` | 2 handlers, 2 customers, 2 subscriptions of 2 versions, one grant; crashes, the kill switch | 6 525 510 | `PlanExplained`, `CancelledEndsAccess`, `RowSaysWhatStripeSays` |
| `workspace` | 3 starting tables, 2 names, one order, limits of 1 to 3, texts of 1 or 2 units, 3 requests or edits, 2 at a time | 546 536 | `LimitHolds`, `ExportedOnce`, `NotesStayHome` |
| `pages` | forms: 2 tabs, a line and a textarea, 4 texts typed and 2 dictated, 2 writes, 1 deletion; reader: 3 scenes, 5 scrolls; consent: 2 tabs; access: 2 requests, a key, a token | 6 191 927 | `SavedAsTyped`, `UntouchedSurvives`, `LeftWhereRead`, `NoCaptureAgainstChoice`, `AdmittedExactly`, `ConnectedMeansArrived` |
| `connect` | 2 tabs; 4 doors; 2 authorization requests with and without mistakes; tools: 3 rows and 3 entries of each of 4 groups of kinds, one value of a call empty or out of bounds | 1 620 438 | `OneLanguage`, `LandsWhereAsked`, `NeverTrapped`, `ConsentBinds`, `FollowingGetsIn`, `SavedIsFound`, `SchemasSuffice` |
| `conflict_halfway` | a command of two rows | | violates `ConflictUndoesNothing` (finding 1) |
| `export_loses_scene` | as `workspace` | | violates `ExportIsWhole` (finding 2) |
| `chapter_not_made` | as `workspace` | | violates `NamedChapterIsMade` (finding 3) |
| `approval_lost` | as `connect` | | violates `RequestSurvivesSignIn` (finding 4) |

Each passing run also checks its module's type invariant. The inductive invariants of
section 5 were themselves checked by TLC, as invariants of the same runs, before they
were proved.

**Bounds.** A request is never reused in `MutationLog`, `OAuthStore` and `Timeline`, so
the number of requests bounds the history: three are a change, a second change and a
rollback of the first, or a change and two overlapping rollbacks; four, one at a time,
are create, delete, revive, undo. In `OAuthStore` four are a consent, its exchange and
two rotations, or a second consent. Two at a time is what a race needs: every property
relates at most two requests, or a request and the tables. In `Workspace` two
overlapping creates and an edit between them are what a limit or a unique index can be
broken by; the three starting tables save the requests that would build them. `MaxLength`
is 2: a text of two units is one that fits no room of one, and every row of the starting
tables has one unit, so that the edit to two (`Lengths`) lengthens it. In `Billing` two subscriptions, each sold and changed once, two customers and two handlers
give every order of four events, one of them stale; `Offers` has one plan and `Prices`
two, so that a switch of plans is a change. For the timeline three events are a moved
one, its anchor and one to be disturbed; two moves are one under way and one queued. In
`EditForm` two tabs and two fields are a field that is edited and one that is left
alone; one is required and a line, as titles and names are, and starts as a plain text (a
row without a text in a required field is none the code makes), the other has a textarea.
What is typed is two different texts, an empty one and a blank; what a client writes is a
plain text or one of two lines with a blank at its end, its lines broken by LF, and the
other texts of `Texts` are what controls and trimming make of that one. Two
authorization requests of one client are a stale consent page and a newer one; `MCAsks`
has well-formed ones with narrow and full scope, with and without each resource, and two
malformed ones, one of them with an address that is not registered. `Tools` runs the
kinds in four groups, chosen so that kinds that refer to each other are together; `MaxOdd`
is 1, since a handler stops at the first value it does not take, and such a call is made
while the journal has one entry at most, as a refusal changes nothing.

Symmetry of requests, handlers, customers and the tabs of `EditForm` is sound: these are model values compared
only for equality, and those runs check no liveness. `timeline_list`, which does,
declares none.

`CHECK_DEADLOCK FALSE` in every configuration: when the requests of the instance are
used up nothing is left to do.

**Fairness.** Only `TimelineList` claims liveness and states fairness. A server handler
is a straight line or a loop over a finite list, nothing waits for another request, and
nothing retries: that it ends follows from the runtime, which the code cannot guarantee
and a crash denies. For `Settles` it is assumed that the author lets go of a card in the
end (weak fairness of `Drop`), that the framework sends what is queued and delivers the
answer, a failure being an answer (weak fairness of `Dispatch`, of each request's next
step, and of `Answer`), and that the effect runs (strong fairness of `Sync`: each
settled render schedules it and React runs it before it renders again, so it cannot be
missed for ever because a drag starts in between). `LandsWhereAsked` needs none: it
follows the redirects of one state to their end, and says that there is one.

**Conditions.** Several properties hold under a condition, because the code does not
promise more; what they are conditional on is recorded by history variables, each set
only by the event it is named for. `VersionChain`, `UnforcedUndoMeetsItsOwnWrite` and
the refinement are about a single client that waits for its answers: two overlapping
updates both record the row they read before either wrote, and a forced rollback skips
entries by design. `CancelledEndsAccess` and `RowSaysWhatStripeSays` are for events
delivered in order: the webhook writes the event's own copy of the subscription, so an
old event delivered last wins. `LimitHolds` excuses what `excused` names.
`TransactionUndoneNewestFirst` excuses entries of one millisecond. `DisconnectEndsAccess`
is about the consents that had written the grant row when the user disconnected: one that
had not makes a grant of its own, and its code works, as if it had been given afterwards.
`UntouchedSurvives` excuses a form that sends every field, for a field written since it was
rendered, and a text that does not come back from its control and the trimming as it was
stored. `SchemasSuffice` excuses values that are empty or out of bounds, which no schema
forbids: what it says is that no field is missing. `LeftWhereRead` is for beacons that
arrive, in order.
`LandsWhereAsked` excuses redirects that carry no path. `NoCaptureAgainstChoice` is per
tab: a withdrawal reaches the tabs open already only when they are loaded again.

## 4. Findings

1. **A conflict stops a transaction's rollback halfway** (`conflict_halfway`).
   `rollbackCommand` returns the conflict from inside its loop, after undoing and
   logging the later entries. `docs/storycanon_internal_spec.md:1329` says a conflict
   means an error and that only `force` executes the rollback.
2. **An export leaves scenes out** (`export_loses_scene`). A scene whose chapter is
   deleted is neither in a live chapter nor without one, and no export writes it, while
   the reader shows it. `server/mcp-tools.ts:435`: "the whole work".
3. **A named chapter is not made** (`chapter_not_made`). A new chapter is numbered by
   the count of live ones under an index that covers deleted and given numbers: the
   insert is refused and the save answers 500. `server/mcp-tools.ts:151`: "it is
   created".
4. **An approval forgets the request** (`approval_lost`). The decision asks for a
   session without a path to come back to: who signed in on the consent page as a new
   user, or whose session has ended, is sent away and the client waits for ever.
   `app/oauth/authorize/page.tsx:79`: "Come back to this exact authorization request".

Met while modelling, without a run of their own:

- *Journal.* Two overlapping rollbacks of one command both undo it: `rolledBackAt` is
  read in one query and set, without a condition, in another. Entries of a transaction
  logged in one millisecond are undone in any order, since `handlers.ts:632` orders by
  `createdAt` alone (`docs/storycanon_internal_spec.md:1322`: in reverse order). A rollback
  without force undoes an edit made on a page, since page forms leave no entry for the
  conflict check to find (line 1329: a conflict is reported). `undo-last-command` may take an entry another token made, and one entry
  only of a command of several; `rollback_command` with neither id undoes the last
  change. `server/handlers.ts:782` returns `rollbackCommand` without `await`, so what it
  throws escapes `handleError`.
- *Tools.* `delete_project_data` does not check that its `targetId` is of `projectId`
  (`mcp-tools.ts:320` says it is), and its undo token then works with the other work's
  id only; the `chapterId` of `save_scene` is not checked to be of the work;
  `list_character_notes` answers 404 for a deleted character; the OpenAPI document asks
  for less than is enforced. No schema bounds a value, so a call that fits it is answered
  400 for an empty or too long one, and an empty `sceneTitle` hides a title. A character deleted by name keeps its unique name.
- *Timeline.* Overlapping moves overwrite each other; an event created without an order
  is not the last one when live events have larger numbers than there are of them
  (`mcp-tools.ts:468` says "appended when omitted"); a failed save takes the list from
  under a drag; the edit form sends the order it was rendered with.
- *Forms.* The settings form compares the text submitted, trimmed and with CRLF, with the
  text as stored: a text that a client stored with LF or with blanks at its ends counts as
  changed though nobody touched it, and is written back over what a client wrote since
  (`projects/[projectId]/page.tsx:120`: "Only fields the author actually changed are
  sent"). The sheets cannot empty a field and a scene cannot leave its chapter; the title editor
  stays open after a save. A link followed within five seconds loses the reader's place.
- *Works.* PATCH of a scene and the save of its page lengthen a text past the limit of the
  plan. Two presses of the sample button make two samples when they overlap, which
  `sample-project.ts:16-18` says is safe. Counts on the project page include deleted
  rows and disagree with the lists behind them.
- *Connection.* A consent under way when its user disconnects makes the grant again, and
  its code works. `mcp-connection.ts:11` says "actually reached", but consent alone makes
  a grant. The authorization page and its actions make a request of raw headers: a
  forwarded protocol of `https,http` throws there, while `serverOrigin` handles it. A
  `Host` of `[::1]` is cut at its first colon. A token of the read-only scope always
  gets 403.
- *Session.* Project pages give the login no path; steps two and three of the onboarding
  lose their step on the way through it. The error of the authorization page is in
  English for visitors whose frame is in Japanese.

## 5. What is proved

For every value of the constants, under the named assumptions of the modules:

| Module | Theorem | States |
|---|---|---|
| `MutationLogProofs` | `TypeCorrect` | `Spec => []TypeOK` |
| | `UndoneBeforeMarked` | `Spec => []MarkedWasUndone` |
| | `JournalExplains` | `Spec => []JournalExplainsRows` |
| | `NewestFirst` | `Spec => []TransactionUndoneNewestFirst` |
| | `UndoneWhole` | `Spec => []TransactionUndoneWhole` |
| | `WaitingClientHasUndoStack` | `Serial`: `Spec => ImplementsUndoStack`, the refinement |
| | `HistoryIsChained` | `Serial`: `Spec => []VersionChain` |
| | `UndoMeetsItsOwnWrite` | `Serial`: `Spec => UnforcedUndoMeetsItsOwnWrite` |
| `OAuthStoreProofs` | `TypeCorrect` | `Spec => []TypeOK` |
| | `DisconnectEnds` | `Spec => []DisconnectEndsAccess` |
| | `NothingSpentTwice` | `Spec => []SpentOnce` |
| | `SessionNeverForks` | `Spec => []OneLiveRefresh` |
| | `ReuseIsFinal` | `Spec => []ReuseEndsSession` |
| `WorkspaceProofs` | `TablesAreTyped` | `Spec => []TypeOK` |
| | `NotesNeverStray` | `Spec => []NotesStayHome` |
| | `LimitsAreKept` | `Spec => []LimitHolds` |
| | `ScenesExportedOnce` | `Spec => []ExportedOnce` |
| `BillingProofs` | `BillingTypes` | `Spec => []TypeOK` |
| | `RowIsExplained` | `Spec => []PlanExplained` |
| | `CancellationEndsAccess` | `Spec => []CancelledEndsAccess` |
| | `RowAgreesWithStripe` | `Spec => []RowSaysWhatStripeSays` |
| `PagesProofs` | `DoorIsExact` | `AccessSpec => AdmittedExactly` |
| | `PanelIsTrue` | `AccessSpec => []ConnectedMeansArrived` |
| | `SavesAreKept` | `FormSpec => []SavedAsTyped` |
| | `LeftAloneSurvives` | `FormSpec => UntouchedSurvives` |
| | `ReadingIsKept` | `ReaderBehaviour => []LeftWhereRead` |
| | `DenialStopsCapture` | `ConsentBehaviour => []NoCaptureAgainstChoice` |
| | `PagesAreTyped` | `PagesSpec => []PagesTypeOK` |
| `ConnectProofs` | `FrameAndPageAgree` | `ConnectSpec => []OneLanguage` |
| | `NobodyIsTrapped` | `ConnectSpec => NeverTrapped` |
| | `TokenIsConsentedTo` | `ConnectSpec => []ConsentBinds` |
| | `RedirectsLand` | `ConnectSpec => []LandsWhereAsked` |
| | `ConnectIsTyped` | `ConnectSpec => []ConnectTypeOK` |
| | `FollowersGetIn` | `SoundDoors`, `SentByClients`: `ConnectSpec => []FollowingGetsIn` |
| | `LetInIsEnough` | `ToolsSpec => []SchemasSuffice` |
| | `ToolsAreTyped` | `ToolsSpec => []ToolsTypeOK` |
| | `SavesAreFound` | `ToolsSpec => []SavedIsFound` |
| | `PartsAreTyped` | `MCSpec => []PartsTypeOK` |
| `TimelineProofs` | `ListsAreTyped` | `ListSpec => []ListTypeOK` |
| | `MovesKeepTheRest` | `ListSpec => MoveKeepsTheRest` |
| | `StaysAhead` | `ListSpec => []WillBeStored` |

`OrderProofs` has the lemmas about `Order` that `WorkspaceProofs` and `TimelineProofs`
share. So every invariant and every action property of the passing runs is a theorem, and
so is the refinement.

What is assumed of the constants, in the module that declares them: `RowsAssumption`
(the project is a row and no tag, there is some content, `Null` is none of them),
`StoreAssumption`, `WorkspaceAssumption` (limits are positive, lengths bounded) and `StartsAssumption`
(the starting tables are well-formed and within the limits of the free plan),
`BillingAssumption` (the two prices are among `Prices`, grants are pairs of plan and
status), `McpAccessAssumption` (no key is a token), `EditFormAssumption` (`Null` is no
text, trimming twice is trimming once; nothing of what a browser submits), `ReaderAssumption`, `VisitAssumption` and
`ConnectAssumption` (types; a request is numbered by its challenge, and `Absent` is none
of what may be absent), `ToolsAssumption` (an unnamed character gets one of the titles;
the bounds are numbers), `TimelineAssumption` (orders are numbers, `Null` is none) and
`ListAssumption` (a page's requests are requests, `Null` is none). `Consent` and
`UndoStack` need none. The provers know of no literal that it is in `STRING`, hence
`Text` in `Connect`.

Some theorems hold under a hypothesis more, for the reason their property has a
condition:

- `Serial`: one request at a time, no crash, no page forms, no force, and a clock that
  tells entries apart. Overlapping requests, and each of the other three, break the
  chain of versions (section 3), and `journal_serial` is the instance.
- `SoundDoors` and `SentByClients`: without a proxy the server speaks http, who calls it
  by a name it does not go by uses the protocol it is configured with, and users get to
  the authorization page only from a client. `MCConnect` assumes both of its instance, so
  TLC evaluates them.

The inductive invariants, each a conjunction of named parts:

- `MutationLog`. `TInv` adds to the types what each await may rely on: a request about
  to write has an existing target, every entry's row exists, an UPDATE entry has an
  earlier row. Types alone are not inductive, since a write of a missing row would leave
  a value that is no row. `UInv` adds that a request about to mark an entry has undone
  it. `JInv` says that with no writer of a row left, its value is the `after` of some
  entry. `XInv` is for transactions: every entry under a transactionId was made by its
  command, and for each rollback each entry is rolled back or still to do, those logged
  later before, but for ties. The point is
  `KnownTx`: a client knows the id only when the command has answered, so no entry joins
  the transaction after a rollback has selected its entries.
- The same, for one client that waits. `SInv`: nobody else is served (`Alone`), stamps
  grow (`InOrder`), undoing what an entry records gives the row before it
  (`Invertible`), the row a request has read is the row there is (`Poised`), and the
  standing entries of a row form a chain that ends in it, or in what the request about
  to log has replaced (`Linked`). The stack of `UndoStack` is a function of the standing
  entries, so each step is shown to map to a push, a pop or a stutter by what it does to
  them: only `Log` pushes and only `Undo` pops, before `Mark` says so.
- `OAuthStore`. `TInv` is again types with what an await relies on. `DisconnectEndsAccess`
  needs `Severed`: a consent that was cut never goes back to writing its grant, it has no
  row, and whoever is about to insert one for it holds a grant that is gone and fails at
  the foreign key, since no grant is made twice (`GrantsMade`). The next two need `Sessions`: `Lineage` (codes,
  tokens and exchanges form trees, each rooted in a consent), `Ownership` (what an
  exchange presented is its own from the claim on, used up, and nobody else's) and
  `Carried` (a session is carried by its live refresh token or by the exchange about to
  issue one, never by two). `ReuseEndsSession` needs `Endings`: all that descends from a
  code hangs off the grant of its consent and the code is used (`Bound`), a request that
  overlapped no other has the server for itself (`Solitude`), and a session a reuse has
  ended has no live token and nobody who could issue one (`Ended`), which no later
  request can become, as codes stay used and tokens revoked.
- `Workspace`. `Underway` says what a request has in hand at each step: who stands at
  `insert` with a note refers to a character of its work. `Roomy`, for each kind nothing
  excuses: the limit holds, at most one request has been found to have room and not
  inserted yet, and there is still room for it, with the length it was found to have. The last is why one
  check suffices. Most of the proof is what appending, deleting, reviving or editing a row
  does to the number of units counted, from `FiniteSetTheorems`. `ExportedOnce` needs no more than the
  types: a scene that has a live chapter is in the part of that chapter and in no other,
  and each part has it once.
- `Order`. A set with an order has one list. Each member has as many before it as its
  place says, different members different numbers, and counting shows that no place is
  left empty (`InOrderFacts`). A list of different members is determined by its members
  and by which comes before which, so what filters and insertions give is compared by
  `Before`. What is concatenated or moved step by step (`FlattenSeq`, `After`) is a
  function that a least counterexample shows to exist, whatever the data.
- `Timeline`. `TInv`: an event being inserted has its room, and a move about to be
  committed was worked out from a list of different ids that it changes (`Prepared`).
  When nobody has touched those rows, numbering them from 0 makes the list worked out the
  stored order: ties and gaps are gone.
- `TimelineList`. `LInv`: every list is one of different ids. `Ahead`, while nothing has
  disturbed the page: no request but the page's own move is served, and what it read is
  what is stored; `shown` is what the filter lets through of `Coming`, the stored order
  after all moves underway; and while a card is dragged everything else is (`Carries`).
  `WillBeStored` alone is not inductive: it says nothing of a drag that is about to become
  a move, or of an answer about to replace `items`. The step that matters is the move that
  a drop or a key queues (`ToldIsDone`): from the two neighbours the list tells, the server
  works out an order that the filter makes the list shown, whatever hidden events there
  are between the two.
- `Billing`. `Carries`: what a handler holds between two awaits is a version of a
  subscription that Stripe once sent, and who is about to update finds a row; what
  Stripe has said stays said. `TellIInv` is about what is told last: while events come in
  order nobody works on the newest version of a subscription before everything older has
  been answered (`NewsWaits`), so that the row names a subscription whose newest version
  it says as soon as that version has reached it (`RowFollows`, `RowNames`); and checkouts
  that do not hurry make one customer (`OneCustomer`).
- `McpAccess`. `Vetted`: a request whose credential opens the door now was one whose
  credential opened it on arrival, since nothing is issued twice or unrevoked;
  `Noticed`: whoever a poll has found had arrived since the panel was opened.
- `EditForm`. `FormIInv`: every write is numbered and the number of a save not yet
  written is its own (`Counted`, `Fresh`), so a column whose number is the one a form was
  rendered with still shows what was rendered (`Faithful`); a save under way says what
  its form, which nobody can touch meanwhile, still holds (`Composed`); what it wrote is
  there while the column bears its number (`Kept`).
- `Reader`. `ReaderIInv`: the last place sent from the page is the one that will be
  stored when all that is on its way has arrived, and so is the place a closed reader was
  left at. `Consent`. `ConsentIInv`: a tab that has not read the storage captures nothing.
- `Visit`. Who has a session has an account; `chosen` implies an account that is
  onboarded; and the language of what a tab shows is what `OneLanguage` says, for each
  place a redirect can end on. `OnTrack`: from where a tab is, an onboarded user gets to
  the same page as from where the tab was sent. `RedirectsLand` follows the redirects
  from each kind of page.
- `Connect`. `Vouched`: a code row agrees with an approval of its own challenge, and the
  token with an approval of the challenge it was exchanged for. `Bound`: a tab outside
  the site is at a registered address, which survives because the client registers once
  (`Standing`). `TypeIInv` adds the types of the client and the rows. `FollowIInv` adds
  what gets a client in: the documents lead to the door it came to (`Discovered`), no tab
  holds a request the client has not made yet (`Numbered`), a code for the last request
  is what that request asked for (`Redeemable`), and the token opens the door
  (`Admitted`).
- `Tools`. For each handler, what its tool's schema requires is what it asks for
  (`RowsNeed`), and values that fit pass its checks (`FitsPasses`), so that a call whose
  values fit and that is answered as malformed is one of the two a schema lets in short of
  a field.
  `ToolsIInv`: the tables are `Sound` -- a note is about a character of its work, a link
  is to a row of the work, an entry's row exists and is of its work, and what an UPDATE
  entry would put back has the shape (kind, work, subject, links) of the row it replaced -- and
  every row of `kept` is `ViewedIn` the tables. Each handler is shown to turn sound tables
  into sound ones and, unless it is marked destructive, to hide no row. A rollback undoes
  its entries one after another: that the function `Undone` defines exists, and that what
  it gives is sound, is an induction over the entries that is made over a set (`UpTo`),
  where the least element of a set of counterexamples does what an induction rule with an
  operator parameter cannot. That every reader shows a viewed row is a case per tool.

Each is proved the same way: it holds initially; each action preserves it, one step per
action; a lemma says once what a step of one request leaves alone.

## 6. What is only model-checked, and what is not modelled

Only checked: `Settles`, the liveness of the timeline's list under the fairness of section
3, which is out of the prover's reach; and that the four runs of section 4 find what they
say, which takes one behaviour each.

Not modelled: the landing, legal and help pages, translations and sample texts
(presentation; a third of the lines); the dashboard, settings and admin pages, which
read rows and render them (the actions they call are modelled with the rows they write);
the database client, whose subject is inside the runtime and the driver (it asks
`ctx.waitUntil` to disconnect when the client is made, not after the response); the
build and migration scripts; a soft navigation that keeps an older frame around a newer
page (`Visit` renders both at each request). Within modelled components: column contents, wording and
layout, the formatting of exports, hashing, the texts behind the lengths a plan counts,
titles, tags and filters of the timeline page, focus and animation of its list.
PostgreSQL, Prisma, Stripe, Google, Auth.js and the AI client are external: a query is
atomic, and a unique index or a foreign key refuses a row.

## 7. Plan

What is left, in order:

1. Overlapping tool calls from two clients on the tables of `Tools` with the journal of
   `MutationLog` behind them, as one composition, and `SavedIsFound` proved of it.
2. Two open timeline pages, each ahead of the server by its own moves.
3. What of `JournalExplainsRows` survives page forms: the rows no form has written.
