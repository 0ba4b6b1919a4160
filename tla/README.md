# A verification development for telegram-go

telegram-go is a Telegram user-account client for agents, written in Go on top
of gotd/td. This directory holds TLA+ models of its stateful parts, TLC runs
that check them on small instances, and TLAPS proofs of their safety properties
for every value of the constants. `PROJECT.json` is the index: components, runs,
mutants, the map from definitions to source lines, findings, hazards, theorems.

To repeat a run: `tlc -workers 2 -config Watch_feed.cfg MCWatch`. To repeat the
proofs of a module: `tlapm WatchProofs.tla`.

## 1. The system

| Component | State | Operations | Hard because of | Module |
|---|---|---|---|---|
| Connection lifecycle (`telegram.go`, `connect.go`) | `closed`, `connected`, `api`/`tg`, `cancelRun`/`runDone`, `logDB` under `c.mu`; per gotd client `runCtx`, `ready`, `done` | `Connect`, `Disconnect`, `Close`, the goroutine around gotd's `Run` | `c.mu` is released between steps; goroutines of an old and a new session overlap; one-value channels; waits with and without a bound | `Lifecycle` |
| Authentication (`connect.go`) | the session on disk | `ensureAuthorized`, the callbacks of `userAuthenticator` | fails at any of five steps; codes are rationed; the session outlives everything else | `Account` |
| Status (`status.go`) | `selfUser` | `Status` | reads the client in one critical section and writes it in another, with a request in between | `Account`, `Lifecycle` |
| Message log, writers (`store.go`) | tables `messages` and `chats`, shared by all goroutines | `upsertMessage`, `upsertChatMeta`, `markChatRead` | two statements without a transaction; repeats and reordering; `Close` takes the database away; the process may stop | `MessageLog` |
| Live updates (`updates.go`) | none of its own | `recordIncomingMessage`, `ingestEntities` | run in gotd's goroutines at any time, in any order, possibly again | `MessageLog`, `History`, `Dialogs` |
| Watch (`watch.go`) | the cursor, kept by the agent | `Watch` | paging over a table that grows and is refreshed between two calls | `Watch` |
| History, search, local history (`messages.go`) | the offset, kept by the agent | `GetMessages`, `getMessagesLocal`, `Search`, `convertMessages` | paging backwards while both ends change; service messages; silent write failures | `History` |
| Write methods (`send.go`, `messages.go`) | `confirmWrites`, `dryRun`, `allowedPeers`, fixed by `New` | `SendMessage`, `SendMedia`, `React`, `JoinChat`, `LeaveChat`, `MarkRead` | gates before, resolution and several requests after; a lost answer | `Writes` |
| Peer cache and resolution (`resolve.go`, `contacts.go`) | `users`, `channels`, `chats` | `inputPeer`, `resolveUsername`, `ResolveContact`, `ingest*` | filled by every goroutine; usernames change hands; objects without a usable access hash | `Writes`, `Dialogs` |
| Peer references (`peer.go`) | none | `NormalizePeerID`, `ParsePeerID`, `FormatPeerID` | several spellings of one peer | `PeerRef` |
| Dialogs (`chats.go`) | none | `ListChats` | joins four lists by numeric id | `Dialogs` |
| MCP tools (`mcp/`) | none | one per method | nothing: they copy parameters | - |

They interact through five things: the fields under `c.mu`, which decide what
`withAPI` answers to every method; the peer cache; the SQLite log; the session
file; and the gotd client, which calls back into the authenticator and into the
update handlers. What makes each part correct is stated below with its module.

## 2. Modules

| Module | Role |
|---|---|
| `Handoff` | what the methods promise each other about a session: one right to cancel it and to learn of its end, handed from one to the next |
| `Lifecycle` | Connect, Disconnect, Close, the goroutine of a session, the retry in Status; refines `Handoff` |
| `Account` | what happens inside that goroutine until Connect returns, and who the client is signed in as |
| `MessageTable` | the table `messages`, one action per kind of statement |
| `MessageLog` (extends `MessageTable`) | all writers of the log and the table `chats`, statement by statement; refines `MessageTable` |
| `MessageFeed` | what Watch promises: an exactly-once, in-order, eventually complete feed |
| `Watch` (extends `MessageTable`) | the paging query and its cursor; refines `MessageFeed` |
| `LiveLog` (extends `MessageLog`, instantiates `Watch`) | the writers and the agents that watch, interleaved statement by statement; refines `MessageFeed` |
| `History` (extends `MessageTable`) | GetMessages from the log or from Telegram, with its write-through, and agents that page backwards with it |
| `Contract` | what an agent may rely on when it asks for a write: at most once, and told the truth |
| `Writes` | gates, allowlist, peer cache, resolution, requests and their errors; refines `Contract` |
| `PeerRef` | references to peers, as pure operators, and the allowlist |
| `Dialogs` (extends `PeerRef`) | ListChats, live updates that fill the same cache, and the agent's next call |
| `MC*` | small sets, symmetry, configurations for TLC |
| `*Proofs` | inductive invariants and theorems |

`MessageTable` is the joint between writers and readers. `MessageLog` adds the
counters, the goroutines and their failures, and is shown to do to the table
only what `MessageTable` allows; `Watch` and `History` compose their readers with
that abstraction and need not know the writers. `LiveLog` puts the real writers
back under `Watch`.

### Lifecycle

A caller is a goroutine of the host inside one method, with a program counter
`pc` and the session `sess` whose cancel function and `done` channel it holds.
A session is one pass through the body of `Connect`: `run` is where its
goroutine is, `ready` and `done` are its two buffered channels, `cancelled` and
`ctxDone` are its `runCtx` and the ctx `Connect` was given. Every critical
section, channel operation and cancel call is one action, named after the method
and the line it is (`ConnectPublish`, `DisconnectTake`, `CloseTimeout`,
`Cleanup`). `api` and `tg` are always assigned together and are one variable, as
are `cancelRun` and `runDone`. gotd is external: it calls the callback or not,
even after a cancel; it returns after the callback; it may end the callback's
context by itself. A refused call (`ErrClosed`, `ErrAlreadyConnected`, a
configuration without API id) changes nothing and is left out.

Properties: `ConnectedMatchesAPI`, `ApiHasGoroutine` (withAPI never hands out
the client of a goroutine that has gone), `DoneHasOneReceiver`,
`RunOverOnReturn`, and the liveness properties `CloseReturns`,
`DisconnectReturns`, `ConnectHonoursCtx`.

`SessionsAreHandedOver` is the refinement of `Handoff`. That module knows owners
and phases only: a session is reserved, started, published, taken, cancelled,
received or given up, by whoever has the right to it, and the one way to lose the
right is to publish another session over it (finding 1 leads there). The mapping
reads the owner off `cancelRun` and the callers' `sess` (`OwnerOf`) and the phase
off `done` and `run` (`PhaseOf`). What it adds to the other properties is that a
session nobody knows any more has been cancelled: the timeout of Close hides a
forgotten cancel from `CloseReturns` and from any test.

### Account

One connection at a time, from the callback of gotd's `Run` to its end; what
several connecting goroutines do to each other is the subject of `Lifecycle`.
`pc` follows `ensureAuthorized`: `status` (Auth().Status), `flow`, `code` and
`password` (gotd's sign-in flow with our callbacks), `identify` (Self), `ready`
(the channel is filled, and `Connect` may still find its ctx done), `up`.
`file` is the account session.json belongs to and `valid` whether Telegram still
honours it; both outlive the connection, and another device may revoke the
session at any moment. `Lacking` is the order of the checks for phone and
prompt, `Classify` is what becomes of an error of the flow. Each of the `Askers`
is a goroutine in `Status`: it reads the client (`StatusLook`), asks through
withAPI (`StatusAsk`), is answered (`Served`) and writes `selfUser`
(`StatusReturn`), each possibly on a later connection.

`SessionIsKept`: after a successful Connect no later one prompts, until the
session is ended from outside. `NoCodeInVain`: a code is requested only when it
is needed and can be entered. `ErrorsAreTrue`: what an error says is missing is
missing. `SelfIsOfTheSession`: once a connection has learnt its user, Status
reports the user of its session; the history variable `late` names the answers
that come from an earlier session, the only ones that can spoil this.

### MessageTable and MessageLog

`rowOf` is the rowid of `(peer_id, msg_id)` or 0, `lastRowId` the AUTOINCREMENT
sequence, `isRead` the column. `MessageLog` adds `unread` and `lastAt` (the row
of `chats`) and `job`, the second statement a worker has ahead of it: between
the two statements of `upsertMessage` or `markChatRead` anything may happen, the
second may fail, and `Crash` drops all pending ones. Dates are abstracted to
message ids, with two values below them for no row and for the negative
milliseconds of a zero `time.Time`. `isFromMe` of a live update is free, because
the code decides it with a `selfUser` that may not be known yet.

Two history variables say for which peers a property cannot be asked: `skewed`
(a counter that lost a statement or was replaced by the count of `ListChats`,
until the next complete `MarkRead`) and `missed` (a `last_msg_at` that lost
one). They are the price of two statements without a transaction, and they make
the strength of the log explicit: `UnreadRowIsCounted` and `LastAtCoversRows`
hold for every other peer in every interleaving.

### MessageFeed and Watch

`received` counts how often an agent got a message. `Poll` is one call of
`Watch`: clamp, `rowid > cursor`, filter, `ORDER BY rowid LIMIT`, and the cursor
of the result. An agent keeps its filter across calls, as the comment of `Watch`
asks it to. `CursorTellsAll` says that the cursor and the log alone determine
what the agent has seen. `FeedSpec` is the refinement of `MessageFeed` with
`order <- rowOf`, and `FeedFairSpec` the same with its liveness.
`ReadAndPlaceAreFinal` is the property of the table on which the cursor rests.

### LiveLog

`LiveLog` runs the workers of `MessageLog` and polls of `Watch` on one table: a
poll may fall between the two statements of an upsert, after one that failed, or
after a crash that took all pending ones. An agent is another process, so its
cursor outlives the crash. `EndToEndFeed` is the refinement of `MessageFeed` from
this level: what the statements put into the log is what agents get, once and in
order.

### History

An agent walks back through a peer: OffsetID 0 first, then the smallest id of the
last page, until a page is empty. `ReadLocal` is `getMessagesLocal`, one
statement. `AskRemote` is the request to Telegram; `ConvertMessage` and
`ConvertFails` are one iteration of `convertMessages` each, which writes the
message through to the log and ignores the error; `ReturnRemote` hands the page
to the agent. Meanwhile messages are posted (`Post`, ids rise), live updates
arrive late, twice or never (`LiveUpdate`), and other goroutines fetch and search
(`OtherFetch`), so rows appear on both sides of the offset.

`WalkHasNoHoles` is the property of the paging: of what was there when the walk
began (`had`) the agent has exactly the part from the offset on, and nothing
twice. `EmptyPageIsTheEnd` says when an agent may stop. `FetchedIsLogged` is
what makes a local walk after a remote one useful. `WalkEnds` is its liveness.

### PeerRef and Dialogs

A reference is a sequence of tokens: blanks, a link prefix, `@`, `/`, `:` and
words. Which words are usernames and numerals, and what `ToLower`, `ParseInt` and
`FormatInt` make of them, are constants. `NormalizePeerID` is translated branch
by branch, down to the two trims around the colon, the colon at the first
position, and the numeral that stays as it was written.

`Dialogs` is one agent that lists (`List`, one `Item` per turn of the loop,
`ReturnList` with the stable sort) or refers to a peer in some spelling (`Refer`:
`ParsePeerID` and the look into the cache). `Slot` is the key under which the
code keeps the objects of the answer: users have a map of their own, legacy
chats and channels share one. `LiveUpdate` puts an object into the cache at any
time, also a min one, whose access hash cannot be used.

`ListIsFaithful` states the comment of `ListChats` for answers with missing,
doubled and foreign objects. `ListedPeerIsUsable` and `ListedPeerIsFound` are
what the error text "call ListChats or ResolveContact first" promises.
`SpellingIsUnderstood` compares `ParsePeerID` with a declarative definition of
the spellings; `NormalIsFinal` is idempotence and preservation of meaning;
`AllowlistKnowsSpellings` says which peers one entry of the allowlist lets pass,
and that a list of unrecognised entries only is none.

### Writes

A caller works on behalf of an agent: `Write` starts something new, `Retry`
repeats the last call after an error that tells that nothing happened
(`SafeToRetry`: any error of a sending method but `ErrSendFailed`; of the other
methods, any error but that of a request). `Verdict` is the chain of confirm
gate, allowlist, dry-run and `withAPI` in the order of the code; then come
`lookup` (inputPeer), `ask` (ContactsResolveUsername), `upload`, `send`
(the request is on its way), `answer` (Telegram has performed it). `reach` is
what `withAPI` answers and stands for module Lifecycle. Telegram may name any
peer for a username, a different one each time, with or without its object.
`took` counts how often Telegram performed what the caller wants; `named` is the
peer Telegram has named for the username of a call, forgotten when the next call
begins, and `told` the peers `ResolveContact` has returned.

`WritesArePermitted` ties a performed write to its own call: the peer is the one
the reference names itself or the one Telegram named for it in this call
(`Meant`), never one that another caller's answer or an earlier owner of the
username left behind. Beside dry-run and the restriction of Join and Leave to
channels it states the allowlist, for the three methods that send. That the
repository promises the list for all write methods, and as a fixed set of peers,
is not kept; section 4 lists both.

`ContractIsKept` is the refinement of `Contract`, in which an agent has one wish
at a time that is `pending`, `refused`, `done` or in `doubt`. `WordOf` reads that
off where a caller is and what its last method returned; a wish may be repeated
when it was refused, is performed at most once, and what the agent is told at
each moment fits what Telegram has done, `nil` on a dry-run excepted.
`RetryNeverRepeats` and `NilMeansDone` are its consequences.

## 3. Runs

| Run | Bounds | Shows |
|---|---|---|
| `Lifecycle_all` | 2 callers, 2 sessions | the safety properties of the lifecycle; Close returns with no assumption about gotd; Disconnect, and Connect with a finished ctx, return if a cancelled Run ends; the refinement of `Handoff`; 223,346 states |
| `Account_signin` | an account with a second factor, one without, a phone without an account; every configuration and stored session; 2 goroutines in Status | no needless prompts, true errors, the right own user; 65,030 states |
| `LiveLog_all` | 3 workers, 1 peer, 2 messages, counters up to 1 from updates and dialogs; 1 agent with limits 0 and 3, default 1, maximum 2 | rows, counters and dates agree; the refinements of `MessageTable` and, with polls in between, of `MessageFeed`; 123,369 states |
| `Watch_feed` | 2 peers, 2 messages each, an agent for all peers and one for one peer; limits 0, 1, 3 with default 1 and maximum 2 | the feed, its liveness, the finality of rows; 7,993 states |
| `History_walk` | 1 agent, a channel with a username, 3 messages of which the second is a service message; limits 0, 1, 3 with default 1 and maximum 2; MinID 0 and 1 | no holes, no overlap, the end, the write-through, the liveness of a walk; 106,660 states |
| `Dialogs_list` | a user, a legacy chat and a channel with one number; up to 2 dialogs and 2 objects; some 350 references | the list, the cache, the spellings, the allowlist; 253,142 states |
| `Writes_safety` | 2 callers, a legacy chat, a channel, a username; 3 methods; 4 client configurations | gates, the peer written to, retries, resolution, the refinement of `Contract`; 151,569 states |
| `Lifecycle_usable` | 1 caller, 2 sessions | finding 1 |
| `MessageLog_count`, `_max` | 1 worker, 1 peer | findings 2 and 3 |
| `Watch_alias` | 1 channel with a username, 1 message | finding 4 |
| `Account_password` | as `Account_signin` | finding 5 |

Why the bounds are enough for the interesting cases. Lifecycle: every hazard is
a race between two methods, or between a method and the goroutine of an older
session, so two sessions suffice for one stale and one new. Names of sessions are
reclaimed, so runs of any length are covered; the safety properties are proved
for any number of them. The run uses no symmetry, because it checks liveness.
Account: the order of steps is what matters, and every combination of phone,
prompts, account and stored session is an initial state; two askers are enough
for an old and a new answer to meet.
LiveLog: three workers allow an update between the two statements of
another while a third marks the peer; peers do not share rows, so one is enough
for the properties, which are about one peer each. `MaxUnread` bounds when a live
update may be logged and what ListChats finds; it is checked when the job
starts, so counters reach 3 with three workers; one agent is enough,
because agents share nothing. Watch: two peers whose rows
interleave, with limits below, at and above the backlog. History: three messages
let one be posted above a page, one fill a gap below it, and one be the service
message that hides another; other agents only add rows, which `OtherFetch` does.
Dialogs: equal numbers make all collisions of the maps happen; two dialogs are
the least with an order, two objects the least where one replaces another; the
references are all sequences of up to two tokens and all pairs and names with
every optional part. Writes: `SendMedia` has every step a
write can have, `JoinChat` adds the restriction to channels and errors that are
not wrapped, `ResolveContact` the cache; the other three methods follow one of
these paths. The proofs remove the bounds for the safety properties.

Deadlock is checked in every run: there is no state from which neither a caller
nor a goroutine of the client can go on. That each single caller gets on is what
the liveness properties add.

### Fairness

* `FairSpec` of Lifecycle: a caller inside a method takes its enabled steps. The
  Go scheduler runs every runnable goroutine, and the timer of Close is such a
  step. No fairness for calls, for the host's cancels, or for gotd.
* `Prompt` is the premise of `DisconnectReturns` and `ConnectHonoursCtx`: a
  session whose `runCtx` is cancelled makes progress out of gotd's `Run`. This is
  what the comment in `Close` says of gotd ("terminates promptly once runCtx is
  cancelled"). `CloseReturns` does without it, which is the purpose of its
  timeout.
* `FairSpec` of Watch: every agent keeps polling ("agents poll on a cadence they
  choose"). Weak fairness of the poll is enough, because a backlog stays until
  it is polled. The writers are not fair.
* `FairSpec` of History: a goroutine inside `GetMessages` goes on, and an agent
  that walks keeps calling. It may give up at any time, and nothing is assumed
  about what others write; the offset falls with every page.

### Mutants

Every property of a passing run has a mutation of the modelled code that it
detects: a forgotten reset or cancel, a wait without a timeout, INSERT OR
REPLACE for the upsert, `=` for `+`, a missing MAX, the wrong end of the page, an
offset that includes its message, a row under another name, one map for two
kinds of ids, a cache that keeps what it has, an allowlist of raw entries, a
check that is dropped or done in the other order, an unwrapped or ignored error,
an answer that is not kept, a timeout that stands in for a cancel. The `Mut...`
operators stand next to what they mutate and no specification uses them.

## 4. What the code does not keep

Each of these is a run that expects the violation; the lines are quoted in
`PROJECT.json`.

1. `PublishedSessionUsable`: the goroutine of an older session resets
   `connected` and `api` after a newer one has set them; from then on every call
   of the newer, live session gets `ErrNotConnected`. One caller that reconnects
   is enough, since `done` is filled before the cleanup.
2. `CountsMessagesOnce`: `upsertMessage` is idempotent on the row, not on
   `unread_count`.
3. `MarkReadHonoursMax`: the local log ignores `MaxMessageID`.
4. `OneRowPerMessage`: a history fetched by username is logged under the
   username, a live update of the same message under the canonical id.
5. `MissingPasswordIsTold`: without a password prompt, an account with a second
   factor gets `ErrAuthFailed`, because only gotd's own error is recognised and
   the authenticator returns the one of this package.

Further disagreements and limits that the models make visible, with no run of
their own:

* "All write-style methods (SendMessage, SendMedia, React, MarkRead, JoinChat,
  LeaveChat) honour" the allowlist according to `telegram.go:4-9`, and
  `WithAllowedPeers` "restricts write methods" according to `telegram.go:130`.
  `JoinChat`, `LeaveChat` (`send.go:177-232`) and `MarkRead`
  (`messages.go:108-141`) never call `recipientAllowed`; only "denies sends"
  (`telegram.go:9`) and "sends are denied for off-list peers" (`README.md:101`)
  describe the code. In `Writes`, `RecipientAllowed` lets these methods pass.
* The allowlist is no "fixed set of canonical peer IDs" (`telegram.go:130`) when
  it has a username on it: the entry lets pass whoever holds the username when
  the call is made, while the same peer under its number is refused.
* After 1, a further `Connect` is accepted and overwrites `cancelRun`
  (`connect.go:99`); `Close` then leaves a session running.
* The ctx of `Connect` has no effect once it has returned (`connect.go:57`),
  although its comment says "until Close (or the supplied ctx) is cancelled".
* With `from_local` the MCP tool's `min_id` is ignored: `getMessagesLocal` does
  not get it (`messages.go:28`; `mcp/messages.go:14` says otherwise).
* A page from Telegram with service messages only comes back empty and looks
  like the end of the history; `EmptyPageIsTheEnd` excepts exactly this.
* `user:007` and `user:7` are one peer for a request and two for the log and the
  allowlist, because `NormalizePeerID` keeps the numeral.
* An allowlist all of whose entries are unrecognised is no allowlist
  (`telegram.go:147`).
* `only_channels` lets supergroups pass, which `mcp/chats.go:15` excludes ("only
  broadcast channels").
* A dialog whose top message is a service message has the zero date and sorts
  last, although the list is "ordered by most recent activity".
* A legacy chat and a channel with one number would get each other's object in
  `ListChats`; `ListIsFaithful` excepts them.
* When Self fails on a new connection, `Status` keeps reporting the user of the
  previous one, and a `Status` that has waited since an earlier session stores
  its answer over the user of the new one (`status.go:36`).

## 5. Proofs

All safety properties of the passing runs are theorems for every value of the
constants. The assumptions are those of the modules: nil is no session and no
call, callers are not called like the owners of `Handoff` that are no callers,
message ids are positive and finitely many, references stand for one canonical
peer each, limits are integers and the two defaults positive, kinds of
references are disjoint, `ParseInt` reads what `FormatInt` writes, punctuation is
no word, Telegram lists a peer once, only registered accounts have a second
factor. Each `*Proofs` module but `LiveLogProofs` states an inductive invariant
`IInv`, proves `Init => IInv` and one preservation lemma per action (or per
method, with one step per action), and derives the properties.

* **LifecycleProofs.** The properties alone are not inductive: that a value in
  `done` is there for its receiver depends on who holds the channel. `IInv` adds
  ownership: a session belongs to at most one caller or to the field
  (`SingleOwner`), which steps own one (`StepsOwnSession`), that a reserved
  session has no goroutine yet (`ReservedIsUnused`) and that `done` is filled
  exactly when Run is over (`DoneFollowsRun`). Theorems: `TypeCorrect`,
  `FieldsAgree`, `NoStaleAPI`, `OneReceiver`, `RunOver`. A second invariant,
  `CancelledByOwner`, says who has cancelled what. With both, every action of the
  three methods and of the goroutine is a step of `Handoff` or a stutter
  (`HandsOver`): `SingleOwner` makes the owner of the mapping unique, a value that
  is received settles the phase, and what a caller lets go of is cancelled.
  `NobodyWaitsInVain` is the safety part of `DisconnectReturns` and
  `ConnectHonoursCtx`: whoever waits for the end of a Run finds the value, or has
  cancelled the Run that has yet to return it.
* **AccountProofs.** `IInv` adds what the place of Connect tells about its error
  and the session (`PlaceFits`), that a kept session is honoured
  (`TrustedIsAuthorized`) and that an answer a Status holds is about the session
  at hand unless it is late (`AnswersAreCurrent`). The actions have three forms,
  one lemma each: fail, proceed, signed in. Theorems: `TypeCorrect`,
  `SessionKept`, `CodeIsNeeded`, `ErrorsTellTheTruth`, `SelfIsCurrent`.
* **MessageLogProofs.** `UnreadRowIsCounted` and `LastAtCoversRows` are
  inductive with the types: each names the pending statement that will repair
  it. `LogImplementsTable` is the refinement; its steps are those of
  `MessageTable` or leave the table alone.
* **WatchProofs.** `IInv` adds that rows have distinct numbers up to the
  sequence (`RowsAreNumbered`) and that no cursor is ahead of the log
  (`CursorsInLog`). The lemma `PageHasNoHoles` carries the argument: what
  precedes a row of a page is in the page, so the cursor skips nothing.
  `WatchImplementsFeed` maps a poll to `Deliver`, an insert to `Arrive`, and
  everything else to a stutter. `BacklogIsServed` and `CursorAdvances` are the
  safety part of `FeedFairSpec`: a backlog always gives a page with a last row,
  whatever the limit, and every page moves the cursor on, within the log.
* **LiveLogProofs.** Polls leave the variables of the writers alone, so LiveLog
  implements `MessageLog` (the lemma `WritersAreUndisturbed`, which only says how
  `LiveLog` is put together) and its theorems hold (`LogKeepsPromises`). The writers in turn do to the table what `MessageTable`
  allows, so LiveLog implements `Watch`, whose theorem, instantiated, gives
  `EndToEnd`. No invariant is needed that the parts do not have.
* **HistoryProofs.** `NewestHasNoHoles` says that a page takes everything from
  its oldest message on, and `NewestHasTheNewest` that it is empty only if there
  is nothing to take. `IInv` has one part per walk: what it has received is what
  the offset has passed, what was there is still there, and the page being converted
  continues the walk (`PageContinues`). Everything that happens meanwhile only
  adds rows and messages (`Grows`), so one lemma serves all of it. Theorems:
  `TypeCorrect`, `PagesMeet`, `EndIsComplete`, `FetchedStays`. `CallsGoOn` and
  `WalkAdvances` are the safety part of `WalkEnds`: a call can always go on, and
  each of its steps ends the walk, lowers the offset, or shrinks the page that is
  being converted, which nothing but giving up undoes. `HistoryUsesTable` shows
  that walks and what happens meanwhile keep to `MessageTable`.
* **DialogsProofs.** First the operators, for references of any length:
  `Idempotent`, `ParseReadsFormat`, and that an entry of the allowlist
  lets pass the peer it names only (`EntryNamesOne`). `SpellingUnderstood`
  compares the parser with the declarative spellings in both directions: trimming
  keeps the solid tokens and their order, so a pair is found where the three of
  them stand, and what the parser reads as a pair or a name is one. Then
  ListChats: `IInv` keeps a function from the entries of the result to the
  dialogs they were made of (`Origin`), injective and onto what the filter keeps;
  the loop extends it in order, the sort permutes it (`SortKeepsOrigin`).
  Cache: whatever the answer brought is usable or was spoiled since
  (`BroughtIsUsable`), and nothing leaves the cache (`KnownIsCached`). Theorems:
  `TypeCorrect`, `NormalFormIsFinal`, `AllowlistKnows`, `ListedUsable`,
  `ListedFound`, `ListFaithful`.
* **WritesProofs.** `IInv` follows a call: what it has passed (`PastGates`), that
  its InputPeer is the peer it means (`HandleIsRight`), how often Telegram has acted for it at each
  step (`TookSoFar`), and that every peer ResolveContact has told is cached.
  Theorems: `TypeCorrect`, `Permitted`, `RetriesAreSafe`, `Acknowledged`
  (`NilMeansDone`), `KnownIsFound`. `KeepsContract` is the refinement: a step
  inside a method performs the wish, answers it or stutters, whatever method it
  is, because the invariant ties every result to what has been performed; only
  the beginning of a call needs its gates looked at (`FirstWord`).

Only model-checked: the liveness properties (`CloseReturns`,
`DisconnectReturns`, `ConnectHonoursCtx`, `FeedFairSpec`, `WalkEnds`), as
fairness and ENABLED are out of the prover's reach. What is proved towards them
is that whoever waits can be served and that each step makes progress; that
finitely many such steps suffice is an induction the prover cannot do. And of
course the five violations.

## 6. Not modelled, and abstractions

* The MCP tools copy their input into one call and keep nothing. Media kinds are
  a classification by MIME type that only changes the form of an upload. Logging
  has no effect on the client. Of the errors, only the classes an agent can tell
  apart are modelled.
* Message bodies, senders, titles: they carry no control. Consequently nothing is
  said about a body that a slow history overwrites with an older version
  (`store.go:89`), nor about edits, which the code does not handle.
* An access hash that has gone stale at Telegram is a request that fails.
* The objects that come with a list of dialogs are assumed to be full ones. The
  code does not look at `Min`, neither for the cache (`resolve.go:34-35`) nor for
  the join (`chats.go:47-61`), so a min object in an answer would be listed with
  a title and kept in the cache without a usable access hash, and
  `ListedPeerIsUsable` would not hold for it. Min objects do come with live
  updates in the model.
* A username keeps its owner during one walk of `History`, although every page
  resolves it again (`messages.go:33`, `resolve.go:117`).
* In `Lifecycle`, Status looks at the fields and enters withAPI in one step; its
  answer may come at any time afterwards. `Account` has the two steps apart.
* Updates missed while disconnected. The code does not ask for them; the feed of
  `MessageFeed` begins at the log, and `History` shows that a fetch fills the gap.
* The table `chats` is written and never read by the code, so its properties are
  about what a reader of the database would find.
* `Status` beyond the own user: HasSession, StoredMessages and the help text are
  read off and change nothing.

## 7. Plan

1. `Client`: Lifecycle and Writes composed with LiveLog, with `reach` of Writes
   and the failing statements of MessageLog bound to the fields of Lifecycle;
   the database opened after Close, own messages before `selfUser` is known.
2. A refinement of the two outcomes of the callback in Lifecycle by `Account`.
