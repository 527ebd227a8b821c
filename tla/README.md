# Yawp in TLA+

Yawp is a federated chat: every person has a self-certifying DID and is *anchored* at one or
more servers; servers carry direct messages to each other's anchors and run chat channels of
their own. The server is an Elixir/Phoenix/Ash application over PostgreSQL
(`src/apps/yawp/lib`), the client a React (Native) application (`src/apps/yawp/assets/app`).
This directory models its protocols in TLA+, checks the models with TLC on small instances, and
proves what matters most with TLAPS for every value of the constants.

Paths below are relative to `src/apps/yawp/` unless they begin with `docs/`, which is
`src/docs/`. `PROJECT.json` maps each definition to the lines it models.

- [1. The system](#1-the-system): components, their state, how they interact, what is hard
- [2. Plan](#2-plan): modules in order, composition, abstract specifications, theorems
- [3. The modules](#3-the-modules): how state and actions correspond to the code
- [4. The runs](#4-the-runs): what each checks, with which bounds
- [5. Where code and documents differ](#5-where-code-and-documents-differ)
- [6. Fairness](#6-fairness)
- [7. What is proved](#7-what-is-proved)
- [8. What is not](#8-what-is-not)

## 1. The system

Three kinds of concurrency run through all of it, and every model states which one it has:

- **Requests.** Phoenix serves every HTTP request in a process of its own and every websocket
  topic in another; two requests interleave at each database statement.
- **Transactions.** An Ash action is a PostgreSQL transaction at READ COMMITTED, the default:
  each statement sees what was committed before it began, a write is seen by others at the
  commit, an `UPDATE` waits for whoever holds its row and then evaluates its `WHERE` again, and
  advisory `xact` locks are held until the commit. What follows an action
  (broadcasts, HTTP calls, `Task`s) is outside of it.
- **Promises in the client.** Functions run alone between their `await`s.

| Component | State | Operations | Correct when | Module |
|---|---|---|---|---|
| **DM delivery** `yawp/federation.ex`, `controllers/federation_controller.ex`, `channels/user_channel.ex` | `federation_delivery_states`, inbox rows, `persistent_term` origin, requests under way | submit, mark_sent, deliver_targets, inbox_push, inbox_ack, read_marker, broadcasts | the sender is told nothing that has not happened; an accepted envelope is stored; rows never go back; a submission is answered | `DmDelivery`, `DeliveryPromise` |
| **Inbox** `federation/inbox_entry*` | rows `(recipient, envelope, inbox_serial)`, advisory lock, a puller's cursor | append_inbox, pull | serials have no gap, a cursor misses nothing, an envelope is announced once | `InboxLog` |
| **Session and refresh tokens** `identity.ex`, `identity/{session,refresh}_token.ex` | two rows per pair: `revoked_at`, `rotated_to`, `expires_at` | issue, rotate, revoke all of a device or an identity | a login never forks, refusals name a true reason, what is revoked stays unused | `SessionTokens` |
| **Client session** `assets/app/session.ts` | the stored pair | getValidSessionToken from many components | the store only moves forward | `SessionClient` |
| **Channel messages** `servers/message*`, `retention_sweep_job.ex` | messages, edits, tombstones, archive | send, edit, delete, nightly sweep | serials have no gap, a wiped body has one tombstone | `MessageStore` |
| **Channel topic and store** `channels/server_channel_topic.ex`, `assets/app/chat/channel-store.ts` | channel processes, events under way, what the client shows | join, history, broadcast, handlers of the store | what is shown is stored, and nothing is missing but what overtook a history | `ChannelTimeline` |
| **Claim tokens, invites, moderation** `admin/claim_token*`, `servers/{server,room}_invite*`, `servers/{kick,ban}.ex` | claim tokens, invites, memberships, overrides, owner | mint, revoke, claim, redeem, kick, ban | uses add up, one owner at first, bans stop, losers are told the truth | `Admission` |
| **Identity vault** `assets/app/identity-context.tsx`, `identity/*`, `screens/Onboarding*`, `LockedScreen`, `PassphraseSettingsScreen` | the stored entry, natively a second one, the copy in memory, what onboarding keeps | create, restore, unlock, change metadata, passphrase or passkey, migrate | no start replaces an identity, memory and store agree, what is kept can be opened | `IdentityVault`, `OnboardingScreens` |
| **Client connection** `chat/anchor-connection.tsx`, `chat/socket.ts` | the socket cache, joined channels, reachability, status and its timer | runs of the effect, `getSocket`, join, error, timer | the status is founded, one channel per anchor, outages and recoveries are noticed | `AnchorLink` |
| **Client outbox and conversations** `chat/dm-*.ts`, `App.tsx`, `screens/DmListScreen.tsx` | the list, the open conversation, its thread, delivery states, markers | send, queue, settle, merge, accept a request, emit markers | a state that is received is shown, a message is listed once, sending ends | `DmThread` |
| **Workspaces and server page** `App.tsx`, `screens/ServerScreen.tsx`, `chat/server-tree.ts`, `server-unread.ts` | workspaces and badges, the shown tree, fetches and calls under way, unread counts | pick, rearrange, refetch, count, removal | a settled page shows its server's tree but for what it cannot have heard of, a count is owed | `ServerPage` |
| **Open channel** `screens/ChannelScreen.tsx`, `chat/channel-store.ts`, `chat/search.ts`, `server-moderation.ts` | join, messages shown, what was begun, a search, the sheet of members | join, push, mark as read, search, kick, ban | what was begun stays in its channel, results belong to the query, the sheet is true | `ChannelPane` |
| **Adding servers and anchors** `screens/Add{Server,Anchor}Screen.tsx`, `bind.ts`, `claim.ts`, `invite.ts`, `room-invite.ts`, `add-anchor.ts` and their server side | handlers under way, metadata, identity rows, profiles, adoption jobs | paste, probe, redeem, bind, record, list, publish, adopt | what is listed was joined, what is published serves | `AddServer` |
| **Profiles and blobs** `identity/ppe.ex`, `private_blob.ex`, refresh workers | per anchor: PPE and blob with a version, identity row | apply-if-newer, refresh | versions only grow, anchors converge | binding and adoption in `AddServer`; the rest planned, `ProfileSync` |
| **Admission of peer traffic** `federation/delivery_{nonce_cache,budget}.ex` | ETS tables of nonces and token buckets | record, sweep, consume | a nonce is accepted once within its window, a peer exceeds no budget | planned `PeerAdmission` |
| **Presence** `federation/presence_broker.ex`, `remote_presence.ex` | a GenServer's subscriptions, states, idle timers | subscribe, unsubscribe, presence_diff, idle | subscribers end up with the state the broker has | planned `Presence` |
| **Key documents** `federation/key_doc_{cache,fetcher}.ex` | ETS cache with a TTL | get, refetch of an unknown key | a rotated key is found, an old one not used for ever | planned `KeyDocs` |
| **Authority of joined sockets** `server_channel_topic.ex`, `servers/permissions.ex` | bits computed at join | join, moderation event, send, edit, delete | who was removed can do nothing more | planned `ChannelAuthority` |
| Channels and categories on the server, permission masks, fan-out of notifications, search and attachments, operator accounts, canonical JSON, rendering, generated code | | | | not modelled, see section 8 |

**How they interact.** A client that starts unlocks its identity (`IdentityVault`), joins servers
by claiming or redeeming (`AddServer` at the client, `Admission` at the server), which issues a
pair (`SessionTokens`) that the client keeps rotating (`SessionClient`). It keeps a channel to
each anchor (`AnchorLink`). It opens a workspace (`ServerPage`) and in it a channel
(`ChannelPane`), whose topic (`ChannelTimeline`) carries the messages that the sockets write
(`MessageStore`). A DM goes from the client (`DmThread`) to its anchor, which routes it by cached
profiles (here the variable `view` that may change at any time), pushes it to the recipients'
anchors (`DmDelivery`), where the push is admitted or refused and appended to an inbox
(`InboxLog`, in `DmDelivery` a set). Delivery states and read markers come back the same way.
A kick ends sessions (`SessionTokens`, `RevokeSessions`), flags the membership (`Admission`) and
makes the client leave the workspace (`ServerPage`, `Removed`).

Composed are: `DmDelivery` with `DeliveryPromise` by refinement, `SessionClient` with
`SessionTokens`, `ChannelTimeline` with `MessageStore`, `IdentityVault` with `OnboardingScreens`.
The other interfaces are choices that allow whatever the neighbour may do.

**What is hard.** Serials computed by `MAX + 1`; rows read before and updated after another
statement; broadcasts and HTTP calls that follow a commit and are not repeated; acks and read
markers that overtake each other; two revocations that lock the same rows in different orders;
calls in a browser that share one stored token; a nightly job that loses a race and starts
over. In the client: handlers that apply a snapshot taken before an `await`, that go on when
their screen is gone, or whose answers come in another order than their questions; copies of one
conversation or tree that are changed separately; effects that run again while an earlier run
waits. `PROJECT.json` lists forty such places, each at its line, with the properties that cover it
and a note on what they leave out. Section 5 has the cases in which the code does go wrong, section
8 the places that no property covers.

## 2. Plan

In the order of importance of the behaviour. Done:

1. **DM delivery**: `DmDelivery` refines the abstract `DeliveryPromise`; `DmDelivery_proofs`.
   `InboxLog` is the inbox `DmDelivery` takes as a set; `InboxLog_proofs`.
2. **Sessions**: `SessionTokens`; `SessionClient` EXTENDS `SessionTokens`, so that the client
   runs against every step of the server; `Workspaces_proofs`.
3. **Channels**: `MessageStore`; `ChannelTimeline` EXTENDS `MessageStore`;
   `ChannelTimeline_proofs`.
4. **Admission**: `Admission` for claims, invites and moderation, since they lock the same rows;
   `Admission_proofs`.
5. **The client**, which is most of the code: `IdentityVault` with `OnboardingScreens`
   (`IdentityVault_proofs`), `AnchorLink` and `DmThread` (`DmClient_proofs`), `ServerPage`
   (`Workspaces_proofs`), `ChannelPane` and `AddServer` (`ClientScreens_proofs`).

Left, modules first:

6. `ProfileSync`: profiles and blobs at several anchors with the two Oban workers; abstract
   specification: a register per DID whose version only grows.
7. `ChannelAuthority`: the bits a socket keeps, against `Admission`'s memberships.
8. `PeerTrust`: the records of verified and changed peer keys, which `App.tsx:323` and `:347`
   write from a rendered snapshot.
9. `PeerAdmission`, `Presence`, `KeyDocs`: ETS and GenServer state under concurrent callers and
   timers.
10. Proofs: every safety property that a run checks is a theorem now (section 7). Left is a
    refinement of `ChannelTimeline` to an abstract log that a reader reads, and one of
    `SessionClient` to a register that only moves forward.

No module has a RECURSIVE operator, so all of them can be proved about.

## 3. The modules

A process that serves a request is a record with a `pc`; each action is the code between two
points at which another process can act, with the guard of the code's conditions. Definitions
introduced by "Mutant:" are not part of a specification: each is a plausible bug in the
definition after it, and a property is kept only when it notices such a bug.

### DmDelivery and DeliveryPromise

`submit[e]` is the process in `submit_dm`: `Submit`, one `MarkSent` per recipient (each upsert is
a transaction), `Route` (`deliver_dm` groups recipients by the anchors of their cached profile),
then the targets one after another: `DeliverLocal`/`AppendLocal` here, `DeliverRemote`,
`PushAnswered`, `PushFailed` elsewhere, and `Accept`. `push[e][a]` is `inbox_push` at `a`:
`ReceivePush`, `AppendRecipient` or `SkipRecipient` (not anchored here), `PushAck` before
`AnswerPush`, `AppendFails`. `ReadOnDevice` is the `read_marker` event of the user channel;
`HandleAck` and `HandleMarker` are the sender's anchor applying receipts (anchor allowed, row
exists, consent), `Publish` and `ShowState` the broadcast to the sender's device.

- `view[a][r]` is r's anchor list as `a` has it, and `Move` replaces it at any time. `Receipts`
  (who shares read receipts, as known at each anchor) is constant.
- A push that the sender gives up after a timeout goes on at the peer: `PushFailed` leaves `push`
  alone.
- An envelope is submitted once, since the client draws its id anew; a list's order matters only
  for which target is tried first, so lists are sets.
- Not modelled: the response of `inbox_push` lists delivery acks which the sender's code does not
  read; the `is_request` flag of an inbox entry.

`DeliveryPromise` has three variables (status, stored, seen) and says what the sender may be
told. `KeepsPromise` is `DmDelivery` under the mapping status = rows, stored = in some inbox,
seen = read at some anchor.

### InboxLog

`append_inbox` statement by statement: `TakeLock` (`pg_advisory_xact_lock` of a hash, which
may collide: `LockKey` is any function), `CountExisting`, `TakeSerial`, `Commit` (the upsert leaves an
existing row alone), `Announce` after the commit, with `Abort` and `LoseAnnouncement` for failures
before and after it. `Pull` is `pull` with `CapLimit`.

### SessionTokens and SessionClient

One name stands for the refresh row and the session row of a pair. `rotate_refresh` is
`ReadRefresh`, `MintPair`, `MarkRotated` (the conditional UPDATE, which waits for the row's
holder), then `CommitRotation`, or `ClassifyStale` and a rollback. A revocation is two UPDATEs:
`RevokeSessions` and `RevokeRefreshes` take their snapshots, `LockRefresh` waits for rows one by
one, and `EndDeadlock` is PostgreSQL choosing a victim. `line`, a history variable, is the login a
token descends from.

- Locks of session rows are left out: only revocations update them, so the model merely lets the
  second of two revocations go on where it would have waited. It has more schedules than the
  code, never fewer.
- There is one clock: a token is expired or not at the moment of the UPDATE.

`SessionClient` adds the store and the calls of `getValidSessionToken`: `Load` (the stored pair
is within the 60 s leeway), `Send`, `Settle` (an answer: the new pair is stored, any refusal
clears the store), `FetchThrows`. A call's server process may still run after its fetch has
thrown. `Login` stands for `ensureSession` and the other ways to get a pair.

### MessageStore and ChannelTimeline

`task[w]` is the request of a socket: send (`TakeSerial` under the channel's advisory lock,
`CommitSend`), edit (`TakeEditSerial` under the message's lock, `CommitEdit`), delete
(`ReadBody`, `WipeBody` which waits for the row, `CommitDelete` with tombstone and archive),
then `Answer`. `sweep[s]` is the retention job: `ListOld` (a list made once), for each message
`SweepRow` (an UPDATE that must match its row, or the job ends with a MatchError) and
`CommitSweep`. A body is its message's or its edit's name. The archive is the set of messages
with an archived body.

`ChannelTimeline` adds readers: `Join` subscribes, `ListMessages`, `LoadEdits` and `PushHistory`
are the statements of `after_join`, `Broadcast` is the writer's answer, which goes straight to
every transport (fastlane) and is thus not ordered with a history that the reader's process is
rendering. `Receive` applies `channel-store.ts`. `Broadcast` reaches all subscribers at once;
two writers' broadcasts still come in either order. `raced[r]`, a history variable, has the messages
whose own event went out between the reading and the pushing of r's history (`Overtakes`).

### Admission

One transaction per task: redeem (`UpsertIdentity`, `RejectIfBanned`, `Consume`,
`ReclassifyStale`, `FetchMembership`, `CommitRedeem`), claim (`BeginClaim` with RejectIfClaimed,
`ConsumeClaim`, `ClassifyClaim`, `UpsertOwner`, `CommitClaim`), mint of a claim token
(`BeginMint`, `CommitMint`), moderation (`InsertEvent`, `CommitModeration`). What a transaction
has written lies in its commit action, and the row locks it holds until then are derived from
its `pc` (`HoldsIdentity`, `SharesIdentity`, `HoldsToken`). `upsert_via_invite` sets a unique
column on conflict, so its lock excludes the `FOR KEY SHARE` of a foreign-key check: that is
what makes a ban wait for a redemption of its target.

- Signatures and DID derivation are what lets a request begin; a request refused by the first
  `check_state` changes nothing and is left out. Its clauses for spent invites follow one that
  matches every row, so a spent invite is refused by the UPDATE and `reclassify_stale`.
- No code assigns the Admin role, so roles are Owner and Member. A kick's revocation of sessions
  is `SessionTokens`'. Room invites lead to one channel.
- The partial unique index on active claim tokens is left out: `ClaimFindsNoOwner` does not lean on it.

### IdentityVault and OnboardingScreens

An operation is a record in `job`: it took a copy of the memory when it began (`entry`), may wait
for a prompt, queues its write, and applies its copy once the write is done. Nothing in the code
keeps two operations apart, so the model does not either; `queue` serves writes in the order in
which they were asked. A sealed write of the native application is two writes, `StoreFirst` to
the keychain and one to the `fallback` service, and may be cut off in between.

- Start: `Boot` with `Migrate` of what an earlier version has left, `BootUnreadable`, `BootFails`;
  `Restart` ends whatever is under way.
- `OnboardingScreens` holds the step, the form and what the flow keeps; `IdentityVault` adds
  `Complete`, `EndComplete`, `Finish`, `Restore`, `EndRestore`.
- `LockedScreen`: `Unlock`, `AskPasskey`/`UnlockWithPasskey`, `AskNative`/`UnlockNative`, `Decline`.
- Unlocked: `Mutate`/`EndMutate`, and for a notification level `Confirmed` or `Refused`, which puts
  all levels back; `SetPassphrase`, `RemovePassphrase`, `EnrollPasskey`, `Wrap`, `EndSeal`.

A key is a passphrase and a salt; it opens what it has sealed. `unread`, `torn`, `saved` and
`proven` are histories.

- Left out: native seal writes that overlap in the middle, a legacy entry that is sealed (one
  whose phrase is known stands for all), autocompletion of words. A migration that fails counts as
  `unread`. Each word has its own place, and the positions asked for are drawn when they are first
  shown. Typing happens only while no write is under way.

### AnchorLink

`run` is the run of the effect of `anchor-connection.tsx`; `asks` are its calls of `getSocket`,
each with the run that made it, answered (`AskAnswered`, `AskRefused`) perhaps in a later one
(`Cancelled`). A channel is in `joined` from its making to the cleanup (`RunAgain`), in `live` while
its connection is intact. A socket is made with the token of the stored session and keeps it:
`Connect` succeeds when the anchor is up and still takes that token (`UserSocket` verifies the
session at every connection), and `opened` has the anchors whose socket is connected. `Lapses` is the
end of a session at its anchor, by expiry or revocation, which ends no open connection but refuses
every later one (`refused`). `Present` is `presence_state`, on a socket that is open; `Unreachable`
the error callbacks of a channel whose socket is not (the anchor is down, has not taken the token, or
the socket was replaced); both end in `Recompute`. `TimerFires` leaves the handle of the timer behind
("fired"), as the code does. `OtherScreen` and `Renewed` are the other users of the socket cache and
of the session, `GoesDown` and `ComesUp` the network. Whether a replaced socket still reports its
close is left open, as phoenix decides it.

### DmThread

Three copies of a conversation: `inbox` (the list of `App.tsx`), `open` (the open one) and `items`
(the thread of `DmListScreen`), each changed where the code changes it. `Send` queues or begins a
submission, `Takes` is the anchor accepting it, `Accepted` and `Failed` its answer; `Inbox` merges an
inbound message, `DeliveryState` a state of an own one, also before its id is known.
`AskAccept`, `Grants`, `Granted`, `NotGranted` and `Record` accept a request; `EmitMarkers` is the effect of
`ReadMarkerEmitter` and part of every step that changes what it depends on; `LinkChanges`, `Degrades`
and `Reconnects` (with `flushQueued`) are the connection. Histories: `heard`, `told`, `taken`, `settled`, `granted`, `markers`.

- Left out: attachments, verification of peers, pins, the wording of markers and previews.

### ServerPage

`truth` is what each server holds; `page` is the mounted `ServerScreen`: tree, open channel, unread
counts, edit mode. A change is shown (`Arrange`, `ConfirmDelete`) or only asked (`Add`), its call is
carried out or refused (`ServerDoes`), lost (`CallLost`) or answered (`CallAnswered`), which asks for
the tree again. Fetches are read and answered in any order (`Reads`, `Fetched`, `FetchLost`); each of
the two lists may fail alone. `PickServer`, `Ensured`, `Discovered` are `handleSelectServer`;
`Watching`, `Posted`, `ReadElsewhere` the unread counts; `Removed` and `RemovedIsHandled` the
moderation event. `App.tsx` gives the page no key, so `Arrive` at another workspace keeps the state
of the one before.

- `owed`, `unheard` and `mixed` are histories: what was posted since a channel was looked at; the
  parts of the tree (an item, the order, the categories) that the page cannot vouch for; which
  workspaces were switched between without leaving the page.
- A part becomes `unheard` when a change of it was lost on the way or was carried out for a page that
  was left (`NotHeard`), when the fetch that was to show it is rejected (`FetchLost`), and when the
  tree that arrives has no list of it, was read too early for it (`unseen`), or is that of another
  workspace. A tree that arrives in time and has the part ends the doubt (`Fetched`). `accounts` is
  the change that a fetch was made for.
- One administrator rearranges. An arrangement is one of two orders. The error line of the page is left out.

### ChannelPane

The pane is keyed by its channel, so `SwitchChannel` makes a fresh one. `SocketGiven`,
`JoinAnswered`, `Drops` are the connection; `events` is what the server has sent to this pane:
`HistorySent` may be overtaken by `Posted`, and `Handled` applies either, out of order if they came so.
`Frame` and `Focus` run `markRead`. `BeginReply`, `BeginEdit`, `BeginDelete` keep what is begun until it is
pushed (`Send`, `SubmitEdit`, `ConfirmDelete`) or cancelled. The answer of a join, also of one after a
loss of the socket, sets the status anew (`JoinAnswered`), removed or not. `SetQuery`, `TimerFires` and `Found` are the
search with its cleanup; `ToggleMembers`, `Ask`, `Obeyed` and `Returned` the sheet and its orders.

- Every message that is not the user's is another member's; kicking and banning are one order; a
  socket has one set of moderator bits. Closing the sheet and asking in it do not count toward `MaxActs`.
- That a search ends is not checked: the code gives no answer a deadline.

### AddServer

A handler of `AddServerScreen` is `run[r]`, which goes on when the screen is gone: `ConnectRoom`,
`ConnectLink`, `ConnectAddress` or `SubmitCode`, then `ProbeAnswered` (also with the cached answer of an earlier
probe), `TokenTaken` and `Accepted`, `DeviceBound` and `BindAnswered`, `ProfileSaved`, `FirstSaved`, `ListSaved`;
`CallFails` before or after the server has done its part. A save writes the copy of the metadata that
it took when it began. `SubmitAnchor`, `AnchorTaken`, `AnchorAnswered`, `AnchorSaved` publish a profile with
another anchor; `AdoptionTried` is a job of `AnchorAdoptionWorker`, given up after `MaxAttempts`.

- One device, one add-anchor handler at a time; a server answers a request in one step (its races
  are `Admission`'s), and what a lost call asked for is done by then or never. Bans are
  `Admission`'s. Dismissing the nudge is left out.

## 4. The runs

One run per component, or per component with what it is composed with, has every hazard of it at
once (failures, restarts, losses, expiry), so that they also meet each other.

| Run | Instance | States | Shows |
|---|---|---|---|
| `Dm` | one envelope to a recipient the sender's anchor takes for its own and to one elsewhere; profiles out of date that change once, one restart, consent at one anchor only, refusals, failing statements, lost receipts and answers; fairness | 147 k | `AcceptedIsStored`, `ReadIsConsented`, `SubmissionEnds`, and `KeepsPromise`: `DmDelivery` implements `DeliveryPromise` |
| `InboxShared` | three handlers push two envelopes again and again to one inbox, pulls of one entry, failures; fairness | 234 k | `SerialsAreGapless`, `CursorMissesNothing`, `StoredIsPulled` |
| `Session` | three pairs of one device and one login, two calls with their rotations, two revocations that may deadlock, lost requests and answers | 1657 k | `LineNeverForks`, `RevokesWhatItFound`, `StoreMovesForward` |
| `Timeline` | one message, two edits, deletes, two overlapping sweeps with the archive on, two sockets, a reader that joins repeatedly, at most two events under way | 451 k | `NumbersAreGapless`, `WipedIsRecorded`, `SettledIsComplete` |
| `Admit` | an unclaimed server, two claim tokens, a multi-use invite capped at one use and a single-use room invite, one known and one new person, bans, one withdrawal, two tasks | 934 k | `UsesAddUp`, `RoomInviteKeepsRow`, `ClaimFindsNoOwner` |
| `VaultKeeps` | browser or native, with or without an entry of an earlier version; two operations at once; three words of which two are asked, one passphrase, two changes of which one is a level, two salts, three starts | 1978 k | `PasskeyOpens`, `QuietAgrees`, `FallbackFollows`, `SavedAloneStays`, `WordsAreKnown`, `CompleteIsStored`, `IdentityKept` |
| `LinkHolds` | two anchors that go down and up and whose sessions lapse, two runs of the effect, two sockets for each anchor; fairness | 292 k | `StatusIsFounded`, `OneChannel`, `OutageIsNoticed`, `Connects` |
| `DmClient` | two peers, one message in, one out, to one of them or to both; fairness | 298 k | `EarlyStateLands`, `ListedOnce`, `SendingEnds` |
| `ServerPage` | two workspaces with three channels and a category, four acts of the user, one post; calls and fetches that are refused, partial or lost | 3747 k | `SettledTreeIsServers`, `UnreadIsOwed` |
| `ChannelPane` | two channels, two messages, two queries, three acts, one loss of the socket; fairness of the frame | 895 k | `PushesStayInChannel`, `ResultsAreCurrent`, `SheetIsTrue`, `ShownIsMarked` |
| `AddServer` | a claimed and an unclaimed server, an invite, a room link and a claim, two handlers, three submissions, two attempts at an adoption | 423 k | `ListedIsJoined`, `PublishedServes`, `VersionIsStored` |
| `DmMonotonic` | two envelopes of one conversation | 0.2 k | a violation: section 5 |

**Bounds.** Every race in these components is between two processes about one row, one lock, one
topic or one copy of some state, so two processes (three where a third can come between two, as a
puller between two appends) meet all of them; a third recipient or message only repeats a pair.
Messages, tokens and invites are used up: their number is the bound of a run. `MaxMoves` and
`MaxRestarts` bound the environment of `DmDelivery`, `MaxWire` the events under way in
`ChannelTimeline`, `NamesRemain` and `MaxLogins` the pairs of `SessionClient`, `MaxWithdrawn` the
revocations and expiries of `Admission`. In the client the user is bounded (`MaxActs`, `MaxStarts`,
`MaxSends`, `MaxSalts`) and the environment where it could go on for ever (`MaxBoots`, `MaxRuns`,
`MaxSockets`, `MaxPosts`, `MaxDrops`); answers, failures and losses of what was begun are not.

Symmetry of interchangeable processes and names is used in `Session`, `Timeline`, `Admit` and
`VaultKeeps`, which check no liveness. `CHECK_DEADLOCK FALSE` stands in all runs but `Timeline`,
because these instances come to rest: envelopes are answered, names, tokens and starts used up,
or the user has done all that the bound allows. `Session`'s deadlocks of row locks are not
deadlocks of the model: `EndDeadlock` ends them, as PostgreSQL does.

Time does not pass for the refresh tokens of `SessionClient`, since an expired one is refused like
a revoked one; the theorems about `SessionTokens` cover `Expire`.

Definitions named `TypeOK`, `PageTypeOK`, `PaneTypeOK` and so on say what the variables are. No run
checks them, since the other properties could not be evaluated in a state that breaks them; most of
them are theorems (section 7).

## 5. Where code and documents differ

Five differences are interleavings that a document excludes and that TLC finds. Each has a
configuration whose run ends in the violation, in a few seconds; the first one, the most outright,
is listed in `PROJECT.json` as a run with its finding.

| Run, property | The code | The document |
|---|---|---|
| `DmMonotonic`, `StatesAreMonotonic` | `federation.ex:212`: a late ack sets a read row back to delivered | ADR 025:137: `read` cannot return to `delivered` |
| `LinkDegraded`, `DegradedIsOutage` | `socket.ts:54`: `getSocket`, called for another screen with a renewed token, disconnects the socket under a joined channel; the status is degraded a minute later and stays so until the effect runs again, although every anchor is up | CONTEXT.md:237: degraded is entered "when none of the user's anchor servers are reachable" |
| `DmMarked`, `SeenIsReported` | `App.tsx:523` adds a message to `sentMarkers` before `emitReadMarker`, which returns at once while no channel is joined (`anchor-connection.tsx:64-71`): a message first shown then is never marked as read | CONTEXT.md:113: the state becomes `read` when the recipient's device "updated its read marker"; the comment at `app-dm-route.test.tsx:988` |
| `PaneMarker`, `MarkerOnlyAdvances` | `channel-store.ts:83` marks the last message of the list, which a history that is older than a message already shown replaces (`:129`), and the server's upsert (`read_marker.ex:28-30`) puts the earlier one in place of the later | CONTEXT.md:342: the marker records "how far a user has read" |
| `VersionGoesBack`, `VersionOnlyGrows` | `identity-context.tsx:557`: a save begun before an anchor was added writes the version of before back; `AddServerScreen.tsx:287` takes the version of another server's bind over a higher one | CONTEXT.md:85: "A monotonically increasing version number on the PPE" |

Others were met while modelling and are in the models as the code has them. They have no run of
their own; properties that hold are stated so that they do not depend on them.

Server:

- `identity.ex:486`: a pair that a rotation commits during a revocation escapes it, since neither
  UPDATE has it in its snapshot; `identity.ex:470` says every session and refresh token
  (`RevokesWhatItFound` is about what the statements found).
- `federation.ex:235`: a read marker updates the row of one envelope; ADR 025:133 wants every
  envelope at or before it.
- `federation.ex:189`: a recipient at the sender's own anchor stays `sent`; ADR 025:112 calls it
  delivered once the anchor wrote the inbox.
- `federation.ex:62`: a failure between the commit of an inbox entry and its broadcast is not
  made good by a retry, which finds the row and stays silent; ADR 008:71 says partial failures
  retry safely (the theorem `ToldOnce` says at most once).
- `server_channel_topic.ex:331`: an edited message still shows the text of its edit after it is
  deleted; CONTEXT.md:302 wants "[deleted]".
- `changes/apply_moderation.ex:35`: a ban of somebody without a membership has no effect on a
  later server invite; `ban.ex:6` says it short-circuits the permissions.
- `server_invite/redeem.ex:131`: an owner who redeems a server invite loses the Owner role, and
  the server counts as unclaimed again; `setup_state.ex:10` says a claimed server takes invites
  only (`ClaimFindsNoOwner` is about claims, whoever has been the owner before).

Client:

- `session.ts:86`: the loser of two rotations clears the pair the winner stored; `session.ts:27`
  says the refresh is transparent (`StoreMovesForward` is about pairs that are written).
- `channel-store.ts:129`: history replaces a message that was broadcast while it was rendered, and
  only the next join brings it back (`SettledIsComplete` excludes these messages, by `raced`, and
  no others).
- `channel-store.ts:142`: edits are shown in the order they arrive; ADR 019:20 says the latest.
- `DmListScreen.tsx:172`: on reconnection `flushQueued` marks queued messages as sent and submits
  nothing; the texts at `:622` and `:741` promise that they are sent (`SendingEnds` says that a
  message does not stay in sending, and no more).
- `App.tsx:445`: the page of a workspace has no key, so one that is switched without being left
  keeps the open channel and the unread counts of the one before; CONTEXT.md:187 describes the
  channels of the workspace that is selected (`UnreadIsOwed` excludes it by `mixed`; in
  `SettledTreeIsServers` a tree of the workspace before leaves all parts `unheard`).
- `ServerScreen.tsx:110-112`: when the call of a rearrangement is rejected, `refresh` is not reached
  and the tree that was shown ahead of the answer stays; the same when the fetch that follows a
  refusal is rejected (`SettledTreeIsServers`: that part is `unheard`, the others are right).
- `identity-context.tsx:586`: a change of the metadata begun while a first passphrase is being
  saved stores the bundle unsealed; the comment at `:158` says it is persisted without losing
  the seal (`QuietAgrees` says that memory and store agree in the end).
- `identity-context.tsx:477`: a browser takes a store that it cannot read for an empty one, and
  a new identity may then replace the stored one (`IdentityKept` excludes it by `unread`).

## 6. Fairness

- `DmDelivery`: a process that serves a submission or a push takes its next step (weak), since
  the calls it makes have timeouts; a receipt on the wire is handled. Nobody must submit, read
  or reconnect. `SubmissionEnds` holds under all faults of the run.
- `InboxLog`: weak fairness of each handler's steps and of the puller. No handler is promised a
  lock against others that keep coming, and no property needs it.
- `AnchorLink`: the timer fires, a call of `getSocket` returns, the socket of the cache of each
  anchor keeps connecting, and a channel on it hears of its join when the socket is open and of an
  error when it is not (all weak), as phoenix retries both. That connecting succeeds is no
  assumption of fairness: an anchor that is down or does not take the token refuses for ever. Hence
  the premises: `Connects` is about a client that one anchor goes on being able to serve
  (`CanServe`: its channel is on the socket of the cache, and that socket is connected, or the
  anchor is up and takes its token), whatever the others do. A client whose session has ended during an
  outage is not promised anything until a call of `getSocket` has made a new socket. A
  channel whose socket was replaced need never hear anything (`LinkDegraded` in section 5); so
  `OutageIsNoticed`, which needs an error to be reported, has the premise `Undisturbed`.
- `DmThread`: a submission is answered or fails (weak): HTTP calls end.
- `ChannelPane`: an animation frame that was asked for comes (weak).

The other modules state none and have no liveness property. `SessionTokens`, `MessageStore` and
`Admission` end what they start by a timeout or a rollback at the latest, and who is refused asks
again; in `IdentityVault`, `ServerPage` and `AddServer` a prompt or a person may stay away for ever,
and their properties say "with nothing under way" instead.

## 7. What is proved

TLAPS proves, for all values of the constants that satisfy the modules' named assumptions, every
safety invariant and every action property that a passing run checks. There is no bound on anchors,
envelopes, handlers, tokens, people, workspaces or messages; what bounds a run (`MaxMoves`,
`MaxSends`, `MaxActs` ...) is any natural number. Each property is stated in a theorem about its
module's specification, from an inductive invariant that says what the code relies on and does not
write down. A module `X_proofs` EXTENDS the modules it is about; two that have no name in common
share one.

| Module of proofs | About | Theorems that state a property of a run |
|---|---|---|
| `DmDelivery_proofs` | `DmDelivery`, `DeliveryPromise` | `AcceptedStored`, `ReadConsented`, `Implements` |
| `InboxLog_proofs` | `InboxLog` | `Gapless`, `NothingMissed` |
| `Workspaces_proofs` | `SessionTokens`, `SessionClient`; `ServerPage` | `NeverForks`, `Covers`, `MovesForward`; `SettledPage`, `CountsHold` |
| `ChannelTimeline_proofs` | `MessageStore`, `ChannelTimeline` | `Gapless`, `Recorded`, `ShowsAll` |
| `Admission_proofs` | `Admission` | `AddsUp`, `KeepsRow`, `FindsNoOwner` |
| `IdentityVault_proofs` | `IdentityVault`, `OnboardingScreens` | `PasskeyAlwaysOpens`, `BrowserAlwaysAgrees`, `FallbackAlwaysFollows`, `SavedAloneAlwaysStays`, `WordsAlwaysKnown`, `CompleteAlwaysStored`, `IdentityIsKept` |
| `DmClient_proofs` | `AnchorLink`; `DmThread` | `StatusFounded`, `HasOneChannel`; `EarlyStates`, `MessagesListedOnce` |
| `ClientScreens_proofs` | `AddServer`; `ChannelPane` | `JoinedBeforeListed`, `AnchorsServe`, `VersionGiven`; `PushesStay`, `ResultsCurrent`, `SheetTells` |

The arguments:

- **`DmDelivery`**. `TypeCorrect`, `DeliveredStored`, `ReadConsented`, `ReceiptsHaveRows`,
  `NeverSentAgain`, and `Implements`, that every behaviour of `DmDelivery` is one of
  `DeliveryPromise`. That the row of an ack is truthful rests on the ack, the ack on the push that
  made it. `Evidence` therefore follows the evidence from its origin: what a push is about to ack
  is in the inbox (acks are true), what is on the wire was stored or read with consent (markers are
  true), what is recorded, broadcast or shown is truthful (reports are true). `Rows` says that a row
  exists before anything can refer to it: a submission beyond marking has rows for all its
  recipients, hence every push, inbox and receipt of it has. `Implements` combines both: a write of
  "sent" finds no row (`Rows`), a write of "delivered" or "read" has its evidence (`Evidence`).
  `AcceptedStored` needs a third, `Service`: of the targets of a submission each waits its turn, is
  being served, or has stored the envelope or declined it, and a push has looked at all but the
  recipients it still has to do.
- **`InboxLog`**. `Gapless`, `GrowsAtItsEnd`, `NothingMissed`, `ToldOnce` from `InboxInv`: only the
  holder of the lock is between its count and its commit; its count and its serial are still right;
  serials are dense and entries unique; what lies at or below the cursor was handed over; at most
  one handler is about to announce.
- **`SessionTokens`, `SessionClient`**. `NeverForks`, `AnswersTrue`, `Classified`, `Covers`,
  `NeverRotatedAgain` from `SessionInv`: only committed rows are referred to; a token being minted
  is minted by one rotation; a rotation that has marked its row holds it and it is still active (so
  no revocation can end in between); a row that the UPDATE missed is inactive for good; the rows a
  revocation has found are revoked, held, or still to be locked. `MovesForward` adds
  `HandedIsUnseen`: a pair in an answer on its way has been stored, loaded and presented by nobody,
  so nothing has been rotated from it. A step of the client is one of the server or leaves it alone
  (`ClientServerStep`), so that the server's invariant holds here too (`ServerKeepsItsWord`).
- **`MessageStore`, `ChannelTimeline`**. `StoreInv`: who has computed a serial or an edit number
  holds the lock and it is still the next; a deleter that wiped holds the row; a sweep holds the row
  it has updated. `TimelineInv` adds `ClientsInv`: what a client has or is sent is stored, it has
  one history under way at most, and a stored message is still to be broadcast, in the history that
  is being rendered, or on its way behind no history that lacks it, unless its own event has
  overtaken that history.
- **`Admission`**. `AdmissionInv`: the locks, which the model derives from where a transaction is,
  exclude each other (`HoldsApart`), hence an invite that a redemption took is unspent when it
  commits, what it has read of the membership, the ban and the overrides is still so, and a claim
  that took its token finds no owner.
- **`IdentityVault`**. Four layers, each resting on those below. `Structure`: what an operation
  under way looks like at each of its steps, that the queue serves what waits, which operations a
  phase allows. `Identities`: the words of the draft and of every kept entry were proven,
  and where the store could be read at every start all of them are one identity. A passkey is read
  off `Structure` alone. `Saving`: what the flow is still saving is the draft, under the name and the passphrase it
  keeps. `BrowserAgrees`, `FallbackWillFollow` and `Shared` relate memory, store and second
  service, and what is under way to all three.
- **`AnchorLink`**. `LinkInv`: what the status says follows from what is taken to be reachable and
  from the timer; a live channel keeps its anchor among the reachable, since no other channel of
  that anchor can report an error; and there is no other, since an anchor that this run of the
  effect has yet to ask has not been joined in it.
- **`DmThread`**. `ThreadInv`, for `EarlyStates`: wherever an envelope of the user stands (list,
  open conversation, thread) it says "sent", or a state of it has been received; what is merged,
  settled, queued, flushed or reported keeps that. `ListInv`, for `MessagesListedOnce`: a
  conversation is listed once, no message is in two places, an inbound envelope is in the
  conversation of its people and nowhere else, and the number of a submission under way is not
  among the settled ones, so its answer cannot add what is there.
- **`ServerPage`**. `PageInv`, for `SettledPage`, part by part: of a tree that was read, a part that
  the tree has not missed (`unseen`) is the server's, or this page has had it changed by a call
  whose answer will have it read again, or a fetch made later is for it; a part of the page that is
  not `unheard` is its server's, or such a call or such a fetch is under way. The theorem says
  nothing of how soon a doubt ends; that it ends with the next whole tree in time is the definition
  of `Fetched`. `CountsInv`, for `CountsHold`: what the page has (tree, counts, watched channels,
  fetches and calls) belongs to the workspace that is shown or to those it was switched between;
  then each count is within what is owed and a badge within the sum over its workspace's channels.
  The sum is a fold of the community modules; that it exists and grows with its terms is proved by
  well-founded induction on the size of the set.
- **`ChannelPane`**. `PaneInv`: everything a pane shows or has begun is of its channel, and it has a
  latest message when it has any. `FindInv`: only a lookup for the query that is shown can still
  answer. `SheetInv`: one order at most is of the sheet that is open, and what an order has done is
  done.
- **`AddServer`**. `AddInv`: a handler knows at each step what its server has told it, and that
  still holds there (`RunStands`); a copy of the metadata, whoever took it and however late it is
  written, has a version that some server has given and anchors that serve (`Backed`); the form is
  that of the one handler that works on it.

A layout common to all: lemmas about what the model is built from (lists, records, locks, sums),
lemmas that each action keeps the invariant (one step per conjunct it can disturb), one that the
next-state relation does, and temporal theorems that combine them.

**Assumptions.** They stand in the modules, by name, and TLC evaluates them in every run. Most say
that names of different kinds differ (`NameAssumption`, `TokenAssumption`, `NullAssumption` and
`NoneAssumption`, `AbsentAssumption`, `IdsAssumption`, `QueriesAssumption`, `ScreensAssumption`), as
DIDs, UUIDs and tags do, or that bounds are numbers. Two say that there is something: `Servers` and
`Channels` are not empty (`ServersAssumption` of `AddServer`, `ChannelsAssumption`: a screen is of
some channel). Two ask for finite sets, without which `MAX + 1` and a sum mean nothing: messages and
edits (`FiniteAssumption`), the workspaces and channels of a page (`FewAssumption`).

## 8. What is not

**Only model-checked**: the liveness properties, since fairness and ENABLED are out of TLAPS' reach:
`SubmissionEnds`, `StoredIsPulled`, `OutageIsNoticed`, `Connects`, `SendingEnds` and `ShownIsMarked`.
So is that the whole type of `DmThread`, `ServerPage`, `ChannelPane` and `AddServer` is right: their
proofs need the types of some variables only, and prove those as part of the invariant. The
violations of section 5 are TLC's.

**Not modelled yet**: what section 2 has left. Places in the modelled and in these parts that are
hard to test and that no property covers:

- `session.ts:86`: any unsuccessful answer clears the stored pair.
- `federation.ex:63`: a crash between the commit of an entry and its broadcast.
- `federation_controller.ex:284`: the push of an ack is tried once.
- `identity.ex:209`: two profiles applied at once, each after reading the cached version.
- `presence_broker.ex:150`: an idle timer that fired before it was cancelled.
- `server_channel_topic.ex:57`: the bits of a socket are those of its join.
- `App.tsx:192`: the answer to the first message of a conversation renames whichever
  conversation is open by then (in `DmThread`, `Accepted`; `ListedOnce` is about the list).
- `App.tsx:331`: verification records are computed from a rendered snapshot.
- `App.tsx:101`: a removal is handled for the workspace whose page is rendered by then (in
  `ServerPage`, `RemovedIsHandled`).
- `DmListScreen.tsx:110`: the thread is replaced when a message is merged into the open
  conversation, and what was being sent leaves the screen (in `DmThread`, `Show`).
- `ServerScreen.tsx:62`: answers of two fetches of the tree replace each other in any order (in
  `ServerPage`, `Fetched`; the parts an overtaken tree was too early for are `unheard`).
- `PassphraseSettingsScreen.tsx:208`: a notification level that the server refuses puts back all
  levels as they were before, those confirmed meanwhile with it (in `IdentityVault`, `Refused`;
  `SavedAloneStays` is about changes that no other one overlaps).
- `ChannelScreen.tsx:375`: a reply or an edit that was begun outlives its message when a history
  replaces the list or the message is deleted (in `ChannelPane`; what is pushed still names a
  message of this channel, as `PushesStayInChannel` says).
- `channel-store.ts:221`: what is sent while the socket is away is heard of by nobody.

**Not modelled**: cryptography, canonical JSON and DID derivation (a signature is what lets a
request begin); channels, categories and permission masks on the server (bit operations and
single statements; `ServerPage` takes a change as one step); message search, attachments,
rendering and navigation (no protocol between steps); operator accounts and first boot (one
atomic Agent step; boot order); generated RPC clients, fixtures, routers, deployment. Time
appears as events that may happen (a token expires, a message ages, a timeout fires), never as a
number.
