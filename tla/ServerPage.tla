----------------------------- MODULE ServerPage -----------------------------
(***************************************************************************)
(* The workspaces of the client and the page of one of them                *)
(* (assets/app/App.tsx, screens/ServerScreen.tsx, screens/WorkspaceBar.tsx,*)
(* chat/TabRow.tsx, chat/server-tree.ts, chat/server-unread.ts).           *)
(*                                                                         *)
(* A workspace is picked, its session ensured and a channel discovered;    *)
(* then its page shows the tree of channels and categories, lets the owner *)
(* rearrange it, and counts the messages of the channels that are not      *)
(* open.  A rearrangement is shown at once, asked of the server, and the   *)
(* tree is fetched again when the answer comes.  Answers come in any order *)
(* and also after the page was left.                                       *)
(*                                                                         *)
(* What is inside the open channel is the subject of ChannelPane.          *)
(***************************************************************************)
EXTENDS Naturals, Sequences, SequencesExt, FiniteSets, FiniteSetsExt, Functions

CONSTANTS
  Servers,   \* the workspaces that were joined
  Channels,  \* text channels, there or yet to be created
  Folders,   \* categories, there or yet to be created
  HostOf,    \* the server of a channel or a category
  Made,      \* those that are there when the client starts
  MaxActs,   \* bound: what the user does
  MaxPosts   \* bound: messages posted by others

Items == Channels \cup Folders
NoItem == "none"

ASSUME ServersAssumption ==
  HostOf \in [Items -> Servers] /\ Made \subseteq Items /\ NoItem \notin Items
(* A workspace is neither of the other pages of AppShell.                  *)
ASSUME ScreensAssumption == {"home", "other"} \cap Servers = {}
ASSUME FewAssumption == IsFiniteSet(Servers) /\ IsFiniteSet(Channels)
ASSUME PageBoundsAssumption ==
  MaxActs \in Nat /\ MaxPosts \in Nat

VARIABLES
  truth,      \* what each server holds
  banned,     \* the servers that have banned the user
  listed,     \* servers of identity-context, in the order of the bar
  badge,      \* unreadCount of each
  screen,     \* "home", "other", or the server whose page is open
  picks,      \* calls of handleSelectServer under way
  binding,    \* bindingUrl
  page,       \* the state of ServerScreen and of its hooks
  calls,      \* changes asked of a server and not yet answered
  fetches,    \* calls of fetchServerTree under way, in the order they were made
  owed,       \* ghost: messages posted since a channel was last looked at
  unheard,    \* ghost: the parts of the tree that the page cannot vouch for
  mixed,      \* ghost: workspaces counted on a page that came from another one
  acts, posts

bar == <<listed, badge>>
choice == <<screen, picks, binding>>
ghosts == <<owed, unheard, mixed>>
pageVars == <<truth, banned, bar, choice, page, calls, fetches, ghosts, acts, posts>>

(* What is rearranged: the order of the channels, or that of the           *)
(* categories and which of them a channel is in.                           *)
Edits == {"order", "category"}
Trees == [has : SUBSET Items, arr : [Edits -> BOOLEAN]]
EmptyTree == [has |-> {}, arr |-> [e \in Edits |-> FALSE]]

(* What a tree consists of, and that two trees have it in common.          *)
Parts == Edits \cup Items
Same(t, u, part) ==
  /\ part \in Items => (part \in t.has <=> part \in u.has)
  /\ part \in Edits => t.arr[part] = u.arr[part]
IsOpen == screen \in Servers

(* A page as it is mounted, on the channel that was discovered.            *)
Mounted(c) ==
  [tree |-> EmptyTree, active |-> c, bits |-> FALSE, edit |-> FALSE,
   confirm |-> NoItem, removed |-> NoItem,
   unread |-> [d \in Channels |-> 0], watch |-> {}, asking |-> FALSE]

PageTypeOK ==
  /\ truth \in [Servers -> Trees] /\ banned \subseteq Servers
  /\ \A s \in Servers : \A i \in truth[s].has : HostOf[i] = s
  /\ listed \in Seq(Servers) /\ IsInjective(listed)
  /\ badge \in [Servers -> Nat]
  /\ screen \in {"home", "other"} \cup Servers
  /\ picks \subseteq [server : Servers, stage : {"ensure", "discover"}]
  /\ binding \in Servers \cup {NoItem}
  /\ page.tree \in Trees /\ page.active \in Channels \cup {NoItem}
  /\ page.confirm \in Channels \cup {NoItem}
  /\ {page.bits, page.edit, page.asking} \subseteq BOOLEAN
  /\ page.removed \in {NoItem, "kicked", "banned"}
  /\ page.unread \in [Channels -> Nat] /\ page.watch \subseteq Channels
  /\ page.active \notin page.watch
  /\ \A k \in calls : k.stage \in {"asked", "ok", "refused"} /\ k.ours \in BOOLEAN
  /\ \A n \in DOMAIN fetches : IsOpen /\ fetches[n].server \in Servers
  /\ owed \in [Channels -> Nat] /\ unheard \subseteq Parts /\ mixed \subseteq Servers
  /\ acts \in 0..MaxActs /\ posts \in 0..MaxPosts

PageInit ==
  /\ truth = [s \in Servers |->
                [EmptyTree EXCEPT !.has = {i \in Made : HostOf[i] = s}]]
  /\ banned = {}
  /\ listed = SetToSeq(Servers) /\ badge = [s \in Servers |-> 0]
  /\ screen = "home" /\ picks = {} /\ binding = NoItem
  /\ page = Mounted(NoItem) /\ calls = {} /\ fetches = <<>>
  /\ owed = [c \in Channels |-> 0] /\ unheard = {} /\ mixed = {}
  /\ acts = 0 /\ posts = 0

(* What the user does: the removed view leaves itself before a click.      *)
Act == acts < MaxActs /\ acts' = acts + 1 /\ (IsOpen => page.removed = NoItem)

-----------------------------------------------------------------------------
(* What a render derives *)

(* watchedIds and channelKey: the channels beside the open one, in order.  *)
Watched(p) == (p.tree.has \cap Channels) \ {p.active}
Key(p) == <<Watched(p), p.tree.arr["order"]>>

(* total: what is unread beside the open channel, also of channels that    *)
(* are no longer in the tree.                                              *)
Total(p) == SumFunctionOnSet(p.unread, Channels \ {p.active})

StillUnread(p) == p  \* mutant: opening a channel leaves its count
(* The open channel has nothing unread.                                    *)
Opened(p) ==
  IF p.active = NoItem THEN p ELSE [p EXCEPT !.unread[p.active] = 0]

(* The watching effect: when the key or the server has changed, what was   *)
(* joined is left and a socket is asked for.                               *)
Rewatched(p, anew) ==
  IF anew \/ Key(p) # Key(page)
    THEN [p EXCEPT !.watch = {}, !.asking = Watched(p) # {}]
    ELSE p

(* setServerUnread: a server that is not listed has no badge.              *)
WithBadge(server, count) ==
  IF server \in ToSet(listed) THEN [badge EXCEPT ![server] = count] ELSE badge

(* The page becomes p, with the effects of its render.                     *)
Becomes(p, server, anew) ==
  LET q == Rewatched(Opened(p), anew) IN
  page' = q /\ badge' = WithBadge(server, Total(q))
Turns(p) == Becomes(p, screen, FALSE)

(* refresh, for the server it was made for, while the page is there.  The  *)
(* rest of the record is history: the parts on whose account it is made,   *)
(* and those of which what it has read is incomplete or out of date.       *)
Refreshed(server, parts) ==
  Append(fetches, [server |-> server, read |-> FALSE, tree |-> EmptyTree,
                   accounts |-> parts, unseen |-> {}])

(* The page is left: what it has asked for is answered to nobody.          *)
Unmounted(to) ==
  /\ screen' = to
  /\ calls' = IF IsOpen THEN {[k EXCEPT !.ours = FALSE] : k \in calls} ELSE calls
  /\ fetches' = <<>> /\ page' = Mounted(NoItem) /\ UNCHANGED badge

-----------------------------------------------------------------------------
(* Picking a workspace *)

(* The tiles of the bar and of the drawer.  That of the workspace which is *)
(* being bound is disabled in the bar, not in the drawer.                  *)
Tiles == ToSet(listed)

(* handleSelectServer                                                      *)
PickServer(s) ==
  /\ s \in Tiles /\ Act
  /\ binding' = s /\ picks' = picks \cup {[server |-> s, stage |-> "ensure"]}
  /\ UNCHANGED <<truth, banned, bar, screen, page, calls, fetches, ghosts, posts>>

(* Any way out of handleSelectServer: finally.                             *)
PickEnds(k) == picks' = picks \ {k} /\ binding' = NoItem

(* ensureSession has answered.                                             *)
Ensured(k) ==
  /\ k.stage = "ensure"
  /\ \/ picks' = (picks \ {k}) \cup {[k EXCEPT !.stage = "discover"]} /\ UNCHANGED binding
     \/ PickEnds(k)
  /\ UNCHANGED <<truth, banned, bar, screen, page, calls, fetches, ghosts, acts, posts>>

(* The first render of the page, or another one with another server: the   *)
(* channel that was discovered is only the initial one.                    *)
Arrive(s, c) ==
  /\ screen' = s
  /\ Becomes(IF IsOpen THEN page ELSE Mounted(c), s, screen # s)
  /\ fetches' = IF screen = s THEN fetches ELSE Refreshed(s, Parts)
  /\ unheard' = IF screen = s THEN unheard ELSE {}
  /\ owed' = IF IsOpen THEN owed ELSE [owed EXCEPT ![c] = 0]
  /\ mixed' = IF ~IsOpen THEN mixed \ {s} ELSE IF screen # s THEN mixed \cup {s, screen} ELSE mixed

(* discoverGeneralChannel: the channel called general, or the first one.   *)
Generals(s) == truth[s].has \cap Channels

(* It has answered, with a channel of the server or with none.             *)
Discovered(k) ==
  /\ k.stage = "discover" /\ PickEnds(k)
  /\ \/ \E c \in Generals(k.server) : Arrive(k.server, c)
     \/ UNCHANGED <<badge, screen, page, fetches, ghosts>>
  /\ UNCHANGED <<truth, banned, listed, calls, acts, posts>>

(* The page is left for another one of AppShell.                           *)
Leave(to) ==
  /\ to \in {"home", "other"} /\ to # screen /\ Act
  /\ Unmounted(to)
  /\ UNCHANGED <<truth, banned, listed, picks, binding, ghosts, posts>>

(* handleDrop of the bar: the dragged tile may have gone in between.       *)
Moved(list, s, target) ==
  LET to == CHOOSE n \in DOMAIN list : list[n] = target
  IN  InsertAt(RemoveFirst(list, s), to, s)
MoveWorkspace(s, target) ==
  /\ s # target /\ {s, target} \subseteq Tiles /\ binding # s /\ Act
  /\ listed' = Moved(listed, s, target)
  /\ UNCHANGED <<truth, banned, badge, choice, page, calls, fetches, ghosts, posts>>

-----------------------------------------------------------------------------
(* The open channel *)

(* The tabs of the row: the channels of the tree, by category.             *)
Tabs == page.tree.has \cap Channels

(* handleSelectChannel.                                                    *)
SelectChannel(c) ==
  /\ IsOpen /\ c \in Tabs /\ c # page.active /\ Act
  /\ Turns([page EXCEPT !.active = c, !.bits = FALSE])
  /\ owed' = [owed EXCEPT ![c] = 0]
  /\ UNCHANGED <<truth, banned, listed, choice, calls, fetches, unheard, mixed, posts>>

(* The join of the open channel is answered: onEffectiveBits.  That of a   *)
(* user who may not manage channels is as if it were not answered.         *)
PaneJoined ==
  /\ IsOpen /\ page.active # NoItem /\ ~page.bits
  /\ page.active \in truth[screen].has
  /\ page' = [page EXCEPT !.bits = TRUE]
  /\ UNCHANGED <<truth, banned, bar, choice, calls, fetches, ghosts, acts, posts>>

(* A moderator removes the user from a server: the open channel is told.   *)
Removed(reason) ==
  /\ IsOpen /\ page.active # NoItem /\ page.removed = NoItem
  /\ HostOf[page.active] = screen
  /\ page' = [page EXCEPT !.removed = reason]
  /\ banned' = IF reason = "banned" THEN banned \cup {screen} ELSE banned
  /\ UNCHANGED <<truth, bar, choice, calls, fetches, ghosts, acts, posts>>

(* removeServer, of handleRemovedFromServer.                               *)
Kept(reason) == IF reason = "banned" THEN RemoveFirst(listed, screen) ELSE listed

(* The effect of ChannelScreen calls onRemoved, for the server whose page  *)
(* is rendered now.                                                        *)
RemovedIsHandled ==
  /\ IsOpen /\ page.removed # NoItem
  /\ listed' = Kept(page.removed)
  /\ Unmounted("home")
  /\ UNCHANGED <<truth, banned, picks, binding, ghosts, acts, posts>>

-----------------------------------------------------------------------------
(* Rearranging *)

(* useEditMode *)
Toggle ==
  /\ IsOpen /\ page.bits /\ Act
  /\ page' = [page EXCEPT !.edit = ~@]
  /\ UNCHANGED <<truth, banned, bar, choice, calls, fetches, ghosts, posts>>
Editing == IsOpen /\ page.edit /\ page.bits

Ask(kind, what) ==
  calls' = calls \cup {[server |-> screen, kind |-> kind, what |-> what,
                        stage |-> "asked", ours |-> TRUE]}

(* handleDrop, handleCategoryDrop: a channel is dropped on another one, or *)
(* on a category, or a category on another one.                            *)
MayDrop(e) == IF e = "order" THEN Cardinality(Tabs) > 1
                             ELSE page.tree.has \cap Folders # {}

(* handleReorder, handleRecategorize, handleReorderCategories: the edit is *)
(* shown at once; what is asked is the new arrangement, not the move.      *)
Rearranged(tree, e) == [tree EXCEPT !.arr[e] = ~@]
Arrange(e) ==
  LET tree == Rearranged(page.tree, e) IN
  /\ Editing /\ MayDrop(e) /\ Act
  /\ Turns([page EXCEPT !.tree = tree])
  /\ Ask("arrange", <<e, tree.arr[e]>>)
  /\ UNCHANGED <<truth, banned, listed, choice, fetches, ghosts, posts>>

(* handleAddChannel, handleAddCategory: nothing is shown before the answer.*)
Add(i) ==
  /\ Editing /\ HostOf[i] = screen /\ i \notin truth[screen].has /\ Act
  /\ \A k \in calls : k.what # <<i>>
  /\ Ask("create", <<i>>)
  /\ UNCHANGED <<truth, banned, bar, choice, page, fetches, ghosts, posts>>

(* handleDeleteChannel: to be confirmed or cancelled.                      *)
AskDelete(c) ==
  /\ Editing /\ c \in Tabs
  /\ page.confirm # c /\ Act
  /\ page' = [page EXCEPT !.confirm = c]
  /\ UNCHANGED <<truth, banned, bar, choice, calls, fetches, ghosts, posts>>

CancelDelete ==
  /\ IsOpen /\ page.confirm # NoItem /\ Act
  /\ page' = [page EXCEPT !.confirm = NoItem]
  /\ UNCHANGED <<truth, banned, bar, choice, calls, fetches, ghosts, posts>>

(* handleConfirmDelete: the channel goes from the tree before the answer,  *)
(* and another one is opened if it was the open one.                       *)
ConfirmDelete ==
  LET c == page.confirm
      rest == page.tree.has \ {c}
      shown == [page EXCEPT !.confirm = NoItem, !.tree.has = rest] IN
  /\ IsOpen /\ c # NoItem /\ page.removed = NoItem
  /\ IF page.active # c
       THEN Turns(shown) /\ UNCHANGED owed
       ELSE \E next \in IF rest \cap Channels = {} THEN {NoItem} ELSE rest \cap Channels :
              /\ Turns([shown EXCEPT !.active = next, !.bits = FALSE])
              /\ owed' = IF next = NoItem THEN owed ELSE [owed EXCEPT ![next] = 0]
  /\ Ask("delete", <<c>>)
  /\ UNCHANGED <<truth, banned, listed, choice, fetches, unheard, mixed, acts, posts>>

-----------------------------------------------------------------------------
(* Answers *)

(* What a change does to the tree of its server.                           *)
Changed(t, k) ==
  IF k.kind = "arrange" THEN [t EXCEPT !.arr[k.what[1]] = k.what[2]]
  ELSE [t EXCEPT !.has = IF k.kind = "create" THEN @ \cup {k.what[1]}
                                              ELSE @ \ {k.what[1]}]

(* What an answer would have told of some parts is not heard: what the     *)
(* fetches before one have read so far need not show them.                 *)
About(k) == k.what[1]
Doubted(parts, last) ==
  [m \in DOMAIN fetches |->
     IF fetches[m].read /\ m < last THEN [fetches[m] EXCEPT !.unseen = @ \cup parts]
     ELSE fetches[m]]
NotHeard(k) ==
  /\ unheard' = unheard \cup {About(k)}
  /\ fetches' = Doubted({About(k)}, Len(fetches) + 1)

(* The server carries out a change, or refuses it.  Of a change that was   *)
(* asked by a page which was left, the page now open hears nothing.        *)
ServerDoes(k) ==
  /\ k.stage = "asked"
  /\ \/ /\ truth' = [truth EXCEPT ![k.server] = Changed(@, k)]
        /\ calls' = (calls \ {k}) \cup {[k EXCEPT !.stage = "ok"]}
        /\ IF IsOpen /\ ~k.ours THEN NotHeard(k) ELSE UNCHANGED <<fetches, unheard>>
     \/ /\ calls' = (calls \ {k}) \cup {[k EXCEPT !.stage = "refused"]}
        /\ UNCHANGED <<truth, fetches, unheard>>
  /\ UNCHANGED <<banned, bar, choice, page, owed, mixed, acts, posts>>

(* The fetch of a change is rejected, whether or not the server has seen   *)
(* it: nothing of the handler that follows the await is done.              *)
CallLost(k) ==
  /\ k.stage = "asked" /\ calls' = calls \ {k}
  /\ \E done \in BOOLEAN :
       truth' = IF done THEN [truth EXCEPT ![k.server] = Changed(@, k)] ELSE truth
  /\ IF IsOpen THEN NotHeard(k) ELSE UNCHANGED <<fetches, unheard>>
  /\ UNCHANGED <<banned, bar, choice, page, owed, mixed, acts, posts>>

OnlyWhenDone(k) == k.stage = "ok"  \* mutant: a refused change is left on the page
(* Which answers the handlers follow up with a refresh.                    *)
IsFollowed(k) == k.kind # "create" \/ k.stage = "ok"

(* The rest of the handler, after the await.                               *)
CallAnswered(k) ==
  /\ k.stage # "asked" /\ calls' = calls \ {k}
  /\ fetches' = IF k.ours /\ IsFollowed(k) THEN Refreshed(k.server, {About(k)}) ELSE fetches
  /\ UNCHANGED <<truth, banned, bar, choice, page, ghosts, acts, posts>>

(* The server answers both lists of fetchServerTree; of a list that it     *)
(* refuses, the client makes an empty one.                                 *)
Reads(n) ==
  /\ ~fetches[n].read
  /\ \E part \in {Items, Channels, Folders, {}} :
       fetches' = [fetches EXCEPT
         ![n].read = TRUE, ![n].unseen = Items \ part,
         ![n].tree = [truth[fetches[n].server] EXCEPT !.has = @ \cap part]]
  /\ UNCHANGED <<truth, banned, bar, choice, page, calls, ghosts, acts, posts>>

(* setTree, whichever answer comes: one that was asked for earlier and has *)
(* been read by now may come after it and put back what it had.            *)
Fetched(n) ==
  /\ fetches[n].read
  /\ Turns([page EXCEPT !.tree = fetches[n].tree])
  /\ fetches' = RemoveAt(Doubted(fetches[n].accounts, n), n)
  /\ unheard' = IF fetches[n].server = screen THEN fetches[n].unseen ELSE Parts
  /\ UNCHANGED <<truth, banned, listed, choice, calls, owed, mixed, acts, posts>>

(* fetchServerTree is rejected: the tree stays what it is.                 *)
FetchLost(n) ==
  /\ ~fetches[n].read
  /\ fetches' = RemoveAt(Doubted(fetches[n].accounts, n), n)
  /\ unheard' = unheard \cup fetches[n].accounts
  /\ UNCHANGED <<truth, banned, bar, choice, page, calls, owed, mixed, acts, posts>>

-----------------------------------------------------------------------------
(* Unread messages *)

(* getSocket of the watching effect is answered: what can be is joined.    *)
Watching ==
  /\ IsOpen /\ page.asking
  /\ \E joined \in {{}, {c \in Watched(page) : HostOf[c] = screen}} :
       page' = [page EXCEPT !.asking = FALSE, !.watch = joined]
  /\ UNCHANGED <<truth, banned, bar, choice, calls, fetches, ghosts, acts, posts>>

(* new_message: somebody posts; a join the server has not yet processed    *)
(* does not get it.                                                        *)
Posted(c) ==
  /\ posts < MaxPosts /\ posts' = posts + 1
  /\ c \in truth[HostOf[c]].has
  /\ owed' = IF IsOpen /\ page.active = c THEN owed ELSE [owed EXCEPT ![c] = @ + 1]
  /\ \/ c \in page.watch /\ Turns([page EXCEPT !.unread[c] = @ + 1])
     \/ UNCHANGED <<badge, page>>
  /\ UNCHANGED <<truth, banned, listed, choice, calls, fetches, unheard, mixed, acts>>

(* read_marker: the user has read the channel on another device.           *)
ReadElsewhere(c) ==
  /\ c \in page.watch
  /\ Turns([page EXCEPT !.unread[c] = 0]) /\ owed' = [owed EXCEPT ![c] = 0]
  /\ UNCHANGED <<truth, banned, listed, choice, calls, fetches, unheard, mixed, acts, posts>>

-----------------------------------------------------------------------------
Picks == \/ \E s \in Servers : PickServer(s)
         \/ \E k \in picks : Ensured(k) \/ Discovered(k)
         \/ \E to \in {"home", "other"} : Leave(to)
         \/ \E s, target \in Servers : MoveWorkspace(s, target)
Opens == \/ \E c \in Channels : SelectChannel(c)
         \/ PaneJoined \/ RemovedIsHandled
         \/ \E reason \in {"kicked", "banned"} : Removed(reason)
Rearranges == \/ Toggle \/ CancelDelete \/ ConfirmDelete
              \/ \E e \in Edits : Arrange(e)
              \/ \E i \in Items : Add(i)
              \/ \E c \in Channels : AskDelete(c)
Answers == \/ \E k \in calls : ServerDoes(k) \/ CallLost(k) \/ CallAnswered(k)
           \/ \E n \in DOMAIN fetches : Reads(n) \/ Fetched(n) \/ FetchLost(n)
Counts == \/ Watching
          \/ \E c \in Channels : Posted(c) \/ ReadElsewhere(c)

PageNext == Picks \/ Opens \/ Rearranges \/ Answers \/ Counts

PageSpec == PageInit /\ [][PageNext]_pageVars

-----------------------------------------------------------------------------
(* When the page waits for nothing any more, it shows every part of the    *)
(* tree as its server holds it, but for what it cannot have heard of.  A   *)
(* change that the server refused does not stay, in whatever order answers *)
(* came, unless the fetch that follows it is lost, too.  A change that was *)
(* lost on the way, or asked by a page that was left, leaves that part in  *)
(* doubt and no other; it may stay (ServerScreen.tsx:110-112).  In doubt   *)
(* are also what a partial tree has not, all of a tree of the workspace    *)
(* before, and what an overtaken tree was too early for.  The next tree    *)
(* that is whole and in time ends every doubt.                             *)
SettledTreeIsServers ==
  IsOpen /\ fetches = <<>> /\ (\A k \in calls : ~k.ours)
    => \A part \in Parts \ unheard : Same(page.tree, truth[screen], part)

(* A channel shows at most as many unread messages as were posted since    *)
(* the user looked at it, and a workspace at most those of its channels.   *)
(* Excluded are workspaces between which the page was switched: counts of  *)
(* the one before stay in the total of the next.                           *)
UnreadIsOwed ==
  /\ \A c \in Channels \ {page.active} : page.unread[c] <= owed[c]
  /\ \A s \in ToSet(listed) \ mixed :
       badge[s] <= SumFunctionOnSet(owed, {c \in Channels : HostOf[c] = s})
=============================================================================
