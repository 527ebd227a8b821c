---------------------------- MODULE ChannelPane ----------------------------
(***************************************************************************)
(* The open channel of a workspace (assets/app/screens/ChannelScreen.tsx,  *)
(* chat/channel-store.ts, chat/search.ts), with the sheet of its members   *)
(* and the orders to remove one (server-moderation.ts).                    *)
(*                                                                         *)
(* The screen is keyed by its channel: opening another one makes a new     *)
(* pane, with nothing of the earlier one.  A pane joins the topic of its   *)
(* channel, gets its history and what is posted from then on, marks what   *)
(* it shows as read, and keeps what the user has begun: a draft, a reply,  *)
(* an edit, a deletion to be confirmed, a search, the removal of a member. *)
(* Edits and deletions of stored messages are the subject of               *)
(* ChannelTimeline.                                                        *)
(***************************************************************************)
EXTENDS Naturals, FiniteSets, Functions

CONSTANTS
  Channels,
  Own,       \* the numbers of the messages that the user has sent
  Queries,   \* what the user searches for: at least two characters
  MaxPosts,  \* bound: messages, of all the channels
  MaxActs,   \* bound: what the user does
  MaxDrops   \* bound: losses of the socket

Nothing == "none"
Failed == "failed"

ASSUME ChannelsAssumption == Channels # {}
ASSUME QueriesAssumption == {Nothing, Failed} \cap Queries = {}
ASSUME PaneBoundsAssumption == MaxPosts \in Nat /\ MaxActs \in Nat /\ MaxDrops \in Nat

VARIABLES
  stored,  \* the number of messages of each channel
  chan,    \* activeChannel of ServerScreen
  conn,    \* channelRef and its topic: "asking", "failed", "joining", "live"
  events,  \* what the server has sent to this pane and it has not handled
  unsent,  \* after_join: the history is to be read
  pane,    \* the state of ChannelScreen and of useChannel
  find,    \* the state of its search
  sheet,   \* the state of MemberSheet
  orders,  \* calls of runModeration that have not returned
  gone,    \* history: members whom the server has removed
  acts, drops

link == <<conn, events, unsent>>
members == <<sheet, orders, gone>>
paneVars == <<stored, chan, link, pane, find, members, acts, drops>>

Messages == Channels \X (1..MaxPosts)
IsOwn(m) == m[2] \in Own
(* Every other message is from another member.                             *)
Others == (1..MaxPosts) \ Own
Author(m) == m[2]
Shown == pane.messages
Latest == CHOOSE m \in Shown : \A other \in Shown : other[2] <= m[2]

FreshPane ==
  [status |-> "connecting", manages |-> FALSE,
   messages |-> {}, lastRead |-> <<>>, frame |-> TRUE,
   reply |-> <<>>, editing |-> <<>>, deleting |-> <<>>]
NoSheet == [open |-> FALSE, pending |-> 0, labelled |-> {}, error |-> FALSE]
NoSearch == [query |-> Nothing, hits |-> Nothing, searching |-> FALSE, due |-> FALSE,
             lookups |-> {}]

Refs == {<<>>} \cup Messages
Answers == Queries \cup {Nothing, Failed}

PaneTypeOK ==
  /\ stored \in [Channels -> 0..MaxPosts] /\ chan \in Channels
  /\ conn \in {"asking", "failed", "joining", "live"} /\ unsent \in BOOLEAN
  /\ events \subseteq [kind : {"history", "new"}, upto : 0..MaxPosts]
  /\ pane \in [status : {"connecting", "joined", "error", "removed"},
               manages : BOOLEAN,
               messages : SUBSET Messages, lastRead : Refs, frame : BOOLEAN,
               reply : Refs, editing : Refs, deleting : Refs]
  /\ conn \in {"asking", "failed"} => Shown = {} /\ events = {}
  /\ find \in [query : Queries \cup {Nothing}, hits : Answers, searching : BOOLEAN,
               due : BOOLEAN, lookups : SUBSET Queries]
  /\ sheet \in [open : BOOLEAN, pending : Others \cup {0}, labelled : SUBSET Others,
                error : BOOLEAN]
  /\ orders \subseteq [who : Others, here : BOOLEAN, done : BOOLEAN]
  /\ gone \subseteq Others
  /\ acts \in 0..MaxActs /\ drops \in 0..MaxDrops

PaneInit ==
  /\ stored = [c \in Channels |-> 0] /\ chan = CHOOSE c \in Channels : TRUE
  /\ conn = "asking" /\ events = {} /\ unsent = FALSE
  /\ pane = FreshPane /\ find = NoSearch
  /\ sheet = NoSheet /\ orders = {} /\ gone = {}
  /\ acts = 0 /\ drops = 0

(* What the user does, on a pane that is not the removed view.             *)
Act == acts < MaxActs /\ acts' = acts + 1 /\ pane.status # "removed"

(* The sheet is closed, with its screen or without: what it has asked for  *)
(* goes on, and tells nobody.                                              *)
Closes ==
  /\ sheet' = NoSheet
  /\ orders' = {[o EXCEPT !.here = FALSE] : o \in orders}

-----------------------------------------------------------------------------
(* Opening a channel *)

(* Mutant: the screen has no key, its state stays.                         *)
Unkeyed == [pane EXCEPT !.status = "connecting", !.messages = {}, !.frame = TRUE]
(* The screen of another channel is another one.                           *)
Keyed == FreshPane

(* The cleanup of the joining effect: what the old channel sends is not    *)
(* handled any more.                                                       *)
LeftBehind(sent) == {}

(* handleSelectChannel of ServerScreen: the old channel is left.           *)
SwitchChannel(c) ==
  /\ c # chan /\ Act
  /\ chan' = c /\ pane' = Keyed /\ find' = NoSearch
  /\ conn' = "asking" /\ events' = LeftBehind(events) /\ unsent' = FALSE
  /\ Closes
  /\ UNCHANGED <<stored, gone, drops>>

(* getSocket has answered.                                                 *)
SocketGiven ==
  /\ conn = "asking"
  /\ \/ conn' = "joining" /\ UNCHANGED pane
     \/ conn' = "failed" /\ pane' = [pane EXCEPT !.status = "error"]
  /\ UNCHANGED <<stored, chan, events, unsent, find, members, acts, drops>>

(* The join is answered; phoenix tries again after an error or a timeout.  *)
(* The bits are a moderator's, who manages messages, kicks and bans, or    *)
(* those of somebody who does not.  The answer is also that of a join      *)
(* after a loss of the socket, and a pane that was removed then takes its  *)
(* status like any other.                                                  *)
JoinAnswered ==
  /\ conn = "joining"
  /\ \/ /\ conn' = "live" /\ unsent' = TRUE
        /\ \E moderates \in BOOLEAN :
             pane' = [pane EXCEPT !.status = "joined", !.manages = moderates]
     \/ /\ pane' = [pane EXCEPT !.status = "error", !.manages = FALSE]
        /\ UNCHANGED <<conn, unsent>>
  /\ UNCHANGED <<stored, chan, events, find, members, acts, drops>>

(* The socket is lost: the status stays, phoenix will join again.          *)
Drops ==
  /\ conn = "live" /\ drops < MaxDrops /\ drops' = drops + 1
  /\ conn' = "joining" /\ events' = {} /\ unsent' = FALSE
  /\ UNCHANGED <<stored, chan, pane, find, members, acts>>

-----------------------------------------------------------------------------
(* Messages *)

(* handle_info(:after_join): the history is read and sent.                 *)
HistorySent ==
  /\ unsent /\ unsent' = FALSE
  /\ events' = events \cup {[kind |-> "history", upto |-> stored[chan]]}
  /\ UNCHANGED <<stored, chan, conn, pane, find, members, acts, drops>>

(* A message is stored and broadcast.                                      *)
Posted(c) ==
  /\ SumFunction(stored) < MaxPosts
  /\ stored' = [stored EXCEPT ![c] = @ + 1]
  /\ events' = IF c = chan /\ conn = "live"
                 THEN events \cup {[kind |-> "new", upto |-> stored'[c]]} ELSE events
  /\ UNCHANGED <<chan, conn, unsent, pane, find, members, acts, drops>>

OncePerPane(before, after) == FALSE  \* mutant: the effect only runs at first
(* The effect of the number of messages asks for a frame.                  *)
AsksFrame(before, after) == Cardinality(before) # Cardinality(after)

(* history replaces the messages, new_message adds one; they are sent by   *)
(* two processes and may overtake each other.                              *)
Handled(e) ==
  LET now == IF e.kind = "history" THEN {chan} \X (1..e.upto)
             ELSE Shown \cup {<<chan, e.upto>>} IN
  /\ events' = events \ {e}
  /\ pane' = [pane EXCEPT !.messages = now,
                          !.frame = @ \/ AsksFrame(Shown, now)]
  /\ UNCHANGED <<stored, chan, conn, unsent, find, members, acts, drops>>

(* removed: a moderator has removed the user.                              *)
Removed ==
  /\ conn = "live" /\ pane' = [pane EXCEPT !.status = "removed"]
  /\ pane.status # "removed"
  /\ Closes
  /\ UNCHANGED <<stored, chan, link, find, gone, acts, drops>>

(* markRead: the latest message, unless it was the last one to be marked.  *)
MarkRead(p) ==
  IF Shown # {} /\ Latest # p.lastRead
    THEN pane' = [p EXCEPT !.lastRead = Latest]
    ELSE pane' = p

(* The animation frame, or a scroll, or the window gets the focus.         *)
Frame ==
  /\ pane.frame /\ MarkRead([pane EXCEPT !.frame = FALSE])
  /\ UNCHANGED <<stored, chan, link, find, members, acts, drops>>
Focus ==
  /\ MarkRead(pane)
  /\ UNCHANGED <<stored, chan, link, find, members, acts, drops>>

-----------------------------------------------------------------------------
(* What the user begins and finishes *)

rest == <<stored, chan, link, find, members, drops>>

(* A row offers a reply, an edit of an own message, and the deletion of an *)
(* own one or, to who manages messages, of any.                            *)
BeginReply(m) == Act /\ pane' = [pane EXCEPT !.reply = m] /\ UNCHANGED rest
BeginEdit(m) ==
  IsOwn(m) /\ Act /\ pane' = [pane EXCEPT !.editing = m] /\ UNCHANGED rest
BeginDelete(m) ==
  /\ IsOwn(m) \/ pane.manages
  /\ Act /\ pane' = [pane EXCEPT !.deleting = m] /\ UNCHANGED rest

(* Any of them is cancelled, by its own button.                            *)
Cancel(field) ==
  /\ pane[field] # <<>> /\ pane' = [pane EXCEPT ![field] = <<>>]
  /\ Act /\ UNCHANGED rest
CancelEdit == Cancel("editing")
CancelReply == Cancel("reply")
CancelDelete == Cancel("deleting")

(* handleSend, of some text: the composer is off before the join.          *)
ComposerIsOn == pane.status = "joined"
Send ==
  /\ ComposerIsOn /\ Act
  /\ pane' = [pane EXCEPT !.reply = <<>>] /\ UNCHANGED rest

(* handleSubmitEdit: nothing is pushed of a blank text.                    *)
SubmitEdit ==
  /\ pane.editing # <<>> /\ Act
  /\ pane' = [pane EXCEPT !.editing = <<>>] /\ UNCHANGED rest

(* handleConfirmDelete *)
ConfirmDelete ==
  /\ pane.deleting # <<>> /\ Act
  /\ pane' = [pane EXCEPT !.deleting = <<>>] /\ UNCHANGED rest

-----------------------------------------------------------------------------
(* Searching *)

others == <<stored, chan, link, pane, members, drops>>

NotCancelled(lookups) == lookups  \* mutant: an earlier lookup still counts
(* The cleanup of the searching effect: earlier lookups find nobody.       *)
Cancelled(lookups) == {}

(* The query is changed: what was found stays until the answer, a short    *)
(* query finds nothing.                                                    *)
SetQuery(q) ==
  /\ q # find.query /\ Act
  /\ find' = IF q = Nothing
       THEN [NoSearch EXCEPT !.lookups = Cancelled(find.lookups)]
       ELSE [find EXCEPT !.query = q, !.searching = TRUE, !.due = TRUE,
                         !.lookups = Cancelled(@)]
  /\ UNCHANGED others

(* A quarter of a second later.                                            *)
TimerFires ==
  /\ find.due
  /\ find' = [find EXCEPT !.due = FALSE, !.lookups = @ \cup {find.query}]
  /\ UNCHANGED <<others, acts>>

(* finally: whatever the answer was.                                       *)
Searching(hits) == FALSE

(* searchServerMessages has answered, or has failed.                       *)
Found(q) ==
  /\ \E hits \in {q, Failed} :
       find' = [find EXCEPT !.hits = hits, !.searching = Searching(hits),
                            !.lookups = @ \ {q}]
  /\ UNCHANGED <<others, acts>>

-----------------------------------------------------------------------------
(* MemberSheet *)

besides == <<stored, chan, link, pane, find, drops>>

ToggleMembers ==
  /\ \/ sheet.open /\ Closes /\ UNCHANGED acts
     \/ ~sheet.open /\ Act /\ sheet' = [NoSheet EXCEPT !.open = TRUE] /\ UNCHANGED orders
  /\ UNCHANGED <<besides, gone>>

(* A moderator is offered the removal of who has written one of the        *)
(* messages, one at a time.                                                *)
Removable == {Author(m) : m \in Shown} \cap (Others \ sheet.labelled)
Ask(who) ==
  /\ sheet.open /\ pane.manages /\ sheet.pending = 0 /\ who \in Removable
  /\ sheet' = [sheet EXCEPT !.pending = who, !.error = FALSE]
  /\ orders' = orders \cup {[who |-> who, here |-> TRUE, done |-> FALSE]}
  /\ UNCHANGED <<besides, gone, acts>>

(* The server kicks or bans.                                               *)
Obeyed(o) ==
  /\ ~o.done
  /\ orders' = (orders \ {o}) \cup {[o EXCEPT !.done = TRUE]}
  /\ gone' = gone \cup {o.who}
  /\ UNCHANGED <<besides, sheet, acts>>

LabelledAnyway(o, ok) == TRUE  \* mutant: a failure is not told from a success
IsLabelled(o, ok) == ok

(* runModeration has returned: the member is labelled as removed, or there *)
(* is an error, of a refusal, of no session, or of an answer that is lost  *)
(* although the server has obeyed.                                         *)
Returned(o) ==
  \E ok \in {o.done, FALSE} :
    /\ orders' = orders \ {o}
    /\ sheet' = IF o.here
         THEN [sheet EXCEPT !.pending = 0, !.error = ~ok,
                            !.labelled = IF IsLabelled(o, ok) THEN @ \cup {o.who} ELSE @]
         ELSE sheet
    /\ UNCHANGED <<besides, gone, acts>>

-----------------------------------------------------------------------------
Connects == SocketGiven \/ JoinAnswered \/ Drops \/ HistorySent \/ Removed
Begins == \/ CancelEdit \/ CancelReply \/ CancelDelete
          \/ \E m \in Shown : BeginReply(m) \/ BeginEdit(m) \/ BeginDelete(m)
Finishes == Send \/ SubmitEdit \/ ConfirmDelete
Searches == \/ TimerFires
            \/ \E q \in Queries \cup {Nothing} : SetQuery(q)
Finds == \E q \in find.lookups : Found(q)

PaneNext ==
  \/ Connects \/ Begins \/ Finishes \/ Searches \/ Finds
  \/ Frame \/ Focus
  \/ ToggleMembers \/ \E who \in Others : Ask(who)
  \/ \E o \in orders : Obeyed(o) \/ Returned(o)
  \/ \E c \in Channels : SwitchChannel(c) \/ Posted(c)
  \/ \E e \in events : Handled(e)

PaneSpec == PaneInit /\ [][PaneNext]_paneVars

(* The browser draws its frames.                                           *)
FairPaneSpec == PaneSpec /\ WF_paneVars(Frame)

-----------------------------------------------------------------------------
(* What a pane pushes on the topic of its channel, a reply, an edit, a     *)
(* deletion or a read marker, is about a message of this channel, also     *)
(* when another channel was open before.                                   *)
PushesStayInChannel ==
  \A m \in {pane.reply, pane.editing, pane.deleting, pane.lastRead} :
    m # <<>> => m[1] = chan

(* When a search is over, what is shown was found for the query that is    *)
(* shown, however the answers of earlier ones come.                        *)
ResultsAreCurrent ==
  ~find.searching => find.hits \in {find.query, Failed} \/ find.query = Nothing

(* What a pane shows is marked as read: its latest message or a later one. *)
IsMarked == Shown = {} \/ (pane.lastRead # <<>> /\ pane.lastRead[2] >= Latest[2])
ShownIsMarked == ~IsMarked ~> IsMarked

(* The read marker of the channel that is open does not go back:           *)
(* CONTEXT.md:342 calls it the tuple "recording how far a user has read in  *)
(* a given channel".  markRead compares no serials and the server replaces *)
(* what it has: when a history that is older than a message already shown  *)
(* replaces the list, its last message is marked in place of that one.     *)
MarkerOnlyAdvances ==
  [][chan' = chan /\ pane.lastRead # <<>> /\ pane'.lastRead # <<>>
       => pane'.lastRead[2] >= pane.lastRead[2]]_paneVars

(* The sheet tells the truth whenever it was closed and opened again: who  *)
(* is labelled as removed was removed, and its buttons are off while an    *)
(* order of this sheet is under way and not because of an earlier one.     *)
SheetIsTrue ==
  /\ sheet.labelled \subseteq gone
  /\ {o.who : o \in {o \in orders : o.here}} = {sheet.pending} \ {0}
=============================================================================
