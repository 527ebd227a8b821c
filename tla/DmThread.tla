------------------------------ MODULE DmThread ------------------------------
(***************************************************************************)
(* Direct messages in the client: the conversations that App.tsx keeps,    *)
(* the one that is open, and the thread that DmListScreen.tsx shows of it  *)
(* with what is being sent (chat/dm-submit.ts, chat/dm-outbox.ts).         *)
(*                                                                         *)
(* The open conversation is a copy of the one in the list, and the thread  *)
(* is a copy of the messages of the open one: an inbound message is merged *)
(* into the first two, a message that is sent into the first and the last. *)
(* Nothing is kept when the application ends.                              *)
(***************************************************************************)
EXTENDS Naturals, Sequences, SequencesExt, FiniteSets

CONSTANTS
  Me,
  Peers,
  Mail,       \* envelopes that others send
  Author,     \* their senders
  Audience,   \* and the recipients, the user among them
  Groups,     \* whom the user starts a conversation with
  None,
  MaxSends    \* bound: messages that the user sends

ASSUME PeopleAssumption == Me \notin Peers /\ Groups \subseteq SUBSET Peers
ASSUME MailAssumption ==
  /\ Author \in [Mail -> Peers]
  /\ Audience \in [Mail -> SUBSET (Peers \cup {Me})]
ASSUME BoundAssumption == MaxSends \in Nat

VARIABLES
  linked,     \* a channel to an anchor is joined
  degraded,
  mounted,    \* DmListScreen is on screen
  inbox,      \* inboxConversations
  open,       \* dmConversation
  items,      \* DmListScreen: the messages of the thread
  accepted,   \* DmListScreen: a request was accepted on this screen
  accepting,  \* a request whose acceptance is under way
  contacts,   \* acceptedPeers of the metadata
  receipts,   \* readReceiptsEnabled of the metadata
  known,      \* deliveryStates: the state of an envelope at a recipient
  sends,      \* submissions under way
  marked,     \* sentMarkers of ReadMarkerEmitter
  sent,       \* messages that the user has sent
  heard,      \* history: inbound envelopes that were received
  told,       \* history: the last delivery state received
  taken,      \* history: messages that the anchor has accepted
  settled,    \* history: those whose acceptance has reached the client
  granted,    \* history: requests that the anchor knows to be accepted
  markers     \* history: read markers that were pushed

link == <<linked, degraded>>
lists == <<inbox, open, items, mounted>>
request == <<accepted, accepting, contacts, granted>>
markings == <<marked, markers>>
outbox == <<sends, sent, taken, settled>>
delivery == <<known, told>>
vars == <<link, lists, request, receipts, markings, outbox, delivery, heard>>

People == Peers \cup {Me}
Locals == {"local"} \X (1..MaxSends)
Envelopes == {"env"} \X (1..MaxSends)
Ids == Mail \cup Locals \cup Envelopes
Local(n) == <<"local", n>>
Env(n) == <<"env", n>>
States == {"sent", "delivered", "read"}

(* An envelope of somebody else is none of the user's own.                 *)
ASSUME IdsAssumption == Mail \cap (Locals \cup Envelopes) = {} /\ None \notin States

Message ==
  [id : Ids, from : People \cup {None}, to : SUBSET People,
   delivery : States \cup {"sending", "queued"}]
Conversation ==
  [id : (SUBSET People) \cup {None}, people : Seq(People), messages : Seq(Message),
   request : BOOLEAN]

(* A submission: the message, whether it starts a conversation, its        *)
(* recipients, the conversation it was typed in, and whether the screen it *)
(* was typed on is still there.                                            *)
Submission ==
  [n : 1..MaxSends, starts : BOOLEAN, to : SUBSET Peers,
   thread : (SUBSET People) \cup {None}, here : BOOLEAN]

TypeOK ==
  /\ linked \in BOOLEAN /\ degraded \in BOOLEAN /\ mounted \in BOOLEAN
  /\ inbox \in Seq(Conversation)
  /\ open \in Conversation \cup {None}
  /\ items \in Seq(Message)
  /\ accepted \in BOOLEAN /\ receipts \in BOOLEAN
  /\ accepting \in [peer : Peers \cup {None}, saved : BOOLEAN, here : BOOLEAN]
  /\ contacts \subseteq Peers /\ granted \subseteq Peers
  /\ known \in [Envelopes \X Peers -> States \cup {None}]
  /\ told \in [Envelopes \X Peers -> States \cup {None}]
  /\ sends \subseteq Submission
  /\ sent \in 0..MaxSends
  /\ taken \subseteq 1..MaxSends /\ settled \subseteq taken
  /\ marked \subseteq Mail /\ markers \subseteq Mail
  /\ heard \subseteq Mail

NoRequest == [peer |-> None, saved |-> FALSE, here |-> FALSE]

Init ==
  /\ linked \in BOOLEAN /\ degraded = FALSE
  /\ mounted = FALSE /\ inbox = <<>> /\ open = None /\ items = <<>>
  /\ accepted = FALSE /\ accepting = NoRequest /\ contacts = {} /\ granted = {}
  /\ receipts \in BOOLEAN
  /\ known = [at \in Envelopes \X Peers |-> None] /\ told = known
  /\ sends = {} /\ sent = 0 /\ taken = {} /\ settled = {}
  /\ marked = {} /\ markers = {}
  /\ heard = {}

-----------------------------------------------------------------------------
(* Conversations *)

(* conversationId: that of the set of those who take part.                 *)
Thread(from, to) == {from} \cup to

(* normalizeRecipientDids: nobody writes to themselves.                    *)
Normalized(people) == people \ {Me}

(* handleSend: those a message of the open conversation is addressed to    *)
(* are its people without the sender of the first message of the thread.   *)
Recipients(conversation, shown) ==
  LET first == IF shown = <<>> THEN None ELSE shown[1].from
  IN  Normalized(ToSet(conversation.people) \ {first})

MessageIds(conversation) == {m.id : m \in ToSet(conversation.messages)}

(* The people that a conversation does not have yet, and the message: an   *)
(* incoming conversation has one.                                          *)
Newcomers(conversation, incoming) ==
  SelectSeq(incoming.people, LAMBDA p : p \notin ToSet(conversation.people))
News(conversation, incoming) ==
  IF incoming.messages[1].id \in MessageIds(conversation) THEN <<>> ELSE incoming.messages

(* Mutant: a message is added whether or not it is there.                  *)
MergedTwice(conversation, incoming) ==
  [conversation EXCEPT !.people = @ \o Newcomers(conversation, incoming),
                       !.request = incoming.request,
                       !.messages = @ \o incoming.messages]

(* mergeInboxConversation, of the conversation with the id of the incoming *)
(* one: the people and the messages that it does not have yet are added.   *)
Merged(conversation, incoming) ==
  [conversation EXCEPT !.people = @ \o Newcomers(conversation, incoming),
                       !.request = incoming.request,
                       !.messages = @ \o News(conversation, incoming)]

(* mergeInboxConversation, of the list.                                    *)
MergeInto(conversations, incoming) ==
  IF \E i \in DOMAIN conversations : conversations[i].id = incoming.id
  THEN LET i == CHOOSE i \in DOMAIN conversations :
                  /\ conversations[i].id = incoming.id
                  /\ \A j \in 1..(i - 1) : conversations[j].id # incoming.id
       IN  [conversations EXCEPT ![i] = Merged(@, incoming)]
  ELSE <<incoming>> \o conversations

(* Messages with another delivery, or with the id that the server knows.   *)
With(messages, id, to) ==
  [i \in DOMAIN messages |-> IF messages[i].id = id THEN to ELSE messages[i]]
Queued(messages, id) ==
  [i \in DOMAIN messages |->
     IF messages[i].id = id THEN [messages[i] EXCEPT !.delivery = "queued"] ELSE messages[i]]

-----------------------------------------------------------------------------
(* The screen *)

(* ReadMarkerEmitter: every message of the open conversation that another  *)
(* one has sent is marked once for as long as the screen is mounted, if    *)
(* receipts are enabled.  The marker is dropped when no channel is joined, *)
(* and held by the channel when its join has not been answered yet.        *)
Received(conversation) ==
  IF conversation = None \/ conversation.id = None THEN {}
  ELSE MessageIds(conversation) \cap Mail
EmitMarkers(conversation, onDm, enabled) ==
  LET due == IF onDm /\ enabled THEN Received(conversation) ELSE {}
  IN  /\ marked' = IF onDm THEN marked \cup due ELSE {}
      /\ \E pushed \in {TRUE, linked} :
           markers' = IF pushed THEN markers \cup (due \ marked) ELSE markers

(* The effect of DmListScreen: when the conversation has another array of  *)
(* messages, it replaces the thread, and what the thread had beside them.  *)
Show(conversation) ==
  /\ open' = conversation
  /\ items' = IF ~mounted' \/ conversation = None THEN <<>> ELSE conversation.messages
  /\ EmitMarkers(conversation, mounted', receipts)

(* handleOpenDmList: also from a thread, by the bar of workspaces.         *)
OpenList ==
  /\ mounted' = TRUE
  /\ Show(None)
  /\ accepted' = (mounted /\ accepted)
  /\ UNCHANGED <<link, inbox, accepting, contacts, granted, receipts, outbox, delivery, heard>>

(* The list is on screen, or beside a channel the recent ones, without the *)
(* requests (recentDmsFromConversations).                                  *)
Listed(i) == mounted /\ open = None
Recent(i) == ~mounted /\ ~inbox[i].request

(* A conversation is opened: as it is in the list (handleSelectRecentDm).  *)
OpenConversation(i) ==
  /\ Listed(i) \/ Recent(i)
  /\ mounted' = TRUE
  /\ Show(inbox[i])
  /\ accepted' = (mounted /\ accepted)
  /\ UNCHANGED <<link, inbox, accepting, contacts, granted, receipts, outbox, delivery, heard>>

(* Another screen is shown: the thread and what it waits for are dropped.  *)
Leave ==
  /\ mounted /\ mounted' = FALSE
  /\ Show(open)
  /\ accepted' = FALSE
  /\ accepting' = [accepting EXCEPT !.here = FALSE]
  /\ sends' = {[s EXCEPT !.here = FALSE] : s \in sends}
  /\ UNCHANGED <<link, inbox, contacts, granted, receipts, sent, taken, settled, delivery, heard>>

(* onToggleReadReceipts of PassphraseSettingsScreen.                       *)
ToggleReceipts ==
  /\ ~mounted
  /\ receipts' = ~receipts
  /\ UNCHANGED <<link, lists, request, markings, outbox, delivery, heard>>

-----------------------------------------------------------------------------
(* Sending *)

Own(id, to, state) == [id |-> id, from |-> Me, to |-> to, delivery |-> state]

(* handleSend without a conversation, and handleStartDmConversation: the   *)
(* conversation is opened with its first message, before it is submitted.  *)
Start(to) ==
  /\ mounted /\ open = None /\ sent < MaxSends
  /\ sent' = sent + 1
  /\ UNCHANGED mounted
  /\ Show([id |-> None, people |-> SetToSeq(to), request |-> FALSE,
           messages |-> <<Own(Local(sent'), to, "sending")>>])
  /\ sends' = sends \cup
       {[n |-> sent', starts |-> TRUE, to |-> to, thread |-> None, here |-> TRUE]}
  /\ UNCHANGED <<link, inbox, request, receipts, taken, settled, delivery, heard>>

(* The composer is offered in a conversation that is not a request, or in  *)
(* one after a request was accepted on this screen.                        *)
Offered == open # None /\ (open.request => accepted)

(* handleSend in a conversation: the message is added to the thread, with  *)
(* no sender until it is settled, and submitted, also while the client is  *)
(* degraded.                                                               *)
Send ==
  /\ mounted /\ Offered /\ sent < MaxSends
  /\ sent' = sent + 1
  /\ LET to == Recipients(open, items) IN
     /\ items' = Append(items, [id |-> Local(sent'), from |-> None, to |-> to,
                                delivery |-> "sending"])
     /\ sends' = sends \cup
          {[n |-> sent', starts |-> FALSE, to |-> to, thread |-> open.id, here |-> TRUE]}
  /\ UNCHANGED <<link, inbox, open, mounted, request, receipts, markings, taken, settled,
                 delivery, heard>>

(* submitDm: the anchor accepts the envelope, which names someone.         *)
Takes(s) ==
  /\ s \in sends /\ s.n \notin taken /\ s.to # {}
  /\ taken' = taken \cup {s.n}
  /\ UNCHANGED <<link, lists, request, receipts, markings, sends, sent, settled, delivery, heard>>

(* The acceptance reaches the client.  A conversation that was started     *)
(* gets its id, and every message gets that of the envelope.               *)
Settled(s) == Own(Env(s.n), s.to, "sent")

Accepted(s) ==
  /\ s \in sends /\ s.n \in taken
  /\ sends' = sends \ {s} /\ settled' = settled \cup {s.n}
  /\ inbox' = MergeInto(inbox,
       [id |-> IF s.thread = None THEN Thread(Me, s.to) ELSE s.thread,
        people |-> SetToSeq(s.to), messages |-> <<Settled(s)>>, request |-> FALSE])
  /\ UNCHANGED mounted
  /\ IF s.starts /\ open # None
     THEN Show([open EXCEPT !.id = Thread(Me, s.to),
                            !.messages = With(@, Local(s.n), Settled(s))])
     ELSE /\ items' = IF s.here THEN With(items, Local(s.n), Settled(s)) ELSE items
          /\ UNCHANGED <<open, markings>>
  /\ UNCHANGED <<link, request, receipts, sent, taken, delivery, heard>>

(* Mutant: nothing is done about a refusal.                                *)
FailedSilently(s) ==
  /\ s \in sends /\ sends' = sends \ {s}
  /\ UNCHANGED <<link, lists, request, receipts, markings, sent, taken, settled, delivery, heard>>

(* There is no session, the anchor refuses, or its answer is lost: the     *)
(* message is shown as queued.                                             *)
Failed(s) ==
  /\ s \in sends /\ sends' = sends \ {s}
  /\ UNCHANGED mounted
  /\ IF s.starts /\ open # None
     THEN Show([open EXCEPT !.messages = Queued(@, Local(s.n))])
     ELSE /\ items' = IF s.here THEN Queued(items, Local(s.n)) ELSE items
          /\ UNCHANGED <<open, markings>>
  /\ UNCHANGED <<link, inbox, request, receipts, sent, taken, settled, delivery, heard>>

-----------------------------------------------------------------------------
(* Events of the user's channel *)

(* conversationFromInboxEvent.                                             *)
FromInbox(m, isRequest) ==
  [id |-> Thread(Author[m], Audience[m]),
   people |-> <<Author[m]>> \o SetToSeq(Audience[m] \ {Author[m]}),
   request |-> isRequest,
   messages |-> <<[id |-> m, from |-> Author[m], to |-> Audience[m], delivery |-> "delivered"]>>]

(* handleInbox: an anchor pushes an envelope; another anchor, which keeps  *)
(* the same inbox, may push it again.  Whether it is a request, the anchor *)
(* has decided when it arrived.                                            *)
Inbox(m, isRequest) ==
  LET incoming == FromInbox(m, isRequest) IN
  /\ linked
  /\ heard' = heard \cup {m}
  /\ inbox' = MergeInto(inbox, incoming)
  /\ UNCHANGED mounted
  /\ IF open # None /\ open.id = incoming.id
       THEN Show(Merged(open, incoming))
       ELSE UNCHANGED <<open, items, markings>>
  /\ UNCHANGED <<link, request, receipts, outbox, delivery>>

(* Mutant: a state of an envelope that the thread does not have is dropped. *)
LearnShown(n, peer, state) ==
  known' = IF \E i \in DOMAIN items : items[i].id = Env(n)
           THEN [known EXCEPT ![<<Env(n), peer>>] = state] ELSE known

(* mergeDeliveryStateMap: the last state replaces the one before it.       *)
Learn(n, peer, state) == known' = [known EXCEPT ![<<Env(n), peer>>] = state]

(* mergeDeliveryState: the last state replaces the one before it.          *)
Reported(conversations, id, state) ==
  [i \in DOMAIN conversations |->
     [conversations[i] EXCEPT !.messages =
        [j \in DOMAIN @ |-> IF @[j].id = id THEN [@[j] EXCEPT !.delivery = state] ELSE @[j]]]]

(* handleDeliveryState: the list and the retained states take it.          *)
DeliveryState(n, peer, state) ==
  /\ linked
  /\ told' = [told EXCEPT ![<<Env(n), peer>>] = state]
  /\ Learn(n, peer, state)
  /\ inbox' = Reported(inbox, Env(n), state)
  /\ UNCHANGED <<link, open, items, mounted, request, receipts, markings, outbox, heard>>

(* Deliveries and reads of one recipient come in any order, once the       *)
(* envelope is accepted.                                                   *)
Reports(s) ==
  \E n \in taken, peer \in s : \E state \in States \ {"sent"} :
    told[<<Env(n), peer>>] # state /\ DeliveryState(n, peer, state)

-----------------------------------------------------------------------------
(* Requests *)

(* acceptRequest and handleAcceptDmRequest: the first of the people of the *)
(* conversation is accepted.                                               *)
AskAccept ==
  /\ mounted /\ open # None /\ ~Offered
  /\ accepting = NoRequest
  /\ accepting' = [peer |-> open.people[1], saved |-> FALSE, here |-> TRUE]
  /\ UNCHANGED <<link, lists, accepted, contacts, granted, receipts, markings, outbox,
                 delivery, heard>>

(* The anchor takes the acceptance.                                        *)
Grants ==
  /\ accepting.peer # None /\ accepting.peer \notin granted
  /\ granted' = granted \cup {accepting.peer}
  /\ UNCHANGED <<link, lists, accepted, accepting, contacts, receipts, markings, outbox,
                 delivery, heard>>

(* Its answer has come: the conversations with the peer are no requests    *)
(* any more, and neither is the one that is open by now.                   *)
Granted ==
  /\ accepting.peer \in granted /\ ~accepting.saved
  /\ accepting' = [accepting EXCEPT !.saved = TRUE]
  /\ inbox' = [i \in DOMAIN inbox |->
       IF accepting.peer \in ToSet(inbox[i].people)
       THEN [inbox[i] EXCEPT !.request = FALSE] ELSE inbox[i]]
  /\ open' = IF open = None THEN None ELSE [open EXCEPT !.request = FALSE]
  /\ UNCHANGED <<link, items, mounted, accepted, contacts, granted, receipts, markings,
                 outbox, delivery, heard>>

(* The answer does not come, or is no: nothing is changed.                 *)
NotGranted ==
  /\ accepting.peer # None /\ ~accepting.saved
  /\ accepting' = NoRequest
  /\ UNCHANGED <<link, lists, accepted, contacts, granted, receipts, markings, outbox,
                 delivery, heard>>

(* The metadata are saved with the peer among the accepted ones.           *)
Record ==
  /\ accepting.saved
  /\ accepting' = NoRequest
  /\ contacts' = contacts \cup {accepting.peer}
  /\ accepted' = (accepted \/ accepting.here)
  /\ UNCHANGED <<link, lists, granted, receipts, markings, outbox, delivery, heard>>

-----------------------------------------------------------------------------
(* The connection (AnchorLink) *)

(* Channels are joined and left.                                           *)
LinkChanges ==
  /\ ~degraded /\ linked' = ~linked
  /\ UNCHANGED <<degraded, lists, request, receipts, markings, outbox, delivery, heard>>

(* No anchor was reachable for a minute.                                   *)
Degrades ==
  /\ ~degraded /\ ~linked /\ degraded' = TRUE
  /\ UNCHANGED <<linked, lists, request, receipts, markings, outbox, delivery, heard>>

(* flushQueued.                                                            *)
Flushed(messages) ==
  [i \in DOMAIN messages |->
     IF messages[i].delivery = "queued" THEN [messages[i] EXCEPT !.delivery = "sent"]
     ELSE messages[i]]

(* An anchor is reachable again: the effect of DmListScreen on degraded.   *)
Reconnects ==
  /\ degraded /\ degraded' = FALSE /\ linked' = TRUE
  /\ items' = IF mounted THEN Flushed(items) ELSE items
  /\ UNCHANGED <<inbox, open, mounted, request, receipts, markings, outbox, delivery, heard>>

Next ==
  \/ OpenList \/ Leave \/ ToggleReceipts
  \/ \E i \in DOMAIN inbox : OpenConversation(i)
  \/ \E to \in Groups : Start(to)
  \/ Send
  \/ \E s \in sends : Takes(s) \/ Accepted(s) \/ Failed(s)
  \/ \E m \in Mail, isRequest \in BOOLEAN : Inbox(m, isRequest)
  \/ Reports(Peers)
  \/ AskAccept \/ Grants \/ Granted \/ NotGranted \/ Record
  \/ LinkChanges \/ Degrades \/ Reconnects

(* A submission ends: fetch returns or fails.                              *)
Spec == Init /\ [][Next]_vars
FairSpec == Spec /\ WF_vars(\E s \in sends : Accepted(s) \/ Failed(s))

-----------------------------------------------------------------------------
(* Properties *)

Unsettled(message) == message.delivery \in {"queued", "sending"}

(* The furthest of some states.                                            *)
Furthest(states) ==
  IF "read" \in states THEN "read" ELSE IF "delivered" \in states THEN "delivered" ELSE "sent"

(* applyDeliveryState: what the thread shows of a message.                 *)
Displayed(message) ==
  LET states == IF message.id \in Envelopes THEN {known[<<message.id, p>>] : p \in Peers} \ {None}
                ELSE {}
  IN  IF Unsettled(message) \/ states = {} THEN message.delivery ELSE Furthest(states)

(* A delivery state that was received is shown with its message, also when *)
(* it came before the answer that told the client the id of the envelope,  *)
(* or while another conversation was open (dm-outbox.ts, comment of        *)
(* applyDeliveryState).                                                    *)
EarlyStateLands ==
  \A i \in DOMAIN items : items[i].id \in Envelopes /\ ~Unsettled(items[i]) =>
    Displayed(items[i]) = Furthest({told[<<items[i].id, p>>] : p \in Peers})

(* Every envelope that was received, and every message whose acceptance    *)
(* was, is in the list exactly once, however often and along whatever      *)
(* anchors it came (mergeInboxConversation).                               *)
Placed(id) ==
  UNION {{i} \X {j \in DOMAIN inbox[i].messages : inbox[i].messages[j].id = id} :
           i \in DOMAIN inbox}
ListedOnce ==
  /\ \A id \in heard \cup {Env(n) : n \in settled} : Cardinality(Placed(id)) = 1
  /\ \A i, j \in DOMAIN inbox : inbox[i].id = inbox[j].id => i = j

(* CONTEXT.md:113 has the state of a message become `read` when            *)
(* "recipient's device updated its read marker for the conversation;       *)
(* propagated through both anchors".  A message that stays on screen, with *)
(* receipts enabled and an anchor joined, would then have its marker       *)
(* pushed.  It need not: ReadMarkerEmitter remembers a marker as sent that *)
(* emitReadMarker drops while no channel is joined.                        *)
SeenIsReported ==
  \A m \in Mail :
    <>[](mounted /\ receipts /\ linked /\ m \in Received(open)) => <>(m \in markers)

(* A message that is being sent does not stay so: it is settled, queued,   *)
(* or not shown any more (the answers of submitDm).                        *)
SendingEnds ==
  \A n \in 1..MaxSends :
    (\E i \in DOMAIN items : items[i].id = Local(n) /\ items[i].delivery = "sending")
      ~> ~(\E i \in DOMAIN items : items[i].id = Local(n) /\ items[i].delivery = "sending")
=============================================================================
