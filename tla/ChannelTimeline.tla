-------------------------- MODULE ChannelTimeline --------------------------
(***************************************************************************)
(* What the clients that have joined a channel show, over the messages of  *)
(* MessageStore: joining and the history that is pushed after it           *)
(* (YawpWeb.ServerChannelTopic), the broadcasts of the writing sockets,    *)
(* and the client's store (assets/app/chat/channel-store.ts).              *)
(*                                                                         *)
(* A broadcast goes from the socket that writes straight to the transport  *)
(* of each subscriber; history goes there from the reader's own channel    *)
(* process.  What a transport has got is delivered in order.               *)
(***************************************************************************)
EXTENDS MessageStore, Sequences

CONSTANTS
  Readers,  \* clients with a socket
  Absent,   \* a message that a client does not show
  MaxWire   \* bound: events under way to one client

ASSUME BoundAssumption == MaxWire \in Nat
ASSUME AbsentAssumption == Absent \notin Messages \cup Edits \cup {None}

VARIABLES
  reader,  \* reader[r]: how far its channel process is
  page,    \* page[r]: the history it is rendering
  wire,    \* wire[r]: events under way to the client
  view,    \* view[r]: the body the client shows of each message
  raced    \* history: messages whose event has overtaken the history of r

readerVars == <<reader, page, wire, view, raced>>
allVars == <<vars, readerVars>>

Page == [Messages -> Messages \cup Edits \cup {None, Absent}]

Event ==
  [kind : {"new", "edited", "deleted"}, message : Messages,
   body : Messages \cup Edits \cup {None}]
    \cup [kind : {"history"}, page : Page]

TimelineTypeOK ==
  /\ reader \in [Readers -> {"out", "joined", "listed", "rendered", "in"}]
  /\ page \in [Readers -> Page]
  /\ view \in [Readers -> Page]
  /\ wire \in [Readers -> Seq(Event)] /\ \A r \in Readers : Len(wire[r]) <= MaxWire
  /\ raced \in [Readers -> SUBSET Messages]

NoPage == [m \in Messages |-> Absent]

TimelineInit ==
  /\ Init
  /\ reader = [r \in Readers |-> "out"]
  /\ page = [r \in Readers |-> NoPage]
  /\ wire = [r \in Readers |-> <<>>]
  /\ view = [r \in Readers |-> NoPage]
  /\ raced = [r \in Readers |-> {}]

-----------------------------------------------------------------------------
(* The reader's channel process                                            *)

(* join: the reader may read the channel, and is subscribed to its topic.  *)
Join(r) ==
  /\ reader[r] = "out"
  /\ reader' = [reader EXCEPT ![r] = "joined"]
  /\ raced' = [raced EXCEPT ![r] = {}]
  /\ UNCHANGED vars /\ UNCHANGED <<page, wire, view>>

(* after_join lists the messages ...                                       *)
ListMessages(r) ==
  /\ reader[r] = "joined"
  /\ reader' = [reader EXCEPT ![r] = "listed"]
  /\ page' = [page EXCEPT ![r] =
       [m \in Messages |-> IF m \notin Rows THEN Absent ELSE IF m \in wiped THEN None ELSE m]]
  /\ UNCHANGED vars /\ UNCHANGED <<wire, view, raced>>

(* ... loads the last edit of each ...                                     *)
LoadEdits(r) ==
  /\ reader[r] = "listed"
  /\ reader' = [reader EXCEPT ![r] = "rendered"]
  /\ page' = [page EXCEPT ![r] =
       [m \in Messages |-> IF @[m] # Absent /\ EditRows(m) # {} THEN Shown(m) ELSE @[m]]]
  /\ UNCHANGED vars /\ UNCHANGED <<wire, view, raced>>

(* ... and pushes what it has rendered.                                    *)
PushHistory(r) ==
  /\ reader[r] = "rendered"
  /\ Len(wire[r]) < MaxWire
  /\ reader' = [reader EXCEPT ![r] = "in"]
  /\ wire' = [wire EXCEPT ![r] = Append(@, [kind |-> "history", page |-> page[r]])]
  /\ UNCHANGED vars /\ UNCHANGED <<page, view, raced>>

(* The socket closes; the client keeps what it shows.                      *)
Disconnect(r) ==
  /\ reader[r] # "out"
  /\ reader' = [reader EXCEPT ![r] = "out"]
  /\ wire' = [wire EXCEPT ![r] = <<>>]
  /\ page' = [page EXCEPT ![r] = NoPage]
  /\ UNCHANGED vars /\ UNCHANGED <<view, raced>>

-----------------------------------------------------------------------------
(* The event of a request that has been committed *)
EventOf(w) ==
  LET t == task[w] IN
  CASE t.pc = "edited"  -> [kind |-> "edited", message |-> t.message, body |-> t.edit]
    [] t.pc = "deleted" -> [kind |-> "deleted", message |-> t.message, body |-> None]
    [] OTHER            -> [kind |-> "new", message |-> t.message, body |-> t.message]

(* Mutant: whoever is still waiting for its history is passed over.        *)
BroadcastToJoined(w) ==
  /\ Answer(w)
  /\ \A r \in Readers : Len(wire[r]) < MaxWire
  /\ wire' = [r \in Readers |-> IF reader[r] # "in" THEN wire[r] ELSE Append(wire[r], EventOf(w))]
  /\ UNCHANGED <<reader, page, view, raced>>

(* The event goes out while the channel process of r renders a history     *)
(* that lacks the message.                                                 *)
Overtakes(r, event) ==
  /\ event.kind = "new" /\ reader[r] \in {"listed", "rendered"}
  /\ page[r][event.message] = Absent

(* broadcast!, then the reply.                                             *)
Broadcast(w) ==
  /\ Answer(w)
  /\ \A r \in Readers : Len(wire[r]) < MaxWire
  /\ wire' = [r \in Readers |->
                IF reader[r] = "out" THEN wire[r] ELSE Append(wire[r], EventOf(w))]
  /\ raced' = [r \in Readers |->
                 IF Overtakes(r, EventOf(w)) THEN raced[r] \cup {EventOf(w).message} ELSE raced[r]]
  /\ UNCHANGED <<reader, page, view>>

-----------------------------------------------------------------------------
(* The client's store *)

(* History replaces what is shown; a message that is shown is not added    *)
(* again; edits and deletions change what is shown.                        *)
Applied(shown, event) ==
  CASE event.kind = "history" -> event.page
    [] event.kind = "new" /\ shown[event.message] = Absent ->
         [shown EXCEPT ![event.message] = event.body]
    [] event.kind \in {"edited", "deleted"} /\ shown[event.message] # Absent ->
         [shown EXCEPT ![event.message] = event.body]
    [] OTHER -> shown

Receive(r) ==
  /\ wire[r] # <<>>
  /\ view' = [view EXCEPT ![r] = Applied(@, Head(wire[r]))]
  /\ wire' = [wire EXCEPT ![r] = Tail(@)]
  /\ UNCHANGED vars /\ UNCHANGED <<reader, page, raced>>

-----------------------------------------------------------------------------
StoreStep ==
  /\ \/ \E w \in Writers : Request(w) \/ WriteStep(w) \/ AbortWrite(w)
     \/ \E m \in Messages : Age(m)
     \/ \E s \in Sweepers : ListOld(s) \/ SweepStep(s) \/ CommitSweep(s) \/ AbortSweep(s)
  /\ UNCHANGED readerVars

TimelineNext ==
  \/ StoreStep
  \/ \E w \in Writers : Broadcast(w)
  \/ \E r \in Readers :
       Join(r) \/ ListMessages(r) \/ LoadEdits(r) \/ PushHistory(r) \/ Receive(r) \/ Disconnect(r)

TimelineSpec == TimelineInit /\ [][TimelineNext]_allVars

-----------------------------------------------------------------------------
(* Properties                                                              *)

(* Nothing is on its way to r.                                             *)
Settled(r) ==
  /\ reader[r] = "in" /\ wire[r] = <<>>
  /\ \A w \in Writers : task[w].pc \notin Saved

(* A client that has its history, and to which nothing is under way, shows *)
(* no message that is not stored, and every one that is, whenever it was   *)
(* sent: but for those whose own event went out after that history was     *)
(* read and before it was pushed.  Each of these the history has replaced  *)
(* (channel-store.ts:129), and the next join brings it.                    *)
SettledIsComplete ==
  \A r \in Readers : Settled(r) =>
    LET shown == {m \in Messages : view[r][m] # Absent} IN
    shown \subseteq Rows /\ Rows \ raced[r] \subseteq shown

=============================================================================
