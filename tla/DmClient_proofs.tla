--------------------------- MODULE DmClient_proofs ---------------------------
(***************************************************************************)
(* Theorems about the client and its user's channels, for any people,      *)
(* mail, anchors and bounds: what it shows of its connection is founded on *)
(* what it knows (AnchorLink), and the conversations have every message    *)
(* once, with the delivery state that was received of it (DmThread).       *)
(***************************************************************************)
EXTENDS AnchorLink, DmThread, FiniteSetTheorems, TLAPS

-----------------------------------------------------------------------------
(* The inductive invariant.  What the status says follows from what is     *)
(* taken to be reachable and from the timer; a live channel keeps its      *)
(* anchor among the reachable because no other channel of that anchor can  *)
(* report an error; and there is no other because an anchor that has yet   *)
(* to be asked in this run has not been joined in it.                      *)

SocketsMade == \A a \in cached : made[a] >= 1

TimerIsTrue ==
  /\ timer = "fired" => status = "degraded"
  /\ timer = "armed" => reachable = {}
  /\ configured /\ reachable = {} => status = "degraded" \/ timer = "armed"

ReachableIsShown ==
  /\ reachable # {} => status = "connected"
  /\ status = "degraded" => reachable = {}

LiveIsReachable == \A channel \in live : channel.at \in reachable

AskedIsUnjoined ==
  \A ask \in asks : ask[2] = run => \A i \in DOMAIN joined : joined[i].at # ask[1]

LinkInv ==
  /\ LinkTypeOK /\ SocketsMade /\ TimerIsTrue /\ ReachableIsShown
  /\ LiveIsReachable /\ AskedIsUnjoined /\ OneChannel

-----------------------------------------------------------------------------
(* What the actions are made of                                            *)

SocketsTyped ==
  /\ made \in [Anchors -> 0..MaxSockets]
  /\ cached \subseteq Anchors /\ current \subseteq cached
  /\ opened \subseteq cached \cap up /\ refused \subseteq cached

ShownTyped ==
  /\ reachable \subseteq Anchors
  /\ status \in {"connecting", "connected", "degraded"}
  /\ timer \in {"off", "armed", "fired"}

(* getSocket loses no channel but those of the anchor, and those always    *)
(* when there is no session.                                               *)
LEMMA UseSocketKeeps ==
  ASSUME SocketsTyped, SocketsMade, NEW a \in Anchors, NEW session \in BOOLEAN,
         UseSocket(a, session), up' = up
  PROVE  /\ SocketsTyped' /\ SocketsMade' /\ live' \subseteq live
         /\ session => a \in cached' /\ made'[a] \in 1..MaxSockets
         /\ ~session => \A channel \in live' : channel.at # a
<1>1. MaxSockets \in Nat
  BY BoundsAssumption
<1>2. CASE ~session
  <2>1. made' = made /\ cached' = cached \ {a} /\ current' = current \ {a}
    BY <1>2 DEF UseSocket
  <2>2. opened' = opened \ {a} /\ refused' = refused \ {a}
    BY <1>2 DEF UseSocket
  <2>3. live' \subseteq live /\ \A channel \in live' : channel.at # a
    BY <1>2 DEF UseSocket
  <2>4. SocketsTyped' /\ SocketsMade'
    BY <2>1, <2>2 DEF SocketsTyped, SocketsMade
  <2>5. QED
    BY <1>2, <2>3, <2>4
<1>3. CASE session /\ a \in current
  <2>1. made' = made /\ cached' = cached \cup {a} /\ current' = current \cup {a} /\ a \in cached
    BY <1>3 DEF UseSocket, SocketsTyped
  <2>2. opened' = opened /\ refused' = refused /\ live' \subseteq live
    BY <1>3 DEF UseSocket
  <2>3. SocketsTyped'
    BY <2>1, <2>2 DEF SocketsTyped
  <2>4. SocketsMade' /\ a \in cached' /\ made'[a] \in 1..MaxSockets
    BY <1>1, <2>1 DEF SocketsTyped, SocketsMade
  <2>5. QED
    BY <1>3, <2>2, <2>3, <2>4
<1>4. CASE session /\ a \notin current
  <2>1. /\ made' = [made EXCEPT ![a] = @ + 1] /\ made[a] < MaxSockets
        /\ cached' = cached \cup {a} /\ current' = current \cup {a}
        /\ live' \subseteq live
    BY <1>4 DEF UseSocket
  <2>2. opened' = opened \ {a} /\ refused' \subseteq refused \cup {a}
    BY <1>4 DEF UseSocket
  <2>3. made'[a] = made[a] + 1 /\ \A b \in Anchors : b # a => made'[b] = made[b]
    BY <2>1 DEF SocketsTyped
  <2>4. made[a] \in Nat /\ made' \in [Anchors -> 0..MaxSockets]
    BY <1>1, <2>1 DEF SocketsTyped
  <2>5. SocketsTyped'
    BY <2>1, <2>2, <2>4 DEF SocketsTyped
  <2>6. SocketsMade' /\ a \in cached' /\ made'[a] \in 1..MaxSockets
    BY <1>1, <2>1, <2>3, <2>4 DEF SocketsMade, SocketsTyped
  <2>7. QED
    BY <1>4, <2>1, <2>5, <2>6
<1>5. QED
  BY <1>2, <1>3, <1>4

(* recompute founds the status anew, whatever is reachable now.            *)
LEMMA RecomputeFounds ==
  ASSUME ShownTyped, TimerIsTrue, ReachableIsShown, NEW anchors \in SUBSET Anchors,
         Recompute(anchors), UNCHANGED configured
  PROVE  ShownTyped' /\ TimerIsTrue' /\ ReachableIsShown' /\ reachable' = anchors
  BY DEF ShownTyped, TimerIsTrue, ReachableIsShown, Recompute, Armed, Cleared

LEMMA TypeOKParts == LinkTypeOK => SocketsTyped /\ ShownTyped
  BY DEF LinkTypeOK, SocketsTyped, ShownTyped

(* A channel that is live is the only one of its anchor.                   *)
LEMMA OneOfAnAnchor ==
  ASSUME LinkTypeOK, OneChannel, NEW c \in ToSet(joined), NEW d \in ToSet(joined), c.at = d.at
  PROVE  c = d
<1>1. PICK i \in DOMAIN joined, j \in DOMAIN joined : c = joined[i] /\ d = joined[j]
  BY DEF ToSet
<1>2. QED
  BY <1>1 DEF OneChannel

-----------------------------------------------------------------------------
(* The actions                                                             *)

LEMMA LinkStarts == LinkInit => LinkInv
<1> SUFFICES ASSUME LinkInit PROVE LinkInv
  OBVIOUS
<1>1. joined = <<>> /\ live = {} /\ DOMAIN joined = {} /\ ToSet(joined) = {}
  BY DEF LinkInit, ToSet
<1>2. 1 \in Runs /\ MaxSockets \in Nat
  BY BoundsAssumption DEF Runs
<1>3. LinkTypeOK
  BY <1>1, <1>2 DEF LinkInit, LinkTypeOK
<1>4. QED
  BY <1>1, <1>3 DEF LinkInit, LinkInv, SocketsMade, TimerIsTrue, ReachableIsShown, LiveIsReachable,
     AskedIsUnjoined, OneChannel

(* The actions that only take from what is live, or touch sockets alone.   *)
LEMMA FewerLive ==
  ASSUME LinkInv, UNCHANGED <<effect, shown>>, up' \subseteq Anchors, SocketsTyped', SocketsMade',
         live' \subseteq live
  PROVE  LinkInv'
  BY DEF LinkInv, LinkTypeOK, SocketsTyped, effect, shown, TimerIsTrue, ReachableIsShown,
     LiveIsReachable, AskedIsUnjoined, OneChannel

LEMMA TimerFiresKeeps == ASSUME LinkInv, TimerFires PROVE LinkInv'
<1>1. LinkTypeOK'
  BY DEF LinkInv, LinkTypeOK, TimerFires, sockets, effect
<1>2. SocketsMade' /\ LiveIsReachable' /\ AskedIsUnjoined' /\ OneChannel'
  BY DEF LinkInv, SocketsMade, LiveIsReachable, AskedIsUnjoined, OneChannel, TimerFires, sockets,
     effect
<1>3. TimerIsTrue' /\ ReachableIsShown'
  BY DEF LinkInv, TimerIsTrue, ReachableIsShown, TimerFires, effect
<1>4. QED
  BY <1>1, <1>2, <1>3 DEF LinkInv

LEMMA RunAgainKeeps == ASSUME LinkInv, RunAgain PROVE LinkInv'
<1>1. /\ joined' = <<>> /\ live' = {} /\ reachable' = {} /\ run' = run + 1 /\ run < MaxRuns
      /\ DOMAIN joined' = {} /\ ToSet(joined') = {}
  BY DEF RunAgain, LeaveChannels, ToSet
<1>2. run' \in Runs
  BY <1>1, BoundsAssumption DEF LinkInv, LinkTypeOK, Runs
<1>3. configured' \in BOOLEAN /\ asks' \subseteq Anchors \X Runs
  <2>1. asks' \subseteq asks \cup (Anchors \X {run'})
    BY DEF RunAgain
  <2>2. QED
    BY <1>2, <2>1 DEF LinkInv, LinkTypeOK, RunAgain
<1>4. /\ status' \in {"connecting", "connected", "degraded"} /\ timer' \in {"off", "armed"}
      /\ configured' => timer' = "armed"
  BY DEF LinkInv, LinkTypeOK, RunAgain, Armed, Cleared
<1>5. LinkTypeOK'
  BY <1>1, <1>2, <1>3, <1>4 DEF LinkInv, LinkTypeOK, RunAgain, sockets
<1>6. SocketsMade' /\ LiveIsReachable' /\ AskedIsUnjoined' /\ OneChannel'
  BY <1>1 DEF LinkInv, SocketsMade, LiveIsReachable, AskedIsUnjoined, OneChannel, RunAgain, sockets
<1>7. TimerIsTrue' /\ ReachableIsShown'
  BY <1>1, <1>4 DEF TimerIsTrue, ReachableIsShown
<1>8. QED
  BY <1>5, <1>6, <1>7 DEF LinkInv

(* A channel is added only for an ask of this run, of which its anchor had *)
(* one.                                                                    *)
LEMMA AskAnsweredKeeps ==
  ASSUME LinkInv, NEW ask \in asks, AskAnswered(ask)
  PROVE  LinkInv'
<1>1. ask \in Anchors \X Runs /\ asks' = asks \ {ask} /\ UNCHANGED <<up, run, configured, shown>>
  BY DEF LinkInv, LinkTypeOK, AskAnswered
<1>2. /\ SocketsTyped' /\ SocketsMade' /\ live' \subseteq live
      /\ made'[ask[1]] \in 1..MaxSockets
  BY <1>1, TypeOKParts, UseSocketKeeps DEF LinkInv, AskAnswered
<1>3. CASE Cancelled(ask)
  <2>1. joined' = joined
    BY <1>3 DEF AskAnswered
  <2>2. LinkTypeOK'
    BY <1>1, <1>2, <2>1 DEF LinkInv, LinkTypeOK, SocketsTyped, shown
  <2>3. QED
    BY <1>1, <1>2, <2>1, <2>2 DEF LinkInv, TimerIsTrue, ReachableIsShown, LiveIsReachable,
       AskedIsUnjoined, OneChannel, shown
<1>4. CASE ~Cancelled(ask)
  <2> DEFINE new == [at |-> ask[1], run |-> ask[2], socket |-> made'[ask[1]]]
  <2>1. new \in Channels /\ new.at = ask[1] /\ new.run = run
    BY <1>1, <1>2, <1>4 DEF Channels, Cancelled
  <2>2. joined' = Append(joined, new) /\ joined \in Seq(Channels)
    BY <1>4 DEF AskAnswered, LinkInv, LinkTypeOK
  <2> HIDE DEF new
  <2>3. /\ joined' \in Seq(Channels) /\ DOMAIN joined' = DOMAIN joined \cup {Len(joined) + 1}
        /\ joined'[Len(joined) + 1] = new
        /\ \A i \in DOMAIN joined : joined'[i] = joined[i]
    BY <2>1, <2>2
  <2>4. ToSet(joined') = ToSet(joined) \cup {new}
    BY <2>3 DEF ToSet
  <2>5. LinkTypeOK'
    BY <1>1, <1>2, <2>3, <2>4 DEF LinkInv, LinkTypeOK, SocketsTyped, shown
  <2>6. \A i \in DOMAIN joined : joined[i].at # ask[1]
    BY <1>4 DEF LinkInv, AskedIsUnjoined, Cancelled
  <2>7. OneChannel'
    <3>1. \A channel \in ToSet(joined') : channel.run = run'
      BY <1>1, <2>1, <2>4 DEF LinkInv, OneChannel
    <3>2. ASSUME NEW i \in DOMAIN joined', NEW j \in DOMAIN joined', joined'[i].at = joined'[j].at
          PROVE  i = j
      BY <2>1, <2>3, <2>6, <3>2 DEF LinkInv, OneChannel
    <3>3. QED
      BY <3>1, <3>2 DEF OneChannel
  <2>8. AskedIsUnjoined'
    <3> SUFFICES ASSUME NEW other \in asks, other # ask, other[2] = run, NEW i \in DOMAIN joined'
                 PROVE  joined'[i].at # other[1]
      BY <1>1 DEF AskedIsUnjoined
    <3>1. other \in Anchors \X Runs /\ ask[2] = run
      BY <1>4 DEF LinkInv, LinkTypeOK, Cancelled
    <3>2. other[1] # ask[1]
      BY <1>1, <3>1
    <3>3. QED
      BY <2>1, <2>3, <3>2 DEF LinkInv, AskedIsUnjoined
  <2>9. QED
    BY <1>1, <1>2, <2>5, <2>7, <2>8 DEF LinkInv, TimerIsTrue, ReachableIsShown, LiveIsReachable,
       shown
<1>5. QED
  BY <1>3, <1>4

(* Without a session the anchor is not reachable, and has no live channel. *)
LEMMA AskRefusedKeeps ==
  ASSUME LinkInv, NEW ask \in asks, AskRefused(ask)
  PROVE  LinkInv'
<1>1. ask \in Anchors \X Runs /\ UNCHANGED <<up, run, configured, joined>> /\ asks' = asks \ {ask}
  BY DEF LinkInv, LinkTypeOK, AskRefused
<1>2. /\ SocketsTyped' /\ SocketsMade' /\ live' \subseteq live
      /\ \A channel \in live' : channel.at # ask[1]
  BY <1>1, TypeOKParts, UseSocketKeeps DEF LinkInv, AskRefused
<1>3. /\ ShownTyped' /\ TimerIsTrue' /\ ReachableIsShown'
      /\ reachable' = reachable \/ reachable' = reachable \ {ask[1]}
  <2>1. CASE Cancelled(ask)
    BY <1>1, <2>1, TypeOKParts DEF LinkInv, AskRefused, shown, ShownTyped, TimerIsTrue,
       ReachableIsShown
  <2>2. CASE ~Cancelled(ask)
    <3>1. Recompute(reachable \ {ask[1]})
      BY <2>2 DEF AskRefused
    <3>2. reachable \ {ask[1]} \in SUBSET Anchors
      BY DEF LinkInv, LinkTypeOK
    <3>3. configured' = configured
      BY <1>1
    <3>4. QED
      BY <3>1, <3>2, <3>3, TypeOKParts, RecomputeFounds DEF LinkInv
  <2>3. QED
    BY <2>1, <2>2
<1>4. LinkTypeOK'
  BY <1>1, <1>2, <1>3 DEF LinkInv, LinkTypeOK, SocketsTyped, ShownTyped
<1>5. LiveIsReachable' /\ AskedIsUnjoined' /\ OneChannel'
  BY <1>1, <1>2, <1>3 DEF LinkInv, LiveIsReachable, AskedIsUnjoined, OneChannel
<1>6. QED
  BY <1>2, <1>3, <1>4, <1>5 DEF LinkInv

LEMMA PresentKeeps ==
  ASSUME LinkInv, NEW channel \in ToSet(joined), Present(channel)
  PROVE  LinkInv'
<1>1. UNCHANGED <<up, sockets, effect>> /\ live' = live \cup {channel} /\ channel.at \in Anchors
  BY DEF Present, LinkInv, LinkTypeOK, ToSet, Channels
<1>2. /\ ShownTyped' /\ TimerIsTrue' /\ ReachableIsShown'
      /\ reachable' = reachable \cup {channel.at}
  <2>1. Recompute(reachable \cup {channel.at}) /\ reachable \cup {channel.at} \in SUBSET Anchors
    BY <1>1 DEF Present, LinkInv, LinkTypeOK
  <2>2. QED
    BY <1>1, <2>1, TypeOKParts, RecomputeFounds DEF LinkInv, effect
<1>3. LinkTypeOK'
  BY <1>1, <1>2 DEF LinkInv, LinkTypeOK, ShownTyped, effect, sockets
<1>4. SocketsMade' /\ LiveIsReachable' /\ AskedIsUnjoined' /\ OneChannel'
  BY <1>1, <1>2 DEF LinkInv, SocketsMade, LiveIsReachable, AskedIsUnjoined, OneChannel, effect,
     sockets
<1>5. QED
  BY <1>2, <1>3, <1>4 DEF LinkInv

(* An anchor that is taken from the reachable has no live channel: the one *)
(* that reports is its only one.                                           *)
LEMMA UnreachableKeeps ==
  ASSUME LinkInv, NEW channel \in ToSet(joined), Unreachable(channel)
  PROVE  LinkInv'
<1>1. UNCHANGED <<up, sockets, effect, live>> /\ channel \notin live
  BY DEF Unreachable
<1>2. /\ ShownTyped' /\ TimerIsTrue' /\ ReachableIsShown'
      /\ reachable' = reachable \ {channel.at}
  <2>1. Recompute(reachable \ {channel.at}) /\ reachable \ {channel.at} \in SUBSET Anchors
    BY DEF Unreachable, LinkInv, LinkTypeOK
  <2>2. QED
    BY <1>1, <2>1, TypeOKParts, RecomputeFounds DEF LinkInv, effect
<1>3. LinkTypeOK'
  BY <1>1, <1>2 DEF LinkInv, LinkTypeOK, ShownTyped, effect, sockets
<1>4. LiveIsReachable'
  <2>1. \A other \in live : other.at # channel.at
    BY <1>1, OneOfAnAnchor DEF LinkInv, LinkTypeOK
  <2>2. QED
    BY <1>1, <1>2, <2>1 DEF LinkInv, LiveIsReachable
<1>5. SocketsMade' /\ AskedIsUnjoined' /\ OneChannel'
  BY <1>1 DEF LinkInv, SocketsMade, AskedIsUnjoined, OneChannel, effect, sockets
<1>6. QED
  BY <1>2, <1>3, <1>4, <1>5 DEF LinkInv

LEMMA SurroundingsKeep ==
  ASSUME LinkInv, NEW a \in Anchors,
         \/ OtherScreen(a) \/ Renewed(a) \/ Lapses(a) \/ Connect(a)
         \/ GoesDown(a) \/ ComesUp(a)
  PROVE  LinkInv'
<1>1. CASE OtherScreen(a)
  <2>1. SocketsTyped' /\ SocketsMade' /\ live' \subseteq live
    BY <1>1, TypeOKParts, UseSocketKeeps DEF LinkInv, OtherScreen
  <2>2. QED
    BY <1>1, <2>1, FewerLive DEF LinkInv, LinkTypeOK, OtherScreen
<1>2. CASE Renewed(a) \/ Lapses(a) \/ Connect(a)
  <2>1. SocketsTyped' /\ SocketsMade'
    BY <1>2 DEF LinkInv, LinkTypeOK, SocketsTyped, SocketsMade, Renewed, Lapses, Connect
  <2>2. QED
    BY <1>2, <2>1, FewerLive DEF LinkInv, LinkTypeOK, Renewed, Lapses, Connect
<1>3. CASE GoesDown(a) \/ ComesUp(a)
  <2>1. SocketsTyped' /\ SocketsMade'
    BY <1>3 DEF LinkInv, LinkTypeOK, SocketsTyped, SocketsMade, GoesDown, ComesUp, sockets
  <2>2. QED
    BY <1>3, <2>1, FewerLive DEF LinkInv, LinkTypeOK, GoesDown, ComesUp
<1>4. QED
  BY <1>1, <1>2, <1>3

LEMMA LinkSteps == LinkInv /\ [LinkNext]_linkVars => LinkInv'
<1> SUFFICES ASSUME LinkInv, [LinkNext]_linkVars PROVE LinkInv'
  OBVIOUS
<1>1. CASE TimerFires \/ RunAgain
  BY <1>1, TimerFiresKeeps, RunAgainKeeps
<1>2. CASE Answers
  BY <1>2, AskAnsweredKeeps, AskRefusedKeeps DEF Answers
<1>3. CASE ChannelReports
  BY <1>3, PresentKeeps, UnreachableKeeps DEF ChannelReports
<1>4. ASSUME NEW a \in Anchors,
             \/ OtherScreen(a) \/ Renewed(a) \/ Lapses(a) \/ Connect(a)
             \/ GoesDown(a) \/ ComesUp(a)
      PROVE  LinkInv'
  BY <1>4, SurroundingsKeep
<1>5. CASE UNCHANGED linkVars
  <2>1. SocketsTyped' /\ SocketsMade'
    BY <1>5 DEF LinkInv, LinkTypeOK, SocketsTyped, SocketsMade, linkVars, sockets
  <2>2. QED
    BY <1>5, <2>1, FewerLive DEF LinkInv, LinkTypeOK, linkVars
<1>6. QED
  BY <1>1, <1>2, <1>3, <1>4, <1>5 DEF LinkNext

(* The invariant of every reachable state: status, timer, reachable        *)
(* anchors, channels and asks agree (the effect of anchor-connection.tsx). *)
THEOREM LinkInvariant == LinkSpec => []LinkInv
  BY LinkStarts, LinkSteps, PTL DEF LinkSpec

(* Every reachable state has its type; a live channel is a joined one.     *)
THEOREM TypeCorrect == LinkSpec => []LinkTypeOK
  BY LinkInvariant, PTL DEF LinkInv

(* An anchor has one channel of the user at most, and it belongs to the    *)
(* current run of the effect (the checks of cancelled and the cleanups).   *)
THEOREM HasOneChannel == LinkSpec => []OneChannel
  BY LinkInvariant, PTL DEF LinkInv

(* The status never contradicts what is known: degraded only while nothing *)
(* is taken to be reachable, degraded or waiting for the minute when       *)
(* nothing is, and connected while events can come in (recompute,          *)
(* armDegradedTimer).                                                      *)
THEOREM StatusFounded == LinkSpec => []StatusIsFounded
<1>1. LinkInv => StatusIsFounded
  BY DEF LinkInv, TimerIsTrue, ReachableIsShown, LiveIsReachable, StatusIsFounded
<1>2. QED
  BY <1>1, LinkInvariant, PTL

-----------------------------------------------------------------------------
(* The thread of a conversation                                            *)

(* Lists, messages and conversations have their shape.                     *)
IsList(q) == q \in Seq(ToSet(q))
IsMessage(m) == m = [id |-> m.id, from |-> m.from, to |-> m.to, delivery |-> m.delivery]
IsThread(q) == IsList(q) /\ \A j \in DOMAIN q : IsMessage(q[j])
IsConversation(c) ==
  /\ c = [id |-> c.id, people |-> c.people, request |-> c.request, messages |-> c.messages]
  /\ IsThread(c.messages)

(* An envelope of the user is shown as sent as long as no state of it has  *)
(* been received (t is what was told).                                     *)
SentOrTold(m, t) ==
  m.id \in Envelopes => m.delivery = "sent" \/ \E p \in Peers : t[<<m.id, p>>] # None
Fits(q, t) == IsThread(q) /\ \A j \in DOMAIN q : SentOrTold(q[j], t)
ConversationFits(c, t) == IsConversation(c) /\ Fits(c.messages, t)

Told ==
  /\ told \in [Envelopes \X Peers -> States \cup {None}]
  /\ known = told
InboxFits(box, t) == IsList(box) /\ \A i \in DOMAIN box : ConversationFits(box[i], t)
OpenFits(c, t) == c = None \/ ConversationFits(c, t)
ThreadInv == Told /\ InboxFits(inbox, told) /\ OpenFits(open, told) /\ Fits(items, told)

(* A conversation is listed once, and so is a message.                     *)
Distinct(box) == \A i, j \in DOMAIN box : box[i].id = box[j].id => i = j
Once(c) ==
  \A j, l \in DOMAIN c.messages : c.messages[j].id = c.messages[l].id => j = l
OnceEach(box) ==
  /\ \A i \in DOMAIN box : Once(box[i])
  /\ \A i, j \in DOMAIN box : i # j => MessageIds(box[i]) \cap MessageIds(box[j]) = {}

(* An envelope of somebody else is in the conversation of those who take   *)
(* part in it, and one of the user's own was accepted.                     *)
Belongs(c, id, done) ==
  \/ id \in Mail /\ c = Thread(Author[id], Audience[id])
  \/ \E n \in done : id = Env(n)
InTheirs(box, done) ==
  \A i \in DOMAIN box : \A id \in MessageIds(box[i]) : Belongs(box[i].id, id, done)
Has(box, id) == \E i \in DOMAIN box : id \in MessageIds(box[i])
AllThere(box, mail, done) == \A id \in mail \cup {Env(n) : n \in done} : Has(box, id)

(* A submission has a number of its own, and is not settled.               *)
Numbered ==
  /\ sent \in 0..MaxSends /\ taken \subseteq 1..sent /\ settled \subseteq 1..sent
  /\ \A s \in sends : s.n \in 1..sent /\ s.n \notin settled
  /\ \A s, r \in sends : s.n = r.n => s = r
AreSends(set) ==
  \A s \in set : s = [n |-> s.n, starts |-> s.starts, to |-> s.to, thread |-> s.thread,
                      here |-> s.here]
ListInv ==
  /\ heard \subseteq Mail /\ AreSends(sends)
  /\ Distinct(inbox) /\ OnceEach(inbox)
  /\ InTheirs(inbox, settled) /\ AllThere(inbox, heard, settled) /\ Numbered

(* Lists.                                                                  *)
LEMMA ListIs ==
  ASSUME NEW q, IsList(q)
  PROVE  \E n \in Nat : Len(q) = n /\ DOMAIN q = 1..n /\ q = [j \in 1..n |-> q[j]]
<1>1. PICK T : T = ToSet(q)
  OBVIOUS
<1>2. q \in Seq(T)
  BY <1>1 DEF IsList
<1>3. QED
  BY <1>2

LEMMA IsListOf ==
  ASSUME NEW n \in Nat, NEW q, q = [j \in 1..n |-> q[j]]
  PROVE  IsList(q) /\ Len(q) = n /\ DOMAIN q = 1..n
<1>1. DOMAIN q = 1..n
  OBVIOUS
<1>2. PICK T : T = ToSet(q)
  OBVIOUS
<1>3. \A j \in 1..n : q[j] \in T
  BY <1>1, <1>2 DEF ToSet
<1>4. q \in [1..n -> T]
  BY <1>3
<1>5. q \in Seq(T) /\ Len(q) = n
  BY <1>4
<1>6. QED
  BY <1>1, <1>2, <1>5 DEF IsList

Joins(a, b, c) ==
  /\ IsList(c) /\ DOMAIN c = 1..(Len(a) + Len(b))
  /\ \A j \in 1..Len(a) : c[j] = a[j]
  /\ \A j \in 1..Len(b) : c[Len(a) + j] = b[j]
LEMMA Joined ==
  ASSUME NEW a, NEW b, IsList(a), IsList(b)
  PROVE  Joins(a, b, a \o b)
<1>1. PICK T : T = ToSet(a) \cup ToSet(b)
  OBVIOUS
<1>2. a \in Seq(T) /\ b \in Seq(T)
  BY <1>1 DEF IsList
<1>3. Len(a) \in Nat /\ Len(b) \in Nat
  BY <1>2
<1>4. PICK c : c = a \o b
  OBVIOUS
<1>5. c \in Seq(T) /\ Len(c) = Len(a) + Len(b)
  BY <1>2, <1>4
<1>6. DOMAIN c = 1..Len(c)
  BY <1>5
<1>7. c = [j \in 1..Len(c) |-> c[j]]
  BY <1>5
<1>8. IsList(c)
  <2>1. Len(c) \in Nat
    BY <1>5
  <2>2. QED
    BY <1>7, <2>1, IsListOf
<1>9. ASSUME NEW j \in 1..Len(a) PROVE c[j] = a[j]
  BY <1>2, <1>4
<1>10. ASSUME NEW j \in 1..Len(b) PROVE c[Len(a) + j] = b[j]
  <2>1. Len(a) + j \in (Len(a) + 1)..(Len(a) + Len(b)) /\ (Len(a) + j) - Len(a) = j
    BY <1>3
  <2>2. QED
    BY <1>2, <1>4, <2>1
<1>11. Joins(a, b, c)
  BY <1>5, <1>6, <1>8, <1>9, <1>10 DEF Joins
<1>12. QED
  BY <1>4, <1>11

LEMMA OneIsList ==
  ASSUME NEW x
  PROVE  IsList(<<x>>) /\ Len(<<x>>) = 1 /\ DOMAIN <<x>> = {1} /\ <<x>>[1] = x
<1>1. <<x>> = [j \in 1..1 |-> <<x>>[j]]
  OBVIOUS
<1>2. IsList(<<x>>) /\ DOMAIN <<x>> = 1..1
  BY <1>1, IsListOf
<1>3. QED
  BY <1>2

LEMMA NoneIsList == IsList(<<>>) /\ Len(<<>>) = 0 /\ DOMAIN <<>> = {}
<1>1. <<>> \in Seq(ToSet(<<>>))
  OBVIOUS
<1>2. QED
  BY <1>1 DEF IsList

-----------------------------------------------------------------------------
(* A state that comes early is shown                                       *)

LEMMA IdsDiffer ==
  /\ \A n : Local(n) \notin Envelopes
  /\ \A m \in Mail : m \notin Envelopes
  /\ \A n \in 1..MaxSends : Env(n) \in Envelopes /\ Env(n) \notin Mail
  /\ \A n, k : Env(n) = Env(k) => n = k
<1>1. ASSUME NEW n PROVE Local(n) \notin Envelopes
  <2>1. ASSUME NEW x \in Envelopes PROVE x[1] = "env"
    BY DEF Envelopes
  <2>2. Local(n)[1] = "local"
    BY DEF Local
  <2>3. "local" # "env"
    OBVIOUS
  <2>4. QED
    BY <2>1, <2>2, <2>3
<1>2. \A n \in 1..MaxSends : Env(n) \in Envelopes
  BY DEF Env, Envelopes
<1>3. \A n, k : Env(n) = Env(k) => n = k
  BY DEF Env
<1>4. QED
  BY <1>1, <1>2, <1>3, IdsAssumption

LEMMA EmptyFits == ASSUME NEW t PROVE Fits(<<>>, t)
  BY NoneIsList DEF Fits, IsThread

LEMMA OneFits ==
  ASSUME NEW m, NEW t, IsMessage(m), SentOrTold(m, t)
  PROVE  Fits(<<m>>, t)
  BY OneIsList DEF Fits, IsThread

LEMMA JoinedFits ==
  ASSUME NEW t, NEW a, NEW b, Fits(a, t), Fits(b, t)
  PROVE  Fits(a \o b, t)
<1>1. PICK c : c = a \o b
  OBVIOUS
<1>2. /\ IsList(a) /\ IsList(b)
      /\ IsList(c) /\ DOMAIN c = 1..(Len(a) + Len(b))
      /\ \A j \in 1..Len(a) : c[j] = a[j]
      /\ \A j \in 1..Len(b) : c[Len(a) + j] = b[j]
  <2>1. IsList(a) /\ IsList(b)
    BY DEF Fits, IsThread
  <2>2. Joins(a, b, a \o b)
    BY <2>1, Joined
  <2>3. QED
    BY <1>1, <2>1, <2>2 DEF Joins
<1>3. PICK n \in Nat : Len(a) = n /\ DOMAIN a = 1..n
  BY <1>2, ListIs
<1>4. PICK k \in Nat : Len(b) = k /\ DOMAIN b = 1..k
  BY <1>2, ListIs
<1>5. ASSUME NEW j \in DOMAIN c PROVE IsMessage(c[j]) /\ SentOrTold(c[j], t)
  <2>1. CASE j \in 1..n
    BY <1>2, <1>3, <2>1 DEF Fits, IsThread
  <2>2. CASE j \notin 1..n
    <3>1. j - n \in 1..k /\ n + (j - n) = j
      BY <1>2, <1>3, <1>4, <2>2
    <3>2. c[j] = b[j - n]
      BY <1>2, <1>3, <1>4, <3>1
    <3>3. QED
      BY <1>4, <3>1, <3>2 DEF Fits, IsThread
  <2>3. QED
    BY <2>1, <2>2
<1>6. QED
  BY <1>1, <1>2, <1>5 DEF Fits, IsThread

(* A thread of which some messages are others now.                         *)
LEMMA MappedFits ==
  ASSUME NEW t, NEW u, NEW q, NEW r, IsThread(q), DOMAIN r = DOMAIN q,
         r = [j \in DOMAIN q |-> r[j]],
         \A j \in DOMAIN q : IsMessage(r[j]) /\ SentOrTold(r[j], u)
  PROVE  Fits(r, u)
<1>1. PICK n \in Nat : DOMAIN q = 1..n
  BY ListIs DEF IsThread
<1>2. IsList(r)
  BY <1>1, IsListOf
<1>3. QED
  BY <1>2 DEF Fits, IsThread

LEMMA DeliveredIs ==
  ASSUME NEW m, IsMessage(m), NEW d
  PROVE  /\ IsMessage([m EXCEPT !.delivery = d])
         /\ [m EXCEPT !.delivery = d].id = m.id /\ [m EXCEPT !.delivery = d].delivery = d
<1>1. PICK i, f, o, e : m = [id |-> i, from |-> f, to |-> o, delivery |-> e]
  BY DEF IsMessage
<1>2. [m EXCEPT !.delivery = d] = [id |-> i, from |-> f, to |-> o, delivery |-> d]
  BY <1>1
<1>3. QED
  BY <1>1, <1>2 DEF IsMessage

LEMMA OwnIs ==
  ASSUME NEW id, NEW to, NEW state
  PROVE  /\ IsMessage(Own(id, to, state)) /\ Own(id, to, state).id = id
         /\ Own(id, to, state).delivery = state
  BY DEF Own, IsMessage

LEMMA SettledFits ==
  ASSUME NEW s, NEW t
  PROVE  IsMessage(Settled(s)) /\ SentOrTold(Settled(s), t) /\ Settled(s).id = Env(s.n)
  BY OwnIs DEF Settled, SentOrTold

LEMMA WithFits ==
  ASSUME NEW t, NEW q, Fits(q, t), NEW id, NEW s
  PROVE  Fits(With(q, id, Settled(s)), t)
<1>1. PICK r : r = With(q, id, Settled(s))
  OBVIOUS
<1>2. r = [j \in DOMAIN q |-> IF q[j].id = id THEN Settled(s) ELSE q[j]]
  BY <1>1 DEF With
<1>3. \A j \in DOMAIN q : IsMessage(r[j]) /\ SentOrTold(r[j], t)
  BY <1>2, SettledFits DEF Fits, IsThread
<1>4. DOMAIN r = DOMAIN q /\ r = [j \in DOMAIN q |-> r[j]]
  BY <1>2
<1>5. QED
  BY <1>1, <1>3, <1>4, MappedFits DEF Fits

LEMMA QueuedFits ==
  ASSUME NEW t, NEW q, Fits(q, t), NEW n
  PROVE  Fits(Queued(q, Local(n)), t)
<1>1. PICK r : r = Queued(q, Local(n))
  OBVIOUS
<1>2. r = [j \in DOMAIN q |->
             IF q[j].id = Local(n) THEN [q[j] EXCEPT !.delivery = "queued"] ELSE q[j]]
  BY <1>1 DEF Queued
<1>3. ASSUME NEW j \in DOMAIN q PROVE IsMessage(r[j]) /\ SentOrTold(r[j], t)
  <2>1. IsMessage(q[j]) /\ SentOrTold(q[j], t)
    BY DEF Fits, IsThread
  <2>2. CASE q[j].id = Local(n)
    <3>1. r[j] = [q[j] EXCEPT !.delivery = "queued"]
      BY <1>2, <2>2
    <3>2. IsMessage(r[j]) /\ r[j].id = Local(n)
      BY <2>1, <2>2, <3>1, DeliveredIs
    <3>3. QED
      BY <3>2, IdsDiffer DEF SentOrTold
  <2>3. CASE q[j].id # Local(n)
    BY <1>2, <2>1, <2>3
  <2>4. QED
    BY <2>2, <2>3
<1>4. DOMAIN r = DOMAIN q /\ r = [j \in DOMAIN q |-> r[j]]
  BY <1>2
<1>5. QED
  BY <1>1, <1>3, <1>4, MappedFits DEF Fits

LEMMA FlushedFits ==
  ASSUME NEW t, NEW q, Fits(q, t)
  PROVE  Fits(Flushed(q), t)
<1>1. PICK r : r = Flushed(q)
  OBVIOUS
<1>2. r = [j \in DOMAIN q |->
             IF q[j].delivery = "queued" THEN [q[j] EXCEPT !.delivery = "sent"] ELSE q[j]]
  BY <1>1 DEF Flushed
<1>3. ASSUME NEW j \in DOMAIN q PROVE IsMessage(r[j]) /\ SentOrTold(r[j], t)
  <2>1. IsMessage(q[j]) /\ SentOrTold(q[j], t)
    BY DEF Fits, IsThread
  <2>2. CASE q[j].delivery = "queued"
    <3>1. r[j] = [q[j] EXCEPT !.delivery = "sent"]
      BY <1>2, <2>2
    <3>2. IsMessage(r[j]) /\ r[j].delivery = "sent"
      BY <2>1, <3>1, DeliveredIs
    <3>3. QED
      BY <3>2 DEF SentOrTold
  <2>3. CASE q[j].delivery # "queued"
    BY <1>2, <2>1, <2>3
  <2>4. QED
    BY <2>2, <2>3
<1>4. DOMAIN r = DOMAIN q /\ r = [j \in DOMAIN q |-> r[j]]
  BY <1>2
<1>5. QED
  BY <1>1, <1>3, <1>4, MappedFits DEF Fits

(* Conversations.                                                          *)
LEMMA MessagesAre ==
  ASSUME NEW c, IsConversation(c), NEW q, NEW d, d = [c EXCEPT !.messages = q]
  PROVE  d.id = c.id /\ d.messages = q /\ (IsThread(q) => IsConversation(d))
<1>1. PICK i, p, r, m : c = [id |-> i, people |-> p, request |-> r, messages |-> m]
  BY DEF IsConversation
<1>2. d = [id |-> i, people |-> p, request |-> r, messages |-> q]
  BY <1>1
<1>3. QED
  BY <1>1, <1>2 DEF IsConversation

LEMMA RenamedIs ==
  ASSUME NEW c, IsConversation(c), NEW id, NEW d, d = [c EXCEPT !.id = id]
  PROVE  d.id = id /\ d.messages = c.messages /\ IsConversation(d)
<1>1. PICK i, p, r, m : c = [id |-> i, people |-> p, request |-> r, messages |-> m]
  BY DEF IsConversation
<1>2. d = [id |-> id, people |-> p, request |-> r, messages |-> m]
  BY <1>1
<1>3. QED
  BY <1>1, <1>2 DEF IsConversation

LEMMA RequestIs ==
  ASSUME NEW c, IsConversation(c), NEW b
  PROVE  /\ [c EXCEPT !.request = b].id = c.id
         /\ [c EXCEPT !.request = b].messages = c.messages
         /\ IsConversation([c EXCEPT !.request = b])
<1>1. PICK i, p, r, m : c = [id |-> i, people |-> p, request |-> r, messages |-> m]
  BY DEF IsConversation
<1>2. [c EXCEPT !.request = b] = [id |-> i, people |-> p, request |-> b, messages |-> m]
  BY <1>1
<1>3. QED
  BY <1>1, <1>2 DEF IsConversation

(* What comes in has one message.                                          *)
Incoming(inc, x) == IsConversation(inc) /\ \E m : inc.messages = <<m>> /\ m.id = x
LEMMA NewsAre ==
  ASSUME NEW c, NEW inc, NEW x, Incoming(inc, x)
  PROVE  /\ IsList(inc.messages) /\ Len(inc.messages) = 1 /\ DOMAIN inc.messages = {1}
         /\ inc.messages[1].id = x
         /\ News(c, inc) = IF x \in MessageIds(c) THEN <<>> ELSE inc.messages
<1>1. PICK m : inc.messages = <<m>> /\ m.id = x
  BY DEF Incoming
<1>2. PICK q : q = <<m>>
  OBVIOUS
<1>3. IsList(q) /\ Len(q) = 1 /\ DOMAIN q = {1} /\ q[1] = m
  BY <1>2, OneIsList
<1>4. inc.messages = q
  BY <1>1, <1>2
<1>5. QED
  BY <1>1, <1>3, <1>4 DEF News

LEMMA MergedIs ==
  ASSUME NEW c, IsConversation(c), NEW inc, NEW x, Incoming(inc, x)
  PROVE  /\ Merged(c, inc).id = c.id
         /\ Merged(c, inc).messages = c.messages \o News(c, inc)
         /\ Merged(c, inc) = [id |-> Merged(c, inc).id, people |-> Merged(c, inc).people,
                              request |-> Merged(c, inc).request,
                              messages |-> Merged(c, inc).messages]
<1>1. PICK i, p, r, m : c = [id |-> i, people |-> p, request |-> r, messages |-> m]
  BY DEF IsConversation
<1>2. PICK n : n = Newcomers(c, inc)
  OBVIOUS
<1>3. PICK w : w = News(c, inc)
  OBVIOUS
<1>4. Merged(c, inc) = [c EXCEPT !.people = @ \o n, !.request = inc.request, !.messages = @ \o w]
  BY <1>2, <1>3 DEF Merged
<1>5. PICK o, u, v : o = p \o n /\ u = m \o w /\ v = inc.request
  OBVIOUS
<1>6. Merged(c, inc) = [id |-> i, people |-> o, request |-> v, messages |-> u]
  <2>1. c.people = p /\ c.messages = m
    BY <1>1
  <2>2. Merged(c, inc) = [c EXCEPT !.people = o, !.request = v, !.messages = u]
    BY <1>4, <1>5, <2>1
  <2>3. PICK d : d = [c EXCEPT !.people = o]
    OBVIOUS
  <2>4. PICK e : e = [d EXCEPT !.request = v]
    OBVIOUS
  <2>5. [c EXCEPT !.people = o, !.request = v, !.messages = u] = [e EXCEPT !.messages = u]
    BY <2>3, <2>4
  <2>6. d = [id |-> i, people |-> o, request |-> r, messages |-> m]
    BY <1>1, <2>3
  <2>7. e = [id |-> i, people |-> o, request |-> v, messages |-> m]
    BY <2>4, <2>6
  <2>8. [e EXCEPT !.messages = u] = [id |-> i, people |-> o, request |-> v, messages |-> u]
    BY <2>7
  <2>9. QED
    BY <2>2, <2>5, <2>8
<1>7. c.id = i /\ c.messages = m
  BY <1>1
<1>8. PICK z : z = Merged(c, inc)
  OBVIOUS
<1>9. z = [id |-> i, people |-> o, request |-> v, messages |-> u]
  BY <1>6, <1>8
<1>10. z.id = i /\ z.messages = u
       /\ z = [id |-> z.id, people |-> z.people, request |-> z.request, messages |-> z.messages]
  BY <1>9
<1>11. u = c.messages \o News(c, inc)
  BY <1>3, <1>5, <1>7
<1>12. QED
  BY <1>7, <1>8, <1>10, <1>11

LEMMA MergedFits ==
  ASSUME NEW t, NEW c, ConversationFits(c, t), NEW inc, NEW x, Incoming(inc, x),
         ConversationFits(inc, t)
  PROVE  ConversationFits(Merged(c, inc), t)
<1>1. PICK w : w = News(c, inc)
  OBVIOUS
<1>2. w = <<>> \/ w = inc.messages
  BY <1>1 DEF News
<1>3. Fits(w, t)
  BY <1>2, EmptyFits DEF ConversationFits
<1>4. Fits(c.messages \o w, t)
  BY <1>3, JoinedFits DEF ConversationFits
<1>5. Merged(c, inc).messages = c.messages \o w
  BY <1>1, MergedIs DEF ConversationFits
<1>6. IsConversation(Merged(c, inc))
  BY <1>4, <1>5, MergedIs DEF ConversationFits, IsConversation, Fits
<1>7. QED
  BY <1>4, <1>5, <1>6 DEF ConversationFits

(* The list with what comes in: merged into the conversation with its id,  *)
(* or as another one in front.                                             *)
Into(box, inc, r, i) ==
  /\ i \in DOMAIN box /\ box[i].id = inc.id /\ DOMAIN r = DOMAIN box
  /\ r[i] = Merged(box[i], inc) /\ \A k \in DOMAIN box : k # i => r[k] = box[k]
InFront(box, inc, r) ==
  /\ \A i \in DOMAIN box : box[i].id # inc.id
  /\ r[1] = inc /\ DOMAIN r = 1..(Len(box) + 1)
  /\ \A k \in DOMAIN box : r[1 + k] = box[k]
LEMMA MergeIntoIs ==
  ASSUME NEW box, IsList(box), Distinct(box), NEW inc
  PROVE  /\ IsList(MergeInto(box, inc))
         /\ \/ \E i \in DOMAIN box : Into(box, inc, MergeInto(box, inc), i)
            \/ InFront(box, inc, MergeInto(box, inc))
<1>1. PICK n \in Nat : Len(box) = n /\ DOMAIN box = 1..n /\ box = [j \in 1..n |-> box[j]]
  BY ListIs
<1>2. PICK r : r = MergeInto(box, inc)
  OBVIOUS
<1>3. CASE \E i \in DOMAIN box : box[i].id = inc.id
  <2>1. PICK i \in 1..n : box[i].id = inc.id
    BY <1>1, <1>3
  <2>2. \A j \in 1..(i - 1) : box[j].id # inc.id
    <3>1. ASSUME NEW j \in 1..(i - 1), box[j].id = inc.id PROVE FALSE
      <4>1. j \in 1..n /\ j # i
        BY <2>1
      <4>2. QED
        BY <1>1, <2>1, <3>1, <4>1 DEF Distinct
    <3>2. QED
      BY <3>1
  <2>3. PICK k : k = CHOOSE l \in DOMAIN box : /\ box[l].id = inc.id
                                               /\ \A j \in 1..(l - 1) : box[j].id # inc.id
    OBVIOUS
  <2>4. k \in DOMAIN box /\ box[k].id = inc.id
    BY <1>1, <2>1, <2>2, <2>3
  <2>5. k = i
    BY <1>1, <2>1, <2>4 DEF Distinct
  <2>6. r = [box EXCEPT ![k] = Merged(@, inc)]
    BY <1>2, <1>3, <2>3 DEF MergeInto
  <2>7. DOMAIN r = 1..n /\ r = [j \in 1..n |-> r[j]]
    BY <1>1, <2>6
  <2>8. IsList(r)
    BY <2>7, IsListOf
  <2>9. Into(box, inc, r, k)
    BY <1>1, <2>4, <2>6, <2>7 DEF Into
  <2>10. QED
    BY <1>2, <2>4, <2>8, <2>9
<1>4. CASE ~\E i \in DOMAIN box : box[i].id = inc.id
  <2>1. r = <<inc>> \o box
    BY <1>2, <1>4 DEF MergeInto
  <2>2. PICK o : o = <<inc>>
    OBVIOUS
  <2>3. IsList(o) /\ Len(o) = 1 /\ o[1] = inc
    BY <2>2, OneIsList
  <2>4. r = o \o box /\ IsList(box)
    BY <2>1, <2>2
  <2>5. /\ IsList(r) /\ DOMAIN r = 1..(Len(o) + Len(box))
        /\ \A j \in 1..Len(o) : r[j] = o[j]
        /\ \A j \in 1..Len(box) : r[Len(o) + j] = box[j]
    <3>1. IsList(o) /\ IsList(box)
      BY <2>3
    <3>2. Joins(o, box, o \o box)
      BY <3>1, Joined
    <3>3. QED
      BY <2>4, <3>2 DEF Joins
  <2>6. IsList(r) /\ DOMAIN r = 1..(n + 1) /\ r[1] = inc /\ \A j \in 1..n : r[1 + j] = box[j]
    BY <1>1, <2>3, <2>5
  <2>7. InFront(box, inc, r)
    BY <1>1, <1>4, <2>6 DEF InFront
  <2>8. QED
    BY <1>2, <2>6, <2>7
<1>5. QED
  BY <1>3, <1>4

LEMMA InFrontOrLater ==
  ASSUME NEW box, IsList(box), NEW inc, NEW r, InFront(box, inc, r)
  PROVE  \A i \in DOMAIN r : i = 1 \/ (i - 1 \in DOMAIN box /\ i # 1 /\ r[i] = box[i - 1])
<1>1. PICK n \in Nat : Len(box) = n /\ DOMAIN box = 1..n
  BY ListIs
<1>2. ASSUME NEW i \in DOMAIN r, i # 1 PROVE i - 1 \in DOMAIN box /\ r[i] = box[i - 1]
  <2>1. i \in 1..(n + 1)
    BY <1>1, <1>2 DEF InFront
  <2>2. i - 1 \in 1..n /\ 1 + (i - 1) = i
    BY <1>2, <2>1
  <2>3. QED
    BY <1>1, <2>2 DEF InFront
<1>3. QED
  BY <1>2

LEMMA MergeIntoFits ==
  ASSUME NEW t, NEW box, InboxFits(box, t), Distinct(box),
         NEW inc, NEW x, Incoming(inc, x), ConversationFits(inc, t)
  PROVE  InboxFits(MergeInto(box, inc), t)
<1>1. PICK r : r = MergeInto(box, inc)
  OBVIOUS
<1>2. IsList(r) /\ ((\E i \in DOMAIN box : Into(box, inc, r, i)) \/ InFront(box, inc, r))
  BY <1>1, MergeIntoIs DEF InboxFits
<1>3. CASE \E i \in DOMAIN box : Into(box, inc, r, i)
  <2>1. PICK i \in DOMAIN box : Into(box, inc, r, i)
    BY <1>3
  <2>2. ConversationFits(Merged(box[i], inc), t)
    BY MergedFits DEF InboxFits
  <2>3. \A k \in DOMAIN r : ConversationFits(r[k], t)
    BY <2>1, <2>2 DEF Into, InboxFits
  <2>4. QED
    BY <1>1, <1>2, <2>3 DEF InboxFits
<1>4. CASE InFront(box, inc, r)
  <2>1. \A k \in DOMAIN r : ConversationFits(r[k], t)
    <3>1. \A k \in DOMAIN r : k = 1 \/ (k - 1 \in DOMAIN box /\ r[k] = box[k - 1])
      BY <1>4, InFrontOrLater DEF InboxFits
    <3>2. r[1] = inc
      BY <1>4 DEF InFront
    <3>3. QED
      BY <3>1, <3>2 DEF InboxFits
  <2>2. QED
    BY <1>1, <1>2, <2>1 DEF InboxFits
<1>5. QED
  BY <1>2, <1>3, <1>4

(* What is shown fits when what is opened does.                            *)
LEMMA ShowFits ==
  ASSUME NEW c, OpenFits(c, told), Show(c)
  PROVE  OpenFits(open', told) /\ Fits(items', told)
<1>1. open' = c /\ items' = IF ~mounted' \/ c = None THEN <<>> ELSE c.messages
  BY DEF Show
<1>2. CASE ~mounted' \/ c = None
  BY <1>1, <1>2, EmptyFits
<1>3. CASE ~(~mounted' \/ c = None)
  <2>1. items' = c.messages
    BY <1>1, <1>3
  <2>2. Fits(c.messages, told)
    BY <1>3 DEF OpenFits, ConversationFits
  <2>3. QED
    BY <1>1, <2>1, <2>2
<1>4. QED
  BY <1>2, <1>3

LEMMA ThreadStays ==
  ASSUME ThreadInv, UNCHANGED <<known, told>>,
         InboxFits(inbox', told), OpenFits(open', told), Fits(items', told)
  PROVE  ThreadInv'
  BY DEF ThreadInv, Told

(* A conversation with one message that fits.                              *)
LEMMA NewConversation ==
  ASSUME NEW t, NEW id, NEW people, NEW request0, NEW m, IsMessage(m), SentOrTold(m, t), NEW c,
         c = [id |-> id, people |-> people, request |-> request0, messages |-> <<m>>]
  PROVE  ConversationFits(c, t) /\ c.id = id /\ Incoming(c, m.id)
<1>1. PICK q : q = <<m>>
  OBVIOUS
<1>2. Fits(q, t)
  BY <1>1, OneFits
<1>3. c = [id |-> id, people |-> people, request |-> request0, messages |-> q]
  BY <1>1
<1>4. c.id = id /\ c.messages = q
      /\ c = [id |-> c.id, people |-> c.people, request |-> c.request, messages |-> c.messages]
  BY <1>3
<1>5. IsConversation(c)
  BY <1>2, <1>4 DEF IsConversation, Fits
<1>6. QED
  BY <1>1, <1>2, <1>4, <1>5 DEF ConversationFits, Incoming

LEMMA OpenConversationFits ==
  ASSUME ThreadInv, NEW i \in DOMAIN inbox, OpenConversation(i)
  PROVE  ThreadInv'
<1>1. OpenFits(inbox[i], told) /\ Show(inbox[i])
  BY DEF OpenConversation, ThreadInv, InboxFits, OpenFits
<1>2. OpenFits(open', told) /\ Fits(items', told)
  BY <1>1, ShowFits
<1>3. UNCHANGED <<known, told, inbox>>
  BY DEF OpenConversation, delivery
<1>4. QED
  BY <1>2, <1>3, ThreadStays DEF ThreadInv

LEMMA OpenListFits == ASSUME ThreadInv, OpenList PROVE ThreadInv'
<1>1. OpenFits(None, told) /\ Show(None)
  BY DEF OpenList, OpenFits
<1>2. OpenFits(open', told) /\ Fits(items', told)
  BY <1>1, ShowFits
<1>3. UNCHANGED <<known, told, inbox>>
  BY DEF OpenList, delivery
<1>4. QED
  BY <1>2, <1>3, ThreadStays DEF ThreadInv

LEMMA LeaveFits == ASSUME ThreadInv, Leave PROVE ThreadInv'
<1>1. OpenFits(open, told) /\ Show(open)
  BY DEF Leave, ThreadInv
<1>2. OpenFits(open', told) /\ Fits(items', told)
  BY <1>1, ShowFits
<1>3. UNCHANGED <<known, told, inbox>>
  BY DEF Leave, delivery
<1>4. QED
  BY <1>2, <1>3, ThreadStays DEF ThreadInv

LEMMA StartFits == ASSUME ThreadInv, NEW to, Start(to) PROVE ThreadInv'
<1>1. PICK m : m = Own(Local(sent'), to, "sending")
  OBVIOUS
<1>2. IsMessage(m) /\ SentOrTold(m, told)
  BY <1>1, OwnIs, IdsDiffer DEF SentOrTold
<1>3. PICK c : c = [id |-> None, people |-> SetToSeq(to), request |-> FALSE, messages |-> <<m>>]
  OBVIOUS
<1>4. ConversationFits(c, told)
  BY <1>2, <1>3, NewConversation
<1>5. Show(c)
  BY <1>1, <1>3 DEF Start
<1>6. OpenFits(open', told) /\ Fits(items', told)
  BY <1>4, <1>5, ShowFits DEF OpenFits
<1>7. UNCHANGED <<known, told, inbox>>
  BY DEF Start, delivery
<1>8. QED
  BY <1>6, <1>7, ThreadStays DEF ThreadInv

LEMMA AppendFits ==
  ASSUME NEW t, NEW q, Fits(q, t), NEW m, IsMessage(m), SentOrTold(m, t)
  PROVE  Fits(Append(q, m), t)
<1>1. PICK T : T = ToSet(q) \cup {m}
  OBVIOUS
<1>2. q \in Seq(T) /\ m \in T
  BY <1>1 DEF Fits, IsThread, IsList
<1>3. PICK r : r = Append(q, m)
  OBVIOUS
<1>4. /\ r \in Seq(T) /\ Len(r) = Len(q) + 1 /\ Len(q) \in Nat
      /\ r[Len(q) + 1] = m /\ \A j \in 1..Len(q) : r[j] = q[j]
  BY <1>2, <1>3
<1>5. DOMAIN r = 1..(Len(q) + 1) /\ DOMAIN q = 1..Len(q) /\ r = [j \in 1..(Len(q) + 1) |-> r[j]]
  BY <1>2, <1>4
<1>6. IsList(r)
  BY <1>4, <1>5, IsListOf
<1>7. ASSUME NEW j \in DOMAIN r PROVE IsMessage(r[j]) /\ SentOrTold(r[j], t)
  <2>1. j \in 1..Len(q) \/ j = Len(q) + 1
    BY <1>4, <1>5
  <2>2. QED
    BY <1>4, <1>5, <2>1 DEF Fits, IsThread
<1>8. QED
  BY <1>3, <1>6, <1>7 DEF Fits, IsThread

LEMMA SendFits == ASSUME ThreadInv, Send PROVE ThreadInv'
<1>1. PICK to : to = Recipients(open, items)
  OBVIOUS
<1>2. PICK m : m = [id |-> Local(sent'), from |-> None, to |-> to, delivery |-> "sending"]
  OBVIOUS
<1>3. IsMessage(m) /\ m.id = Local(sent')
  BY <1>2 DEF IsMessage
<1>4. SentOrTold(m, told)
  BY <1>3, IdsDiffer DEF SentOrTold
<1>5. items' = Append(items, m)
  BY <1>1, <1>2 DEF Send
<1>6. Fits(items', told)
  BY <1>3, <1>4, <1>5, AppendFits DEF ThreadInv
<1>7. UNCHANGED <<known, told, inbox, open>>
  BY DEF Send, delivery
<1>8. QED
  BY <1>6, <1>7, ThreadStays DEF ThreadInv

(* What the acceptance adds to the list.                                   *)
Sent(s) ==
  [id |-> IF s.thread = None THEN Thread(Me, s.to) ELSE s.thread,
   people |-> SetToSeq(s.to), messages |-> <<Settled(s)>>, request |-> FALSE]
LEMMA SentIs ==
  ASSUME NEW s, NEW t
  PROVE  ConversationFits(Sent(s), t) /\ Incoming(Sent(s), Env(s.n))
<1>1. PICK m : m = Settled(s)
  OBVIOUS
<1>2. IsMessage(m) /\ SentOrTold(m, t) /\ m.id = Env(s.n)
  BY <1>1, SettledFits
<1>3. PICK p, i : p = SetToSeq(s.to) /\ i = IF s.thread = None THEN Thread(Me, s.to) ELSE s.thread
  OBVIOUS
<1>4. PICK c : c = [id |-> i, people |-> p, request |-> FALSE, messages |-> <<m>>]
  OBVIOUS
<1>5. c = Sent(s)
  BY <1>1, <1>3, <1>4 DEF Sent
<1>6. ConversationFits(c, t) /\ Incoming(c, m.id)
  BY <1>2, <1>4, NewConversation
<1>7. QED
  BY <1>2, <1>5, <1>6

LEMMA AcceptedFits ==
  ASSUME ThreadInv, Distinct(inbox), NEW s, Accepted(s)
  PROVE  ThreadInv'
<1>1. inbox' = MergeInto(inbox, Sent(s))
  BY DEF Accepted, Sent
<1>2. InboxFits(inbox', told)
  <2>1. ConversationFits(Sent(s), told) /\ Incoming(Sent(s), Env(s.n))
    BY SentIs
  <2>2. InboxFits(inbox, told)
    BY DEF ThreadInv
  <2>3. QED
    BY <1>1, <2>1, <2>2, MergeIntoFits
<1>3. OpenFits(open', told) /\ Fits(items', told)
  <2>1. CASE s.starts /\ open # None
    <3>1. PICK q, id : q = With(open.messages, Local(s.n), Settled(s)) /\ id = Thread(Me, s.to)
      OBVIOUS
    <3>2. ConversationFits(open, told)
      BY <2>1 DEF ThreadInv, OpenFits
    <3>3. Fits(q, told)
      BY <3>1, <3>2, WithFits DEF ConversationFits
    <3>4. PICK c : c = [open EXCEPT !.id = id, !.messages = q]
      OBVIOUS
    <3>5. IsConversation(open) /\ IsThread(q)
      BY <3>2, <3>3 DEF ConversationFits, Fits
    <3>6. c.messages = q /\ IsConversation(c)
      <4>1. PICK e : e = [open EXCEPT !.id = id]
        OBVIOUS
      <4>2. c = [e EXCEPT !.messages = q]
        BY <3>4, <4>1
      <4>3. IsConversation(e) /\ e.id = id
        BY <3>5, <4>1, RenamedIs
      <4>4. QED
        BY <3>5, <4>2, <4>3, MessagesAre
    <3>7. OpenFits(c, told)
      BY <3>3, <3>6 DEF OpenFits, ConversationFits
    <3>8. Show(c)
      BY <2>1, <3>1, <3>4 DEF Accepted
    <3>9. QED
      BY <3>7, <3>8, ShowFits
  <2>2. CASE ~(s.starts /\ open # None)
    <3>1. /\ open' = open
          /\ items' = IF s.here THEN With(items, Local(s.n), Settled(s)) ELSE items
      BY <2>2 DEF Accepted
    <3>2. Fits(With(items, Local(s.n), Settled(s)), told)
      BY WithFits DEF ThreadInv
    <3>3. QED
      BY <3>1, <3>2 DEF ThreadInv
  <2>3. QED
    BY <2>1, <2>2
<1>4. UNCHANGED <<known, told>>
  BY DEF Accepted, delivery
<1>5. QED
  BY <1>2, <1>3, <1>4, ThreadStays

LEMMA FailedFits == ASSUME ThreadInv, NEW s, Failed(s) PROVE ThreadInv'
<1>1. OpenFits(open', told) /\ Fits(items', told)
  <2>1. CASE s.starts /\ open # None
    <3>1. PICK q : q = Queued(open.messages, Local(s.n))
      OBVIOUS
    <3>2. ConversationFits(open, told)
      BY <2>1 DEF ThreadInv, OpenFits
    <3>3. Fits(q, told)
      BY <3>1, <3>2, QueuedFits DEF ConversationFits
    <3>4. PICK c : c = [open EXCEPT !.messages = q]
      OBVIOUS
    <3>5. IsConversation(open) /\ IsThread(q)
      BY <3>2, <3>3 DEF ConversationFits, Fits
    <3>6. c.messages = q /\ IsConversation(c)
      BY <3>4, <3>5, MessagesAre
    <3>7. OpenFits(c, told)
      BY <3>3, <3>6 DEF OpenFits, ConversationFits
    <3>8. Show(c)
      BY <2>1, <3>1, <3>4 DEF Failed
    <3>9. QED
      BY <3>7, <3>8, ShowFits
  <2>2. CASE ~(s.starts /\ open # None)
    <3>1. open' = open /\ items' = IF s.here THEN Queued(items, Local(s.n)) ELSE items
      BY <2>2 DEF Failed
    <3>2. Fits(Queued(items, Local(s.n)), told)
      BY QueuedFits DEF ThreadInv
    <3>3. QED
      BY <3>1, <3>2 DEF ThreadInv
  <2>3. QED
    BY <2>1, <2>2
<1>2. UNCHANGED <<known, told, inbox>>
  BY DEF Failed, delivery
<1>3. QED
  BY <1>1, <1>2, ThreadStays DEF ThreadInv

LEMMA FromInboxIs ==
  ASSUME NEW m \in Mail, NEW b, NEW t
  PROVE  /\ ConversationFits(FromInbox(m, b), t) /\ Incoming(FromInbox(m, b), m)
         /\ FromInbox(m, b).id = Thread(Author[m], Audience[m])
<1>1. PICK z : z = [id |-> m, from |-> Author[m], to |-> Audience[m], delivery |-> "delivered"]
  OBVIOUS
<1>2. IsMessage(z) /\ z.id = m
  BY <1>1 DEF IsMessage
<1>3. SentOrTold(z, t)
  BY <1>2, IdsDiffer DEF SentOrTold
<1>4. PICK p, i : /\ p = <<Author[m]>> \o SetToSeq(Audience[m] \ {Author[m]})
                  /\ i = Thread(Author[m], Audience[m])
  OBVIOUS
<1>5. PICK c : c = [id |-> i, people |-> p, request |-> b, messages |-> <<z>>]
  OBVIOUS
<1>6. c = FromInbox(m, b)
  BY <1>1, <1>4, <1>5 DEF FromInbox
<1>7. ConversationFits(c, t) /\ c.id = i /\ Incoming(c, z.id)
  BY <1>2, <1>3, <1>5, NewConversation
<1>8. QED
  BY <1>2, <1>4, <1>6, <1>7

LEMMA InboxActionFits ==
  ASSUME ThreadInv, Distinct(inbox), NEW m \in Mail, NEW b, Inbox(m, b)
  PROVE  ThreadInv'
<1>1. PICK inc : inc = FromInbox(m, b)
  OBVIOUS
<1>2. ConversationFits(inc, told) /\ Incoming(inc, m)
  BY <1>1, FromInboxIs
<1>3. inbox' = MergeInto(inbox, inc)
  BY <1>1 DEF Inbox
<1>4. InboxFits(inbox', told)
  BY <1>2, <1>3, MergeIntoFits DEF ThreadInv
<1>5. OpenFits(open', told) /\ Fits(items', told)
  <2>1. CASE open # None /\ open.id = inc.id
    <3>1. PICK c : c = Merged(open, inc)
      OBVIOUS
    <3>2. ConversationFits(open, told)
      BY <2>1 DEF ThreadInv, OpenFits
    <3>3. OpenFits(c, told)
      BY <1>2, <3>1, <3>2, MergedFits DEF OpenFits
    <3>4. Show(c)
      BY <1>1, <2>1, <3>1 DEF Inbox
    <3>5. QED
      BY <3>3, <3>4, ShowFits
  <2>2. CASE ~(open # None /\ open.id = inc.id)
    <3>1. UNCHANGED <<open, items>>
      BY <1>1, <2>2 DEF Inbox
    <3>2. QED
      BY <3>1 DEF ThreadInv
  <2>3. QED
    BY <2>1, <2>2
<1>6. UNCHANGED <<known, told>>
  BY DEF Inbox, delivery
<1>7. QED
  BY <1>4, <1>5, <1>6, ThreadStays

(* What has been told of an envelope stays told.                           *)
LEMMA FitsWhenTold ==
  ASSUME NEW t, NEW u, \A at \in Envelopes \X Peers : t[at] # None => u[at] # None,
         NEW q, Fits(q, t)
  PROVE  Fits(q, u)
<1>1. ASSUME NEW j \in DOMAIN q PROVE IsMessage(q[j]) /\ SentOrTold(q[j], u)
  <2>1. IsMessage(q[j]) /\ SentOrTold(q[j], t)
    BY DEF Fits, IsThread
  <2>2. ASSUME NEW p \in Peers, q[j].id \in Envelopes, t[<<q[j].id, p>>] # None
        PROVE  u[<<q[j].id, p>>] # None
    BY <2>2
  <2>3. QED
    BY <2>1, <2>2 DEF SentOrTold
<1>2. QED
  BY <1>1 DEF Fits

LEMMA ReportedFits ==
  ASSUME NEW t, NEW box, InboxFits(box, t), NEW n, Env(n) \in Envelopes, NEW state,
         NEW u, \A at \in Envelopes \X Peers : t[at] # None => u[at] # None,
         NEW peer \in Peers, u[<<Env(n), peer>>] # None
  PROVE  InboxFits(Reported(box, Env(n), state), u)
<1>1. PICK r : r = Reported(box, Env(n), state)
  OBVIOUS
<1>2. PICK k \in Nat : Len(box) = k /\ DOMAIN box = 1..k
  BY ListIs DEF InboxFits
<1>3. DOMAIN r = DOMAIN box /\ r = [i \in 1..k |-> r[i]]
  BY <1>1, <1>2 DEF Reported
<1>4. IsList(r)
  BY <1>2, <1>3, IsListOf
<1>5. ASSUME NEW i \in DOMAIN box PROVE ConversationFits(r[i], u)
  <2>1. PICK q : q = [j \in DOMAIN box[i].messages |->
                        IF box[i].messages[j].id = Env(n)
                        THEN [box[i].messages[j] EXCEPT !.delivery = state]
                        ELSE box[i].messages[j]]
    OBVIOUS
  <2>2. r[i] = [box[i] EXCEPT !.messages = q]
    BY <1>1, <2>1 DEF Reported
  <2>3. IsConversation(box[i]) /\ Fits(box[i].messages, t) /\ IsThread(box[i].messages)
    BY DEF InboxFits, ConversationFits, Fits
  <2>4. Fits(box[i].messages, u)
    BY <2>3, FitsWhenTold
  <2>5. ASSUME NEW j \in DOMAIN box[i].messages PROVE IsMessage(q[j]) /\ SentOrTold(q[j], u)
    <3>1. PICK m : m = box[i].messages[j]
      OBVIOUS
    <3>2. IsMessage(m) /\ SentOrTold(m, u)
      BY <2>4, <3>1 DEF Fits, IsThread
    <3>3. CASE m.id = Env(n)
      <4>1. q[j] = [m EXCEPT !.delivery = state]
        BY <2>1, <3>1, <3>3
      <4>2. IsMessage(q[j]) /\ q[j].id = Env(n)
        BY <3>2, <3>3, <4>1, DeliveredIs
      <4>3. QED
        BY <4>2 DEF SentOrTold
    <3>4. CASE m.id # Env(n)
      BY <2>1, <3>1, <3>2, <3>4
    <3>5. QED
      BY <3>3, <3>4
  <2>6. Fits(q, u)
    <3>1. PICK s : s = box[i].messages
      OBVIOUS
    <3>2. IsThread(s) /\ DOMAIN q = DOMAIN s /\ q = [j \in DOMAIN s |-> q[j]]
      BY <2>1, <2>3, <3>1
    <3>3. \A j \in DOMAIN s : IsMessage(q[j]) /\ SentOrTold(q[j], u)
      BY <2>5, <3>1
    <3>4. QED
      BY <3>2, <3>3, MappedFits
  <2>7. r[i].messages = q /\ IsConversation(r[i])
    BY <2>2, <2>3, <2>6, MessagesAre DEF Fits
  <2>8. QED
    BY <2>6, <2>7 DEF ConversationFits
<1>6. QED
  BY <1>1, <1>3, <1>4, <1>5 DEF InboxFits

LEMMA DeliveryStateFits ==
  ASSUME ThreadInv, NEW n, Env(n) \in Envelopes, NEW peer \in Peers, NEW state \in States,
         DeliveryState(n, peer, state)
  PROVE  ThreadInv'
<1>1. PICK u : u = [told EXCEPT ![<<Env(n), peer>>] = state]
  OBVIOUS
<1>2. /\ told' = u /\ known' = u /\ open' = open /\ items' = items
      /\ inbox' = Reported(inbox, Env(n), state)
  BY <1>1 DEF DeliveryState, Learn, ThreadInv, Told
<1>3. /\ u \in [Envelopes \X Peers -> States \cup {None}]
      /\ u[<<Env(n), peer>>] # None
      /\ \A at \in Envelopes \X Peers : told[at] # None => u[at] # None
  <2>1. PICK x : x = <<Env(n), peer>>
    OBVIOUS
  <2>2. x \in Envelopes \X Peers
    BY <2>1
  <2>3. u = [told EXCEPT ![x] = state] /\ told \in [Envelopes \X Peers -> States \cup {None}]
    BY <1>1, <2>1 DEF ThreadInv, Told
  <2>4. state # None
    BY IdsAssumption
  <2>5. /\ u \in [Envelopes \X Peers -> States \cup {None}] /\ u[x] = state
        /\ \A at \in Envelopes \X Peers : at # x => u[at] = told[at]
    BY <2>2, <2>3
  <2>6. QED
    BY <2>1, <2>4, <2>5
<1>4. InboxFits(inbox', u)
  <2>1. InboxFits(inbox, told)
    BY DEF ThreadInv
  <2>2. InboxFits(Reported(inbox, Env(n), state), u)
    BY <1>3, <2>1, ReportedFits
  <2>3. QED
    BY <1>2, <2>2
<1>5. Fits(items, u)
  BY <1>3, FitsWhenTold DEF ThreadInv
<1>6. OpenFits(open, u)
  BY <1>3, FitsWhenTold DEF ThreadInv, OpenFits, ConversationFits
<1>7. QED
  BY <1>2, <1>3, <1>4, <1>5, <1>6 DEF ThreadInv, Told

LEMMA GrantedFits == ASSUME ThreadInv, Granted PROVE ThreadInv'
<1>1. PICK k \in Nat : Len(inbox) = k /\ DOMAIN inbox = 1..k
  BY ListIs DEF ThreadInv, InboxFits
<1>2. DOMAIN inbox' = DOMAIN inbox /\ inbox' = [i \in 1..k |-> inbox'[i]]
  BY <1>1 DEF Granted
<1>3. IsList(inbox')
  BY <1>1, <1>2, IsListOf
<1>4. ASSUME NEW i \in DOMAIN inbox PROVE ConversationFits(inbox'[i], told)
  <2>1. PICK c, d : c = inbox[i] /\ d = [c EXCEPT !.request = FALSE]
    OBVIOUS
  <2>2. inbox'[i] = c \/ inbox'[i] = d
    BY <2>1 DEF Granted
  <2>3. ConversationFits(c, told)
    BY <2>1 DEF ThreadInv, InboxFits
  <2>4. d.messages = c.messages /\ IsConversation(d)
    BY <2>1, <2>3, RequestIs DEF ConversationFits
  <2>5. QED
    BY <2>2, <2>3, <2>4 DEF ConversationFits
<1>5. OpenFits(open', told)
  <2>1. CASE open = None
    BY <2>1 DEF Granted, OpenFits
  <2>2. CASE open # None
    <3>1. ConversationFits(open, told)
      BY <2>2 DEF ThreadInv, OpenFits
    <3>2. PICK d : d = [open EXCEPT !.request = FALSE]
      OBVIOUS
    <3>3. open' = d
      BY <2>2, <3>2 DEF Granted
    <3>4. d.messages = open.messages /\ IsConversation(d)
      BY <3>1, <3>2, RequestIs DEF ConversationFits
    <3>5. QED
      BY <3>1, <3>3, <3>4 DEF ConversationFits, OpenFits
  <2>3. QED
    BY <2>1, <2>2
<1>6. UNCHANGED <<known, told, items>>
  BY DEF Granted, delivery
<1>7. InboxFits(inbox', told)
  BY <1>2, <1>3, <1>4 DEF InboxFits
<1>8. Fits(items', told)
  BY <1>6 DEF ThreadInv
<1>9. QED
  BY <1>5, <1>6, <1>7, <1>8, ThreadStays

LEMMA ReconnectsFits == ASSUME ThreadInv, Reconnects PROVE ThreadInv'
<1>1. Fits(Flushed(items), told)
  BY FlushedFits DEF ThreadInv
<1>2. Fits(items', told)
  BY <1>1 DEF Reconnects, ThreadInv
<1>3. UNCHANGED <<known, told, inbox, open>>
  BY DEF Reconnects, delivery
<1>4. QED
  BY <1>2, <1>3, ThreadStays DEF ThreadInv

(* The other actions leave the thread alone.                               *)
Elsewhere ==
  \/ ToggleReceipts \/ AskAccept \/ Grants \/ NotGranted \/ Record
  \/ LinkChanges \/ Degrades \/ \E s \in sends : Takes(s)
LEMMA ThreadStep ==
  ASSUME ThreadInv, Distinct(inbox), Numbered, [Next]_vars
  PROVE  ThreadInv'
<1>1. ASSUME UNCHANGED <<known, told, inbox, open, items>> PROVE ThreadInv'
  BY <1>1, ThreadStays DEF ThreadInv
<1>2. CASE OpenList
  BY <1>2, OpenListFits
<1>3. CASE Leave
  BY <1>3, LeaveFits
<1>4. CASE \E i \in DOMAIN inbox : OpenConversation(i)
  BY <1>4, OpenConversationFits
<1>5. CASE \E to \in Groups : Start(to)
  BY <1>5, StartFits
<1>6. CASE Send
  BY <1>6, SendFits
<1>7. CASE \E s \in sends : Accepted(s)
  BY <1>7, AcceptedFits
<1>8. CASE \E s \in sends : Failed(s)
  BY <1>8, FailedFits
<1>9. CASE \E m \in Mail, isRequest \in BOOLEAN : Inbox(m, isRequest)
  BY <1>9, InboxActionFits
<1>10. CASE Reports(Peers)
  <2>1. PICK n \in taken, peer \in Peers, state \in States : DeliveryState(n, peer, state)
    BY <1>10 DEF Reports
  <2>2. Env(n) \in Envelopes
    <3>1. n \in 1..sent /\ sent \in 0..MaxSends
      BY DEF Numbered
    <3>2. n \in 1..MaxSends
      BY <3>1, BoundAssumption
    <3>3. QED
      BY <3>2, IdsDiffer
  <2>3. QED
    BY <2>1, <2>2, DeliveryStateFits
<1>11. CASE Granted
  BY <1>11, GrantedFits
<1>12. CASE Reconnects
  BY <1>12, ReconnectsFits
<1>13. CASE Elsewhere
  <2>1. UNCHANGED <<known, told, inbox, open, items>>
    BY <1>13 DEF Elsewhere, ToggleReceipts, AskAccept, Grants, NotGranted, Record, LinkChanges,
                 Degrades, Takes, lists, delivery
  <2>2. QED
    BY <1>1, <2>1
<1>14. CASE UNCHANGED vars
  <2>1. UNCHANGED <<known, told, inbox, open, items>>
    BY <1>14 DEF vars, lists, delivery
  <2>2. QED
    BY <1>1, <2>1
<1>15. QED
  BY <1>2, <1>3, <1>4, <1>5, <1>6, <1>7, <1>8, <1>9, <1>10, <1>11, <1>12, <1>13, <1>14
     DEF Next, Elsewhere

LEMMA ThreadStarts == Init => ThreadInv
<1>1. SUFFICES ASSUME Init PROVE ThreadInv
  OBVIOUS
<1>2. InboxFits(<<>>, told)
  BY NoneIsList DEF InboxFits
<1>3. Fits(<<>>, told)
  BY EmptyFits
<1>4. Told
  BY <1>1 DEF Init, Told
<1>5. inbox = <<>> /\ open = None /\ items = <<>>
  BY <1>1 DEF Init
<1>6. QED
  BY <1>2, <1>3, <1>4, <1>5 DEF ThreadInv, OpenFits

LEMMA ThreadLands == ThreadInv => EarlyStateLands
<1>1. SUFFICES ASSUME ThreadInv, NEW i \in DOMAIN items, items[i].id \in Envelopes,
                      ~Unsettled(items[i])
               PROVE  Displayed(items[i]) = Furthest({told[<<items[i].id, p>>] : p \in Peers})
  BY DEF EarlyStateLands
<1>2. PICK m, S : m = items[i] /\ S = {told[<<m.id, p>>] : p \in Peers}
  OBVIOUS
<1>3. known = told /\ SentOrTold(m, told)
  BY <1>1, <1>2 DEF ThreadInv, Told, Fits
<1>4. Displayed(m) = IF S \ {None} = {} THEN m.delivery ELSE Furthest(S \ {None})
  BY <1>1, <1>2, <1>3 DEF Displayed
<1>5. Furthest(S \ {None}) = Furthest(S)
  BY IdsAssumption DEF Furthest, States
<1>6. CASE S \ {None} = {}
  <2>1. \A p \in Peers : told[<<m.id, p>>] = None
    BY <1>2, <1>6
  <2>2. m.delivery = "sent"
    BY <1>1, <1>2, <1>3, <2>1 DEF SentOrTold
  <2>3. Furthest(S) = "sent"
    BY <1>6, IdsAssumption DEF Furthest, States
  <2>4. QED
    BY <1>2, <1>4, <1>6, <2>2, <2>3
<1>7. QED
  BY <1>2, <1>4, <1>5, <1>6

-----------------------------------------------------------------------------
(* Every message is listed once                                            *)

LEMMA IdsAre ==
  ASSUME NEW c
  PROVE  MessageIds(c) = {c.messages[j].id : j \in DOMAIN c.messages}
  BY DEF MessageIds, ToSet

LEMMA IncomingHas ==
  ASSUME NEW inc, NEW x, Incoming(inc, x)
  PROVE  Once(inc) /\ MessageIds(inc) = {x}
<1>1. DOMAIN inc.messages = {1} /\ inc.messages[1].id = x
  BY NewsAre
<1>2. Once(inc)
  BY <1>1 DEF Once
<1>3. MessageIds(inc) = {x}
  BY <1>1, IdsAre
<1>4. QED
  BY <1>2, <1>3

(* A list with nothing, or one message, added to it.                       *)
LEMMA NothingAdded ==
  ASSUME NEW q, IsList(q)
  PROVE  q \o <<>> = q
<1>1. PICK c, e : c = q \o e /\ e = <<>>
  OBVIOUS
<1>2. IsList(e) /\ Len(e) = 0
  BY <1>1, NoneIsList
<1>3. Joins(q, e, q \o e)
  BY <1>2, Joined
<1>4. Joins(q, e, c)
  BY <1>1, <1>3
<1>5. PICK n \in Nat : Len(q) = n /\ DOMAIN q = 1..n /\ q = [j \in 1..n |-> q[j]]
  BY ListIs
<1>6. PICK k \in Nat : Len(c) = k /\ DOMAIN c = 1..k /\ c = [j \in 1..k |-> c[j]]
  BY <1>4, ListIs DEF Joins
<1>7. DOMAIN c = 1..n /\ \A j \in 1..n : c[j] = q[j]
  BY <1>2, <1>4, <1>5 DEF Joins
<1>8. c = [j \in 1..n |-> c[j]]
  BY <1>6, <1>7
<1>9. c = q
  BY <1>5, <1>7, <1>8
<1>10. QED
  BY <1>1, <1>9

LEMMA OneAdded ==
  ASSUME NEW q, IsList(q), NEW w, IsList(w), Len(w) = 1, NEW c, c = q \o w
  PROVE  \E n \in Nat : /\ DOMAIN q = 1..n /\ DOMAIN c = 1..(n + 1) /\ c[n + 1] = w[1]
                        /\ \A j \in 1..n : c[j] = q[j]
<1>1. PICK n \in Nat : Len(q) = n /\ DOMAIN q = 1..n
  BY ListIs
<1>2. Joins(q, w, q \o w)
  BY Joined
<1>3. Joins(q, w, c)
  BY <1>2
<1>4. QED
  BY <1>1, <1>3 DEF Joins

LEMMA MergedHas ==
  ASSUME NEW c, IsConversation(c), Once(c), NEW inc, NEW x, Incoming(inc, x)
  PROVE  Once(Merged(c, inc)) /\ MessageIds(Merged(c, inc)) = MessageIds(c) \cup {x}
<1>1. PICK d, q, w : d = Merged(c, inc) /\ q = c.messages /\ w = News(c, inc)
  OBVIOUS
<1>2. d.messages = q \o w
  BY <1>1, MergedIs
<1>3. IsList(q)
  BY <1>1 DEF IsConversation, IsThread
<1>4. CASE x \in MessageIds(c)
  <2>1. w = <<>>
    BY <1>1, <1>4, NewsAre
  <2>2. d.messages = q
    BY <1>2, <1>3, <2>1, NothingAdded
  <2>3. Once(d)
    BY <1>1, <2>2 DEF Once
  <2>4. MessageIds(d) = MessageIds(c)
    BY <1>1, <2>2 DEF MessageIds
  <2>5. QED
    BY <1>1, <1>4, <2>3, <2>4
<1>5. CASE x \notin MessageIds(c)
  <2>1. w = inc.messages
    BY <1>1, <1>5, NewsAre
  <2>2. IsList(w) /\ Len(w) = 1 /\ w[1].id = x
    BY <2>1, NewsAre
  <2>3. PICK s : s = d.messages
    OBVIOUS
  <2>4. PICK n \in Nat : /\ DOMAIN q = 1..n /\ DOMAIN s = 1..(n + 1) /\ s[n + 1] = w[1]
                         /\ \A j \in 1..n : s[j] = q[j]
    <3>1. s = q \o w
      BY <1>2, <2>3
    <3>2. IsList(w) /\ Len(w) = 1
      BY <2>2
    <3>3. QED
      BY <1>3, <3>1, <3>2, OneAdded
  <2>5. \A j \in 1..n : q[j].id # x
    BY <1>1, <1>5, <2>4, IdsAre
  <2>6. \A j \in DOMAIN s : (j \in 1..n /\ s[j].id = q[j].id) \/ (j = n + 1 /\ s[j].id = x)
    BY <2>2, <2>4
  <2>7. \A j, l \in DOMAIN s : s[j].id = s[l].id => j = l
    <3>1. \A j, l \in 1..n : q[j].id = q[l].id => j = l
      BY <1>1, <2>4 DEF Once
    <3>2. QED
      BY <2>5, <2>6, <3>1
  <2>8. Once(d)
    BY <2>3, <2>7 DEF Once
  <2>9. MessageIds(d) = MessageIds(c) \cup {x}
    <3>1. MessageIds(d) = {s[j].id : j \in DOMAIN s}
      BY <2>3, IdsAre
    <3>2. MessageIds(c) = {q[j].id : j \in 1..n}
      BY <1>1, <2>4, IdsAre
    <3>3. \A j \in 1..n : j \in DOMAIN s /\ s[j].id = q[j].id
      BY <2>4
    <3>4. n + 1 \in DOMAIN s /\ s[n + 1].id = x
      BY <2>2, <2>4
    <3>5. QED
      BY <2>6, <3>1, <3>2, <3>3, <3>4
  <2>10. QED
    BY <1>1, <2>8, <2>9
<1>6. QED
  BY <1>4, <1>5

(* What comes in is in the list once, when it was in no other conversation *)
(* than its own.                                                           *)
LEMMA MergeIntoOnce ==
  ASSUME NEW t, NEW box, InboxFits(box, t), Distinct(box), OnceEach(box),
         NEW inc, NEW x, Incoming(inc, x),
         \A i \in DOMAIN box : x \in MessageIds(box[i]) => box[i].id = inc.id,
         NEW r, r = MergeInto(box, inc)
  PROVE  /\ Distinct(r) /\ OnceEach(r) /\ Has(r, x)
         /\ \A id : Has(box, id) => Has(r, id)
         /\ \A i \in DOMAIN r : \A id \in MessageIds(r[i]) :
              \/ id = x /\ r[i].id = inc.id
              \/ \E k \in DOMAIN box : r[i].id = box[k].id /\ id \in MessageIds(box[k])
<1>1. IsList(box) /\ \A i \in DOMAIN box : IsConversation(box[i]) /\ Once(box[i])
  BY DEF InboxFits, ConversationFits, OnceEach
<1>2. IsList(r) /\ ((\E i \in DOMAIN box : Into(box, inc, r, i)) \/ InFront(box, inc, r))
  BY <1>1, MergeIntoIs
<1>3. CASE \E i \in DOMAIN box : Into(box, inc, r, i)
  <2>1. PICK i \in DOMAIN box : Into(box, inc, r, i)
    BY <1>3
  <2>2. r[i].id = box[i].id /\ Once(r[i]) /\ MessageIds(r[i]) = MessageIds(box[i]) \cup {x}
    BY <1>1, <2>1, MergedIs, MergedHas DEF Into
  <2>3. /\ DOMAIN r = DOMAIN box /\ box[i].id = inc.id
        /\ \A k \in DOMAIN box : k # i => r[k] = box[k]
    BY <2>1 DEF Into
  <2>4. \A k \in DOMAIN box : r[k].id = box[k].id /\ Once(r[k])
    BY <1>1, <2>2, <2>3
  <2>5. Distinct(r)
    BY <2>3, <2>4 DEF Distinct
  <2>6. \A k \in DOMAIN box : k # i => x \notin MessageIds(box[k])
    BY <2>3 DEF Distinct
  <2>7. \A k, l \in DOMAIN box : k # l => MessageIds(r[k]) \cap MessageIds(r[l]) = {}
    BY <2>2, <2>3, <2>6 DEF OnceEach
  <2>8. OnceEach(r)
    BY <2>3, <2>4, <2>7 DEF OnceEach
  <2>9. Has(r, x) /\ \A id : Has(box, id) => Has(r, id)
    BY <2>2, <2>3 DEF Has
  <2>10. \A k \in DOMAIN r : \A id \in MessageIds(r[k]) :
           \/ id = x /\ r[k].id = inc.id
           \/ \E l \in DOMAIN box : r[k].id = box[l].id /\ id \in MessageIds(box[l])
    BY <2>2, <2>3
  <2>11. QED
    BY <2>5, <2>8, <2>9, <2>10
<1>4. CASE InFront(box, inc, r)
  <2>1. \A i \in DOMAIN box : box[i].id # inc.id /\ x \notin MessageIds(box[i])
    BY <1>4 DEF InFront
  <2>2. Once(inc) /\ MessageIds(inc) = {x}
    BY IncomingHas
  <2>3. \A i \in DOMAIN r : i = 1 \/ (i - 1 \in DOMAIN box /\ i # 1 /\ r[i] = box[i - 1])
    BY <1>1, <1>4, InFrontOrLater
  <2>4. PICK n \in Nat : Len(box) = n /\ DOMAIN box = 1..n
    BY <1>1, ListIs
  <2>5. DOMAIN r = 1..(n + 1) /\ r[1] = inc /\ \A k \in 1..n : r[1 + k] = box[k]
    BY <1>4, <2>4 DEF InFront
  <2>6. \A i, j \in DOMAIN r : i - 1 = j - 1 => i = j
    BY <2>5
  <2>7. Distinct(r)
    BY <2>1, <2>3, <2>5, <2>6 DEF Distinct
  <2>8. \A i \in DOMAIN r : Once(r[i])
    BY <1>1, <2>2, <2>3, <2>5
  <2>9. \A i, j \in DOMAIN r : i # j => MessageIds(r[i]) \cap MessageIds(r[j]) = {}
    BY <2>1, <2>2, <2>3, <2>5, <2>6 DEF OnceEach
  <2>10. OnceEach(r)
    BY <2>8, <2>9 DEF OnceEach
  <2>11. Has(r, x)
    BY <2>2, <2>5 DEF Has
  <2>12. ASSUME NEW id, Has(box, id) PROVE Has(r, id)
    <3>1. PICK k \in 1..n : id \in MessageIds(box[k])
      BY <2>4, <2>12 DEF Has
    <3>2. 1 + k \in DOMAIN r /\ r[1 + k] = box[k]
      BY <2>5
    <3>3. QED
      BY <3>1, <3>2 DEF Has
  <2>13. \A i \in DOMAIN r : \A id \in MessageIds(r[i]) :
           \/ id = x /\ r[i].id = inc.id
           \/ \E l \in DOMAIN box : r[i].id = box[l].id /\ id \in MessageIds(box[l])
    BY <2>2, <2>3, <2>5
  <2>14. QED
    BY <2>7, <2>10, <2>11, <2>12, <2>13
<1>5. QED
  BY <1>2, <1>3, <1>4

(* The same messages in the same conversations.                            *)
LEMMA SameMessages ==
  ASSUME NEW box, NEW r, DOMAIN r = DOMAIN box,
         \A i \in DOMAIN box : /\ r[i].id = box[i].id
                               /\ DOMAIN r[i].messages = DOMAIN box[i].messages
                               /\ \A j \in DOMAIN box[i].messages :
                                    r[i].messages[j].id = box[i].messages[j].id,
         Distinct(box), OnceEach(box), NEW mail, NEW done,
         InTheirs(box, done), AllThere(box, mail, done)
  PROVE  Distinct(r) /\ OnceEach(r) /\ InTheirs(r, done) /\ AllThere(r, mail, done)
<1>1. ASSUME NEW i \in DOMAIN box
      PROVE  MessageIds(r[i]) = MessageIds(box[i]) /\ Once(r[i])
  <2>1. MessageIds(r[i]) = {r[i].messages[j].id : j \in DOMAIN r[i].messages}
    BY IdsAre
  <2>2. MessageIds(box[i]) = {box[i].messages[j].id : j \in DOMAIN box[i].messages}
    BY IdsAre
  <2>3. MessageIds(r[i]) = MessageIds(box[i])
    BY <2>1, <2>2
  <2>4. Once(r[i])
    BY DEF Once, OnceEach
  <2>5. QED
    BY <2>3, <2>4
<1>2. Distinct(r)
  BY DEF Distinct
<1>3. OnceEach(r)
  BY <1>1 DEF OnceEach
<1>4. InTheirs(r, done)
  BY <1>1 DEF InTheirs
<1>5. AllThere(r, mail, done)
  BY <1>1 DEF AllThere, Has
<1>6. QED
  BY <1>2, <1>3, <1>4, <1>5

Listing(box, mail, done) ==
  Distinct(box) /\ OnceEach(box) /\ InTheirs(box, done) /\ AllThere(box, mail, done)
LEMMA ListStays ==
  ASSUME ListInv, Numbered', AreSends(sends'), heard' = heard, settled' = settled,
         Listing(inbox', heard, settled)
  PROVE  ListInv'
  BY DEF ListInv, Listing

(* A message comes into the list.                                          *)
LEMMA ListTakes ==
  ASSUME ThreadInv, ListInv, NEW inc, NEW x, Incoming(inc, x), inbox' = MergeInto(inbox, inc),
         \A i \in DOMAIN inbox : x \in MessageIds(inbox[i]) => inbox[i].id = inc.id,
         NEW done, settled \subseteq done, Belongs(inc.id, x, done),
         NEW mail, mail \cup {Env(n) : n \in done} \subseteq
                     heard \cup {Env(n) : n \in settled} \cup {x}
  PROVE  Listing(inbox', mail, done)
<1>1. InboxFits(inbox, told) /\ Distinct(inbox) /\ OnceEach(inbox)
  BY DEF ThreadInv, ListInv
<1>2. PICK r : r = MergeInto(inbox, inc)
  OBVIOUS
<1>3. /\ Distinct(r) /\ OnceEach(r) /\ Has(r, x)
      /\ \A id : Has(inbox, id) => Has(r, id)
      /\ \A i \in DOMAIN r : \A id \in MessageIds(r[i]) :
           \/ id = x /\ r[i].id = inc.id
           \/ \E k \in DOMAIN inbox : r[i].id = inbox[k].id /\ id \in MessageIds(inbox[k])
  BY <1>1, <1>2, MergeIntoOnce
<1>4. InTheirs(r, done)
  <2>1. ASSUME NEW i \in DOMAIN r, NEW id \in MessageIds(r[i]),
               NEW k \in DOMAIN inbox, r[i].id = inbox[k].id, id \in MessageIds(inbox[k])
        PROVE  Belongs(r[i].id, id, done)
    <3>1. Belongs(inbox[k].id, id, settled)
      BY <2>1 DEF ListInv, InTheirs
    <3>2. QED
      BY <2>1, <3>1 DEF Belongs
  <2>2. QED
    BY <1>3, <2>1 DEF InTheirs
<1>5. AllThere(r, mail, done)
  <2>1. ASSUME NEW id \in mail \cup {Env(n) : n \in done} PROVE Has(r, id)
    <3>1. id \in heard \cup {Env(n) : n \in settled} \/ id = x
      OBVIOUS
    <3>2. id \in heard \cup {Env(n) : n \in settled} => Has(inbox, id)
      BY DEF ListInv, AllThere
    <3>3. QED
      BY <1>3, <3>1, <3>2
  <2>2. QED
    BY <2>1 DEF AllThere
<1>6. QED
  BY <1>2, <1>3, <1>4, <1>5 DEF Listing

LEMMA AcceptedListed ==
  ASSUME ThreadInv, ListInv, NEW s \in sends, Accepted(s)
  PROVE  ListInv'
<1>1. inbox' = MergeInto(inbox, Sent(s)) /\ sends' = sends \ {s} /\ settled' = settled \cup {s.n}
  BY DEF Accepted, Sent
<1>2. UNCHANGED <<sent, taken, heard>> /\ s.n \in taken
  BY DEF Accepted
<1>3. Numbered
  BY DEF ListInv
<1>4. s.n \in 1..sent /\ s.n \notin settled /\ s.n \in 1..MaxSends
  <2>1. s.n \in 1..sent /\ s.n \notin settled /\ sent \in 0..MaxSends
    BY <1>3 DEF Numbered
  <2>2. QED
    BY <2>1, BoundAssumption
<1>5. PICK x, inc : x = Env(s.n) /\ inc = Sent(s)
  OBVIOUS
<1>6. x \notin Mail /\ \A n \in settled : x # Env(n)
  BY <1>4, <1>5, IdsDiffer
<1>7. \A i \in DOMAIN inbox : x \notin MessageIds(inbox[i])
  BY <1>6 DEF ListInv, InTheirs, Belongs
<1>8. Incoming(inc, x)
  BY <1>5, SentIs
<1>9. Belongs(inc.id, x, settled')
  BY <1>1, <1>5 DEF Belongs
<1>10. Listing(inbox', heard, settled')
  <2>1. heard \cup {Env(n) : n \in settled'} \subseteq
          heard \cup {Env(n) : n \in settled} \cup {x}
    BY <1>1, <1>5
  <2>2. settled \subseteq settled'
    BY <1>1
  <2>3. inbox' = MergeInto(inbox, inc)
    BY <1>1, <1>5
  <2>4. \A i \in DOMAIN inbox : x \in MessageIds(inbox[i]) => inbox[i].id = inc.id
    BY <1>7
  <2>5. PICK done : done = settled'
    OBVIOUS
  <2>6. QED
    BY <1>8, <1>9, <2>1, <2>2, <2>3, <2>4, <2>5, ListTakes
<1>11. Numbered'
  <2>1. /\ sent' \in 0..MaxSends /\ taken' \subseteq 1..sent' /\ settled' \subseteq 1..sent'
    BY <1>1, <1>2, <1>3, <1>4 DEF Numbered
  <2>2. ASSUME NEW r \in sends' PROVE r.n \in 1..sent' /\ r.n \notin settled'
    BY <1>1, <1>2, <1>3 DEF Numbered
  <2>3. \A q, r \in sends' : q.n = r.n => q = r
    BY <1>1, <1>3 DEF Numbered
  <2>4. QED
    BY <2>1, <2>2, <2>3 DEF Numbered
<1>12. AreSends(sends') /\ heard' \subseteq Mail
  BY <1>1, <1>2 DEF AreSends, ListInv
<1>13. QED
  BY <1>2, <1>10, <1>11, <1>12 DEF ListInv, Listing

LEMMA InboxListed ==
  ASSUME ThreadInv, ListInv, NEW m \in Mail, NEW b, Inbox(m, b)
  PROVE  ListInv'
<1>1. inbox' = MergeInto(inbox, FromInbox(m, b)) /\ heard' = heard \cup {m}
  BY DEF Inbox
<1>2. UNCHANGED <<sends, sent, taken, settled>>
  BY DEF Inbox, outbox
<1>3. Numbered
  BY DEF ListInv
<1>4. PICK inc : inc = FromInbox(m, b)
  OBVIOUS
<1>5. Incoming(inc, m) /\ inc.id = Thread(Author[m], Audience[m])
  BY <1>4, FromInboxIs
<1>6. ASSUME NEW n \in settled, m = Env(n) PROVE FALSE
  <2>1. n \in 1..sent /\ sent \in 0..MaxSends
    BY <1>3 DEF Numbered
  <2>2. n \in 1..MaxSends
    BY <2>1, BoundAssumption
  <2>3. QED
    BY <1>6, <2>2, IdsDiffer
<1>7. \A i \in DOMAIN inbox : m \in MessageIds(inbox[i]) => inbox[i].id = inc.id
  BY <1>5, <1>6 DEF ListInv, InTheirs, Belongs
<1>8. Belongs(inc.id, m, settled)
  BY <1>5 DEF Belongs
<1>9. Listing(inbox', heard', settled)
  <2>1. heard' \cup {Env(n) : n \in settled} \subseteq
          heard \cup {Env(n) : n \in settled} \cup {m}
    BY <1>1
  <2>2. inbox' = MergeInto(inbox, inc)
    BY <1>1, <1>4
  <2>3. PICK mail : mail = heard'
    OBVIOUS
  <2>4. QED
    BY <1>5, <1>7, <1>8, <2>1, <2>2, <2>3, ListTakes
<1>10. Numbered'
  BY <1>2, <1>3 DEF Numbered
<1>11. AreSends(sends') /\ heard' \subseteq Mail
  BY <1>1, <1>2 DEF ListInv
<1>12. QED
  BY <1>2, <1>9, <1>10, <1>11 DEF ListInv, Listing

LEMMA DeliveryStateListed ==
  ASSUME ThreadInv, ListInv, NEW n, NEW peer, NEW state, DeliveryState(n, peer, state)
  PROVE  ListInv'
<1>1. inbox' = Reported(inbox, Env(n), state) /\ UNCHANGED <<sends, sent, taken, settled, heard>>
  BY DEF DeliveryState, outbox
<1>2. PICK r : r = Reported(inbox, Env(n), state)
  OBVIOUS
<1>3. DOMAIN r = DOMAIN inbox
  BY <1>2 DEF Reported
<1>4. ASSUME NEW i \in DOMAIN inbox
      PROVE  /\ r[i].id = inbox[i].id
             /\ DOMAIN r[i].messages = DOMAIN inbox[i].messages
             /\ \A j \in DOMAIN inbox[i].messages :
                  r[i].messages[j].id = inbox[i].messages[j].id
  <2>1. PICK q : q = [j \in DOMAIN inbox[i].messages |->
                        IF inbox[i].messages[j].id = Env(n)
                        THEN [inbox[i].messages[j] EXCEPT !.delivery = state]
                        ELSE inbox[i].messages[j]]
    OBVIOUS
  <2>2. r[i] = [inbox[i] EXCEPT !.messages = q]
    BY <1>2, <2>1 DEF Reported
  <2>3. IsConversation(inbox[i]) /\ IsThread(inbox[i].messages)
    BY DEF ThreadInv, InboxFits, ConversationFits, Fits
  <2>4. r[i].id = inbox[i].id /\ r[i].messages = q
    BY <2>2, <2>3, MessagesAre
  <2>5. ASSUME NEW j \in DOMAIN inbox[i].messages PROVE q[j].id = inbox[i].messages[j].id
    <3>1. PICK m : m = inbox[i].messages[j]
      OBVIOUS
    <3>2. IsMessage(m)
      BY <2>3, <3>1 DEF IsThread
    <3>3. [m EXCEPT !.delivery = state].id = m.id
      BY <3>2, DeliveredIs
    <3>4. QED
      BY <2>1, <3>1, <3>3
  <2>6. QED
    BY <2>1, <2>4, <2>5
<1>5. Distinct(r) /\ OnceEach(r) /\ InTheirs(r, settled) /\ AllThere(r, heard, settled)
  BY <1>3, <1>4, SameMessages DEF ListInv
<1>6. Listing(inbox', heard, settled)
  BY <1>1, <1>2, <1>5 DEF Listing
<1>7. Numbered' /\ AreSends(sends')
  BY <1>1 DEF ListInv, Numbered
<1>8. QED
  BY <1>1, <1>6, <1>7, ListStays

LEMMA GrantedListed == ASSUME ThreadInv, ListInv, Granted PROVE ListInv'
<1>1. UNCHANGED <<sends, sent, taken, settled, heard>>
  BY DEF Granted, outbox
<1>2. PICK r : r = inbox'
  OBVIOUS
<1>3. DOMAIN r = DOMAIN inbox
  BY <1>2 DEF Granted
<1>4. ASSUME NEW i \in DOMAIN inbox
      PROVE  r[i].id = inbox[i].id /\ r[i].messages = inbox[i].messages
  <2>1. PICK c, d : c = inbox[i] /\ d = [c EXCEPT !.request = FALSE]
    OBVIOUS
  <2>2. r[i] = c \/ r[i] = d
    BY <1>2, <2>1 DEF Granted
  <2>3. IsConversation(c)
    BY <2>1 DEF ThreadInv, InboxFits, ConversationFits
  <2>4. d.id = c.id /\ d.messages = c.messages
    BY <2>1, <2>3, RequestIs
  <2>5. QED
    BY <2>1, <2>2, <2>4
<1>5. Distinct(r) /\ OnceEach(r) /\ InTheirs(r, settled) /\ AllThere(r, heard, settled)
  BY <1>3, <1>4, SameMessages DEF ListInv
<1>6. Listing(inbox', heard, settled)
  BY <1>2, <1>5 DEF Listing
<1>7. Numbered' /\ AreSends(sends')
  BY <1>1 DEF ListInv, Numbered
<1>8. QED
  BY <1>1, <1>6, <1>7, ListStays

(* Sending changes what is under way and not the list.                     *)
LEMMA OutboxListed ==
  ASSUME ListInv, inbox' = inbox, heard' = heard, settled' = settled,
         sent' \in 0..MaxSends, sent <= sent', taken' \subseteq 1..sent', AreSends(sends'),
         \A s \in sends' : (\E r \in sends : r.n = s.n) \/ (s.n = sent + 1 /\ sent' = sent + 1),
         \A s, r \in sends' : s.n = r.n => s = r
  PROVE  ListInv'
<1>1. Numbered
  BY DEF ListInv
<1>2. sent \in Nat /\ sent' \in Nat
  BY <1>1 DEF Numbered
<1>3. ASSUME NEW s \in sends' PROVE s.n \in 1..sent' /\ s.n \notin settled'
  <2>1. CASE \E r \in sends : r.n = s.n
    BY <1>1, <1>2, <2>1 DEF Numbered
  <2>2. CASE s.n = sent + 1 /\ sent' = sent + 1
    BY <1>1, <1>2, <2>2 DEF Numbered
  <2>3. QED
    BY <2>1, <2>2
<1>4. settled' \subseteq 1..sent'
  BY <1>1, <1>2 DEF Numbered
<1>5. Numbered'
  BY <1>3, <1>4 DEF Numbered
<1>6. Listing(inbox', heard, settled)
  BY DEF ListInv, Listing
<1>7. QED
  BY <1>5, <1>6, ListStays

LEMMA LeaveListed == ASSUME ListInv, Leave PROVE ListInv'
<1>1. /\ sends' = {[s EXCEPT !.here = FALSE] : s \in sends}
      /\ UNCHANGED <<inbox, heard, settled, sent, taken>>
  BY DEF Leave
<1>2. Numbered
  BY DEF ListInv
<1>3. ASSUME NEW s \in sends, NEW d, d = [s EXCEPT !.here = FALSE]
      PROVE  /\ d = [n |-> d.n, starts |-> d.starts, to |-> d.to, thread |-> d.thread,
                     here |-> d.here]
             /\ d.n = s.n
  <2>1. PICK n, b, to, th, h :
          s = [n |-> n, starts |-> b, to |-> to, thread |-> th, here |-> h]
    BY DEF ListInv, AreSends
  <2>2. d = [n |-> n, starts |-> b, to |-> to, thread |-> th, here |-> FALSE]
    BY <1>3, <2>1
  <2>3. QED
    BY <2>1, <2>2
<1>4. AreSends(sends')
  BY <1>1, <1>3 DEF AreSends
<1>5. ASSUME NEW d \in sends'
      PROVE  \E s \in sends : d = [s EXCEPT !.here = FALSE] /\ d.n = s.n
  BY <1>1, <1>3
<1>6. ASSUME NEW d \in sends', NEW e \in sends', d.n = e.n PROVE d = e
  <2>1. PICK s \in sends : d = [s EXCEPT !.here = FALSE] /\ d.n = s.n
    BY <1>5
  <2>2. PICK r \in sends : e = [r EXCEPT !.here = FALSE] /\ e.n = r.n
    BY <1>5
  <2>3. s = r
    BY <1>2, <1>6, <2>1, <2>2 DEF Numbered
  <2>4. QED
    BY <2>1, <2>2, <2>3
<1>7. sent' \in 0..MaxSends /\ sent <= sent' /\ taken' \subseteq 1..sent'
  BY <1>1, <1>2 DEF Numbered
<1>8. \A d \in sends' : (\E s \in sends : s.n = d.n) \/ (d.n = sent + 1 /\ sent' = sent + 1)
  BY <1>5
<1>9. QED
  BY <1>1, <1>4, <1>6, <1>7, <1>8, OutboxListed

LEMMA StartListed ==
  ASSUME ListInv, NEW s, sent < MaxSends, sent' = sent + 1, sends' = sends \cup {s},
         s.n = sent', AreSends({s}), UNCHANGED <<inbox, heard, settled, taken>>
  PROVE  ListInv'
<1>1. Numbered
  BY DEF ListInv
<1>2. sent \in Nat /\ sent' \in 0..MaxSends /\ sent <= sent' /\ taken' \subseteq 1..sent'
  BY <1>1, BoundAssumption DEF Numbered
<1>3. AreSends(sends')
  BY DEF ListInv, AreSends
<1>4. \A r \in sends : r.n # s.n
  BY <1>1, <1>2 DEF Numbered
<1>5. \A q, r \in sends' : q.n = r.n => q = r
  BY <1>1, <1>4 DEF Numbered
<1>6. \A q \in sends' : (\E r \in sends : r.n = q.n) \/ (q.n = sent + 1 /\ sent' = sent + 1)
  OBVIOUS
<1>7. QED
  BY <1>2, <1>3, <1>5, <1>6, OutboxListed

LEMMA SendingListed ==
  ASSUME ListInv, Send \/ \E to \in Groups : Start(to)
  PROVE  ListInv'
<1>1. ASSUME NEW b, NEW to, NEW th, NEW s,
             s = [n |-> sent', starts |-> b, to |-> to, thread |-> th, here |-> TRUE]
      PROVE  AreSends({s}) /\ s.n = sent'
  BY <1>1 DEF AreSends
<1>2. CASE Send
  <2>1. PICK to : to = Recipients(open, items)
    OBVIOUS
  <2>2. PICK s : s = [n |-> sent', starts |-> FALSE, to |-> to, thread |-> open.id, here |-> TRUE]
    OBVIOUS
  <2>3. /\ sent < MaxSends /\ sent' = sent + 1 /\ sends' = sends \cup {s}
        /\ UNCHANGED <<inbox, heard, settled, taken>>
    BY <1>2, <2>1, <2>2 DEF Send
  <2>4. AreSends({s}) /\ s.n = sent'
    BY <1>1, <2>2
  <2>5. QED
    BY <2>3, <2>4, StartListed
<1>3. CASE \E to \in Groups : Start(to)
  <2>1. PICK to \in Groups : Start(to)
    BY <1>3
  <2>2. PICK s : s = [n |-> sent', starts |-> TRUE, to |-> to, thread |-> None, here |-> TRUE]
    OBVIOUS
  <2>3. /\ sent < MaxSends /\ sent' = sent + 1 /\ sends' = sends \cup {s}
        /\ UNCHANGED <<inbox, heard, settled, taken>>
    BY <2>1, <2>2 DEF Start
  <2>4. AreSends({s}) /\ s.n = sent'
    BY <1>1, <2>2
  <2>5. QED
    BY <2>3, <2>4, StartListed
<1>4. QED
  BY <1>2, <1>3

LEMMA TakesListed ==
  ASSUME ListInv, NEW s \in sends, Takes(s) \/ Failed(s)
  PROVE  ListInv'
<1>1. Numbered
  BY DEF ListInv
<1>2. /\ UNCHANGED <<inbox, heard, settled, sent>> /\ sends' \subseteq sends
      /\ taken' \subseteq taken \cup {s.n}
  BY DEF Takes, Failed, lists
<1>3. sent' \in 0..MaxSends /\ sent <= sent' /\ taken' \subseteq 1..sent'
  BY <1>1, <1>2 DEF Numbered
<1>4. AreSends(sends')
  BY <1>2 DEF ListInv, AreSends
<1>5. \A q, r \in sends' : q.n = r.n => q = r
  BY <1>1, <1>2 DEF Numbered
<1>6. \A q \in sends' : (\E r \in sends : r.n = q.n) \/ (q.n = sent + 1 /\ sent' = sent + 1)
  BY <1>2
<1>7. QED
  BY <1>2, <1>3, <1>4, <1>5, <1>6, OutboxListed

LEMMA ListUntouched ==
  ASSUME ListInv, UNCHANGED <<inbox, heard, settled, sent, taken, sends>>
  PROVE  ListInv'
  BY DEF ListInv, Numbered

LEMMA ListStep == ASSUME ThreadInv, ListInv, [Next]_vars PROVE ListInv'
<1>1. CASE \E s \in sends : Accepted(s)
  BY <1>1, AcceptedListed
<1>2. CASE \E m \in Mail, isRequest \in BOOLEAN : Inbox(m, isRequest)
  BY <1>2, InboxListed
<1>3. CASE Reports(Peers)
  BY <1>3, DeliveryStateListed DEF Reports
<1>4. CASE Granted
  BY <1>4, GrantedListed
<1>5. CASE Leave
  BY <1>5, LeaveListed
<1>6. CASE Send \/ \E to \in Groups : Start(to)
  BY <1>6, SendingListed
<1>7. CASE \E s \in sends : Takes(s) \/ Failed(s)
  BY <1>7, TakesListed
<1>8. CASE \/ OpenList \/ ToggleReceipts \/ \E i \in DOMAIN inbox : OpenConversation(i)
           \/ AskAccept \/ Grants \/ NotGranted \/ Record \/ LinkChanges \/ Degrades
           \/ Reconnects \/ UNCHANGED vars
  <2>1. UNCHANGED <<inbox, heard, settled, sent, taken, sends>>
    BY <1>8 DEF OpenList, ToggleReceipts, OpenConversation, AskAccept, Grants, NotGranted, Record,
                LinkChanges, Degrades, Reconnects, vars, lists, outbox
  <2>2. QED
    BY <2>1, ListUntouched
<1>9. QED
  BY <1>1, <1>2, <1>3, <1>4, <1>5, <1>6, <1>7, <1>8 DEF Next

LEMMA ListStarts == Init => ListInv
<1>1. SUFFICES ASSUME Init PROVE ListInv
  OBVIOUS
<1>2. inbox = <<>> /\ heard = {} /\ settled = {} /\ sends = {} /\ taken = {} /\ sent = 0
  BY <1>1 DEF Init
<1>3. DOMAIN inbox = {}
  BY <1>2, NoneIsList
<1>4. Numbered
  BY <1>2, BoundAssumption DEF Numbered
<1>5. QED
  BY <1>2, <1>3, <1>4 DEF ListInv, AreSends, Distinct, OnceEach, InTheirs, AllThere

LEMMA ListedWhenOnce == ListInv => ListedOnce
<1>1. SUFFICES ASSUME ListInv PROVE ListedOnce
  OBVIOUS
<1>2. \A i, j \in DOMAIN inbox : inbox[i].id = inbox[j].id => i = j
  BY <1>1 DEF ListInv, Distinct
<1>3. ASSUME NEW id \in heard \cup {Env(n) : n \in settled} PROVE Cardinality(Placed(id)) = 1
  <2>1. PICK i \in DOMAIN inbox : id \in MessageIds(inbox[i])
    BY <1>1 DEF ListInv, AllThere, Has
  <2>2. PICK j \in DOMAIN inbox[i].messages : inbox[i].messages[j].id = id
    BY <2>1, IdsAre
  <2>3. ASSUME NEW k \in DOMAIN inbox, NEW l \in DOMAIN inbox[k].messages,
               inbox[k].messages[l].id = id
        PROVE  k = i /\ l = j
    <3>1. id \in MessageIds(inbox[k])
      BY <2>3, IdsAre
    <3>2. k = i
      BY <1>1, <2>1, <3>1 DEF ListInv, OnceEach
    <3>3. l = j
      BY <1>1, <2>2, <2>3, <3>2 DEF ListInv, OnceEach, Once
    <3>4. QED
      BY <3>2, <3>3
  <2>4. Placed(id) = {<<i, j>>}
    BY <2>2, <2>3 DEF Placed
  <2>5. QED
    BY <2>4, FS_Singleton
<1>4. QED
  BY <1>2, <1>3 DEF ListedOnce

-----------------------------------------------------------------------------
(* What holds of the thread and of the list in every reachable state: each *)
(* needs the other's part of the invariant.                                *)
LEMMA DmsInvariant == Spec => [](ThreadInv /\ ListInv)
<1>1. Init => ThreadInv /\ ListInv
  BY ThreadStarts, ListStarts
<1>2. ThreadInv /\ ListInv /\ [Next]_vars => (ThreadInv /\ ListInv)'
  <2>1. SUFFICES ASSUME ThreadInv, ListInv, [Next]_vars PROVE ThreadInv' /\ ListInv'
    OBVIOUS
  <2>2. Distinct(inbox) /\ Numbered
    BY <2>1 DEF ListInv
  <2>3. QED
    BY <2>1, <2>2, ThreadStep, ListStep
<1>3. QED
  BY <1>1, <1>2, PTL DEF Spec

(* A delivery state that the user's channel has brought is shown with its  *)
(* message: also when it came before the answer of submitDm told the       *)
(* client the id of the envelope, or while another conversation was open   *)
(* (handleDeliveryState, applyDeliveryState).                              *)
THEOREM EarlyStates == Spec => []EarlyStateLands
  BY DmsInvariant, ThreadLands, PTL

(* mergeInboxConversation lists every envelope that was received, and      *)
(* every message whose acceptance was, exactly once, in one conversation,  *)
(* however often and over whatever anchors it came.                        *)
THEOREM MessagesListedOnce == Spec => []ListedOnce
  BY DmsInvariant, ListedWhenOnce, PTL
=============================================================================
