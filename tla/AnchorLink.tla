----------------------------- MODULE AnchorLink -----------------------------
(***************************************************************************)
(* The standing connection of the client to the anchors of its user        *)
(* (assets/app/chat/anchor-connection.tsx), over the sockets that it       *)
(* shares with the other screens (assets/app/chat/socket.ts).              *)
(*                                                                         *)
(* A React effect asks for one socket per anchor, joins the user's topic   *)
(* on it, and derives from the answers whether an anchor is reachable and, *)
(* after a minute without any, that the client is degraded.  The effect    *)
(* runs again whenever what it depends on changes: the anchors, or a       *)
(* handler, which is new after every change of the metadata.  What an      *)
(* earlier run has asked for may be answered during a later one.           *)
(* A socket connects again by itself, always with the token it was made    *)
(* with, and the anchor looks at the session behind it each time.          *)
(***************************************************************************)
EXTENDS Naturals, Sequences, SequencesExt, FiniteSets

CONSTANTS
  Anchors,    \* the anchors of the published profile
  MaxRuns,    \* bound: runs of the effect
  MaxSockets  \* bound: sockets made for an anchor

ASSUME BoundsAssumption == MaxRuns \in Nat \ {0} /\ MaxSockets \in Nat \ {0}

VARIABLES
  up,         \* the anchors that can be reached over the network
  made,       \* sockets made so far, for each anchor: the last one is in use
  cached,     \* the anchors whose last socket is in the cache
  current,    \* those whose socket has the token of the stored session
  opened,     \* those whose socket is connected
  refused,    \* those that do not take the token of their socket any more
  run,        \* the run of the effect
  configured, \* the profile names anchors and the identity is unlocked
  asks,       \* calls of getSocket under way
  joined,     \* joinedChannels: in the order in which they were joined
  live,       \* those whose join the server has answered, connection intact
  reachable,  \* what the effect takes to be reachable
  status,
  timer       \* the timer of a minute: its handle stays when it has fired

sockets == <<made, cached, current, opened, refused>>
effect == <<run, configured, asks, joined>>
shown == <<reachable, status, timer>>
linkVars == <<up, sockets, effect, live, shown>>

Runs == 1..MaxRuns
Channels == [at : Anchors, run : Runs, socket : 1..MaxSockets]

LinkTypeOK ==
  /\ up \subseteq Anchors
  /\ made \in [Anchors -> 0..MaxSockets]
  /\ cached \subseteq Anchors /\ current \subseteq cached
  /\ opened \subseteq cached \cap up /\ refused \subseteq cached
  /\ run \in Runs /\ configured \in BOOLEAN
  /\ asks \subseteq Anchors \X Runs
  /\ joined \in Seq(Channels) /\ live \subseteq ToSet(joined)
  /\ reachable \subseteq Anchors
  /\ status \in {"connecting", "connected", "degraded"}
  /\ timer \in {"off", "armed", "fired"}

(* The first run of the effect; the identity may have named no anchor yet. *)
LinkInit ==
  /\ up \in SUBSET Anchors
  /\ made = [a \in Anchors |-> 0] /\ cached = {} /\ current = {}
  /\ opened = {} /\ refused = {}
  /\ run = 1 /\ configured \in BOOLEAN
  /\ asks = IF configured THEN Anchors \X {1} ELSE {}
  /\ joined = <<>> /\ live = {}
  /\ reachable = {} /\ status = "connecting"
  /\ timer = IF configured THEN "armed" ELSE "off"

-----------------------------------------------------------------------------
(* Status *)

NotArmed(handle) == handle  \* mutant: nothing is armed

(* clearDegradedTimer and armDegradedTimer: a handle that is there is not  *)
(* armed again, also when the timer has fired.                             *)
Cleared == "off"
Armed(handle) == IF handle = "off" THEN "armed" ELSE handle

(* Mutants of Recompute: the timer is left running, degraded is never left. *)
TimerLeftOn(anchors) ==
  /\ reachable' = anchors
  /\ status' = IF anchors # {} THEN "connected"
               ELSE IF status = "degraded" THEN status ELSE "connecting"
  /\ timer' = IF anchors # {} THEN timer ELSE Armed(timer)
DegradedForGood(anchors) ==
  /\ reachable' = anchors
  /\ status' = IF status = "degraded" THEN status
               ELSE IF anchors # {} THEN "connected" ELSE "connecting"
  /\ timer' = IF anchors # {} THEN Cleared ELSE Armed(timer)

(* recompute: the status that follows from what is reachable.              *)
Recompute(anchors) ==
  /\ reachable' = anchors
  /\ IF anchors # {}
       THEN status' = "connected" /\ timer' = Cleared
       ELSE /\ status' = IF status = "degraded" THEN status ELSE "connecting"
            /\ timer' = Armed(timer)

(* The timer fires a minute after it was armed.                            *)
TimerFires ==
  /\ timer = "armed"
  /\ timer' = "fired" /\ status' = "degraded"
  /\ UNCHANGED <<up, sockets, effect, live, reachable>>

-----------------------------------------------------------------------------
(* Sockets *)

(* The socket of a channel is the one in the cache; one that was dropped   *)
(* or replaced is disconnected and does not connect again.                 *)
OnCached(channel) ==
  channel.at \in cached /\ channel.socket = made[channel.at]

(* getSocket: without a session the socket is dropped; with another token  *)
(* than that of the cached socket it is replaced.  The old one disconnects *)
(* under the channels that were joined on it.  The token of a new socket   *)
(* is fresh by the clock of the client; the anchor may have revoked it.    *)
UseSocket(a, session) ==
  LET kept == session /\ a \in current IN
  /\ session /\ ~kept => made[a] < MaxSockets
  /\ made' = IF session /\ ~kept THEN [made EXCEPT ![a] = @ + 1] ELSE made
  /\ cached' = IF session THEN cached \cup {a} ELSE cached \ {a}
  /\ current' = IF session THEN current \cup {a} ELSE current \ {a}
  /\ opened' = IF kept THEN opened ELSE opened \ {a}
  /\ \E revoked \in SUBSET IF session /\ ~kept THEN {a} ELSE {} :
       refused' = IF kept THEN refused ELSE (refused \ {a}) \cup revoked
  /\ live' = {c \in live : c.at = a => kept}

(* Another screen, of a channel of the same server, calls getSocket.       *)
OtherScreen(a) ==
  /\ \E session \in BOOLEAN : UseSocket(a, session)
  /\ UNCHANGED <<up, effect, shown>>

(* The session of the anchor is renewed: its token is another one.  The    *)
(* socket keeps the old one, which the anchor takes until it expires.      *)
Renewed(a) ==
  /\ a \in current
  /\ current' = current \ {a}
  /\ UNCHANGED <<up, made, cached, opened, refused, effect, live, shown>>

(* The session of the token that the socket has expires or is revoked at   *)
(* the anchor.  That ends no connection that is open.                      *)
Lapses(a) ==
  /\ a \in cached
  /\ refused' = refused \cup {a}
  /\ UNCHANGED <<up, made, cached, current, opened, effect, live, shown>>

(* The socket connects, at first or again: UserSocket verifies the session *)
(* of the token it was made with.                                          *)
Connect(a) ==
  /\ a \in (cached \cap up) \ (opened \cup refused)
  /\ opened' = opened \cup {a}
  /\ UNCHANGED <<up, made, cached, current, refused, effect, live, shown>>

-----------------------------------------------------------------------------
(* The effect *)

(* The cleanup leaves the channels.                                        *)
LeaveChannels == joined' = <<>> /\ live' = {}

(* The effect is cleaned up and runs again: channels are left, the timer   *)
(* is cleared and armed, what is asked from now on belongs to this run.    *)
RunAgain ==
  /\ run < MaxRuns
  /\ run' = run + 1
  /\ LeaveChannels
  /\ \E ready \in BOOLEAN :
       /\ configured' = ready
       /\ IF ready
            THEN /\ asks' = asks \cup (Anchors \X {run'})
                 /\ reachable' = {} /\ timer' = Armed(Cleared)
                 /\ UNCHANGED status
            ELSE /\ UNCHANGED asks
                 /\ reachable' = {} /\ timer' = Cleared
                 /\ status' = "connecting"
  /\ UNCHANGED <<up, sockets>>

NeverCancelled(ask) == FALSE  \* mutant: cancelled is not looked at
(* cancelled: the effect has run again since it was asked.                 *)
Cancelled(ask) == ask[2] # run

(* The socket is there: the channel is made on it and joins.               *)
AskAnswered(ask) ==
  /\ ask \in asks
  /\ asks' = asks \ {ask}
  /\ UseSocket(ask[1], TRUE)
  /\ joined' = IF Cancelled(ask) THEN joined
               ELSE Append(joined, [at |-> ask[1], run |-> ask[2], socket |-> made'[ask[1]]])
  /\ UNCHANGED <<up, run, configured, shown>>

(* There is no session for the anchor: it is not asked again in this run.  *)
AskRefused(ask) ==
  /\ ask \in asks
  /\ asks' = asks \ {ask}
  /\ UNCHANGED joined
  /\ UseSocket(ask[1], FALSE)
  /\ IF Cancelled(ask) THEN UNCHANGED shown
     ELSE Recompute(reachable \ {ask[1]})
  /\ UNCHANGED <<up, run, configured>>

(* The server answers a join, also one after a reconnection, with the      *)
(* state of the presence.                                                  *)
Present(channel) ==
  /\ channel \in ToSet(joined) \ live
  /\ channel.at \in opened /\ OnCached(channel)
  /\ live' = live \cup {channel}
  /\ Recompute(reachable \cup {channel.at})
  /\ UNCHANGED <<up, sockets, effect>>

(* The socket of a channel reports an error or its close: the anchor is    *)
(* down, the connection not made yet, or refused by an anchor that is up.  *)
(* A socket that was replaced may close without a report.                  *)
Unreachable(channel) ==
  /\ channel \in ToSet(joined) \ live
  /\ channel.at \notin opened \/ ~OnCached(channel)
  /\ Recompute(reachable \ {channel.at})
  /\ UNCHANGED <<up, sockets, effect, live>>

-----------------------------------------------------------------------------
(* The network *)

GoesDown(a) ==
  /\ a \in up
  /\ up' = up \ {a} /\ opened' = opened \ {a}
  /\ live' = {c \in live : c.at # a}
  /\ UNCHANGED <<made, cached, current, refused, effect, shown>>

ComesUp(a) ==
  /\ a \notin up
  /\ up' = up \cup {a}
  /\ UNCHANGED <<sockets, effect, live, shown>>

Answers == \E ask \in asks : AskAnswered(ask) \/ AskRefused(ask)
ChannelReports == \E channel \in ToSet(joined) : Present(channel) \/ Unreachable(channel)

LinkNext ==
  \/ TimerFires \/ RunAgain
  \/ Answers \/ ChannelReports
  \/ \E a \in Anchors : OtherScreen(a) \/ Renewed(a) \/ Lapses(a) \/ Connect(a)
  \/ \E a \in Anchors : GoesDown(a) \/ ComesUp(a)

LinkSpec == LinkInit /\ [][LinkNext]_linkVars

(* The timer fires, a call of getSocket returns, and the socket of the     *)
(* cache keeps connecting and reports what becomes of it; a channel joins  *)
(* on it each time it is open.                                             *)
FairLinkSpec ==
  /\ LinkSpec
  /\ WF_linkVars(TimerFires) /\ WF_linkVars(Answers)
  /\ \A a \in Anchors : WF_linkVars(Connect(a))
  /\ \A a \in Anchors, n \in 1..MaxSockets, r \in Runs :
       LET channel == [at |-> a, run |-> r, socket |-> n] IN
       /\ WF_linkVars(OnCached(channel) /\ Present(channel))
       /\ WF_linkVars(OnCached(channel) /\ Unreachable(channel))

-----------------------------------------------------------------------------
(* Properties *)

(* The status never contradicts what is known: a client is degraded only   *)
(* while it takes no anchor to be reachable, and a client that takes none  *)
(* to be reachable is degraded or waits for the minute to pass.  While     *)
(* events can come in the status is connected (recompute and the timer).   *)
StatusIsFounded ==
  /\ status = "degraded" => reachable = {}
  /\ configured /\ reachable = {} => status = "degraded" \/ timer = "armed"
  /\ timer = "armed" => reachable = {}
  /\ live # {} => status = "connected"

(* An anchor has at most one channel of the user, and it is one of the     *)
(* current run: an event is not handled twice, nor by a handler that is    *)
(* out of date (the checks of cancelled and the cleanups).                 *)
OneChannel ==
  /\ \A channel \in ToSet(joined) : channel.run = run
  /\ \A i, j \in DOMAIN joined : joined[i].at = joined[j].at => i = j

(* The channels are on the sockets of the cache: no other screen has had   *)
(* one of them replaced since.                                             *)
Undisturbed == \A channel \in ToSet(joined) : OnCached(channel)

(* A client that none of its anchors serves any more notices it, whether   *)
(* they are down or refuse its sessions: it ends degraded (markUnreachable *)
(* and armDegradedTimer).                                                  *)
OutageIsNoticed ==
  <>[](configured /\ opened = {} /\ Undisturbed) => <>[](status = "degraded")

(* The anchor has the user's channel on the socket of the cache, and that  *)
(* socket is connected, or can connect: the anchor is up and still takes   *)
(* the token it was made with (user_socket.ex, verify_session).            *)
CanServe(a) ==
  /\ \E channel \in ToSet(joined) : channel.at = a /\ OnCached(channel)
  /\ a \in opened \/ a \in up \ refused

(* One anchor that keeps being able to serve the client is enough: the     *)
(* client ends connected, whatever the other anchors do, however long it   *)
(* has been degraded, and whatever an earlier run of the effect, a session *)
(* that was missing or an error has left behind (presence_state and        *)
(* recompute).                                                             *)
Connects ==
  \A a \in Anchors : <>[](configured /\ CanServe(a)) => <>[](status = "connected")

(* CONTEXT.md:237 calls degraded mode "The state a client enters when none *)
(* of the user's anchor servers are reachable."  A client that has joined  *)
(* its channel at every anchor, while all of them stay up and take the     *)
(* tokens of the sockets it has, would not stay in it.  It does: getSocket *)
(* called for another screen replaces the socket under a joined channel,   *)
(* and nothing joins the channel again before the effect runs again.       *)
DegradedIsOutage ==
  <>[](/\ configured /\ {channel.at : channel \in ToSet(joined)} = Anchors
       /\ up = Anchors /\ current = Anchors /\ refused = {})
    => <>[](status # "degraded")

=============================================================================
