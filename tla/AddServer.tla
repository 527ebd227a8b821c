------------------------------ MODULE AddServer ------------------------------
(***************************************************************************)
(* How one device joins servers and publishes its anchors                  *)
(* (assets/app/screens/AddServerScreen.tsx, AddAnchorScreen.tsx, bind.ts,  *)
(* claim.ts, invite.ts, room-invite.ts, add-anchor.ts and what of          *)
(* identity.ex and its changes answers them).                              *)
(*                                                                         *)
(* A link or an address is pasted; the server is asked whether it has been *)
(* claimed; the token is redeemed or claimed; the device is bound; the     *)
(* version and the anchors of the answer are recorded in the metadata of   *)
(* the identity; the server is listed.  A handler runs on when its screen  *)
(* has been left, so several are under way at once.  Each call may fail    *)
(* before or after the server has done its part.                           *)
(* Adding an anchor signs a new profile, which the home anchor stores, and *)
(* which a job then takes to the new anchor.                               *)
(***************************************************************************)
EXTENDS Naturals, FiniteSets, Sequences, SequencesExt

CONSTANTS
  Servers,
  Unclaimed,    \* the servers nobody has claimed at first
  Tokens,       \* what may be pasted: records [kind, at]
  MaxRuns,      \* bound: handlers of AddServerScreen under way at once
  MaxStarts,    \* bound: what the user submits
  MaxAttempts   \* max_attempts of AnchorAdoptionWorker

None == "none"
Runs == 1..MaxRuns
Kinds == {"claim", "invite", "room"}

ASSUME ServersAssumption == Servers # {} /\ Unclaimed \subseteq Servers /\ None \notin Servers
ASSUME TokensAssumption == Tokens \subseteq [kind : Kinds, at : Servers]
ASSUME BoundsAssumption == MaxStarts \in Nat /\ MaxRuns \in Nat \ {0} /\ MaxAttempts \in Nat \ {0}

VARIABLES
  claimed,  \* the servers that have been claimed
  used,     \* the tokens that have been consumed
  member,   \* what the person is on each server
  row,      \* its identity on each server: version, anchors, is the device bound
  ppe,      \* the signed profile that each server holds
  jobs,     \* adoptions to be done, with the attempts made
  dropped,  \* adoptions that have been given up
  screen,
  form,     \* the state of the mounted AddServerScreen
  run,      \* what its handlers are doing
  anchor,   \* what the handler of AddAnchorScreen is doing
  meta,     \* the metadata of the identity
  listed,   \* the servers of the workspace, in their order
  session,  \* the servers with a stored session
  starts

server == <<claimed, used, member, row, ppe, jobs, dropped>>
client == <<screen, form, run, anchor, meta, listed, session, starts>>
vars == <<server, client>>

(* Anchors are stored as the server's URL by a bind and by an adoption, as *)
(* a host by add_anchor; the client makes hosts of both.                   *)
Url(s) == [form |-> "url", host |-> s]
Host(s) == [form |-> "host", host |-> s]
Hosts(anchors) == {a.host : a \in anchors}
AnchorForms == [form : {"url", "host"}, host : Servers]

NoRow == [known |-> FALSE, bound |-> FALSE, version |-> 0, anchors |-> {}]
NoProfile == [version |-> 0, anchors |-> {}]

FreshForm == [step |-> "connect", at |-> None, info |-> <<>>,
              probing |-> FALSE, submitting |-> FALSE]
Idle == [pc |-> "idle", kind |-> None, at |-> None, token |-> <<>>, id |-> None,
         here |-> FALSE, linked |-> FALSE, ans |-> None, got |-> NoProfile, next |-> <<>>]
NoAnchor == [pc |-> "idle", at |-> None, new |-> None, signed |-> NoProfile,
             ans |-> None, got |-> NoProfile, next |-> <<>>]

(* Each bind and each anchor make a version.                               *)
MaxVersion == MaxStarts + 1
Profiles == [version : 0..MaxVersion, anchors : SUBSET Servers]
Metas == [version : 0..MaxVersion, anchors : SUBSET Servers, bound : BOOLEAN]
SomeToken == {<<>>} \cup {<<t>> : t \in Tokens}
SomeMeta == {<<>>} \cup {<<m>> : m \in Metas}
Infos == [claimed : BOOLEAN, id : Servers]

Jobs == [at : Servers, new : Servers]

TypeOK ==
  /\ claimed \subseteq Servers /\ used \subseteq Tokens
  /\ member \in [Servers -> {"none", "guest", "member"}]
  /\ \A s \in Servers :
       /\ row[s].known \in BOOLEAN /\ row[s].bound \in BOOLEAN
       /\ row[s].version \in 0..MaxVersion /\ row[s].anchors \subseteq AnchorForms
       /\ ppe[s] \in Profiles
  /\ \A j \in DOMAIN jobs : j \in Jobs /\ jobs[j] \in 0..(MaxAttempts - 1)
  /\ dropped \subseteq Jobs
  /\ screen \in {"home", "add-server", "add-anchor"}
  /\ form.step \in {"connect", "code"} /\ form.at \in Servers \cup {None}
  /\ form.info \in {<<>>} \cup {<<i>> : i \in Infos}
  /\ form.probing \in BOOLEAN /\ form.submitting \in BOOLEAN
  /\ screen # "add-server" => form = FreshForm
  /\ \A r \in Runs :
       /\ run[r].pc \in {"idle", "probe", "ask", "bind", "profile", "first", "list"}
       /\ run[r].token \in SomeToken /\ run[r].id \in Servers \cup {None}
       /\ run[r].got \in Profiles /\ run[r].next \in SomeMeta
       /\ run[r].here => screen = "add-server"
  /\ Cardinality({r \in Runs : run[r].here /\ run[r].pc \in {"probe", "ask", "bind"}}) <= 1
  /\ anchor.pc \in {"idle", "ask", "profile"} /\ anchor.signed \in Profiles
  /\ anchor.got \in Profiles /\ anchor.next \in SomeMeta
  /\ meta \in Metas /\ session \subseteq Servers /\ starts \in 0..MaxStarts
  /\ \A i \in DOMAIN listed : listed[i].at \in Servers /\ listed[i].id \in Servers \cup {None}

Init ==
  /\ claimed = Servers \ Unclaimed /\ used = {}
  /\ member = [s \in Servers |-> "none"] /\ row = [s \in Servers |-> NoRow]
  /\ ppe = [s \in Servers |-> NoProfile] /\ jobs = <<>> /\ dropped = {}
  /\ screen = "home" /\ form = FreshForm
  /\ run = [r \in Runs |-> Idle] /\ anchor = NoAnchor
  /\ meta = [version |-> 0, anchors |-> {}, bound |-> FALSE]
  /\ listed = <<>> /\ session = {} /\ starts = 0

Submits == starts < MaxStarts /\ starts' = starts + 1

-----------------------------------------------------------------------------
(* The screen *)

OpenAddServer ==
  /\ screen = "home" /\ screen' = "add-server"
  /\ UNCHANGED <<server, form, run, anchor, meta, listed, session, starts>>

(* Its handlers go on; what they set of its state is lost.                 *)
Unmounted(runs) == [r \in Runs |-> [runs[r] EXCEPT !.here = FALSE]]

(* Cancel, or another place of the workspace bar.                          *)
LeaveScreen ==
  /\ screen # "home" /\ screen' = "home"
  /\ form' = FreshForm /\ run' = Unmounted(run)
  /\ UNCHANGED <<server, anchor, meta, listed, session, starts>>

Back ==
  /\ form.step = "code" /\ ~form.submitting
  /\ form' = [form EXCEPT !.step = "connect"]
  /\ UNCHANGED <<server, screen, run, anchor, meta, listed, session, starts>>

(* A handler begins.                                                       *)
IsNext(r) == run[r] = Idle /\ \A q \in Runs : q < r => run[q] # Idle

(* What is pasted is the link of a room, that of an invite or of a claim.  *)
RoomLinks == {t \in Tokens : t.kind = "room"}
InviteLinks == Tokens \ RoomLinks

(* handleConnect with the link of a room, with that of an invite or of a   *)
(* claim, or with an address.                                              *)
MayConnect == screen = "add-server" /\ form.step = "connect" /\ ~form.probing /\ ~form.submitting

ConnectRoom(r, t) ==
  /\ t \in RoomLinks /\ MayConnect /\ IsNext(r) /\ Submits
  /\ run' = [run EXCEPT ![r] = [Idle EXCEPT !.pc = "ask", !.kind = "room", !.at = t.at,
                                            !.token = <<t>>, !.here = TRUE]]
  /\ form' = [form EXCEPT !.submitting = TRUE]
  /\ UNCHANGED <<server, screen, anchor, meta, listed, session>>

Probes(r, s, token) ==
  /\ MayConnect /\ IsNext(r) /\ Submits
  /\ run' = [run EXCEPT ![r] = [Idle EXCEPT !.pc = "probe", !.at = s, !.token = token,
                                            !.linked = token # <<>>, !.here = TRUE]]
  /\ form' = [form EXCEPT !.at = s, !.probing = TRUE]
  /\ UNCHANGED <<server, screen, anchor, meta, listed, session>>

ConnectLink(r, t) == t \in InviteLinks /\ Probes(r, t.at, <<t>>)
ConnectAddress(r, s) == Probes(r, s, <<>>)

(* The state of the form, when the screen of the handler is still there.   *)
Sets(r, state) == form' = IF run[r].here THEN state ELSE form

(* runBind: a token is redeemed where the server is said to be claimed.    *)
AsksFor(claims, s, t, id) ==
  [Idle EXCEPT !.pc = "ask", !.kind = IF claims THEN "invite" ELSE "claim",
               !.at = s, !.token = <<t>>, !.id = id]

(* The answer may be that of a cache, from before the claim.               *)
ProbeAnswered(r, claims) ==
  /\ run[r].pc = "probe" /\ claims \in {FALSE, run[r].at \in claimed}
  /\ IF run[r].linked
       THEN /\ run' = [run EXCEPT ![r] =
                         [AsksFor(claims, @.at, @.token[1], @.at) EXCEPT
                            !.here = run[r].here, !.linked = TRUE]]
            /\ Sets(r, [form EXCEPT !.probing = FALSE, !.submitting = TRUE,
                          !.info = <<[claimed |-> claims, id |-> run[r].at]>>])
       ELSE /\ run' = [run EXCEPT ![r] = Idle]
            /\ Sets(r, [form EXCEPT !.probing = FALSE, !.step = "code",
                          !.info = <<[claimed |-> claims, id |-> run[r].at]>>])
  /\ UNCHANGED <<server, screen, anchor, meta, listed, session, starts>>

InfoLost == <<>>

(* No connection, an error, no answer within five seconds.                 *)
ProbeFailed(r) ==
  /\ run[r].pc = "probe"
  /\ run' = [run EXCEPT ![r] = Idle]
  /\ Sets(r, [form EXCEPT !.probing = FALSE, !.step = "code", !.info = InfoLost])
  /\ UNCHANGED <<server, screen, anchor, meta, listed, session, starts>>

(* handleSubmitCode: without information the token is taken for a claim.   *)
SaysClaimed == form.info # <<>> /\ form.info[1].claimed
KnownId == IF form.info = <<>> THEN None ELSE form.info[1].id

(* The token is that of the link, or one that was typed.                   *)
SubmitCode(r, t) ==
  /\ form.step = "code" /\ ~form.submitting /\ IsNext(r) /\ Submits
  /\ run' = [run EXCEPT ![r] =
               [AsksFor(SaysClaimed, form.at, t, KnownId) EXCEPT !.here = TRUE]]
  /\ form' = [form EXCEPT !.submitting = TRUE]
  /\ UNCHANGED <<server, screen, anchor, meta, listed, session>>

-----------------------------------------------------------------------------
(* The server *)

(* Redeem and claim: a transaction each.  The token may be that of another *)
(* server, left in the form.                                               *)
IsAccepted(kind, s, t) ==
  /\ t.kind = kind /\ t.at = s /\ t \notin used
  /\ (t.at \in claimed) = (kind # "claim")

Joined(kind, before) ==
  IF kind # "room" THEN "member" ELSE IF before = "none" THEN "guest" ELSE before

TokenTaken(r) ==
  LET t == run[r].token[1] IN
  /\ run[r].pc = "ask" /\ run[r].ans = None /\ IsAccepted(run[r].kind, run[r].at, t)
  /\ used' = used \cup {t} /\ claimed' = claimed \cup {t.at}
  /\ member' = [member EXCEPT ![t.at] = Joined(run[r].kind, @)]
  /\ row' = [row EXCEPT ![t.at].known = TRUE]
  /\ run' = [run EXCEPT ![r].ans = "done"]
  /\ UNCHANGED <<ppe, jobs, dropped, screen, form, anchor, meta, listed, session, starts>>

(* bind_device: the subkey, the server's own URL and the version.          *)
BoundRow(s) ==
  [row[s] EXCEPT !.bound = TRUE, !.anchors = @ \cup {Url(s)},
                 !.version = IF row[s].bound THEN @ ELSE @ + 1]

DeviceBound(r) ==
  LET s == run[r].at IN
  /\ run[r].pc = "bind" /\ run[r].ans = None
  /\ row' = [row EXCEPT ![s] = BoundRow(s)]
  /\ run' = [run EXCEPT ![r].ans = "done",
               ![r].got = [version |-> row'[s].version, anchors |-> Hosts(row'[s].anchors)]]
  /\ UNCHANGED <<claimed, used, member, ppe, jobs, dropped,
                 screen, form, anchor, meta, listed, session, starts>>

(* Somebody else uses a token.  What a ban does is Admission's subject.    *)
TakenByOther(t) ==
  /\ t \notin used /\ used' = used \cup {t}
  /\ (t.at \in claimed) = (t.kind # "claim")
  /\ claimed' = claimed \cup {t.at}
  /\ UNCHANGED <<member, row, ppe, jobs, dropped, client>>

-----------------------------------------------------------------------------
(* The rest of the handler *)

(* A call is refused, or lost before or after the server has done its      *)
(* part: from a link to a server the form goes on to the code.             *)
CallFails(r) ==
  /\ run[r].pc \in {"ask", "bind"} /\ run' = [run EXCEPT ![r] = Idle]
  /\ Sets(r, [form EXCEPT !.submitting = FALSE,
                          !.step = IF run[r].linked THEN "code" ELSE @])
  /\ UNCHANGED <<server, screen, anchor, meta, listed, session, starts>>

(* A claim answers with no identifier of the server, the others do.        *)
ClaimedId(r) == run[r].id
InvitedId(r) == run[r].at
RoomId(r) == run[r].at
AnsweredId(r) == CASE run[r].kind = "claim" -> ClaimedId(r)
                   [] run[r].kind = "invite" -> InvitedId(r)
                   [] run[r].kind = "room" -> RoomId(r)

Accepted(r) ==
  /\ run[r].pc = "ask" /\ run[r].ans = "done"
  /\ run' = [run EXCEPT ![r].pc = "bind", ![r].ans = None, ![r].id = AnsweredId(r)]
  /\ UNCHANGED <<server, screen, form, anchor, meta, listed, session, starts>>

(* recordBoundProfile: whatever version the server has answered.  The      *)
(* metadata are read now and written when they have been saved.            *)
Recorded(before, got) == [before EXCEPT !.version = got.version, !.anchors = got.anchors]

WhateverCame(r) == TRUE  \* mutant: the failure of the bind is not looked at
IsBound(r) == run[r].ans = "done"

BindAnswered(r) ==
  /\ run[r].pc = "bind" /\ IsBound(r)
  /\ session' = session \cup {run[r].at}
  /\ Sets(r, [form EXCEPT !.submitting = FALSE])
  /\ run' = [run EXCEPT ![r].pc = "profile", ![r].ans = None, ![r].got = NoProfile,
                        ![r].next = <<Recorded(meta, run[r].got)>>]
  /\ UNCHANGED <<server, screen, anchor, meta, listed, starts>>

(* The profile is saved, and recordFirstBound begins.                      *)
FirstBound(before) == [before EXCEPT !.bound = TRUE]

ProfileSaved(r) ==
  /\ run[r].pc = "profile" /\ meta' = run[r].next[1]
  /\ run' = [run EXCEPT ![r].pc = "first", ![r].next = <<FirstBound(meta')>>]
  /\ UNCHANGED <<server, screen, form, anchor, listed, session, starts>>

(* addServer: a server that was listed, which it is once, moves to the     *)
(* end.                                                                    *)
Places(s) == {i \in DOMAIN listed : listed[i].at = s}
Besides(s) ==
  IF Places(s) = {} THEN listed ELSE RemoveAt(listed, CHOOSE i \in Places(s) : TRUE)
Listed(s, id) == Append(Besides(s), [at |-> s, id |-> id])

(* That is saved: the server is listed, and the app goes to the channel of *)
(* a server that was joined, if it finds one, or home.                     *)
FirstSaved(r) ==
  /\ run[r].pc = "first" /\ meta' = run[r].next[1]
  /\ listed' = Listed(run[r].at, run[r].id)
  /\ \/ screen' = "home" /\ form' = FreshForm
        /\ run' = [Unmounted(run) EXCEPT ![r] = [Idle EXCEPT !.pc = "list", !.next = <<meta'>>]]
     \/ /\ run[r].kind # "claim"
        /\ run' = [run EXCEPT ![r] = [Idle EXCEPT !.pc = "list", !.next = <<meta'>>]]
        /\ UNCHANGED <<screen, form>>
  /\ UNCHANGED <<server, anchor, session, starts>>

(* persistServers has saved the metadata it read.                          *)
ListSaved(r) ==
  /\ run[r].pc = "list" /\ meta' = run[r].next[1]
  /\ run' = [run EXCEPT ![r] = Idle]
  /\ UNCHANGED <<server, screen, form, anchor, listed, session, starts>>

-----------------------------------------------------------------------------
(* Another anchor *)

(* The nudge: one server, and the first was bound seven days ago.          *)
IsNudged == Len(listed) = 1 /\ meta.bound

OpenAddAnchor ==
  /\ screen = "home" /\ IsNudged
  /\ screen' = "add-anchor"
  /\ UNCHANGED <<server, form, run, anchor, meta, listed, session, starts>>

(* buildSignedPpe on what the screen read when it was submitted.           *)
Signed(h) ==
  [version |-> meta.version + 1,
   anchors |-> {h} \cup IF meta.anchors = {} THEN {listed[1].at} ELSE meta.anchors]

(* One at a time: what overlaps here is an anchor and a server.            *)
SubmitAnchor(h) ==
  /\ screen = "add-anchor" /\ anchor = NoAnchor /\ listed # <<>>
  /\ listed[1].at \in session /\ Submits
  /\ anchor' = [NoAnchor EXCEPT !.pc = "ask", !.at = listed[1].at, !.new = h,
                                !.signed = Signed(h)]
  /\ UNCHANGED <<server, screen, form, run, meta, listed, session>>

(* AppendAnchorHost, CacheUpdatedPpe and EnqueueAnchorAdoption.            *)
IsNewer == anchor.signed.version > row[anchor.at].version
           /\ anchor.signed.version > ppe[anchor.at].version

NoJob(j) == jobs  \* mutant: nothing is enqueued
WithJob(j) == [k \in DOMAIN jobs \cup {j} |-> IF k = j THEN 0 ELSE jobs[k]]

AnchorTaken ==
  LET s == anchor.at  h == Host(anchor.new) IN
  /\ anchor.pc = "ask" /\ anchor.ans = None
  /\ \/ /\ h \in row[s].anchors /\ UNCHANGED <<row, ppe, jobs>>
        /\ anchor' = [anchor EXCEPT !.ans = "done",
                        !.got = [version |-> row[s].version, anchors |-> Hosts(row[s].anchors)]]
     \/ /\ h \notin row[s].anchors /\ IsNewer
        /\ row' = [row EXCEPT ![s].anchors = @ \cup {h}, ![s].version = anchor.signed.version]
        /\ ppe' = [ppe EXCEPT ![s] = anchor.signed]
        /\ jobs' = WithJob([at |-> s, new |-> anchor.new])
        /\ anchor' = [anchor EXCEPT !.ans = "done",
                        !.got = [version |-> anchor.signed.version,
                                 anchors |-> Hosts(row[s].anchors \cup {h})]]
  /\ UNCHANGED <<claimed, used, member, dropped, screen, form, run, meta, listed, session, starts>>

(* invalid_ppe, another refusal, or the call is lost.                      *)
AnchorFails ==
  /\ anchor.pc = "ask" /\ anchor' = NoAnchor
  /\ UNCHANGED <<server, screen, form, run, meta, listed, session, starts>>

Signs(call) == call.signed  \* mutant: what was signed is recorded
Stores(call) == call.got
Published(call) == Stores(call)

AnchorAnswered ==
  /\ anchor.pc = "ask" /\ anchor.ans = "done"
  /\ anchor' = [NoAnchor EXCEPT !.pc = "profile", !.next = <<Recorded(meta, Published(anchor))>>]
  /\ UNCHANGED <<server, screen, form, run, meta, listed, session, starts>>

(* onAdded: the app goes home, wherever the user is.                       *)
AnchorSaved ==
  /\ anchor.pc = "profile" /\ meta' = anchor.next[1] /\ anchor' = NoAnchor
  /\ screen' = "home" /\ form' = FreshForm /\ run' = Unmounted(run)
  /\ UNCHANGED <<server, listed, session, starts>>

(* adopt_identity: the profile if it is newer, and the row with the source *)
(* for its only anchor, whatever the row had.                              *)
Adopts(j) ==
  /\ ppe' = [ppe EXCEPT ![j.new] = IF ppe[j.at].version > @.version THEN ppe[j.at] ELSE @]
  /\ row' = [row EXCEPT ![j.new].known = TRUE, ![j.new].anchors = {Url(j.at)}]

Without(j) == [k \in DOMAIN jobs \ {j} |-> jobs[k]]

(* An attempt that does not end well is made again, and in the end given   *)
(* up; the new anchor may have adopted the identity before.                *)
Retried(j) ==
  IF jobs[j] + 1 < MaxAttempts
    THEN jobs' = [jobs EXCEPT ![j] = @ + 1] /\ UNCHANGED dropped
    ELSE jobs' = Without(j) /\ dropped' = dropped \cup {j}

AdoptionTried(j) ==
  /\ j \in DOMAIN jobs
  /\ \/ Adopts(j) /\ jobs' = Without(j) /\ UNCHANGED dropped
     \/ Adopts(j) /\ Retried(j)
     \/ Retried(j) /\ UNCHANGED <<ppe, row>>
  /\ UNCHANGED <<claimed, used, member, client>>

-----------------------------------------------------------------------------
ScreenStep ==
  \/ OpenAddServer \/ LeaveScreen \/ Back \/ OpenAddAnchor
  \/ \E h \in Servers : SubmitAnchor(h)

HandlerStep(r) ==
  \/ \E t \in Tokens : ConnectRoom(r, t) \/ ConnectLink(r, t) \/ SubmitCode(r, t)
  \/ \E s \in Servers : ConnectAddress(r, s)
  \/ \E claims \in BOOLEAN : ProbeAnswered(r, claims)
  \/ ProbeFailed(r) \/ TokenTaken(r) \/ Accepted(r) \/ DeviceBound(r) \/ BindAnswered(r) \/ CallFails(r)
  \/ ProfileSaved(r) \/ FirstSaved(r) \/ ListSaved(r)

AnchorStep == AnchorTaken \/ AnchorFails \/ AnchorAnswered \/ AnchorSaved

Next ==
  \/ ScreenStep \/ AnchorStep
  \/ \E r \in Runs : HandlerStep(r)
  \/ \E t \in Tokens : TakenByOther(t)
  \/ \E j \in Jobs : AdoptionTried(j)

Spec == Init /\ [][Next]_vars

-----------------------------------------------------------------------------
(* A server is listed only when the person has joined it, the device is    *)
(* bound there and its session is stored, whatever of the calls was lost   *)
(* or refused and whichever handlers overlap; and not under the identifier *)
(* of another one, although that may come from a probe made before         *)
(* (runBind, handleJoinViaLink, info of AddServerScreen).                  *)
ListedIsJoined ==
  \A i \in DOMAIN listed :
    LET s == listed[i].at IN
    /\ member[s] # "none" /\ row[s].bound /\ s \in session
    /\ listed[i].id \in {s, None}

(* Every anchor that the client publishes, to its peers and in the next    *)
(* profile, and every one that a server has stored for it, knows the       *)
(* person, or is being asked to adopt it, or has been given up             *)
(* (EnqueueAnchorAdoption in the transaction of AppendAnchorHost).         *)
Serves(h) == \/ row[h].known
             \/ \E j \in DOMAIN jobs \cup dropped : j.new = h
PublishedServes ==
  \A h \in meta.anchors \cup UNION {Hosts(row[s].anchors) : s \in Servers} : Serves(h)

(* The version that the client puts into its messages, and raises for its  *)
(* next profile, is one that a server has given it: otherwise its peers    *)
(* would go on fetching a profile that nobody has (recordBoundProfile,     *)
(* handleSubmit of AddAnchorScreen).                                       *)
VersionIsStored == \E s \in Servers : row[s].version >= meta.version

(* The version that the client takes for that of its profile, and raises by *)
(* one in the next profile it signs, never goes back: CONTEXT.md:85 calls   *)
(* it "A monotonically increasing version number on the PPE, signed         *)
(* alongside it".  The bind at another server is recorded whatever was      *)
(* recorded before (recordBoundProfile), and a save that began earlier      *)
(* writes back the version it has read (ListSaved).                         *)
VersionOnlyGrows == [][meta'.version >= meta.version]_vars
=============================================================================
