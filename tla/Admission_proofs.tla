------------------------- MODULE Admission_proofs --------------------------
(***************************************************************************)
(* Proofs about Admission: what redemptions leave adds up, a room invite   *)
(* takes nothing from a member and lets in nobody who is banned, and a     *)
(* claim that commits finds no owner.                                      *)
(***************************************************************************)
EXTENDS Admission, TLAPS

-----------------------------------------------------------------------------
(* The inductive invariant                                                 *)

(* A request serves what its kind says, and comes as far as its kind can.  *)
RequestsTyped ==
  \A t \in Tasks :
    /\ task[t].kind = "none" <=> task[t].pc = "idle"
    /\ task[t].kind = "redeem" =>
         /\ task[t].who \in People /\ task[t].ref \in Invites
         /\ task[t].pc \in {"begun", "locked", "stale", "taken", "seen"}
    /\ task[t].kind = "claim" =>
         /\ task[t].who \in People /\ task[t].ref \in ClaimTokens
         /\ task[t].pc \in {"begun", "stale", "taken", "locked"}
    /\ task[t].kind = "mint" => task[t].pc = "begun"
    /\ task[t].kind \in {"kicked", "banned"} =>
         /\ task[t].who \in People /\ task[t].ref \in People
         /\ task[t].pc \in {"begun", "noted"}

(* No two requests hold the same row, and while one holds an identity no   *)
(* other has a kick or a ban that refers to it.                            *)
HoldsApart ==
  \A t \in Tasks : \A u \in Tasks \ {t} :
    /\ \A p \in People :
         HoldsIdentity(t, p) => ~HoldsIdentity(u, p) /\ ~SharesIdentity(u, p)
    /\ \A x \in Invites \cup ClaimTokens : HoldsToken(t, x) => ~HoldsToken(u, x)

(* The row of an invite and its entries in the audit log; UsesAddUp for    *)
(* every invite, and nothing of one that is not minted.                    *)
RowAddsUp(i) ==
  IF ~invite[i].minted
  THEN invite[i].uses = 0 /\ ~invite[i].consumed /\ audits[i] = 0
  ELSE IF i \in MultiUse
       THEN invite[i].uses + audits[i] = MaxUses /\ (invite[i].consumed <=> invite[i].uses = 0)
       ELSE audits[i] = IF invite[i].consumed THEN 1 ELSE 0
RowsAddUp == \A i \in Invites : RowAddsUp(i)

(* A redemption that has taken its invite finds it unspent when it ends.   *)
TakenIsUnspent ==
  \A t \in Tasks :
    task[t].kind = "redeem" /\ task[t].pc \in {"taken", "seen"} =>
      invite[task[t].ref].minted /\ ~Spent(task[t].ref)

(* What a room redemption has read of overrides is still so.               *)
AccessIsSeen ==
  /\ \A p \in People : access[p] <= 1
  /\ \A t \in Tasks :
       At(t, "redeem", "seen") /\ task[t].ref \in RoomInvites =>
         (task[t].saw <=> access[task[t].who] > 0)

(* Nor has its person been banned or let in since it looked.               *)
RowIsSeen ==
  \A t \in Tasks :
    task[t].kind = "redeem" /\ task[t].ref \in RoomInvites =>
      /\ task[t].pc \in {"taken", "seen"} => ~member[task[t].who].banned
      /\ task[t].pc = "seen" /\ task[t].had = NoRow => member[task[t].who] = NoRow

(* At most one claim token is active, and who mints another has seen it:   *)
(* the advisory lock lets one mint at a time.                              *)
OneActive ==
  /\ \A c, d \in ActiveClaims : c = d
  /\ \A t \in Tasks :
       task[t].kind = "mint" =>
         /\ ActiveClaims \subseteq task[t].old
         /\ \A u \in Tasks \ {t} : task[u].kind # "mint"

(* A claim has a minted token; one that took it still has it active, and   *)
(* no owner has come; one that has not taken it can if there is no owner.  *)
ClaimsAwaitOwner ==
  \A t \in Tasks :
    task[t].kind = "claim" =>
      /\ claim[task[t].ref].minted
      /\ task[t].pc \in {"taken", "locked"} => task[t].ref \in ActiveClaims /\ ~claimed
      /\ task[t].pc = "begun" /\ claimed => task[t].ref \notin ActiveClaims

-----------------------------------------------------------------------------
(* Types                                                                   *)

Pcs == {"idle", "begun", "locked", "stale", "taken", "seen", "noted"}
Kinds == {"none", "redeem", "claim", "mint", "kicked", "banned"}

LEMMA IdleIsTask ==
  /\ Idle \in Task
  /\ Idle.pc = "idle" /\ Idle.kind = "none" /\ Idle.ref = Nobody /\ Idle.who = Nobody
BY DEF Idle, Task

LEMMA TaskFields ==
  ASSUME NEW q \in Task
  PROVE  /\ q.pc \in Pcs /\ q.kind \in Kinds
         /\ q.who \in People \cup {Nobody}
         /\ q.ref \in Invites \cup ClaimTokens \cup People \cup {Nobody}
         /\ q.had \in Member \cup {NoRow} /\ q.saw \in BOOLEAN /\ q.old \subseteq ClaimTokens
BY DEF Task, Pcs, Kinds

LEMMA InviteFields ==
  ASSUME NEW q \in Invite
  PROVE  /\ q.minted \in BOOLEAN /\ q.uses \in 0..MaxUses /\ q.consumed \in BOOLEAN
         /\ q.revoked \in BOOLEAN /\ q.expired \in BOOLEAN
BY DEF Invite

LEMMA ClaimFields ==
  ASSUME NEW q \in ClaimToken
  PROVE  /\ q.minted \in BOOLEAN /\ q.consumed \in BOOLEAN
         /\ q.revoked \in BOOLEAN /\ q.expired \in BOOLEAN
BY DEF ClaimToken

LEMMA MemberFields ==
  ASSUME NEW q \in Member \cup {NoRow}
  PROVE  /\ q.roles \subseteq {"Owner", "Member"} /\ q.banned \in BOOLEAN /\ q.kicked \in BOOLEAN
         /\ q.kind \in {"anchored", "guest", "none"} /\ (q = NoRow <=> q.kind = "none")
<1>1. CASE q = NoRow
  BY <1>1 DEF NoRow
<1>2. CASE q \in Member
  BY <1>2 DEF Member, NoRow
<1> QED
  BY <1>1, <1>2

(* The task of t after a step of t, and those of the others.               *)
Others(t) == \A u \in Tasks \ {t} : task'[u] = task[u]

TaskBecomes(t, q) ==
  task' \in [Tasks -> Task] /\ task'[t] = q /\ Others(t)

LEMMA TaskUpdate ==
  ASSUME task \in [Tasks -> Task], NEW t \in Tasks, NEW q \in Task,
         task' = [task EXCEPT ![t] = q]
  PROVE  TaskBecomes(t, q)
BY DEF TaskBecomes, Others

(* Everything about the request of t but how far it has come.              *)
SameRequest(t) ==
  /\ task'[t].kind = task[t].kind /\ task'[t].who = task[t].who
  /\ task'[t].ref = task[t].ref /\ task'[t].old = task[t].old

Moved(t, kind, from, to) ==
  /\ task' \in [Tasks -> Task] /\ Others(t) /\ SameRequest(t)
  /\ task[t].kind = kind /\ task[t].pc = from /\ task'[t].pc = to

Started(t, kind, p, x) ==
  /\ task' \in [Tasks -> Task] /\ Others(t)
  /\ task[t].pc = "idle" /\ task'[t].pc = "begun" /\ task'[t].kind = kind
  /\ task'[t].who = p /\ task'[t].ref = x

Rest == <<identities, member, access, ownerDid, invite, claim, audits>>

LEMMA MoveToDoes ==
  ASSUME TypeOK, NEW t \in Tasks, NEW pc \in Pcs, MoveTo(t, pc)
  PROVE  /\ Moved(t, task[t].kind, task[t].pc, pc)
         /\ task'[t].had = task[t].had /\ task'[t].saw = task[t].saw
<1> DEFINE q == [task[t] EXCEPT !.pc = pc]
<1>1. task \in [Tasks -> Task] /\ task[t] \in Task
  BY DEF TypeOK
<1>2. /\ q \in Task /\ q.pc = pc /\ q.kind = task[t].kind /\ q.who = task[t].who
      /\ q.ref = task[t].ref /\ q.had = task[t].had /\ q.saw = task[t].saw
      /\ q.old = task[t].old
  BY <1>1 DEF Task, Pcs
<1>3. task' = [task EXCEPT ![t] = q]
  BY DEF MoveTo
<1> HIDE DEF q
<1>4. TaskBecomes(t, q)
  BY <1>1, <1>2, <1>3, TaskUpdate
<1> QED
  BY <1>2, <1>4 DEF TaskBecomes, Moved, SameRequest

LEMMA ReplyDoes ==
  ASSUME TypeOK, NEW t \in Tasks, NEW answer, Reply(t, answer)
  PROVE  TaskBecomes(t, Idle)
<1>1. task \in [Tasks -> Task]
  BY DEF TypeOK
<1> QED
  BY <1>1, IdleIsTask, TaskUpdate DEF Reply

-----------------------------------------------------------------------------
(* What the steps of a request do                                          *)

LEMMA BeginRedeemDoes ==
  ASSUME TypeOK, NEW t \in Tasks, NEW p \in People, NEW i \in Invites, BeginRedeem(t, p, i)
  PROVE  /\ Started(t, "redeem", p, i) /\ invite[i].minted /\ UNCHANGED Rest
<1> DEFINE q == [Idle EXCEPT !.pc = "begun", !.kind = "redeem", !.who = p, !.ref = i]
<1>1. q \in Task /\ q.pc = "begun" /\ q.kind = "redeem" /\ q.who = p /\ q.ref = i
  BY DEF Idle, Task
<1>2. /\ task[t].pc = "idle" /\ task' = [task EXCEPT ![t] = q]
      /\ invite[i].minted /\ UNCHANGED Rest /\ task \in [Tasks -> Task]
  BY DEF BeginRedeem, Begin, Current, Rest, TypeOK
<1> HIDE DEF q
<1>3. TaskBecomes(t, q)
  BY <1>1, <1>2, TaskUpdate
<1> QED
  BY <1>1, <1>2, <1>3 DEF TaskBecomes, Started

LEMMA BeginClaimDoes ==
  ASSUME TypeOK, NEW t \in Tasks, NEW p \in People, NEW c \in ClaimTokens, BeginClaim(t, p, c)
  PROVE  /\ Started(t, "claim", p, c) /\ claim[c].minted /\ ~claimed /\ UNCHANGED Rest
<1> DEFINE q == [Idle EXCEPT !.pc = "begun", !.kind = "claim", !.who = p, !.ref = c]
<1>1. q \in Task /\ q.pc = "begun" /\ q.kind = "claim" /\ q.who = p /\ q.ref = c
  BY DEF Idle, Task
<1>2. /\ task[t].pc = "idle" /\ task' = [task EXCEPT ![t] = q]
      /\ claim[c].minted /\ ~claimed /\ UNCHANGED Rest /\ task \in [Tasks -> Task]
  BY DEF BeginClaim, Begin, Rest, TypeOK
<1> HIDE DEF q
<1>3. TaskBecomes(t, q)
  BY <1>1, <1>2, TaskUpdate
<1> QED
  BY <1>1, <1>2, <1>3 DEF TaskBecomes, Started

LEMMA BeginModerationDoes ==
  ASSUME TypeOK, NEW t \in Tasks, NEW p \in People, NEW target \in People, NEW flag \in Flags,
         BeginModeration(t, p, target, flag)
  PROVE  /\ Started(t, flag, p, target) /\ flag \in {"kicked", "banned"} /\ UNCHANGED Rest
<1> DEFINE q == [Idle EXCEPT !.pc = "begun", !.kind = flag, !.who = p, !.ref = target]
<1>1. q \in Task /\ q.pc = "begun" /\ q.kind = flag /\ q.who = p /\ q.ref = target
  BY FlagsAssumption DEF Idle, Task
<1>2. /\ task[t].pc = "idle" /\ task' = [task EXCEPT ![t] = q]
      /\ UNCHANGED Rest /\ task \in [Tasks -> Task]
  BY DEF BeginModeration, Begin, Rest, TypeOK
<1> HIDE DEF q
<1>3. TaskBecomes(t, q)
  BY <1>1, <1>2, TaskUpdate
<1> QED
  BY <1>1, <1>2, <1>3, FlagsAssumption DEF TaskBecomes, Started

LEMMA BeginMintDoes ==
  ASSUME TypeOK, NEW t \in Tasks, BeginMint(t)
  PROVE  /\ Started(t, "mint", Nobody, Nobody) /\ task'[t].old = ActiveClaims
         /\ (\A u \in Tasks : task[u].kind # "mint") /\ UNCHANGED Rest
<1> DEFINE q == [Idle EXCEPT !.pc = "begun", !.kind = "mint", !.old = ActiveClaims]
<1>1. /\ q \in Task /\ q.pc = "begun" /\ q.kind = "mint" /\ q.who = Nobody /\ q.ref = Nobody
      /\ q.old = ActiveClaims
  BY DEF Idle, Task, ActiveClaims
<1>2. /\ task[t].pc = "idle" /\ task' = [task EXCEPT ![t] = q]
      /\ (\A u \in Tasks : task[u].kind # "mint") /\ UNCHANGED Rest /\ task \in [Tasks -> Task]
  BY DEF BeginMint, Begin, Rest, TypeOK
<1> HIDE DEF q
<1>3. TaskBecomes(t, q)
  BY <1>1, <1>2, TaskUpdate
<1> QED
  BY <1>1, <1>2, <1>3 DEF TaskBecomes, Started

LEMMA UpsertIdentityDoes ==
  ASSUME TypeOK, NEW t \in Tasks, UpsertIdentity(t)
  PROVE  /\ Moved(t, "redeem", "begun", "locked") /\ IdentityFree(t, task[t].who)
         /\ UNCHANGED Rest
BY MoveToDoes DEF UpsertIdentity, At, Rest, Pcs

LEMMA ConsumeDoes ==
  ASSUME TypeOK, NEW t \in Tasks, Consume(t)
  PROVE  /\ Moved(t, "redeem", "locked", IF Active(task[t].ref) THEN "taken" ELSE "stale")
         /\ task[t].ref \in RoomInvites => ~member[task[t].who].banned
         /\ TokenFree(t, task[t].ref) /\ UNCHANGED Rest
BY MoveToDoes DEF Consume, At, Rest, Pcs

LEMMA FetchMembershipDoes ==
  ASSUME TypeOK, RequestsTyped, NEW t \in Tasks, FetchMembership(t)
  PROVE  /\ Moved(t, "redeem", "taken", "seen")
         /\ task'[t].had = member[task[t].who] /\ task'[t].saw = (access[task[t].who] > 0)
         /\ UNCHANGED Rest
<1> DEFINE q == [task[t] EXCEPT !.pc = "seen", !.had = member[task[t].who],
                                !.saw = access[task[t].who] > 0]
<1>1. task \in [Tasks -> Task] /\ task[t] \in Task /\ UNCHANGED Rest
      /\ task[t].kind = "redeem" /\ task[t].pc = "taken"
  BY DEF TypeOK, FetchMembership, At, Rest
<1>2. /\ task[t].who \in People /\ member[task[t].who] \in Member \cup {NoRow}
      /\ (access[task[t].who] > 0) \in BOOLEAN
  BY <1>1 DEF TypeOK, RequestsTyped
<1>3. /\ q \in Task /\ q.pc = "seen" /\ q.kind = task[t].kind /\ q.who = task[t].who
      /\ q.ref = task[t].ref /\ q.had = member[task[t].who] /\ q.saw = (access[task[t].who] > 0)
      /\ q.old = task[t].old
  BY <1>1, <1>2 DEF Task
<1>4. task' = [task EXCEPT ![t] = q]
  BY DEF FetchMembership
<1> HIDE DEF q
<1>5. TaskBecomes(t, q)
  BY <1>1, <1>3, <1>4, TaskUpdate
<1> QED
  BY <1>1, <1>3, <1>5 DEF TaskBecomes, Moved, SameRequest

LEMMA ConsumeClaimDoes ==
  ASSUME TypeOK, NEW t \in Tasks, ConsumeClaim(t)
  PROVE  /\ Moved(t, "claim", "begun",
                  IF task[t].ref \in ActiveClaims /\ ~claim[task[t].ref].expired
                  THEN "taken" ELSE "stale")
         /\ TokenFree(t, task[t].ref) /\ UNCHANGED Rest
BY MoveToDoes DEF ConsumeClaim, At, Rest, Pcs

LEMMA UpsertOwnerDoes ==
  ASSUME TypeOK, NEW t \in Tasks, UpsertOwner(t)
  PROVE  /\ Moved(t, "claim", "taken", "locked") /\ IdentityFree(t, task[t].who)
         /\ UNCHANGED Rest
BY MoveToDoes DEF UpsertOwner, At, Rest, Pcs

LEMMA InsertEventDoes ==
  ASSUME TypeOK, NEW t \in Tasks, InsertEvent(t)
  PROVE  /\ task[t].kind \in {"kicked", "banned"} /\ Moved(t, task[t].kind, "begun", "noted")
         /\ \A u \in Tasks \ {t} : ~HoldsIdentity(u, task[t].ref) /\ ~HoldsIdentity(u, task[t].who)
         /\ UNCHANGED Rest
BY MoveToDoes DEF InsertEvent, Rest, Pcs

(* A refusal or a rollback ends the request and nothing else.              *)
Refusal(t) ==
  RejectIfBanned(t) \/ ReclassifyStale(t) \/ ClassifyClaim(t) \/ Rollback(t)

LEMMA RefusalDoes ==
  ASSUME TypeOK, NEW t \in Tasks, Refusal(t)
  PROVE  TaskBecomes(t, Idle) /\ UNCHANGED Rest
BY ReplyDoes DEF Refusal, RejectIfBanned, ReclassifyStale, ClassifyClaim, Rollback, Rest

-----------------------------------------------------------------------------
(* What the steps that change rows do                                      *)

Finished(t) == TaskBecomes(t, Idle)

LEMMA CommitRedeemDoes ==
  ASSUME TypeOK, NEW t \in Tasks, CommitRedeem(t)
  PROVE  LET p == task[t].who
             i == task[t].ref IN
         /\ task[t].kind = "redeem" /\ task[t].pc = "seen" /\ Finished(t)
         /\ identities' = identities \cup {p}
         /\ invite' = [invite EXCEPT ![i] = Consumed(i)]
         /\ member' = [member EXCEPT ![p] = IF i \in ServerInvites THEN ServerMember(p)
                                                                   ELSE RoomMember(t, p)]
         /\ access' = [access EXCEPT ![p] = IF i \in RoomInvites /\ ~task[t].saw
                                            THEN access[p] + 1 ELSE access[p]]
         /\ audits' = [audits EXCEPT ![i] = audits[i] + 1]
         /\ UNCHANGED <<ownerDid, claim>>
BY ReplyDoes DEF CommitRedeem, At, Finished

LEMMA CommitMintDoes ==
  ASSUME TypeOK, NEW t \in Tasks, NEW c \in ClaimTokens, CommitMint(t, c)
  PROVE  /\ task[t].kind = "mint" /\ task[t].pc = "begun" /\ Finished(t)
         /\ ~claim[c].minted /\ \A o \in task[t].old : TokenFree(t, o)
         /\ claim' = [o \in ClaimTokens |->
                        IF o = c THEN [claim[c] EXCEPT !.minted = TRUE]
                        ELSE IF o \in task[t].old THEN [claim[o] EXCEPT !.revoked = TRUE]
                        ELSE claim[o]]
         /\ UNCHANGED <<identities, member, access, ownerDid, invite, audits>>
BY ReplyDoes DEF CommitMint, At, Finished

LEMMA CommitClaimDoes ==
  ASSUME TypeOK, NEW t \in Tasks, CommitClaim(t)
  PROVE  LET p == task[t].who
             c == task[t].ref IN
         /\ task[t].kind = "claim" /\ task[t].pc = "locked" /\ Finished(t)
         /\ identities' = identities \cup {p}
         /\ claim' = [claim EXCEPT ![c].consumed = TRUE]
         /\ member' = [member EXCEPT ![p] = Upserted(member[p], Entrant({"Owner"}, "anchored"))]
         /\ ownerDid' = p
         /\ UNCHANGED <<access, invite, audits>>
BY ReplyDoes DEF CommitClaim, At, Finished

LEMMA CommitModerationDoes ==
  ASSUME TypeOK, NEW t \in Tasks, CommitModeration(t)
  PROVE  LET p == task[t].ref
             flag == task[t].kind IN
         /\ task[t].pc = "noted" /\ Finished(t)
         /\ member' = IF member[p] = NoRow THEN member
                      ELSE [member EXCEPT ![p].kicked = member[p].kicked \/ flag = "kicked",
                                          ![p].banned = member[p].banned \/ flag = "banned"]
         /\ UNCHANGED <<identities, access, ownerDid, invite, claim, audits>>
BY ReplyDoes DEF CommitModeration, Finished

-----------------------------------------------------------------------------
(* The rows these steps write                                              *)

LEMMA ConsumedRow ==
  ASSUME TypeOK, NEW i \in Invites, ~Spent(i)
  PROVE  /\ Consumed(i) \in Invite
         /\ Consumed(i).minted = invite[i].minted
         /\ i \in MultiUse => /\ Consumed(i).uses = invite[i].uses - 1
                              /\ Consumed(i).consumed = (invite[i].consumed \/ invite[i].uses = 1)
         /\ i \notin MultiUse => /\ Consumed(i).uses = invite[i].uses
                                 /\ Consumed(i).consumed
<1>1. invite[i] \in Invite
  BY DEF TypeOK
<1>2. invite[i].uses \in 0..MaxUses /\ MaxUses \in Nat
  BY <1>1, InviteFields, UsesAssumption
<1>3. CASE i \in MultiUse
  <2>1. invite[i].uses - 1 \in 0..MaxUses
    BY <1>2, <1>3 DEF Spent
  <2> QED
    BY <1>1, <1>3, <2>1 DEF Consumed, Invite
<1>4. CASE i \notin MultiUse
  BY <1>1, <1>4 DEF Consumed, Invite
<1> QED
  BY <1>3, <1>4

LEMMA ServerMemberRow ==
  ASSUME TypeOK, NEW p \in People
  PROVE  ServerMember(p) \in Member /\ "Owner" \notin ServerMember(p).roles
<1>1. member[p] \in Member \cup {NoRow}
  BY DEF TypeOK
<1> QED
  BY <1>1 DEF ServerMember, Upserted, Entrant, Member

LEMMA RoomMemberRow ==
  ASSUME TypeOK, NEW t \in Tasks, NEW p \in People
  PROVE  /\ RoomMember(t, p) \in Member \cup {NoRow}
         /\ RoomMember(t, p).roles \subseteq member[p].roles
         /\ task[t].had # NoRow =>
              RoomMember(t, p).roles = member[p].roles /\ RoomMember(t, p).kind = member[p].kind
<1>1. member[p] \in Member \cup {NoRow} /\ task[t].had \in Member \cup {NoRow}
  BY TaskFields DEF TypeOK
<1>2. CASE task[t].had = NoRow
  <2>1. CASE member[p] = NoRow
    BY <1>2, <2>1 DEF RoomMember, Upserted, Entrant, Member, NoRow
  <2>2. CASE member[p] # NoRow
    BY <1>1, <1>2, <2>2 DEF RoomMember, Upserted, Entrant, Member, NoRow
  <2> QED
    BY <2>1, <2>2
<1>3. CASE task[t].had # NoRow
  <2>1. CASE member[p] = NoRow
    <3>1. RoomMember(t, p) = [NoRow EXCEPT !.kicked = NoRow.kicked /\ ~task[t].had.kicked]
      BY <1>3, <2>1 DEF RoomMember
    <3>2. (NoRow.kicked /\ ~task[t].had.kicked) = FALSE
      BY DEF NoRow
    <3>3. RoomMember(t, p) = NoRow
      BY <3>1, <3>2 DEF NoRow
    <3> QED
      BY <2>1, <3>3
  <2>2. CASE member[p] # NoRow
    <3>1. task[t].had.kicked \in BOOLEAN
      BY <1>1, MemberFields
    <3> QED
      BY <1>1, <1>3, <2>2, <3>1 DEF RoomMember, Member
  <2> QED
    BY <2>1, <2>2
<1> QED
  BY <1>2, <1>3

LEMMA OwnerRow ==
  ASSUME TypeOK, NEW p \in People
  PROVE  Upserted(member[p], Entrant({"Owner"}, "anchored")) \in Member
<1>1. member[p] \in Member \cup {NoRow}
  BY DEF TypeOK
<1> QED
  BY <1>1 DEF Upserted, Entrant, Member

LEMMA ModeratedRow ==
  ASSUME TypeOK, NEW p \in People, member[p] # NoRow, NEW flag \in Kinds
  PROVE  LET row == [member[p] EXCEPT !.kicked = member[p].kicked \/ flag = "kicked",
                                      !.banned = member[p].banned \/ flag = "banned"] IN
         row \in Member /\ row.roles = member[p].roles
<1>1. member[p] \in Member
  BY DEF TypeOK
<1> QED
  BY <1>1 DEF Member

-----------------------------------------------------------------------------
(* The steps by what they write                                            *)

InviteStep == \E i \in Invites : MintInvite(i) \/ RevokeInvite(i) \/ ExpireInvite(i)
TokenStep == \E c \in ClaimTokens : RevokeClaim(c) \/ ExpireClaim(c)
BeginStep(t) ==
  \/ BeginMint(t)
  \/ \E p \in People :
       \/ \E i \in Invites : BeginRedeem(t, p, i)
       \/ \E c \in ClaimTokens : BeginClaim(t, p, c)
       \/ \E target \in People, flag \in Flags : BeginModeration(t, p, target, flag)
MoveStep(t) ==
  \/ UpsertIdentity(t) \/ Consume(t) \/ FetchMembership(t)
  \/ ConsumeClaim(t) \/ UpsertOwner(t) \/ InsertEvent(t)
CommitStep(t) ==
  \/ CommitRedeem(t) \/ CommitClaim(t) \/ CommitModeration(t)
  \/ \E c \in ClaimTokens : CommitMint(t, c)

LEMMA StepCases ==
  ASSUME Next
  PROVE  \/ InviteStep \/ TokenStep
         \/ \E t \in Tasks : BeginStep(t) \/ MoveStep(t) \/ Refusal(t) \/ CommitStep(t)
BY DEF Next, InviteStep, TokenStep, BeginStep, MoveStep, CommitStep, Refusal, RedeemStep, ClaimStep,
       ModerationStep

AdmissionInv ==
  /\ TypeOK /\ RequestsTyped /\ HoldsApart
  /\ RowsAddUp /\ TakenIsUnspent /\ AccessIsSeen /\ RowIsSeen
  /\ OneActive /\ ClaimsAwaitOwner

LEMMA InviteStepDoes ==
  ASSUME InviteStep
  PROVE  UNCHANGED <<identities, member, access, ownerDid, claim, audits, task>>
BY DEF InviteStep, MintInvite, RevokeInvite, ExpireInvite

LEMMA TokenStepDoes ==
  ASSUME TokenStep
  PROVE  UNCHANGED <<identities, member, access, ownerDid, invite, audits, task>>
BY DEF TokenStep, RevokeClaim, ExpireClaim

(* A step that begins a request, moves it on or refuses it writes no row.  *)
LEMMA ServingDoes ==
  ASSUME TypeOK, RequestsTyped, NEW t \in Tasks, BeginStep(t) \/ MoveStep(t) \/ Refusal(t)
  PROVE  UNCHANGED Rest /\ task' \in [Tasks -> Task] /\ Others(t)
<1>1. CASE BeginStep(t)
  BY <1>1, BeginRedeemDoes, BeginClaimDoes, BeginModerationDoes, BeginMintDoes
     DEF BeginStep, Started
<1>2. CASE MoveStep(t)
  BY <1>2, UpsertIdentityDoes, ConsumeDoes, FetchMembershipDoes, ConsumeClaimDoes,
     UpsertOwnerDoes, InsertEventDoes DEF MoveStep, Moved
<1>3. CASE Refusal(t)
  BY <1>3, RefusalDoes DEF TaskBecomes
<1> QED
  BY <1>1, <1>2, <1>3

LEMMA CommitDoes ==
  ASSUME TypeOK, NEW t \in Tasks, CommitStep(t)
  PROVE  Finished(t)
BY CommitRedeemDoes, CommitMintDoes, CommitClaimDoes, CommitModerationDoes
   DEF CommitStep

LEMMA FinishedDoes ==
  ASSUME NEW t \in Tasks, Finished(t)
  PROVE  /\ task' \in [Tasks -> Task] /\ Others(t) /\ task'[t] = Idle
         /\ task'[t].kind = "none" /\ task'[t].pc = "idle"
BY IdleIsTask DEF Finished, TaskBecomes

-----------------------------------------------------------------------------
(* Types are kept                                                          *)

LEMMA ModerationRows ==
  ASSUME TypeOK, RequestsTyped, NEW t \in Tasks, CommitModeration(t)
  PROVE  /\ member' \in [People -> Member \cup {NoRow}]
         /\ \A q \in People : member'[q].roles = member[q].roles
<1>1. task[t].pc = "noted" /\ task[t] \in Task
  BY CommitModerationDoes DEF TypeOK
<1>2. task[t].ref \in People /\ task[t].kind \in Kinds
  BY <1>1, TaskFields DEF RequestsTyped, Kinds
<1> DEFINE p == task[t].ref
           row == [member[p] EXCEPT !.kicked = member[p].kicked \/ task[t].kind = "kicked",
                                    !.banned = member[p].banned \/ task[t].kind = "banned"]
<1>3. p \in People /\ (member[p] # NoRow => row \in Member /\ row.roles = member[p].roles)
  BY <1>2, ModeratedRow
<1>4. member' = member \/ (member[p] # NoRow /\ member' = [member EXCEPT ![p] = row])
  BY <1>2, CommitModerationDoes DEF TypeOK, Member
<1> HIDE DEF p, row
<1> QED
  BY <1>3, <1>4 DEF TypeOK

LEMMA TypeKeeps ==
  ASSUME TypeOK, RequestsTyped, TakenIsUnspent, Next
  PROVE  TypeOK'
<1>1. CASE InviteStep
  <2>1. PICK i \in Invites : MintInvite(i) \/ RevokeInvite(i) \/ ExpireInvite(i)
    BY <1>1 DEF InviteStep
  <2>2. invite[i] \in Invite /\ invite \in [Invites -> Invite]
    BY DEF TypeOK
  <2>3. ASSUME MintInvite(i) PROVE invite' \in [Invites -> Invite]
    <3> DEFINE uses == IF i \in MultiUse THEN MaxUses ELSE 0
               q == [invite[i] EXCEPT !.minted = TRUE, !.uses = uses]
    <3>1. uses \in 0..MaxUses
      BY UsesAssumption
    <3>2. q \in Invite
      BY <2>2, <3>1 DEF Invite
    <3>3. invite' = [invite EXCEPT ![i] = q]
      BY <2>2, <2>3 DEF MintInvite
    <3> QED
      BY <2>2, <3>2, <3>3
  <2>4. ASSUME RevokeInvite(i) \/ ExpireInvite(i) PROVE invite' \in [Invites -> Invite]
    BY <2>2, <2>4 DEF RevokeInvite, ExpireInvite, Invite
  <2>5. invite' \in [Invites -> Invite]
    BY <2>1, <2>3, <2>4
  <2> QED
    BY <1>1, <2>5, InviteStepDoes DEF TypeOK
<1>2. CASE TokenStep
  <2>1. PICK c \in ClaimTokens : RevokeClaim(c) \/ ExpireClaim(c)
    BY <1>2 DEF TokenStep
  <2>2. claim[c] \in ClaimToken /\ claim \in [ClaimTokens -> ClaimToken]
    BY DEF TypeOK
  <2>3. claim' \in [ClaimTokens -> ClaimToken]
    BY <2>1, <2>2 DEF RevokeClaim, ExpireClaim, ClaimToken
  <2> QED
    BY <1>2, <2>3, TokenStepDoes DEF TypeOK
<1>3. ASSUME NEW t \in Tasks, BeginStep(t) \/ MoveStep(t) \/ Refusal(t)
      PROVE  TypeOK'
  BY <1>3, ServingDoes DEF TypeOK, Rest
<1>4. ASSUME NEW t \in Tasks, CommitRedeem(t)
      PROVE  TypeOK'
  <2> DEFINE p == task[t].who
             i == task[t].ref
  <2>1. task[t].kind = "redeem" /\ task[t].pc = "seen" /\ task' \in [Tasks -> Task]
    BY <1>4, CommitRedeemDoes, FinishedDoes
  <2>2. p \in People /\ i \in Invites /\ ~Spent(i)
    BY <2>1 DEF RequestsTyped, TakenIsUnspent
  <2>3. Consumed(i) \in Invite /\ ServerMember(p) \in Member /\ RoomMember(t, p) \in Member \cup {NoRow}
    BY <2>2, ConsumedRow, ServerMemberRow, RoomMemberRow
  <2>4. /\ identities' = identities \cup {p}
        /\ invite' = [invite EXCEPT ![i] = Consumed(i)]
        /\ member' = [member EXCEPT ![p] = IF i \in ServerInvites THEN ServerMember(p)
                                                                  ELSE RoomMember(t, p)]
        /\ access' = [access EXCEPT ![p] = IF i \in RoomInvites /\ ~task[t].saw
                                           THEN access[p] + 1 ELSE access[p]]
        /\ audits' = [audits EXCEPT ![i] = audits[i] + 1]
        /\ UNCHANGED <<ownerDid, claim>>
    BY <1>4, CommitRedeemDoes
  <2> HIDE DEF p, i
  <2>5. access' \in [People -> Nat] /\ audits' \in [Invites -> Nat]
    BY <2>2, <2>4 DEF TypeOK
  <2>6. invite' \in [Invites -> Invite] /\ member' \in [People -> Member \cup {NoRow}]
    BY <2>2, <2>3, <2>4 DEF TypeOK
  <2> QED
    BY <2>1, <2>2, <2>4, <2>5, <2>6 DEF TypeOK
<1>5. ASSUME NEW t \in Tasks, NEW c \in ClaimTokens, CommitMint(t, c)
      PROVE  TypeOK'
  <2>1. task' \in [Tasks -> Task] /\ UNCHANGED <<identities, member, access, ownerDid, invite, audits>>
    BY <1>5, CommitMintDoes, FinishedDoes
  <2>2. \A o \in ClaimTokens :
          [claim[o] EXCEPT !.minted = TRUE] \in ClaimToken
          /\ [claim[o] EXCEPT !.revoked = TRUE] \in ClaimToken /\ claim[o] \in ClaimToken
    BY DEF TypeOK, ClaimToken
  <2>3. claim' \in [ClaimTokens -> ClaimToken]
    BY <1>5, <2>2, CommitMintDoes
  <2> QED
    BY <2>1, <2>3 DEF TypeOK
<1>6. ASSUME NEW t \in Tasks, CommitClaim(t)
      PROVE  TypeOK'
  <2>1. /\ task[t].kind = "claim" /\ task' \in [Tasks -> Task]
        /\ UNCHANGED <<access, invite, audits>>
    BY <1>6, CommitClaimDoes, FinishedDoes
  <2>2. task[t].who \in People /\ task[t].ref \in ClaimTokens
    BY <2>1 DEF RequestsTyped
  <2>3. [claim[task[t].ref] EXCEPT !.consumed = TRUE] \in ClaimToken
    BY <2>2 DEF TypeOK, ClaimToken
  <2>4. Upserted(member[task[t].who], Entrant({"Owner"}, "anchored")) \in Member
    BY <2>2, OwnerRow
  <2>5. claim' \in [ClaimTokens -> ClaimToken] /\ member' \in [People -> Member \cup {NoRow}]
    BY <1>6, <2>2, <2>3, <2>4, CommitClaimDoes DEF TypeOK
  <2>6. identities' \subseteq People /\ ownerDid' \in People \cup {Nobody}
    BY <1>6, <2>2, CommitClaimDoes DEF TypeOK
  <2> QED
    BY <2>1, <2>5, <2>6 DEF TypeOK
<1>7. ASSUME NEW t \in Tasks, CommitModeration(t)
      PROVE  TypeOK'
  BY <1>7, CommitModerationDoes, FinishedDoes, ModerationRows DEF TypeOK
<1> QED
  BY <1>1, <1>2, <1>3, <1>4, <1>5, <1>6, <1>7, StepCases DEF CommitStep

(* So is what a request is.                                                *)
LEMMA RequestsKeep ==
  ASSUME TypeOK, RequestsTyped, Next
  PROVE  RequestsTyped'
<1>1. CASE InviteStep \/ TokenStep
  BY <1>1, InviteStepDoes, TokenStepDoes DEF RequestsTyped
<1>2. ASSUME NEW t \in Tasks, BeginStep(t)
      PROVE  RequestsTyped'
  BY <1>2, BeginRedeemDoes, BeginClaimDoes, BeginModerationDoes, BeginMintDoes, FlagsAssumption
     DEF BeginStep, Started, Others, RequestsTyped
<1>3. ASSUME NEW t \in Tasks, MoveStep(t)
      PROVE  RequestsTyped'
  BY <1>3, UpsertIdentityDoes, ConsumeDoes, FetchMembershipDoes, ConsumeClaimDoes,
     UpsertOwnerDoes, InsertEventDoes DEF MoveStep, Moved, SameRequest, Others, RequestsTyped
<1>4. ASSUME NEW t \in Tasks, Refusal(t) \/ CommitStep(t)
      PROVE  RequestsTyped'
  BY <1>4, RefusalDoes, CommitDoes, FinishedDoes DEF Finished, Others, RequestsTyped
<1> QED
  BY <1>1, <1>2, <1>3, <1>4, StepCases

-----------------------------------------------------------------------------
(* Rows held are held by one request                                       *)

(* A request that holds or refers to no more than it did, or than is free, *)
(* keeps the holds of all of them apart.                                   *)
LEMMA ApartStep ==
  ASSUME HoldsApart, NEW t \in Tasks, Others(t),
         \A p \in People : HoldsIdentity(t, p)' => HoldsIdentity(t, p) \/ IdentityFree(t, p),
         \A p \in People :
           SharesIdentity(t, p)' =>
             SharesIdentity(t, p) \/ \A u \in Tasks \ {t} : ~HoldsIdentity(u, p),
         \A x \in Invites \cup ClaimTokens : HoldsToken(t, x)' => HoldsToken(t, x) \/ TokenFree(t, x)
  PROVE  HoldsApart'
<1>1. ASSUME NEW u \in Tasks \ {t}
      PROVE  /\ \A p : HoldsIdentity(u, p)' <=> HoldsIdentity(u, p)
             /\ \A p : SharesIdentity(u, p)' <=> SharesIdentity(u, p)
             /\ \A x : HoldsToken(u, x)' <=> HoldsToken(u, x)
  BY DEF Others, HoldsIdentity, SharesIdentity, HoldsToken
<1>2. ASSUME NEW u \in Tasks, NEW v \in Tasks \ {u}, NEW p \in People, HoldsIdentity(u, p)'
      PROVE  ~HoldsIdentity(v, p)' /\ ~SharesIdentity(v, p)'
  <2>1. CASE u # t /\ v # t
    BY <1>1, <1>2, <2>1 DEF HoldsApart
  <2>2. CASE u = t
    BY <1>1, <1>2, <2>2 DEF HoldsApart, IdentityFree
  <2>3. CASE v = t
    BY <1>1, <1>2, <2>3 DEF HoldsApart, IdentityFree
  <2> QED
    BY <2>1, <2>2, <2>3
<1>3. ASSUME NEW u \in Tasks, NEW v \in Tasks \ {u}, NEW x \in Invites \cup ClaimTokens,
             HoldsToken(u, x)'
      PROVE  ~HoldsToken(v, x)'
  <2>1. CASE u # t /\ v # t
    BY <1>1, <1>3, <2>1 DEF HoldsApart
  <2>2. CASE u = t
    BY <1>1, <1>3, <2>2 DEF HoldsApart, TokenFree
  <2>3. CASE v = t
    BY <1>1, <1>3, <2>3 DEF HoldsApart, TokenFree
  <2> QED
    BY <2>1, <2>2, <2>3
<1> QED
  BY <1>2, <1>3 DEF HoldsApart

LEMMA ApartKeeps ==
  ASSUME TypeOK, RequestsTyped, HoldsApart, Next
  PROVE  HoldsApart'
<1>1. CASE InviteStep \/ TokenStep
  BY <1>1, InviteStepDoes, TokenStepDoes DEF HoldsApart, HoldsIdentity, SharesIdentity, HoldsToken
<1>2. ASSUME NEW t \in Tasks, Others(t), task'[t].pc \in {"idle", "begun"}
      PROVE  HoldsApart'
  <2>1. \A x : ~HoldsIdentity(t, x)' /\ ~SharesIdentity(t, x)' /\ ~HoldsToken(t, x)'
    BY <1>2 DEF HoldsIdentity, SharesIdentity, HoldsToken
  <2> QED
    BY <1>2, <2>1, ApartStep
<1>3. ASSUME NEW t \in Tasks, BeginStep(t)
      PROVE  HoldsApart'
  BY <1>2, <1>3, BeginRedeemDoes, BeginClaimDoes, BeginModerationDoes, BeginMintDoes
     DEF BeginStep, Started
<1>4. ASSUME NEW t \in Tasks, Refusal(t) \/ CommitStep(t)
      PROVE  HoldsApart'
  <2>1. Others(t) /\ task'[t].pc = "idle"
    BY <1>4, RefusalDoes, CommitDoes, FinishedDoes DEF Finished
  <2> QED
    BY <1>2, <2>1
<1>5. ASSUME NEW t \in Tasks, UpsertIdentity(t) \/ UpsertOwner(t)
      PROVE  HoldsApart'
  <2>1. /\ Others(t) /\ SameRequest(t) /\ IdentityFree(t, task[t].who) /\ task'[t].pc = "locked"
        /\ \/ task[t].kind = "redeem"
           \/ task[t].kind = "claim" /\ task[t].pc = "taken"
    BY <1>5, UpsertIdentityDoes, UpsertOwnerDoes DEF Moved
  <2>2. /\ \A p : HoldsIdentity(t, p)' => IdentityFree(t, p)
        /\ \A p : ~SharesIdentity(t, p)'
        /\ \A x : HoldsToken(t, x)' => HoldsToken(t, x)
    BY <2>1 DEF SameRequest, HoldsIdentity, SharesIdentity, HoldsToken
  <2> QED
    BY <2>1, <2>2, ApartStep
<1>6. ASSUME NEW t \in Tasks, Consume(t) \/ ConsumeClaim(t)
      PROVE  HoldsApart'
  <2>1. /\ Others(t) /\ SameRequest(t) /\ TokenFree(t, task[t].ref)
        /\ task'[t].pc \in {"taken", "stale"}
        /\ \/ task[t].kind = "redeem" /\ task[t].pc = "locked"
           \/ task[t].kind = "claim"
    BY <1>6, ConsumeDoes, ConsumeClaimDoes DEF Moved
  <2>2. /\ \A p : HoldsIdentity(t, p)' => HoldsIdentity(t, p)
        /\ \A p : ~SharesIdentity(t, p)'
        /\ \A x : HoldsToken(t, x)' => TokenFree(t, x)
    BY <2>1 DEF SameRequest, HoldsIdentity, SharesIdentity, HoldsToken
  <2> QED
    BY <2>1, <2>2, ApartStep
<1>7. ASSUME NEW t \in Tasks, FetchMembership(t)
      PROVE  HoldsApart'
  <2>1. /\ Others(t) /\ SameRequest(t) /\ task[t].kind = "redeem"
        /\ task[t].pc = "taken" /\ task'[t].pc = "seen"
    BY <1>7, FetchMembershipDoes DEF Moved
  <2>2. /\ \A p : HoldsIdentity(t, p)' => HoldsIdentity(t, p)
        /\ \A p : ~SharesIdentity(t, p)'
        /\ \A x : HoldsToken(t, x)' => HoldsToken(t, x)
    BY <2>1 DEF SameRequest, HoldsIdentity, SharesIdentity, HoldsToken
  <2> QED
    BY <2>1, <2>2, ApartStep
<1>8. ASSUME NEW t \in Tasks, InsertEvent(t)
      PROVE  HoldsApart'
  <2>1. /\ Others(t) /\ SameRequest(t) /\ task'[t].pc = "noted"
        /\ \A u \in Tasks \ {t} : ~HoldsIdentity(u, task[t].ref) /\ ~HoldsIdentity(u, task[t].who)
    BY <1>8, InsertEventDoes DEF Moved
  <2>2. /\ \A p : ~HoldsIdentity(t, p)'
        /\ \A p : SharesIdentity(t, p)' => \A u \in Tasks \ {t} : ~HoldsIdentity(u, p)
        /\ \A x : ~HoldsToken(t, x)'
    BY <2>1 DEF SameRequest, HoldsIdentity, SharesIdentity, HoldsToken
  <2> QED
    BY <2>1, <2>2, ApartStep
<1> QED
  BY <1>1, <1>3, <1>4, <1>5, <1>6, <1>7, <1>8, StepCases DEF MoveStep

-----------------------------------------------------------------------------
(* Invites and the audit log                                               *)

(* Only an invite that is minted, withdrawn or redeemed has its row, or    *)
(* its entries in the log, changed.                                        *)
LEMMA InvitesUnwritten ==
  ASSUME TypeOK, RequestsTyped, Next,
         ~InviteStep, \A t \in Tasks : ~CommitRedeem(t)
  PROVE  UNCHANGED <<invite, audits>>
BY StepCases, ServingDoes, TokenStepDoes, CommitMintDoes, CommitClaimDoes, CommitModerationDoes
   DEF CommitStep, Rest

LEMMA InviteStepRows ==
  ASSUME TypeOK, InviteStep, NEW i \in Invites
  PROVE  \/ /\ ~invite[i].minted /\ invite'[i].minted
            /\ invite'[i].uses = (IF i \in MultiUse THEN MaxUses ELSE 0)
            /\ invite'[i].consumed = invite[i].consumed
         \/ /\ invite'[i].minted = invite[i].minted /\ invite'[i].uses = invite[i].uses
            /\ invite'[i].consumed = invite[i].consumed
<1>1. PICK j \in Invites : MintInvite(j) \/ RevokeInvite(j) \/ ExpireInvite(j)
  BY DEF InviteStep
<1>2. invite \in [Invites -> Invite] /\ invite[i] \in Invite /\ invite[j] \in Invite
  BY DEF TypeOK
<1> QED
  BY <1>1, <1>2 DEF MintInvite, RevokeInvite, ExpireInvite, Invite

LEMMA RedeemRows ==
  ASSUME TypeOK, RequestsTyped, TakenIsUnspent, NEW t \in Tasks, CommitRedeem(t)
  PROVE  LET i == task[t].ref IN
         /\ i \in Invites /\ invite[i].minted /\ ~Spent(i)
         /\ invite'[i] = Consumed(i) /\ audits'[i] = audits[i] + 1
         /\ \A j \in Invites \ {i} : invite'[j] = invite[j] /\ audits'[j] = audits[j]
<1>1. task[t].kind = "redeem" /\ task[t].pc = "seen"
  BY CommitRedeemDoes
<1>2. task[t].ref \in Invites /\ invite[task[t].ref].minted /\ ~Spent(task[t].ref)
  BY <1>1 DEF RequestsTyped, TakenIsUnspent
<1> DEFINE i == task[t].ref
<1>3. /\ invite' = [invite EXCEPT ![i] = Consumed(i)]
      /\ audits' = [audits EXCEPT ![i] = audits[i] + 1]
  BY CommitRedeemDoes
<1> QED
  BY <1>2, <1>3 DEF TypeOK

LEMMA RowsKeep ==
  ASSUME TypeOK, RequestsTyped, RowsAddUp, TakenIsUnspent, Next
  PROVE  RowsAddUp'
<1> SUFFICES ASSUME NEW i \in Invites PROVE RowAddsUp(i)'
  BY DEF RowsAddUp
<1>1. RowAddsUp(i)
  BY DEF RowsAddUp
<1>2. /\ invite[i].uses \in Nat /\ audits[i] \in Nat /\ MaxUses \in Nat \ {0}
      /\ invite[i].consumed \in BOOLEAN /\ invite[i].minted \in BOOLEAN
  BY InviteFields, UsesAssumption DEF TypeOK
<1>3. CASE InviteStep
  <2>1. audits' = audits
    BY <1>3, InviteStepDoes
  <2> QED
    BY <1>1, <1>2, <1>3, <2>1, InviteStepRows DEF RowAddsUp
<1>4. ASSUME NEW t \in Tasks, CommitRedeem(t)
      PROVE  RowAddsUp(i)'
  <2>1. CASE i # task[t].ref
    BY <1>1, <1>4, <2>1, RedeemRows DEF RowAddsUp
  <2>2. CASE i = task[t].ref
    <3>1. /\ invite[i].minted /\ ~Spent(i) /\ invite'[i] = Consumed(i)
          /\ audits'[i] = audits[i] + 1
      BY <1>4, <2>2, RedeemRows
    <3>2. invite'[i].minted
      BY <3>1, ConsumedRow
    <3>3. CASE i \in MultiUse
      <4>1. /\ invite'[i].uses = invite[i].uses - 1
            /\ invite'[i].consumed = (invite[i].consumed \/ invite[i].uses = 1)
        BY <3>1, <3>3, ConsumedRow
      <4>2. invite[i].uses # 0 /\ ~invite[i].consumed
        BY <1>1, <3>1, <3>3 DEF Spent, RowAddsUp
      <4>3. invite'[i].consumed <=> invite[i].uses = 1
        BY <4>1, <4>2, Zenon
      <4>4. invite'[i].uses = 0 <=> invite[i].uses = 1
        BY <1>2, <4>1
      <4> QED
        BY <1>1, <1>2, <3>1, <3>2, <3>3, <4>1, <4>3, <4>4 DEF RowAddsUp
    <3>4. CASE i \notin MultiUse
      <4>1. invite'[i].consumed /\ ~invite[i].consumed
        BY <3>1, <3>4, ConsumedRow DEF Spent
      <4> QED
        BY <1>1, <1>2, <3>1, <3>2, <3>4, <4>1 DEF RowAddsUp
    <3> QED
      BY <3>3, <3>4
  <2> QED
    BY <2>1, <2>2
<1>5. CASE ~InviteStep /\ \A t \in Tasks : ~CommitRedeem(t)
  BY <1>1, <1>5, InvitesUnwritten DEF RowAddsUp
<1> QED
  BY <1>3, <1>4, <1>5

(* Spent depends on the row of its invite alone.                           *)
LEMMA SpentKept ==
  ASSUME NEW i \in Invites,
         invite'[i].uses = invite[i].uses, invite'[i].consumed = invite[i].consumed
  PROVE  Spent(i)' <=> Spent(i)
BY DEF Spent

LEMMA TakenKeeps ==
  ASSUME TypeOK, RequestsTyped, HoldsApart, TakenIsUnspent, Next
  PROVE  TakenIsUnspent'
<1> SUFFICES ASSUME NEW u \in Tasks, task'[u].kind = "redeem", task'[u].pc \in {"taken", "seen"}
             PROVE  (invite[task[u].ref].minted /\ ~Spent(task[u].ref))'
  BY DEF TakenIsUnspent
<1> DEFINE Was == /\ task[u].kind = "redeem" /\ task[u].pc \in {"taken", "seen"}
                  /\ task'[u].ref = task[u].ref
<1>1. Was => /\ task[u].ref \in Invites /\ invite[task[u].ref].minted
             /\ ~Spent(task[u].ref) /\ HoldsToken(u, task[u].ref)
  BY DEF TakenIsUnspent, RequestsTyped, HoldsToken
<1>2. CASE InviteStep
  <2>1. Was
    BY <1>2, InviteStepDoes
  <2> QED
    BY <1>1, <1>2, <2>1, InviteStepRows, SpentKept
<1>3. CASE TokenStep
  BY <1>1, <1>3, TokenStepDoes DEF Spent
<1>4. ASSUME NEW t \in Tasks, BeginStep(t) \/ MoveStep(t) \/ Refusal(t)
      PROVE  (invite[task[u].ref].minted /\ ~Spent(task[u].ref))'
  <2>1. invite' = invite /\ Others(t)
    BY <1>4, ServingDoes DEF Rest
  <2>2. CASE u # t
    BY <1>1, <2>1, <2>2 DEF Others, Spent
  <2>3. CASE u = t /\ BeginStep(t)
    BY <2>3, BeginRedeemDoes, BeginClaimDoes, BeginModerationDoes, BeginMintDoes
       DEF BeginStep, Started
  <2>4. CASE u = t /\ Refusal(t)
    BY <2>4, RefusalDoes, FinishedDoes DEF Finished
  <2>5. CASE u = t /\ MoveStep(t)
    <3>1. CASE Consume(t)
      BY <2>1, <2>5, <3>1, ConsumeDoes DEF Moved, SameRequest, Active, Current, Spent
    <3>2. CASE FetchMembership(t)
      BY <1>1, <2>1, <2>5, <3>2, FetchMembershipDoes DEF Moved, SameRequest, Spent
    <3>3. CASE UpsertIdentity(t) \/ ConsumeClaim(t) \/ UpsertOwner(t) \/ InsertEvent(t)
      BY <2>5, <3>3, UpsertIdentityDoes, ConsumeClaimDoes, UpsertOwnerDoes, InsertEventDoes
         DEF Moved, SameRequest
    <3> QED
      BY <2>5, <3>1, <3>2, <3>3 DEF MoveStep
  <2> QED
    BY <1>4, <2>2, <2>3, <2>4, <2>5
<1>5. ASSUME NEW t \in Tasks, CommitStep(t)
      PROVE  (invite[task[u].ref].minted /\ ~Spent(task[u].ref))'
  <2>1. u # t /\ Was
    BY <1>5, CommitDoes, FinishedDoes DEF Others
  <2>2. CASE CommitRedeem(t)
    <3>1. HoldsToken(t, task[t].ref) /\ task[t].ref \in Invites
      BY <2>2, CommitRedeemDoes, RedeemRows DEF HoldsToken
    <3>2. task[u].ref # task[t].ref
      BY <1>1, <2>1, <3>1 DEF HoldsApart
    <3>3. invite'[task[u].ref] = invite[task[u].ref]
      BY <1>1, <2>1, <2>2, <3>2, RedeemRows
    <3> QED
      BY <1>1, <2>1, <3>3, SpentKept
  <2>3. CASE ~CommitRedeem(t)
    <3>1. invite' = invite
      BY <1>5, <2>3, CommitMintDoes, CommitClaimDoes, CommitModerationDoes DEF CommitStep
    <3> QED
      BY <1>1, <2>1, <3>1 DEF Spent
  <2> QED
    BY <2>2, <2>3
<1> QED
  BY <1>2, <1>3, <1>4, <1>5, StepCases

-----------------------------------------------------------------------------
(* Overrides and memberships a redemption has read                         *)

(* Whose row a commit writes: what another redemption holds is not his.    *)
LEMMA HeldElsewhere ==
  ASSUME RequestsTyped, HoldsApart, NEW t \in Tasks, NEW u \in Tasks \ {t}, NEW p \in People,
         HoldsIdentity(t, p) \/ SharesIdentity(t, p),
         task[u].kind = "redeem", task[u].pc \in {"locked", "taken", "stale", "seen"}
  PROVE  task[u].who # p
<1>1. HoldsIdentity(u, task[u].who)
  BY DEF HoldsIdentity
<1>2. t \in Tasks \ {u}
  OBVIOUS
<1> QED
  BY <1>1, <1>2 DEF HoldsApart

LEMMA AccessUnwritten ==
  ASSUME TypeOK, RequestsTyped, Next, \A t \in Tasks : ~CommitRedeem(t)
  PROVE  access' = access
BY StepCases, ServingDoes, InviteStepDoes, TokenStepDoes, CommitMintDoes, CommitClaimDoes,
   CommitModerationDoes DEF CommitStep, Rest

LEMMA AccessKeeps ==
  ASSUME TypeOK, RequestsTyped, HoldsApart, AccessIsSeen, Next
  PROVE  AccessIsSeen'
<1>1. ASSUME NEW t \in Tasks, CommitRedeem(t)
      PROVE  AccessIsSeen'
  <2> DEFINE p == task[t].who
             i == task[t].ref
  <2>1. /\ task[t].kind = "redeem" /\ task[t].pc = "seen" /\ Finished(t)
        /\ access' = [access EXCEPT ![p] = IF i \in RoomInvites /\ ~task[t].saw
                                           THEN access[p] + 1 ELSE access[p]]
    BY <1>1, CommitRedeemDoes
  <2>2. p \in People /\ HoldsIdentity(t, p) /\ access \in [People -> Nat]
    BY <2>1 DEF RequestsTyped, HoldsIdentity, TypeOK
  <2>3. i \in RoomInvites /\ ~task[t].saw => access[p] = 0
    BY <2>1, <2>2 DEF AccessIsSeen, At
  <2>4. ASSUME NEW q \in People
        PROVE  access'[q] <= 1 /\ (q # p => access'[q] = access[q])
    BY <2>1, <2>2, <2>3 DEF AccessIsSeen
  <2>5. ASSUME NEW u \in Tasks, At(u, "redeem", "seen")', task'[u].ref \in RoomInvites
        PROVE  task'[u].saw <=> access'[task'[u].who] > 0
    <3>1. u # t /\ task'[u] = task[u]
      BY <2>1, <2>5, FinishedDoes DEF At, Others
    <3>2. task[u].kind = "redeem" /\ task[u].pc = "seen" /\ task[u].ref \in RoomInvites
      BY <2>5, <3>1 DEF At
    <3>3. task[u].who \in People /\ task[u].who # p
      BY <2>2, <3>1, <3>2, HeldElsewhere DEF RequestsTyped
    <3> QED
      BY <2>4, <3>1, <3>2, <3>3 DEF AccessIsSeen, At
  <2> QED
    BY <2>4, <2>5 DEF AccessIsSeen
<1>2. CASE \A t \in Tasks : ~CommitRedeem(t)
  <2>1. access' = access
    BY <1>2, AccessUnwritten
  <2>2. ASSUME NEW u \in Tasks, At(u, "redeem", "seen")', task'[u].ref \in RoomInvites
        PROVE  task'[u].saw <=> access'[task'[u].who] > 0
    <3>1. CASE task'[u] = task[u]
      BY <2>1, <2>2, <3>1 DEF AccessIsSeen, At
    <3>2. CASE FetchMembership(u)
      BY <2>1, <3>2, FetchMembershipDoes DEF Moved, SameRequest
    <3>3. CASE task'[u] # task[u] /\ ~FetchMembership(u)
      <4>1. ~InviteStep /\ ~TokenStep
        BY <3>3, InviteStepDoes, TokenStepDoes
      <4>2. PICK t \in Tasks : BeginStep(t) \/ MoveStep(t) \/ Refusal(t) \/ CommitStep(t)
        BY <4>1, StepCases
      <4>3. Others(t)
        BY <4>2, ServingDoes, CommitDoes, FinishedDoes
      <4>4. u = t
        BY <3>3, <4>3 DEF Others
      <4>5. ~BeginStep(t)
        BY <2>2, <4>4, BeginRedeemDoes, BeginClaimDoes, BeginModerationDoes, BeginMintDoes
           DEF BeginStep, Started, At
      <4>6. ~Refusal(t) /\ ~CommitStep(t)
        BY <2>2, <4>4, RefusalDoes, CommitDoes, FinishedDoes DEF At, Finished
      <4>7. ~MoveStep(t)
        BY <2>2, <3>3, <4>4, UpsertIdentityDoes, ConsumeDoes, ConsumeClaimDoes, UpsertOwnerDoes,
           InsertEventDoes DEF MoveStep, Moved, At
      <4> QED
        BY <4>2, <4>5, <4>6, <4>7
    <3> QED
      BY <3>1, <3>2, <3>3
  <2> QED
    BY <2>1, <2>2 DEF AccessIsSeen
<1> QED
  BY <1>1, <1>2

(* A commit that writes a membership holds, or refers to, its identity.    *)
LEMMA MemberWritten ==
  ASSUME TypeOK, RequestsTyped, Next, NEW q \in People, member'[q] # member[q]
  PROVE  \E t \in Tasks : /\ CommitRedeem(t) \/ CommitClaim(t) \/ CommitModeration(t)
                          /\ Finished(t)
                          /\ HoldsIdentity(t, q) \/ SharesIdentity(t, q)
<1>1. PICK t \in Tasks : BeginStep(t) \/ MoveStep(t) \/ Refusal(t) \/ CommitStep(t)
  BY StepCases, InviteStepDoes, TokenStepDoes
<1>2. CommitRedeem(t) \/ CommitClaim(t) \/ CommitModeration(t)
  BY <1>1, ServingDoes, CommitMintDoes DEF CommitStep, Rest
<1>3. Finished(t)
  BY <1>2, CommitDoes DEF CommitStep
<1>4. CASE CommitRedeem(t)
  <2>1. /\ task[t].kind = "redeem" /\ task[t].pc = "seen"
        /\ \A p \in People \ {task[t].who} : member'[p] = member[p]
    BY <1>4, CommitRedeemDoes DEF TypeOK
  <2> QED
    BY <1>3, <1>4, <2>1 DEF HoldsIdentity
<1>5. CASE CommitClaim(t)
  <2>1. /\ task[t].kind = "claim" /\ task[t].pc = "locked"
        /\ \A p \in People \ {task[t].who} : member'[p] = member[p]
    BY <1>5, CommitClaimDoes DEF TypeOK
  <2> QED
    BY <1>3, <1>5, <2>1 DEF HoldsIdentity
<1>6. CASE CommitModeration(t)
  <2>1. /\ task[t].pc = "noted"
        /\ \A p \in People \ {task[t].ref} : member'[p] = member[p]
    BY <1>6, CommitModerationDoes DEF TypeOK
  <2> QED
    BY <1>3, <1>6, <2>1 DEF SharesIdentity
<1> QED
  BY <1>2, <1>4, <1>5, <1>6

LEMMA RowSeenKeeps ==
  ASSUME TypeOK, RequestsTyped, HoldsApart, RowIsSeen, Next
  PROVE  RowIsSeen'
<1> SUFFICES ASSUME NEW u \in Tasks, task'[u].kind = "redeem", task'[u].ref \in RoomInvites,
                    task'[u].pc \in {"taken", "seen"}
             PROVE  /\ ~member'[task'[u].who].banned
                    /\ task'[u].pc = "seen" /\ task'[u].had = NoRow =>
                         member'[task'[u].who] = NoRow
  BY DEF RowIsSeen
<1>1. CASE task'[u] = task[u]
  <2>1. /\ task[u].who \in People /\ task[u].kind = "redeem" /\ task[u].pc \in {"taken", "seen"}
        /\ task[u].ref \in RoomInvites
    BY <1>1 DEF RequestsTyped
  <2>2. member'[task[u].who] = member[task[u].who]
    <3> SUFFICES ASSUME member'[task[u].who] # member[task[u].who] PROVE FALSE
      OBVIOUS
    <3>1. PICK t \in Tasks :
            /\ Finished(t)
            /\ HoldsIdentity(t, task[u].who) \/ SharesIdentity(t, task[u].who)
      BY <2>1, MemberWritten
    <3>2. u # t
      BY <1>1, <2>1, <3>1, FinishedDoes
    <3> QED
      BY <2>1, <3>1, <3>2, HeldElsewhere
  <2> QED
    BY <1>1, <2>1, <2>2 DEF RowIsSeen
<1>2. CASE task'[u] # task[u]
  <2>1. ~InviteStep /\ ~TokenStep
    BY <1>2, InviteStepDoes, TokenStepDoes
  <2>2. PICK t \in Tasks : BeginStep(t) \/ MoveStep(t) \/ Refusal(t) \/ CommitStep(t)
    BY <2>1, StepCases
  <2>3. Others(t)
    BY <2>2, ServingDoes, CommitDoes, FinishedDoes
  <2>4. u = t
    BY <1>2, <2>3 DEF Others
  <2>5. ~BeginStep(t)
    BY <2>4, BeginRedeemDoes, BeginClaimDoes, BeginModerationDoes, BeginMintDoes
       DEF BeginStep, Started
  <2>6. ~Refusal(t) /\ ~CommitStep(t)
    BY <2>4, RefusalDoes, CommitDoes, FinishedDoes DEF Finished
  <2>7. Consume(t) \/ FetchMembership(t)
    BY <2>2, <2>4, <2>5, <2>6, UpsertIdentityDoes, ConsumeClaimDoes, UpsertOwnerDoes,
       InsertEventDoes DEF MoveStep, Moved, SameRequest
  <2>8. CASE Consume(t)
    <3>1. /\ task'[u].pc # "seen" /\ task'[u].who = task[u].who /\ task'[u].ref = task[u].ref
          /\ member' = member
      BY <2>4, <2>8, ConsumeDoes DEF Moved, SameRequest, Rest
    <3> QED
      BY <2>4, <2>8, <3>1, ConsumeDoes
  <2>9. CASE FetchMembership(t)
    <3>1. /\ task'[u].who = task[u].who /\ task'[u].had = member[task[u].who] /\ member' = member
          /\ task[u].kind = "redeem" /\ task[u].pc = "taken" /\ task'[u].ref = task[u].ref
      BY <2>4, <2>9, FetchMembershipDoes DEF Moved, SameRequest, Rest
    <3> QED
      BY <3>1 DEF RowIsSeen
  <2> QED
    BY <2>7, <2>8, <2>9
<1> QED
  BY <1>1, <1>2

-----------------------------------------------------------------------------
(* Claim tokens and the first owner                                        *)

(* A claim token, once minted, stays minted; what is active was active,    *)
(* unless a mint has brought it, which has seen the others.                *)
LEMMA TokensWritten ==
  ASSUME TypeOK, RequestsTyped, OneActive, Next
  PROVE  /\ \A c \in ClaimTokens : claim[c].minted => claim'[c].minted
         /\ \/ ActiveClaims' \subseteq ActiveClaims
            \/ \E t \in Tasks, c \in ClaimTokens : CommitMint(t, c) /\ ActiveClaims' \subseteq {c}
<1>1. claim \in [ClaimTokens -> ClaimToken] /\ \A c \in ClaimTokens : claim[c] \in ClaimToken
  BY DEF TypeOK
<1>2. ASSUME claim' = claim
      PROVE  /\ \A c \in ClaimTokens : claim[c].minted => claim'[c].minted
             /\ ActiveClaims' \subseteq ActiveClaims
  BY <1>2 DEF ActiveClaims
<1>3. CASE InviteStep
  BY <1>2, <1>3, InviteStepDoes
<1>4. CASE TokenStep
  BY <1>1, <1>4 DEF TokenStep, RevokeClaim, ExpireClaim, ClaimToken, ActiveClaims
<1>5. ASSUME NEW t \in Tasks, BeginStep(t) \/ MoveStep(t) \/ Refusal(t)
      PROVE  claim' = claim
  BY <1>5, ServingDoes DEF Rest
<1>6. ASSUME NEW t \in Tasks, CommitRedeem(t) \/ CommitModeration(t)
      PROVE  claim' = claim
  BY <1>6, CommitRedeemDoes, CommitModerationDoes
<1>7. ASSUME NEW t \in Tasks, CommitClaim(t)
      PROVE  /\ \A c \in ClaimTokens : claim[c].minted => claim'[c].minted
             /\ ActiveClaims' \subseteq ActiveClaims
  <2>1. claim' = [claim EXCEPT ![task[t].ref].consumed = TRUE]
    BY <1>7, CommitClaimDoes
  <2> QED
    BY <1>1, <2>1 DEF ClaimToken, ActiveClaims
<1>8. ASSUME NEW t \in Tasks, NEW c \in ClaimTokens, CommitMint(t, c)
      PROVE  /\ \A d \in ClaimTokens : claim[d].minted => claim'[d].minted
             /\ ActiveClaims' \subseteq {c}
  <2>1. /\ task[t].kind = "mint" /\ ActiveClaims \subseteq task[t].old
        /\ claim' = [o \in ClaimTokens |->
                        IF o = c THEN [claim[c] EXCEPT !.minted = TRUE]
                        ELSE IF o \in task[t].old THEN [claim[o] EXCEPT !.revoked = TRUE]
                        ELSE claim[o]]
    BY <1>8, CommitMintDoes DEF OneActive
  <2>2. ASSUME NEW d \in ClaimTokens
        PROVE  /\ claim[d].minted => claim'[d].minted
               /\ d # c => ~(claim'[d].minted /\ ~claim'[d].consumed /\ ~claim'[d].revoked)
    <3>1. CASE d \in task[t].old
      BY <1>1, <2>1, <3>1 DEF ClaimToken
    <3>2. CASE d \notin task[t].old
      BY <1>1, <2>1, <3>2 DEF ClaimToken, ActiveClaims
    <3> QED
      BY <3>1, <3>2
  <2> QED
    BY <2>2 DEF ActiveClaims
<1> QED
  BY <1>2, <1>3, <1>4, <1>5, <1>6, <1>7, <1>8, StepCases DEF CommitStep

LEMMA ActiveKeeps ==
  ASSUME TypeOK, RequestsTyped, OneActive, Next
  PROVE  OneActive'
<1>1. \A c, d \in ActiveClaims' : c = d
  BY TokensWritten DEF OneActive
<1>2. ASSUME NEW u \in Tasks, task'[u].kind = "mint"
      PROVE  ActiveClaims' \subseteq task'[u].old /\ \A v \in Tasks \ {u} : task'[v].kind # "mint"
  <2>1. ASSUME NEW t \in Tasks, BeginMint(t)
        PROVE  ActiveClaims' \subseteq task'[u].old /\ \A v \in Tasks \ {u} : task'[v].kind # "mint"
    <3>1. /\ Others(t) /\ task'[t].old = ActiveClaims /\ ActiveClaims' = ActiveClaims
          /\ \A v \in Tasks : task[v].kind # "mint"
      BY <2>1, BeginMintDoes DEF Started, Rest, ActiveClaims
    <3> QED
      BY <1>2, <3>1 DEF Others
  <2>2. CASE \A t \in Tasks : ~BeginMint(t)
    <3>1. ASSUME NEW v \in Tasks, task'[v].kind = "mint"
          PROVE  task[v].kind = "mint" /\ task'[v].old = task[v].old
      <4>1. CASE task'[v] = task[v]
        BY <3>1, <4>1
      <4>2. CASE task'[v] # task[v]
        <5>1. PICK t \in Tasks : BeginStep(t) \/ MoveStep(t) \/ Refusal(t) \/ CommitStep(t)
          BY <4>2, StepCases, InviteStepDoes, TokenStepDoes
        <5>2. v = t
          BY <4>2, <5>1, ServingDoes, CommitDoes, FinishedDoes DEF Others
        <5>3. CASE BeginStep(t)
          BY <2>2, <3>1, <5>2, <5>3, BeginRedeemDoes, BeginClaimDoes, BeginModerationDoes
             DEF BeginStep, Started
        <5>4. CASE MoveStep(t)
          BY <3>1, <5>2, <5>4, UpsertIdentityDoes, ConsumeDoes, FetchMembershipDoes,
             ConsumeClaimDoes, UpsertOwnerDoes, InsertEventDoes DEF MoveStep, Moved, SameRequest
        <5>5. CASE Refusal(t) \/ CommitStep(t)
          BY <3>1, <5>2, <5>5, RefusalDoes, CommitDoes, FinishedDoes DEF Finished
        <5> QED
          BY <5>1, <5>3, <5>4, <5>5
      <4> QED
        BY <4>1, <4>2
    <3>2. task[u].kind = "mint" /\ task'[u].old = task[u].old
      BY <1>2, <3>1
    <3>3. \A v \in Tasks \ {u} : task'[v].kind # "mint"
      BY <3>1, <3>2 DEF OneActive
    <3>4. \A t \in Tasks, c \in ClaimTokens : ~CommitMint(t, c)
      <4> SUFFICES ASSUME NEW t \in Tasks, NEW c \in ClaimTokens, CommitMint(t, c) PROVE FALSE
        OBVIOUS
      <4>1. task[t].kind = "mint" /\ task'[t].kind # "mint"
        BY CommitMintDoes, FinishedDoes
      <4> QED
        BY <1>2, <3>2, <4>1 DEF OneActive
    <3>5. ActiveClaims \subseteq task[u].old
      BY <3>2 DEF OneActive
    <3> QED
      BY <3>2, <3>3, <3>4, <3>5, TokensWritten
  <2> QED
    BY <2>1, <2>2
<1> QED
  BY <1>1, <1>2 DEF OneActive

(* Nobody becomes an owner but by a claim.                                 *)
LEMMA OwnersWritten ==
  ASSUME TypeOK, RequestsTyped, Next, \A t \in Tasks : ~CommitClaim(t), claimed'
  PROVE  claimed
<1>1. ASSUME NEW t \in Tasks, CommitRedeem(t)
      PROVE  Owners' \subseteq Owners
  <2>1. task[t].who \in People /\ task[t].kind = "redeem"
    BY <1>1, CommitRedeemDoes DEF RequestsTyped
  <2>2. member' = [member EXCEPT ![task[t].who] = IF task[t].ref \in ServerInvites
                                                  THEN ServerMember(task[t].who)
                                                  ELSE RoomMember(t, task[t].who)]
    BY <1>1, CommitRedeemDoes
  <2>3. /\ "Owner" \notin ServerMember(task[t].who).roles
        /\ RoomMember(t, task[t].who).roles \subseteq member[task[t].who].roles
    BY <2>1, ServerMemberRow, RoomMemberRow
  <2>4. ASSUME NEW p \in People, "Owner" \in member'[p].roles
        PROVE  "Owner" \in member[p].roles
    BY <2>1, <2>2, <2>3, <2>4 DEF TypeOK
  <2> QED
    BY <2>4 DEF Owners
<1>2. ASSUME NEW t \in Tasks, CommitModeration(t)
      PROVE  Owners' \subseteq Owners
  BY <1>2, ModerationRows DEF Owners
<1>3. ASSUME member' = member
      PROVE  Owners' = Owners
  BY <1>3 DEF Owners
<1>4. Owners' \subseteq Owners
  <2>1. CASE InviteStep \/ TokenStep
    BY <1>3, <2>1, InviteStepDoes, TokenStepDoes
  <2>2. ASSUME NEW t \in Tasks, BeginStep(t) \/ MoveStep(t) \/ Refusal(t)
        PROVE  Owners' \subseteq Owners
    BY <1>3, <2>2, ServingDoes DEF Rest
  <2>3. ASSUME NEW t \in Tasks, CommitStep(t)
        PROVE  Owners' \subseteq Owners
    BY <1>1, <1>2, <1>3, <2>3, CommitMintDoes DEF CommitStep
  <2> QED
    BY <2>1, <2>2, <2>3, StepCases
<1> QED
  BY <1>4 DEF claimed

(* Two claims have not both taken a token: it would be one, and the row is *)
(* held by one.                                                            *)
LEMMA TakenAlone ==
  ASSUME RequestsTyped, HoldsApart, OneActive, ClaimsAwaitOwner, NEW t \in Tasks,
         NEW u \in Tasks \ {t},
         task[t].kind = "claim", task[t].pc \in {"taken", "locked"},
         task[u].kind = "claim", task[u].pc \in {"taken", "locked"}
  PROVE  FALSE
<1>1. task[t].ref \in ActiveClaims /\ task[u].ref \in ActiveClaims
  BY DEF ClaimsAwaitOwner
<1>2. task[t].ref = task[u].ref /\ task[t].ref \in ClaimTokens
  BY <1>1 DEF OneActive, RequestsTyped
<1>3. HoldsToken(t, task[t].ref) /\ HoldsToken(u, task[t].ref)
  BY <1>2 DEF HoldsToken
<1> QED
  BY <1>2, <1>3 DEF HoldsApart

(* The part of ClaimsAwaitOwner that is about one request.                 *)
ClaimAwaits(u) ==
  /\ claim[task[u].ref].minted
  /\ task[u].pc \in {"taken", "locked"} => task[u].ref \in ActiveClaims /\ ~claimed
  /\ task[u].pc = "begun" /\ claimed => task[u].ref \notin ActiveClaims

LEMMA ClaimsKeep ==
  ASSUME TypeOK, RequestsTyped, HoldsApart, OneActive, ClaimsAwaitOwner, Next
  PROVE  ClaimsAwaitOwner'
<1> SUFFICES ASSUME NEW u \in Tasks, task'[u].kind = "claim"
             PROVE  ClaimAwaits(u)'
  BY DEF ClaimsAwaitOwner, ClaimAwaits
<1>1. task[u].kind = "claim" => ClaimAwaits(u) /\ task[u].ref \in ClaimTokens
  BY DEF ClaimsAwaitOwner, ClaimAwaits, RequestsTyped
<1>2. CASE InviteStep
  BY <1>1, <1>2, InviteStepDoes DEF ClaimAwaits, ActiveClaims, claimed, Owners
<1>3. CASE TokenStep
  <2>1. PICK c \in ClaimTokens : RevokeClaim(c) \/ ExpireClaim(c)
    BY <1>3 DEF TokenStep
  <2>2. task' = task /\ claimed' = claimed /\ ActiveClaims' \subseteq ActiveClaims
        /\ claim'[task[u].ref].minted
    <3>1. UNCHANGED <<member, task>> /\ \A t \in Tasks, d \in ClaimTokens : ~CommitMint(t, d)
      <4>1. UNCHANGED <<member, task>>
        BY <1>3, TokenStepDoes
      <4>2. \A t \in Tasks, d \in ClaimTokens : CommitMint(t, d) => task'[t] # task[t]
        BY CommitMintDoes, FinishedDoes
      <4> QED
        BY <4>1, <4>2
    <3>2. claimed' = claimed
      BY <3>1 DEF claimed, Owners
    <3>3. ActiveClaims' \subseteq ActiveClaims /\ claim'[task[u].ref].minted
      BY <1>1, <3>1, TokensWritten DEF ClaimAwaits
    <3> QED
      BY <3>1, <3>2, <3>3
  <2>3. ASSUME task[u].pc \in {"taken", "locked"}
        PROVE  task[u].ref \in ActiveClaims'
    <3>1. task[u].ref \in ActiveClaims /\ HoldsToken(u, task[u].ref)
      BY <1>1, <2>2, <2>3 DEF ClaimAwaits, HoldsToken
    <3>2. claim \in [ClaimTokens -> ClaimToken] /\ \A d \in ClaimTokens : claim[d] \in ClaimToken
      BY DEF TypeOK
    <3>3. CASE RevokeClaim(c)
      BY <3>1, <3>2, <3>3 DEF RevokeClaim, ActiveClaims
    <3>4. CASE ExpireClaim(c)
      BY <3>1, <3>2, <3>4 DEF ExpireClaim, ActiveClaims, ClaimToken
    <3> QED
      BY <2>1, <3>3, <3>4
  <2> QED
    BY <1>1, <2>2, <2>3 DEF ClaimAwaits
<1>4. ASSUME NEW t \in Tasks, BeginStep(t) \/ MoveStep(t) \/ Refusal(t)
      PROVE  ClaimAwaits(u)'
  <2>1. /\ claim' = claim /\ Others(t) /\ ActiveClaims' = ActiveClaims /\ claimed' = claimed
    BY <1>4, ServingDoes DEF Rest, ActiveClaims, claimed, Owners
  <2>2. CASE u # t
    BY <1>1, <2>1, <2>2 DEF Others, ClaimAwaits
  <2>3. CASE u = t /\ BeginStep(t)
    <3>1. PICK p \in People, c \in ClaimTokens : BeginClaim(t, p, c)
      BY <2>3, BeginRedeemDoes, BeginModerationDoes, BeginMintDoes DEF BeginStep, Started
    <3>2. task'[u].ref = c /\ task'[u].pc = "begun" /\ claim[c].minted /\ ~claimed
      BY <2>3, <3>1, BeginClaimDoes DEF Started
    <3> QED
      BY <2>1, <3>2 DEF ClaimAwaits
  <2>4. CASE u = t /\ Refusal(t)
    BY <2>4, RefusalDoes, FinishedDoes DEF Finished
  <2>5. CASE u = t /\ MoveStep(t)
    <3>1. ConsumeClaim(t) \/ UpsertOwner(t)
      BY <2>5, UpsertIdentityDoes, ConsumeDoes, FetchMembershipDoes, InsertEventDoes
         DEF MoveStep, Moved, SameRequest
    <3>2. CASE ConsumeClaim(t)
      <4>1. /\ task[u].kind = "claim" /\ task[u].pc = "begun" /\ task'[u].ref = task[u].ref
            /\ task'[u].pc = (IF task[u].ref \in ActiveClaims /\ ~claim[task[u].ref].expired
                              THEN "taken" ELSE "stale")
        BY <2>5, <3>2, ConsumeClaimDoes DEF Moved, SameRequest
      <4> QED
        BY <1>1, <2>1, <4>1 DEF ClaimAwaits
    <3>3. CASE UpsertOwner(t)
      BY <1>1, <2>1, <2>5, <3>3, UpsertOwnerDoes DEF Moved, SameRequest, ClaimAwaits
    <3> QED
      BY <3>1, <3>2, <3>3
  <2> QED
    BY <1>4, <2>2, <2>3, <2>4, <2>5
<1>5. ASSUME NEW t \in Tasks, CommitStep(t)
      PROVE  ClaimAwaits(u)'
  <2>1. u # t /\ task'[u] = task[u] /\ task[u].kind = "claim"
    BY <1>5, CommitDoes, FinishedDoes DEF Others
  <2>2. claim'[task[u].ref].minted
    BY <1>1, <2>1, TokensWritten DEF ClaimAwaits
  <2>3. CASE CommitRedeem(t) \/ CommitModeration(t)
    <3>1. claim' = claim /\ ActiveClaims' = ActiveClaims
      BY <2>3, CommitRedeemDoes, CommitModerationDoes DEF ActiveClaims
    <3>2. \A v \in Tasks : ~CommitClaim(v)
      <4> SUFFICES ASSUME NEW v \in Tasks, CommitClaim(v) PROVE FALSE
        OBVIOUS
      <4>1. Finished(v) /\ Finished(t) /\ task[v].pc = "locked" /\ task[t].pc # "locked"
        BY <2>3, CommitClaimDoes, CommitRedeemDoes, CommitModerationDoes
      <4> QED
        BY <4>1, FinishedDoes DEF Others
    <3>3. claimed' => claimed
      BY <3>2, OwnersWritten
    <3> QED
      BY <1>1, <2>1, <2>2, <3>1, <3>3 DEF ClaimAwaits
  <2>4. CASE CommitClaim(t)
    <3>1. task[t].kind = "claim" /\ task[t].pc = "locked" /\ task[t].ref \in ActiveClaims
      BY <2>4, CommitClaimDoes DEF ClaimsAwaitOwner
    <3>2. task[u].pc \notin {"taken", "locked"}
      BY <2>1, <3>1, TakenAlone
    <3>3. claim' = [claim EXCEPT ![task[t].ref].consumed = TRUE]
      BY <2>4, CommitClaimDoes
    <3>4. ActiveClaims' = {}
      <4>1. ActiveClaims \subseteq {task[t].ref}
        BY <3>1 DEF OneActive
      <4>2. claim \in [ClaimTokens -> ClaimToken] /\ \A d \in ClaimTokens : claim[d] \in ClaimToken
        BY DEF TypeOK
      <4> QED
        BY <3>3, <4>1, <4>2 DEF ActiveClaims, ClaimToken
    <3> QED
      BY <2>1, <2>2, <3>2, <3>4 DEF ClaimAwaits
  <2>5. ASSUME NEW c \in ClaimTokens, CommitMint(t, c)
        PROVE  ClaimAwaits(u)'
    <3>1. /\ task[t].kind = "mint" /\ ~claim[c].minted /\ member' = member
          /\ \A o \in task[t].old : TokenFree(t, o)
      BY <2>5, CommitMintDoes
    <3>2. task[u].pc \notin {"taken", "locked"}
      <4> SUFFICES ASSUME task[u].pc \in {"taken", "locked"} PROVE FALSE
        OBVIOUS
      <4>1. task[u].ref \in task[t].old /\ HoldsToken(u, task[u].ref)
        BY <1>1, <2>1, <3>1 DEF ClaimAwaits, OneActive, HoldsToken
      <4> QED
        BY <2>1, <3>1, <4>1 DEF TokenFree
    <3>3. task[u].ref # c
      BY <1>1, <2>1, <3>1 DEF ClaimAwaits
    <3>4. ASSUME task[u].ref \in ActiveClaims', claimed
          PROVE  task[u].ref \in ActiveClaims
      <4>1. claim'[task[u].ref] = claim[task[u].ref]
            \/ claim'[task[u].ref] = [claim[task[u].ref] EXCEPT !.revoked = TRUE]
        <5>1. claim' = [o \in ClaimTokens |->
                          IF o = c THEN [claim[c] EXCEPT !.minted = TRUE]
                          ELSE IF o \in task[t].old THEN [claim[o] EXCEPT !.revoked = TRUE]
                          ELSE claim[o]]
          BY <2>5, CommitMintDoes
        <5> QED
          BY <1>1, <2>1, <3>3, <5>1
      <4>2. claim[task[u].ref] \in ClaimToken
        BY <1>1, <2>1 DEF TypeOK
      <4> QED
        BY <1>1, <2>1, <3>4, <4>1, <4>2 DEF ActiveClaims, ClaimToken
    <3>5. claimed' = claimed
      BY <3>1 DEF claimed, Owners
    <3> QED
      BY <1>1, <2>1, <2>2, <3>2, <3>4, <3>5 DEF ClaimAwaits
  <2> QED
    BY <1>5, <2>3, <2>4, <2>5 DEF CommitStep
<1> QED
  BY <1>2, <1>3, <1>4, <1>5, StepCases

-----------------------------------------------------------------------------
(* The invariant                                                           *)

LEMMA InitOK == Init => AdmissionInv
<1> SUFFICES ASSUME Init PROVE AdmissionInv
  OBVIOUS
<1>1. /\ \A t \in Tasks : task[t] = Idle
      /\ \A i \in Invites : /\ ~invite[i].minted /\ invite[i].uses = 0
                            /\ ~invite[i].consumed /\ audits[i] = 0
      /\ \A c \in ClaimTokens : ~claim[c].minted
      /\ \A p \in People : access[p] = 0
  BY DEF Init
<1>2. /\ \A t \in Tasks : task[t].pc = "idle" /\ task[t].kind = "none"
      /\ task \in [Tasks -> Task]
  BY <1>1, IdleIsTask DEF Init
<1>3. TypeOK
  <2>1. identities \subseteq People /\ ownerDid \in People \cup {Nobody}
    BY PeopleAssumption DEF Init
  <2>2. member \in [People -> Member \cup {NoRow}]
    <3>1. Entrant({"Owner"}, "anchored") \in Member
      BY DEF Entrant, Member
    <3> QED
      BY <3>1 DEF Init
  <2>3. access \in [People -> Nat] /\ audits \in [Invites -> Nat]
    BY DEF Init
  <2>4. invite \in [Invites -> Invite]
    <3>1. [minted |-> FALSE, uses |-> 0, consumed |-> FALSE, revoked |-> FALSE, expired |-> FALSE]
            \in Invite
      BY UsesAssumption DEF Invite
    <3> QED
      BY <3>1 DEF Init
  <2>5. claim \in [ClaimTokens -> ClaimToken]
    BY DEF Init, ClaimToken
  <2> QED
    BY <1>2, <2>1, <2>2, <2>3, <2>4, <2>5 DEF TypeOK
<1>4. RequestsTyped /\ HoldsApart
  BY <1>2 DEF RequestsTyped, HoldsApart, HoldsIdentity, SharesIdentity, HoldsToken
<1>5. RowsAddUp /\ TakenIsUnspent /\ AccessIsSeen /\ RowIsSeen
  BY <1>1, <1>2 DEF RowsAddUp, RowAddsUp, TakenIsUnspent, AccessIsSeen, RowIsSeen, At
<1>6. OneActive /\ ClaimsAwaitOwner
  BY <1>1, <1>2 DEF OneActive, ClaimsAwaitOwner, ActiveClaims
<1> QED
  BY <1>3, <1>4, <1>5, <1>6 DEF AdmissionInv

LEMMA StutterKeeps ==
  ASSUME AdmissionInv, UNCHANGED vars
  PROVE  AdmissionInv'
<1> USE DEF vars, AdmissionInv
<1>1. TypeOK' /\ RequestsTyped'
  BY DEF TypeOK, RequestsTyped
<1>2. HoldsApart'
  BY DEF HoldsApart, HoldsIdentity, SharesIdentity, HoldsToken
<1>3. RowsAddUp' /\ TakenIsUnspent' /\ AccessIsSeen' /\ RowIsSeen'
  BY DEF RowsAddUp, RowAddsUp, TakenIsUnspent, Spent, AccessIsSeen, At, RowIsSeen
<1>4. OneActive' /\ ClaimsAwaitOwner'
  BY DEF OneActive, ClaimsAwaitOwner, ActiveClaims, claimed, Owners
<1> QED
  BY <1>1, <1>2, <1>3, <1>4

LEMMA StepKeeps == AdmissionInv /\ [Next]_vars => AdmissionInv'
<1>1. ASSUME AdmissionInv, Next PROVE AdmissionInv'
  BY <1>1, TypeKeeps, RequestsKeep, ApartKeeps, RowsKeep, TakenKeeps, AccessKeeps, RowSeenKeeps,
     ActiveKeeps, ClaimsKeep DEF AdmissionInv
<1> QED
  BY <1>1, StutterKeeps

-----------------------------------------------------------------------------
(* The theorems                                                            *)

(* The invariant holds in every reachable state, for any people, invites,  *)
(* claim tokens and requests served at once (Identity :claim_chat_owner,   *)
(* the redeem actions, revoke_active_tokens, ApplyModeration).             *)
THEOREM AdmissionInvariant == Spec => []AdmissionInv
  BY InitOK, StepKeeps, PTL DEF Spec

(* Type correctness of every reachable state: no counter of an invite goes *)
(* below zero or above its cap.                                            *)
THEOREM TypeCorrect == Spec => []TypeOK
<1>1. AdmissionInv => TypeOK
  BY DEF AdmissionInv
<1> QED
  BY AdmissionInvariant, <1>1, PTL

(* What redemptions leave adds up: each invite has admitted as many as its *)
(* row says (consume_single_use, decrement_multi_use), and nobody has two  *)
(* overrides on the channel (ensure_channel_access).                       *)
THEOREM AddsUp == Spec => []UsesAddUp
<1>1. AdmissionInv => UsesAddUp
  BY DEF AdmissionInv, RowsAddUp, RowAddsUp, AccessIsSeen, UsesAddUp
<1> QED
  BY AdmissionInvariant, <1>1, PTL

LEMMA StepKeepsRow ==
  ASSUME AdmissionInv, NEW t \in Tasks, RedeemsAsRoomInvite(t)
  PROVE  /\ ~member[task[t].who].banned
         /\ member[task[t].who] # NoRow =>
              /\ member'[task[t].who].roles = member[task[t].who].roles
              /\ member'[task[t].who].kind = member[task[t].who].kind
<1>1. /\ TypeOK /\ RequestsTyped /\ RowIsSeen /\ CommitRedeem(t) /\ task[t].ref \in RoomInvites
  BY DEF AdmissionInv, RedeemsAsRoomInvite
<1>2. /\ task[t].kind = "redeem" /\ task[t].pc = "seen"
      /\ member' = [member EXCEPT ![task[t].who] =
                      IF task[t].ref \in ServerInvites THEN ServerMember(task[t].who)
                                                       ELSE RoomMember(t, task[t].who)]
  BY <1>1, CommitRedeemDoes
<1>3. task[t].who \in People /\ task[t].ref \notin ServerInvites
  BY <1>1, <1>2, TokenAssumption DEF RequestsTyped
<1>4. member'[task[t].who] = RoomMember(t, task[t].who)
  BY <1>1, <1>2, <1>3 DEF TypeOK
<1>5. ~member[task[t].who].banned /\ (task[t].had = NoRow => member[task[t].who] = NoRow)
  BY <1>1, <1>2 DEF RowIsSeen
<1> QED
  BY <1>1, <1>3, <1>4, <1>5, RoomMemberRow

(* A room invite lets in nobody who is banned and takes neither role nor   *)
(* kind from a member: reject_if_banned, fetch_membership and the upsert   *)
(* of ensure_membership are apart, and the lock on the identity row keeps  *)
(* what they saw true.                                                     *)
THEOREM KeepsRow == Spec => RoomInviteKeepsRow
<1>1. AdmissionInv /\ [Next]_vars =>
        [\A t \in Tasks : RedeemsAsRoomInvite(t) =>
           LET row == member[task[t].who]
               new == member'[task[t].who] IN
           /\ ~row.banned
           /\ row # NoRow => new.roles = row.roles /\ new.kind = row.kind]_vars
  BY StepKeepsRow
<1> QED
  BY AdmissionInvariant, <1>1, PTL DEF Spec, RoomInviteKeepsRow

(* A claim that commits finds no owner: RejectIfClaimed looks before the   *)
(* token is taken, and still two first claims never both succeed.          *)
THEOREM FindsNoOwner == Spec => ClaimFindsNoOwner
<1>1. ASSUME AdmissionInv, NEW t \in Tasks, CommitClaim(t)
      PROVE  ~claimed
  BY <1>1, CommitClaimDoes DEF AdmissionInv, ClaimsAwaitOwner
<1>2. AdmissionInv /\ [Next]_vars => [\A t \in Tasks : CommitClaim(t) => ~claimed]_vars
  BY <1>1
<1> QED
  BY AdmissionInvariant, <1>2, PTL DEF Spec, ClaimFindsNoOwner

=============================================================================
