----------------------------- MODULE Admission -----------------------------
(***************************************************************************)
(* Who may enter a server: the operator's claim token makes the first      *)
(* identity its owner, invites admit members and guests, and a kick or a   *)
(* ban puts them out again (Identity :claim_chat_owner, ClaimToken,        *)
(* ServerInvite and RoomInvite with their :redeem, Kick, Ban).             *)
(*                                                                         *)
(* Requests are served by tasks, each a transaction at READ COMMITTED.     *)
(* What a task has written is seen by the others when it commits; until    *)
(* then it holds the rows it has updated, and an UPDATE of a held row      *)
(* waits for the holder and then looks at its condition again.  The        *)
(* identity upsert that begins a redemption and ends a claim sets a unique *)
(* column, so its lock also keeps out the foreign-key check of a kick or a *)
(* ban.  Which rows a task holds follows from how far it has come.         *)
(*                                                                         *)
(* Signatures and DID derivation are what lets a request begin.  The       *)
(* room invites lead to one channel.  That a kick revokes every session of *)
(* its target is SessionTokens' revocation.                                *)
(***************************************************************************)
EXTENDS Naturals, FiniteSets

CONSTANTS
  People,         \* identities
  Adopted,        \* those this server has known since before (:adopt)
  ServerInvites,  \* tokens of invites to the server
  RoomInvites,    \* tokens of invites to the channel
  MultiUse,       \* the invites of kind :multi_use
  MaxUses,        \* the cap they are minted with
  ClaimTokens,    \* claim tokens the operator may mint
  MaxWithdrawn,   \* bound: invites that are revoked or expire, claim tokens that expire
  FirstOwner,     \* who has claimed the server, or Nobody
  Flags,          \* what moderators do: some of "kicked", "banned"
  Tasks,          \* processes serving requests
  Nobody

Invites == ServerInvites \cup RoomInvites

ASSUME PeopleAssumption == /\ Adopted \subseteq People /\ Nobody \notin People
                           /\ FirstOwner \in People \cup {Nobody}
ASSUME TokenAssumption == /\ ServerInvites \cap RoomInvites = {}
                          /\ Invites \cap ClaimTokens = {}
                          /\ (Invites \cup ClaimTokens) \cap People = {}
                          /\ Nobody \notin Invites \cup ClaimTokens
ASSUME FlagsAssumption == Flags \subseteq {"kicked", "banned"}
ASSUME UsesAssumption == MultiUse \subseteq Invites /\ MaxUses \in Nat \ {0}

VARIABLES
  identities, \* people with an Identity row
  member,     \* member[p]: p's Membership row
  access,     \* access[p]: identity-level ChannelOverride rows of p
  ownerDid,   \* owner_did of the server
  invite,     \* invite[i]: the row of invite i
  claim,      \* claim[c]: the row of claim token c
  audits,     \* audits[i]: redeem entries of i in the audit log
  task        \* task[t]: the request t is serving

vars == <<identities, member, access, ownerDid, invite, claim, audits, task>>

Member == [roles : SUBSET {"Owner", "Member"}, kind : {"anchored", "guest"},
           banned : BOOLEAN, kicked : BOOLEAN]
NoRow == [roles |-> {}, kind |-> "none", banned |-> FALSE, kicked |-> FALSE]
Invite == [minted : BOOLEAN, uses : 0..MaxUses,
           consumed : BOOLEAN, revoked : BOOLEAN, expired : BOOLEAN]
ClaimToken == [minted : BOOLEAN, consumed : BOOLEAN, revoked : BOOLEAN, expired : BOOLEAN]
Answers == {"ok", "invalid", "revoked", "expired", "consumed", "exhausted",
            "membership_banned", "internal_error"}
Task == [pc     : {"idle", "begun", "locked", "stale", "taken", "seen", "noted"},
         kind   : {"none", "redeem", "claim", "mint", "kicked", "banned"},
         who    : People \cup {Nobody},
         ref    : Invites \cup ClaimTokens \cup People \cup {Nobody},
         had    : Member \cup {NoRow},      \* fetch_membership in a room redeem
         saw    : BOOLEAN,                  \* whether it found an override
         old    : SUBSET ClaimTokens]       \* tokens a mint found active

TypeOK ==
  /\ identities \subseteq People
  /\ member \in [People -> Member \cup {NoRow}]
  /\ access \in [People -> Nat]
  /\ ownerDid \in People \cup {Nobody}
  /\ invite \in [Invites -> Invite]
  /\ claim \in [ClaimTokens -> ClaimToken]
  /\ audits \in [Invites -> Nat]
  /\ task \in [Tasks -> Task]

Idle == [pc |-> "idle", kind |-> "none", who |-> Nobody, ref |-> Nobody, had |-> NoRow,
         saw |-> FALSE, old |-> {}]
Entrant(roles, kind) == [roles |-> roles, kind |-> kind, banned |-> FALSE, kicked |-> FALSE]

Init ==
  /\ identities = Adopted \cup ({FirstOwner} \ {Nobody})
  /\ member = [p \in People |-> IF p = FirstOwner THEN Entrant({"Owner"}, "anchored") ELSE NoRow]
  /\ access = [p \in People |-> 0]
  /\ ownerDid = FirstOwner
  /\ invite = [i \in Invites |-> [minted |-> FALSE, uses |-> 0, consumed |-> FALSE,
                                  revoked |-> FALSE, expired |-> FALSE]]
  /\ claim = [c \in ClaimTokens |-> [minted |-> FALSE, consumed |-> FALSE,
                                     revoked |-> FALSE, expired |-> FALSE]]
  /\ audits = [i \in Invites |-> 0]
  /\ task = [t \in Tasks |-> Idle]

-----------------------------------------------------------------------------
(* The rows a task holds.                                                  *)

HoldsIdentity(t, p) ==
  /\ task[t].who = p
  /\ \/ task[t].kind = "redeem" /\ task[t].pc \in {"locked", "taken", "stale", "seen"}
     \/ task[t].kind = "claim" /\ task[t].pc = "locked"

SharesIdentity(t, p) == task[t].pc = "noted" /\ p \in {task[t].who, task[t].ref}

HoldsToken(t, x) ==
  /\ task[t].ref = x
  /\ \/ task[t].kind = "redeem" /\ task[t].pc \in {"taken", "seen"}
     \/ task[t].kind = "claim" /\ task[t].pc \in {"taken", "locked"}

IdentityFree(t, p) == \A u \in Tasks \ {t} : ~HoldsIdentity(u, p) /\ ~SharesIdentity(u, p)
TokenFree(t, x) == \A u \in Tasks \ {t} : ~HoldsToken(u, x)

At(t, kind, pc) == task[t].kind = kind /\ task[t].pc = pc
MoveTo(t, pc) == task' = [task EXCEPT ![t].pc = pc]

(* The answer goes to whoever asked, and the task serves another request.  *)
Reply(t, answer) == answer \in Answers /\ task' = [task EXCEPT ![t] = Idle]
Begin(t, request) == task[t].pc = "idle" /\ task' = [task EXCEPT ![t] = request]

-----------------------------------------------------------------------------
(* What a membership allows: the server owner may do everything, and the   *)
(* Owner and Member roles carry the bits for invites and moderation.       *)

Admitted(p) == member[p] # NoRow /\ ~member[p].banned /\ ~member[p].kicked
HasRole(p, role) == ownerDid = p \/ (Admitted(p) /\ role \in member[p].roles)
MayModerate(p) == HasRole(p, "Owner")
MayInvite(p) == HasRole(p, "Owner") \/ HasRole(p, "Member")
(* is_owner? of VerifyServerOwnership and owner_membership? look for the   *)
(* role alone.                                                             *)
Owners == {p \in People : "Owner" \in member[p].roles}
claimed == Owners # {}

-----------------------------------------------------------------------------
(* Invites.                                                                *)

(* Bound: so many tokens lapse by the clock or are revoked by hand.        *)
Withdrawn == {i \in Invites : invite[i].revoked \/ invite[i].expired}
               \cup {c \in ClaimTokens : claim[c].expired}
MayLapse == Cardinality(Withdrawn) < MaxWithdrawn

MintInvite(i) ==
  /\ ~invite[i].minted
  /\ \E p \in identities : IF i \in ServerInvites THEN p \in Owners ELSE MayInvite(p)
  /\ invite' = [invite EXCEPT ![i].minted = TRUE,
                              ![i].uses = IF i \in MultiUse THEN MaxUses ELSE 0]
  /\ UNCHANGED <<identities, member, access, ownerDid, claim, audits, task>>

RevokeInvite(i) ==
  /\ MayLapse
  /\ invite[i].minted /\ (\A u \in Tasks : ~HoldsToken(u, i))
  /\ invite' = [invite EXCEPT ![i].revoked = TRUE]
  /\ UNCHANGED <<identities, member, access, ownerDid, claim, audits, task>>

ExpireInvite(i) ==
  /\ invite[i].minted /\ MayLapse
  /\ invite' = [invite EXCEPT ![i].expired = TRUE]
  /\ UNCHANGED <<identities, member, access, ownerDid, claim, audits, task>>

(* check_state: its clause on the expiry matches every row, so those on a   *)
(* spent invite, which follow it, are never reached.                       *)
Current(i) == invite[i].minted /\ ~invite[i].revoked /\ ~invite[i].expired

(* The filters of consume_single_use and decrement_multi_use, and the      *)
(* clauses of reclassify_stale.                                            *)
Spent(i) == IF i \in MultiUse THEN invite[i].uses = 0 ELSE invite[i].consumed
Active(i) == Current(i) /\ ~Spent(i)
Reclassified(i) ==
  CASE invite[i].revoked -> "revoked"
    [] invite[i].consumed /\ i \notin MultiUse -> "consumed"
    [] invite[i].uses = 0 /\ i \in MultiUse -> "exhausted"
    [] invite[i].expired -> "expired"
    [] OTHER -> "invalid"

BeginRedeem(t, p, i) ==
  /\ Current(i)
  /\ i \in ServerInvites => claimed
  /\ Begin(t, [Idle EXCEPT !.pc = "begun", !.kind = "redeem", !.who = p, !.ref = i])
  /\ UNCHANGED <<identities, member, access, ownerDid, invite, claim, audits>>

(* Mutant: an upsert that does nothing on conflict locks nothing.          *)
UpsertIdentityNothing(t) ==
  /\ At(t, "redeem", "begun")
  /\ MoveTo(t, "locked")
  /\ UNCHANGED <<identities, member, access, ownerDid, invite, claim, audits>>

(* upsert_identity waits for whoever holds, or refers to, the same row.    *)
UpsertIdentity(t) ==
  /\ At(t, "redeem", "begun")
  /\ IdentityFree(t, task[t].who)
  /\ MoveTo(t, "locked")
  /\ UNCHANGED <<identities, member, access, ownerDid, invite, claim, audits>>

(* reject_if_banned, in a room redeem alone.                               *)
RejectIfBanned(t) ==
  /\ At(t, "redeem", "locked")
  /\ task[t].ref \in RoomInvites /\ member[task[t].who].banned
  /\ Reply(t, "membership_banned")
  /\ UNCHANGED <<identities, member, access, ownerDid, invite, claim, audits>>

(* consume_single_use and decrement_multi_use: the UPDATE that keeps the   *)
(* row, or finds that its filter no longer holds.                          *)
Consume(t) ==
  /\ At(t, "redeem", "locked")
  /\ task[t].ref \in RoomInvites => ~member[task[t].who].banned
  /\ TokenFree(t, task[t].ref)
  /\ MoveTo(t, IF Active(task[t].ref) THEN "taken" ELSE "stale")
  /\ UNCHANGED <<identities, member, access, ownerDid, invite, claim, audits>>

ReclassifyStale(t) ==
  /\ At(t, "redeem", "stale")
  /\ Reply(t, Reclassified(task[t].ref))
  /\ UNCHANGED <<identities, member, access, ownerDid, invite, claim, audits>>

(* fetch_membership and the read of ensure_channel_access.                 *)
FetchMembership(t) ==
  /\ At(t, "redeem", "taken")
  /\ task' = [task EXCEPT ![t].pc = "seen", ![t].had = member[task[t].who],
                          ![t].saw = access[task[t].who] > 0]
  /\ UNCHANGED <<identities, member, access, ownerDid, invite, claim, audits>>

(* The upsert of Membership :create replaces the fields it is given.       *)
Upserted(row, new) == IF row = NoRow THEN new ELSE [row EXCEPT !.roles = new.roles]

(* assign_role and clear_kicked; ensure_membership.                        *)
ServerMember(p) == [Upserted(member[p], Entrant({"Member"}, "anchored")) EXCEPT !.kicked = FALSE]
RoomMember(t, p) ==
  IF task[t].had = NoRow
  THEN [Upserted(member[p], Entrant({}, "guest")) EXCEPT !.kind = "guest"]
  ELSE [member[p] EXCEPT !.kicked = @ /\ ~task[t].had.kicked]

(* Mutant: consumed_at looks at the counter before the decrement.          *)
ConsumedLate(i) ==
  IF i \in MultiUse
  THEN [invite[i] EXCEPT !.uses = @ - 1, !.consumed = @ \/ invite[i].uses = 0]
  ELSE [invite[i] EXCEPT !.consumed = TRUE]
Consumed(i) ==
  IF i \in MultiUse
  THEN [invite[i] EXCEPT !.uses = @ - 1, !.consumed = @ \/ invite[i].uses = 1]
  ELSE [invite[i] EXCEPT !.consumed = TRUE]

CommitRedeem(t) ==
  LET p == task[t].who
      i == task[t].ref
  IN  /\ At(t, "redeem", "seen")
      /\ identities' = identities \cup {p}
      /\ invite' = [invite EXCEPT ![i] = Consumed(i)]
      /\ member' = [member EXCEPT ![p] = IF i \in ServerInvites THEN ServerMember(p)
                                                                ELSE RoomMember(t, p)]
      /\ access' = [access EXCEPT ![p] = IF i \in RoomInvites /\ ~task[t].saw THEN @ + 1 ELSE @]
      /\ audits' = [audits EXCEPT ![i] = @ + 1]
      /\ Reply(t, "ok")
      /\ UNCHANGED <<ownerDid, claim>>

-----------------------------------------------------------------------------
(* Claim tokens.                                                           *)

ActiveClaims == {c \in ClaimTokens : claim[c].minted /\ ~claim[c].consumed /\ ~claim[c].revoked}

(* acquire_xact_lock, then the tokens revoke_active_tokens will update.    *)
BeginMint(t) ==
  /\ \A u \in Tasks : task[u].kind # "mint"
  /\ \E c \in ClaimTokens : ~claim[c].minted
  /\ Begin(t, [Idle EXCEPT !.pc = "begun", !.kind = "mint", !.old = ActiveClaims])
  /\ UNCHANGED <<identities, member, access, ownerDid, invite, claim, audits>>

(* Mutant: the tokens minted before are left alone.                        *)
CommitMintBeside(t, c) ==
  /\ At(t, "mint", "begun") /\ ~claim[c].minted
  /\ claim' = [claim EXCEPT ![c].minted = TRUE]
  /\ Reply(t, "ok")
  /\ UNCHANGED <<identities, member, access, ownerDid, invite, audits>>
CommitMint(t, c) ==
  /\ At(t, "mint", "begun") /\ ~claim[c].minted
  /\ \A o \in task[t].old : TokenFree(t, o)
  /\ claim' = [o \in ClaimTokens |->
                 IF o = c THEN [claim[c] EXCEPT !.minted = TRUE]
                 ELSE IF o \in task[t].old THEN [claim[o] EXCEPT !.revoked = TRUE] ELSE claim[o]]
  /\ Reply(t, "ok")
  /\ UNCHANGED <<identities, member, access, ownerDid, invite, audits>>

RevokeClaim(c) ==
  /\ claim[c].minted /\ (\A u \in Tasks : ~HoldsToken(u, c))
  /\ claim' = [claim EXCEPT ![c].revoked = TRUE]
  /\ UNCHANGED <<identities, member, access, ownerDid, invite, audits, task>>

ExpireClaim(c) ==
  /\ claim[c].minted /\ MayLapse
  /\ claim' = [claim EXCEPT ![c].expired = TRUE]
  /\ UNCHANGED <<identities, member, access, ownerDid, invite, audits, task>>

(* RejectIfClaimed.                                                        *)
BeginClaim(t, p, c) ==
  /\ claim[c].minted /\ ~claimed
  /\ Begin(t, [Idle EXCEPT !.pc = "begun", !.kind = "claim", !.who = p, !.ref = c])
  /\ UNCHANGED <<identities, member, access, ownerDid, invite, claim, audits>>

(* consume_if_active.                                                      *)
ConsumeClaim(t) ==
  LET c == task[t].ref
  IN  /\ At(t, "claim", "begun")
      /\ TokenFree(t, c)
      /\ MoveTo(t, IF c \in ActiveClaims /\ ~claim[c].expired THEN "taken" ELSE "stale")
      /\ UNCHANGED <<identities, member, access, ownerDid, invite, claim, audits>>

(* classify_stale and classify.                                            *)
ClaimReason(c) ==
  CASE claim[c].consumed -> "consumed"
    [] claim[c].revoked -> "revoked"
    [] claim[c].expired -> "expired"
    [] OTHER -> "invalid"

ClassifyClaim(t) ==
  /\ At(t, "claim", "stale")
  /\ Reply(t, ClaimReason(task[t].ref))
  /\ UNCHANGED <<identities, member, access, ownerDid, invite, claim, audits>>

UpsertOwner(t) ==
  /\ At(t, "claim", "taken")
  /\ IdentityFree(t, task[t].who)
  /\ MoveTo(t, "locked")
  /\ UNCHANGED <<identities, member, access, ownerDid, invite, claim, audits>>

(* AssignOwnerRole.                                                        *)
CommitClaim(t) ==
  LET p == task[t].who
      c == task[t].ref
  IN  /\ At(t, "claim", "locked")
      /\ identities' = identities \cup {p}
      /\ claim' = [claim EXCEPT ![c].consumed = TRUE]
      /\ member' = [member EXCEPT ![p] = Upserted(@, Entrant({"Owner"}, "anchored"))]
      /\ ownerDid' = p
      /\ Reply(t, "ok")
      /\ UNCHANGED <<access, invite, audits>>

-----------------------------------------------------------------------------
(* Kicks and bans: flag is "kicked" or "banned".                           *)

BeginModeration(t, p, target, flag) ==
  /\ p \in identities /\ MayModerate(p) /\ target \in identities
  /\ Begin(t, [Idle EXCEPT !.pc = "begun", !.kind = flag, !.who = p, !.ref = target])
  /\ UNCHANGED <<identities, member, access, ownerDid, invite, claim, audits>>

(* The Kick or Ban row, which is kept as a record and never read; its       *)
(* foreign keys wait for the two identities.                               *)
InsertEvent(t) ==
  /\ task[t].kind \in {"kicked", "banned"} /\ task[t].pc = "begun"
  /\ \A u \in Tasks \ {t} : ~HoldsIdentity(u, task[t].ref) /\ ~HoldsIdentity(u, task[t].who)
  /\ MoveTo(t, "noted")
  /\ UNCHANGED <<identities, member, access, ownerDid, invite, claim, audits>>

(* ApplyModeration finds the membership, if there is one, and flags it.    *)
CommitModeration(t) ==
  LET p == task[t].ref
      flag == task[t].kind
  IN  /\ task[t].pc = "noted"
      /\ member' = IF member[p] = NoRow THEN member
                   ELSE [member EXCEPT ![p].kicked = @ \/ flag = "kicked",
                                       ![p].banned = @ \/ flag = "banned"]
      /\ Reply(t, "ok")
      /\ UNCHANGED <<identities, access, ownerDid, invite, claim, audits>>

(* Any statement may fail; everything is rolled back.                      *)
Rollback(t) ==
  /\ task[t].pc # "idle"
  /\ Reply(t, "internal_error")
  /\ UNCHANGED <<identities, member, access, ownerDid, invite, claim, audits>>

-----------------------------------------------------------------------------
RedeemStep(t) ==
  \/ UpsertIdentity(t) \/ RejectIfBanned(t) \/ Consume(t) \/ ReclassifyStale(t)
  \/ FetchMembership(t) \/ CommitRedeem(t)
ClaimStep(t) ==
  \/ ConsumeClaim(t) \/ ClassifyClaim(t) \/ UpsertOwner(t) \/ CommitClaim(t)
  \/ \E c \in ClaimTokens : CommitMint(t, c)
ModerationStep(t) == InsertEvent(t) \/ CommitModeration(t)

Next ==
  \/ \E i \in Invites : MintInvite(i) \/ RevokeInvite(i) \/ ExpireInvite(i)
  \/ \E c \in ClaimTokens : RevokeClaim(c) \/ ExpireClaim(c)
  \/ \E t \in Tasks, p \in People :
       \/ \E i \in Invites : BeginRedeem(t, p, i)
       \/ \E c \in ClaimTokens : BeginClaim(t, p, c)
       \/ \E target \in People, flag \in Flags : BeginModeration(t, p, target, flag)
  \/ \E t \in Tasks : BeginMint(t) \/ RedeemStep(t) \/ ClaimStep(t) \/ ModerationStep(t) \/ Rollback(t)

Spec == Init /\ [][Next]_vars
-----------------------------------------------------------------------------
(* What redemptions leave adds up, whatever races, waits or rolls back: an *)
(* invite admits as many as it was minted for, by the audit log, and a     *)
(* person has at most one override on the channel, although no index says  *)
(* so and ensure_channel_access reads before it creates: the lock of the   *)
(* identity upsert keeps two redemptions of one person apart.              *)
UsesAddUp ==
  /\ \A i \in Invites : invite[i].minted =>
       IF i \in MultiUse
       THEN invite[i].uses + audits[i] = MaxUses /\ (invite[i].consumed <=> invite[i].uses = 0)
       ELSE audits[i] = IF invite[i].consumed THEN 1 ELSE 0
  /\ \A p \in People : access[p] <= 1

(* A room invite lets nobody in who is banned, even if the ban comes after *)
(* the check of reject_if_banned, for its event row then waits; and it     *)
(* takes nothing from a member: roles and kind of a row outlive it, though *)
(* ensure_membership decides by an earlier read and its upsert would       *)
(* replace them.                                                           *)
RedeemsAsRoomInvite(t) == CommitRedeem(t) /\ task[t].ref \in RoomInvites
RoomInviteKeepsRow ==
  [][\A t \in Tasks : RedeemsAsRoomInvite(t) =>
       LET row == member[task[t].who]
           new == member'[task[t].who] IN
       /\ ~row.banned
       /\ row # NoRow => new.roles = row.roles /\ new.kind = row.kind]_vars

(* Two first claims cannot both succeed: RejectIfClaimed looks before the  *)
(* token is consumed, and yet a claim that commits finds no owner.         *)
ClaimFindsNoOwner == [][\A t \in Tasks : CommitClaim(t) => ~claimed]_vars

=============================================================================
