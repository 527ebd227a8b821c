--------------------------- MODULE SessionTokens ---------------------------
(***************************************************************************)
(* The session and refresh tokens of one identity at one server: pairs     *)
(* are issued at login, a refresh token is rotated into a new pair, and    *)
(* "sign out" and "kick" revoke every token of some devices                *)
(* (Yawp.Identity.issue_pair, rotate_refresh, revoke_all_for_device,       *)
(* revoke_all_for_identity).                                               *)
(*                                                                         *)
(* A refresh row and the session row minted with it are named by one       *)
(* token.  Rotations and revocations are transactions at READ COMMITTED:   *)
(* what they write is seen by others at the commit, an UPDATE waits for    *)
(* the transaction that holds its row and then looks at its condition      *)
(* again, and rows that others have inserted since a statement began are   *)
(* not seen by it.                                                         *)
(***************************************************************************)
EXTENDS Naturals, FiniteSets

CONSTANTS
  Tokens,      \* names of token pairs
  Devices,     \* the identity's devices
  Rotators,    \* processes serving rotate_refresh
  Revokers,    \* processes serving a revocation
  None         \* no token, no process

ASSUME TokenAssumption == None \notin Tokens /\ None \notin Rotators \cup Revokers
ASSUME ProcessAssumption == Rotators \cap Revokers = {}

VARIABLES
  rows,     \* the pairs whose rows are committed
  owner,    \* owner[t]: the device t was issued to
  next,     \* next[t]: rotated_to of the refresh row
  dead,     \* refresh rows with revoked_at
  ended,    \* session rows with revoked_at
  expired,  \* refresh rows past expires_at
  holder,   \* holder[t]: the transaction that has updated refresh row t
  rotation, \* rotation[p]: the rotation p is serving
  revocation, \* revocation[v]: the revocation v is serving
  line      \* line[t]: the login t descends from (of the model alone)

vars == <<rows, owner, next, dead, ended, expired, holder, rotation, revocation, line>>

Rotation ==
  [pc    : {"idle", "read", "minted", "marked", "stale"},
   old   : Tokens \cup {None},
   new   : Tokens \cup {None},
   reply : {"none", "ok", "rotated", "revoked", "expired", "invalid"}]

Revocation ==
  [pc       : {"idle", "sessions", "refreshes", "done"},
   scope    : SUBSET Devices,
   sessions : SUBSET Tokens,    \* session rows its first UPDATE found
   todo     : SUBSET Tokens,    \* refresh rows its second UPDATE has yet to lock
   found    : SUBSET Tokens]    \* refresh rows its second UPDATE found

TypeOK ==
  /\ rows \subseteq Tokens
  /\ owner \in [Tokens -> Devices \cup {None}]
  /\ next \in [Tokens -> Tokens \cup {None}]
  /\ dead \subseteq Tokens /\ ended \subseteq Tokens /\ expired \subseteq Tokens
  /\ holder \in [Tokens -> Rotators \cup Revokers \cup {None}]
  /\ rotation \in [Rotators -> Rotation]
  /\ revocation \in [Revokers -> Revocation]
  /\ line \in [Tokens -> Tokens \cup {None}]

NoRotation == [pc |-> "idle", old |-> None, new |-> None, reply |-> "none"]

NoRevocation ==
  [pc |-> "idle", scope |-> {}, sessions |-> {}, todo |-> {}, found |-> {}]

Init ==
  /\ rows = {} /\ dead = {} /\ ended = {} /\ expired = {}
  /\ owner = [t \in Tokens |-> None]
  /\ next = [t \in Tokens |-> None]
  /\ holder = [t \in Tokens |-> None]
  /\ rotation = [p \in Rotators |-> NoRotation]
  /\ revocation = [v \in Revokers |-> NoRevocation]
  /\ line = [t \in Tokens |-> None]

(* A token drawn at random has been drawn by nobody else.                  *)
Minting(p, t) == rotation[p].pc \in {"minted", "marked", "stale"} /\ rotation[p].new = t
Unused(t) == t \notin rows /\ \A p \in Rotators : ~Minting(p, t)

(* The condition of mark_rotated.                                          *)
Active(t) == next[t] = None /\ t \notin dead \cup expired

Owned(devices) == {t \in rows : owner[t] \in devices}

Release(p) == holder' = [t \in Tokens |-> IF holder[t] = p THEN None ELSE holder[t]]

RotationBecomes(p, r) == rotation' = [rotation EXCEPT ![p] = r]
RevocationBecomes(v, r) == revocation' = [revocation EXCEPT ![v] = r]

-----------------------------------------------------------------------------
(* Logging in: a device is registered or bound, and gets a pair            *)
IssuePair(t, d) ==
  /\ Unused(t)
  /\ rows' = rows \cup {t}
  /\ owner' = [owner EXCEPT ![t] = d]
  /\ line' = [line EXCEPT ![t] = t]
  /\ UNCHANGED <<next, dead, ended, expired, holder, rotation, revocation>>

(* Two weeks pass.                                                         *)
Expire(t) ==
  /\ t \in rows \ expired
  /\ expired' = expired \cup {t}
  /\ UNCHANGED <<rows, owner, next, dead, ended, holder, rotation, revocation, line>>

-----------------------------------------------------------------------------
(* rotate_refresh                                                          *)

(* The transaction begins and reads the row of the token presented.        *)
ReadRefresh(p, t) ==
  /\ rotation[p].pc = "idle"
  /\ t \in rows
  /\ RotationBecomes(p, [pc |-> "read", old |-> t, new |-> None, reply |-> "none"])
  /\ UNCHANGED <<rows, owner, next, dead, ended, expired, holder, revocation, line>>

RefuseUnknown(p, t) ==
  /\ rotation[p].pc = "idle"
  /\ t \in Tokens \ rows
  /\ RotationBecomes(p, [pc |-> "idle", old |-> t, new |-> None, reply |-> "invalid"])
  /\ UNCHANGED <<rows, owner, next, dead, ended, expired, holder, revocation, line>>

(* issue_pair within the transaction: two rows nobody else sees.           *)
MintPair(p, t) ==
  /\ rotation[p].pc = "read"
  /\ Unused(t)
  /\ RotationBecomes(p, [rotation[p] EXCEPT !.pc = "minted", !.new = t])
  /\ UNCHANGED <<rows, owner, next, dead, ended, expired, holder, revocation, line>>

(* Mutant: the update has no condition.                                    *)
MarkAlways(p) ==
  LET q == rotation[p] IN
  /\ q.pc = "minted"
  /\ holder[q.old] = None
  /\ holder' = [holder EXCEPT ![q.old] = p]
  /\ RotationBecomes(p, [q EXCEPT !.pc = "marked"])
  /\ UNCHANGED <<rows, owner, next, dead, ended, expired, revocation, line>>

(* UPDATE ... SET rotated_to WHERE the row is still active.                *)
MarkRotated(p) ==
  LET q == rotation[p] IN
  /\ q.pc = "minted"
  /\ holder[q.old] = None
  /\ IF Active(q.old)
     THEN /\ holder' = [holder EXCEPT ![q.old] = p]
          /\ RotationBecomes(p, [q EXCEPT !.pc = "marked"])
     ELSE /\ RotationBecomes(p, [q EXCEPT !.pc = "stale"])
          /\ UNCHANGED holder
  /\ UNCHANGED <<rows, owner, next, dead, ended, expired, revocation, line>>

CommitRotation(p) ==
  LET q == rotation[p] IN
  /\ q.pc = "marked"
  /\ rows' = rows \cup {q.new}
  /\ owner' = [owner EXCEPT ![q.new] = owner[q.old]]
  /\ next' = [next EXCEPT ![q.old] = q.new]
  /\ line' = [line EXCEPT ![q.new] = line[q.old]]
  /\ Release(p)
  /\ RotationBecomes(p, [q EXCEPT !.pc = "idle", !.reply = "ok"])
  /\ UNCHANGED <<dead, ended, expired, revocation>>

(* classify_stale: no row was updated; the reason is read from the row and *)
(* the transaction rolled back.                                            *)
Reason(t) ==
  IF next[t] # None THEN "rotated"
  ELSE IF t \in dead THEN "revoked"
  ELSE IF t \in expired THEN "expired"
  ELSE "invalid"

ClassifyStale(p) ==
  LET q == rotation[p] IN
  /\ q.pc = "stale"
  /\ RotationBecomes(p, [q EXCEPT !.pc = "idle", !.reply = Reason(q.old)])
  /\ UNCHANGED <<rows, owner, next, dead, ended, expired, holder, revocation, line>>

(* A statement fails or the server stops: everything is rolled back.       *)
AbortRotation(p) ==
  LET q == rotation[p] IN
  /\ q.pc # "idle"
  /\ Release(p)
  /\ RotationBecomes(p, [q EXCEPT !.pc = "idle", !.reply = "none"])
  /\ UNCHANGED <<rows, owner, next, dead, ended, expired, revocation, line>>

-----------------------------------------------------------------------------
(* revoke_all_for_device (one device) and revoke_all_for_identity (all of  *)
(* them): two UPDATEs in the transaction of the action that calls them     *)

RevokeSessions(v, devices) ==
  /\ revocation[v].pc \in {"idle", "done"}
  /\ RevocationBecomes(v, [pc |-> "sessions", scope |-> devices,
       sessions |-> Owned(devices) \ ended, todo |-> {}, found |-> {}])
  /\ UNCHANGED <<rows, owner, next, dead, ended, expired, holder, rotation, line>>

(* The second UPDATE takes its snapshot ...                                *)
RevokeRefreshes(v) ==
  LET q == revocation[v] IN
  /\ q.pc = "sessions"
  /\ RevocationBecomes(v, [q EXCEPT !.pc = "refreshes", !.todo = Owned(q.scope) \ dead,
                                    !.found = Owned(q.scope) \ dead])
  /\ UNCHANGED <<rows, owner, next, dead, ended, expired, holder, rotation, line>>

(* Mutant: a row held by another transaction is passed over.               *)
LockSkipping(v, t) ==
  LET q == revocation[v] IN
  /\ q.pc = "refreshes"
  /\ t \in q.todo
  /\ holder' = IF t \in dead \/ holder[t] # None THEN holder ELSE [holder EXCEPT ![t] = v]
  /\ RevocationBecomes(v, [q EXCEPT !.todo = @ \ {t}])
  /\ UNCHANGED <<rows, owner, next, dead, ended, expired, rotation, line>>

(* ... and locks its rows one by one, waiting for whoever holds one; a row *)
(* that has been revoked meanwhile is left alone.                          *)
LockRefresh(v, t) ==
  LET q == revocation[v] IN
  /\ q.pc = "refreshes"
  /\ t \in q.todo
  /\ holder[t] = None
  /\ holder' = IF t \in dead THEN holder ELSE [holder EXCEPT ![t] = v]
  /\ RevocationBecomes(v, [q EXCEPT !.todo = @ \ {t}])
  /\ UNCHANGED <<rows, owner, next, dead, ended, expired, rotation, line>>

CommitRevocation(v) ==
  LET q == revocation[v] IN
  /\ q.pc = "refreshes"
  /\ q.todo = {}
  /\ ended' = ended \cup q.sessions
  /\ dead' = dead \cup {t \in Tokens : holder[t] = v}
  /\ Release(v)
  /\ RevocationBecomes(v, [q EXCEPT !.pc = "done"])
  /\ UNCHANGED <<rows, owner, next, expired, rotation, line>>

AbortRevocation(v) ==
  LET q == revocation[v] IN
  /\ q.pc \in {"sessions", "refreshes"}
  /\ Release(v)
  /\ RevocationBecomes(v, NoRevocation)
  /\ UNCHANGED <<rows, owner, next, dead, ended, expired, rotation, line>>

(* Two revocations hold what the other waits for, and PostgreSQL ends one. *)
Blocks(v, w) ==
  /\ revocation[v].pc = "refreshes" /\ revocation[v].todo # {}
  /\ \A t \in revocation[v].todo : holder[t] = w

EndDeadlock(v) ==
  /\ \E w \in Revokers \ {v} : Blocks(v, w) /\ Blocks(w, v)
  /\ AbortRevocation(v)

-----------------------------------------------------------------------------
RotationStep(p) ==
  \/ \E t \in Tokens : MintPair(p, t)
  \/ MarkRotated(p) \/ CommitRotation(p) \/ ClassifyStale(p)

RevocationStep(v) ==
  \/ RevokeRefreshes(v) \/ CommitRevocation(v) \/ EndDeadlock(v)
  \/ \E t \in Tokens : LockRefresh(v, t)

Next ==
  \/ \E t \in Tokens : Expire(t) \/ \E d \in Devices : IssuePair(t, d)
  \/ \E p \in Rotators :
       \/ RotationStep(p) \/ AbortRotation(p)
       \/ \E t \in Tokens : ReadRefresh(p, t) \/ RefuseUnknown(p, t)
  \/ \E v \in Revokers :
       \/ RevocationStep(v) \/ AbortRevocation(v)
       \/ \E devices \in (SUBSET Devices) \ {{}} : RevokeSessions(v, devices)

Spec == Init /\ [][Next]_vars

-----------------------------------------------------------------------------
(* Properties                                                              *)

(* However many requests present the same refresh token, a login has one   *)
(* refresh row at most that is not rotated: the line of its tokens never   *)
(* forks (test "with N concurrent rotators, exactly one wins").            *)
LineNeverForks ==
  \A t, u \in rows :
    /\ line[t] = line[u] /\ next[t] = None /\ next[u] = None => t = u
    /\ next[t] # None => next[t] \in rows /\ line[next[t]] = line[t] /\ owner[next[t]] = owner[t]

(* What a rotation answers is so: a success has its successor committed,   *)
(* a refusal names a reason that holds.                                    *)
RepliesAreTrue ==
  \A p \in Rotators :
    LET q == rotation[p] IN
    q.pc = "idle" =>
      /\ q.reply = "ok" => next[q.old] = q.new /\ q.new \in rows
      /\ q.reply = "rotated" => next[q.old] # None
      /\ q.reply = "revoked" => q.old \in dead
      /\ q.reply = "expired" => q.old \in expired

(* A row that the UPDATE missed has a reason for it when classify_stale    *)
(* reads it: a client is never told that a known token is invalid.         *)
KnownIsClassified ==
  \A p \in Rotators : rotation[p].pc = "stale" => Reason(rotation[p].old) # "invalid"

(* A refresh token that has been revoked is never rotated after that, not  *)
(* even by a rotation that had read it before.                             *)
StaysUnrotated ==
  \A t \in dead : t \in dead' /\ next'[t] = next[t]

RevokedStays == [][StaysUnrotated]_vars

(* When a revocation has ended, what its statements found is revoked,      *)
(* whoever held the rows in between.                                       *)
RevokesWhatItFound ==
  \A v \in Revokers :
    revocation[v].pc = "done" =>
      revocation[v].sessions \subseteq ended /\ revocation[v].found \subseteq dead
=============================================================================
