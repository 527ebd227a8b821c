-------------------------- MODULE Workspaces_proofs --------------------------
(***************************************************************************)
(* Proofs about the session of a workspace and about its page.             *)
(*                                                                         *)
(* SessionTokens: a login never has two refresh tokens that are not        *)
(* rotated, what a rotation answers is so, a revoked token is never        *)
(* rotated, and a revocation revokes what it found.                        *)
(* SessionClient: no late answer puts an earlier pair back in the storage. *)
(* ServerPage: a page on which nothing is under way shows the tree of its  *)
(* server, and what it counts as unread is owed.                           *)
(***************************************************************************)
EXTENDS SessionClient, ServerPage, FiniteSetTheorems, WellFoundedInduction, TLAPS

-----------------------------------------------------------------------------
(* The inductive invariant                                                 *)

(* A rotation under way has read a row, and its new name is its own.       *)
MintedAlone ==
  \A p \in Rotators :
    /\ rotation[p].pc # "idle" => rotation[p].old \in rows
    /\ rotation[p].pc \in {"minted", "marked", "stale"} =>
         /\ rotation[p].new \in Tokens \ rows
         /\ \A r \in Rotators \ {p} : ~Minting(r, rotation[p].new)

(* A rotation that has updated its row holds it, and nobody else has       *)
(* rotated or revoked it since.                                            *)
MarkedHolds ==
  \A p \in Rotators :
    rotation[p].pc = "marked" =>
      /\ holder[rotation[p].old] = p
      /\ next[rotation[p].old] = None
      /\ rotation[p].old \notin dead

StaleIsInactive ==
  \A p \in Rotators : rotation[p].pc = "stale" => ~Active(rotation[p].old)

(* Only rows are rotated, revoked and held.                                *)
OnlyRows ==
  /\ \A t \in Tokens \ rows : next[t] = None /\ holder[t] = None
  /\ dead \subseteq rows

LinesAreRows == \A t \in rows : line[t] \in rows

(* What a revocation has found is still to lock, held, or revoked.         *)
FoundIsCovered ==
  \A v \in Revokers :
    /\ revocation[v].pc = "refreshes" =>
         /\ revocation[v].todo \subseteq revocation[v].found
         /\ revocation[v].found \subseteq rows
         /\ \A t \in revocation[v].found :
              t \in revocation[v].todo \/ t \in dead \/ holder[t] = v
    /\ revocation[v].pc = "done" =>
         revocation[v].sessions \subseteq ended /\ revocation[v].found \subseteq dead

-----------------------------------------------------------------------------
(* Types                                                                   *)

(* The parts of TypeOK.                                                    *)
DbTyped ==
  /\ rows \subseteq Tokens
  /\ owner \in [Tokens -> Devices \cup {None}]
  /\ next \in [Tokens -> Tokens \cup {None}]
  /\ dead \subseteq Tokens /\ ended \subseteq Tokens /\ expired \subseteq Tokens
  /\ holder \in [Tokens -> Rotators \cup Revokers \cup {None}]
  /\ line \in [Tokens -> Tokens \cup {None}]

ProcTyped ==
  /\ rotation \in [Rotators -> Rotation]
  /\ revocation \in [Revokers -> Revocation]

LEMMA TypeParts == TypeOK <=> DbTyped /\ ProcTyped
BY DEF TypeOK, DbTyped, ProcTyped

LEMMA RotationFields ==
  ASSUME NEW q \in Rotation
  PROVE  /\ q.old \in Tokens \cup {None} /\ q.new \in Tokens \cup {None}
         /\ q.pc \in {"idle", "read", "minted", "marked", "stale"}
BY DEF Rotation

LEMMA RevocationFields ==
  ASSUME NEW q \in Revocation
  PROVE  /\ q.scope \subseteq Devices /\ q.sessions \subseteq Tokens
         /\ q.todo \subseteq Tokens /\ q.found \subseteq Tokens
         /\ q.pc \in {"idle", "sessions", "refreshes", "done"}
BY DEF Revocation

LEMMA RotationUpdate ==
  ASSUME ProcTyped, NEW p \in Rotators, NEW q \in Rotation, RotationBecomes(p, q)
  PROVE  /\ rotation' \in [Rotators -> Rotation]
         /\ rotation'[p] = q
         /\ \A r \in Rotators \ {p} : rotation'[r] = rotation[r]
BY DEF RotationBecomes, ProcTyped

LEMMA RevocationUpdate ==
  ASSUME ProcTyped, NEW v \in Revokers, NEW q \in Revocation, RevocationBecomes(v, q)
  PROVE  /\ revocation' \in [Revokers -> Revocation]
         /\ revocation'[v] = q
         /\ \A w \in Revokers \ {v} : revocation'[w] = revocation[w]
BY DEF RevocationBecomes, ProcTyped

(* The rotation of p after a step of p, and the others as they were.       *)
RotationIs(p, pc, old, new, reply) ==
  /\ rotation' \in [Rotators -> Rotation]
  /\ rotation'[p].pc = pc /\ rotation'[p].old = old
  /\ rotation'[p].new = new /\ rotation'[p].reply = reply
  /\ \A r \in Rotators \ {p} : rotation'[r] = rotation[r]

LEMMA RotationKept ==
  ASSUME ProcTyped, NEW p \in Rotators
  PROVE  rotation[p] \in Rotation
BY DEF ProcTyped

LEMMA RevocationKept ==
  ASSUME ProcTyped, NEW v \in Revokers
  PROVE  revocation[v] \in Revocation
BY DEF ProcTyped

-----------------------------------------------------------------------------
(* What the steps of a rotation do                                         *)

LEMMA ReadRefreshDoes ==
  ASSUME TypeOK, NEW p \in Rotators, NEW t \in Tokens, ReadRefresh(p, t)
  PROVE  /\ RotationIs(p, "read", t, None, "none")
         /\ rotation[p].pc = "idle" /\ t \in rows
         /\ UNCHANGED <<rows, owner, next, dead, ended, expired, holder, revocation, line>>
<1> DEFINE q == [pc |-> "read", old |-> t, new |-> None, reply |-> "none"]
<1>1. q \in Rotation /\ q.pc = "read" /\ q.old = t /\ q.new = None /\ q.reply = "none"
  BY DEF Rotation
<1>2. RotationBecomes(p, q) /\ rotation[p].pc = "idle" /\ t \in rows
      /\ UNCHANGED <<rows, owner, next, dead, ended, expired, holder, revocation, line>>
  BY DEF ReadRefresh
<1> HIDE DEF q
<1> QED
  BY <1>1, <1>2, RotationUpdate, TypeParts DEF RotationIs

LEMMA RefuseUnknownDoes ==
  ASSUME TypeOK, NEW p \in Rotators, NEW t \in Tokens, RefuseUnknown(p, t)
  PROVE  /\ RotationIs(p, "idle", t, None, "invalid")
         /\ UNCHANGED <<rows, owner, next, dead, ended, expired, holder, revocation, line>>
<1> DEFINE q == [pc |-> "idle", old |-> t, new |-> None, reply |-> "invalid"]
<1>1. q \in Rotation /\ q.pc = "idle" /\ q.old = t /\ q.new = None /\ q.reply = "invalid"
  BY DEF Rotation
<1>2. RotationBecomes(p, q)
      /\ UNCHANGED <<rows, owner, next, dead, ended, expired, holder, revocation, line>>
  BY DEF RefuseUnknown
<1> HIDE DEF q
<1> QED
  BY <1>1, <1>2, RotationUpdate, TypeParts DEF RotationIs

LEMMA MintPairDoes ==
  ASSUME TypeOK, NEW p \in Rotators, NEW t \in Tokens, MintPair(p, t)
  PROVE  /\ RotationIs(p, "minted", rotation[p].old, t, rotation[p].reply)
         /\ rotation[p].pc = "read" /\ Unused(t)
         /\ UNCHANGED <<rows, owner, next, dead, ended, expired, holder, revocation, line>>
<1> DEFINE q == [rotation[p] EXCEPT !.pc = "minted", !.new = t]
<1>0. rotation[p] \in Rotation
  BY RotationKept, TypeParts
<1>1. q \in Rotation /\ q.pc = "minted" /\ q.new = t
      /\ q.old = rotation[p].old /\ q.reply = rotation[p].reply
  BY <1>0 DEF Rotation
<1>2. RotationBecomes(p, q) /\ rotation[p].pc = "read" /\ Unused(t)
      /\ UNCHANGED <<rows, owner, next, dead, ended, expired, holder, revocation, line>>
  BY DEF MintPair
<1> HIDE DEF q
<1> QED
  BY <1>1, <1>2, RotationUpdate, TypeParts DEF RotationIs

(* The remaining steps change pc, and reply at the end.                    *)
LEMMA RotationMoves ==
  ASSUME TypeOK, NEW p \in Rotators,
         NEW pc \in {"idle", "read", "minted", "marked", "stale"},
         RotationBecomes(p, [rotation[p] EXCEPT !.pc = pc])
  PROVE  RotationIs(p, pc, rotation[p].old, rotation[p].new, rotation[p].reply)
<1> DEFINE q == [rotation[p] EXCEPT !.pc = pc]
<1>0. rotation[p] \in Rotation
  BY RotationKept, TypeParts
<1>1. q \in Rotation /\ q.pc = pc /\ q.new = rotation[p].new
      /\ q.old = rotation[p].old /\ q.reply = rotation[p].reply
  BY <1>0 DEF Rotation
<1>2. RotationBecomes(p, q)
  OBVIOUS
<1> HIDE DEF q
<1> QED
  BY <1>1, <1>2, RotationUpdate, TypeParts DEF RotationIs

LEMMA RotationEnds ==
  ASSUME TypeOK, NEW p \in Rotators,
         NEW reply \in {"none", "ok", "rotated", "revoked", "expired", "invalid"},
         RotationBecomes(p, [rotation[p] EXCEPT !.pc = "idle", !.reply = reply])
  PROVE  RotationIs(p, "idle", rotation[p].old, rotation[p].new, reply)
<1> DEFINE q == [rotation[p] EXCEPT !.pc = "idle", !.reply = reply]
<1>0. rotation[p] \in Rotation
  BY RotationKept, TypeParts
<1>1. q \in Rotation /\ q.pc = "idle" /\ q.new = rotation[p].new
      /\ q.old = rotation[p].old /\ q.reply = reply
  BY <1>0 DEF Rotation
<1>2. RotationBecomes(p, q)
  OBVIOUS
<1> HIDE DEF q
<1> QED
  BY <1>1, <1>2, RotationUpdate, TypeParts DEF RotationIs

LEMMA MarkRotatedDoes ==
  ASSUME TypeOK, NEW p \in Rotators, MarkRotated(p)
  PROVE  /\ rotation[p].pc = "minted" /\ holder[rotation[p].old] = None
         /\ UNCHANGED <<rows, owner, next, dead, ended, expired, revocation, line>>
         /\ \/ /\ Active(rotation[p].old)
               /\ holder' = [holder EXCEPT ![rotation[p].old] = p]
               /\ RotationIs(p, "marked", rotation[p].old, rotation[p].new, rotation[p].reply)
            \/ /\ ~Active(rotation[p].old)
               /\ UNCHANGED holder
               /\ RotationIs(p, "stale", rotation[p].old, rotation[p].new, rotation[p].reply)
<1>1. rotation[p].pc = "minted" /\ holder[rotation[p].old] = None
      /\ UNCHANGED <<rows, owner, next, dead, ended, expired, revocation, line>>
  BY DEF MarkRotated
<1>2. CASE Active(rotation[p].old)
  <2>1. /\ holder' = [holder EXCEPT ![rotation[p].old] = p]
        /\ RotationBecomes(p, [rotation[p] EXCEPT !.pc = "marked"])
    BY <1>2 DEF MarkRotated
  <2> QED
    BY <1>1, <1>2, <2>1, RotationMoves
<1>3. CASE ~Active(rotation[p].old)
  <2>1. UNCHANGED holder /\ RotationBecomes(p, [rotation[p] EXCEPT !.pc = "stale"])
    BY <1>3 DEF MarkRotated
  <2> QED
    BY <1>1, <1>3, <2>1, RotationMoves
<1> QED
  BY <1>2, <1>3

LEMMA CommitRotationDoes ==
  ASSUME TypeOK, NEW p \in Rotators, CommitRotation(p)
  PROVE  /\ rotation[p].pc = "marked"
         /\ RotationIs(p, "idle", rotation[p].old, rotation[p].new, "ok")
         /\ rows' = rows \cup {rotation[p].new}
         /\ owner' = [owner EXCEPT ![rotation[p].new] = owner[rotation[p].old]]
         /\ next' = [next EXCEPT ![rotation[p].old] = rotation[p].new]
         /\ line' = [line EXCEPT ![rotation[p].new] = line[rotation[p].old]]
         /\ Release(p)
         /\ UNCHANGED <<dead, ended, expired, revocation>>
BY RotationEnds DEF CommitRotation

LEMMA ClassifyStaleDoes ==
  ASSUME TypeOK, NEW p \in Rotators, ClassifyStale(p)
  PROVE  /\ rotation[p].pc = "stale"
         /\ RotationIs(p, "idle", rotation[p].old, rotation[p].new, Reason(rotation[p].old))
         /\ UNCHANGED <<rows, owner, next, dead, ended, expired, holder, revocation, line>>
<1>1. Reason(rotation[p].old) \in {"none", "ok", "rotated", "revoked", "expired", "invalid"}
  BY DEF Reason
<1> QED
  BY <1>1, RotationEnds DEF ClassifyStale

LEMMA AbortRotationDoes ==
  ASSUME TypeOK, NEW p \in Rotators, AbortRotation(p)
  PROVE  /\ RotationIs(p, "idle", rotation[p].old, rotation[p].new, "none")
         /\ Release(p)
         /\ UNCHANGED <<rows, owner, next, dead, ended, expired, revocation, line>>
BY RotationEnds DEF AbortRotation

-----------------------------------------------------------------------------
(* What the steps of a revocation do                                       *)

(* The revocation of v after a step of v, and the others as they were.     *)
RevocationIs(v, pc, scope, sessions, todo, found) ==
  /\ revocation' \in [Revokers -> Revocation]
  /\ revocation'[v].pc = pc /\ revocation'[v].scope = scope
  /\ revocation'[v].sessions = sessions /\ revocation'[v].todo = todo
  /\ revocation'[v].found = found
  /\ \A w \in Revokers \ {v} : revocation'[w] = revocation[w]

LEMMA OwnedAreRows ==
  ASSUME NEW devices
  PROVE  Owned(devices) \subseteq rows
BY DEF Owned

LEMMA RevokeSessionsDoes ==
  ASSUME TypeOK, LinesAreRows, NEW v \in Revokers, NEW devices \in SUBSET Devices,
         RevokeSessions(v, devices)
  PROVE  /\ RevocationIs(v, "sessions", devices, Owned(devices) \ ended, {}, {})
         /\ revocation[v].pc \in {"idle", "done"}
         /\ UNCHANGED <<rows, owner, next, dead, ended, expired, holder, rotation, line>>
<1> DEFINE sessions == Owned(devices) \ ended
<1>0. sessions \subseteq Tokens
  <2>1. rows \subseteq Tokens
    BY DEF TypeOK
  <2> QED
    BY <2>1, OwnedAreRows DEF LinesAreRows
<1>1. /\ RevocationBecomes(v, [pc |-> "sessions", scope |-> devices,
           sessions |-> sessions, todo |-> {}, found |-> {}])
      /\ revocation[v].pc \in {"idle", "done"}
      /\ UNCHANGED <<rows, owner, next, dead, ended, expired, holder, rotation, line>>
  BY DEF RevokeSessions
<1> HIDE DEF sessions
<1> DEFINE q == [pc |-> "sessions", scope |-> devices,
                 sessions |-> sessions, todo |-> {}, found |-> {}]
<1>2. q \in Revocation /\ q.pc = "sessions" /\ q.scope = devices /\ q.sessions = sessions
      /\ q.todo = {} /\ q.found = {}
  BY <1>0 DEF Revocation
<1>3. RevocationBecomes(v, q)
  BY <1>1
<1> HIDE DEF q
<1>4. RevocationIs(v, "sessions", devices, sessions, {}, {})
  BY <1>2, <1>3, RevocationUpdate, TypeParts DEF RevocationIs
<1> QED
  BY <1>1, <1>4 DEF sessions

LEMMA RevokeRefreshesDoes ==
  ASSUME TypeOK, NEW v \in Revokers, RevokeRefreshes(v)
  PROVE  /\ \E found \in SUBSET rows :
              RevocationIs(v, "refreshes", revocation[v].scope, revocation[v].sessions,
                           found, found)
         /\ UNCHANGED <<rows, owner, next, dead, ended, expired, holder, rotation, line>>
<1> DEFINE found == Owned(revocation[v].scope) \ dead
<1>0. found \subseteq rows /\ found \subseteq Tokens
  <2>1. rows \subseteq Tokens
    BY DEF TypeOK
  <2> QED
    BY <2>1, OwnedAreRows
<1>1. /\ RevocationBecomes(v, [revocation[v] EXCEPT !.pc = "refreshes", !.todo = found,
                                                    !.found = found])
      /\ UNCHANGED <<rows, owner, next, dead, ended, expired, holder, rotation, line>>
  BY DEF RevokeRefreshes
<1> HIDE DEF found
<1> DEFINE q == [revocation[v] EXCEPT !.pc = "refreshes", !.todo = found, !.found = found]
<1>2. revocation[v] \in Revocation
  BY RevocationKept, TypeParts
<1>3. q \in Revocation /\ q.pc = "refreshes" /\ q.scope = revocation[v].scope
      /\ q.sessions = revocation[v].sessions /\ q.todo = found /\ q.found = found
  BY <1>0, <1>2 DEF Revocation
<1>4. RevocationBecomes(v, q)
  BY <1>1
<1> HIDE DEF q
<1>5. RevocationIs(v, "refreshes", revocation[v].scope, revocation[v].sessions, found, found)
  BY <1>3, <1>4, RevocationUpdate, TypeParts DEF RevocationIs
<1> QED
  BY <1>0, <1>1, <1>5

LEMMA LockRefreshDoes ==
  ASSUME TypeOK, NEW v \in Revokers, NEW t \in Tokens, LockRefresh(v, t)
  PROVE  /\ revocation[v].pc = "refreshes" /\ t \in revocation[v].todo /\ holder[t] = None
         /\ RevocationIs(v, "refreshes", revocation[v].scope, revocation[v].sessions,
                         revocation[v].todo \ {t}, revocation[v].found)
         /\ holder' = IF t \in dead THEN holder ELSE [holder EXCEPT ![t] = v]
         /\ UNCHANGED <<rows, owner, next, dead, ended, expired, rotation, line>>
<1> DEFINE q == [revocation[v] EXCEPT !.todo = @ \ {t}]
<1>1. revocation[v] \in Revocation
  BY RevocationKept, TypeParts
<1>2. /\ RevocationBecomes(v, q)
      /\ revocation[v].pc = "refreshes" /\ t \in revocation[v].todo /\ holder[t] = None
      /\ holder' = IF t \in dead THEN holder ELSE [holder EXCEPT ![t] = v]
      /\ UNCHANGED <<rows, owner, next, dead, ended, expired, rotation, line>>
  BY DEF LockRefresh
<1>3. q \in Revocation /\ q.pc = revocation[v].pc /\ q.scope = revocation[v].scope
      /\ q.sessions = revocation[v].sessions /\ q.todo = revocation[v].todo \ {t}
      /\ q.found = revocation[v].found
  BY <1>1 DEF Revocation
<1> HIDE DEF q
<1> QED
  BY <1>2, <1>3, RevocationUpdate, TypeParts DEF RevocationIs

LEMMA CommitRevocationDoes ==
  ASSUME TypeOK, NEW v \in Revokers, CommitRevocation(v)
  PROVE  /\ revocation[v].pc = "refreshes" /\ revocation[v].todo = {}
         /\ RevocationIs(v, "done", revocation[v].scope, revocation[v].sessions,
                         revocation[v].todo, revocation[v].found)
         /\ ended' = ended \cup revocation[v].sessions
         /\ dead' = dead \cup {t \in Tokens : holder[t] = v}
         /\ Release(v)
         /\ UNCHANGED <<rows, owner, next, expired, rotation, line>>
<1> DEFINE q == [revocation[v] EXCEPT !.pc = "done"]
<1>1. revocation[v] \in Revocation
  BY RevocationKept, TypeParts
<1>2. /\ RevocationBecomes(v, q)
      /\ revocation[v].pc = "refreshes" /\ revocation[v].todo = {}
      /\ ended' = ended \cup revocation[v].sessions
      /\ dead' = dead \cup {t \in Tokens : holder[t] = v}
      /\ Release(v)
      /\ UNCHANGED <<rows, owner, next, expired, rotation, line>>
  BY DEF CommitRevocation
<1>3. q \in Revocation /\ q.pc = "done" /\ q.scope = revocation[v].scope
      /\ q.sessions = revocation[v].sessions /\ q.todo = revocation[v].todo
      /\ q.found = revocation[v].found
  BY <1>1 DEF Revocation
<1> HIDE DEF q
<1> QED
  BY <1>2, <1>3, RevocationUpdate, TypeParts DEF RevocationIs

LEMMA AbortRevocationDoes ==
  ASSUME TypeOK, NEW v \in Revokers, AbortRevocation(v)
  PROVE  /\ RevocationIs(v, "idle", {}, {}, {}, {})
         /\ Release(v)
         /\ UNCHANGED <<rows, owner, next, dead, ended, expired, rotation, line>>
<1> DEFINE q == NoRevocation
<1>1. q \in Revocation /\ q.pc = "idle" /\ q.scope = {} /\ q.sessions = {}
      /\ q.todo = {} /\ q.found = {}
  BY DEF NoRevocation, Revocation
<1>2. /\ RevocationBecomes(v, q) /\ Release(v)
      /\ UNCHANGED <<rows, owner, next, dead, ended, expired, rotation, line>>
  BY DEF AbortRevocation
<1> HIDE DEF q
<1> QED
  BY <1>1, <1>2, RevocationUpdate, TypeParts DEF RevocationIs

LEMMA ReleaseDoes ==
  ASSUME TypeOK, NEW p, Release(p)
  PROVE  /\ holder' \in [Tokens -> Rotators \cup Revokers \cup {None}]
         /\ \A t \in Tokens : holder'[t] = IF holder[t] = p THEN None ELSE holder[t]
<1>1. holder \in [Tokens -> Rotators \cup Revokers \cup {None}]
  BY DEF TypeOK
<1> QED
  BY <1>1 DEF Release


-----------------------------------------------------------------------------
(* The invariant, and that every step preserves it                         *)

SessionInv ==
  /\ TypeOK /\ OnlyRows /\ LinesAreRows
  /\ MintedAlone /\ MarkedHolds /\ StaleIsInactive
  /\ FoundIsCovered /\ LineNeverForks /\ RepliesAreTrue

LEMMA InitOK == Init => SessionInv
<1> SUFFICES ASSUME Init PROVE SessionInv
  OBVIOUS
<1>1. /\ \A p \in Rotators : rotation[p] = NoRotation
      /\ \A v \in Revokers : revocation[v] = NoRevocation
      /\ rows = {} /\ dead = {} /\ ended = {} /\ expired = {}
      /\ \A t \in Tokens : next[t] = None /\ holder[t] = None
  BY DEF Init
<1>2. NoRotation \in Rotation /\ NoRotation.pc = "idle" /\ NoRotation.reply = "none"
  BY DEF NoRotation, Rotation
<1>3. NoRevocation \in Revocation /\ NoRevocation.pc = "idle"
  BY DEF NoRevocation, Revocation
<1>4. TypeOK
  <2>1. ProcTyped
    BY <1>2, <1>3 DEF Init, ProcTyped
  <2>2. DbTyped
    BY DEF Init, DbTyped
  <2> QED
    BY <2>1, <2>2, TypeParts
<1>5. OnlyRows /\ LinesAreRows /\ LineNeverForks
  BY <1>1 DEF OnlyRows, LinesAreRows, LineNeverForks
<1>6. MintedAlone /\ MarkedHolds /\ StaleIsInactive /\ RepliesAreTrue
  BY <1>1, <1>2 DEF MintedAlone, MarkedHolds, StaleIsInactive, RepliesAreTrue
<1>7. FoundIsCovered
  BY <1>1, <1>3 DEF FoundIsCovered
<1> QED
  BY <1>4, <1>5, <1>6, <1>7 DEF SessionInv

LEMMA ReadRefreshKeeps ==
  ASSUME SessionInv, NEW p \in Rotators, NEW t \in Tokens, ReadRefresh(p, t)
  PROVE  SessionInv'
<1> USE DEF SessionInv
<1>1. /\ rows \subseteq Tokens /\ dead \subseteq Tokens /\ ended \subseteq Tokens
      /\ expired \subseteq Tokens /\ owner \in [Tokens -> Devices \cup {None}]
      /\ next \in [Tokens -> Tokens \cup {None}] /\ line \in [Tokens -> Tokens \cup {None}]
      /\ holder \in [Tokens -> Rotators \cup Revokers \cup {None}]
      /\ rotation \in [Rotators -> Rotation] /\ revocation \in [Revokers -> Revocation]
  BY DEF TypeOK
<1>2. /\ RotationIs(p, "read", t, None, "none") /\ rotation[p].pc = "idle" /\ t \in rows
      /\ UNCHANGED <<rows, owner, next, dead, ended, expired, holder, revocation, line>>
  BY ReadRefreshDoes
<1>3. TypeOK'
  BY <1>1, <1>2 DEF TypeOK, RotationIs, RevocationIs
<1>4. OnlyRows'
  BY <1>1, <1>2 DEF OnlyRows, RotationIs, RevocationIs
<1>5. LinesAreRows'
  BY <1>1, <1>2 DEF LinesAreRows, RotationIs, RevocationIs
<1>6. MintedAlone'
  BY <1>1, <1>2 DEF MintedAlone, Minting, RotationIs, RevocationIs
<1>7. MarkedHolds'
  BY <1>1, <1>2 DEF MarkedHolds, RotationIs, RevocationIs
<1>8. StaleIsInactive'
  BY <1>1, <1>2 DEF StaleIsInactive, Active, RotationIs, RevocationIs
<1>9. FoundIsCovered'
  BY <1>1, <1>2 DEF FoundIsCovered, RotationIs, RevocationIs
<1>10. LineNeverForks'
  BY <1>1, <1>2 DEF LineNeverForks, RotationIs, RevocationIs
<1>11. RepliesAreTrue'
  BY <1>1, <1>2 DEF RepliesAreTrue, RotationIs, RevocationIs
<1> QED
  BY <1>3, <1>4, <1>5, <1>6, <1>7, <1>8, <1>9, <1>10, <1>11

LEMMA RefuseUnknownKeeps ==
  ASSUME SessionInv, NEW p \in Rotators, NEW t \in Tokens, RefuseUnknown(p, t)
  PROVE  SessionInv'
<1> USE DEF SessionInv
<1>1. /\ rows \subseteq Tokens /\ dead \subseteq Tokens /\ ended \subseteq Tokens
      /\ expired \subseteq Tokens /\ owner \in [Tokens -> Devices \cup {None}]
      /\ next \in [Tokens -> Tokens \cup {None}] /\ line \in [Tokens -> Tokens \cup {None}]
      /\ holder \in [Tokens -> Rotators \cup Revokers \cup {None}]
      /\ rotation \in [Rotators -> Rotation] /\ revocation \in [Revokers -> Revocation]
  BY DEF TypeOK
<1>2. /\ RotationIs(p, "idle", t, None, "invalid")
      /\ UNCHANGED <<rows, owner, next, dead, ended, expired, holder, revocation, line>>
  BY RefuseUnknownDoes
<1>3. TypeOK'
  BY <1>1, <1>2 DEF TypeOK, RotationIs, RevocationIs
<1>4. OnlyRows'
  BY <1>1, <1>2 DEF OnlyRows, RotationIs, RevocationIs
<1>5. LinesAreRows'
  BY <1>1, <1>2 DEF LinesAreRows, RotationIs, RevocationIs
<1>6. MintedAlone'
  BY <1>1, <1>2 DEF MintedAlone, Minting, RotationIs, RevocationIs
<1>7. MarkedHolds'
  BY <1>1, <1>2 DEF MarkedHolds, RotationIs, RevocationIs
<1>8. StaleIsInactive'
  BY <1>1, <1>2 DEF StaleIsInactive, Active, RotationIs, RevocationIs
<1>9. FoundIsCovered'
  BY <1>1, <1>2 DEF FoundIsCovered, RotationIs, RevocationIs
<1>10. LineNeverForks'
  BY <1>1, <1>2 DEF LineNeverForks, RotationIs, RevocationIs
<1>11. RepliesAreTrue'
  BY <1>1, <1>2 DEF RepliesAreTrue, RotationIs, RevocationIs
<1> QED
  BY <1>3, <1>4, <1>5, <1>6, <1>7, <1>8, <1>9, <1>10, <1>11

LEMMA MintPairKeeps ==
  ASSUME SessionInv, NEW p \in Rotators, NEW t \in Tokens, MintPair(p, t)
  PROVE  SessionInv'
<1> USE DEF SessionInv
<1>1. /\ rows \subseteq Tokens /\ dead \subseteq Tokens /\ ended \subseteq Tokens
      /\ expired \subseteq Tokens /\ owner \in [Tokens -> Devices \cup {None}]
      /\ next \in [Tokens -> Tokens \cup {None}] /\ line \in [Tokens -> Tokens \cup {None}]
      /\ holder \in [Tokens -> Rotators \cup Revokers \cup {None}]
      /\ rotation \in [Rotators -> Rotation] /\ revocation \in [Revokers -> Revocation]
  BY DEF TypeOK
<1>2. /\ RotationIs(p, "minted", rotation[p].old, t, rotation[p].reply)
      /\ rotation[p].pc = "read" /\ Unused(t)
      /\ UNCHANGED <<rows, owner, next, dead, ended, expired, holder, revocation, line>>
  BY MintPairDoes
<1>3. TypeOK'
  BY <1>1, <1>2 DEF TypeOK, RotationIs, RevocationIs
<1>4. OnlyRows'
  BY <1>1, <1>2 DEF OnlyRows, RotationIs, RevocationIs
<1>5. LinesAreRows'
  BY <1>1, <1>2 DEF LinesAreRows, RotationIs, RevocationIs
<1>6. MintedAlone'
  BY <1>1, <1>2 DEF MintedAlone, Minting, Unused, RotationIs
<1>7. MarkedHolds'
  BY <1>1, <1>2 DEF MarkedHolds, RotationIs, RevocationIs
<1>8. StaleIsInactive'
  BY <1>1, <1>2 DEF StaleIsInactive, Active, RotationIs, RevocationIs
<1>9. FoundIsCovered'
  BY <1>1, <1>2 DEF FoundIsCovered, RotationIs, RevocationIs
<1>10. LineNeverForks'
  BY <1>1, <1>2 DEF LineNeverForks, RotationIs, RevocationIs
<1>11. RepliesAreTrue'
  BY <1>1, <1>2 DEF RepliesAreTrue, RotationIs, RevocationIs
<1> QED
  BY <1>3, <1>4, <1>5, <1>6, <1>7, <1>8, <1>9, <1>10, <1>11

LEMMA ClassifyStaleKeeps ==
  ASSUME SessionInv, NEW p \in Rotators, ClassifyStale(p)
  PROVE  SessionInv'
<1> USE DEF SessionInv
<1>1. /\ rows \subseteq Tokens /\ dead \subseteq Tokens /\ ended \subseteq Tokens
      /\ expired \subseteq Tokens /\ owner \in [Tokens -> Devices \cup {None}]
      /\ next \in [Tokens -> Tokens \cup {None}] /\ line \in [Tokens -> Tokens \cup {None}]
      /\ holder \in [Tokens -> Rotators \cup Revokers \cup {None}]
      /\ rotation \in [Rotators -> Rotation] /\ revocation \in [Revokers -> Revocation]
  BY DEF TypeOK
<1>2. /\ RotationIs(p, "idle", rotation[p].old, rotation[p].new, Reason(rotation[p].old))
      /\ rotation[p].pc = "stale"
      /\ UNCHANGED <<rows, owner, next, dead, ended, expired, holder, revocation, line>>
  BY ClassifyStaleDoes
<1>3. TypeOK'
  BY <1>1, <1>2 DEF TypeOK, RotationIs, RevocationIs
<1>4. OnlyRows'
  BY <1>1, <1>2 DEF OnlyRows, RotationIs, RevocationIs
<1>5. LinesAreRows'
  BY <1>1, <1>2 DEF LinesAreRows, RotationIs, RevocationIs
<1>6. MintedAlone'
  BY <1>1, <1>2 DEF MintedAlone, Minting, RotationIs, RevocationIs
<1>7. MarkedHolds'
  BY <1>1, <1>2 DEF MarkedHolds, RotationIs, RevocationIs
<1>8. StaleIsInactive'
  BY <1>1, <1>2 DEF StaleIsInactive, Active, RotationIs, RevocationIs
<1>9. FoundIsCovered'
  BY <1>1, <1>2 DEF FoundIsCovered, RotationIs, RevocationIs
<1>10. LineNeverForks'
  BY <1>1, <1>2 DEF LineNeverForks, RotationIs, RevocationIs
<1>11. RepliesAreTrue'
  BY <1>1, <1>2 DEF RepliesAreTrue, RotationIs, Reason
<1> QED
  BY <1>3, <1>4, <1>5, <1>6, <1>7, <1>8, <1>9, <1>10, <1>11

LEMMA AbortRotationKeeps ==
  ASSUME SessionInv, NEW p \in Rotators, AbortRotation(p)
  PROVE  SessionInv'
<1> USE DEF SessionInv
<1>1. /\ rows \subseteq Tokens /\ dead \subseteq Tokens /\ ended \subseteq Tokens
      /\ expired \subseteq Tokens /\ owner \in [Tokens -> Devices \cup {None}]
      /\ next \in [Tokens -> Tokens \cup {None}] /\ line \in [Tokens -> Tokens \cup {None}]
      /\ holder \in [Tokens -> Rotators \cup Revokers \cup {None}]
      /\ rotation \in [Rotators -> Rotation] /\ revocation \in [Revokers -> Revocation]
  BY DEF TypeOK
<1>2. /\ RotationIs(p, "idle", rotation[p].old, rotation[p].new, "none") /\ Release(p)
      /\ UNCHANGED <<rows, owner, next, dead, ended, expired, revocation, line>>
  BY AbortRotationDoes
<1>3. /\ holder' \in [Tokens -> Rotators \cup Revokers \cup {None}]
      /\ \A t \in Tokens : holder'[t] = IF holder[t] = p THEN None ELSE holder[t]
  BY <1>2, ReleaseDoes
<1>4. \A v \in Revokers : v # p
  BY ProcessAssumption
<1>5. TypeOK'
  BY <1>1, <1>2, <1>3, <1>4 DEF TypeOK, RotationIs, RevocationIs
<1>6. OnlyRows'
  BY <1>1, <1>2, <1>3, <1>4 DEF OnlyRows, RotationIs, RevocationIs
<1>7. LinesAreRows'
  BY <1>1, <1>2, <1>3, <1>4 DEF LinesAreRows, RotationIs, RevocationIs
<1>8. MintedAlone'
  BY <1>1, <1>2, <1>3, <1>4 DEF MintedAlone, Minting, RotationIs, RevocationIs
<1>9. MarkedHolds'
  <2>1. \A r \in Rotators : rotation[r].pc = "marked" => rotation[r].old \in Tokens
    BY <1>1, <1>2, <1>3, <1>4 DEF MintedAlone
  <2> QED
    BY <1>1, <1>2, <1>3, <1>4, <2>1 DEF MarkedHolds, RotationIs, RevocationIs
<1>10. StaleIsInactive'
  BY <1>1, <1>2, <1>3, <1>4 DEF StaleIsInactive, Active, RotationIs, RevocationIs
<1>11. FoundIsCovered'
  BY <1>1, <1>2, <1>3, <1>4 DEF FoundIsCovered, RotationIs, RevocationIs
<1>12. LineNeverForks'
  BY <1>1, <1>2, <1>3, <1>4 DEF LineNeverForks, RotationIs, RevocationIs
<1>13. RepliesAreTrue'
  BY <1>1, <1>2, <1>3, <1>4 DEF RepliesAreTrue, RotationIs, RevocationIs
<1> QED
  BY <1>5, <1>6, <1>7, <1>8, <1>9, <1>10, <1>11, <1>12, <1>13

LEMMA MarkRotatedKeeps ==
  ASSUME SessionInv, NEW p \in Rotators, MarkRotated(p)
  PROVE  SessionInv'
<1> USE DEF SessionInv
<1>1. /\ rows \subseteq Tokens /\ dead \subseteq Tokens /\ ended \subseteq Tokens
      /\ expired \subseteq Tokens /\ owner \in [Tokens -> Devices \cup {None}]
      /\ next \in [Tokens -> Tokens \cup {None}] /\ line \in [Tokens -> Tokens \cup {None}]
      /\ holder \in [Tokens -> Rotators \cup Revokers \cup {None}]
      /\ rotation \in [Rotators -> Rotation] /\ revocation \in [Revokers -> Revocation]
  BY DEF TypeOK
<1>2. /\ rotation[p].pc = "minted" /\ holder[rotation[p].old] = None
      /\ UNCHANGED <<rows, owner, next, dead, ended, expired, revocation, line>>
      /\ \/ /\ Active(rotation[p].old)
            /\ holder' = [holder EXCEPT ![rotation[p].old] = p]
            /\ RotationIs(p, "marked", rotation[p].old, rotation[p].new, rotation[p].reply)
         \/ /\ ~Active(rotation[p].old)
            /\ UNCHANGED holder
            /\ RotationIs(p, "stale", rotation[p].old, rotation[p].new, rotation[p].reply)
  BY MarkRotatedDoes
<1>3. rotation[p].old \in rows /\ rotation[p].old \in Tokens
  BY <1>1, <1>2 DEF MintedAlone
<1>4. /\ holder' \in [Tokens -> Rotators \cup Revokers \cup {None}]
      /\ \A t \in Tokens \ {rotation[p].old} : holder'[t] = holder[t]
  BY <1>1, <1>2, <1>3
<1>5. None \notin Rotators \cup Revokers
  BY TokenAssumption
<1>6. TypeOK'
  BY <1>1, <1>2, <1>3, <1>4, <1>5 DEF TypeOK, RotationIs, RevocationIs
<1>7. OnlyRows'
  BY <1>1, <1>2, <1>3, <1>4, <1>5 DEF OnlyRows, RotationIs, RevocationIs
<1>8. LinesAreRows'
  BY <1>1, <1>2, <1>3, <1>4, <1>5 DEF LinesAreRows, RotationIs, RevocationIs
<1>9. MintedAlone'
  BY <1>1, <1>2, <1>3, <1>4, <1>5 DEF MintedAlone, Minting, RotationIs, RevocationIs
<1>10. MarkedHolds'
  <2>1. \A r \in Rotators : rotation[r].pc = "marked" => rotation[r].old \in Tokens
    BY <1>1, <1>2, <1>3, <1>4, <1>5 DEF MintedAlone
  <2> QED
    BY <1>1, <1>2, <1>3, <1>4, <1>5, <2>1 DEF MarkedHolds, RotationIs, RevocationIs, Active
<1>11. StaleIsInactive'
  BY <1>1, <1>2, <1>3, <1>4, <1>5 DEF StaleIsInactive, Active, RotationIs, RevocationIs
<1>12. FoundIsCovered'
  BY <1>1, <1>2, <1>3, <1>4, <1>5 DEF FoundIsCovered, RotationIs, RevocationIs
<1>13. LineNeverForks'
  BY <1>1, <1>2, <1>3, <1>4, <1>5 DEF LineNeverForks, RotationIs, RevocationIs
<1>14. RepliesAreTrue'
  BY <1>1, <1>2, <1>3, <1>4, <1>5 DEF RepliesAreTrue, RotationIs, RevocationIs
<1> QED
  BY <1>6, <1>7, <1>8, <1>9, <1>10, <1>11, <1>12, <1>13, <1>14

LEMMA CommitRotationKeeps ==
  ASSUME SessionInv, NEW p \in Rotators, CommitRotation(p)
  PROVE  SessionInv'
<1> USE DEF SessionInv
<1>1. /\ rows \subseteq Tokens /\ dead \subseteq Tokens /\ ended \subseteq Tokens
      /\ expired \subseteq Tokens /\ owner \in [Tokens -> Devices \cup {None}]
      /\ next \in [Tokens -> Tokens \cup {None}] /\ line \in [Tokens -> Tokens \cup {None}]
      /\ holder \in [Tokens -> Rotators \cup Revokers \cup {None}]
      /\ rotation \in [Rotators -> Rotation] /\ revocation \in [Revokers -> Revocation]
  BY DEF TypeOK
<1>2. /\ rotation[p].pc = "marked"
      /\ RotationIs(p, "idle", rotation[p].old, rotation[p].new, "ok")
      /\ rows' = rows \cup {rotation[p].new}
      /\ owner' = [owner EXCEPT ![rotation[p].new] = owner[rotation[p].old]]
      /\ next' = [next EXCEPT ![rotation[p].old] = rotation[p].new]
      /\ line' = [line EXCEPT ![rotation[p].new] = line[rotation[p].old]]
      /\ Release(p)
      /\ UNCHANGED <<dead, ended, expired, revocation>>
  BY CommitRotationDoes
<1>3. /\ holder' \in [Tokens -> Rotators \cup Revokers \cup {None}]
      /\ \A t \in Tokens : holder'[t] = IF holder[t] = p THEN None ELSE holder[t]
  BY <1>2, ReleaseDoes
<1>4. /\ rotation[p].old \in rows /\ rotation[p].old \in Tokens
      /\ rotation[p].new \in Tokens \ rows /\ rotation[p].old # rotation[p].new
      /\ \A r \in Rotators \ {p} : ~Minting(r, rotation[p].new)
  BY <1>1, <1>2 DEF MintedAlone
<1>5. /\ holder[rotation[p].old] = p /\ next[rotation[p].old] = None
      /\ rotation[p].old \notin dead
  BY <1>2 DEF MarkedHolds
<1>6. \A v \in Revokers : v # p
  BY ProcessAssumption
<1>7. None \notin Tokens /\ None \notin Rotators \cup Revokers
  BY TokenAssumption
<1>8. /\ \A t \in Tokens \ {rotation[p].new} : owner'[t] = owner[t] /\ line'[t] = line[t]
      /\ owner'[rotation[p].new] = owner[rotation[p].old]
      /\ line'[rotation[p].new] = line[rotation[p].old]
      /\ \A t \in Tokens \ {rotation[p].old} : next'[t] = next[t]
      /\ next'[rotation[p].old] = rotation[p].new
      /\ next' \in [Tokens -> Tokens \cup {None}] /\ line' \in [Tokens -> Tokens \cup {None}]
      /\ owner' \in [Tokens -> Devices \cup {None}]
  BY <1>1, <1>2, <1>4
<1>9. TypeOK'
  BY <1>1, <1>2, <1>3, <1>4, <1>5, <1>6, <1>7, <1>8 DEF TypeOK, RotationIs, RevocationIs
<1>10. OnlyRows'
  BY <1>1, <1>2, <1>3, <1>4, <1>5, <1>6, <1>7, <1>8 DEF OnlyRows, RotationIs, RevocationIs
<1>11. LinesAreRows'
  BY <1>1, <1>2, <1>3, <1>4, <1>5, <1>6, <1>7, <1>8 DEF LinesAreRows, RotationIs, RevocationIs
<1>12. MintedAlone'
  BY <1>1, <1>2, <1>3, <1>4, <1>5, <1>6, <1>7, <1>8 DEF MintedAlone, Minting, RotationIs, RevocationIs
<1>13. MarkedHolds'
  <2>1. \A r \in Rotators : rotation[r].pc = "marked" => rotation[r].old \in Tokens
    BY <1>1, <1>2, <1>3, <1>4, <1>5, <1>6, <1>7, <1>8 DEF MintedAlone
  <2> QED
    BY <1>1, <1>2, <1>3, <1>4, <1>5, <1>6, <1>7, <1>8, <2>1 DEF MarkedHolds, RotationIs, RevocationIs
<1>14. StaleIsInactive'
  BY <1>1, <1>2, <1>3, <1>4, <1>5, <1>6, <1>7, <1>8 DEF StaleIsInactive, Active, RotationIs, RevocationIs
<1>15. FoundIsCovered'
  BY <1>1, <1>2, <1>3, <1>4, <1>5, <1>6, <1>7, <1>8 DEF FoundIsCovered, RotationIs, RevocationIs
<1>16. LineNeverForks'
  <2> DEFINE old == rotation[p].old
             new == rotation[p].new
  <2>0. next[new] = None
    BY <1>4 DEF OnlyRows
  <2>1. ASSUME NEW t \in rows', next'[t] # None
        PROVE  next'[t] \in rows' /\ line'[next'[t]] = line'[t] /\ owner'[next'[t]] = owner'[t]
    <3>1. CASE t = old
      BY <1>1, <1>2, <1>4, <1>8, <3>1
    <3>2. CASE t # old
      <4>1. t \in rows /\ next'[t] = next[t]
        BY <1>1, <1>2, <1>4, <1>8, <2>0, <2>1, <3>2
      <4>2. next[t] \in rows /\ line[next[t]] = line[t] /\ owner[next[t]] = owner[t]
        BY <2>1, <4>1 DEF LineNeverForks
      <4> QED
        BY <1>1, <1>2, <1>4, <1>8, <4>1, <4>2
    <3> QED
      BY <3>1, <3>2
  <2>2. ASSUME NEW t \in rows', NEW u \in rows', line'[t] = line'[u], next'[t] = None, next'[u] = None
        PROVE  t = u
    <3>1. t # old /\ u # old
      BY <1>4, <1>7, <1>8, <2>2
    <3>2. CASE t = new /\ u # new
      BY <1>1, <1>2, <1>4, <1>5, <1>8, <2>2, <3>1, <3>2 DEF LineNeverForks
    <3>3. CASE t # new /\ u = new
      BY <1>1, <1>2, <1>4, <1>5, <1>8, <2>2, <3>1, <3>3 DEF LineNeverForks
    <3>4. CASE t # new /\ u # new
      BY <1>1, <1>2, <1>4, <1>8, <2>2, <3>1, <3>4 DEF LineNeverForks
    <3> QED
      BY <3>2, <3>3, <3>4
  <2> QED
    BY <2>1, <2>2 DEF LineNeverForks
<1>17. RepliesAreTrue'
  BY <1>1, <1>2, <1>3, <1>4, <1>5, <1>6, <1>7, <1>8 DEF RepliesAreTrue, RotationIs, RevocationIs
<1> QED
  BY <1>9, <1>10, <1>11, <1>12, <1>13, <1>14, <1>15, <1>16, <1>17

LEMMA IssuePairKeeps ==
  ASSUME SessionInv, NEW t \in Tokens, NEW d \in Devices, IssuePair(t, d)
  PROVE  SessionInv'
<1> USE DEF SessionInv
<1>1. /\ rows \subseteq Tokens /\ dead \subseteq Tokens /\ ended \subseteq Tokens
      /\ expired \subseteq Tokens /\ owner \in [Tokens -> Devices \cup {None}]
      /\ next \in [Tokens -> Tokens \cup {None}] /\ line \in [Tokens -> Tokens \cup {None}]
      /\ holder \in [Tokens -> Rotators \cup Revokers \cup {None}]
      /\ rotation \in [Rotators -> Rotation] /\ revocation \in [Revokers -> Revocation]
  BY DEF TypeOK
<1>2. /\ Unused(t) /\ rows' = rows \cup {t}
      /\ owner' = [owner EXCEPT ![t] = d] /\ line' = [line EXCEPT ![t] = t]
      /\ UNCHANGED <<next, dead, ended, expired, holder, rotation, revocation>>
  BY DEF IssuePair
<1>3. t \notin rows /\ \A p \in Rotators : ~Minting(p, t)
  BY <1>2 DEF Unused
<1>4. /\ \A u \in Tokens \ {t} : owner'[u] = owner[u] /\ line'[u] = line[u]
      /\ owner'[t] = d /\ line'[t] = t
      /\ owner' \in [Tokens -> Devices \cup {None}] /\ line' \in [Tokens -> Tokens \cup {None}]
  BY <1>1, <1>2
<1>5. next[t] = None
  BY <1>3 DEF OnlyRows
<1>6. TypeOK'
  BY <1>1, <1>2, <1>3, <1>4, <1>5 DEF TypeOK, RotationIs, RevocationIs
<1>7. OnlyRows'
  BY <1>1, <1>2, <1>3, <1>4, <1>5 DEF OnlyRows, RotationIs, RevocationIs
<1>8. LinesAreRows'
  BY <1>1, <1>2, <1>3, <1>4, <1>5 DEF LinesAreRows, RotationIs, RevocationIs
<1>9. MintedAlone'
  BY <1>1, <1>2, <1>3, <1>4, <1>5 DEF MintedAlone, Minting, RotationIs, RevocationIs
<1>10. MarkedHolds'
  BY <1>1, <1>2, <1>3, <1>4, <1>5 DEF MarkedHolds, RotationIs, RevocationIs
<1>11. StaleIsInactive'
  BY <1>1, <1>2, <1>3, <1>4, <1>5 DEF StaleIsInactive, Active, RotationIs, RevocationIs
<1>12. FoundIsCovered'
  BY <1>1, <1>2, <1>3, <1>4, <1>5 DEF FoundIsCovered, RotationIs, RevocationIs
<1>13. LineNeverForks'
  BY <1>1, <1>2, <1>3, <1>4, <1>5 DEF LineNeverForks, LinesAreRows
<1>14. RepliesAreTrue'
  BY <1>1, <1>2, <1>3, <1>4, <1>5 DEF RepliesAreTrue, RotationIs, RevocationIs
<1> QED
  BY <1>6, <1>7, <1>8, <1>9, <1>10, <1>11, <1>12, <1>13, <1>14

LEMMA ExpireKeeps ==
  ASSUME SessionInv, NEW t \in Tokens, Expire(t)
  PROVE  SessionInv'
<1> USE DEF SessionInv
<1>1. /\ rows \subseteq Tokens /\ dead \subseteq Tokens /\ ended \subseteq Tokens
      /\ expired \subseteq Tokens /\ owner \in [Tokens -> Devices \cup {None}]
      /\ next \in [Tokens -> Tokens \cup {None}] /\ line \in [Tokens -> Tokens \cup {None}]
      /\ holder \in [Tokens -> Rotators \cup Revokers \cup {None}]
      /\ rotation \in [Rotators -> Rotation] /\ revocation \in [Revokers -> Revocation]
  BY DEF TypeOK
<1>2. /\ expired' = expired \cup {t}
      /\ UNCHANGED <<rows, owner, next, dead, ended, holder, rotation, revocation, line>>
  BY DEF Expire
<1>3. TypeOK'
  BY <1>1, <1>2 DEF TypeOK, RotationIs, RevocationIs
<1>4. OnlyRows'
  BY <1>1, <1>2 DEF OnlyRows, RotationIs, RevocationIs
<1>5. LinesAreRows'
  BY <1>1, <1>2 DEF LinesAreRows, RotationIs, RevocationIs
<1>6. MintedAlone'
  BY <1>1, <1>2 DEF MintedAlone, Minting, RotationIs, RevocationIs
<1>7. MarkedHolds'
  BY <1>1, <1>2 DEF MarkedHolds, RotationIs, RevocationIs
<1>8. StaleIsInactive'
  BY <1>1, <1>2 DEF StaleIsInactive, Active, RotationIs, RevocationIs
<1>9. FoundIsCovered'
  BY <1>1, <1>2 DEF FoundIsCovered, RotationIs, RevocationIs
<1>10. LineNeverForks'
  BY <1>1, <1>2 DEF LineNeverForks, RotationIs, RevocationIs
<1>11. RepliesAreTrue'
  BY <1>1, <1>2 DEF RepliesAreTrue, RotationIs, RevocationIs
<1> QED
  BY <1>3, <1>4, <1>5, <1>6, <1>7, <1>8, <1>9, <1>10, <1>11

LEMMA RevokeSessionsKeeps ==
  ASSUME SessionInv, NEW v \in Revokers, NEW devices \in SUBSET Devices, RevokeSessions(v, devices)
  PROVE  SessionInv'
<1> USE DEF SessionInv
<1>1. /\ rows \subseteq Tokens /\ dead \subseteq Tokens /\ ended \subseteq Tokens
      /\ expired \subseteq Tokens /\ owner \in [Tokens -> Devices \cup {None}]
      /\ next \in [Tokens -> Tokens \cup {None}] /\ line \in [Tokens -> Tokens \cup {None}]
      /\ holder \in [Tokens -> Rotators \cup Revokers \cup {None}]
      /\ rotation \in [Rotators -> Rotation] /\ revocation \in [Revokers -> Revocation]
  BY DEF TypeOK
<1>2. /\ RevocationIs(v, "sessions", devices, Owned(devices) \ ended, {}, {})
      /\ UNCHANGED <<rows, owner, next, dead, ended, expired, holder, rotation, line>>
  BY RevokeSessionsDoes
<1>3. TypeOK'
  BY <1>1, <1>2 DEF TypeOK, RotationIs, RevocationIs
<1>4. OnlyRows'
  BY <1>1, <1>2 DEF OnlyRows, RotationIs, RevocationIs
<1>5. LinesAreRows'
  BY <1>1, <1>2 DEF LinesAreRows, RotationIs, RevocationIs
<1>6. MintedAlone'
  BY <1>1, <1>2 DEF MintedAlone, Minting, RotationIs, RevocationIs
<1>7. MarkedHolds'
  BY <1>1, <1>2 DEF MarkedHolds, RotationIs, RevocationIs
<1>8. StaleIsInactive'
  BY <1>1, <1>2 DEF StaleIsInactive, Active, RotationIs, RevocationIs
<1>9. FoundIsCovered'
  BY <1>1, <1>2 DEF FoundIsCovered, RotationIs, RevocationIs
<1>10. LineNeverForks'
  BY <1>1, <1>2 DEF LineNeverForks, RotationIs, RevocationIs
<1>11. RepliesAreTrue'
  BY <1>1, <1>2 DEF RepliesAreTrue, RotationIs, RevocationIs
<1> QED
  BY <1>3, <1>4, <1>5, <1>6, <1>7, <1>8, <1>9, <1>10, <1>11

LEMMA RevokeRefreshesKeeps ==
  ASSUME SessionInv, NEW v \in Revokers, RevokeRefreshes(v)
  PROVE  SessionInv'
<1> USE DEF SessionInv
<1>1. /\ rows \subseteq Tokens /\ dead \subseteq Tokens /\ ended \subseteq Tokens
      /\ expired \subseteq Tokens /\ owner \in [Tokens -> Devices \cup {None}]
      /\ next \in [Tokens -> Tokens \cup {None}] /\ line \in [Tokens -> Tokens \cup {None}]
      /\ holder \in [Tokens -> Rotators \cup Revokers \cup {None}]
      /\ rotation \in [Rotators -> Rotation] /\ revocation \in [Revokers -> Revocation]
  BY DEF TypeOK
<1>2. PICK found \in SUBSET rows :
        RevocationIs(v, "refreshes", revocation[v].scope, revocation[v].sessions, found, found)
  BY RevokeRefreshesDoes
<1>3. UNCHANGED <<rows, owner, next, dead, ended, expired, holder, rotation, line>>
  BY RevokeRefreshesDoes
<1>4. TypeOK'
  BY <1>1, <1>2, <1>3 DEF TypeOK, RotationIs, RevocationIs
<1>5. OnlyRows'
  BY <1>1, <1>2, <1>3 DEF OnlyRows, RotationIs, RevocationIs
<1>6. LinesAreRows'
  BY <1>1, <1>2, <1>3 DEF LinesAreRows, RotationIs, RevocationIs
<1>7. MintedAlone'
  BY <1>1, <1>2, <1>3 DEF MintedAlone, Minting, RotationIs, RevocationIs
<1>8. MarkedHolds'
  BY <1>1, <1>2, <1>3 DEF MarkedHolds, RotationIs, RevocationIs
<1>9. StaleIsInactive'
  BY <1>1, <1>2, <1>3 DEF StaleIsInactive, Active, RotationIs, RevocationIs
<1>10. FoundIsCovered'
  BY <1>1, <1>2, <1>3 DEF FoundIsCovered, RotationIs, RevocationIs
<1>11. LineNeverForks'
  BY <1>1, <1>2, <1>3 DEF LineNeverForks, RotationIs, RevocationIs
<1>12. RepliesAreTrue'
  BY <1>1, <1>2, <1>3 DEF RepliesAreTrue, RotationIs, RevocationIs
<1> QED
  BY <1>4, <1>5, <1>6, <1>7, <1>8, <1>9, <1>10, <1>11, <1>12

LEMMA LockRefreshKeeps ==
  ASSUME SessionInv, NEW v \in Revokers, NEW t \in Tokens, LockRefresh(v, t)
  PROVE  SessionInv'
<1> USE DEF SessionInv
<1>1. /\ rows \subseteq Tokens /\ dead \subseteq Tokens /\ ended \subseteq Tokens
      /\ expired \subseteq Tokens /\ owner \in [Tokens -> Devices \cup {None}]
      /\ next \in [Tokens -> Tokens \cup {None}] /\ line \in [Tokens -> Tokens \cup {None}]
      /\ holder \in [Tokens -> Rotators \cup Revokers \cup {None}]
      /\ rotation \in [Rotators -> Rotation] /\ revocation \in [Revokers -> Revocation]
  BY DEF TypeOK
<1>2. /\ revocation[v].pc = "refreshes" /\ t \in revocation[v].todo /\ holder[t] = None
      /\ RevocationIs(v, "refreshes", revocation[v].scope, revocation[v].sessions,
                      revocation[v].todo \ {t}, revocation[v].found)
      /\ holder' = IF t \in dead THEN holder ELSE [holder EXCEPT ![t] = v]
      /\ UNCHANGED <<rows, owner, next, dead, ended, expired, rotation, line>>
  BY LockRefreshDoes
<1>3. t \in rows
  BY <1>2 DEF FoundIsCovered
<1>4. /\ holder' \in [Tokens -> Rotators \cup Revokers \cup {None}]
      /\ \A u \in Tokens \ {t} : holder'[u] = holder[u]
      /\ t \in dead \/ holder'[t] = v
  BY <1>1, <1>2
<1>5. None \notin Rotators \cup Revokers
  BY TokenAssumption
<1>6. TypeOK'
  BY <1>1, <1>2, <1>3, <1>4, <1>5 DEF TypeOK, RotationIs, RevocationIs
<1>7. OnlyRows'
  BY <1>1, <1>2, <1>3, <1>4, <1>5 DEF OnlyRows, RotationIs, RevocationIs
<1>8. LinesAreRows'
  BY <1>1, <1>2, <1>3, <1>4, <1>5 DEF LinesAreRows, RotationIs, RevocationIs
<1>9. MintedAlone'
  BY <1>1, <1>2, <1>3, <1>4, <1>5 DEF MintedAlone, Minting, RotationIs, RevocationIs
<1>10. MarkedHolds'
  <2>1. \A r \in Rotators : rotation[r].pc = "marked" => rotation[r].old \in Tokens
    BY <1>1, <1>2, <1>3, <1>4, <1>5 DEF MintedAlone
  <2> QED
    BY <1>1, <1>2, <1>3, <1>4, <1>5, <2>1 DEF MarkedHolds, RotationIs, RevocationIs
<1>11. StaleIsInactive'
  BY <1>1, <1>2, <1>3, <1>4, <1>5 DEF StaleIsInactive, Active, RotationIs, RevocationIs
<1>12. FoundIsCovered'
  BY <1>1, <1>2, <1>3, <1>4, <1>5 DEF FoundIsCovered, RotationIs, RevocationIs
<1>13. LineNeverForks'
  BY <1>1, <1>2, <1>3, <1>4, <1>5 DEF LineNeverForks, RotationIs, RevocationIs
<1>14. RepliesAreTrue'
  BY <1>1, <1>2, <1>3, <1>4, <1>5 DEF RepliesAreTrue, RotationIs, RevocationIs
<1> QED
  BY <1>6, <1>7, <1>8, <1>9, <1>10, <1>11, <1>12, <1>13, <1>14

LEMMA CommitRevocationKeeps ==
  ASSUME SessionInv, NEW v \in Revokers, CommitRevocation(v)
  PROVE  SessionInv'
<1> USE DEF SessionInv
<1>1. /\ rows \subseteq Tokens /\ dead \subseteq Tokens /\ ended \subseteq Tokens
      /\ expired \subseteq Tokens /\ owner \in [Tokens -> Devices \cup {None}]
      /\ next \in [Tokens -> Tokens \cup {None}] /\ line \in [Tokens -> Tokens \cup {None}]
      /\ holder \in [Tokens -> Rotators \cup Revokers \cup {None}]
      /\ rotation \in [Rotators -> Rotation] /\ revocation \in [Revokers -> Revocation]
  BY DEF TypeOK
<1>2. /\ revocation[v].pc = "refreshes" /\ revocation[v].todo = {}
      /\ RevocationIs(v, "done", revocation[v].scope, revocation[v].sessions,
                      revocation[v].todo, revocation[v].found)
      /\ ended' = ended \cup revocation[v].sessions
      /\ dead' = dead \cup {t \in Tokens : holder[t] = v}
      /\ Release(v)
      /\ UNCHANGED <<rows, owner, next, expired, rotation, line>>
  BY CommitRevocationDoes
<1>3. /\ holder' \in [Tokens -> Rotators \cup Revokers \cup {None}]
      /\ \A t \in Tokens : holder'[t] = IF holder[t] = v THEN None ELSE holder[t]
  BY <1>2, ReleaseDoes
<1>4. None \notin Rotators \cup Revokers /\ \A p \in Rotators : p # v
  BY TokenAssumption, ProcessAssumption
<1>5. revocation[v].sessions \subseteq Tokens
  BY <1>1, RevocationFields
<1>6. TypeOK'
  BY <1>1, <1>2, <1>3, <1>4, <1>5 DEF TypeOK, RotationIs, RevocationIs
<1>7. OnlyRows'
  BY <1>1, <1>2, <1>3, <1>4, <1>5 DEF OnlyRows, RotationIs, RevocationIs
<1>8. LinesAreRows'
  BY <1>1, <1>2, <1>3, <1>4, <1>5 DEF LinesAreRows, RotationIs, RevocationIs
<1>9. MintedAlone'
  BY <1>1, <1>2, <1>3, <1>4, <1>5 DEF MintedAlone, Minting, RotationIs, RevocationIs
<1>10. MarkedHolds'
  <2>1. \A r \in Rotators : rotation[r].pc = "marked" => rotation[r].old \in Tokens
    BY <1>1, <1>2, <1>3, <1>4, <1>5 DEF MintedAlone
  <2> QED
    BY <1>1, <1>2, <1>3, <1>4, <1>5, <2>1 DEF MarkedHolds, RotationIs, RevocationIs
<1>11. StaleIsInactive'
  BY <1>1, <1>2, <1>3, <1>4, <1>5 DEF StaleIsInactive, Active, RotationIs, RevocationIs
<1>12. FoundIsCovered'
  BY <1>1, <1>2, <1>3, <1>4, <1>5 DEF FoundIsCovered, RotationIs, RevocationIs
<1>13. LineNeverForks'
  BY <1>1, <1>2, <1>3, <1>4, <1>5 DEF LineNeverForks, RotationIs, RevocationIs
<1>14. RepliesAreTrue'
  BY <1>1, <1>2, <1>3, <1>4, <1>5 DEF RepliesAreTrue, RotationIs, RevocationIs
<1> QED
  BY <1>6, <1>7, <1>8, <1>9, <1>10, <1>11, <1>12, <1>13, <1>14

LEMMA AbortRevocationKeeps ==
  ASSUME SessionInv, NEW v \in Revokers, AbortRevocation(v)
  PROVE  SessionInv'
<1> USE DEF SessionInv
<1>1. /\ rows \subseteq Tokens /\ dead \subseteq Tokens /\ ended \subseteq Tokens
      /\ expired \subseteq Tokens /\ owner \in [Tokens -> Devices \cup {None}]
      /\ next \in [Tokens -> Tokens \cup {None}] /\ line \in [Tokens -> Tokens \cup {None}]
      /\ holder \in [Tokens -> Rotators \cup Revokers \cup {None}]
      /\ rotation \in [Rotators -> Rotation] /\ revocation \in [Revokers -> Revocation]
  BY DEF TypeOK
<1>2. /\ RevocationIs(v, "idle", {}, {}, {}, {}) /\ Release(v)
      /\ UNCHANGED <<rows, owner, next, dead, ended, expired, rotation, line>>
  BY AbortRevocationDoes
<1>3. /\ holder' \in [Tokens -> Rotators \cup Revokers \cup {None}]
      /\ \A t \in Tokens : holder'[t] = IF holder[t] = v THEN None ELSE holder[t]
  BY <1>2, ReleaseDoes
<1>4. None \notin Rotators \cup Revokers /\ \A p \in Rotators : p # v
  BY TokenAssumption, ProcessAssumption
<1>5. TypeOK'
  BY <1>1, <1>2, <1>3, <1>4 DEF TypeOK, RotationIs, RevocationIs
<1>6. OnlyRows'
  BY <1>1, <1>2, <1>3, <1>4 DEF OnlyRows, RotationIs, RevocationIs
<1>7. LinesAreRows'
  BY <1>1, <1>2, <1>3, <1>4 DEF LinesAreRows, RotationIs, RevocationIs
<1>8. MintedAlone'
  BY <1>1, <1>2, <1>3, <1>4 DEF MintedAlone, Minting, RotationIs, RevocationIs
<1>9. MarkedHolds'
  <2>1. \A r \in Rotators : rotation[r].pc = "marked" => rotation[r].old \in Tokens
    BY <1>1, <1>2, <1>3, <1>4 DEF MintedAlone
  <2> QED
    BY <1>1, <1>2, <1>3, <1>4, <2>1 DEF MarkedHolds, RotationIs, RevocationIs
<1>10. StaleIsInactive'
  BY <1>1, <1>2, <1>3, <1>4 DEF StaleIsInactive, Active, RotationIs, RevocationIs
<1>11. FoundIsCovered'
  BY <1>1, <1>2, <1>3, <1>4 DEF FoundIsCovered, RotationIs, RevocationIs
<1>12. LineNeverForks'
  BY <1>1, <1>2, <1>3, <1>4 DEF LineNeverForks, RotationIs, RevocationIs
<1>13. RepliesAreTrue'
  BY <1>1, <1>2, <1>3, <1>4 DEF RepliesAreTrue, RotationIs, RevocationIs
<1> QED
  BY <1>5, <1>6, <1>7, <1>8, <1>9, <1>10, <1>11, <1>12, <1>13
LEMMA StepKeeps ==
  ASSUME SessionInv, [Next]_vars
  PROVE  SessionInv'
<1>1. CASE UNCHANGED vars
  BY <1>1 DEF vars, SessionInv, TypeOK, OnlyRows, LinesAreRows, MintedAlone, Minting, MarkedHolds,
     StaleIsInactive, Active, FoundIsCovered, LineNeverForks, RepliesAreTrue
<1>2. CASE \E t \in Tokens : Expire(t) \/ \E d \in Devices : IssuePair(t, d)
  BY <1>2, ExpireKeeps, IssuePairKeeps
<1>3. ASSUME NEW p \in Rotators,
             \/ RotationStep(p) \/ AbortRotation(p)
             \/ \E t \in Tokens : ReadRefresh(p, t) \/ RefuseUnknown(p, t)
      PROVE  SessionInv'
  BY <1>3, MintPairKeeps, MarkRotatedKeeps, CommitRotationKeeps, ClassifyStaleKeeps,
     AbortRotationKeeps, ReadRefreshKeeps, RefuseUnknownKeeps DEF RotationStep
<1>4. ASSUME NEW v \in Revokers,
             \/ RevocationStep(v) \/ AbortRevocation(v)
             \/ \E devices \in (SUBSET Devices) \ {{}} : RevokeSessions(v, devices)
      PROVE  SessionInv'
  <2>1. CASE RevocationStep(v)
    BY <2>1, RevokeRefreshesKeeps, CommitRevocationKeeps, LockRefreshKeeps, AbortRevocationKeeps
       DEF RevocationStep, EndDeadlock
  <2>2. CASE AbortRevocation(v)
    BY <2>2, AbortRevocationKeeps
  <2>3. CASE \E devices \in (SUBSET Devices) \ {{}} : RevokeSessions(v, devices)
    BY <2>3, RevokeSessionsKeeps
  <2> QED
    BY <1>4, <2>1, <2>2, <2>3
<1> QED
  BY <1>1, <1>2, <1>3, <1>4 DEF Next

-----------------------------------------------------------------------------
(* The theorems                                                            *)

(* The invariant holds in every reachable state, for any tokens, devices,  *)
(* rotations and revocations (rotate_refresh, revoke_all_for_identity).    *)
THEOREM SessionInvariant == Spec => []SessionInv
<1>1. SessionInv /\ [Next]_vars => SessionInv'
  BY StepKeeps
<1> QED
  BY InitOK, <1>1, PTL DEF Spec

(* Type correctness of every reachable state: a rotation answers only what *)
(* classify_stale can say.                                                 *)
THEOREM TypeCorrect == Spec => []TypeOK
<1>1. SessionInv => TypeOK
  BY DEF SessionInv
<1> QED
  BY SessionInvariant, <1>1, PTL

(* Of any number of concurrent rotations of one refresh token one wins: a  *)
(* login never has two refresh rows that are not rotated.                  *)
THEOREM NeverForks == Spec => []LineNeverForks
<1>1. SessionInv => LineNeverForks
  BY DEF SessionInv
<1> QED
  BY SessionInvariant, <1>1, PTL

(* What rotate_refresh answers, success or reason, is so and stays so.     *)
THEOREM AnswersTrue == Spec => []RepliesAreTrue
<1>1. SessionInv => RepliesAreTrue
  BY DEF SessionInv
<1> QED
  BY SessionInvariant, <1>1, PTL

(* classify_stale finds a reason for each row that the UPDATE missed.      *)
THEOREM Classified == Spec => []KnownIsClassified
<1>1. SessionInv => KnownIsClassified
  BY DEF SessionInv, StaleIsInactive, KnownIsClassified, Active, Reason
<1> QED
  BY SessionInvariant, <1>1, PTL

(* A finished revocation has revoked the rows its statements found.        *)
THEOREM Covers == Spec => []RevokesWhatItFound
<1>1. SessionInv => RevokesWhatItFound
  BY DEF SessionInv, FoundIsCovered, RevokesWhatItFound
<1> QED
  BY SessionInvariant, <1>1, PTL

LEMMA StepStaysUnrotated ==
  ASSUME SessionInv, [Next]_vars
  PROVE  StaysUnrotated
<1> USE DEF SessionInv
<1>1. CASE UNCHANGED vars
  BY <1>1 DEF vars, StaysUnrotated
<1>2. CASE \E t \in Tokens : Expire(t) \/ \E d \in Devices : IssuePair(t, d)
  BY <1>2 DEF Expire, IssuePair, StaysUnrotated
<1>3. ASSUME NEW p \in Rotators, CommitRotation(p)
      PROVE  StaysUnrotated
  <2>1. next' = [next EXCEPT ![rotation[p].old] = rotation[p].new] /\ dead' = dead
        /\ rotation[p].pc = "marked"
    BY <1>3 DEF CommitRotation
  <2>2. rotation[p].old \notin dead
    BY <2>1 DEF MarkedHolds
  <2>3. next \in [Tokens -> Tokens \cup {None}] /\ dead \subseteq Tokens
    BY DEF TypeOK
  <2> QED
    BY <2>1, <2>2, <2>3 DEF StaysUnrotated
<1>4. ASSUME NEW p \in Rotators,
             \/ RotationStep(p) \/ AbortRotation(p)
             \/ \E t \in Tokens : ReadRefresh(p, t) \/ RefuseUnknown(p, t)
      PROVE  StaysUnrotated
  BY <1>3, <1>4 DEF RotationStep, MintPair, MarkRotated, ClassifyStale, AbortRotation, ReadRefresh,
     RefuseUnknown, StaysUnrotated
<1>5. ASSUME NEW v \in Revokers,
             \/ RevocationStep(v) \/ AbortRevocation(v)
             \/ \E devices \in (SUBSET Devices) \ {{}} : RevokeSessions(v, devices)
      PROVE  StaysUnrotated
  BY <1>5 DEF RevocationStep, EndDeadlock, RevokeRefreshes, CommitRevocation, LockRefresh,
     AbortRevocation, RevokeSessions, StaysUnrotated
<1> QED
  BY <1>1, <1>2, <1>4, <1>5 DEF Next

(* A revoked refresh token stays revoked and is never rotated, not even by *)
(* a rotation that had read it before the revocation.                      *)
THEOREM NeverRotatedAgain == Spec => RevokedStays
<1>1. SessionInv /\ [Next]_vars => [StaysUnrotated]_vars
  BY StepStaysUnrotated
<1> QED
  BY SessionInvariant, <1>1, PTL DEF Spec, RevokedStays

-----------------------------------------------------------------------------
(* The client                                                              *)

(* What is stored, or was when it was loaded, is a committed pair.         *)
ClientTyped ==
  /\ store \in rows \cup {None} /\ lapsing \subseteq rows
  /\ call \in [Rotators -> {"idle", "sending", "waiting"}]
  /\ loaded \in [Rotators -> Tokens \cup {None}]
  /\ \A p \in Rotators : call[p] = "sending" => loaded[p] \in rows

(* An answer on its way carries a pair that nobody has seen: it is not     *)
(* stored, loaded or presented, and so it is not rotated.                  *)
Handed(p) == call[p] = "waiting" /\ rotation[p].pc = "idle" /\ rotation[p].reply = "ok"

Unseen(t) ==
  /\ store # t /\ next[t] = None
  /\ \A q \in Rotators : /\ call[q] = "sending" => loaded[q] # t
                         /\ rotation[q].pc # "idle" => rotation[q].old # t

UnseenThen(t) ==  \* after a step
  /\ store' # t /\ next'[t] = None
  /\ \A q \in Rotators : /\ call'[q] = "sending" => loaded'[q] # t
                         /\ rotation'[q].pc # "idle" => rotation'[q].old # t

HandedIsUnseen ==
  \A p \in Rotators : Handed(p) =>
    /\ rotation[p].new \in rows /\ Unseen(rotation[p].new)
    /\ \A q \in Rotators \ {p} : Handed(q) => rotation[q].new # rotation[p].new

ClientInv == SessionInv /\ ClientTyped /\ HandedIsUnseen

(* A step of the client is one of the server, or none.                     *)
LEMMA ClientServerStep ==
  ASSUME ClientInv, [ClientNext]_allVars
  PROVE  [Next]_vars
<1>1. ASSUME NEW p \in Rotators, Send(p)
      PROVE  \E t \in Tokens : ReadRefresh(p, t)
  BY <1>1 DEF Send, ClientInv, ClientTyped, SessionInv, TypeOK
<1>2. CASE \E t \in Tokens, d \in Devices : Login(t, d)
  BY <1>2 DEF Login, Next
<1>3. CASE ServerStep
  BY <1>3 DEF ServerStep, Next
<1>4. CASE Lapse \/ \E p \in Rotators : Load(p) \/ FetchThrows(p) \/ Settle(p)
  BY <1>4 DEF Lapse, Load, FetchThrows, Settle
<1>5. CASE UNCHANGED allVars
  BY <1>5 DEF allVars
<1> QED
  BY <1>1, <1>2, <1>3, <1>4, <1>5 DEF ClientNext, Next

LEMMA ClientBegins ==
  ASSUME ClientInit
  PROVE  ClientInv
BY InitOK DEF ClientInit, ClientInv, ClientTyped, HandedIsUnseen, Handed

(* A rotation that goes on, or ends without success.                       *)
Proceeds(p) == (\E t \in Tokens : MintPair(p, t)) \/ MarkRotated(p) \/ ClassifyStale(p) \/ AbortRotation(p)

LEMMA ProceedsDoes ==
  ASSUME SessionInv, NEW p \in Rotators, Proceeds(p)
  PROVE  /\ UNCHANGED <<rows, next>> /\ rotation[p].pc # "idle"
         /\ rotation'[p].old = rotation[p].old
         /\ rotation'[p].pc = "idle" => rotation'[p].reply # "ok"
         /\ \A q \in Rotators \ {p} : rotation'[q] = rotation[q]
<1>1. TypeOK
  BY DEF SessionInv
<1>2. ASSUME NEW t \in Tokens, MintPair(p, t)
      PROVE  /\ UNCHANGED <<rows, next>> /\ rotation[p].pc # "idle"
             /\ rotation'[p].old = rotation[p].old /\ rotation'[p].pc # "idle"
             /\ \A q \in Rotators \ {p} : rotation'[q] = rotation[q]
  BY <1>1, <1>2, MintPairDoes DEF RotationIs
<1>3. CASE MarkRotated(p)
  BY <1>1, <1>3, MarkRotatedDoes DEF RotationIs
<1>4. CASE ClassifyStale(p)
  BY <1>1, <1>4, ClassifyStaleDoes DEF RotationIs, Reason
<1>5. CASE AbortRotation(p)
  BY <1>1, <1>5, AbortRotationDoes DEF RotationIs, AbortRotation
<1> QED
  BY <1>2, <1>3, <1>4, <1>5 DEF Proceeds

LEMMA ProceedsKeeps ==
  ASSUME ClientInv, NEW p \in Rotators, Proceeds(p), UNCHANGED clientVars
  PROVE  ClientTyped' /\ HandedIsUnseen'
<1>1. /\ UNCHANGED <<rows, next>> /\ rotation[p].pc # "idle"
      /\ rotation'[p].old = rotation[p].old
      /\ rotation'[p].pc = "idle" => rotation'[p].reply # "ok"
      /\ \A q \in Rotators \ {p} : rotation'[q] = rotation[q]
  BY ProceedsDoes DEF ClientInv
<1>2. ClientTyped'
  BY <1>1 DEF ClientInv, ClientTyped, clientVars
<1>3. ASSUME NEW q \in Rotators
      PROVE  /\ Handed(q)' => Handed(q) /\ rotation'[q].new = rotation[q].new
             /\ rotation'[q].old = rotation[q].old
             /\ rotation'[q].pc # "idle" => rotation[q].pc # "idle"
  BY <1>1 DEF Handed, clientVars
<1>4. ASSUME NEW t, Unseen(t)
      PROVE  UnseenThen(t)
  BY <1>1, <1>3, <1>4 DEF Unseen, UnseenThen, clientVars
<1>5. HandedIsUnseen'
  BY <1>1, <1>3, <1>4 DEF ClientInv, HandedIsUnseen, Unseen, UnseenThen, Handed
<1> QED
  BY <1>2, <1>5

LEMMA CommitKeepsClient ==
  ASSUME ClientInv, NEW p \in Rotators, CommitRotation(p), UNCHANGED clientVars
  PROVE  ClientTyped' /\ HandedIsUnseen'
<1> DEFINE n == rotation[p].new
           o == rotation[p].old
<1>1. /\ TypeOK /\ OnlyRows /\ MintedAlone /\ ClientTyped /\ HandedIsUnseen
  BY DEF ClientInv, SessionInv
<1>2. /\ rotation[p].pc = "marked" /\ rotation'[p].pc = "idle" /\ rotation'[p].new = n
      /\ \A q \in Rotators \ {p} : rotation'[q] = rotation[q]
      /\ rows' = rows \cup {n} /\ next' = [next EXCEPT ![o] = n]
      /\ UNCHANGED <<store, lapsing, call, loaded>>
  BY <1>1, CommitRotationDoes DEF RotationIs, clientVars
<1>3. /\ n \in Tokens \ rows /\ o \in rows /\ next[n] = None /\ next \in [Tokens -> Tokens \cup {None}]
      /\ \A q \in Rotators : rotation[q].pc # "idle" => rotation[q].old \in rows
      /\ rows \subseteq Tokens /\ None \notin Tokens
  BY <1>1, <1>2, TokenAssumption DEF MintedAlone, OnlyRows, TypeOK
<1> HIDE DEF n, o
<1>4. ClientTyped'
  BY <1>1, <1>2 DEF ClientTyped
<1>5. UnseenThen(n)
  <2>1. store' # n /\ next'[n] = None
    BY <1>1, <1>2, <1>3 DEF ClientTyped
  <2>2. ASSUME NEW q \in Rotators
        PROVE  /\ call'[q] = "sending" => loaded'[q] # n
               /\ rotation'[q].pc # "idle" => rotation'[q].old # n
    BY <1>1, <1>2, <1>3 DEF ClientTyped
  <2> QED
    BY <2>1, <2>2 DEF UnseenThen
<1>6. ASSUME NEW q \in Rotators \ {p}, Handed(q)'
      PROVE  /\ Handed(q) /\ rotation'[q].new = rotation[q].new /\ rotation[q].new \in rows
             /\ UnseenThen(rotation[q].new)
  <2>1. Handed(q) /\ rotation'[q].new = rotation[q].new
    BY <1>2, <1>6 DEF Handed
  <2>2. rotation[q].new \in rows /\ Unseen(rotation[q].new)
    BY <1>1, <2>1 DEF HandedIsUnseen
  <2>3. o # rotation[q].new
    BY <1>2, <2>2 DEF Unseen, o
  <2>4. next'[rotation[q].new] = None
    BY <1>2, <1>3, <2>2, <2>3 DEF Unseen
  <2>5. UnseenThen(rotation[q].new)
    BY <1>2, <2>2, <2>4 DEF Unseen, UnseenThen
  <2> QED
    BY <2>1, <2>2, <2>5
<1>7. ASSUME NEW q \in Rotators, Handed(q)'
      PROVE  rotation'[q].new \in rows' /\ UnseenThen(rotation'[q].new)
  BY <1>2, <1>5, <1>6, <1>7 DEF n
<1>8. ASSUME NEW q \in Rotators, Handed(q)', NEW r \in Rotators \ {q}, Handed(r)'
      PROVE  rotation'[q].new # rotation'[r].new
  BY <1>1, <1>2, <1>3, <1>6, <1>8 DEF HandedIsUnseen
<1>9. HandedIsUnseen'
  BY <1>7, <1>8 DEF HandedIsUnseen, Unseen, UnseenThen
<1> QED
  BY <1>4, <1>9

(* A step that leaves the rotations, or begins one of what was loaded.     *)
LEMMA RotationsStayKeeps ==
  ASSUME ClientInv, UNCHANGED <<next, rotation>>, rows \subseteq rows', ClientTyped',
         \A p \in Rotators : Handed(p)' => Handed(p) /\ store' # rotation[p].new,
         \A q \in Rotators : call'[q] = "sending" =>
           \/ call[q] = "sending" /\ loaded'[q] = loaded[q]
           \/ loaded'[q] = store
  PROVE  HandedIsUnseen'
<1>1. ASSUME NEW p \in Rotators, Handed(p)'
      PROVE  rotation'[p].new \in rows' /\ UnseenThen(rotation'[p].new)
  <2>1. Unseen(rotation[p].new) /\ store' # rotation[p].new /\ rotation[p].new \in rows
    BY <1>1 DEF ClientInv, HandedIsUnseen
  <2> QED
    BY <2>1 DEF Unseen, UnseenThen
<1>2. ASSUME NEW q \in Rotators, Handed(q)', NEW r \in Rotators \ {q}, Handed(r)'
      PROVE  rotation'[q].new # rotation'[r].new
  BY <1>2 DEF ClientInv, HandedIsUnseen
<1> QED
  BY <1>1, <1>2 DEF HandedIsUnseen, Unseen, UnseenThen

LEMMA RevocationStepsKeep ==
  ASSUME ClientInv, NEW v \in Revokers, UNCHANGED clientVars,
         \/ RevocationStep(v) \/ AbortRevocation(v)
         \/ \E devices \in (SUBSET Devices) \ {{}} : RevokeSessions(v, devices)
  PROVE  ClientTyped' /\ HandedIsUnseen'
<1>1. UNCHANGED <<rows, next, rotation>>
  BY DEF RevocationStep, EndDeadlock, RevokeRefreshes, CommitRevocation, LockRefresh,
     AbortRevocation, RevokeSessions
<1>2. ClientTyped'
  BY <1>1 DEF ClientInv, ClientTyped, clientVars
<1>3. HandedIsUnseen'
  BY <1>1 DEF ClientInv, HandedIsUnseen, Handed, Unseen, clientVars
<1> QED
  BY <1>2, <1>3

LEMMA LoginKeeps ==
  ASSUME ClientInv, NEW t \in Tokens, NEW d \in Devices, Login(t, d)
  PROVE  ClientTyped' /\ HandedIsUnseen'
<1>1. /\ t \notin rows /\ rows' = rows \cup {t} /\ store' = t
      /\ UNCHANGED <<next, rotation, lapsing, call, loaded>>
  BY DEF Login, IssuePair, Unused
<1>2. ClientTyped'
  BY <1>1 DEF ClientInv, ClientTyped
<1>3. \A p \in Rotators : Handed(p)' => Handed(p) /\ store' # rotation[p].new
  BY <1>1 DEF ClientInv, HandedIsUnseen, Handed
<1>4. \A q \in Rotators : call'[q] = "sending" => call[q] = "sending" /\ loaded'[q] = loaded[q]
  BY <1>1
<1> QED
  BY <1>1, <1>2, <1>3, <1>4, RotationsStayKeeps

LEMMA LapseKeeps ==
  ASSUME ClientInv, Lapse
  PROVE  ClientTyped' /\ HandedIsUnseen'
<1>1. /\ store \in rows /\ lapsing' = lapsing \cup {store}
      /\ UNCHANGED <<rows, next, rotation, store, call, loaded>>
  BY DEF Lapse, vars, ClientInv, ClientTyped
<1>2. ClientTyped'
  BY <1>1 DEF ClientInv, ClientTyped
<1>3. HandedIsUnseen'
  BY <1>1 DEF ClientInv, HandedIsUnseen, Handed, Unseen
<1> QED
  BY <1>2, <1>3

LEMMA LoadKeeps ==
  ASSUME ClientInv, NEW p \in Rotators, Load(p)
  PROVE  ClientTyped' /\ HandedIsUnseen'
<1>0. ClientTyped /\ rows \subseteq Tokens
  BY DEF ClientInv, SessionInv, TypeOK
<1>1. /\ store \in rows
      /\ call' = [call EXCEPT ![p] = "sending"] /\ loaded' = [loaded EXCEPT ![p] = store]
      /\ UNCHANGED <<rows, next, rotation, store, lapsing>>
  BY <1>0 DEF Load, vars, ClientTyped
<1>2. ClientTyped'
  BY <1>0, <1>1 DEF ClientTyped
<1>3. \A q \in Rotators : Handed(q)' => Handed(q) /\ store' # rotation[q].new
  BY <1>0, <1>1 DEF ClientInv, ClientTyped, HandedIsUnseen, Handed, Unseen
<1>4. \A q \in Rotators : call'[q] = "sending" =>
        (call[q] = "sending" /\ loaded'[q] = loaded[q]) \/ loaded'[q] = store
  BY <1>0, <1>1 DEF ClientTyped
<1> QED
  BY <1>1, <1>2, <1>3, <1>4, RotationsStayKeeps

LEMMA SettleKeeps ==
  ASSUME ClientInv, NEW p \in Rotators, Settle(p) \/ FetchThrows(p)
  PROVE  ClientTyped' /\ HandedIsUnseen'
<1>0. ClientTyped /\ HandedIsUnseen
  BY DEF ClientInv
<1>1. /\ call' = [call EXCEPT ![p] = "idle"] /\ UNCHANGED <<rows, next, rotation, loaded, lapsing>>
      /\ \/ store' = store \/ store' = None
         \/ Handed(p) /\ store' = rotation[p].new
  BY DEF Settle, FetchThrows, vars, Handed
<1>2. ClientTyped'
  BY <1>0, <1>1 DEF ClientTyped, HandedIsUnseen
<1>3. \A q \in Rotators : Handed(q)' => q # p /\ Handed(q)
  BY <1>0, <1>1 DEF ClientTyped, Handed
<1>4. \A q \in Rotators : Handed(q)' => Handed(q) /\ store' # rotation[q].new
  <2>1. \A q \in Rotators : Handed(q) => rotation[q].new # store /\ rotation[q].new # None
    BY <1>0, TokenAssumption DEF HandedIsUnseen, Unseen, ClientInv, SessionInv, TypeOK
  <2> QED
    BY <1>0, <1>1, <1>3, <2>1 DEF HandedIsUnseen
<1>5. \A q \in Rotators : call'[q] = "sending" => call[q] = "sending" /\ loaded'[q] = loaded[q]
  BY <1>0, <1>1 DEF ClientTyped
<1> QED
  BY <1>1, <1>2, <1>4, <1>5, RotationsStayKeeps

LEMMA SendKeeps ==
  ASSUME ClientInv, NEW p \in Rotators, Send(p)
  PROVE  ClientTyped' /\ HandedIsUnseen'
<1>0. ClientTyped /\ HandedIsUnseen /\ TypeOK /\ rows \subseteq Tokens
  BY DEF ClientInv, SessionInv, TypeOK
<1>1. /\ call[p] = "sending" /\ loaded[p] \in Tokens /\ ReadRefresh(p, loaded[p])
      /\ call' = [call EXCEPT ![p] = "waiting"] /\ UNCHANGED <<store, lapsing, loaded>>
  BY <1>0 DEF Send, ClientTyped
<1>2. /\ rotation'[p].pc = "read" /\ rotation'[p].old = loaded[p]
      /\ \A q \in Rotators \ {p} : rotation'[q] = rotation[q]
      /\ UNCHANGED <<rows, next>>
  BY <1>0, <1>1, ReadRefreshDoes DEF RotationIs
<1>3. ClientTyped'
  BY <1>0, <1>1, <1>2 DEF ClientTyped
<1>4. ASSUME NEW q \in Rotators, Handed(q)'
      PROVE  q # p /\ Handed(q)
  BY <1>0, <1>1, <1>2, <1>4 DEF ClientTyped, Handed
<1>5. ASSUME NEW q \in Rotators, Handed(q)'
      PROVE  rotation'[q].new \in rows' /\ UnseenThen(rotation'[q].new)
  <2>1. /\ rotation[q].new \in rows /\ Unseen(rotation[q].new) /\ rotation'[q].new = rotation[q].new
    BY <1>0, <1>2, <1>4, <1>5 DEF HandedIsUnseen
  <2> QED
    BY <1>0, <1>1, <1>2, <2>1 DEF Unseen, UnseenThen, ClientTyped
<1>6. ASSUME NEW q \in Rotators, Handed(q)', NEW r \in Rotators \ {q}, Handed(r)'
      PROVE  rotation'[q].new # rotation'[r].new
  BY <1>0, <1>2, <1>4, <1>6 DEF HandedIsUnseen
<1>7. HandedIsUnseen'
  BY <1>5, <1>6 DEF HandedIsUnseen, Unseen, UnseenThen
<1> QED
  BY <1>3, <1>7

LEMMA ClientKeeps ==
  ASSUME ClientInv, [ClientNext]_allVars
  PROVE  ClientInv'
<1>1. SessionInv'
  BY ClientServerStep, StepKeeps DEF ClientInv
<1>2. CASE UNCHANGED allVars
  BY <1>1, <1>2 DEF ClientInv, ClientTyped, HandedIsUnseen, Handed, Unseen, allVars, vars, clientVars
<1>3. CASE ServerStep
  BY <1>1, <1>3, ProceedsKeeps, CommitKeepsClient, RevocationStepsKeep
     DEF ServerStep, RotationStep, Proceeds, ClientInv
<1>4. CASE ~ServerStep /\ ClientNext
  BY <1>1, <1>4, LoginKeeps, LapseKeeps, LoadKeeps, SendKeeps, SettleKeeps DEF ClientNext, ClientInv
<1> QED
  BY <1>2, <1>3, <1>4

LEMMA StoreWritten ==
  ASSUME ClientInv, [ClientNext]_allVars, store' # store, store' # None
  PROVE  store' \in rows' /\ next'[store'] = None
<1>1. store' \in rows'
  BY ClientKeeps DEF ClientInv, ClientTyped
<1>2. CASE \E t \in Tokens, d \in Devices : Login(t, d)
  BY <1>2 DEF Login, IssuePair, Unused, ClientInv, SessionInv, OnlyRows
<1>3. CASE \E p \in Rotators : Settle(p)
  BY <1>3 DEF Settle, vars, ClientInv, HandedIsUnseen, Handed, Unseen
<1>4. (\E t \in Tokens, d \in Devices : Login(t, d)) \/ \E p \in Rotators : Settle(p)
  BY DEF ClientNext, allVars, clientVars, ServerStep, Lapse, Load, Send, FetchThrows
<1> QED
  BY <1>1, <1>2, <1>3, <1>4

(* The inductive invariant of the server and the client together.          *)
THEOREM ClientInvariant == ClientSpec => []ClientInv
<1>1. ClientInit => ClientInv
  BY ClientBegins
<1>2. ClientInv /\ [ClientNext]_allVars => ClientInv'
  BY ClientKeeps
<1> QED
  BY <1>1, <1>2, PTL DEF ClientSpec

(* What the server promises holds for a client that calls it from many     *)
(* places at once and loses requests and answers.                          *)
THEOREM ServerKeepsItsWord ==
  ClientSpec => [](LineNeverForks /\ RepliesAreTrue /\ RevokesWhatItFound)
<1>1. ClientInv => LineNeverForks /\ RepliesAreTrue /\ RevokesWhatItFound
  BY DEF ClientInv, SessionInv, FoundIsCovered, RevokesWhatItFound
<1> QED
  BY ClientInvariant, <1>1, PTL

(* getValidSessionToken never stores a pair that has been rotated since: a *)
(* pair that is on its way has been neither stored nor presented by any    *)
(* other call, so nobody can have rotated it.                              *)
THEOREM MovesForward == ClientSpec => StoreMovesForward
<1>1. ClientInv /\ [ClientNext]_allVars
        => [store' # store /\ store' # None => store' \in rows' /\ next'[store'] = None]_store
  BY StoreWritten
<1> QED
  BY ClientInvariant, <1>1, PTL DEF ClientSpec, StoreMovesForward

-----------------------------------------------------------------------------
(* The page of a workspace                                                 *)

(* The inductive invariant of ServerPage, in parts.  First the shape of    *)
(* what the page and its server hold, and whose it is.                     *)
Whole == [tree : Trees, active : Channels \cup {NoItem}, bits : BOOLEAN, edit : BOOLEAN,
          confirm : Channels \cup {NoItem}, removed : {NoItem, "kicked", "banned"},
          unread : [Channels -> Nat], watch : SUBSET Channels, asking : BOOLEAN]
Stages == {"asked", "ok", "refused"}
Changes ==
  [server : Servers, kind : {"arrange"}, what : Edits \X BOOLEAN, stage : Stages,
   ours : BOOLEAN] \cup
  [server : Servers, kind : {"create", "delete"}, what : {<<i>> : i \in Items},
   stage : Stages, ours : BOOLEAN]
Fetches == [server : Servers, read : BOOLEAN, tree : Trees, accounts : SUBSET Parts,
            unseen : SUBSET Parts]

PageTyped ==
  /\ truth \in [Servers -> Trees]
  /\ screen \in {"home", "other"} \cup Servers
  /\ picks \subseteq [server : Servers, stage : {"ensure", "discover"}]
  /\ page \in Whole
  /\ calls \subseteq Changes
  /\ fetches \in Seq(Fetches)
  /\ unheard \subseteq Parts

(* What is not open waits for nothing.                                     *)
ClosedIsFresh ==
  ~IsOpen => page = Mounted(NoItem) /\ fetches = <<>> /\ \A k \in calls : ~k.ours

(* A change of this page that its server has made or that the page shows   *)
(* already, and whose answer will have the tree fetched again.             *)
Promises(k) == k.ours /\ (k.kind # "create" \/ k.stage = "ok")

(* A part of what a fetch has read is that of the server, or an answer is  *)
(* on its way for it, or a fetch that was made later is.                   *)
Overtaken(n, part) == \E m \in DOMAIN fetches : m > n /\ part \in fetches[m].accounts
Answered(part) == \E k \in calls : k.ours /\ k.stage = "ok" /\ About(k) = part
ReadsAreTrue ==
  \A n \in DOMAIN fetches : fetches[n].read =>
    \A part \in Parts \ fetches[n].unseen :
      \/ Same(fetches[n].tree, truth[fetches[n].server], part)
      \/ Answered(part)
      \/ Overtaken(n, part)

(* So is a part of the page that it can vouch for.                         *)
Promised(part) == \E k \in calls : Promises(k) /\ About(k) = part
Fetching(part) == \E n \in DOMAIN fetches : part \in fetches[n].accounts
PageIsTrue ==
  IsOpen => \A part \in Parts \ unheard :
    \/ Same(page.tree, truth[screen], part)
    \/ Promised(part)
    \/ Fetching(part)

PageInv == PageTyped /\ ClosedIsFresh /\ ReadsAreTrue /\ PageIsTrue

-----------------------------------------------------------------------------
(* What the actions are made of                                            *)

LEMMA EmptyIsTree == EmptyTree \in Trees /\ EmptyTree.has = {}
  BY DEF EmptyTree, Trees

LEMMA MountedIsWhole ==
  ASSUME NEW c \in Channels \cup {NoItem}
  PROVE  /\ Mounted(c) \in Whole /\ Mounted(c).active = c
         /\ Mounted(c).tree = EmptyTree /\ Mounted(c).watch = {}
         /\ Mounted(c).unread = [d \in Channels |-> 0]
  BY EmptyIsTree DEF Mounted, Whole

LEMMA OpenedIsWhole ==
  ASSUME NEW p \in Whole
  PROVE  /\ Opened(p) \in Whole
         /\ Opened(p).tree = p.tree /\ Opened(p).active = p.active
         /\ Opened(p).watch = p.watch
         /\ \A c \in Channels : Opened(p).unread[c] = IF c = p.active THEN 0 ELSE p.unread[c]
<1>1. CASE p.active = NoItem
  BY <1>1, ServersAssumption DEF Opened, Whole, Items
<1>2. CASE p.active # NoItem
  <2>1. p.active \in Channels
    BY <1>2 DEF Whole
  <2>2. PICK u : u = [p.unread EXCEPT ![p.active] = 0]
    OBVIOUS
  <2>3. u \in [Channels -> Nat] /\ \A c \in Channels : u[c] = IF c = p.active THEN 0 ELSE p.unread[c]
    BY <2>1, <2>2 DEF Whole
  <2>4. Opened(p) = [p EXCEPT !.unread = u]
    BY <1>2, <2>2 DEF Opened, Whole
  <2>5. QED
    BY <2>3, <2>4 DEF Whole
<1>3. QED
  BY <1>1, <1>2

LEMMA RewatchedIsWhole ==
  ASSUME NEW p \in Whole, NEW anew
  PROVE  /\ Rewatched(p, anew) \in Whole
         /\ Rewatched(p, anew).tree = p.tree /\ Rewatched(p, anew).active = p.active
         /\ Rewatched(p, anew).unread = p.unread
         /\ Rewatched(p, anew).watch \subseteq p.watch
         /\ anew => Rewatched(p, anew).watch = {}
  BY DEF Rewatched, Whole

(* What a render leaves of a page.                                         *)
LEMMA BecomesKeeps ==
  ASSUME NEW p \in Whole, NEW server, NEW anew, Becomes(p, server, anew)
  PROVE  /\ page' \in Whole
         /\ page'.tree = p.tree /\ page'.active = p.active
         /\ page'.watch \subseteq p.watch /\ (anew => page'.watch = {})
         /\ \A c \in Channels : page'.unread[c] = IF c = p.active THEN 0 ELSE p.unread[c]
         /\ badge' = WithBadge(server, Total(page'))
<1>1. PICK o : o = Opened(p)
  OBVIOUS
<1>2. page' = Rewatched(o, anew) /\ badge' = WithBadge(server, Total(page'))
  BY <1>1 DEF Becomes
<1>3. QED
  BY <1>1, <1>2, OpenedIsWhole, RewatchedIsWhole

LEMMA ChangedIsTree ==
  ASSUME NEW t \in Trees, NEW k \in Changes
  PROVE  Changed(t, k) \in Trees
<1>1. CASE k.kind = "arrange"
  <2>1. k.what[1] \in Edits /\ k.what[2] \in BOOLEAN
    BY <1>1 DEF Changes
  <2>2. PICK a : a = [t.arr EXCEPT ![k.what[1]] = k.what[2]]
    OBVIOUS
  <2>3. a \in [Edits -> BOOLEAN]
    BY <2>1, <2>2 DEF Trees
  <2>4. Changed(t, k) = [t EXCEPT !.arr = a]
    BY <1>1, <2>2 DEF Changed, Trees
  <2>5. QED
    BY <2>3, <2>4 DEF Trees
<1>2. CASE k.kind # "arrange"
  <2>1. PICK i \in Items : k.what = <<i>>
    BY <1>2 DEF Changes
  <2>2. k.what[1] \in Items
    BY <2>1
  <2>3. PICK h : h = IF k.kind = "create" THEN t.has \cup {k.what[1]} ELSE t.has \ {k.what[1]}
    OBVIOUS
  <2>4. h \subseteq Items
    BY <2>2, <2>3 DEF Trees
  <2>5. Changed(t, k) = [t EXCEPT !.has = h]
    BY <1>2, <2>3 DEF Changed, Trees
  <2>6. QED
    BY <2>4, <2>5 DEF Trees
<1>3. QED
  BY <1>1, <1>2

(* A change is about one part, and leaves the others.                      *)
LEMMA AboutIsPart == ASSUME NEW k \in Changes PROVE About(k) \in Parts
<1>1. CASE k.kind = "arrange"
  BY <1>1 DEF Changes, About, Parts
<1>2. CASE k.kind # "arrange"
  <2>1. PICK i \in Items : k.what = <<i>>
    BY <1>2 DEF Changes
  <2>2. QED
    BY <2>1 DEF About, Parts
<1>3. QED
  BY <1>1, <1>2

LEMMA ChangedElsewhere ==
  ASSUME NEW t, NEW u \in Trees, NEW k \in Changes, NEW part, part # About(k)
  PROVE  Same(t, Changed(u, k), part) <=> Same(t, u, part)
<1>1. CASE k.kind = "arrange"
  <2>1. PICK a : a = [u.arr EXCEPT ![k.what[1]] = k.what[2]]
    OBVIOUS
  <2>2. part \in Edits => a[part] = u.arr[part]
    BY <2>1 DEF About, Trees
  <2>3. Changed(u, k) = [u EXCEPT !.arr = a]
    BY <1>1, <2>1 DEF Changed, Trees
  <2>4. Changed(u, k).arr = a /\ Changed(u, k).has = u.has
    BY <2>3 DEF Trees
  <2>5. QED
    BY <2>2, <2>4 DEF Same
<1>2. CASE k.kind # "arrange"
  <2>1. PICK h : h = IF k.kind = "create" THEN u.has \cup {k.what[1]} ELSE u.has \ {k.what[1]}
    OBVIOUS
  <2>2. part \in h <=> part \in u.has
    BY <2>1 DEF About
  <2>3. Changed(u, k) = [u EXCEPT !.has = h]
    BY <1>2, <2>1 DEF Changed, Trees
  <2>4. Changed(u, k).has = h /\ Changed(u, k).arr = u.arr
    BY <2>3 DEF Trees
  <2>5. QED
    BY <2>2, <2>4 DEF Same
<1>3. QED
  BY <1>1, <1>2

LEMMA TruthElsewhere ==
  ASSUME PageTyped, NEW k \in Changes, NEW part, part # About(k), NEW s \in Servers, NEW t,
         truth' = [truth EXCEPT ![k.server] = Changed(@, k)]
  PROVE  Same(t, truth'[s], part) <=> Same(t, truth[s], part)
<1>1. k.server \in Servers /\ truth[s] \in Trees
  BY DEF Changes, PageTyped
<1>2. truth'[s] = IF s = k.server THEN Changed(truth[s], k) ELSE truth[s]
  BY <1>1 DEF PageTyped
<1>3. QED
  BY <1>1, <1>2, ChangedElsewhere

LEMMA FetchIs ==
  ASSUME PageTyped, NEW n \in DOMAIN fetches
  PROVE  /\ fetches[n] \in Fetches /\ fetches[n].server \in Servers
         /\ fetches[n].tree \in Trees
         /\ fetches[n].accounts \in SUBSET Parts /\ fetches[n].unseen \in SUBSET Parts
<1>1. PICK f \in Fetches : f = fetches[n]
  BY DEF PageTyped
<1>2. QED
  BY <1>1 DEF Fetches

LEMMA RefreshedIs ==
  ASSUME NEW s \in Servers, NEW parts \in SUBSET Parts, fetches \in Seq(Fetches)
  PROVE  /\ Refreshed(s, parts) \in Seq(Fetches)
         /\ Len(Refreshed(s, parts)) = Len(fetches) + 1
         /\ \A n \in 1..Len(fetches) : Refreshed(s, parts)[n] = fetches[n]
         /\ Refreshed(s, parts)[Len(fetches) + 1] =
              [server |-> s, read |-> FALSE, tree |-> EmptyTree,
               accounts |-> parts, unseen |-> {}]
<1>1. PICK f : f = [server |-> s, read |-> FALSE, tree |-> EmptyTree,
                    accounts |-> parts, unseen |-> {}]
  OBVIOUS
<1>2. f \in Fetches
  BY <1>1, EmptyIsTree DEF Fetches
<1>3. Refreshed(s, parts) = Append(fetches, f)
  BY <1>1 DEF Refreshed
<1>4. QED
  BY <1>1, <1>2, <1>3

LEMMA DoubtedIs ==
  ASSUME NEW parts \in SUBSET Parts, NEW last, fetches \in Seq(Fetches)
  PROVE  /\ Doubted(parts, last) \in Seq(Fetches) /\ Len(Doubted(parts, last)) = Len(fetches)
         /\ DOMAIN Doubted(parts, last) = DOMAIN fetches
         /\ \A n \in DOMAIN fetches :
              /\ Doubted(parts, last)[n].server = fetches[n].server
              /\ Doubted(parts, last)[n].read = fetches[n].read
              /\ Doubted(parts, last)[n].tree = fetches[n].tree
              /\ Doubted(parts, last)[n].accounts = fetches[n].accounts
              /\ Doubted(parts, last)[n].unseen =
                   IF fetches[n].read /\ n < last THEN fetches[n].unseen \cup parts
                                                  ELSE fetches[n].unseen
<1>1. PICK l \in Nat : DOMAIN fetches = 1..l /\ Len(fetches) = l
  OBVIOUS
<1>2. PICK q : q = Doubted(parts, last)
  OBVIOUS
<1>3. ASSUME NEW n \in 1..l
      PROVE  /\ q[n] \in Fetches
             /\ q[n].server = fetches[n].server /\ q[n].read = fetches[n].read
             /\ q[n].tree = fetches[n].tree /\ q[n].accounts = fetches[n].accounts
             /\ q[n].unseen = IF fetches[n].read /\ n < last THEN fetches[n].unseen \cup parts
                                                             ELSE fetches[n].unseen
  <2>1. PICK f \in Fetches : f = fetches[n]
    BY <1>1
  <2>2. PICK u : u = f.unseen \cup parts
    OBVIOUS
  <2>3. u \subseteq Parts
    BY <2>2 DEF Fetches
  <2>4. PICK g : g = [f EXCEPT !.unseen = u]
    OBVIOUS
  <2>5. /\ g \in Fetches /\ g.server = f.server /\ g.read = f.read /\ g.tree = f.tree
        /\ g.accounts = f.accounts /\ g.unseen = u
    BY <2>3, <2>4 DEF Fetches
  <2>6. q[n] = IF f.read /\ n < last THEN g ELSE f
    BY <1>1, <1>2, <2>1, <2>2, <2>4 DEF Doubted, Fetches
  <2>7. QED
    BY <2>1, <2>2, <2>5, <2>6
<1>4. q \in [1..l -> Fetches]
  <2>1. q = [n \in 1..l |-> q[n]]
    BY <1>1, <1>2 DEF Doubted
  <2>2. QED
    BY <1>3, <2>1
<1>5. q \in Seq(Fetches) /\ Len(q) = l /\ DOMAIN q = 1..l
  BY <1>4, <1>1
<1>6. QED
  BY <1>1, <1>2, <1>3, <1>5

-----------------------------------------------------------------------------
(* Every action keeps what makes a settled page true                       *)

LEMMA PageStarts == PageInit => PageInv
<1> SUFFICES ASSUME PageInit PROVE PageInv
  OBVIOUS
<1>1. truth \in [Servers -> Trees]
  <2>1. ASSUME NEW s \in Servers
        PROVE  [EmptyTree EXCEPT !.has = {i \in Made : HostOf[i] = s}] \in Trees
    BY ServersAssumption DEF EmptyTree, Trees
  <2>2. QED
    BY <2>1 DEF PageInit
<1>2. page = Mounted(NoItem) /\ page \in Whole
  BY MountedIsWhole DEF PageInit
<1>3. fetches = <<>> /\ fetches \in Seq(Fetches) /\ ~IsOpen
  BY ScreensAssumption DEF PageInit, IsOpen
<1>4. PageTyped
  BY <1>1, <1>2, <1>3 DEF PageInit, PageTyped
<1>5. DOMAIN fetches = {} /\ calls = {}
  BY <1>3 DEF PageInit
<1>6. QED
  BY <1>2, <1>3, <1>4, <1>5 DEF PageInv, ClosedIsFresh, ReadsAreTrue, PageIsTrue

(* Most actions change the page elsewhere, if they change it.              *)
LEMMA SameKeeps ==
  ASSUME PageInv, UNCHANGED <<truth, screen, calls, fetches, unheard>>,
         picks' \subseteq [server : Servers, stage : {"ensure", "discover"}],
         page' \in Whole, page'.tree = page.tree, ~IsOpen => page' = page
  PROVE  PageInv'
<1>1. PageTyped'
  BY DEF PageInv, PageTyped
<1>2. IsOpen' = IsOpen /\ ClosedIsFresh'
  BY DEF PageInv, ClosedIsFresh, IsOpen, Mounted
<1>3. ReadsAreTrue'
  BY DEF PageInv, ReadsAreTrue, Answered, Overtaken, Same, About
<1>4. PageIsTrue'
  BY <1>2 DEF PageInv, PageIsTrue, Promised, Fetching, Promises, Same, About
<1>5. QED
  BY <1>1, <1>2, <1>3, <1>4 DEF PageInv

(* A render that leaves the tree.                                          *)
LEMMA TurnsKeep ==
  ASSUME PageInv, IsOpen, UNCHANGED <<truth, screen, calls, fetches, unheard, picks>>,
         NEW p \in Whole, p.tree = page.tree, Turns(p)
  PROVE  PageInv'
<1>1. page' \in Whole /\ page'.tree = page.tree
  BY BecomesKeeps DEF Turns
<1>2. picks' \subseteq [server : Servers, stage : {"ensure", "discover"}]
  BY DEF PageInv, PageTyped
<1>3. QED
  BY <1>1, <1>2, SameKeeps

(* The page is left.                                                       *)
LEMMA UnmountedKeeps ==
  ASSUME PageInv, NEW to \in {"home", "other"}, Unmounted(to),
         UNCHANGED <<truth, picks, unheard>>
  PROVE  PageInv'
<1>1. screen' = to /\ fetches' = <<>> /\ page' = Mounted(NoItem)
  BY DEF Unmounted
<1>2. ~IsOpen'
  BY <1>1, ScreensAssumption DEF IsOpen
<1>3. calls' \subseteq Changes
  <2>1. ASSUME NEW k \in Changes PROVE [k EXCEPT !.ours = FALSE] \in Changes
    <3>1. CASE k \in [server : Servers, kind : {"arrange"}, what : Edits \X BOOLEAN,
                      stage : Stages, ours : BOOLEAN]
      BY <3>1 DEF Changes
    <3>2. CASE k \in [server : Servers, kind : {"create", "delete"},
                      what : {<<i>> : i \in Items}, stage : Stages, ours : BOOLEAN]
      BY <3>2 DEF Changes
    <3>3. QED
      BY <3>1, <3>2 DEF Changes
  <2>2. calls \subseteq Changes
    BY DEF PageInv, PageTyped
  <2>3. QED
    BY <2>1, <2>2 DEF Unmounted
<1>4. PageTyped'
  <2>1. page' \in Whole /\ fetches' \in Seq(Fetches)
    BY <1>1, MountedIsWhole
  <2>2. QED
    BY <1>1, <1>3, <2>1 DEF PageInv, PageTyped
<1>5. ClosedIsFresh'
  <2>1. Mounted(NoItem)' = Mounted(NoItem)
    BY DEF Mounted
  <2>2. \A k \in calls' : ~k.ours
    <3>1. CASE IsOpen
      <4>1. ASSUME NEW k \in Changes PROVE ~[k EXCEPT !.ours = FALSE].ours
        BY DEF Changes
      <4>2. QED
        BY <3>1, <4>1 DEF Unmounted, PageInv, PageTyped
    <3>2. CASE ~IsOpen
      BY <3>2 DEF Unmounted, PageInv, ClosedIsFresh
    <3>3. QED
      BY <3>1, <3>2
  <2>3. QED
    BY <1>1, <2>1, <2>2 DEF ClosedIsFresh
<1>6. DOMAIN fetches' = {}
  BY <1>1
<1>7. QED
  BY <1>2, <1>4, <1>5, <1>6 DEF PageInv, ReadsAreTrue, PageIsTrue

(* Another fetch is made, on account of all parts for a page that has just *)
(* come, or of the part that a change was about which is answered now.     *)
LEMMA RefreshedKeeps ==
  ASSUME PageInv, NEW s \in Servers, NEW parts \in SUBSET Parts,
         fetches' = Refreshed(s, parts), IsOpen', truth' = truth, page' \in Whole,
         screen' \in {"home", "other"} \cup Servers, unheard' \subseteq Parts,
         picks' \subseteq [server : Servers, stage : {"ensure", "discover"}],
         calls' \subseteq calls, \A k \in calls \ calls' : About(k) \in parts,
         \/ parts = Parts
         \/ UNCHANGED <<screen, page, unheard>>
  PROVE  PageInv'
<1>1. PICK n \in Nat : Len(fetches) = n /\ DOMAIN fetches = 1..n /\ fetches \in Seq(Fetches)
  BY DEF PageInv, PageTyped
<1>2. /\ fetches' \in Seq(Fetches) /\ Len(fetches') = n + 1
      /\ \A m \in 1..n : fetches'[m] = fetches[m]
      /\ ~fetches'[n + 1].read /\ fetches'[n + 1].accounts = parts
  <2>1. PICK f : f = [server |-> s, read |-> FALSE, tree |-> EmptyTree,
                      accounts |-> parts, unseen |-> {}]
    OBVIOUS
  <2>2. /\ Refreshed(s, parts) \in Seq(Fetches)
        /\ Len(Refreshed(s, parts)) = n + 1
        /\ \A m \in 1..n : Refreshed(s, parts)[m] = fetches[m]
        /\ Refreshed(s, parts)[n + 1] = f
    BY <1>1, <2>1, RefreshedIs
  <2>3. ~f.read /\ f.accounts = parts
    BY <2>1
  <2>4. QED
    BY <2>2, <2>3
<1>3. DOMAIN fetches' = 1..(n + 1)
  BY <1>1, <1>2
<1>4. PageTyped'
  <2>1. calls' \subseteq Changes /\ truth' \in [Servers -> Trees]
    BY DEF PageInv, PageTyped
  <2>2. QED
    BY <1>2, <2>1 DEF PageTyped
<1>5. ReadsAreTrue'
  <2>1. ASSUME NEW m \in 1..n, NEW part \in parts PROVE Overtaken(m, part)'
    <3>1. n + 1 \in DOMAIN fetches' /\ n + 1 > m
      BY <1>1, <1>3
    <3>2. QED
      BY <1>2, <3>1 DEF Overtaken
  <2>2. ASSUME NEW m \in 1..n, NEW part, Overtaken(m, part) PROVE Overtaken(m, part)'
    <3>1. PICK i \in 1..n : i > m /\ part \in fetches[i].accounts
      BY <1>1, <2>2 DEF Overtaken
    <3>2. i \in DOMAIN fetches' /\ fetches'[i] = fetches[i]
      BY <1>1, <1>2, <1>3
    <3>3. QED
      BY <3>1, <3>2 DEF Overtaken
  <2>3. ASSUME NEW part, Answered(part), part \notin parts PROVE Answered(part)'
    BY <2>3 DEF Answered, About
  <2>4. ASSUME NEW m \in DOMAIN fetches', fetches'[m].read,
               NEW part \in Parts \ fetches'[m].unseen
        PROVE  \/ Same(fetches'[m].tree, truth'[fetches'[m].server], part)
               \/ Answered(part)' \/ Overtaken(m, part)'
    <3>1. m \in 1..n /\ m \in DOMAIN fetches /\ fetches'[m] = fetches[m]
      BY <1>1, <1>2, <1>3, <2>4
    <3>2. \/ Same(fetches[m].tree, truth[fetches[m].server], part)
          \/ Answered(part) \/ Overtaken(m, part)
      BY <2>4, <3>1 DEF PageInv, ReadsAreTrue
    <3>3. QED
      BY <2>1, <2>2, <2>3, <3>1, <3>2
  <2>5. QED
    BY <2>4 DEF ReadsAreTrue, Same
<1>6. PageIsTrue'
  <2>1. ASSUME NEW part \in parts PROVE Fetching(part)'
    <3>1. n + 1 \in DOMAIN fetches'
      BY <1>1, <1>3
    <3>2. QED
      BY <1>2, <3>1 DEF Fetching
  <2>2. CASE parts = Parts
    BY <2>1, <2>2 DEF PageIsTrue, Parts, Edits, Items
  <2>3. CASE UNCHANGED <<screen, page, unheard>>
    <3>2. ASSUME NEW part, Promised(part), part \notin parts PROVE Promised(part)'
      BY <3>2 DEF Promised, Promises, About
    <3>3. ASSUME NEW part, Fetching(part) PROVE Fetching(part)'
      <4>1. PICK i \in 1..n : part \in fetches[i].accounts
        BY <1>1, <3>3 DEF Fetching
      <4>2. i \in DOMAIN fetches' /\ fetches'[i] = fetches[i]
        BY <1>1, <1>2, <1>3
      <4>3. QED
        BY <4>1, <4>2 DEF Fetching
    <3>4. IsOpen
      BY <2>3 DEF IsOpen
    <3>5. ASSUME NEW part \in Parts \ unheard
          PROVE  Same(page.tree, truth[screen], part) \/ Promised(part)' \/ Fetching(part)'
      BY <2>1, <3>2, <3>3, <3>4 DEF PageInv, PageIsTrue
    <3>6. QED
      BY <2>3, <3>5 DEF PageIsTrue, Same, Parts, Edits, Items
  <2>4. QED
    BY <2>2, <2>3
<1>7. QED
  BY <1>4, <1>5, <1>6 DEF PageInv, ClosedIsFresh

LEMMA ArriveKeeps ==
  ASSUME PageInv, NEW s \in Servers, NEW c \in Channels, Arrive(s, c), UNCHANGED <<truth, calls>>,
         picks' \subseteq [server : Servers, stage : {"ensure", "discover"}]
  PROVE  PageInv'
<1>1. PICK p : p = IF IsOpen THEN page ELSE Mounted(c)
  OBVIOUS
<1>2. p \in Whole
  BY <1>1, MountedIsWhole DEF PageInv, PageTyped
<1>3. screen' = s /\ IsOpen'
  BY DEF Arrive, IsOpen
<1>4. page' \in Whole /\ page'.tree = p.tree
  <2>1. Becomes(p, s, screen # s)
    BY <1>1 DEF Arrive
  <2>2. QED
    BY <1>2, <2>1, BecomesKeeps
<1>5. CASE screen = s
  <2>1. IsOpen /\ UNCHANGED <<screen, fetches, unheard>>
    BY <1>3, <1>5 DEF Arrive, IsOpen
  <2>2. QED
    BY <1>1, <1>4, <2>1, SameKeeps
<1>6. CASE screen # s
  <2>1. fetches' = Refreshed(s, Parts) /\ unheard' \subseteq Parts
    BY <1>6 DEF Arrive
  <2>2. screen' \in {"home", "other"} \cup Servers /\ calls \ calls' = {}
    BY <1>3
  <2>3. QED
    BY <1>3, <1>4, <2>1, <2>2, RefreshedKeeps
<1>7. QED
  BY <1>5, <1>6

(* A change is asked for by the page, which may show it already, but       *)
(* nothing beside it.                                                      *)
LEMMA AskKeepsPage ==
  ASSUME PageInv, IsOpen, NEW kind, NEW what, Ask(kind, what),
         \/ kind = "arrange" /\ what \in Edits \X BOOLEAN
         \/ kind \in {"create", "delete"} /\ what \in {<<i>> : i \in Items},
         UNCHANGED <<truth, screen, fetches, unheard, picks>>,
         page' \in Whole, kind = "create" => page' = page,
         \A part \in Parts \ {what[1]} :
           Same(page.tree, truth[screen], part) => Same(page'.tree, truth[screen], part)
  PROVE  PageInv'
<1>1. PICK k : k = [server |-> screen, kind |-> kind, what |-> what, stage |-> "asked",
                    ours |-> TRUE]
  OBVIOUS
<1>2. k \in Changes
  <2>1. screen \in Servers /\ "asked" \in Stages
    BY DEF IsOpen, Stages
  <2>2. CASE kind = "arrange" /\ what \in Edits \X BOOLEAN
    BY <1>1, <2>1, <2>2 DEF Changes
  <2>3. CASE kind \in {"create", "delete"} /\ what \in {<<i>> : i \in Items}
    BY <1>1, <2>1, <2>3 DEF Changes
  <2>4. QED
    BY <2>2, <2>3
<1>3. calls' = calls \cup {k} /\ k.ours /\ k.kind = kind /\ About(k) = what[1]
  BY <1>1 DEF Ask, About
<1>4. PageTyped'
  BY <1>2, <1>3 DEF PageInv, PageTyped
<1>5. IsOpen'
  BY DEF IsOpen
<1>6. ReadsAreTrue'
  <2>1. ASSUME NEW part, Answered(part) PROVE Answered(part)'
    BY <1>3, <2>1 DEF Answered, About
  <2>2. QED
    BY <2>1 DEF PageInv, ReadsAreTrue, Overtaken, Same
<1>7. PageIsTrue'
  <2>1. ASSUME NEW part, Promised(part) PROVE Promised(part)'
    BY <1>3, <2>1 DEF Promised, Promises, About
  <2>2. kind # "create" => Promised(what[1])'
    BY <1>3 DEF Promised, Promises, About
  <2>3. ASSUME NEW part \in Parts \ unheard
        PROVE  Same(page'.tree, truth[screen], part) \/ Promised(part)' \/ Fetching(part)
    <3>1. Same(page.tree, truth[screen], part) \/ Promised(part) \/ Fetching(part)
      BY DEF PageInv, PageIsTrue
    <3>2. CASE kind = "create"
      BY <2>1, <3>1, <3>2
    <3>3. CASE part # what[1]
      BY <2>1, <3>1, <3>3
    <3>4. QED
      BY <2>2, <3>2, <3>3
  <2>4. QED
    BY <2>3 DEF PageIsTrue, Fetching, Same, Parts, Edits, Items
<1>8. QED
  BY <1>4, <1>5, <1>6, <1>7 DEF PageInv, ClosedIsFresh

LEMMA ArrangeKeeps == ASSUME PageInv, NEW e \in Edits, Arrange(e) PROVE PageInv'
<1>1. PICK tree : tree = Rearranged(page.tree, e)
  OBVIOUS
<1>2. page \in Whole /\ page.tree \in Trees
  BY DEF PageInv, PageTyped, Whole
<1>3. tree \in Trees /\ tree.arr[e] \in BOOLEAN
  BY <1>1, <1>2 DEF Rearranged, Trees
<1>4. [page EXCEPT !.tree = tree] \in Whole
  BY <1>2, <1>3 DEF Whole
<1>5. /\ IsOpen /\ Turns([page EXCEPT !.tree = tree]) /\ Ask("arrange", <<e, tree.arr[e]>>)
      /\ UNCHANGED <<truth, screen, fetches, unheard, picks>>
  BY <1>1 DEF Arrange, Editing, choice, ghosts
<1>6. page' \in Whole /\ page'.tree = tree
  <2>1. PICK p : p = [page EXCEPT !.tree = tree]
    OBVIOUS
  <2>2. p \in Whole /\ p.tree = tree
    BY <1>2, <1>4, <2>1 DEF Whole
  <2>3. QED
    BY <1>5, <2>1, <2>2, BecomesKeeps DEF Turns
<1>7. PICK what : what = <<e, tree.arr[e]>>
  OBVIOUS
<1>8. what \in Edits \X BOOLEAN /\ what[1] = e
  BY <1>3, <1>7
<1>9. tree.has = page.tree.has /\ \A d \in Edits \ {e} : tree.arr[d] = page.tree.arr[d]
  BY <1>1, <1>2 DEF Rearranged, Trees
<1>10. \A part \in Parts \ {what[1]} :
         Same(page.tree, truth[screen], part) => Same(page'.tree, truth[screen], part)
  BY <1>6, <1>8, <1>9 DEF Same
<1>11. QED
  BY <1>5, <1>6, <1>7, <1>8, <1>10, AskKeepsPage

LEMMA AddKeeps == ASSUME PageInv, NEW i \in Items, Add(i) PROVE PageInv'
<1>1. IsOpen /\ Ask("create", <<i>>) /\ UNCHANGED <<truth, screen, fetches, unheard, picks, page>>
  BY DEF Add, Editing, choice, ghosts
<1>2. page' \in Whole
  BY <1>1 DEF PageInv, PageTyped
<1>3. \A part \in Parts \ {<<i>>[1]} :
        Same(page.tree, truth[screen], part) => Same(page'.tree, truth[screen], part)
  BY <1>1
<1>4. QED
  BY <1>1, <1>2, <1>3, AskKeepsPage

(* The tree is shown without a channel, and with another one open.         *)
LEMMA ShownIsWhole ==
  ASSUME NEW p \in Whole, NEW rest \in SUBSET Items, NEW opened \in Channels \cup {NoItem}
  PROVE  /\ [p EXCEPT !.confirm = NoItem, !.tree.has = rest] \in Whole
         /\ [[p EXCEPT !.confirm = NoItem, !.tree.has = rest]
               EXCEPT !.active = opened, !.bits = FALSE] \in Whole
         /\ [p EXCEPT !.confirm = NoItem, !.tree.has = rest].tree.has = rest
         /\ [p EXCEPT !.confirm = NoItem, !.tree.has = rest].tree.arr = p.tree.arr
         /\ [p EXCEPT !.confirm = NoItem, !.tree.has = rest].active = p.active
         /\ [p EXCEPT !.confirm = NoItem, !.tree.has = rest].unread = p.unread
         /\ [p EXCEPT !.confirm = NoItem, !.tree.has = rest].watch = p.watch
<1>1. PICK t : t = [p.tree EXCEPT !.has = rest]
  OBVIOUS
<1>2. t \in Trees /\ t.has = rest /\ t.arr = p.tree.arr
  BY <1>1 DEF Whole, Trees
<1>3. PICK q : q = [p EXCEPT !.confirm = NoItem, !.tree = t]
  OBVIOUS
<1>4. q \in Whole /\ q.tree = t /\ q.active = p.active /\ q.unread = p.unread /\ q.watch = p.watch
  BY <1>2, <1>3 DEF Whole
<1>5. [p EXCEPT !.confirm = NoItem, !.tree.has = rest] = q
  BY <1>1, <1>3 DEF Whole
<1>6. [q EXCEPT !.active = opened, !.bits = FALSE] \in Whole
  BY <1>4 DEF Whole
<1>7. QED
  BY <1>2, <1>4, <1>5, <1>6

LEMMA ConfirmDeleteKeeps == ASSUME PageInv, ConfirmDelete PROVE PageInv'
<1>1. PICK c : c = page.confirm
  OBVIOUS
<1>2. PICK rest : rest = page.tree.has \ {c}
  OBVIOUS
<1>3. PICK shown : shown = [page EXCEPT !.confirm = NoItem, !.tree.has = rest]
  OBVIOUS
<1>4. page \in Whole /\ c \in Channels /\ rest \subseteq Items
  BY <1>1, <1>2 DEF PageInv, PageTyped, Whole, Trees, ConfirmDelete
<1>5. /\ IsOpen /\ Ask("delete", <<c>>) /\ UNCHANGED <<truth, screen, fetches, unheard, picks>>
  BY <1>1 DEF ConfirmDelete, choice
<1>6. page' \in Whole /\ page'.tree.has = rest /\ page'.tree.arr = page.tree.arr
  <2>1. shown \in Whole /\ shown.tree.has = rest /\ shown.tree.arr = page.tree.arr
    BY <1>3, <1>4, ShownIsWhole
  <2>2. CASE page.active # c
    <3>1. Turns(shown)
      BY <1>1, <1>2, <1>3, <2>2 DEF ConfirmDelete
    <3>2. QED
      BY <2>1, <3>1, BecomesKeeps DEF Turns
  <2>3. CASE page.active = c
    <3>1. PICK opened \in IF rest \cap Channels = {} THEN {NoItem} ELSE rest \cap Channels :
             Turns([shown EXCEPT !.active = opened, !.bits = FALSE])
      BY <1>1, <1>2, <1>3, <2>3 DEF ConfirmDelete
    <3>2. opened \in Channels \cup {NoItem}
      BY <3>1
    <3>3. /\ [shown EXCEPT !.active = opened, !.bits = FALSE] \in Whole
          /\ [shown EXCEPT !.active = opened, !.bits = FALSE].tree = shown.tree
      BY <2>1, <3>2 DEF Whole
    <3>4. PICK p \in Whole : /\ p = [shown EXCEPT !.active = opened, !.bits = FALSE]
                            /\ p.tree = shown.tree
      BY <3>3
    <3>5. QED
      BY <2>1, <3>1, <3>4, BecomesKeeps DEF Turns
  <2>4. QED
    BY <2>2, <2>3
<1>7. <<c>> \in {<<i>> : i \in Items}
  BY <1>4 DEF Items
<1>8. \A part \in Parts \ {<<c>>[1]} :
        Same(page.tree, truth[screen], part) => Same(page'.tree, truth[screen], part)
  BY <1>2, <1>6 DEF Same
<1>9. QED
  BY <1>5, <1>6, <1>7, <1>8, AskKeepsPage

LEMMA StagedIsChange ==
  ASSUME NEW k \in Changes, NEW st \in Stages
  PROVE  /\ [k EXCEPT !.stage = st] \in Changes
         /\ [k EXCEPT !.stage = st].stage = st /\ [k EXCEPT !.stage = st].ours = k.ours
         /\ [k EXCEPT !.stage = st].kind = k.kind
         /\ [k EXCEPT !.stage = st].what = k.what
         /\ [k EXCEPT !.stage = st].server = k.server
<1>1. CASE k \in [server : Servers, kind : {"arrange"}, what : Edits \X BOOLEAN,
                  stage : Stages, ours : BOOLEAN]
  BY <1>1 DEF Changes
<1>2. CASE k \in [server : Servers, kind : {"create", "delete"},
                  what : {<<i>> : i \in Items}, stage : Stages, ours : BOOLEAN]
  BY <1>2 DEF Changes
<1>3. QED
  BY <1>1, <1>2 DEF Changes

LEMMA TruthChanges ==
  ASSUME PageTyped, NEW k \in Changes
  PROVE  [truth EXCEPT ![k.server] = Changed(@, k)] \in [Servers -> Trees]
<1>1. k.server \in Servers
  BY DEF Changes
<1>2. Changed(truth[k.server], k) \in Trees
  BY <1>1, ChangedIsTree DEF PageTyped
<1>3. QED
  BY <1>1, <1>2 DEF PageTyped

(* What an answer would have told of its part is in doubt, on the page and *)
(* in what was read so far.                                                *)
LEMMA NotHeardKeeps ==
  ASSUME PageInv, IsOpen, NEW k \in calls, k.stage = "asked", NotHeard(k),
         UNCHANGED <<screen, page, picks>>,
         \/ truth' = truth
         \/ truth' = [truth EXCEPT ![k.server] = Changed(@, k)],
         calls' \subseteq Changes, calls \ {k} \subseteq calls'
  PROVE  PageInv'
<1>1. k \in Changes /\ fetches \in Seq(Fetches) /\ About(k) \in Parts /\ screen \in Servers
  BY AboutIsPart DEF PageInv, PageTyped, IsOpen
<1>2. PICK n \in Nat : DOMAIN fetches = 1..n /\ Len(fetches) = n
  BY <1>1
<1>3. /\ unheard' = unheard \cup {About(k)} /\ fetches' = Doubted({About(k)}, Len(fetches) + 1)
      /\ \A m \in DOMAIN fetches : m < Len(fetches) + 1
  BY <1>2 DEF NotHeard
<1>4. /\ fetches' \in Seq(Fetches) /\ DOMAIN fetches' = DOMAIN fetches
      /\ \A m \in DOMAIN fetches : /\ fetches'[m].server = fetches[m].server
                                   /\ fetches'[m].read = fetches[m].read
                                   /\ fetches'[m].tree = fetches[m].tree
                                   /\ fetches'[m].accounts = fetches[m].accounts
                                   /\ fetches[m].read =>
                                        fetches'[m].unseen = fetches[m].unseen \cup {About(k)}
  <2>1. PICK parts \in SUBSET Parts : parts = {About(k)}
    BY <1>1
  <2>2. PICK last : last = Len(fetches) + 1
    OBVIOUS
  <2>3. fetches' = Doubted(parts, last) /\ \A m \in DOMAIN fetches : m < last
    BY <1>3, <2>1, <2>2
  <2>4. QED
    BY <1>1, <2>1, <2>3, DoubtedIs
<1>5. truth' \in [Servers -> Trees]
  BY <1>1, TruthChanges DEF PageInv, PageTyped
<1>6. PageTyped'
  BY <1>1, <1>3, <1>4, <1>5 DEF PageInv, PageTyped
<1>7. IsOpen'
  BY DEF IsOpen
<1>8. ASSUME NEW t, NEW s \in Servers, NEW part, part # About(k)
      PROVE  Same(t, truth[s], part) <=> Same(t, truth'[s], part)
  BY <1>1, <1>8, TruthElsewhere DEF PageInv
<1>9. ReadsAreTrue'
  <2>1. ASSUME NEW part, Answered(part) PROVE Answered(part)'
    BY <2>1 DEF Answered, About
  <2>2. ASSUME NEW m \in DOMAIN fetches, NEW part, Overtaken(m, part) PROVE Overtaken(m, part)'
    BY <1>4, <2>2 DEF Overtaken
  <2>3. ASSUME NEW m \in DOMAIN fetches', fetches'[m].read,
               NEW part \in Parts \ fetches'[m].unseen
        PROVE  \/ Same(fetches'[m].tree, truth'[fetches'[m].server], part)
               \/ Answered(part)' \/ Overtaken(m, part)'
    <3>1. /\ m \in DOMAIN fetches /\ fetches[m].read /\ part \notin fetches[m].unseen
          /\ part # About(k)
      BY <1>4, <2>3
    <3>2. \/ Same(fetches[m].tree, truth[fetches[m].server], part)
          \/ Answered(part) \/ Overtaken(m, part)
      BY <2>3, <3>1 DEF PageInv, ReadsAreTrue
    <3>3. fetches[m].server \in Servers
      BY <3>1, FetchIs DEF PageInv
    <3>4. QED
      BY <1>4, <1>8, <2>1, <2>2, <3>1, <3>2, <3>3
  <2>4. QED
    BY <2>3 DEF ReadsAreTrue, Same, Parts, Edits, Items
<1>10. PageIsTrue'
  <2>1. ASSUME NEW part \in Parts \ unheard'
        PROVE  Same(page.tree, truth'[screen], part) \/ Promised(part)' \/ Fetching(part)'
    <3>1. part \notin unheard /\ part # About(k)
      BY <1>3, <2>1
    <3>2. Same(page.tree, truth[screen], part) \/ Promised(part) \/ Fetching(part)
      BY <2>1, <3>1 DEF PageInv, PageIsTrue
    <3>3. Promised(part) => Promised(part)'
      BY <3>1 DEF Promised, Promises, About
    <3>4. Fetching(part) => Fetching(part)'
      BY <1>4 DEF Fetching
    <3>5. QED
      BY <1>1, <1>8, <3>1, <3>2, <3>3, <3>4
  <2>2. QED
    BY <2>1 DEF PageIsTrue, Same, Parts, Edits, Items
<1>11. QED
  BY <1>6, <1>7, <1>9, <1>10 DEF PageInv, ClosedIsFresh

LEMMA ServerDoesKeeps == ASSUME PageInv, NEW k \in calls, ServerDoes(k) PROVE PageInv'
<1>1. k \in Changes /\ k.stage = "asked" /\ UNCHANGED <<page, screen, picks>>
  BY DEF ServerDoes, PageInv, PageTyped, choice
<1>2. IsOpen' = IsOpen
  BY <1>1 DEF IsOpen
<1>3. CASE /\ truth' = [truth EXCEPT ![k.server] = Changed(@, k)]
           /\ calls' = (calls \ {k}) \cup {[k EXCEPT !.stage = "ok"]}
           /\ IF IsOpen /\ ~k.ours THEN NotHeard(k) ELSE UNCHANGED <<fetches, unheard>>
  <2>1. PICK l : l = [k EXCEPT !.stage = "ok"]
    OBVIOUS
  <2>2. l \in Changes /\ l.ours = k.ours /\ l.stage = "ok" /\ About(l) = About(k)
    BY <1>1, <2>1, StagedIsChange DEF Stages, About
  <2>3. calls' \subseteq Changes /\ l \in calls' /\ calls \ {k} \subseteq calls'
    BY <1>3, <2>1, <2>2 DEF PageInv, PageTyped
  <2>4. truth' \in [Servers -> Trees]
    BY <1>1, <1>3, TruthChanges DEF PageInv
  <2>5. CASE IsOpen /\ ~k.ours
    BY <1>1, <1>3, <2>3, <2>5, NotHeardKeeps
  <2>6. CASE ~(IsOpen /\ ~k.ours)
    <3>1. UNCHANGED <<fetches, unheard>>
      BY <1>3, <2>6
    <3>2. PageTyped'
      BY <1>1, <2>3, <2>4, <3>1 DEF PageInv, PageTyped
    <3>3. ClosedIsFresh'
      BY <1>1, <1>2, <1>3, <2>1, <2>2, <3>1 DEF PageInv, ClosedIsFresh, Mounted
    <3>4. CASE ~IsOpen
      <4>1. DOMAIN fetches' = {}
        BY <3>1, <3>4 DEF PageInv, ClosedIsFresh
      <4>2. QED
        BY <1>2, <3>2, <3>3, <3>4, <4>1 DEF PageInv, ReadsAreTrue, PageIsTrue
    <3>5. CASE IsOpen
      <4>1. l.ours /\ Promises(l)
        BY <2>2, <2>6, <3>5 DEF Promises
      <4>2. Answered(About(k))' /\ Promised(About(k))'
        BY <2>2, <2>3, <4>1 DEF Answered, Promised, Promises, About
      <4>3. ASSUME NEW part, Answered(part) PROVE Answered(part)'
        BY <1>1, <2>3, <4>3 DEF Answered, About
      <4>4. ASSUME NEW part, part # About(k), Promised(part) PROVE Promised(part)'
        BY <2>3, <4>4 DEF Promised, Promises, About
      <4>5. ASSUME NEW t, NEW s \in Servers, NEW part, part # About(k)
            PROVE  Same(t, truth[s], part) <=> Same(t, truth'[s], part)
        BY <1>1, <1>3, <4>5, TruthElsewhere DEF PageInv
      <4>6. ReadsAreTrue'
        <5>1. ASSUME NEW m \in DOMAIN fetches, fetches[m].read,
                     NEW part \in Parts \ fetches[m].unseen
              PROVE  \/ Same(fetches[m].tree, truth'[fetches[m].server], part)
                     \/ Answered(part)' \/ Overtaken(m, part)
          <6>1. \/ Same(fetches[m].tree, truth[fetches[m].server], part)
                \/ Answered(part) \/ Overtaken(m, part)
            BY <5>1 DEF PageInv, ReadsAreTrue
          <6>2. fetches[m].server \in Servers
            BY FetchIs DEF PageInv
          <6>3. QED
            BY <4>2, <4>3, <4>5, <6>1, <6>2
        <5>2. QED
          BY <3>1, <5>1 DEF ReadsAreTrue, Overtaken, Same, Parts, Edits, Items
      <4>7. PageIsTrue'
        <5>1. ASSUME NEW part \in Parts \ unheard
              PROVE  Same(page.tree, truth'[screen], part) \/ Promised(part)' \/ Fetching(part)
          <6>1. Same(page.tree, truth[screen], part) \/ Promised(part) \/ Fetching(part)
            BY <3>5 DEF PageInv, PageIsTrue
          <6>2. QED
            BY <3>5, <4>2, <4>4, <4>5, <6>1 DEF IsOpen
        <5>2. QED
          BY <1>1, <3>1, <5>1 DEF PageIsTrue, Fetching, Same, Parts, Edits, Items
      <4>8. QED
        BY <3>2, <3>3, <4>6, <4>7 DEF PageInv
    <3>6. QED
      BY <3>4, <3>5
  <2>7. QED
    BY <2>5, <2>6
<1>4. CASE /\ calls' = (calls \ {k}) \cup {[k EXCEPT !.stage = "refused"]}
           /\ UNCHANGED <<truth, fetches, unheard>>
  <2>1. PICK l : l = [k EXCEPT !.stage = "refused"]
    OBVIOUS
  <2>2. l \in Changes /\ l.ours = k.ours /\ l.kind = k.kind /\ About(l) = About(k)
    BY <1>1, <2>1, StagedIsChange DEF Stages, About
  <2>3. calls' = (calls \ {k}) \cup {l}
    BY <1>4, <2>1
  <2>4. PageTyped'
    BY <1>1, <1>4, <2>2, <2>3 DEF PageInv, PageTyped
  <2>5. ClosedIsFresh'
    BY <1>1, <1>2, <1>4, <2>2, <2>3 DEF PageInv, ClosedIsFresh, Mounted
  <2>6. ASSUME NEW part, Answered(part) PROVE Answered(part)'
    BY <1>1, <2>3, <2>6 DEF Answered, About
  <2>7. ReadsAreTrue'
    BY <1>4, <2>6 DEF PageInv, ReadsAreTrue, Overtaken, Same
  <2>8. ASSUME NEW part, Promised(part) PROVE Promised(part)'
    <3>1. PICK j \in calls : Promises(j) /\ About(j) = part
      BY <2>8 DEF Promised
    <3>2. PICK i \in calls' : Promises(i) /\ About(i) = part
      <4>1. CASE j = k
        BY <1>1, <2>2, <2>3, <3>1, <4>1 DEF Promises
      <4>2. CASE j # k
        BY <2>3, <3>1, <4>2
      <4>3. QED
        BY <4>1, <4>2
    <3>3. QED
      BY <3>2 DEF Promised, Promises, About
  <2>9. PageIsTrue'
    BY <1>1, <1>2, <1>4, <2>8 DEF PageInv, PageIsTrue, Fetching, Same
  <2>10. QED
    BY <2>4, <2>5, <2>7, <2>9 DEF PageInv
<1>5. QED
  BY <1>3, <1>4 DEF ServerDoes

LEMMA CallLostKeeps == ASSUME PageInv, NEW k \in calls, CallLost(k) PROVE PageInv'
<1>1. k \in Changes /\ UNCHANGED <<page, screen, picks>> /\ calls' \subseteq Changes
  BY DEF CallLost, PageInv, PageTyped, choice
<1>2. truth' \in [Servers -> Trees]
  <2>1. truth' = [truth EXCEPT ![k.server] = Changed(@, k)] \/ truth' = truth
    BY DEF CallLost
  <2>2. QED
    BY <1>1, <2>1, TruthChanges DEF PageInv, PageTyped
<1>3. CASE IsOpen
  <2>1. /\ k.stage = "asked" /\ NotHeard(k) /\ calls \ {k} \subseteq calls'
        /\ truth' = truth \/ truth' = [truth EXCEPT ![k.server] = Changed(@, k)]
    BY <1>3 DEF CallLost
  <2>2. QED
    BY <1>1, <1>3, <2>1, NotHeardKeeps
<1>4. CASE ~IsOpen
  <2>1. UNCHANGED <<fetches, unheard>> /\ ~IsOpen'
    BY <1>1, <1>4 DEF CallLost, IsOpen
  <2>2. ClosedIsFresh' /\ DOMAIN fetches' = {}
    BY <1>1, <1>4, <2>1 DEF PageInv, ClosedIsFresh, Mounted, CallLost
  <2>3. PageTyped'
    BY <1>1, <1>2, <2>1 DEF PageInv, PageTyped
  <2>4. QED
    BY <2>1, <2>2, <2>3 DEF PageInv, ReadsAreTrue, PageIsTrue
<1>5. QED
  BY <1>3, <1>4

LEMMA CallAnsweredKeeps == ASSUME PageInv, NEW k \in calls, CallAnswered(k) PROVE PageInv'
<1>1. /\ k \in Changes /\ k.stage # "asked" /\ calls' = calls \ {k}
      /\ UNCHANGED <<page, screen, picks, truth, unheard>>
  BY DEF CallAnswered, PageInv, PageTyped, choice, ghosts
<1>2. k.server \in Servers /\ k.stage \in Stages
  BY <1>1 DEF Changes
<1>3. CASE k.ours /\ IsFollowed(k) /\ IsOpen
  <2>1. fetches' = Refreshed(k.server, {About(k)}) /\ IsOpen'
    BY <1>1, <1>3 DEF CallAnswered, IsOpen
  <2>2. PageTyped
    BY DEF PageInv
  <2>3. /\ page' \in Whole /\ screen' \in {"home", "other"} \cup Servers /\ unheard' \subseteq Parts
        /\ picks' \subseteq [server : Servers, stage : {"ensure", "discover"}]
        /\ calls' \subseteq calls /\ \A c \in calls \ calls' : About(c) \in {About(k)}
    BY <1>1, <2>2 DEF PageTyped, About
  <2>4. QED
    BY <1>1, <1>2, <2>1, <2>3, AboutIsPart, RefreshedKeeps
<1>4. CASE ~(k.ours /\ IsFollowed(k)) 
  <2>1. fetches' = fetches
    BY <1>4 DEF CallAnswered
  <2>2. PageTyped'
    BY <1>1, <2>1 DEF PageInv, PageTyped
  <2>3. IsOpen' = IsOpen /\ ClosedIsFresh'
    BY <1>1, <2>1 DEF PageInv, ClosedIsFresh, IsOpen, Mounted
  <2>4. ~Promises(k) /\ ~(k.ours /\ k.stage = "ok")
    BY <1>4 DEF Promises, IsFollowed
  <2>5. ReadsAreTrue'
    <3>1. ASSUME NEW part, Answered(part) PROVE Answered(part)'
      BY <1>1, <2>4, <3>1 DEF Answered, About
    <3>2. QED
      BY <1>1, <2>1, <3>1 DEF PageInv, ReadsAreTrue, Overtaken, Same
  <2>6. PageIsTrue'
    <3>1. ASSUME NEW part, Promised(part) PROVE Promised(part)'
      BY <1>1, <2>4, <3>1 DEF Promised, Promises, About
    <3>2. QED
      BY <1>1, <2>1, <2>3, <3>1 DEF PageInv, PageIsTrue, Fetching, Same
  <2>7. QED
    BY <2>2, <2>3, <2>5, <2>6 DEF PageInv
<1>5. k.ours => IsOpen
  BY DEF PageInv, ClosedIsFresh
<1>6. QED
  BY <1>3, <1>4, <1>5

(* A sequence without the element at a position.                           *)
LEMMA RemoveAtIs ==
  ASSUME NEW S, NEW q \in Seq(S), NEW p \in 1..Len(q)
  PROVE  /\ RemoveAt(q, p) \in Seq(S) /\ Len(RemoveAt(q, p)) = Len(q) - 1
         /\ \A i \in 1..(Len(q) - 1) :
              RemoveAt(q, p)[i] = IF i < p THEN q[i] ELSE q[i + 1]
<1>1. Len(q) \in Nat /\ p \in Nat /\ p >= 1 /\ p <= Len(q)
  OBVIOUS
<1>2. PICK a : a = SubSeq(q, 1, p - 1)
  OBVIOUS
<1>3. PICK b : b = SubSeq(q, p + 1, Len(q))
  OBVIOUS
<1>4. /\ a \in Seq(S) /\ Len(a) = p - 1
      /\ \A i \in 1..(p - 1) : a[i] = q[i]
  BY <1>1, <1>2
<1>5. /\ b \in Seq(S) /\ Len(b) = Len(q) - p
      /\ \A i \in 1..(Len(q) - p) : b[i] = q[p + i]
  BY <1>1, <1>3
<1>6. RemoveAt(q, p) = a \o b
  BY <1>2, <1>3 DEF RemoveAt
<1>7. a \o b \in Seq(S) /\ Len(a \o b) = Len(q) - 1
  <2>1. a \in Seq(S) /\ b \in Seq(S)
    BY <1>4, <1>5
  <2>2. a \o b \in Seq(S)
    BY <2>1
  <2>3. Len(a \o b) = Len(a) + Len(b)
    BY <2>1
  <2>4. (p - 1) + (Len(q) - p) = Len(q) - 1
    BY <1>1
  <2>5. QED
    BY <1>4, <1>5, <2>2, <2>3, <2>4
<1>8. ASSUME NEW i \in 1..(Len(q) - 1) PROVE (a \o b)[i] = IF i < p THEN q[i] ELSE q[i + 1]
  <2>1. CASE i < p
    <3>1. i \in 1..Len(a) /\ i \in 1..(p - 1)
      BY <1>1, <1>4, <2>1
    <3>2. (a \o b)[i] = a[i]
      BY <1>4, <1>5, <3>1
    <3>3. QED
      BY <1>4, <2>1, <3>1, <3>2
  <2>2. CASE ~(i < p)
    <3>1. i \in (Len(a) + 1)..(Len(a) + Len(b)) /\ i - Len(a) = i - p + 1
          /\ i - p + 1 \in 1..(Len(q) - p) /\ p + (i - p + 1) = i + 1
      BY <1>1, <1>4, <1>5, <2>2
    <3>2. (a \o b)[i] = b[i - Len(a)]
      BY <1>4, <1>5, <3>1
    <3>3. b[i - p + 1] = q[i + 1]
      BY <1>5, <3>1
    <3>4. QED
      BY <2>2, <3>1, <3>2, <3>3
  <2>3. QED
    BY <2>1, <2>2
<1>9. QED
  BY <1>6, <1>7, <1>8

(* One fetch is over; of the others no more is changed than that those     *)
(* before it are in doubt of the parts that it was made on account of.     *)
LEMMA OneIsOver ==
  ASSUME PageInv, NEW n \in DOMAIN fetches,
         fetches' = RemoveAt(Doubted(fetches[n].accounts, n), n),
         UNCHANGED <<truth, screen, calls, picks>>,
         page' \in Whole, unheard' \subseteq Parts
  PROVE  /\ PageTyped' /\ IsOpen /\ ClosedIsFresh' /\ ReadsAreTrue'
         /\ \A m \in DOMAIN fetches \ {n} :
              \E i \in DOMAIN fetches' : fetches'[i].accounts = fetches[m].accounts
<1>1. PICK l \in Nat : DOMAIN fetches = 1..l /\ Len(fetches) = l /\ fetches \in Seq(Fetches)
  BY DEF PageInv, PageTyped
<1>2. PICK parts \in SUBSET Parts : parts = fetches[n].accounts
  BY FetchIs DEF PageInv
<1>3. PICK q : q = Doubted(parts, n)
  OBVIOUS
<1>4. /\ q \in Seq(Fetches) /\ Len(q) = l
      /\ \A m \in 1..l : /\ q[m].server = fetches[m].server
                         /\ q[m].read = fetches[m].read
                         /\ q[m].tree = fetches[m].tree
                         /\ q[m].accounts = fetches[m].accounts
                         /\ q[m].unseen = IF fetches[m].read /\ m < n
                                            THEN fetches[m].unseen \cup parts
                                            ELSE fetches[m].unseen
  <2>1. /\ Doubted(parts, n) \in Seq(Fetches) /\ Len(Doubted(parts, n)) = Len(fetches)
        /\ \A m \in DOMAIN fetches :
             /\ Doubted(parts, n)[m].server = fetches[m].server
             /\ Doubted(parts, n)[m].read = fetches[m].read
             /\ Doubted(parts, n)[m].tree = fetches[m].tree
             /\ Doubted(parts, n)[m].accounts = fetches[m].accounts
             /\ Doubted(parts, n)[m].unseen =
                  IF fetches[m].read /\ m < n THEN fetches[m].unseen \cup parts
                                              ELSE fetches[m].unseen
    BY <1>1, DoubtedIs
  <2>2. QED
    BY <1>1, <1>3, <2>1
<1>5. /\ fetches' \in Seq(Fetches) /\ Len(fetches') = l - 1
      /\ \A i \in 1..(l - 1) : fetches'[i] = IF i < n THEN q[i] ELSE q[i + 1]
  <2>1. PICK r : r = RemoveAt(q, n)
    OBVIOUS
  <2>2. /\ r \in Seq(Fetches) /\ Len(r) = l - 1
        /\ \A i \in 1..(l - 1) : r[i] = IF i < n THEN q[i] ELSE q[i + 1]
    BY <1>1, <1>4, <2>1, RemoveAtIs
  <2>3. fetches' = r
    BY <1>2, <1>3, <2>1
  <2>4. QED
    BY <2>2, <2>3
<1>6. DOMAIN fetches' = 1..(l - 1)
  <2>1. DOMAIN fetches' = 1..Len(fetches')
    BY <1>5
  <2>2. QED
    BY <1>5, <2>1
<1>7. PageTyped'
  BY <1>5 DEF PageInv, PageTyped
<1>8. IsOpen /\ ClosedIsFresh'
  BY <1>1 DEF PageInv, ClosedIsFresh, IsOpen
<1>9. ASSUME NEW m \in (1..l) \ {n}
      PROVE  \E i \in 1..(l - 1) : fetches'[i] = q[m] /\ (i = IF m < n THEN m ELSE m - 1)
  <2>1. PICK i : i = IF m < n THEN m ELSE m - 1
    OBVIOUS
  <2>2. i \in 1..(l - 1) /\ (m < n => i < n) /\ (~(m < n) => ~(i < n) /\ i + 1 = m)
    BY <1>1, <2>1
  <2>3. fetches'[i] = q[m]
    BY <1>5, <2>1, <2>2
  <2>4. QED
    BY <2>1, <2>2, <2>3
<1>10. ASSUME NEW i \in 1..(l - 1), fetches'[i].read, NEW part \in Parts \ fetches'[i].unseen
       PROVE  \/ Same(fetches'[i].tree, truth[fetches'[i].server], part)
              \/ Answered(part) \/ Overtaken(i, part)'
  <2>1. PICK j : j = IF i < n THEN i ELSE i + 1
    OBVIOUS
  <2>2. n \in 1..l /\ j \in 1..l /\ j # n /\ j >= i
    BY <1>1, <2>1
  <2>3. fetches'[i] = q[j]
    BY <1>5, <2>1
  <2>4. /\ fetches[j].read /\ part \notin fetches[j].unseen
        /\ j < n => part \notin parts
        /\ fetches'[i].tree = fetches[j].tree /\ fetches'[i].server = fetches[j].server
    <3>1. /\ q[j].server = fetches[j].server /\ q[j].tree = fetches[j].tree
          /\ q[j].read = fetches[j].read
          /\ q[j].unseen = IF fetches[j].read /\ j < n THEN fetches[j].unseen \cup parts
                                                       ELSE fetches[j].unseen
      BY <1>4, <2>2
    <3>2. q[j].read /\ part \notin q[j].unseen
      BY <1>10, <2>3
    <3>3. QED
      BY <2>3, <3>1, <3>2
  <2>5. \/ Same(fetches[j].tree, truth[fetches[j].server], part)
        \/ Answered(part) \/ Overtaken(j, part)
    BY <1>1, <1>10, <2>2, <2>4 DEF PageInv, ReadsAreTrue
  <2>6. CASE Overtaken(j, part)
    <3>1. PICK m \in 1..l : m > j /\ part \in fetches[m].accounts
      BY <1>1, <2>6 DEF Overtaken
    <3>2. m # n
      BY <1>2, <2>2, <2>4, <3>1
    <3>3. PICK h \in 1..(l - 1) : fetches'[h] = q[m] /\ (h = IF m < n THEN m ELSE m - 1)
      BY <1>9, <3>1, <3>2
    <3>4. h > i
      BY <1>1, <2>1, <2>2, <3>1, <3>2, <3>3
    <3>5. part \in fetches'[h].accounts
      BY <1>4, <3>1, <3>3
    <3>6. QED
      BY <1>6, <3>4, <3>5 DEF Overtaken
  <2>7. QED
    BY <2>4, <2>5, <2>6
<1>11. ReadsAreTrue'
  BY <1>6, <1>10 DEF ReadsAreTrue, Answered, About, Same, Parts, Edits, Items
<1>12. ASSUME NEW m \in DOMAIN fetches \ {n}
       PROVE  \E i \in DOMAIN fetches' : fetches'[i].accounts = fetches[m].accounts
  <2>1. m \in (1..l) \ {n}
    BY <1>1
  <2>2. PICK i \in 1..(l - 1) : fetches'[i] = q[m]
    BY <1>9, <2>1
  <2>3. q[m].accounts = fetches[m].accounts
    BY <1>4, <2>1
  <2>4. QED
    BY <1>6, <2>2, <2>3
<1>13. QED
  BY <1>7, <1>8, <1>11, <1>12

LEMMA FetchLostKeeps == ASSUME PageInv, NEW n \in DOMAIN fetches, FetchLost(n) PROVE PageInv'
<1>1. /\ fetches' = RemoveAt(Doubted(fetches[n].accounts, n), n)
      /\ unheard' = unheard \cup fetches[n].accounts
      /\ UNCHANGED <<truth, screen, calls, picks, page>>
  BY DEF FetchLost, choice
<1>2. page' \in Whole /\ unheard' \subseteq Parts
  BY <1>1, FetchIs DEF PageInv, PageTyped
<1>3. /\ PageTyped' /\ IsOpen /\ ClosedIsFresh' /\ ReadsAreTrue'
      /\ \A m \in DOMAIN fetches \ {n} :
           \E i \in DOMAIN fetches' : fetches'[i].accounts = fetches[m].accounts
  BY <1>1, <1>2, OneIsOver
<1>4. ASSUME NEW part \in Parts \ unheard'
      PROVE  Same(page.tree, truth[screen], part) \/ Promised(part) \/ Fetching(part)'
  <2>1. part \notin unheard /\ part \notin fetches[n].accounts
    BY <1>1, <1>4
  <2>2. Same(page.tree, truth[screen], part) \/ Promised(part) \/ Fetching(part)
    BY <1>3, <1>4, <2>1 DEF PageInv, PageIsTrue
  <2>3. Fetching(part) => Fetching(part)'
    BY <1>3, <2>1 DEF Fetching
  <2>4. QED
    BY <2>2, <2>3
<1>5. PageIsTrue'
  BY <1>1, <1>4 DEF PageIsTrue, Promised, Promises, About, Same, Parts, Edits, Items
<1>6. QED
  BY <1>3, <1>5 DEF PageInv

LEMMA FetchedKeeps == ASSUME PageInv, NEW n \in DOMAIN fetches, Fetched(n) PROVE PageInv'
<1>1. /\ fetches[n].read /\ Turns([page EXCEPT !.tree = fetches[n].tree])
      /\ fetches' = RemoveAt(Doubted(fetches[n].accounts, n), n)
      /\ unheard' = IF fetches[n].server = screen THEN fetches[n].unseen ELSE Parts
      /\ UNCHANGED <<truth, screen, calls, picks>>
  BY DEF Fetched, choice
<1>2. fetches[n] \in Fetches /\ page \in Whole
  BY DEF PageInv, PageTyped
<1>3. unheard' \subseteq Parts
  BY <1>1, <1>2 DEF Fetches
<1>4. page' \in Whole /\ page'.tree = fetches[n].tree
  <2>1. PICK p : p = [page EXCEPT !.tree = fetches[n].tree]
    OBVIOUS
  <2>2. p \in Whole /\ p.tree = fetches[n].tree
    BY <1>2, <2>1 DEF Whole, Fetches
  <2>3. QED
    BY <1>1, <2>1, <2>2, BecomesKeeps DEF Turns
<1>5. /\ PageTyped' /\ ClosedIsFresh' /\ ReadsAreTrue'
      /\ \A m \in DOMAIN fetches \ {n} :
           \E i \in DOMAIN fetches' : fetches'[i].accounts = fetches[m].accounts
  BY <1>1, <1>3, <1>4, OneIsOver
<1>6. ASSUME NEW part \in Parts \ unheard'
      PROVE  Same(page'.tree, truth[screen], part) \/ Promised(part) \/ Fetching(part)'
  <2>1. fetches[n].server = screen /\ part \notin fetches[n].unseen
    BY <1>1, <1>6
  <2>2. Same(fetches[n].tree, truth[screen], part) \/ Answered(part) \/ Overtaken(n, part)
    BY <1>1, <1>6, <2>1 DEF PageInv, ReadsAreTrue
  <2>3. Answered(part) => Promised(part)
    BY DEF Answered, Promised, Promises
  <2>4. Overtaken(n, part) => Fetching(part)'
    <3>1. \A m \in DOMAIN fetches : m > n => m # n
      BY DEF PageInv, PageTyped
    <3>2. QED
      BY <1>5, <3>1 DEF Overtaken, Fetching
  <2>5. QED
    BY <1>4, <2>2, <2>3, <2>4
<1>7. PageIsTrue'
  BY <1>1, <1>6 DEF PageIsTrue, Promised, Promises, About, Same, Parts, Edits, Items
<1>8. QED
  BY <1>5, <1>7 DEF PageInv

LEMMA ReadsKeeps == ASSUME PageInv, NEW n \in DOMAIN fetches, Reads(n) PROVE PageInv'
<1>1. PICK part \in {Items, Channels, Folders, {}} :
        fetches' = [fetches EXCEPT
          ![n].read = TRUE, ![n].unseen = Items \ part,
          ![n].tree = [truth[fetches[n].server] EXCEPT !.has = @ \cap part]]
  BY DEF Reads
<1>2. UNCHANGED <<truth, screen, calls, picks, page, unheard>>
  BY DEF Reads, choice, ghosts
<1>3. PICK l \in Nat : DOMAIN fetches = 1..l /\ Len(fetches) = l /\ fetches \in Seq(Fetches)
  BY DEF PageInv, PageTyped
<1>4. PICK f \in Fetches : f = fetches[n]
  BY <1>3
<1>5. PICK t \in Trees : t = truth[f.server]
  BY DEF Fetches, PageInv, PageTyped
<1>6. PICK u : u = [t EXCEPT !.has = @ \cap part]
  OBVIOUS
<1>7. u \in Trees /\ \A x \in Parts \ (Items \ part) : Same(u, t, x)
  <2>1. t.has \subseteq Items
    BY DEF Trees
  <2>2. u.has = t.has \cap part /\ u.arr = t.arr /\ u \in Trees
    BY <1>6, <2>1 DEF Trees
  <2>3. ASSUME NEW x \in Items, x \notin Items \ part PROVE x \in u.has <=> x \in t.has
    BY <2>2, <2>3
  <2>4. QED
    BY <2>2, <2>3 DEF Same
<1>8. Items \ part \subseteq Parts
  BY DEF Parts
<1>9. PICK g : g = [f EXCEPT !.read = TRUE, !.unseen = Items \ part, !.tree = u]
  OBVIOUS
<1>10. /\ g \in Fetches /\ g.unseen = Items \ part /\ g.tree = u /\ g.server = f.server
       /\ g.accounts = f.accounts
  BY <1>7, <1>8, <1>9 DEF Fetches
<1>11. fetches' = [fetches EXCEPT ![n] = g]
  BY <1>1, <1>3, <1>4, <1>5, <1>6, <1>9 DEF Fetches
<1>12. /\ fetches' \in Seq(Fetches) /\ DOMAIN fetches' = DOMAIN fetches
       /\ \A m \in DOMAIN fetches : fetches'[m] = IF m = n THEN g ELSE fetches[m]
  <2>1. fetches' \in [1..l -> Fetches]
    BY <1>3, <1>10, <1>11
  <2>2. QED
    BY <1>3, <1>11, <2>1
<1>13. PageTyped'
  BY <1>2, <1>12 DEF PageInv, PageTyped
<1>14. IsOpen /\ IsOpen'
  BY <1>2, <1>3 DEF PageInv, ClosedIsFresh, IsOpen
<1>15. \A m \in DOMAIN fetches : fetches'[m].accounts = fetches[m].accounts
  BY <1>4, <1>10, <1>12
<1>16. ReadsAreTrue'
  <2>1. ASSUME NEW m \in DOMAIN fetches', fetches'[m].read,
               NEW x \in Parts \ fetches'[m].unseen
        PROVE  \/ Same(fetches'[m].tree, truth[fetches'[m].server], x)
               \/ Answered(x) \/ Overtaken(m, x)'
    <3>1. CASE m = n
      BY <1>5, <1>7, <1>10, <1>12, <2>1, <3>1
    <3>2. CASE m # n
      <4>1. fetches'[m] = fetches[m] /\ m \in DOMAIN fetches
        BY <1>12, <2>1, <3>2
      <4>2. \/ Same(fetches[m].tree, truth[fetches[m].server], x)
            \/ Answered(x) \/ Overtaken(m, x)
        BY <2>1, <4>1 DEF PageInv, ReadsAreTrue
      <4>3. Overtaken(m, x) => Overtaken(m, x)'
        BY <1>12, <1>15 DEF Overtaken
      <4>4. QED
        BY <4>1, <4>2, <4>3
    <3>3. QED
      BY <3>1, <3>2
  <2>2. QED
    BY <1>2, <2>1 DEF ReadsAreTrue, Answered, About, Same, Parts, Edits, Items
<1>17. PageIsTrue'
  <2>1. ASSUME NEW x, Fetching(x) PROVE Fetching(x)'
    BY <1>12, <1>15, <2>1 DEF Fetching
  <2>2. QED
    BY <1>2, <1>14, <2>1 DEF PageInv, PageIsTrue, Promised, Promises, About, Same
<1>18. QED
  BY <1>13, <1>14, <1>16, <1>17 DEF PageInv, ClosedIsFresh

-----------------------------------------------------------------------------
LEMMA PicksKeep == ASSUME PageInv, Picks PROVE PageInv'
<1>1. ASSUME NEW s \in Servers, PickServer(s) PROVE PageInv'
  <2>1. /\ picks' = picks \cup {[server |-> s, stage |-> "ensure"]}
        /\ UNCHANGED <<truth, screen, calls, fetches, unheard, page>>
    BY <1>1 DEF PickServer, ghosts
  <2>2. picks' \subseteq [server : Servers, stage : {"ensure", "discover"}]
    BY <2>1 DEF PageInv, PageTyped
  <2>3. page' \in Whole
    BY <2>1 DEF PageInv, PageTyped
  <2>4. QED
    BY <2>1, <2>2, <2>3, SameKeeps
<1>2. ASSUME NEW k \in picks, Ensured(k) PROVE PageInv'
  <2>1. k \in [server : Servers, stage : {"ensure", "discover"}] /\ page \in Whole
    BY DEF PageInv, PageTyped
  <2>2. [k EXCEPT !.stage = "discover"] \in [server : Servers, stage : {"ensure", "discover"}]
    BY <2>1
  <2>3. /\ picks' = (picks \ {k}) \cup {[k EXCEPT !.stage = "discover"]} \/ picks' = picks \ {k}
        /\ UNCHANGED <<truth, screen, calls, fetches, unheard, page>>
    BY <1>2 DEF Ensured, PickEnds, ghosts
  <2>4. picks' \subseteq [server : Servers, stage : {"ensure", "discover"}]
    BY <2>2, <2>3 DEF PageInv, PageTyped
  <2>5. QED
    BY <2>1, <2>3, <2>4, SameKeeps
<1>3. ASSUME NEW k \in picks, Discovered(k) PROVE PageInv'
  <2>1. k.server \in Servers /\ page \in Whole
    BY DEF PageInv, PageTyped
  <2>2. picks' \subseteq [server : Servers, stage : {"ensure", "discover"}]
    BY <1>3 DEF Discovered, PickEnds, PageInv, PageTyped
  <2>3. UNCHANGED <<truth, calls>>
    BY <1>3 DEF Discovered
  <2>4. CASE \E c \in Generals(k.server) : Arrive(k.server, c)
    <3>1. PICK c \in Generals(k.server) : Arrive(k.server, c)
      BY <2>4
    <3>2. c \in Channels
      BY DEF Generals
    <3>3. QED
      BY <2>1, <2>2, <2>3, <3>1, <3>2, ArriveKeeps
  <2>5. CASE UNCHANGED <<badge, screen, page, fetches, ghosts>>
    <3>1. UNCHANGED <<screen, page, fetches, unheard>>
      BY <2>5 DEF ghosts
    <3>2. QED
      BY <2>1, <2>2, <2>3, <3>1, SameKeeps
  <2>6. QED
    BY <1>3, <2>4, <2>5 DEF Discovered
<1>4. ASSUME NEW to \in {"home", "other"}, Leave(to) PROVE PageInv'
  <2>1. Unmounted(to) /\ UNCHANGED <<truth, picks, unheard>>
    BY <1>4 DEF Leave, ghosts
  <2>2. QED
    BY <2>1, UnmountedKeeps
<1>5. ASSUME NEW s \in Servers, NEW target \in Servers, MoveWorkspace(s, target) PROVE PageInv'
  <2>1. UNCHANGED <<truth, screen, calls, fetches, unheard, page, picks>>
    BY <1>5 DEF MoveWorkspace, choice, ghosts
  <2>2. page' \in Whole /\ picks' \subseteq [server : Servers, stage : {"ensure", "discover"}]
    BY <2>1 DEF PageInv, PageTyped
  <2>3. QED
    BY <2>1, <2>2, SameKeeps
<1>6. QED
  BY <1>1, <1>2, <1>3, <1>4, <1>5 DEF Picks

LEMMA OpensKeep == ASSUME PageInv, Opens PROVE PageInv'
<1>0. page \in Whole /\ picks \subseteq [server : Servers, stage : {"ensure", "discover"}]
  BY DEF PageInv, PageTyped
<1>1. ASSUME NEW c \in Channels, SelectChannel(c) PROVE PageInv'
  <2>1. PICK p : p = [page EXCEPT !.active = c, !.bits = FALSE]
    OBVIOUS
  <2>2. p \in Whole /\ p.tree = page.tree
    BY <1>0, <2>1 DEF Whole
  <2>3. Turns(p) /\ IsOpen /\ UNCHANGED <<truth, screen, calls, fetches, unheard, picks>>
    BY <1>1, <2>1 DEF SelectChannel, choice
  <2>4. QED
    BY <2>2, <2>3, TurnsKeep
<1>2. ASSUME PaneJoined PROVE PageInv'
  <2>1. /\ IsOpen /\ page' = [page EXCEPT !.bits = TRUE]
        /\ UNCHANGED <<truth, screen, calls, fetches, unheard, picks>>
    BY <1>2 DEF PaneJoined, choice, ghosts
  <2>2. page' \in Whole /\ page'.tree = page.tree
    BY <1>0, <2>1 DEF Whole
  <2>3. QED
    BY <1>0, <2>1, <2>2, SameKeeps
<1>3. ASSUME RemovedIsHandled PROVE PageInv'
  <2>1. Unmounted("home") /\ UNCHANGED <<truth, picks, unheard>>
    BY <1>3 DEF RemovedIsHandled, ghosts
  <2>2. QED
    BY <2>1, UnmountedKeeps
<1>4. ASSUME NEW reason \in {"kicked", "banned"}, Removed(reason) PROVE PageInv'
  <2>1. /\ IsOpen /\ page' = [page EXCEPT !.removed = reason]
        /\ UNCHANGED <<truth, screen, calls, fetches, unheard, picks>>
    BY <1>4 DEF Removed, choice, ghosts
  <2>2. page' \in Whole /\ page'.tree = page.tree
    BY <1>0, <2>1 DEF Whole
  <2>3. QED
    BY <1>0, <2>1, <2>2, SameKeeps
<1>5. QED
  BY <1>1, <1>2, <1>3, <1>4 DEF Opens

LEMMA RearrangesKeep == ASSUME PageInv, Rearranges PROVE PageInv'
<1>0. page \in Whole /\ picks \subseteq [server : Servers, stage : {"ensure", "discover"}]
  BY DEF PageInv, PageTyped
<1>1. ASSUME Toggle PROVE PageInv'
  <2>1. /\ IsOpen /\ page' = [page EXCEPT !.edit = ~@]
        /\ UNCHANGED <<truth, screen, calls, fetches, unheard, picks>>
    BY <1>1 DEF Toggle, choice, ghosts
  <2>2. page' \in Whole /\ page'.tree = page.tree
    BY <1>0, <2>1 DEF Whole
  <2>3. QED
    BY <1>0, <2>1, <2>2, SameKeeps
<1>2. ASSUME CancelDelete PROVE PageInv'
  <2>1. /\ IsOpen /\ page' = [page EXCEPT !.confirm = NoItem]
        /\ UNCHANGED <<truth, screen, calls, fetches, unheard, picks>>
    BY <1>2 DEF CancelDelete, choice, ghosts
  <2>2. page' \in Whole /\ page'.tree = page.tree
    BY <1>0, <2>1 DEF Whole
  <2>3. QED
    BY <1>0, <2>1, <2>2, SameKeeps
<1>3. ASSUME NEW c \in Channels, AskDelete(c) PROVE PageInv'
  <2>1. /\ IsOpen /\ page' = [page EXCEPT !.confirm = c]
        /\ UNCHANGED <<truth, screen, calls, fetches, unheard, picks>>
    BY <1>3 DEF AskDelete, Editing, choice, ghosts
  <2>2. page' \in Whole /\ page'.tree = page.tree
    BY <1>0, <2>1 DEF Whole
  <2>3. QED
    BY <1>0, <2>1, <2>2, SameKeeps
<1>4. QED
  BY <1>1, <1>2, <1>3, ConfirmDeleteKeeps, ArrangeKeeps, AddKeeps DEF Rearranges

LEMMA CountsKeep == ASSUME PageInv, Counts PROVE PageInv'
<1>0. page \in Whole /\ picks \subseteq [server : Servers, stage : {"ensure", "discover"}]
  BY DEF PageInv, PageTyped
<1>1. ASSUME Watching PROVE PageInv'
  <2>1. PICK joined \in {{}, {c \in Watched(page) : HostOf[c] = screen}} :
          page' = [page EXCEPT !.asking = FALSE, !.watch = joined]
    BY <1>1 DEF Watching
  <2>2. IsOpen /\ UNCHANGED <<truth, screen, calls, fetches, unheard, picks>>
    BY <1>1 DEF Watching, choice, ghosts
  <2>3. joined \subseteq Channels
    BY DEF Watched
  <2>4. page' \in Whole /\ page'.tree = page.tree
    BY <1>0, <2>1, <2>3 DEF Whole
  <2>5. QED
    BY <1>0, <2>2, <2>4, SameKeeps
<1>2. ASSUME NEW c \in Channels, Posted(c) PROVE PageInv'
  <2>1. UNCHANGED <<truth, screen, calls, fetches, unheard, picks>>
    BY <1>2 DEF Posted, choice
  <2>2. CASE c \in page.watch /\ Turns([page EXCEPT !.unread[c] = @ + 1])
    <3>1. PICK u : u = [page.unread EXCEPT ![c] = @ + 1]
      OBVIOUS
    <3>2. u \in [Channels -> Nat]
      BY <1>0, <3>1 DEF Whole
    <3>3. PICK p : p = [page EXCEPT !.unread[c] = @ + 1]
      OBVIOUS
    <3>4. p = [page EXCEPT !.unread = u]
      BY <1>0, <3>1, <3>3 DEF Whole
    <3>5. p \in Whole /\ p.tree = page.tree
      BY <1>0, <3>2, <3>4 DEF Whole
    <3>6. IsOpen
      BY <2>2, MountedIsWhole DEF PageInv, ClosedIsFresh
    <3>7. QED
      BY <2>1, <2>2, <3>3, <3>5, <3>6, TurnsKeep
  <2>3. CASE page' = page
    BY <1>0, <2>1, <2>3, SameKeeps
  <2>4. QED
    BY <1>2, <2>2, <2>3 DEF Posted
<1>3. ASSUME NEW c \in Channels, ReadElsewhere(c) PROVE PageInv'
  <2>1. /\ c \in page.watch /\ Turns([page EXCEPT !.unread[c] = 0])
        /\ UNCHANGED <<truth, screen, calls, fetches, unheard, picks>>
    BY <1>3 DEF ReadElsewhere, choice
  <2>2. PICK u : u = [page.unread EXCEPT ![c] = 0]
    OBVIOUS
  <2>3. u \in [Channels -> Nat]
    BY <1>0, <2>2 DEF Whole
  <2>4. PICK p : p = [page EXCEPT !.unread[c] = 0]
    OBVIOUS
  <2>5. p = [page EXCEPT !.unread = u]
    BY <1>0, <2>2, <2>4 DEF Whole
  <2>6. p \in Whole /\ p.tree = page.tree
    BY <1>0, <2>3, <2>5 DEF Whole
  <2>7. IsOpen
    BY <2>1, MountedIsWhole DEF PageInv, ClosedIsFresh
  <2>8. QED
    BY <2>1, <2>4, <2>6, <2>7, TurnsKeep
<1>4. QED
  BY <1>1, <1>2, <1>3 DEF Counts

LEMMA PageSteps == PageInv /\ [PageNext]_pageVars => PageInv'
<1> SUFFICES ASSUME PageInv, [PageNext]_pageVars PROVE PageInv'
  OBVIOUS
<1>1. CASE UNCHANGED pageVars
  <2>1. UNCHANGED <<truth, screen, calls, fetches, unheard, picks, page>>
    BY <1>1 DEF pageVars, choice, ghosts
  <2>2. page' \in Whole /\ picks' \subseteq [server : Servers, stage : {"ensure", "discover"}]
    BY <2>1 DEF PageInv, PageTyped
  <2>3. QED
    BY <2>1, <2>2, SameKeeps
<1>2. CASE Answers
  BY <1>2, ServerDoesKeeps, CallLostKeeps, CallAnsweredKeeps, ReadsKeeps, FetchedKeeps,
     FetchLostKeeps DEF Answers
<1>3. QED
  BY <1>1, <1>2, PicksKeep, OpensKeep, RearrangesKeep, CountsKeep DEF PageNext

(* Each part of a tree that a fetch has read is that of its server, unless *)
(* that part was missing or has been in doubt since, or else an answer or  *)
(* a later fetch that will have it is still to come.  Hence a page that    *)
(* waits for no answer and no fetch (ServerScreen.tsx, chat/server-tree.ts)*)
(* shows every part as its server holds it, but for those in doubt: what a *)
(* lost call, a lost fetch that was to follow one, or a change of a page   *)
(* that was left was about, what a partial tree lacks, and a tree of the   *)
(* workspace before.                                                       *)
THEOREM SettledPage == PageSpec => []SettledTreeIsServers
<1>1. PageInv => SettledTreeIsServers
  <2> SUFFICES ASSUME PageInv, IsOpen, fetches = <<>>, \A k \in calls : ~k.ours,
                      NEW part \in Parts \ unheard
               PROVE  Same(page.tree, truth[screen], part)
    BY DEF SettledTreeIsServers
  <2>1. ~Promised(part) /\ ~Fetching(part)
    BY DEF Promised, Promises, Fetching
  <2>2. QED
    BY <2>1 DEF PageInv, PageIsTrue
<1>2. QED
  BY <1>1, PageStarts, PageSteps, PTL DEF PageSpec

-----------------------------------------------------------------------------
(* Sums.  The library defines them by recursion over the subsets of a set; *)
(* what follows reasons by induction over sets of numbers.                 *)

LEMMA SmallestNumber ==
  ASSUME NEW T, T \subseteq Nat, T # {}
  PROVE  \E m \in T : \A n \in T : m <= n
<1>1. PICK R : R = OpToRel(<, Nat)
  OBVIOUS
<1>2. IsWellFoundedOn(R, Nat)
  BY <1>1, NatLessThanWellFounded
<1>3. \A x, y \in Nat : x < y => <<x, y>> \in R
  BY <1>1 DEF OpToRel
<1>4. PICK x \in T : \A y \in T : ~(<<y, x>> \in R)
  BY <1>2, WFMin
<1>5. ASSUME NEW y \in T PROVE x <= y
  <2>1. ~(y < x)
    BY <1>3, <1>4
  <2>2. QED
    BY <2>1
<1>6. QED
  BY <1>5

LEMMA AllNumbers ==
  ASSUME NEW N, N \subseteq Nat, 0 \in N, \A n \in N : n + 1 \in N
  PROVE  N = Nat
<1>1. SUFFICES ASSUME Nat \ N # {} PROVE FALSE
  OBVIOUS
<1>2. PICK m \in Nat \ N : \A n \in Nat \ N : m <= n
  BY <1>1, SmallestNumber
<1>3. m # 0 /\ m - 1 \in Nat
  BY <1>2
<1>4. m - 1 \in N
  <2>1. ~(m <= m - 1)
    BY <1>2
  <2>2. QED
    BY <1>2, <1>3, <2>1
<1>5. QED
  BY <1>2, <1>4

Picked(s) == CHOOSE x \in s : TRUE
SumFrom(f, h, s) == IF s = {} THEN 0 ELSE f[Picked(s)] + h[s \ {Picked(s)}]
Sums(f, S, h) == h = [s \in SUBSET S |-> SumFrom(f, h, s)]

LEMMA SumIsChosen ==
  ASSUME NEW f, NEW S
  PROVE  SumFunctionOnSet(f, S) = (CHOOSE h : Sums(f, S, h))[S]
  BY DEF SumFunctionOnSet, FoldFunctionOnSet, MapThenFoldSet, Sums, SumFrom, Picked

LEMMA AnyIs == ASSUME NEW s, s # {} PROVE Picked(s) \in s
  BY DEF Picked

(* Without one element there is one less.                                  *)
LEMMA OneLess ==
  ASSUME NEW s, IsFiniteSet(s), NEW x \in s
  PROVE  /\ IsFiniteSet(s \ {x}) /\ Cardinality(s) \in Nat /\ Cardinality(s) # 0
         /\ Cardinality(s \ {x}) \in Nat /\ Cardinality(s \ {x}) = Cardinality(s) - 1
<1>1. IsFiniteSet(s \ {x}) /\ Cardinality(s \ {x}) = Cardinality(s) - 1
  BY FS_RemoveElement
<1>2. Cardinality(s) \in Nat /\ Cardinality(s \ {x}) \in Nat
  BY <1>1, FS_CardinalityType
<1>3. QED
  BY <1>1, <1>2

(* There is such a function.                                               *)
LEMMA SumsExist ==
  ASSUME NEW S, IsFiniteSet(S), NEW f \in [S -> Nat]
  PROVE  \E h : Sums(f, S, h)
<1>1. PICK N : N = {n \in Nat : \E h \in [SUBSET S -> Nat] :
                     \A s \in SUBSET S : Cardinality(s) <= n => h[s] = SumFrom(f, h, s)}
  OBVIOUS
<1>2. \A s \in SUBSET S : IsFiniteSet(s) /\ Cardinality(s) \in Nat
  BY FS_Subset, FS_CardinalityType
<1>3. 0 \in N
  <2>1. PICK h : h = [s \in SUBSET S |-> 0]
    OBVIOUS
  <2>2. ASSUME NEW s \in SUBSET S, Cardinality(s) <= 0 PROVE h[s] = SumFrom(f, h, s)
    <3>1. Cardinality(s) = 0
      BY <1>2, <2>2
    <3>2. s = {}
      BY <1>2, <3>1, FS_EmptySet
    <3>3. QED
      BY <2>1, <3>2 DEF SumFrom
  <2>3. h \in [SUBSET S -> Nat]
    BY <2>1
  <2>4. QED
    BY <1>1, <2>2, <2>3
<1>4. ASSUME NEW n \in N PROVE n + 1 \in N
  <2>1. PICK h \in [SUBSET S -> Nat] :
           \A s \in SUBSET S : Cardinality(s) <= n => h[s] = SumFrom(f, h, s)
    BY <1>1
  <2>2. PICK g : g = [s \in SUBSET S |-> SumFrom(f, h, s)]
    OBVIOUS
  <2>3. ASSUME NEW s \in SUBSET S PROVE SumFrom(f, h, s) \in Nat
    <3>1. CASE s = {}
      BY <3>1 DEF SumFrom
    <3>2. CASE s # {}
      <4>1. Picked(s) \in S /\ s \ {Picked(s)} \in SUBSET S
        BY <3>2, AnyIs
      <4>2. f[Picked(s)] \in Nat /\ h[s \ {Picked(s)}] \in Nat
        BY <2>1, <4>1
      <4>3. QED
        BY <3>2, <4>2 DEF SumFrom
    <3>3. QED
      BY <3>1, <3>2
  <2>4. g \in [SUBSET S -> Nat]
    BY <2>2, <2>3
  <2>5. ASSUME NEW s \in SUBSET S, Cardinality(s) <= n + 1 PROVE g[s] = SumFrom(f, g, s)
    <3>1. CASE s = {}
      BY <2>2, <3>1 DEF SumFrom
    <3>2. CASE s # {}
      <4>1. PICK r : r = s \ {Picked(s)}
        OBVIOUS
      <4>2. Picked(s) \in s /\ r \in SUBSET S
        BY <3>2, <4>1, AnyIs
      <4>3. Cardinality(r) \in Nat /\ Cardinality(r) = Cardinality(s) - 1
        BY <1>2, <4>1, <4>2, OneLess
      <4>4. Cardinality(r) <= n
        <5>1. n \in Nat /\ Cardinality(s) \in Nat
          BY <1>1, <1>2
        <5>2. QED
          BY <2>5, <4>3, <5>1
      <4>5. g[r] = h[r]
        BY <2>1, <2>2, <4>2, <4>4
      <4>6. g[s] = f[Picked(s)] + h[r]
        BY <2>2, <3>2, <4>1 DEF SumFrom
      <4>7. QED
        BY <3>2, <4>1, <4>5, <4>6 DEF SumFrom
    <3>3. QED
      BY <3>1, <3>2
  <2>6. n + 1 \in Nat
    BY <1>1
  <2>7. QED
    BY <1>1, <2>4, <2>5, <2>6
<1>5. N = Nat
  BY <1>1, <1>3, <1>4, AllNumbers
<1>6. Cardinality(S) \in N
  BY <1>5, FS_CardinalityType
<1>7. PICK h \in [SUBSET S -> Nat] :
         \A s \in SUBSET S : Cardinality(s) <= Cardinality(S) => h[s] = SumFrom(f, h, s)
  BY <1>1, <1>6
<1>8. \A s \in SUBSET S : Cardinality(s) <= Cardinality(S)
  BY FS_Subset
<1>9. h = [s \in SUBSET S |-> SumFrom(f, h, s)]
  BY <1>7, <1>8
<1>10. QED
  BY <1>9 DEF Sums

(* Two such functions agree where both are defined, and give numbers.      *)
LEMMA SumsAgree ==
  ASSUME NEW D, NEW f \in [D -> Nat], NEW S \in SUBSET D, NEW T \in SUBSET D,
         IsFiniteSet(S), IsFiniteSet(T), NEW h, NEW g, Sums(f, S, h), Sums(f, T, g)
  PROVE  \A s \in SUBSET (S \cap T) : h[s] = g[s] /\ h[s] \in Nat
<1>1. PICK N : N = {n \in Nat : \A s \in SUBSET (S \cap T) :
                     Cardinality(s) = n => h[s] = g[s] /\ h[s] \in Nat}
  OBVIOUS
<1>2. \A s \in SUBSET (S \cap T) : /\ IsFiniteSet(s) /\ Cardinality(s) \in Nat
                                   /\ s \in SUBSET S /\ s \in SUBSET T
  <2>1. ASSUME NEW s \in SUBSET (S \cap T) PROVE s \in SUBSET S /\ s \in SUBSET T
    OBVIOUS
  <2>2. QED
    BY <2>1, FS_Subset, FS_CardinalityType
<1>3. \A s \in SUBSET (S \cap T) : h[s] = SumFrom(f, h, s) /\ g[s] = SumFrom(f, g, s)
  <2>1. \A s \in SUBSET S : h[s] = SumFrom(f, h, s)
    BY DEF Sums
  <2>2. \A s \in SUBSET T : g[s] = SumFrom(f, g, s)
    BY DEF Sums
  <2>3. QED
    BY <1>2, <2>1, <2>2
<1>4. 0 \in N
  <2>1. ASSUME NEW s \in SUBSET (S \cap T), Cardinality(s) = 0 PROVE h[s] = g[s] /\ h[s] \in Nat
    <3>1. s = {}
      BY <1>2, <2>1, FS_EmptySet
    <3>2. SumFrom(f, h, s) = 0 /\ SumFrom(f, g, s) = 0
      BY <3>1 DEF SumFrom
    <3>3. h[s] = 0 /\ g[s] = 0
      BY <1>3, <3>2
    <3>4. QED
      BY <3>3
  <2>2. QED
    BY <1>1, <2>1
<1>5. ASSUME NEW n \in N PROVE n + 1 \in N
  <2>1. n \in Nat
    BY <1>1
  <2>2. ASSUME NEW s \in SUBSET (S \cap T), Cardinality(s) = n + 1
        PROVE  h[s] = g[s] /\ h[s] \in Nat
    <3>1. s # {}
      BY <2>1, <2>2, FS_EmptySet
    <3>2. PICK r : r = s \ {Picked(s)}
      OBVIOUS
    <3>3. Picked(s) \in s /\ Picked(s) \in D /\ r \in SUBSET (S \cap T)
      <4>1. Picked(s) \in s
        BY <3>1, AnyIs
      <4>2. PICK x : x = Picked(s)
        OBVIOUS
      <4>3. x \in s
        BY <4>1, <4>2
      <4>4. x \in D
        BY <4>3
      <4>5. r = s \ {x}
        BY <3>2, <4>2
      <4>6. r \in SUBSET (S \cap T)
        BY <4>5
      <4>7. QED
        BY <4>1, <4>2, <4>4, <4>6
    <3>4. Cardinality(r) = n
      <4>1. IsFiniteSet(s) /\ Picked(s) \in s
        BY <1>2, <3>3
      <4>2. Cardinality(r) \in Nat /\ Cardinality(r) = Cardinality(s) - 1
        <5>1. PICK x : x = Picked(s)
          OBVIOUS
        <5>2. x \in s /\ r = s \ {x}
          BY <3>2, <4>1, <5>1
        <5>3. QED
          BY <4>1, <5>2, OneLess
      <4>3. QED
        BY <2>1, <2>2, <4>2
    <3>5. h[r] = g[r] /\ h[r] \in Nat
      BY <1>1, <3>3, <3>4
    <3>6. f[Picked(s)] \in Nat
      BY <3>3
    <3>7. h[s] = f[Picked(s)] + h[r] /\ g[s] = f[Picked(s)] + g[r]
      BY <1>3, <3>1, <3>2 DEF SumFrom
    <3>8. QED
      BY <3>5, <3>6, <3>7
  <2>3. n + 1 \in Nat
    BY <2>1
  <2>4. QED
    BY <1>1, <2>2, <2>3
<1>6. N = Nat
  BY <1>1, <1>4, <1>5, AllNumbers
<1>7. QED
  BY <1>1, <1>2, <1>6

(* The sum over no elements, and with one element more.                    *)
LEMMA SumOfNone == ASSUME NEW f PROVE SumFunctionOnSet(f, {}) = 0
<1>1. PICK h : h = [s \in SUBSET {} |-> 0]
  OBVIOUS
<1>2. Sums(f, {}, h)
  <2>1. \A s \in SUBSET {} : SumFrom(f, h, s) = 0
    BY DEF SumFrom
  <2>2. QED
    BY <1>1, <2>1 DEF Sums
<1>3. PICK g : g = CHOOSE i : Sums(f, {}, i)
  OBVIOUS
<1>4. Sums(f, {}, g)
  BY <1>2, <1>3
<1>5. g[{}] = SumFrom(f, g, {})
  BY <1>4 DEF Sums
<1>6. g[{}] = 0
  BY <1>5 DEF SumFrom
<1>7. QED
  BY <1>3, <1>6, SumIsChosen

LEMMA SumsAre ==
  ASSUME NEW D, NEW f \in [D -> Nat], NEW S \in SUBSET D, IsFiniteSet(S)
  PROVE  \E h : Sums(f, S, h)
<1>1. PICK e : e = [x \in S |-> f[x]]
  OBVIOUS
<1>2. e \in [S -> Nat]
  BY <1>1
<1>3. PICK g : Sums(e, S, g)
  BY <1>2, SumsExist
<1>4. ASSUME NEW r \in SUBSET S PROVE SumFrom(e, g, r) = SumFrom(f, g, r)
  <2>1. CASE r = {}
    BY <2>1 DEF SumFrom
  <2>2. CASE r # {}
    <3>1. Picked(r) \in S
      BY <2>2, AnyIs
    <3>2. e[Picked(r)] = f[Picked(r)]
      BY <1>1, <3>1
    <3>3. QED
      BY <2>2, <3>2 DEF SumFrom
  <2>3. QED
    BY <2>1, <2>2
<1>5. Sums(f, S, g)
  BY <1>3, <1>4 DEF Sums
<1>6. QED
  BY <1>5

LEMMA SumIs ==
  ASSUME NEW D, NEW f \in [D -> Nat], NEW S \in SUBSET D, IsFiniteSet(S),
         NEW h, Sums(f, S, h), NEW s \in SUBSET S
  PROVE  SumFunctionOnSet(f, s) = h[s] /\ h[s] \in Nat
<1>1. IsFiniteSet(s) /\ s \in SUBSET D
  BY FS_Subset
<1>3. \E g : Sums(f, s, g)
  BY <1>1, SumsAre
<1>4. PICK g : g = CHOOSE i : Sums(f, s, i)
  OBVIOUS
<1>5. Sums(f, s, g)
  BY <1>3, <1>4
<1>6. s \in SUBSET (S \cap s)
  OBVIOUS
<1>7. h[s] = g[s] /\ h[s] \in Nat
  BY <1>1, <1>5, <1>6, SumsAgree
<1>8. QED
  BY <1>4, <1>7, SumIsChosen

LEMMA SumIsNumber ==
  ASSUME NEW D, NEW f \in [D -> Nat], NEW S \in SUBSET D, IsFiniteSet(S)
  PROVE  SumFunctionOnSet(f, S) \in Nat
<1>1. PICK h : Sums(f, S, h)
  BY SumsAre
<1>2. S \in SUBSET S
  OBVIOUS
<1>3. QED
  BY <1>1, <1>2, SumIs

(* The element that the library takes first.                               *)
LEMMA SumWithFirst ==
  ASSUME NEW D, NEW f \in [D -> Nat], NEW S \in SUBSET D, IsFiniteSet(S), S # {}
  PROVE  /\ Picked(S) \in S
         /\ SumFunctionOnSet(f, S) = f[Picked(S)] + SumFunctionOnSet(f, S \ {Picked(S)})
<1>1. PICK h : Sums(f, S, h)
  BY SumsAre
<1>2. Picked(S) \in S
  BY AnyIs
<1>3. S \in SUBSET S /\ S \ {Picked(S)} \in SUBSET S
  OBVIOUS
<1>4. h[S] = f[Picked(S)] + h[S \ {Picked(S)}]
  BY <1>1, <1>3 DEF Sums, SumFrom
<1>5. SumFunctionOnSet(f, S) = h[S]
  BY <1>1, <1>3, SumIs
<1>6. SumFunctionOnSet(f, S \ {Picked(S)}) = h[S \ {Picked(S)}]
  BY <1>1, <1>3, SumIs
<1>7. QED
  BY <1>2, <1>4, <1>5, <1>6

(* Any element may be taken first.                                         *)
LEMMA SumWith ==
  ASSUME NEW D, NEW f \in [D -> Nat], IsFiniteSet(D)
  PROVE  \A S \in SUBSET D : \A x \in S :
           SumFunctionOnSet(f, S) = f[x] + SumFunctionOnSet(f, S \ {x})
<1>1. PICK N : N = {n \in Nat : \A S \in SUBSET D : Cardinality(S) = n => \A x \in S :
                     SumFunctionOnSet(f, S) = f[x] + SumFunctionOnSet(f, S \ {x})}
  OBVIOUS
<1>2. \A S \in SUBSET D : /\ IsFiniteSet(S) /\ Cardinality(S) \in Nat
                          /\ SumFunctionOnSet(f, S) \in Nat
  BY FS_Subset, FS_CardinalityType, SumIsNumber
<1>3. 0 \in N
  <2>1. \A S \in SUBSET D : Cardinality(S) = 0 => S = {}
    BY <1>2, FS_EmptySet
  <2>2. QED
    BY <1>1, <2>1
<1>4. ASSUME NEW n \in N PROVE n + 1 \in N
  <2>1. n \in Nat /\ n + 1 \in Nat
    BY <1>1
  <2>2. ASSUME NEW S \in SUBSET D, Cardinality(S) = n + 1, NEW x \in S
        PROVE  SumFunctionOnSet(f, S) = f[x] + SumFunctionOnSet(f, S \ {x})
    <3>1. PICK y : y = Picked(S)
      OBVIOUS
    <3>2. y \in S /\ SumFunctionOnSet(f, S) = f[y] + SumFunctionOnSet(f, S \ {y})
      <4>1. S # {}
        OBVIOUS
      <4>2. QED
        BY <1>2, <3>1, <4>1, SumWithFirst
    <3>3. CASE x = y
      BY <3>2, <3>3
    <3>4. CASE x # y
      <4>1. PICK u : u = S \ {y}
        OBVIOUS
      <4>2. PICK v : v = S \ {x}
        OBVIOUS
      <4>3. PICK w : w = S \ {x, y}
        OBVIOUS
      <4>4. /\ u \in SUBSET D /\ v \in SUBSET D /\ w \in SUBSET D
            /\ x \in u /\ y \in v /\ u \ {x} = w /\ v \ {y} = w
        BY <3>2, <3>4, <4>1, <4>2, <4>3
      <4>5. Cardinality(u) = n /\ Cardinality(v) = n
        BY <1>2, <2>1, <2>2, <3>2, <4>1, <4>2, OneLess
      <4>6. SumFunctionOnSet(f, u) = f[x] + SumFunctionOnSet(f, w)
        BY <1>1, <4>4, <4>5
      <4>7. SumFunctionOnSet(f, v) = f[y] + SumFunctionOnSet(f, w)
        BY <1>1, <4>4, <4>5
      <4>8. f[x] \in Nat /\ f[y] \in Nat /\ SumFunctionOnSet(f, w) \in Nat
        BY <1>2, <3>2, <4>4
      <4>9. QED
        BY <3>2, <4>1, <4>2, <4>6, <4>7, <4>8
    <3>5. QED
      BY <3>3, <3>4
  <2>3. QED
    BY <1>1, <2>1, <2>2
<1>5. N = Nat
  BY <1>1, <1>3, <1>4, AllNumbers
<1>6. QED
  BY <1>1, <1>2, <1>5

(* A sum is no greater than another one of which every summand finds its   *)
(* own, no smaller.                                                        *)
LEMMA SumWithin ==
  ASSUME NEW D, IsFiniteSet(D), NEW f \in [D -> Nat], NEW g \in [D -> Nat]
  PROVE  \A S \in SUBSET D : \A T \in SUBSET D :
           (\A x \in S : f[x] = 0 \/ (x \in T /\ f[x] <= g[x]))
             => SumFunctionOnSet(f, S) <= SumFunctionOnSet(g, T)
<1> DEFINE Meets(S, T) == \A x \in S : f[x] = 0 \/ (x \in T /\ f[x] <= g[x])
<1>1. PICK N : N = {n \in Nat : \A S \in SUBSET D : \A T \in SUBSET D :
                     Cardinality(S) = n /\ Meets(S, T)
                       => SumFunctionOnSet(f, S) <= SumFunctionOnSet(g, T)}
  OBVIOUS
<1>2. \A S \in SUBSET D : /\ IsFiniteSet(S) /\ Cardinality(S) \in Nat
                          /\ SumFunctionOnSet(f, S) \in Nat /\ SumFunctionOnSet(g, S) \in Nat
  BY FS_Subset, FS_CardinalityType, SumIsNumber
<1>3. 0 \in N
  <2>1. ASSUME NEW S \in SUBSET D, NEW T \in SUBSET D, Cardinality(S) = 0
        PROVE  SumFunctionOnSet(f, S) <= SumFunctionOnSet(g, T)
    <3>1. S = {}
      BY <1>2, <2>1, FS_EmptySet
    <3>2. SumFunctionOnSet(f, S) = 0
      BY <3>1, SumOfNone
    <3>3. QED
      BY <1>2, <3>2
  <2>2. QED
    BY <1>1, <2>1
<1>4. ASSUME NEW n \in N PROVE n + 1 \in N
  <2>1. n \in Nat /\ n + 1 \in Nat
    BY <1>1
  <2>2. ASSUME NEW S \in SUBSET D, NEW T \in SUBSET D, Cardinality(S) = n + 1, Meets(S, T)
        PROVE  SumFunctionOnSet(f, S) <= SumFunctionOnSet(g, T)
    <3>1. S # {}
      <4>1. Cardinality(S) # 0
        BY <2>1, <2>2
      <4>2. QED
        BY <4>1, FS_EmptySet
    <3>2. PICK x \in S : TRUE
      BY <3>1
    <3>3. PICK u : u = S \ {x}
      OBVIOUS
    <3>4. u \in SUBSET D /\ Cardinality(u) = n
      BY <1>2, <2>1, <2>2, <3>3, OneLess
    <3>5. SumFunctionOnSet(f, S) = f[x] + SumFunctionOnSet(f, u)
      BY <3>3, SumWith
    <3>6. f[x] \in Nat /\ g[x] \in Nat /\ SumFunctionOnSet(f, u) \in Nat
      BY <1>2, <3>4
    <3>7. CASE f[x] = 0
      <4>1. Meets(u, T)
        BY <2>2, <3>3
      <4>2. SumFunctionOnSet(f, u) <= SumFunctionOnSet(g, T)
        BY <1>1, <3>4, <4>1
      <4>3. QED
        BY <3>5, <3>6, <3>7, <4>2
    <3>8. CASE x \in T /\ f[x] <= g[x]
      <4>1. PICK v : v = T \ {x}
        OBVIOUS
      <4>2. v \in SUBSET D /\ Meets(u, v)
        BY <2>2, <3>3, <4>1
      <4>3. SumFunctionOnSet(f, u) <= SumFunctionOnSet(g, v)
        BY <1>1, <3>4, <4>2
      <4>4. SumFunctionOnSet(g, T) = g[x] + SumFunctionOnSet(g, v)
        BY <3>8, <4>1, SumWith
      <4>5. SumFunctionOnSet(g, v) \in Nat
        BY <1>2, <4>2
      <4>6. QED
        BY <3>5, <3>6, <3>8, <4>3, <4>4, <4>5
    <3>9. QED
      BY <2>2, <3>7, <3>8
  <2>3. QED
    BY <1>1, <2>1, <2>2
<1>5. N = Nat
  BY <1>1, <1>3, <1>4, AllNumbers
<1>6. QED
  BY <1>1, <1>2, <1>5

-----------------------------------------------------------------------------
(* What is unread is owed                                                  *)

(* A second invariant of ServerPage, for its counts.  Whatever a tree      *)
(* holds belongs to the server the tree is of.                             *)
HostsAgree ==
  /\ \A s \in Servers : \A i \in truth[s].has : HostOf[i] = s
  /\ \A n \in DOMAIN fetches : \A i \in fetches[n].tree.has : HostOf[i] = fetches[n].server
  /\ \A k \in calls : k.kind = "create" => HostOf[k.what[1]] = k.server

(* The workspaces of which something may be on the page: the one that is   *)
(* shown, or those between which the page was switched.                    *)
Near == IF screen \in mixed THEN mixed ELSE {screen}
PageNear ==
  IsOpen =>
    /\ \A i \in page.tree.has : HostOf[i] \in Near
    /\ \A c \in Channels : page.unread[c] # 0 => HostOf[c] \in Near
    /\ \A c \in page.watch : HostOf[c] \in Near
WaitsNear ==
  IsOpen =>
    /\ \A n \in DOMAIN fetches : fetches[n].server \in Near
    /\ \A k \in calls : k.ours => k.server \in Near

CountsTyped ==
  /\ owed \in [Channels -> Nat] /\ badge \in [Servers -> Nat]
  /\ listed \in Seq(Servers) /\ mixed \subseteq Servers
UnreadWithin == \A c \in Channels : page.unread[c] <= owed[c]
ChannelsOf(s) == {c \in Channels : HostOf[c] = s}
BadgeWithin ==
  \A s \in ToSet(listed) \ mixed : badge[s] <= SumFunctionOnSet(owed, ChannelsOf(s))

PageCounts == PageNear /\ CountsTyped /\ UnreadWithin /\ BadgeWithin
CountsInv == HostsAgree /\ WaitsNear /\ PageCounts

(* A list without the first occurrence of an element.                      *)
LEMMA RemoveFirstIs ==
  ASSUME NEW T, NEW q \in Seq(T), NEW e
  PROVE  /\ RemoveFirst(q, e) \in Seq(T)
         /\ Len(RemoveFirst(q, e)) \in {Len(q), Len(q) - 1}
         /\ (\E i \in 1..Len(q) : q[i] = e) => Len(RemoveFirst(q, e)) = Len(q) - 1
<1>1. CASE \E i \in 1..Len(q) : q[i] = e
  <2>1. PICK I : I = {i \in 1..Len(q) : q[i] = e}
    OBVIOUS
  <2>2. I # {} /\ I \subseteq Nat /\ I \subseteq 1..Len(q)
    BY <1>1, <2>1
  <2>3. PICK x : x = Min(I)
    OBVIOUS
  <2>4. x = CHOOSE y \in I : \A z \in I : y <= z
    BY <2>3 DEF Min
  <2>5. \E y \in I : \A z \in I : y <= z
    BY <2>2, SmallestNumber
  <2>6. x \in I
    BY <2>4, <2>5
  <2>7. x \in 1..Len(q)
    BY <2>2, <2>6
  <2>8. RemoveFirst(q, e) = RemoveAt(q, x)
    <3>1. SelectInSeq(q, LAMBDA v : v = e) = x
      BY <2>1, <2>2, <2>3 DEF SelectInSeq
    <3>2. QED
      BY <1>1, <3>1 DEF RemoveFirst
  <2>9. PICK r : r = RemoveAt(q, x)
    OBVIOUS
  <2>10. r \in Seq(T) /\ Len(r) = Len(q) - 1
    BY <2>7, <2>9, RemoveAtIs
  <2>11. QED
    BY <2>8, <2>9, <2>10
<1>2. CASE ~\E i \in 1..Len(q) : q[i] = e
  BY <1>2 DEF RemoveFirst
<1>3. QED
  BY <1>1, <1>2

LEMMA InsertAtIs ==
  ASSUME NEW T, NEW q \in Seq(T), NEW e \in T, NEW p \in 1..(Len(q) + 1)
  PROVE  InsertAt(q, p, e) \in Seq(T)
<1>1. SubSeq(q, 1, p - 1) \in Seq(T)
  OBVIOUS
<1>2. SubSeq(q, p, Len(q)) \in Seq(T)
  OBVIOUS
<1>3. <<e>> \in Seq(T)
  OBVIOUS
<1>4. QED
  BY <1>1, <1>2, <1>3 DEF InsertAt

LEMMA ListIsOver ==
  ASSUME NEW T, NEW q \in Seq(T)
  PROVE  q \in Seq(ToSet(q)) /\ ToSet(q) \subseteq T
<1>1. DOMAIN q = 1..Len(q) /\ Len(q) \in Nat
  OBVIOUS
<1>2. ToSet(q) = {q[i] : i \in 1..Len(q)}
  BY <1>1 DEF ToSet
<1>3. \A i \in 1..Len(q) : q[i] \in ToSet(q) /\ q[i] \in T
  BY <1>2
<1>4. q = [i \in 1..Len(q) |-> q[i]]
  OBVIOUS
<1>5. q \in [1..Len(q) -> ToSet(q)]
  BY <1>3, <1>4
<1>6. q \in Seq(ToSet(q))
  BY <1>1, <1>5
<1>7. QED
  BY <1>2, <1>3, <1>6

(* No workspace comes to the bar when one is moved, or removed.            *)
LEMMA MovedIs ==
  ASSUME NEW q \in Seq(Servers), NEW s \in ToSet(q), NEW target \in ToSet(q)
  PROVE  Moved(q, s, target) \in Seq(Servers) /\ ToSet(Moved(q, s, target)) \subseteq ToSet(q)
<1>1. PICK T : T = ToSet(q)
  OBVIOUS
<1>2. q \in Seq(T) /\ T \subseteq Servers /\ s \in T
  BY <1>1, ListIsOver
<1>3. PICK to : to = CHOOSE n \in DOMAIN q : q[n] = target
  OBVIOUS
<1>4. DOMAIN q = 1..Len(q) /\ Len(q) \in Nat
  BY <1>2
<1>5. to \in 1..Len(q)
  BY <1>3, <1>4 DEF ToSet
<1>6. PICK r : r = RemoveFirst(q, s)
  OBVIOUS
<1>7. r \in Seq(T) /\ Len(r) = Len(q) - 1
  <2>1. \E i \in 1..Len(q) : q[i] = s
    BY <1>4 DEF ToSet
  <2>2. QED
    BY <1>2, <1>6, <2>1, RemoveFirstIs
<1>8. to \in 1..(Len(r) + 1)
  BY <1>4, <1>5, <1>7
<1>9. PICK m : m = InsertAt(r, to, s)
  OBVIOUS
<1>10. m \in Seq(T)
  BY <1>2, <1>7, <1>8, <1>9, InsertAtIs
<1>11. m = Moved(q, s, target)
  BY <1>3, <1>6, <1>9 DEF Moved
<1>12. ToSet(m) \subseteq T
  BY <1>10, ListIsOver
<1>13. m \in Seq(Servers)
  BY <1>2, <1>10
<1>14. QED
  BY <1>1, <1>11, <1>12, <1>13

LEMMA WithoutIs ==
  ASSUME NEW q \in Seq(Servers), NEW e
  PROVE  RemoveFirst(q, e) \in Seq(Servers) /\ ToSet(RemoveFirst(q, e)) \subseteq ToSet(q)
<1>1. PICK T : T = ToSet(q)
  OBVIOUS
<1>2. q \in Seq(T)
  BY <1>1, ListIsOver
<1>3. PICK r : r = RemoveFirst(q, e)
  OBVIOUS
<1>4. r \in Seq(T) /\ r \in Seq(Servers)
  BY <1>2, <1>3, RemoveFirstIs
<1>5. ToSet(r) \subseteq T
  BY <1>4, ListIsOver
<1>6. QED
  BY <1>1, <1>3, <1>4, <1>5

(* All workspaces can be put in a list.                                    *)
LEMMA AllAreListed == SetToSeq(Servers) \in Seq(Servers)
<1>1. Cardinality(Servers) \in Nat /\ ExistsBijection(1..Cardinality(Servers), Servers)
  BY FewAssumption, FS_CardinalityType
<1>2. PICK n \in Nat : n = Cardinality(Servers)
  BY <1>1
<1>3. PICK f : f \in Bijection(1..n, Servers)
  BY <1>1, <1>2 DEF ExistsBijection
<1>4. f \in [1..n -> Servers] /\ IsInjective(f)
  BY <1>3 DEF Bijection, Injection, IsInjective
<1>5. PICK g : g = CHOOSE h \in [1..n -> Servers] : IsInjective(h)
  OBVIOUS
<1>6. g \in [1..n -> Servers]
  BY <1>4, <1>5
<1>7. g = SetToSeq(Servers)
  BY <1>2, <1>5 DEF SetToSeq
<1>8. g \in Seq(Servers)
  BY <1>2, <1>6
<1>9. QED
  BY <1>7, <1>8

(* What the counts of a page come to is a number.                          *)
LEMMA TotalIsNumber == ASSUME NEW p \in Whole PROVE Total(p) \in Nat
<1>1. p.unread \in [Channels -> Nat] /\ Channels \ {p.active} \in SUBSET Channels
  BY DEF Whole
<1>2. IsFiniteSet(Channels \ {p.active})
  BY FewAssumption, FS_Subset
<1>3. QED
  BY <1>1, <1>2, SumIsNumber DEF Total

LEMMA WithBadgeIs ==
  ASSUME CountsTyped, NEW server \in Servers, NEW count \in Nat
  PROVE  /\ WithBadge(server, count) \in [Servers -> Nat]
         /\ \A s \in ToSet(listed) : s \in Servers
         /\ \A s \in ToSet(listed) :
              WithBadge(server, count)[s] = IF s = server THEN count ELSE badge[s]
<1>1. \A s \in ToSet(listed) : s \in Servers
  BY ListIsOver DEF CountsTyped
<1>2. CASE server \in ToSet(listed)
  BY <1>1, <1>2 DEF WithBadge, CountsTyped
<1>3. CASE server \notin ToSet(listed)
  BY <1>1, <1>3 DEF WithBadge, CountsTyped
<1>4. QED
  BY <1>1, <1>2, <1>3

(* What others are owed does not become less.                              *)
LEMMA OwedWithin ==
  ASSUME NEW o \in [Channels -> Nat], NEW n \in [Channels -> Nat], NEW s, NEW b \in Nat,
         b <= SumFunctionOnSet(o, ChannelsOf(s)),
         \A c \in ChannelsOf(s) : o[c] <= n[c]
  PROVE  b <= SumFunctionOnSet(n, ChannelsOf(s))
<1>1. PICK S \in SUBSET Channels : S = ChannelsOf(s)
  BY DEF ChannelsOf
<1>2. IsFiniteSet(S)
  BY FewAssumption, FS_Subset
<1>3. SumFunctionOnSet(o, S) \in Nat /\ SumFunctionOnSet(n, S) \in Nat
  BY <1>2, SumIsNumber
<1>4. SumFunctionOnSet(o, S) <= SumFunctionOnSet(n, S)
  BY <1>1, FewAssumption, SumWithin
<1>5. QED
  BY <1>1, <1>3, <1>4

(* Nothing of the page or of the counts changes, but who is listed.        *)
LEMMA QuietCounts ==
  ASSUME PageCounts, UNCHANGED <<badge, screen, mixed, owed>>,
         page'.tree = page.tree, page'.unread = page.unread, page'.watch \subseteq page.watch,
         listed' \in Seq(Servers), ToSet(listed') \subseteq ToSet(listed)
  PROVE  PageCounts'
<1>1. CountsTyped' /\ UnreadWithin' /\ BadgeWithin'
  BY DEF PageCounts, CountsTyped, UnreadWithin, BadgeWithin, ChannelsOf
<1>2. Near' = Near /\ IsOpen' = IsOpen
  BY DEF Near, IsOpen
<1>3. PageNear'
  BY <1>2 DEF PageCounts, PageNear
<1>4. QED
  BY <1>1, <1>3 DEF PageCounts

(* A render of the page p, on which no more is unread than is owed: its    *)
(* workspace has the right badge, and the others have kept theirs.         *)
LEMMA RenderCounts ==
  ASSUME PageCounts, screen' \in Servers, listed' = listed, mixed' \subseteq Servers,
         NEW p \in Whole, NEW anew, Becomes(p, screen', anew),
         owed' \in [Channels -> Nat],
         \A c \in Channels : c = p.active \/ p.unread[c] <= owed'[c],
         \A i \in p.tree.has : HostOf[i] \in Near',
         \A c \in Channels : c # p.active /\ p.unread[c] # 0 => HostOf[c] \in Near',
         anew \/ \A c \in p.watch : HostOf[c] \in Near',
         \A s \in Servers \ mixed' : s # screen' =>
           s \notin mixed /\ \A c \in ChannelsOf(s) : owed[c] <= owed'[c]
  PROVE  PageCounts'
<1>1. /\ page' \in Whole
      /\ page'.tree = p.tree /\ page'.active = p.active
      /\ page'.watch \subseteq p.watch /\ (anew => page'.watch = {})
      /\ \A c \in Channels : page'.unread[c] = IF c = p.active THEN 0 ELSE p.unread[c]
      /\ badge' = WithBadge(screen', Total(page'))
  <2>1. PICK s : s = screen'
    OBVIOUS
  <2>2. Becomes(p, s, anew)
    BY <2>1
  <2>3. /\ page' \in Whole
        /\ page'.tree = p.tree /\ page'.active = p.active
        /\ page'.watch \subseteq p.watch /\ (anew => page'.watch = {})
        /\ \A c \in Channels : page'.unread[c] = IF c = p.active THEN 0 ELSE p.unread[c]
        /\ badge' = WithBadge(s, Total(page'))
    BY <2>2, BecomesKeeps
  <2>4. QED
    BY <2>1, <2>3
<1>2. PICK count : count = Total(page')
  OBVIOUS
<1>3. count \in Nat
  BY <1>1, <1>2, TotalIsNumber
<1>4. CountsTyped
  BY DEF PageCounts
<1>5. /\ badge' \in [Servers -> Nat]
      /\ \A s \in ToSet(listed) : s \in Servers
      /\ \A s \in ToSet(listed) : badge'[s] = IF s = screen' THEN count ELSE badge[s]
  <2>1. PICK z \in Servers : z = screen'
    OBVIOUS
  <2>2. badge' = WithBadge(z, count)
    BY <1>1, <1>2, <2>1
  <2>3. QED
    BY <1>3, <1>4, <2>1, <2>2, WithBadgeIs
<1>6. CountsTyped'
  BY <1>4, <1>5 DEF CountsTyped
<1>7. UnreadWithin'
  <2>1. ASSUME NEW c \in Channels PROVE page'.unread[c] <= owed'[c]
    <3>1. CASE c = p.active
      <4>1. page'.unread[c] = 0 /\ owed'[c] \in Nat
        BY <1>1, <3>1
      <4>2. QED
        BY <4>1
    <3>2. CASE c # p.active
      BY <1>1, <3>2
    <3>3. QED
      BY <3>1, <3>2
  <2>2. QED
    BY <2>1 DEF UnreadWithin
<1>8. PageNear'
  <2>1. \A i \in page'.tree.has : HostOf[i] \in Near'
    BY <1>1
  <2>2. \A c \in Channels : page'.unread[c] # 0 => HostOf[c] \in Near'
    BY <1>1
  <2>3. \A c \in page'.watch : HostOf[c] \in Near'
    BY <1>1
  <2>4. QED
    BY <2>1, <2>2, <2>3 DEF PageNear
<1>9. ASSUME NEW s \in ToSet(listed), s \notin mixed'
      PROVE  badge'[s] <= SumFunctionOnSet(owed', ChannelsOf(s))
  <2>1. s \in Servers
    BY <1>5
  <2>2. CASE s = screen'
    <3>1. Near' = {s}
      BY <1>9, <2>2 DEF Near
    <3>2. badge'[s] = count
      BY <1>5, <2>2
    <3>3. PICK u \in [Channels -> Nat] : u = page'.unread
      BY <1>1 DEF Whole
    <3>4. PICK o \in [Channels -> Nat] : o = owed'
      OBVIOUS
    <3>5. PICK S \in SUBSET Channels : S = Channels \ {p.active}
      OBVIOUS
    <3>6. PICK T \in SUBSET Channels : T = ChannelsOf(s)
      BY DEF ChannelsOf
    <3>7. count = SumFunctionOnSet(u, S)
      BY <1>1, <1>2, <3>3, <3>5 DEF Total
    <3>8. ASSUME NEW c \in S PROVE u[c] = 0 \/ (c \in T /\ u[c] <= o[c])
      <4>1. u[c] <= o[c]
        BY <1>7, <3>3, <3>4 DEF UnreadWithin
      <4>2. u[c] # 0 => c \in T
        <5>1. u[c] # 0 => HostOf[c] \in {s}
          BY <1>1, <3>1, <3>3, <3>5
        <5>2. QED
          BY <3>6, <5>1 DEF ChannelsOf
      <4>3. QED
        BY <4>1, <4>2
    <3>9. SumFunctionOnSet(u, S) <= SumFunctionOnSet(o, T)
      BY <3>8, FewAssumption, SumWithin
    <3>10. QED
      BY <3>2, <3>4, <3>6, <3>7, <3>9
  <2>3. CASE s # screen'
    <3>1. s \notin mixed /\ \A c \in ChannelsOf(s) : owed[c] <= owed'[c]
      BY <1>9, <2>1, <2>3
    <3>2. badge'[s] = badge[s] /\ badge[s] \in Nat
      BY <1>4, <1>5, <2>1, <2>3 DEF CountsTyped
    <3>3. badge[s] <= SumFunctionOnSet(owed, ChannelsOf(s))
      BY <1>9, <3>1 DEF PageCounts, BadgeWithin
    <3>4. owed \in [Channels -> Nat]
      BY <1>4 DEF CountsTyped
    <3>5. PICK o \in [Channels -> Nat] : o = owed'
      OBVIOUS
    <3>6. badge[s] <= SumFunctionOnSet(o, ChannelsOf(s))
      BY <3>1, <3>2, <3>3, <3>4, <3>5, OwedWithin
    <3>7. QED
      BY <3>2, <3>5, <3>6
  <2>4. QED
    BY <2>2, <2>3
<1>10. BadgeWithin'
  BY <1>9 DEF BadgeWithin, ChannelsOf
<1>11. QED
  BY <1>6, <1>7, <1>8, <1>10 DEF PageCounts

(* A render in which the page stays with its workspace and what is owed is *)
(* no less, or is of the page.                                             *)
LEMMA TurnsCount ==
  ASSUME PageCounts, IsOpen, UNCHANGED <<screen, listed, mixed>>,
         NEW p \in Whole, Turns(p),
         owed' \in [Channels -> Nat],
         \A c \in Channels : c = p.active \/ p.unread[c] <= owed'[c],
         \A i \in p.tree.has : HostOf[i] \in Near,
         \A c \in Channels : c # p.active /\ p.unread[c] # 0 => HostOf[c] \in Near,
         \A c \in p.watch : HostOf[c] \in Near,
         \A c \in Channels : owed[c] <= owed'[c] \/ HostOf[c] \in Near
  PROVE  PageCounts'
<1>1. screen' \in Servers /\ mixed' \subseteq Servers
  BY DEF IsOpen, PageCounts, CountsTyped
<1>2. Near' = Near
  BY DEF Near
<1>3. Becomes(p, screen', FALSE)
  <2>1. PICK z : z = screen
    OBVIOUS
  <2>2. Becomes(p, z, FALSE) /\ z = screen'
    BY <2>1 DEF Turns
  <2>3. QED
    BY <2>2
<1>4. ASSUME NEW s \in Servers \ mixed', s # screen'
      PROVE  s \notin mixed /\ \A c \in ChannelsOf(s) : owed[c] <= owed'[c]
  <2>1. s \notin Near
    BY <1>4 DEF Near
  <2>2. QED
    BY <1>4, <2>1 DEF ChannelsOf
<1>5. QED
  BY <1>1, <1>2, <1>3, <1>4, RenderCounts

(* The tree that is shown has no more, or what a fetch has brought.        *)
LEMMA PageBelongs ==
  ASSUME PageInv, CountsInv
  PROVE  /\ page \in Whole /\ CountsTyped
         /\ \A c \in Channels : page.unread[c] \in Nat /\ owed[c] \in Nat
         /\ \A c \in Channels : page.unread[c] <= owed[c]
  BY DEF PageInv, PageTyped, CountsInv, PageCounts, CountsTyped, UnreadWithin, Whole

LEMMA SelectChannelCounts ==
  ASSUME PageInv, CountsInv, NEW c \in Channels, SelectChannel(c)
  PROVE  PageCounts'
<1>1. PICK p : p = [page EXCEPT !.active = c, !.bits = FALSE]
  OBVIOUS
<1>2. page \in Whole /\ PageCounts /\ CountsTyped
  BY PageBelongs DEF CountsInv
<1>3. /\ p \in Whole /\ p.active = c /\ p.tree = page.tree
      /\ p.unread = page.unread /\ p.watch = page.watch
  BY <1>1, <1>2 DEF Whole
<1>4. /\ IsOpen /\ Turns(p) /\ owed' = [owed EXCEPT ![c] = 0]
      /\ UNCHANGED <<screen, listed, mixed>> /\ c \in page.tree.has
  BY <1>1 DEF SelectChannel, choice, Tabs
<1>5. /\ owed' \in [Channels -> Nat]
      /\ \A d \in Channels : d = c \/ owed'[d] = owed[d]
  BY <1>2, <1>4 DEF CountsTyped
<1>6. HostOf[c] \in Near
  BY <1>2, <1>4 DEF PageCounts, PageNear
<1>7. \A d \in Channels : d = p.active \/ p.unread[d] <= owed'[d]
  BY <1>3, <1>5, PageBelongs
<1>8. \A d \in Channels : owed[d] <= owed'[d] \/ HostOf[d] \in Near
  BY <1>5, <1>6, PageBelongs
<1>9. /\ \A i \in p.tree.has : HostOf[i] \in Near
      /\ \A d \in Channels : d # p.active /\ p.unread[d] # 0 => HostOf[d] \in Near
      /\ \A d \in p.watch : HostOf[d] \in Near
  BY <1>2, <1>3, <1>4 DEF PageCounts, PageNear
<1>10. QED
  BY <1>2, <1>3, <1>4, <1>5, <1>7, <1>8, <1>9, TurnsCount

LEMMA ArrangeCounts ==
  ASSUME PageInv, CountsInv, NEW e \in Edits, Arrange(e)
  PROVE  PageCounts'
<1>1. PICK tree : tree = Rearranged(page.tree, e)
  OBVIOUS
<1>2. page \in Whole /\ page.tree \in Trees /\ PageCounts /\ CountsTyped
  BY PageBelongs DEF CountsInv, Whole
<1>3. tree \in Trees /\ tree.has = page.tree.has
  BY <1>1, <1>2 DEF Rearranged, Trees
<1>4. PICK p : p = [page EXCEPT !.tree = tree]
  OBVIOUS
<1>5. /\ p \in Whole /\ p.active = page.active /\ p.tree.has = page.tree.has
      /\ p.unread = page.unread /\ p.watch = page.watch
  BY <1>2, <1>3, <1>4 DEF Whole
<1>6. IsOpen /\ Turns(p) /\ UNCHANGED <<screen, listed, mixed, owed>>
  BY <1>1, <1>4 DEF Arrange, Editing, choice, ghosts
<1>7. owed' \in [Channels -> Nat]
  BY <1>2, <1>6 DEF CountsTyped
<1>8. \A d \in Channels : p.unread[d] <= owed'[d] /\ owed[d] <= owed'[d]
  BY <1>5, <1>6, PageBelongs
<1>9. /\ \A i \in p.tree.has : HostOf[i] \in Near
      /\ \A d \in Channels : p.unread[d] # 0 => HostOf[d] \in Near
      /\ \A d \in p.watch : HostOf[d] \in Near
  BY <1>2, <1>5, <1>6 DEF PageCounts, PageNear
<1>10. QED
  BY <1>2, <1>5, <1>6, <1>7, <1>8, <1>9, TurnsCount

LEMMA ConfirmDeleteCounts ==
  ASSUME PageInv, CountsInv, ConfirmDelete
  PROVE  PageCounts'
<1>1. PICK c : c = page.confirm
  OBVIOUS
<1>2. PICK rest : rest = page.tree.has \ {c}
  OBVIOUS
<1>3. PICK shown : shown = [page EXCEPT !.confirm = NoItem, !.tree.has = rest]
  OBVIOUS
<1>4. page \in Whole /\ rest \in SUBSET Items /\ PageCounts /\ CountsTyped
  BY <1>2, PageBelongs DEF CountsInv, Whole, Trees
<1>5. IsOpen /\ UNCHANGED <<screen, listed, mixed>>
  BY DEF ConfirmDelete, choice
<1>6. /\ shown \in Whole /\ shown.tree.has = rest /\ shown.active = page.active
      /\ shown.unread = page.unread /\ shown.watch = page.watch
  BY <1>3, <1>4, ShownIsWhole, ServersAssumption
<1>7. /\ \A i \in rest : HostOf[i] \in Near
      /\ \A d \in Channels : page.unread[d] # 0 => HostOf[d] \in Near
      /\ \A d \in page.watch : HostOf[d] \in Near
  BY <1>2, <1>4, <1>5 DEF PageCounts, PageNear
<1>8. CASE page.active # c
  <2>1. Turns(shown) /\ owed' = owed
    BY <1>1, <1>2, <1>3, <1>8 DEF ConfirmDelete
  <2>2. owed' \in [Channels -> Nat]
    BY <1>4, <2>1 DEF CountsTyped
  <2>3. \A d \in Channels : shown.unread[d] <= owed'[d] /\ owed[d] <= owed'[d]
    BY <1>6, <2>1, PageBelongs
  <2>4. QED
    BY <1>4, <1>5, <1>6, <1>7, <2>1, <2>2, <2>3, TurnsCount
<1>9. CASE page.active = c
  <2>1. PICK opened \in IF rest \cap Channels = {} THEN {NoItem} ELSE rest \cap Channels :
           /\ Turns([shown EXCEPT !.active = opened, !.bits = FALSE])
           /\ owed' = IF opened = NoItem THEN owed ELSE [owed EXCEPT ![opened] = 0]
    BY <1>1, <1>2, <1>3, <1>9 DEF ConfirmDelete
  <2>2. PICK p : p = [shown EXCEPT !.active = opened, !.bits = FALSE]
    OBVIOUS
  <2>3. opened \in Channels \cup {NoItem} /\ NoItem \notin Channels
    BY <2>1, ServersAssumption DEF Items
  <2>4. /\ p \in Whole /\ p.tree.has = rest /\ p.active = opened
        /\ p.unread = page.unread /\ p.watch = page.watch
    BY <1>6, <2>2, <2>3 DEF Whole
  <2>5. opened # NoItem => opened \in rest /\ HostOf[opened] \in Near
    BY <1>7, <2>1
  <2>6. /\ owed' \in [Channels -> Nat]
        /\ \A d \in Channels : d = opened \/ owed'[d] = owed[d]
    BY <1>4, <2>1, <2>3 DEF CountsTyped
  <2>7. \A d \in Channels : d = p.active \/ p.unread[d] <= owed'[d]
    BY <2>4, <2>6, PageBelongs
  <2>8. \A d \in Channels : owed[d] <= owed'[d] \/ HostOf[d] \in Near
    BY <2>3, <2>5, <2>6, PageBelongs
  <2>9. Turns(p)
    BY <2>1, <2>2
  <2>10. QED
    BY <1>4, <1>5, <1>7, <2>4, <2>6, <2>7, <2>8, <2>9, TurnsCount
<1>10. QED
  BY <1>8, <1>9

LEMMA FetchedCounts ==
  ASSUME PageInv, CountsInv, NEW n \in DOMAIN fetches, Fetched(n)
  PROVE  PageCounts'
<1>1. PICK p : p = [page EXCEPT !.tree = fetches[n].tree]
  OBVIOUS
<1>2. page \in Whole /\ PageCounts /\ CountsTyped /\ HostsAgree /\ WaitsNear
  BY PageBelongs DEF CountsInv
<1>3. fetches[n].tree \in Trees
  <2>1. fetches[n] \in Fetches
    BY DEF PageInv, PageTyped
  <2>2. QED
    BY <2>1 DEF Fetches
<1>4. /\ p \in Whole /\ p.active = page.active /\ p.tree = fetches[n].tree
      /\ p.unread = page.unread /\ p.watch = page.watch
  BY <1>1, <1>2, <1>3 DEF Whole
<1>5. IsOpen
  BY DEF PageInv, ClosedIsFresh
<1>6. Turns(p) /\ UNCHANGED <<screen, listed, mixed, owed>>
  BY <1>1 DEF Fetched, choice
<1>7. owed' \in [Channels -> Nat]
  BY <1>2, <1>6 DEF CountsTyped
<1>8. \A d \in Channels : p.unread[d] <= owed'[d] /\ owed[d] <= owed'[d]
  BY <1>4, <1>6, PageBelongs
<1>9. /\ \A i \in p.tree.has : HostOf[i] \in Near
      /\ \A d \in Channels : p.unread[d] # 0 => HostOf[d] \in Near
      /\ \A d \in p.watch : HostOf[d] \in Near
  <2>1. fetches[n].server \in Near
    BY <1>2, <1>5 DEF WaitsNear
  <2>2. \A i \in p.tree.has : HostOf[i] = fetches[n].server
    BY <1>2, <1>4 DEF HostsAgree
  <2>3. QED
    BY <1>2, <1>4, <1>5, <2>1, <2>2 DEF PageCounts, PageNear
<1>10. QED
  BY <1>2, <1>4, <1>5, <1>6, <1>7, <1>8, <1>9, TurnsCount

LEMMA WatchingCounts ==
  ASSUME PageInv, CountsInv, Watching
  PROVE  PageCounts'
<1>1. PICK joined \in {{}, {c \in Watched(page) : HostOf[c] = screen}} :
        page' = [page EXCEPT !.asking = FALSE, !.watch = joined]
  BY DEF Watching
<1>2. IsOpen /\ UNCHANGED <<screen, badge, listed, mixed, owed>>
  BY DEF Watching, bar, choice, ghosts
<1>3. page \in Whole /\ PageCounts
  BY PageBelongs DEF CountsInv
<1>4. page'.tree = page.tree /\ page'.unread = page.unread /\ page'.watch = joined
  BY <1>1, <1>3 DEF Whole
<1>5. CountsTyped' /\ UnreadWithin' /\ BadgeWithin'
  BY <1>2, <1>3, <1>4 DEF PageCounts, CountsTyped, UnreadWithin, BadgeWithin, ChannelsOf
<1>6. Near' = Near /\ IsOpen' = IsOpen
  BY <1>2 DEF Near, IsOpen
<1>7. \A c \in joined : HostOf[c] \in Near
  <2>1. joined \subseteq page.tree.has
    BY <1>1 DEF Watched
  <2>2. QED
    BY <1>2, <1>3, <2>1 DEF PageCounts, PageNear
<1>8. PageNear'
  BY <1>3, <1>4, <1>6, <1>7 DEF PageCounts, PageNear
<1>9. QED
  BY <1>5, <1>8 DEF PageCounts

LEMMA PostedCounts ==
  ASSUME PageInv, CountsInv, NEW c \in Channels, Posted(c)
  PROVE  PageCounts'
<1>1. page \in Whole /\ PageCounts /\ CountsTyped
  BY PageBelongs DEF CountsInv
<1>2. /\ owed' = IF IsOpen /\ page.active = c THEN owed ELSE [owed EXCEPT ![c] = @ + 1]
      /\ UNCHANGED <<screen, listed, mixed>>
  BY DEF Posted, choice
<1>3. owed' \in [Channels -> Nat] /\ \A d \in Channels : owed[d] <= owed'[d]
  <2>1. owed \in [Channels -> Nat]
    BY <1>1 DEF CountsTyped
  <2>2. CASE IsOpen /\ page.active = c
    BY <1>2, <2>1, <2>2
  <2>3. CASE ~(IsOpen /\ page.active = c)
    BY <1>2, <2>1, <2>3
  <2>4. QED
    BY <2>2, <2>3
<1>4. CASE c \in page.watch /\ Turns([page EXCEPT !.unread[c] = @ + 1])
  <2>1. PICK u : u = [page.unread EXCEPT ![c] = @ + 1]
    OBVIOUS
  <2>2. u \in [Channels -> Nat] /\ \A d \in Channels : u[d] = IF d = c THEN page.unread[c] + 1 ELSE page.unread[d]
    BY <1>1, <2>1 DEF Whole
  <2>3. PICK p : p = [page EXCEPT !.unread[c] = @ + 1]
    OBVIOUS
  <2>4. p = [page EXCEPT !.unread = u]
    BY <1>1, <2>1, <2>3 DEF Whole
  <2>5. /\ p \in Whole /\ p.active = page.active /\ p.tree = page.tree
        /\ p.unread = u /\ p.watch = page.watch
    BY <1>1, <2>2, <2>4 DEF Whole
  <2>6. IsOpen
    BY <1>4, MountedIsWhole DEF PageInv, ClosedIsFresh
  <2>7. ASSUME NEW d \in Channels, d # p.active PROVE p.unread[d] <= owed'[d]
    <3>1. CASE d = c
      <4>1. owed'[c] = owed[c] + 1
        BY <1>1, <1>2, <2>5, <2>7, <3>1 DEF CountsTyped
      <4>2. QED
        BY <2>2, <2>5, <3>1, <4>1, PageBelongs
    <3>2. CASE d # c
      <4>1. owed'[d] = owed[d]
        BY <1>1, <1>2, <3>2 DEF CountsTyped
      <4>2. QED
        BY <2>2, <2>5, <3>2, <4>1, PageBelongs
    <3>3. QED
      BY <3>1, <3>2
  <2>8. /\ \A i \in p.tree.has : HostOf[i] \in Near
        /\ \A d \in Channels : p.unread[d] # 0 => HostOf[d] \in Near
        /\ \A d \in p.watch : HostOf[d] \in Near
    BY <1>1, <1>4, <2>2, <2>5, <2>6 DEF PageCounts, PageNear
  <2>9. Turns(p)
    BY <1>4, <2>3
  <2>10. QED
    BY <1>1, <1>2, <1>3, <2>5, <2>6, <2>7, <2>8, <2>9, TurnsCount
<1>5. CASE UNCHANGED <<badge, page>>
  <2>1. CountsTyped'
    BY <1>1, <1>2, <1>3, <1>5 DEF CountsTyped
  <2>2. UnreadWithin'
    <3>1. ASSUME NEW d \in Channels PROVE page'.unread[d] <= owed'[d]
      <4>1. /\ page.unread[d] <= owed[d] /\ owed[d] <= owed'[d]
            /\ page.unread[d] \in Nat /\ owed[d] \in Nat /\ owed'[d] \in Nat
        BY <1>3, PageBelongs
      <4>2. QED
        BY <1>5, <4>1
    <3>2. QED
      BY <3>1 DEF UnreadWithin
  <2>3. PageNear'
    BY <1>1, <1>2, <1>5 DEF PageCounts, PageNear, Near, IsOpen
  <2>4. ASSUME NEW s \in ToSet(listed), s \notin mixed
        PROVE  badge[s] <= SumFunctionOnSet(owed', ChannelsOf(s))
    <3>1. s \in Servers
      BY <1>1, ListIsOver DEF CountsTyped
    <3>2. badge[s] \in Nat /\ badge[s] <= SumFunctionOnSet(owed, ChannelsOf(s))
      BY <1>1, <2>4, <3>1 DEF CountsTyped, PageCounts, BadgeWithin
    <3>3. PICK o \in [Channels -> Nat] : o = owed
      BY <1>1 DEF CountsTyped
    <3>4. PICK w \in [Channels -> Nat] : w = owed'
      BY <1>3
    <3>5. \A d \in ChannelsOf(s) : o[d] <= w[d]
      BY <1>3, <3>3, <3>4 DEF ChannelsOf
    <3>6. badge[s] <= SumFunctionOnSet(w, ChannelsOf(s))
      BY <3>2, <3>3, <3>5, OwedWithin
    <3>7. QED
      BY <3>4, <3>6
  <2>5. BadgeWithin'
    BY <1>2, <1>5, <2>4 DEF BadgeWithin, ChannelsOf
  <2>6. QED
    BY <2>1, <2>2, <2>3, <2>5 DEF PageCounts
<1>6. QED
  BY <1>4, <1>5 DEF Posted

LEMMA ReadElsewhereCounts ==
  ASSUME PageInv, CountsInv, NEW c \in Channels, ReadElsewhere(c)
  PROVE  PageCounts'
<1>1. page \in Whole /\ PageCounts /\ CountsTyped
  BY PageBelongs DEF CountsInv
<1>2. /\ c \in page.watch /\ owed' = [owed EXCEPT ![c] = 0]
      /\ UNCHANGED <<screen, listed, mixed>>
  BY DEF ReadElsewhere, choice
<1>3. PICK u : u = [page.unread EXCEPT ![c] = 0]
  OBVIOUS
<1>4. u \in [Channels -> Nat] /\ \A d \in Channels : u[d] = IF d = c THEN 0 ELSE page.unread[d]
  BY <1>1, <1>3 DEF Whole
<1>5. PICK p : p = [page EXCEPT !.unread[c] = 0]
  OBVIOUS
<1>6. p = [page EXCEPT !.unread = u]
  BY <1>1, <1>3, <1>5 DEF Whole
<1>7. /\ p \in Whole /\ p.active = page.active /\ p.tree = page.tree
      /\ p.unread = u /\ p.watch = page.watch
  BY <1>1, <1>4, <1>6 DEF Whole
<1>8. IsOpen
  BY <1>2, MountedIsWhole DEF PageInv, ClosedIsFresh
<1>9. HostOf[c] \in Near
  BY <1>1, <1>2, <1>8 DEF PageCounts, PageNear
<1>10. /\ owed' \in [Channels -> Nat]
       /\ \A d \in Channels : owed'[d] = IF d = c THEN 0 ELSE owed[d]
  BY <1>1, <1>2 DEF CountsTyped
<1>11. \A d \in Channels : p.unread[d] <= owed'[d]
  BY <1>4, <1>7, <1>10, PageBelongs
<1>12. \A d \in Channels : owed[d] <= owed'[d] \/ HostOf[d] \in Near
  BY <1>9, <1>10, PageBelongs
<1>13. /\ \A i \in p.tree.has : HostOf[i] \in Near
       /\ \A d \in Channels : p.unread[d] # 0 => HostOf[d] \in Near
       /\ \A d \in p.watch : HostOf[d] \in Near
  BY <1>1, <1>4, <1>7, <1>8 DEF PageCounts, PageNear
<1>14. Turns(p)
  BY <1>5 DEF ReadElsewhere
<1>15. QED
  BY <1>1, <1>2, <1>7, <1>8, <1>10, <1>11, <1>12, <1>13, <1>14, TurnsCount

LEMMA UnmountedCounts ==
  ASSUME PageInv, CountsInv, NEW to \in {"home", "other"}, Unmounted(to),
         UNCHANGED <<owed, mixed>>,
         listed' \in Seq(Servers), ToSet(listed') \subseteq ToSet(listed)
  PROVE  PageCounts'
<1>1. screen' = to /\ page' = Mounted(NoItem) /\ badge' = badge
  BY DEF Unmounted
<1>2. PageNear'
  BY <1>1, ScreensAssumption DEF PageNear, IsOpen
<1>3. CountsTyped' /\ BadgeWithin'
  BY <1>1 DEF CountsInv, PageCounts, CountsTyped, BadgeWithin, ChannelsOf
<1>4. UnreadWithin'
  BY <1>1, PageBelongs, MountedIsWhole DEF UnreadWithin
<1>5. QED
  BY <1>2, <1>3, <1>4 DEF PageCounts

LEMMA ArriveCounts ==
  ASSUME PageInv, CountsInv, NEW s \in Servers, NEW c \in Channels, HostOf[c] = s,
         Arrive(s, c), listed' = listed
  PROVE  PageCounts'
<1>1. PICK p : p = IF IsOpen THEN page ELSE Mounted(c)
  OBVIOUS
<1>2. page \in Whole /\ PageCounts /\ CountsTyped
  BY PageBelongs DEF CountsInv
<1>3. p \in Whole
  BY <1>1, <1>2, MountedIsWhole
<1>4. /\ screen' = s /\ Becomes(p, s, screen # s)
      /\ owed' = IF IsOpen THEN owed ELSE [owed EXCEPT ![c] = 0]
      /\ mixed' = IF ~IsOpen THEN mixed \ {s}
                  ELSE IF screen # s THEN mixed \cup {s, screen} ELSE mixed
  BY <1>1 DEF Arrive
<1>5. PICK anew : anew = (screen # s)
  OBVIOUS
<1>6. Becomes(p, screen', anew)
  <2>1. PICK z : z = s
    OBVIOUS
  <2>2. Becomes(p, z, anew) /\ z = screen'
    BY <1>4, <1>5, <2>1
  <2>3. QED
    BY <2>2
<1>7. screen' \in Servers /\ mixed' \subseteq Servers
  BY <1>2, <1>4 DEF CountsTyped, IsOpen
<1>8. CASE ~IsOpen
  <2>1. /\ p.active = c /\ p.tree.has = {} /\ p.watch = {}
        /\ \A d \in Channels : p.unread[d] = 0
    BY <1>1, <1>8, MountedIsWhole, EmptyIsTree
  <2>2. /\ owed' \in [Channels -> Nat]
        /\ \A d \in Channels : owed'[d] = IF d = c THEN 0 ELSE owed[d]
    BY <1>2, <1>4, <1>8 DEF CountsTyped
  <2>3. \A d \in Channels : p.unread[d] <= owed'[d]
    BY <2>1, <2>2
  <2>4. ASSUME NEW t \in Servers \ mixed', t # screen'
        PROVE  t \notin mixed /\ \A d \in ChannelsOf(t) : owed[d] <= owed'[d]
    <3>1. t \notin mixed
      BY <1>4, <1>8, <2>4
    <3>2. \A d \in ChannelsOf(t) : d \in Channels /\ d # c
      BY <1>4, <2>4 DEF ChannelsOf
    <3>3. \A d \in ChannelsOf(t) : owed[d] <= owed'[d]
      BY <2>2, <3>2, PageBelongs
    <3>4. QED
      BY <3>1, <3>3
  <2>5. QED
    BY <1>2, <1>3, <1>6, <1>7, <2>1, <2>2, <2>3, <2>4, RenderCounts
<1>9. CASE IsOpen
  <2>1. p = page /\ owed' = owed
    BY <1>1, <1>4, <1>9
  <2>2. owed' \in [Channels -> Nat] /\ \A d \in Channels : p.unread[d] <= owed'[d] /\ owed[d] <= owed'[d]
    BY <1>2, <2>1, PageBelongs DEF CountsTyped
  <2>3. Near \subseteq Near' /\ mixed \subseteq mixed'
    <3>1. CASE screen = s
      BY <1>4, <1>9, <3>1 DEF Near
    <3>2. CASE screen # s
      BY <1>4, <1>9, <3>2 DEF Near
    <3>3. QED
      BY <3>1, <3>2
  <2>4. /\ \A i \in p.tree.has : HostOf[i] \in Near'
        /\ \A d \in Channels : p.unread[d] # 0 => HostOf[d] \in Near'
        /\ \A d \in p.watch : HostOf[d] \in Near'
    BY <1>2, <1>9, <2>1, <2>3 DEF PageCounts, PageNear
  <2>5. \A t \in Servers \ mixed' : t # screen' =>
          t \notin mixed /\ \A d \in ChannelsOf(t) : owed[d] <= owed'[d]
    BY <2>2, <2>3 DEF ChannelsOf
  <2>6. QED
    BY <1>2, <1>3, <1>6, <1>7, <2>2, <2>4, <2>5, RenderCounts
<1>10. QED
  BY <1>8, <1>9

-----------------------------------------------------------------------------
(* What the page waits for                                                 *)

(* Nothing that waits changes, nor what the servers hold.                  *)
LEMMA SameHosts ==
  ASSUME HostsAgree, WaitsNear, UNCHANGED <<truth, fetches, calls, screen, mixed>>
  PROVE  HostsAgree' /\ WaitsNear'
  BY DEF HostsAgree, WaitsNear, Near, IsOpen

LEMMA AskHosts ==
  ASSUME HostsAgree, WaitsNear, UNCHANGED <<truth, fetches, screen, mixed>>, IsOpen,
         NEW kind, NEW what, Ask(kind, what), kind = "create" => HostOf[what[1]] = screen
  PROVE  HostsAgree' /\ WaitsNear'
<1>1. PICK k : k = [server |-> screen, kind |-> kind, what |-> what, stage |-> "asked",
                    ours |-> TRUE]
  OBVIOUS
<1>2. calls' = calls \cup {k} /\ k.server = screen /\ k.kind = kind /\ k.what = what
  BY <1>1 DEF Ask
<1>3. screen \in Near /\ Near' = Near
  BY DEF Near
<1>4. HostsAgree'
  BY <1>2 DEF HostsAgree
<1>5. WaitsNear'
  BY <1>2, <1>3 DEF WaitsNear
<1>6. QED
  BY <1>4, <1>5

LEMMA ChangedHosts ==
  ASSUME PageTyped, HostsAgree, NEW k \in calls
  PROVE  \A s \in Servers : \A i \in [truth EXCEPT ![k.server] = Changed(@, k)][s].has : HostOf[i] = s
<1>1. k \in Changes
  BY DEF PageTyped
<1>2. k.server \in Servers
  BY <1>1 DEF Changes
<1>3. PICK t \in Trees : t = truth[k.server]
  BY <1>2 DEF PageTyped
<1>4. \A i \in t.has : HostOf[i] = k.server
  BY <1>2, <1>3 DEF HostsAgree
<1>5. \A i \in Changed(t, k).has : i \in t.has \/ (k.kind = "create" /\ i = k.what[1])
  <2>1. CASE k.kind = "arrange"
    BY <2>1 DEF Changed, Trees
  <2>2. CASE k.kind # "arrange"
    BY <2>2 DEF Changed, Trees
  <2>3. QED
    BY <2>1, <2>2
<1>6. \A i \in Changed(t, k).has : HostOf[i] = k.server
  BY <1>4, <1>5 DEF HostsAgree
<1>7. QED
  BY <1>2, <1>3, <1>6 DEF HostsAgree, PageTyped

(* A change is carried out, or lost; the fetches are at most in more doubt.*)
LEMMA CarriedHosts ==
  ASSUME PageInv, HostsAgree, WaitsNear, UNCHANGED <<screen, mixed>>, NEW k \in calls,
         truth' = truth \/ truth' = [truth EXCEPT ![k.server] = Changed(@, k)],
         \A j \in calls' : \E l \in calls : /\ j.server = l.server /\ j.kind = l.kind
                                            /\ j.what = l.what /\ j.ours = l.ours,
         fetches' = fetches \/ fetches' = Doubted({About(k)}, Len(fetches) + 1)
  PROVE  HostsAgree' /\ WaitsNear'
<1>1. \A s \in Servers : \A i \in truth'[s].has : HostOf[i] = s
  <2>1. CASE truth' = truth
    BY <2>1 DEF HostsAgree
  <2>2. CASE truth' = [truth EXCEPT ![k.server] = Changed(@, k)]
    <3>1. PICK w : w = [truth EXCEPT ![k.server] = Changed(@, k)]
      OBVIOUS
    <3>2. \A s \in Servers : \A i \in w[s].has : HostOf[i] = s
      BY <3>1, ChangedHosts DEF PageInv
    <3>3. QED
      BY <2>2, <3>1, <3>2
  <2>3. QED
    BY <2>1, <2>2
<1>2. /\ DOMAIN fetches' = DOMAIN fetches
      /\ \A n \in DOMAIN fetches : /\ fetches'[n].server = fetches[n].server
                                   /\ fetches'[n].tree = fetches[n].tree
  <2>1. PICK parts \in SUBSET Parts : parts = {About(k)}
    BY AboutIsPart DEF PageInv, PageTyped
  <2>2. PICK last : last = Len(fetches) + 1
    OBVIOUS
  <2>3. /\ DOMAIN Doubted(parts, last) = DOMAIN fetches
        /\ \A n \in DOMAIN fetches :
             /\ Doubted(parts, last)[n].server = fetches[n].server
             /\ Doubted(parts, last)[n].read = fetches[n].read
             /\ Doubted(parts, last)[n].tree = fetches[n].tree
             /\ Doubted(parts, last)[n].accounts = fetches[n].accounts
             /\ Doubted(parts, last)[n].unseen =
                  IF fetches[n].read /\ n < last THEN fetches[n].unseen \cup parts
                                                 ELSE fetches[n].unseen
    <3>1. fetches \in Seq(Fetches)
      BY DEF PageInv, PageTyped
    <3>2. QED
      BY <3>1, DoubtedIs
  <2>4. PICK q : q = Doubted(parts, last)
    OBVIOUS
  <2>5. fetches' = fetches \/ fetches' = q
    BY <2>1, <2>2, <2>4
  <2>6. QED
    BY <2>3, <2>4, <2>5
<1>3. \A n \in DOMAIN fetches' : \A i \in fetches'[n].tree.has : HostOf[i] = fetches'[n].server
  BY <1>2 DEF HostsAgree
<1>4. \A j \in calls' : j.kind = "create" => HostOf[j.what[1]] = j.server
  BY DEF HostsAgree
<1>5. HostsAgree'
  BY <1>1, <1>3, <1>4 DEF HostsAgree
<1>6. Near' = Near /\ IsOpen' = IsOpen
  BY DEF Near, IsOpen
<1>7. WaitsNear'
  BY <1>2, <1>6 DEF WaitsNear
<1>8. QED
  BY <1>5, <1>7

(* Another fetch is made.                                                  *)
LEMMA RefreshedHosts ==
  ASSUME PageInv, HostsAgree, truth' = truth, calls' \subseteq calls,
         NEW s \in Servers, NEW parts \in SUBSET Parts, fetches' = Refreshed(s, parts),
         s \in Near',
         IsOpen' => \A n \in DOMAIN fetches : fetches[n].server \in Near',
         IsOpen' => \A k \in calls : k.ours => k.server \in Near'
  PROVE  HostsAgree' /\ WaitsNear'
<1>1. PICK n \in Nat : Len(fetches) = n /\ DOMAIN fetches = 1..n /\ fetches \in Seq(Fetches)
  BY DEF PageInv, PageTyped
<1>2. PICK f : f = [server |-> s, read |-> FALSE, tree |-> EmptyTree,
                    accounts |-> parts, unseen |-> {}]
  OBVIOUS
<1>3. /\ DOMAIN fetches' = 1..(n + 1)
      /\ \A m \in 1..n : fetches'[m] = fetches[m]
      /\ fetches'[n + 1] = f
  <2>1. /\ Refreshed(s, parts) \in Seq(Fetches) /\ Len(Refreshed(s, parts)) = n + 1
        /\ \A m \in 1..n : Refreshed(s, parts)[m] = fetches[m]
        /\ Refreshed(s, parts)[n + 1] = f
    BY <1>1, <1>2, RefreshedIs
  <2>2. PICK r : r = Refreshed(s, parts)
    OBVIOUS
  <2>3. DOMAIN r = 1..Len(r)
    BY <2>1, <2>2
  <2>4. QED
    BY <2>1, <2>2, <2>3
<1>4. f.server = s /\ f.tree.has = {}
  BY <1>2, EmptyIsTree
<1>5. \A m \in 1..(n + 1) : m \in 1..n \/ m = n + 1
  BY <1>1
<1>6. \A m \in DOMAIN fetches' : \A i \in fetches'[m].tree.has : HostOf[i] = fetches'[m].server
  BY <1>1, <1>3, <1>4, <1>5 DEF HostsAgree
<1>7. HostsAgree'
  BY <1>6 DEF HostsAgree
<1>8. IsOpen' => \A m \in DOMAIN fetches' : fetches'[m].server \in Near'
  BY <1>1, <1>3, <1>4, <1>5
<1>9. WaitsNear'
  BY <1>8 DEF WaitsNear
<1>10. QED
  BY <1>7, <1>9

(* One fetch is over; the others are at most in more doubt.                *)
LEMMA OverHosts ==
  ASSUME PageInv, HostsAgree, WaitsNear, UNCHANGED <<truth, calls, screen, mixed>>,
         NEW n \in DOMAIN fetches, fetches' = RemoveAt(Doubted(fetches[n].accounts, n), n)
  PROVE  HostsAgree' /\ WaitsNear'
<1>1. PICK l \in Nat : DOMAIN fetches = 1..l /\ Len(fetches) = l /\ fetches \in Seq(Fetches)
  BY DEF PageInv, PageTyped
<1>2. PICK parts \in SUBSET Parts : parts = fetches[n].accounts
  BY FetchIs DEF PageInv
<1>3. PICK q : q = Doubted(parts, n)
  OBVIOUS
<1>4. /\ q \in Seq(Fetches) /\ Len(q) = l
      /\ \A m \in DOMAIN fetches : /\ q[m].server = fetches[m].server
                                   /\ q[m].tree = fetches[m].tree
  BY <1>1, <1>3, DoubtedIs
<1>5. PICK r : r = RemoveAt(q, n)
  OBVIOUS
<1>6. /\ r \in Seq(Fetches) /\ Len(r) = l - 1
      /\ \A i \in 1..(l - 1) : r[i] = IF i < n THEN q[i] ELSE q[i + 1]
  BY <1>1, <1>4, <1>5, RemoveAtIs
<1>7. DOMAIN r = 1..(l - 1)
  BY <1>1, <1>6
<1>8. ASSUME NEW i \in DOMAIN r
      PROVE  \E m \in DOMAIN fetches : r[i].server = fetches[m].server /\ r[i].tree = fetches[m].tree
  <2>1. i \in 1..l /\ i + 1 \in 1..l
    BY <1>1, <1>7
  <2>2. QED
    BY <1>1, <1>4, <1>6, <1>7, <2>1
<1>9. Near' = Near /\ IsOpen' = IsOpen
  BY DEF Near, IsOpen
<1>10. HostsAgree'
  BY <1>2, <1>3, <1>5, <1>8 DEF HostsAgree
<1>11. WaitsNear'
  BY <1>2, <1>3, <1>5, <1>8, <1>9 DEF WaitsNear
<1>12. QED
  BY <1>10, <1>11

LEMMA UnmountedHosts ==
  ASSUME HostsAgree, NEW to \in {"home", "other"}, Unmounted(to), truth' = truth,
         calls \subseteq Changes
  PROVE  HostsAgree' /\ WaitsNear'
<1>1. ~IsOpen' /\ DOMAIN fetches' = {}
  BY ScreensAssumption DEF Unmounted, IsOpen
<1>2. ASSUME NEW j \in calls'
      PROVE  \E k \in calls : j.kind = k.kind /\ j.what = k.what /\ j.server = k.server
  <2>1. CASE j \in calls
    BY <2>1
  <2>2. CASE j \in {[k EXCEPT !.ours = FALSE] : k \in calls}
    <3>1. PICK k \in calls : j = [k EXCEPT !.ours = FALSE]
      BY <2>2
    <3>2. k \in Changes
      OBVIOUS
    <3>3. j.kind = k.kind /\ j.what = k.what /\ j.server = k.server
      <4>1. CASE k \in [server : Servers, kind : {"arrange"}, what : Edits \X BOOLEAN,
                        stage : Stages, ours : BOOLEAN]
        BY <3>1, <4>1
      <4>2. CASE k \in [server : Servers, kind : {"create", "delete"},
                        what : {<<i>> : i \in Items}, stage : Stages, ours : BOOLEAN]
        BY <3>1, <4>2
      <4>3. QED
        BY <3>2, <4>1, <4>2 DEF Changes
    <3>4. QED
      BY <3>3
  <2>3. QED
    BY <1>2, <2>1, <2>2 DEF Unmounted
<1>3. HostsAgree'
  BY <1>1, <1>2 DEF HostsAgree
<1>4. QED
  BY <1>1, <1>3 DEF WaitsNear

LEMMA ArriveHosts ==
  ASSUME PageInv, CountsInv, NEW s \in Servers, NEW c \in Channels, Arrive(s, c),
         UNCHANGED <<truth, calls>>
  PROVE  HostsAgree' /\ WaitsNear'
<1>1. HostsAgree /\ WaitsNear
  BY DEF CountsInv
<1>2. /\ screen' = s
      /\ fetches' = IF screen = s THEN fetches ELSE Refreshed(s, Parts)
      /\ mixed' = IF ~IsOpen THEN mixed \ {s}
                  ELSE IF screen # s THEN mixed \cup {s, screen} ELSE mixed
  BY DEF Arrive
<1>3. s \in Near'
  BY <1>2 DEF Near
<1>4. CASE screen = s
  <2>1. IsOpen
    BY <1>4 DEF IsOpen
  <2>2. UNCHANGED <<truth, fetches, calls, screen, mixed>>
    BY <1>2, <1>4, <2>1
  <2>3. QED
    BY <1>1, <2>2, SameHosts
<1>5. CASE screen # s
  <2>1. fetches' = Refreshed(s, Parts) /\ Parts \in SUBSET Parts
    BY <1>2, <1>5
  <2>2. IsOpen => Near \subseteq Near'
    BY <1>2, <1>5 DEF Near
  <2>3. \A n \in DOMAIN fetches : fetches[n].server \in Near'
    <3>1. CASE IsOpen
      BY <1>1, <2>2, <3>1 DEF WaitsNear
    <3>2. CASE ~IsOpen
      <4>1. DOMAIN fetches = {}
        BY <3>2 DEF PageInv, ClosedIsFresh
      <4>2. QED
        BY <4>1
    <3>3. QED
      BY <3>1, <3>2
  <2>4. \A k \in calls : k.ours => k.server \in Near'
    <3>1. CASE IsOpen
      BY <1>1, <2>2, <3>1 DEF WaitsNear
    <3>2. CASE ~IsOpen
      BY <3>2 DEF PageInv, ClosedIsFresh
    <3>3. QED
      BY <3>1, <3>2
  <2>5. calls' \subseteq calls
    OBVIOUS
  <2>6. QED
    BY <1>1, <1>3, <2>1, <2>3, <2>4, <2>5, RefreshedHosts
<1>6. QED
  BY <1>4, <1>5

LEMMA ReadsHosts ==
  ASSUME PageInv, HostsAgree, WaitsNear, NEW n \in DOMAIN fetches, Reads(n)
  PROVE  HostsAgree' /\ WaitsNear'
<1>1. PICK part \in {Items, Channels, Folders, {}} :
        fetches' = [fetches EXCEPT
          ![n].read = TRUE, ![n].unseen = Items \ part,
          ![n].tree = [truth[fetches[n].server] EXCEPT !.has = @ \cap part]]
  BY DEF Reads
<1>2. UNCHANGED <<truth, screen, calls, mixed>>
  BY DEF Reads, choice, ghosts
<1>3. DOMAIN fetches' = DOMAIN fetches /\ fetches[n] \in Fetches
  BY <1>1 DEF PageInv, PageTyped
<1>4. PICK f \in Fetches : f = fetches[n]
  BY <1>3
<1>5. PICK t \in Trees : t = truth[f.server]
  BY DEF Fetches, PageInv, PageTyped
<1>6. PICK u : u = [t EXCEPT !.has = @ \cap part]
  OBVIOUS
<1>7. u.has \subseteq t.has
  BY <1>6 DEF Trees
<1>8. fetches'[n] = [f EXCEPT !.read = TRUE, !.unseen = Items \ part, !.tree = u]
  BY <1>1, <1>3, <1>4, <1>5, <1>6 DEF Fetches, PageInv, PageTyped
<1>9. fetches'[n].server = f.server /\ fetches'[n].tree = u
  BY <1>8 DEF Fetches
<1>10. \A m \in DOMAIN fetches : m # n => fetches'[m] = fetches[m]
  BY <1>1 DEF PageInv, PageTyped
<1>11. \A i \in u.has : HostOf[i] = f.server
  BY <1>5, <1>7 DEF HostsAgree, Fetches
<1>12. HostsAgree'
  <2>1. ASSUME NEW m \in DOMAIN fetches', NEW i \in fetches'[m].tree.has
        PROVE  HostOf[i] = fetches'[m].server
    <3>1. CASE m = n
      BY <1>9, <1>11, <2>1, <3>1
    <3>2. CASE m # n
      BY <1>3, <1>10, <2>1, <3>2 DEF HostsAgree
    <3>3. QED
      BY <3>1, <3>2
  <2>2. QED
    BY <1>2, <2>1 DEF HostsAgree
<1>13. Near' = Near /\ IsOpen' = IsOpen
  BY <1>2 DEF Near, IsOpen
<1>14. \A m \in DOMAIN fetches' : fetches'[m].server = fetches[m].server
  BY <1>3, <1>4, <1>9, <1>10
<1>15. WaitsNear'
  BY <1>2, <1>3, <1>13, <1>14 DEF WaitsNear
<1>16. QED
  BY <1>12, <1>15

(* What of a change is kept when its server has carried it out or refused. *)
LEMMA AnswerHosts ==
  ASSUME PageInv, HostsAgree, WaitsNear, NEW k \in calls, ServerDoes(k) \/ CallLost(k)
  PROVE  HostsAgree' /\ WaitsNear'
<1>1. k \in Changes /\ UNCHANGED <<screen, mixed>>
  BY DEF ServerDoes, CallLost, PageInv, PageTyped, choice
<1>2. truth' = truth \/ truth' = [truth EXCEPT ![k.server] = Changed(@, k)]
  <2>1. CASE ServerDoes(k)
    BY <2>1 DEF ServerDoes
  <2>2. CASE CallLost(k)
    BY <2>2 DEF CallLost
  <2>3. QED
    BY <2>1, <2>2
<1>3. ASSUME NEW j \in calls'
      PROVE  \E l \in calls : /\ j.server = l.server /\ j.kind = l.kind
                              /\ j.what = l.what /\ j.ours = l.ours
  <2>1. j \in calls \/ (\E st \in Stages : j = [k EXCEPT !.stage = st])
    BY <1>3 DEF ServerDoes, CallLost, Stages
  <2>2. CASE j \in calls
    BY <2>2
  <2>3. CASE \E st \in Stages : j = [k EXCEPT !.stage = st]
    <3>1. PICK st \in Stages : j = [k EXCEPT !.stage = st]
      BY <2>3
    <3>2. j.server = k.server /\ j.kind = k.kind /\ j.what = k.what /\ j.ours = k.ours
      BY <1>1, <3>1, StagedIsChange
    <3>3. QED
      BY <3>2
  <2>4. QED
    BY <2>1, <2>2, <2>3
<1>4. fetches' = fetches \/ fetches' = Doubted({About(k)}, Len(fetches) + 1)
  BY DEF ServerDoes, CallLost, NotHeard
<1>5. QED
  BY <1>1, <1>2, <1>3, <1>4, CarriedHosts

LEMMA CallAnsweredHosts ==
  ASSUME PageInv, HostsAgree, WaitsNear, NEW k \in calls, CallAnswered(k)
  PROVE  HostsAgree' /\ WaitsNear'
<1>1. /\ k \in Changes /\ calls' = calls \ {k} /\ UNCHANGED <<screen, mixed, truth>>
      /\ fetches' = IF k.ours /\ IsFollowed(k) THEN Refreshed(k.server, {About(k)}) ELSE fetches
  BY DEF CallAnswered, PageInv, PageTyped, choice, ghosts
<1>2. Near' = Near /\ IsOpen' = IsOpen
  BY <1>1 DEF Near, IsOpen
<1>3. CASE k.ours /\ IsFollowed(k)
  <2>1. IsOpen /\ k.server \in Servers /\ k.server \in Near
    <3>1. IsOpen
      BY <1>3 DEF PageInv, ClosedIsFresh
    <3>2. QED
      BY <1>1, <1>3, <3>1 DEF WaitsNear, Changes
  <2>2. /\ \A n \in DOMAIN fetches : fetches[n].server \in Near'
        /\ \A l \in calls : l.ours => l.server \in Near'
    BY <1>2, <2>1 DEF WaitsNear
  <2>3. PICK s \in Servers : s = k.server
    BY <2>1
  <2>4. /\ fetches' = Refreshed(s, {About(k)}) /\ {About(k)} \in SUBSET Parts
        /\ s \in Near' /\ calls' \subseteq calls /\ truth' = truth
    BY <1>1, <1>2, <1>3, <2>1, <2>3, AboutIsPart
  <2>5. QED
    BY <2>2, <2>4, RefreshedHosts
<1>4. CASE ~(k.ours /\ IsFollowed(k))
  <2>1. fetches' = fetches
    BY <1>1, <1>4
  <2>2. HostsAgree' /\ WaitsNear'
    BY <1>1, <1>2, <2>1 DEF HostsAgree, WaitsNear
  <2>3. QED
    BY <2>2
<1>5. QED
  BY <1>3, <1>4

LEMMA FetchedHosts ==
  ASSUME PageInv, HostsAgree, WaitsNear, NEW n \in DOMAIN fetches, Fetched(n) \/ FetchLost(n)
  PROVE  HostsAgree' /\ WaitsNear'
<1>1. /\ fetches' = RemoveAt(Doubted(fetches[n].accounts, n), n)
      /\ UNCHANGED <<truth, screen, calls, mixed>>
  BY DEF Fetched, FetchLost, choice
<1>2. QED
  BY <1>1, OverHosts

-----------------------------------------------------------------------------
(* Every action keeps the counts                                           *)

LEMMA CountsStart == PageInit => CountsInv
<1> SUFFICES ASSUME PageInit PROVE CountsInv
  OBVIOUS
<1>1. DOMAIN fetches = {} /\ calls = {} /\ ~IsOpen
  BY ScreensAssumption DEF PageInit, IsOpen
<1>2. \A s \in Servers : \A i \in truth[s].has : HostOf[i] = s
  <2>1. ASSUME NEW s \in Servers
        PROVE  [EmptyTree EXCEPT !.has = {i \in Made : HostOf[i] = s}].has = {i \in Made : HostOf[i] = s}
    BY DEF EmptyTree
  <2>2. QED
    BY <2>1 DEF PageInit
<1>3. HostsAgree /\ WaitsNear /\ PageNear
  BY <1>1, <1>2 DEF HostsAgree, WaitsNear, PageNear
<1>4. CountsTyped
  BY AllAreListed DEF PageInit, CountsTyped
<1>5. UnreadWithin
  BY MountedIsWhole DEF PageInit, UnreadWithin
<1>6. BadgeWithin
  <2>1. ASSUME NEW s \in ToSet(listed) PROVE badge[s] <= SumFunctionOnSet(owed, ChannelsOf(s))
    <3>1. s \in Servers
      BY <1>4, ListIsOver DEF CountsTyped
    <3>2. badge[s] = 0
      BY <3>1 DEF PageInit
    <3>3. PICK o \in [Channels -> Nat] : o = owed
      BY <1>4 DEF CountsTyped
    <3>4. PICK S \in SUBSET Channels : S = ChannelsOf(s)
      BY DEF ChannelsOf
    <3>5. IsFiniteSet(S)
      BY FewAssumption, FS_Subset
    <3>6. SumFunctionOnSet(o, S) \in Nat
      BY <3>5, SumIsNumber
    <3>7. QED
      BY <3>2, <3>3, <3>4, <3>6
  <2>2. QED
    BY <2>1 DEF BadgeWithin
<1>7. QED
  BY <1>3, <1>4, <1>5, <1>6 DEF CountsInv, PageCounts

(* Nothing that is counted or waited for changes.                          *)
LEMMA SameCounts ==
  ASSUME PageInv, CountsInv, UNCHANGED <<truth, fetches, calls, screen, mixed, badge, owed, listed>>,
         page'.tree = page.tree, page'.unread = page.unread, page'.watch = page.watch
  PROVE  CountsInv'
<1>1. HostsAgree' /\ WaitsNear'
  BY SameHosts DEF CountsInv
<1>2. listed' \in Seq(Servers) /\ ToSet(listed') \subseteq ToSet(listed) /\ PageCounts
  BY DEF CountsInv, PageCounts, CountsTyped
<1>3. PageCounts'
  BY <1>2, QuietCounts
<1>4. QED
  BY <1>1, <1>3 DEF CountsInv

(* What a click shows beside the tree and the counts.                      *)
LEMMA ClickCounts ==
  ASSUME PageInv, CountsInv, Toggle \/ CancelDelete \/ PaneJoined
                             \/ (\E reason \in {"kicked", "banned"} : Removed(reason))
                             \/ (\E c \in Channels : AskDelete(c))
  PROVE  CountsInv'
<1>1. page \in Whole
  BY PageBelongs
<1>2. UNCHANGED <<truth, fetches, calls, screen, mixed, badge, owed, listed>>
  BY DEF Toggle, CancelDelete, PaneJoined, Removed, AskDelete, bar, choice, ghosts
<1>3. \/ \E e : page' = [page EXCEPT !.edit = e]
      \/ \E c : page' = [page EXCEPT !.confirm = c]
      \/ \E b : page' = [page EXCEPT !.bits = b]
      \/ \E r : page' = [page EXCEPT !.removed = r]
  BY DEF Toggle, CancelDelete, PaneJoined, Removed, AskDelete
<1>4. page'.tree = page.tree /\ page'.unread = page.unread /\ page'.watch = page.watch
  BY <1>1, <1>3 DEF Whole
<1>5. QED
  BY <1>2, <1>4, SameCounts

LEMMA PicksCount == ASSUME PageInv, CountsInv, Picks PROVE CountsInv'
<1>1. ASSUME NEW s \in Servers, PickServer(s) PROVE CountsInv'
  <2>1. UNCHANGED <<truth, fetches, calls, screen, mixed, badge, owed, listed, page>>
    BY <1>1 DEF PickServer, bar, ghosts
  <2>2. QED
    BY <2>1, SameCounts
<1>2. ASSUME NEW k \in picks, Ensured(k) PROVE CountsInv'
  <2>1. UNCHANGED <<truth, fetches, calls, screen, mixed, badge, owed, listed, page>>
    BY <1>2 DEF Ensured, bar, ghosts
  <2>2. QED
    BY <2>1, SameCounts
<1>3. ASSUME NEW k \in picks, Discovered(k) PROVE CountsInv'
  <2>1. k.server \in Servers
    BY DEF PageInv, PageTyped
  <2>2. UNCHANGED <<truth, calls, listed>>
    BY <1>3 DEF Discovered
  <2>3. CASE \E c \in Generals(k.server) : Arrive(k.server, c)
    <3>1. PICK c \in Generals(k.server) : Arrive(k.server, c)
      BY <2>3
    <3>2. PICK s \in Servers : s = k.server
      BY <2>1
    <3>3. c \in Channels /\ HostOf[c] = s
      BY <2>1, <3>2 DEF Generals, CountsInv, HostsAgree
    <3>4. Arrive(s, c)
      BY <3>1, <3>2
    <3>5. PageCounts'
      BY <2>2, <3>3, <3>4, ArriveCounts
    <3>6. HostsAgree' /\ WaitsNear'
      BY <2>2, <3>3, <3>4, ArriveHosts
    <3>7. QED
      BY <3>5, <3>6 DEF CountsInv
  <2>4. CASE UNCHANGED <<badge, screen, page, fetches, ghosts>>
    <3>1. UNCHANGED <<truth, fetches, calls, screen, mixed, badge, owed, listed, page>>
      BY <2>2, <2>4 DEF ghosts
    <3>2. QED
      BY <3>1, SameCounts
  <2>5. QED
    BY <1>3, <2>3, <2>4 DEF Discovered
<1>4. ASSUME NEW to \in {"home", "other"}, Leave(to) PROVE CountsInv'
  <2>1. Unmounted(to) /\ UNCHANGED <<truth, listed, owed, mixed>>
    BY <1>4 DEF Leave, ghosts
  <2>2. listed' \in Seq(Servers) /\ ToSet(listed') \subseteq ToSet(listed)
    BY <2>1 DEF CountsInv, PageCounts, CountsTyped
  <2>3. PageCounts'
    BY <2>1, <2>2, UnmountedCounts
  <2>4. HostsAgree' /\ WaitsNear'
    BY <2>1, UnmountedHosts DEF CountsInv, PageInv, PageTyped
  <2>5. QED
    BY <2>3, <2>4 DEF CountsInv
<1>5. ASSUME NEW s \in Servers, NEW target \in Servers, MoveWorkspace(s, target) PROVE CountsInv'
  <2>1. /\ listed' = Moved(listed, s, target) /\ s \in ToSet(listed) /\ target \in ToSet(listed)
        /\ UNCHANGED <<truth, badge, screen, page, calls, fetches, owed, mixed>>
    BY <1>5 DEF MoveWorkspace, choice, ghosts, Tiles
  <2>2. listed \in Seq(Servers) /\ PageCounts
    BY DEF CountsInv, PageCounts, CountsTyped
  <2>3. PICK q : q = Moved(listed, s, target)
    OBVIOUS
  <2>4. q \in Seq(Servers) /\ ToSet(q) \subseteq ToSet(listed)
    BY <2>1, <2>2, <2>3, MovedIs
  <2>5. PageCounts'
    BY <2>1, <2>2, <2>3, <2>4, QuietCounts
  <2>6. HostsAgree' /\ WaitsNear'
    BY <2>1, SameHosts DEF CountsInv
  <2>7. QED
    BY <2>5, <2>6 DEF CountsInv
<1>6. QED
  BY <1>1, <1>2, <1>3, <1>4, <1>5 DEF Picks

LEMMA OpensCount == ASSUME PageInv, CountsInv, Opens PROVE CountsInv'
<1>1. ASSUME NEW c \in Channels, SelectChannel(c) PROVE CountsInv'
  <2>1. UNCHANGED <<truth, fetches, calls, screen, mixed>>
    BY <1>1 DEF SelectChannel, choice
  <2>2. QED
    BY <1>1, <2>1, SameHosts, SelectChannelCounts DEF CountsInv
<1>2. ASSUME RemovedIsHandled PROVE CountsInv'
  <2>1. /\ Unmounted("home") /\ UNCHANGED <<truth, owed, mixed>>
        /\ listed' = listed \/ listed' = RemoveFirst(listed, screen)
    BY <1>2 DEF RemovedIsHandled, ghosts, Kept
  <2>2. listed \in Seq(Servers)
    BY DEF CountsInv, PageCounts, CountsTyped
  <2>3. listed' \in Seq(Servers) /\ ToSet(listed') \subseteq ToSet(listed)
    <3>1. PICK q : q = RemoveFirst(listed, screen)
      OBVIOUS
    <3>2. q \in Seq(Servers) /\ ToSet(q) \subseteq ToSet(listed)
      BY <2>2, <3>1, WithoutIs
    <3>3. QED
      BY <2>1, <2>2, <3>1, <3>2
  <2>4. PageCounts'
    BY <2>1, <2>3, UnmountedCounts
  <2>5. HostsAgree' /\ WaitsNear'
    BY <2>1, UnmountedHosts DEF CountsInv, PageInv, PageTyped
  <2>6. QED
    BY <2>4, <2>5 DEF CountsInv
<1>3. QED
  BY <1>1, <1>2, ClickCounts DEF Opens

LEMMA RearrangesCount == ASSUME PageInv, CountsInv, Rearranges PROVE CountsInv'
<1>1. ASSUME ConfirmDelete PROVE CountsInv'
  <2>1. PICK c : c = page.confirm
    OBVIOUS
  <2>2. IsOpen /\ Ask("delete", <<c>>) /\ UNCHANGED <<truth, fetches, screen, mixed>>
    BY <1>1, <2>1 DEF ConfirmDelete, choice
  <2>3. HostsAgree' /\ WaitsNear'
    BY <2>2, AskHosts DEF CountsInv
  <2>4. QED
    BY <1>1, <2>3, ConfirmDeleteCounts DEF CountsInv
<1>2. ASSUME NEW e \in Edits, Arrange(e) PROVE CountsInv'
  <2>1. PICK what : what = <<e, Rearranged(page.tree, e).arr[e]>>
    OBVIOUS
  <2>2. IsOpen /\ Ask("arrange", what) /\ UNCHANGED <<truth, fetches, screen, mixed>>
    BY <1>2, <2>1 DEF Arrange, Editing, choice, ghosts
  <2>3. HostsAgree' /\ WaitsNear'
    BY <2>2, AskHosts DEF CountsInv
  <2>4. QED
    BY <1>2, <2>3, ArrangeCounts DEF CountsInv
<1>3. ASSUME NEW i \in Items, Add(i) PROVE CountsInv'
  <2>1. /\ IsOpen /\ Ask("create", <<i>>) /\ HostOf[i] = screen
        /\ UNCHANGED <<truth, fetches, screen, mixed, badge, listed, page, owed>>
    BY <1>3 DEF Add, Editing, bar, choice, ghosts
  <2>2. PICK what : what = <<i>>
    OBVIOUS
  <2>3. what[1] = i
    BY <2>2
  <2>4. HostsAgree' /\ WaitsNear'
    BY <2>1, <2>2, <2>3, AskHosts DEF CountsInv
  <2>5. PageCounts /\ listed' \in Seq(Servers) /\ ToSet(listed') \subseteq ToSet(listed)
    BY <2>1 DEF CountsInv, PageCounts, CountsTyped
  <2>6. PageCounts'
    BY <2>1, <2>5, QuietCounts
  <2>7. QED
    BY <2>4, <2>6 DEF CountsInv
<1>4. QED
  BY <1>1, <1>2, <1>3, ClickCounts DEF Rearranges

LEMMA AnswersCount == ASSUME PageInv, CountsInv, Answers PROVE CountsInv'
<1>1. ASSUME NEW n \in DOMAIN fetches, Fetched(n) PROVE CountsInv'
  BY <1>1, FetchedCounts, FetchedHosts DEF CountsInv
<1>2. ASSUME UNCHANGED <<badge, screen, mixed, owed, listed, page>> PROVE PageCounts'
  <2>1. PageCounts /\ listed' \in Seq(Servers) /\ ToSet(listed') \subseteq ToSet(listed)
    BY <1>2 DEF CountsInv, PageCounts, CountsTyped
  <2>2. QED
    BY <1>2, <2>1, QuietCounts
<1>3. ASSUME NEW k \in calls, ServerDoes(k) \/ CallLost(k) PROVE CountsInv'
  <2>1. UNCHANGED <<badge, screen, mixed, owed, listed, page>>
    BY <1>3 DEF ServerDoes, CallLost, bar, choice
  <2>2. QED
    BY <1>2, <1>3, <2>1, AnswerHosts DEF CountsInv
<1>4. ASSUME NEW k \in calls, CallAnswered(k) PROVE CountsInv'
  <2>1. UNCHANGED <<badge, screen, mixed, owed, listed, page>>
    BY <1>4 DEF CallAnswered, bar, choice, ghosts
  <2>2. QED
    BY <1>2, <1>4, <2>1, CallAnsweredHosts DEF CountsInv
<1>5. ASSUME NEW n \in DOMAIN fetches, Reads(n) \/ FetchLost(n) PROVE CountsInv'
  <2>1. UNCHANGED <<badge, screen, mixed, owed, listed, page>>
    BY <1>5 DEF Reads, FetchLost, bar, choice, ghosts
  <2>2. QED
    BY <1>2, <1>5, <2>1, ReadsHosts, FetchedHosts DEF CountsInv
<1>6. QED
  BY <1>1, <1>3, <1>4, <1>5 DEF Answers

LEMMA CountsCount == ASSUME PageInv, CountsInv, Counts PROVE CountsInv'
<1>1. UNCHANGED <<truth, fetches, calls, screen, mixed>>
  BY DEF Counts, Watching, Posted, ReadElsewhere, choice, ghosts
<1>2. HostsAgree' /\ WaitsNear'
  BY <1>1, SameHosts DEF CountsInv
<1>3. PageCounts'
  BY WatchingCounts, PostedCounts, ReadElsewhereCounts DEF Counts
<1>4. QED
  BY <1>2, <1>3 DEF CountsInv

LEMMA CountsSteps == PageInv /\ CountsInv /\ [PageNext]_pageVars => CountsInv'
<1> SUFFICES ASSUME PageInv, CountsInv, [PageNext]_pageVars PROVE CountsInv'
  OBVIOUS
<1>1. CASE UNCHANGED pageVars
  <2>1. UNCHANGED <<truth, fetches, calls, screen, mixed, badge, owed, listed, page>>
    BY <1>1 DEF pageVars, bar, choice, ghosts
  <2>2. QED
    BY <2>1, SameCounts
<1>2. QED
  BY <1>1, PicksCount, OpensCount, RearrangesCount, AnswersCount, CountsCount DEF PageNext

(* What the page counts as unread is owed to the user, channel by channel, *)
(* and the badge of a workspace counts no more than its channels owe, as   *)
(* long as the page was not switched between workspaces                    *)
(* (chat/server-unread.ts and identity-context.tsx).                       *)
THEOREM CountsHold == PageSpec => []UnreadIsOwed
<1>1. PageInv /\ CountsInv => UnreadIsOwed
  BY DEF CountsInv, PageCounts, UnreadWithin, BadgeWithin, ChannelsOf, UnreadIsOwed
<1>2. QED
  BY <1>1, PageStarts, PageSteps, CountsStart, CountsSteps, PTL DEF PageSpec
=============================================================================
