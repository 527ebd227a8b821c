----------------------------- MODULE InboxLog -----------------------------
(***************************************************************************)
(* The inbox of a recipient at one anchor, as written by concurrent        *)
(* requests (Yawp.Federation.append_inbox, InboxEntry :append with its     *)
(* change AssignInboxSerial) and as read by a peer that keeps a cursor     *)
(* (FederationController.pull, InboxEntry :pull).                          *)
(*                                                                         *)
(* Every append is one transaction: it waits for an advisory lock chosen   *)
(* by a hash of the recipient, counts the rows of its envelope, takes the  *)
(* next serial, inserts, and commits; the lock is freed by the commit.     *)
(* PostgreSQL runs it at READ COMMITTED, so each statement sees the rows   *)
(* committed before it started.                                            *)
(***************************************************************************)
EXTENDS Naturals, FiniteSets

CONSTANTS
  Recipients,   \* recipient DIDs
  Envelopes,    \* envelope ids
  Handlers,     \* request processes appending to inboxes
  Keys,         \* advisory lock keys
  LockKey,      \* LockKey[r]: the hash of r
  Free,         \* an advisory lock nobody holds
  Limit         \* the most entries a pull returns

ASSUME LockAssumption == LockKey \in [Recipients -> Keys] /\ Free \notin Handlers
ASSUME LimitAssumption == Limit \in Nat \ {0}

VARIABLES
  rows,     \* rows[r]: the committed entries of r's inbox
  lock,     \* lock[k]: the handler holding advisory lock k, or Free
  handler,  \* handler[h]: the request h is serving
  told,     \* told[r]: the envelopes broadcast to r's topic
  cursor,   \* cursor[r]: the last serial the peer has pulled
  got       \* got[r]: the envelopes the peer has pulled

vars == <<rows, lock, handler, told, cursor, got>>

Entry == [env : Envelopes, serial : Nat]

Request ==
  [pc     : {"idle", "waiting", "locked", "counted", "numbered", "committed"},
   to     : Recipients,
   env    : Envelopes,
   fresh  : BOOLEAN,   \* the count of earlier rows was 0
   serial : Nat]       \* the serial taken

TypeOK ==
  /\ rows \in [Recipients -> SUBSET Entry]
  /\ lock \in [Keys -> Handlers \cup {Free}]
  /\ handler \in [Handlers -> Request]
  /\ told \in [Recipients -> SUBSET Envelopes]
  /\ cursor \in [Recipients -> Nat]
  /\ got \in [Recipients -> SUBSET Envelopes]

Init ==
  /\ rows = [r \in Recipients |-> {}]
  /\ lock = [k \in Keys |-> Free]
  /\ handler \in [Handlers -> [pc : {"idle"}, to : Recipients, env : Envelopes,
                              fresh : {FALSE}, serial : {0}]]
  /\ told = [r \in Recipients |-> {}]
  /\ cursor = [r \in Recipients |-> 0]
  /\ got = [r \in Recipients |-> {}]

Serials(r) == {x.serial : x \in rows[r]}
Stored(r, e) == \E x \in rows[r] : x.env = e

(* COALESCE(MAX(inbox_serial), 0) + 1                                      *)
NextSerial(r) ==
  IF rows[r] = {} THEN 1
  ELSE 1 + CHOOSE n \in Serials(r) : \A m \in Serials(r) : m <= n

HandlerBecomes(h, q) == handler' = [handler EXCEPT ![h] = q]

-----------------------------------------------------------------------------
(* append_inbox, statement by statement                                    *)

(* A request to append e to the inbox of r arrives; it may be one that has *)
(* been made before.                                                       *)
Begin(h, r, e) ==
  /\ handler[h].pc = "idle"
  /\ HandlerBecomes(h, [pc |-> "waiting", to |-> r, env |-> e, fresh |-> FALSE, serial |-> 0])
  /\ UNCHANGED <<rows, lock, told, cursor, got>>

(* Mutant: the lock is not taken, as if it were of another session.        *)
TakeLockUnheld(h) ==
  /\ handler[h].pc = "waiting"
  /\ HandlerBecomes(h, [handler[h] EXCEPT !.pc = "locked"])
  /\ UNCHANGED <<rows, lock, told, cursor, got>>

(* SELECT pg_advisory_xact_lock(phash2(recipient_did))                     *)
TakeLock(h) ==
  LET q == handler[h] IN
  /\ q.pc = "waiting"
  /\ lock[LockKey[q.to]] = Free
  /\ lock' = [lock EXCEPT ![LockKey[q.to]] = h]
  /\ HandlerBecomes(h, [q EXCEPT !.pc = "locked"])
  /\ UNCHANGED <<rows, told, cursor, got>>

(* SELECT COUNT(...) of this envelope in this inbox                        *)
CountExisting(h) ==
  LET q == handler[h] IN
  /\ q.pc = "locked"
  /\ HandlerBecomes(h, [q EXCEPT !.pc = "counted", !.fresh = ~Stored(q.to, q.env)])
  /\ UNCHANGED <<rows, lock, told, cursor, got>>

TakeSerial(h) ==
  LET q == handler[h] IN
  /\ q.pc = "counted"
  /\ HandlerBecomes(h, [q EXCEPT !.pc = "numbered", !.serial = NextSerial(q.to)])
  /\ UNCHANGED <<rows, lock, told, cursor, got>>

(* The upsert on unique_envelope writes no field of an existing row.       *)
Insert(q) ==
  rows' = IF Stored(q.to, q.env) THEN rows
          ELSE [rows EXCEPT ![q.to] = @ \cup {[env |-> q.env, serial |-> q.serial]}]

Commit(h) ==
  LET q == handler[h] IN
  /\ q.pc = "numbered"
  /\ Insert(q)
  /\ lock' = [lock EXCEPT ![LockKey[q.to]] = Free]
  /\ HandlerBecomes(h, [q EXCEPT !.pc = "committed"])
  /\ UNCHANGED <<told, cursor, got>>

(* A statement failed, or the anchor went down: the transaction is undone  *)
(* and its lock is freed.                                                  *)
Abort(h) ==
  LET q == handler[h] IN
  /\ q.pc \in {"waiting", "locked", "counted", "numbered"}
  /\ lock' = [lock EXCEPT ![LockKey[q.to]] = IF @ = h THEN Free ELSE @]
  /\ HandlerBecomes(h, [q EXCEPT !.pc = "idle"])
  /\ UNCHANGED <<rows, told, cursor, got>>

(* inbox_created?: the entry is broadcast when the count was 0.            *)
Announce(h) ==
  LET q == handler[h] IN
  /\ q.pc = "committed"
  /\ told' = IF q.fresh THEN [told EXCEPT ![q.to] = @ \cup {q.env}] ELSE told
  /\ HandlerBecomes(h, [q EXCEPT !.pc = "idle"])
  /\ UNCHANGED <<rows, lock, cursor, got>>

(* The anchor goes down between the commit and the broadcast.              *)
LoseAnnouncement(h) ==
  /\ handler[h].pc = "committed"
  /\ HandlerBecomes(h, [handler[h] EXCEPT !.pc = "idle"])
  /\ UNCHANGED <<rows, lock, told, cursor, got>>

-----------------------------------------------------------------------------
(* Mutant: the entries are not sorted by serial.                           *)
PullUnsorted(r) ==
  LET news == {x \in rows[r] : x.serial > cursor[r]} IN
  \E last \in news : \E batch \in SUBSET {x \in news : x.serial <= last.serial} :
    /\ last \in batch
    /\ Cardinality(batch) <= Limit
    /\ cursor' = [cursor EXCEPT ![r] = last.serial]
    /\ got' = [got EXCEPT ![r] = @ \cup {x.env : x \in batch}]
    /\ UNCHANGED <<rows, lock, handler, told>>

(* Mutant: the inbox is read from its start and cut at Limit.              *)
PullFromStart(r) ==
  LET batch == {x \in rows[r] : x.serial <= Limit /\ x.serial > cursor[r]} IN
  /\ batch # {}
  /\ cursor' = [cursor EXCEPT ![r] = Limit]
  /\ got' = [got EXCEPT ![r] = @ \cup {x.env : x \in batch}]
  /\ UNCHANGED <<rows, lock, handler, told>>

(* pull: the entries after the cursor, lowest serial first, at most Limit; *)
(* the peer asks next from the last serial it was given.                   *)
Pull(r) ==
  LET news == {x \in rows[r] : x.serial > cursor[r]} IN
  \E last \in news :
    LET batch == {x \in news : x.serial <= last.serial} IN
    /\ Cardinality(batch) <= Limit
    /\ batch = news \/ Cardinality(batch) = Limit
    /\ cursor' = [cursor EXCEPT ![r] = last.serial]
    /\ got' = [got EXCEPT ![r] = @ \cup {x.env : x \in batch}]
    /\ UNCHANGED <<rows, lock, handler, told>>

-----------------------------------------------------------------------------
Step(h) ==
  TakeLock(h) \/ CountExisting(h) \/ TakeSerial(h) \/ Commit(h) \/ Announce(h)

Next ==
  \/ \E h \in Handlers :
       \/ Step(h) \/ Abort(h) \/ LoseAnnouncement(h)
       \/ \E r \in Recipients, e \in Envelopes : Begin(h, r, e)
  \/ \E r \in Recipients : Pull(r)

Spec == Init /\ [][Next]_vars

(* Statements that can run do, and the peer keeps pulling.  A handler that *)
(* waits for a lock is not promised it over another that comes later.      *)
Fairness ==
  /\ \A h \in Handlers : WF_vars(Step(h))
  /\ \A r \in Recipients : WF_vars(Pull(r))

FairSpec == Spec /\ Fairness

-----------------------------------------------------------------------------
(* Properties                                                              *)

(* An inbox numbers its entries 1, 2, 3, ... without gap or repetition,    *)
(* and holds an envelope at most once, however many handlers append at     *)
(* once and wherever one of them fails (AssignInboxSerial, unique_         *)
(* envelope).                                                              *)
SerialsAreGapless ==
  \A r \in Recipients :
    /\ \A n \in Serials(r) : n > 0 /\ (n = 1 \/ n - 1 \in Serials(r))
    /\ \A x, y \in rows[r] : x.env = y.env \/ x.serial = y.serial => x = y

(* The inbox is an append-only log: an entry is never changed or removed,  *)
(* and one that becomes visible comes after all that were visible before.  *)
OnlyAppends ==
  \A r \in Recipients :
    /\ rows[r] \subseteq rows'[r]
    /\ \A x \in rows'[r] \ rows[r], y \in rows[r] : y.serial < x.serial

AppendOnly == [][OnlyAppends]_vars

(* A peer that pulls from its cursor misses nothing: what lies at or below *)
(* the cursor has been handed over.  It rests on the lock being held until *)
(* the commit: otherwise a lower serial could become visible later.        *)
CursorMissesNothing ==
  \A r \in Recipients : \A x \in rows[r] : x.serial <= cursor[r] => x.env \in got[r]

(* A handler about to broadcast a new entry is the only one to do so, and  *)
(* nobody has before: a repeated push is silent.                           *)
Announcing(h, r, e) ==
  handler[h].pc = "committed" /\ handler[h].fresh /\ handler[h].to = r /\ handler[h].env = e

AnnouncedOnce ==
  \A r \in Recipients, e \in Envelopes :
    /\ e \in told[r] => Stored(r, e)
    /\ \A h \in Handlers : Announcing(h, r, e) =>
         /\ Stored(r, e) /\ e \notin told[r]
         /\ \A i \in Handlers \ {h} : ~Announcing(i, r, e)

(* Whatever is stored is pulled in the end, although pulls are limited.    *)
StoredIsPulled ==
  \A r \in Recipients, e \in Envelopes : Stored(r, e) ~> e \in got[r]
=============================================================================
