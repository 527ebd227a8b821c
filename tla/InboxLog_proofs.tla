-------------------------- MODULE InboxLog_proofs --------------------------
(***************************************************************************)
(* Proofs about InboxLog: the lock makes the steps between it and the      *)
(* commit one step for the inbox, so the serials are 1, 2, 3, ..., the     *)
(* inbox only grows at its end, a cursor misses nothing and an envelope is *)
(* announced once.                                                         *)
(***************************************************************************)
EXTENDS InboxLog, TLAPS

-----------------------------------------------------------------------------
(* The inductive invariant                                                 *)

(* Stored and Serials of a set of entries, now or in the next state.       *)
HasEnv(entries, e) == \E x \in entries : x.env = e
SerialsOf(entries) == {x.serial : x \in entries}

(* From the lock to the commit the handler holds the lock of its inbox.    *)
LockHeld ==
  \A h \in Handlers :
    handler[h].pc \in {"locked", "counted", "numbered"} => lock[LockKey[handler[h].to]] = h

(* What was counted is still so: nobody else can append.                   *)
CountIsCurrent ==
  \A h \in Handlers :
    handler[h].pc \in {"counted", "numbered"} =>
      (handler[h].fresh <=> ~HasEnv(rows[handler[h].to], handler[h].env))

(* The serial taken is still the next one.                                 *)
SerialIsNext ==
  \A h \in Handlers :
    handler[h].pc = "numbered" =>
      \E k \in Nat : SerialsOf(rows[handler[h].to]) = 1..k /\ handler[h].serial = k + 1

Dense == \A r \in Recipients : \E k \in Nat : Serials(r) = 1..k

Unique ==
  \A r \in Recipients : \A x, y \in rows[r] : x.env = y.env \/ x.serial = y.serial => x = y

(* The cursor is a serial the peer was given.                              *)
CursorIsSerial == \A r \in Recipients : cursor[r] \in Serials(r) \cup {0}

Guarded == TypeOK /\ LockHeld /\ CountIsCurrent /\ SerialIsNext
Log == Dense /\ Unique
Reader == CursorIsSerial /\ CursorMissesNothing

-----------------------------------------------------------------------------
(* Facts about the operators                                               *)

LEMMA RequestFields ==
  ASSUME NEW q \in Request
  PROVE  /\ q.to \in Recipients
         /\ q.env \in Envelopes
         /\ q.fresh \in BOOLEAN
         /\ q.serial \in Nat
BY DEF Request

LEMMA HandlerTyped ==
  ASSUME TypeOK, NEW h \in Handlers
  PROVE  /\ handler \in [Handlers -> Request]
         /\ handler[h] \in Request
         /\ handler[h].to \in Recipients
         /\ handler[h].env \in Envelopes
         /\ handler[h].fresh \in BOOLEAN
         /\ handler[h].serial \in Nat
<1>1. handler \in [Handlers -> Request]
  BY DEF TypeOK
<1> QED
  BY <1>1, RequestFields

(* A handler's request is replaced, the others stay.                       *)
LEMMA HandlerUpdate ==
  ASSUME handler \in [Handlers -> Request], NEW h \in Handlers, NEW q \in Request,
         HandlerBecomes(h, q)
  PROVE  /\ handler' \in [Handlers -> Request]
         /\ handler'[h] = q
         /\ \A i \in Handlers \ {h} : handler'[i] = handler[i]
BY DEF HandlerBecomes

(* What a step on the way to the commit makes of its request.              *)
LEMMA RequestMoves ==
  ASSUME NEW q \in Request
  PROVE  /\ [q EXCEPT !.pc = "locked"] \in Request
         /\ [q EXCEPT !.pc = "idle"] \in Request
         /\ [q EXCEPT !.pc = "committed"] \in Request
         /\ \A b \in BOOLEAN : [q EXCEPT !.pc = "counted", !.fresh = b] \in Request
         /\ \A n \in Nat : [q EXCEPT !.pc = "numbered", !.serial = n] \in Request
BY DEF Request

LEMMA RowsTyped ==
  ASSUME TypeOK, NEW r \in Recipients
  PROVE  /\ rows \in [Recipients -> SUBSET Entry]
         /\ \A x \in rows[r] : x.env \in Envelopes /\ x.serial \in Nat
BY DEF TypeOK, Entry

(* With the serials 1..k the next one is k + 1.                            *)
LEMMA NextSerialIs ==
  ASSUME NEW r \in Recipients, NEW k \in Nat, Serials(r) = 1..k
  PROVE  NextSerial(r) = k + 1
<1>1. rows[r] = {} <=> Serials(r) = {}
  BY DEF Serials
<1>2. CASE rows[r] = {}
  <2>1. k = 0
    <3>1. k > 0 => 1 \in 1..k
      OBVIOUS
    <3> QED
      BY <1>1, <1>2, <3>1
  <2> QED
    BY <1>2, <2>1 DEF NextSerial
<1>3. CASE rows[r] # {}
  <2>1. k > 0
    <3>1. k = 0 => 1..k = {}
      OBVIOUS
    <3> QED
      BY <1>1, <1>3, <3>1
  <2> DEFINE last == CHOOSE n \in Serials(r) : \A m \in Serials(r) : m <= n
  <2>2. \E n \in Serials(r) : \A m \in Serials(r) : m <= n
    <3>1. k \in 1..k /\ \A m \in 1..k : m <= k
      BY <2>1
    <3> QED
      BY <3>1
  <2>3. last \in Serials(r) /\ \A m \in Serials(r) : m <= last
    BY <2>2
  <2>4. NextSerial(r) = 1 + last
    BY <1>3 DEF NextSerial
  <2> HIDE DEF last
  <2>5. last = k
    <3>1. k \in Serials(r)
      BY <2>1
    <3>2. last \in 1..k /\ k <= last
      BY <2>3, <3>1
    <3> QED
      BY <3>2
  <2> QED
    BY <2>4, <2>5
<1> QED
  BY <1>2, <1>3

-----------------------------------------------------------------------------
(* Types                                                                   *)

LEMMA InitTyped == Init => TypeOK
<1> SUFFICES ASSUME Init PROVE TypeOK
  OBVIOUS
<1>1. rows \in [Recipients -> SUBSET Entry] /\ told \in [Recipients -> SUBSET Envelopes]
  BY DEF Init
<1>2. lock \in [Keys -> Handlers \cup {Free}]
  BY DEF Init
<1>3. handler \in [Handlers -> Request]
  <2> DEFINE no == {FALSE}
  <2>1. no \subseteq BOOLEAN
    OBVIOUS
  <2>2. handler \in [Handlers -> [pc : {"idle"}, to : Recipients, env : Envelopes,
                                 fresh : no, serial : {0}]]
    BY DEF Init
  <2> HIDE DEF no
  <2>3. ASSUME NEW q \in [pc : {"idle"}, to : Recipients, env : Envelopes,
                          fresh : no, serial : {0}]
        PROVE  q \in Request
    BY <2>1 DEF Request
  <2> QED
    BY <2>2, <2>3
<1>4. cursor \in [Recipients -> Nat] /\ got \in [Recipients -> SUBSET Envelopes]
  BY DEF Init
<1> QED
  BY <1>1, <1>2, <1>3, <1>4 DEF TypeOK

-----------------------------------------------------------------------------
(* What each action does, in the terms the invariant is stated in          *)

Others(h) == \A i \in Handlers \ {h} : handler'[i] = handler[i]

SameTarget(h) == handler'[h].to = handler[h].to /\ handler'[h].env = handler[h].env

LEMMA BeginDoes ==
  ASSUME TypeOK, NEW h \in Handlers, NEW r \in Recipients, NEW e \in Envelopes, Begin(h, r, e)
  PROVE  /\ handler' \in [Handlers -> Request] /\ Others(h)
         /\ handler'[h].pc = "waiting"
         /\ handler[h].pc = "idle"
<1> DEFINE q == [pc |-> "waiting", to |-> r, env |-> e, fresh |-> FALSE, serial |-> 0]
<1>1. q \in Request /\ q.pc = "waiting"
  BY DEF Request
<1>2. HandlerBecomes(h, q) /\ handler[h].pc = "idle"
  BY DEF Begin
<1> HIDE DEF q
<1> QED
  BY <1>1, <1>2, HandlerTyped, HandlerUpdate DEF Others

LEMMA TakeLockDoes ==
  ASSUME TypeOK, NEW h \in Handlers, TakeLock(h)
  PROVE  /\ handler' \in [Handlers -> Request] /\ Others(h) /\ SameTarget(h)
         /\ handler[h].pc = "waiting" /\ handler'[h].pc = "locked"
         /\ lock[LockKey[handler[h].to]] = Free
         /\ lock' = [lock EXCEPT ![LockKey[handler[h].to]] = h]
<1> DEFINE next == [handler[h] EXCEPT !.pc = "locked"]
<1>1. handler[h] \in Request
  BY HandlerTyped
<1>2. next \in Request /\ next.pc = "locked"
      /\ next.to = handler[h].to /\ next.env = handler[h].env
  BY <1>1 DEF Request
<1>3. HandlerBecomes(h, next) /\ handler[h].pc = "waiting"
      /\ lock[LockKey[handler[h].to]] = Free
      /\ lock' = [lock EXCEPT ![LockKey[handler[h].to]] = h]
  BY DEF TakeLock
<1> HIDE DEF next
<1> QED
  BY <1>2, <1>3, HandlerTyped, HandlerUpdate DEF Others, SameTarget

LEMMA CountExistingDoes ==
  ASSUME TypeOK, NEW h \in Handlers, CountExisting(h)
  PROVE  /\ handler' \in [Handlers -> Request] /\ Others(h) /\ SameTarget(h)
         /\ handler[h].pc = "locked" /\ handler'[h].pc = "counted"
         /\ handler'[h].fresh <=> ~Stored(handler[h].to, handler[h].env)
<1> DEFINE new == ~Stored(handler[h].to, handler[h].env)
<1>0. new \in BOOLEAN
  BY DEF Stored
<1>3. HandlerBecomes(h, [handler[h] EXCEPT !.pc = "counted", !.fresh = new])
      /\ handler[h].pc = "locked"
  BY DEF CountExisting
<1> HIDE DEF new
<1> DEFINE next == [handler[h] EXCEPT !.pc = "counted", !.fresh = new]
<1>1. handler[h] \in Request
  BY HandlerTyped
<1>2. next \in Request /\ next.pc = "counted" /\ next.fresh = new
      /\ next.to = handler[h].to /\ next.env = handler[h].env
  BY <1>0, <1>1 DEF Request
<1>4. HandlerBecomes(h, next)
  BY <1>3
<1> HIDE DEF next
<1>5. handler' \in [Handlers -> Request] /\ Others(h) /\ SameTarget(h)
      /\ handler'[h].pc = "counted" /\ handler'[h].fresh = new
  BY <1>2, <1>4, HandlerTyped, HandlerUpdate DEF Others, SameTarget
<1> QED
  BY <1>3, <1>5 DEF new

LEMMA TakeSerialDoes ==
  ASSUME TypeOK, Dense, NEW h \in Handlers, TakeSerial(h)
  PROVE  /\ handler' \in [Handlers -> Request] /\ Others(h) /\ SameTarget(h)
         /\ handler[h].pc = "counted" /\ handler'[h].pc = "numbered"
         /\ handler'[h].fresh = handler[h].fresh
         /\ \E k \in Nat : Serials(handler[h].to) = 1..k /\ handler'[h].serial = k + 1
<1>0. PICK k \in Nat : Serials(handler[h].to) = 1..k
  BY HandlerTyped DEF Dense
<1> DEFINE n == k + 1
<1>1. n \in Nat /\ NextSerial(handler[h].to) = n
  BY <1>0, HandlerTyped, NextSerialIs
<1>2. handler[h].pc = "counted"
      /\ HandlerBecomes(h, [handler[h] EXCEPT !.pc = "numbered", !.serial = n])
  BY <1>1 DEF TakeSerial
<1>3. \E j \in Nat : Serials(handler[h].to) = 1..j /\ n = j + 1
  BY <1>0
<1> HIDE DEF n
<1> DEFINE next == [handler[h] EXCEPT !.pc = "numbered", !.serial = n]
<1>4. next \in Request /\ next.pc = "numbered" /\ next.serial = n
      /\ next.to = handler[h].to /\ next.env = handler[h].env
      /\ next.fresh = handler[h].fresh
  <2>1. handler[h] \in Request
    BY HandlerTyped
  <2> QED
    BY <1>1, <2>1 DEF Request
<1>5. HandlerBecomes(h, next)
  BY <1>2
<1> HIDE DEF next
<1> QED
  BY <1>2, <1>3, <1>4, <1>5, HandlerTyped, HandlerUpdate DEF Others, SameTarget

LEMMA CommitDoes ==
  ASSUME TypeOK, NEW h \in Handlers, Commit(h)
  PROVE  /\ handler' \in [Handlers -> Request] /\ Others(h) /\ SameTarget(h)
         /\ handler[h].pc = "numbered" /\ handler'[h].pc = "committed"
         /\ handler'[h].fresh = handler[h].fresh
         /\ lock' = [lock EXCEPT ![LockKey[handler[h].to]] = Free]
         /\ Insert(handler[h])
         /\ UNCHANGED <<told, cursor, got>>
<1> DEFINE next == [handler[h] EXCEPT !.pc = "committed"]
<1>1. handler[h] \in Request
  BY HandlerTyped
<1>2. next \in Request /\ next.pc = "committed" /\ next.fresh = handler[h].fresh
      /\ next.to = handler[h].to /\ next.env = handler[h].env
  BY <1>1 DEF Request
<1>3. HandlerBecomes(h, next) /\ handler[h].pc = "numbered" /\ Insert(handler[h])
      /\ lock' = [lock EXCEPT ![LockKey[handler[h].to]] = Free]
      /\ UNCHANGED <<told, cursor, got>>
  BY DEF Commit
<1> HIDE DEF next
<1> QED
  BY <1>2, <1>3, HandlerTyped, HandlerUpdate DEF Others, SameTarget

(* Abort, Announce and LoseAnnouncement end the request.                   *)
LEMMA EndDoes ==
  ASSUME TypeOK, NEW h \in Handlers, HandlerBecomes(h, [handler[h] EXCEPT !.pc = "idle"])
  PROVE  handler' \in [Handlers -> Request] /\ Others(h) /\ handler'[h].pc = "idle"
<1> DEFINE next == [handler[h] EXCEPT !.pc = "idle"]
<1>1. handler[h] \in Request
  BY HandlerTyped
<1>2. next \in Request /\ next.pc = "idle"
  BY <1>1 DEF Request
<1>3. HandlerBecomes(h, next)
  OBVIOUS
<1> HIDE DEF next
<1> QED
  BY <1>2, <1>3, HandlerTyped, HandlerUpdate DEF Others

(* The inbox of one recipient gains at most one entry, the one numbered.   *)
LEMMA InsertDoes ==
  ASSUME TypeOK, NEW h \in Handlers, Insert(handler[h])
  PROVE  LET q == handler[h] IN
         /\ rows' \in [Recipients -> SUBSET Entry]
         /\ \A r \in Recipients \ {q.to} : rows'[r] = rows[r]
         /\ Stored(q.to, q.env) => rows' = rows
         /\ ~Stored(q.to, q.env) =>
              rows'[q.to] = rows[q.to] \cup {[env |-> q.env, serial |-> q.serial]}
<1>1. rows \in [Recipients -> SUBSET Entry] /\ handler[h].to \in Recipients
  BY RowsTyped, HandlerTyped DEF TypeOK
<1>2. [env |-> handler[h].env, serial |-> handler[h].serial] \in Entry
  BY HandlerTyped DEF Entry
<1> QED
  BY <1>1, <1>2 DEF Insert

-----------------------------------------------------------------------------
(* Type correctness and the lock                                           *)

LEMMA LockTyped ==
  ASSUME TypeOK, NEW h \in Handlers
  PROVE  lock \in [Keys -> Handlers \cup {Free}] /\ LockKey[handler[h].to] \in Keys
BY HandlerTyped, LockAssumption DEF TypeOK

(* A pull hands over entries and moves the cursor to a serial.             *)
LEMMA PullDoes ==
  ASSUME TypeOK, NEW r \in Recipients, Pull(r)
  PROVE  /\ cursor' \in [Recipients -> Nat] /\ got' \in [Recipients -> SUBSET Envelopes]
         /\ \A i \in Recipients \ {r} : cursor'[i] = cursor[i] /\ got'[i] = got[i]
         /\ cursor'[r] \in Serials(r)
         /\ got[r] \subseteq got'[r]
         /\ \A x \in rows[r] :
              x.serial > cursor[r] /\ x.serial <= cursor'[r] => x.env \in got'[r]
         /\ UNCHANGED <<rows, lock, handler, told>>
<1> DEFINE news == {x \in rows[r] : x.serial > cursor[r]}
           Batch(last) == {x \in news : x.serial <= last.serial}
<1>1. PICK last \in news :
        /\ cursor' = [cursor EXCEPT ![r] = last.serial]
        /\ got' = [got EXCEPT ![r] = @ \cup {x.env : x \in Batch(last)}]
        /\ UNCHANGED <<rows, lock, handler, told>>
  BY DEF Pull
<1>2. cursor \in [Recipients -> Nat] /\ got \in [Recipients -> SUBSET Envelopes]
  BY DEF TypeOK
<1>3. last \in rows[r] /\ last.serial \in Nat /\ last.serial \in Serials(r)
  BY RowsTyped DEF Serials
<1>4. {x.env : x \in Batch(last)} \subseteq Envelopes
  BY RowsTyped
<1>5. cursor' \in [Recipients -> Nat] /\ cursor'[r] = last.serial
      /\ \A i \in Recipients \ {r} : cursor'[i] = cursor[i]
  BY <1>1, <1>2, <1>3
<1>6. got' \in [Recipients -> SUBSET Envelopes]
      /\ got'[r] = got[r] \cup {x.env : x \in Batch(last)}
      /\ \A i \in Recipients \ {r} : got'[i] = got[i]
  BY <1>1, <1>2, <1>4
<1>7. ASSUME NEW x \in rows[r], x.serial > cursor[r], x.serial <= cursor'[r]
      PROVE  x.env \in got'[r]
  <2>1. x \in Batch(last)
    BY <1>5, <1>7
  <2> QED
    BY <1>6, <2>1
<1> QED
  BY <1>1, <1>3, <1>5, <1>6, <1>7

LEMMA StepTyped == TypeOK /\ Dense /\ [Next]_vars => TypeOK'
<1> SUFFICES ASSUME TypeOK, Dense, [Next]_vars PROVE TypeOK'
  OBVIOUS
<1> DEFINE Store == rows \in [Recipients -> SUBSET Entry]
           Locks == lock \in [Keys -> Handlers \cup {Free}]
           Talk == told \in [Recipients -> SUBSET Envelopes]
           Peer == cursor \in [Recipients -> Nat] /\ got \in [Recipients -> SUBSET Envelopes]
<1>0. Store /\ Locks /\ Talk /\ Peer /\ handler \in [Handlers -> Request]
  BY DEF TypeOK
<1>a. ASSUME Store', Locks', Talk', Peer', handler' \in [Handlers -> Request]
      PROVE  TypeOK'
  BY <1>a DEF TypeOK
<1>1. ASSUME NEW h \in Handlers, NEW r \in Recipients, NEW e \in Envelopes, Begin(h, r, e)
      PROVE  TypeOK'
  <2>1. UNCHANGED <<rows, lock, told, cursor, got>>
    BY <1>1 DEF Begin
  <2> QED
    BY <1>0, <1>1, <1>a, <2>1, BeginDoes
<1>2. ASSUME NEW h \in Handlers, TakeLock(h) PROVE TypeOK'
  <2>1. UNCHANGED <<rows, told, cursor, got>>
    BY <1>2 DEF TakeLock
  <2>2. Locks'
    BY <1>0, <1>2, LockTyped, TakeLockDoes
  <2> QED
    BY <1>0, <1>2, <1>a, <2>1, <2>2, TakeLockDoes
<1>3. ASSUME NEW h \in Handlers, CountExisting(h) PROVE TypeOK'
  <2>1. UNCHANGED <<rows, lock, told, cursor, got>>
    BY <1>3 DEF CountExisting
  <2> QED
    BY <1>0, <1>3, <1>a, <2>1, CountExistingDoes
<1>4. ASSUME NEW h \in Handlers, TakeSerial(h) PROVE TypeOK'
  <2>1. UNCHANGED <<rows, lock, told, cursor, got>>
    BY <1>4 DEF TakeSerial
  <2> QED
    BY <1>0, <1>4, <1>a, <2>1, TakeSerialDoes
<1>5. ASSUME NEW h \in Handlers, Commit(h) PROVE TypeOK'
  <2>1. UNCHANGED <<told, cursor, got>> /\ Store'
    BY <1>5, CommitDoes, InsertDoes
  <2>2. Locks'
    BY <1>0, <1>5, LockTyped, CommitDoes
  <2> QED
    BY <1>0, <1>5, <1>a, <2>1, <2>2, CommitDoes
<1>6. ASSUME NEW h \in Handlers, Abort(h) PROVE TypeOK'
  <2>1. UNCHANGED <<rows, told, cursor, got>>
        /\ HandlerBecomes(h, [handler[h] EXCEPT !.pc = "idle"])
        /\ lock' = [lock EXCEPT ![LockKey[handler[h].to]] = IF @ = h THEN Free ELSE @]
    BY <1>6 DEF Abort
  <2>2. Locks'
    BY <1>0, <2>1, LockTyped
  <2> QED
    BY <1>0, <1>a, <2>1, <2>2, EndDoes
<1>7. ASSUME NEW h \in Handlers, Announce(h) PROVE TypeOK'
  <2>1. UNCHANGED <<rows, lock, cursor, got>>
        /\ HandlerBecomes(h, [handler[h] EXCEPT !.pc = "idle"])
        /\ (told' = told \/ told' = [told EXCEPT ![handler[h].to] = @ \cup {handler[h].env}])
    BY <1>7 DEF Announce
  <2>2. Talk'
    BY <1>0, <2>1, HandlerTyped
  <2> QED
    BY <1>0, <1>a, <2>1, <2>2, EndDoes
<1>8. ASSUME NEW h \in Handlers, LoseAnnouncement(h) PROVE TypeOK'
  <2>1. UNCHANGED <<rows, lock, told, cursor, got>>
        /\ HandlerBecomes(h, [handler[h] EXCEPT !.pc = "idle"])
    BY <1>8 DEF LoseAnnouncement
  <2> QED
    BY <1>0, <1>a, <2>1, EndDoes
<1>9. ASSUME NEW r \in Recipients, Pull(r) PROVE TypeOK'
  BY <1>0, <1>9, <1>a, PullDoes
<1>10. CASE UNCHANGED vars
  BY <1>10 DEF vars, TypeOK
<1> QED
  BY <1>1, <1>2, <1>3, <1>4, <1>5, <1>6, <1>7, <1>8, <1>9, <1>10 DEF Next, Step

LEMMA StepLocks == TypeOK /\ Dense /\ LockHeld /\ [Next]_vars => LockHeld'
<1> SUFFICES ASSUME TypeOK, Dense, LockHeld, [Next]_vars,
                    NEW i \in Handlers, handler'[i].pc \in {"locked", "counted", "numbered"}
             PROVE  lock'[LockKey[handler'[i].to]] = i
  BY DEF LockHeld
<1>0. lock \in [Keys -> Handlers \cup {Free}] /\ Free \notin Handlers
      /\ \A h \in Handlers : LockKey[handler[h].to] \in Keys
  BY LockTyped, LockAssumption DEF TypeOK
<1>a. handler[i].pc \in {"locked", "counted", "numbered"} => lock[LockKey[handler[i].to]] = i
  BY DEF LockHeld
<1>1. ASSUME NEW h \in Handlers, NEW r \in Recipients, NEW e \in Envelopes, Begin(h, r, e)
      PROVE  lock'[LockKey[handler'[i].to]] = i
  <2>1. lock' = lock
    BY <1>1 DEF Begin
  <2> QED
    BY <1>1, <1>a, <2>1, BeginDoes DEF Others
<1>2. ASSUME NEW h \in Handlers, TakeLock(h)
      PROVE  lock'[LockKey[handler'[i].to]] = i
  <2>1. CASE i = h
    BY <1>0, <1>2, <2>1, TakeLockDoes DEF SameTarget
  <2>2. CASE i # h
    <3>1. handler'[i] = handler[i]
      BY <1>2, <2>2, TakeLockDoes DEF Others
    <3>2. lock[LockKey[handler[i].to]] = i
      BY <1>a, <3>1
    <3>3. LockKey[handler[i].to] # LockKey[handler[h].to]
      BY <1>0, <1>2, <3>2, TakeLockDoes
    <3> QED
      BY <1>0, <1>2, <3>1, <3>2, <3>3, TakeLockDoes
  <2> QED
    BY <2>1, <2>2
<1>3. ASSUME NEW h \in Handlers, CountExisting(h)
      PROVE  lock'[LockKey[handler'[i].to]] = i
  <2>1. lock' = lock
    BY <1>3 DEF CountExisting
  <2> QED
    BY <1>3, <1>a, <2>1, CountExistingDoes DEF Others, SameTarget
<1>4. ASSUME NEW h \in Handlers, TakeSerial(h)
      PROVE  lock'[LockKey[handler'[i].to]] = i
  <2>1. lock' = lock
    BY <1>4 DEF TakeSerial
  <2> QED
    BY <1>4, <1>a, <2>1, TakeSerialDoes DEF Others, SameTarget
<1>5. ASSUME NEW h \in Handlers, Commit(h)
      PROVE  lock'[LockKey[handler'[i].to]] = i
  <2>1. i # h /\ handler'[i] = handler[i]
    BY <1>5, CommitDoes DEF Others
  <2>2. lock[LockKey[handler[i].to]] = i
    BY <1>a, <2>1
  <2>3. lock[LockKey[handler[h].to]] = h
    BY <1>5, CommitDoes DEF LockHeld
  <2> QED
    BY <1>0, <1>5, <2>1, <2>2, <2>3, CommitDoes
<1>6. ASSUME NEW h \in Handlers, Abort(h)
      PROVE  lock'[LockKey[handler'[i].to]] = i
  <2>1. HandlerBecomes(h, [handler[h] EXCEPT !.pc = "idle"])
        /\ lock' = [lock EXCEPT ![LockKey[handler[h].to]] = IF @ = h THEN Free ELSE @]
    BY <1>6 DEF Abort
  <2>2. i # h /\ handler'[i] = handler[i]
    BY <2>1, EndDoes DEF Others
  <2>3. lock[LockKey[handler[i].to]] = i
    BY <1>a, <2>2
  <2> QED
    BY <1>0, <2>1, <2>2, <2>3
<1>7. ASSUME NEW h \in Handlers, Announce(h) \/ LoseAnnouncement(h)
      PROVE  lock'[LockKey[handler'[i].to]] = i
  <2>1. lock' = lock /\ HandlerBecomes(h, [handler[h] EXCEPT !.pc = "idle"])
    BY <1>7 DEF Announce, LoseAnnouncement
  <2> QED
    BY <1>a, <2>1, EndDoes DEF Others
<1>8. ASSUME NEW r \in Recipients, Pull(r) PROVE lock'[LockKey[handler'[i].to]] = i
  BY <1>8, <1>a, PullDoes
<1>9. CASE UNCHANGED vars
  BY <1>9, <1>a DEF vars
<1> QED
  BY <1>1, <1>2, <1>3, <1>4, <1>5, <1>6, <1>7, <1>8, <1>9 DEF Next, Step

(* Every step but a commit leaves the rows alone.                          *)
LEMMA RowsOnlyByCommit ==
  ASSUME TypeOK, [Next]_vars
  PROVE  UNCHANGED rows \/ \E h \in Handlers : Commit(h)
<1>1. ASSUME NEW h \in Handlers, NEW r \in Recipients, NEW e \in Envelopes, Begin(h, r, e)
      PROVE  UNCHANGED rows
  BY <1>1 DEF Begin
<1>2. ASSUME NEW h \in Handlers, TakeLock(h) \/ CountExisting(h) \/ TakeSerial(h)
      PROVE  UNCHANGED rows
  BY <1>2 DEF TakeLock, CountExisting, TakeSerial
<1>3. ASSUME NEW h \in Handlers, Abort(h) \/ Announce(h) \/ LoseAnnouncement(h)
      PROVE  UNCHANGED rows
  BY <1>3 DEF Abort, Announce, LoseAnnouncement
<1>4. ASSUME NEW r \in Recipients, Pull(r) PROVE UNCHANGED rows
  BY <1>4, PullDoes
<1>5. CASE UNCHANGED vars
  BY <1>5 DEF vars
<1> QED
  BY <1>1, <1>2, <1>3, <1>4, <1>5 DEF Next, Step

(* While h holds the lock of an inbox, no other handler commits to it.     *)
LEMMA LockExcludes ==
  ASSUME TypeOK, LockHeld, NEW h \in Handlers, NEW i \in Handlers, h # i, Commit(h),
         handler[i].pc \in {"locked", "counted", "numbered"}
  PROVE  /\ handler[i].to # handler[h].to
         /\ rows'[handler[i].to] = rows[handler[i].to]
<1>1. lock[LockKey[handler[i].to]] = i /\ lock[LockKey[handler[h].to]] = h
  BY CommitDoes DEF LockHeld
<1>2. handler[i].to \in Recipients
  BY HandlerTyped
<1> QED
  BY <1>1, <1>2, CommitDoes, InsertDoes

(* How a handler comes to where it is.                                     *)
ComesBy(i) ==
  \/ handler'[i] = handler[i]
  \/ handler'[i].pc \in {"idle", "waiting", "locked"}
  \/ CountExisting(i) \/ TakeSerial(i) \/ Commit(i)

LEMMA Origin ==
  ASSUME TypeOK, [Next]_vars, NEW i \in Handlers
  PROVE  ComesBy(i)
<1>0. ASSUME NEW h \in Handlers, NEW q, HandlerBecomes(h, q), i # h
      PROVE  handler'[i] = handler[i]
  BY <1>0 DEF HandlerBecomes, TypeOK
<1>1. ASSUME NEW h \in Handlers, NEW r \in Recipients, NEW e \in Envelopes, Begin(h, r, e)
      PROVE  ComesBy(i)
  BY <1>1, BeginDoes DEF Others, ComesBy
<1>2. ASSUME NEW h \in Handlers, TakeLock(h) PROVE ComesBy(i)
  BY <1>2, TakeLockDoes DEF Others, ComesBy
<1>3. ASSUME NEW h \in Handlers, CountExisting(h) \/ TakeSerial(h) \/ Commit(h) PROVE ComesBy(i)
  <2>1. CASE i = h
    BY <1>3, <2>1 DEF ComesBy
  <2>2. CASE i # h
    <3>1. \E q : HandlerBecomes(h, q)
      BY <1>3 DEF CountExisting, TakeSerial, Commit
    <3> QED
      BY <1>0, <2>2, <3>1 DEF ComesBy
  <2> QED
    BY <2>1, <2>2
<1>4. ASSUME NEW h \in Handlers, Abort(h) \/ Announce(h) \/ LoseAnnouncement(h) PROVE ComesBy(i)
  <2>1. HandlerBecomes(h, [handler[h] EXCEPT !.pc = "idle"])
    BY <1>4 DEF Abort, Announce, LoseAnnouncement
  <2> QED
    BY <2>1, EndDoes DEF Others, ComesBy
<1>5. ASSUME NEW r \in Recipients, Pull(r) PROVE ComesBy(i)
  BY <1>5, PullDoes DEF ComesBy
<1>6. CASE UNCHANGED vars
  BY <1>6 DEF vars, ComesBy
<1>7. ASSUME NEW h \in Handlers, Step(h) PROVE ComesBy(i)
  BY <1>2, <1>3, <1>4, <1>7 DEF Step
<1> QED
  BY <1>1, <1>4, <1>5, <1>6, <1>7 DEF Next

(* What a handler under the lock has counted and numbered stays true, for  *)
(* nobody else can commit to its inbox.                                    *)
LEMMA StepCounts == TypeOK /\ Dense /\ LockHeld /\ CountIsCurrent /\ [Next]_vars => CountIsCurrent'
<1> SUFFICES ASSUME TypeOK, Dense, LockHeld, CountIsCurrent, [Next]_vars,
                    NEW i \in Handlers, handler'[i].pc \in {"counted", "numbered"}
             PROVE  handler'[i].fresh <=> ~HasEnv(rows'[handler'[i].to], handler'[i].env)
  BY DEF CountIsCurrent
<1>1. CASE CountExisting(i)
  <2>1. UNCHANGED rows
    BY <1>1 DEF CountExisting
  <2>2. handler'[i].to = handler[i].to /\ handler'[i].env = handler[i].env
        /\ (handler'[i].fresh <=> ~HasEnv(rows[handler[i].to], handler[i].env))
    BY <1>1, CountExistingDoes DEF SameTarget, Stored, HasEnv
  <2> QED
    BY <2>1, <2>2
<1>2. CASE TakeSerial(i)
  <2>1. UNCHANGED rows
    BY <1>2 DEF TakeSerial
  <2>2. handler'[i].to = handler[i].to /\ handler'[i].env = handler[i].env
        /\ handler'[i].fresh = handler[i].fresh /\ handler[i].pc = "counted"
    BY <1>2, TakeSerialDoes DEF SameTarget
  <2>3. handler[i].fresh <=> ~HasEnv(rows[handler[i].to], handler[i].env)
    BY <2>2 DEF CountIsCurrent
  <2> QED
    BY <2>1, <2>2, <2>3
<1>3. CASE handler'[i] = handler[i] /\ ~Commit(i)
  <2>1. rows'[handler[i].to] = rows[handler[i].to]
    <3>1. CASE UNCHANGED rows
      BY <3>1
    <3>2. ASSUME NEW h \in Handlers, Commit(h) PROVE rows'[handler[i].to] = rows[handler[i].to]
      BY <1>3, <3>2, LockExcludes
    <3> QED
      BY <3>1, <3>2, RowsOnlyByCommit
  <2>2. handler[i].fresh <=> ~HasEnv(rows[handler[i].to], handler[i].env)
    BY <1>3 DEF CountIsCurrent
  <2> QED
    BY <1>3, <2>1, <2>2
<1>4. ~Commit(i)
  BY CommitDoes
<1> QED
  BY <1>1, <1>2, <1>3, <1>4, Origin DEF ComesBy

LEMMA StepNumbers == TypeOK /\ Dense /\ LockHeld /\ SerialIsNext /\ [Next]_vars => SerialIsNext'
<1> SUFFICES ASSUME TypeOK, Dense, LockHeld, SerialIsNext, [Next]_vars,
                    NEW i \in Handlers, handler'[i].pc = "numbered"
             PROVE  \E k \in Nat : SerialsOf(rows'[handler'[i].to]) = 1..k /\ handler'[i].serial = k + 1
  BY DEF SerialIsNext
<1>1. CASE TakeSerial(i)
  <2>1. UNCHANGED rows
    BY <1>1 DEF TakeSerial
  <2> QED
    BY <1>1, <2>1, TakeSerialDoes DEF SameTarget, Serials, SerialsOf
<1>2. CASE handler'[i] = handler[i] /\ ~Commit(i)
  <2>1. rows'[handler[i].to] = rows[handler[i].to]
    <3>1. CASE UNCHANGED rows
      BY <3>1
    <3>2. ASSUME NEW h \in Handlers, Commit(h) PROVE rows'[handler[i].to] = rows[handler[i].to]
      BY <1>2, <3>2, LockExcludes
    <3> QED
      BY <3>1, <3>2, RowsOnlyByCommit
  <2>2. \E k \in Nat : SerialsOf(rows[handler[i].to]) = 1..k /\ handler[i].serial = k + 1
    BY <1>2 DEF SerialIsNext
  <2> QED
    BY <1>2, <2>1, <2>2
<1>3. ~Commit(i) /\ ~CountExisting(i)
  BY CommitDoes, CountExistingDoes
<1> QED
  BY <1>1, <1>2, <1>3, Origin DEF ComesBy

-----------------------------------------------------------------------------
(* The log and its reader                                                  *)

(* The inbox of r gains e under the serial after its k entries.            *)
Grows(r, e, k) ==
  /\ SerialsOf(rows[r]) = 1..k
  /\ ~HasEnv(rows[r], e)
  /\ rows'[r] = rows[r] \cup {[env |-> e, serial |-> k + 1]}
  /\ \A i \in Recipients \ {r} : rows'[i] = rows[i]

LEMMA CommitGrows ==
  ASSUME TypeOK, SerialIsNext, NEW h \in Handlers, Commit(h)
  PROVE  \/ UNCHANGED rows
         \/ \E k \in Nat : Grows(handler[h].to, handler[h].env, k)
<1>1. PICK k \in Nat : SerialsOf(rows[handler[h].to]) = 1..k /\ handler[h].serial = k + 1
  BY CommitDoes DEF SerialIsNext
<1>2. CASE Stored(handler[h].to, handler[h].env)
  BY <1>2, CommitDoes, InsertDoes
<1>3. CASE ~Stored(handler[h].to, handler[h].env)
  <2>1. Grows(handler[h].to, handler[h].env, k)
    BY <1>1, <1>3, CommitDoes, InsertDoes DEF Grows, HasEnv, Stored
  <2> QED
    BY <2>1
<1> QED
  BY <1>2, <1>3

LEMMA StepGrows ==
  ASSUME TypeOK, SerialIsNext, [Next]_vars
  PROVE  \/ UNCHANGED rows
         \/ \E r \in Recipients, e \in Envelopes, k \in Nat : Grows(r, e, k)
<1>1. ASSUME NEW h \in Handlers, Commit(h)
      PROVE  \/ UNCHANGED rows
             \/ \E r \in Recipients, e \in Envelopes, k \in Nat : Grows(r, e, k)
  BY <1>1, CommitGrows, HandlerTyped
<1> QED
  BY <1>1, RowsOnlyByCommit

LEMMA StepLogs == TypeOK /\ SerialIsNext /\ Log /\ [Next]_vars => Log'
<1> SUFFICES ASSUME TypeOK, SerialIsNext, Log, [Next]_vars PROVE Log'
  OBVIOUS
<1>1. CASE UNCHANGED rows
  BY <1>1 DEF Log, Dense, Unique, Serials
<1>2. ASSUME NEW r \in Recipients, NEW e \in Envelopes, NEW k \in Nat, Grows(r, e, k)
      PROVE  Log'
  <2>1. SerialsOf(rows'[r]) = 1..(k + 1)
    <3> DEFINE x == [env |-> e, serial |-> k + 1]
    <3>a. x.serial = k + 1 /\ rows'[r] = rows[r] \cup {x}
      BY <1>2 DEF Grows
    <3> HIDE DEF x
    <3>1. SerialsOf(rows'[r]) = SerialsOf(rows[r]) \cup {k + 1}
      BY <3>a DEF SerialsOf
    <3>2. (1..k) \cup {k + 1} = 1..(k + 1)
      OBVIOUS
    <3> QED
      BY <1>2, <3>1, <3>2 DEF Grows
  <2>2. \A i \in Recipients \ {r} : rows'[i] = rows[i]
    BY <1>2 DEF Grows
  <2>3. Dense'
    BY <2>1, <2>2 DEF Log, Dense, Serials, SerialsOf
  <2>4. \A x \in rows[r] : x.env # e /\ x.serial # k + 1
    <3>1. \A x \in rows[r] : x.serial \in 1..k
      BY <1>2 DEF Grows, SerialsOf
    <3> QED
      BY <1>2, <3>1 DEF Grows, HasEnv
  <2>5. rows'[r] = rows[r] \cup {[env |-> e, serial |-> k + 1]}
    BY <1>2 DEF Grows
  <2>6. \A x, y \in rows'[r] : x.env = y.env \/ x.serial = y.serial => x = y
    BY <2>4, <2>5 DEF Log, Unique
  <2>7. Unique'
    BY <2>2, <2>6 DEF Log, Unique
  <2> QED
    BY <2>3, <2>7 DEF Log
<1> QED
  BY <1>1, <1>2, StepGrows

LEMMA StepAppends == TypeOK /\ SerialIsNext /\ [Next]_vars => OnlyAppends
<1> SUFFICES ASSUME TypeOK, SerialIsNext, [Next]_vars PROVE OnlyAppends
  OBVIOUS
<1>1. CASE UNCHANGED rows
  BY <1>1 DEF OnlyAppends
<1>2. ASSUME NEW r \in Recipients, NEW e \in Envelopes, NEW k \in Nat, Grows(r, e, k)
      PROVE  OnlyAppends
  <2>1. \A y \in rows[r] : y.serial \in 1..k
    BY <1>2 DEF Grows, SerialsOf
  <2>2. \A x \in rows'[r] \ rows[r] : x.serial = k + 1
    BY <1>2 DEF Grows
  <2>3. rows[r] \subseteq rows'[r] /\ \A i \in Recipients \ {r} : rows'[i] = rows[i]
    BY <1>2 DEF Grows
  <2>4. \A x \in rows'[r] \ rows[r], y \in rows[r] : y.serial < x.serial
    BY <2>1, <2>2
  <2> QED
    BY <2>3, <2>4 DEF OnlyAppends
<1> QED
  BY <1>1, <1>2, StepGrows

LEMMA GaplessFromDense == TypeOK /\ Log => SerialsAreGapless
<1> SUFFICES ASSUME TypeOK, Log, NEW r \in Recipients
             PROVE  /\ \A n \in Serials(r) : n > 0 /\ (n = 1 \/ n - 1 \in Serials(r))
                    /\ \A x, y \in rows[r] : x.env = y.env \/ x.serial = y.serial => x = y
  BY DEF SerialsAreGapless
<1>1. PICK k \in Nat : Serials(r) = 1..k
  BY DEF Log, Dense
<1>2. \A n \in 1..k : n > 0 /\ (n = 1 \/ n - 1 \in 1..k)
  OBVIOUS
<1> QED
  BY <1>1, <1>2 DEF Log, Unique

(* A new entry lies after every cursor, and a pull hands over what lies    *)
(* between the old cursor and the new one.                                 *)
LEMMA StepReads == TypeOK /\ SerialIsNext /\ Reader /\ [Next]_vars => Reader'
<1> SUFFICES ASSUME TypeOK, SerialIsNext, Reader, [Next]_vars PROVE Reader'
  OBVIOUS
<1>0. \A r \in Recipients : /\ cursor[r] \in SerialsOf(rows[r]) \cup {0}
                            /\ \A x \in rows[r] : x.serial <= cursor[r] => x.env \in got[r]
  BY DEF Reader, CursorIsSerial, CursorMissesNothing, Serials, SerialsOf
<1>a. ASSUME \A r \in Recipients :
               /\ cursor'[r] \in SerialsOf(rows'[r]) \cup {0}
               /\ \A x \in rows'[r] : x.serial <= cursor'[r] => x.env \in got'[r]
      PROVE  Reader'
  BY <1>a DEF Reader, CursorIsSerial, CursorMissesNothing, Serials, SerialsOf
<1>1. ASSUME NEW r \in Recipients, Pull(r) PROVE Reader'
  <2>1. \A i \in Recipients \ {r} : cursor'[i] = cursor[i] /\ got'[i] = got[i] /\ rows' = rows
    BY <1>1, PullDoes
  <2>2. cursor'[r] \in SerialsOf(rows'[r])
    BY <1>1, PullDoes DEF Serials, SerialsOf
  <2>3. ASSUME NEW x \in rows'[r], x.serial <= cursor'[r] PROVE x.env \in got'[r]
    <3>1. x \in rows[r] /\ x.serial \in Nat /\ cursor[r] \in Nat
      BY <1>1, <2>3, PullDoes, RowsTyped DEF TypeOK
    <3>2. CASE x.serial <= cursor[r]
      BY <1>0, <1>1, <3>1, <3>2, PullDoes
    <3>3. CASE x.serial > cursor[r]
      BY <1>1, <2>3, <3>1, <3>3, PullDoes
    <3> QED
      BY <3>1, <3>2, <3>3
  <2> QED
    BY <1>0, <1>a, <2>1, <2>2, <2>3
<1>2. CASE UNCHANGED <<cursor, got>>
  <2>1. CASE UNCHANGED rows
    BY <1>0, <1>2, <1>a, <2>1
  <2>2. ASSUME NEW r \in Recipients, NEW e \in Envelopes, NEW k \in Nat, Grows(r, e, k)
        PROVE  Reader'
    <3>1. cursor[r] \in 0..k
      BY <1>0, <2>2 DEF Grows
    <3>2. rows'[r] = rows[r] \cup {[env |-> e, serial |-> k + 1]}
          /\ \A i \in Recipients \ {r} : rows'[i] = rows[i]
      BY <2>2 DEF Grows
    <3>3. ASSUME NEW x \in rows'[r], x.serial <= cursor[r] PROVE x.env \in got[r]
      BY <1>0, <3>1, <3>2, <3>3
    <3>4. cursor[r] \in SerialsOf(rows'[r]) \cup {0}
      BY <1>0, <3>2 DEF SerialsOf
    <3> QED
      BY <1>0, <1>2, <1>a, <3>2, <3>3, <3>4
  <2> QED
    BY <2>1, <2>2, StepGrows
<1>3. UNCHANGED <<cursor, got>> \/ \E r \in Recipients : Pull(r)
  <2>1. ASSUME NEW h \in Handlers, NEW r \in Recipients, NEW e \in Envelopes, Begin(h, r, e)
        PROVE  UNCHANGED <<cursor, got>>
    BY <2>1 DEF Begin
  <2>2. ASSUME NEW h \in Handlers, Step(h) PROVE UNCHANGED <<cursor, got>>
    BY <2>2 DEF Step, TakeLock, CountExisting, TakeSerial, Commit, Announce
  <2>3. ASSUME NEW h \in Handlers, Abort(h) \/ LoseAnnouncement(h)
        PROVE  UNCHANGED <<cursor, got>>
    BY <2>3 DEF Abort, LoseAnnouncement
  <2> QED
    BY <2>1, <2>2, <2>3 DEF Next, vars
<1> QED
  BY <1>1, <1>2, <1>3

-----------------------------------------------------------------------------
(* Announcements                                                           *)

(* AnnouncedOnce without Stored, whose arguments may then be of the next   *)
(* state.                                                                  *)
Announcer(h) == handler[h].pc = "committed" /\ handler[h].fresh

ToldStored ==
  \A r \in Recipients : \A e \in told[r] : HasEnv(rows[r], e)

AnnouncerStored ==
  \A h \in Handlers :
    Announcer(h) => /\ HasEnv(rows[handler[h].to], handler[h].env)
                    /\ handler[h].env \notin told[handler[h].to]

AnnouncerAlone ==
  \A h, i \in Handlers :
    Announcer(h) /\ Announcer(i) /\ handler[h].to = handler[i].to /\ handler[h].env = handler[i].env
      => h = i

Announced == ToldStored /\ AnnouncerStored /\ AnnouncerAlone

LEMMA OnceFromAnnounced == TypeOK /\ Announced => AnnouncedOnce
<1> SUFFICES ASSUME TypeOK, Announced, NEW r \in Recipients, NEW e \in Envelopes
             PROVE  /\ e \in told[r] => Stored(r, e)
                    /\ \A h \in Handlers : Announcing(h, r, e) =>
                         /\ Stored(r, e) /\ e \notin told[r]
                         /\ \A i \in Handlers \ {h} : ~Announcing(i, r, e)
  BY DEF AnnouncedOnce
<1>1. e \in told[r] => Stored(r, e)
  BY DEF Announced, ToldStored, HasEnv, Stored
<1>2. ASSUME NEW h \in Handlers, Announcing(h, r, e)
      PROVE  /\ Stored(r, e) /\ e \notin told[r]
             /\ \A i \in Handlers \ {h} : ~Announcing(i, r, e)
  BY <1>2 DEF Announced, AnnouncerStored, AnnouncerAlone, Announcer, Announcing, HasEnv, Stored
<1> QED
  BY <1>1, <1>2

(* The rows of an inbox are never fewer.                                   *)
LEMMA RowsStay ==
  ASSUME OnlyAppends, NEW r \in Recipients, NEW e, HasEnv(rows[r], e)
  PROVE  HasEnv(rows'[r], e)
BY DEF OnlyAppends, HasEnv

(* Only an announcer adds to what was told, and it ends by that.           *)
Tells(h) ==
  /\ Announcer(h)
  /\ handler'[h].pc = "idle"
  /\ told'[handler[h].to] = told[handler[h].to] \cup {handler[h].env}
  /\ \A r \in Recipients \ {handler[h].to} : told'[r] = told[r]

LEMMA StepTells ==
  ASSUME TypeOK, [Next]_vars
  PROVE  UNCHANGED told \/ \E h \in Handlers : Tells(h)
<1>1. ASSUME NEW h \in Handlers, NEW r \in Recipients, NEW e \in Envelopes, Begin(h, r, e)
      PROVE  UNCHANGED told
  BY <1>1 DEF Begin
<1>2. ASSUME NEW h \in Handlers, TakeLock(h) \/ CountExisting(h) \/ TakeSerial(h) \/ Commit(h)
      PROVE  UNCHANGED told
  BY <1>2 DEF TakeLock, CountExisting, TakeSerial, Commit
<1>3. ASSUME NEW h \in Handlers, Announce(h) PROVE UNCHANGED told \/ Tells(h)
  <2>1. handler[h].pc = "committed" /\ HandlerBecomes(h, [handler[h] EXCEPT !.pc = "idle"])
        /\ told' = IF handler[h].fresh
                   THEN [told EXCEPT ![handler[h].to] = @ \cup {handler[h].env}] ELSE told
    BY <1>3 DEF Announce
  <2>2. CASE handler[h].fresh
    <3>1. told \in [Recipients -> SUBSET Envelopes] /\ handler[h].to \in Recipients
      BY HandlerTyped DEF TypeOK
    <3> QED
      BY <2>1, <2>2, <3>1, EndDoes DEF Tells, Announcer
  <2>3. CASE ~handler[h].fresh
    BY <2>1, <2>3
  <2> QED
    BY <2>2, <2>3
<1>4. ASSUME NEW h \in Handlers, Abort(h) \/ LoseAnnouncement(h) PROVE UNCHANGED told
  BY <1>4 DEF Abort, LoseAnnouncement
<1>5. ASSUME NEW r \in Recipients, Pull(r) PROVE UNCHANGED told
  BY <1>5, PullDoes
<1>6. CASE UNCHANGED vars
  BY <1>6 DEF vars
<1>7. ASSUME NEW h \in Handlers, Step(h) PROVE UNCHANGED told \/ Tells(h)
  BY <1>2, <1>3, <1>7 DEF Step
<1> QED
  BY <1>1, <1>4, <1>5, <1>6, <1>7 DEF Next

(* A handler that is an announcer after the step was one before, or has    *)
(* just committed the first row of its envelope.                           *)
LEMMA AnnouncerFrom ==
  ASSUME TypeOK, Dense, CountIsCurrent, [Next]_vars, NEW h \in Handlers, Announcer(h)'
  PROVE  \/ handler'[h] = handler[h] /\ Announcer(h)
         \/ /\ Commit(h) /\ handler'[h].to = handler[h].to /\ handler'[h].env = handler[h].env
            /\ ~HasEnv(rows[handler[h].to], handler[h].env)
            /\ HasEnv(rows'[handler[h].to], handler[h].env)
<1>1. CASE handler'[h] = handler[h]
  BY <1>1 DEF Announcer
<1>2. CASE Commit(h)
  <2>1. handler'[h].to = handler[h].to /\ handler'[h].env = handler[h].env
        /\ handler[h].pc = "numbered" /\ handler[h].fresh
    BY <1>2, CommitDoes DEF SameTarget, Announcer
  <2>2. ~HasEnv(rows[handler[h].to], handler[h].env)
    BY <2>1 DEF CountIsCurrent
  <2>3. rows'[handler[h].to] =
          rows[handler[h].to] \cup {[env |-> handler[h].env, serial |-> handler[h].serial]}
    BY <1>2, <2>2, CommitDoes, InsertDoes DEF HasEnv, Stored
  <2>4. HasEnv(rows'[handler[h].to], handler[h].env)
    BY <2>3 DEF HasEnv
  <2> QED
    BY <1>2, <2>1, <2>2, <2>4
<1>3. ~CountExisting(h) /\ ~TakeSerial(h) /\ handler'[h].pc = "committed"
  BY CountExistingDoes, TakeSerialDoes DEF Announcer
<1> QED
  BY <1>1, <1>2, <1>3, Origin DEF ComesBy

LEMMA StepAnnounces ==
  TypeOK /\ Dense /\ CountIsCurrent /\ SerialIsNext /\ Announced /\ [Next]_vars => Announced'
<1> SUFFICES ASSUME TypeOK, Dense, CountIsCurrent, SerialIsNext, Announced, [Next]_vars
             PROVE  Announced'
  OBVIOUS
<1>0. OnlyAppends
  BY StepAppends
<1>1. ToldStored'
  <2>1. ASSUME NEW r \in Recipients, NEW e \in told'[r] PROVE HasEnv(rows[r], e)
    <3>1. CASE UNCHANGED told
      BY <3>1 DEF Announced, ToldStored
    <3>2. ASSUME NEW h \in Handlers, Tells(h) PROVE HasEnv(rows[r], e)
      BY <2>1, <3>2 DEF Tells, Announced, ToldStored, AnnouncerStored
    <3> QED
      BY <3>1, <3>2, StepTells
  <2> QED
    BY <1>0, <2>1, RowsStay DEF ToldStored
<1>2. AnnouncerStored'
  <2> SUFFICES ASSUME NEW h \in Handlers, Announcer(h)'
               PROVE  /\ HasEnv(rows'[handler'[h].to], handler'[h].env)
                      /\ handler'[h].env \notin told'[handler'[h].to]
    BY DEF AnnouncerStored
  <2>0. handler[h].to \in Recipients
    BY HandlerTyped
  <2>1. CASE handler'[h] = handler[h] /\ Announcer(h)
    <3>1. HasEnv(rows[handler[h].to], handler[h].env) /\ handler[h].env \notin told[handler[h].to]
      BY <2>1 DEF Announced, AnnouncerStored
    <3>2. ASSUME NEW i \in Handlers, Tells(i)
          PROVE  handler[h].env \notin told'[handler[h].to]
      <4>1. i # h
        BY <2>1, <3>2 DEF Tells, Announcer
      <4>2. handler[i].to # handler[h].to \/ handler[i].env # handler[h].env
        BY <2>1, <3>2, <4>1 DEF Tells, Announced, AnnouncerAlone
      <4> QED
        BY <2>0, <3>1, <3>2, <4>2 DEF Tells
    <3>3. handler[h].env \notin told'[handler[h].to]
      BY <3>1, <3>2, StepTells
    <3> QED
      BY <1>0, <2>0, <2>1, <3>1, <3>3, RowsStay
  <2>2. CASE /\ Commit(h) /\ handler'[h].to = handler[h].to /\ handler'[h].env = handler[h].env
             /\ ~HasEnv(rows[handler[h].to], handler[h].env)
             /\ HasEnv(rows'[handler[h].to], handler[h].env)
    <3>1. handler[h].env \notin told[handler[h].to] /\ told' = told
      BY <2>0, <2>2, CommitDoes DEF Announced, ToldStored
    <3> QED
      BY <2>2, <3>1
  <2> QED
    BY <2>1, <2>2, AnnouncerFrom
<1>3. AnnouncerAlone'
  <2> SUFFICES ASSUME NEW h \in Handlers, NEW i \in Handlers, Announcer(h)', Announcer(i)',
                      handler'[h].to = handler'[i].to, handler'[h].env = handler'[i].env, h # i
               PROVE  FALSE
    BY DEF AnnouncerAlone
  <2>1. ASSUME NEW j \in Handlers, handler'[j] = handler[j], Announcer(j)
        PROVE  HasEnv(rows[handler[j].to], handler[j].env)
    BY <2>1 DEF Announced, AnnouncerStored
  <2>2. ASSUME Commit(h), Commit(i) PROVE FALSE
    BY <2>2, CommitDoes DEF Others
  <2>3. ASSUME handler'[h] = handler[h], Announcer(h), handler'[i] = handler[i], Announcer(i)
        PROVE  FALSE
    BY <2>3 DEF Announced, AnnouncerAlone
  <2> QED
    BY <2>1, <2>2, <2>3, AnnouncerFrom
<1> QED
  BY <1>1, <1>2, <1>3 DEF Announced

-----------------------------------------------------------------------------
(* Theorems                                                                *)

InboxInv == Guarded /\ Log /\ Reader /\ Announced

LEMMA InitInbox == Init => InboxInv
<1> SUFFICES ASSUME Init PROVE InboxInv
  OBVIOUS
<1>1. TypeOK
  BY InitTyped
<1>2. \A h \in Handlers : handler[h].pc = "idle"
  BY DEF Init
<1>3. LockHeld /\ CountIsCurrent /\ SerialIsNext
  BY <1>2 DEF LockHeld, CountIsCurrent, SerialIsNext
<1>4. \A r \in Recipients : rows[r] = {} /\ told[r] = {} /\ cursor[r] = 0
  BY DEF Init
<1>5. Log
  <2>1. 0 \in Nat /\ 1..0 = {}
    OBVIOUS
  <2>2. \A r \in Recipients : Serials(r) = 1..0
    BY <1>4, <2>1 DEF Serials
  <2> QED
    BY <1>4, <2>1, <2>2 DEF Log, Dense, Unique
<1>6. Reader
  BY <1>4 DEF Reader, CursorIsSerial, CursorMissesNothing
<1>7. Announced
  BY <1>2, <1>4 DEF Announced, ToldStored, AnnouncerStored, AnnouncerAlone, Announcer
<1> QED
  BY <1>1, <1>3, <1>5, <1>6, <1>7 DEF InboxInv, Guarded

LEMMA StepInbox == InboxInv /\ [Next]_vars => InboxInv'
<1> SUFFICES ASSUME InboxInv, [Next]_vars PROVE InboxInv'
  OBVIOUS
<1>0. TypeOK /\ LockHeld /\ CountIsCurrent /\ SerialIsNext /\ Dense /\ Log /\ Reader /\ Announced
  BY DEF InboxInv, Guarded, Log
<1>1. TypeOK' /\ LockHeld' /\ CountIsCurrent' /\ SerialIsNext'
  BY <1>0, StepTyped, StepLocks, StepCounts, StepNumbers
<1>2. Log' /\ Reader' /\ Announced'
  BY <1>0, StepLogs, StepReads, StepAnnounces
<1> QED
  BY <1>1, <1>2 DEF InboxInv, Guarded

THEOREM InboxInvariant == Spec => []InboxInv
BY InitInbox, StepInbox, PTL DEF Spec

(* Every variable keeps its type, for any recipients, envelopes, handlers, *)
(* lock keys and limit.                                                    *)
THEOREM TypeCorrect == Spec => []TypeOK
<1>1. InboxInv => TypeOK
  BY DEF InboxInv, Guarded
<1> QED
  BY <1>1, InboxInvariant, PTL

(* However many handlers append at once, whatever hashes collide and       *)
(* wherever a request fails, the serials of an inbox are 1, 2, 3, ...      *)
(* (AssignInboxSerial).                                                    *)
THEOREM Gapless == Spec => []SerialsAreGapless
<1>1. InboxInv => SerialsAreGapless
  BY GaplessFromDense DEF InboxInv, Guarded
<1> QED
  BY <1>1, InboxInvariant, PTL

(* No entry is changed or removed, and each new one comes last.            *)
THEOREM GrowsAtItsEnd == Spec => AppendOnly
<1>1. InboxInv /\ [Next]_vars => [OnlyAppends]_vars
  BY StepAppends DEF InboxInv, Guarded
<1> QED
  BY <1>1, InboxInvariant, PTL DEF Spec, AppendOnly

(* A peer that pulls from its cursor has been handed over every entry at   *)
(* or below it (InboxEntry :pull).                                         *)
THEOREM NothingMissed == Spec => []CursorMissesNothing
<1>1. InboxInv => CursorMissesNothing
  BY DEF InboxInv, Reader
<1> QED
  BY <1>1, InboxInvariant, PTL

(* An envelope is broadcast by one handler at most, once and stored.       *)
THEOREM ToldOnce == Spec => []AnnouncedOnce
<1>1. InboxInv => AnnouncedOnce
  BY OnceFromAnnounced DEF InboxInv, Guarded
<1> QED
  BY <1>1, InboxInvariant, PTL

=============================================================================
