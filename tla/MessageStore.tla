---------------------------- MODULE MessageStore ----------------------------
(***************************************************************************)
(* The messages of one channel at its server: the rows that send_message,  *)
(* edit_message and delete_message of the channel's sockets and the        *)
(* nightly retention sweep write (Yawp.Servers.Message, MessageEdit,       *)
(* MessageTombstone, ArchivedMessageBody, RetentionSweepJob).              *)
(*                                                                         *)
(* Each request is a transaction at READ COMMITTED.  Serials are MAX + 1   *)
(* under an advisory lock; a body is wiped by an UPDATE, which waits for   *)
(* the transaction that has updated the row and then looks at its          *)
(* condition again.                                                        *)
(***************************************************************************)
EXTENDS Naturals, FiniteSets, FiniteSetsExt

CONSTANTS
  Messages,   \* names of messages; a message stands for its body too
  Edits,      \* names of edits, each standing for the body it gives
  Writers,    \* the sockets that write: each serves one request at a time
  Sweepers,   \* jobs that run the retention sweep
  Archiving,  \* body_archive_enabled of the server
  None        \* no message, no edit, no process, a body that is wiped

ASSUME NameAssumption ==
  /\ None \notin Messages \cup Edits \cup Writers \cup Sweepers
  /\ Messages \cap Edits = {} /\ Writers \cap Sweepers = {}
ASSUME FiniteAssumption == IsFiniteSet(Messages) /\ IsFiniteSet(Edits)
ASSUME ArchivingAssumption == Archiving \in BOOLEAN

VARIABLES
  serial,    \* serial[m]: server_serial of the row of m, 0 without a row
  wiped,     \* messages whose body is nil
  editOf,    \* editOf[e]: the message e edits, None without a row
  editNo,    \* editNo[e]: its edit_serial
  deleted,   \* messages with a tombstone a participant has asked for
  retained,  \* retained[m]: the number of retention tombstones of m
  archive,   \* messages with an archived body
  aged,      \* messages past the retention cutoff
  channelLock, \* who holds the advisory lock of the channel
  editLock,  \* editLock[m]: who holds the advisory lock of the edits of m
  row,       \* row[m]: the transaction that has updated the row of m
  task,      \* task[w]: the request w serves
  sweep      \* sweep[s]: the sweep s runs

vars == <<serial, wiped, editOf, editNo, deleted, retained, archive, aged,
          channelLock, editLock, row, task, sweep>>
rowVars == <<serial, wiped, editOf, editNo, deleted, retained, archive, aged>>

Task ==
  [pc      : {"idle", "sending", "numbered", "editing", "placed",
              "deleting", "wiping", "wiped", "sent", "edited", "deleted"},
   message : Messages \cup {None},
   edit    : Edits \cup {None},
   number  : Nat,         \* the serial that was read
   found   : BOOLEAN]     \* whether the tombstone found a body

Sweep ==
  [pc   : {"idle", "sweeping"},
   todo : SUBSET Messages,
   at   : Messages \cup {None}]   \* the message whose row is updated

TypeOK ==
  /\ serial \in [Messages -> Nat]
  /\ editOf \in [Edits -> Messages \cup {None}]
  /\ editNo \in [Edits -> Nat]
  /\ retained \in [Messages -> Nat]
  /\ wiped \subseteq Messages /\ deleted \subseteq Messages
  /\ archive \subseteq Messages /\ aged \subseteq Messages
  /\ channelLock \in Writers \cup {None}
  /\ editLock \in [Messages -> Writers \cup {None}]
  /\ row \in [Messages -> Writers \cup Sweepers \cup {None}]
  /\ task \in [Writers -> Task]
  /\ sweep \in [Sweepers -> Sweep]

NoTask == [pc |-> "idle", message |-> None, edit |-> None, number |-> 0, found |-> FALSE]
NoSweep == [pc |-> "idle", todo |-> {}, at |-> None]

Init ==
  /\ serial = [m \in Messages |-> 0]
  /\ editOf = [e \in Edits |-> None]
  /\ editNo = [e \in Edits |-> 0]
  /\ retained = [m \in Messages |-> 0]
  /\ wiped = {} /\ deleted = {} /\ archive = {} /\ aged = {}
  /\ channelLock = None
  /\ editLock = [m \in Messages |-> None]
  /\ row = [m \in Messages |-> None]
  /\ task = [w \in Writers |-> NoTask]
  /\ sweep = [s \in Sweepers |-> NoSweep]

Rows == {m \in Messages : serial[m] > 0}
EditRows(m) == {e \in Edits : editOf[e] = m}
LastSerial == Max({serial[m] : m \in Messages} \cup {0})
LastEditNo(m) == Max({editNo[e] : e \in EditRows(m)} \cup {0})

(* The body that history shows of m: of its last edit, or its own.         *)
Shown(m) ==
  IF EditRows(m) # {}
  THEN CHOOSE e \in EditRows(m) : \A f \in EditRows(m) : editNo[f] <= editNo[e]
  ELSE IF m \in wiped THEN None ELSE m

TaskBecomes(w, t) == task' = [task EXCEPT ![w] = t]
SweepBecomes(s, q) == sweep' = [sweep EXCEPT ![s] = q]

(* What a transaction holds is freed when it ends.                         *)
ReleaseRows(p) == row' = [m \in Messages |-> IF row[m] = p THEN None ELSE row[m]]
ReleaseEdits(w) ==
  editLock' = [m \in Messages |-> IF editLock[m] = w THEN None ELSE editLock[m]]

-----------------------------------------------------------------------------
(* send_message                                                            *)

(* The signature is verified.                                              *)
BeginSend(w, m) ==
  /\ task[w].pc = "idle"
  /\ m \notin Rows /\ \A v \in Writers : task[v].message # m
  /\ TaskBecomes(w, [NoTask EXCEPT !.pc = "sending", !.message = m])
  /\ UNCHANGED <<rowVars, channelLock, editLock, row, sweep>>

(* The lock is waited for, and the next serial read.                       *)
TakeSerial(w) ==
  /\ task[w].pc = "sending"
  /\ channelLock = None
  /\ channelLock' = w
  /\ TaskBecomes(w, [task[w] EXCEPT !.pc = "numbered", !.number = LastSerial + 1])
  /\ UNCHANGED <<rowVars, editLock, row, sweep>>

(* The row is inserted, members are notified, and the transaction commits. *)
CommitSend(w) ==
  /\ task[w].pc = "numbered"
  /\ serial' = [serial EXCEPT ![task[w].message] = task[w].number]
  /\ channelLock' = IF channelLock = w THEN None ELSE channelLock
  /\ TaskBecomes(w, [task[w] EXCEPT !.pc = "sent"])
  /\ UNCHANGED <<wiped, editOf, editNo, deleted, retained, archive, aged, editLock, row, sweep>>

-----------------------------------------------------------------------------
(* edit_message: of a message in the channel, signed by its author         *)

BeginEdit(w, m, e) ==
  /\ task[w].pc = "idle"
  /\ m \in Rows
  /\ editOf[e] = None /\ \A v \in Writers : task[v].edit # e
  /\ TaskBecomes(w, [NoTask EXCEPT !.pc = "editing", !.message = m, !.edit = e])
  /\ UNCHANGED <<rowVars, channelLock, editLock, row, sweep>>

(* Mutant: the advisory lock is not taken.                                 *)
TakeEditSerialUnlocked(w) ==
  /\ task[w].pc = "editing"
  /\ TaskBecomes(w, [task[w] EXCEPT !.pc = "placed", !.number = LastEditNo(task[w].message) + 1])
  /\ UNCHANGED <<rowVars, channelLock, editLock, row, sweep>>

TakeEditSerial(w) ==
  LET m == task[w].message IN
  /\ task[w].pc = "editing"
  /\ editLock[m] = None
  /\ editLock' = [editLock EXCEPT ![m] = w]
  /\ TaskBecomes(w, [task[w] EXCEPT !.pc = "placed", !.number = LastEditNo(m) + 1])
  /\ UNCHANGED <<rowVars, channelLock, row, sweep>>

CommitEdit(w) ==
  /\ task[w].pc = "placed"
  /\ editOf' = [editOf EXCEPT ![task[w].edit] = task[w].message]
  /\ editNo' = [editNo EXCEPT ![task[w].edit] = task[w].number]
  /\ ReleaseEdits(w)
  /\ TaskBecomes(w, [task[w] EXCEPT !.pc = "edited"])
  /\ UNCHANGED <<serial, wiped, deleted, retained, archive, aged, channelLock, row, sweep>>

-----------------------------------------------------------------------------
(* delete_message: by the author or a holder of manage_messages            *)

(* The signature and the permission are verified.                          *)
BeginDelete(w, m) ==
  /\ task[w].pc = "idle"
  /\ m \in Rows
  /\ TaskBecomes(w, [NoTask EXCEPT !.pc = "deleting", !.message = m])
  /\ UNCHANGED <<rowVars, channelLock, editLock, row, sweep>>

(* The tombstone is inserted; then the body is read, and archived.         *)
ReadBody(w) ==
  /\ task[w].pc = "deleting"
  /\ TaskBecomes(w, IF task[w].message \in wiped
                    THEN [task[w] EXCEPT !.pc = "wiped"]
                    ELSE [task[w] EXCEPT !.pc = "wiping", !.found = TRUE])
  /\ UNCHANGED <<rowVars, channelLock, editLock, row, sweep>>

WipeBody(w) ==
  LET m == task[w].message IN
  /\ task[w].pc = "wiping"
  /\ row[m] = None
  /\ row' = [row EXCEPT ![m] = w]
  /\ TaskBecomes(w, [task[w] EXCEPT !.pc = "wiped"])
  /\ UNCHANGED <<rowVars, channelLock, editLock, sweep>>

CommitDelete(w) ==
  LET m == task[w].message IN
  /\ task[w].pc = "wiped"
  /\ deleted' = deleted \cup {m}
  /\ wiped' = IF task[w].found THEN wiped \cup {m} ELSE wiped
  /\ archive' = IF task[w].found /\ Archiving THEN archive \cup {m} ELSE archive
  /\ ReleaseRows(w)
  /\ TaskBecomes(w, [task[w] EXCEPT !.pc = "deleted"])
  /\ UNCHANGED <<serial, editOf, editNo, retained, aged, channelLock, editLock, sweep>>

-----------------------------------------------------------------------------
(* A statement fails, or the socket's process ends: a rollback.            *)
AbortWrite(w) ==
  /\ task[w].pc \in {"sending", "numbered", "editing", "placed", "deleting", "wiping", "wiped"}
  /\ channelLock' = IF channelLock = w THEN None ELSE channelLock
  /\ ReleaseEdits(w) /\ ReleaseRows(w)
  /\ TaskBecomes(w, NoTask)
  /\ UNCHANGED <<rowVars, sweep>>

(* The event is broadcast and the request answered.                        *)
Saved == {"sent", "edited", "deleted"}

Answer(w) ==
  /\ task[w].pc \in Saved
  /\ TaskBecomes(w, NoTask)
  /\ UNCHANGED <<rowVars, channelLock, editLock, row, sweep>>

-----------------------------------------------------------------------------
(* The retention sweep                                                     *)

Age(m) ==
  /\ m \in Rows \ aged
  /\ aged' = aged \cup {m}
  /\ UNCHANGED <<serial, wiped, editOf, editNo, deleted, retained, archive,
                 channelLock, editLock, row, task, sweep>>

Old == {m \in aged : m \notin wiped /\ m \notin deleted /\ retained[m] = 0}

(* At three in the morning, and again when a job has failed.               *)
ListOld(s) ==
  /\ sweep[s].pc = "idle"
  /\ Old # {}
  /\ SweepBecomes(s, [pc |-> "sweeping", todo |-> Old, at |-> None])
  /\ UNCHANGED <<rowVars, channelLock, editLock, row, task>>

(* Mutant: the update is not in one transaction with the tombstone.        *)
SweepRowAlone(s, m) ==
  LET q == sweep[s] IN
  /\ q.pc = "sweeping" /\ q.at = None /\ m \in q.todo
  /\ row[m] = None
  /\ m \notin wiped
  /\ wiped' = wiped \cup {m}
  /\ SweepBecomes(s, [q EXCEPT !.at = m])
  /\ UNCHANGED <<serial, editOf, editNo, deleted, retained, archive, aged,
                 channelLock, editLock, row, task>>

(* UPDATE ... WHERE the body is not nil must find its row, or the job is   *)
(* ended by a MatchError.                                                  *)
SweepRow(s, m) ==
  LET q == sweep[s] IN
  /\ q.pc = "sweeping" /\ q.at = None /\ m \in q.todo
  /\ row[m] = None
  /\ IF m \in wiped
     THEN SweepBecomes(s, NoSweep) /\ UNCHANGED row
     ELSE SweepBecomes(s, [q EXCEPT !.at = m]) /\ row' = [row EXCEPT ![m] = s]
  /\ UNCHANGED <<rowVars, channelLock, editLock, task>>

(* The tombstone is inserted, and the transaction of this message commits. *)
CommitSweep(s) ==
  LET q == sweep[s] IN
  /\ q.at # None
  /\ wiped' = wiped \cup {q.at}
  /\ retained' = [retained EXCEPT ![q.at] = @ + 1]
  /\ ReleaseRows(s)
  /\ SweepBecomes(s, IF q.todo = {q.at} THEN NoSweep
                     ELSE [q EXCEPT !.at = None, !.todo = @ \ {q.at}])
  /\ UNCHANGED <<serial, editOf, editNo, deleted, archive, aged, channelLock, editLock, task>>

AbortSweep(s) ==
  /\ sweep[s].pc = "sweeping"
  /\ ReleaseRows(s)
  /\ SweepBecomes(s, NoSweep)
  /\ UNCHANGED <<rowVars, channelLock, editLock, task>>

-----------------------------------------------------------------------------
WriteStep(w) ==
  \/ TakeSerial(w) \/ CommitSend(w)
  \/ TakeEditSerial(w) \/ CommitEdit(w)
  \/ ReadBody(w) \/ WipeBody(w) \/ CommitDelete(w)

Request(w) ==
  \E m \in Messages :
    BeginSend(w, m) \/ BeginDelete(w, m) \/ \E e \in Edits : BeginEdit(w, m, e)

SweepStep(s) == \E m \in Messages : SweepRow(s, m)

Next ==
  \/ \E w \in Writers : Request(w) \/ WriteStep(w) \/ AbortWrite(w) \/ Answer(w)
  \/ \E m \in Messages : Age(m)
  \/ \E s \in Sweepers : ListOld(s) \/ SweepStep(s) \/ CommitSweep(s) \/ AbortSweep(s)

Spec == Init /\ [][Next]_vars

-----------------------------------------------------------------------------
(* Properties                                                              *)

Dense(numbers, n) == numbers = 1..n

(* The serials of the channel are 1, 2, 3, ... in the order of the         *)
(* commits, however many sockets send at once: whoever has read serial n   *)
(* has everything before it.  So are those of the edits of each message,   *)
(* of all its author's devices.                                            *)
NumbersAreGapless ==
  /\ Dense({serial[m] : m \in Rows}, Cardinality(Rows))
  /\ \A m \in Messages : Dense({editNo[e] : e \in EditRows(m)}, Cardinality(EditRows(m)))

(* A body is gone exactly when a tombstone says who removed it, whichever  *)
(* of deletes and sweeps came first; sweeps that overlap leave one         *)
(* retention tombstone; and with the archive on, a body that retention has *)
(* not removed was archived by the delete that wiped it.                   *)
WipedIsRecorded ==
  /\ wiped = deleted \cup {m \in Messages : retained[m] > 0}
  /\ \A m \in Messages : retained[m] <= 1
  /\ Archiving => \A m \in wiped : m \in archive \/ retained[m] > 0

=============================================================================
