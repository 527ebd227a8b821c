----------------------- MODULE ChannelTimeline_proofs -----------------------
(***************************************************************************)
(* Proofs about MessageStore and ChannelTimeline: serials have no gaps, a  *)
(* body is gone exactly when a tombstone says so, and a client that has    *)
(* nothing to wait for shows every message that is stored.                 *)
(***************************************************************************)
EXTENDS ChannelTimeline, FiniteSetTheorems, TLAPS

-----------------------------------------------------------------------------
(* The inductive invariant of the store                                    *)

(* A message is sent by one request, and has no row until it commits.      *)
Sending == {"sending", "numbered"}
SendersApart ==
  \A w \in Writers : task[w].pc \in Sending =>
    /\ task[w].message \in Messages \ Rows
    /\ \A v \in Writers \ {w} : task[v].pc \in Sending => task[v].message # task[w].message

(* Who has read the last serial holds the lock of the channel.             *)
NumberedHolds ==
  \A w \in Writers : task[w].pc = "numbered" =>
    channelLock = w /\ task[w].number = LastSerial + 1

(* The same of edits, whose lock is that of their message.                 *)
Editing == {"editing", "placed"}
EditorsApart ==
  \A w \in Writers : task[w].pc \in Editing =>
    /\ task[w].message \in Messages /\ task[w].edit \in Edits /\ editOf[task[w].edit] = None
    /\ \A v \in Writers \ {w} : task[v].pc \in Editing => task[v].edit # task[w].edit

PlacedHolds ==
  \A w \in Writers : task[w].pc = "placed" =>
    editLock[task[w].message] = w /\ task[w].number = LastEditNo(task[w].message) + 1

(* A delete that has found a body holds its row when it has wiped it; one  *)
(* that has found none need not wait.                                      *)
DeletersKnow ==
  \A w \in Writers :
    /\ task[w].pc \in {"deleting", "wiping", "wiped"} => task[w].message \in Messages
    /\ task[w].pc = "deleting" => ~task[w].found
    /\ task[w].pc = "wiping" => task[w].found
    /\ task[w].pc = "wiped" => IF task[w].found THEN row[task[w].message] = w
                                                ELSE task[w].message \in wiped

(* A sweep holds the row it has updated, which nobody has wiped before.    *)
SweepersHold ==
  \A s \in Sweepers : sweep[s].at # None =>
    row[sweep[s].at] = s /\ sweep[s].at \notin wiped

StoreInv ==
  /\ TypeOK /\ NumbersAreGapless /\ WipedIsRecorded
  /\ SendersApart /\ NumberedHolds /\ EditorsApart /\ PlacedHolds
  /\ DeletersKnow /\ SweepersHold

-----------------------------------------------------------------------------
(* Types                                                                   *)

TaskPcs == {"idle", "sending", "numbered", "editing", "placed",
            "deleting", "wiping", "wiped", "sent", "edited", "deleted"}

LEMMA TaskFields ==
  ASSUME NEW q \in Task
  PROVE  /\ q.pc \in TaskPcs /\ q.message \in Messages \cup {None}
         /\ q.edit \in Edits \cup {None} /\ q.number \in Nat /\ q.found \in BOOLEAN
BY DEF Task, TaskPcs

LEMMA SweepFields ==
  ASSUME NEW q \in Sweep
  PROVE  /\ q.pc \in {"idle", "sweeping"} /\ q.todo \subseteq Messages
         /\ q.at \in Messages \cup {None}
BY DEF Sweep

(* The task of w after a step of w, and the others as they were.           *)
TaskIs(w, pc, message, edit, number, found) ==
  /\ task' \in [Writers -> Task]
  /\ task'[w].pc = pc /\ task'[w].message = message /\ task'[w].edit = edit
  /\ task'[w].number = number /\ task'[w].found = found
  /\ \A v \in Writers \ {w} : task'[v] = task[v]

LEMMA TaskUpdate ==
  ASSUME task \in [Writers -> Task], NEW w \in Writers, NEW q \in Task, TaskBecomes(w, q)
  PROVE  TaskIs(w, q.pc, q.message, q.edit, q.number, q.found)
BY DEF TaskBecomes, TaskIs

LEMMA NoTaskIs ==
  ASSUME task \in [Writers -> Task], NEW w \in Writers, TaskBecomes(w, NoTask)
  PROVE  TaskIs(w, "idle", None, None, 0, FALSE)
<1>1. /\ NoTask \in Task /\ NoTask.pc = "idle" /\ NoTask.message = None
      /\ NoTask.edit = None /\ NoTask.number = 0 /\ NoTask.found = FALSE
  BY DEF NoTask, Task
<1> QED
  BY <1>1, TaskUpdate

SweepIs(s, at) ==
  /\ sweep' \in [Sweepers -> Sweep]
  /\ sweep'[s].at = at
  /\ \A z \in Sweepers \ {s} : sweep'[z] = sweep[z]

LEMMA SweepUpdate ==
  ASSUME sweep \in [Sweepers -> Sweep], NEW s \in Sweepers, NEW q \in Sweep, SweepBecomes(s, q)
  PROVE  SweepIs(s, q.at)
BY DEF SweepBecomes, SweepIs

LEMMA NoSweepIs == NoSweep \in Sweep /\ NoSweep.at = None
BY DEF NoSweep, Sweep

LEMMA ReleaseRowsDoes ==
  ASSUME row \in [Messages -> Writers \cup Sweepers \cup {None}], NEW p, ReleaseRows(p)
  PROVE  /\ row' \in [Messages -> Writers \cup Sweepers \cup {None}]
         /\ \A m \in Messages : row'[m] = IF row[m] = p THEN None ELSE row[m]
BY DEF ReleaseRows

LEMMA ReleaseEditsDoes ==
  ASSUME editLock \in [Messages -> Writers \cup {None}], NEW w, ReleaseEdits(w)
  PROVE  /\ editLock' \in [Messages -> Writers \cup {None}]
         /\ \A m \in Messages : editLock'[m] = IF editLock[m] = w THEN None ELSE editLock[m]
BY DEF ReleaseEdits

-----------------------------------------------------------------------------
(* Numbers without gaps                                                    *)

LEMMA MaxUpTo ==
  ASSUME NEW n \in Nat, NEW S, S = (1..n) \cup {0}
  PROVE  Max(S) = n
<1>1. n \in S /\ \A y \in S : n >= y
  OBVIOUS
<1>2. Max(S) \in S /\ \A y \in S : Max(S) >= y
  BY <1>1 DEF Max
<1> QED
  BY <1>1, <1>2

(* One more, numbered next, leaves no gap.                                 *)
LEMMA DenseAdds ==
  ASSUME NEW D, NEW S \in SUBSET D, NEW x \in D, x \notin S, IsFiniteSet(S),
         NEW f \in [D -> Nat], NEW g \in [D -> Nat],
         Dense({f[y] : y \in S}, Cardinality(S)),
         g[x] = Cardinality(S) + 1, \A y \in S : g[y] = f[y]
  PROVE  Dense({g[y] : y \in S \cup {x}}, Cardinality(S \cup {x}))
<1>1. Cardinality(S) \in Nat /\ Cardinality(S \cup {x}) = Cardinality(S) + 1
  BY FS_AddElement, FS_CardinalityType
<1>2. {g[y] : y \in S \cup {x}} = {f[y] : y \in S} \cup {Cardinality(S) + 1}
  OBVIOUS
<1>3. 1..(Cardinality(S) + 1) = (1..Cardinality(S)) \cup {Cardinality(S) + 1}
  BY <1>1
<1> QED
  BY <1>1, <1>2, <1>3 DEF Dense

LEMMA RowsFinite ==
  /\ IsFiniteSet(Rows) /\ \A m \in Messages : IsFiniteSet(EditRows(m))
  /\ Cardinality(Rows) \in Nat /\ \A m \in Messages : Cardinality(EditRows(m)) \in Nat
<1>1. Rows \in SUBSET Messages /\ \A m \in Messages : EditRows(m) \in SUBSET Edits
  BY DEF Rows, EditRows
<1> QED
  BY <1>1, FS_Subset, FS_CardinalityType, FiniteAssumption

(* The next serial is one more than there are rows, for messages and edits *)
(* alike.                                                                  *)
LEMMA LastIsCount ==
  ASSUME TypeOK, NumbersAreGapless
  PROVE  /\ LastSerial = Cardinality(Rows)
         /\ \A m \in Messages : LastEditNo(m) = Cardinality(EditRows(m))
<1>1. LastSerial = Cardinality(Rows)
  <2>1. {serial[m] : m \in Messages} \cup {0} = {serial[m] : m \in Rows} \cup {0}
    BY DEF TypeOK, Rows
  <2>2. {serial[m] : m \in Messages} \cup {0} = (1..Cardinality(Rows)) \cup {0}
    BY <2>1 DEF NumbersAreGapless, Dense
  <2> QED
    BY <2>2, RowsFinite, MaxUpTo DEF LastSerial
<1>2. ASSUME NEW m \in Messages
      PROVE  LastEditNo(m) = Cardinality(EditRows(m))
  <2>1. {editNo[e] : e \in EditRows(m)} \cup {0} = (1..Cardinality(EditRows(m))) \cup {0}
    BY DEF NumbersAreGapless, Dense
  <2> QED
    BY <2>1, RowsFinite, MaxUpTo DEF LastEditNo
<1> QED
  BY <1>1, <1>2

-----------------------------------------------------------------------------
(* What the steps of a request do                                          *)

LEMMA BeginSendDoes ==
  ASSUME TypeOK, NEW w \in Writers, NEW m \in Messages, BeginSend(w, m)
  PROVE  /\ TaskIs(w, "sending", m, None, 0, FALSE)
         /\ m \notin Rows /\ \A v \in Writers : task[v].message # m
         /\ UNCHANGED <<rowVars, channelLock, editLock, row, sweep>>
<1> DEFINE q == [NoTask EXCEPT !.pc = "sending", !.message = m]
<1>1. /\ q \in Task /\ q.pc = "sending" /\ q.message = m /\ q.edit = None
      /\ q.number = 0 /\ q.found = FALSE
  BY DEF NoTask, Task
<1>2. /\ TaskBecomes(w, q) /\ m \notin Rows /\ \A v \in Writers : task[v].message # m
      /\ UNCHANGED <<rowVars, channelLock, editLock, row, sweep>>
  BY DEF BeginSend
<1> HIDE DEF q
<1> QED
  BY <1>1, <1>2, TaskUpdate DEF TypeOK

LEMMA BeginEditDoes ==
  ASSUME TypeOK, NEW w \in Writers, NEW m \in Messages, NEW e \in Edits, BeginEdit(w, m, e)
  PROVE  /\ TaskIs(w, "editing", m, e, 0, FALSE)
         /\ editOf[e] = None /\ \A v \in Writers : task[v].edit # e
         /\ UNCHANGED <<rowVars, channelLock, editLock, row, sweep>>
<1> DEFINE q == [NoTask EXCEPT !.pc = "editing", !.message = m, !.edit = e]
<1>1. /\ q \in Task /\ q.pc = "editing" /\ q.message = m /\ q.edit = e
      /\ q.number = 0 /\ q.found = FALSE
  BY DEF NoTask, Task
<1>2. /\ TaskBecomes(w, q) /\ editOf[e] = None /\ \A v \in Writers : task[v].edit # e
      /\ UNCHANGED <<rowVars, channelLock, editLock, row, sweep>>
  BY DEF BeginEdit
<1> HIDE DEF q
<1> QED
  BY <1>1, <1>2, TaskUpdate DEF TypeOK

LEMMA BeginDeleteDoes ==
  ASSUME TypeOK, NEW w \in Writers, NEW m \in Messages, BeginDelete(w, m)
  PROVE  /\ TaskIs(w, "deleting", m, None, 0, FALSE)
         /\ UNCHANGED <<rowVars, channelLock, editLock, row, sweep>>
<1> DEFINE q == [NoTask EXCEPT !.pc = "deleting", !.message = m]
<1>1. /\ q \in Task /\ q.pc = "deleting" /\ q.message = m /\ q.edit = None
      /\ q.number = 0 /\ q.found = FALSE
  BY DEF NoTask, Task
<1>2. /\ TaskBecomes(w, q) /\ UNCHANGED <<rowVars, channelLock, editLock, row, sweep>>
  BY DEF BeginDelete
<1> HIDE DEF q
<1> QED
  BY <1>1, <1>2, TaskUpdate DEF TypeOK

(* A request that goes on, with its message and its edit.                  *)
Goes(w, pc, number, found) ==
  TaskIs(w, pc, task[w].message, task[w].edit, number, found)

LEMMA TaskGoes ==
  ASSUME TypeOK, NEW w \in Writers, NEW pc \in TaskPcs
  PROVE  /\ TaskBecomes(w, [task[w] EXCEPT !.pc = pc]) =>
              Goes(w, pc, task[w].number, task[w].found)
         /\ \A number \in Nat :
              TaskBecomes(w, [task[w] EXCEPT !.pc = pc, !.number = number]) =>
                Goes(w, pc, number, task[w].found)
         /\ TaskBecomes(w, [task[w] EXCEPT !.pc = pc, !.found = TRUE]) =>
              Goes(w, pc, task[w].number, TRUE)
<1>1. task \in [Writers -> Task] /\ task[w] \in Task
  BY DEF TypeOK
<1>2. ASSUME TaskBecomes(w, [task[w] EXCEPT !.pc = pc])
      PROVE  Goes(w, pc, task[w].number, task[w].found)
  <2> DEFINE q == [task[w] EXCEPT !.pc = pc]
  <2>1. /\ q \in Task /\ q.pc = pc /\ q.message = task[w].message /\ q.edit = task[w].edit
        /\ q.number = task[w].number /\ q.found = task[w].found
    BY <1>1 DEF Task, TaskPcs
  <2>2. TaskBecomes(w, q)
    BY <1>2
  <2> HIDE DEF q
  <2> QED
    BY <1>1, <2>1, <2>2, TaskUpdate DEF Goes
<1>3. ASSUME NEW number \in Nat, TaskBecomes(w, [task[w] EXCEPT !.pc = pc, !.number = number])
      PROVE  Goes(w, pc, number, task[w].found)
  <2> DEFINE q == [task[w] EXCEPT !.pc = pc, !.number = number]
  <2>1. /\ q \in Task /\ q.pc = pc /\ q.message = task[w].message /\ q.edit = task[w].edit
        /\ q.number = number /\ q.found = task[w].found
    BY <1>1 DEF Task, TaskPcs
  <2>2. TaskBecomes(w, q)
    BY <1>3
  <2> HIDE DEF q
  <2> QED
    BY <1>1, <2>1, <2>2, TaskUpdate DEF Goes
<1>4. ASSUME TaskBecomes(w, [task[w] EXCEPT !.pc = pc, !.found = TRUE])
      PROVE  Goes(w, pc, task[w].number, TRUE)
  <2> DEFINE q == [task[w] EXCEPT !.pc = pc, !.found = TRUE]
  <2>1. /\ q \in Task /\ q.pc = pc /\ q.message = task[w].message /\ q.edit = task[w].edit
        /\ q.number = task[w].number /\ q.found = TRUE
    BY <1>1 DEF Task, TaskPcs
  <2>2. TaskBecomes(w, q)
    BY <1>4
  <2> HIDE DEF q
  <2> QED
    BY <1>1, <2>1, <2>2, TaskUpdate DEF Goes
<1> QED
  BY <1>2, <1>3, <1>4

LEMMA TakeSerialDoes ==
  ASSUME TypeOK, NumbersAreGapless, NEW w \in Writers, TakeSerial(w)
  PROVE  /\ task[w].pc = "sending" /\ channelLock = None /\ channelLock' = w
         /\ Goes(w, "numbered", LastSerial + 1, task[w].found)
         /\ UNCHANGED <<rowVars, editLock, row, sweep>>
<1>1. LastSerial + 1 \in Nat
  BY LastIsCount, RowsFinite
<1>2. TaskBecomes(w, [task[w] EXCEPT !.pc = "numbered", !.number = LastSerial + 1])
  BY DEF TakeSerial
<1>3. Goes(w, "numbered", LastSerial + 1, task[w].found)
  BY <1>1, <1>2, TaskGoes DEF TaskPcs
<1> QED
  BY <1>3 DEF TakeSerial

LEMMA TakeEditSerialDoes ==
  ASSUME TypeOK, NumbersAreGapless, EditorsApart, NEW w \in Writers, TakeEditSerial(w)
  PROVE  LET m == task[w].message IN
         /\ task[w].pc = "editing" /\ m \in Messages
         /\ editLock[m] = None /\ editLock' = [editLock EXCEPT ![m] = w]
         /\ Goes(w, "placed", LastEditNo(m) + 1, task[w].found)
         /\ UNCHANGED <<rowVars, channelLock, row, sweep>>
<1>1. task[w].message \in Messages
  BY DEF TakeEditSerial, EditorsApart, Editing
<1>2. LastEditNo(task[w].message) + 1 \in Nat
  BY <1>1, LastIsCount, RowsFinite
<1>3. TaskBecomes(w, [task[w] EXCEPT !.pc = "placed",
                                     !.number = LastEditNo(task[w].message) + 1])
  BY DEF TakeEditSerial
<1>4. Goes(w, "placed", LastEditNo(task[w].message) + 1, task[w].found)
  BY <1>2, <1>3, TaskGoes DEF TaskPcs
<1> QED
  BY <1>1, <1>4 DEF TakeEditSerial

LEMMA CommitSendDoes ==
  ASSUME TypeOK, NEW w \in Writers, CommitSend(w)
  PROVE  /\ task[w].pc = "numbered"
         /\ Goes(w, "sent", task[w].number, task[w].found)
         /\ serial' = [serial EXCEPT ![task[w].message] = task[w].number]
         /\ channelLock' = IF channelLock = w THEN None ELSE channelLock
         /\ UNCHANGED <<wiped, editOf, editNo, deleted, retained, archive, aged, editLock, row, sweep>>
BY TaskGoes DEF CommitSend, TaskPcs

LEMMA CommitEditDoes ==
  ASSUME TypeOK, NEW w \in Writers, CommitEdit(w)
  PROVE  /\ task[w].pc = "placed"
         /\ Goes(w, "edited", task[w].number, task[w].found)
         /\ editOf' = [editOf EXCEPT ![task[w].edit] = task[w].message]
         /\ editNo' = [editNo EXCEPT ![task[w].edit] = task[w].number]
         /\ ReleaseEdits(w)
         /\ UNCHANGED <<serial, wiped, deleted, retained, archive, aged, channelLock, row, sweep>>
BY TaskGoes DEF CommitEdit, TaskPcs

LEMMA ReadBodyDoes ==
  ASSUME TypeOK, NEW w \in Writers, ReadBody(w)
  PROVE  /\ task[w].pc = "deleting"
         /\ IF task[w].message \in wiped
            THEN Goes(w, "wiped", task[w].number, task[w].found)
            ELSE Goes(w, "wiping", task[w].number, TRUE)
         /\ UNCHANGED <<rowVars, channelLock, editLock, row, sweep>>
<1>1. CASE task[w].message \in wiped
  BY <1>1, TaskGoes DEF ReadBody, TaskPcs
<1>2. CASE task[w].message \notin wiped
  <2>1. TaskBecomes(w, [task[w] EXCEPT !.pc = "wiping", !.found = TRUE])
    BY <1>2 DEF ReadBody
  <2>2. Goes(w, "wiping", task[w].number, TRUE)
    BY <2>1, TaskGoes DEF TaskPcs
  <2> QED
    BY <1>2, <2>2 DEF ReadBody
<1> QED
  BY <1>1, <1>2

LEMMA WipeBodyDoes ==
  ASSUME TypeOK, NEW w \in Writers, WipeBody(w)
  PROVE  /\ task[w].pc = "wiping"
         /\ Goes(w, "wiped", task[w].number, task[w].found)
         /\ row[task[w].message] = None
         /\ row' = [row EXCEPT ![task[w].message] = w]
         /\ UNCHANGED <<rowVars, channelLock, editLock, sweep>>
BY TaskGoes DEF WipeBody, TaskPcs

LEMMA CommitDeleteDoes ==
  ASSUME TypeOK, NEW w \in Writers, CommitDelete(w)
  PROVE  LET m == task[w].message IN
         /\ task[w].pc = "wiped"
         /\ Goes(w, "deleted", task[w].number, task[w].found)
         /\ deleted' = deleted \cup {m}
         /\ wiped' = IF task[w].found THEN wiped \cup {m} ELSE wiped
         /\ archive' = IF task[w].found /\ Archiving THEN archive \cup {m} ELSE archive
         /\ ReleaseRows(w)
         /\ UNCHANGED <<serial, editOf, editNo, retained, aged, channelLock, editLock, sweep>>
BY TaskGoes DEF CommitDelete, TaskPcs

LEMMA AbortWriteDoes ==
  ASSUME TypeOK, NEW w \in Writers, AbortWrite(w)
  PROVE  /\ TaskIs(w, "idle", None, None, 0, FALSE) /\ task[w].pc \notin Saved
         /\ channelLock' = IF channelLock = w THEN None ELSE channelLock
         /\ ReleaseEdits(w) /\ ReleaseRows(w)
         /\ UNCHANGED <<rowVars, sweep>>
BY NoTaskIs DEF AbortWrite, TypeOK, Saved

LEMMA AnswerDoes ==
  ASSUME TypeOK, NEW w \in Writers, Answer(w)
  PROVE  /\ TaskIs(w, "idle", None, None, 0, FALSE) /\ task[w].pc \in Saved
         /\ UNCHANGED <<rowVars, channelLock, editLock, row, sweep>>
BY NoTaskIs DEF Answer, TypeOK

-----------------------------------------------------------------------------
(* What the steps of a sweep do                                            *)

LEMMA ListOldDoes ==
  ASSUME TypeOK, NEW s \in Sweepers, ListOld(s)
  PROVE  /\ SweepIs(s, None)
         /\ UNCHANGED <<rowVars, channelLock, editLock, row, task>>
<1> DEFINE q == [pc |-> "sweeping", todo |-> Old, at |-> None]
<1>1. q \in Sweep /\ q.at = None
  BY DEF Sweep, Old, TypeOK
<1>2. SweepBecomes(s, q) /\ UNCHANGED <<rowVars, channelLock, editLock, row, task>>
  BY DEF ListOld
<1> HIDE DEF q
<1> QED
  BY <1>1, <1>2, SweepUpdate DEF TypeOK

LEMMA SweepRowDoes ==
  ASSUME TypeOK, NEW s \in Sweepers, NEW m \in Messages, SweepRow(s, m)
  PROVE  /\ row[m] = None /\ sweep[s].at = None
         /\ \/ SweepIs(s, None) /\ row' = row
            \/ m \notin wiped /\ SweepIs(s, m) /\ row' = [row EXCEPT ![m] = s]
         /\ UNCHANGED <<rowVars, channelLock, editLock, task>>
<1> DEFINE q == [sweep[s] EXCEPT !.at = m]
<1>1. sweep \in [Sweepers -> Sweep] /\ sweep[s] \in Sweep
  BY DEF TypeOK
<1>2. q \in Sweep /\ q.at = m
  BY <1>1 DEF Sweep
<1>3. CASE m \in wiped
  BY <1>1, <1>3, NoSweepIs, SweepUpdate DEF SweepRow
<1>4. CASE m \notin wiped
  <2>1. SweepBecomes(s, q) /\ row' = [row EXCEPT ![m] = s]
    BY <1>4 DEF SweepRow
  <2> HIDE DEF q
  <2> QED
    BY <1>1, <1>2, <1>4, <2>1, SweepUpdate DEF SweepRow
<1> QED
  BY <1>3, <1>4

LEMMA CommitSweepDoes ==
  ASSUME TypeOK, NEW s \in Sweepers, CommitSweep(s)
  PROVE  LET m == sweep[s].at IN
         /\ m \in Messages
         /\ wiped' = wiped \cup {m}
         /\ retained' = [retained EXCEPT ![m] = retained[m] + 1]
         /\ ReleaseRows(s)
         /\ SweepIs(s, None)
         /\ UNCHANGED <<serial, editOf, editNo, deleted, archive, aged, channelLock, editLock, task>>
<1> DEFINE q == IF sweep[s].todo = {sweep[s].at} THEN NoSweep
                ELSE [sweep[s] EXCEPT !.at = None, !.todo = @ \ {sweep[s].at}]
<1>1. sweep \in [Sweepers -> Sweep] /\ sweep[s] \in Sweep
  BY DEF TypeOK
<1>2. sweep[s].at \in Messages
  BY <1>1, SweepFields DEF CommitSweep
<1>3. q \in Sweep /\ q.at = None
  BY <1>1, NoSweepIs DEF Sweep
<1>4. SweepBecomes(s, q)
  BY DEF CommitSweep
<1> HIDE DEF q
<1>5. SweepIs(s, None)
  BY <1>1, <1>3, <1>4, SweepUpdate
<1> QED
  BY <1>2, <1>5 DEF CommitSweep

LEMMA AbortSweepDoes ==
  ASSUME TypeOK, NEW s \in Sweepers, AbortSweep(s)
  PROVE  /\ SweepIs(s, None) /\ ReleaseRows(s)
         /\ UNCHANGED <<rowVars, channelLock, editLock, task>>
BY NoSweepIs, SweepUpdate DEF AbortSweep, TypeOK

-----------------------------------------------------------------------------
(* A process stays where it is, with what it holds, or steps               *)

Stays(v) ==
  /\ task'[v] = task[v]
  /\ channelLock = v => channelLock' = v
  /\ \A m \in Messages : /\ editLock[m] = v => editLock'[m] = v
                         /\ row[m] = v => row'[m] = v

Steps(v) == Request(v) \/ WriteStep(v) \/ AbortWrite(v) \/ Answer(v)

SweeperSteps(s) == ListOld(s) \/ SweepStep(s) \/ CommitSweep(s) \/ AbortSweep(s)

LEMMA StepsDoes ==
  ASSUME TypeOK, NumbersAreGapless, EditorsApart, NEW w \in Writers, Steps(w)
  PROVE  /\ task' \in [Writers -> Task] /\ \A v \in Writers \ {w} : Stays(v)
         /\ \A s \in Sweepers, m \in Messages : row[m] = s => row'[m] = s
         /\ channelLock' \in Writers \cup {None}
         /\ editLock' \in [Messages -> Writers \cup {None}]
         /\ sweep' = sweep
<1>0. /\ channelLock \in Writers \cup {None} /\ editLock \in [Messages -> Writers \cup {None}]
      /\ row \in [Messages -> Writers \cup Sweepers \cup {None}]
      /\ None \notin Writers \cup Sweepers /\ w \notin Sweepers
  BY NameAssumption DEF TypeOK
<1>1. CASE Request(w) \/ ReadBody(w) \/ Answer(w)
  <2>1. /\ task' \in [Writers -> Task] /\ \A v \in Writers \ {w} : task'[v] = task[v]
        /\ UNCHANGED <<channelLock, editLock, row, sweep>>
    <3>1. CASE Request(w)
      BY <3>1, BeginSendDoes, BeginEditDoes, BeginDeleteDoes DEF Request, TaskIs
    <3>2. CASE ReadBody(w)
      BY <3>2, ReadBodyDoes DEF Goes, TaskIs
    <3>3. CASE Answer(w)
      BY <3>3, AnswerDoes DEF TaskIs
    <3> QED
      BY <1>1, <3>1, <3>2, <3>3
  <2> QED
    BY <1>0, <2>1 DEF Stays
<1>2. CASE TakeSerial(w) \/ CommitSend(w)
  BY <1>0, <1>2, TakeSerialDoes, CommitSendDoes DEF Goes, TaskIs, Stays
<1>3. CASE TakeEditSerial(w)
  BY <1>0, <1>3, TakeEditSerialDoes DEF Goes, TaskIs, Stays
<1>4. CASE CommitEdit(w)
  BY <1>0, <1>4, CommitEditDoes, ReleaseEditsDoes DEF Goes, TaskIs, Stays
<1>5. CASE WipeBody(w)
  BY <1>0, <1>5, WipeBodyDoes DEF Goes, TaskIs, Stays
<1>6. CASE CommitDelete(w)
  <2>1. /\ task' \in [Writers -> Task] /\ \A v \in Writers \ {w} : task'[v] = task[v]
        /\ ReleaseRows(w) /\ UNCHANGED <<channelLock, editLock, sweep>>
    BY <1>6, CommitDeleteDoes DEF Goes, TaskIs
  <2> QED
    BY <1>0, <2>1, ReleaseRowsDoes DEF Stays
<1>7. CASE AbortWrite(w)
  <2>1. /\ task' \in [Writers -> Task] /\ \A v \in Writers \ {w} : task'[v] = task[v]
        /\ ReleaseRows(w) /\ ReleaseEdits(w) /\ sweep' = sweep
        /\ channelLock' = IF channelLock = w THEN None ELSE channelLock
    BY <1>7, AbortWriteDoes DEF TaskIs
  <2> QED
    BY <1>0, <2>1, ReleaseRowsDoes, ReleaseEditsDoes DEF Stays
<1> QED
  BY <1>1, <1>2, <1>3, <1>4, <1>5, <1>6, <1>7 DEF Steps, WriteStep

LEMMA SweeperStepsDoes ==
  ASSUME TypeOK, NEW s \in Sweepers, SweeperSteps(s)
  PROVE  /\ sweep' \in [Sweepers -> Sweep]
         /\ \A z \in Sweepers \ {s} : sweep'[z] = sweep[z]
         /\ \A p \in (Writers \cup Sweepers) \ {s}, m \in Messages : row[m] = p => row'[m] = p
         /\ UNCHANGED <<serial, editOf, editNo, deleted, archive, aged,
                        channelLock, editLock, task>>
<1>0. /\ row \in [Messages -> Writers \cup Sweepers \cup {None}]
      /\ None \notin Writers \cup Sweepers
  BY NameAssumption DEF TypeOK
<1>1. CASE ListOld(s)
  BY <1>1, ListOldDoes DEF SweepIs, rowVars
<1>2. ASSUME NEW m \in Messages, SweepRow(s, m)
      PROVE  /\ sweep' \in [Sweepers -> Sweep]
             /\ \A z \in Sweepers \ {s} : sweep'[z] = sweep[z]
             /\ \A p \in (Writers \cup Sweepers) \ {s}, n \in Messages : row[n] = p => row'[n] = p
             /\ UNCHANGED <<serial, editOf, editNo, deleted, archive, aged,
                            channelLock, editLock, task>>
  BY <1>0, <1>2, SweepRowDoes DEF SweepIs, rowVars
<1>3. CASE CommitSweep(s)
  BY <1>0, <1>3, CommitSweepDoes, ReleaseRowsDoes DEF SweepIs
<1>4. CASE AbortSweep(s)
  BY <1>0, <1>4, AbortSweepDoes, ReleaseRowsDoes DEF SweepIs, rowVars
<1> QED
  BY <1>1, <1>2, <1>3, <1>4 DEF SweeperSteps, SweepStep

LEMMA StaysOrSteps ==
  ASSUME TypeOK, NumbersAreGapless, EditorsApart, Next, NEW v \in Writers
  PROVE  Stays(v) \/ Steps(v)
<1>1. ASSUME NEW w \in Writers, Steps(w)
      PROVE  Stays(v) \/ Steps(v)
  BY <1>1, StepsDoes
<1>2. ASSUME NEW m \in Messages, Age(m)
      PROVE  Stays(v)
  BY <1>2 DEF Age, Stays
<1>3. ASSUME NEW s \in Sweepers, SweeperSteps(s)
      PROVE  Stays(v)
  BY <1>3, SweeperStepsDoes, NameAssumption DEF Stays
<1> QED
  BY <1>1, <1>2, <1>3 DEF Next, Steps, SweeperSteps

(* How a request comes where it is.                                        *)
LEMMA Arrives ==
  ASSUME TypeOK, NumbersAreGapless, EditorsApart, NEW v \in Writers, Steps(v)
  PROVE  /\ task'[v].pc = "sending" => \E m \in Messages : BeginSend(v, m)
         /\ task'[v].pc = "numbered" => TakeSerial(v)
         /\ task'[v].pc = "sent" => CommitSend(v)
         /\ task'[v].pc = "editing" => \E m \in Messages, e \in Edits : BeginEdit(v, m, e)
         /\ task'[v].pc = "placed" => TakeEditSerial(v)
         /\ task'[v].pc = "deleting" => \E m \in Messages : BeginDelete(v, m)
         /\ task'[v].pc = "wiping" => ReadBody(v)
         /\ task'[v].pc = "wiped" => ReadBody(v) \/ WipeBody(v)
         /\ task'[v].pc = "edited" => CommitEdit(v)
         /\ task'[v].pc = "deleted" => CommitDelete(v)
<1>1. /\ TakeSerial(v) => task'[v].pc = "numbered"
      /\ CommitSend(v) => task'[v].pc = "sent"
      /\ TakeEditSerial(v) => task'[v].pc = "placed"
      /\ CommitEdit(v) => task'[v].pc = "edited"
      /\ ReadBody(v) => task'[v].pc \in {"wiping", "wiped"}
      /\ WipeBody(v) => task'[v].pc = "wiped"
      /\ CommitDelete(v) => task'[v].pc = "deleted"
  BY TakeSerialDoes, CommitSendDoes, TakeEditSerialDoes, CommitEditDoes, ReadBodyDoes,
     WipeBodyDoes, CommitDeleteDoes DEF Goes, TaskIs
<1>2. /\ AbortWrite(v) \/ Answer(v) => task'[v].pc = "idle"
      /\ \A m \in Messages : BeginSend(v, m) => task'[v].pc = "sending"
      /\ \A m \in Messages, e \in Edits : BeginEdit(v, m, e) => task'[v].pc = "editing"
      /\ \A m \in Messages : BeginDelete(v, m) => task'[v].pc = "deleting"
  BY AbortWriteDoes, AnswerDoes, BeginSendDoes, BeginEditDoes, BeginDeleteDoes DEF TaskIs
<1> QED
  BY <1>1, <1>2 DEF Steps, Request, WriteStep

LEMMA SerialWritten ==
  ASSUME Next, \A w \in Writers : ~CommitSend(w)
  PROVE  serial' = serial
BY DEF Next, Request, WriteStep, SweepStep, BeginSend, TakeSerial, BeginEdit, TakeEditSerial,
       CommitEdit, BeginDelete, ReadBody, WipeBody, CommitDelete, AbortWrite, Answer, Age, ListOld,
       SweepRow, CommitSweep, AbortSweep, rowVars

LEMMA EditsWritten ==
  ASSUME Next, \A w \in Writers : ~CommitEdit(w)
  PROVE  UNCHANGED <<editOf, editNo>>
BY DEF Next, Request, WriteStep, SweepStep, BeginSend, TakeSerial, CommitSend, BeginEdit,
       TakeEditSerial, BeginDelete, ReadBody, WipeBody, CommitDelete, AbortWrite, Answer, Age,
       ListOld, SweepRow, CommitSweep, AbortSweep, rowVars

LEMMA BodiesWritten ==
  ASSUME Next, \A w \in Writers : ~CommitDelete(w), \A s \in Sweepers : ~CommitSweep(s)
  PROVE  UNCHANGED <<wiped, deleted, retained, archive>>
BY DEF Next, Request, WriteStep, SweepStep, BeginSend, TakeSerial, CommitSend, BeginEdit,
       TakeEditSerial, CommitEdit, BeginDelete, ReadBody, WipeBody, AbortWrite, Answer, Age,
       ListOld, SweepRow, AbortSweep, rowVars

-----------------------------------------------------------------------------
(* Types are kept                                                          *)

LEMMA RowWritten ==
  ASSUME TypeOK, NumbersAreGapless, EditorsApart, Next
  PROVE  row' \in [Messages -> Writers \cup Sweepers \cup {None}]
<1> USE DEF rowVars
<1>1. row \in [Messages -> Writers \cup Sweepers \cup {None}]
  BY DEF TypeOK
<1>2. ASSUME NEW w \in Writers, Steps(w), ~WipeBody(w)
      PROVE  row' \in [Messages -> Writers \cup Sweepers \cup {None}]
  <2>1. CASE CommitDelete(w) \/ AbortWrite(w)
    BY <1>1, <2>1, CommitDeleteDoes, AbortWriteDoes, ReleaseRowsDoes
  <2>2. CASE ~CommitDelete(w) /\ ~AbortWrite(w)
    <3>1. row' = row
      BY <1>2, <2>2 DEF Steps, Request, WriteStep, BeginSend, BeginEdit, BeginDelete, TakeSerial,
         CommitSend, TakeEditSerial, CommitEdit, ReadBody, Answer
    <3> QED
      BY <1>1, <3>1
  <2> QED
    BY <2>1, <2>2
<1>3. ASSUME NEW w \in Writers, WipeBody(w)
      PROVE  row' \in [Messages -> Writers \cup Sweepers \cup {None}]
  BY <1>1, <1>3, WipeBodyDoes
<1>4. ASSUME NEW m \in Messages, Age(m)
      PROVE  row' \in [Messages -> Writers \cup Sweepers \cup {None}]
  BY <1>1, <1>4 DEF Age
<1>5. ASSUME NEW s \in Sweepers, SweeperSteps(s)
      PROVE  row' \in [Messages -> Writers \cup Sweepers \cup {None}]
  BY <1>1, <1>5, ListOldDoes, SweepRowDoes, CommitSweepDoes, AbortSweepDoes, ReleaseRowsDoes
     DEF SweeperSteps, SweepStep
<1> QED
  BY <1>2, <1>3, <1>4, <1>5 DEF Next, Steps, SweeperSteps

LEMMA CommitSendRows ==
  ASSUME TypeOK, SendersApart, NumberedHolds, NumbersAreGapless, NEW w \in Writers, CommitSend(w)
  PROVE  LET m == task[w].message IN
         /\ m \in Messages \ Rows /\ serial' \in [Messages -> Nat]
         /\ serial'[m] = Cardinality(Rows) + 1
         /\ \A n \in Messages \ {m} : serial'[n] = serial[n]
         /\ Rows' = Rows \cup {m}
<1> DEFINE m == task[w].message
<1>1. /\ m \in Messages \ Rows /\ task[w].number = Cardinality(Rows) + 1
      /\ Cardinality(Rows) \in Nat /\ serial \in [Messages -> Nat]
      /\ serial' = [serial EXCEPT ![m] = task[w].number]
  BY CommitSendDoes, LastIsCount, RowsFinite DEF SendersApart, NumberedHolds, Sending, TypeOK
<1> HIDE DEF m
<1>2. /\ serial' \in [Messages -> Nat] /\ serial'[m] = Cardinality(Rows) + 1
      /\ \A n \in Messages \ {m} : serial'[n] = serial[n]
  BY <1>1
<1>3. Rows' = Rows \cup {m}
  BY <1>1, <1>2 DEF Rows
<1> QED
  BY <1>1, <1>2, <1>3 DEF m

LEMMA CommitEditRows ==
  ASSUME TypeOK, EditorsApart, PlacedHolds, NumbersAreGapless, NEW w \in Writers, CommitEdit(w)
  PROVE  LET m == task[w].message
             e == task[w].edit IN
         /\ m \in Messages /\ e \in Edits \ EditRows(m) /\ editLock[m] = w
         /\ editOf' \in [Edits -> Messages \cup {None}] /\ editNo' \in [Edits -> Nat]
         /\ editNo'[e] = Cardinality(EditRows(m)) + 1
         /\ \A f \in Edits \ {e} : editNo'[f] = editNo[f] /\ editOf'[f] = editOf[f]
         /\ \A n \in Messages : /\ e \notin EditRows(n)
                               /\ EditRows(n)' = IF n = m THEN EditRows(n) \cup {e} ELSE EditRows(n)
<1> DEFINE m == task[w].message
           e == task[w].edit
<1>1. /\ m \in Messages /\ e \in Edits /\ editOf[e] = None /\ editLock[m] = w
      /\ task[w].number = LastEditNo(m) + 1
      /\ editOf' = [editOf EXCEPT ![e] = m] /\ editNo' = [editNo EXCEPT ![e] = task[w].number]
  BY CommitEditDoes DEF EditorsApart, PlacedHolds, Editing
<1> HIDE DEF m, e
<1>2. /\ task[w].number = Cardinality(EditRows(m)) + 1 /\ Cardinality(EditRows(m)) \in Nat
      /\ editOf \in [Edits -> Messages \cup {None}] /\ editNo \in [Edits -> Nat]
      /\ None \notin Messages
  BY <1>1, LastIsCount, RowsFinite, NameAssumption DEF TypeOK
<1>3. /\ editOf' \in [Edits -> Messages \cup {None}] /\ editNo' \in [Edits -> Nat]
      /\ editNo'[e] = Cardinality(EditRows(m)) + 1 /\ editOf'[e] = m
      /\ \A f \in Edits \ {e} : editNo'[f] = editNo[f] /\ editOf'[f] = editOf[f]
  BY <1>1, <1>2
<1>4. ASSUME NEW n \in Messages
      PROVE  /\ e \notin EditRows(n)
             /\ EditRows(n)' = IF n = m THEN EditRows(n) \cup {e} ELSE EditRows(n)
  BY <1>1, <1>2, <1>3 DEF EditRows
<1> QED
  BY <1>1, <1>3, <1>4 DEF m, e

LEMMA TypeKeeps ==
  ASSUME TypeOK, NumbersAreGapless, SendersApart, NumberedHolds, EditorsApart, PlacedHolds,
         DeletersKnow, Next
  PROVE  TypeOK'
<1>1. row' \in [Messages -> Writers \cup Sweepers \cup {None}]
  BY RowWritten
<1>2. serial' \in [Messages -> Nat]
  BY CommitSendRows, SerialWritten DEF TypeOK
<1>3. editOf' \in [Edits -> Messages \cup {None}] /\ editNo' \in [Edits -> Nat]
  BY CommitEditRows, EditsWritten DEF TypeOK
<1>4. /\ task' \in [Writers -> Task] /\ sweep' \in [Sweepers -> Sweep]
      /\ channelLock' \in Writers \cup {None} /\ editLock' \in [Messages -> Writers \cup {None}]
  BY StepsDoes, SweeperStepsDoes DEF TypeOK, Next, Steps, SweeperSteps, Age
<1>5. /\ wiped' \subseteq Messages /\ deleted' \subseteq Messages /\ archive' \subseteq Messages
      /\ retained' \in [Messages -> Nat]
  <2>1. ASSUME NEW w \in Writers, CommitDelete(w)
        PROVE  /\ wiped' \subseteq Messages /\ deleted' \subseteq Messages
               /\ archive' \subseteq Messages /\ retained' \in [Messages -> Nat]
    <3>1. task[w].message \in Messages
      BY <2>1, CommitDeleteDoes DEF DeletersKnow
    <3> QED
      BY <2>1, <3>1, CommitDeleteDoes DEF TypeOK
  <2>2. ASSUME NEW s \in Sweepers, CommitSweep(s)
        PROVE  /\ wiped' \subseteq Messages /\ deleted' \subseteq Messages
               /\ archive' \subseteq Messages /\ retained' \in [Messages -> Nat]
    BY <2>2, CommitSweepDoes DEF TypeOK
  <2> QED
    BY <2>1, <2>2, BodiesWritten DEF TypeOK
<1>6. aged' \subseteq Messages
  <2>1. aged' = aged \/ \E m \in Messages : aged' = aged \cup {m}
    BY DEF Next, Request, WriteStep, SweepStep, BeginSend, TakeSerial, CommitSend, BeginEdit,
       TakeEditSerial, CommitEdit, BeginDelete, ReadBody, WipeBody, CommitDelete, AbortWrite, Answer,
       Age, ListOld, SweepRow, CommitSweep, AbortSweep, rowVars
  <2> QED
    BY <2>1 DEF TypeOK
<1> QED
  BY <1>1, <1>2, <1>3, <1>4, <1>5, <1>6 DEF TypeOK

-----------------------------------------------------------------------------
(* The parts of the invariant                                              *)

LEMMA NumbersKeep ==
  ASSUME TypeOK, NumbersAreGapless, SendersApart, NumberedHolds, EditorsApart, PlacedHolds, Next
  PROVE  NumbersAreGapless'
<1>1. Dense({serial[m] : m \in Rows}, Cardinality(Rows))'
  <2>1. ASSUME NEW w \in Writers, CommitSend(w)
        PROVE  Dense({serial[m] : m \in Rows}, Cardinality(Rows))'
    <3> DEFINE x == task[w].message
    <3>1. /\ x \in Messages \ Rows /\ serial' \in [Messages -> Nat] /\ serial \in [Messages -> Nat]
          /\ serial'[x] = Cardinality(Rows) + 1 /\ Rows' = Rows \cup {x}
          /\ \A y \in Rows : serial'[y] = serial[y]
          /\ Rows \in SUBSET Messages /\ IsFiniteSet(Rows)
          /\ Dense({serial[y] : y \in Rows}, Cardinality(Rows))
      BY <2>1, CommitSendRows, RowsFinite DEF TypeOK, NumbersAreGapless, Rows
    <3> HIDE DEF x
    <3>2. Dense({serial'[y] : y \in Rows \cup {x}}, Cardinality(Rows \cup {x}))
      BY <3>1, DenseAdds
    <3> QED
      BY <3>1, <3>2
  <2>2. CASE \A w \in Writers : ~CommitSend(w)
    <3>1. serial' = serial /\ Rows' = Rows
      BY <2>2, SerialWritten DEF Rows
    <3> QED
      BY <3>1 DEF NumbersAreGapless
  <2> QED
    BY <2>1, <2>2
<1>2. ASSUME NEW m \in Messages
      PROVE  Dense({editNo[e] : e \in EditRows(m)}, Cardinality(EditRows(m)))'
  <2>0. /\ Dense({editNo[e] : e \in EditRows(m)}, Cardinality(EditRows(m)))
        /\ editNo \in [Edits -> Nat] /\ EditRows(m) \in SUBSET Edits /\ IsFiniteSet(EditRows(m))
    BY RowsFinite DEF NumbersAreGapless, TypeOK, EditRows
  <2>1. ASSUME NEW w \in Writers, CommitEdit(w)
        PROVE  Dense({editNo[e] : e \in EditRows(m)}, Cardinality(EditRows(m)))'
    <3> DEFINE x == task[w].edit
    <3>1. /\ x \in Edits /\ editNo' \in [Edits -> Nat] /\ x \notin EditRows(m)
          /\ \A e \in EditRows(m) : editNo'[e] = editNo[e]
          /\ \/ EditRows(m)' = EditRows(m)
             \/ /\ EditRows(m)' = EditRows(m) \cup {x}
                /\ editNo'[x] = Cardinality(EditRows(m)) + 1
      <4>1. CASE m = task[w].message
        BY <2>0, <2>1, <4>1, CommitEditRows
      <4>2. CASE m # task[w].message
        BY <2>0, <2>1, <4>2, CommitEditRows
      <4> QED
        BY <4>1, <4>2
    <3> HIDE DEF x
    <3>2. CASE EditRows(m)' = EditRows(m)
      BY <2>0, <3>1, <3>2 DEF Dense
    <3>3. CASE EditRows(m)' = EditRows(m) \cup {x} /\ editNo'[x] = Cardinality(EditRows(m)) + 1
      <4>1. Dense({editNo'[y] : y \in EditRows(m) \cup {x}}, Cardinality(EditRows(m) \cup {x}))
        BY <2>0, <3>1, <3>3, DenseAdds
      <4> QED
        BY <3>3, <4>1
    <3> QED
      BY <3>1, <3>2, <3>3
  <2>2. CASE \A w \in Writers : ~CommitEdit(w)
    <3>1. editNo' = editNo /\ EditRows(m)' = EditRows(m)
      BY <2>2, EditsWritten DEF EditRows
    <3> QED
      BY <2>0, <3>1
  <2> QED
    BY <2>1, <2>2
<1> QED
  BY <1>1, <1>2 DEF NumbersAreGapless

LEMMA SendersKeep ==
  ASSUME TypeOK, NumbersAreGapless, SendersApart, NumberedHolds, EditorsApart, Next
  PROVE  SendersApart'
<1> DEFINE Was(v) == task[v].pc \in Sending /\ task[v].message = task'[v].message
           New(v) == \A u \in Writers : task[u].message # task'[v].message
<1>1. ASSUME NEW v \in Writers, task'[v].pc \in Sending
      PROVE  /\ task'[v].message \in Messages \ Rows
             /\ Was(v) \/ (New(v) /\ Steps(v))
  <2>1. CASE Stays(v)
    BY <1>1, <2>1 DEF Stays, SendersApart
  <2>2. CASE Steps(v)
    <3>1. CASE task'[v].pc = "sending"
      <4>1. PICK m \in Messages : BeginSend(v, m)
        BY <2>2, <3>1, Arrives
      <4> QED
        BY <2>2, <4>1, BeginSendDoes DEF TaskIs
    <3>2. CASE task'[v].pc = "numbered"
      BY <2>2, <3>2, Arrives, TakeSerialDoes DEF Goes, TaskIs, SendersApart, Sending
    <3> QED
      BY <1>1, <3>1, <3>2 DEF Sending
  <2> QED
    BY <2>1, <2>2, StaysOrSteps
<1>2. ASSUME NEW v \in Writers, task'[v].pc \in Sending
      PROVE  task'[v].message \notin Rows'
  <2>1. ASSUME NEW w \in Writers, CommitSend(w)
        PROVE  task'[v].message \notin Rows'
    <3>1. /\ Rows' = Rows \cup {task[w].message} /\ task'[w].pc = "sent" /\ task[w].pc = "numbered"
      BY <2>1, CommitSendRows, CommitSendDoes DEF Goes, TaskIs
    <3>2. v # w
      BY <1>2, <3>1 DEF Sending
    <3>3. task'[v].message # task[w].message
      BY <1>1, <1>2, <3>1, <3>2 DEF SendersApart, Sending
    <3> QED
      BY <1>1, <1>2, <3>1, <3>3
  <2>2. CASE \A w \in Writers : ~CommitSend(w)
    BY <1>1, <1>2, <2>2, SerialWritten DEF Rows
  <2> QED
    BY <2>1, <2>2
<1>3. ASSUME NEW v \in Writers, NEW u \in Writers \ {v},
             task'[v].pc \in Sending, task'[u].pc \in Sending
      PROVE  task'[u].message # task'[v].message
  <2>1. CASE Was(v) /\ Was(u)
    BY <1>3, <2>1 DEF SendersApart
  <2>2. CASE New(v) /\ Steps(v)
    <3>1. task'[u] = task[u]
      BY <1>3, <2>2, StepsDoes DEF Stays
    <3> QED
      BY <2>2, <3>1
  <2>3. CASE New(u) /\ Steps(u)
    <3>1. task'[v] = task[v]
      BY <1>3, <2>3, StepsDoes DEF Stays
    <3> QED
      BY <2>3, <3>1
  <2> QED
    BY <1>1, <1>3, <2>1, <2>2, <2>3
<1> QED
  BY <1>1, <1>2, <1>3 DEF SendersApart

LEMMA NumberedKeep ==
  ASSUME TypeOK, NumbersAreGapless, SendersApart, NumberedHolds, EditorsApart, Next
  PROVE  NumberedHolds'
<1> SUFFICES ASSUME NEW v \in Writers, task'[v].pc = "numbered"
             PROVE  channelLock' = v /\ task'[v].number = LastSerial' + 1
  BY DEF NumberedHolds
<1>1. CASE Steps(v)
  <2>1. TakeSerial(v)
    BY <1>1, Arrives
  <2>2. channelLock' = v /\ task'[v].number = LastSerial + 1 /\ serial' = serial
    BY <2>1, TakeSerialDoes DEF Goes, TaskIs, rowVars
  <2> QED
    BY <2>2 DEF LastSerial
<1>2. CASE Stays(v)
  <2>1. task[v].pc = "numbered" /\ task'[v] = task[v] /\ channelLock = v /\ channelLock' = v
    BY <1>2 DEF Stays, NumberedHolds
  <2>2. \A w \in Writers : ~CommitSend(w)
    <3> SUFFICES ASSUME NEW w \in Writers, CommitSend(w) PROVE FALSE
      OBVIOUS
    <3>1. w = v /\ task'[w].pc = "sent"
      BY <2>1, CommitSendDoes DEF Goes, TaskIs, NumberedHolds
    <3> QED
      BY <3>1
  <2>3. serial' = serial
    BY <2>2, SerialWritten
  <2> QED
    BY <2>1, <2>3 DEF LastSerial, NumberedHolds
<1> QED
  BY <1>1, <1>2, StaysOrSteps

LEMMA EditorsKeep ==
  ASSUME TypeOK, NumbersAreGapless, SendersApart, EditorsApart, PlacedHolds, Next
  PROVE  EditorsApart'
<1> DEFINE Was(v) == task[v].pc \in Editing /\ task[v].edit = task'[v].edit
           New(v) == \A u \in Writers : task[u].edit # task'[v].edit
<1>1. ASSUME NEW v \in Writers, task'[v].pc \in Editing
      PROVE  /\ task'[v].message \in Messages /\ task'[v].edit \in Edits
             /\ editOf[task'[v].edit] = None
             /\ Was(v) \/ (New(v) /\ Steps(v))
  <2>1. CASE Stays(v)
    BY <1>1, <2>1 DEF Stays, EditorsApart
  <2>2. CASE Steps(v)
    <3>1. CASE task'[v].pc = "editing"
      <4>1. PICK m \in Messages, e \in Edits : BeginEdit(v, m, e)
        BY <2>2, <3>1, Arrives
      <4>2. /\ task'[v].message = m /\ task'[v].edit = e /\ editOf[e] = None
            /\ \A u \in Writers : task[u].edit # e
        <5>1. TaskIs(v, "editing", m, e, 0, FALSE)
          BY <4>1, BeginEditDoes
        <5>2. editOf[e] = None /\ \A u \in Writers : task[u].edit # e
          BY <4>1, BeginEditDoes
        <5> QED
          BY <5>1, <5>2 DEF TaskIs
      <4> QED
        BY <2>2, <4>2
    <3>2. CASE task'[v].pc = "placed"
      BY <2>2, <3>2, Arrives, TakeEditSerialDoes DEF Goes, TaskIs, EditorsApart, Editing
    <3> QED
      BY <1>1, <3>1, <3>2 DEF Editing
  <2> QED
    BY <2>1, <2>2, StaysOrSteps
<1>2. ASSUME NEW v \in Writers, task'[v].pc \in Editing
      PROVE  editOf'[task'[v].edit] = None
  <2>1. ASSUME NEW w \in Writers, CommitEdit(w)
        PROVE  editOf'[task'[v].edit] = None
    <3>1. /\ \A f \in Edits \ {task[w].edit} : editOf'[f] = editOf[f]
          /\ task'[w].pc = "edited" /\ task[w].pc = "placed"
      BY <2>1, CommitEditRows, CommitEditDoes DEF Goes, TaskIs
    <3>2. v # w
      BY <1>2, <3>1 DEF Editing
    <3>3. task'[v].edit # task[w].edit
      BY <1>1, <1>2, <3>1, <3>2 DEF EditorsApart, Editing
    <3> QED
      BY <1>1, <1>2, <3>1, <3>3
  <2>2. CASE \A w \in Writers : ~CommitEdit(w)
    BY <1>1, <1>2, <2>2, EditsWritten
  <2> QED
    BY <2>1, <2>2
<1>3. ASSUME NEW v \in Writers, NEW u \in Writers \ {v},
             task'[v].pc \in Editing, task'[u].pc \in Editing
      PROVE  task'[u].edit # task'[v].edit
  <2>1. CASE Was(v) /\ Was(u)
    BY <1>3, <2>1 DEF EditorsApart
  <2>2. CASE New(v) /\ Steps(v)
    <3>1. task'[u] = task[u]
      BY <1>3, <2>2, StepsDoes DEF Stays
    <3> QED
      BY <2>2, <3>1
  <2>3. CASE New(u) /\ Steps(u)
    <3>1. task'[v] = task[v]
      BY <1>3, <2>3, StepsDoes DEF Stays
    <3> QED
      BY <2>3, <3>1
  <2> QED
    BY <1>1, <1>3, <2>1, <2>2, <2>3
<1> QED
  BY <1>1, <1>2, <1>3 DEF EditorsApart

LEMMA PlacedKeep ==
  ASSUME TypeOK, NumbersAreGapless, SendersApart, EditorsApart, PlacedHolds, Next
  PROVE  PlacedHolds'
<1> SUFFICES ASSUME NEW v \in Writers, task'[v].pc = "placed", NEW m, m = task'[v].message
             PROVE  editLock'[m] = v /\ task'[v].number = LastEditNo(m)' + 1
  BY DEF PlacedHolds
<1>1. CASE Steps(v)
  <2>1. TakeEditSerial(v)
    BY <1>1, Arrives
  <2>2. /\ m = task[v].message /\ m \in Messages /\ editLock' = [editLock EXCEPT ![m] = v]
        /\ task'[v].number = LastEditNo(m) + 1 /\ UNCHANGED <<editOf, editNo>>
        /\ editLock \in [Messages -> Writers \cup {None}]
    BY <2>1, TakeEditSerialDoes DEF Goes, TaskIs, rowVars, TypeOK
  <2> QED
    BY <2>2 DEF LastEditNo, EditRows
<1>2. CASE Stays(v)
  <2>1. /\ task[v].pc = "placed" /\ task'[v] = task[v] /\ m = task[v].message
        /\ m \in Messages
    BY <1>2 DEF Stays, EditorsApart, Editing
  <2>2. /\ editLock[m] = v /\ editLock'[m] = v /\ task[v].number = LastEditNo(m) + 1
    BY <1>2, <2>1 DEF Stays, PlacedHolds
  <2>3. EditRows(m)' = EditRows(m) /\ \A e \in EditRows(m) : editNo'[e] = editNo[e]
    <3>1. ASSUME NEW w \in Writers, CommitEdit(w)
          PROVE  EditRows(m)' = EditRows(m) /\ \A e \in EditRows(m) : editNo'[e] = editNo[e]
      <4>1. w # v
        BY <2>1, <3>1, CommitEditDoes DEF Goes, TaskIs
      <4>2. editLock[task[w].message] = w
        BY <3>1, CommitEditRows
      <4>3. m # task[w].message
        BY <2>2, <4>1, <4>2
      <4>4. /\ task[w].edit \in Edits /\ editOf[task[w].edit] = None /\ m # None
            /\ editOf' = [editOf EXCEPT ![task[w].edit] = task[w].message]
            /\ editNo' = [editNo EXCEPT ![task[w].edit] = task[w].number]
        BY <2>1, <3>1, CommitEditDoes, NameAssumption DEF EditorsApart, Editing
      <4>5. \A f \in Edits : /\ editOf'[f] = m <=> editOf[f] = m
                             /\ editOf[f] = m => editNo'[f] = editNo[f]
        BY <4>3, <4>4 DEF TypeOK
      <4>6. {f \in Edits : editOf'[f] = m} = {f \in Edits : editOf[f] = m}
        BY <4>5
      <4>7. EditRows(m)' = EditRows(m)
        BY <4>6 DEF EditRows
      <4>8. \A f \in EditRows(m) : editNo'[f] = editNo[f]
        BY <4>5 DEF EditRows
      <4> QED
        BY <4>7, <4>8
    <3>2. CASE \A w \in Writers : ~CommitEdit(w)
      BY <3>2, EditsWritten DEF EditRows
    <3> QED
      BY <3>1, <3>2
  <2>4. {editNo'[e] : e \in EditRows(m)'} = {editNo[e] : e \in EditRows(m)}
    BY <2>3
  <2>5. LastEditNo(m)' = LastEditNo(m)
    BY <2>4 DEF LastEditNo
  <2> QED
    BY <2>1, <2>2, <2>5
<1> QED
  BY <1>1, <1>2, StaysOrSteps

-----------------------------------------------------------------------------
(* Bodies                                                                  *)

(* A body once wiped stays so, and one that is wiped now was by a delete   *)
(* or a sweep that held its row.                                           *)
LEMMA WipedGrows ==
  ASSUME TypeOK, DeletersKnow, SweepersHold, Next
  PROVE  /\ wiped \subseteq wiped'
         /\ \A m \in wiped' \ wiped :
              \/ \E w \in Writers : CommitDelete(w) /\ row[m] = w
              \/ \E s \in Sweepers : CommitSweep(s) /\ row[m] = s
<1>1. ASSUME NEW w \in Writers, CommitDelete(w)
      PROVE  wiped \subseteq wiped' /\ \A m \in wiped' \ wiped : row[m] = w
  BY <1>1, CommitDeleteDoes DEF DeletersKnow
<1>2. ASSUME NEW s \in Sweepers, CommitSweep(s)
      PROVE  wiped \subseteq wiped' /\ \A m \in wiped' \ wiped : row[m] = s
  <2>1. sweep[s].at \in Messages /\ sweep[s].at # None /\ wiped' = wiped \cup {sweep[s].at}
    BY <1>2, CommitSweepDoes, NameAssumption
  <2> QED
    BY <2>1 DEF SweepersHold
<1> QED
  BY <1>1, <1>2, BodiesWritten

LEMMA DeletersKeep ==
  ASSUME TypeOK, NumbersAreGapless, EditorsApart, DeletersKnow, SweepersHold, Next
  PROVE  DeletersKnow'
<1> SUFFICES ASSUME NEW v \in Writers, task'[v].pc \in {"deleting", "wiping", "wiped"}
             PROVE  /\ task'[v].message \in Messages
                    /\ task'[v].pc = "deleting" => ~task'[v].found
                    /\ task'[v].pc = "wiping" => task'[v].found
                    /\ task'[v].pc = "wiped" => IF task'[v].found THEN row'[task'[v].message] = v
                                                ELSE task'[v].message \in wiped'
  BY DEF DeletersKnow
<1>1. CASE Stays(v)
  BY <1>1, WipedGrows DEF Stays, DeletersKnow
<1>2. CASE Steps(v)
  <2>1. CASE task'[v].pc = "deleting"
    BY <1>2, <2>1, Arrives, BeginDeleteDoes DEF TaskIs
  <2>2. CASE ReadBody(v)
    <3>1. /\ task[v].message \in Messages /\ ~task[v].found /\ task'[v].message = task[v].message
          /\ wiped' = wiped
          /\ IF task[v].message \in wiped THEN task'[v].pc = "wiped" /\ task'[v].found = task[v].found
                                          ELSE task'[v].pc = "wiping" /\ task'[v].found = TRUE
      BY <2>2, ReadBodyDoes DEF Goes, TaskIs, DeletersKnow, rowVars
    <3> QED
      BY <3>1
  <2>3. CASE WipeBody(v)
    <3>1. /\ task[v].message \in Messages /\ task'[v].found /\ task'[v].message = task[v].message
          /\ row' = [row EXCEPT ![task[v].message] = v] /\ task'[v].pc = "wiped"
      BY <2>3, WipeBodyDoes DEF Goes, TaskIs, DeletersKnow
    <3> QED
      BY <3>1 DEF TypeOK
  <2> QED
    BY <1>2, <2>1, <2>2, <2>3, Arrives
<1> QED
  BY <1>1, <1>2, StaysOrSteps

LEMMA SweepersKeep ==
  ASSUME TypeOK, NumbersAreGapless, EditorsApart, DeletersKnow, SweepersHold, Next
  PROVE  SweepersHold'
<1>0. row \in [Messages -> Writers \cup Sweepers \cup {None}]
      /\ None \notin Writers \cup Sweepers /\ Writers \cap Sweepers = {} /\ None \notin Messages
  BY NameAssumption DEF TypeOK
<1> SUFFICES ASSUME NEW s \in Sweepers, sweep'[s].at # None
             PROVE  row'[sweep'[s].at] = s /\ sweep'[s].at \notin wiped'
  BY DEF SweepersHold
<1>1. ASSUME NEW m \in Messages, row[m] = s, m \notin wiped, row'[m] = s
      PROVE  m \notin wiped' \/ CommitSweep(s)
  BY <1>0, <1>1, WipedGrows
<1>2. ASSUME sweep'[s] = sweep[s], \A m \in Messages : row[m] = s => row'[m] = s, ~CommitSweep(s)
      PROVE  row'[sweep'[s].at] = s /\ sweep'[s].at \notin wiped'
  <2>1. sweep[s].at \in Messages
    BY <1>2, SweepFields DEF TypeOK
  <2> QED
    BY <1>1, <1>2, <2>1 DEF SweepersHold
<1>3. ASSUME NEW w \in Writers, Steps(w)
      PROVE  row'[sweep'[s].at] = s /\ sweep'[s].at \notin wiped'
  <2>1. sweep' = sweep /\ \A m \in Messages : row[m] = s => row'[m] = s
    BY <1>3, StepsDoes
  <2>2. ~CommitSweep(s)
    BY <2>1, CommitSweepDoes, <1>0 DEF SweepIs
  <2> QED
    BY <1>2, <2>1, <2>2
<1>4. ASSUME NEW m \in Messages, Age(m)
      PROVE  row'[sweep'[s].at] = s /\ sweep'[s].at \notin wiped'
  BY <1>4 DEF Age, SweepersHold
<1>5. ASSUME NEW z \in Sweepers \ {s}, SweeperSteps(z)
      PROVE  row'[sweep'[s].at] = s /\ sweep'[s].at \notin wiped'
  <2>1. sweep'[s] = sweep[s] /\ \A m \in Messages : row[m] = s => row'[m] = s
    BY <1>5, SweeperStepsDoes
  <2>2. ~CommitSweep(s)
    BY <2>1, CommitSweepDoes, <1>0 DEF SweepIs
  <2> QED
    BY <1>2, <2>1, <2>2
<1>6. CASE SweeperSteps(s)
  <2>1. PICK m \in Messages : SweepRow(s, m)
    BY <1>6, ListOldDoes, CommitSweepDoes, AbortSweepDoes DEF SweeperSteps, SweepStep, SweepIs
  <2>2. /\ m \notin wiped /\ sweep'[s].at = m /\ row' = [row EXCEPT ![m] = s] /\ wiped' = wiped
    BY <2>1, SweepRowDoes DEF SweepIs, rowVars
  <2> QED
    BY <1>0, <2>2
<1> QED
  BY <1>3, <1>4, <1>5, <1>6 DEF Next, Steps, SweeperSteps

LEMMA BodiesKeep ==
  ASSUME TypeOK, WipedIsRecorded, DeletersKnow, SweepersHold, Next
  PROVE  WipedIsRecorded'
<1>0. retained \in [Messages -> Nat] /\ wiped \subseteq Messages /\ None \notin Messages
      /\ Archiving \in BOOLEAN
  BY NameAssumption, ArchivingAssumption DEF TypeOK
<1>1. ASSUME NEW w \in Writers, CommitDelete(w)
      PROVE  WipedIsRecorded'
  <2> DEFINE m == task[w].message
  <2>1. /\ m \in Messages /\ retained' = retained /\ deleted' = deleted \cup {m}
        /\ wiped' = wiped \cup {m}
        /\ archive' = IF task[w].found /\ Archiving THEN archive \cup {m} ELSE archive
        /\ ~task[w].found => m \in wiped
    BY <1>1, CommitDeleteDoes DEF DeletersKnow
  <2> HIDE DEF m
  <2> QED
    BY <1>0, <2>1 DEF WipedIsRecorded
<1>2. ASSUME NEW s \in Sweepers, CommitSweep(s)
      PROVE  WipedIsRecorded'
  <2> DEFINE m == sweep[s].at
  <2>1. /\ m \in Messages /\ wiped' = wiped \cup {m}
        /\ retained' = [retained EXCEPT ![m] = retained[m] + 1]
        /\ UNCHANGED <<deleted, archive>>
    BY <1>2, CommitSweepDoes
  <2>2. m \notin wiped
    BY <1>0, <2>1 DEF SweepersHold
  <2> HIDE DEF m
  <2>3. retained[m] = 0
    BY <1>0, <2>1, <2>2 DEF WipedIsRecorded
  <2>4. \A n \in Messages : retained'[n] = IF n = m THEN 1 ELSE retained[n]
    BY <1>0, <2>1, <2>3
  <2> QED
    BY <1>0, <2>1, <2>2, <2>4 DEF WipedIsRecorded
<1>3. CASE (\A w \in Writers : ~CommitDelete(w)) /\ (\A s \in Sweepers : ~CommitSweep(s))
  BY <1>3, BodiesWritten DEF WipedIsRecorded
<1> QED
  BY <1>1, <1>2, <1>3


-----------------------------------------------------------------------------
(* The store                                                               *)

LEMMA StoreBegins ==
  ASSUME Init
  PROVE  StoreInv
<1> USE DEF Init
<1>1. TypeOK
  BY NameAssumption DEF TypeOK, Task, NoTask, Sweep, NoSweep
<1>2. NumbersAreGapless
  <2>1. Rows = {} /\ \A m \in Messages : EditRows(m) = {}
    BY NameAssumption DEF Rows, EditRows
  <2>2. Dense({}, Cardinality({}))
    BY FS_EmptySet DEF Dense
  <2>3. {serial[m] : m \in Rows} = {} /\ \A m \in Messages : {editNo[e] : e \in EditRows(m)} = {}
    BY <2>1
  <2> QED
    BY <2>1, <2>2, <2>3 DEF NumbersAreGapless
<1>3. WipedIsRecorded
  BY DEF WipedIsRecorded
<1>4. \A w \in Writers : task[w].pc = "idle"
  BY DEF NoTask
<1>5. SendersApart /\ NumberedHolds /\ EditorsApart /\ PlacedHolds /\ DeletersKnow
  BY <1>4 DEF SendersApart, NumberedHolds, EditorsApart, PlacedHolds, DeletersKnow, Sending, Editing
<1>6. SweepersHold
  BY DEF SweepersHold, NoSweep
<1> QED
  BY <1>1, <1>2, <1>3, <1>5, <1>6 DEF StoreInv

LEMMA StoreKeeps ==
  ASSUME StoreInv, [Next]_vars
  PROVE  StoreInv'
<1>1. CASE Next
  BY <1>1, TypeKeeps, NumbersKeep, BodiesKeep, SendersKeep, NumberedKeep, EditorsKeep, PlacedKeep,
     DeletersKeep, SweepersKeep DEF StoreInv
<1>2. CASE UNCHANGED vars
  <2> USE <1>2 DEF vars, StoreInv
  <2>1. TypeOK'
    BY DEF TypeOK
  <2>2. NumbersAreGapless'
    BY DEF NumbersAreGapless, Dense, Rows, EditRows
  <2>3. WipedIsRecorded' /\ SweepersHold' /\ DeletersKnow'
    BY DEF WipedIsRecorded, SweepersHold, DeletersKnow
  <2>4. SendersApart' /\ EditorsApart'
    BY DEF SendersApart, EditorsApart, Rows
  <2>5. NumberedHolds' /\ PlacedHolds'
    BY DEF NumberedHolds, PlacedHolds, LastSerial, LastEditNo, EditRows
  <2> QED
    BY <2>1, <2>2, <2>3, <2>4, <2>5
<1> QED
  BY <1>1, <1>2

(* The inductive invariant of the store: the locks, the names and the row  *)
(* each request and sweep of a channel's messages holds.                   *)
THEOREM StoreInvariant == Spec => []StoreInv
<1>1. Init => StoreInv
  BY StoreBegins
<1>2. StoreInv /\ [Next]_vars => StoreInv'
  BY StoreKeeps
<1> QED
  BY <1>1, <1>2, PTL DEF Spec

(* The steps of a client change nothing of the store, and a broadcast is   *)
(* an answer.                                                              *)
LEMMA TimelineStoreStep ==
  ASSUME [TimelineNext]_allVars
  PROVE  [Next]_vars
BY DEF TimelineNext, allVars, StoreStep, Broadcast, Join, ListMessages, LoadEdits, PushHistory,
       Receive, Disconnect, Next

-----------------------------------------------------------------------------
(* The inductive invariant of the clients                                  *)

(* A request that is saved has its names, and a message that is sent is    *)
(* stored.                                                                 *)
SavedAreNamed ==
  \A w \in Writers :
    /\ task[w].pc = "sent" => task[w].message \in Rows
    /\ task[w].pc \in {"edited", "deleted"} => task[w].message \in Messages
    /\ task[w].pc = "edited" => task[w].edit \in Edits

(* The messages that are stored and still to be broadcast.                 *)
Unsent == {m \in Messages : \E w \in Writers : task[w].pc = "sent" /\ task[w].message = m}

(* What a client has, or is sent, are messages with a row.                 *)
OnlyIn(R, p) == \A m \in Messages : p[m] # Absent => m \in R

SendsOnly(R, q) ==
  \A i \in 1..Len(q) : /\ q[i].kind = "new" => q[i].message \in R
                       /\ q[i].kind = "history" => OnlyIn(R, q[i].page)

OnlyStored(R, p, q, v) == OnlyIn(R, p) /\ OnlyIn(R, v) /\ SendsOnly(R, q)

(* One history is pushed to a client, and not before it is in.             *)
NoHistoryAfter(q, i) == \A j \in 1..Len(q) : j > i => q[j].kind # "history"

OneHistory(at, q) ==
  /\ at # "in" => NoHistoryAfter(q, 0)
  /\ \A i \in 1..Len(q) : q[i].kind = "history" => NoHistoryAfter(q, i)

(* The client will show m: it does, and no history is to come; or the      *)
(* history that comes has it; or it comes, and no history after it.        *)
Brings(event, m) ==
  \/ event.kind = "history" /\ event.page[m] # Absent
  \/ event.kind = "new" /\ event.message = m

WillShow(v, q, m) ==
  \/ v[m] # Absent /\ NoHistoryAfter(q, 0)
  \/ \E i \in 1..Len(q) : NoHistoryAfter(q, i) /\ Brings(q[i], m)

(* A stored message is still to be broadcast, or in the history that is    *)
(* rendered, or will be shown, unless it has overtaken the history.        *)
NoneIsMissed(R, at, p, q, v) ==
  \A m \in Messages \cap R :
    /\ at \in {"listed", "rendered"} => p[m] # Absent
    /\ at = "in" => WillShow(v, q, m)

ClientsInv ==
  \A r \in Readers :
    /\ OnlyStored(Rows, page[r], wire[r], view[r])
    /\ OneHistory(reader[r], wire[r])
    /\ NoneIsMissed((Rows \ Unsent) \ raced[r], reader[r], page[r], wire[r], view[r])

TimelineInv == StoreInv /\ TimelineTypeOK /\ SavedAreNamed /\ ClientsInv

-----------------------------------------------------------------------------
(* Events under way                                                        *)

LEMMA Appended ==
  ASSUME NEW S, NEW q \in Seq(S), NEW e \in S
  PROVE  /\ Append(q, e) \in Seq(S) /\ Len(q) \in Nat /\ Len(Append(q, e)) = Len(q) + 1
         /\ \A i \in 1..Len(q) : Append(q, e)[i] = q[i]
         /\ Append(q, e)[Len(q) + 1] = e
OBVIOUS

LEMMA Shifted ==
  ASSUME NEW S, NEW q \in Seq(S), q # <<>>
  PROVE  /\ Tail(q) \in Seq(S) /\ Len(q) \in Nat \ {0} /\ Len(Tail(q)) = Len(q) - 1
         /\ Head(q) = q[1] /\ Head(q) \in S
         /\ \A i \in 1..(Len(q) - 1) : Tail(q)[i] = q[i + 1]
OBVIOUS

LEMMA AppendSends ==
  ASSUME NEW q \in Seq(Event), NEW e \in Event, NEW R, SendsOnly(R, q),
         e.kind = "new" => e.message \in R, e.kind = "history" => OnlyIn(R, e.page)
  PROVE  SendsOnly(R, Append(q, e))
<1> DEFINE t == Append(q, e)
<1>1. /\ Len(q) \in Nat /\ Len(t) = Len(q) + 1 /\ t[Len(q) + 1] = e
      /\ \A i \in 1..Len(q) : t[i] = q[i]
  BY Appended
<1> HIDE DEF t
<1>2. \A i \in 1..Len(t) : i \in 1..Len(q) \/ i = Len(q) + 1
  BY <1>1
<1>3. SendsOnly(R, t)
  BY <1>1, <1>2 DEF SendsOnly
<1> QED
  BY <1>3 DEF t

LEMMA AppendHistory ==
  ASSUME NEW q \in Seq(Event), NEW e \in Event
  PROVE  /\ \A i \in Nat : NoHistoryAfter(q, i) /\ e.kind # "history" => NoHistoryAfter(Append(q, e), i)
         /\ NoHistoryAfter(Append(q, e), Len(q) + 1)
<1> DEFINE t == Append(q, e)
<1>1. /\ Len(q) \in Nat /\ Len(t) = Len(q) + 1 /\ t[Len(q) + 1] = e
      /\ \A i \in 1..Len(q) : t[i] = q[i]
  BY Appended
<1> HIDE DEF t
<1>2. \A i \in 1..Len(t) : i \in 1..Len(q) \/ i = Len(q) + 1
  BY <1>1
<1>3. \A i \in Nat : NoHistoryAfter(q, i) /\ e.kind # "history" => NoHistoryAfter(t, i)
  BY <1>1, <1>2 DEF NoHistoryAfter
<1>4. NoHistoryAfter(t, Len(q) + 1)
  BY <1>1 DEF NoHistoryAfter
<1> QED
  BY <1>3, <1>4 DEF t

LEMMA AppendShows ==
  ASSUME NEW q \in Seq(Event), NEW e \in Event, NEW v, NEW m \in Messages,
         Brings(e, m) \/ (WillShow(v, q, m) /\ e.kind # "history")
  PROVE  WillShow(v, Append(q, e), m)
<1> DEFINE t == Append(q, e)
<1>1. /\ Len(q) \in Nat /\ Len(t) = Len(q) + 1 /\ t[Len(q) + 1] = e
      /\ \A i \in 1..Len(q) : t[i] = q[i]
  BY Appended
<1>2. /\ \A i \in Nat : NoHistoryAfter(q, i) /\ e.kind # "history" => NoHistoryAfter(t, i)
      /\ NoHistoryAfter(t, Len(q) + 1)
  BY AppendHistory
<1> HIDE DEF t
<1>3. Len(q) + 1 \in 1..Len(t) /\ \A i \in 1..Len(q) : i \in 1..Len(t) /\ i \in Nat
  BY <1>1
<1>4. CASE Brings(e, m)
  BY <1>1, <1>2, <1>3, <1>4 DEF WillShow, t
<1>5. CASE e.kind # "history" /\ v[m] # Absent /\ NoHistoryAfter(q, 0)
  BY <1>2, <1>5 DEF WillShow, t
<1>6. ASSUME NEW i \in 1..Len(q), e.kind # "history", NoHistoryAfter(q, i), Brings(q[i], m)
      PROVE  WillShow(v, Append(q, e), m)
  BY <1>1, <1>2, <1>3, <1>6 DEF WillShow, t
<1> QED
  BY <1>4, <1>5, <1>6 DEF WillShow

LEMMA TailHistory ==
  ASSUME NEW q \in Seq(Event), q # <<>>, NEW i \in Nat, NoHistoryAfter(q, i + 1)
  PROVE  NoHistoryAfter(Tail(q), i)
<1> DEFINE t == Tail(q)
<1>1. /\ Len(q) \in Nat \ {0} /\ Len(t) = Len(q) - 1
      /\ \A j \in 1..(Len(q) - 1) : t[j] = q[j + 1]
  BY Shifted
<1> HIDE DEF t
<1>2. ASSUME NEW j \in 1..Len(t), j > i
      PROVE  t[j].kind # "history"
  <2>1. j + 1 \in 1..Len(q) /\ j + 1 > i + 1 /\ t[j] = q[j + 1]
    BY <1>1, <1>2
  <2> QED
    BY <2>1 DEF NoHistoryAfter
<1> QED
  BY <1>2 DEF NoHistoryAfter, t

LEMMA TailSends ==
  ASSUME NEW q \in Seq(Event), q # <<>>, NEW R, SendsOnly(R, q)
  PROVE  SendsOnly(R, Tail(q))
<1> DEFINE t == Tail(q)
<1>1. /\ Len(q) \in Nat \ {0} /\ Len(t) = Len(q) - 1
      /\ \A j \in 1..(Len(q) - 1) : t[j] = q[j + 1]
  BY Shifted
<1> HIDE DEF t
<1>2. \A j \in 1..Len(t) : j + 1 \in 1..Len(q) /\ t[j] = q[j + 1]
  BY <1>1
<1>3. SendsOnly(R, t)
  BY <1>2 DEF SendsOnly
<1> QED
  BY <1>3 DEF t

-----------------------------------------------------------------------------
(* The client's store                                                      *)

LEMMA EventFields ==
  ASSUME NEW e \in Event
  PROVE  \/ /\ e.kind \in {"new", "edited", "deleted"} /\ e.message \in Messages
            /\ e.body \in Messages \cup Edits \cup {None} /\ e.body # Absent
         \/ e.kind = "history" /\ e.page \in Page
BY AbsentAssumption DEF Event

(* Only history hides a message that is shown, and only history and new    *)
(* messages show one.                                                      *)
LEMMA AppliedShows ==
  ASSUME NEW v \in Page, NEW e \in Event
  PROVE  /\ Applied(v, e) \in Page
         /\ e.kind = "history" => Applied(v, e) = e.page
         /\ e.kind # "history" => \A m \in Messages :
              Applied(v, e)[m] # Absent <=> v[m] # Absent \/ Brings(e, m)
<1>1. CASE e.kind = "history"
  BY <1>1, EventFields DEF Applied
<1>2. CASE e.kind = "new"
  <2>0. e.message \in Messages /\ e.body \in Messages \cup Edits \cup {None} /\ e.body # Absent
    BY <1>2, EventFields
  <2>1. CASE v[e.message] = Absent
    <3>1. Applied(v, e) = [v EXCEPT ![e.message] = e.body]
      BY <1>2, <2>1 DEF Applied
    <3> QED
      BY <1>2, <2>0, <3>1 DEF Page, Brings
  <2>2. CASE v[e.message] # Absent
    <3>1. Applied(v, e) = v
      BY <1>2, <2>2 DEF Applied
    <3> QED
      BY <1>2, <2>2, <3>1 DEF Brings
  <2> QED
    BY <2>1, <2>2
<1>3. CASE e.kind \in {"edited", "deleted"}
  <2>0. e.message \in Messages /\ e.body \in Messages \cup Edits \cup {None} /\ e.body # Absent
    BY <1>3, EventFields
  <2>1. CASE v[e.message] # Absent
    <3>1. Applied(v, e) = [v EXCEPT ![e.message] = e.body]
      BY <1>3, <2>1 DEF Applied
    <3> QED
      BY <1>3, <2>0, <2>1, <3>1 DEF Page, Brings
  <2>2. CASE v[e.message] = Absent
    <3>1. Applied(v, e) = v
      BY <1>3, <2>2 DEF Applied
    <3> QED
      BY <1>3, <3>1 DEF Brings
  <2> QED
    BY <2>1, <2>2
<1> QED
  BY <1>1, <1>2, <1>3, EventFields

(* The client takes the first event, and will show what it would have.     *)
LEMMA TakenShows ==
  ASSUME NEW v \in Page, NEW q \in Seq(Event), q # <<>>, NEW m \in Messages, WillShow(v, q, m)
  PROVE  WillShow(Applied(v, Head(q)), Tail(q), m)
<1>0. /\ Len(q) \in Nat \ {0} /\ Head(q) = q[1] /\ Head(q) \in Event
      /\ Len(Tail(q)) = Len(q) - 1 /\ \A j \in 1..(Len(q) - 1) : Tail(q)[j] = q[j + 1]
  BY Shifted
<1>1. CASE v[m] # Absent /\ NoHistoryAfter(q, 0)
  <2>1. Head(q).kind # "history" /\ NoHistoryAfter(q, 1)
    BY <1>0, <1>1 DEF NoHistoryAfter
  <2>2. NoHistoryAfter(Tail(q), 0)
    BY <2>1, TailHistory
  <2>3. Applied(v, Head(q))[m] # Absent
    BY <1>0, <1>1, <2>1, AppliedShows
  <2> QED
    BY <2>2, <2>3 DEF WillShow
<1>2. CASE NoHistoryAfter(q, 1) /\ Brings(q[1], m)
  <2>1. NoHistoryAfter(Tail(q), 0)
    BY <1>2, TailHistory
  <2>2. Applied(v, Head(q))[m] # Absent
    BY <1>0, <1>2, AppliedShows DEF Brings
  <2> QED
    BY <2>1, <2>2 DEF WillShow
<1>3. ASSUME NEW i \in 2..Len(q), NoHistoryAfter(q, i), Brings(q[i], m)
      PROVE  WillShow(Applied(v, Head(q)), Tail(q), m)
  <2>1. i - 1 \in Nat /\ (i - 1) + 1 = i /\ i - 1 \in 1..Len(Tail(q)) /\ Tail(q)[i - 1] = q[i]
    BY <1>0
  <2>2. NoHistoryAfter(Tail(q), i - 1)
    BY <1>3, <2>1, TailHistory
  <2> QED
    BY <1>3, <2>1, <2>2 DEF WillShow
<1>4. \A i \in 1..Len(q) : i = 1 \/ i \in 2..Len(q)
  BY <1>0
<1> QED
  BY <1>1, <1>2, <1>3, <1>4 DEF WillShow

-----------------------------------------------------------------------------
(* What the store does to its clients                                      *)

LEMMA RowsGrow ==
  ASSUME StoreInv, Next
  PROVE  /\ Rows \subseteq Rows'
         /\ \A m \in Rows' \ Rows : \E w \in Writers : task'[w].pc = "sent" /\ task'[w].message = m
<1>1. ASSUME NEW w \in Writers, CommitSend(w)
      PROVE  /\ Rows' = Rows \cup {task'[w].message} /\ task'[w].pc = "sent"
  BY <1>1, CommitSendRows, CommitSendDoes DEF StoreInv, Goes, TaskIs
<1>2. CASE \A w \in Writers : ~CommitSend(w)
  BY <1>2, SerialWritten DEF Rows
<1> QED
  BY <1>1, <1>2

LEMMA SavedKeep ==
  ASSUME StoreInv, SavedAreNamed, Next
  PROVE  SavedAreNamed'
<1> SUFFICES ASSUME NEW v \in Writers
             PROVE  /\ task'[v].pc = "sent" => task'[v].message \in Rows'
                    /\ task'[v].pc \in {"edited", "deleted"} => task'[v].message \in Messages
                    /\ task'[v].pc = "edited" => task'[v].edit \in Edits
  BY DEF SavedAreNamed
<1>1. CASE Stays(v)
  BY <1>1, RowsGrow DEF Stays, SavedAreNamed
<1>2. CASE Steps(v)
  <2>1. CASE CommitSend(v)
    BY <2>1, CommitSendRows, CommitSendDoes DEF StoreInv, Goes, TaskIs
  <2>2. CASE CommitEdit(v)
    BY <2>2, CommitEditRows, CommitEditDoes DEF StoreInv, Goes, TaskIs
  <2>3. CASE CommitDelete(v)
    BY <2>3, CommitDeleteDoes DEF StoreInv, DeletersKnow, Goes, TaskIs
  <2> QED
    BY <1>2, <2>1, <2>2, <2>3, Arrives DEF StoreInv
<1> QED
  BY <1>1, <1>2, StaysOrSteps DEF StoreInv

(* Only the broadcast ends a request that has been saved.                  *)
LEMMA UnsentStays ==
  ASSUME StoreInv, StoreStep, NEW v \in Writers, task[v].pc = "sent"
  PROVE  task'[v] = task[v]
<1>0. TypeOK /\ NumbersAreGapless /\ EditorsApart
  BY DEF StoreInv
<1>1. ASSUME NEW w \in Writers, Request(w) \/ WriteStep(w) \/ AbortWrite(w)
      PROVE  task'[v] = task[v]
  <2>1. task[w].pc # "sent"
    BY <1>1 DEF Request, WriteStep, BeginSend, TakeSerial, CommitSend, BeginEdit, TakeEditSerial,
       CommitEdit, BeginDelete, ReadBody, WipeBody, CommitDelete, AbortWrite
  <2> QED
    BY <1>0, <1>1, <2>1, StepsDoes DEF Steps, Stays
<1>2. ASSUME NEW m \in Messages, Age(m)
      PROVE  task'[v] = task[v]
  BY <1>2 DEF Age
<1>3. ASSUME NEW s \in Sweepers, SweeperSteps(s)
      PROVE  task'[v] = task[v]
  BY <1>0, <1>3, SweeperStepsDoes
<1> QED
  BY <1>1, <1>2, <1>3 DEF StoreStep, SweeperSteps

(* The messages that a client could have missed stay the same or become    *)
(* fewer.                                                                  *)
LEMMA StoreStepDoes ==
  ASSUME StoreInv, StoreStep
  PROVE  /\ UNCHANGED <<reader, page, wire, view, raced>>
         /\ Rows \subseteq Rows' /\ Rows' \ Unsent' \subseteq Rows \ Unsent
<1>1. Next /\ UNCHANGED <<reader, page, wire, view, raced>>
  BY DEF StoreStep, Next, readerVars
<1>2. Rows' \subseteq Messages
  BY DEF Rows
<1>3. Unsent \subseteq Unsent'
  BY UnsentStays DEF Unsent
<1>4. Rows' \ Rows \subseteq Unsent'
  BY <1>1, <1>2, RowsGrow DEF Unsent
<1> QED
  BY <1>1, <1>3, <1>4, RowsGrow

LEMMA ShownIsEdit ==
  ASSUME TypeOK, NumbersAreGapless, NEW m \in Messages, EditRows(m) # {}
  PROVE  Shown(m) \in EditRows(m)
<1>1. /\ IsFiniteSet(EditRows(m)) /\ Cardinality(EditRows(m)) \in Nat
      /\ editNo \in [Edits -> Nat] /\ EditRows(m) \subseteq Edits
      /\ {editNo[e] : e \in EditRows(m)} = 1..Cardinality(EditRows(m))
  BY RowsFinite DEF TypeOK, NumbersAreGapless, Dense, EditRows
<1>2. Cardinality(EditRows(m)) # 0
  BY <1>1, FS_EmptySet
<1>3. PICK e \in EditRows(m) : editNo[e] = Cardinality(EditRows(m))
  BY <1>1, <1>2
<1>4. \A f \in EditRows(m) : editNo[f] <= editNo[e]
  BY <1>1, <1>3
<1> QED
  BY <1>3, <1>4 DEF Shown

LEMMA EventIsNamed ==
  ASSUME StoreInv, SavedAreNamed, NEW w \in Writers, task[w].pc \in Saved
  PROVE  /\ EventOf(w) \in Event /\ EventOf(w).kind # "history"
         /\ EventOf(w).kind = "new" => EventOf(w).message \in Rows
         /\ task[w].pc = "sent" => EventOf(w).kind = "new" /\ EventOf(w).message = task[w].message
<1>0. Rows \subseteq Messages
  BY DEF Rows
<1>1. CASE task[w].pc = "sent"
  BY <1>0, <1>1 DEF EventOf, Event, SavedAreNamed
<1>2. CASE task[w].pc = "edited"
  BY <1>2 DEF EventOf, Event, SavedAreNamed
<1>3. CASE task[w].pc = "deleted"
  BY <1>3 DEF EventOf, Event, SavedAreNamed
<1> QED
  BY <1>1, <1>2, <1>3 DEF Saved

LEMMA BroadcastDoes ==
  ASSUME StoreInv, SavedAreNamed, NEW w \in Writers, Broadcast(w)
  PROVE  /\ EventOf(w) \in Event /\ EventOf(w).kind # "history"
         /\ EventOf(w).kind = "new" => EventOf(w).message \in Rows
         /\ Rows' = Rows /\ \A m \in Unsent : m \in Unsent' \/ Brings(EventOf(w), m)
<1>1. /\ task[w].pc \in Saved /\ serial' = serial /\ \A v \in Writers \ {w} : task'[v] = task[v]
  BY AnswerDoes DEF Broadcast, StoreInv, TaskIs, rowVars
<1>2. Rows' = Rows
  BY <1>1 DEF Rows
<1>3. \A m \in Unsent : m \in Unsent' \/ (task[w].pc = "sent" /\ task[w].message = m)
  BY <1>1 DEF Unsent
<1> QED
  BY <1>1, <1>2, <1>3, EventIsNamed DEF Brings

-----------------------------------------------------------------------------
(* The invariant is kept                                                   *)

LEMMA ClientStays ==
  ASSUME NEW R, NEW S, R \subseteq S, NEW p, NEW q, NEW v, NEW at
  PROVE  /\ OnlyStored(R, p, q, v) => OnlyStored(S, p, q, v)
         /\ NoneIsMissed(S, at, p, q, v) => NoneIsMissed(R, at, p, q, v)
BY DEF OnlyStored, OnlyIn, SendsOnly, NoneIsMissed

LEMMA StoreStepKeeps ==
  ASSUME TimelineInv, StoreStep
  PROVE  TimelineTypeOK' /\ ClientsInv'
<1>1. /\ UNCHANGED <<reader, page, wire, view, raced>>
      /\ Rows \subseteq Rows' /\ Rows' \ Unsent' \subseteq Rows \ Unsent
  BY StoreStepDoes DEF TimelineInv
<1>2. TimelineTypeOK'
  BY <1>1 DEF TimelineInv, TimelineTypeOK
<1>3. ASSUME NEW r \in Readers
      PROVE  /\ OnlyStored(Rows', page[r], wire[r], view[r]) /\ OneHistory(reader[r], wire[r])
             /\ NoneIsMissed((Rows' \ Unsent') \ raced[r], reader[r], page[r], wire[r], view[r])
  BY <1>1, ClientStays DEF TimelineInv, ClientsInv
<1> QED
  BY <1>1, <1>2, <1>3 DEF ClientsInv

LEMMA BroadcastKeeps ==
  ASSUME TimelineInv, NEW w \in Writers, Broadcast(w)
  PROVE  TimelineTypeOK' /\ ClientsInv'
<1> DEFINE e == EventOf(w)
<1>1. /\ e \in Event /\ e.kind # "history"
      /\ e.kind = "new" => e.message \in Rows
      /\ Rows' = Rows /\ \A m \in Unsent : m \in Unsent' \/ Brings(e, m)
  BY BroadcastDoes DEF TimelineInv
<1>2. /\ UNCHANGED <<reader, page, view>>
      /\ \A r \in Readers : Len(wire[r]) < MaxWire
      /\ wire' = [r \in Readers |-> IF reader[r] = "out" THEN wire[r] ELSE Append(wire[r], e)]
      /\ raced' = [r \in Readers |->
                     IF Overtakes(r, e) THEN raced[r] \cup {e.message} ELSE raced[r]]
  BY DEF Broadcast
<1> HIDE DEF e
<1>3. /\ wire \in [Readers -> Seq(Event)] /\ raced \in [Readers -> SUBSET Messages]
      /\ \A r \in Readers : Len(wire[r]) <= MaxWire
  BY DEF TimelineInv, TimelineTypeOK
<1>4. ASSUME NEW r \in Readers, reader[r] # "out"
      PROVE  /\ wire'[r] = Append(wire[r], e) /\ wire'[r] \in Seq(Event) /\ Len(wire'[r]) <= MaxWire
             /\ Len(wire[r]) \in Nat /\ Len(wire'[r]) = Len(wire[r]) + 1
             /\ \A i \in 1..Len(wire[r]) : wire'[r][i] = wire[r][i]
             /\ wire'[r][Len(wire[r]) + 1] = e
  BY <1>1, <1>2, <1>3, <1>4, Appended, BoundAssumption
<1>5. ASSUME NEW r \in Readers, reader[r] = "out"
      PROVE  wire'[r] = wire[r]
  BY <1>2, <1>5
<1>6. TimelineTypeOK'
  <2>1. wire' \in [Readers -> Seq(Event)] /\ \A r \in Readers : Len(wire'[r]) <= MaxWire
    BY <1>2, <1>3, <1>4, <1>5
  <2>2. raced' \in [Readers -> SUBSET Messages]
    <3>1. e.kind = "new" => e.message \in Messages
      BY <1>1 DEF Event
    <3> QED
      BY <1>2, <1>3, <3>1 DEF Overtakes
  <2> QED
    BY <1>2, <2>1, <2>2 DEF TimelineInv, TimelineTypeOK
<1>7. ASSUME NEW r \in Readers
      PROVE  /\ OnlyStored(Rows, page[r], wire'[r], view[r]) /\ OneHistory(reader[r], wire'[r])
             /\ NoneIsMissed((Rows \ Unsent') \ raced'[r], reader[r], page[r], wire'[r], view[r])
  <2>0. /\ OnlyStored(Rows, page[r], wire[r], view[r]) /\ OneHistory(reader[r], wire[r])
        /\ NoneIsMissed((Rows \ Unsent) \ raced[r], reader[r], page[r], wire[r], view[r])
    BY DEF TimelineInv, ClientsInv
  <2>1. CASE reader[r] = "out"
    BY <1>5, <2>0, <2>1 DEF NoneIsMissed
  <2>2. CASE reader[r] # "out"
    <3>0. wire[r] \in Seq(Event) /\ wire'[r] = Append(wire[r], e) /\ e \in Event
      BY <1>1, <1>3, <1>4, <2>2
    <3>1. SendsOnly(Rows, wire'[r])
      BY <1>1, <3>0, <2>0, AppendSends DEF OnlyStored
    <3>2. \A i \in Nat : NoHistoryAfter(wire[r], i) => NoHistoryAfter(Append(wire[r], e), i)
      BY <1>1, <3>0, AppendHistory
    <3>3. \A i \in 1..Len(wire'[r]) : wire'[r][i].kind = "history" =>
            i \in 1..Len(wire[r]) /\ wire[r][i].kind = "history"
      BY <1>1, <1>4, <2>2
    <3>4. OneHistory(reader[r], wire'[r])
      BY <2>0, <3>0, <3>2, <3>3, <1>4, <2>2 DEF OneHistory
    <3>5. ASSUME reader[r] = "in", NEW m \in Messages \cap ((Rows \ Unsent') \ raced'[r])
          PROVE  WillShow(view[r], wire'[r], m)
      <4>1. Brings(e, m) \/ WillShow(view[r], wire[r], m)
        BY <1>1, <1>2, <1>3, <2>0, <3>5 DEF NoneIsMissed
      <4> QED
        BY <1>1, <3>0, <4>1, AppendShows
    <3>6. ASSUME reader[r] \in {"listed", "rendered"},
                 NEW m \in Messages \cap ((Rows \ Unsent') \ raced'[r])
          PROVE  page[r][m] # Absent
      <4>1. CASE m \in Unsent
        BY <1>1, <1>2, <3>6, <4>1 DEF Overtakes, Brings
      <4>2. CASE m \notin Unsent
        BY <1>2, <2>0, <3>6, <4>2 DEF NoneIsMissed
      <4> QED
        BY <4>1, <4>2
    <3> QED
      BY <2>0, <3>1, <3>4, <3>5, <3>6 DEF OnlyStored, NoneIsMissed
  <2> QED
    BY <2>1, <2>2
<1> QED
  BY <1>1, <1>2, <1>6, <1>7 DEF ClientsInv

(* A step of the client or its channel process: the others stay, and the   *)
(* store.                                                                  *)
ClientSteps(r) ==
  Join(r) \/ ListMessages(r) \/ LoadEdits(r) \/ PushHistory(r) \/ Receive(r) \/ Disconnect(r)

LEMMA ClientStepDoes ==
  ASSUME TimelineTypeOK, NEW r \in Readers, ClientSteps(r)
  PROVE  /\ Rows' = Rows /\ Unsent' = Unsent
         /\ \A z \in Readers \ {r} : /\ reader'[z] = reader[z] /\ page'[z] = page[z]
                                     /\ wire'[z] = wire[z] /\ view'[z] = view[z]
                                     /\ raced'[z] = raced[z]
<1>1. serial' = serial /\ task' = task
  BY DEF ClientSteps, Join, ListMessages, LoadEdits, PushHistory, Receive, Disconnect, vars
<1>2. \A z \in Readers \ {r} : reader'[z] = reader[z] /\ raced'[z] = raced[z]
  BY DEF TimelineTypeOK, ClientSteps, Join, ListMessages, LoadEdits, PushHistory, Receive, Disconnect
<1>3. \A z \in Readers \ {r} : page'[z] = page[z] /\ view'[z] = view[z]
  BY DEF TimelineTypeOK, ClientSteps, Join, ListMessages, LoadEdits, PushHistory, Receive, Disconnect
<1>4. \A z \in Readers \ {r} : wire'[z] = wire[z]
  BY DEF TimelineTypeOK, ClientSteps, Join, ListMessages, LoadEdits, PushHistory, Receive, Disconnect
<1> QED
  BY <1>1, <1>2, <1>3, <1>4 DEF Rows, Unsent

LEMMA ListedPage ==
  ASSUME TypeOK, TimelineTypeOK, NEW r \in Readers, ListMessages(r)
  PROVE  /\ page' = [page EXCEPT ![r] = page'[r]] /\ page'[r] \in Page
         /\ \A m \in Messages : page'[r][m] # Absent <=> m \in Rows
<1> DEFINE p == [m \in Messages |-> IF m \notin Rows THEN Absent ELSE IF m \in wiped THEN None ELSE m]
<1>1. page' = [page EXCEPT ![r] = p] /\ page \in [Readers -> Page]
  BY DEF ListMessages, TimelineTypeOK
<1>2. p \in Page /\ \A m \in Messages : p[m] # Absent <=> m \in Rows
  BY AbsentAssumption DEF Page
<1> HIDE DEF p
<1> QED
  BY <1>1, <1>2

LEMMA LoadedPage ==
  ASSUME TypeOK, NumbersAreGapless, TimelineTypeOK, NEW r \in Readers, LoadEdits(r)
  PROVE  /\ page' = [page EXCEPT ![r] = page'[r]] /\ page'[r] \in Page
         /\ \A m \in Messages : page'[r][m] # Absent <=> page[r][m] # Absent
<1> DEFINE p == [m \in Messages |->
                   IF page[r][m] # Absent /\ EditRows(m) # {} THEN Shown(m) ELSE page[r][m]]
<1>1. page' = [page EXCEPT ![r] = p] /\ page \in [Readers -> Page]
  BY DEF LoadEdits, TimelineTypeOK
<1>2. \A m \in Messages : EditRows(m) # {} => Shown(m) \in Edits
  BY ShownIsEdit DEF EditRows
<1>3. p \in Page /\ \A m \in Messages : p[m] # Absent <=> page[r][m] # Absent
  <2>1. page[r] \in Page
    BY <1>1
  <2>2. \A m \in Messages : p[m] \in Messages \cup Edits \cup {None, Absent}
    BY <1>2, <2>1 DEF Page
  <2>3. \A m \in Messages : p[m] # Absent <=> page[r][m] # Absent
    BY <1>2, AbsentAssumption
  <2> QED
    BY <2>2, <2>3 DEF Page
<1> HIDE DEF p
<1> QED
  BY <1>1, <1>3

LEMMA ClientTypeKeeps ==
  ASSUME TypeOK, NumbersAreGapless, TimelineTypeOK, NEW r \in Readers, ClientSteps(r)
  PROVE  TimelineTypeOK'
<1> USE DEF TimelineTypeOK
<1>0. NoPage \in Page
  BY DEF NoPage, Page
<1>1. CASE Join(r)
  BY <1>1 DEF Join
<1>2. CASE ListMessages(r)
  <2>1. page' \in [Readers -> Page]
    BY <1>2, ListedPage
  <2> QED
    BY <1>2, <2>1 DEF ListMessages
<1>3. CASE LoadEdits(r)
  <2>1. page' \in [Readers -> Page]
    BY <1>3, LoadedPage
  <2> QED
    BY <1>3, <2>1 DEF LoadEdits
<1>4. CASE PushHistory(r)
  <2> DEFINE e == [kind |-> "history", page |-> page[r]]
  <2>1. e \in Event
    BY DEF Event
  <2>2. wire' = [wire EXCEPT ![r] = Append(wire[r], e)] /\ Len(wire[r]) < MaxWire
    BY <1>4 DEF PushHistory
  <2> HIDE DEF e
  <2>3. /\ Append(wire[r], e) \in Seq(Event) /\ Len(Append(wire[r], e)) = Len(wire[r]) + 1
        /\ Len(wire[r]) \in Nat
    BY <2>1, Appended
  <2>4. wire' \in [Readers -> Seq(Event)] /\ \A z \in Readers : Len(wire'[z]) <= MaxWire
    BY <2>2, <2>3, BoundAssumption
  <2> QED
    BY <1>4, <2>4 DEF PushHistory
<1>5. CASE Receive(r)
  <2>1. /\ Tail(wire[r]) \in Seq(Event) /\ Len(Tail(wire[r])) = Len(wire[r]) - 1
        /\ Len(wire[r]) \in Nat /\ Head(wire[r]) \in Event
    BY <1>5, Shifted DEF Receive
  <2>2. wire' = [wire EXCEPT ![r] = Tail(wire[r])]
    BY <1>5 DEF Receive
  <2>3. wire' \in [Readers -> Seq(Event)] /\ \A z \in Readers : Len(wire'[z]) <= MaxWire
    BY <2>1, <2>2, BoundAssumption
  <2>4. Applied(view[r], Head(wire[r])) \in Page
    BY <2>1, AppliedShows
  <2>5. view' = [view EXCEPT ![r] = Applied(view[r], Head(wire[r]))]
    BY <1>5 DEF Receive
  <2> QED
    BY <1>5, <2>3, <2>4, <2>5 DEF Receive
<1>6. CASE Disconnect(r)
  <2>1. /\ <<>> \in Seq(Event) /\ Len(<<>>) = 0
        /\ wire' = [wire EXCEPT ![r] = <<>>] /\ page' = [page EXCEPT ![r] = NoPage]
    BY <1>6 DEF Disconnect
  <2>2. wire' \in [Readers -> Seq(Event)] /\ \A z \in Readers : Len(wire'[z]) <= MaxWire
    BY <2>1, BoundAssumption
  <2> QED
    BY <1>0, <1>6, <2>1, <2>2 DEF Disconnect
<1> QED
  BY <1>1, <1>2, <1>3, <1>4, <1>5, <1>6 DEF ClientSteps

(* What one step of a client does to its own part of the invariant.        *)
LEMMA ClientServed ==
  ASSUME TimelineInv, NEW r \in Readers, ClientSteps(r)
  PROVE  /\ OnlyStored(Rows, page'[r], wire'[r], view'[r])
         /\ OneHistory(reader'[r], wire'[r])
         /\ NoneIsMissed((Rows \ Unsent) \ raced'[r], reader'[r], page'[r], wire'[r], view'[r])
<1>1. /\ OnlyStored(Rows, page[r], wire[r], view[r]) /\ OneHistory(reader[r], wire[r])
      /\ NoneIsMissed((Rows \ Unsent) \ raced[r], reader[r], page[r], wire[r], view[r])
      /\ TypeOK /\ NumbersAreGapless /\ TimelineTypeOK
  BY DEF TimelineInv, ClientsInv, StoreInv
<1>2. /\ wire[r] \in Seq(Event) /\ page[r] \in Page /\ view[r] \in Page
      /\ wire \in [Readers -> Seq(Event)] /\ page \in [Readers -> Page] /\ view \in [Readers -> Page]
      /\ reader \in [Readers -> {"out", "joined", "listed", "rendered", "in"}]
      /\ raced \in [Readers -> SUBSET Messages]
  BY <1>1 DEF TimelineTypeOK
<1>3. CASE Join(r)
  <2>1. /\ reader[r] = "out" /\ reader'[r] = "joined" /\ page'[r] = page[r]
        /\ wire'[r] = wire[r] /\ view'[r] = view[r]
    BY <1>2, <1>3 DEF Join
  <2> QED
    BY <1>1, <2>1 DEF OneHistory, NoneIsMissed
<1>4. CASE ListMessages(r)
  <2>1. /\ reader[r] = "joined" /\ reader'[r] = "listed" /\ wire'[r] = wire[r] /\ view'[r] = view[r]
    BY <1>2, <1>4 DEF ListMessages
  <2>2. \A m \in Messages : page'[r][m] # Absent <=> m \in Rows
    BY <1>1, <1>4, ListedPage
  <2> QED
    BY <1>1, <2>1, <2>2 DEF OnlyStored, OnlyIn, OneHistory, NoneIsMissed
<1>5. CASE LoadEdits(r)
  <2>1. /\ reader[r] = "listed" /\ reader'[r] = "rendered" /\ wire'[r] = wire[r]
        /\ view'[r] = view[r] /\ raced'[r] = raced[r]
    BY <1>2, <1>5 DEF LoadEdits
  <2>2. \A m \in Messages : page'[r][m] # Absent <=> page[r][m] # Absent
    BY <1>1, <1>5, LoadedPage
  <2> QED
    BY <1>1, <2>1, <2>2 DEF OnlyStored, OnlyIn, OneHistory, NoneIsMissed
<1>6. CASE PushHistory(r)
  <2> DEFINE e == [kind |-> "history", page |-> page[r]]
  <2>1. e \in Event /\ e.kind = "history" /\ e.page = page[r]
    BY <1>2 DEF Event
  <2>2. /\ reader[r] = "rendered" /\ reader'[r] = "in" /\ page'[r] = page[r]
        /\ view'[r] = view[r] /\ raced'[r] = raced[r] /\ wire'[r] = Append(wire[r], e)
    BY <1>2, <1>6 DEF PushHistory
  <2> HIDE DEF e
  <2>3. SendsOnly(Rows, wire'[r])
    BY <1>1, <1>2, <2>1, <2>2, AppendSends DEF OnlyStored
  <2>4. /\ Len(wire[r]) \in Nat /\ Len(wire'[r]) = Len(wire[r]) + 1
        /\ \A i \in 1..Len(wire[r]) : wire'[r][i] = wire[r][i]
    BY <1>2, <2>1, <2>2, Appended
  <2>5. NoHistoryAfter(wire'[r], Len(wire[r]) + 1)
    BY <1>2, <2>1, <2>2, AppendHistory
  <2>6. OneHistory("in", wire'[r])
    <3>1. \A i \in 1..Len(wire[r]) : wire[r][i].kind # "history"
      BY <1>1, <2>2, <2>4 DEF OneHistory, NoHistoryAfter
    <3>2. \A i \in 1..Len(wire'[r]) : i \in 1..Len(wire[r]) \/ i = Len(wire[r]) + 1
      BY <2>4
    <3> QED
      BY <2>4, <2>5, <3>1, <3>2 DEF OneHistory
  <2>7. ASSUME NEW m \in Messages \cap ((Rows \ Unsent) \ raced[r])
        PROVE  WillShow(view[r], wire'[r], m)
    <3>1. Brings(e, m)
      BY <1>1, <2>1, <2>2, <2>7 DEF NoneIsMissed, Brings
    <3> QED
      BY <1>2, <2>1, <2>2, <3>1, AppendShows
  <2> QED
    BY <1>1, <2>2, <2>3, <2>6, <2>7 DEF OnlyStored, NoneIsMissed
<1>7. CASE Receive(r)
  <2> DEFINE e == Head(wire[r])
  <2>1. /\ wire[r] # <<>> /\ wire'[r] = Tail(wire[r]) /\ view'[r] = Applied(view[r], e)
        /\ reader'[r] = reader[r] /\ page'[r] = page[r] /\ raced'[r] = raced[r]
    BY <1>2, <1>7 DEF Receive
  <2>2. /\ e \in Event /\ e = wire[r][1] /\ Len(wire[r]) \in Nat \ {0}
        /\ Len(wire'[r]) = Len(wire[r]) - 1
        /\ \A i \in 1..(Len(wire[r]) - 1) : wire'[r][i] = wire[r][i + 1]
    BY <1>2, <2>1, Shifted
  <2>3. SendsOnly(Rows, wire'[r])
    BY <1>1, <1>2, <2>1, TailSends DEF OnlyStored
  <2>4. OnlyIn(Rows, view'[r])
    <3>0. /\ e.kind = "new" => e.message \in Rows
          /\ e.kind = "history" => OnlyIn(Rows, e.page)
      BY <1>1, <2>2 DEF OnlyStored, SendsOnly
    <3>1. CASE e.kind = "history"
      BY <1>2, <2>1, <2>2, <3>0, <3>1, AppliedShows
    <3>2. CASE e.kind # "history"
      <4>1. \A m \in Messages : view'[r][m] # Absent <=> view[r][m] # Absent \/ Brings(e, m)
        BY <1>2, <2>1, <2>2, <3>2, AppliedShows
      <4> QED
        BY <1>1, <3>0, <3>2, <4>1 DEF OnlyStored, OnlyIn, Brings
    <3> QED
      BY <3>1, <3>2
  <2>5. OneHistory(reader[r], wire'[r])
    <3>1. reader[r] # "in" => NoHistoryAfter(wire'[r], 0)
      <4>1. NoHistoryAfter(wire[r], 0) => NoHistoryAfter(wire[r], 1)
        BY DEF NoHistoryAfter
      <4> QED
        BY <1>1, <1>2, <2>1, <4>1, TailHistory DEF OneHistory
    <3>2. ASSUME NEW i \in 1..Len(wire'[r]), wire'[r][i].kind = "history"
          PROVE  NoHistoryAfter(wire'[r], i)
      <4>1. i \in Nat /\ i + 1 \in 1..Len(wire[r]) /\ wire[r][i + 1].kind = "history"
        BY <2>2, <3>2
      <4>2. NoHistoryAfter(wire[r], i + 1)
        BY <1>1, <4>1 DEF OneHistory
      <4> QED
        BY <1>2, <2>1, <4>1, <4>2, TailHistory
    <3> QED
      BY <3>1, <3>2 DEF OneHistory
  <2>6. ASSUME NEW m \in Messages, WillShow(view[r], wire[r], m)
        PROVE  WillShow(view'[r], wire'[r], m)
    BY <1>2, <2>1, <2>6, TakenShows
  <2> HIDE DEF e
  <2> QED
    BY <1>1, <2>1, <2>3, <2>4, <2>5, <2>6 DEF OnlyStored, NoneIsMissed
<1>8. CASE Disconnect(r)
  <2>1. /\ reader'[r] = "out" /\ wire'[r] = <<>> /\ page'[r] = NoPage /\ view'[r] = view[r]
    BY <1>2, <1>8 DEF Disconnect
  <2>2. Len(<<>>) = 0 /\ 1..0 = {}
    OBVIOUS
  <2>3. SendsOnly(Rows, wire'[r]) /\ OneHistory(reader'[r], wire'[r])
    BY <2>1, <2>2 DEF SendsOnly, OneHistory, NoHistoryAfter
  <2>4. OnlyIn(Rows, page'[r])
    BY <2>1 DEF OnlyIn, NoPage
  <2> QED
    BY <1>1, <2>1, <2>3, <2>4 DEF OnlyStored, NoneIsMissed
<1> QED
  BY <1>3, <1>4, <1>5, <1>6, <1>7, <1>8 DEF ClientSteps

LEMMA ClientStepKeeps ==
  ASSUME TimelineInv, NEW r \in Readers, ClientSteps(r)
  PROVE  TimelineTypeOK' /\ ClientsInv'
<1>1. TimelineTypeOK'
  BY ClientTypeKeeps DEF TimelineInv, StoreInv
<1>2. /\ Rows' = Rows /\ Unsent' = Unsent
      /\ \A z \in Readers \ {r} : /\ reader'[z] = reader[z] /\ page'[z] = page[z]
                                  /\ wire'[z] = wire[z] /\ view'[z] = view[z]
                                  /\ raced'[z] = raced[z]
  BY ClientStepDoes DEF TimelineInv
<1>3. ASSUME NEW z \in Readers
      PROVE  /\ OnlyStored(Rows, page'[z], wire'[z], view'[z])
             /\ OneHistory(reader'[z], wire'[z])
             /\ NoneIsMissed((Rows \ Unsent) \ raced'[z], reader'[z], page'[z], wire'[z], view'[z])
  <2>1. CASE z = r
    BY <2>1, ClientServed
  <2>2. CASE z # r
    BY <1>2, <2>2 DEF TimelineInv, ClientsInv
  <2> QED
    BY <2>1, <2>2
<1> QED
  BY <1>1, <1>2, <1>3 DEF ClientsInv

LEMMA TimelineBegins ==
  ASSUME TimelineInit
  PROVE  TimelineInv
<1> USE DEF TimelineInit
<1>1. StoreInv
  BY StoreBegins
<1>2. TimelineTypeOK
  <2>1. <<>> \in Seq(Event) /\ Len(<<>>) = 0 /\ NoPage \in Page
    BY DEF NoPage, Page
  <2> QED
    BY <2>1, BoundAssumption DEF TimelineTypeOK
<1>3. SavedAreNamed
  BY DEF SavedAreNamed, Init, NoTask
<1>4. ClientsInv
  <2>1. Rows = {}
    BY DEF Rows, Init
  <2>2. Len(<<>>) = 0 /\ 1..0 = {}
    OBVIOUS
  <2>3. ASSUME NEW r \in Readers
        PROVE  /\ OnlyStored(Rows, page[r], wire[r], view[r])
               /\ OneHistory(reader[r], wire[r])
               /\ NoneIsMissed((Rows \ Unsent) \ raced[r], reader[r], page[r], wire[r], view[r])
    BY <2>1, <2>2 DEF OnlyStored, OnlyIn, SendsOnly, OneHistory, NoHistoryAfter, NoneIsMissed, NoPage
  <2> QED
    BY <2>3 DEF ClientsInv
<1> QED
  BY <1>1, <1>2, <1>3, <1>4 DEF TimelineInv

LEMMA TimelineKeeps ==
  ASSUME TimelineInv, [TimelineNext]_allVars
  PROVE  TimelineInv'
<1>1. StoreInv'
  BY TimelineStoreStep, StoreKeeps DEF TimelineInv
<1>2. SavedAreNamed'
  <2>1. CASE Next
    BY <2>1, SavedKeep DEF TimelineInv
  <2>2. CASE UNCHANGED vars
    BY <2>2 DEF TimelineInv, SavedAreNamed, Rows, vars
  <2> QED
    BY <2>1, <2>2, TimelineStoreStep
<1>3. CASE UNCHANGED allVars
  <2>1. /\ UNCHANGED <<reader, page, wire, view, raced>> /\ Rows' = Rows /\ Unsent' = Unsent
    BY <1>3 DEF allVars, vars, readerVars, Rows, Unsent
  <2>2. TimelineTypeOK' /\ ClientsInv'
    BY <2>1 DEF TimelineInv, TimelineTypeOK, ClientsInv
  <2> QED
    BY <1>1, <1>2, <2>2 DEF TimelineInv
<1>4. CASE TimelineNext
  <2>1. TimelineTypeOK' /\ ClientsInv'
    BY <1>4, StoreStepKeeps, BroadcastKeeps, ClientStepKeeps DEF TimelineNext, ClientSteps
  <2> QED
    BY <1>1, <1>2, <2>1 DEF TimelineInv
<1> QED
  BY <1>3, <1>4

LEMMA InvariantShowsAll ==
  ASSUME TimelineInv
  PROVE  SettledIsComplete
<1> SUFFICES ASSUME NEW r \in Readers, Settled(r)
             PROVE  /\ \A m \in Messages : view[r][m] # Absent => m \in Rows
                    /\ \A m \in Rows \ raced[r] : view[r][m] # Absent
  BY DEF SettledIsComplete, Rows
<1>1. /\ reader[r] = "in" /\ wire[r] = <<>> /\ Unsent = {}
  BY DEF Settled, Saved, Unsent
<1>2. OnlyIn(Rows, view[r]) /\ NoneIsMissed((Rows \ Unsent) \ raced[r], "in", page[r], <<>>, view[r])
  BY <1>1 DEF TimelineInv, ClientsInv, OnlyStored
<1>3. Len(<<>>) = 0 /\ 1..0 = {}
  OBVIOUS
<1>4. \A m \in Rows \ raced[r] : view[r][m] # Absent
  BY <1>1, <1>2, <1>3 DEF NoneIsMissed, WillShow, Rows
<1> QED
  BY <1>2, <1>4 DEF OnlyIn, Rows

-----------------------------------------------------------------------------
(* Theorems                                                                *)

(* The inductive invariant of the store and its clients.                   *)
THEOREM TimelineInvariant == TimelineSpec => []TimelineInv
<1>1. TimelineInit => TimelineInv
  BY TimelineBegins
<1>2. TimelineInv /\ [TimelineNext]_allVars => TimelineInv'
  BY TimelineKeeps
<1> QED
  BY <1>1, <1>2, PTL DEF TimelineSpec

(* The rows, locks, requests and sweeps of the store have their types,     *)
(* and so has what its clients show and are sent.                          *)
THEOREM TypeCorrect == TimelineSpec => [](TypeOK /\ TimelineTypeOK)
<1>1. TimelineInv => TypeOK /\ TimelineTypeOK
  BY DEF TimelineInv, StoreInv
<1> QED
  BY <1>1, TimelineInvariant, PTL

(* Under the advisory locks, the serials of a channel's messages are 1 up  *)
(* to their number, and so are those of the edits of a message, however    *)
(* many sockets send and edit at once, and whichever of them fail.         *)
THEOREM Gapless == TimelineSpec => []NumbersAreGapless
<1>1. TimelineInv => NumbersAreGapless
  BY DEF TimelineInv, StoreInv
<1> QED
  BY <1>1, TimelineInvariant, PTL

(* However deletes and sweeps of one message wait for each other's row, a  *)
(* body is gone exactly when a tombstone has been written, the sweep has   *)
(* written no more than one, and with the archive on, what a delete has    *)
(* wiped is in it.                                                         *)
THEOREM Recorded == TimelineSpec => []WipedIsRecorded
<1>1. TimelineInv => WipedIsRecorded
  BY DEF TimelineInv, StoreInv
<1> QED
  BY <1>1, TimelineInvariant, PTL

(* The same of the store by itself, without its clients.                   *)
THEOREM StoreCorrect == Spec => [](TypeOK /\ NumbersAreGapless /\ WipedIsRecorded)
<1>1. StoreInv => TypeOK /\ NumbersAreGapless /\ WipedIsRecorded
  BY DEF StoreInv
<1> QED
  BY <1>1, StoreInvariant, PTL

(* A client that has its history and to which nothing is under way shows   *)
(* stored messages only, and every one of them whose own event did not go  *)
(* out between the reading and the pushing of that history.                *)
THEOREM ShowsAll == TimelineSpec => []SettledIsComplete
<1>1. TimelineInv => SettledIsComplete
  BY InvariantShowsAll
<1> QED
  BY <1>1, TimelineInvariant, PTL
=============================================================================
