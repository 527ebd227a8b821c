--------------------------- MODULE IdentityVault ---------------------------
(***************************************************************************)
(* The identity on one device (assets/app/identity-context.tsx): the entry *)
(* that is stored, sealed under a passphrase or not, the copy in memory,   *)
(* and the asynchronous operations that replace both.                      *)
(*                                                                         *)
(* Every operation takes a snapshot of the memory, may wait for a prompt,  *)
(* queues a write, and applies its snapshot to the memory once the write   *)
(* is done.  Nothing keeps two of them apart.  The store serves writes in  *)
(* the order in which they are queued.                                     *)
(***************************************************************************)
EXTENDS Naturals, Sequences, FiniteSetsExt, OnboardingScreens

CONSTANTS
  Jobs,         \* operations that may be under way at once
  Changes,      \* changes of the metadata: a name, a server, a dismissal
  Levels,       \* those that the server must confirm: notification levels
  Name,         \* the change that overrides the proposed name
  MaxSalts,     \* bound: passphrases set
  MaxBoots      \* bound: times the application is started

ASSUME NoneAssumption == None \notin Passphrases \cup Changes
ASSUME LevelsAssumption == Levels \subseteq Changes /\ Name \in Changes
ASSUME BoundsAssumption == MaxSalts \in Nat /\ MaxBoots \in Nat \ {0}

VARIABLES
  native,    \* a native application, with keychain and fallback, or a browser
  legacy,    \* browser: the entry in the database of an earlier version
  disk,      \* the stored entry
  fallback,  \* native: the sealed entry under the second service
  phase,     \* what the application shows
  memory,    \* the entry that it holds: unlocked when phase is "ready"
  job,       \* the operations under way
  queue,     \* those whose write is queued, in order
  draft,     \* onboarding: whose identity, and the key and the name that it was
             \* saved with
  salts,     \* salts drawn
  boots,
  unread,    \* history: the store could not be read at a start, or the one
             \* of before could not be emptied
  torn,      \* history: a second write failed after the first
  saved      \* history: changes whose operation ended, with no other beside it

device == <<native, legacy>>
stores == <<disk, fallback>>
history == <<unread, torn, saved>>
vars == <<device, onboarding, stores, phase, memory, job, queue, draft, salts, boots, history>>

Keys == Passphrases \X (1..MaxSalts)
Recovered == 0  \* the identity of the recovery phrase

Entry ==
  [who : 0..MaxBoots, meta : SUBSET Changes, key : Keys \cup {None},
   passkey : Keys \cup {None}]

(* null is neither.                                                        *)
ASSUME NullAssumption == None \notin Keys /\ None \notin Entry

(* What an earlier version has stored: an identity whose phrase is known.  *)
Earlier == [who |-> Recovered, meta |-> {}, key |-> None, passkey |-> None]

(* isIdentityBundleV1, of the bundle or of what the seal opens to: every   *)
(* part of the metadata is of its kind, or there is no identity at all.    *)
IsBundle(entry) == entry # None /\ entry \in Entry
IsSealed(entry) == entry # None /\ entry.key # None

(* What is left of a draft when the flow is gone, nothing reads any more.  *)
NoDraft == [who |-> Recovered, key |-> None, named |-> FALSE]
Idle == [op |-> "none", pc |-> "idle", entry |-> None, change |-> None,
         before |-> {}, alone |-> TRUE]

TypeOK ==
  /\ native \in BOOLEAN /\ legacy \in {Earlier, None} /\ (native => legacy = None)
  /\ disk \in Entry \cup {None} /\ fallback \in Entry \cup {None}
  /\ phase \in {"loading", "onboarding", "locked", "locked_native", "ready", "error"}
  /\ memory \in Entry \cup {None}
  /\ phase = "ready" => memory # None
  /\ phase = "locked" => IsSealed(memory)
  /\ job \in [Jobs ->
       [op : {"none", "mutate", "change", "enroll", "complete", "restore", "passkey", "native"},
        pc : {"idle", "prompt", "queued", "second", "remote"},
        entry : Entry \cup {None}, change : Changes \cup {None},
        before : SUBSET Levels, alone : BOOLEAN]]
  /\ queue \in Seq(Jobs)
  /\ draft \in [who : 0..MaxBoots, key : Keys \cup {None}, named : BOOLEAN]
  /\ WizardTypeOK /\ proven \subseteq 0..MaxBoots
  /\ phase = "onboarding" <=> wizard.step # "gone"
  /\ salts \in 0..MaxSalts /\ boots \in 1..MaxBoots
  /\ unread \in BOOLEAN /\ torn \in BOOLEAN
  /\ saved \in SUBSET Changes

Init ==
  /\ native \in BOOLEAN /\ legacy \in IF native THEN {None} ELSE {Earlier, None}
  /\ disk = None /\ fallback = None
  /\ phase = "loading" /\ memory = None
  /\ job = [j \in Jobs |-> Idle] /\ queue = <<>>
  /\ draft = NoDraft
  /\ wizard = Gone /\ proven = IF legacy = None THEN {} ELSE {Recovered}
  /\ salts = 0 /\ boots = 1
  /\ unread = FALSE /\ torn = FALSE /\ saved = {}

-----------------------------------------------------------------------------
(* Entries                                                                 *)

(* deriveSealKey and sealBundleWithKey: the key opens what it has sealed,  *)
(* and it is derived from the passphrase and a salt.                       *)
Sealed(entry, key) == [entry EXCEPT !.key = key, !.passkey = None]
NewKey(passphrase) == <<passphrase, salts + 1>>

(* The passkey holds the seal key, wrapped.                                *)
WithPasskey(entry) == [entry EXCEPT !.passkey = entry.key]

(* unsealEnvelope: a passphrase opens the entry that it has sealed.        *)
Opens(passphrase, entry) == entry.key[1] = passphrase

-----------------------------------------------------------------------------
(* Operations under way *)

Busy(j) == job[j].op # "none"
Quiet == \A j \in Jobs : ~Busy(j)

(* An operation begins; it and those beside it are not alone.              *)
Begin(j, op, pc, entry, change) ==
  LET crowd == \E i \in Jobs : Busy(i) IN
  /\ ~Busy(j)
  /\ job' = [i \in Jobs |->
       IF i = j THEN [op |-> op, pc |-> pc, entry |-> entry, change |-> change,
                        before |-> IF change \in Levels THEN memory.meta \cap Levels ELSE {},
                        alone |-> ~crowd]
       ELSE IF Busy(i) THEN [job[i] EXCEPT !.alone = FALSE] ELSE job[i]]
  /\ queue' = IF pc = "queued" THEN Append(queue, j) ELSE queue

Ends(j) == job' = [job EXCEPT ![j] = Idle]

(* applyState: the memory becomes what the operation has computed.         *)
Apply(p, entry) == phase' = p /\ memory' = entry

(* The store takes the write that is first in the queue.                   *)
Serve(j) == queue # <<>> /\ Head(queue) = j

(* saveSealedEnvelope in a native application writes the keychain first,   *)
(* and then the second service.                                            *)
StoreFirst(j) ==
  /\ Serve(j) /\ job[j].pc = "queued" /\ native /\ IsSealed(job[j].entry)
  /\ disk' = job[j].entry
  /\ job' = [job EXCEPT ![j].pc = "second"]
  /\ queue' = Append(Tail(queue), j)
  /\ UNCHANGED <<device, onboarding, fallback, phase, memory, draft, salts, boots, history>>

(* The last write of saveIdentity or saveSealedEnvelope, upon which the    *)
(* operation goes on at once.                                              *)
StoreLast(j) ==
  /\ Serve(j) /\ queue' = Tail(queue)
  /\ IF job[j].pc = "second"
     THEN fallback' = job[j].entry /\ UNCHANGED disk
     ELSE /\ ~(native /\ IsSealed(job[j].entry))
          /\ disk' = job[j].entry /\ UNCHANGED fallback

(* Mutant: the flow goes on after a failure.                               *)
ToldDone(j) ==
  CASE job[j].op = "complete" /\ phase = "onboarding" -> wizard' = To("complete")
    [] job[j].op = "restore" -> Submits(FALSE)
    [] OTHER -> UNCHANGED wizard

(* What the screen that has asked for a write shows of its failure: a      *)
(* banner of the saving, nothing of the restoring.                         *)
Told(j) ==
  CASE job[j].op = "complete" /\ phase = "onboarding" ->
         wizard' = [wizard EXCEPT !.error = TRUE]
    [] job[j].op = "restore" -> Submits(FALSE)
    [] OTHER -> UNCHANGED wizard

(* Mutant: the memory takes what could not be stored.                      *)
StoreFailsApplied(j) ==
  /\ Serve(j) /\ queue' = Tail(queue)
  /\ Ends(j)
  /\ Told(j)
  /\ torn' = (torn \/ job[j].pc = "second")
  /\ memory' = IF phase = "ready" THEN job[j].entry ELSE memory
  /\ UNCHANGED <<device, proven, stores, phase, draft, salts, boots, unread, saved>>

(* A write is refused: the operation ends and the memory stays.            *)
StoreFails(j) ==
  /\ Serve(j) /\ queue' = Tail(queue)
  /\ Ends(j)
  /\ Told(j)
  /\ torn' = (torn \/ job[j].pc = "second")
  /\ UNCHANGED <<device, proven, stores, phase, memory, draft, salts, boots, unread, saved>>

-----------------------------------------------------------------------------
(* Start                                                                   *)

(* migrateFromLegacy, before the store is used: what the earlier version   *)
(* has stored is copied over whatever is in the store, and deleted.  The   *)
(* deletion may be blocked, by a tab that has it open, or the whole may    *)
(* fail: neither is noticed.  A later start tries again.                   *)
Migrate ==
  /\ \/ legacy = None /\ UNCHANGED <<disk, legacy>>
     \/ legacy # None /\ disk' = legacy /\ legacy' \in {legacy, None}
     \/ legacy # None /\ UNCHANGED <<disk, legacy>>
  /\ UNCHANGED native

(* Nothing is stored: the flow begins, with a new identity.                *)
Onboard ==
  /\ Apply("onboarding", None)
  /\ draft' = [who |-> boots, key |-> None, named |-> FALSE]
  /\ wizard' = Mounted /\ UNCHANGED proven

(* What the store holds decides the phase.                                 *)
Loads(entry) ==
  CASE ~IsBundle(entry) -> Onboard
    [] IsSealed(entry)  -> Apply("locked", entry) /\ UNCHANGED <<draft, onboarding>>
    [] OTHER            -> Apply("ready", entry) /\ UNCHANGED <<draft, onboarding>>

(* Mutant: the second service is not written again at a start.             *)
BootPlain ==
  /\ phase = "loading"
  /\ Migrate
  /\ unread' = (unread \/ legacy' # None)
  /\ Loads(disk')
  /\ UNCHANGED <<fallback, job, queue, salts, boots, torn, saved>>

(* The provider's effect: the store is read; a sealed entry that was found *)
(* in the keychain is copied to the second service.                        *)
Boot ==
  /\ phase = "loading"
  /\ Migrate
  /\ unread' = (unread \/ legacy' # None)
  /\ Loads(disk')
  /\ fallback' = IF native /\ IsSealed(disk) THEN disk ELSE fallback
  /\ UNCHANGED <<job, queue, salts, boots, torn, saved>>

(* Mutant: an unreadable keychain is taken for an empty one.               *)
BootBlank ==
  /\ phase = "loading"
  /\ Migrate
  /\ unread' = TRUE
  /\ Onboard
  /\ UNCHANGED <<fallback, job, queue, salts, boots, torn, saved>>

(* A store that cannot be read: the browser takes it for an empty one, the *)
(* native application waits, with what the second service has.             *)
BootUnreadable ==
  /\ phase = "loading"
  /\ Migrate
  /\ unread' = TRUE
  /\ IF native THEN Apply("locked_native", fallback) /\ UNCHANGED <<draft, onboarding>>
               ELSE Onboard
  /\ UNCHANGED <<fallback, job, queue, salts, boots, torn, saved>>

(* The entry can be read, its copy cannot be written.                      *)
BootFails ==
  /\ phase = "loading" /\ native /\ IsSealed(disk)
  /\ Apply("error", None)
  /\ UNCHANGED <<device, onboarding, stores, job, queue, draft, salts, boots, history>>

(* The application is closed and started again: what is stored remains.    *)
Restart ==
  /\ phase # "loading" /\ boots < MaxBoots
  /\ boots' = boots + 1
  /\ Apply("loading", None)
  /\ job' = [j \in Jobs |-> Idle] /\ queue' = <<>>
  /\ wizard' = Gone /\ draft' = NoDraft
  /\ proven' = proven \cap {entry.who : entry \in {disk, legacy} \ {None}}
  /\ UNCHANGED <<device, stores, salts, history>>

-----------------------------------------------------------------------------
(* Onboarding                                                              *)

(* The person goes on; a word that is typed or a second takes longer than  *)
(* a write, a press need not.                                              *)
Advance ==
  /\ Presses(draft.who) \/ (Types /\ Quiet)
  /\ UNCHANGED <<device, stores, phase, memory, job, queue, draft, salts, boots, history>>

(* buildMetadata *)
Metadata(named) == IF named THEN {Name} ELSE {}

(* completeOnboarding saves the draft, under a passphrase if there is one. *)
(* Its button stays active while it saves.                                 *)
Complete(j) ==
  LET bundle == [who |-> draft.who, meta |-> Metadata(Overrides), key |-> None,
                 passkey |-> None] IN
  /\ CanContinue
  /\ wizard' = [wizard EXCEPT !.chosen = Overrides]
  /\ IF wizard.pending = None
     THEN /\ Begin(j, "complete", "queued", bundle, None)
          /\ UNCHANGED salts
     ELSE /\ salts < MaxSalts
          /\ salts' = salts + 1
          /\ Begin(j, "complete", "queued", Sealed(bundle, NewKey(wizard.pending)), None)
  /\ UNCHANGED <<device, proven, stores, phase, memory, draft, boots, history>>

EndComplete(j) ==
  /\ job[j].op = "complete" /\ StoreLast(j)
  /\ IF phase = "onboarding"
     THEN /\ draft' = [draft EXCEPT !.key = job[j].entry.key,
                                    !.named = job[j].entry.meta # {}]
          /\ wizard' = [To("complete") EXCEPT !.error = FALSE]
     ELSE UNCHANGED <<draft, wizard>>
  /\ Ends(j)
  /\ UNCHANGED <<device, proven, phase, memory, salts, boots, history>>

(* finishOnboarding builds the bundle again from the draft.                *)
Finish ==
  /\ wizard.step = "complete"
  /\ Apply("ready", [who |-> draft.who, meta |-> Metadata(draft.named), key |-> draft.key,
                     passkey |-> None])
  /\ wizard' = Gone /\ draft' = NoDraft
  /\ UNCHANGED <<device, proven, stores, job, queue, salts, boots, history>>

(* restoreFromMnemonic, of a valid phrase.                                 *)
Restore(j) ==
  /\ MayRestore /\ wizard.form.phrase = "valid"
  /\ Submits(TRUE) /\ proven' = proven \cup {Recovered}
  /\ Begin(j, "restore", "queued",
           [who |-> Recovered, meta |-> {}, key |-> None, passkey |-> None], None)
  /\ UNCHANGED <<device, stores, phase, memory, draft, salts, boots, history>>

EndRestore(j) ==
  /\ job[j].op = "restore" /\ StoreLast(j)
  /\ draft' = NoDraft
  /\ Apply("ready", job[j].entry)
  /\ wizard' = Gone
  /\ Ends(j)
  /\ UNCHANGED <<device, proven, salts, boots, history>>

-----------------------------------------------------------------------------
(* LockedScreen                                                            *)

(* A prompt is modal: while it is open, nothing else can be pressed.       *)
Locked == phase \in {"locked", "locked_native"}
Unlocking == \E j \in Jobs : job[j].op \in {"passkey", "native"}

(* The methods that resolveUnlockChoice and detectUnlockAvailability offer.*)
PasskeyOffered == phase = "locked" /\ ~native /\ memory.passkey # None
NativeOffered == Locked /\ native

(* The buttons of the screen, for the preferred method and the others.     *)
Methods == (IF PasskeyOffered THEN {"passkey"} ELSE {})
             \cup (IF NativeOffered THEN {"native"} ELSE {})
MayPress(method) == method \in Methods /\ ~Unlocking

(* The field and its button, which is off while something is pending.      *)
PassphraseOffered == Locked /\ ~Unlocking

(* unlock: with the passphrase that sealed the entry.                      *)
Unlock(p) ==
  /\ PassphraseOffered
  /\ memory # None /\ Opens(p, memory)
  /\ Apply("ready", memory)
  /\ UNCHANGED <<device, onboarding, stores, job, queue, draft, salts, boots, history>>

(* unlockWithPasskey and unlockNative: the person is asked first.          *)
AskPasskey(j) ==
  /\ MayPress("passkey")
  /\ Begin(j, "passkey", "prompt", memory, None)
  /\ UNCHANGED <<device, onboarding, stores, phase, memory, draft, salts, boots, history>>

UnlockWithPasskey(j) ==
  /\ job[j].op = "passkey"
  /\ job[j].entry.passkey = job[j].entry.key
  /\ Apply("ready", job[j].entry)
  /\ Ends(j)
  /\ UNCHANGED <<device, onboarding, stores, queue, draft, salts, boots, history>>

AskNative(j) ==
  /\ MayPress("native")
  /\ Begin(j, "native", "prompt", None, None)
  /\ UNCHANGED <<device, onboarding, stores, phase, memory, draft, salts, boots, history>>

(* applyUnlockedEntry: a sealed entry still wants its passphrase.          *)
UnlockNative(j) ==
  /\ job[j].op = "native" /\ disk # None
  /\ IF IsSealed(disk)
     THEN Apply("locked", disk) /\ fallback' = disk
     ELSE Apply("ready", disk) /\ UNCHANGED fallback
  /\ Ends(j)
  /\ UNCHANGED <<device, onboarding, disk, queue, draft, salts, boots, history>>

(* A prompt is declined, here or in the settings.                          *)
Decline(j) ==
  /\ job[j].pc = "prompt"
  /\ Ends(j)
  /\ UNCHANGED <<device, onboarding, stores, phase, memory, queue, draft, salts, boots, history>>

-----------------------------------------------------------------------------
(* Unlocked: PassphraseSettingsScreen and whatever changes the metadata    *)

(* The buttons of the settings offer another level than the present one,   *)
(* for each server, each of its channels and each conversation.            *)
Offered(c) == c \notin memory.meta

(* mutateBundleMetadata: sealed again, with the cached key and the passkey.*)
Mutate(j, c) ==
  /\ phase = "ready"
  /\ Offered(c)
  /\ Begin(j, "mutate", "queued", [memory EXCEPT !.meta = @ \cup {c}], c)
  /\ UNCHANGED <<device, onboarding, stores, phase, memory, draft, salts, boots, history>>

(* Mutant: the memory keeps the bundle of before.                          *)
EndMutateKeeps(j) ==
  /\ job[j].op = "mutate" /\ StoreLast(j)
  /\ saved' = IF job[j].alone THEN saved \cup {job[j].change} ELSE saved
  /\ Ends(j)
  /\ UNCHANGED <<device, onboarding, phase, memory, draft, salts, boots, unread, torn>>

(* The memory takes the bundle.  A level is then sent to the server, and   *)
(* all levels as they were before the change are kept beside the call.     *)
EndMutate(j) ==
  /\ job[j].op = "mutate" /\ StoreLast(j)
  /\ Apply("ready", job[j].entry)
  /\ IF job[j].change \in Levels
     THEN /\ job' = [job EXCEPT ![j].pc = "remote", ![j].entry = None]
          /\ UNCHANGED saved
     ELSE /\ saved' = IF job[j].alone /\ job[j].change # None
                      THEN saved \cup {job[j].change} ELSE saved
          /\ Ends(j)
  /\ UNCHANGED <<device, onboarding, draft, salts, boots, unread, torn>>

(* setNotificationLevel: the server confirms ...                           *)
Confirmed(j) ==
  /\ job[j].pc = "remote"
  /\ saved' = IF job[j].alone THEN saved \cup {job[j].change} ELSE saved
  /\ Ends(j)
  /\ UNCHANGED <<device, onboarding, stores, phase, memory, queue, draft, salts, boots, unread, torn>>

(* ... or not, and all levels are put back.                                *)
Refused(j) ==
  /\ job[j].pc = "remote" /\ phase = "ready"
  /\ job' = [job EXCEPT
       ![j].pc = "queued", ![j].change = None,
       ![j].entry = [memory EXCEPT !.meta = (@ \ Levels) \cup job[j].before],
       ![j].before = {}]
  /\ queue' = Append(queue, j)
  /\ UNCHANGED <<device, onboarding, stores, phase, memory, draft, salts, boots, history>>

(* The form: what is typed as the current passphrase and, twice, as the    *)
(* next one.  A blank next one removes the passphrase.  The current one is *)
(* asked for only when there is one, the next one again only when it is    *)
(* not blank.                                                              *)
Fields == [current : IF IsSealed(memory) THEN Typed ELSE {None},
           next : Typed, confirm : Typed]
SettingNew(f) == f.next # None
RemovingSeal(f) == IsSealed(memory) /\ f.next = None /\ f.confirm = None
MaySubmit(f) ==
  /\ SettingNew(f) => f.next # Short /\ f.next = f.confirm
  /\ IsSealed(memory) => f.current # None
  /\ RemovingSeal(f) \/ SettingNew(f)
RightCurrent(f) == IsSealed(memory) => Opens(f.current, memory)

(* Mutant: the passkey keeps the key that it has wrapped.                  *)
SetPassphraseOnly(j, f) ==
  /\ MaySubmit(f) /\ SettingNew(f) /\ RightCurrent(f) /\ salts < MaxSalts
  /\ salts' = salts + 1
  /\ Begin(j, "change", "queued", [memory EXCEPT !.key = NewKey(f.next)], None)
  /\ UNCHANGED <<device, onboarding, stores, phase, memory, draft, boots, history>>

(* changePassphrase, the current one being right: an enrolled passkey must *)
(* wrap the new key, which takes a prompt.                                 *)
SetPassphrase(j, f) ==
  /\ MaySubmit(f) /\ SettingNew(f) /\ RightCurrent(f) /\ salts < MaxSalts
  /\ salts' = salts + 1
  /\ Begin(j, "change", IF memory.passkey = None THEN "queued" ELSE "prompt",
           Sealed(memory, NewKey(f.next)), None)
  /\ UNCHANGED <<device, onboarding, stores, phase, memory, draft, boots, history>>

RemovePassphrase(j, f) ==
  /\ MaySubmit(f) /\ RemovingSeal(f) /\ RightCurrent(f)
  /\ Begin(j, "change", "queued", Sealed(memory, None), None)
  /\ UNCHANGED <<device, onboarding, stores, phase, memory, draft, salts, boots, history>>

(* enrollPasskey, in a browser.  Another operation of the screen may be    *)
(* pending: the screen may have been left and come back to.                *)
MayEnroll == phase = "ready" /\ ~native /\ IsSealed(memory) /\ memory.passkey = None
EnrollPasskey(j) ==
  /\ MayEnroll
  /\ Begin(j, "enroll", "prompt", memory, None)
  /\ UNCHANGED <<device, onboarding, stores, phase, memory, draft, salts, boots, history>>

(* The authenticator answers enrollPasskeySeal or rewrapPasskeySeal.       *)
Wrap(j) ==
  /\ job[j].op \in {"enroll", "change"} /\ job[j].pc = "prompt"
  /\ job' = [job EXCEPT ![j].pc = "queued", ![j].entry = WithPasskey(@)]
  /\ queue' = Append(queue, j)
  /\ UNCHANGED <<device, onboarding, stores, phase, memory, draft, salts, boots, history>>

EndSeal(j) ==
  /\ job[j].op \in {"enroll", "change"} /\ StoreLast(j)
  /\ Apply("ready", job[j].entry)
  /\ Ends(j)
  /\ UNCHANGED <<device, onboarding, draft, salts, boots, history>>

-----------------------------------------------------------------------------
StoreStep(j) == StoreFirst(j) \/ StoreFails(j)

LockedStep(j) ==
  AskPasskey(j) \/ UnlockWithPasskey(j) \/ AskNative(j) \/ UnlockNative(j) \/ Decline(j)

OnboardingStep(j) == Complete(j) \/ EndComplete(j) \/ Restore(j) \/ EndRestore(j)

ReadyStep(j) ==
  \/ \E c \in Changes : Mutate(j, c)
  \/ /\ phase = "ready" /\ ~Busy(j)
     /\ \E f \in Fields : SetPassphrase(j, f) \/ RemovePassphrase(j, f)
  \/ EnrollPasskey(j) \/ Wrap(j)
  \/ EndMutate(j) \/ Confirmed(j) \/ Refused(j) \/ EndSeal(j)

Next ==
  \/ Boot \/ BootUnreadable \/ BootFails \/ Restart \/ Advance \/ Finish
  \/ \E p \in Passphrases : Unlock(p)
  \/ \E j \in Jobs : StoreStep(j) \/ LockedStep(j) \/ OnboardingStep(j) \/ ReadyStep(j)

Spec == Init /\ [][Next]_vars

-----------------------------------------------------------------------------
(* Properties                                                              *)

(* Wherever an entry is kept, its passkey wraps the key that seals it:     *)
(* whichever operations overlap, a passkey that is offered opens the entry.*)
PasskeyOpens ==
  \A entry \in {disk, fallback, memory} \cup {job[j].entry : j \in Jobs} :
    entry # None => entry.passkey \in {None, entry.key}

(* With nothing under way, an unlocked application in a browser holds what *)
(* is stored, sealed by the same passphrase, whatever operations have      *)
(* overlapped, failed or been declined before.  The salt may differ: that  *)
(* of an identity completed twice.                                         *)
QuietAgrees ==
  phase = "ready" /\ Quiet /\ ~native /\ ~unread =>
    /\ disk # None
    /\ memory.who = disk.who /\ memory.meta = disk.meta
    /\ IsSealed(memory) = IsSealed(disk)
    /\ IsSealed(disk) => Opens(memory.key[1], disk)

(* With nothing under way, an unlocked native application whose entry is   *)
(* sealed finds the same entry under the second service, should the        *)
(* keychain fail: a stop between the two writes is made up for by the next *)
(* start.  Excluded is a second write that was refused.                    *)
FallbackFollows ==
  phase = "ready" /\ Quiet /\ native /\ ~unread /\ ~torn /\ IsSealed(disk) =>
    fallback = disk

(* A stored identity is not replaced by another one: a start that fails,   *)
(* natively or in a browser that could read and migrate its store, does    *)
(* not lead to a new identity that is saved over the old one.              *)
IdentityKept ==
  [][disk # None /\ (native \/ ~unread) => disk' # None /\ disk'.who = disk.who]_vars

(* A new identity is stored only after its recovery phrase was entered,    *)
(* and another one only from its own: whatever is stored, the person has   *)
(* the words for it (OnboardingMnemonicScreen, handleVerifySubmit).        *)
WordsAreKnown == disk # None => disk.who \in proven

(* The last screen tells the truth, with nothing under way: the identity   *)
(* is stored, under the name that it shows and sealed by the passphrase    *)
(* that was typed twice, or by none if that was skipped, also after writes *)
(* that have failed or were asked for twice.                               *)
CompleteIsStored ==
  wizard.step = "complete" /\ Quiet =>
    /\ disk # None
    /\ LET shown == CompleteShows(draft.who) IN
       disk.who = shown.who /\ disk.meta = Metadata(shown.named)
    /\ IsSealed(disk) = (wizard.pending # None)
    /\ IsSealed(disk) => Opens(wizard.pending, disk)

(* A change that was saved with no operation beside it stays stored,       *)
(* through restarts, unlocking and changes of the passphrase.              *)
SavedAloneStays == ~unread => disk = None \/ saved \subseteq disk.meta

=============================================================================
