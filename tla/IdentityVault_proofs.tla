--------------------------- MODULE IdentityVault_proofs ---------------------------
(***************************************************************************)
(* Theorems about IdentityVault for any number of operations under way,    *)
(* any passphrases and changes, any recovery phrase and any bounds: what   *)
(* is stored, what is held in memory and what the operations under way     *)
(* will store and apply keep to each other.                                *)
(*                                                                         *)
(* The invariant is built in layers, each inductive relative to those      *)
(* before it: what operations there can be and in which phase; passkeys;   *)
(* whose identity it is; what the last screen of the onboarding says; what *)
(* the memory, the store and the second service have of one another.       *)
(***************************************************************************)
EXTENDS IdentityVault, FiniteSetTheorems, TLAPS

-----------------------------------------------------------------------------
(* Layer 1: operations, their writes in the queue, and the phase           *)

Opener == {"passkey", "native"}            \* operations of the locked screen
Setter == {"mutate", "change", "enroll"}   \* operations of an unlocked application

(* What an operation has at each of its points.                            *)
Whole(w, isNative) ==
  /\ w.op = "none" => w = Idle
  /\ w.op \in Opener => w.pc = "prompt"
  /\ w.op = "mutate" => w.pc \in {"queued", "second", "remote"}
  /\ w.op \in {"change", "enroll"} => w.pc \in {"prompt", "queued", "second"}
  /\ w.op \in {"complete", "restore"} => w.pc \in {"queued", "second"} /\ w.change = None
  /\ w.pc = "remote" => w.entry = None /\ w.change \in Levels
  /\ w.op = "native" => w.entry = None /\ isNative
  /\ w.op = "passkey" => ~isNative
  /\ w.op \notin {"none", "native"} /\ w.pc # "remote" => w.entry # None
  /\ w.pc = "second" => isNative /\ IsSealed(w.entry)

(* The phase in which it is under way.                                     *)
InPhase(w, ph) ==
  /\ w.op \in Setter => ph = "ready"
  /\ w.op \in Opener => ph \in {"locked", "locked_native"}
  /\ w.op = "restore" => ph = "onboarding"
  /\ w.op = "complete" => ph \in {"onboarding", "ready"}

JobsWhole == \A j \in Jobs : Whole(job[j], native) /\ InPhase(job[j], phase)

(* The prompt of the locked screen is modal.                               *)
OneOpener == \A i, j \in Jobs : job[i].op \in Opener /\ job[j].op \in Opener => i = j

(* The queue holds those that wait for the store, each once.               *)
Waiting == {j \in Jobs : job[j].pc \in {"queued", "second"}}
Holds(q, waiting) ==
  /\ \A k \in DOMAIN q : q[k] \in waiting
  /\ \A j \in waiting : \E k \in DOMAIN q : q[k] = j
  /\ \A k, l \in DOMAIN q : q[k] = q[l] => k = l
QueueHolds == Holds(queue, Waiting)

(* The memory and the stores in each phase.                                *)
PhaseHolds ==
  /\ phase \in {"loading", "error", "onboarding"} => memory = None
  /\ ~native => fallback = None
  /\ phase = "locked_native" => native /\ unread
  /\ unread \/ legacy = None \/ (phase = "loading" /\ disk = None)

(* A form belongs to the step of its screen.                               *)
FormFits(wiz) ==
  /\ wiz.form.kind \in {"display", "verify"} => wiz.step = "mnemonic"
  /\ wiz.form.kind = "passphrase" => wiz.step = "passphrase"
  /\ wiz.form.kind = "name" => wiz.step = "display_name"
  /\ wiz.form.kind = "restore" => wiz.step = "restore"
  /\ wiz.pending \in Passphrases \cup {None}

(* While a phrase is being restored the person has not come further than   *)
(* being asked for the words of a new one, and has typed none of them.     *)
Early(wiz) ==
  /\ wiz.step \in {"choose_path", "restore", "mnemonic"}
  /\ wiz.form.kind = "verify" => \A p \in DOMAIN wiz.form.inputs : wiz.form.inputs[p] = Blank
  /\ wiz.form.kind = "restore" => wiz.form.submitting \/ wiz.form.phrase = "blank"

Late(wiz) == wiz.step \in {"display_name", "complete"}

(* One phrase is restored at a time, and not while a new identity is saved. *)
OnboardingJobs ==
  /\ \A j \in Jobs : job[j].op = "restore" => Early(wizard)
  /\ \A i, j \in Jobs : job[i].op = "restore" /\ job[j].op = "restore" => i = j
  /\ \A j \in Jobs : job[j].op = "complete" /\ phase = "onboarding" => Late(wizard)

Structure ==
  /\ TypeOK /\ JobsWhole /\ OneOpener /\ QueueHolds /\ OnboardingJobs /\ PhaseHolds
  /\ FormFits(wizard)

-----------------------------------------------------------------------------
(* Layer 2: whose identity it is                                           *)

Kept == {disk, fallback, memory} \cup {job[j].entry : j \in Jobs}

(* What is saved from the flow is the draft's identity, what is restored   *)
(* the bare one of the phrase.                                             *)
DraftSaved ==
  /\ \A j \in Jobs : job[j].op = "restore" => job[j].entry = Earlier
  /\ \A j \in Jobs : job[j].op = "complete" /\ phase = "onboarding" => job[j].entry.who = draft.who

(* The person has the words of whatever is kept, or about to be.           *)
Answered == {"passphrase", "display_name", "complete"}
Known ==
  /\ \A e \in Kept : e # None => e.who \in proven
  /\ legacy # None => Recovered \in proven
  /\ wizard.step \in Answered => draft.who \in proven

(* Where the store could be read at every start, all of it is one identity. *)
Firm == native \/ ~unread
OneIdentity ==
  /\ \A j \in Jobs : job[j].pc = "second" => disk # None
  /\ Firm /\ disk # None =>
       /\ \A e \in Kept : e # None => e.who = disk.who
       /\ phase = "onboarding" => Late(wizard) /\ draft.who = disk.who
  /\ Firm /\ disk = None => fallback = None /\ memory = None /\ wizard.step # "complete"

Identities == DraftSaved /\ Known /\ OneIdentity

-----------------------------------------------------------------------------
(* Layer 3: what the last screen of the onboarding says                    *)

Fitting(entry, who, named, pending) ==
  /\ entry.who = who /\ entry.meta = Metadata(named)
  /\ IsSealed(entry) = (pending # None)
  /\ IsSealed(entry) => Opens(pending, entry)

(* All that is being saved in the flow is the draft, under the name and    *)
(* the passphrase that the flow keeps, and so is what has been stored.     *)
Saving ==
  phase = "onboarding" =>
    /\ \A j \in Jobs : job[j].op = "complete" =>
         /\ Fitting(job[j].entry, draft.who, wizard.chosen, wizard.pending)
         /\ wizard.step = "display_name" => On("name") /\ wizard.chosen = Overrides
    /\ wizard.step = "complete" \/ (\E j \in Jobs : job[j].pc = "second") =>
         disk # None /\ Fitting(disk, draft.who, wizard.chosen, wizard.pending)
    /\ wizard.step = "complete" =>
         Fitting([who |-> draft.who, meta |-> Metadata(draft.named), key |-> draft.key,
                  passkey |-> None], draft.who, wizard.chosen, wizard.pending)

-----------------------------------------------------------------------------
(* Layer 4: the memory, the store and the second service                   *)

Agrees(a, b) ==
  /\ a.who = b.who /\ a.meta = b.meta
  /\ IsSealed(a) = IsSealed(b)
  /\ IsSealed(b) => Opens(a.key[1], b)

(* Those in front of a member are members.                                 *)
Ordered(q, members) == \A k, l \in DOMAIN q : k < l /\ q[l] \in members => q[k] \in members
Completing == {j \in Jobs : job[j].op = "complete"}

(* In a browser the memory agrees with the store, and what the flow is     *)
(* still saving, which is served first, agrees with both.                  *)
BrowserAgrees ==
  ~native /\ ~unread =>
    /\ phase = "locked" => memory = disk
    /\ \A j \in Jobs : job[j].op = "passkey" => job[j].entry = memory
    /\ phase = "ready" =>
         /\ disk # None /\ Agrees(memory, disk)
         /\ \A j \in Jobs : job[j].op = "complete" => Agrees(memory, job[j].entry)
    /\ Ordered(queue, Completing)

(* The second service has the stored entry, or the last of the writes      *)
(* under way to it will bring it there.                                    *)
LastSecond(k) ==
  /\ job[queue[k]].pc = "second" /\ job[queue[k]].entry = disk
  /\ \A l \in DOMAIN queue : l > k => job[queue[l]].pc # "second"
FallbackWillFollow ==
  native /\ ~unread /\ ~torn /\ phase \in {"onboarding", "locked", "ready"} /\ IsSealed(disk) =>
    \/ \E k \in DOMAIN queue : LastSecond(k)
    \/ fallback = disk /\ \A j \in Jobs : job[j].pc # "second"

(* What was saved alone is in every copy, and in all that is under way.    *)
Alone(w) == w.op # "none" /\ w.alone
Borne(w) ==
  /\ w.pc = "second" => disk = w.entry
  /\ w.pc = "remote" /\ ~unread => w.change \in memory.meta /\ disk # None /\ w.change \in disk.meta
  /\ w.op = "mutate" /\ w.change # None /\ w.pc \in {"queued", "second"} => w.change \in w.entry.meta
Lone == \A j \in Jobs : Alone(job[j]) =>
  /\ \A i \in Jobs : i # j => job[i].op = "none"
  /\ Borne(job[j])
Has(entry, changes) == entry # None => changes \subseteq entry.meta
Everywhere ==
  ~unread =>
    /\ disk = None \/ phase = "onboarding" => saved = {}
    /\ Has(disk, saved) /\ Has(memory, saved)
    /\ \A j \in Jobs :
         /\ Has(job[j].entry, saved)
         /\ job[j].change \in Levels => saved \cap Levels \subseteq job[j].before

Shared == Lone /\ Everywhere

-----------------------------------------------------------------------------
(* The flow of the onboarding                                              *)

Wizards == [step : Steps \cup {"gone"}, form : Forms, pending : Typed,
            chosen : BOOLEAN, error : BOOLEAN]

PlainForms == [kind : {"plain"}]
DisplayForms == [kind : {"display"}, remaining : 0..Seconds]
VerifyForms == UNION {[kind : {"verify"}, inputs : [p -> Words \cup {Blank}]] : p \in Positions}
PassphraseForms == [kind : {"passphrase"}, passphrase : Typed, confirm : Typed]
NameForms == [kind : {"name"}, editing : BOOLEAN, override : Names]
RestoreForms == [kind : {"restore"}, phrase : Phrases, error : BOOLEAN, submitting : BOOLEAN]

LEMMA FormKinds ==
  /\ Forms = PlainForms \cup DisplayForms \cup VerifyForms \cup PassphraseForms
               \cup NameForms \cup RestoreForms
  /\ \A form \in PlainForms : form.kind = "plain"
  /\ \A form \in DisplayForms : form.kind = "display"
  /\ \A form \in VerifyForms : form.kind = "verify"
  /\ \A form \in PassphraseForms : form.kind = "passphrase"
  /\ \A form \in NameForms : form.kind = "name"
  /\ \A form \in RestoreForms : form.kind = "restore"
<1>1. Forms = PlainForms \cup DisplayForms \cup VerifyForms \cup PassphraseForms
               \cup NameForms \cup RestoreForms
  <2>1. /\ PlainForms = [kind : {"plain"}]
        /\ DisplayForms = [kind : {"display"}, remaining : 0..Seconds]
        /\ VerifyForms = UNION {[kind : {"verify"}, inputs : [p -> Words \cup {Blank}]] : p \in Positions}
        /\ PassphraseForms = [kind : {"passphrase"}, passphrase : Typed, confirm : Typed]
        /\ NameForms = [kind : {"name"}, editing : BOOLEAN, override : Names]
        /\ RestoreForms = [kind : {"restore"}, phrase : Phrases, error : BOOLEAN,
                           submitting : BOOLEAN]
    BY DEF PlainForms, DisplayForms, VerifyForms, PassphraseForms, NameForms, RestoreForms
  <2>2. QED
    BY <2>1 DEF Forms
<1>2. /\ \A form \in PlainForms : form.kind = "plain"
      /\ \A form \in DisplayForms : form.kind = "display"
  BY DEF PlainForms, DisplayForms
<1>3. \A form \in VerifyForms : form.kind = "verify"
  BY DEF VerifyForms
<1>4. /\ \A form \in PassphraseForms : form.kind = "passphrase"
      /\ \A form \in NameForms : form.kind = "name"
      /\ \A form \in RestoreForms : form.kind = "restore"
  BY DEF PassphraseForms, NameForms, RestoreForms
<1>5. QED
  BY <1>1, <1>2, <1>3, <1>4

LEMMA FormIsOf ==
  ASSUME NEW form \in Forms
  PROVE  /\ form.kind = "display" => form \in DisplayForms
         /\ form.kind = "verify" => form \in VerifyForms
         /\ form.kind = "passphrase" => form \in PassphraseForms
         /\ form.kind = "name" => form \in NameForms
         /\ form.kind = "restore" => form \in RestoreForms
  BY FormKinds

LEMMA FormOfStep ==
  ASSUME NEW step \in Steps \cup {"gone"}
  PROVE  /\ Form(step) \in Forms
         /\ Form(step).kind = CASE step = "mnemonic" -> "display"
                                [] step = "passphrase" -> "passphrase"
                                [] step = "display_name" -> "name"
                                [] step = "restore" -> "restore"
                                [] OTHER -> "plain"
         /\ step = "restore" => Form(step).phrase = "blank"
<1>0. Form(step) \in Forms
  <2>1. CASE step = "mnemonic"
    <3>1. Form(step) \in DisplayForms
      BY <2>1, SecondsAssumption DEF Form, DisplayForms
    <3>2. QED
      BY <3>1, FormKinds
  <2>2. CASE step = "passphrase"
    <3>1. Form(step) \in PassphraseForms
      BY <2>2 DEF Form, PassphraseForms, Typed
    <3>2. QED
      BY <3>1, FormKinds
  <2>3. CASE step = "display_name"
    <3>1. Form(step) \in NameForms
      BY <2>3 DEF Form, NameForms, Names
    <3>2. QED
      BY <3>1, FormKinds
  <2>4. CASE step = "restore"
    <3>1. Form(step) \in RestoreForms
      BY <2>4 DEF Form, RestoreForms, Phrases
    <3>2. QED
      BY <3>1, FormKinds
  <2>5. CASE step \notin {"mnemonic", "passphrase", "display_name", "restore"}
    <3>1. Form(step) \in PlainForms
      BY <2>5 DEF Form, PlainForms
    <3>2. QED
      BY <3>1, FormKinds
  <2>6. QED
    BY <2>1, <2>2, <2>3, <2>4, <2>5
<1>1. QED
  BY <1>0 DEF Form, Steps

Good(wiz) == wiz \in Wizards /\ FormFits(wiz)

LEMMA MountedIsGood ==
  /\ Good(Mounted) /\ Mounted.step = "choose_path" /\ Mounted.form.kind = "plain"
  /\ Good(Gone) /\ Gone.step = "gone" /\ Gone.form.kind = "plain"
<1>1. /\ Form("choose_path") \in Forms /\ Form("choose_path").kind = "plain"
  BY FormOfStep DEF Steps
<1>2. QED
  BY <1>1 DEF Mounted, Gone, Good, Wizards, FormFits, Typed, Steps

LEMMA ToIsGood ==
  ASSUME Good(wizard), NEW step \in Steps
  PROVE  /\ Good(To(step)) /\ To(step).step = step /\ To(step).form = Form(step)
         /\ To(step).pending = wizard.pending /\ To(step).chosen = wizard.chosen
<1>1. To(step) \in Wizards /\ To(step).step = step /\ To(step).form = Form(step)
      /\ To(step).pending = wizard.pending /\ To(step).chosen = wizard.chosen
  BY FormOfStep DEF Good, Wizards, To
<1>2. FormFits(To(step))
  BY <1>1, FormOfStep DEF Good, FormFits
<1>3. QED
  BY <1>1, <1>2 DEF Good

(* A form is filled in: the screen stays.                                  *)
LEMMA FillsIsGood ==
  ASSUME Good(wizard), NEW form \in Forms, wizard' = [wizard EXCEPT !.form = form],
         \/ form.kind = wizard.form.kind
         \/ form.kind \in {"display", "verify"} /\ wizard.form.kind \in {"display", "verify"}
  PROVE  /\ Good(wizard)' /\ wizard'.step = wizard.step /\ wizard'.form = form
         /\ wizard'.pending = wizard.pending /\ wizard'.chosen = wizard.chosen
<1>1. /\ wizard' \in Wizards /\ wizard'.step = wizard.step /\ wizard'.form = form
      /\ wizard'.pending = wizard.pending /\ wizard'.chosen = wizard.chosen
  BY DEF Good, Wizards
<1>2. FormFits(wizard')
  BY <1>1 DEF Good, FormFits
<1>3. QED
  BY <1>1, <1>2 DEF Good

(* The words asked for are some, and none of them is filled in.            *)
LEMMA AsksBlank ==
  ASSUME Good(wizard), wizard.form.kind \in {"display", "verify"}, NEW positions \in Positions,
         Asks(positions)
  PROVE  /\ Good(wizard)' /\ wizard'.step = wizard.step /\ wizard'.form.kind = "verify"
         /\ wizard'.pending = wizard.pending /\ wizard'.chosen = wizard.chosen
         /\ \A p \in DOMAIN wizard'.form.inputs : wizard'.form.inputs[p] = Blank
<1> DEFINE form == [kind |-> "verify", inputs |-> [p \in positions |-> Blank]]
<1>1. form \in VerifyForms
  <2>1. [p \in positions |-> Blank] \in [positions -> Words \cup {Blank}]
    OBVIOUS
  <2>2. QED
    BY <2>1 DEF VerifyForms
<1>2. form \in Forms /\ form.kind = "verify" /\ form.inputs = [p \in positions |-> Blank]
  BY <1>1, FormKinds
<1>3. wizard' = [wizard EXCEPT !.form = form]
  BY DEF Asks, Fills
<1> HIDE DEF form
<1>4. QED
  BY <1>2, <1>3, FillsIsGood

LEMMA SomethingIsAsked ==
  ASSUME NEW form \in VerifyForms, \A p \in DOMAIN form.inputs : form.inputs[p] = Blank
  PROVE  ~Filled(form.inputs)
<1>1. PICK positions \in Positions : form.inputs \in [positions -> Words \cup {Blank}]
  BY DEF VerifyForms
<1>2. positions # {}
  <2>1. Cardinality(positions) = Asked
    BY DEF Positions, kSubset
  <2>2. Asked >= 1
    BY WordsAssumption
  <2>3. Cardinality({}) = 0
    BY FS_EmptySet
  <2>4. QED
    BY <2>1, <2>2, <2>3
<1>3. QED
  BY <1>1, <1>2 DEF Filled

(* What a step of the person does, whatever its screen.                    *)
Advanced(who) ==
  /\ Good(wizard)' /\ wizard.step # "gone" /\ wizard'.step # "gone"
  /\ proven \subseteq proven' /\ proven' \subseteq proven \cup {who}
  /\ wizard'.step \in {"passphrase", "display_name", "complete"} =>
       wizard.step \in {"passphrase", "display_name", "complete"} \/ who \in proven'
  /\ wizard'.step = "complete" => wizard.step = "complete"
  /\ wizard.step = "complete" => wizard'.step = "complete"
  /\ Late(wizard) => Late(wizard)'

LEMMA TypesAdvances ==
  ASSUME Good(wizard), NEW who, Types
  PROVE  Advanced(who)
<1>0. wizard.form \in Forms
  BY DEF Good, Wizards
<1>1. PICK form \in Forms :
        /\ wizard' = [wizard EXCEPT !.form = form]
        /\ form.kind = wizard.form.kind
        /\ form.kind # "plain" /\ proven' = proven
  <2>1. CASE Tick
    <3> DEFINE form == [wizard.form EXCEPT !.remaining = @ - 1]
    <3>1. wizard.form \in DisplayForms /\ wizard.form.remaining > 0
      BY <1>0, <2>1, FormIsOf DEF Tick, On
    <3>2. form \in DisplayForms
      BY <3>1, SecondsAssumption DEF DisplayForms
    <3>3. QED
      BY <2>1, <3>1, <3>2, FormKinds DEF Tick, Fills
  <2>2. CASE ChangeName
    <3> DEFINE form == [wizard.form EXCEPT !.editing = TRUE]
    <3>1. wizard.form \in NameForms
      BY <1>0, <2>2, FormIsOf DEF ChangeName, On
    <3>2. form \in NameForms
      BY <3>1 DEF NameForms
    <3>3. QED
      BY <2>2, <3>1, <3>2, FormKinds DEF ChangeName, Fills
  <2>3. ASSUME NEW p \in Words, NEW word \in Words \cup {Blank}, TypeWord(p, word)
        PROVE  \E form \in Forms :
                 /\ wizard' = [wizard EXCEPT !.form = form]
                 /\ form.kind = wizard.form.kind
                 /\ form.kind # "plain" /\ proven' = proven
    <3> DEFINE form == [wizard.form EXCEPT !.inputs[p] = word]
    <3>1. wizard.form \in VerifyForms
      BY <1>0, <2>3, FormIsOf DEF TypeWord, On
    <3>2. form \in VerifyForms
      <4>1. PICK q \in Positions :
              wizard.form \in [kind : {"verify"}, inputs : [q -> Words \cup {Blank}]]
        BY <3>1 DEF VerifyForms
      <4>2. [wizard.form.inputs EXCEPT ![p] = word] \in [q -> Words \cup {Blank}]
        BY <4>1
      <4>3. form \in [kind : {"verify"}, inputs : [q -> Words \cup {Blank}]]
        BY <4>1, <4>2
      <4>4. QED
        BY <4>3 DEF VerifyForms
    <3>3. QED
      BY <2>3, <3>1, <3>2, FormKinds DEF TypeWord, Fills
  <2>4. ASSUME NEW field \in {"passphrase", "confirm"}, NEW typed \in Typed,
               TypePassphrase(field, typed)
        PROVE  \E form \in Forms :
                 /\ wizard' = [wizard EXCEPT !.form = form]
                 /\ form.kind = wizard.form.kind
                 /\ form.kind # "plain" /\ proven' = proven
    <3> DEFINE form == [wizard.form EXCEPT ![field] = typed]
    <3>1. wizard.form \in PassphraseForms
      BY <1>0, <2>4, FormIsOf DEF TypePassphrase, On
    <3>2. form \in PassphraseForms
      BY <3>1 DEF PassphraseForms
    <3>3. QED
      BY <2>4, <3>1, <3>2, FormKinds DEF TypePassphrase, Fills
  <2>5. ASSUME NEW name \in Names, TypeName(name)
        PROVE  \E form \in Forms :
                 /\ wizard' = [wizard EXCEPT !.form = form]
                 /\ form.kind = wizard.form.kind
                 /\ form.kind # "plain" /\ proven' = proven
    <3> DEFINE form == [wizard.form EXCEPT !.override = name]
    <3>1. wizard.form \in NameForms
      BY <1>0, <2>5, FormIsOf DEF TypeName, On
    <3>2. form \in NameForms
      BY <3>1 DEF NameForms
    <3>3. QED
      BY <2>5, <3>1, <3>2, FormKinds DEF TypeName, Fills
  <2>6. ASSUME NEW phrase \in Phrases, TypePhrase(phrase)
        PROVE  \E form \in Forms :
                 /\ wizard' = [wizard EXCEPT !.form = form]
                 /\ form.kind = wizard.form.kind
                 /\ form.kind # "plain" /\ proven' = proven
    <3> DEFINE form == [wizard.form EXCEPT !.phrase = phrase, !.error = FALSE]
    <3>1. wizard.form \in RestoreForms
      BY <1>0, <2>6, FormIsOf DEF TypePhrase, On
    <3>2. form \in RestoreForms
      BY <3>1 DEF RestoreForms
    <3>3. QED
      BY <2>6, <3>1, <3>2, FormKinds DEF TypePhrase, Fills
  <2>7. QED
    BY <2>1, <2>2, <2>3, <2>4, <2>5, <2>6 DEF Types
<1>2. Good(wizard)' /\ wizard'.step = wizard.step
  BY <1>1, FillsIsGood
<1>3. wizard.step # "gone"
  BY <1>0, <1>1, FormKinds DEF Good, FormFits
<1>4. QED
  BY <1>1, <1>2, <1>3 DEF Advanced, Late

LEMMA PressesAdvances ==
  ASSUME Good(wizard), NEW who, Presses(who)
  PROVE  Advanced(who) /\ ~Late(wizard) /\ (Early(wizard) => Early(wizard)')
<1>0. wizard.form \in Forms
  BY DEF Good, Wizards
<1>1. CASE ChooseCreate \/ ChooseRestore \/ BackToChoice
  <2>1. PICK step \in {"mnemonic", "restore", "choose_path"} :
          wizard' = To(step) /\ proven' = proven /\ wizard.step \in {"choose_path", "restore"}
    BY <1>1 DEF ChooseCreate, ChooseRestore, BackToChoice, Advances
  <2>2. step \in Steps
    BY DEF Steps
  <2>3. Good(wizard') /\ wizard'.step = step /\ wizard'.form = Form(step)
    BY <2>1, <2>2, ToIsGood
  <2>4. Good(wizard)'
    BY <2>3
  <2>5. Early(wizard)'
    BY <2>3, FormOfStep, <2>2 DEF Early
  <2>6. QED
    BY <2>1, <2>3, <2>4, <2>5 DEF Advanced, Late
<1>2. CASE HandleConfirm
  <2>1. PICK positions \in Positions : Asks(positions) /\ proven' = proven
    BY <1>2 DEF HandleConfirm
  <2>2. wizard.form.kind = "display" /\ wizard.step = "mnemonic"
    BY <1>2 DEF HandleConfirm, ConfirmEnabled, On, Good, FormFits
  <2>3. /\ Good(wizard)' /\ wizard'.step = wizard.step /\ wizard'.form.kind = "verify"
        /\ \A p \in DOMAIN wizard'.form.inputs : wizard'.form.inputs[p] = Blank
    BY <2>1, <2>2, AsksBlank
  <2>4. QED
    BY <2>1, <2>2, <2>3 DEF Advanced, Late, Early
<1>3. CASE HandleVerifySubmit(who)
  <2>1. wizard.form.kind = "verify" /\ wizard.step = "mnemonic" /\ Filled(wizard.form.inputs)
    BY <1>3 DEF HandleVerifySubmit, On, Good, FormFits
  <2>2. ~Early(wizard)
    BY <1>0, <2>1, FormIsOf, SomethingIsAsked DEF Early
  <2>3. proven \subseteq proven' /\ proven' \subseteq proven \cup {who}
    BY <1>3 DEF HandleVerifySubmit
  <2>4. CASE Correct(wizard.form.inputs)
    <3>1. wizard' = To("passphrase") /\ who \in proven'
      BY <1>3, <2>4 DEF HandleVerifySubmit, Correct
    <3>2. Good(wizard') /\ wizard'.step = "passphrase"
      BY <3>1, ToIsGood DEF Steps
    <3>3. Good(wizard)'
      BY <3>2
    <3>4. QED
      BY <2>1, <2>2, <2>3, <3>1, <3>2, <3>3 DEF Advanced, Late
  <2>5. CASE ~Correct(wizard.form.inputs)
    <3>1. PICK positions \in Positions : Asks(positions)
      BY <1>3, <2>5 DEF HandleVerifySubmit
    <3>2. Good(wizard)' /\ wizard'.step = wizard.step
      BY <2>1, <3>1, AsksBlank
    <3>3. QED
      BY <2>1, <2>2, <2>3, <3>2 DEF Advanced, Late
  <2>6. QED
    BY <2>4, <2>5
<1>4. CASE UsePassphrase \/ SkipPassphrase
  <2>1. PICK passphrase \in Passphrases \cup {None} : Keeps(passphrase)
    BY <1>4 DEF UsePassphrase, SkipPassphrase, LongEnough
  <2>2. wizard.step = "passphrase"
    BY <1>4 DEF UsePassphrase, SkipPassphrase, On, Good, FormFits
  <2>3. /\ Good(To("display_name")) /\ To("display_name").step = "display_name"
    BY ToIsGood DEF Steps
  <2>4. wizard' = [To("display_name") EXCEPT !.pending = passphrase] /\ proven' = proven
    BY <2>1 DEF Keeps
  <2>5. Good(wizard') /\ wizard'.step = "display_name"
    BY <2>3, <2>4 DEF Good, Wizards, FormFits, Typed
  <2>6. Good(wizard)'
    BY <2>5
  <2>7. QED
    BY <2>2, <2>4, <2>5, <2>6 DEF Advanced, Late, Early
<1>5. CASE RefusePhrase
  <2> DEFINE form == [wizard.form EXCEPT !.error = TRUE]
  <2>1. /\ wizard.form \in RestoreForms /\ wizard.form.kind = "restore" /\ wizard.step = "restore"
        /\ wizard.form.phrase # "blank" /\ ~wizard.form.submitting
        /\ wizard' = [wizard EXCEPT !.form = form] /\ proven' = proven
    BY <1>0, <1>5, FormIsOf DEF RefusePhrase, MayRestore, On, Fills, Good, FormFits
  <2>2. form \in RestoreForms
    BY <2>1 DEF RestoreForms
  <2>3. form \in Forms /\ form.kind = wizard.form.kind
    BY <2>1, <2>2, FormKinds
  <2> HIDE DEF form
  <2>4. Good(wizard)' /\ wizard'.step = wizard.step
    BY <2>1, <2>3, FillsIsGood
  <2>5. ~Early(wizard)
    BY <2>1 DEF Early
  <2>6. QED
    BY <2>1, <2>4, <2>5 DEF Advanced, Late
<1>6. QED
  BY <1>1, <1>2, <1>3, <1>4, <1>5 DEF Presses

-----------------------------------------------------------------------------
(* Operations begin, move on and end                                       *)

Ops == {"none", "mutate", "change", "enroll", "complete", "restore", "passkey", "native"}
Points == {"idle", "prompt", "queued", "second", "remote"}
Job == [op : Ops, pc : Points, entry : Entry \cup {None}, change : Changes \cup {None},
        before : SUBSET Levels, alone : BOOLEAN]

JobsTyped == job \in [Jobs -> Job] /\ queue \in Seq(Jobs)

(* The types of the rest.                                                  *)
RestTyped ==
  /\ native \in BOOLEAN /\ legacy \in {Earlier, None} /\ (native => legacy = None)
  /\ disk \in Entry \cup {None} /\ fallback \in Entry \cup {None}
  /\ phase \in {"loading", "onboarding", "locked", "locked_native", "ready", "error"}
  /\ memory \in Entry \cup {None}
  /\ (phase = "ready" => memory # None) /\ (phase = "locked" => IsSealed(memory))
  /\ draft \in [who : 0..MaxBoots, key : Keys \cup {None}, named : BOOLEAN]
  /\ proven \subseteq 0..MaxBoots
  /\ phase = "onboarding" <=> wizard.step # "gone"
  /\ salts \in 0..MaxSalts /\ boots \in 1..MaxBoots
  /\ unread \in BOOLEAN /\ torn \in BOOLEAN
  /\ saved \in SUBSET Changes

LEMMA StructureIs ==
  Structure <=> /\ JobsTyped /\ RestTyped /\ JobsWhole /\ OneOpener /\ QueueHolds
                /\ OnboardingJobs /\ PhaseHolds /\ Good(wizard)
  BY DEF Structure, TypeOK, JobsTyped, RestTyped, Good, WizardTypeOK, Wizards, Job, Ops, Points

(* What one operation has of another's beginning.                          *)
Same(v, w) ==
  /\ v.op = w.op /\ v.pc = w.pc /\ v.entry = w.entry /\ v.change = w.change /\ v.before = w.before
  /\ v.alone => w.alone
  /\ w.op = "none" => v = w

LEMMA IdleIsAJob == Idle \in Job /\ Idle.op = "none" /\ Idle.pc = "idle" /\ Idle.entry = None
                      /\ Idle.change = None /\ Idle.before = {} /\ Idle.alone
  BY DEF Idle, Job, Ops, Points

LEMMA BeginDoes ==
  ASSUME JobsTyped, NEW j \in Jobs, NEW op \in Ops, NEW pc \in Points,
         NEW entry \in Entry \cup {None}, NEW change \in Changes \cup {None},
         Begin(j, op, pc, entry, change)
  PROVE  /\ job' \in [Jobs -> Job] /\ job[j].op = "none"
         /\ job'[j].op = op /\ job'[j].pc = pc /\ job'[j].entry = entry /\ job'[j].change = change
         /\ change \in Levels => job'[j].before = memory.meta \cap Levels
         /\ change \notin Levels => job'[j].before = {}
         /\ job'[j].alone => \A i \in Jobs : job[i].op = "none"
         /\ \A i \in Jobs \ {j} :
              Same(job'[i], job[i]) /\ (job[i].op # "none" => ~job'[i].alone)
         /\ queue' = IF pc = "queued" THEN Append(queue, j) ELSE queue
<1> DEFINE new == [op |-> op, pc |-> pc, entry |-> entry, change |-> change,
                   before |-> IF change \in Levels THEN memory.meta \cap Levels ELSE {},
                   alone |-> ~\E i \in Jobs : Busy(i)]
<1>1. new \in Job
  <2>1. (IF change \in Levels THEN memory.meta \cap Levels ELSE {}) \in SUBSET Levels
    OBVIOUS
  <2>2. (~\E i \in Jobs : Busy(i)) \in BOOLEAN
    OBVIOUS
  <2>3. QED
    BY <2>1, <2>2 DEF Job
<1>2. /\ new.op = op /\ new.pc = pc /\ new.entry = entry /\ new.change = change
      /\ change \in Levels => new.before = memory.meta \cap Levels
      /\ change \notin Levels => new.before = {}
  OBVIOUS
<1>3. new.alone => \A i \in Jobs : job[i].op = "none"
  BY DEF Busy
<1>4. /\ job' = [i \in Jobs |-> IF i = j THEN new
                               ELSE IF Busy(i) THEN [job[i] EXCEPT !.alone = FALSE] ELSE job[i]]
      /\ job[j].op = "none" /\ queue' = IF pc = "queued" THEN Append(queue, j) ELSE queue
  BY DEF Begin, Busy
<1> HIDE DEF new
<1>5. job'[j] = new
  BY <1>4
<1>6. ASSUME NEW i \in Jobs \ {j}
      PROVE  job'[i] \in Job /\ Same(job'[i], job[i]) /\ (job[i].op # "none" => ~job'[i].alone)
  <2>1. job[i] \in Job
    BY DEF JobsTyped
  <2>2. CASE Busy(i)
    <3>1. job'[i] = [job[i] EXCEPT !.alone = FALSE]
      BY <1>4, <2>2
    <3>2. QED
      BY <2>1, <2>2, <3>1 DEF Job, Same, Busy
  <2>3. CASE ~Busy(i)
    <3>1. job'[i] = job[i]
      BY <1>4, <2>3
    <3>2. QED
      BY <2>1, <2>3, <3>1 DEF Same, Busy
  <2>4. QED
    BY <2>2, <2>3
<1>7. job' \in [Jobs -> Job]
  BY <1>1, <1>4, <1>5, <1>6
<1>8. QED
  BY <1>2, <1>3, <1>4, <1>5, <1>6, <1>7

LEMMA MoveDoes ==
  ASSUME JobsTyped, NEW j \in Jobs, NEW w \in Job, job' = [job EXCEPT ![j] = w]
  PROVE  /\ job' \in [Jobs -> Job] /\ job'[j] = w
         /\ \A i \in Jobs \ {j} : job'[i] = job[i] /\ Same(job'[i], job[i])
  BY DEF JobsTyped, Same

(* Whoever begins to wait joins the queue, whoever is served leaves it.    *)
LEMMA AppendIs ==
  ASSUME NEW S, NEW q \in Seq(S), NEW x \in S
  PROVE  /\ Append(q, x) \in Seq(S) /\ DOMAIN Append(q, x) = DOMAIN q \cup {Len(q) + 1}
         /\ Append(q, x)[Len(q) + 1] = x /\ \A k \in DOMAIN q : Append(q, x)[k] = q[k]
         /\ DOMAIN q = 1..Len(q) /\ Len(q) \in Nat
  OBVIOUS

LEMMA TailIs ==
  ASSUME NEW S, NEW q \in Seq(S), q # <<>>
  PROVE  /\ Tail(q) \in Seq(S) /\ DOMAIN q = 1..Len(q) /\ Len(q) \in Nat \ {0}
         /\ Len(Tail(q)) = Len(q) - 1 /\ DOMAIN Tail(q) = 1..(Len(q) - 1) /\ Head(q) = q[1]
         /\ \A k \in DOMAIN Tail(q) : Tail(q)[k] = q[k + 1]
  OBVIOUS

LEMMA HoldsAppend ==
  ASSUME NEW S, NEW q \in Seq(S), NEW waiting, Holds(q, waiting), NEW j \in S, j \notin waiting
  PROVE  Append(q, j) \in Seq(S) /\ Holds(Append(q, j), waiting \cup {j})
<1> DEFINE r == Append(q, j)
<1>1. /\ r \in Seq(S) /\ DOMAIN r = DOMAIN q \cup {Len(q) + 1} /\ r[Len(q) + 1] = j
      /\ \A k \in DOMAIN q : r[k] = q[k]
  BY AppendIs
<1> HIDE DEF r
<1>2. \A k \in DOMAIN q : q[k] # j
  BY DEF Holds
<1>3. Holds(r, waiting \cup {j})
  BY <1>1, <1>2 DEF Holds
<1>4. QED
  BY <1>1, <1>3 DEF r

LEMMA HoldsTail ==
  ASSUME NEW S, NEW q \in Seq(S), NEW waiting, Holds(q, waiting), q # <<>>
  PROVE  Tail(q) \in Seq(S) /\ Holds(Tail(q), waiting \ {Head(q)})
<1> DEFINE r == Tail(q)
<1>1. /\ r \in Seq(S) /\ DOMAIN q = 1..Len(q) /\ Len(q) \in Nat \ {0}
      /\ DOMAIN r = 1..(Len(q) - 1) /\ Head(q) = q[1] /\ \A k \in DOMAIN r : r[k] = q[k + 1]
  BY TailIs
<1> HIDE DEF r
<1>2. \A k \in DOMAIN r : k + 1 \in DOMAIN q /\ k + 1 # 1 /\ k \in Int
  BY <1>1
<1>3. 1 \in DOMAIN q
  BY <1>1
<1>4. \A k \in DOMAIN r : r[k] \in waiting \ {Head(q)}
  BY <1>1, <1>2, <1>3 DEF Holds
<1>5. ASSUME NEW i \in waiting \ {Head(q)} PROVE \E k \in DOMAIN r : r[k] = i
  <2>1. PICK m \in DOMAIN q : q[m] = i
    BY <1>5 DEF Holds
  <2>2. m # 1 /\ m \in 1..Len(q)
    BY <1>1, <1>5, <2>1
  <2>3. m - 1 \in DOMAIN r /\ (m - 1) + 1 = m
    BY <1>1, <2>2
  <2>4. QED
    BY <1>1, <2>1, <2>3
<1>6. ASSUME NEW k \in DOMAIN r, NEW l \in DOMAIN r, r[k] = r[l] PROVE k = l
  <2>1. q[k + 1] = q[l + 1]
    BY <1>1, <1>6
  <2>2. k + 1 = l + 1
    BY <1>2, <2>1 DEF Holds
  <2>3. QED
    BY <1>2, <2>2
<1>7. Holds(r, waiting \ {Head(q)})
  BY <1>4, <1>5, <1>6 DEF Holds
<1>8. QED
  BY <1>1, <1>7 DEF r

LEMMA QueueMoves ==
  ASSUME JobsTyped, QueueHolds, NEW j \in Jobs, job' \in [Jobs -> Job],
         \A i \in Jobs \ {j} : job'[i].pc = job[i].pc,
         \/ queue' = queue /\ (j \in Waiting <=> j \in Waiting')
         \/ queue' = Append(queue, j) /\ j \notin Waiting /\ j \in Waiting'
         \/ Serve(j) /\ queue' = Tail(queue) /\ j \notin Waiting'
         \/ Serve(j) /\ queue' = Append(Tail(queue), j) /\ j \in Waiting'
  PROVE  queue' \in Seq(Jobs) /\ QueueHolds'
<1>1. Waiting' \ {j} = Waiting \ {j} /\ Waiting \subseteq Jobs
  BY DEF Waiting
<1>2. queue \in Seq(Jobs) /\ Holds(queue, Waiting)
  BY DEF JobsTyped, QueueHolds
<1>3. CASE queue' = queue /\ (j \in Waiting <=> j \in Waiting')
  <2>1. Waiting' = Waiting
    BY <1>1, <1>3
  <2>2. QED
    BY <1>2, <1>3, <2>1 DEF QueueHolds
<1>4. CASE queue' = Append(queue, j) /\ j \notin Waiting /\ j \in Waiting'
  <2>1. Waiting' = Waiting \cup {j}
    BY <1>1, <1>4
  <2>2. Append(queue, j) \in Seq(Jobs) /\ Holds(Append(queue, j), Waiting \cup {j})
    BY <1>2, <1>4, HoldsAppend
  <2>3. QED
    BY <1>4, <2>1, <2>2 DEF QueueHolds
<1>5. ASSUME Serve(j) PROVE Tail(queue) \in Seq(Jobs) /\ Holds(Tail(queue), Waiting \ {j})
  BY <1>2, <1>5, HoldsTail DEF Serve
<1>6. CASE Serve(j) /\ queue' = Tail(queue) /\ j \notin Waiting'
  <2>1. Waiting' = Waiting \ {j}
    BY <1>1, <1>6
  <2>2. QED
    BY <1>5, <1>6, <2>1 DEF QueueHolds
<1>7. CASE Serve(j) /\ queue' = Append(Tail(queue), j) /\ j \in Waiting'
  <2>1. Waiting' = (Waiting \ {j}) \cup {j}
    BY <1>1, <1>7
  <2>2. /\ Append(Tail(queue), j) \in Seq(Jobs)
        /\ Holds(Append(Tail(queue), j), (Waiting \ {j}) \cup {j})
    BY <1>5, <1>7, HoldsAppend
  <2>3. QED
    BY <1>7, <2>1, <2>2 DEF QueueHolds
<1>8. QED
  BY <1>3, <1>4, <1>6, <1>7

LEMMA SameWhole ==
  ASSUME NEW v, NEW w, NEW isNative, NEW ph, Same(v, w)
  PROVE  (Whole(w, isNative) => Whole(v, isNative)) /\ (InPhase(w, ph) => InPhase(v, ph))
  BY DEF Same, Whole, InPhase

(* One operation begins, moves on or ends, the others go on.               *)
JobsFine == JobsTyped /\ JobsWhole /\ OneOpener /\ QueueHolds /\ OnboardingJobs

Goes(j) ==
  /\ job' \in [Jobs -> Job] /\ \A i \in Jobs \ {j} : Same(job'[i], job[i])
  /\ \/ queue' = queue /\ (job[j].pc \in {"queued", "second"} <=> job'[j].pc \in {"queued", "second"})
     \/ queue' = Append(queue, j) /\ job[j].pc \notin {"queued", "second"} /\ job'[j].pc \in {"queued", "second"}
     \/ Serve(j) /\ queue' = Tail(queue) /\ job'[j].pc \notin {"queued", "second"}
     \/ Serve(j) /\ queue' = Append(Tail(queue), j) /\ job'[j].pc \in {"queued", "second"}

LEMMA GoesKeeps ==
  ASSUME JobsFine, NEW j \in Jobs, Goes(j), native' = native,
         Whole(job'[j], native) /\ InPhase(job'[j], phase'),
         job'[j].op \in Opener => \A i \in Jobs \ {j} : job[i].op \notin Opener,
         job'[j].op = "restore" => Early(wizard') /\ \A i \in Jobs \ {j} : job[i].op # "restore",
         job'[j].op = "complete" /\ phase' = "onboarding" => Late(wizard'),
         \A i \in Jobs \ {j} :
           /\ InPhase(job[i], phase')
           /\ job[i].op = "restore" => Early(wizard')
           /\ job[i].op = "complete" /\ phase' = "onboarding" => Late(wizard')
  PROVE  JobsFine'
<1>0. \A i \in Jobs \ {j} : job'[i].op = job[i].op /\ job'[i].pc = job[i].pc
  BY DEF Goes, Same
<1>1. queue' \in Seq(Jobs) /\ QueueHolds'
  <2>1. (j \in Waiting <=> job[j].pc \in {"queued", "second"}) /\
        (j \in Waiting' <=> job'[j].pc \in {"queued", "second"})
    BY DEF Waiting
  <2>2. QED
    BY <1>0, <2>1, QueueMoves DEF Goes, JobsFine
<1>2. JobsTyped'
  BY <1>1 DEF Goes, JobsTyped
<1>3. JobsWhole'
  <2>1. ASSUME NEW i \in Jobs PROVE Whole(job'[i], native') /\ InPhase(job'[i], phase')
    <3>1. CASE i = j
      BY <3>1
    <3>2. CASE i # j
      <4>1. Whole(job[i], native) /\ InPhase(job[i], phase') /\ Same(job'[i], job[i])
        BY <3>2 DEF JobsFine, JobsWhole, Goes
      <4>2. QED
        BY <4>1, SameWhole
    <3>3. QED
      BY <3>1, <3>2
  <2>2. QED
    BY <2>1 DEF JobsWhole
<1>4. OneOpener'
  BY <1>0 DEF JobsFine, OneOpener
<1>5. OnboardingJobs'
  <2>1. \A i \in Jobs : job'[i].op = "restore" => Early(wizard')
    BY <1>0
  <2>2. \A i, k \in Jobs : job'[i].op = "restore" /\ job'[k].op = "restore" => i = k
    BY <1>0 DEF JobsFine, OnboardingJobs
  <2>3. \A i \in Jobs : job'[i].op = "complete" /\ phase' = "onboarding" => Late(wizard')
    BY <1>0
  <2>4. QED
    BY <2>1, <2>2, <2>3 DEF OnboardingJobs
<1>6. QED
  BY <1>1, <1>2, <1>3, <1>4, <1>5 DEF JobsFine

(* What may begin, and when.                                               *)
May(op, pc, entry, change) ==
  /\ op # "none" /\ pc \in {"prompt", "queued"}
  /\ op \in Opener => pc = "prompt" /\ \A i \in Jobs : job[i].op \notin Opener
  /\ op \in {"mutate", "complete", "restore"} => pc = "queued"
  /\ op \in {"complete", "restore"} => change = None
  /\ (op = "native" => native) /\ (op = "passkey" => ~native)
  /\ op = "native" <=> entry = None
  /\ op \in Setter => phase = "ready"
  /\ op \in Opener => phase \in {"locked", "locked_native"}
  /\ op = "restore" =>
       phase = "onboarding" /\ Early(wizard') /\ \A i \in Jobs : job[i].op # "restore"
  /\ op = "complete" => phase = "onboarding" /\ Late(wizard')

LEMMA BeginKeeps ==
  ASSUME JobsFine, NEW j \in Jobs, NEW op \in Ops, NEW pc \in Points,
         NEW entry \in Entry \cup {None}, NEW change \in Changes \cup {None},
         Begin(j, op, pc, entry, change), May(op, pc, entry, change),
         native' = native, phase' = phase,
         \A i \in Jobs : /\ job[i].op = "restore" => Early(wizard')
                         /\ job[i].op = "complete" /\ phase = "onboarding" => Late(wizard')
  PROVE  JobsFine'
<1>1. JobsTyped
  BY DEF JobsFine
<1>2. /\ job' \in [Jobs -> Job] /\ job[j].op = "none"
      /\ job'[j].op = op /\ job'[j].pc = pc /\ job'[j].entry = entry /\ job'[j].change = change
      /\ \A i \in Jobs \ {j} : Same(job'[i], job[i])
      /\ queue' = IF pc = "queued" THEN Append(queue, j) ELSE queue
  BY <1>1, BeginDoes
<1>3. job[j].pc = "idle"
  BY <1>2, IdleIsAJob DEF JobsFine, JobsWhole, Whole
<1>4. Goes(j)
  BY <1>2, <1>3 DEF May, Goes
<1>5. Whole(job'[j], native)
  BY <1>2 DEF May, Whole, Ops, Opener
<1>6. InPhase(job'[j], phase')
  BY <1>2 DEF May, InPhase, Opener, Setter
<1>7. \A i \in Jobs \ {j} : InPhase(job[i], phase')
  BY DEF JobsFine, JobsWhole
<1>8. QED
  BY <1>2, <1>4, <1>5, <1>6, <1>7, GoesKeeps DEF May

(* One moves on or ends.                                                   *)
LEMMA MoveKeeps ==
  ASSUME JobsFine, NEW j \in Jobs, NEW w \in Job, job' = [job EXCEPT ![j] = w],
         \/ queue' = queue /\ (job[j].pc \in {"queued", "second"} <=> w.pc \in {"queued", "second"})
         \/ queue' = Append(queue, j) /\ job[j].pc \notin {"queued", "second"} /\ w.pc \in {"queued", "second"}
         \/ Serve(j) /\ queue' = Tail(queue) /\ w.pc \notin {"queued", "second"}
         \/ Serve(j) /\ queue' = Append(Tail(queue), j) /\ w.pc \in {"queued", "second"},
         native' = native, Whole(w, native) /\ InPhase(w, phase'), w.op \in {"none", job[j].op},
         w.op = "restore" => Early(wizard'),
         w.op = "complete" /\ phase' = "onboarding" => Late(wizard'),
         \A i \in Jobs \ {j} :
           /\ InPhase(job[i], phase')
           /\ job[i].op = "restore" => Early(wizard')
           /\ job[i].op = "complete" /\ phase' = "onboarding" => Late(wizard')
  PROVE  JobsFine'
<1>1. JobsTyped
  BY DEF JobsFine
<1>2. job' \in [Jobs -> Job] /\ job'[j] = w /\ \A i \in Jobs \ {j} : Same(job'[i], job[i])
  BY <1>1, MoveDoes
<1>3. Goes(j)
  BY <1>2 DEF Goes
<1>4. w.op \in Opener => \A i \in Jobs \ {j} : job[i].op \notin Opener
  BY DEF JobsFine, OneOpener, Opener
<1>5. w.op = "restore" => \A i \in Jobs \ {j} : job[i].op # "restore"
  BY DEF JobsFine, OnboardingJobs
<1>6. QED
  BY <1>2, <1>3, <1>4, <1>5, GoesKeeps

(* None is under way in some phases, and one at most in others.            *)
LEMMA NobodyElse ==
  ASSUME JobsFine
  PROVE  /\ phase \in {"loading", "error"} => \A i \in Jobs : job[i].op = "none"
         /\ phase \in {"locked", "locked_native"} => \A i \in Jobs : job[i].op \in Opener \cup {"none"}
         /\ \A j \in Jobs : job[j].op \in Opener => \A i \in Jobs \ {j} : job[i].op = "none"
         /\ \A j \in Jobs : job[j].op = "restore" =>
              phase = "onboarding" /\ \A i \in Jobs \ {j} : job[i].op = "none"
         /\ wizard.step = "complete" /\ phase = "onboarding" =>
              \A i \in Jobs : job[i].op \in {"none", "complete"}
<1>1. \A i \in Jobs : job[i].op \in Ops
  BY DEF JobsFine, JobsTyped, Job
<1>2. /\ phase \in {"loading", "error"} => \A i \in Jobs : job[i].op = "none"
      /\ phase \in {"locked", "locked_native"} => \A i \in Jobs : job[i].op \in Opener \cup {"none"}
  BY <1>1 DEF JobsFine, JobsWhole, InPhase, Ops, Opener, Setter
<1>3. ASSUME NEW j \in Jobs, job[j].op \in Opener PROVE \A i \in Jobs \ {j} : job[i].op = "none"
  <2>1. phase \in {"locked", "locked_native"}
    BY <1>3 DEF JobsFine, JobsWhole, InPhase
  <2>2. QED
    BY <1>2, <1>3, <2>1 DEF JobsFine, OneOpener
<1>4. ASSUME NEW j \in Jobs, job[j].op = "restore"
      PROVE  phase = "onboarding" /\ \A i \in Jobs \ {j} : job[i].op = "none"
  <2>1. phase = "onboarding" /\ Early(wizard)
    BY <1>4 DEF JobsFine, JobsWhole, InPhase, OnboardingJobs
  <2>2. ~Late(wizard)
    BY <2>1 DEF Early, Late
  <2>3. \A i \in Jobs \ {j} : job[i].op \notin {"restore", "complete"}
    BY <1>4, <2>1, <2>2 DEF JobsFine, OnboardingJobs
  <2>4. \A i \in Jobs : job[i].op \notin Setter \cup Opener
    BY <2>1 DEF JobsFine, JobsWhole, InPhase
  <2>5. QED
    BY <1>1, <2>1, <2>3, <2>4 DEF Ops, Setter, Opener
<1>5. wizard.step = "complete" /\ phase = "onboarding" =>
        \A i \in Jobs : job[i].op \in {"none", "complete"}
  <2>1. wizard.step = "complete" => ~Early(wizard)
    BY DEF Early
  <2>2. phase = "onboarding" => \A i \in Jobs : job[i].op \notin Setter \cup Opener
    BY DEF JobsFine, JobsWhole, InPhase
  <2>3. QED
    BY <1>1, <2>1, <2>2 DEF JobsFine, OnboardingJobs, Ops, Setter, Opener
<1>6. QED
  BY <1>2, <1>3, <1>4, <1>5

-----------------------------------------------------------------------------
(* Every step keeps the first layer                                        *)

LEMMA EntriesAre ==
  /\ None \notin Entry /\ Earlier \in Entry /\ ~IsSealed(Earlier) /\ ~IsSealed(None)
  /\ NoDraft \in [who : 0..MaxBoots, key : Keys \cup {None}, named : BOOLEAN]
  /\ \A entry \in Entry : IsBundle(entry)
  /\ \A entry \in Entry, key \in Keys \cup {None} :
       /\ Sealed(entry, key) \in Entry /\ Sealed(entry, key).who = entry.who
       /\ Sealed(entry, key).meta = entry.meta /\ Sealed(entry, key).key = key
       /\ Sealed(entry, key).passkey = None
  /\ \A entry \in Entry :
       /\ WithPasskey(entry) \in Entry /\ WithPasskey(entry).who = entry.who
       /\ WithPasskey(entry).meta = entry.meta /\ WithPasskey(entry).key = entry.key
       /\ WithPasskey(entry).passkey = entry.key
  /\ \A entry \in Entry, meta \in SUBSET Changes :
       LET with == [entry EXCEPT !.meta = meta] IN
       /\ with \in Entry /\ with.who = entry.who /\ with.meta = meta /\ with.key = entry.key
       /\ with.passkey = entry.passkey
  /\ \A who \in 0..MaxBoots, meta \in SUBSET Changes, key \in Keys \cup {None} :
       [who |-> who, meta |-> meta, key |-> key, passkey |-> None] \in Entry
<1>1. None \notin Entry
  BY NullAssumption
<1>2. MaxBoots \in Nat /\ 0 \in 0..MaxBoots
  BY BoundsAssumption
<1>3. Earlier \in Entry /\ ~IsSealed(Earlier) /\ ~IsSealed(None)
  BY <1>2 DEF Earlier, Entry, IsSealed, Recovered
<1>4. NoDraft \in [who : 0..MaxBoots, key : Keys \cup {None}, named : BOOLEAN]
  BY <1>2 DEF NoDraft, Recovered
<1>5. \A entry \in Entry : IsBundle(entry)
  BY <1>1 DEF IsBundle
<1>6. \A entry \in Entry, key \in Keys \cup {None} :
       /\ Sealed(entry, key) \in Entry /\ Sealed(entry, key).who = entry.who
       /\ Sealed(entry, key).meta = entry.meta /\ Sealed(entry, key).key = key
       /\ Sealed(entry, key).passkey = None
  BY DEF Sealed, Entry
<1>7. \A entry \in Entry :
       /\ WithPasskey(entry) \in Entry /\ WithPasskey(entry).who = entry.who
       /\ WithPasskey(entry).meta = entry.meta /\ WithPasskey(entry).key = entry.key
       /\ WithPasskey(entry).passkey = entry.key
  BY DEF WithPasskey, Entry
<1>8. ASSUME NEW entry \in Entry, NEW meta \in SUBSET Changes
      PROVE  LET with == [entry EXCEPT !.meta = meta] IN
             /\ with \in Entry /\ with.who = entry.who /\ with.meta = meta /\ with.key = entry.key
             /\ with.passkey = entry.passkey
  BY DEF Entry
<1>9. \A who \in 0..MaxBoots, meta \in SUBSET Changes, key \in Keys \cup {None} :
       [who |-> who, meta |-> meta, key |-> key, passkey |-> None] \in Entry
  BY DEF Entry
<1>10. QED
  BY <1>1, <1>3, <1>4, <1>5, <1>6, <1>7, <1>8, <1>9

Frame == RestTyped /\ PhaseHolds /\ Good(wizard)

LEMMA StructureParts == Structure <=> JobsFine /\ Frame
  BY StructureIs DEF JobsFine, Frame

LEMMA StructureNext ==
  ASSUME JobsFine', Frame'
  PROVE  Structure'
  BY DEF JobsFine, Frame, Structure, TypeOK, JobsTyped, RestTyped, Good, WizardTypeOK, Wizards,
         Job, Ops, Points

LEMMA FrameStays ==
  ASSUME Frame, UNCHANGED <<device, stores, phase, memory, boots, unread>>,
         draft' \in [who : 0..MaxBoots, key : Keys \cup {None}, named : BOOLEAN],
         torn' \in BOOLEAN, saved' \in SUBSET Changes, salts' \in 0..MaxSalts,
         Good(wizard'), wizard'.step = "gone" <=> wizard.step = "gone", proven' \subseteq 0..MaxBoots
  PROVE  Frame'
<1>1. RestTyped'
  BY DEF Frame, RestTyped, device, stores
<1>2. PhaseHolds'
  BY DEF Frame, PhaseHolds, device, stores
<1>3. Good(wizard)'
  OBVIOUS
<1>4. QED
  BY <1>1, <1>2, <1>3 DEF Frame

LEMMA FrameSame ==
  ASSUME Frame, UNCHANGED <<device, onboarding, stores, phase, memory, draft, boots, unread, torn>>,
         salts' \in 0..MaxSalts, saved' \in SUBSET Changes
  PROVE  Frame'
<1>1. /\ draft' \in [who : 0..MaxBoots, key : Keys \cup {None}, named : BOOLEAN]
      /\ torn' \in BOOLEAN /\ proven' \subseteq 0..MaxBoots /\ Good(wizard') /\ wizard' = wizard
  BY DEF Frame, RestTyped, onboarding
<1>2. QED
  BY <1>1, FrameStays

(* The person asks for something.                                          *)
LEMMA AskPasskeyKeeps ==
  ASSUME Structure, NEW j \in Jobs, AskPasskey(j)
  PROVE  Structure'
<1>1. JobsFine /\ Frame
  BY StructureParts
<1>2. phase = "locked" /\ memory \in Entry /\ memory # None /\ ~Unlocking /\ ~native
  BY <1>1, EntriesAre DEF AskPasskey, MayPress, Methods, PasskeyOffered, NativeOffered, Frame, RestTyped, IsSealed
<1>3. May("passkey", "prompt", memory, None)
  BY <1>2 DEF May, Unlocking, Opener, Setter
<1>4. Begin(j, "passkey", "prompt", memory, None) /\ native' = native /\ phase' = phase /\ wizard' = wizard
  BY DEF AskPasskey, device, onboarding
<1>5. JobsFine'
  BY <1>1, <1>2, <1>3, <1>4, BeginKeeps DEF Ops, Points, JobsFine, OnboardingJobs
<1>6. Frame'
  BY <1>1, FrameSame DEF AskPasskey, Frame, RestTyped, history
<1>7. QED
  BY <1>5, <1>6, StructureNext

LEMMA AskNativeKeeps ==
  ASSUME Structure, NEW j \in Jobs, AskNative(j)
  PROVE  Structure'
<1>1. JobsFine /\ Frame
  BY StructureParts
<1>2. phase \in {"locked", "locked_native"} /\ native /\ ~Unlocking
  BY DEF AskNative, MayPress, Methods, PasskeyOffered, NativeOffered, Locked
<1>3. May("native", "prompt", None, None)
  BY <1>2 DEF May, Unlocking, Opener, Setter
<1>4. Begin(j, "native", "prompt", None, None) /\ native' = native /\ phase' = phase /\ wizard' = wizard
  BY DEF AskNative, device, onboarding
<1>5. JobsFine'
  BY <1>1, <1>2, <1>3, <1>4, BeginKeeps DEF Ops, Points, JobsFine, OnboardingJobs
<1>6. Frame'
  BY <1>1, FrameSame DEF AskNative, Frame, RestTyped, history
<1>7. QED
  BY <1>5, <1>6, StructureNext

(* What an unlocked application asks for.                                  *)
LEMMA SetterKeeps ==
  ASSUME Structure, NEW j \in Jobs, NEW op \in Setter, NEW pc \in {"prompt", "queued"},
         op = "mutate" => pc = "queued",
         NEW entry \in Entry, NEW change \in Changes \cup {None},
         Begin(j, op, pc, entry, change), phase = "ready", salts' \in 0..MaxSalts,
         UNCHANGED <<device, onboarding, stores, phase, memory, draft, boots, history>>
  PROVE  Structure'
<1>1. JobsFine /\ Frame
  BY StructureParts
<1>2. May(op, pc, entry, change)
  BY EntriesAre DEF May, Opener, Setter
<1>3. native' = native /\ phase' = phase /\ wizard' = wizard
  BY DEF device, onboarding
<1>4. op \in Ops /\ pc \in Points
  BY DEF Ops, Points, Setter
<1>5. JobsFine'
  BY <1>1, <1>2, <1>3, <1>4, BeginKeeps DEF JobsFine, OnboardingJobs
<1>6. unread' = unread /\ torn' = torn /\ saved' \in SUBSET Changes
  BY <1>1 DEF history, Frame, RestTyped
<1>7. Frame'
  BY <1>1, <1>6, FrameSame
<1>8. QED
  BY <1>5, <1>7, StructureNext

(* What the operations of the settings put into an entry.                  *)
LEMMA SettingsAre ==
  ASSUME Structure
  PROVE  /\ phase = "ready" => memory \in Entry /\ memory # None
         /\ \A c \in Changes : phase = "ready" => memory.meta \cup {c} \in SUBSET Changes
         /\ \A f \in Fields : MaySubmit(f) /\ SettingNew(f) /\ salts < MaxSalts =>
              f.next \in Passphrases /\ NewKey(f.next) \in Keys /\ NewKey(f.next)[1] = f.next
              /\ NewKey(f.next)[2] = salts + 1 /\ salts + 1 \in 0..MaxSalts /\ NewKey(f.next) # None
<1>1. JobsFine /\ Frame
  BY StructureParts
<1>2. phase = "ready" => memory \in Entry /\ memory # None
  BY <1>1 DEF Frame, RestTyped
<1>3. \A c \in Changes : phase = "ready" => memory.meta \cup {c} \in SUBSET Changes
  BY <1>2 DEF Entry
<1>4. ASSUME NEW f \in Fields, MaySubmit(f), SettingNew(f), salts < MaxSalts
      PROVE  f.next \in Passphrases /\ NewKey(f.next) \in Keys /\ NewKey(f.next)[1] = f.next
              /\ NewKey(f.next)[2] = salts + 1 /\ salts + 1 \in 0..MaxSalts /\ NewKey(f.next) # None
  <2>1. f.next \in Passphrases
    BY <1>4 DEF Fields, Typed, MaySubmit, SettingNew
  <2>2. salts + 1 \in 1..MaxSalts
    BY <1>1, <1>4, BoundsAssumption DEF Frame, RestTyped
  <2>3. NewKey(f.next) \in Keys
    BY <2>1, <2>2 DEF NewKey, Keys
  <2>4. QED
    BY <2>1, <2>2, <2>3, NullAssumption DEF NewKey
<1>5. QED
  BY <1>2, <1>3, <1>4

LEMMA MutateKeeps ==
  ASSUME Structure, NEW j \in Jobs, NEW c \in Changes, Mutate(j, c)
  PROVE  Structure'
<1> DEFINE entry == [memory EXCEPT !.meta = @ \cup {c}]
<1>1. phase = "ready" /\ memory \in Entry /\ memory.meta \cup {c} \in SUBSET Changes
  BY SettingsAre DEF Mutate
<1>2. entry \in Entry
  BY <1>1, EntriesAre
<1>3. /\ Begin(j, "mutate", "queued", entry, c) /\ salts' = salts
      /\ UNCHANGED <<device, onboarding, stores, phase, memory, draft, boots, history>>
  BY DEF Mutate
<1> HIDE DEF entry
<1>4. salts' \in 0..MaxSalts
  BY <1>3, StructureParts DEF Frame, RestTyped
<1>5. QED
  BY <1>1, <1>2, <1>3, <1>4, SetterKeeps DEF Setter

LEMMA SetPassphraseKeeps ==
  ASSUME Structure, NEW j \in Jobs, NEW f \in Fields, phase = "ready", SetPassphrase(j, f)
  PROVE  Structure'
<1>1. /\ memory \in Entry /\ NewKey(f.next) \in Keys /\ salts + 1 \in 0..MaxSalts
  BY SettingsAre DEF SetPassphrase
<1>2. Sealed(memory, NewKey(f.next)) \in Entry
  BY <1>1, EntriesAre
<1>3. PICK pc \in {"prompt", "queued"} :
        Begin(j, "change", pc, Sealed(memory, NewKey(f.next)), None)
  BY DEF SetPassphrase
<1>4. /\ salts' = salts + 1
      /\ UNCHANGED <<device, onboarding, stores, phase, memory, draft, boots, history>>
  BY DEF SetPassphrase
<1>5. QED
  BY <1>1, <1>2, <1>3, <1>4, SetterKeeps DEF Setter

LEMMA RemovePassphraseKeeps ==
  ASSUME Structure, NEW j \in Jobs, NEW f \in Fields, phase = "ready", RemovePassphrase(j, f)
  PROVE  Structure'
<1>1. memory \in Entry
  BY SettingsAre
<1>2. Sealed(memory, None) \in Entry
  BY <1>1, EntriesAre
<1>3. /\ Begin(j, "change", "queued", Sealed(memory, None), None) /\ salts' = salts
      /\ UNCHANGED <<device, onboarding, stores, phase, memory, draft, boots, history>>
  BY DEF RemovePassphrase
<1>4. salts' \in 0..MaxSalts
  BY <1>3, StructureParts DEF Frame, RestTyped
<1>5. QED
  BY <1>1, <1>2, <1>3, <1>4, SetterKeeps DEF Setter

LEMMA EnrollPasskeyKeeps ==
  ASSUME Structure, NEW j \in Jobs, EnrollPasskey(j)
  PROVE  Structure'
<1>1. memory \in Entry /\ phase = "ready"
  BY SettingsAre DEF EnrollPasskey, MayEnroll
<1>2. /\ Begin(j, "enroll", "prompt", memory, None) /\ salts' = salts
      /\ UNCHANGED <<device, onboarding, stores, phase, memory, draft, boots, history>>
  BY DEF EnrollPasskey
<1>3. salts' \in 0..MaxSalts
  BY <1>2, StructureParts DEF Frame, RestTyped
<1>4. QED
  BY <1>1, <1>2, <1>3, SetterKeeps DEF Setter

LEMMA MoveStays ==
  ASSUME JobsFine, NEW j \in Jobs, NEW w \in Job, job' = [job EXCEPT ![j] = w],
         \/ queue' = queue /\ (job[j].pc \in {"queued", "second"} <=> w.pc \in {"queued", "second"})
         \/ queue' = Append(queue, j) /\ job[j].pc \notin {"queued", "second"} /\ w.pc \in {"queued", "second"}
         \/ Serve(j) /\ queue' = Tail(queue) /\ w.pc \notin {"queued", "second"}
         \/ Serve(j) /\ queue' = Append(Tail(queue), j) /\ w.pc \in {"queued", "second"},
         native' = native, phase' = phase, wizard' = wizard,
         Whole(w, native), w.op \in {"none", job[j].op}
  PROVE  JobsFine'
<1>1. InPhase(w, phase')
  BY DEF JobsFine, JobsWhole, InPhase, Setter, Opener
<1>2. /\ w.op = "restore" => Early(wizard')
      /\ w.op = "complete" /\ phase' = "onboarding" => Late(wizard')
  BY DEF JobsFine, OnboardingJobs
<1>3. \A i \in Jobs \ {j} :
           /\ InPhase(job[i], phase')
           /\ job[i].op = "restore" => Early(wizard')
           /\ job[i].op = "complete" /\ phase' = "onboarding" => Late(wizard')
  BY DEF JobsFine, JobsWhole, OnboardingJobs
<1>4. QED
  BY <1>1, <1>2, <1>3, MoveKeeps

LEMMA IdleIsWhole ==
  /\ Idle \in Job /\ Idle.op = "none" /\ Idle.pc = "idle"
  /\ \A isNative, ph : Whole(Idle, isNative) /\ InPhase(Idle, ph)
  BY IdleIsAJob DEF Whole, InPhase, Opener, Setter

LEMMA ServedIs ==
  ASSUME JobsFine, NEW j \in Jobs, Serve(j)
  PROVE  /\ job[j] \in Job /\ job[j].pc \in {"queued", "second"} /\ job[j].entry \in Entry
         /\ job[j].entry # None
         /\ job[j].op \in {"mutate", "change", "enroll", "complete", "restore"}
         /\ job[j].pc = "second" => native /\ IsSealed(job[j].entry)
         /\ job[j].op \in Setter => phase = "ready"
         /\ phase \in {"ready", "onboarding"}
<1>1. queue \in Seq(Jobs) /\ queue # <<>> /\ Head(queue) = j
  BY DEF JobsFine, JobsTyped, Serve
<1>2. 1 \in DOMAIN queue /\ Head(queue) = queue[1]
  BY <1>1
<1>3. j \in Waiting
  BY <1>1, <1>2 DEF JobsFine, QueueHolds, Holds
<1>4. job[j] \in Job /\ Whole(job[j], native) /\ InPhase(job[j], phase)
  BY DEF JobsFine, JobsTyped, JobsWhole
<1>5. job[j].pc \in {"queued", "second"}
  BY <1>3 DEF Waiting
<1>6. job[j].op \in {"mutate", "change", "enroll", "complete", "restore"}
  BY <1>4, <1>5, IdleIsAJob DEF Whole, Job, Ops, Opener
<1>7. job[j].entry # None /\ job[j].entry \in Entry
  BY <1>4, <1>5, <1>6 DEF Whole, Job
<1>8. phase \in {"ready", "onboarding"}
  BY <1>4, <1>6 DEF InPhase, Setter
<1>9. QED
  BY <1>4, <1>5, <1>6, <1>7, <1>8 DEF Whole, InPhase

(* Steps of one operation that leave the phase and the flow alone.         *)
LEMMA WrapKeeps ==
  ASSUME Structure, NEW j \in Jobs, Wrap(j)
  PROVE  Structure'
<1>1. JobsFine /\ Frame
  BY StructureParts
<1> DEFINE w == [job[j] EXCEPT !.pc = "queued", !.entry = WithPasskey(@)]
<1>2. job[j] \in Job /\ Whole(job[j], native)
  BY <1>1 DEF JobsFine, JobsTyped, JobsWhole
<1>3. job[j].entry \in Entry /\ job[j].op \in {"enroll", "change"} /\ job[j].pc = "prompt"
  BY <1>2 DEF Wrap, Whole, Job
<1>4. WithPasskey(job[j].entry) \in Entry /\ WithPasskey(job[j].entry) # None
  BY <1>3, EntriesAre
<1>5. /\ w \in Job /\ w.pc = "queued" /\ w.op = job[j].op /\ w.entry = WithPasskey(job[j].entry)
  BY <1>2, <1>4 DEF Job, Points
<1>6. job' = [job EXCEPT ![j] = w] /\ queue' = Append(queue, j)
  <2>1. job' = [job EXCEPT ![j].pc = "queued", ![j].entry = WithPasskey(@)]
    BY DEF Wrap
  <2>2. QED
    BY <1>1, <2>1 DEF JobsFine, JobsTyped, Wrap
<1> HIDE DEF w
<1>7. Whole(w, native)
  BY <1>3, <1>4, <1>5 DEF Whole, Opener
<1>8. native' = native /\ phase' = phase /\ wizard' = wizard
  BY DEF Wrap, device, onboarding
<1>9. JobsFine'
  BY <1>1, <1>3, <1>5, <1>6, <1>7, <1>8, MoveStays
<1>10. Frame'
  BY <1>1, FrameSame DEF Wrap, Frame, RestTyped, history
<1>11. QED
  BY <1>9, <1>10, StructureNext

LEMMA DeclineKeeps ==
  ASSUME Structure, NEW j \in Jobs, Decline(j)
  PROVE  Structure'
<1>1. JobsFine /\ Frame
  BY StructureParts
<1>2. /\ job' = [job EXCEPT ![j] = Idle] /\ queue' = queue /\ job[j].pc = "prompt"
      /\ native' = native /\ phase' = phase /\ wizard' = wizard
  BY DEF Decline, Ends, device, onboarding
<1>3. JobsFine'
  BY <1>1, <1>2, MoveStays, IdleIsWhole
<1>4. Frame'
  BY <1>1, FrameSame DEF Decline, Frame, RestTyped, history
<1>5. QED
  BY <1>3, <1>4, StructureNext

LEMMA ConfirmedKeeps ==
  ASSUME Structure, NEW j \in Jobs, Confirmed(j)
  PROVE  Structure'
<1>1. JobsFine /\ Frame
  BY StructureParts
<1>2. /\ job' = [job EXCEPT ![j] = Idle] /\ queue' = queue /\ job[j].pc = "remote"
      /\ native' = native /\ phase' = phase /\ wizard' = wizard
  BY DEF Confirmed, Ends, device, onboarding
<1>3. JobsFine'
  BY <1>1, <1>2, MoveStays, IdleIsWhole
<1>4. job[j].change \in Changes
  BY <1>1, <1>2, LevelsAssumption DEF JobsFine, JobsWhole, Whole
<1>5. saved' \in SUBSET Changes
  BY <1>1, <1>4 DEF Confirmed, Frame, RestTyped
<1>6. Frame'
  BY <1>1, <1>5, FrameSame DEF Confirmed, Frame, RestTyped
<1>7. QED
  BY <1>3, <1>6, StructureNext

LEMMA RefusedKeeps ==
  ASSUME Structure, NEW j \in Jobs, Refused(j)
  PROVE  Structure'
<1>1. JobsFine /\ Frame
  BY StructureParts
<1> DEFINE entry == [memory EXCEPT !.meta = (@ \ Levels) \cup job[j].before]
           w == [job[j] EXCEPT !.pc = "queued", !.change = None, !.entry = entry, !.before = {}]
<1>2. job[j] \in Job /\ Whole(job[j], native) /\ job[j].pc = "remote"
  BY <1>1 DEF JobsFine, JobsTyped, JobsWhole, Refused
<1>3. memory \in Entry /\ (memory.meta \ Levels) \cup job[j].before \in SUBSET Changes
  <2>1. memory \in Entry
    BY SettingsAre DEF Refused
  <2>2. memory.meta \in SUBSET Changes /\ job[j].before \in SUBSET Levels
    BY <1>2, <2>1 DEF Entry, Job
  <2>3. QED
    BY <2>1, <2>2, LevelsAssumption
<1>4. entry \in Entry /\ entry # None
  <2>1. entry \in Entry
    BY <1>3 DEF Entry
  <2>2. QED
    BY <2>1, EntriesAre
<1>5. job' = [job EXCEPT ![j] = w]
  <2>1. job' = [job EXCEPT ![j].pc = "queued", ![j].change = None, ![j].entry = entry,
                           ![j].before = {}]
    BY DEF Refused
  <2> HIDE DEF entry
  <2>2. QED
    BY <1>1, <2>1 DEF JobsFine, JobsTyped
<1> HIDE DEF entry
<1>6. /\ w \in Job /\ w.pc = "queued" /\ w.op = job[j].op /\ w.entry = entry /\ w.change = None
  BY <1>2, <1>4 DEF Job, Points
<1> HIDE DEF w
<1>7. job[j].op = "mutate"
  BY <1>2, IdleIsAJob DEF Whole, Job, Ops, Opener
<1>8. Whole(w, native)
  BY <1>2, <1>4, <1>6, <1>7 DEF Whole, Opener
<1>9. native' = native /\ phase' = phase /\ wizard' = wizard /\ queue' = Append(queue, j)
  BY DEF Refused, device, onboarding
<1>10. JobsFine'
  BY <1>1, <1>2, <1>5, <1>6, <1>8, <1>9, MoveStays
<1>11. Frame'
  BY <1>1, FrameSame DEF Refused, Frame, RestTyped, history
<1>12. QED
  BY <1>10, <1>11, StructureNext

(* What a write leaves behind, and what then is in memory.                 *)
LEMMA StoresKeep ==
  ASSUME JobsFine, Frame, NEW j \in Jobs, Serve(j),
         \/ disk' = job[j].entry /\ fallback' = fallback
         \/ disk' = disk /\ fallback' = job[j].entry /\ job[j].pc = "second"
         \/ disk' = disk /\ fallback' = fallback,
         UNCHANGED <<native, legacy, boots, unread>>,
         \/ phase' = phase /\ memory' = memory /\ (wizard'.step = "gone" <=> wizard.step = "gone")
         \/ phase' = "ready" /\ memory' = job[j].entry /\ wizard'.step = "gone",
         draft' \in [who : 0..MaxBoots, key : Keys \cup {None}, named : BOOLEAN],
         Good(wizard'), proven' = proven,
         salts' \in 0..MaxSalts, torn' \in BOOLEAN, saved' \in SUBSET Changes
  PROVE  Frame'
<1>1. /\ job[j].entry \in Entry /\ job[j].entry # None
      /\ job[j].pc = "second" => native
      /\ phase \in {"ready", "onboarding"}
  BY ServedIs
<1>2. RestTyped'
  <2>1. /\ disk' \in Entry \cup {None} /\ fallback' \in Entry \cup {None}
        /\ memory' \in Entry \cup {None}
    BY <1>1 DEF Frame, RestTyped
  <2>2. /\ phase' \in {"onboarding", "ready"} /\ (phase' = "ready" => memory' # None)
        /\ phase' = "onboarding" <=> wizard'.step # "gone"
    BY <1>1 DEF Frame, RestTyped
  <2>3. QED
    BY <2>1, <2>2 DEF Frame, RestTyped
<1>3. PhaseHolds'
  BY <1>1 DEF Frame, PhaseHolds
<1>4. Good(wizard)'
  OBVIOUS
<1>5. QED
  BY <1>2, <1>3, <1>4 DEF Frame

LEMMA StoreFirstKeeps ==
  ASSUME Structure, NEW j \in Jobs, StoreFirst(j)
  PROVE  Structure'
<1>1. JobsFine /\ Frame
  BY StructureParts
<1>2. Serve(j) /\ job[j].pc = "queued" /\ native /\ IsSealed(job[j].entry)
  BY DEF StoreFirst
<1>3. /\ job[j] \in Job /\ job[j].entry # None /\ Whole(job[j], native)
      /\ job[j].op \in {"mutate", "change", "enroll", "complete", "restore"}
  BY <1>1, <1>2, ServedIs DEF JobsFine, JobsWhole
<1> DEFINE w == [job[j] EXCEPT !.pc = "second"]
<1>4. w \in Job /\ w.pc = "second" /\ w.op = job[j].op /\ w.entry = job[j].entry /\ w.change = job[j].change
  BY <1>3 DEF Job, Points
<1>5. /\ job' = [job EXCEPT ![j] = w] /\ queue' = Append(Tail(queue), j)
      /\ native' = native /\ phase' = phase /\ wizard' = wizard
  BY DEF StoreFirst, device, onboarding
<1> HIDE DEF w
<1>6. Whole(w, native)
  BY <1>2, <1>3, <1>4 DEF Whole, Opener
<1>7. JobsFine'
  BY <1>1, <1>2, <1>4, <1>5, <1>6, MoveStays
<1>8. Frame'
  BY <1>1, <1>2, StoresKeep DEF StoreFirst, Frame, RestTyped, device, onboarding, history
<1>9. QED
  BY <1>7, <1>8, StructureNext

LEMMA StoreLastIs ==
  ASSUME JobsFine, NEW j \in Jobs, StoreLast(j)
  PROVE  /\ Serve(j) /\ queue' = Tail(queue)
         /\ \/ disk' = job[j].entry /\ fallback' = fallback /\ job[j].pc = "queued"
               /\ ~(native /\ IsSealed(job[j].entry))
            \/ disk' = disk /\ fallback' = job[j].entry /\ job[j].pc = "second"
<1>1. Serve(j)
  BY DEF StoreLast
<1>2. job[j].pc \in {"queued", "second"}
  BY <1>1, ServedIs
<1>3. QED
  BY <1>1, <1>2 DEF StoreLast

LEMMA MutateEnds ==
  ASSUME Structure, NEW j \in Jobs, EndMutate(j)
  PROVE  Structure'
<1>1. JobsFine /\ Frame
  BY StructureParts
<1>2. /\ job[j].op = "mutate" /\ Serve(j) /\ queue' = Tail(queue)
      /\ phase' = "ready" /\ memory' = job[j].entry
      /\ \/ disk' = job[j].entry /\ fallback' = fallback
         \/ disk' = disk /\ fallback' = job[j].entry /\ job[j].pc = "second"
      /\ native' = native /\ legacy' = legacy /\ wizard' = wizard /\ proven' = proven
      /\ draft' = draft /\ salts' = salts /\ boots' = boots /\ unread' = unread /\ torn' = torn
  BY <1>1, StoreLastIs DEF EndMutate, Apply, device, onboarding
<1>3. /\ job[j] \in Job /\ job[j].entry # None /\ job[j].op = "mutate" /\ phase = "ready"
      /\ Whole(job[j], native)
  BY <1>1, <1>2, ServedIs DEF JobsFine, JobsWhole, Setter
<1>4. wizard'.step = "gone" /\ saved' \in SUBSET Changes
  <2>1. wizard'.step = "gone"
    BY <1>1, <1>2, <1>3 DEF Frame, RestTyped
  <2>2. saved \in SUBSET Changes /\ job[j].change \in Changes \cup {None}
    BY <1>1, <1>3 DEF Frame, RestTyped, Job
  <2>3. saved' \in {saved, saved \cup {job[j].change}} /\ (saved' = saved \/ job[j].change # None)
    BY DEF EndMutate
  <2>4. QED
    BY <2>1, <2>2, <2>3
<1>5. Frame'
  BY <1>1, <1>2, <1>4, StoresKeep DEF Frame, RestTyped
<1>6. CASE job[j].change \in Levels
  <2> DEFINE w == [job[j] EXCEPT !.pc = "remote", !.entry = None]
  <2>1. /\ w \in Job /\ w.pc = "remote" /\ w.op = job[j].op /\ w.entry = None
        /\ w.change = job[j].change
    BY <1>3 DEF Job, Points
  <2>2. job' = [job EXCEPT ![j] = w]
    <3>1. job' = [job EXCEPT ![j].pc = "remote", ![j].entry = None]
      BY <1>6 DEF EndMutate
    <3>2. QED
      BY <1>1, <3>1 DEF JobsFine, JobsTyped
  <2> HIDE DEF w
  <2>3. Whole(w, native)
    BY <1>3, <1>6, <2>1 DEF Whole, Opener
  <2>4. JobsFine'
    BY <1>1, <1>2, <1>3, <2>1, <2>2, <2>3, MoveStays
  <2>5. QED
    BY <1>5, <2>4, StructureNext
<1>7. CASE job[j].change \notin Levels
  <2>1. job' = [job EXCEPT ![j] = Idle]
    BY <1>7 DEF EndMutate, Ends
  <2>2. JobsFine'
    BY <1>1, <1>2, <1>3, <2>1, MoveStays, IdleIsWhole
  <2>3. QED
    BY <1>5, <2>2, StructureNext
<1>8. QED
  BY <1>6, <1>7

LEMMA SealEnds ==
  ASSUME Structure, NEW j \in Jobs, EndSeal(j)
  PROVE  Structure'
<1>1. JobsFine /\ Frame
  BY StructureParts
<1>2. /\ job[j].op \in {"enroll", "change"} /\ Serve(j) /\ queue' = Tail(queue)
      /\ phase' = "ready" /\ memory' = job[j].entry /\ job' = [job EXCEPT ![j] = Idle]
      /\ \/ disk' = job[j].entry /\ fallback' = fallback
         \/ disk' = disk /\ fallback' = job[j].entry /\ job[j].pc = "second"
      /\ native' = native /\ legacy' = legacy /\ wizard' = wizard /\ proven' = proven
      /\ draft' = draft /\ salts' = salts /\ boots' = boots /\ unread' = unread /\ torn' = torn
      /\ saved' = saved
  BY <1>1, StoreLastIs DEF EndSeal, Ends, Apply, device, onboarding, history
<1>3. phase = "ready"
  BY <1>1, <1>2, ServedIs DEF Setter
<1>4. wizard'.step = "gone"
  BY <1>1, <1>2, <1>3 DEF Frame, RestTyped
<1>5. Frame'
  BY <1>1, <1>2, <1>4, StoresKeep DEF Frame, RestTyped
<1>6. JobsFine'
  BY <1>1, <1>2, <1>3, MoveStays, IdleIsWhole
<1>7. QED
  BY <1>5, <1>6, StructureNext

(* The flow after a refused write: a banner, or the restoring is over.     *)
LEMMA SubmitsIs ==
  ASSUME Good(wizard), NEW busy \in BOOLEAN, Submits(busy)
  PROVE  /\ Good(wizard') /\ wizard'.step = wizard.step /\ wizard'.pending = wizard.pending
         /\ wizard'.chosen = wizard.chosen /\ wizard'.form.kind = wizard.form.kind
         /\ wizard.form.kind # "restore" => wizard' = wizard
         /\ wizard.form.kind = "restore" => wizard'.form.submitting = busy
<1>1. CASE wizard.form.kind = "restore"
  <2> DEFINE form == [wizard.form EXCEPT !.submitting = busy, !.error = FALSE]
  <2>1. wizard.form \in RestoreForms
    BY <1>1, FormIsOf DEF Good, Wizards
  <2>2. form \in RestoreForms /\ form.submitting = busy
    BY <2>1 DEF RestoreForms
  <2>3. form \in Forms /\ form.kind = "restore"
    BY <2>2, FormKinds
  <2>4. wizard' = [wizard EXCEPT !.form = form]
    <3>1. wizard' = [wizard EXCEPT !.form.submitting = busy, !.form.error = FALSE]
      BY <1>1 DEF Submits, On
    <3>2. QED
      BY <2>1, <3>1 DEF Good, Wizards, RestoreForms
  <2> HIDE DEF form
  <2>5. Good(wizard)' /\ wizard'.step = wizard.step /\ wizard'.form = form
         /\ wizard'.pending = wizard.pending /\ wizard'.chosen = wizard.chosen
    BY <1>1, <2>3, <2>4, FillsIsGood
  <2>6. Good(wizard')
    BY <2>5
  <2>7. QED
    BY <1>1, <2>2, <2>3, <2>5, <2>6
<1>2. CASE wizard.form.kind # "restore"
  <2>1. wizard' = wizard
    BY <1>2 DEF Submits, On
  <2>2. QED
    BY <1>2, <2>1
<1>3. QED
  BY <1>1, <1>2

LEMMA ToldIs ==
  ASSUME Good(wizard), NEW j \in Jobs, Told(j)
  PROVE  /\ Good(wizard') /\ wizard'.step = wizard.step /\ wizard'.pending = wizard.pending
         /\ wizard'.chosen = wizard.chosen
         /\ Late(wizard) => Late(wizard')
         /\ job[j].op = "complete" => wizard'.form = wizard.form
<1>1. CASE job[j].op = "complete" /\ phase = "onboarding"
  <2>1. wizard' = [wizard EXCEPT !.error = TRUE]
    BY <1>1 DEF Told
  <2>2. wizard' \in Wizards /\ wizard'.step = wizard.step /\ wizard'.form = wizard.form
        /\ wizard'.pending = wizard.pending /\ wizard'.chosen = wizard.chosen
    BY <2>1 DEF Good, Wizards
  <2>3. QED
    BY <1>1, <2>2 DEF Good, FormFits, Late
<1>2. CASE job[j].op = "restore"
  <2>1. Submits(FALSE)
    BY <1>2 DEF Told
  <2>2. QED
    BY <1>2, <2>1, SubmitsIs DEF Late
<1>3. CASE ~(job[j].op = "complete" /\ phase = "onboarding") /\ job[j].op # "restore"
  <2>1. wizard' = wizard
    BY <1>3 DEF Told
  <2>2. QED
    BY <2>1
<1>4. QED
  BY <1>1, <1>2, <1>3

LEMMA StoreFailsKeeps ==
  ASSUME Structure, NEW j \in Jobs, StoreFails(j)
  PROVE  Structure'
<1>1. JobsFine /\ Frame
  BY StructureParts
<1>2. /\ Serve(j) /\ queue' = Tail(queue) /\ job' = [job EXCEPT ![j] = Idle] /\ Told(j)
      /\ native' = native /\ phase' = phase /\ memory' = memory
      /\ disk' = disk /\ fallback' = fallback /\ legacy' = legacy /\ proven' = proven
      /\ draft' = draft /\ salts' = salts /\ boots' = boots /\ unread' = unread /\ saved' = saved
  BY DEF StoreFails, Ends, device, stores
<1>3. torn' \in BOOLEAN
  BY <1>1 DEF StoreFails, Frame, RestTyped
<1>4. Good(wizard') /\ wizard'.step = wizard.step /\ (Late(wizard) => Late(wizard'))
  BY <1>1, <1>2, ToldIs DEF Frame
<1>5. Frame'
  BY <1>1, <1>2, <1>3, <1>4, StoresKeep DEF Frame, RestTyped
<1>6. ASSUME NEW i \in Jobs \ {j}, job[i].op = "restore"
      PROVE  Early(wizard')
  <2>1. job[j].op = "none"
    BY <1>1, <1>6, NobodyElse
  <2>2. QED
    BY <1>1, <1>2, <2>1, ServedIs
<1>7. \A i \in Jobs \ {j} : /\ InPhase(job[i], phase')
                            /\ job[i].op = "complete" /\ phase' = "onboarding" => Late(wizard')
  BY <1>1, <1>2, <1>4 DEF JobsFine, JobsWhole, OnboardingJobs
<1>8. JobsFine'
  BY <1>1, <1>2, <1>6, <1>7, MoveKeeps, IdleIsWhole
<1>9. QED
  BY <1>5, <1>8, StructureNext

(* The locked screen opens.                                                *)
LEMMA OpensKeeps ==
  ASSUME JobsFine, Frame, phase \in {"locked", "locked_native"},
         NEW entry \in Entry,
         \/ phase' = "ready" /\ fallback' = fallback
         \/ phase' = "locked" /\ IsSealed(entry) /\ native /\ fallback' = entry,
         memory' = entry,
         UNCHANGED <<native, legacy, disk, wizard, proven, draft, salts, boots, unread, torn, saved>>
  PROVE  Frame'
<1>1. wizard.step = "gone" /\ entry # None
  BY EntriesAre DEF Frame, RestTyped
<1>2. RestTyped'
  BY <1>1 DEF Frame, RestTyped
<1>3. PhaseHolds'
  BY DEF Frame, PhaseHolds
<1>4. Good(wizard)'
  BY DEF Frame
<1>5. QED
  BY <1>2, <1>3, <1>4 DEF Frame

LEMMA UnlockKeeps ==
  ASSUME Structure, NEW p \in Passphrases, Unlock(p)
  PROVE  Structure'
<1>1. JobsFine /\ Frame
  BY StructureParts
<1>2. /\ phase \in {"locked", "locked_native"} /\ \A i \in Jobs : job[i].op \notin Opener
      /\ memory \in Entry /\ phase' = "ready" /\ memory' = memory
      /\ native' = native /\ legacy' = legacy /\ wizard' = wizard /\ proven' = proven
      /\ disk' = disk /\ fallback' = fallback /\ job' = job /\ queue' = queue
      /\ draft' = draft /\ salts' = salts /\ boots' = boots
      /\ unread' = unread /\ torn' = torn /\ saved' = saved
  BY <1>1 DEF Unlock, PassphraseOffered, Locked, Unlocking, Opener, Apply, device, onboarding,
              stores, history, Frame, RestTyped
<1>3. Frame'
  BY <1>1, <1>2, OpensKeeps
<1>4. \A i \in Jobs : job[i].op = "none"
  BY <1>1, <1>2, NobodyElse
<1>5. JobsTyped' /\ OneOpener' /\ QueueHolds'
  BY <1>1, <1>2 DEF JobsFine, JobsTyped, OneOpener, QueueHolds, Waiting
<1>6. JobsWhole' /\ OnboardingJobs'
  BY <1>1, <1>2, <1>4 DEF JobsFine, JobsWhole, OnboardingJobs, InPhase, Setter, Opener
<1>7. QED
  BY <1>3, <1>5, <1>6, StructureNext DEF JobsFine

LEMMA UnlockWithPasskeyKeeps ==
  ASSUME Structure, NEW j \in Jobs, UnlockWithPasskey(j)
  PROVE  Structure'
<1>1. JobsFine /\ Frame
  BY StructureParts
<1>2. /\ job[j].op = "passkey" /\ phase' = "ready" /\ memory' = job[j].entry
      /\ native' = native /\ legacy' = legacy /\ wizard' = wizard /\ proven' = proven
      /\ disk' = disk /\ fallback' = fallback /\ job' = [job EXCEPT ![j] = Idle] /\ queue' = queue
      /\ draft' = draft /\ salts' = salts /\ boots' = boots
      /\ unread' = unread /\ torn' = torn /\ saved' = saved
  BY DEF UnlockWithPasskey, Apply, Ends, device, onboarding, stores, history
<1>3. /\ job[j] \in Job /\ Whole(job[j], native) /\ InPhase(job[j], phase)
  BY <1>1 DEF JobsFine, JobsTyped, JobsWhole
<1>4. /\ job[j].entry \in Entry /\ phase \in {"locked", "locked_native"} /\ job[j].pc = "prompt"
  BY <1>2, <1>3 DEF Whole, InPhase, Job, Opener
<1>5. Frame'
  BY <1>1, <1>2, <1>4, OpensKeeps
<1>6. \A i \in Jobs \ {j} : job[i].op = "none"
  BY <1>1, <1>2, NobodyElse DEF Opener
<1>7. JobsFine'
  BY <1>1, <1>2, <1>4, <1>6, MoveKeeps, IdleIsWhole DEF InPhase, Setter, Opener
<1>8. QED
  BY <1>5, <1>7, StructureNext

LEMMA UnlockNativeKeeps ==
  ASSUME Structure, NEW j \in Jobs, UnlockNative(j)
  PROVE  Structure'
<1>1. JobsFine /\ Frame
  BY StructureParts
<1>2. /\ job[j].op = "native" /\ disk # None /\ memory' = disk
      /\ \/ phase' = "ready" /\ fallback' = fallback
         \/ phase' = "locked" /\ IsSealed(disk) /\ fallback' = disk
      /\ native' = native /\ legacy' = legacy /\ wizard' = wizard /\ proven' = proven
      /\ disk' = disk /\ job' = [job EXCEPT ![j] = Idle] /\ queue' = queue
      /\ draft' = draft /\ salts' = salts /\ boots' = boots
      /\ unread' = unread /\ torn' = torn /\ saved' = saved
  BY DEF UnlockNative, Apply, Ends, device, onboarding, history
<1>3. /\ job[j] \in Job /\ Whole(job[j], native) /\ InPhase(job[j], phase)
  BY <1>1 DEF JobsFine, JobsTyped, JobsWhole
<1>4. /\ native /\ phase \in {"locked", "locked_native"} /\ job[j].pc = "prompt"
  BY <1>2, <1>3 DEF Whole, InPhase, Opener
<1>5. disk \in Entry
  BY <1>1, <1>2 DEF Frame, RestTyped
<1>6. Frame'
  BY <1>1, <1>2, <1>4, <1>5, OpensKeeps
<1>7. \A i \in Jobs \ {j} : job[i].op = "none"
  BY <1>1, <1>2, NobodyElse DEF Opener
<1>8. JobsFine'
  BY <1>1, <1>2, <1>4, <1>7, MoveKeeps, IdleIsWhole DEF InPhase, Setter, Opener
<1>9. QED
  BY <1>6, <1>8, StructureNext

(* What the flow saves.                                                    *)
LEMMA DraftIs ==
  ASSUME Frame
  PROVE  /\ draft.who \in 0..MaxBoots /\ draft.key \in Keys \cup {None} /\ draft.named \in BOOLEAN
         /\ \A b \in BOOLEAN : Metadata(b) \in SUBSET Changes
         /\ On("name") => /\ wizard.step = "display_name" /\ Overrides \in BOOLEAN
                          /\ wizard.pending \in Passphrases \cup {None} /\ phase = "onboarding"
         /\ wizard.step \in Steps => phase = "onboarding"
<1>1. draft.who \in 0..MaxBoots /\ draft.key \in Keys \cup {None} /\ draft.named \in BOOLEAN
  BY DEF Frame, RestTyped
<1>2. \A b \in BOOLEAN : Metadata(b) \in SUBSET Changes
  BY LevelsAssumption DEF Metadata
<1>3. ASSUME On("name")
      PROVE  /\ wizard.step = "display_name" /\ Overrides \in BOOLEAN
             /\ wizard.pending \in Passphrases \cup {None}
  <2>1. wizard.form \in NameForms
    BY <1>3, FormIsOf DEF On, Frame, Good, Wizards
  <2>2. Overrides \in BOOLEAN
    BY <2>1 DEF Overrides, NameForms
  <2>3. QED
    BY <1>3, <2>2 DEF On, Frame, Good, FormFits
<1>4. wizard.step \in Steps => phase = "onboarding"
  BY DEF Frame, RestTyped, Steps
<1>5. QED
  BY <1>1, <1>2, <1>3, <1>4 DEF Steps

LEMMA CompleteKeeps ==
  ASSUME Structure, NEW j \in Jobs, Complete(j)
  PROVE  Structure'
<1>1. JobsFine /\ Frame
  BY StructureParts
<1> DEFINE bundle == [who |-> draft.who, meta |-> Metadata(Overrides), key |-> None,
                      passkey |-> None]
<1>2. /\ wizard.step = "display_name" /\ Overrides \in BOOLEAN /\ phase = "onboarding"
      /\ wizard.pending \in Passphrases \cup {None} /\ draft.who \in 0..MaxBoots
      /\ Metadata(Overrides) \in SUBSET Changes
  BY <1>1, DraftIs DEF Complete, CanContinue
<1>3. bundle \in Entry
  <2> DEFINE meta == Metadata(Overrides)
  <2>1. meta \in SUBSET Changes
    BY <1>2
  <2> HIDE DEF meta
  <2>2. [who |-> draft.who, meta |-> meta, key |-> None, passkey |-> None] \in Entry
    BY <1>2, <2>1, EntriesAre
  <2>3. QED
    BY <2>2 DEF meta
<1>4. wizard' = [wizard EXCEPT !.chosen = Overrides]
  BY DEF Complete
<1>5. Good(wizard') /\ wizard'.step = wizard.step
  <2> DEFINE chosen == Overrides
  <2>1. chosen \in BOOLEAN /\ wizard' = [wizard EXCEPT !.chosen = chosen]
    BY <1>2, <1>4
  <2> HIDE DEF chosen
  <2>2. QED
    BY <1>1, <2>1 DEF Frame, Good, Wizards, FormFits
<1>6. PICK entry \in Entry : Begin(j, "complete", "queued", entry, None) /\ salts' \in 0..MaxSalts
  <2>1. CASE wizard.pending = None
    <3>1. Begin(j, "complete", "queued", bundle, None) /\ salts' = salts
      BY <2>1 DEF Complete
    <3>2. QED
      BY <1>1, <1>3, <3>1 DEF Frame, RestTyped
  <2>2. CASE wizard.pending # None
    <3>1. /\ Begin(j, "complete", "queued", Sealed(bundle, NewKey(wizard.pending)), None)
          /\ salts < MaxSalts /\ salts' = salts + 1
      BY <2>2 DEF Complete
    <3>2. salts + 1 \in 1..MaxSalts /\ salts' \in 0..MaxSalts
      BY <1>1, <3>1, BoundsAssumption DEF Frame, RestTyped
    <3>3. NewKey(wizard.pending) \in Keys
      BY <1>2, <2>2, <3>2 DEF NewKey, Keys
    <3> HIDE DEF bundle
    <3>4. QED
      BY <1>3, <3>1, <3>2, <3>3, EntriesAre
  <2>3. QED
    BY <2>1, <2>2
<1>7. Late(wizard')
  BY <1>2, <1>5 DEF Late
<1>8. May("complete", "queued", entry, None)
  BY <1>2, <1>7, EntriesAre DEF May, Opener, Setter
<1>9. /\ native' = native /\ phase' = phase
      /\ UNCHANGED <<device, stores, phase, memory, boots, unread>>
      /\ draft' = draft /\ torn' = torn /\ saved' = saved /\ proven' = proven
  BY DEF Complete, device, history
<1>10. \A i \in Jobs : job[i].op # "restore"
  <2>1. ~Early(wizard)
    BY <1>2 DEF Early
  <2>2. QED
    BY <1>1, <2>1 DEF JobsFine, OnboardingJobs
<1>11. JobsFine'
  BY <1>1, <1>6, <1>7, <1>8, <1>9, <1>10, BeginKeeps DEF Ops, Points
<1>12. Frame'
  BY <1>1, <1>5, <1>6, <1>9, FrameStays DEF Frame, RestTyped
<1>13. QED
  BY <1>11, <1>12, StructureNext

LEMMA RestoreKeeps ==
  ASSUME Structure, NEW j \in Jobs, Restore(j)
  PROVE  Structure'
<1>1. JobsFine /\ Frame
  BY StructureParts
<1> DEFINE entry == [who |-> Recovered, meta |-> {}, key |-> None, passkey |-> None]
<1>2. entry \in Entry /\ entry # None /\ 0 \in 0..MaxBoots
  BY EntriesAre, BoundsAssumption DEF Earlier
<1>3. /\ wizard.form.kind = "restore" /\ wizard.form.phrase # "blank" /\ ~wizard.form.submitting
      /\ wizard.step = "restore" /\ phase = "onboarding"
  <2>1. wizard.form.kind = "restore" /\ wizard.form.phrase # "blank" /\ ~wizard.form.submitting
    BY DEF Restore, MayRestore, On
  <2>2. wizard.step = "restore"
    BY <1>1, <2>1 DEF Frame, Good, FormFits
  <2>3. QED
    BY <1>1, <2>1, <2>2, DraftIs DEF Steps
<1>4. /\ Good(wizard') /\ wizard'.step = wizard.step /\ wizard'.form.kind = "restore"
      /\ wizard'.form.submitting
  BY <1>1, <1>3, SubmitsIs DEF Restore, Frame
<1>5. Early(wizard') /\ ~Early(wizard) /\ ~Late(wizard)
  BY <1>3, <1>4 DEF Early, Late
<1>6. \A i \in Jobs : job[i].op \notin {"restore", "complete"}
  BY <1>1, <1>3, <1>5 DEF JobsFine, OnboardingJobs
<1>7. Begin(j, "restore", "queued", entry, None)
  BY DEF Restore
<1> HIDE DEF entry
<1>8. May("restore", "queued", entry, None)
  BY <1>2, <1>3, <1>5, <1>6 DEF May, Opener, Setter
<1>9. /\ native' = native /\ phase' = phase
      /\ UNCHANGED <<device, stores, phase, memory, boots, unread>>
      /\ draft' = draft /\ torn' = torn /\ saved' = saved /\ proven' = proven \cup {Recovered}
      /\ salts' = salts
  BY DEF Restore, device, history
<1>10. proven' \subseteq 0..MaxBoots
  BY <1>1, <1>2, <1>9 DEF Frame, RestTyped, Recovered
<1>11. JobsFine'
  BY <1>1, <1>2, <1>6, <1>7, <1>8, <1>9, BeginKeeps DEF Ops, Points
<1>12. Frame'
  BY <1>1, <1>4, <1>9, <1>10, FrameStays DEF Frame, RestTyped
<1>13. QED
  BY <1>11, <1>12, StructureNext

LEMMA CompleteEnds ==
  ASSUME Structure, NEW j \in Jobs, EndComplete(j)
  PROVE  Structure'
<1>1. JobsFine /\ Frame
  BY StructureParts
<1>2. /\ job[j].op = "complete" /\ Serve(j) /\ queue' = Tail(queue)
      /\ phase' = phase /\ memory' = memory /\ job' = [job EXCEPT ![j] = Idle]
      /\ \/ disk' = job[j].entry /\ fallback' = fallback
         \/ disk' = disk /\ fallback' = job[j].entry /\ job[j].pc = "second"
      /\ native' = native /\ legacy' = legacy /\ proven' = proven
      /\ salts' = salts /\ boots' = boots /\ unread' = unread /\ torn' = torn /\ saved' = saved
  BY <1>1, StoreLastIs DEF EndComplete, Ends, device, history
<1>3. \A i \in Jobs \ {j} : job[i].op # "restore"
  BY <1>1, <1>2, NobodyElse
<1>4. \A i \in Jobs \ {j} : InPhase(job[i], phase')
  BY <1>1, <1>2 DEF JobsFine, JobsWhole
<1>5. CASE phase = "onboarding"
  <2>1. /\ wizard' = [To("complete") EXCEPT !.error = FALSE]
        /\ draft' = [draft EXCEPT !.key = job[j].entry.key, !.named = job[j].entry.meta # {}]
    BY <1>5 DEF EndComplete
  <2>2. Good(To("complete")) /\ To("complete").step = "complete"
    BY <1>1, ToIsGood DEF Frame, Steps
  <2>3. Good(wizard') /\ wizard'.step = "complete" /\ Late(wizard')
    BY <2>1, <2>2 DEF Good, Wizards, FormFits, Late
  <2>4. draft' \in [who : 0..MaxBoots, key : Keys \cup {None}, named : BOOLEAN]
    <3>1. job[j].entry \in Entry
      BY <1>1, <1>2, ServedIs
    <3>2. job[j].entry.key \in Keys \cup {None} /\ (job[j].entry.meta # {}) \in BOOLEAN
      BY <3>1 DEF Entry
    <3>3. QED
      BY <1>1, <2>1, <3>2 DEF Frame, RestTyped
  <2>5. wizard.step # "gone"
    BY <1>1, <1>5 DEF Frame, RestTyped
  <2>6. Frame'
    BY <1>1, <1>2, <2>3, <2>4, <2>5, StoresKeep DEF Frame, RestTyped
  <2>7. JobsFine'
    BY <1>1, <1>2, <1>3, <1>4, <2>3, MoveKeeps, IdleIsWhole
  <2>8. QED
    BY <2>6, <2>7, StructureNext
<1>6. CASE phase # "onboarding"
  <2>1. draft' = draft /\ wizard' = wizard
    BY <1>6 DEF EndComplete
  <2>2. Frame'
    BY <1>1, <1>2, <2>1, StoresKeep DEF Frame, RestTyped
  <2>3. JobsFine'
    BY <1>1, <1>2, <2>1, MoveStays, IdleIsWhole
  <2>4. QED
    BY <2>2, <2>3, StructureNext
<1>7. QED
  BY <1>5, <1>6

LEMMA RestoreEnds ==
  ASSUME Structure, NEW j \in Jobs, EndRestore(j)
  PROVE  Structure'
<1>1. JobsFine /\ Frame
  BY StructureParts
<1>2. /\ job[j].op = "restore" /\ Serve(j) /\ queue' = Tail(queue)
      /\ phase' = "ready" /\ memory' = job[j].entry /\ job' = [job EXCEPT ![j] = Idle]
      /\ \/ disk' = job[j].entry /\ fallback' = fallback
         \/ disk' = disk /\ fallback' = job[j].entry /\ job[j].pc = "second"
      /\ native' = native /\ legacy' = legacy /\ proven' = proven
      /\ draft' = NoDraft /\ wizard' = Gone
      /\ salts' = salts /\ boots' = boots /\ unread' = unread /\ torn' = torn /\ saved' = saved
  BY <1>1, StoreLastIs DEF EndRestore, Ends, Apply, device, history
<1>3. \A i \in Jobs \ {j} : job[i].op = "none"
  BY <1>1, <1>2, NobodyElse
<1>4. Good(wizard') /\ wizard'.step = "gone"
  BY <1>2, MountedIsGood
<1>5. Frame'
  BY <1>1, <1>2, <1>4, StoresKeep, EntriesAre DEF Frame, RestTyped
<1>6. JobsFine'
  BY <1>1, <1>2, <1>3, MoveKeeps, IdleIsWhole DEF InPhase, Setter, Opener
<1>7. QED
  BY <1>5, <1>6, StructureNext

(* Steps of no operation.                                                  *)
LEMMA NobodyMoves ==
  ASSUME JobsFine, UNCHANGED <<native, job, queue>>,
         \A i \in Jobs : /\ InPhase(job[i], phase')
                         /\ job[i].op = "restore" => Early(wizard')
                         /\ job[i].op = "complete" /\ phase' = "onboarding" => Late(wizard')
  PROVE  JobsFine'
<1>1. JobsTyped' /\ OneOpener' /\ QueueHolds'
  BY DEF JobsFine, JobsTyped, OneOpener, QueueHolds, Waiting
<1>2. JobsWhole' /\ OnboardingJobs'
  BY DEF JobsFine, JobsWhole, OnboardingJobs
<1>3. QED
  BY <1>1, <1>2 DEF JobsFine

LEMMA AdvanceKeeps ==
  ASSUME Structure, Advance
  PROVE  Structure' /\ Advanced(draft.who)
<1>1. JobsFine /\ Frame
  BY StructureParts
<1>2. /\ UNCHANGED <<device, stores, phase, memory, boots, unread>> /\ native' = native
      /\ draft' = draft /\ torn' = torn /\ saved' = saved /\ salts' = salts
      /\ job' = job /\ queue' = queue /\ phase' = phase
  BY DEF Advance, device, history
<1>3. Advanced(draft.who) /\ (Quiet \/ (Early(wizard) => Early(wizard')))
  BY <1>1, TypesAdvances, PressesAdvances DEF Advance, Frame
<1>4. Good(wizard') /\ (Late(wizard) => Late(wizard'))
  BY <1>3 DEF Advanced
<1>5. proven' \subseteq 0..MaxBoots /\ (wizard'.step = "gone" <=> wizard.step = "gone")
  BY <1>1, <1>3 DEF Advanced, Frame, RestTyped
<1>6. Frame'
  BY <1>1, <1>2, <1>4, <1>5, FrameStays DEF Frame, RestTyped
<1>7. ASSUME NEW i \in Jobs
      PROVE  /\ InPhase(job[i], phase')
             /\ job[i].op = "restore" => Early(wizard')
             /\ job[i].op = "complete" /\ phase' = "onboarding" => Late(wizard')
  BY <1>1, <1>2, <1>3, <1>4 DEF JobsFine, JobsWhole, OnboardingJobs, Quiet, Busy
<1>8. JobsFine'
  BY <1>1, <1>2, <1>7, NobodyMoves
<1>9. QED
  BY <1>3, <1>6, <1>8, StructureNext

LEMMA FinishKeeps ==
  ASSUME Structure, Finish
  PROVE  Structure'
<1>1. JobsFine /\ Frame
  BY StructureParts
<1> DEFINE entry == [who |-> draft.who, meta |-> Metadata(draft.named), key |-> draft.key,
                     passkey |-> None]
<1>2. /\ wizard.step = "complete" /\ phase' = "ready" /\ memory' = entry
      /\ wizard' = Gone /\ draft' = NoDraft
      /\ native' = native /\ legacy' = legacy /\ proven' = proven /\ disk' = disk
      /\ fallback' = fallback /\ job' = job /\ queue' = queue
      /\ salts' = salts /\ boots' = boots /\ unread' = unread /\ torn' = torn /\ saved' = saved
  BY DEF Finish, Apply, device, stores, history
<1>3. entry \in Entry /\ entry # None
  <2>1. entry \in Entry
    BY <1>1, DraftIs DEF Entry
  <2>2. QED
    BY <2>1, EntriesAre
<1>4. phase = "onboarding"
  BY <1>1, <1>2 DEF Frame, RestTyped
<1>5. Good(wizard') /\ wizard'.step = "gone"
  BY <1>2, MountedIsGood
<1> HIDE DEF entry
<1>6. Frame'
  <2>1. RestTyped'
    BY <1>1, <1>2, <1>3, <1>5, EntriesAre DEF Frame, RestTyped
  <2>2. PhaseHolds'
    BY <1>1, <1>2, <1>4 DEF Frame, PhaseHolds
  <2>3. Good(wizard)'
    BY <1>5
  <2>4. QED
    BY <2>1, <2>2, <2>3 DEF Frame
<1>7. \A i \in Jobs : job[i].op \in {"none", "complete"}
  BY <1>1, <1>2, <1>4, NobodyElse
<1>8. JobsFine'
  BY <1>1, <1>2, <1>7, NobodyMoves DEF InPhase, Setter, Opener
<1>9. QED
  BY <1>6, <1>8, StructureNext

(* Starts.                                                                 *)
LEMMA OnboardIs ==
  ASSUME Frame, Onboard
  PROVE  /\ phase' = "onboarding" /\ memory' = None
         /\ draft' \in [who : 0..MaxBoots, key : Keys \cup {None}, named : BOOLEAN]
         /\ draft'.who = boots /\ Good(wizard') /\ wizard' = Mounted /\ wizard'.step = "choose_path"
         /\ proven' = proven
<1>1. boots \in 1..MaxBoots
  BY DEF Frame, RestTyped
<1>2. [who |-> boots, key |-> None, named |-> FALSE]
        \in [who : 0..MaxBoots, key : Keys \cup {None}, named : BOOLEAN]
  BY <1>1, BoundsAssumption
<1>3. QED
  BY <1>2, MountedIsGood DEF Onboard, Apply

LEMMA MigrateIs ==
  ASSUME Frame, Migrate
  PROVE  /\ native' = native /\ legacy' \in {legacy, None}
         /\ disk' = disk \/ (legacy # None /\ ~native /\ disk' = Earlier)
         /\ disk' = disk \/ legacy # None
  BY DEF Migrate, Frame, RestTyped

LEMMA LoadsIs ==
  ASSUME Frame, phase = "loading", NEW entry \in Entry \cup {None}, Loads(entry)
  PROVE  \/ entry = None /\ Onboard
         \/ /\ entry \in Entry /\ memory' = entry /\ draft' = draft /\ wizard' = wizard
            /\ proven' = proven
            /\ phase' = IF IsSealed(entry) THEN "locked" ELSE "ready"
<1>1. CASE entry = None
  BY <1>1 DEF Loads, IsBundle, IsSealed
<1>2. CASE entry \in Entry
  <2>1. IsBundle(entry)
    BY <1>2, EntriesAre
  <2>2. QED
    BY <1>2, <2>1 DEF Loads, Apply, onboarding
<1>3. QED
  BY <1>1, <1>2

LEMMA NobodyYet ==
  ASSUME JobsFine, phase = "loading", UNCHANGED <<native, job, queue>>
  PROVE  JobsFine'
<1>1. \A i \in Jobs : job[i].op = "none"
  BY NobodyElse
<1>2. QED
  BY <1>1, NobodyMoves DEF InPhase, Setter, Opener

LEMMA BootKeeps ==
  ASSUME Structure, Boot
  PROVE  Structure'
<1>1. JobsFine /\ Frame
  BY StructureParts
<1>2. /\ phase = "loading" /\ Migrate /\ unread' = (unread \/ legacy' # None) /\ Loads(disk')
      /\ fallback' = IF native /\ IsSealed(disk) THEN disk ELSE fallback
      /\ job' = job /\ queue' = queue /\ salts' = salts /\ boots' = boots /\ torn' = torn
      /\ saved' = saved
  BY DEF Boot
<1>3. /\ native' = native /\ legacy' \in {legacy, None}
      /\ disk' = disk \/ (legacy # None /\ ~native /\ disk' = Earlier)
  BY <1>1, <1>2, MigrateIs
<1>4. disk' \in Entry \cup {None} /\ fallback' \in Entry \cup {None} /\ (~native => fallback' = None)
  BY <1>1, <1>2, <1>3, EntriesAre DEF Frame, RestTyped, PhaseHolds
<1>5. \/ /\ phase' = "onboarding" /\ memory' = None
         /\ draft' \in [who : 0..MaxBoots, key : Keys \cup {None}, named : BOOLEAN]
         /\ Good(wizard') /\ wizard'.step = "choose_path" /\ proven' = proven
      \/ /\ phase' \in {"locked", "ready"} /\ memory' \in Entry /\ memory' # None
         /\ (phase' = "locked" => IsSealed(memory'))
         /\ draft' = draft /\ wizard' = wizard /\ proven' = proven
  <2>1. \/ Onboard
        \/ /\ disk' \in Entry /\ memory' = disk' /\ draft' = draft /\ wizard' = wizard
           /\ proven' = proven
           /\ phase' = IF IsSealed(disk') THEN "locked" ELSE "ready"
    BY <1>1, <1>2, <1>4, LoadsIs
  <2>2. CASE Onboard
    BY <1>1, <2>2, OnboardIs
  <2>3. CASE /\ disk' \in Entry /\ memory' = disk' /\ draft' = draft /\ wizard' = wizard
             /\ proven' = proven
             /\ phase' = IF IsSealed(disk') THEN "locked" ELSE "ready"
    <3>1. disk' # None
      BY <2>3, EntriesAre
    <3>2. CASE IsSealed(disk')
      BY <2>3, <3>1, <3>2
    <3>3. CASE ~IsSealed(disk')
      BY <2>3, <3>1, <3>3
    <3>4. QED
      BY <3>2, <3>3
  <2>4. QED
    BY <2>1, <2>2, <2>3
<1>6. Good(wizard') /\ (phase' = "onboarding" <=> wizard'.step # "gone")
      /\ draft' \in [who : 0..MaxBoots, key : Keys \cup {None}, named : BOOLEAN]
      /\ proven' \subseteq 0..MaxBoots
  BY <1>1, <1>2, <1>5 DEF Frame, RestTyped
<1>7. RestTyped'
  BY <1>1, <1>2, <1>3, <1>4, <1>5, <1>6 DEF Frame, RestTyped
<1>8. PhaseHolds'
  BY <1>2, <1>3, <1>4, <1>5 DEF PhaseHolds
<1>9. Good(wizard)'
  BY <1>6
<1>10. JobsFine'
  BY <1>1, <1>2, <1>3, NobodyYet
<1>11. QED
  BY <1>7, <1>8, <1>9, <1>10, StructureNext DEF Frame

LEMMA BootUnreadableKeeps ==
  ASSUME Structure, BootUnreadable
  PROVE  Structure'
<1>1. JobsFine /\ Frame
  BY StructureParts
<1>2. /\ phase = "loading" /\ Migrate /\ unread' = TRUE
      /\ \/ native /\ phase' = "locked_native" /\ memory' = fallback /\ draft' = draft
            /\ wizard' = wizard /\ proven' = proven
         \/ ~native /\ Onboard
      /\ fallback' = fallback
      /\ job' = job /\ queue' = queue /\ salts' = salts /\ boots' = boots /\ torn' = torn
      /\ saved' = saved
  BY DEF BootUnreadable, Apply, onboarding
<1>3. /\ native' = native /\ legacy' \in {legacy, None}
      /\ disk' = disk \/ (legacy # None /\ ~native /\ disk' = Earlier)
  BY <1>1, <1>2, MigrateIs
<1>4. disk' \in Entry \cup {None}
  BY <1>1, <1>3, EntriesAre DEF Frame, RestTyped
<1>5. \/ /\ phase' = "onboarding" /\ memory' = None
         /\ draft' \in [who : 0..MaxBoots, key : Keys \cup {None}, named : BOOLEAN]
         /\ Good(wizard') /\ wizard'.step = "choose_path" /\ proven' = proven
      \/ /\ phase' = "locked_native" /\ memory' \in Entry \cup {None} /\ native
         /\ draft' = draft /\ wizard' = wizard /\ proven' = proven
  BY <1>1, <1>2, OnboardIs DEF Frame, RestTyped
<1>6. Good(wizard') /\ (phase' = "onboarding" <=> wizard'.step # "gone")
      /\ draft' \in [who : 0..MaxBoots, key : Keys \cup {None}, named : BOOLEAN]
      /\ proven' \subseteq 0..MaxBoots
  BY <1>1, <1>2, <1>5 DEF Frame, RestTyped
<1>7. RestTyped'
  BY <1>1, <1>2, <1>3, <1>4, <1>5, <1>6 DEF Frame, RestTyped
<1>8. PhaseHolds'
  BY <1>1, <1>2, <1>3, <1>4, <1>5 DEF Frame, PhaseHolds
<1>9. Good(wizard)'
  BY <1>6
<1>10. JobsFine'
  BY <1>1, <1>2, <1>3, NobodyYet
<1>11. QED
  BY <1>7, <1>8, <1>9, <1>10, StructureNext DEF Frame

LEMMA BootFailsKeeps ==
  ASSUME Structure, BootFails
  PROVE  Structure'
<1>1. JobsFine /\ Frame
  BY StructureParts
<1>2. /\ phase = "loading" /\ native /\ phase' = "error" /\ memory' = None
      /\ native' = native /\ legacy' = legacy /\ wizard' = wizard /\ proven' = proven
      /\ disk' = disk /\ fallback' = fallback /\ job' = job /\ queue' = queue
      /\ draft' = draft /\ salts' = salts /\ boots' = boots
      /\ unread' = unread /\ torn' = torn /\ saved' = saved
  BY DEF BootFails, Apply, device, onboarding, stores, history
<1>3. RestTyped'
  BY <1>1, <1>2 DEF Frame, RestTyped
<1>4. PhaseHolds'
  BY <1>1, <1>2 DEF Frame, RestTyped, PhaseHolds
<1>5. Good(wizard)'
  BY <1>1, <1>2 DEF Frame
<1>6. JobsFine'
  BY <1>1, <1>2, NobodyYet
<1>7. QED
  BY <1>3, <1>4, <1>5, <1>6, StructureNext DEF Frame

LEMMA RestartKeeps ==
  ASSUME Structure, Restart
  PROVE  Structure'
<1>1. JobsFine /\ Frame
  BY StructureParts
<1>2. /\ phase # "loading" /\ boots < MaxBoots /\ boots' = boots + 1 /\ phase' = "loading"
      /\ memory' = None /\ job' = [j \in Jobs |-> Idle] /\ queue' = <<>>
      /\ wizard' = Gone /\ draft' = NoDraft /\ proven' \subseteq proven
      /\ native' = native /\ legacy' = legacy /\ disk' = disk /\ fallback' = fallback
      /\ salts' = salts /\ unread' = unread /\ torn' = torn /\ saved' = saved
  BY DEF Restart, Apply, device, stores, history
<1>3. boots' \in 1..MaxBoots
  BY <1>1, <1>2, BoundsAssumption DEF Frame, RestTyped
<1>4. Good(wizard') /\ wizard'.step = "gone"
  BY <1>2, MountedIsGood
<1>5. RestTyped'
  BY <1>1, <1>2, <1>3, <1>4, EntriesAre DEF Frame, RestTyped
<1>6. PhaseHolds'
  BY <1>1, <1>2 DEF Frame, PhaseHolds
<1>7. \A i \in Jobs : job'[i] = Idle
  BY <1>2
<1>8. JobsTyped'
  BY <1>2, IdleIsAJob DEF JobsTyped
<1>9. JobsWhole' /\ OneOpener' /\ OnboardingJobs'
  BY <1>7, IdleIsWhole DEF JobsWhole, OneOpener, OnboardingJobs, Opener
<1>10. QueueHolds'
  <2>1. Waiting' = {}
    BY <1>7, IdleIsWhole DEF Waiting
  <2>2. QED
    BY <1>2, <2>1 DEF QueueHolds, Holds
<1>11. Good(wizard)'
  BY <1>4
<1>12. QED
  BY <1>5, <1>6, <1>8, <1>9, <1>10, <1>11, StructureNext DEF Frame, JobsFine

LEMMA StructureInit == Init => Structure
<1> SUFFICES ASSUME Init PROVE Structure
  OBVIOUS
<1>1. /\ native \in BOOLEAN /\ legacy \in {None, Earlier} /\ (native => legacy = None)
      /\ disk = None /\ fallback = None /\ phase = "loading" /\ memory = None
      /\ job = [j \in Jobs |-> Idle] /\ queue = <<>> /\ draft = NoDraft /\ wizard = Gone
      /\ salts = 0 /\ boots = 1 /\ unread = FALSE /\ torn = FALSE /\ saved = {}
      /\ proven \subseteq {Recovered}
  BY DEF Init
<1>2. \A i \in Jobs : job[i] = Idle
  BY <1>1
<1>3. 1 \in 1..MaxBoots /\ 0 \in 0..MaxSalts /\ 0 \in 0..MaxBoots
  BY BoundsAssumption
<1>4. RestTyped
  BY <1>1, <1>3, MountedIsGood, EntriesAre DEF RestTyped, Recovered
<1>5. PhaseHolds
  BY <1>1 DEF PhaseHolds
<1>6. JobsTyped
  BY <1>1, IdleIsAJob DEF JobsTyped
<1>7. JobsWhole /\ OneOpener /\ OnboardingJobs
  BY <1>2, IdleIsWhole DEF JobsWhole, OneOpener, OnboardingJobs, Opener
<1>8. QueueHolds
  <2>1. Waiting = {}
    BY <1>2, IdleIsWhole DEF Waiting
  <2>2. QED
    BY <1>1, <2>1 DEF QueueHolds, Holds
<1>9. Good(wizard)
  BY <1>1, MountedIsGood
<1>10. QED
  BY <1>4, <1>5, <1>6, <1>7, <1>8, <1>9, StructureIs

LEMMA StructureStep ==
  ASSUME Structure, [Next]_vars
  PROVE  Structure'
<1>1. CASE Boot \/ BootUnreadable \/ BootFails \/ Restart \/ Advance \/ Finish
  BY <1>1, BootKeeps, BootUnreadableKeeps, BootFailsKeeps, RestartKeeps, AdvanceKeeps, FinishKeeps
<1>2. CASE \E p \in Passphrases : Unlock(p)
  BY <1>2, UnlockKeeps
<1>3. ASSUME NEW j \in Jobs, StoreStep(j) PROVE Structure'
  BY <1>3, StoreFirstKeeps, StoreFailsKeeps DEF StoreStep
<1>4. ASSUME NEW j \in Jobs, LockedStep(j) PROVE Structure'
  BY <1>4, AskPasskeyKeeps, UnlockWithPasskeyKeeps, AskNativeKeeps, UnlockNativeKeeps, DeclineKeeps
     DEF LockedStep
<1>5. ASSUME NEW j \in Jobs, OnboardingStep(j) PROVE Structure'
  BY <1>5, CompleteKeeps, CompleteEnds, RestoreKeeps, RestoreEnds DEF OnboardingStep
<1>6. ASSUME NEW j \in Jobs, ReadyStep(j) PROVE Structure'
  BY <1>6, MutateKeeps, SetPassphraseKeeps, RemovePassphraseKeeps, EnrollPasskeyKeeps, WrapKeeps,
     MutateEnds, ConfirmedKeeps, RefusedKeeps, SealEnds DEF ReadyStep
<1>7. CASE UNCHANGED vars
  <2>1. /\ native' = native /\ legacy' = legacy /\ wizard' = wizard /\ proven' = proven
        /\ disk' = disk /\ fallback' = fallback /\ phase' = phase /\ memory' = memory
        /\ job' = job /\ queue' = queue /\ draft' = draft /\ salts' = salts /\ boots' = boots
        /\ unread' = unread /\ torn' = torn /\ saved' = saved
    BY <1>7 DEF vars, device, onboarding, stores, history
  <2>2. JobsFine /\ Frame
    BY StructureParts
  <2>3. JobsFine'
    BY <2>1, <2>2, NobodyMoves DEF JobsFine, JobsWhole, OnboardingJobs
  <2>4. Frame'
    BY <2>1, <2>2 DEF Frame, RestTyped, PhaseHolds
  <2>5. QED
    BY <2>3, <2>4, StructureNext
<1>8. QED
  BY <1>1, <1>2, <1>3, <1>4, <1>5, <1>6, <1>7 DEF Next

(* Which operations there are is told by the phase, the queue holds those  *)
(* that wait for the store, each once, and one prompt is open at a time.   *)
THEOREM StructureHolds == Spec => []Structure
<1>1. QED
  BY StructureInit, StructureStep, PTL DEF Spec

(* Type correctness.                                                       *)
THEOREM TypeCorrect == Spec => []TypeOK
<1>1. Structure => TypeOK
  BY DEF Structure
<1>2. QED
  BY <1>1, StructureHolds, PTL

-----------------------------------------------------------------------------
(* Where entries come from                                                 *)

(* After a step an entry is one of before, one of before with other        *)
(* metadata, one of before sealed or wrapped anew, or a new one: that of   *)
(* the flow, that of an earlier version, or that of the recovery phrase.   *)
Comes(e) ==
  \/ e \in Kept \cup {None}
  \/ \E old \in Kept \ {None} : e.who = old.who /\ e.key = old.key /\ e.passkey = old.passkey
  \/ e.passkey \in {None, e.key} /\ \E old \in Kept \ {None} : e.who = old.who
  \/ e.passkey = None /\ e.who = draft.who /\ Late(wizard)
  \/ e.passkey = None /\ e.who = Recovered /\ phase = "loading" /\ legacy # None
  \/ e.passkey = None /\ e.who = Recovered /\ wizard.step = "restore" /\ Recovered \in proven'

AllCome == \A e \in Kept' : Comes(e)

LEMMA KeptIs ==
  ASSUME Structure
  PROVE  /\ Kept \subseteq Entry \cup {None} /\ {disk, fallback, memory, None} \subseteq Kept \cup {None}
         /\ \A j \in Jobs : job[j].entry \in Kept
         /\ \A e \in Kept \cup {None} : Comes(e)
<1>1. JobsFine /\ Frame
  BY StructureParts
<1>2. \A j \in Jobs : job[j].entry \in Entry \cup {None}
  BY <1>1 DEF JobsFine, JobsTyped, Job
<1>3. QED
  BY <1>1, <1>2 DEF Kept, Frame, RestTyped, Comes

LEMMA ComeOf ==
  ASSUME Comes(disk'), Comes(fallback'), Comes(memory'), \A i \in Jobs : Comes(job'[i].entry)
  PROVE  AllCome
<1>1. Kept' = {disk', fallback', memory'} \cup {job'[i].entry : i \in Jobs}
  BY DEF Kept
<1>2. QED
  BY <1>1 DEF AllCome

LEMMA BeginComes ==
  ASSUME Structure, NEW j \in Jobs, NEW op \in Ops, NEW pc \in Points,
         NEW entry \in Entry \cup {None}, NEW change \in Changes \cup {None},
         Begin(j, op, pc, entry, change), Comes(entry),
         disk' = disk, fallback' = fallback, memory' = memory
  PROVE  AllCome
<1>1. JobsTyped
  BY StructureParts DEF JobsFine
<1>2. \A i \in Jobs : job'[i].entry = entry \/ job'[i].entry = job[i].entry
  BY <1>1, BeginDoes DEF Same
<1>3. Comes(disk) /\ Comes(fallback) /\ Comes(memory) /\ \A i \in Jobs : Comes(job[i].entry)
  BY KeptIs
<1>4. QED
  BY <1>2, <1>3, ComeOf

LEMMA MoveComes ==
  ASSUME Structure, NEW j \in Jobs, NEW entry, Comes(entry),
         \A i \in Jobs : job'[i].entry \in {entry, None, job[i].entry},
         disk' \in {disk, job[j].entry}, fallback' \in {fallback, job[j].entry, disk},
         memory' \in {memory, job[j].entry, disk}
  PROVE  AllCome
<1>1. Comes(disk) /\ Comes(fallback) /\ Comes(memory) /\ Comes(None)
      /\ \A i \in Jobs : Comes(job[i].entry)
  BY KeptIs
<1>2. QED
  BY <1>1, ComeOf

LEMMA JobMoves ==
  ASSUME Structure, NEW j \in Jobs, NEW w, job' = [job EXCEPT ![j] = w]
  PROVE  job'[j] = w /\ \A i \in Jobs \ {j} : job'[i] = job[i]
<1>1. job \in [Jobs -> Job]
  BY StructureParts DEF JobsFine, JobsTyped
<1>2. QED
  BY <1>1

LEMMA LockedComes ==
  ASSUME Structure, NEW j \in Jobs, LockedStep(j)
  PROVE  AllCome
<1>1. Comes(disk) /\ Comes(fallback) /\ Comes(memory) /\ Comes(None)
      /\ \A i \in Jobs : Comes(job[i].entry)
  BY KeptIs
<1>2. memory \in Entry \cup {None}
  BY StructureParts DEF Frame, RestTyped
<1>3. CASE AskPasskey(j)
  <2>1. Begin(j, "passkey", "prompt", memory, None) /\ disk' = disk /\ fallback' = fallback /\ memory' = memory
    BY <1>3 DEF AskPasskey, stores
  <2>2. QED
    BY <1>1, <1>2, <2>1, BeginComes DEF Ops, Points
<1>4. CASE AskNative(j)
  <2>1. Begin(j, "native", "prompt", None, None) /\ disk' = disk /\ fallback' = fallback /\ memory' = memory
    BY <1>4 DEF AskNative, stores
  <2>2. QED
    BY <1>1, <2>1, BeginComes DEF Ops, Points
<1>5. CASE UnlockWithPasskey(j) \/ UnlockNative(j) \/ Decline(j)
  <2>1. /\ job' = [job EXCEPT ![j] = Idle] /\ disk' = disk /\ fallback' \in {fallback, disk}
        /\ memory' \in {memory, job[j].entry, disk}
    BY <1>5 DEF UnlockWithPasskey, UnlockNative, Decline, Ends, Apply, stores
  <2>2. \A i \in Jobs : job'[i].entry \in {None, job[i].entry}
    BY <2>1, JobMoves, IdleIsAJob
  <2>3. QED
    BY <1>1, <2>1, <2>2, MoveComes
<1>6. QED
  BY <1>3, <1>4, <1>5 DEF LockedStep

LEMMA StoreComes ==
  ASSUME Structure, NEW j \in Jobs, StoreStep(j)
  PROVE  AllCome
<1>1. Comes(None)
  BY KeptIs
<1>2. CASE StoreFirst(j)
  <2>1. /\ job' = [job EXCEPT ![j] = [job[j] EXCEPT !.pc = "second"]] /\ disk' = job[j].entry
        /\ fallback' = fallback /\ memory' = memory /\ job[j] \in Job
    BY <1>2, StructureParts DEF StoreFirst, JobsFine, JobsTyped
  <2>2. [job[j] EXCEPT !.pc = "second"].entry = job[j].entry
    BY <2>1 DEF Job
  <2>3. \A i \in Jobs : job'[i].entry = job[i].entry
    BY <2>1, <2>2, JobMoves
  <2>4. QED
    BY <1>1, <2>1, <2>3, MoveComes
<1>3. CASE StoreFails(j)
  <2>1. /\ job' = [job EXCEPT ![j] = Idle] /\ disk' = disk
        /\ fallback' = fallback /\ memory' = memory
    BY <1>3 DEF StoreFails, Ends, stores
  <2>2. \A i \in Jobs : job'[i].entry \in {None, job[i].entry}
    BY <2>1, JobMoves, IdleIsAJob
  <2>3. QED
    BY <1>1, <2>1, <2>2, MoveComes
<1>4. QED
  BY <1>2, <1>3 DEF StoreStep

(* What the flow asks to be saved.                                         *)
LEMMA CompleteBegins ==
  ASSUME Structure, NEW j \in Jobs, Complete(j)
  PROVE  \E entry \in Entry :
           /\ Begin(j, "complete", "queued", entry, None)
           /\ entry.who = draft.who /\ entry.passkey = None /\ entry.meta = Metadata(Overrides)
           /\ wizard.pending = None => entry.key = None
           /\ wizard.pending # None => entry.key = NewKey(wizard.pending) /\ entry.key # None
<1>1. JobsFine /\ Frame
  BY StructureParts
<1> DEFINE bundle == [who |-> draft.who, meta |-> Metadata(Overrides), key |-> None,
                      passkey |-> None]
<1>2. /\ wizard.step = "display_name" /\ draft.who \in 0..MaxBoots
      /\ wizard.pending \in Passphrases \cup {None} /\ Metadata(Overrides) \in SUBSET Changes
  BY <1>1, DraftIs DEF Complete, CanContinue
<1>3. /\ bundle \in Entry /\ bundle.who = draft.who /\ bundle.passkey = None
      /\ bundle.meta = Metadata(Overrides) /\ bundle.key = None
  BY <1>2 DEF Entry
<1>4. CASE wizard.pending = None
  BY <1>3, <1>4 DEF Complete
<1>5. CASE wizard.pending # None
  <2>1. Begin(j, "complete", "queued", Sealed(bundle, NewKey(wizard.pending)), None) /\ salts < MaxSalts
    BY <1>5 DEF Complete
  <2>2. salts + 1 \in 1..MaxSalts
    BY <1>1, <2>1, BoundsAssumption DEF Frame, RestTyped
  <2>3. NewKey(wizard.pending) \in Keys /\ NewKey(wizard.pending) # None
    BY <1>2, <1>5, <2>2, NullAssumption DEF NewKey, Keys
  <2> HIDE DEF bundle
  <2>4. QED
    BY <1>3, <1>5, <2>1, <2>3, EntriesAre
<1>6. QED
  BY <1>4, <1>5

LEMMA OnboardingComes ==
  ASSUME Structure, NEW j \in Jobs, OnboardingStep(j)
  PROVE  AllCome
<1>1. Comes(None) /\ JobsFine /\ Frame
  BY KeptIs, StructureParts
<1>2. CASE Complete(j)
  <2>1. wizard.step = "display_name"
    BY <1>1, <1>2, DraftIs DEF Complete, CanContinue
  <2>2. PICK entry \in Entry : /\ Begin(j, "complete", "queued", entry, None)
                               /\ entry.who = draft.who /\ entry.passkey = None
    BY <1>2, CompleteBegins
  <2>3. Comes(entry)
    BY <2>1, <2>2 DEF Comes, Late
  <2>4. QED
    BY <1>2, <2>2, <2>3, BeginComes DEF Complete, stores, Ops, Points
<1>3. CASE Restore(j)
  <2> DEFINE entry == [who |-> Recovered, meta |-> {}, key |-> None, passkey |-> None]
  <2>1. entry \in Entry /\ entry.who = Recovered /\ entry.passkey = None
    BY EntriesAre DEF Earlier
  <2>2. Begin(j, "restore", "queued", entry, None) /\ proven' = proven \cup {Recovered}
        /\ disk' = disk /\ fallback' = fallback /\ memory' = memory
    BY <1>3 DEF Restore, stores
  <2>3. wizard.step = "restore"
    BY <1>1, <1>3 DEF Restore, MayRestore, On, Frame, Good, FormFits
  <2> HIDE DEF entry
  <2>4. Comes(entry)
    BY <2>1, <2>2, <2>3 DEF Comes
  <2>5. QED
    BY <2>1, <2>2, <2>4, BeginComes DEF Ops, Points
<1>4. CASE EndComplete(j) \/ EndRestore(j)
  <2>1. job' = [job EXCEPT ![j] = Idle] /\ memory' \in {memory, job[j].entry} /\ StoreLast(j)
    BY <1>4 DEF EndComplete, EndRestore, Ends, Apply
  <2>2. disk' \in {disk, job[j].entry} /\ fallback' \in {fallback, job[j].entry}
    BY <1>1, <2>1, StoreLastIs
  <2>3. \A i \in Jobs : job'[i].entry \in {None, job[i].entry}
    BY <2>1, JobMoves, IdleIsAJob
  <2>4. QED
    BY <1>1, <2>1, <2>2, <2>3, MoveComes
<1>5. QED
  BY <1>2, <1>3, <1>4 DEF OnboardingStep

LEMMA ReadyComes ==
  ASSUME Structure, NEW j \in Jobs, ReadyStep(j)
  PROVE  AllCome
<1>1. Comes(None) /\ Comes(memory) /\ JobsFine /\ Frame /\ memory \in Kept /\ job[j] \in Job
      /\ job[j].entry \in Kept
  BY KeptIs, StructureParts DEF Kept, JobsFine, JobsTyped
<1>2. ASSUME NEW c \in Changes, Mutate(j, c) PROVE AllCome
  <2> DEFINE entry == [memory EXCEPT !.meta = @ \cup {c}]
  <2>1. memory \in Entry /\ memory.meta \cup {c} \in SUBSET Changes
    BY <1>2, SettingsAre DEF Mutate
  <2>2. entry \in Entry /\ entry.who = memory.who /\ entry.key = memory.key /\ entry.passkey = memory.passkey
    BY <2>1 DEF Entry
  <2>3. Begin(j, "mutate", "queued", entry, c) /\ disk' = disk /\ fallback' = fallback /\ memory' = memory
    BY <1>2 DEF Mutate, stores
  <2> HIDE DEF entry
  <2>4. Comes(entry)
    BY <1>1, <2>1, <2>2, EntriesAre DEF Comes
  <2>5. QED
    BY <2>2, <2>3, <2>4, BeginComes DEF Ops, Points
<1>3. ASSUME phase = "ready", NEW f \in Fields, SetPassphrase(j, f) \/ RemovePassphrase(j, f)
      PROVE  AllCome
  <2>1. memory \in Entry
    BY <1>3, SettingsAre
  <2>2. PICK key \in Keys \cup {None}, pc \in {"queued", "prompt"} :
          Begin(j, "change", pc, Sealed(memory, key), None)
    <3>1. CASE SetPassphrase(j, f)
      <4>1. NewKey(f.next) \in Keys
        BY <1>3, <3>1, SettingsAre DEF SetPassphrase
      <4>2. QED
        BY <3>1, <4>1 DEF SetPassphrase
    <3>2. CASE RemovePassphrase(j, f)
      BY <3>2 DEF RemovePassphrase
    <3>3. QED
      BY <1>3, <3>1, <3>2
  <2>3. Sealed(memory, key) \in Entry /\ Sealed(memory, key).who = memory.who
        /\ Sealed(memory, key).passkey = None /\ memory # None
    BY <2>1, EntriesAre
  <2>4. Comes(Sealed(memory, key))
    BY <1>1, <2>3 DEF Comes
  <2>5. disk' = disk /\ fallback' = fallback /\ memory' = memory
    BY <1>3 DEF SetPassphrase, RemovePassphrase, stores
  <2>6. QED
    BY <2>2, <2>3, <2>4, <2>5, BeginComes DEF Ops, Points
<1>4. CASE EnrollPasskey(j)
  <2>1. /\ Begin(j, "enroll", "prompt", memory, None)
        /\ disk' = disk /\ fallback' = fallback /\ memory' = memory /\ memory \in Entry
    BY <1>4, SettingsAre DEF EnrollPasskey, MayEnroll, stores
  <2>2. QED
    BY <1>1, <2>1, BeginComes DEF Ops, Points
<1>5. CASE Wrap(j)
  <2>1. job[j].entry \in Entry
    BY <1>1, <1>5 DEF Wrap, JobsFine, JobsWhole, Whole, Job
  <2> DEFINE e == WithPasskey(job[j].entry)
             w == [[job[j] EXCEPT !.pc = "queued"] EXCEPT !.entry = e]
  <2>2. /\ job' = [job EXCEPT ![j] = w] /\ disk' = disk /\ fallback' = fallback /\ memory' = memory
    <3>1. job' = [job EXCEPT ![j].pc = "queued", ![j].entry = WithPasskey(@)]
      BY <1>5 DEF Wrap
    <3>2. job' = [job EXCEPT ![j] = w]
      BY <1>1, <3>1 DEF JobsFine, JobsTyped, Job
    <3>3. QED
      BY <1>5, <3>2 DEF Wrap, stores
  <2>3. w.entry = e
    BY <1>1 DEF Job
  <2>4. e.who = job[j].entry.who /\ e.passkey = e.key /\ job[j].entry # None
    BY <2>1, EntriesAre
  <2>5. Comes(e)
    <3> HIDE DEF e
    <3>1. QED
      BY <1>1, <2>4 DEF Comes
  <2>6. \A i \in Jobs : job'[i].entry \in {e, job[i].entry}
    <3> HIDE DEF e, w
    <3>1. QED
      BY <2>2, <2>3, JobMoves
  <2>7. QED
    BY <2>2, <2>5, <2>6, MoveComes
<1>6. CASE EndMutate(j) \/ EndSeal(j)
  <2>1. /\ memory' = job[j].entry /\ StoreLast(j)
        /\ \/ job' = [job EXCEPT ![j] = Idle]
           \/ job' = [job EXCEPT ![j].pc = "remote", ![j].entry = None]
    BY <1>6 DEF EndMutate, EndSeal, Ends, Apply
  <2>2. disk' \in {disk, job[j].entry} /\ fallback' \in {fallback, job[j].entry}
    BY <1>1, <2>1, StoreLastIs
  <2>3. \A i \in Jobs : job'[i].entry \in {None, job[i].entry}
    <3>1. CASE job' = [job EXCEPT ![j] = Idle]
      BY <3>1, JobMoves, IdleIsAJob
    <3>2. CASE job' = [job EXCEPT ![j].pc = "remote", ![j].entry = None]
      <4>1. job \in [Jobs -> Job]
        BY <1>1 DEF JobsFine, JobsTyped
      <4>2. QED
        BY <3>2, <4>1 DEF Job
    <3>3. QED
      BY <2>1, <3>1, <3>2
  <2>4. QED
    BY <1>1, <2>1, <2>2, <2>3, MoveComes
<1>7. CASE Confirmed(j)
  <2>1. /\ job' = [job EXCEPT ![j] = Idle] /\ disk' = disk /\ fallback' = fallback
        /\ memory' = memory
    BY <1>7 DEF Confirmed, Ends, stores
  <2>2. \A i \in Jobs : job'[i].entry \in {None, job[i].entry}
    BY <2>1, JobMoves, IdleIsAJob
  <2>3. QED
    BY <1>1, <2>1, <2>2, MoveComes
<1>8. CASE Refused(j)
  <2> DEFINE e == [memory EXCEPT !.meta = (@ \ Levels) \cup job[j].before]
  <2>1. memory \in Entry /\ memory # None
    BY <1>8, SettingsAre DEF Refused
  <2>2. e.who = memory.who /\ e.key = memory.key /\ e.passkey = memory.passkey
    BY <2>1 DEF Entry
  <2>3. Comes(e)
    <3> HIDE DEF e
    <3>1. QED
      BY <1>1, <2>1, <2>2 DEF Comes
  <2>4. \A i \in Jobs : job'[i].entry \in {e, job[i].entry}
    <3>1. job' = [job EXCEPT ![j].pc = "queued", ![j].change = None, ![j].entry = e,
                             ![j].before = {}]
      BY <1>8 DEF Refused
    <3>2. job \in [Jobs -> Job]
      BY <1>1 DEF JobsFine, JobsTyped
    <3> HIDE DEF e
    <3>3. QED
      BY <3>1, <3>2 DEF Job
  <2>5. disk' = disk /\ fallback' = fallback /\ memory' = memory
    BY <1>8 DEF Refused, stores
  <2>6. QED
    BY <2>3, <2>4, <2>5, MoveComes
<1>9. QED
  BY <1>2, <1>3, <1>4, <1>5, <1>6, <1>7, <1>8 DEF ReadyStep

LEMMA OwnComes ==
  ASSUME Structure,
         Boot \/ BootUnreadable \/ BootFails \/ Restart \/ Advance \/ Finish
           \/ \E p \in Passphrases : Unlock(p)
  PROVE  AllCome
<1>1. Comes(None) /\ Comes(memory) /\ Comes(disk) /\ Comes(fallback)
      /\ (\A i \in Jobs : Comes(job[i].entry)) /\ JobsFine /\ Frame
  BY KeptIs, StructureParts
<1>2. CASE Boot \/ BootUnreadable
  <2>1. phase = "loading" /\ Migrate /\ job' = job
    BY <1>2 DEF Boot, BootUnreadable
  <2>2. disk' = disk \/ (disk' = Earlier /\ legacy # None)
    BY <1>1, <2>1, MigrateIs
  <2>3. disk' \in Entry \cup {None}
    BY <1>1, <2>2, EntriesAre DEF Frame, RestTyped
  <2>4. Comes(disk')
    BY <1>1, <2>1, <2>2 DEF Comes, Earlier
  <2>5. fallback' \in {fallback, disk} /\ memory' \in {disk', None, fallback}
    <3>1. CASE Boot
      BY <1>1, <2>1, <2>3, <3>1, LoadsIs, OnboardIs DEF Boot
    <3>2. CASE BootUnreadable
      BY <1>1, <3>2, OnboardIs DEF BootUnreadable, Apply
    <3>3. QED
      BY <1>2, <3>1, <3>2
  <2>6. QED
    BY <1>1, <2>1, <2>4, <2>5, ComeOf
<1>3. CASE BootFails \/ Advance \/ \E p \in Passphrases : Unlock(p)
  <2>1. job' = job /\ disk' = disk /\ fallback' = fallback /\ memory' \in {None, memory}
    BY <1>3 DEF BootFails, Advance, Unlock, Apply, stores
  <2>2. QED
    BY <1>1, <2>1, ComeOf
<1>4. CASE Restart
  <2>1. /\ job' = [i \in Jobs |-> Idle] /\ disk' = disk /\ fallback' = fallback /\ memory' = None
    BY <1>4 DEF Restart, Apply, stores
  <2>2. \A i \in Jobs : job'[i].entry = None
    BY <2>1, IdleIsAJob
  <2>3. QED
    BY <1>1, <2>1, <2>2, ComeOf
<1>5. CASE Finish
  <2>1. /\ wizard.step = "complete" /\ job' = job /\ disk' = disk /\ fallback' = fallback
        /\ memory' = [who |-> draft.who, meta |-> Metadata(draft.named), key |-> draft.key,
                      passkey |-> None]
    BY <1>5 DEF Finish, Apply, stores
  <2>2. memory'.who = draft.who /\ memory'.passkey = None
    BY <2>1
  <2>3. Comes(memory')
    BY <2>1, <2>2 DEF Comes, Late
  <2>4. QED
    BY <1>1, <2>1, <2>3, ComeOf
<1>6. QED
  BY <1>2, <1>3, <1>4, <1>5

LEMMA EveryEntryComes ==
  ASSUME Structure, Next
  PROVE  AllCome
  BY OwnComes, StoreComes, LockedComes, OnboardingComes, ReadyComes DEF Next

LEMMA PasskeyKept ==
  ASSUME Structure, PasskeyOpens, [Next]_vars
  PROVE  PasskeyOpens'
<1>1. CASE Next
  <2>1. AllCome /\ \A e \in Kept : e # None => e.passkey \in {None, e.key}
    BY <1>1, EveryEntryComes DEF PasskeyOpens, Kept
  <2>2. \A e \in Kept' : e # None => e.passkey \in {None, e.key}
    BY <2>1 DEF AllCome, Comes
  <2>3. QED
    BY <2>2 DEF PasskeyOpens, Kept
<1>2. CASE UNCHANGED vars
  BY <1>2 DEF vars, stores, PasskeyOpens
<1>3. QED
  BY <1>1, <1>2

(* Wherever an entry is kept, its passkey wraps the key that seals it:     *)
(* whichever enrolments, changes of the passphrase and of the metadata     *)
(* overlap, whichever of their writes fail, and through every restart, a   *)
(* passkey that is offered opens the entry that it is offered for.         *)
THEOREM PasskeyAlwaysOpens == Spec => []PasskeyOpens
<1>1. Init => PasskeyOpens
  BY IdleIsAJob DEF Init, PasskeyOpens
<1>2. Structure /\ PasskeyOpens /\ [Next]_vars => PasskeyOpens'
  BY PasskeyKept
<1>3. QED
  BY <1>1, <1>2, StructureHolds, PTL DEF Spec

-----------------------------------------------------------------------------
(* Layer 2: whose identity it is                                           *)

(* What the steps do to the flow and to the stored entry, of which the     *)
(* proof needs no more than this.                                          *)
Restarts ==
  /\ proven' = proven \cap {entry.who : entry \in {disk, legacy} \ {None}}
  /\ disk' = disk /\ legacy' = legacy /\ fallback' = fallback /\ memory' = None
  /\ \A i \in Jobs : job'[i] = Idle
  /\ phase' = "loading" /\ wizard' = Gone

Written == \E j \in Jobs : /\ Serve(j) /\ disk' = job[j].entry
                           /\ job[j].op = "restore" => phase' = "ready" \/ IsSealed(job[j].entry)

Goings ==
  /\ native' = native /\ legacy' \in {legacy, None} /\ (unread => unread')
  /\ proven \subseteq proven' \/ Restarts
  /\ wizard'.step \in Answered =>
       draft'.who = draft.who /\ (wizard.step \in Answered \/ draft.who \in proven')
  /\ phase' = "onboarding" =>
       \/ phase = "onboarding" /\ (Late(wizard) => Late(wizard')) /\ draft'.who = draft.who
       \/ phase = "loading" /\ ~Late(wizard') /\ (disk' = None \/ (~native /\ unread'))

Writes ==
  /\ disk' = disk \/ Written \/ (phase = "loading" /\ ~native /\ legacy # None /\ disk' = Earlier)
  /\ \A i \in Jobs : job'[i].pc = "second" => job[i].pc = "second" \/ disk' # None
  /\ disk = None /\ disk' = None /\ fallback = None /\ memory = None /\ wizard.step # "complete"
       /\ (\A i \in Jobs : job[i].pc # "second")
     => fallback' = None /\ memory' = None /\ wizard'.step # "complete"

Saves ==
  \A i \in Jobs :
    /\ job'[i].op = "restore" =>
         (job[i].op = "restore" /\ job'[i].entry = job[i].entry) \/ job'[i].entry = Earlier
    /\ job'[i].op = "complete" /\ phase' = "onboarding" =>
         \/ job[i].op = "complete" /\ job'[i].entry = job[i].entry
         \/ job'[i].entry.who = draft.who

LEMMA EndedSaves ==
  ASSUME Structure, NEW j \in Jobs, NEW w, job' = [job EXCEPT ![j] = w],
         w = Idle \/ (w.op = job[j].op /\ w.op \notin {"restore", "complete"})
           \/ (w.op = job[j].op /\ w.entry = job[j].entry)
  PROVE  Saves
<1>1. job'[j] = w /\ \A i \in Jobs \ {j} : job'[i] = job[i]
  BY JobMoves
<1>2. QED
  BY <1>1, IdleIsAJob DEF Saves

LEMMA BegunSaves ==
  ASSUME Structure, NEW j \in Jobs, NEW op \in Ops, NEW pc \in Points,
         NEW entry \in Entry \cup {None}, NEW change \in Changes \cup {None},
         Begin(j, op, pc, entry, change), pc # "second",
         op = "restore" => entry = Earlier, op = "complete" => entry.who = draft.who
  PROVE  Saves /\ \A i \in Jobs : job'[i].pc = "second" => job[i].pc = "second"
<1>1. JobsTyped
  BY StructureParts DEF JobsFine
<1>2. /\ job'[j].op = op /\ job'[j].entry = entry /\ job'[j].pc = pc
      /\ \A i \in Jobs \ {j} : job'[i].op = job[i].op /\ job'[i].entry = job[i].entry
                                 /\ job'[i].pc = job[i].pc
  BY <1>1, BeginDoes DEF Same
<1>3. QED
  BY <1>2 DEF Saves

LEMMA EarlierIs ==
  /\ Earlier = [who |-> Recovered, meta |-> {}, key |-> None, passkey |-> None]
  /\ Earlier # None /\ Earlier.who = Recovered /\ Earlier.meta = {} /\ Earlier \in Entry
  BY EntriesAre DEF Earlier

Course == Goings /\ Writes /\ Saves

(* An operation begins or ends with nothing stored and the flow as it is.  *)
LEMMA StillGoes ==
  ASSUME Structure, UNCHANGED <<device, onboarding, disk, phase, unread>>, draft' = draft,
         fallback' \in {fallback, disk}, memory' = memory
  PROVE  /\ Goings
         /\ (\A i \in Jobs : job'[i].pc = "second" => job[i].pc = "second") => Writes
<1>1. native' = native /\ legacy' = legacy /\ wizard' = wizard /\ proven' = proven
  BY DEF device, onboarding
<1>2. phase = "onboarding" => phase # "loading"
  OBVIOUS
<1>3. Goings
  BY <1>1 DEF Goings
<1>4. QED
  BY <1>1, <1>3 DEF Writes

LEMMA LockedSteps ==
  ASSUME Structure, NEW j \in Jobs, LockedStep(j)
  PROVE  Course
<1>1. JobsFine /\ Frame /\ memory \in Entry \cup {None}
  BY StructureParts DEF Frame, RestTyped
<1>2. CASE AskPasskey(j) \/ AskNative(j)
  <2>1. PICK op \in {"passkey", "native"}, entry \in Entry \cup {None} :
          Begin(j, op, "prompt", entry, None)
    BY <1>1, <1>2 DEF AskPasskey, AskNative
  <2>2. UNCHANGED <<device, onboarding, disk, phase, unread>> /\ draft' = draft
        /\ fallback' = fallback /\ memory' = memory
    BY <1>2 DEF AskPasskey, AskNative, stores, history
  <2>3. Saves /\ \A i \in Jobs : job'[i].pc = "second" => job[i].pc = "second"
    BY <2>1, BegunSaves DEF Ops, Points
  <2>4. QED
    BY <2>2, <2>3, StillGoes DEF Course
<1>3. CASE UnlockWithPasskey(j) \/ UnlockNative(j) \/ Decline(j)
  <2>1. /\ job' = [job EXCEPT ![j] = Idle] /\ native' = native /\ legacy' = legacy
        /\ wizard' = wizard /\ proven' = proven /\ disk' = disk /\ draft' = draft
        /\ unread' = unread
        /\ phase' = phase \/ phase' \in {"locked", "ready"}
    BY <1>3 DEF UnlockWithPasskey, UnlockNative, Decline, Ends, Apply, device, onboarding, stores,
                history
  <2>2. \A i \in Jobs : job'[i].pc = "second" => job[i].pc = "second"
    BY <2>1, JobMoves, IdleIsAJob
  <2>3. Goings
    BY <2>1 DEF Goings
  <2>4. UnlockWithPasskey(j) => memory # None
    <3>1. Whole(job[j], native) /\ InPhase(job[j], phase)
      BY <1>1 DEF JobsFine, JobsWhole
    <3>2. UnlockWithPasskey(j) => job[j].op = "passkey"
      BY DEF UnlockWithPasskey
    <3>3. UnlockWithPasskey(j) => phase = "locked"
      BY <1>1, <3>1, <3>2 DEF Whole, InPhase, Opener, Frame, PhaseHolds
    <3>4. QED
      BY <1>1, <3>3, EntriesAre DEF Frame, RestTyped
  <2>5. Writes
    <3>1. CASE UnlockWithPasskey(j)
      BY <2>1, <2>2, <2>4, <3>1 DEF Writes
    <3>2. CASE UnlockNative(j)
      BY <2>1, <2>2, <3>2 DEF Writes, UnlockNative
    <3>3. CASE Decline(j)
      BY <2>1, <2>2, <3>3 DEF Writes, Decline, stores
    <3>4. QED
      BY <1>3, <3>1, <3>2, <3>3
  <2>6. QED
    BY <2>1, <2>3, <2>5, EndedSaves DEF Course
<1>4. QED
  BY <1>2, <1>3 DEF LockedStep

LEMMA StoreSteps ==
  ASSUME Structure, NEW j \in Jobs, StoreStep(j)
  PROVE  Course
<1>1. JobsFine /\ Frame
  BY StructureParts
<1>2. CASE StoreFirst(j)
  <2>1. /\ Serve(j) /\ IsSealed(job[j].entry)
        /\ job' = [job EXCEPT ![j] = [job[j] EXCEPT !.pc = "second"]] /\ disk' = job[j].entry
        /\ native' = native /\ legacy' = legacy /\ wizard' = wizard /\ proven' = proven
        /\ phase' = phase /\ memory' = memory /\ draft' = draft /\ unread' = unread
    BY <1>2 DEF StoreFirst, device, onboarding, history
  <2>2. job[j].entry # None /\ job[j] \in Job
    BY <1>1, <2>1, ServedIs
  <2>3. /\ [job[j] EXCEPT !.pc = "second"].op = job[j].op
        /\ [job[j] EXCEPT !.pc = "second"].entry = job[j].entry
    BY <2>2 DEF Job
  <2>4. Saves
    BY <2>1, <2>3, EndedSaves
  <2>5. Goings
    BY <2>1 DEF Goings
  <2>6. Writes
    BY <2>1, <2>2 DEF Writes, Written
  <2>7. QED
    BY <2>4, <2>5, <2>6 DEF Course
<1>3. CASE StoreFails(j)
  <2>1. /\ Serve(j) /\ Told(j) /\ job' = [job EXCEPT ![j] = Idle] /\ disk' = disk
        /\ native' = native /\ legacy' = legacy /\ proven' = proven /\ fallback' = fallback
        /\ phase' = phase /\ memory' = memory /\ draft' = draft /\ unread' = unread
    BY <1>3 DEF StoreFails, Ends, device, stores
  <2>2. wizard'.step = wizard.step /\ (Late(wizard) => Late(wizard'))
    BY <1>1, <2>1, ToldIs DEF Frame
  <2>3. \A i \in Jobs : job'[i].pc = "second" => job[i].pc = "second"
    BY <2>1, JobMoves, IdleIsAJob
  <2>4. Goings
    BY <2>1, <2>2 DEF Goings
  <2>5. Writes
    BY <2>1, <2>2, <2>3 DEF Writes
  <2>6. QED
    BY <2>1, <2>4, <2>5, EndedSaves DEF Course
<1>4. QED
  BY <1>2, <1>3 DEF StoreStep

LEMMA OnboardingSteps ==
  ASSUME Structure, NEW j \in Jobs, OnboardingStep(j)
  PROVE  Course
<1>1. JobsFine /\ Frame
  BY StructureParts
<1>2. CASE Complete(j)
  <2>1. PICK entry \in Entry : Begin(j, "complete", "queued", entry, None) /\ entry.who = draft.who
    BY <1>2, CompleteBegins
  <2>2. Saves /\ \A i \in Jobs : job'[i].pc = "second" => job[i].pc = "second"
    BY <2>1, BegunSaves DEF Ops, Points
  <2>3. /\ native' = native /\ legacy' = legacy /\ proven' = proven /\ disk' = disk
        /\ fallback' = fallback /\ phase' = phase /\ memory' = memory /\ draft' = draft
        /\ unread' = unread /\ wizard' = [wizard EXCEPT !.chosen = Overrides]
    BY <1>2 DEF Complete, device, stores, history
  <2>4. wizard'.step = wizard.step
    BY <1>1, <2>3 DEF Frame, Good, Wizards
  <2>5. Goings
    BY <2>3, <2>4 DEF Goings, Late
  <2>6. Writes
    BY <2>2, <2>3, <2>4 DEF Writes
  <2>7. QED
    BY <2>2, <2>5, <2>6 DEF Course
<1>3. CASE Restore(j)
  <2>1. Begin(j, "restore", "queued", Earlier, None)
    BY <1>3, EarlierIs DEF Restore
  <2>2. Saves /\ \A i \in Jobs : job'[i].pc = "second" => job[i].pc = "second"
    BY <2>1, EarlierIs, BegunSaves DEF Ops, Points
  <2>3. /\ native' = native /\ legacy' = legacy /\ proven' = proven \cup {Recovered} /\ disk' = disk
        /\ fallback' = fallback /\ phase' = phase /\ memory' = memory /\ draft' = draft
        /\ unread' = unread /\ Submits(TRUE)
    BY <1>3 DEF Restore, device, stores, history
  <2>4. wizard'.step = wizard.step
    BY <1>1, <2>3, SubmitsIs DEF Frame
  <2>5. Goings
    BY <2>3, <2>4 DEF Goings, Late
  <2>6. Writes
    BY <2>2, <2>3, <2>4 DEF Writes
  <2>7. QED
    BY <2>2, <2>5, <2>6 DEF Course
<1>4. CASE EndComplete(j) \/ EndRestore(j)
  <2>1. /\ job' = [job EXCEPT ![j] = Idle] /\ StoreLast(j)
        /\ native' = native /\ legacy' = legacy /\ proven' = proven /\ unread' = unread
        /\ EndRestore(j) => phase' = "ready" /\ wizard' = Gone
        /\ EndComplete(j) => /\ phase' = phase /\ job[j].op = "complete"
                             /\ phase # "onboarding" => wizard' = wizard /\ draft' = draft
                             /\ phase = "onboarding" =>
                                  /\ wizard' = [To("complete") EXCEPT !.error = FALSE]
                                  /\ draft' = [draft EXCEPT !.key = job[j].entry.key,
                                                            !.named = job[j].entry.meta # {}]
    BY <1>4 DEF EndComplete, EndRestore, Ends, Apply, device, history
  <2>2. /\ Serve(j) /\ ((disk' = disk /\ job[j].pc = "second") \/ disk' = job[j].entry)
        /\ job[j].entry # None
    BY <1>1, <2>1, StoreLastIs, ServedIs
  <2>3. \A i \in Jobs : job'[i].pc = "second" => job[i].pc = "second"
    BY <2>1, JobMoves, IdleIsAJob
  <2>4. Writes
    BY <1>4, <2>1, <2>2, <2>3 DEF Writes, Written
  <2>5. CASE EndRestore(j)
    <3>1. wizard'.step \notin Answered
      BY <2>1, <2>5, MountedIsGood DEF Answered
    <3>2. Goings
      BY <2>1, <2>5, <3>1 DEF Goings
    <3>3. QED
      BY <2>1, <2>4, <3>2, EndedSaves DEF Course
  <2>6. CASE EndComplete(j) /\ phase = "onboarding"
    <3>1. To("complete").step = "complete" /\ Good(To("complete"))
      BY <1>1, ToIsGood DEF Frame, Steps
    <3>2. wizard'.step = "complete" /\ draft'.who = draft.who
      <4>1. wizard'.step = "complete"
        BY <2>1, <2>6, <3>1 DEF Good, Wizards
      <4>2. QED
        BY <1>1, <2>1, <2>6, <4>1 DEF Frame, RestTyped
    <3>3. Late(wizard)
      BY <1>1, <2>1, <2>6 DEF JobsFine, OnboardingJobs
    <3>4. Goings
      BY <2>1, <2>6, <3>2, <3>3 DEF Goings, Late, Answered
    <3>5. QED
      BY <2>1, <2>4, <3>4, EndedSaves DEF Course
  <2>7. CASE EndComplete(j) /\ phase # "onboarding"
    <3>1. Goings
      BY <2>1, <2>7 DEF Goings
    <3>2. QED
      BY <2>1, <2>4, <3>1, EndedSaves DEF Course
  <2>8. QED
    BY <1>4, <2>5, <2>6, <2>7
<1>5. QED
  BY <1>2, <1>3, <1>4 DEF OnboardingStep

LEMMA ReadySteps ==
  ASSUME Structure, NEW j \in Jobs, phase # "onboarding", ReadyStep(j)
  PROVE  Course
<1>1. JobsFine /\ Frame /\ job[j] \in Job /\ job \in [Jobs -> Job]
  BY StructureParts DEF JobsFine, JobsTyped
<1>2. ASSUME NEW op \in {"mutate", "change", "enroll"}, NEW pc \in {"prompt", "queued"},
             NEW entry \in Entry, NEW change \in Changes \cup {None},
             Begin(j, op, pc, entry, change),
             UNCHANGED <<device, onboarding, disk, phase, unread>>, draft' = draft,
             fallback' = fallback, memory' = memory
      PROVE  Course
  <2>1. Saves /\ \A i \in Jobs : job'[i].pc = "second" => job[i].pc = "second"
    BY <1>2, BegunSaves DEF Ops, Points
  <2>2. QED
    BY <1>2, <2>1, StillGoes DEF Course
<1>3. ASSUME NEW c \in Changes, Mutate(j, c) PROVE Course
  <2> DEFINE entry == [memory EXCEPT !.meta = @ \cup {c}]
  <2>1. memory \in Entry /\ memory.meta \cup {c} \in SUBSET Changes
    BY <1>3, SettingsAre DEF Mutate
  <2>2. entry \in Entry
    BY <2>1 DEF Entry
  <2>3. Begin(j, "mutate", "queued", entry, c)
    BY <1>3 DEF Mutate
  <2> HIDE DEF entry
  <2>4. QED
    BY <1>2, <1>3, <2>2, <2>3 DEF Mutate, stores, history
<1>4. ASSUME phase = "ready", NEW f \in Fields, SetPassphrase(j, f) \/ RemovePassphrase(j, f)
      PROVE  Course
  <2>1. memory \in Entry
    BY <1>4, SettingsAre
  <2>2. PICK key \in Keys \cup {None}, pc \in {"queued", "prompt"} :
          Begin(j, "change", pc, Sealed(memory, key), None)
    <3>1. CASE SetPassphrase(j, f)
      <4>1. NewKey(f.next) \in Keys
        BY <1>4, <3>1, SettingsAre DEF SetPassphrase
      <4>2. QED
        BY <3>1, <4>1 DEF SetPassphrase
    <3>2. CASE RemovePassphrase(j, f)
      BY <3>2 DEF RemovePassphrase
    <3>3. QED
      BY <1>4, <3>1, <3>2
  <2>3. Sealed(memory, key) \in Entry
    BY <2>1, EntriesAre
  <2>4. QED
    BY <1>2, <1>4, <2>2, <2>3 DEF SetPassphrase, RemovePassphrase, stores, history
<1>5. CASE EnrollPasskey(j)
  <2>1. memory \in Entry /\ Begin(j, "enroll", "prompt", memory, None)
    BY <1>5, SettingsAre DEF EnrollPasskey, MayEnroll
  <2>2. QED
    BY <1>2, <1>5, <2>1 DEF EnrollPasskey, stores, history
<1>6. CASE Wrap(j) \/ Refused(j) \/ Confirmed(j)
  <2>1. /\ job' \in {[job EXCEPT ![j].pc = "queued", ![j].entry = WithPasskey(@)],
                     [job EXCEPT ![j].pc = "queued", ![j].change = None,
                                 ![j].entry = [memory EXCEPT !.meta = (@ \ Levels) \cup job[j].before],
                                 ![j].before = {}],
                     [job EXCEPT ![j] = Idle]}
    BY <1>6 DEF Wrap, Refused, Confirmed, Ends
  <2>2. job[j].op \in Setter
    <3>1. Whole(job[j], native)
      BY <1>1 DEF JobsFine, JobsWhole
    <3>2. job[j].pc = "remote" => job[j].op = "mutate"
      BY <1>1, <3>1, IdleIsAJob DEF Whole, Job, Ops, Opener
    <3>3. QED
      BY <1>6, <3>2 DEF Wrap, Refused, Confirmed, Setter
  <2>3. /\ job'[j].op \in {job[j].op, "none"} /\ job'[j].pc # "second"
        /\ \A i \in Jobs \ {j} : job'[i] = job[i]
    <3>1. CASE job' = [job EXCEPT ![j] = Idle]
      BY <1>1, <3>1, IdleIsAJob
    <3>2. CASE job' = [job EXCEPT ![j].pc = "queued", ![j].entry = WithPasskey(@)]
      <4> DEFINE e == WithPasskey(job[j].entry)
      <4>1. job' = [job EXCEPT ![j] = [[job[j] EXCEPT !.pc = "queued"] EXCEPT !.entry = e]]
        BY <1>1, <3>2 DEF Job
      <4> HIDE DEF e
      <4>2. QED
        BY <1>1, <4>1 DEF Job
    <3>3. CASE job' = [job EXCEPT ![j].pc = "queued", ![j].change = None,
                                 ![j].entry = [memory EXCEPT !.meta = (@ \ Levels) \cup job[j].before],
                                 ![j].before = {}]
      <4> DEFINE e == [memory EXCEPT !.meta = (@ \ Levels) \cup job[j].before]
      <4>1. job' = [job EXCEPT ![j].pc = "queued", ![j].change = None, ![j].entry = e, ![j].before = {}]
        BY <3>3
      <4> HIDE DEF e
      <4>2. QED
        BY <1>1, <4>1 DEF Job
    <3>4. QED
      BY <2>1, <3>1, <3>2, <3>3
  <2>4. Saves
    BY <2>2, <2>3 DEF Saves, Setter
  <2>5. \A i \in Jobs : job'[i].pc = "second" => job[i].pc = "second"
    BY <2>3
  <2>6. UNCHANGED <<device, onboarding, disk, phase, unread>> /\ draft' = draft
        /\ fallback' = fallback /\ memory' = memory
    BY <1>6 DEF Wrap, Refused, Confirmed, stores, history
  <2>7. QED
    BY <2>4, <2>5, <2>6, StillGoes DEF Course
<1>7. CASE EndMutate(j) \/ EndSeal(j)
  <2>1. /\ job[j].op \in Setter /\ StoreLast(j)
        /\ native' = native /\ legacy' = legacy /\ proven' = proven /\ unread' = unread
        /\ phase' = "ready" /\ wizard' = wizard /\ draft' = draft
        /\ \/ job' = [job EXCEPT ![j] = Idle]
           \/ job' = [job EXCEPT ![j].pc = "remote", ![j].entry = None]
    BY <1>7 DEF EndMutate, EndSeal, Ends, Apply, device, onboarding, history, Setter
  <2>2. /\ Serve(j) /\ ((disk' = disk /\ job[j].pc = "second") \/ disk' = job[j].entry)
        /\ job[j].entry # None
    BY <1>1, <2>1, StoreLastIs, ServedIs
  <2>3. /\ job'[j].op \in {job[j].op, "none"} /\ job'[j].pc # "second"
        /\ \A i \in Jobs \ {j} : job'[i] = job[i]
    <3>1. CASE job' = [job EXCEPT ![j] = Idle]
      BY <1>1, <3>1, IdleIsAJob
    <3>2. CASE job' = [job EXCEPT ![j].pc = "remote", ![j].entry = None]
      BY <1>1, <3>2 DEF Job
    <3>3. QED
      BY <2>1, <3>1, <3>2
  <2>4. Saves
    BY <2>1, <2>3 DEF Saves, Setter
  <2>5. \A i \in Jobs : job'[i].pc = "second" => job[i].pc = "second"
    BY <2>3
  <2>6. Goings
    BY <2>1 DEF Goings
  <2>7. Writes
    BY <2>1, <2>2, <2>5 DEF Writes, Written
  <2>8. QED
    BY <2>4, <2>6, <2>7 DEF Course
<1>8. QED
  BY <1>3, <1>4, <1>5, <1>6, <1>7 DEF ReadyStep

LEMMA OwnSteps ==
  ASSUME Structure,
         Boot \/ BootUnreadable \/ BootFails \/ Restart \/ Advance \/ Finish
           \/ \E p \in Passphrases : Unlock(p)
  PROVE  Course
<1>1. JobsFine /\ Frame
  BY StructureParts
<1>2. ASSUME job' = job PROVE Saves /\ \A i \in Jobs : job'[i].pc = "second" => job[i].pc = "second"
  BY <1>2 DEF Saves
<1>3. CASE Boot \/ BootUnreadable
  <2>1. phase = "loading" /\ Migrate /\ job' = job
    BY <1>3 DEF Boot, BootUnreadable
  <2>2. /\ native' = native /\ legacy' \in {legacy, None}
        /\ disk' = disk \/ (legacy # None /\ ~native /\ disk' = Earlier)
    BY <1>1, <2>1, MigrateIs
  <2>3. disk' \in Entry \cup {None}
    BY <1>1, <2>2, EntriesAre DEF Frame, RestTyped
  <2>4. (unread => unread') /\ wizard.step \notin Answered
    BY <1>1, <1>3, <2>1 DEF Boot, BootUnreadable, Frame, RestTyped, Answered
  <2>5. /\ proven' = proven /\ wizard'.step \notin Answered
        /\ phase' = "onboarding" => disk' = None \/ (~native /\ unread')
    <3>1. CASE Boot
      <4>1. \/ disk' = None /\ Onboard
            \/ /\ wizard' = wizard /\ proven' = proven /\ phase' # "onboarding"
        BY <1>1, <2>1, <2>3, <3>1, LoadsIs DEF Boot
      <4>2. QED
        BY <1>1, <2>4, <4>1, OnboardIs DEF Answered
    <3>2. CASE BootUnreadable
      <4>1. \/ ~native /\ unread' /\ Onboard
            \/ /\ wizard' = wizard /\ proven' = proven /\ phase' # "onboarding"
        BY <3>2 DEF BootUnreadable, Apply, onboarding
      <4>2. QED
        BY <1>1, <2>4, <4>1, OnboardIs DEF Answered
    <3>3. QED
      BY <1>3, <3>1, <3>2
  <2>6. Goings
    BY <2>1, <2>2, <2>4, <2>5 DEF Goings, Answered, Late
  <2>7. disk = None /\ disk' = None /\ fallback = None => fallback' = None /\ memory' = None
    <3>1. CASE Boot
      BY <1>1, <2>1, <2>3, <3>1, LoadsIs, OnboardIs, EntriesAre DEF Boot
    <3>2. CASE BootUnreadable
      BY <1>1, <3>2, OnboardIs DEF BootUnreadable, Apply
    <3>3. QED
      BY <1>3, <3>1, <3>2
  <2>8. Writes
    BY <1>2, <2>1, <2>2, <2>5, <2>7 DEF Writes, Answered
  <2>9. QED
    BY <1>2, <2>1, <2>6, <2>8 DEF Course
<1>4. CASE BootFails \/ (\E p \in Passphrases : Unlock(p)) \/ Finish
  <2>1. /\ native' = native /\ legacy' = legacy /\ proven' = proven /\ unread' = unread
        /\ job' = job /\ disk' = disk /\ fallback' = fallback
        /\ phase' \in {"error", "ready"}
        /\ \/ wizard' = wizard /\ draft' = draft /\ memory' \in {memory, None}
           \/ wizard' = Gone /\ wizard.step = "complete"
    BY <1>4 DEF BootFails, Unlock, Finish, Apply, device, onboarding, stores, history
  <2>2. wizard' = Gone => wizard'.step \notin Answered
    BY MountedIsGood DEF Answered
  <2>3. Goings
    BY <2>1, <2>2 DEF Goings
  <2>4. Writes
    BY <1>2, <2>1, <2>2 DEF Writes, Answered
  <2>5. QED
    BY <1>2, <2>1, <2>3, <2>4 DEF Course
<1>5. CASE Advance
  <2>1. /\ native' = native /\ legacy' = legacy /\ unread' = unread /\ phase' = phase
        /\ job' = job /\ disk' = disk /\ fallback' = fallback /\ draft' = draft /\ memory' = memory
    BY <1>5 DEF Advance, device, stores, history
  <2>2. Advanced(draft.who)
    BY <1>5, AdvanceKeeps
  <2>3. Goings
    BY <2>1, <2>2 DEF Goings, Advanced, Answered, Late
  <2>4. Writes
    BY <1>2, <2>1, <2>2 DEF Writes, Advanced
  <2>5. QED
    BY <1>2, <2>1, <2>3, <2>4 DEF Course
<1>6. CASE Restart
  <2>1. /\ native' = native /\ legacy' = legacy /\ unread' = unread /\ phase' = "loading"
        /\ disk' = disk /\ fallback' = fallback /\ memory' = None /\ wizard' = Gone
        /\ job' = [i \in Jobs |-> Idle]
        /\ proven' = proven \cap {entry.who : entry \in {disk, legacy} \ {None}}
    BY <1>6 DEF Restart, Apply, device, stores, history
  <2>2. \A i \in Jobs : job'[i] = Idle
    BY <2>1
  <2>3. wizard'.step \notin Answered
    BY <2>1, MountedIsGood DEF Answered
  <2>4. Restarts
    BY <2>1, <2>2 DEF Restarts
  <2>5. Goings
    BY <2>1, <2>3, <2>4 DEF Goings
  <2>6. Writes
    BY <2>1, <2>2, <2>3, IdleIsAJob DEF Writes, Answered
  <2>7. Saves
    BY <2>2, IdleIsAJob DEF Saves
  <2>8. QED
    BY <2>5, <2>6, <2>7 DEF Course
<1>7. QED
  BY <1>3, <1>4, <1>5, <1>6

LEMMA EveryStep ==
  ASSUME Structure, Next
  PROVE  Course
<1>1. JobsFine /\ Frame
  BY StructureParts
<1>2. ASSUME NEW j \in Jobs, ReadyStep(j) PROVE phase # "onboarding"
  <2>1. Whole(job[j], native) /\ InPhase(job[j], phase) /\ job[j] \in Job
    BY <1>1 DEF JobsFine, JobsTyped, JobsWhole
  <2>2. job[j].pc = "remote" => job[j].op = "mutate"
    BY <2>1, IdleIsAJob DEF Whole, Job, Ops, Opener
  <2>3. job[j].op \in Setter => phase # "onboarding"
    BY <2>1 DEF InPhase
  <2>4. QED
    BY <1>2, <2>2, <2>3 DEF ReadyStep, Mutate, EnrollPasskey, MayEnroll, Wrap, EndMutate,
                            Confirmed, Refused, EndSeal, Setter
<1>3. QED
  BY <1>2, OwnSteps, StoreSteps, LockedSteps, OnboardingSteps, ReadySteps DEF Next

LEMMA DraftSavedStays ==
  ASSUME Structure, Structure', DraftSaved, Course
  PROVE  DraftSaved'
<1>1. ASSUME NEW i \in Jobs, job'[i].op = "restore" PROVE job'[i].entry = Earlier
  BY <1>1 DEF Course, Saves, DraftSaved
<1>2. ASSUME NEW i \in Jobs, job'[i].op = "complete", phase' = "onboarding"
      PROVE  job'[i].entry.who = draft'.who
  <2>1. Late(wizard')
    <3>1. OnboardingJobs'
      BY DEF Structure
    <3>2. QED
      BY <1>2, <3>1 DEF OnboardingJobs
  <2>2. phase = "onboarding" /\ draft'.who = draft.who
    BY <1>2, <2>1 DEF Course, Goings
  <2>3. QED
    BY <1>2, <2>2 DEF Course, Saves, DraftSaved
<1>3. QED
  BY <1>1, <1>2 DEF DraftSaved

LEMMA KnownStays ==
  ASSUME Structure, Known, OneIdentity, Course, AllCome
  PROVE  Known'
<1>1. JobsFine /\ Frame
  BY StructureParts
<1>2. CASE proven \subseteq proven'
  <2>1. ASSUME NEW e \in Kept', e # None PROVE e.who \in proven'
    <3>1. Comes(e)
      BY <2>1 DEF AllCome
    <3>2. Late(wizard) => draft.who \in proven'
      BY <1>2 DEF Known, Late, Answered
    <3>3. \A old \in Kept \ {None} : old.who \in proven'
      BY <1>2 DEF Known
    <3>4. legacy # None => Recovered \in proven'
      BY <1>2 DEF Known
    <3>5. QED
      BY <2>1, <3>1, <3>2, <3>3, <3>4 DEF Comes
  <2>2. legacy' # None => Recovered \in proven'
    BY <1>2 DEF Known, Course, Goings
  <2>3. wizard'.step \in Answered => draft'.who \in proven'
    BY <1>2 DEF Known, Course, Goings
  <2>4. QED
    BY <2>1, <2>2, <2>3 DEF Known
<1>3. CASE Restarts
  <2>1. \A i \in Jobs : job'[i].entry = None
    BY <1>3, IdleIsAJob DEF Restarts
  <2>2. Kept' \subseteq {disk, fallback, None}
    BY <1>3, <2>1 DEF Restarts, Kept
  <2>3. disk \in Kept /\ fallback \in Kept
    BY DEF Kept
  <2>4. disk # None => disk.who \in proven'
    <3>1. disk # None => disk.who \in {entry.who : entry \in {disk, legacy} \ {None}}
      OBVIOUS
    <3>2. QED
      BY <1>3, <2>3, <3>1 DEF Known, Restarts
  <2>5. legacy # None => Recovered \in proven'
    <3>1. legacy # None => legacy = Earlier
      BY <1>1 DEF Frame, RestTyped
    <3>2. legacy # None => Recovered \in {entry.who : entry \in {disk, legacy} \ {None}}
      BY <3>1, EarlierIs
    <3>3. QED
      BY <1>3, <3>2 DEF Known, Restarts
  <2>6. fallback # None => disk # None /\ fallback.who = disk.who
    <3>1. fallback # None => native
      BY <1>1 DEF Frame, PhaseHolds
    <3>2. QED
      BY <2>3, <3>1 DEF OneIdentity, Firm
  <2>7. wizard'.step \notin Answered
    BY <1>3, MountedIsGood DEF Restarts, Answered
  <2>8. QED
    BY <1>3, <2>2, <2>4, <2>5, <2>6, <2>7 DEF Known, Restarts
<1>4. QED
  BY <1>2, <1>3 DEF Course, Goings

(* What is stored stays, and stays the same person's.                      *)
LEMMA StoredStays ==
  ASSUME Structure, OneIdentity, Course, Firm, disk # None
  PROVE  disk' # None /\ disk'.who = disk.who
<1>1. JobsFine /\ Frame
  BY StructureParts
<1>2. CASE disk' = disk
  BY <1>2
<1>3. CASE Written
  <2>1. PICK j \in Jobs : Serve(j) /\ disk' = job[j].entry
    BY <1>3 DEF Written
  <2>2. job[j].entry # None /\ job[j].entry \in Kept
    BY <1>1, <2>1, ServedIs, KeptIs
  <2>3. QED
    BY <2>1, <2>2 DEF OneIdentity
<1>4. CASE phase = "loading" /\ ~native /\ legacy # None /\ disk' = Earlier
  BY <1>1, <1>4 DEF Frame, PhaseHolds, Firm
<1>5. QED
  BY <1>2, <1>3, <1>4 DEF Course, Writes

LEMMA OneIdentityStays ==
  ASSUME Structure, Structure', DraftSaved, OneIdentity, Course, AllCome
  PROVE  OneIdentity'
<1>1. /\ JobsFine /\ Frame
      /\ native' = native /\ (unread => unread') /\ (Firm' => Firm)
  BY StructureParts DEF Course, Goings, Firm
<1>2. ASSUME disk # None PROVE disk' # None
  <2>1. ASSUME Written PROVE disk' # None
    <3>1. PICK j \in Jobs : Serve(j) /\ disk' = job[j].entry
      BY <2>1 DEF Written
    <3>2. QED
      BY <1>1, <3>1, ServedIs
  <2>2. QED
    BY <1>2, <2>1, EarlierIs DEF Course, Writes
<1>3. \A j \in Jobs : job'[j].pc = "second" => disk' # None
  BY <1>2 DEF Course, Writes, OneIdentity
<1>4. ASSUME Firm', disk # None
      PROVE  /\ \A e \in Kept' : e # None => e.who = disk.who
             /\ phase' = "onboarding" => Late(wizard') /\ draft'.who = disk.who
  <2>1. Firm /\ \A e \in Kept : e # None => e.who = disk.who
    BY <1>1, <1>4 DEF OneIdentity
  <2>2. phase = "onboarding" => Late(wizard) /\ draft.who = disk.who
    BY <1>4, <2>1 DEF OneIdentity
  <2>3. wizard.step \in Steps => phase = "onboarding"
    BY <1>1, DraftIs
  <2>4. ~(phase = "loading" /\ legacy # None)
    BY <1>1, <1>4, <2>1 DEF Firm, Frame, RestTyped, PhaseHolds
  <2>5. ASSUME NEW e \in Kept', e # None PROVE e.who = disk.who
    <3>1. Comes(e)
      BY <2>5 DEF AllCome
    <3>2. Late(wizard) => draft.who = disk.who
      BY <2>2, <2>3 DEF Late, Steps
    <3>3. wizard.step # "restore"
      BY <2>2, <2>3 DEF Late, Steps
    <3>4. QED
      BY <2>1, <2>4, <2>5, <3>1, <3>2, <3>3 DEF Comes
  <2>6. ASSUME phase' = "onboarding" PROVE Late(wizard') /\ draft'.who = disk.who
    <3>1. ~(~native /\ unread')
      BY <1>1, <1>4 DEF Firm
    <3>2. phase = "onboarding" /\ (Late(wizard) => Late(wizard')) /\ draft'.who = draft.who
      BY <1>2, <1>4, <2>6, <3>1 DEF Course, Goings
    <3>3. QED
      BY <2>2, <3>2
  <2>7. QED
    BY <2>5, <2>6
<1>5. ASSUME Firm', disk # None
      PROVE  /\ \A e \in Kept' : e # None => e.who = disk'.who
             /\ phase' = "onboarding" => Late(wizard') /\ draft'.who = disk'.who
  <2>1. disk'.who = disk.who
    BY <1>1, <1>5, StoredStays
  <2>2. QED
    BY <1>4, <1>5, <2>1
<1>6. ASSUME Firm', disk = None, disk' # None
      PROVE  /\ \A e \in Kept' : e # None => e.who = disk'.who
             /\ phase' = "onboarding" => Late(wizard') /\ draft'.who = disk'.who
  <2>0. fallback = None /\ memory = None /\ disk' \in Kept'
    BY <1>1, <1>6 DEF OneIdentity, Kept
  <2>1. CASE phase = "loading" /\ ~native /\ legacy # None /\ disk' = Earlier
    <3>1. \A i \in Jobs : job[i].entry = None
      BY <1>1, <2>1, NobodyElse, IdleIsAJob DEF JobsFine, JobsWhole, Whole
    <3>2. Kept \subseteq {None}
      BY <1>6, <2>0, <3>1 DEF Kept
    <3>3. ~Late(wizard) /\ wizard.step # "restore"
      BY <1>1, <2>1, DraftIs DEF Late, Steps
    <3>4. \A e \in Kept' : e # None => e.who = Recovered
      BY <3>2, <3>3 DEF AllCome, Comes
    <3>5. phase' # "onboarding"
      BY <1>1, <1>6, <2>1 DEF Course, Goings, Firm
    <3>6. QED
      BY <2>1, <3>4, <3>5, EarlierIs
  <2>2. CASE Written
    <3>1. PICK j \in Jobs : /\ Serve(j) /\ disk' = job[j].entry
                            /\ job[j].op = "restore" => phase' = "ready" \/ IsSealed(job[j].entry)
      BY <2>2 DEF Written
    <3>2. phase = "onboarding" /\ job[j].op \in {"complete", "restore"}
      <4>1. phase # "ready"
        BY <1>1, <2>0 DEF Frame, RestTyped
      <4>2. QED
        BY <1>1, <3>1, <4>1, ServedIs DEF Setter
    <3>3. CASE job[j].op = "complete"
      <4>1. Late(wizard) /\ \A i \in Jobs : job[i].op \in {"none", "complete"}
        <5>1. Late(wizard) /\ ~Early(wizard)
          BY <1>1, <3>2, <3>3 DEF JobsFine, OnboardingJobs, Late, Early
        <5>2. \A i \in Jobs : job[i].op \in Ops
          BY <1>1 DEF JobsFine, JobsTyped, Job
        <5>3. \A i \in Jobs : job[i].op \notin Setter \cup Opener \cup {"restore"}
          BY <1>1, <3>2, <5>1 DEF JobsFine, JobsWhole, InPhase, OnboardingJobs
        <5>4. QED
          BY <5>1, <5>2, <5>3 DEF Ops, Setter, Opener
      <4>2. \A i \in Jobs : job[i].entry # None => job[i].entry.who = draft.who
        BY <1>1, <3>2, <4>1, IdleIsAJob DEF DraftSaved, JobsFine, JobsWhole, Whole
      <4>3. \A e \in Kept : e # None => e.who = draft.who
        BY <1>6, <2>0, <4>2 DEF Kept
      <4>4. \A e \in Kept' : e # None => e.who = draft.who
        BY <3>2, <4>1, <4>3 DEF AllCome, Comes, Late
      <4>5. disk'.who = draft.who
        BY <1>6, <2>0, <4>4
      <4>6. phase' = "onboarding" => Late(wizard') /\ draft'.who = draft.who
        BY <3>2, <4>1 DEF Course, Goings
      <4>7. QED
        BY <4>4, <4>5, <4>6
    <3>4. CASE job[j].op = "restore"
      <4>1. job[j].entry = Earlier /\ \A i \in Jobs \ {j} : job[i].op = "none"
        BY <1>1, <3>4, NobodyElse DEF DraftSaved
      <4>2. \A i \in Jobs : job[i].entry # None => job[i].entry.who = Recovered
        BY <1>1, <4>1, EarlierIs, IdleIsAJob DEF JobsFine, JobsWhole, Whole
      <4>3. \A e \in Kept : e # None => e.who = Recovered
        BY <1>6, <2>0, <4>2 DEF Kept
      <4>4. ~Late(wizard)
        BY <1>1, <3>4 DEF JobsFine, OnboardingJobs, Early, Late
      <4>5. \A e \in Kept' : e # None => e.who = Recovered
        BY <3>2, <4>3, <4>4 DEF AllCome, Comes
      <4>6. phase' = "ready"
        BY <3>1, <3>4, <4>1, EntriesAre
      <4>7. QED
        BY <3>1, <4>1, <4>5, <4>6, EarlierIs
    <3>5. QED
      BY <3>2, <3>3, <3>4
  <2>3. QED
    BY <1>6, <2>1, <2>2 DEF Course, Writes
<1>7. ASSUME Firm', disk' = None
      PROVE  fallback' = None /\ memory' = None /\ wizard'.step # "complete"
  <2>1. disk = None /\ Firm
    BY <1>1, <1>2, <1>7
  <2>2. \A j \in Jobs : job[j].pc # "second"
    BY <2>1 DEF OneIdentity
  <2>3. QED
    BY <1>7, <2>1, <2>2 DEF OneIdentity, Course, Writes
<1>8. QED
  BY <1>3, <1>5, <1>6, <1>7 DEF OneIdentity

LEMMA IdentitiesStay ==
  ASSUME Structure, Structure', Identities, [Next]_vars
  PROVE  Identities'
<1>1. CASE Next
  BY <1>1, EveryStep, EveryEntryComes, DraftSavedStays, KnownStays, OneIdentityStays DEF Identities
<1>2. CASE UNCHANGED vars
  BY <1>2 DEF vars, device, onboarding, stores, history, Identities, DraftSaved, Known, OneIdentity,
              Kept, Firm, Late
<1>3. QED
  BY <1>1, <1>2

LEMMA IdentitiesBegin == Init => Identities
<1> SUFFICES ASSUME Init PROVE Identities
  OBVIOUS
<1>1. \A j \in Jobs : job[j] = Idle
  BY DEF Init
<1>2. wizard.step = "gone" /\ disk = None /\ fallback = None /\ memory = None
      /\ phase = "loading" /\ (legacy # None => Recovered \in proven)
  BY MountedIsGood DEF Init
<1>3. \A e \in Kept : e = None
  BY <1>1, <1>2, IdleIsAJob DEF Kept
<1>4. QED
  BY <1>1, <1>2, <1>3, IdleIsAJob DEF Identities, DraftSaved, Known, OneIdentity, Answered

(* Whichever operations overlap, everything kept is one identity, the      *)
(* stored one, and the person has its words.                               *)
THEOREM IdentitiesHold == Spec => []Identities
<1>1. Structure /\ Structure' /\ Identities /\ [Next]_vars => Identities'
  BY IdentitiesStay
<1>2. QED
  BY <1>1, IdentitiesBegin, StructureHolds, PTL DEF Spec

(* A new identity is stored only after its recovery phrase was entered,    *)
(* and a recovered one only from its own: whatever operations overlap or   *)
(* fail, the person has the words for what is stored.                      *)
THEOREM WordsAlwaysKnown == Spec => []WordsAreKnown
<1>1. Identities => WordsAreKnown
  BY DEF Identities, Known, Kept, WordsAreKnown
<1>2. QED
  BY <1>1, IdentitiesHold, PTL

(* A stored identity is not replaced by another one: a start that fails,   *)
(* natively or in a browser that could read and migrate its store, does    *)
(* not lead to a new identity that is saved over the old one.              *)
THEOREM IdentityIsKept == Spec => IdentityKept
<1>1. Structure /\ Identities /\ [Next]_vars =>
        [disk # None /\ (native \/ ~unread) => disk' # None /\ disk'.who = disk.who]_vars
  <2>1. CASE UNCHANGED vars
    BY <2>1
  <2>2. ASSUME Structure, Identities, Next, disk # None, Firm
        PROVE  disk' # None /\ disk'.who = disk.who
    BY <2>2, EveryStep, StoredStays DEF Identities
  <2>3. QED
    BY <2>1, <2>2 DEF Firm
<1>2. QED
  BY <1>1, StructureHolds, IdentitiesHold, PTL DEF Spec, IdentityKept

-----------------------------------------------------------------------------
(* Layer 3: what the last screen of the onboarding says                    *)

LEMMA SecondIsComplete ==
  ASSUME NEW w \in Job, NEW isNative, Whole(w, isNative), InPhase(w, "onboarding"),
         w.op = "restore" => w.entry = Earlier, w.pc = "second"
  PROVE  w.op = "complete"
<1>1. w.op \in {"none", "complete", "restore"}
  BY DEF InPhase, Setter, Opener, Job, Ops
<1>2. w.op # "none"
  BY IdleIsAJob DEF Whole
<1>3. w.op # "restore"
  BY EntriesAre DEF Whole
<1>4. QED
  BY <1>1, <1>2, <1>3

(* The steps that leave the application in its onboarding.                 *)
LEMMA StillOnboarding ==
  ASSUME Structure, Next, phase' = "onboarding"
  PROVE  \/ phase = "loading" /\ ~Late(wizard')
         \/ phase = "onboarding" /\ Advance
         \/ phase = "onboarding" /\ \E j \in Jobs : StoreFirst(j) \/ StoreFails(j) \/ Complete(j)
                                                      \/ EndComplete(j) \/ Restore(j)
<1>1. JobsFine /\ Frame
  BY StructureParts
<1>2. (phase = "loading" /\ ~Late(wizard')) \/ phase = "onboarding"
  BY EveryStep DEF Course, Goings
<1>3. ASSUME NEW j \in Jobs, LockedStep(j) \/ ReadyStep(j) PROVE phase # "onboarding"
  <2>1. Whole(job[j], native) /\ InPhase(job[j], phase) /\ job[j] \in Job
    BY <1>1 DEF JobsFine, JobsTyped, JobsWhole
  <2>2. job[j].pc \in {"remote", "prompt"} => job[j].op \in Setter \cup Opener
    BY <2>1, IdleIsAJob DEF Whole, Job, Ops, Opener, Setter
  <2>3. job[j].op \in Setter \cup Opener => phase # "onboarding"
    BY <2>1 DEF InPhase
  <2>4. ReadyStep(j) => phase # "onboarding"
    BY <2>2, <2>3 DEF ReadyStep, Mutate, EnrollPasskey, MayEnroll, Wrap, EndMutate,
                            Confirmed, Refused, EndSeal, Setter
  <2>5. LockedStep(j) => phase # "onboarding"
    BY <2>2, <2>3 DEF LockedStep, AskPasskey, AskNative, MayPress, Methods, PasskeyOffered,
         NativeOffered, Locked, UnlockWithPasskey, UnlockNative, Decline, Opener
  <2>6. QED
    BY <1>3, <2>4, <2>5
<1>4. ASSUME phase = "onboarding" PROVE ~Boot /\ ~BootUnreadable /\ ~BootFails
  BY <1>4 DEF Boot, BootUnreadable, BootFails
<1>5. ~Restart /\ ~Finish /\ (\A p \in Passphrases : ~Unlock(p)) /\ \A j \in Jobs : ~EndRestore(j)
  BY DEF Restart, Finish, Unlock, EndRestore, Apply
<1>6. QED
  BY <1>2, <1>3, <1>4, <1>5 DEF Next, StoreStep, OnboardingStep

LEMMA NotYetComplete ==
  ASSUME Structure, Advance
  PROVE  wizard.step # "complete"
<1>1. Good(wizard) /\ wizard.form \in Forms
  BY StructureParts DEF Frame, Good, Wizards
<1>2. ASSUME Presses(draft.who) PROVE wizard.step # "complete"
  BY <1>1, <1>2, PressesAdvances DEF Late
<1>3. ASSUME Types PROVE wizard.step # "complete"
  <2>1. wizard.form.kind \in {"display", "verify", "passphrase", "name", "restore"}
    BY <1>3 DEF Types, Tick, ChangeName, TypeWord, TypePassphrase, TypeName, TypePhrase, On
  <2>2. QED
    BY <1>1, <2>1 DEF Good, FormFits
<1>4. QED
  BY <1>2, <1>3 DEF Advance

LEMMA FittingIs ==
  ASSUME NEW a \in Entry, NEW b \in Entry, a.who = b.who, a.meta = b.meta, a.key = b.key,
         NEW who, NEW named, NEW pending, Fitting(a, who, named, pending)
  PROVE  Fitting(b, who, named, pending)
  BY EntriesAre DEF Fitting, IsSealed, Opens

(* The operations of the flow, and what has been stored of it.             *)
LEMMA SavingStays ==
  ASSUME Structure, Structure', Identities, Identities', Saving, Next
  PROVE  Saving'
<1>0. SUFFICES ASSUME phase' = "onboarding"
               PROVE  /\ \A j \in Jobs : job'[j].op = "complete" =>
                           /\ Fitting(job'[j].entry, draft'.who, wizard'.chosen, wizard'.pending)
                           /\ wizard'.step = "display_name" => On("name")' /\ wizard'.chosen = Overrides'
                      /\ wizard'.step = "complete" \/ (\E j \in Jobs : job'[j].pc = "second") =>
                           disk' # None /\ Fitting(disk', draft'.who, wizard'.chosen, wizard'.pending)
                      /\ wizard'.step = "complete" =>
                           Fitting([who |-> draft'.who, meta |-> Metadata(draft'.named),
                                    key |-> draft'.key, passkey |-> None],
                                   draft'.who, wizard'.chosen, wizard'.pending)
  BY DEF Saving
<1>1. JobsFine /\ Frame
  BY StructureParts
<1>2. \A j \in Jobs : job'[j].pc = "second" => job'[j].op = "complete"
  <2>1. job' \in [Jobs -> Job] /\ JobsWhole'
    BY DEF Structure, TypeOK, Job, Ops, Points
  <2>2. \A j \in Jobs : job'[j].op = "restore" => job'[j].entry = Earlier
    BY DEF Identities, DraftSaved
  <2>3. QED
    BY <1>0, <2>1, <2>2, SecondIsComplete DEF JobsWhole
<1>3. \A j \in Jobs : job'[j].op = "complete" => Late(wizard')
  <2>1. OnboardingJobs'
    BY DEF Structure
  <2>2. QED
    BY <1>0, <2>1 DEF OnboardingJobs
<1>4. CASE ~Late(wizard')
  BY <1>2, <1>3, <1>4 DEF Late
<1>5. ASSUME phase = "onboarding"
      PROVE  /\ \A j \in Jobs : job[j].pc = "second" => job[j].op = "complete"
             /\ \A j \in Jobs : job[j].op = "complete" =>
                  /\ Late(wizard)
                  /\ Fitting(job[j].entry, draft.who, wizard.chosen, wizard.pending)
                  /\ wizard.step = "display_name" => On("name") /\ wizard.chosen = Overrides
             /\ wizard.step = "complete" \/ (\E j \in Jobs : job[j].pc = "second") =>
                  disk # None /\ Fitting(disk, draft.who, wizard.chosen, wizard.pending)
             /\ wizard.step = "complete" =>
                  Fitting([who |-> draft.who, meta |-> Metadata(draft.named), key |-> draft.key,
                           passkey |-> None], draft.who, wizard.chosen, wizard.pending)
  <2>1. \A j \in Jobs : job[j].pc = "second" => job[j].op = "complete"
    <3>1. \A j \in Jobs : job[j].op = "restore" => job[j].entry = Earlier
      BY DEF Identities, DraftSaved
    <3>2. QED
      BY <1>1, <1>5, <3>1, SecondIsComplete DEF JobsFine, JobsTyped, JobsWhole
  <2>2. \A j \in Jobs : job[j].op = "complete" => Late(wizard)
    BY <1>1, <1>5 DEF JobsFine, OnboardingJobs
  <2>3. QED
    BY <1>5, <2>1, <2>2 DEF Saving
<1>6. CASE phase = "onboarding" /\ Advance
  <2>1. wizard.step # "complete" /\ Advanced(draft.who)
    BY <1>6, NotYetComplete, AdvanceKeeps
  <2>2. wizard'.step # "complete" /\ job' = job /\ draft' = draft
    BY <1>6, <2>1 DEF Advanced, Advance
  <2>3. \A j \in Jobs : job[j].op # "complete"
    <3>1. CASE Quiet
      BY <3>1 DEF Quiet, Busy
    <3>2. CASE Presses(draft.who)
      BY <1>1, <1>5, <1>6, <3>2, PressesAdvances DEF Frame
    <3>3. QED
      BY <1>6, <3>1, <3>2 DEF Advance
  <2>4. QED
    BY <1>2, <2>2, <2>3
<1>7. ASSUME phase = "onboarding", NEW j \in Jobs, StoreFirst(j)
      PROVE  Saving'
  <2>1. /\ Serve(j) /\ job' = [job EXCEPT ![j].pc = "second"] /\ disk' = job[j].entry
        /\ IsSealed(job[j].entry) /\ draft' = draft /\ wizard' = wizard
    BY <1>7 DEF StoreFirst, onboarding
  <2>2. /\ job[j].entry # None /\ \A i \in Jobs : job'[i].op = job[i].op /\ job'[i].entry = job[i].entry
    BY <1>1, <2>1, ServedIs DEF JobsFine, JobsTyped, Job
  <2>3. job[j].op = "complete"
    <3>1. job[j].op \in {"complete", "restore"}
      BY <1>1, <1>7, <2>1, ServedIs DEF Setter
    <3>2. job[j].op # "restore"
      BY <2>1, EntriesAre DEF Identities, DraftSaved
    <3>3. QED
      BY <3>1, <3>2
  <2>4. On("name")' = On("name") /\ Overrides' = Overrides
    BY <2>1 DEF On, Overrides
  <2>5. QED
    BY <1>5, <1>7, <2>1, <2>2, <2>3, <2>4 DEF Saving
<1>8. ASSUME phase = "onboarding", NEW j \in Jobs, StoreFails(j)
      PROVE  Saving'
  <2>1. /\ Serve(j) /\ job' = [job EXCEPT ![j] = Idle] /\ disk' = disk /\ draft' = draft /\ Told(j)
    BY <1>8 DEF StoreFails, Ends, stores
  <2>2. \A i \in Jobs : job'[i] = job[i] \/ (job'[i].op = "none" /\ job'[i].pc = "idle")
    BY <2>1, JobMoves, IdleIsAJob
  <2>3. /\ wizard'.step = wizard.step /\ wizard'.pending = wizard.pending
        /\ wizard'.chosen = wizard.chosen
        /\ job[j].op = "complete" => wizard'.form = wizard.form
    BY <1>1, <2>1, ToldIs DEF Frame
  <2>4. job[j].op = "complete" => On("name")' = On("name") /\ Overrides' = Overrides
    BY <2>3 DEF On, Overrides
  <2>5. job[j].op # "complete" => \A i \in Jobs : job'[i].op # "complete"
    <3>1. job[j].op \in {"complete", "restore"}
      BY <1>1, <1>8, <2>1, ServedIs DEF Setter
    <3>2. QED
      BY <1>1, <2>1, <2>2, <3>1, NobodyElse
  <2>6. \A i \in Jobs : job'[i].op = "complete" =>
          /\ Fitting(job'[i].entry, draft'.who, wizard'.chosen, wizard'.pending)
          /\ wizard'.step = "display_name" => On("name")' /\ wizard'.chosen = Overrides'
    BY <1>5, <1>8, <2>1, <2>2, <2>3, <2>4, <2>5
  <2>7. QED
    BY <1>5, <1>8, <2>1, <2>2, <2>3, <2>6 DEF Saving
<1>9. ASSUME phase = "onboarding", NEW j \in Jobs, Complete(j)
      PROVE  Saving'
  <2>1. PICK entry \in Entry :
           /\ Begin(j, "complete", "queued", entry, None)
           /\ entry.who = draft.who /\ entry.meta = Metadata(Overrides)
           /\ wizard.pending = None => entry.key = None
           /\ wizard.pending # None => entry.key = NewKey(wizard.pending) /\ entry.key # None
    BY <1>9, CompleteBegins
  <2>2. /\ On("name") /\ wizard.step = "display_name"
        /\ wizard' = [wizard EXCEPT !.chosen = Overrides] /\ disk' = disk /\ draft' = draft
    BY <1>1, <1>9, DraftIs DEF Complete, CanContinue, stores
  <2>3. /\ wizard'.chosen = Overrides /\ wizard'.pending = wizard.pending
        /\ wizard'.form = wizard.form /\ wizard'.step = wizard.step
    BY <1>1, <2>2 DEF Frame, Good, Wizards
  <2>4. On("name")' /\ Overrides' = Overrides
    BY <2>2, <2>3 DEF On, Overrides
  <2>5. Fitting(entry, draft.who, Overrides, wizard.pending)
    <3>1. entry # None
      BY EntriesAre
    <3>2. CASE wizard.pending = None
      BY <2>1, <3>1, <3>2 DEF Fitting, IsSealed
    <3>3. CASE wizard.pending # None
      <4>1. entry.key[1] = wizard.pending
        BY <2>1, <3>3 DEF NewKey
      <4>2. QED
        BY <2>1, <3>1, <3>3, <4>1 DEF Fitting, IsSealed, Opens
    <3>4. QED
      BY <3>2, <3>3
  <2>6. /\ job'[j].entry = entry /\ job'[j].pc = "queued"
        /\ \A i \in Jobs \ {j} : job'[i].op = job[i].op /\ job'[i].entry = job[i].entry
                                 /\ job'[i].pc = job[i].pc
    <3>1. JobsTyped
      BY <1>1 DEF JobsFine
    <3>2. QED
      BY <2>1, <3>1, BeginDoes DEF Same, Ops, Points
  <2>7. \A i \in Jobs : job'[i].op = "complete" =>
          /\ Fitting(job'[i].entry, draft'.who, wizard'.chosen, wizard'.pending)
          /\ wizard'.step = "display_name" => On("name")' /\ wizard'.chosen = Overrides'
    BY <1>5, <1>9, <2>2, <2>3, <2>4, <2>5, <2>6
  <2>8. (\E i \in Jobs : job'[i].pc = "second") =>
          disk' # None /\ Fitting(disk', draft'.who, wizard'.chosen, wizard'.pending)
    BY <1>5, <1>9, <2>2, <2>3, <2>6
  <2>9. wizard'.step # "complete"
    BY <2>2, <2>3
  <2>10. QED
    BY <2>7, <2>8, <2>9 DEF Saving
<1>10. ASSUME phase = "onboarding", NEW j \in Jobs, EndComplete(j)
       PROVE  Saving'
  <2>1. /\ job[j].op = "complete" /\ StoreLast(j) /\ job' = [job EXCEPT ![j] = Idle]
        /\ wizard' = [To("complete") EXCEPT !.error = FALSE]
        /\ draft' = [draft EXCEPT !.key = job[j].entry.key, !.named = job[j].entry.meta # {}]
    BY <1>10 DEF EndComplete, Ends
  <2>2. /\ Serve(j)
        /\ disk' = job[j].entry \/ (disk' = disk /\ job[j].pc = "second")
    BY <1>1, <2>1, StoreLastIs
  <2>3. job[j].entry \in Entry /\ job[j].entry # None
    BY <1>1, <2>2, ServedIs
  <2>4. /\ wizard'.step = "complete" /\ wizard'.chosen = wizard.chosen
        /\ wizard'.pending = wizard.pending
    <3>1. /\ Good(To("complete")) /\ To("complete").step = "complete"
          /\ To("complete").pending = wizard.pending /\ To("complete").chosen = wizard.chosen
      BY <1>1, ToIsGood DEF Frame, Steps
    <3>2. QED
      BY <2>1, <3>1 DEF Good, Wizards
  <2>5. Fitting(job[j].entry, draft.who, wizard.chosen, wizard.pending)
    BY <1>5, <1>10, <2>1
  <2>6. disk' # None /\ Fitting(disk', draft.who, wizard.chosen, wizard.pending)
    BY <1>5, <1>10, <2>2, <2>3, <2>5
  <2>7. /\ draft'.who = draft.who /\ draft'.key = job[j].entry.key
        /\ draft'.named = (job[j].entry.meta # {})
    BY <1>1, <2>1 DEF Frame, RestTyped
  <2>8. Metadata(draft'.named) = job[j].entry.meta
    <3>1. job[j].entry.meta = Metadata(wizard.chosen)
      BY <2>5 DEF Fitting
    <3>2. wizard.chosen \in BOOLEAN
      BY <1>1 DEF Frame, Good, Wizards
    <3>3. QED
      BY <2>7, <3>1, <3>2 DEF Metadata
  <2> DEFINE e == [who |-> draft'.who, meta |-> Metadata(draft'.named),
                   key |-> draft'.key, passkey |-> None]
  <2>9. e \in Entry /\ e.who = job[j].entry.who /\ e.meta = job[j].entry.meta
        /\ e.key = job[j].entry.key
    <3>1. job[j].entry.who = draft.who
      BY <2>5 DEF Fitting
    <3>2. QED
      BY <2>3, <2>7, <2>8, <3>1 DEF Entry
  <2>10. Fitting(e, draft.who, wizard.chosen, wizard.pending)
    <3> HIDE DEF e
    <3>1. QED
      BY <2>3, <2>5, <2>9, FittingIs
  <2>11. \A i \in Jobs : job'[i].op = "complete" =>
           Fitting(job'[i].entry, draft'.who, wizard'.chosen, wizard'.pending)
    BY <1>5, <1>10, <2>1, <2>4, <2>7, JobMoves, IdleIsAJob
  <2>12. QED
    BY <2>4, <2>6, <2>7, <2>10, <2>11 DEF Saving
<1>11. ASSUME phase = "onboarding", NEW j \in Jobs, Restore(j)
       PROVE  ~Late(wizard')
  <2>1. wizard.step = "restore" /\ Submits(TRUE)
    BY <1>1, <1>11 DEF Restore, MayRestore, On, Frame, Good, FormFits
  <2>2. QED
    BY <1>1, <2>1, SubmitsIs DEF Frame, Late
<1>12. QED
  BY <1>0, <1>4, <1>6, <1>7, <1>8, <1>9, <1>10, <1>11, StillOnboarding DEF Saving

(* Whatever the onboarding has under way or has stored, also by a button   *)
(* that was pressed twice, carries the draft, the name and the passphrase  *)
(* of the flow.                                                            *)
THEOREM SavingHolds == Spec => []Saving
<1>1. Init => Saving
  BY DEF Init, Saving
<1>2. ASSUME Saving, UNCHANGED vars PROVE Saving'
  BY <1>2 DEF vars, onboarding, stores, Saving, On, Overrides
<1>3. Structure /\ Structure' /\ Identities /\ Identities' /\ Saving /\ [Next]_vars => Saving'
  BY <1>2, SavingStays
<1>4. QED
  BY <1>1, <1>3, StructureHolds, IdentitiesHold, PTL DEF Spec

(* The last screen tells the truth: the identity is stored, under the name *)
(* that it shows and sealed by the passphrase that was typed twice, or by  *)
(* none if that was skipped, also after writes that have failed or were    *)
(* asked for twice.                                                        *)
THEOREM CompleteAlwaysStored == Spec => []CompleteIsStored
<1>1. Structure /\ Saving => CompleteIsStored
  <2>1. SUFFICES ASSUME Structure, Saving, wizard.step = "complete" PROVE CompleteIsStored
    BY DEF CompleteIsStored
  <2>2. phase = "onboarding"
    BY <2>1, StructureParts, DraftIs DEF Steps
  <2>3. disk # None /\ Fitting(disk, draft.who, wizard.chosen, wizard.pending)
    BY <2>1, <2>2 DEF Saving
  <2>4. QED
    BY <2>3 DEF CompleteIsStored, CompleteShows, Fitting
<1>2. QED
  BY <1>1, StructureHolds, SavingHolds, PTL

-----------------------------------------------------------------------------
(* Layer 4: the memory, the store and the second service                   *)

LEMMA OrderedTail ==
  ASSUME NEW S, NEW q \in Seq(S), q # <<>>, NEW members, Ordered(q, members),
         \A k, l \in DOMAIN q : q[k] = q[l] => k = l
  PROVE  Ordered(Tail(q), members \ {Head(q)})
<1> DEFINE r == Tail(q)
<1>1. /\ DOMAIN q = 1..Len(q) /\ Len(q) \in Nat \ {0}
      /\ DOMAIN r = 1..(Len(q) - 1) /\ Head(q) = q[1] /\ \A k \in DOMAIN r : r[k] = q[k + 1]
  BY TailIs
<1> HIDE DEF r
<1>2. ASSUME NEW k \in DOMAIN r, NEW l \in DOMAIN r, k < l, r[l] \in members \ {Head(q)}
      PROVE  r[k] \in members \ {Head(q)}
  <2>1. k + 1 \in DOMAIN q /\ l + 1 \in DOMAIN q /\ k + 1 < l + 1 /\ 1 \in DOMAIN q /\ k + 1 # 1
    BY <1>1, <1>2
  <2>2. q[k + 1] \in members
    BY <1>1, <1>2, <2>1 DEF Ordered
  <2>3. q[k + 1] # q[1]
    BY <2>1
  <2>4. QED
    BY <1>1, <2>2, <2>3
<1>3. Ordered(r, members \ {Head(q)})
  BY <1>2 DEF Ordered
<1>4. QED
  BY <1>3 DEF r

LEMMA OrderedAppend ==
  ASSUME NEW S, NEW q \in Seq(S), NEW j \in S, NEW members, NEW others,
         Ordered(q, members), \A k \in DOMAIN q : q[k] \in others <=> q[k] \in members,
         j \notin others \/ \A k \in DOMAIN q : q[k] \in members
  PROVE  Ordered(Append(q, j), others)
<1> DEFINE r == Append(q, j)
<1>1. /\ DOMAIN r = DOMAIN q \cup {Len(q) + 1} /\ r[Len(q) + 1] = j
      /\ \A k \in DOMAIN q : r[k] = q[k] /\ DOMAIN q = 1..Len(q) /\ Len(q) \in Nat
  BY AppendIs
<1> HIDE DEF r
<1>2. ASSUME NEW k \in DOMAIN r, NEW l \in DOMAIN r, k < l, r[l] \in others
      PROVE  r[k] \in others
  <2>1. DOMAIN q = 1..Len(q) /\ Len(q) \in Nat
    BY AppendIs
  <2>2. k \in DOMAIN q
    BY <1>1, <1>2, <2>1
  <2>3. CASE l \in DOMAIN q
    BY <1>1, <1>2, <2>2, <2>3 DEF Ordered
  <2>4. CASE l = Len(q) + 1
    BY <1>1, <1>2, <2>2, <2>4
  <2>5. QED
    BY <1>1, <2>3, <2>4
<1>3. Ordered(r, others)
  BY <1>2 DEF Ordered
<1>4. QED
  BY <1>3 DEF r

LEMMA QueueIs ==
  ASSUME Structure
  PROVE  /\ queue \in Seq(Jobs) /\ \A k, l \in DOMAIN queue : queue[k] = queue[l] => k = l
         /\ \A k \in DOMAIN queue : queue[k] \in Jobs /\ job[queue[k]].pc \in {"queued", "second"}
         /\ \A j \in Jobs : job[j].pc \in {"queued", "second"} => \E k \in DOMAIN queue : queue[k] = j
  BY DEF Structure, TypeOK, QueueHolds, Holds, Waiting

(* The order of the queue outlasts every step of an operation.             *)
LEMMA OrderGoes ==
  ASSUME Structure, Ordered(queue, Completing), NEW j \in Jobs,
         \A i \in Jobs \ {j} : job'[i].op = job[i].op,
         \/ queue' = queue /\ (job[j].pc \notin {"queued", "second"} \/ job'[j].op = job[j].op)
         \/ queue' = Append(queue, j) /\ job[j].pc \notin {"queued", "second"}
            /\ (job'[j].op # "complete" \/ \A i \in Jobs : job[i].op \in {"none", "complete"})
         \/ Serve(j) /\ queue' = Tail(queue)
  PROVE  Ordered(queue', Completing')
<1>1. /\ queue \in Seq(Jobs) /\ \A k, l \in DOMAIN queue : queue[k] = queue[l] => k = l
      /\ \A k \in DOMAIN queue : queue[k] \in Jobs /\ job[queue[k]].pc \in {"queued", "second"}
  BY QueueIs
<1>2. Completing' \ {j} = Completing \ {j}
  BY DEF Completing
<1>3. CASE queue' = queue /\ (job[j].pc \notin {"queued", "second"} \/ job'[j].op = job[j].op)
  <2>1. \A k \in DOMAIN queue : queue[k] \in Completing' <=> queue[k] \in Completing
    BY <1>1, <1>2, <1>3 DEF Completing
  <2>2. QED
    BY <1>3, <2>1 DEF Ordered
<1>4. CASE queue' = Append(queue, j) /\ job[j].pc \notin {"queued", "second"}
           /\ (job'[j].op # "complete" \/ \A i \in Jobs : job[i].op \in {"none", "complete"})
  <2>1. \A k \in DOMAIN queue : queue[k] # j
    BY <1>1, <1>4
  <2>2. \A k \in DOMAIN queue : queue[k] \in Completing' <=> queue[k] \in Completing
    BY <1>2, <2>1
  <2>3. j \notin Completing' \/ \A k \in DOMAIN queue : queue[k] \in Completing
    <3>1. CASE job'[j].op # "complete"
      BY <3>1 DEF Completing
    <3>2. CASE \A i \in Jobs : job[i].op \in {"none", "complete"}
      <4>1. \A i \in Jobs : job[i].op = "none" => job[i].pc = "idle"
        BY StructureParts, IdleIsAJob DEF JobsFine, JobsWhole, Whole
      <4>2. QED
        BY <1>1, <3>2, <4>1 DEF Completing
    <3>3. QED
      BY <1>4, <3>1, <3>2
  <2>4. QED
    BY <1>1, <1>4, <2>2, <2>3, OrderedAppend
<1>5. CASE Serve(j) /\ queue' = Tail(queue)
  <2>1. Ordered(Tail(queue), Completing \ {j}) /\ queue # <<>> /\ Head(queue) = j
    BY <1>1, <1>5, OrderedTail DEF Serve
  <2>2. /\ DOMAIN queue = 1..Len(queue) /\ Len(queue) \in Nat \ {0}
        /\ DOMAIN Tail(queue) = 1..(Len(queue) - 1) /\ Head(queue) = queue[1]
        /\ \A k \in DOMAIN Tail(queue) : Tail(queue)[k] = queue[k + 1]
    BY <1>1, <2>1, TailIs
  <2>3. \A k \in DOMAIN Tail(queue) : Tail(queue)[k] # j
    <3>1. ASSUME NEW k \in DOMAIN Tail(queue) PROVE queue[k + 1] # queue[1]
      <4>1. k + 1 \in DOMAIN queue /\ 1 \in DOMAIN queue /\ k + 1 # 1
        BY <2>2
      <4>2. QED
        BY <1>1, <4>1
    <3>2. QED
      BY <2>1, <2>2, <3>1
  <2>4. QED
    BY <1>2, <1>5, <2>1, <2>3 DEF Ordered
<1>6. QED
  BY <1>3, <1>4, <1>5

LEMMA HeadCompletes ==
  ASSUME Structure, Ordered(queue, Completing), NEW j \in Jobs, Serve(j), job[j].op # "complete"
  PROVE  \A i \in Jobs : job[i].op # "complete"
<1>1. SUFFICES ASSUME NEW i \in Jobs, job[i].op = "complete" PROVE FALSE
  OBVIOUS
<1>2. job[i].pc \in {"queued", "second"}
  BY <1>1, StructureParts DEF JobsFine, JobsWhole, Whole
<1>3. PICK l \in DOMAIN queue : queue[l] = i
  BY <1>2, QueueIs
<1>4. queue \in Seq(Jobs) /\ queue # <<>> /\ Head(queue) = j
  BY QueueIs DEF Serve
<1>5. DOMAIN queue = 1..Len(queue) /\ Len(queue) \in Nat \ {0} /\ queue[1] = j
  BY <1>4, TailIs
<1>6. l # 1 /\ 1 < l /\ 1 \in DOMAIN queue
  BY <1>1, <1>3, <1>5
<1>7. j \in Completing
  BY <1>1, <1>3, <1>5, <1>6 DEF Ordered, Completing
<1>8. QED
  BY <1>7 DEF Completing

LEMMA RemoteMutates ==
  ASSUME Structure, NEW j \in Jobs, job[j].pc = "remote"
  PROVE  job[j].op = "mutate"
<1>1. job[j].op \in Ops /\ Whole(job[j], native)
  BY StructureParts DEF JobsFine, JobsTyped, JobsWhole, Job
<1>2. job[j].op # "none"
  BY <1>1, IdleIsAJob DEF Whole
<1>3. QED
  BY <1>1, <1>2 DEF Whole, Ops, Opener

(* Where memory and disk stay, so does what they have of one another.      *)
LEMMA BothStay ==
  ASSUME BrowserAgrees, UNCHANGED <<native, unread, phase, memory, disk>>,
         \A i \in Jobs : job'[i].op \in {"passkey", "complete"} =>
           \/ job'[i].op = job[i].op /\ job'[i].entry = job[i].entry
           \/ job'[i].op = "passkey" /\ job'[i].entry = memory
           \/ job'[i].op = "complete" /\ phase = "onboarding",
         ~native /\ ~unread => Ordered(queue', Completing')
  PROVE  BrowserAgrees'
<1>1. SUFFICES ASSUME ~native, ~unread PROVE BrowserAgrees'
  BY DEF BrowserAgrees
<1>2. \A i \in Jobs : job'[i].op = "passkey" => job'[i].entry = memory
  BY <1>1 DEF BrowserAgrees
<1>3. phase = "ready" => \A i \in Jobs : job'[i].op = "complete" => Agrees(memory, job'[i].entry)
  BY <1>1 DEF BrowserAgrees
<1>4. QED
  BY <1>1, <1>2, <1>3 DEF BrowserAgrees

(* An operation begins.                                                    *)
LEMMA BegunAgrees ==
  ASSUME Structure, BrowserAgrees, NEW j \in Jobs, NEW op \in Ops, NEW pc \in Points,
         NEW entry \in Entry \cup {None}, NEW change \in Changes \cup {None},
         Begin(j, op, pc, entry, change), UNCHANGED <<native, unread, phase, memory, disk>>,
         op = "passkey" => entry = memory,
         op = "complete" => phase = "onboarding" /\ \A i \in Jobs : job[i].op \in {"none", "complete"}
  PROVE  BrowserAgrees'
<1>1. JobsFine
  BY StructureParts
<1>2. /\ job[j].op = "none" /\ job'[j].op = op /\ job'[j].entry = entry
      /\ queue' = IF pc = "queued" THEN Append(queue, j) ELSE queue
      /\ \A i \in Jobs \ {j} : Same(job'[i], job[i])
  BY <1>1, BeginDoes DEF JobsFine
<1>3. \A i \in Jobs \ {j} : job'[i].op = job[i].op /\ job'[i].entry = job[i].entry
  BY <1>2 DEF Same
<1>4. job[j].pc \notin {"queued", "second"}
  BY <1>1, <1>2, IdleIsAJob DEF JobsFine, JobsWhole, Whole
<1>5. Ordered(queue, Completing) => Ordered(queue', Completing')
  <2>1. CASE pc = "queued"
    BY <1>2, <1>3, <1>4, <2>1, OrderGoes
  <2>2. CASE pc # "queued"
    BY <1>2, <1>3, <1>4, <2>2, OrderGoes
  <2>3. QED
    BY <2>1, <2>2
<1>6. ~native /\ ~unread => Ordered(queue', Completing')
  BY <1>5 DEF BrowserAgrees
<1>7. \A i \in Jobs : job'[i].op \in {"passkey", "complete"} =>
        \/ job'[i].op = job[i].op /\ job'[i].entry = job[i].entry
        \/ job'[i].op = "passkey" /\ job'[i].entry = memory
        \/ job'[i].op = "complete" /\ phase = "onboarding"
  BY <1>2, <1>3
<1>8. QED
  BY <1>6, <1>7, BothStay

(* An operation goes on, or ends with nothing stored.                      *)
LEMMA MovedAgrees ==
  ASSUME Structure, BrowserAgrees, NEW j \in Jobs, NEW w, job' = [job EXCEPT ![j] = w],
         w.op \in {"none", job[j].op} \ {"passkey", "complete"},
         \/ queue' = queue /\ job[j].pc \notin {"queued", "second"}
         \/ queue' = Append(queue, j) /\ job[j].pc \notin {"queued", "second"}
         \/ Serve(j) /\ queue' = Tail(queue),
         UNCHANGED <<native, unread, phase, memory, disk>>
  PROVE  BrowserAgrees'
<1>1. job'[j] = w /\ \A i \in Jobs \ {j} : job'[i] = job[i]
  BY JobMoves
<1>2. Ordered(queue, Completing) => Ordered(queue', Completing')
  BY <1>1, OrderGoes
<1>3. ~native /\ ~unread => Ordered(queue', Completing')
  BY <1>2 DEF BrowserAgrees
<1>4. \A i \in Jobs : job'[i].op \in {"passkey", "complete"} =>
        job'[i].op = job[i].op /\ job'[i].entry = job[i].entry
  BY <1>1
<1>5. QED
  BY <1>3, <1>4, BothStay

(* An operation ends, and the memory has what is stored.                   *)
LEMMA AppliedAgrees ==
  ASSUME Structure, NEW j \in Jobs, job' = [job EXCEPT ![j] = Idle]
           \/ (job[j].op \notin {"passkey", "complete"}
                 /\ \E w : job' = [job EXCEPT ![j] = w] /\ w.op \in {"none", job[j].op}),
         \A i \in Jobs \ {j} : job[i].op \notin {"passkey", "complete"},
         phase' = "ready", disk' # None, memory' = disk'
  PROVE  BrowserAgrees'
<1>1. PICK w : job' = [job EXCEPT ![j] = w] /\ w.op \notin {"passkey", "complete"}
  BY IdleIsAJob
<1>2. \A i \in Jobs : job'[i].op \notin {"passkey", "complete"}
  BY <1>1, JobMoves
<1>3. Completing' = {}
  BY <1>2 DEF Completing
<1>4. Ordered(queue', Completing')
  BY <1>3 DEF Ordered
<1>5. Agrees(memory', disk')
  BY DEF Agrees, Opens
<1>6. QED
  BY <1>2, <1>4, <1>5 DEF BrowserAgrees

LEMMA ReadyAgrees ==
  ASSUME Structure, BrowserAgrees, ~native, ~unread, NEW j \in Jobs, ReadyStep(j)
  PROVE  BrowserAgrees'
<1>1. JobsFine /\ Frame
  BY StructureParts
<1>2. ASSUME NEW c \in Changes, Mutate(j, c)
      PROVE  BrowserAgrees'
  <2> DEFINE e == [memory EXCEPT !.meta = @ \cup {c}]
  <2>1. /\ phase = "ready" /\ Begin(j, "mutate", "queued", e, c)
        /\ UNCHANGED <<native, unread, phase, memory, disk>>
    BY <1>2 DEF Mutate, device, stores, history
  <2>2. e \in Entry
    BY <2>1, SettingsAre, EntriesAre
  <2> HIDE DEF e
  <2>3. QED
    BY <2>1, <2>2, BegunAgrees DEF Ops, Points
<1>3. ASSUME NEW f \in Fields, phase = "ready", SetPassphrase(j, f)
      PROVE  BrowserAgrees'
  <2> DEFINE e == Sealed(memory, NewKey(f.next))
             p == IF memory.passkey = None THEN "queued" ELSE "prompt"
  <2>1. /\ Begin(j, "change", p, e, None) /\ MaySubmit(f) /\ SettingNew(f) /\ salts < MaxSalts
        /\ UNCHANGED <<native, unread, phase, memory, disk>>
    BY <1>3 DEF SetPassphrase, device, stores, history
  <2>2. e \in Entry /\ p \in Points
    BY <1>3, <2>1, SettingsAre, EntriesAre DEF Points
  <2> HIDE DEF e, p
  <2>3. QED
    BY <2>1, <2>2, BegunAgrees DEF Ops
<1>4. ASSUME NEW f \in Fields, phase = "ready", RemovePassphrase(j, f)
      PROVE  BrowserAgrees'
  <2> DEFINE e == Sealed(memory, None)
  <2>1. /\ Begin(j, "change", "queued", e, None)
        /\ UNCHANGED <<native, unread, phase, memory, disk>>
    BY <1>4 DEF RemovePassphrase, device, stores, history
  <2>2. e \in Entry
    BY <1>4, SettingsAre, EntriesAre
  <2> HIDE DEF e
  <2>3. QED
    BY <2>1, <2>2, BegunAgrees DEF Ops, Points
<1>5. ASSUME EnrollPasskey(j)
      PROVE  BrowserAgrees'
  <2>1. /\ Begin(j, "enroll", "prompt", memory, None) /\ phase = "ready"
        /\ UNCHANGED <<native, unread, phase, memory, disk>>
    BY <1>5 DEF EnrollPasskey, MayEnroll, device, stores, history
  <2>2. memory \in Entry
    BY <2>1, SettingsAre
  <2>3. QED
    BY <2>1, <2>2, BegunAgrees DEF Ops, Points
<1>6. ASSUME Wrap(j)
      PROVE  BrowserAgrees'
  <2> DEFINE w == [job[j] EXCEPT !.pc = "queued", !.entry = WithPasskey(@)]
  <2>1. /\ job[j].op \in {"enroll", "change"} /\ job[j].pc = "prompt"
        /\ job' = [job EXCEPT ![j] = w] /\ queue' = Append(queue, j)
        /\ UNCHANGED <<native, unread, phase, memory, disk>>
    BY <1>1, <1>6 DEF Wrap, device, stores, history, JobsFine, JobsTyped, Job
  <2>2. w.op = job[j].op
    BY <1>1 DEF JobsFine, JobsTyped, Job
  <2> HIDE DEF w
  <2>3. QED
    BY <2>1, <2>2, MovedAgrees
<1>7. ASSUME Confirmed(j)
      PROVE  BrowserAgrees'
  BY <1>7, MovedAgrees, IdleIsAJob DEF Confirmed, Ends, device, stores
<1>8. ASSUME Refused(j)
      PROVE  BrowserAgrees'
  <2> DEFINE w == [job[j] EXCEPT !.pc = "queued", !.change = None,
                     !.entry = [memory EXCEPT !.meta = (@ \ Levels) \cup job[j].before], !.before = {}]
  <2>1. /\ job[j].pc = "remote" /\ job' = [job EXCEPT ![j] = w] /\ queue' = Append(queue, j)
        /\ UNCHANGED <<native, unread, phase, memory, disk>>
    BY <1>1, <1>8 DEF Refused, device, stores, history, JobsFine, JobsTyped, Job
  <2>2. w.op = job[j].op
    BY <1>1 DEF JobsFine, JobsTyped, Job
  <2>3. job[j].op = "mutate"
    BY <2>1, RemoteMutates
  <2> HIDE DEF w
  <2>4. QED
    BY <2>1, <2>2, <2>3, MovedAgrees
<1>9. ASSUME job[j].op \notin {"passkey", "complete"}, StoreLast(j), phase' = "ready", memory' = job[j].entry,
             \E w : job' = [job EXCEPT ![j] = w] /\ w.op \in {"none", job[j].op}
      PROVE  BrowserAgrees'
  <2>1. /\ Serve(j) /\ disk' = job[j].entry /\ job[j].entry # None
    BY <1>1, <1>9, StoreLastIs, ServedIs
  <2>2. \A i \in Jobs : job[i].op # "complete"
    BY <1>9, <2>1, HeadCompletes DEF BrowserAgrees
  <2>3. \A i \in Jobs : job[i].op # "passkey"
    <3>1. job[j].op # "none"
      BY <1>1, <2>1, ServedIs
    <3>2. QED
      BY <1>1, <1>9, <3>1, NobodyElse DEF Opener
  <2>4. QED
    BY <1>9, <2>1, <2>2, <2>3, AppliedAgrees
<1>10. ASSUME EndMutate(j)
       PROVE  BrowserAgrees'
  <2> DEFINE w == IF job[j].change \in Levels
                  THEN [job[j] EXCEPT !.pc = "remote", !.entry = None] ELSE Idle
  <2>1. /\ job[j].op = "mutate" /\ StoreLast(j) /\ phase' = "ready" /\ memory' = job[j].entry
        /\ job' = [job EXCEPT ![j] = w]
    BY <1>1, <1>10 DEF EndMutate, Apply, Ends, JobsFine, JobsTyped, Job
  <2>2. w.op \in {"none", job[j].op}
    BY <1>1, IdleIsAJob DEF JobsFine, JobsTyped, Job
  <2> HIDE DEF w
  <2>3. QED
    BY <1>9, <2>1, <2>2
<1>11. ASSUME EndSeal(j)
       PROVE  BrowserAgrees'
  <2>1. /\ job[j].op \in {"enroll", "change"} /\ StoreLast(j) /\ phase' = "ready"
        /\ memory' = job[j].entry /\ job' = [job EXCEPT ![j] = Idle]
    BY <1>11 DEF EndSeal, Apply, Ends
  <2>2. QED
    BY <1>9, <2>1, IdleIsAJob
<1>12. QED
  BY <1>2, <1>3, <1>4, <1>5, <1>6, <1>7, <1>8, <1>10, <1>11 DEF ReadyStep

LEMMA LockedAgrees ==
  ASSUME Structure, BrowserAgrees, ~native, ~unread, NEW j \in Jobs, LockedStep(j)
  PROVE  BrowserAgrees'
<1>1. JobsFine /\ Frame
  BY StructureParts
<1>2. Whole(job[j], native) /\ InPhase(job[j], phase)
  BY <1>1 DEF JobsFine, JobsWhole
<1>3. ASSUME AskPasskey(j)
      PROVE  BrowserAgrees'
  <2>1. /\ Begin(j, "passkey", "prompt", memory, None) /\ memory \in Entry \cup {None}
        /\ UNCHANGED <<native, unread, phase, memory, disk>>
    BY <1>1, <1>3 DEF AskPasskey, device, stores, history, Frame, RestTyped
  <2>2. QED
    BY <2>1, BegunAgrees DEF Ops, Points
<1>4. ASSUME UnlockWithPasskey(j)
      PROVE  BrowserAgrees'
  <2>1. /\ job[j].op = "passkey" /\ phase' = "ready" /\ memory' = job[j].entry /\ disk' = disk
        /\ job' = [job EXCEPT ![j] = Idle]
    BY <1>4 DEF UnlockWithPasskey, Apply, Ends, stores
  <2>2. phase = "locked"
    BY <1>1, <1>2, <2>1 DEF InPhase, Opener, Frame, PhaseHolds
  <2>3. memory = disk /\ job[j].entry = memory
    BY <2>1, <2>2 DEF BrowserAgrees
  <2>4. memory # None
    BY <1>1, <2>2 DEF Frame, RestTyped, IsSealed
  <2>5. \A i \in Jobs \ {j} : job[i].op = "none"
    BY <1>1, <2>1, NobodyElse DEF Opener
  <2>6. QED
    BY <2>1, <2>3, <2>4, <2>5, AppliedAgrees
<1>5. ~AskNative(j) /\ ~UnlockNative(j)
  BY <1>2 DEF AskNative, MayPress, Methods, NativeOffered, PasskeyOffered, UnlockNative, Whole
<1>6. ASSUME Decline(j)
      PROVE  BrowserAgrees'
  <2>1. /\ job[j].pc = "prompt" /\ job' = [job EXCEPT ![j] = Idle] /\ queue' = queue
        /\ UNCHANGED <<native, unread, phase, memory, disk>>
    BY <1>6 DEF Decline, Ends, device, stores, history
  <2>2. QED
    BY <2>1, MovedAgrees, IdleIsAJob
<1>7. QED
  BY <1>3, <1>4, <1>5, <1>6 DEF LockedStep

LEMMA StoreAgrees ==
  ASSUME Structure, BrowserAgrees, ~native, ~unread, NEW j \in Jobs, StoreStep(j)
  PROVE  BrowserAgrees'
<1>1. ~StoreFirst(j)
  BY DEF StoreFirst
<1>2. /\ Serve(j) /\ job' = [job EXCEPT ![j] = Idle] /\ queue' = Tail(queue)
      /\ UNCHANGED <<native, unread, phase, memory, disk>>
  BY <1>1 DEF StoreStep, StoreFails, Ends, device, stores
<1>3. QED
  BY <1>2, MovedAgrees, IdleIsAJob

LEMMA OnboardingAgrees ==
  ASSUME Structure, BrowserAgrees, ~native, ~unread, NEW j \in Jobs, OnboardingStep(j)
  PROVE  BrowserAgrees'
<1>1. JobsFine /\ Frame
  BY StructureParts
<1>2. ASSUME Complete(j)
      PROVE  BrowserAgrees'
  <2>1. PICK entry \in Entry : Begin(j, "complete", "queued", entry, None)
    BY <1>2, CompleteBegins
  <2>2. /\ wizard.step = "display_name" /\ phase = "onboarding"
        /\ UNCHANGED <<native, unread, phase, memory, disk>>
    BY <1>1, <1>2, DraftIs DEF Complete, CanContinue, device, stores, history
  <2>3. \A i \in Jobs : job[i].op \in {"none", "complete"}
    <3>1. SUFFICES ASSUME NEW i \in Jobs PROVE job[i].op \in {"none", "complete"}
      OBVIOUS
    <3>2. job[i].op \in Ops /\ InPhase(job[i], "onboarding")
      BY <1>1, <2>2 DEF JobsFine, JobsTyped, JobsWhole, Job
    <3>3. job[i].op # "restore"
      BY <1>1, <2>2 DEF JobsFine, OnboardingJobs, Early
    <3>4. QED
      BY <3>2, <3>3 DEF InPhase, Ops, Setter, Opener
  <2>4. QED
    BY <2>1, <2>2, <2>3, BegunAgrees DEF Ops, Points
<1>3. ASSUME EndComplete(j)
      PROVE  BrowserAgrees'
  <2>1. /\ job[j].op = "complete" /\ StoreLast(j) /\ job' = [job EXCEPT ![j] = Idle]
        /\ phase' = phase /\ memory' = memory
    BY <1>3 DEF EndComplete, Ends
  <2>2. Serve(j) /\ queue' = Tail(queue) /\ disk' = job[j].entry /\ job[j].entry # None
    BY <1>1, <2>1, StoreLastIs, ServedIs
  <2>3. phase \in {"onboarding", "ready"}
    BY <1>1, <2>1 DEF JobsFine, JobsWhole, InPhase
  <2>4. job'[j] = Idle /\ \A i \in Jobs \ {j} : job'[i] = job[i]
    BY <2>1, JobMoves
  <2>5. Ordered(queue', Completing')
    BY <2>2, <2>4, OrderGoes DEF BrowserAgrees
  <2>6. \A i \in Jobs : job'[i].op \in {"passkey", "complete"} => job'[i] = job[i]
    BY <2>4, IdleIsAJob
  <2>7. QED
    BY <2>1, <2>2, <2>3, <2>5, <2>6 DEF BrowserAgrees
<1>4. ASSUME Restore(j)
      PROVE  BrowserAgrees'
  <2>1. /\ Begin(j, "restore", "queued", Earlier, None)
        /\ UNCHANGED <<native, unread, phase, memory, disk>>
    BY <1>4 DEF Restore, Earlier, device, stores, history
  <2>2. QED
    BY <2>1, EntriesAre, BegunAgrees DEF Ops, Points
<1>5. ASSUME EndRestore(j)
      PROVE  BrowserAgrees'
  <2>1. /\ job[j].op = "restore" /\ StoreLast(j) /\ job' = [job EXCEPT ![j] = Idle]
        /\ phase' = "ready" /\ memory' = job[j].entry
    BY <1>5 DEF EndRestore, Apply, Ends
  <2>2. disk' = job[j].entry /\ job[j].entry # None
    BY <1>1, <2>1, StoreLastIs, ServedIs
  <2>3. \A i \in Jobs \ {j} : job[i].op = "none"
    BY <1>1, <2>1, NobodyElse
  <2>4. QED
    BY <2>1, <2>2, <2>3, AppliedAgrees
<1>6. QED
  BY <1>2, <1>3, <1>4, <1>5 DEF OnboardingStep

LEMMA OwnAgrees ==
  ASSUME Structure, BrowserAgrees, Saving, ~native, ~unread, ~unread',
         Boot \/ BootUnreadable \/ BootFails \/ Restart \/ Advance \/ Finish
           \/ \E p \in Passphrases : Unlock(p)
  PROVE  BrowserAgrees'
<1>1. JobsFine /\ Frame
  BY StructureParts
<1>2. ASSUME Boot PROVE BrowserAgrees'
  <2>1. phase = "loading" /\ Loads(disk') /\ job' = job
    BY <1>2 DEF Boot
  <2>2. disk' \in Entry \cup {None}
    BY <1>1, <1>2, MigrateIs, EntriesAre DEF Boot, Frame, RestTyped
  <2>3. \A i \in Jobs : job'[i].op = "none"
    BY <1>1, <2>1, NobodyElse
  <2>4. Ordered(queue', Completing')
    BY <2>3 DEF Ordered, Completing
  <2>5. CASE phase' = "onboarding"
    BY <2>3, <2>4, <2>5 DEF BrowserAgrees
  <2>6. CASE disk' \in Entry /\ memory' = disk'
    <3>1. Agrees(memory', disk') /\ disk' # None
      BY <2>6, EntriesAre DEF Agrees, Opens
    <3>2. QED
      BY <2>3, <2>4, <2>6, <3>1 DEF BrowserAgrees
  <2>7. QED
    BY <1>1, <2>1, <2>2, <2>5, <2>6, LoadsIs, OnboardIs
<1>3. ~BootUnreadable /\ ~BootFails
  BY DEF BootUnreadable, BootFails
<1>4. ASSUME Restart PROVE BrowserAgrees'
  <2>1. phase' = "loading" /\ \A i \in Jobs : job'[i].op = "none"
    BY <1>4, IdleIsAJob DEF Restart, Apply
  <2>2. Ordered(queue', Completing')
    BY <2>1 DEF Ordered, Completing
  <2>3. QED
    BY <2>1, <2>2 DEF BrowserAgrees
<1>5. ASSUME Advance PROVE BrowserAgrees'
  BY <1>5 DEF Advance, BrowserAgrees, Ordered, Completing, device, stores, history
<1>6. ASSUME Finish PROVE BrowserAgrees'
  <2> DEFINE e == [who |-> draft.who, meta |-> Metadata(draft.named), key |-> draft.key,
                   passkey |-> None]
  <2>1. /\ wizard.step = "complete" /\ phase' = "ready" /\ memory' = e
        /\ disk' = disk /\ job' = job /\ queue' = queue
    BY <1>6 DEF Finish, Apply, stores
  <2>2. phase = "onboarding"
    BY <1>1, <2>1, DraftIs DEF Steps
  <2> DEFINE fits(a) == Fitting(a, draft.who, wizard.chosen, wizard.pending)
  <2>3. disk # None /\ fits(disk) /\ fits(e)
    BY <2>1, <2>2 DEF Saving
  <2>4. \A i \in Jobs : job[i].op = "complete" => fits(job[i].entry)
    BY <2>2 DEF Saving
  <2>5. \A i \in Jobs : job[i].op # "passkey"
    BY <1>1, <2>2 DEF JobsFine, JobsWhole, InPhase, Opener
  <2> HIDE DEF e
  <2>6. ASSUME NEW a, fits(a) PROVE Agrees(e, a)
    BY <2>3, <2>6 DEF Fitting, Agrees, Opens
  <2> HIDE DEF fits
  <2>7. Agrees(memory', disk') /\ \A i \in Jobs : job[i].op = "complete" => Agrees(memory', job[i].entry)
    BY <2>1, <2>3, <2>4, <2>6
  <2>8. Ordered(queue', Completing')
    BY <2>1 DEF BrowserAgrees, Ordered, Completing
  <2>9. QED
    BY <2>1, <2>3, <2>5, <2>7, <2>8 DEF BrowserAgrees
<1>7. ASSUME NEW p \in Passphrases, Unlock(p) PROVE BrowserAgrees'
  <2>1. /\ phase \in {"locked", "locked_native"} /\ ~Unlocking
        /\ phase' = "ready" /\ memory' = memory /\ memory # None
        /\ disk' = disk /\ job' = job /\ queue' = queue
    BY <1>7 DEF Unlock, PassphraseOffered, Locked, Apply, stores
  <2>2. memory = disk
    BY <1>1, <2>1 DEF Frame, PhaseHolds, BrowserAgrees
  <2>3. \A i \in Jobs : job[i].op \notin {"passkey", "complete"}
    BY <1>1, <2>1, NobodyElse DEF Unlocking, Opener
  <2>4. Agrees(memory', disk') /\ Ordered(queue', Completing')
    BY <2>1, <2>2, <2>3 DEF Agrees, Opens, Ordered, Completing
  <2>5. QED
    BY <2>1, <2>2, <2>3, <2>4 DEF BrowserAgrees
<1>8. QED
  BY <1>2, <1>3, <1>4, <1>5, <1>6, <1>7

LEMMA AgreesStays ==
  ASSUME Structure, Saving, BrowserAgrees, [Next]_vars
  PROVE  BrowserAgrees'
<1>1. CASE UNCHANGED vars
  BY <1>1 DEF vars, device, stores, history, BrowserAgrees, Ordered, Completing
<1>2. CASE Next
  <2>1. native' = native /\ (unread => unread')
    BY <1>2, EveryStep DEF Course, Goings
  <2>2. SUFFICES ASSUME ~native, ~unread, ~unread' PROVE BrowserAgrees'
    BY <2>1 DEF BrowserAgrees
  <2>3. QED
    BY <1>2, <2>2, ReadyAgrees, LockedAgrees, StoreAgrees, OnboardingAgrees, OwnAgrees DEF Next
<1>3. QED
  BY <1>1, <1>2

(* At every moment, not only a quiet one: the memory agrees with the store *)
(* and with what the onboarding has still queued, which is served first.   *)
THEOREM BrowserHolds == Spec => []BrowserAgrees
<1>1. Init => BrowserAgrees
  BY IdleIsAJob DEF Init, BrowserAgrees, Ordered, Completing
<1>2. Structure /\ Saving /\ BrowserAgrees /\ [Next]_vars => BrowserAgrees'
  BY AgreesStays
<1>3. QED
  BY <1>1, <1>2, StructureHolds, SavingHolds, PTL DEF Spec

(* With nothing under way, an unlocked application in a browser holds what *)
(* is stored, sealed by the same passphrase, whatever operations have      *)
(* overlapped, failed or been declined before.                             *)
THEOREM BrowserAlwaysAgrees == Spec => []QuietAgrees
<1>1. BrowserAgrees => QuietAgrees
  BY DEF BrowserAgrees, QuietAgrees, Agrees
<1>2. QED
  BY <1>1, BrowserHolds, PTL

(* An operation begins, goes on or ends with neither service written.      *)
LEMMA StillFollows ==
  ASSUME Structure, FallbackWillFollow, NEW j \in Jobs, job'[j].pc # "second",
         job[j].pc # "second",
         \A i \in Jobs \ {j} : job'[i].pc = job[i].pc /\ job'[i].entry = job[i].entry,
         \/ queue' = queue
         \/ queue' = Append(queue, j) /\ job[j].pc \notin {"queued", "second"}
         \/ Serve(j) /\ queue' = Tail(queue),
         UNCHANGED <<native, unread, disk, fallback>>, torn => torn',
         phase' = phase \/ (phase \in {"onboarding", "locked"})
  PROVE  FallbackWillFollow'
<1>1. SUFFICES ASSUME native, ~unread, ~torn, phase \in {"onboarding", "locked", "ready"}, IsSealed(disk)
               PROVE  \/ \E k \in DOMAIN queue' : LastSecond(k)'
                      \/ fallback = disk /\ \A i \in Jobs : job'[i].pc # "second"
  BY DEF FallbackWillFollow
<1>2. /\ queue \in Seq(Jobs) /\ \A k, l \in DOMAIN queue : queue[k] = queue[l] => k = l
      /\ \A k \in DOMAIN queue : queue[k] \in Jobs /\ job[queue[k]].pc \in {"queued", "second"}
  BY QueueIs
<1>3. CASE fallback = disk /\ \A i \in Jobs : job[i].pc # "second"
  BY <1>3
<1>4. CASE \E k \in DOMAIN queue : LastSecond(k)
  <2>1. PICK k \in DOMAIN queue : LastSecond(k)
    BY <1>4
  <2>2. /\ queue[k] # j /\ job[queue[k]].pc = "second" /\ job[queue[k]].entry = disk
        /\ \A l \in DOMAIN queue : l > k => job[queue[l]].pc # "second"
    BY <2>1 DEF LastSecond
  <2>3. /\ job'[queue[k]].pc = "second" /\ job'[queue[k]].entry = disk
        /\ \A l \in DOMAIN queue : l > k => job'[queue[l]].pc # "second"
    BY <1>2, <2>2
  <2>4. CASE queue' = queue
    BY <2>3, <2>4 DEF LastSecond
  <2>5. CASE queue' = Append(queue, j)
    <3>1. /\ DOMAIN queue' = DOMAIN queue \cup {Len(queue) + 1} /\ queue'[Len(queue) + 1] = j
          /\ \A l \in DOMAIN queue : queue'[l] = queue[l]
      BY <1>2, <2>5, AppendIs
    <3>2. LastSecond(k)'
      BY <2>3, <3>1 DEF LastSecond
    <3>3. QED
      BY <3>1, <3>2
  <2>6. CASE Serve(j) /\ queue' = Tail(queue)
    <3>1. /\ DOMAIN queue = 1..Len(queue) /\ Len(queue) \in Nat \ {0} /\ queue[1] = j
          /\ DOMAIN queue' = 1..(Len(queue) - 1)
          /\ \A l \in DOMAIN queue' : queue'[l] = queue[l + 1]
      BY <1>2, <2>6, TailIs DEF Serve
    <3>2. k # 1 /\ k - 1 \in DOMAIN queue' /\ queue'[k - 1] = queue[k]
      <4>1. queue[k] # j
        BY <2>2
      <4>2. k \in 1..Len(queue) /\ k # 1
        BY <3>1, <4>1
      <4>3. Len(queue) \in Nat
        BY <3>1
      <4>4. k - 1 \in 1..(Len(queue) - 1) /\ (k - 1) + 1 = k
        BY <4>2, <4>3
      <4>5. QED
        BY <3>1, <4>2, <4>4
    <3>3. ASSUME NEW l \in DOMAIN queue', l > k - 1
          PROVE  job'[queue'[l]].pc # "second"
      <4>1. l \in 1..(Len(queue) - 1) /\ k \in 1..Len(queue) /\ Len(queue) \in Nat
        BY <3>1
      <4>2. l + 1 \in 1..Len(queue) /\ l + 1 > k
        BY <3>3, <4>1
      <4>3. queue'[l] = queue[l + 1] /\ l + 1 \in DOMAIN queue
        BY <3>1, <4>2
      <4>4. QED
        BY <2>3, <4>2, <4>3
    <3>4. LastSecond(k - 1)'
      BY <2>3, <3>2, <3>3 DEF LastSecond
    <3>5. QED
      BY <3>2, <3>4
  <2>7. QED
    BY <2>4, <2>5, <2>6
<1>5. QED
  BY <1>1, <1>3, <1>4 DEF FallbackWillFollow

LEMMA BegunFollows ==
  ASSUME Structure, FallbackWillFollow, NEW j \in Jobs, NEW op \in Ops,
         NEW pc \in {"prompt", "queued"},
         NEW entry \in Entry \cup {None}, NEW change \in Changes \cup {None},
         Begin(j, op, pc, entry, change),
         UNCHANGED <<native, unread, torn, phase, disk, fallback>>
  PROVE  FallbackWillFollow'
<1>1. JobsFine
  BY StructureParts
<1>2. /\ job[j].op = "none" /\ job'[j].pc = pc
      /\ queue' = IF pc = "queued" THEN Append(queue, j) ELSE queue
      /\ \A i \in Jobs \ {j} : Same(job'[i], job[i])
  BY <1>1, BeginDoes DEF JobsFine, Points
<1>3. \A i \in Jobs \ {j} : job'[i].pc = job[i].pc /\ job'[i].entry = job[i].entry
  BY <1>2 DEF Same
<1>4. job[j].pc = "idle"
  BY <1>1, <1>2, IdleIsAJob DEF JobsFine, JobsWhole, Whole
<1>5. QED
  BY <1>2, <1>3, <1>4, StillFollows

(* The last write of an operation.                                         *)
LEMMA EndFollows ==
  ASSUME Structure, FallbackWillFollow, NEW j \in Jobs, StoreLast(j),
         NEW w, job' = [job EXCEPT ![j] = w], w.pc # "second",
         UNCHANGED <<native, unread, torn>>
  PROVE  FallbackWillFollow'
<1>1. JobsFine
  BY StructureParts
<1>2. /\ Serve(j) /\ queue' = Tail(queue)
      /\ \/ disk' = job[j].entry /\ job[j].pc = "queued" /\ ~(native /\ IsSealed(job[j].entry))
         \/ disk' = disk /\ fallback' = job[j].entry /\ job[j].pc = "second"
  BY <1>1, StoreLastIs
<1>3. phase \in {"ready", "onboarding"}
  BY <1>1, <1>2, ServedIs
<1>4. SUFFICES ASSUME native, ~unread, ~torn, IsSealed(disk')
               PROVE  \/ \E k \in DOMAIN queue' : LastSecond(k)'
                      \/ fallback' = disk' /\ \A i \in Jobs : job'[i].pc # "second"
  BY DEF FallbackWillFollow
<1>5. disk' = disk /\ fallback' = job[j].entry /\ job[j].pc = "second"
  BY <1>2, <1>4
<1>6. PICK k \in DOMAIN queue : LastSecond(k)
  BY <1>3, <1>4, <1>5 DEF FallbackWillFollow
<1>7. /\ queue \in Seq(Jobs) /\ \A m, l \in DOMAIN queue : queue[m] = queue[l] => m = l
      /\ \A i \in Jobs : job[i].pc \in {"queued", "second"} => \E l \in DOMAIN queue : queue[l] = i
  BY QueueIs
<1>8. /\ DOMAIN queue = 1..Len(queue) /\ Len(queue) \in Nat \ {0} /\ queue[1] = j
      /\ DOMAIN queue' = 1..(Len(queue) - 1)
      /\ \A l \in DOMAIN queue' : queue'[l] = queue[l + 1]
  BY <1>2, <1>7, TailIs DEF Serve
<1>9. job'[j] = w /\ \A i \in Jobs \ {j} : job'[i] = job[i]
  BY JobMoves
<1>10. /\ job[queue[k]].pc = "second" /\ job[queue[k]].entry = disk
       /\ \A l \in DOMAIN queue : l > k => job[queue[l]].pc # "second"
  BY <1>6 DEF LastSecond
<1>11. CASE k = 1
  <2>1. fallback' = disk'
    BY <1>5, <1>8, <1>10, <1>11
  <2>2. ASSUME NEW i \in Jobs, job'[i].pc = "second" PROVE FALSE
    <3>1. i # j /\ job[i].pc = "second"
      BY <1>9, <2>2
    <3>2. PICK l \in DOMAIN queue : queue[l] = i
      BY <1>7, <3>1
    <3>3. l > 1
      BY <1>8, <3>1, <3>2
    <3>4. QED
      BY <1>10, <1>11, <3>1, <3>2, <3>3
  <2>3. QED
    BY <2>1, <2>2
<1>12. CASE k # 1
  <2>1. k - 1 \in DOMAIN queue' /\ queue'[k - 1] = queue[k] /\ 1 \in DOMAIN queue
    BY <1>8, <1>12
  <2>2. \A l \in DOMAIN queue : l # 1 => queue[l] \in Jobs /\ job'[queue[l]] = job[queue[l]]
    BY <1>7, <1>8, <1>9, <2>1
  <2>3. job'[queue'[k - 1]] = job[queue[k]]
    BY <1>12, <2>1, <2>2
  <2>4. ASSUME NEW l \in DOMAIN queue', l > k - 1
        PROVE  job'[queue'[l]].pc # "second"
    <3>1. l + 1 \in DOMAIN queue /\ l + 1 > k /\ l + 1 # 1
      BY <1>8, <2>4
    <3>2. QED
      BY <1>8, <1>10, <2>2, <3>1
  <2>5. LastSecond(k - 1)'
    BY <1>5, <1>10, <2>3, <2>4 DEF LastSecond
  <2>6. QED
    BY <2>1, <2>5
<1>13. QED
  BY <1>11, <1>12

LEMMA StoreFollows ==
  ASSUME Structure, FallbackWillFollow, NEW j \in Jobs, StoreStep(j)
  PROVE  FallbackWillFollow'
<1>1. JobsFine
  BY StructureParts
<1>2. ASSUME StoreFirst(j)
      PROVE  FallbackWillFollow'
  <2>1. /\ Serve(j) /\ disk' = job[j].entry /\ job' = [job EXCEPT ![j].pc = "second"]
        /\ queue' = Append(Tail(queue), j)
    BY <1>2 DEF StoreFirst
  <2>2. job'[j].pc = "second" /\ job'[j].entry = disk'
    BY <1>1, <2>1 DEF JobsFine, JobsTyped, Job
  <2>3. queue \in Seq(Jobs) /\ Tail(queue) \in Seq(Jobs)
    BY <2>1, QueueIs, TailIs DEF Serve
  <2>4. PICK n \in DOMAIN queue' : queue'[n] = j /\ \A l \in DOMAIN queue' : ~(l > n)
    <3> DEFINE m == Len(Tail(queue)) + 1
    <3>1. /\ DOMAIN queue' = DOMAIN Tail(queue) \cup {m} /\ queue'[m] = j
          /\ DOMAIN Tail(queue) = 1..Len(Tail(queue)) /\ Len(Tail(queue)) \in Nat
      BY <2>1, <2>3, AppendIs
    <3>2. m \in DOMAIN queue' /\ \A l \in DOMAIN queue' : ~(l > m)
      BY <3>1
    <3> HIDE DEF m
    <3>3. QED
      BY <3>1, <3>2
  <2>5. LastSecond(n)'
    BY <2>2, <2>4 DEF LastSecond
  <2>6. QED
    BY <2>4, <2>5 DEF FallbackWillFollow
<1>3. ASSUME StoreFails(j)
      PROVE  FallbackWillFollow'
  <2>1. /\ Serve(j) /\ queue' = Tail(queue) /\ job' = [job EXCEPT ![j] = Idle]
        /\ torn' = (torn \/ job[j].pc = "second")
        /\ UNCHANGED <<native, unread, disk, fallback, phase>>
    BY <1>3 DEF StoreFails, Ends, device, stores
  <2>2. CASE job[j].pc = "second"
    BY <2>1, <2>2 DEF FallbackWillFollow
  <2>3. CASE job[j].pc # "second"
    <3>1. job'[j].pc = "idle" /\ \A i \in Jobs \ {j} : job'[i] = job[i]
      BY <2>1, JobMoves, IdleIsAJob
    <3>2. QED
      BY <2>1, <2>3, <3>1, StillFollows
  <2>4. QED
    BY <2>2, <2>3
<1>4. QED
  BY <1>2, <1>3 DEF StoreStep

LEMMA MovedFollows ==
  ASSUME Structure, FallbackWillFollow, NEW j \in Jobs, NEW w, job' = [job EXCEPT ![j] = w],
         w.pc # "second", job[j].pc \notin {"queued", "second"},
         queue' = queue \/ queue' = Append(queue, j),
         UNCHANGED <<native, unread, torn, phase, disk, fallback>>
  PROVE  FallbackWillFollow'
<1>1. job'[j].pc # "second" /\ \A i \in Jobs \ {j} : job'[i] = job[i]
  BY JobMoves
<1>2. QED
  BY <1>1, StillFollows

LEMMA ReadyFollows ==
  ASSUME Structure, FallbackWillFollow, NEW j \in Jobs, ReadyStep(j)
  PROVE  FallbackWillFollow'
<1>1. JobsFine /\ Frame
  BY StructureParts
<1>2. ASSUME NEW c \in Changes, Mutate(j, c)
      PROVE  FallbackWillFollow'
  <2> DEFINE e == [memory EXCEPT !.meta = @ \cup {c}]
  <2>1. /\ phase = "ready" /\ Begin(j, "mutate", "queued", e, c)
        /\ UNCHANGED <<native, unread, torn, phase, disk, fallback>>
    BY <1>2 DEF Mutate, device, stores, history
  <2>2. e \in Entry
    BY <2>1, SettingsAre, EntriesAre
  <2> HIDE DEF e
  <2>3. QED
    BY <2>1, <2>2, BegunFollows DEF Ops
<1>3. ASSUME NEW f \in Fields, phase = "ready", SetPassphrase(j, f)
      PROVE  FallbackWillFollow'
  <2> DEFINE e == Sealed(memory, NewKey(f.next))
             p == IF memory.passkey = None THEN "queued" ELSE "prompt"
  <2>1. /\ Begin(j, "change", p, e, None) /\ MaySubmit(f) /\ SettingNew(f) /\ salts < MaxSalts
        /\ UNCHANGED <<native, unread, torn, phase, disk, fallback>>
    BY <1>3 DEF SetPassphrase, device, stores, history
  <2>2. e \in Entry /\ p \in {"prompt", "queued"}
    BY <1>3, <2>1, SettingsAre, EntriesAre
  <2> HIDE DEF e, p
  <2>3. QED
    BY <2>1, <2>2, BegunFollows DEF Ops
<1>4. ASSUME NEW f \in Fields, phase = "ready", RemovePassphrase(j, f)
      PROVE  FallbackWillFollow'
  <2> DEFINE e == Sealed(memory, None)
  <2>1. /\ Begin(j, "change", "queued", e, None)
        /\ UNCHANGED <<native, unread, torn, phase, disk, fallback>>
    BY <1>4 DEF RemovePassphrase, device, stores, history
  <2>2. e \in Entry
    BY <1>4, SettingsAre, EntriesAre
  <2> HIDE DEF e
  <2>3. QED
    BY <2>1, <2>2, BegunFollows DEF Ops
<1>5. ASSUME EnrollPasskey(j)
      PROVE  FallbackWillFollow'
  <2>1. ~native
    BY <1>5 DEF EnrollPasskey, MayEnroll
  <2>2. native' = native
    BY <1>5 DEF EnrollPasskey, device
  <2>3. QED
    BY <2>1, <2>2 DEF FallbackWillFollow
<1>6. ASSUME Wrap(j)
      PROVE  FallbackWillFollow'
  <2> DEFINE w == [job[j] EXCEPT !.pc = "queued", !.entry = WithPasskey(@)]
  <2>1. /\ job[j].pc = "prompt" /\ job' = [job EXCEPT ![j] = w] /\ queue' = Append(queue, j)
        /\ UNCHANGED <<native, unread, torn, phase, disk, fallback>>
    BY <1>1, <1>6 DEF Wrap, device, stores, history, JobsFine, JobsTyped, Job
  <2>2. w.pc = "queued"
    BY <1>1 DEF JobsFine, JobsTyped, Job
  <2> HIDE DEF w
  <2>3. QED
    BY <2>1, <2>2, MovedFollows
<1>7. ASSUME Confirmed(j)
      PROVE  FallbackWillFollow'
  BY <1>7, MovedFollows, IdleIsAJob DEF Confirmed, Ends, device, stores
<1>8. ASSUME Refused(j)
      PROVE  FallbackWillFollow'
  <2> DEFINE w == [job[j] EXCEPT !.pc = "queued", !.change = None,
                     !.entry = [memory EXCEPT !.meta = (@ \ Levels) \cup job[j].before], !.before = {}]
  <2>1. /\ job[j].pc = "remote" /\ job' = [job EXCEPT ![j] = w] /\ queue' = Append(queue, j)
        /\ UNCHANGED <<native, unread, torn, phase, disk, fallback>>
    BY <1>1, <1>8 DEF Refused, device, stores, history, JobsFine, JobsTyped, Job
  <2>2. w.pc = "queued"
    BY <1>1 DEF JobsFine, JobsTyped, Job
  <2> HIDE DEF w
  <2>3. QED
    BY <2>1, <2>2, MovedFollows
<1>9. ASSUME EndMutate(j)
      PROVE  FallbackWillFollow'
  <2> DEFINE w == IF job[j].change \in Levels
                  THEN [job[j] EXCEPT !.pc = "remote", !.entry = None] ELSE Idle
  <2>1. /\ StoreLast(j) /\ job' = [job EXCEPT ![j] = w] /\ UNCHANGED <<native, unread, torn>>
    BY <1>1, <1>9 DEF EndMutate, Ends, device, JobsFine, JobsTyped, Job
  <2>2. w.pc # "second"
    BY <1>1, IdleIsAJob DEF JobsFine, JobsTyped, Job
  <2> HIDE DEF w
  <2>3. QED
    BY <2>1, <2>2, EndFollows
<1>10. ASSUME EndSeal(j)
       PROVE  FallbackWillFollow'
  BY <1>10, EndFollows, IdleIsAJob DEF EndSeal, Ends, device, history
<1>11. QED
  BY <1>2, <1>3, <1>4, <1>5, <1>6, <1>7, <1>8, <1>9, <1>10 DEF ReadyStep

LEMMA LockedFollows ==
  ASSUME Structure, FallbackWillFollow, NEW j \in Jobs, LockedStep(j)
  PROVE  FallbackWillFollow'
<1>1. JobsFine /\ Frame
  BY StructureParts
<1>2. Whole(job[j], native) /\ InPhase(job[j], phase)
  BY <1>1 DEF JobsFine, JobsWhole
<1>3. ASSUME AskPasskey(j) \/ UnlockWithPasskey(j)
      PROVE  FallbackWillFollow'
  <2>1. ~native /\ native' = native
    BY <1>2, <1>3 DEF AskPasskey, UnlockWithPasskey, MayPress, Methods, PasskeyOffered,
                      NativeOffered, Whole, device
  <2>2. QED
    BY <2>1 DEF FallbackWillFollow
<1>4. ASSUME AskNative(j)
      PROVE  FallbackWillFollow'
  <2>1. /\ Begin(j, "native", "prompt", None, None)
        /\ UNCHANGED <<native, unread, torn, phase, disk, fallback>>
    BY <1>4 DEF AskNative, device, stores, history
  <2>2. QED
    BY <2>1, BegunFollows DEF Ops
<1>5. ASSUME UnlockNative(j)
      PROVE  FallbackWillFollow'
  <2>1. /\ job[j].op = "native" /\ job' = [job EXCEPT ![j] = Idle] /\ disk' = disk
        /\ IsSealed(disk) => fallback' = disk
    BY <1>5 DEF UnlockNative, Ends
  <2>2. \A i \in Jobs \ {j} : job[i].op = "none"
    BY <1>1, <2>1, NobodyElse DEF Opener
  <2>3. \A i \in Jobs : job'[i].pc # "second"
    <3>1. SUFFICES ASSUME NEW i \in Jobs PROVE job'[i].pc # "second"
      OBVIOUS
    <3>2. CASE i = j
      BY <2>1, <3>2, JobMoves, IdleIsAJob
    <3>3. CASE i # j
      BY <1>1, <2>1, <2>2, <3>3, JobMoves, IdleIsAJob DEF JobsFine, JobsWhole, Whole
    <3>4. QED
      BY <3>2, <3>3
  <2>4. QED
    BY <2>1, <2>3 DEF FallbackWillFollow
<1>6. ASSUME Decline(j)
      PROVE  FallbackWillFollow'
  BY <1>6, MovedFollows, IdleIsAJob DEF Decline, Ends, device, stores, history
<1>7. QED
  BY <1>3, <1>4, <1>5, <1>6 DEF LockedStep

LEMMA OnboardingFollows ==
  ASSUME Structure, FallbackWillFollow, NEW j \in Jobs, OnboardingStep(j)
  PROVE  FallbackWillFollow'
<1>1. JobsFine /\ Frame
  BY StructureParts
<1>2. ASSUME Complete(j)
      PROVE  FallbackWillFollow'
  <2>1. PICK entry \in Entry : Begin(j, "complete", "queued", entry, None)
    BY <1>2, CompleteBegins
  <2>2. UNCHANGED <<native, unread, torn, phase, disk, fallback>>
    BY <1>2 DEF Complete, device, stores, history
  <2>3. QED
    BY <2>1, <2>2, BegunFollows DEF Ops
<1>3. ASSUME Restore(j)
      PROVE  FallbackWillFollow'
  <2>1. /\ Begin(j, "restore", "queued", Earlier, None)
        /\ UNCHANGED <<native, unread, torn, phase, disk, fallback>>
    BY <1>3 DEF Restore, Earlier, device, stores, history
  <2>2. QED
    BY <2>1, EntriesAre, BegunFollows DEF Ops
<1>4. ASSUME EndComplete(j) \/ EndRestore(j)
      PROVE  FallbackWillFollow'
  <2>1. StoreLast(j) /\ job' = [job EXCEPT ![j] = Idle] /\ UNCHANGED <<native, unread, torn>>
    BY <1>4 DEF EndComplete, EndRestore, Ends, device, history
  <2>2. QED
    BY <2>1, EndFollows, IdleIsAJob
<1>5. QED
  BY <1>2, <1>3, <1>4 DEF OnboardingStep

LEMMA OwnFollows ==
  ASSUME Structure, FallbackWillFollow,
         Boot \/ BootUnreadable \/ BootFails \/ Restart \/ Advance \/ Finish
           \/ \E p \in Passphrases : Unlock(p)
  PROVE  FallbackWillFollow'
<1>1. JobsFine /\ Frame
  BY StructureParts
<1>2. ASSUME Boot PROVE FallbackWillFollow'
  <2>1. /\ phase = "loading" /\ job' = job /\ native' = native
        /\ native => disk' = disk
        /\ native /\ IsSealed(disk) => fallback' = disk
    BY <1>1, <1>2, MigrateIs DEF Boot, Frame, RestTyped
  <2>2. \A i \in Jobs : job'[i].pc # "second"
    BY <1>1, <2>1, NobodyElse, IdleIsAJob DEF JobsFine, JobsWhole, Whole
  <2>3. QED
    BY <2>1, <2>2 DEF FallbackWillFollow
<1>3. ASSUME BootUnreadable PROVE FallbackWillFollow'
  BY <1>3 DEF BootUnreadable, FallbackWillFollow
<1>4. ASSUME BootFails \/ Restart PROVE FallbackWillFollow'
  BY <1>4 DEF BootFails, Restart, Apply, FallbackWillFollow
<1>5. ASSUME Advance PROVE FallbackWillFollow'
  BY <1>5 DEF Advance, FallbackWillFollow, LastSecond, device, stores, history
<1>6. ASSUME phase \in {"onboarding", "locked"}, UNCHANGED <<native, unread, torn, disk, fallback, job, queue>>
      PROVE  FallbackWillFollow'
  BY <1>6 DEF FallbackWillFollow, LastSecond
<1>7. ASSUME Finish PROVE FallbackWillFollow'
  <2>1. phase = "onboarding"
    BY <1>1, <1>7, DraftIs DEF Finish, Steps
  <2>2. QED
    BY <1>6, <1>7, <2>1 DEF Finish, device, stores, history
<1>8. ASSUME NEW p \in Passphrases, Unlock(p) PROVE FallbackWillFollow'
  <2>1. phase \in {"locked", "locked_native"} /\ UNCHANGED <<native, unread, torn, disk, fallback, job, queue>>
    BY <1>8 DEF Unlock, PassphraseOffered, Locked, device, stores, history
  <2>2. phase = "locked_native" => unread
    BY <1>1 DEF Frame, PhaseHolds
  <2>3. QED
    BY <1>6, <2>1, <2>2 DEF FallbackWillFollow
<1>9. QED
  BY <1>2, <1>3, <1>4, <1>5, <1>7, <1>8

(* At every moment, not only a quiet one: the second service has what the  *)
(* keychain has, or the last of the writes queued for it will bring it.    *)
THEOREM FallbackHolds == Spec => []FallbackWillFollow
<1>1. Init => FallbackWillFollow
  BY DEF Init, FallbackWillFollow
<1>2. ASSUME FallbackWillFollow, UNCHANGED vars PROVE FallbackWillFollow'
  BY <1>2 DEF vars, device, stores, history, FallbackWillFollow, LastSecond
<1>3. Structure /\ FallbackWillFollow /\ [Next]_vars => FallbackWillFollow'
  BY <1>2, ReadyFollows, LockedFollows, StoreFollows, OnboardingFollows, OwnFollows DEF Next
<1>4. QED
  BY <1>1, <1>3, StructureHolds, PTL DEF Spec

(* With nothing under way, an unlocked native application whose entry is   *)
(* sealed finds the same entry under the second service, unless a second   *)
(* write was refused: a stop between the two is made up for by the start.  *)
THEOREM FallbackAlwaysFollows == Spec => []FallbackFollows
<1>1. Structure /\ FallbackWillFollow => FallbackFollows
  <2>1. SUFFICES ASSUME Structure, FallbackWillFollow, phase = "ready", Quiet, native, ~unread, ~torn,
                        IsSealed(disk)
                 PROVE  fallback = disk
    BY DEF FallbackFollows
  <2>2. \A i \in Jobs : job[i].pc # "second"
    BY <2>1, StructureParts, IdleIsAJob DEF Quiet, Busy, JobsFine, JobsWhole, Whole
  <2>3. \A k \in DOMAIN queue : queue[k] \in Jobs
    BY <2>1, QueueIs
  <2>4. QED
    BY <2>1, <2>2, <2>3 DEF FallbackWillFollow, LastSecond
<1>2. QED
  BY <1>1, FallbackHolds, StructureHolds, PTL

(* A step of an operation, where what it will store and apply, or has just *)
(* stored and applied, keeps what was saved alone.                         *)
LEMMA MovedShares ==
  ASSUME Structure, Shared, NEW j \in Jobs, NEW w, job' = [job EXCEPT ![j] = w],
         job[j].op # "none", w.op \in {"none", job[j].op},
         w.op # "none" => w.alone = job[j].alone,
         saved' = saved, unread' = unread,
         disk' \in {disk, job[j].entry}, disk' = None => disk' = disk,
         memory' \in {memory, disk, job[j].entry},
         phase' = "onboarding" => phase = "onboarding",
         ~unread => Has(w.entry, saved) /\ (w.change \in Levels => saved \cap Levels \subseteq w.before),
         Alone(job[j]) /\ w.op # "none" => Borne(w)'
  PROVE  Shared'
<1>1. job'[j] = w /\ \A i \in Jobs \ {j} : job'[i] = job[i]
  BY JobMoves
<1>2. Lone'
  <2>1. SUFFICES ASSUME NEW i \in Jobs, Alone(job'[i])
                 PROVE  (\A k \in Jobs : k # i => job'[k].op = "none") /\ Borne(job[i])'
    BY DEF Lone, Alone
  <2>2. i = j
    BY <1>1, <2>1 DEF Shared, Lone, Alone
  <2>3. Alone(job[j]) /\ w.op # "none"
    BY <1>1, <2>1, <2>2 DEF Alone
  <2>4. \A k \in Jobs : k # i => job'[k].op = "none"
    BY <1>1, <2>2, <2>3 DEF Shared, Lone
  <2>5. Borne(w)' /\ job'[i] = w
    BY <1>1, <2>2, <2>3
  <2>6. QED
    BY <2>4, <2>5 DEF Borne
<1>3. Everywhere'
  <2>1. SUFFICES ASSUME ~unread
                 PROVE  /\ disk' = None \/ phase' = "onboarding" => saved = {}
                        /\ Has(disk', saved) /\ Has(memory', saved)
                        /\ \A i \in Jobs :
                             /\ Has(job'[i].entry, saved)
                             /\ job'[i].change \in Levels => saved \cap Levels \subseteq job'[i].before
    BY DEF Everywhere
  <2>2. /\ disk = None \/ phase = "onboarding" => saved = {}
        /\ Has(disk, saved) /\ Has(memory, saved)
        /\ \A i \in Jobs : /\ Has(job[i].entry, saved)
                           /\ job[i].change \in Levels => saved \cap Levels \subseteq job[i].before
    BY <2>1 DEF Shared, Everywhere
  <2>3. \A i \in Jobs : /\ Has(job'[i].entry, saved)
                        /\ job'[i].change \in Levels => saved \cap Levels \subseteq job'[i].before
    BY <1>1, <2>1, <2>2
  <2>4. QED
    BY <2>2, <2>3
<1>4. QED
  BY <1>2, <1>3 DEF Shared

LEMMA IdleHas ==
  ASSUME Structure
  PROVE  /\ \A changes : Has(None, changes) /\ Has(Idle.entry, changes)
         /\ None \notin Levels /\ Idle.change \notin Levels /\ Idle.op = "none"
<1>1. Idle.entry = None /\ Idle.change = None /\ Idle.op = "none"
  BY IdleIsAJob
<1>2. None \notin Levels
  BY NoneAssumption, LevelsAssumption
<1>3. QED
  BY <1>1, <1>2 DEF Has

LEMMA EndedShares ==
  ASSUME Structure, Shared, NEW j \in Jobs, job' = [job EXCEPT ![j] = Idle],
         job[j].op # "none", saved' = saved, unread' = unread,
         disk' \in {disk, job[j].entry}, disk' = None => disk' = disk,
         memory' \in {memory, disk, job[j].entry},
         phase' = "onboarding" => phase = "onboarding"
  PROVE  Shared'
BY IdleHas, MovedShares

(* The change of an operation with nothing beside it has been saved.       *)
LEMMA SavedShares ==
  ASSUME Structure, Shared, NEW j \in Jobs, job' = [job EXCEPT ![j] = Idle],
         Alone(job[j]), NEW c, saved' = saved \cup {c}, unread' = unread, phase' # "onboarding",
         ~unread => disk' # None /\ Has(disk', saved') /\ Has(memory', saved')
  PROVE  Shared'
<1>1. \A i \in Jobs : job'[i] = Idle \/ (job'[i] = job[i] /\ job[i].op = "none")
  BY JobMoves DEF Shared, Lone
<1>2. \A i \in Jobs : job'[i] = Idle
  BY <1>1, StructureParts DEF JobsFine, JobsWhole, Whole
<1>3. \A i \in Jobs : Has(job'[i].entry, saved') /\ job'[i].change \notin Levels /\ ~Alone(job'[i])
  BY <1>2, IdleHas DEF Alone
<1>4. Lone'
  BY <1>3 DEF Lone, Alone
<1>5. Everywhere'
  BY <1>3 DEF Everywhere
<1>6. QED
  BY <1>4, <1>5 DEF Shared

LEMMA BegunShares ==
  ASSUME Structure, Shared, NEW j \in Jobs, NEW op \in Ops, NEW pc \in {"prompt", "queued"},
         NEW entry \in Entry \cup {None}, NEW change \in Changes \cup {None},
         Begin(j, op, pc, entry, change), UNCHANGED <<disk, memory, phase, saved, unread>>,
         change # None => phase = "ready" /\ change \in entry.meta,
         \/ entry = None \/ phase = "onboarding"
         \/ memory # None /\ memory.meta \subseteq entry.meta
  PROVE  Shared'
<1>1. /\ job[j].op = "none" /\ job'[j].op = op /\ job'[j].pc = pc
      /\ job'[j].entry = entry /\ job'[j].change = change
      /\ change \in Levels => job'[j].before = memory.meta \cap Levels
      /\ job'[j].alone => \A i \in Jobs : job[i].op = "none"
      /\ \A i \in Jobs \ {j} : Same(job'[i], job[i]) /\ (job[i].op # "none" => ~job'[i].alone)
  BY BeginDoes, StructureParts DEF JobsFine, Points
<1>2. Lone'
  <2>1. SUFFICES ASSUME NEW i \in Jobs, Alone(job'[i])
                 PROVE  (\A k \in Jobs : k # i => job'[k].op = "none") /\ Borne(job[i])'
    BY DEF Lone, Alone
  <2>2. i = j
    BY <1>1, <2>1 DEF Alone, Same
  <2>3. \A k \in Jobs : k # i => job'[k].op = "none"
    BY <1>1, <2>1, <2>2 DEF Alone, Same
  <2>4. Borne(job[j])'
    BY <1>1 DEF Borne
  <2>5. QED
    BY <2>2, <2>3, <2>4
<1>3. Everywhere'
  <2>1. SUFFICES ASSUME ~unread PROVE Everywhere'
    BY DEF Everywhere
  <2>2. /\ disk = None \/ phase = "onboarding" => saved = {}
        /\ Has(disk, saved) /\ Has(memory, saved)
        /\ \A i \in Jobs : /\ Has(job[i].entry, saved)
                           /\ job[i].change \in Levels => saved \cap Levels \subseteq job[i].before
    BY <2>1 DEF Shared, Everywhere
  <2>3. Has(entry, saved)
    BY <2>2 DEF Has
  <2>4. change \in Levels => saved \cap Levels \subseteq memory.meta \cap Levels
    <3>1. change \in Levels => memory # None
      BY IdleHas, StructureParts DEF Frame, RestTyped
    <3>2. QED
      BY <2>2, <3>1 DEF Has
  <2>5. \A i \in Jobs : /\ Has(job'[i].entry, saved)
                        /\ job'[i].change \in Levels => saved \cap Levels \subseteq job'[i].before
    BY <1>1, <2>2, <2>3, <2>4 DEF Same
  <2>6. QED
    BY <2>1, <2>2, <2>5 DEF Everywhere
<1>4. QED
  BY <1>2, <1>3 DEF Shared

LEMMA ReadyShares ==
  ASSUME Structure, Shared, NEW j \in Jobs, ReadyStep(j)
  PROVE  Shared'
<1>1. JobsFine /\ Frame
  BY StructureParts
<1>2. job[j] \in Job /\ Whole(job[j], native) /\ InPhase(job[j], phase)
  BY <1>1 DEF JobsFine, JobsTyped, JobsWhole
<1>3. ASSUME NEW c \in Changes, Mutate(j, c)
      PROVE  Shared'
  <2> DEFINE e == [memory EXCEPT !.meta = @ \cup {c}]
  <2>1. /\ phase = "ready" /\ Begin(j, "mutate", "queued", e, c)
        /\ UNCHANGED <<disk, memory, phase, saved, unread>>
    BY <1>3 DEF Mutate, device, stores, history
  <2>2. e \in Entry /\ e.meta = memory.meta \cup {c} /\ memory # None
    <3>1. memory \in Entry /\ memory # None
      BY <2>1, SettingsAre
    <3>2. QED
      BY <2>1, <3>1, SettingsAre, EntriesAre DEF Entry
  <2> HIDE DEF e
  <2>3. QED
    BY <2>1, <2>2, BegunShares DEF Ops
<1>4. ASSUME NEW f \in Fields, phase = "ready", SetPassphrase(j, f)
      PROVE  Shared'
  <2> DEFINE e == Sealed(memory, NewKey(f.next))
             p == IF memory.passkey = None THEN "queued" ELSE "prompt"
  <2>1. /\ Begin(j, "change", p, e, None) /\ MaySubmit(f) /\ SettingNew(f) /\ salts < MaxSalts
        /\ UNCHANGED <<disk, memory, phase, saved, unread>>
    BY <1>4 DEF SetPassphrase, device, stores, history
  <2>2. e \in Entry /\ p \in {"prompt", "queued"} /\ e.meta = memory.meta /\ memory # None
    BY <1>4, <2>1, SettingsAre, EntriesAre
  <2> HIDE DEF e, p
  <2>3. QED
    BY <2>1, <2>2, BegunShares DEF Ops
<1>5. ASSUME NEW f \in Fields, phase = "ready", RemovePassphrase(j, f)
      PROVE  Shared'
  <2> DEFINE e == Sealed(memory, None)
  <2>1. /\ Begin(j, "change", "queued", e, None)
        /\ UNCHANGED <<disk, memory, phase, saved, unread>>
    BY <1>5 DEF RemovePassphrase, device, stores, history
  <2>2. e \in Entry /\ e.meta = memory.meta /\ memory # None
    BY <1>5, SettingsAre, EntriesAre
  <2> HIDE DEF e
  <2>3. QED
    BY <2>1, <2>2, BegunShares DEF Ops
<1>6. ASSUME EnrollPasskey(j)
      PROVE  Shared'
  <2>1. /\ Begin(j, "enroll", "prompt", memory, None) /\ phase = "ready"
        /\ UNCHANGED <<disk, memory, phase, saved, unread>>
    BY <1>6 DEF EnrollPasskey, MayEnroll, device, stores, history
  <2>2. memory \in Entry /\ memory # None
    BY <2>1, SettingsAre
  <2>3. QED
    BY <2>1, <2>2, BegunShares DEF Ops
<1>7. ASSUME Wrap(j)
      PROVE  Shared'
  <2>0. PICK w : w = [job[j] EXCEPT !.pc = "queued", !.entry = WithPasskey(@)]
    OBVIOUS
  <2>1. /\ job[j].op \in {"enroll", "change"} /\ job[j].pc = "prompt" /\ job' = [job EXCEPT ![j] = w]
        /\ UNCHANGED <<disk, memory, phase, saved, unread>>
    BY <1>1, <1>7, <2>0 DEF Wrap, device, stores, history, JobsFine, JobsTyped, Job
  <2>2. /\ w.op = job[j].op /\ w.alone = job[j].alone /\ w.change = job[j].change
        /\ w.before = job[j].before /\ w.pc = "queued" /\ w.entry = WithPasskey(job[j].entry)
    BY <1>2, <2>0 DEF Job
  <2>3. job[j].entry \in Entry /\ job[j].entry # None /\ w.entry.meta = job[j].entry.meta
    BY <1>2, <2>1, <2>2, EntriesAre DEF Whole, Job
  <2>4. ~unread => Has(w.entry, saved) /\ (w.change \in Levels => saved \cap Levels \subseteq w.before)
    BY <2>2, <2>3 DEF Shared, Everywhere, Has
  <2>5. Borne(w)'
    BY <2>1, <2>2 DEF Borne
  <2>6. QED
    BY <2>1, <2>2, <2>4, <2>5, MovedShares
<1>8. ASSUME Confirmed(j)
      PROVE  Shared'
  <2>1. /\ job[j].pc = "remote" /\ job' = [job EXCEPT ![j] = Idle]
        /\ saved' = IF job[j].alone THEN saved \cup {job[j].change} ELSE saved
        /\ UNCHANGED <<disk, memory, phase, unread>>
    BY <1>8 DEF Confirmed, Ends, stores
  <2>2. job[j].op = "mutate" /\ phase = "ready"
    BY <1>2, <2>1, RemoteMutates DEF InPhase, Setter
  <2>3. CASE ~job[j].alone
    BY <2>1, <2>2, <2>3, EndedShares
  <2>4. CASE job[j].alone
    <3>1. Alone(job[j]) /\ Borne(job[j])
      BY <2>2, <2>4 DEF Alone, Shared, Lone
    <3>2. ~unread => disk # None /\ Has(disk, saved') /\ Has(memory, saved')
      BY <2>1, <2>4, <3>1 DEF Borne, Shared, Everywhere, Has
    <3>3. QED
      BY <2>1, <2>2, <2>4, <3>1, <3>2, SavedShares
  <2>5. QED
    BY <2>3, <2>4
<1>9. ASSUME Refused(j)
      PROVE  Shared'
  <2> DEFINE e == [memory EXCEPT !.meta = (@ \ Levels) \cup job[j].before]
  <2>0. PICK w : w = [job[j] EXCEPT !.pc = "queued", !.change = None, !.entry = e, !.before = {}]
    OBVIOUS
  <2>1. /\ job[j].pc = "remote" /\ phase = "ready" /\ UNCHANGED <<disk, memory, phase, saved, unread>>
        /\ job' = [job EXCEPT ![j].pc = "queued", ![j].change = None, ![j].entry = e, ![j].before = {}]
    BY <1>9 DEF Refused, stores, history
  <2>2. e.meta = (memory.meta \ Levels) \cup job[j].before /\ memory # None
    BY <2>1, SettingsAre DEF Entry
  <2> HIDE DEF e
  <2>3. job' = [job EXCEPT ![j] = w]
    BY <1>1, <2>0, <2>1 DEF JobsFine, JobsTyped, Job
  <2>4. /\ w.op = job[j].op /\ w.alone = job[j].alone /\ w.change = None /\ w.pc = "queued" /\ w.entry = e
    BY <1>2, <2>0 DEF Job
  <2>5. job[j].op = "mutate" /\ job[j].change \in Levels
    BY <1>2, <2>1, RemoteMutates DEF Whole
  <2>6. ~unread => Has(w.entry, saved)
    BY <2>2, <2>4, <2>5 DEF Shared, Everywhere, Has
  <2>7. Borne(w)' /\ w.change \notin Levels
    BY <2>4, IdleHas DEF Borne
  <2>8. QED
    BY <2>1, <2>3, <2>4, <2>5, <2>6, <2>7, MovedShares
<1>10. ASSUME EndMutate(j)
       PROVE  Shared'
  <2>1. /\ job[j].op = "mutate" /\ StoreLast(j) /\ phase' = "ready" /\ memory' = job[j].entry
        /\ unread' = unread
    BY <1>10 DEF EndMutate, Apply
  <2>2. /\ job[j].entry # None /\ job[j].pc \in {"queued", "second"}
        /\ disk' = job[j].entry \/ (disk' = disk /\ job[j].pc = "second")
    BY <1>1, <2>1, StoreLastIs, ServedIs
  <2>3. CASE job[j].change \in Levels
    <3>0. PICK w : w = [job[j] EXCEPT !.pc = "remote", !.entry = None]
      OBVIOUS
    <3>1. /\ job' = [job EXCEPT ![j].pc = "remote", ![j].entry = None] /\ saved' = saved
      BY <1>10, <2>3 DEF EndMutate
    <3>2. job' = [job EXCEPT ![j] = w]
      BY <1>1, <3>0, <3>1 DEF JobsFine, JobsTyped, Job
    <3>3. /\ w.op = job[j].op /\ w.alone = job[j].alone /\ w.change = job[j].change
          /\ w.before = job[j].before /\ w.pc = "remote" /\ w.entry = None
      BY <1>2, <3>0 DEF Job
    <3>4. ~unread => Has(w.entry, saved) /\ (w.change \in Levels => saved \cap Levels \subseteq w.before)
      BY <3>3 DEF Shared, Everywhere, Has
    <3>5. Alone(job[j]) => Borne(w)'
      <4>1. SUFFICES ASSUME Borne(job[j]) PROVE Borne(w)'
        BY DEF Shared, Lone
      <4>2. disk' = job[j].entry /\ job[j].change \in job[j].entry.meta
        BY <2>1, <2>2, <2>3, <4>1, IdleHas DEF Borne
      <4>3. QED
        BY <2>1, <2>2, <3>3, <4>2 DEF Borne
    <3>6. QED
      BY <2>1, <2>2, <3>1, <3>2, <3>3, <3>4, <3>5, MovedShares
  <2>4. CASE job[j].change \notin Levels /\ (~job[j].alone \/ job[j].change = None)
    <3>1. job' = [job EXCEPT ![j] = Idle] /\ saved' = saved
      BY <1>10, <2>4 DEF EndMutate, Ends
    <3>2. QED
      BY <2>1, <2>2, <3>1, EndedShares
  <2>5. CASE job[j].change \notin Levels /\ job[j].alone /\ job[j].change # None
    <3>1. job' = [job EXCEPT ![j] = Idle] /\ saved' = saved \cup {job[j].change}
      BY <1>10, <2>5 DEF EndMutate, Ends
    <3>2. Alone(job[j]) /\ Borne(job[j])
      BY <2>1, <2>5 DEF Alone, Shared, Lone
    <3>3. disk' = job[j].entry /\ job[j].change \in job[j].entry.meta
      BY <2>1, <2>2, <2>5, <3>2 DEF Borne
    <3>4. ~unread => disk' # None /\ Has(disk', saved') /\ Has(memory', saved')
      BY <2>1, <2>2, <3>1, <3>3 DEF Shared, Everywhere, Has
    <3>5. QED
      BY <2>1, <3>1, <3>2, <3>4, SavedShares
  <2>6. QED
    BY <2>3, <2>4, <2>5
<1>11. ASSUME EndSeal(j)
       PROVE  Shared'
  <2>1. /\ job[j].op \in {"enroll", "change"} /\ StoreLast(j) /\ phase' = "ready"
        /\ memory' = job[j].entry /\ unread' = unread /\ saved' = saved
        /\ job' = [job EXCEPT ![j] = Idle]
    BY <1>11 DEF EndSeal, Apply, Ends, history
  <2>2. /\ job[j].entry # None /\ disk' \in {disk, job[j].entry}
        /\ disk' = job[j].entry \/ disk' = disk
    BY <1>1, <2>1, StoreLastIs, ServedIs
  <2>3. QED
    BY <2>1, <2>2, EndedShares
<1>12. QED
  BY <1>3, <1>4, <1>5, <1>6, <1>7, <1>8, <1>9, <1>10, <1>11 DEF ReadyStep

LEMMA LockedShares ==
  ASSUME Structure, Shared, NEW j \in Jobs, LockedStep(j)
  PROVE  Shared'
<1>1. JobsFine /\ Frame
  BY StructureParts
<1>2. ASSUME AskPasskey(j)
      PROVE  Shared'
  <2>1. /\ Begin(j, "passkey", "prompt", memory, None) /\ phase = "locked"
        /\ UNCHANGED <<disk, memory, phase, saved, unread>>
    BY <1>2 DEF AskPasskey, MayPress, Methods, PasskeyOffered, NativeOffered, stores, history
  <2>2. memory \in Entry /\ memory # None
    BY <1>1, <2>1 DEF Frame, RestTyped, IsSealed
  <2>3. QED
    BY <2>1, <2>2, BegunShares DEF Ops
<1>3. ASSUME AskNative(j)
      PROVE  Shared'
  <2>1. /\ Begin(j, "native", "prompt", None, None)
        /\ UNCHANGED <<disk, memory, phase, saved, unread>>
    BY <1>3 DEF AskNative, stores, history
  <2>2. QED
    BY <2>1, BegunShares DEF Ops
<1>4. ASSUME UnlockWithPasskey(j) \/ UnlockNative(j) \/ Decline(j)
      PROVE  Shared'
  <2>1. /\ job' = [job EXCEPT ![j] = Idle] /\ disk' = disk /\ saved' = saved /\ unread' = unread
        /\ memory' \in {memory, disk, job[j].entry}
        /\ phase' = "onboarding" => phase = "onboarding"
    BY <1>4 DEF UnlockWithPasskey, UnlockNative, Decline, Apply, Ends, stores, history
  <2>2. job[j].op # "none"
    BY <1>1, <1>4, IdleIsAJob DEF UnlockWithPasskey, UnlockNative, Decline, JobsFine, JobsWhole, Whole
  <2>3. QED
    BY <2>1, <2>2, EndedShares
<1>5. QED
  BY <1>2, <1>3, <1>4 DEF LockedStep

LEMMA StoreShares ==
  ASSUME Structure, Shared, NEW j \in Jobs, StoreStep(j)
  PROVE  Shared'
<1>1. JobsFine
  BY StructureParts
<1>2. Serve(j) /\ job[j].op # "none" /\ job[j].entry # None /\ job[j] \in Job
  BY <1>1, ServedIs DEF StoreStep, StoreFirst, StoreFails
<1>3. ASSUME StoreFirst(j)
      PROVE  Shared'
  <2>0. PICK w : w = [job[j] EXCEPT !.pc = "second"]
    OBVIOUS
  <2>1. /\ disk' = job[j].entry /\ job' = [job EXCEPT ![j] = w] /\ job[j].pc = "queued"
        /\ UNCHANGED <<memory, phase, saved, unread>>
    BY <1>1, <1>3, <2>0 DEF StoreFirst, history, JobsFine, JobsTyped, Job
  <2>2. /\ w.op = job[j].op /\ w.alone = job[j].alone /\ w.change = job[j].change
        /\ w.before = job[j].before /\ w.pc = "second" /\ w.entry = job[j].entry
    BY <1>2, <2>0 DEF Job
  <2>3. ~unread => Has(w.entry, saved) /\ (w.change \in Levels => saved \cap Levels \subseteq w.before)
    BY <2>2 DEF Shared, Everywhere
  <2>4. Alone(job[j]) => Borne(w)'
    BY <2>1, <2>2 DEF Shared, Lone, Borne
  <2>5. QED
    BY <1>2, <2>1, <2>2, <2>3, <2>4, MovedShares
<1>4. ASSUME StoreFails(j)
      PROVE  Shared'
  BY <1>2, <1>4, EndedShares DEF StoreFails, Ends, stores
<1>5. QED
  BY <1>3, <1>4 DEF StoreStep

LEMMA OnboardingShares ==
  ASSUME Structure, Shared, NEW j \in Jobs, OnboardingStep(j)
  PROVE  Shared'
<1>1. JobsFine /\ Frame
  BY StructureParts
<1>2. ASSUME Complete(j)
      PROVE  Shared'
  <2>1. PICK entry \in Entry : Begin(j, "complete", "queued", entry, None)
    BY <1>2, CompleteBegins
  <2>2. /\ phase = "onboarding" /\ UNCHANGED <<disk, memory, phase, saved, unread>>
    BY <1>1, <1>2, DraftIs DEF Complete, CanContinue, stores, history
  <2>3. QED
    BY <2>1, <2>2, BegunShares DEF Ops
<1>3. ASSUME Restore(j)
      PROVE  Shared'
  <2>1. /\ Begin(j, "restore", "queued", Earlier, None) /\ wizard.step = "restore"
        /\ UNCHANGED <<disk, memory, phase, saved, unread>>
    BY <1>1, <1>3 DEF Restore, MayRestore, On, Earlier, stores, history, Frame, Good, FormFits
  <2>2. phase = "onboarding"
    BY <1>1, <2>1, DraftIs DEF Steps
  <2>3. QED
    BY <2>1, <2>2, EntriesAre, BegunShares DEF Ops
<1>4. ASSUME EndComplete(j) \/ EndRestore(j)
      PROVE  Shared'
  <2>1. /\ StoreLast(j) /\ job' = [job EXCEPT ![j] = Idle] /\ saved' = saved /\ unread' = unread
        /\ memory' \in {memory, disk, job[j].entry}
        /\ phase' = "onboarding" => phase = "onboarding"
    BY <1>4 DEF EndComplete, EndRestore, Apply, Ends, history
  <2>2. /\ job[j].op # "none" /\ job[j].entry # None /\ disk' \in {disk, job[j].entry}
    BY <1>1, <2>1, StoreLastIs, ServedIs
  <2>3. QED
    BY <2>1, <2>2, EndedShares
<1>5. QED
  BY <1>2, <1>3, <1>4 DEF OnboardingStep

(* Where there are no operations.                                          *)
LEMMA NobodyShares ==
  ASSUME Structure, Shared, \A i \in Jobs : job'[i] = Idle, saved' = saved,
         ~unread' => ~unread /\ (disk' = disk \/ disk = None) /\ (disk = None \/ disk' # None)
                     /\ memory' \in {None, disk'} /\ (phase' = "onboarding" => disk = None)
  PROVE  Shared'
<1>1. \A i \in Jobs : Has(job'[i].entry, saved') /\ job'[i].change \notin Levels /\ ~Alone(job'[i])
  BY IdleHas DEF Alone
<1>2. Lone'
  BY <1>1 DEF Lone, Alone
<1>3. Everywhere'
  <2>1. SUFFICES ASSUME ~unread' PROVE Everywhere'
    BY DEF Everywhere
  <2>2. (disk = None => saved = {}) /\ Has(disk, saved)
    BY <2>1 DEF Shared, Everywhere
  <2>3. Has(disk', saved) /\ Has(memory', saved)
    BY <2>1, <2>2 DEF Has
  <2>4. disk' = None \/ phase' = "onboarding" => saved = {}
    BY <2>1, <2>2
  <2>5. QED
    BY <1>1, <2>3, <2>4 DEF Everywhere
<1>4. QED
  BY <1>2, <1>3 DEF Shared

LEMMA OwnShares ==
  ASSUME Structure, Shared,
         Boot \/ BootUnreadable \/ BootFails \/ Restart \/ Advance \/ Finish
           \/ \E p \in Passphrases : Unlock(p)
  PROVE  Shared'
<1>1. JobsFine /\ Frame
  BY StructureParts
<1>2. phase = "loading" => \A i \in Jobs : job[i] = Idle
  BY <1>1, NobodyElse DEF JobsFine, JobsWhole, Whole
<1>3. ASSUME Boot PROVE Shared'
  <2>1. phase = "loading" /\ Loads(disk') /\ job' = job /\ saved' = saved /\ Migrate
        /\ unread' = (unread \/ legacy' # None)
    BY <1>3 DEF Boot
  <2>2. disk' \in Entry \cup {None} /\ (disk' = disk \/ (legacy # None /\ disk' = Earlier))
    BY <1>1, <2>1, MigrateIs, EntriesAre DEF Frame, RestTyped
  <2>3. ~unread' => ~unread /\ (disk' = disk \/ disk = None) /\ (disk = None \/ disk' # None)
    BY <1>1, <2>1, <2>2, EntriesAre DEF Frame, PhaseHolds
  <2>4. memory' \in {None, disk'} /\ (phase' = "onboarding" => disk' = None)
    BY <1>1, <2>1, <2>2, LoadsIs, OnboardIs
  <2>5. ~unread' => (phase' = "onboarding" => disk = None)
    BY <2>3, <2>4
  <2>6. QED
    BY <1>2, <2>1, <2>3, <2>4, <2>5, NobodyShares
<1>4. ASSUME BootUnreadable PROVE Shared'
  BY <1>2, <1>4, NobodyShares DEF BootUnreadable
<1>5. ASSUME BootFails PROVE Shared'
  BY <1>2, <1>5, NobodyShares DEF BootFails, Apply, stores, history
<1>6. ASSUME Restart PROVE Shared'
  BY <1>6, NobodyShares DEF Restart, Apply, stores, history
<1>7. ASSUME UNCHANGED <<job, disk, memory, saved, unread>>, phase' = "onboarding" => phase = "onboarding"
      PROVE  Shared'
  BY <1>7 DEF Shared, Lone, Everywhere, Alone, Borne
<1>8. ASSUME Advance PROVE Shared'
  BY <1>7, <1>8 DEF Advance, stores, history
<1>9. ASSUME NEW p \in Passphrases, Unlock(p) PROVE Shared'
  BY <1>7, <1>9 DEF Unlock, Apply, stores, history
<1>10. ASSUME Finish PROVE Shared'
  <2>1. /\ wizard.step = "complete" /\ phase' = "ready"
        /\ UNCHANGED <<job, disk, saved, unread>>
    BY <1>10 DEF Finish, Apply, stores, history
  <2>2. phase = "onboarding"
    BY <1>1, <2>1, DraftIs DEF Steps
  <2>3. \A i \in Jobs : job[i].pc # "remote"
    BY <1>1, <2>2, RemoteMutates DEF JobsFine, JobsWhole, InPhase, Setter
  <2>4. Lone'
    BY <2>1, <2>3 DEF Shared, Lone, Alone, Borne
  <2>5. ~unread => saved = {}
    BY <2>2 DEF Shared, Everywhere
  <2>6. Everywhere'
    BY <2>1, <2>5 DEF Shared, Everywhere, Has
  <2>7. QED
    BY <2>4, <2>6 DEF Shared
<1>11. QED
  BY <1>3, <1>4, <1>5, <1>6, <1>8, <1>9, <1>10

(* Whatever overlaps, what was saved alone is in the memory, in the store  *)
(* and in every entry that an operation is about to store or apply, and    *)
(* no rollback of the levels leaves it out.                                *)
THEOREM SharedHolds == Spec => []Shared
<1>1. ASSUME Init PROVE Shared
  <2>1. /\ \A j \in Jobs : job[j] = Idle /\ saved = {}
    BY <1>1 DEF Init
  <2>2. Lone
    BY <2>1, IdleIsAJob DEF Lone, Alone
  <2>3. \A j \in Jobs : job[j].change = None
    BY <2>1, IdleIsAJob
  <2>4. None \notin Levels
    BY NoneAssumption, LevelsAssumption
  <2>5. Everywhere
    BY <1>1, <2>3, <2>4 DEF Init, Everywhere, Has
  <2>6. QED
    BY <2>2, <2>5 DEF Shared
<1>2. ASSUME Shared, UNCHANGED vars PROVE Shared'
  BY <1>2 DEF vars, stores, history, Shared, Lone, Everywhere, Alone, Borne
<1>3. Structure /\ Shared /\ [Next]_vars => Shared'
  BY <1>2, ReadyShares, LockedShares, StoreShares, OnboardingShares, OwnShares DEF Next
<1>4. QED
  BY <1>1, <1>3, StructureHolds, PTL DEF Spec

(* A change that was saved with no operation beside it stays stored,       *)
(* through restarts, unlocking and changes of the passphrase.              *)
THEOREM SavedAloneAlwaysStays == Spec => []SavedAloneStays
<1>1. Shared => SavedAloneStays
  BY DEF Shared, Everywhere, Has, SavedAloneStays
<1>2. QED
  BY <1>1, SharedHolds, PTL

=============================================================================
