------------------------- MODULE OnboardingScreens -------------------------
(***************************************************************************)
(* What a person goes through before there is an identity                  *)
(* (assets/app/screens/OnboardingFlow.tsx and the screens it shows): a new *)
(* one, whose recovery phrase is shown for some seconds and asked for      *)
(* again, which gets a passphrase or none and a name, or the restoring of  *)
(* an old one.  What is typed stays in a screen until the screen is left,  *)
(* the passphrase and the name until the flow is.                          *)
(*                                                                         *)
(* What is done with the answers is the subject of IdentityVault.          *)
(***************************************************************************)
EXTENDS Naturals, FiniteSetsExt

CONSTANTS
  Words,        \* the places of the words in a recovery phrase
  Asked,        \* VERIFY_WORD_COUNT
  Seconds,      \* COUNTDOWN_SECONDS
  Passphrases,  \* those that are long enough
  Short,        \* one that is not
  None

Blank == 0

ASSUME WordsAssumption == Words \subseteq Nat \ {Blank} /\ Asked \in 1..Cardinality(Words)
ASSUME SecondsAssumption == Seconds \in Nat
ASSUME PassphrasesAssumption == {Short, None} \cap Passphrases = {} /\ Short # None

VARIABLES
  wizard,  \* the step, the form of its screen, and what OnboardingFlow keeps
  proven   \* history: identities whose words the person has entered

onboarding == <<wizard, proven>>

Steps == {"choose_path", "restore", "mnemonic", "passphrase", "display_name", "complete"}
Typed == Passphrases \cup {Short, None}
Phrases == {"blank", "unknown_word", "bad_checksum", "valid"}
Names == {"", "default", "another"}

Positions == kSubset(Asked, Words)

Forms ==
  [kind : {"plain"}]
  \cup [kind : {"display"}, remaining : 0..Seconds]
  \cup (UNION {[kind : {"verify"}, inputs : [p -> Words \cup {Blank}]] : p \in Positions})
  \cup [kind : {"passphrase"}, passphrase : Typed, confirm : Typed]
  \cup [kind : {"name"}, editing : BOOLEAN, override : Names]
  \cup [kind : {"restore"}, phrase : Phrases, error : BOOLEAN, submitting : BOOLEAN]

WizardTypeOK ==
  wizard \in [step : Steps \cup {"gone"}, form : Forms, pending : Typed,
              chosen : BOOLEAN, error : BOOLEAN]

Form(step) ==
  CASE step = "mnemonic"     -> [kind |-> "display", remaining |-> Seconds]
    [] step = "passphrase"   -> [kind |-> "passphrase", passphrase |-> None, confirm |-> None]
    [] step = "display_name" -> [kind |-> "name", editing |-> FALSE, override |-> "default"]
    [] step = "restore"      -> [kind |-> "restore", phrase |-> "blank", error |-> FALSE,
                                 submitting |-> FALSE]
    [] OTHER                 -> [kind |-> "plain"]

(* OnboardingFlow is mounted, and it is not there any more.                *)
Mounted == [step |-> "choose_path", form |-> Form("choose_path"), pending |-> None,
            chosen |-> FALSE, error |-> FALSE]
Gone == [Mounted EXCEPT !.step = "gone"]

(* advanceOnboarding: another screen is shown.                             *)
To(step) == [wizard EXCEPT !.step = step, !.form = Form(step)]
Advances(step) == wizard' = To(step) /\ UNCHANGED proven

-----------------------------------------------------------------------------
(* Choosing *)

ChooseCreate == wizard.step = "choose_path" /\ Advances("mnemonic")
ChooseRestore == wizard.step = "choose_path" /\ Advances("restore")

(* Back is offered also while a phrase is being restored.                  *)
BackToChoice == wizard.step = "restore" /\ Advances("choose_path")

-----------------------------------------------------------------------------
(* OnboardingMnemonicScreen *)

On(kind) == wizard.form.kind = kind
Fills(form) == wizard' = [wizard EXCEPT !.form = form]

(* A second passes while the words are on screen.                          *)
Tick ==
  /\ On("display") /\ wizard.form.remaining > 0
  /\ Fills([wizard.form EXCEPT !.remaining = @ - 1])
  /\ UNCHANGED proven

(* The words are asked for at positions that are drawn at random.  They    *)
(* are drawn when they are first shown, not when the screen is.            *)
Asks(positions) == Fills([kind |-> "verify", inputs |-> [p \in positions |-> Blank]])

(* The words are on screen, and so is the button below them.               *)
ConfirmEnabled == On("display") /\ wizard.form.remaining = 0

(* handleConfirm *)
HandleConfirm ==
  /\ ConfirmEnabled
  /\ \E positions \in Positions : Asks(positions)
  /\ UNCHANGED proven

(* A word is typed or picked from the suggestions.                         *)
TypeWord(p, word) ==
  /\ On("verify") /\ p \in DOMAIN wizard.form.inputs
  /\ wizard.form.inputs[p] # word
  /\ Fills([wizard.form EXCEPT !.inputs[p] = word])
  /\ UNCHANGED proven

Filled(inputs) == \A p \in DOMAIN inputs : inputs[p] # Blank
AnyCorrect(inputs) == \E p \in DOMAIN inputs : inputs[p] = p  \* mutant: one is enough
(* Every word is the one at its position.                                  *)
Correct(inputs) == \A p \in DOMAIN inputs : inputs[p] = p

(* handleVerifySubmit: other words are asked for after a wrong one.        *)
HandleVerifySubmit(who) ==
  LET inputs == wizard.form.inputs IN
  /\ On("verify") /\ Filled(inputs)
  /\ IF Correct(inputs) THEN wizard' = To("passphrase")
                        ELSE \E positions \in Positions : Asks(positions)
  /\ proven' = IF \A p \in DOMAIN inputs : inputs[p] = p THEN proven \cup {who} ELSE proven

-----------------------------------------------------------------------------
(* OnboardingPassphraseScreen *)

TypePassphrase(field, typed) ==
  /\ On("passphrase") /\ wizard.form[field] # typed
  /\ Fills([wizard.form EXCEPT ![field] = typed])
  /\ UNCHANGED proven

LongEnough(form) == form.passphrase \in Passphrases
Matches(form) == form.passphrase = form.confirm

(* onSubmit of OnboardingFlow: the passphrase waits for the name.          *)
Keeps(passphrase) ==
  /\ wizard' = [To("display_name") EXCEPT !.pending = passphrase]
  /\ UNCHANGED proven

UsePassphrase ==
  /\ On("passphrase") /\ LongEnough(wizard.form) /\ Matches(wizard.form)
  /\ Keeps(wizard.form.passphrase)
SkipPassphrase == On("passphrase") /\ Keeps(None)

-----------------------------------------------------------------------------
(* OnboardingDisplayNameScreen *)

ChangeName ==
  /\ On("name") /\ ~wizard.form.editing
  /\ Fills([wizard.form EXCEPT !.editing = TRUE])
  /\ UNCHANGED proven

TypeName(name) ==
  /\ On("name") /\ wizard.form.editing /\ wizard.form.override # name
  /\ Fills([wizard.form EXCEPT !.override = name])
  /\ UNCHANGED proven

(* Continue: a name other than the proposed one is an override of it.      *)
CanContinue == On("name") /\ (wizard.form.editing => wizard.form.override # "")
Overrides == wizard.form.editing /\ wizard.form.override # "default"

-----------------------------------------------------------------------------
(* RestoreMnemonicScreen *)

(* Words are typed: not yet twelve, or twelve of which some are not words, *)
(* or which do not make up a phrase, or which are the recovery phrase.     *)
TypePhrase(phrase) ==
  /\ On("restore") /\ wizard.form.phrase # phrase
  /\ Fills([wizard.form EXCEPT !.phrase = phrase, !.error = FALSE])
  /\ UNCHANGED proven

MayRestore == On("restore") /\ wizard.form.phrase # "blank" /\ ~wizard.form.submitting

(* validateMnemonic refuses the phrase: the screen says why.               *)
RefusePhrase ==
  /\ MayRestore /\ wizard.form.phrase # "valid" /\ ~wizard.form.error
  /\ Fills([wizard.form EXCEPT !.error = TRUE])
  /\ UNCHANGED proven

(* A valid one is being restored, and is not any more, which says nothing. *)
Submits(busy) ==
  wizard' = IF On("restore") THEN [wizard EXCEPT !.form.submitting = busy,
                                                 !.form.error = FALSE] ELSE wizard

-----------------------------------------------------------------------------
(* What OnboardingCompleteScreen shows: the fingerprint of the draft, and  *)
(* the name that was chosen or proposed.                                   *)
CompleteShows(who) == [who |-> who, named |-> wizard.chosen]

(* What takes the person longer than a write takes the store.              *)
Types ==
  \/ Tick \/ ChangeName
  \/ \E p \in Words, word \in Words \cup {Blank} : TypeWord(p, word)
  \/ \E field \in {"passphrase", "confirm"}, typed \in Typed : TypePassphrase(field, typed)
  \/ \E name \in Names : TypeName(name)
  \/ \E phrase \in Phrases : TypePhrase(phrase)

Presses(who) ==
  \/ ChooseCreate \/ ChooseRestore \/ BackToChoice
  \/ HandleConfirm \/ HandleVerifySubmit(who)
  \/ UsePassphrase \/ SkipPassphrase
  \/ RefusePhrase
=============================================================================
