---------------------------- MODULE RequestForms ----------------------------
(***************************************************************************)
(* The answers of a request form (modules/forms.ts, ticket-form-edit.ts):  *)
(* submitted with a catalog request (planRequestWrite of catalog.ts) or    *)
(* attached to a ticket without one (submitAnswers), and corrected later,  *)
(* one edit at a time (editTicketForm locks the ticket).  An answer lives  *)
(* in custom_fields, in the description of the ticket, or, if its field is *)
(* sensitive, in a store of its own; the subject of the ticket is composed *)
(* of the answers that name the person.                                    *)
(*                                                                         *)
(* Conditional fields are shown while the selector, a field without a      *)
(* condition, has the value Trigger: so are those of every form that the   *)
(* migrations create, and the editor of forms creates none.                *)
(***************************************************************************)
EXTENDS FiniteSets, Naturals

CONSTANTS Fields, Selector, Options, Trigger,
          Conditional,  \* fields that are shown while the selector is Trigger
          Required, Sensitive,
          Names,        \* fields that make up the subject, and the name of the account
          Describes,    \* the field that is the ticket's description
          Texts,        \* answers to the fields other than the selector
          MaxPatch      \* bound on the answers one edit changes

Empty == "empty"
Stored == "stored"  \* what is read back of a sensitive answer

ASSUME FormAssumption ==
  /\ Selector \in Fields /\ Describes \in Fields \ {Selector} /\ Trigger \in Options
  /\ Conditional \cup Required \cup Sensitive \cup Names \subseteq Fields
  /\ {Selector, Describes} \cap (Conditional \cup Sensitive \cup Names) = {}
  /\ Names \cap Sensitive = {} /\ Selector \in Required
  /\ {Empty, Stored} \cap (Options \cup Texts) = {}

VARIABLES request,     \* none, open, busy (a run is in flight) or done (resolved, closed)
          attached,    \* whether the form was attached later
          custom,      \* the answers in custom_fields
          described,   \* the description of the ticket
          kept,        \* sensitive fields in the store
          subject,     \* the answers its subject was composed of
          accountMade  \* whether the account was created from the names

formVars == <<request, attached, custom, described, kept, subject, accountMade>>

Values(f) == IF f = Selector THEN Options ELSE Texts
Nothing == [f \in Fields |-> Empty]
NoSubject == [f \in Names |-> Empty]
Answers == {a \in [Fields -> UNION {Options, Texts, {Empty}}] : \A f \in Fields : a[f] \in Values(f) \cup {Empty}}

FormInit ==
  /\ request = "none" /\ attached = FALSE /\ accountMade = FALSE
  /\ custom = Nothing /\ described = Empty /\ kept = {} /\ subject = NoSubject

-----------------------------------------------------------------------------
(* isFieldVisible, of a field, given the answers                           *)
IsVisible(f, answers) == f \in Conditional => answers[Selector] = Trigger

(* The errors of validateAgainstForm: what is required and shown has an    *)
(* answer.  (That an answer has the type of its field is left out.)        *)
Missing(answers) == {f \in Required : IsVisible(f, answers) /\ answers[f] = Empty}

(* splitSensitiveAnswers: an answer to a field that is not shown is        *)
(* dropped, a sensitive one is kept apart.                                 *)
Normal(answers) ==
  [f \in Fields |-> IF IsVisible(f, answers) /\ f \notin Sensitive THEN answers[f] ELSE Empty]

KeptApart(answers) == {f \in Sensitive : IsVisible(f, answers) /\ answers[f] # Empty}

ComposedOf(answers) == [f \in Names |-> answers[f]]

(* createRequest with a form: mapFormAnswers puts the description in its   *)
(* column only, and the names in the subject too.                          *)
SubmitForm(answers) ==
  /\ request = "none" /\ Missing(answers) = {}
  /\ request' = "open"
  /\ custom' = [Normal(answers) EXCEPT ![Describes] = Empty]
  /\ described' = answers[Describes]
  /\ kept' = KeptApart(answers)
  /\ subject' = ComposedOf(Normal(answers))
  /\ UNCHANGED <<attached, accountMade>>

(* submitAnswers, on a ticket that has no form: all answers that are not   *)
(* sensitive go to custom_fields, and to no column.  (One with sensitive   *)
(* answers does not come back: SensitiveAnswers.)                          *)
AttachForm(answers) ==
  /\ request = "none" /\ Missing(answers) = {} /\ KeptApart(answers) = {}
  /\ request' = "open" /\ attached' = TRUE
  /\ custom' = Normal(answers)
  /\ UNCHANGED <<described, kept, subject, accountMade>>

-----------------------------------------------------------------------------
(* What getTicketForm and planFormEdit read back: a sensitive answer only  *)
(* as there or not.                                                        *)
Current ==
  [f \in Fields |-> IF f \in Sensitive THEN IF f \in kept THEN Stored ELSE Empty
                    ELSE IF f = Describes /\ custom[f] = Empty THEN described ELSE custom[f]]

(* The edits one may send: some fields, each with an answer or cleared.    *)
Patches ==
  UNION {{p \in [fs -> UNION {Options, Texts, {Empty}}] : \A f \in fs : p[f] \in Values(f) \cup {Empty}} :
         fs \in {fs \in SUBSET Fields : fs # {} /\ Cardinality(fs) <= MaxPatch}}

(* editGuards: an account that exists pins the names.                      *)
LockedFields == IF accountMade THEN Names ELSE {}

Merged(patch) == [f \in Fields |-> IF f \in DOMAIN patch THEN patch[f] ELSE Current[f]]

(* The edit is refused if it answers a field that is not shown, or leaves  *)
(* empty a required one that it changes or brings to light.                *)
Accepts(patch) ==
  LET merged == Merged(patch) IN
  /\ (DOMAIN patch) \cap LockedFields = {}
  /\ \A f \in DOMAIN patch : patch[f] # Empty => IsVisible(f, merged)
  /\ \A f \in Missing(merged) : f \notin DOMAIN patch /\ IsVisible(f, Current)

(* Mutant of Hidden: nothing is removed that the edit does not name. *)
HiddenIfNamed(patch) == {f \in DOMAIN patch : ~IsVisible(f, Merged(patch))}

(* The answers that the edit hides.                                        *)
Hidden(patch) == {f \in Fields \ DOMAIN patch : IsVisible(f, Current) /\ ~IsVisible(f, Merged(patch))}

(* The subject follows its names, if one of them changes and some are left. *)
Recomposed(patch, answers) ==
  IF ComposedOf(answers) \in {ComposedOf(custom), NoSubject} THEN subject ELSE ComposedOf(answers)

(* planFormEdit, and its writes: in one transaction, audit record included. *)
EditForm(patch) ==
  LET merged == Merged(patch)
      written == [f \in Fields |-> CASE f \in Hidden(patch) -> Empty
                                     [] f \in (DOMAIN patch) \ (Sensitive \cup {Describes}) -> patch[f]
                                     [] OTHER -> custom[f]]
  IN
  /\ request = "open" /\ Accepts(patch)
  /\ custom' = written
  /\ described' = IF Describes \in DOMAIN patch /\ patch[Describes] # Current[Describes]
                    THEN patch[Describes] ELSE described
  /\ kept' = {f \in Sensitive : merged[f] # Empty} \ Hidden(patch)
  /\ subject' = Recomposed(patch, written)
  /\ UNCHANGED <<request, attached, accountMade>>

-----------------------------------------------------------------------------
(* A run starts and ends; the onboarding run makes the account; the ticket *)
(* is resolved and reopened, and a purge empties the store meanwhile.      *)
RequestMoves ==
  /\ request' \in CASE request = "open" -> {"busy", "done"}
                 [] request \in {"busy", "done"} -> {"open"}
                 [] OTHER -> {}
  /\ accountMade' \in (IF request = "busy" THEN {TRUE, accountMade} ELSE {accountMade})
  /\ kept' \in (IF request = "done" THEN {{}, kept} ELSE {kept})
  /\ UNCHANGED <<attached, custom, described, subject>>

FormNext ==
  \/ \E answers \in Answers : SubmitForm(answers) \/ AttachForm(answers)
  \/ \E patch \in Patches : EditForm(patch)
  \/ RequestMoves

FormSpec == FormInit /\ [][FormNext]_formVars

-----------------------------------------------------------------------------
(* No answer is on record for a field that the others hide, in whichever   *)
(* place it would be, and none to a sensitive field outside its store.     *)
HiddenIsGone ==
  /\ \A f \in Fields : Current[f] # Empty => IsVisible(f, Current)
  /\ \A f \in Sensitive : custom[f] = Empty

(* Whatever is required and shown stays answered; the store may be purged. *)
RequiredIsAnswered == Missing(Current) \subseteq Sensitive

(* The subject of a submitted request is composed of the names as they     *)
(* are, unless none is left.                                               *)
SubjectFollows == attached \/ subject = ComposedOf(custom) \/ ComposedOf(custom) = NoSubject

(* However often a request is corrected, its form reads as if it had been  *)
(* submitted that way: nothing hidden is left behind, nothing required is  *)
(* missing, personal data stays apart, and the subject says what the names *)
(* say (planFormEdit, "exactly as submission drops hidden answers").       *)
ReadsAsSubmitted == request # "none" => HiddenIsGone /\ RequiredIsAnswered /\ SubjectFollows
=============================================================================
