-------------------------- MODULE RegistrationForm --------------------------
(***************************************************************************)
(* The form of a competition: which fields are asked for at registration   *)
(* and in the mandate, the conditions under which they are shown, and what *)
(* each handler that takes answers checks, stores, keeps and deletes.      *)
(*                                                                         *)
(* A form is the sequence of its fields.  An answer is the set of what it  *)
(* consists of: nothing, a text or a chosen option, several options, the   *)
(* members of a team, or {"true"} or {"false"} for a checkbox.  Stored     *)
(* answers are a function from the keys of the fields that have one; those *)
(* of fields that were taken out of the form stay.                         *)
(***************************************************************************)
EXTENDS Integers, FiniteSets, Sequences

Phases == {"REGISTRATION", "MANDATE"}
Lists == {"MULTISELECT", "MEMBER_LIST"}

Fields(form) == {form[i] : i \in DOMAIN form}
FormKeys(form) == {f.key : f \in Fields(form)}
Shown(f, phase) == IF phase = "REGISTRATION" THEN f.showInRegistration ELSE f.showInMandate
Required(f, phase) == IF phase = "REGISTRATION" THEN f.requiredInRegistration ELSE f.requiredInMandate

\* What the settings accept: a condition refers to an earlier field, every field is shown
\* somewhere and required and editable only where it is, what only the mandate shows
\* can be edited there, and there is something to choose from.
AcceptedForm(form) ==
    /\ \A i, j \in DOMAIN form : form[i].key = form[j].key => i = j
    /\ \A i \in DOMAIN form : LET f == form[i] IN
         /\ \A c \in f.condition : \E j \in 1..(i - 1) : form[j].key = c.key
         /\ f.showInRegistration \/ f.showInMandate
         /\ f.showInMandate => f.showInRegistration \/ f.editableInMandate
         /\ f.requiredInRegistration => f.showInRegistration
         /\ f.requiredInMandate \/ f.editableInMandate => f.showInMandate
         /\ f.type \in {"SELECT", "MULTISELECT"} => f.options # {}
         /\ 1 <= f.memberMinCount /\ f.memberMinCount <= f.memberMaxCount

-----------------------------------------------------------------------------
(* Conditions.                                                              *)

\* The new answers, and of the others those they do not replace.
Merged(new, others) ==
    [k \in DOMAIN new \cup DOMAIN others |-> IF k \in DOMAIN new THEN new[k] ELSE others[k]]
AnswerTo(answers, key) == IF key \in DOMAIN answers THEN answers[key] ELSE {}
TypeOf(form, key) == (CHOOSE f \in Fields(form) : f.key = key).type

\* A single answer is compared as a text, and a list as the empty one.
Text(answer) == IF answer = {} THEN "" ELSE CHOOSE x \in answer : TRUE
Comparable(form, answers, key) ==
    IF TypeOf(form, key) \in Lists THEN "" ELSE Text(AnswerTo(answers, key))

IsFormFieldVisible(form, f, answers) ==
    \A c \in f.condition :
        CASE c.operator = "CONTAINS" -> /\ TypeOf(form, c.key) = "MULTISELECT"
                                        /\ c.value \in AnswerTo(answers, c.key)
          [] c.operator = "EQUALS" -> Comparable(form, answers, c.key) = c.value
          [] c.operator = "NOT_EQUALS" -> Comparable(form, answers, c.key) # c.value

-----------------------------------------------------------------------------
(* Validation.                                                              *)

\* A checkbox is ticked or not; of what the others are given nothing is changed, but
\* only options can be chosen.
NormalizeAnswer(f, raw) ==
    IF f.type = "CHECKBOX" THEN (IF raw = {"true"} THEN raw ELSE {"false"}) ELSE raw
Choosable(f, raw) == f.type \in {"SELECT", "MULTISELECT"} => raw \subseteq f.options

\* A list of members has no more than its maximum, and where it is required no fewer
\* than its minimum; what is required is not empty, and ticked.
Acceptable(f, raw, phase) ==
    LET value == NormalizeAnswer(f, raw)
    IN  /\ Choosable(f, raw)
        /\ f.type = "MEMBER_LIST" => Cardinality(value) <= f.memberMaxCount
        /\ Required(f, phase) =>
             /\ value # {} /\ value # {"false"}
             /\ f.type = "MEMBER_LIST" => Cardinality(value) >= f.memberMinCount

\* What a condition looks at: the answers checked so far, and what was sent for the rest.
SoFar(answers, source) == Merged(answers, source)

\* A field that the phase shows and whose condition is met has its answer checked: the
\* answer is taken if it is acceptable, or there is an error.
Checked(form, source, phase, f, result) ==
    IF ~Shown(f, phase) \/ ~IsFormFieldVisible(form, f, SoFar(result.answers, source))
      THEN result
    ELSE IF Acceptable(f, AnswerTo(source, f.key), phase)
      THEN [answers |-> Merged([k \in {f.key} |-> NormalizeAnswer(f, AnswerTo(source, k))], result.answers),
            errors |-> result.errors]
    ELSE [answers |-> result.answers, errors |-> result.errors \cup {f.key}]

\* The fields one after the other, in the order of the form.
ValidateFormAnswers(form, source, phase) ==
    LET after[i \in 0..Len(form)] ==
            IF i = 0 THEN [answers |-> <<>>, errors |-> {}]
            ELSE Checked(form, source, phase, form[i], after[i - 1])
    IN  after[Len(form)]

-----------------------------------------------------------------------------
(* What is stored.  Each operation is given the form, the stored answers    *)
(* and what was sent; a refused one has errors and changes nothing.         *)

Outside(form, stored) == [k \in DOMAIN stored \ FormKeys(form) |-> stored[k]]
Refused(stored) == [ok |-> FALSE, stored |-> stored]
Saved(answers) == [ok |-> TRUE, stored |-> answers]

\* The registration and its edit replace the answers of the form by the checked ones.
Register(form, stored, raw) ==
    LET checked == ValidateFormAnswers(form, raw, "REGISTRATION")
    IN  IF checked.errors # {} THEN Refused(stored)
        ELSE Saved(Merged(checked.answers, Outside(form, stored)))

\* An organiser may correct what the registration shows, for a team what the mandate
\* shows as well, and must answer what the registration requires.
Offered(f, team) == f.showInRegistration \/ (team /\ f.showInMandate)
OrganizerFields(form, team) ==
    [i \in DOMAIN form |-> [form[i] EXCEPT !.showInRegistration = Offered(form[i], team)]]

\* Mutant: the answer to a hidden field stays.
KeptWhenHidden(stored, k) == AnswerTo(stored, k)

\* A save of his stores an empty answer for what is hidden.
Cleared(stored, k) == {}
OrganizerSave(form, stored, raw, team) ==
    LET checked == ValidateFormAnswers(OrganizerFields(form, team), raw, "REGISTRATION")
        values == [k \in {f.key : f \in {g \in Fields(form) : Offered(g, team)}} |->
                     IF k \in DOMAIN checked.answers THEN checked.answers[k] ELSE Cleared(stored, k)]
    IN  IF checked.errors # {} THEN Refused(stored) ELSE Saved(Merged(values, stored))

\* His edit of the members alone checks each list that was sent and is shown, with the
\* stored answers for its condition, and stores those lists.
UpdateMembers(form, stored, raw) ==
    LET sent == {f \in Fields(form) : /\ f.type = "MEMBER_LIST" /\ f.showInRegistration
                                      /\ f.key \in DOMAIN raw}
        merged == Merged([k \in {f.key : f \in sent} |-> raw[k]], stored)
        visible == {f \in sent : IsFormFieldVisible(form, f, merged)}
    IN  IF sent = {} \/ \E f \in visible : ~Acceptable(f, merged[f.key], "REGISTRATION")
          THEN Refused(stored)
        ELSE Saved(Merged([k \in {f.key : f \in visible} |-> merged[k]], stored))

\* Mutant: what was sent counts for every field.
NothingLocked(form, stored) == <<>>

\* Mutant: every stored answer counts instead of what was sent.
EverythingLocked(form, stored) == [k \in FormKeys(form) \cap DOMAIN stored |-> stored[k]]

\* In a mandate the stored answers of the fields that cannot be edited there count
\* instead of what was sent; a save keeps what it has checked, and deletes the answers
\* of every other field of the form.
LockedAnswers(form, stored) ==
    [k \in {f.key : f \in {g \in Fields(form) : ~g.editableInMandate}} \cap DOMAIN stored |-> stored[k]]
SaveMandate(form, stored, raw) ==
    LET checked == ValidateFormAnswers(form, Merged(LockedAnswers(form, stored), raw), "MANDATE")
    IN  IF checked.errors # {} THEN Refused(stored)
        ELSE Saved(Merged(checked.answers, Outside(form, stored)))

\* Submitting the mandate checks what is stored.
CanSubmitMandate(form, stored) == ValidateFormAnswers(form, stored, "MANDATE").errors = {}
=============================================================================
