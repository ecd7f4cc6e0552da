------------------------------ MODULE Answers ------------------------------
(***************************************************************************)
(* The arena of the form: the answers of one registration on their way     *)
(* from the application to the team's mandate, and a form that may be      *)
(* changed on the way.  `input' is the form, the last operation and        *)
(* whether all answers were given under the form as it is (`fresh');       *)
(* `outcome' the answers stored for the application, then for the team.    *)
(***************************************************************************)
EXTENDS Arenas, RegistrationForm

CONSTANTS Forms,        \* the forms that are tried
          Variants,     \* those of them that replace each other
          Inputs(_)     \* what can be sent for a field

FormAttributes ==
    {"key", "type", "options", "memberMinCount", "memberMaxCount", "showInRegistration",
     "requiredInRegistration", "showInMandate", "requiredInMandate", "editableInMandate",
     "condition"}
ASSUME FormsAssumption ==
    \A form \in Forms :
        /\ form \in Seq(Fields(form)) /\ AcceptedForm(form)
        /\ \A f \in Fields(form) : /\ DOMAIN f = FormAttributes
                                    /\ f.memberMinCount \in Nat /\ f.memberMaxCount \in Nat

\* An answer can be left out, what is stored can be sent again, and there is an answer
\* with which the mandate is content: enough members, and an option.
ASSUME InputsAssumption ==
    \A form \in Forms : \A f \in Fields(form) :
        /\ {} \in Inputs(f)
        /\ \A v \in Inputs(f) : NormalizeAnswer(f, v) \in Inputs(f)
        /\ \E v \in Inputs(f) : Acceptable(f, v, "MANDATE")

Sent(form) ==
    LET of(key) == Inputs(CHOOSE f \in Fields(form) : f.key = key)
    IN  {raw \in [FormKeys(form) -> UNION {Inputs(f) : f \in Fields(form)}] :
            \A key \in FormKeys(form) : raw[key] \in of(key)}

-----------------------------------------------------------------------------
FormInit ==
    /\ arena = "form"
    /\ \E form \in Forms :
         /\ input = [form |-> form, last |-> "none", fresh |-> TRUE]
         /\ \E raw \in Sent(form) :
              /\ Register(form, <<>>, raw).ok
              /\ outcome = [team |-> FALSE, answers |-> Register(form, <<>>, raw).stored]

\* An operation that is carried out: the answers it stores, and those it leaves.
Saves(operation, result, all) ==
    /\ result.ok
    /\ input' = [input EXCEPT !.last = operation, !.fresh = @ \/ all]
    /\ outcome' = [outcome EXCEPT !.answers = result.stored]
    /\ UNCHANGED arena

Fill(raw) ==
    /\ arena = "form" /\ ~outcome.team
    /\ Saves("register", Register(input.form, outcome.answers, raw), TRUE)

\* Everything is answered anew unless an answer to what only the mandate asks for is left.
Correct(raw) ==
    /\ arena = "form"
    /\ LET left == {f \in Fields(input.form) : ~Offered(f, outcome.team) /\ AnswerTo(outcome.answers, f.key) # {}}
       IN  Saves("correct", OrganizerSave(input.form, outcome.answers, raw, outcome.team), left = {})

EditMembers(raw) ==
    /\ arena = "form" /\ ~outcome.team
    /\ Saves("members", UpdateMembers(input.form, outcome.answers, raw), FALSE)

FillMandate(raw) ==
    /\ arena = "form" /\ outcome.team
    /\ Saves("mandate", SaveMandate(input.form, outcome.answers, raw), FALSE)

\* Finalisation copies the application's answers to its team.
Finalise ==
    /\ arena = "form" /\ ~outcome.team
    /\ input' = [input EXCEPT !.last = "none"]
    /\ outcome' = [outcome EXCEPT !.team = TRUE]
    /\ UNCHANGED arena

Reconfigure(form) ==
    /\ arena = "form" /\ form # input.form /\ {form, input.form} \subseteq Variants
    /\ input' = [form |-> form, last |-> "none", fresh |-> FALSE]
    /\ UNCHANGED <<arena, outcome>>

FormNext ==
    \/ Finalise
    \/ arena = "form" /\ \E raw \in Sent(input.form) :
         Fill(raw) \/ Correct(raw) \/ EditMembers(raw) \/ FillMandate(raw)
    \/ \E form \in Forms : Reconfigure(form)

FormSpec == FormInit /\ [][FormNext]_arenaVars

-----------------------------------------------------------------------------
\* The forms of which the code's promises hold.  A condition refers to a field without
\* one that is shown wherever the conditional one is (see ConditionOnHidden).  What the
\* mandate requires and locks is required by the registration, for an answer left empty
\* there cannot be given any more; nor can the mandate require what it depends on, or it
\* would show what was hidden (see LockedBehindRequired).
Sound(form) ==
    \A f \in Fields(form) :
        /\ \A k \in f.condition : \E g \in Fields(form) :
             /\ g.key = k.key /\ g.condition = {}
             /\ \A phase \in Phases : Shown(f, phase) => Shown(g, phase)
        /\ f.requiredInMandate /\ ~f.editableInMandate =>
             \A g \in Fields(form) :
                g = f \/ (g.requiredInMandate /\ \E k \in f.condition : k.key = g.key)
                  => g.requiredInRegistration

AsIntended == arena = "form" /\ input.fresh /\ Sound(input.form)

\* No answer is kept for a field that its condition hides, whoever has given the last one,
\* so that none can affect the allocation or exports (lib/organizerRegistration.server.ts:86,
\* and the deletions of the registration's and the mandate's handlers).
HiddenAnswersGone ==
    AsIntended => \A f \in Fields(input.form) :
        AnswerTo(outcome.answers, f.key) # {} => IsFormFieldVisible(input.form, f, outcome.answers)

\* Whatever was answered before, a representative finds answers with which the mandate can
\* be saved, and one that was saved can be submitted (representative/teams/[teamId]/route.ts:270-300
\* locks answers, submit/route.ts:180-200 checks the stored ones alone).
MandateCanBeCompleted ==
    (AsIntended /\ outcome.team) =>
        /\ \E raw \in Sent(input.form) :
             LET saved == SaveMandate(input.form, outcome.answers, raw)
             IN  saved.ok /\ CanSubmitMandate(input.form, saved.stored)
        /\ input.last = "mandate" => CanSubmitMandate(input.form, outcome.answers)

\* The fields whose answers the mandate must not change: locked, and shown under a
\* condition, if any, on a locked field.
Locked(form) ==
    LET locked == {f \in Fields(form) : f.showInMandate /\ ~f.editableInMandate}
    IN  {f \in locked : \A k \in f.condition : \E g \in locked : g.key = k.key}

\* A mandate leaves as they are the answers that the form locks, also those under a
\* condition (representative/teams/[teamId]/route.ts:281-292).
LockedAnswersStay ==
    [][(AsIntended /\ input'.last = "mandate" /\ outcome'.answers # outcome.answers)
        => \A f \in Locked(input.form) : f.key \in DOMAIN outcome.answers =>
             AnswerTo(outcome'.answers, f.key) = AnswerTo(outcome.answers, f.key)]_arenaVars
=============================================================================
