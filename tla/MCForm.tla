------------------------------- MODULE MCForm -------------------------------
(***************************************************************************)
(* What is tried in the arena of the form: forms, three of which replace   *)
(* each other, and what can be sent for their fields.                      *)
(***************************************************************************)
EXTENDS MCArenas, Answers

Everywhere == "both"
OnlyIn(phase, place) == place \in {phase, Everywhere}

\* A field that is required in the phases `required', and locked in the mandate or not.
Field(key, type, place, required, editable, condition) ==
    [key |-> key, type |-> type, options |-> {x, y}, memberMinCount |-> 1, memberMaxCount |-> 2,
     showInRegistration |-> OnlyIn("REGISTRATION", place),
     requiredInRegistration |-> "REGISTRATION" \in required,
     showInMandate |-> OnlyIn("MANDATE", place),
     requiredInMandate |-> "MANDATE" \in required,
     editableInMandate |-> editable, condition |-> condition]

When(key, operator, value) == {[key |-> key, operator |-> operator, value |-> value]}

\* Three variants of a form with a choice, a text and the members, and one with several
\* choices, a checkbox and the members.
WithLockedKind == <<
    Field("kind", "SELECT", Everywhere, Phases, FALSE, {}),
    Field("note", "TEXT", Everywhere, Phases, FALSE, When("kind", "EQUALS", x)),
    Field("crew", "MEMBER_LIST", Everywhere, {"MANDATE"}, TRUE, When("kind", "NOT_EQUALS", y))>>
WithFreeKind == <<
    Field("kind", "SELECT", Everywhere, {"REGISTRATION"}, TRUE, {}),
    Field("crew", "MEMBER_LIST", Everywhere, Phases, FALSE, {}),
    Field("note", "TEXT", "REGISTRATION", {}, FALSE, When("kind", "EQUALS", y))>>
WithoutNote == <<
    Field("kind", "SELECT", Everywhere, {}, FALSE, {}),
    Field("crew", "MEMBER_LIST", Everywhere, {"MANDATE"}, TRUE, When("kind", "EQUALS", x))>>
WithExtras == <<
    Field("extras", "MULTISELECT", Everywhere, {}, TRUE, {}),
    Field("agree", "CHECKBOX", Everywhere, {"REGISTRATION"}, FALSE, {}),
    Field("note", "TEXT", "MANDATE", {"MANDATE"}, TRUE, When("extras", "CONTAINS", x)),
    Field("crew", "MEMBER_LIST", Everywhere, {"MANDATE"}, TRUE, When("agree", "EQUALS", "true"))>>
MCVariants == {WithLockedKind, WithFreeKind, WithoutNote}
MCForms == MCVariants \cup {WithExtras}

\* What can be sent for a field.
MCInputs(f) ==
    CASE f.type = "SELECT" -> {{}, {x}, {y}}
      [] f.type = "MULTISELECT" -> {{}, {x}, {x, y}}
      [] f.type = "CHECKBOX" -> {{}, {"false"}, {"true"}}
      [] f.type = "TEXT" -> {{}, {x}}
      [] f.type = "MEMBER_LIST" -> {{}, {a}, {b, c}, {a, b, c}}

-----------------------------------------------------------------------------
(* Why some forms are not sound.                                            *)

\* A condition on a field with a condition: the save looks at the answer that was sent
\* for the hidden field, and the submission finds it deleted.
ASSUME ConditionOnHidden ==
    LET form == <<Field("kind", "SELECT", Everywhere, {}, TRUE, {}),
                  Field("extras", "MULTISELECT", Everywhere, {}, TRUE, When("kind", "EQUALS", x)),
                  Field("note", "TEXT", Everywhere, {}, TRUE, When("extras", "CONTAINS", x))>>
        saved == SaveMandate(form, <<>>, "kind" :> {y} @@ "extras" :> {x} @@ "note" :> {x})
    IN  /\ saved.ok /\ "note" \in DOMAIN saved.stored
        /\ ~IsFormFieldVisible(form, form[3], saved.stored)

\* A condition on what only the mandate requires: the organiser stores an empty answer
\* for the locked note that is hidden, the mandate asks for the checkbox and then for the
\* note, which it does not let anybody answer.
ASSUME LockedBehindRequired ==
    LET form == <<Field("agree", "CHECKBOX", Everywhere, {"MANDATE"}, TRUE, {}),
                  Field("note", "TEXT", Everywhere, Phases, FALSE, When("agree", "EQUALS", "true"))>>
        stored == OrganizerSave(form, <<>>, "agree" :> {} @@ "note" :> {}, FALSE).stored
    IN  /\ AcceptedForm(form)
        /\ \A agreed \in MCInputs(form[1]) :
             ~CanSubmitMandate(form, "agree" :> agreed @@ "note" :> stored["note"])
=============================================================================
