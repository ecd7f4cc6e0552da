---------------------------- MODULE TeamWorkflow ----------------------------
(***************************************************************************)
(* The two phases of one team, its registration and its mandate (the list  *)
(* of members that takes part): drafted and submitted by the               *)
(* representative or an organiser, approved or sent back by an organiser.  *)
(*                                                                         *)
(* Every handler reads the team, checks, and then writes in a transaction  *)
(* of its own.  Saving and submitting claim the team: they fail if its     *)
(* workflowUpdatedAt or its representative is not what they read.          *)
(* Reviewing does not claim it, so a review may be overtaken.              *)
(* workflowUpdatedAt is @updatedAt, so every write of the team's row       *)
(* changes it; a request knows whether that has happened since it read the *)
(* row (two writes in one millisecond are not modelled).  A call that      *)
(* saves the members alone writes other rows only: Prisma leaves           *)
(* @updatedAt as it is when nothing else is to be updated.                 *)
(* The team page always sends the name as well, so such calls are made     *)
(* only where MembersAlone says so.                                        *)
(*                                                                         *)
(* Organisers change the approval mode of a phase and open and close the   *)
(* mandate at any time: a request reads whichever value holds, so both are *)
(* inputs of the step that reads them.                                     *)
(***************************************************************************)
EXTENDS Naturals, FiniteSets

CONSTANTS
    Representatives,            \* the accounts that can represent the team
    Names, Rosters,             \* what the registration and the mandate hold
    Clients,                    \* bound: requests under way at once
    RepresentativeRequired,     \* the competition asks for a representative
    MembersAlone,               \* TRUE: organisers save members without the team
    Organizer, Nobody, NoCompetitor, None

ASSUME SentinelsAssumption ==
    /\ Organizer \notin Representatives /\ Nobody \notin Representatives
    /\ Organizer # Nobody
    /\ NoCompetitor \in Rosters /\ Names # {}
ASSUME SwitchesAssumption ==
    RepresentativeRequired \in BOOLEAN /\ MembersAlone \in BOOLEAN

VARIABLES
    status,             \* of each phase
    content,            \* of each phase: the name, the members
    representative,     \* TeamRepresentative, if any
    applied,            \* the team comes from a registration application
    competition,        \* Competition.status
    request             \* handlers between their reads and their transaction
teamVars == <<status, content, representative>>
vars == <<teamVars, applied, competition, request>>

-----------------------------------------------------------------------------
(* Types.                                                                   *)

Phases == {"REGISTRATION", "MANDATE"}
Statuses == {"DRAFT", "SUBMITTED", "APPROVED", "CHANGES_REQUESTED"}
Decisions == {"APPROVE", "REQUEST_CHANGES"}
Contents(phase) == IF phase = "REGISTRATION" THEN Names ELSE Rosters

\* value: the content that is saved or the status that is set.
Requests ==
    [kind : {"EDIT", "SUBMIT", "REVIEW"}, phase : Phases, by : Representatives \cup {Organizer},
     value : Names \cup Rosters \cup Statuses, seen : Representatives \cup {Nobody},
     current : BOOLEAN, cascades : BOOLEAN]

ASSUME NoneAssumption == None \notin Requests

TypeOK ==
    /\ status \in [Phases -> Statuses]
    /\ content \in [Phases -> Names \cup Rosters]
    /\ \A phase \in Phases : content[phase] \in Contents(phase)
    /\ representative \in Representatives \cup {Nobody}
    /\ applied \in BOOLEAN
    /\ competition \in {"SETUP", "ACTIVE"}
    /\ request \in [Clients -> Requests \cup {None}]
    /\ \A c \in Clients : request[c] # None =>
          IF request[c].kind = "EDIT" THEN request[c].value \in Contents(request[c].phase)
          ELSE request[c].value \in Statuses

-----------------------------------------------------------------------------
(* teamWorkflow.ts                                                          *)

CanEditWorkflow(s) == s \in {"DRAFT", "CHANGES_REQUESTED"}

\* canSubmitRegistration is canEditWorkflow; canEditMandate.
CanEdit(phase) ==
    /\ CanEditWorkflow(status[phase])
    /\ phase = "MANDATE" => status["REGISTRATION"] = "APPROVED"

CanReview(s, decision) ==
    s = "SUBMITTED" \/ (decision = "REQUEST_CHANGES" /\ s = "APPROVED")

EditableInPhase(open) == open \/ status["MANDATE"] = "CHANGES_REQUESTED"

AfterSubmission(mode) == IF mode = "AUTOMATIC" THEN "APPROVED" ELSE "SUBMITTED"

\* At least one competitor, and a representative where one is required.
Complete ==
    /\ content["MANDATE"] # NoCompetitor
    /\ RepresentativeRequired => representative # Nobody

-----------------------------------------------------------------------------
(* Requests.                                                                *)

Opens(c, kind, phase, by, value, cascades) ==
    /\ request[c] = None
    /\ competition = "SETUP"
    /\ by \in {Organizer, representative} \ {Nobody}
    /\ request' = [request EXCEPT ![c] =
          [kind |-> kind, phase |-> phase, by |-> by, value |-> value,
           seen |-> representative, current |-> TRUE, cascades |-> cascades]]
    /\ UNCHANGED <<teamVars, applied, competition>>

\* The team's row has been written: what other requests have read is outdated.
Outdated(requests) ==
    [c \in Clients |-> IF requests[c] = None THEN None
                       ELSE [requests[c] EXCEPT !.current = FALSE]]

Closes(c) == request' = Outdated([request EXCEPT ![c] = None])

EditBegin(c, by, phase, value, open) ==
    /\ CanEdit(phase)
    /\ phase = "MANDATE" /\ applied => EditableInPhase(open)
    /\ value \in Contents(phase) \ {content[phase]}
    /\ Opens(c, "EDIT", phase, by, value, FALSE)

SubmitBegin(c, by, phase, mode, open) ==
    /\ CanEdit(phase)
    /\ phase = "MANDATE" =>
          /\ Complete
          /\ by # Organizer /\ applied => EditableInPhase(open)
    /\ Opens(c, "SUBMIT", phase, by, AfterSubmission(mode), FALSE)

\* Mutants: the claim looks at the representative only; at nothing.
ClaimedOfRepresentative(c) == representative = request[c].seen
ClaimedAlways(c) == TRUE

\* claimTeamWorkflow: the row and its representative are those that were read.
Claimed(c) == request[c].current /\ representative = request[c].seen

EditCommit(c) ==
    /\ request[c] # None /\ request[c].kind = "EDIT" /\ Claimed(c)
    /\ content' = [content EXCEPT ![request[c].phase] = request[c].value]
    /\ Closes(c)
    /\ UNCHANGED <<status, representative, applied, competition>>

SubmitCommit(c) ==
    /\ request[c] # None /\ request[c].kind = "SUBMIT" /\ Claimed(c)
    /\ status' = [status EXCEPT ![request[c].phase] = request[c].value]
    /\ Closes(c)
    /\ UNCHANGED <<content, representative, applied, competition>>

\* TeamRepresentativeChangedError: the request changes nothing.
Refused(c) ==
    /\ request[c] # None /\ request[c].kind \in {"EDIT", "SUBMIT"} /\ ~Claimed(c)
    /\ request' = [request EXCEPT ![c] = None]
    /\ UNCHANGED <<teamVars, applied, competition>>

ReviewBegin(c, phase, decision) ==
    /\ CanReview(status[phase], decision)
    /\ phase = "MANDATE" /\ decision = "APPROVE" => Complete
    /\ Opens(c, "REVIEW", phase, Organizer,
             IF decision = "APPROVE" THEN "APPROVED" ELSE "CHANGES_REQUESTED",
             /\ phase = "REGISTRATION" /\ decision = "REQUEST_CHANGES"
             /\ status["MANDATE"] # "DRAFT")

\* Mutant: the mandate stays as it was.
ReviewWithoutCascade(c) ==
    /\ request[c] # None /\ request[c].kind = "REVIEW"
    /\ status' = [status EXCEPT ![request[c].phase] = request[c].value]
    /\ Closes(c)
    /\ UNCHANGED <<content, representative, applied, competition>>

\* Sending the registration back sends the mandate back, unless it was a draft.
\* Nothing is read again: the row may have been written in between.
ReviewCommit(c) ==
    /\ request[c] # None /\ request[c].kind = "REVIEW"
    /\ status' = [phase \in Phases |->
          IF phase = request[c].phase THEN request[c].value
          ELSE IF request[c].cascades THEN "CHANGES_REQUESTED"
          ELSE status[phase]]
    /\ Closes(c)
    /\ UNCHANGED <<content, representative, applied, competition>>

-----------------------------------------------------------------------------
(* The organiser's other operations, each in one transaction.               *)

\* The organiser saves the team: its columns (named), its members, or both.
OrganizerSave(name, roster, named) ==
    /\ named \/ (MembersAlone /\ name = content["REGISTRATION"])
    /\ content' = [content EXCEPT !["REGISTRATION"] = name, !["MANDATE"] = roster]
    /\ request' = IF named THEN Outdated(request) ELSE request
    /\ UNCHANGED <<status, representative, applied, competition>>

SetTeamRepresentative(r) ==
    /\ representative' = r
    /\ request' = Outdated(request)
    /\ UNCHANGED <<status, content, applied, competition>>

ChangeCompetitionStatus ==
    /\ competition' = IF competition = "SETUP" THEN "ACTIVE" ELSE "SETUP"
    /\ UNCHANGED <<teamVars, applied, request>>

-----------------------------------------------------------------------------
\* A team is imported or added as a draft, made by the finalisation out of an
\* application, or added by an organiser after it.
Init ==
    /\ status \in {[phase \in Phases |-> "DRAFT"],
                   [phase \in Phases |-> IF phase = "REGISTRATION" THEN "APPROVED" ELSE "DRAFT"]}
    /\ applied \in (IF status["REGISTRATION"] = "APPROVED" THEN BOOLEAN ELSE {FALSE})
    /\ content \in [Phases -> Names \cup Rosters]
    /\ \A phase \in Phases : content[phase] \in Contents(phase)
    /\ representative \in Representatives \cup {Nobody}
    /\ competition = "SETUP"
    /\ request = [c \in Clients |-> None]

Next ==
    \/ \E c \in Clients, phase \in Phases, by \in Representatives \cup {Organizer} :
          \/ \E value \in Contents(phase), open \in BOOLEAN : EditBegin(c, by, phase, value, open)
          \/ \E mode \in {"AUTOMATIC", "MANUAL"}, open \in BOOLEAN :
                SubmitBegin(c, by, phase, mode, open)
    \/ \E c \in Clients, phase \in Phases, decision \in Decisions : ReviewBegin(c, phase, decision)
    \/ \E c \in Clients : EditCommit(c) \/ SubmitCommit(c) \/ Refused(c) \/ ReviewCommit(c)
    \/ \E name \in Names, roster \in Rosters, named \in BOOLEAN : OrganizerSave(name, roster, named)
    \/ \E r \in Representatives \cup {Nobody} : SetTeamRepresentative(r)
    \/ ChangeCompetitionStatus

Spec == Init /\ [][Next]_vars

-----------------------------------------------------------------------------
(* Properties.                                                              *)

\* The request of c ends in this step and changes the team.
TakesEffect(c) == /\ request[c] # None /\ request'[c] = None
                  /\ status' # status \/ content' # content

\* The review of c ends in this step, and the team's row has been written since
\* it read it.
Belated(c) == /\ request[c] # None /\ request'[c] = None
              /\ request[c].kind = "REVIEW" /\ ~request[c].current

\* What the review of c decides is no longer what it would: the phase cannot be
\* given that decision, or the mandate is no longer as it saw it.
Misled(c) ==
    LET review == request[c]
        decision == IF review.value = "APPROVED" THEN "APPROVE" ELSE "REQUEST_CHANGES"
    IN  \/ ~CanReview(status[review.phase], decision)
        \/ /\ review.phase = "REGISTRATION" /\ decision = "REQUEST_CHANGES"
           /\ ~(review.cascades <=> status["MANDATE"] # "DRAFT")

\* A mandate is submitted or approved under an approved registration only.
Follows == status["MANDATE"] \in {"SUBMITTED", "APPROVED"} => status["REGISTRATION"] = "APPROVED"

\* The mandate is submitted or approved only while the registration is approved,
\* also if the registration is sent back while a submission, a save or another
\* review is under way.  The one thing that breaks it is a review that was
\* overtaken: it approves a mandate that has been sent back, or sends back a
\* registration whose mandate has been submitted since it saw a draft
\* (docs/registration-and-mandate.md line 20; canEditMandate and the cascade of
\* the review, lines 155-164; the review reads the team at line 72, before its
\* transaction, and claims nothing).
MandateFollowsRegistration ==
    [][ Follows => Follows' \/ \E c \in Clients : Belated(c) /\ Misled(c) ]_vars

\* What has been submitted is locked: a save that was checked while the phase was
\* editable does not change it after somebody has submitted it, nor what a
\* reviewer has approved meanwhile, nor a mandate whose registration has been sent
\* back (docs/registration-and-mandate.md lines 14-20; claimTeamWorkflow).
SubmittedIsLocked ==
    [][ \A c \in Clients :
          TakesEffect(c) /\ request[c].kind \in {"EDIT", "SUBMIT"} => CanEdit(request[c].phase) ]_vars

\* A request that a former representative began changes nothing after the
\* transfer, nor does one that an organiser began for the old representative
\* (claimTeamWorkflow and the comment above it).
FormerRepresentativeIsRefused ==
    [][ \A c \in Clients :
          TakesEffect(c) /\ request[c].kind \in {"EDIT", "SUBMIT"} =>
              representative = request[c].seen /\ request[c].by \in {Organizer, representative} ]_vars

\* When a mandate is submitted or approved, it has a competitor and the
\* representative that the competition asks for, whatever an organiser saved
\* between the check and the write (submit route lines 203-235 check what was
\* read before the transaction).  A review that was overtaken may approve a
\* mandate that is no longer complete.
SubmittedIsComplete ==
    [][ status'["MANDATE"] # status["MANDATE"] /\ status'["MANDATE"] \in {"SUBMITTED", "APPROVED"}
          => Complete \/ \E c \in Clients : Belated(c) /\ request[c].phase = "MANDATE" ]_vars
=============================================================================
