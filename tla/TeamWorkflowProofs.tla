------------------------- MODULE TeamWorkflowProofs -------------------------
(***************************************************************************)
(* Theorems about TeamWorkflow, for any accounts, contents and number of   *)
(* concurrent requests.                                                    *)
(*                                                                         *)
(* What a read is worth is one invariant: a request whose row has not been *)
(* written since it was read still sees the truth (SeesTheTruth), whether  *)
(* it claims the row or is a review.  Every write of the row outdates all  *)
(* requests, so the invariant is inductive by itself, however requests     *)
(* overlap.  Saves and submissions are claimed, so they take effect only   *)
(* on the truth; a review takes effect on it or is belated.                *)
(***************************************************************************)
EXTENDS TeamWorkflow, TLAPS

Claims(c) == request[c] # None /\ request[c].kind \in {"EDIT", "SUBMIT"}

SeesTheTruth ==
    \A c \in Clients : Claims(c) /\ request[c].current =>
        /\ CanEdit(request[c].phase)
        /\ representative = request[c].seen
        /\ request[c].by \in {Organizer, representative}
        /\ request[c].kind = "SUBMIT" /\ request[c].phase = "MANDATE" /\ ~MembersAlone => Complete

Reviews(c) == request[c] # None /\ request[c].kind = "REVIEW"

\* What a review decides and what its cascade is for.
WellDecided(c) ==
    /\ request[c].value \in {"APPROVED", "CHANGES_REQUESTED"}
    /\ request[c].cascades => request[c].phase = "REGISTRATION" /\ request[c].value = "CHANGES_REQUESTED"

\* A review that nothing overtook is not misled.
ReviewsTheTruth(c) ==
    /\ WellDecided(c)
    /\ request[c].current =>
          /\ request[c].value = "APPROVED" =>
                /\ status[request[c].phase] = "SUBMITTED"
                /\ request[c].phase = "MANDATE" /\ ~MembersAlone => Complete
          /\ ~Misled(c)

ReviewsSeeTheTruth == \A c \in Clients : Reviews(c) => ReviewsTheTruth(c)

-----------------------------------------------------------------------------
(* What steps do to the requests.                                           *)

\* An outdated request is the request it was, but not current.
LEMMA OutdatedRequest ==
    ASSUME NEW r \in Requests
    PROVE  LET o == [r EXCEPT !.current = FALSE]
           IN  /\ o \in Requests /\ o # None /\ ~o.current
               /\ o.kind = r.kind /\ o.phase = r.phase /\ o.value = r.value
               /\ o.by = r.by /\ o.cascades = r.cascades
BY NoneAssumption DEF Requests

\* Outdating all requests closes none, and leaves none current.
LEMMA OutdatedType ==
    ASSUME NEW rs, rs \in [Clients -> Requests \cup {None}]
    PROVE  /\ Outdated(rs) \in [Clients -> Requests \cup {None}]
           /\ \A c \in Clients : rs[c] = None => Outdated(rs)[c] = None
           /\ \A c \in Clients : rs[c] # None =>
                 /\ Outdated(rs)[c] \in Requests /\ Outdated(rs)[c] # None
                 /\ ~Outdated(rs)[c].current
                 /\ Outdated(rs)[c].kind = rs[c].kind
                 /\ Outdated(rs)[c].phase = rs[c].phase
                 /\ Outdated(rs)[c].value = rs[c].value
                 /\ Outdated(rs)[c].cascades = rs[c].cascades
<1>1. \A c \in Clients : /\ rs[c] = None => Outdated(rs)[c] = None
                         /\ rs[c] # None => Outdated(rs)[c] = [rs[c] EXCEPT !.current = FALSE]
    BY DEF Outdated
<1>2. \A c \in Clients : rs[c] # None =>
         /\ Outdated(rs)[c] \in Requests /\ Outdated(rs)[c] # None
         /\ ~Outdated(rs)[c].current
         /\ Outdated(rs)[c].kind = rs[c].kind
         /\ Outdated(rs)[c].phase = rs[c].phase
         /\ Outdated(rs)[c].value = rs[c].value
         /\ Outdated(rs)[c].cascades = rs[c].cascades
    <2>1. TAKE c \in Clients
    <2>2. HAVE rs[c] # None
    <2>3. rs[c] \in Requests
        BY <2>2
    <2>4. Outdated(rs)[c] = [rs[c] EXCEPT !.current = FALSE]
        BY <1>1, <2>2
    <2> QED BY <2>3, <2>4, OutdatedRequest
<1>3. Outdated(rs) \in [Clients -> Requests \cup {None}]
    BY <1>1, <1>2 DEF Outdated
<1> QED BY <1>1, <1>2, <1>3

\* What a step does to the requests, in four cases.
Opened(c) ==
    /\ request[c] = None /\ request'[c] # None
    /\ \A d \in Clients \ {c} : request'[d] = request[d]
    /\ UNCHANGED teamVars

Dropped ==
    /\ \A c \in Clients : request'[c] = None \/ request'[c] = request[c]
    /\ UNCHANGED teamVars

Written(ended) ==
    /\ \A c \in ended : request'[c] = None
    /\ \A c \in Clients \ ended : request[c] = None <=> request'[c] = None
    /\ \A c \in Clients : request'[c] # None =>
          /\ request[c] # None
          /\ ~request'[c].current
          /\ request'[c].kind = request[c].kind
          /\ request'[c].phase = request[c].phase
          /\ request'[c].value = request[c].value
          /\ request'[c].cascades = request[c].cascades

MembersSaved == MembersAlone /\ UNCHANGED <<status, representative, request>>

Ends(ended) ==
    request' = Outdated([c \in Clients |-> IF c \in ended THEN None ELSE request[c]])

\* A step that writes the row and ends at most the request of c: every other
\* request is outdated.  A step that writes it on its own account closes none.
LEMMA WriteType ==
    ASSUME TypeOK, NEW ended \in SUBSET Clients, Ends(ended)
    PROVE  Written(ended) /\ request' \in [Clients -> Requests \cup {None}]
<1> DEFINE rs == [c \in Clients |-> IF c \in ended THEN None ELSE request[c]]
<1>1. rs \in [Clients -> Requests \cup {None}]
    BY DEF TypeOK
<1>2. \A c \in Clients : rs[c] = IF c \in ended THEN None ELSE request[c]
    OBVIOUS
<1>3. request' = Outdated(rs)
    BY DEF Ends
<1> HIDE DEF rs
<1>4. /\ Outdated(rs) \in [Clients -> Requests \cup {None}]
      /\ \A c \in Clients : rs[c] = None => Outdated(rs)[c] = None
      /\ \A c \in Clients : rs[c] # None =>
            /\ Outdated(rs)[c] \in Requests /\ Outdated(rs)[c] # None
            /\ ~Outdated(rs)[c].current
            /\ Outdated(rs)[c].kind = rs[c].kind
            /\ Outdated(rs)[c].phase = rs[c].phase
            /\ Outdated(rs)[c].value = rs[c].value
            /\ Outdated(rs)[c].cascades = rs[c].cascades
    BY <1>1, OutdatedType
<1> QED BY <1>2, <1>3, <1>4 DEF Written

LEMMA CloseWrites ==
    ASSUME TypeOK, NEW c \in Clients, Closes(c)
    PROVE  Written({c}) /\ request' \in [Clients -> Requests \cup {None}]
<1>1. [request EXCEPT ![c] = None] = [d \in Clients |-> IF d \in {c} THEN None ELSE request[d]]
    BY DEF TypeOK
<1>2. Ends({c})
    BY <1>1 DEF Closes, Ends
<1> QED BY <1>2, WriteType

LEMMA OutdateWrites ==
    ASSUME TypeOK, request' = Outdated(request)
    PROVE  Written({}) /\ request' \in [Clients -> Requests \cup {None}]
<1>1. request = [d \in Clients |-> IF d \in {} THEN None ELSE request[d]]
    BY DEF TypeOK
<1>2. Ends({})
    BY <1>1 DEF Ends
<1> QED BY <1>2, WriteType

LEMMA OpenType ==
    ASSUME TypeOK, NEW c \in Clients, NEW kind \in {"EDIT", "SUBMIT", "REVIEW"},
           NEW phase \in Phases, NEW by, NEW value, NEW cascades \in BOOLEAN,
           IF kind = "EDIT" THEN value \in Contents(phase) ELSE value \in Statuses,
           Opens(c, kind, phase, by, value, cascades)
    PROVE  /\ TypeOK' /\ Opened(c)
           /\ request'[c].kind = kind /\ request'[c].phase = phase
           /\ request'[c].by = by /\ request'[c].value = value
           /\ request'[c].seen = representative
           /\ request'[c].cascades <=> cascades
<1> DEFINE r == [kind |-> kind, phase |-> phase, by |-> by, value |-> value,
                 seen |-> representative, current |-> TRUE, cascades |-> cascades]
<1>1. value \in Names \cup Rosters \cup Statuses
    BY DEF Contents
<1>2. by \in Representatives \cup {Organizer}
    BY DEF Opens, TypeOK
<1>3. r \in Requests
    BY <1>1, <1>2 DEF Requests, TypeOK
<1>4. request' = [request EXCEPT ![c] = r]
    BY DEF Opens
<1>5. r # None
    BY <1>3, NoneAssumption
<1>6. /\ r.kind = kind /\ r.phase = phase /\ r.value = value
      /\ r.by = by /\ r.seen = representative /\ r.cascades = cascades
    OBVIOUS
<1> HIDE DEF r
<1>7. request' \in [Clients -> Requests \cup {None}] /\ request'[c] = r
    BY <1>3, <1>4 DEF TypeOK
<1>8. \A d \in Clients \ {c} : request'[d] = request[d]
    BY <1>4 DEF TypeOK
<1>9. request[c] = None /\ UNCHANGED <<teamVars, applied, competition>>
    BY DEF Opens
<1>10. \A d \in Clients : request'[d] # None =>
          IF request'[d].kind = "EDIT" THEN request'[d].value \in Contents(request'[d].phase)
          ELSE request'[d].value \in Statuses
    BY <1>6, <1>7, <1>8 DEF TypeOK
<1>11. TypeOK'
    BY <1>7, <1>9, <1>10 DEF TypeOK, teamVars
<1> QED BY <1>5, <1>6, <1>7, <1>8, <1>9, <1>11 DEF Opened

-----------------------------------------------------------------------------
(* Type correctness, one lemma per kind of step.                            *)

RowType ==
    /\ status \in [Phases -> Statuses]
    /\ content \in [Phases -> Names \cup Rosters]
    /\ \A phase \in Phases : content[phase] \in Contents(phase)
    /\ representative \in Representatives \cup {Nobody}

\* Typing after a write: the row is typed and what requests carry has not changed.
LEMMA WrittenType ==
    ASSUME TypeOK, NEW ended \in SUBSET Clients, Written(ended), RowType',
           request' \in [Clients -> Requests \cup {None}],
           UNCHANGED <<applied, competition>>
    PROVE  TypeOK'
<1>1. \A c \in Clients : request'[c] # None =>
         IF request'[c].kind = "EDIT" THEN request'[c].value \in Contents(request'[c].phase)
         ELSE request'[c].value \in Statuses
    BY DEF TypeOK, Written
<1> QED BY <1>1 DEF TypeOK, RowType

LEMMA OpeningTypes ==
    ASSUME TypeOK, NEW c \in Clients, NEW phase \in Phases
    PROVE  /\ \A by \in Representatives \cup {Organizer}, value \in Contents(phase), open \in BOOLEAN :
                 EditBegin(c, by, phase, value, open) => TypeOK' /\ Opened(c)
           /\ \A by \in Representatives \cup {Organizer}, mode \in {"AUTOMATIC", "MANUAL"}, open \in BOOLEAN :
                 SubmitBegin(c, by, phase, mode, open) => TypeOK' /\ Opened(c)
           /\ \A decision \in Decisions :
                 ReviewBegin(c, phase, decision) => TypeOK' /\ Opened(c)
<1>1. ASSUME NEW by \in Representatives \cup {Organizer}, NEW value \in Contents(phase),
             NEW open \in BOOLEAN, EditBegin(c, by, phase, value, open)
      PROVE  TypeOK' /\ Opened(c)
    <2>1. Opens(c, "EDIT", phase, by, value, FALSE)
        BY <1>1 DEF EditBegin
    <2> QED BY <2>1, OpenType
<1>2. ASSUME NEW by \in Representatives \cup {Organizer}, NEW mode \in {"AUTOMATIC", "MANUAL"},
             NEW open \in BOOLEAN, SubmitBegin(c, by, phase, mode, open)
      PROVE  TypeOK' /\ Opened(c)
    <2>1. Opens(c, "SUBMIT", phase, by, AfterSubmission(mode), FALSE)
        BY <1>2 DEF SubmitBegin
    <2>2. AfterSubmission(mode) \in Statuses
        BY DEF AfterSubmission, Statuses
    <2> QED BY <2>1, <2>2, OpenType
<1>3. ASSUME NEW decision \in Decisions, ReviewBegin(c, phase, decision)
      PROVE  TypeOK' /\ Opened(c)
    <2> DEFINE value == IF decision = "APPROVE" THEN "APPROVED" ELSE "CHANGES_REQUESTED"
               cascades == /\ phase = "REGISTRATION" /\ decision = "REQUEST_CHANGES"
                           /\ status["MANDATE"] # "DRAFT"
    <2>1. Opens(c, "REVIEW", phase, Organizer, value, cascades)
        BY <1>3 DEF ReviewBegin
    <2>2. value \in Statuses /\ cascades \in BOOLEAN
        BY DEF Statuses
    <2> HIDE DEF value, cascades
    <2> QED BY <2>1, <2>2, OpenType
<1> QED BY <1>1, <1>2, <1>3

LEMMA CommitTypes ==
    ASSUME TypeOK, NEW c \in Clients
    PROVE  /\ EditCommit(c) => TypeOK' /\ Written({c})
           /\ SubmitCommit(c) => TypeOK' /\ Written({c})
           /\ ReviewCommit(c) => TypeOK' /\ Written({c})
           /\ Refused(c) => TypeOK' /\ Dropped
<1>1. CASE EditCommit(c)
    <2>1. Written({c}) /\ request' \in [Clients -> Requests \cup {None}]
        BY <1>1, CloseWrites DEF EditCommit
    <2>2. request[c].phase \in Phases /\ request[c].value \in Contents(request[c].phase)
        BY <1>1 DEF EditCommit, TypeOK, Requests
    <2>3. Contents(request[c].phase) \subseteq Names \cup Rosters
        BY DEF Contents
    <2>4. RowType'
        BY <1>1, <2>2, <2>3 DEF EditCommit, TypeOK, RowType, Contents
    <2>5. UNCHANGED <<applied, competition>>
        BY <1>1 DEF EditCommit
    <2>6. {c} \in SUBSET Clients
        OBVIOUS
    <2>7. TypeOK'
        BY <2>1, <2>4, <2>5, <2>6, WrittenType
    <2> QED BY <1>1, <2>1, <2>7 DEF EditCommit, SubmitCommit, ReviewCommit, Refused
<1>2. CASE SubmitCommit(c)
    <2>1. Written({c}) /\ request' \in [Clients -> Requests \cup {None}]
        BY <1>2, CloseWrites DEF SubmitCommit
    <2>2. request[c].phase \in Phases /\ request[c].value \in Statuses
        BY <1>2 DEF SubmitCommit, TypeOK, Requests
    <2>3. RowType'
        BY <1>2, <2>2 DEF SubmitCommit, TypeOK, RowType
    <2>4. UNCHANGED <<applied, competition>> /\ {c} \in SUBSET Clients
        BY <1>2 DEF SubmitCommit
    <2>5. TypeOK'
        BY <2>1, <2>3, <2>4, WrittenType
    <2> QED BY <1>2, <2>1, <2>5 DEF EditCommit, SubmitCommit, ReviewCommit, Refused
<1>3. CASE ReviewCommit(c)
    <2>1. Written({c}) /\ request' \in [Clients -> Requests \cup {None}]
        BY <1>3, CloseWrites DEF ReviewCommit
    <2>2. request[c].value \in Statuses
        BY <1>3 DEF ReviewCommit, TypeOK
    <2>3. RowType'
        BY <1>3, <2>2 DEF ReviewCommit, TypeOK, RowType, Statuses
    <2>4. UNCHANGED <<applied, competition>> /\ {c} \in SUBSET Clients
        BY <1>3 DEF ReviewCommit
    <2>5. TypeOK'
        BY <2>1, <2>3, <2>4, WrittenType
    <2> QED BY <1>3, <2>1, <2>5 DEF EditCommit, SubmitCommit, ReviewCommit, Refused
<1>4. CASE Refused(c)
    <2>1. request' = [request EXCEPT ![c] = None] /\ UNCHANGED <<teamVars, applied, competition>>
        BY <1>4 DEF Refused
    <2>2. \A d \in Clients : request'[d] = None \/ request'[d] = request[d]
        BY <2>1 DEF TypeOK
    <2>3. request' \in [Clients -> Requests \cup {None}]
        BY <2>1 DEF TypeOK
    <2>4. \A d \in Clients : request'[d] # None =>
             IF request'[d].kind = "EDIT" THEN request'[d].value \in Contents(request'[d].phase)
             ELSE request'[d].value \in Statuses
        BY <2>2 DEF TypeOK
    <2>5. TypeOK'
        BY <2>1, <2>3, <2>4 DEF TypeOK, teamVars
    <2> QED BY <1>4, <2>1, <2>2, <2>5 DEF EditCommit, SubmitCommit, ReviewCommit, Refused, Dropped
<1> QED BY <1>1, <1>2, <1>3, <1>4

LEMMA OrganizerTypes ==
    ASSUME TypeOK
    PROVE  /\ \A name \in Names, roster \in Rosters, named \in BOOLEAN :
                 OrganizerSave(name, roster, named) => TypeOK' /\ (Written({}) \/ MembersSaved)
           /\ \A r \in Representatives \cup {Nobody} :
                 SetTeamRepresentative(r) => TypeOK' /\ Written({})
           /\ ChangeCompetitionStatus => TypeOK' /\ Dropped
<1>1. ASSUME NEW name \in Names, NEW roster \in Rosters, NEW named \in BOOLEAN,
             OrganizerSave(name, roster, named)
      PROVE  TypeOK' /\ (Written({}) \/ MembersSaved)
    <2>1. RowType'
        BY <1>1 DEF OrganizerSave, TypeOK, RowType, Contents, Phases
    <2>2. UNCHANGED <<applied, competition>> /\ {} \in SUBSET Clients
        BY <1>1 DEF OrganizerSave
    <2>3. CASE named
        <3>1. request' = Outdated(request)
            BY <1>1, <2>3 DEF OrganizerSave
        <3>2. Written({}) /\ request' \in [Clients -> Requests \cup {None}]
            BY <3>1, OutdateWrites
        <3> QED BY <2>1, <2>2, <3>2, WrittenType
    <2>4. CASE ~named
        <3>1. MembersSaved
            BY <1>1, <2>4 DEF OrganizerSave, MembersSaved
        <3> QED BY <2>1, <2>2, <3>1 DEF MembersSaved, TypeOK, RowType
    <2> QED BY <2>3, <2>4
<1>2. ASSUME NEW r \in Representatives \cup {Nobody}, SetTeamRepresentative(r)
      PROVE  TypeOK' /\ Written({})
    <2>1. Written({}) /\ request' \in [Clients -> Requests \cup {None}]
        BY <1>2, OutdateWrites DEF SetTeamRepresentative
    <2>2. RowType'
        BY <1>2 DEF SetTeamRepresentative, TypeOK, RowType
    <2>3. UNCHANGED <<applied, competition>> /\ {} \in SUBSET Clients
        BY <1>2 DEF SetTeamRepresentative
    <2> QED BY <2>1, <2>2, <2>3, WrittenType
<1>3. ASSUME ChangeCompetitionStatus
      PROVE  TypeOK' /\ Dropped
    BY <1>3 DEF ChangeCompetitionStatus, TypeOK, Dropped, teamVars
<1> QED BY <1>1, <1>2, <1>3

LEMMA TypeStep == TypeOK /\ [Next]_vars => TypeOK'
<1> SUFFICES ASSUME TypeOK, [Next]_vars
             PROVE  TypeOK'
    OBVIOUS
<1>1. CASE Next
    BY <1>1, OpeningTypes, CommitTypes, OrganizerTypes DEF Next
<1>2. CASE UNCHANGED vars
    BY <1>2 DEF TypeOK, vars, teamVars
<1> QED BY <1>1, <1>2

\* The team and the requests under way are always well formed: an edit carries
\* a content of its phase, and every other request a status.
THEOREM TypeCorrect == Spec => []TypeOK
<1>1. Init => TypeOK
    BY DEF Init, TypeOK, Phases, Statuses
<1> QED BY <1>1, TypeStep, PTL DEF Spec

-----------------------------------------------------------------------------
(* A claim is worth what it says.                                           *)

\* Writing the row leaves no request that could be claimed, and dropping one
\* takes nothing from the others.
LEMMA WrittenSees ==
    ASSUME NEW ended, Written(ended)
    PROVE  SeesTheTruth'
BY DEF Written, SeesTheTruth, Claims

LEMMA DroppedSees ==
    ASSUME SeesTheTruth, Dropped
    PROVE  SeesTheTruth'
BY DEF Dropped, SeesTheTruth, Claims, teamVars, CanEdit, Complete

LEMMA MembersSavedSees ==
    ASSUME SeesTheTruth, MembersSaved
    PROVE  SeesTheTruth'
BY DEF MembersSaved, SeesTheTruth, Claims, CanEdit

\* A new request sees the truth if it is what its checks looked at.
LEMMA OpenedSees ==
    ASSUME SeesTheTruth, NEW c \in Clients, Opened(c),
           Claims(c)' => /\ CanEdit(request'[c].phase)
                         /\ representative = request'[c].seen
                         /\ request'[c].by \in {Organizer, representative}
                         /\ request'[c].kind = "SUBMIT" /\ request'[c].phase = "MANDATE" /\ ~MembersAlone => Complete
    PROVE  SeesTheTruth'
<1>1. UNCHANGED teamVars
    BY DEF Opened
<1>2. \A phase : CanEdit(phase)' = CanEdit(phase)
    BY <1>1 DEF teamVars, CanEdit
<1>3. Complete' = Complete /\ representative' = representative
    BY <1>1 DEF teamVars, Complete
<1>4. ASSUME NEW d \in Clients, Claims(d)', request'[d].current
      PROVE  /\ CanEdit(request'[d].phase)
             /\ representative = request'[d].seen
             /\ request'[d].by \in {Organizer, representative}
             /\ request'[d].kind = "SUBMIT" /\ request'[d].phase = "MANDATE" /\ ~MembersAlone => Complete
    <2>1. CASE d = c
        BY <1>4, <2>1
    <2>2. CASE d # c
        <3>1. request'[d] = request[d]
            BY <2>2 DEF Opened
        <3> QED BY <1>4, <3>1 DEF SeesTheTruth, Claims
    <2> QED BY <2>1, <2>2
<1> QED BY <1>2, <1>3, <1>4 DEF SeesTheTruth

LEMMA EditOpensTrue ==
    ASSUME TypeOK, SeesTheTruth, NEW c \in Clients, NEW phase \in Phases,
           NEW by \in Representatives \cup {Organizer}, NEW value \in Contents(phase),
           NEW open \in BOOLEAN, EditBegin(c, by, phase, value, open)
    PROVE  SeesTheTruth'
<1>1. Opens(c, "EDIT", phase, by, value, FALSE)
    BY DEF EditBegin
<1>2. /\ Opened(c)
      /\ request'[c].kind = "EDIT" /\ request'[c].phase = phase
      /\ request'[c].by = by /\ request'[c].seen = representative
    BY <1>1, OpenType
<1>3. CanEdit(phase) /\ by \in {Organizer, representative}
    BY <1>1 DEF EditBegin, Opens
<1> QED BY <1>2, <1>3, OpenedSees

LEMMA SubmitOpensTrue ==
    ASSUME TypeOK, SeesTheTruth, NEW c \in Clients, NEW phase \in Phases,
           NEW by \in Representatives \cup {Organizer}, NEW mode \in {"AUTOMATIC", "MANUAL"},
           NEW open \in BOOLEAN, SubmitBegin(c, by, phase, mode, open)
    PROVE  SeesTheTruth'
<1>1. Opens(c, "SUBMIT", phase, by, AfterSubmission(mode), FALSE)
    BY DEF SubmitBegin
<1>2. AfterSubmission(mode) \in Statuses
    BY DEF AfterSubmission, Statuses
<1>3. /\ Opened(c)
      /\ request'[c].kind = "SUBMIT" /\ request'[c].phase = phase
      /\ request'[c].by = by /\ request'[c].seen = representative
    BY <1>1, <1>2, OpenType
<1>4. CanEdit(phase) /\ by \in {Organizer, representative} /\ (phase = "MANDATE" => Complete)
    BY <1>1 DEF SubmitBegin, Opens
<1> QED BY <1>3, <1>4, OpenedSees

LEMMA ReviewOpens ==
    ASSUME TypeOK, NEW c \in Clients, NEW phase \in Phases, NEW decision \in Decisions,
           ReviewBegin(c, phase, decision)
    PROVE  /\ Opened(c)
           /\ request'[c].kind = "REVIEW" /\ request'[c].phase = phase
           /\ request'[c].value = IF decision = "APPROVE" THEN "APPROVED" ELSE "CHANGES_REQUESTED"
           /\ request'[c].cascades <=> /\ phase = "REGISTRATION" /\ decision = "REQUEST_CHANGES"
                                       /\ status["MANDATE"] # "DRAFT"
<1> DEFINE value == IF decision = "APPROVE" THEN "APPROVED" ELSE "CHANGES_REQUESTED"
           cascades == /\ phase = "REGISTRATION" /\ decision = "REQUEST_CHANGES"
                       /\ status["MANDATE"] # "DRAFT"
<1>1. Opens(c, "REVIEW", phase, Organizer, value, cascades)
    BY DEF ReviewBegin
<1>2. value \in Statuses /\ cascades \in BOOLEAN
    BY DEF Statuses
<1> HIDE DEF value, cascades
<1>3. /\ Opened(c)
      /\ request'[c].kind = "REVIEW" /\ request'[c].phase = phase
      /\ request'[c].value = value /\ (request'[c].cascades <=> cascades)
    BY <1>1, <1>2, OpenType
<1> QED BY <1>3 DEF value, cascades

LEMMA ReviewOpensTrue ==
    ASSUME TypeOK, SeesTheTruth, NEW c \in Clients, NEW phase \in Phases,
           NEW decision \in Decisions, ReviewBegin(c, phase, decision)
    PROVE  SeesTheTruth'
<1>1. Opened(c) /\ request'[c].kind = "REVIEW"
    BY ReviewOpens
<1>2. ~Claims(c)'
    BY <1>1 DEF Claims
<1> QED BY <1>1, <1>2, OpenedSees

LEMMA TruthStep == TypeOK /\ SeesTheTruth /\ [Next]_vars => SeesTheTruth'
<1> SUFFICES ASSUME TypeOK, SeesTheTruth, [Next]_vars
             PROVE  SeesTheTruth'
    OBVIOUS
<1>1. ASSUME NEW c \in Clients,
             EditCommit(c) \/ SubmitCommit(c) \/ Refused(c) \/ ReviewCommit(c)
      PROVE  SeesTheTruth'
    BY <1>1, CommitTypes, WrittenSees, DroppedSees
<1>2. ASSUME NEW name \in Names, NEW roster \in Rosters, NEW named \in BOOLEAN,
             OrganizerSave(name, roster, named)
      PROVE  SeesTheTruth'
    BY <1>2, OrganizerTypes, WrittenSees, MembersSavedSees
<1>3. ASSUME NEW r \in Representatives \cup {Nobody}, SetTeamRepresentative(r)
      PROVE  SeesTheTruth'
    BY <1>3, OrganizerTypes, WrittenSees
<1>4. CASE ChangeCompetitionStatus
    BY <1>4, OrganizerTypes, DroppedSees
<1>5. CASE UNCHANGED vars
    BY <1>5, DroppedSees DEF vars, Dropped
<1> QED BY <1>1, <1>2, <1>3, <1>4, <1>5, EditOpensTrue, SubmitOpensTrue, ReviewOpensTrue DEF Next

LEMMA TruthInvariance == Spec => [](TypeOK /\ SeesTheTruth)
<1>1. Init => TypeOK /\ SeesTheTruth
    BY DEF Init, TypeOK, SeesTheTruth, Claims, Phases, Statuses
<1> QED BY <1>1, TypeStep, TruthStep, PTL DEF Spec

\* A request takes effect in its own commit only.
LEMMA EffectIsCommit ==
    ASSUME TypeOK, [Next]_vars, NEW c \in Clients, TakesEffect(c)
    PROVE  EditCommit(c) \/ SubmitCommit(c) \/ ReviewCommit(c)
<1>1. ASSUME NEW d \in Clients, Opened(d)
      PROVE  FALSE
    BY <1>1 DEF Opened, TakesEffect, teamVars
<1>2. ASSUME Dropped
      PROVE  FALSE
    BY <1>2 DEF Dropped, TakesEffect, teamVars
<1>3. ~Written({}) /\ ~MembersSaved
    BY DEF Written, MembersSaved, TakesEffect
<1>4. ASSUME NEW d \in Clients, d # c, Written({d})
      PROVE  FALSE
    BY <1>4 DEF Written, TakesEffect
<1>5. ~UNCHANGED vars
    BY DEF vars, teamVars, TakesEffect
<1>6. \A d \in Clients, phase \in Phases, by \in Representatives \cup {Organizer} :
         /\ \A value \in Contents(phase), open \in BOOLEAN : ~EditBegin(d, by, phase, value, open)
         /\ \A mode \in {"AUTOMATIC", "MANUAL"}, open \in BOOLEAN :
               ~SubmitBegin(d, by, phase, mode, open)
    BY <1>1, OpeningTypes
<1>7. \A d \in Clients, phase \in Phases, decision \in Decisions : ~ReviewBegin(d, phase, decision)
    BY <1>1, OpeningTypes
<1>8. /\ \A name \in Names, roster \in Rosters, named \in BOOLEAN : ~OrganizerSave(name, roster, named)
      /\ \A r \in Representatives \cup {Nobody} : ~SetTeamRepresentative(r)
      /\ ~ChangeCompetitionStatus
    BY <1>2, <1>3, OrganizerTypes
<1>9. \A d \in Clients : ~Refused(d)
    BY <1>2, CommitTypes
<1>10. \A d \in Clients \ {c} : ~EditCommit(d) /\ ~SubmitCommit(d) /\ ~ReviewCommit(d)
    BY <1>4, CommitTypes
<1> QED BY <1>5, <1>6, <1>7, <1>8, <1>9, <1>10 DEF Next

\* A save or a submission that takes effect was still up to date.
LEMMA EffectIsTrue ==
    ASSUME TypeOK, SeesTheTruth, [Next]_vars, NEW c \in Clients, TakesEffect(c),
           request[c].kind \in {"EDIT", "SUBMIT"}
    PROVE  /\ CanEdit(request[c].phase)
           /\ representative = request[c].seen
           /\ request[c].by \in {Organizer, representative}
           /\ request[c].kind = "SUBMIT" /\ request[c].phase = "MANDATE" /\ ~MembersAlone => Complete
<1>1. Claims(c)
    BY DEF Claims, TakesEffect
<1>2. request[c].current
    BY EffectIsCommit DEF EditCommit, SubmitCommit, ReviewCommit, Claimed
<1> QED BY <1>1, <1>2 DEF SeesTheTruth

\* A phase that has been submitted is not changed by a save or a submission that
\* was checked before, whatever else happens in between.
THEOREM LockHolds == Spec => SubmittedIsLocked
<1>1. TypeOK /\ SeesTheTruth /\ [Next]_vars =>
         [\A c \in Clients : TakesEffect(c) /\ request[c].kind \in {"EDIT", "SUBMIT"} =>
              CanEdit(request[c].phase)]_vars
    BY EffectIsTrue
<1> QED BY <1>1, TruthInvariance, PTL DEF Spec, SubmittedIsLocked

\* No request takes effect for a representative that has been replaced.
THEOREM TransferHolds == Spec => FormerRepresentativeIsRefused
<1>1. TypeOK /\ SeesTheTruth /\ [Next]_vars =>
         [\A c \in Clients : TakesEffect(c) /\ request[c].kind \in {"EDIT", "SUBMIT"} =>
              representative = request[c].seen /\ request[c].by \in {Organizer, representative}]_vars
    BY EffectIsTrue
<1> QED BY <1>1, TruthInvariance, PTL DEF Spec, FormerRepresentativeIsRefused

-----------------------------------------------------------------------------
(* Reviews.                                                                 *)

\* Writing the row leaves every review as it was, and overtaken.
LEMMA WrittenReviews ==
    ASSUME ReviewsSeeTheTruth, NEW ended \in SUBSET Clients, Written(ended)
    PROVE  ReviewsSeeTheTruth'
<1>1. ASSUME NEW c \in Clients, Reviews(c)'
      PROVE  ReviewsTheTruth(c)'
    <2>1. Reviews(c) /\ ~request'[c].current
        BY <1>1 DEF Reviews, Written
    <2>2. WellDecided(c)
        BY <2>1 DEF ReviewsSeeTheTruth, ReviewsTheTruth
    <2>3. WellDecided(c)'
        BY <1>1, <2>2 DEF WellDecided, Written, Reviews
    <2> QED BY <2>1, <2>3 DEF ReviewsTheTruth
<1> QED BY <1>1 DEF ReviewsSeeTheTruth

\* What a review sees is the statuses and, without calls that save the members
\* alone, the mandate: while they stay, so does the truth of what it saw.
LEMMA KeptReviews ==
    ASSUME ReviewsSeeTheTruth, UNCHANGED status, MembersAlone \/ UNCHANGED teamVars,
           NEW c \in Clients, Reviews(c)', request'[c] = request[c]
    PROVE  ReviewsTheTruth(c)'
<1>1. Reviews(c) /\ ReviewsTheTruth(c)
    BY DEF Reviews, ReviewsSeeTheTruth
<1>2. WellDecided(c)' /\ (Misled(c)' <=> Misled(c))
    BY <1>1 DEF WellDecided, ReviewsTheTruth, Misled
<1>3. MembersAlone \/ (Complete' <=> Complete)
    BY DEF teamVars, Complete
<1> QED BY <1>1, <1>2, <1>3 DEF ReviewsTheTruth

LEMMA StillReviews ==
    ASSUME ReviewsSeeTheTruth, Dropped \/ MembersSaved
    PROVE  ReviewsSeeTheTruth'
<1>1. UNCHANGED status /\ (MembersAlone \/ UNCHANGED teamVars)
    BY DEF Dropped, MembersSaved, teamVars
<1>2. \A c \in Clients : Reviews(c)' => request'[c] = request[c]
    BY DEF Dropped, MembersSaved, Reviews
<1> QED BY <1>1, <1>2, KeptReviews DEF ReviewsSeeTheTruth

\* Opening a request that is no review leaves the reviews alone.
LEMMA OthersOpen ==
    ASSUME ReviewsSeeTheTruth, NEW c \in Clients, Opened(c),
           request'[c].kind = "REVIEW" => ReviewsTheTruth(c)'
    PROVE  ReviewsSeeTheTruth'
<1>1. UNCHANGED status /\ UNCHANGED teamVars
    BY DEF Opened, teamVars
<1>2. \A d \in Clients \ {c} : request'[d] = request[d]
    BY DEF Opened
<1>3. \A d \in Clients : Reviews(d)' => ReviewsTheTruth(d)'
    <2>1. TAKE d \in Clients
    <2>2. HAVE Reviews(d)'
    <2>3. CASE d = c
        BY <2>2, <2>3 DEF Reviews
    <2>4. CASE d # c
        BY <1>1, <1>2, <2>2, <2>4, KeptReviews
    <2> QED BY <2>3, <2>4
<1> QED BY <1>3 DEF ReviewsSeeTheTruth

LEMMA ReviewOpensOnTheTruth ==
    ASSUME TypeOK, NEW c \in Clients, NEW phase \in Phases,
           NEW decision \in Decisions, ReviewBegin(c, phase, decision)
    PROVE  ReviewsTheTruth(c)'
<1>1. /\ Opened(c)
      /\ request'[c].phase = phase
      /\ request'[c].value = IF decision = "APPROVE" THEN "APPROVED" ELSE "CHANGES_REQUESTED"
      /\ request'[c].cascades <=> /\ phase = "REGISTRATION" /\ decision = "REQUEST_CHANGES"
                                  /\ status["MANDATE"] # "DRAFT"
    BY ReviewOpens
<1>2. UNCHANGED teamVars
    BY <1>1 DEF Opened
<1>3. status' = status /\ (Complete' <=> Complete)
    BY <1>2 DEF teamVars, Complete
<1>4. /\ CanReview(status[phase], decision)
      /\ phase = "MANDATE" /\ decision = "APPROVE" => Complete
    BY DEF ReviewBegin
<1>5. WellDecided(c)'
    BY <1>1 DEF WellDecided
<1>6. decision = IF request'[c].value = "APPROVED" THEN "APPROVE" ELSE "REQUEST_CHANGES"
    BY <1>1 DEF Decisions
<1>7. ~Misled(c)'
    BY <1>1, <1>3, <1>4, <1>6 DEF Misled
<1>8. decision = "APPROVE" => status[phase] = "SUBMITTED"
    BY <1>4 DEF CanReview
<1>9. request'[c].value = "APPROVED" => decision = "APPROVE"
    BY <1>1
<1> QED BY <1>1, <1>3, <1>4, <1>5, <1>7, <1>8, <1>9 DEF ReviewsTheTruth

LEMMA ReviewStep ==
    TypeOK /\ ReviewsSeeTheTruth /\ [Next]_vars => ReviewsSeeTheTruth'
<1> SUFFICES ASSUME TypeOK, ReviewsSeeTheTruth, [Next]_vars
             PROVE  ReviewsSeeTheTruth'
    OBVIOUS
<1>1. ASSUME NEW c \in Clients, NEW phase \in Phases, NEW by \in Representatives \cup {Organizer}
      PROVE  /\ \A value \in Contents(phase), open \in BOOLEAN :
                   EditBegin(c, by, phase, value, open) => ReviewsSeeTheTruth'
             /\ \A mode \in {"AUTOMATIC", "MANUAL"}, open \in BOOLEAN :
                   SubmitBegin(c, by, phase, mode, open) => ReviewsSeeTheTruth'
    <2>1. ASSUME NEW value \in Contents(phase), NEW open \in BOOLEAN,
                 EditBegin(c, by, phase, value, open)
          PROVE  ReviewsSeeTheTruth'
        <3>1. Opens(c, "EDIT", phase, by, value, FALSE)
            BY <2>1 DEF EditBegin
        <3>2. Opened(c) /\ request'[c].kind = "EDIT"
            BY <3>1, OpenType
        <3> QED BY <3>2, OthersOpen
    <2>2. ASSUME NEW mode \in {"AUTOMATIC", "MANUAL"}, NEW open \in BOOLEAN,
                 SubmitBegin(c, by, phase, mode, open)
          PROVE  ReviewsSeeTheTruth'
        <3>1. Opens(c, "SUBMIT", phase, by, AfterSubmission(mode), FALSE)
            BY <2>2 DEF SubmitBegin
        <3>2. AfterSubmission(mode) \in Statuses
            BY DEF AfterSubmission, Statuses
        <3>3. Opened(c) /\ request'[c].kind = "SUBMIT"
            BY <3>1, <3>2, OpenType
        <3> QED BY <3>3, OthersOpen
    <2> QED BY <2>1, <2>2
<1>2. ASSUME NEW c \in Clients, NEW phase \in Phases, NEW decision \in Decisions,
             ReviewBegin(c, phase, decision)
      PROVE  ReviewsSeeTheTruth'
    BY <1>2, OpeningTypes, ReviewOpensOnTheTruth, OthersOpen
<1>3. ASSUME NEW c \in Clients,
             EditCommit(c) \/ SubmitCommit(c) \/ Refused(c) \/ ReviewCommit(c)
      PROVE  ReviewsSeeTheTruth'
    <2>1. Dropped \/ Written({c})
        BY <1>3, CommitTypes
    <2>2. {c} \in SUBSET Clients
        OBVIOUS
    <2> QED BY <2>1, <2>2, WrittenReviews, StillReviews
<1>4. ASSUME \/ \E name \in Names, roster \in Rosters, named \in BOOLEAN :
                   OrganizerSave(name, roster, named)
             \/ \E r \in Representatives \cup {Nobody} : SetTeamRepresentative(r)
             \/ ChangeCompetitionStatus
      PROVE  ReviewsSeeTheTruth'
    <2>1. Dropped \/ MembersSaved \/ Written({})
        BY <1>4, OrganizerTypes
    <2>2. {} \in SUBSET Clients
        OBVIOUS
    <2> QED BY <2>1, <2>2, WrittenReviews, StillReviews
<1>5. CASE UNCHANGED vars
    BY <1>5, StillReviews DEF vars, Dropped
<1> QED BY <1>1, <1>2, <1>3, <1>4, <1>5 DEF Next

LEMMA ReviewInvariance == Spec => [](TypeOK /\ SeesTheTruth /\ ReviewsSeeTheTruth)
<1>1. Init => ReviewsSeeTheTruth
    BY DEF Init, ReviewsSeeTheTruth, Reviews
<1> QED BY <1>1, ReviewStep, TruthInvariance, PTL DEF Spec

\* Which steps write a status.
LEMMA StatusWriters ==
    ASSUME TypeOK, [Next]_vars
    PROVE  \/ status' = status
           \/ \E c \in Clients : SubmitCommit(c) \/ ReviewCommit(c)
BY DEF Next, EditBegin, SubmitBegin, ReviewBegin, Opens, EditCommit, Refused, OrganizerSave,
       SetTeamRepresentative, ChangeCompetitionStatus, vars, teamVars

\* A review ends when it is committed; it is belated, or it saw the truth.
LEMMA CommitEnds ==
    ASSUME TypeOK, ReviewsSeeTheTruth, NEW c \in Clients, ReviewCommit(c), ~Belated(c)
    PROVE  Reviews(c) /\ request[c].current /\ ReviewsTheTruth(c)
<1>1. Reviews(c) /\ Written({c})
    BY CommitTypes DEF ReviewCommit, Reviews
<1> QED BY <1>1 DEF Written, Belated, Reviews, ReviewsSeeTheTruth

LEMMA MandateStep ==
    ASSUME TypeOK, SeesTheTruth, ReviewsSeeTheTruth, Follows, [Next]_vars,
           \A c \in Clients : ~(Belated(c) /\ Misled(c))
    PROVE  Follows'
<1>1. CASE status' = status
    BY <1>1 DEF Follows
<1>2. ASSUME NEW c \in Clients, SubmitCommit(c)
      PROVE  Follows'
    <2>1. CanEdit(request[c].phase)
        BY <1>2 DEF SubmitCommit, Claimed, Claims, SeesTheTruth
    <2>2. request[c].phase \in Phases
        BY <1>2 DEF SubmitCommit, TypeOK, Requests
    <2>3. CASE request[c].phase = "MANDATE"
        BY <1>2, <2>1, <2>3 DEF SubmitCommit, CanEdit, Follows, TypeOK, Phases
    <2>4. CASE request[c].phase = "REGISTRATION"
        BY <1>2, <2>1, <2>4 DEF SubmitCommit, CanEdit, CanEditWorkflow, Follows, TypeOK, Phases
    <2> QED BY <2>2, <2>3, <2>4 DEF Phases
<1>3. ASSUME NEW c \in Clients, ReviewCommit(c)
      PROVE  Follows'
    <2>1. Reviews(c) /\ Written({c})
        BY <1>3, CommitTypes DEF ReviewCommit, Reviews
    <2>2. ReviewsTheTruth(c) /\ WellDecided(c)
        BY <2>1 DEF ReviewsSeeTheTruth, ReviewsTheTruth
    <2>3. ~Misled(c)
        BY <2>1, <2>2 DEF Belated, Reviews, ReviewsTheTruth, Written
    <2>4. request[c].phase \in Phases
        BY <2>1 DEF Reviews, TypeOK, Requests
    <2>5. CASE request[c].value = "APPROVED"
        <3>1. status[request[c].phase] = "SUBMITTED" /\ ~request[c].cascades
            BY <2>2, <2>3, <2>5 DEF WellDecided, Misled, CanReview
        <3> QED BY <1>3, <2>4, <2>5, <3>1 DEF ReviewCommit, Follows, Phases
    <2>6. CASE request[c].value = "CHANGES_REQUESTED" /\ request[c].phase = "REGISTRATION"
        <3>1. request[c].cascades <=> status["MANDATE"] # "DRAFT"
            BY <2>3, <2>6 DEF Misled
        <3> QED BY <1>3, <2>6, <3>1 DEF ReviewCommit, Follows, Phases
    <2>7. CASE request[c].value = "CHANGES_REQUESTED" /\ request[c].phase = "MANDATE"
        <3>1. ~request[c].cascades
            BY <2>2, <2>7 DEF WellDecided
        <3> QED BY <1>3, <2>7, <3>1 DEF ReviewCommit, Follows, Phases
    <2> QED BY <2>2, <2>4, <2>5, <2>6, <2>7 DEF WellDecided, Phases
<1> QED BY <1>1, <1>2, <1>3, StatusWriters

\* Nothing but a belated review takes the mandate off its registration, and that
\* only where its decision is no longer what it would be: saves, submissions and
\* reviews on the truth never do, however they overlap.
THEOREM MandateFollows == Spec => MandateFollowsRegistration
<1>1. TypeOK /\ SeesTheTruth /\ ReviewsSeeTheTruth /\ [Next]_vars =>
         [Follows => Follows' \/ \E c \in Clients : Belated(c) /\ Misled(c)]_vars
    BY MandateStep
<1> QED BY <1>1, ReviewInvariance, PTL DEF Spec, MandateFollowsRegistration

LEMMA CompleteStep ==
    ASSUME ~MembersAlone, TypeOK, SeesTheTruth, ReviewsSeeTheTruth, [Next]_vars,
           status'["MANDATE"] # status["MANDATE"], status'["MANDATE"] \in {"SUBMITTED", "APPROVED"},
           \A c \in Clients : ~(Belated(c) /\ request[c].phase = "MANDATE")
    PROVE  Complete
<1>1. PICK c \in Clients : SubmitCommit(c) \/ ReviewCommit(c)
    BY StatusWriters
<1>2. CASE SubmitCommit(c)
    <2>1. request[c].phase = "MANDATE"
        BY <1>2 DEF SubmitCommit, TypeOK, Phases
    <2> QED BY <1>2, <2>1 DEF SubmitCommit, Claimed, Claims, SeesTheTruth
<1>3. CASE ReviewCommit(c)
    <2>1. Reviews(c)
        BY <1>3 DEF ReviewCommit, Reviews
    <2>2. WellDecided(c)
        BY <2>1 DEF ReviewsSeeTheTruth, ReviewsTheTruth
    <2>3. request[c].phase = "MANDATE" /\ request[c].value = "APPROVED"
        BY <1>3, <2>2 DEF ReviewCommit, WellDecided, TypeOK, Phases
    <2>4. request[c].current /\ ReviewsTheTruth(c)
        BY <1>3, <2>3, CommitEnds
    <2> QED BY <2>3, <2>4 DEF ReviewsTheTruth
<1> QED BY <1>1, <1>2, <1>3

\* No mandate is submitted or approved without a competitor and the required
\* representative, except by a review of it that was overtaken, if the
\* organiser's saves write the team's row.
THEOREM CompletenessHolds ==
    ASSUME ~MembersAlone
    PROVE  Spec => SubmittedIsComplete
<1>1. TypeOK /\ SeesTheTruth /\ ReviewsSeeTheTruth /\ [Next]_vars =>
         [status'["MANDATE"] # status["MANDATE"] /\ status'["MANDATE"] \in {"SUBMITTED", "APPROVED"}
              => Complete \/ \E c \in Clients : Belated(c) /\ request[c].phase = "MANDATE"]_vars
    BY CompleteStep
<1> QED BY <1>1, ReviewInvariance, PTL DEF Spec, SubmittedIsComplete
=============================================================================
