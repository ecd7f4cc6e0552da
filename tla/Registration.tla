---------------------------- MODULE Registration ----------------------------
(***************************************************************************)
(* The registration of one competition: the applications, the decisions    *)
(* about them, the automatic allocation of places, the settings of the     *)
(* registration phase, and the finalisation that turns the confirmed       *)
(* applications into teams.                                                *)
(*                                                                         *)
(* The handlers that run in a Serializable transaction are single actions. *)
(* Two handlers run in the default isolation (READ COMMITTED) and are      *)
(* split where another transaction can come between their reads and their  *)
(* writes: saving the registration settings and editing the members of an  *)
(* application.  A settings save holds the row lock of the competition     *)
(* from its competition.update on, so from SettingsBegin to SettingsCommit *)
(* no other writer of that row takes a step.                               *)
(*                                                                         *)
(* Applications are numbered in the order in which they are submitted, so  *)
(* the number stands for submittedAt, createdAt and the id at once.        *)
(***************************************************************************)
EXTENDS Naturals, FiniteSets

CONSTANTS
    MaxApplications,    \* bound: how many applications are ever submitted
    MaxMembers,         \* bound: how many lines a member list has
    Classes,            \* the registration classes
    Emails,             \* e-mail addresses, as they are compared: trimmed, in lower case
    Rosters,            \* the member lists an application can carry
    Elsewhere,          \* e-mails of the members of the teams made by hand
    Accepted,           \* the issues that an organiser accepts with the finalisation
    Rules,              \* the sets of allocation rules
    SettingsChoices,    \* what an organiser saves
    Lifecycle,          \* the competition's statuses that are explored
    Ranking(_, _, _),   \* the order of the allocation: pool, classes, rules
    Interleaved,        \* which of the two split handlers do not run alone
    Nobody,             \* a line of a member list without a name
    None                \* no transaction, no team, no e-mail

Applications == 1..MaxApplications
Lines == 1..MaxMembers

(* Ranking is the order that registrationAllocation.ts computes: every      *)
(* application of the pool has one place in it, and there are no others     *)
(* (AllocationRanks in RegistrationProofs).                                 *)
ASSUME RankingAssumption ==
    \A pool \in SUBSET Applications, class \in [Applications -> Classes], rules \in Rules :
        /\ Ranking(pool, class, rules) \in [pool -> 1..Cardinality(pool)]
        /\ \A a, b \in pool :
              Ranking(pool, class, rules)[a] = Ranking(pool, class, rules)[b] => a = b
ASSUME NonEmptyAssumption == Classes # {} /\ Rosters # {}
ASSUME RosterAssumption ==
    /\ Rosters \subseteq [Lines -> Emails \cup {None, Nobody}]
    /\ None \notin Emails /\ Nobody \notin Emails \cup {None}
    /\ None \notin [Lines -> Emails \cup {None, Nobody}]
ASSUME LifecycleAssumption == "SETUP" \in Lifecycle
ASSUME BoundAssumption == MaxApplications \in Nat /\ MaxMembers \in Nat
ASSUME InterleavedAssumption == Interleaved \subseteq {"settings", "members"}

-----------------------------------------------------------------------------
(* Types.                                                                   *)

Statuses == {"PENDING_REVIEW", "CHANGES_REQUESTED", "CONFIRMED", "WAITLISTED",
             "REJECTED", "WITHDRAWN"}
Reasons == {"NONE", "UNLIMITED", "PLACE", "WAITLIST", "ORGANIZER"}
Row == [status : Statuses \cup {"NONE"}, position : Nat, reason : Reasons,
        class : Classes, roster : Rosters]
Placement == [status : {"CONFIRMED", "WAITLISTED"}, position : Nat, reason : Reasons]
Writes == [Applications -> Placement \cup {None}]   \* None: the row is not written

\* capacity 0 is null; the settings handler accepts null or a positive number.
Settings == [capacity : Nat, rules : Rules, approvalMode : {"AUTOMATIC", "MANUAL"},
             override : {"AUTO", "OPEN", "CLOSED"},
             window : {"NOT_OPEN", "OPEN", "CLOSED"}]
ASSUME SettingsAssumption == SettingsChoices \subseteq Settings
ASSUME NoneAssumption == None \notin Placement

VARIABLES
    row,            \* the applications' rows; status NONE: not submitted yet
    log,            \* toStatus of the last event in each application's history
    told,           \* the last status each representative was notified of
    settings,       \* the competition's registration settings
    competition,    \* the competition's status; ENDED: finished, cancelled, archived
    finalized,      \* registrationFinalizedAt is set
    linked,         \* applications whose teamId is set
    teamsMade,      \* history: how many teams each application was turned into
    teamRoster,     \* history: the members its team was made with
    overtaken,      \* history: whose member edit the finalisation overtook
    save,           \* the settings save under way, or None
    edit            \* the member edit under way, or None

applicationVars == <<row, log, told>>
teamVars == <<linked, teamsMade, teamRoster, overtaken>>
phaseVars == <<settings, competition, finalized>>
vars == <<applicationVars, phaseVars, teamVars, save, edit>>

Save == {s \in [settings : Settings, writes : Writes, moved : SUBSET Applications] :
            \A a \in s.moved : s.writes[a] # None}
Edit == [target : Applications, roster : Rosters, status : Statuses]

TypeOK ==
    /\ row \in [Applications -> Row]
    /\ log \in [Applications -> Statuses \cup {"NONE"}]
    /\ told \in [Applications -> Statuses \cup {"NONE"}]
    /\ settings \in Settings
    /\ competition \in Lifecycle
    /\ finalized \in BOOLEAN
    /\ linked \subseteq Applications
    /\ teamsMade \in [Applications -> Nat]
    /\ teamRoster \in [Applications -> [Lines -> Emails \cup {None, Nobody}] \cup {None}]
    /\ overtaken \in SUBSET Applications
    /\ save \in Save \cup {None}
    /\ edit \in Edit \cup {None}

-----------------------------------------------------------------------------
(* Helpers.                                                                 *)

Submitted(a) == row[a].status # "NONE"
Terminal == {"WITHDRAWN", "REJECTED"}
Unresolved == {"WAITLISTED", "PENDING_REVIEW", "CHANGES_REQUESTED"}
CanEditRegistration(status) ==
    status \in {"CONFIRMED", "WAITLISTED", "PENDING_REVIEW", "CHANGES_REQUESTED"}

PhaseStatus(s, final) ==
    IF final THEN "FINALIZED" ELSE IF s.override # "AUTO" THEN s.override ELSE s.window

Open == PhaseStatus(settings, finalized) = "OPEN"
Automatic == settings.approvalMode = "AUTOMATIC"
AfterSubmission == IF Automatic THEN "WAITLISTED" ELSE "PENDING_REVIEW"

Pool(rows) == {a \in Applications : rows[a].status \in {"CONFIRMED", "WAITLISTED"}}
Waiting(rows) == {a \in Applications : rows[a].status = "WAITLISTED"}

\* Mutant: one place too few is given.
PlacedOneShort(rows, s) ==
    LET pool == Pool(rows)
        rank == Ranking(pool, [a \in Applications |-> rows[a].class], s.rules)
    IN  [a \in Applications |->
            IF a \notin pool
            THEN None
            ELSE IF s.capacity = 0 \/ rank[a] < s.capacity
            THEN [status |-> "CONFIRMED", position |-> 0, reason |-> "PLACE"]
            ELSE [status |-> "WAITLISTED", position |-> rank[a] + 1 - s.capacity,
                  reason |-> "WAITLIST"]]

\* What the recalculation computes for each application of the pool.
Placed(rows, s) ==
    LET pool == Pool(rows)
        rank == Ranking(pool, [a \in Applications |-> rows[a].class], s.rules)
        unlimited == s.capacity = 0 \/ s.capacity >= Cardinality(pool)
    IN  [a \in Applications |->
            IF a \notin pool
            THEN None
            ELSE IF unlimited
            THEN [status |-> "CONFIRMED", position |-> 0, reason |-> "UNLIMITED"]
            ELSE IF rank[a] <= s.capacity
            THEN [status |-> "CONFIRMED", position |-> 0, reason |-> "PLACE"]
            ELSE [status |-> "WAITLISTED", position |-> rank[a] - s.capacity,
                  reason |-> "WAITLIST"]]

Overwrite(rows, writes) ==
    [a \in Applications |->
        IF writes[a] = None
        THEN rows[a]
        ELSE [rows[a] EXCEPT !.status = writes[a].status,
                             !.position = writes[a].position,
                             !.reason = writes[a].reason]]

\* recalculateRegistrationAllocation, run within one transaction.
Recalculated(rows) == Overwrite(rows, Placed(rows, settings))

\* Mutant: the gaps stay.
ReindexedNever(rows) == rows

\* reindexWaitlistPositions: close the gaps, those without a position last.
Reindexed(rows) ==
    LET key(a) == IF rows[a].position = 0 THEN MaxApplications + 1 ELSE rows[a].position
        before(a, b) == key(a) < key(b) \/ (key(a) = key(b) /\ a < b)
    IN  [a \in Applications |->
            IF a \in Waiting(rows)
            THEN [rows[a] EXCEPT !.position =
                     1 + Cardinality({b \in Waiting(rows) : before(b, a)})]
            ELSE rows[a]]

\* Mutants: only who wins a place is recorded; only who loses one.
ChangedPromotions(record, rows, placed) ==
    [a \in Applications |->
        IF placed[a].status # rows[a].status /\ placed[a].status = "CONFIRMED"
        THEN placed[a].status ELSE record[a]]
ChangedDemotions(record, rows, placed) ==
    [a \in Applications |->
        IF placed[a].status # rows[a].status /\ placed[a].status = "WAITLISTED"
        THEN placed[a].status ELSE record[a]]

\* A record (history or notifications) after the changes from rows to placed.
Changed(record, rows, placed) ==
    [a \in Applications |->
        IF placed[a].status # rows[a].status THEN placed[a].status ELSE record[a]]

\* The rows once an application has been decided about, before the others move.
Decided(a, status, reason) ==
    [row EXCEPT ![a] = [@ EXCEPT !.status = status, !.position = 0, !.reason = reason]]

\* A split handler that is not to be interleaved runs alone.
Undisturbed ==
    /\ save = None \/ "settings" \in Interleaved
    /\ edit = None \/ "members" \in Interleaved

-----------------------------------------------------------------------------
(* The applicant's operations.                                              *)

CreateApplication(a, class, roster) ==
    LET new == [status |-> AfterSubmission, position |-> 0, reason |-> "NONE",
                class |-> class, roster |-> roster]
        rows == [row EXCEPT ![a] = new]
        placed == IF Automatic THEN Recalculated(rows) ELSE rows
        history == [log EXCEPT ![a] = AfterSubmission]
    IN  /\ Undisturbed
        /\ ~Submitted(a) /\ \A b \in 1..(a - 1) : Submitted(b)
        /\ competition # "ENDED"
        /\ Open
        /\ row' = placed
        /\ log' = Changed(history, rows, placed)
        /\ told' = [told EXCEPT ![a] = placed[a].status]
        /\ UNCHANGED <<phaseVars, teamVars, save, edit>>

\* An edit that changes anything, if only the team's name, starts afresh.
UpdateApplication(a, class, roster) ==
    LET rows == [row EXCEPT ![a] = [status |-> AfterSubmission, position |-> 0,
                     reason |-> "NONE", class |-> class, roster |-> roster]]
        placed == IF Automatic THEN Recalculated(rows) ELSE Reindexed(rows)
        history == [log EXCEPT ![a] = AfterSubmission]
    IN  /\ Undisturbed
        /\ competition = "SETUP" /\ ~finalized /\ a \notin linked
        /\ CanEditRegistration(row[a].status)
        /\ Open \/ row[a].status = "CHANGES_REQUESTED"
        /\ row' = placed
        /\ log' = Changed(history, rows, placed)
        /\ told' = [told EXCEPT ![a] = placed[a].status]
        /\ UNCHANGED <<phaseVars, teamVars, save, edit>>

WithdrawApplication(a) ==
    LET rows == Decided(a, "WITHDRAWN", "NONE")
        placed == IF Automatic THEN Recalculated(rows) ELSE Reindexed(rows)
        history == [log EXCEPT ![a] = "WITHDRAWN"]
    IN  /\ Undisturbed
        /\ competition = "SETUP" /\ a \notin linked
        /\ Open
        /\ CanEditRegistration(row[a].status)
        /\ row' = placed
        /\ log' = Changed(history, rows, placed)
        /\ told' = Changed(told, rows, placed)
        /\ UNCHANGED <<phaseVars, teamVars, save, edit>>

-----------------------------------------------------------------------------
(* The organiser's operations on one application.                           *)

Actions == {"CONFIRM", "WAITLIST", "REQUEST_CHANGES", "REJECT"}

ActionStatus(action) ==
    CASE action = "CONFIRM" -> "CONFIRMED"
      [] action = "WAITLIST" -> "WAITLISTED"
      [] action = "REQUEST_CHANGES" -> "CHANGES_REQUESTED"
      [] action = "REJECT" -> "REJECTED"

\* Mutant: the finalisation is not looked at.
MayDecideLate(a, action) ==
    /\ Submitted(a)
    /\ row[a].status \notin Terminal
    /\ row[a].status # ActionStatus(action)

MayDecide(a, action) ==
    /\ Submitted(a)
    /\ ~finalized
    /\ ~(Open /\ Automatic /\ action # "REQUEST_CHANGES")
    /\ row[a].status \notin Terminal
    /\ row[a].status # ActionStatus(action)

Decide(a, action) ==
    LET next == ActionStatus(action)
        reason == IF action = "REJECT" THEN "NONE" ELSE "ORGANIZER"
        rows == Decided(a, next, reason)
        placed == IF Automatic /\ action = "REQUEST_CHANGES"
                  THEN Recalculated(rows) ELSE Reindexed(rows)
        history == [log EXCEPT ![a] = next]
    IN  /\ Undisturbed
        /\ MayDecide(a, action)
        /\ row' = placed
        /\ log' = Changed(history, rows, placed)
        /\ told' = Changed([told EXCEPT ![a] = next], rows, placed)
        /\ UNCHANGED <<phaseVars, teamVars, save, edit>>

\* The end of saveOrganizerRegistration for an application.
OrganizerSaved(a, rows) ==
    LET placed == IF Automatic /\ Open THEN Recalculated(rows) ELSE rows
        history == [log EXCEPT ![a] = rows[a].status]
    IN  /\ row' = placed
        /\ log' = Changed(history, rows, placed)
        /\ told' = Changed(told, rows, placed)
        /\ UNCHANGED <<phaseVars, teamVars, save, edit>>

OrganizerCreate(a, class, roster) ==
    /\ Undisturbed
    /\ ~Submitted(a) /\ \A b \in 1..(a - 1) : Submitted(b)
    /\ ~finalized
    /\ OrganizerSaved(a, [row EXCEPT ![a] =
           [status |-> "CONFIRMED", position |-> 0, reason |-> "ORGANIZER",
            class |-> class, roster |-> roster]])

OrganizerEdit(a, class, roster) ==
    /\ Undisturbed
    /\ Submitted(a) /\ row[a].status \notin Terminal
    /\ ~finalized /\ a \notin linked
    /\ OrganizerSaved(a, [row EXCEPT ![a] = [@ EXCEPT !.class = class, !.roster = roster]])

\* Mutant: the members of a finalised application are edited.
MembersBeginLate(a, roster) ==
    /\ Undisturbed
    /\ edit = None
    /\ Submitted(a) /\ row[a].status \notin Terminal
    /\ roster # row[a].roster
    /\ edit' = [target |-> a, roster |-> roster, status |-> row[a].status]
    /\ UNCHANGED <<applicationVars, phaseVars, teamVars, save>>

\* updateApplicationMembers: what it read, and later what it writes.
MembersBegin(a, roster) ==
    /\ Undisturbed
    /\ edit = None
    /\ Submitted(a) /\ row[a].status \notin Terminal
    /\ ~finalized /\ a \notin linked
    /\ roster # row[a].roster
    /\ edit' = [target |-> a, roster |-> roster, status |-> row[a].status]
    /\ UNCHANGED <<applicationVars, phaseVars, teamVars, save>>

MembersCommit ==
    /\ edit # None
    /\ row' = [row EXCEPT ![edit.target].roster = edit.roster]
    /\ log' = [log EXCEPT ![edit.target] = edit.status]
    /\ edit' = None
    /\ UNCHANGED <<told, phaseVars, teamVars, save>>

-----------------------------------------------------------------------------
(* The organiser's operations on the registration phase.                    *)

\* The rows that a save of the settings `s' is going to write, as it sees them.
PlannedWrites(s) ==
    LET placed == Placed(row, s)
        stale == {a \in Pool(row) :
                     \/ placed[a].status # row[a].status
                     \/ placed[a].position # row[a].position
                     \/ placed[a].reason # row[a].reason}
        recalculates == /\ s.approvalMode = "AUTOMATIC"
                        /\ PhaseStatus(s, finalized) = "OPEN"
    IN  [a \in Applications |-> IF recalculates /\ a \in stale THEN placed[a] ELSE None]

SettingsBegin(s) ==
    /\ Undisturbed
    /\ save = None
    /\ LET writes == PlannedWrites(s)
       IN  save' = [settings |-> s, writes |-> writes,
                    moved |-> {a \in Applications :
                                 writes[a] # None /\ writes[a].status # row[a].status}]
    /\ UNCHANGED <<applicationVars, phaseVars, teamVars, edit>>

SettingsCommit ==
    /\ save # None
    /\ settings' = save.settings
    /\ row' = Overwrite(row, save.writes)
    /\ LET record(old) == [a \in Applications |->
                             IF a \in save.moved THEN save.writes[a].status ELSE old[a]]
       IN  log' = record(log) /\ told' = record(told)
    /\ save' = None
    /\ UNCHANGED <<competition, finalized, teamVars, edit>>

\* analyzeFinalize: an e-mail stays with the first who has it, which is a member
\* of a team there already is, else the application submitted first, else the
\* line that comes first.  The others enter without an e-mail.
TakenBefore(entering, a, email) ==
    \/ email \in Elsewhere
    \/ \E b \in entering, i \in Lines : b < a /\ row[b].roster[i] = email
Repeats(entering, a, i) ==
    LET email == row[a].roster[i] IN
    /\ email \in Emails
    /\ \/ TakenBefore(entering, a, email)
       \/ \E j \in 1..(i - 1) : row[a].roster[j] = email
Resolved(entering, a) ==
    [i \in Lines |-> IF Repeats(entering, a, i) THEN None ELSE row[a].roster[i]]

\* The issues by their keys: an e-mail that is elsewhere with its line, one that
\* is repeated in the application once.
Issues(entering) ==
    LET issue(a, i) == <<a, row[a].roster[i],
                         IF TakenBefore(entering, a, row[a].roster[i]) THEN i ELSE 0>>
    IN  UNION {{issue(a, i) : i \in {j \in Lines : Repeats(entering, a, j)}} : a \in entering}

Finalize(accepted) ==
    LET entering == {a \in Applications : row[a].status = "CONFIRMED" /\ a \notin linked}
    IN  /\ Undisturbed
        /\ save = None
        /\ ~finalized /\ ~Open
        /\ \A a \in Applications : row[a].status \notin Unresolved
        /\ Issues(entering) \subseteq accepted
        /\ linked' = linked \cup entering
        /\ teamsMade' = [a \in Applications |->
                            IF a \in entering THEN teamsMade[a] + 1 ELSE teamsMade[a]]
        /\ teamRoster' = [a \in Applications |->
                             IF a \in entering THEN Resolved(entering, a) ELSE teamRoster[a]]
        /\ overtaken' = IF edit = None THEN {} ELSE {edit.target}
        /\ finalized' = TRUE
        /\ settings' = [settings EXCEPT !.override = "CLOSED"]
        /\ UNCHANGED <<applicationVars, competition, save, edit>>

\* Deleting a team sets the teamId of its application to null.
DeleteTeam(a) ==
    /\ Undisturbed
    /\ a \in linked
    /\ linked' = linked \ {a}
    /\ UNCHANGED <<applicationVars, phaseVars, teamsMade, teamRoster, overtaken, save, edit>>

ChangeCompetitionStatus(status) ==
    /\ Undisturbed
    /\ save = None
    /\ status # competition
    /\ competition' = status
    /\ UNCHANGED <<applicationVars, settings, finalized, teamVars, save, edit>>

\* Time passes an opensAt or a closesAt.
Tick ==
    /\ Undisturbed
    /\ settings.window # "CLOSED"
    /\ settings' = [settings EXCEPT !.window =
                       IF settings.window = "NOT_OPEN" THEN "OPEN" ELSE "CLOSED"]
    /\ UNCHANGED <<applicationVars, competition, finalized, teamVars, save, edit>>

-----------------------------------------------------------------------------
NoRow == [status |-> "NONE", position |-> 0, reason |-> "NONE",
          class |-> CHOOSE class \in Classes : TRUE,
          roster |-> CHOOSE roster \in Rosters : TRUE]

Init ==
    /\ row = [a \in Applications |-> NoRow]
    /\ log = [a \in Applications |-> "NONE"]
    /\ told = [a \in Applications |-> "NONE"]
    /\ settings \in SettingsChoices
    /\ competition = "SETUP"
    /\ finalized = FALSE
    /\ linked = {}
    /\ teamsMade = [a \in Applications |-> 0]
    /\ teamRoster = [a \in Applications |-> None]
    /\ overtaken = {}
    /\ save = None
    /\ edit = None

Next ==
    \/ \E a \in Applications, class \in Classes, roster \in Rosters :
          \/ CreateApplication(a, class, roster)
          \/ UpdateApplication(a, class, roster)
          \/ OrganizerCreate(a, class, roster)
          \/ OrganizerEdit(a, class, roster)
    \/ \E a \in Applications : WithdrawApplication(a) \/ DeleteTeam(a)
    \/ \E a \in Applications, action \in Actions : Decide(a, action)
    \/ \E a \in Applications, roster \in Rosters : MembersBegin(a, roster)
    \/ MembersCommit
    \/ \E s \in SettingsChoices : SettingsBegin(s)
    \/ SettingsCommit
    \/ \E accepted \in Accepted : Finalize(accepted)
    \/ \E status \in Lifecycle : ChangeCompetitionStatus(status)
    \/ Tick

Spec == Init /\ [][Next]_vars
-----------------------------------------------------------------------------
(* Properties.                                                              *)

\* What the roster freeze sees of an application.
Standing(a) ==
    CASE row[a].status = "NONE" -> "absent"
      [] row[a].status = "CONFIRMED" -> "admitted"
      [] row[a].status \in Terminal -> "out"
      [] OTHER -> "open"

Freeze == INSTANCE RosterFreeze WITH
    standing <- [a \in Applications |-> Standing(a)],
    frozen <- finalized,
    teams <- teamsMade

\* The registration is a roster freeze: decisions are revised until the list is
\* finalised, which needs every application decided and makes one team of each
\* admitted one; afterwards nothing of it changes, whatever is under way.
FreezesTheRoster == Freeze!Spec

\* A finalised list is the confirmed applications, one team each: every other
\* application was rejected or withdrawn, and none was turned into two teams or
\* left without one (finalize route, prepareFinalize and the team creation).
FinalizedRoster ==
    /\ finalized => \A a \in Applications :
           /\ row[a].status \in Terminal \cup {"NONE", "CONFIRMED"}
           /\ teamsMade[a] = IF row[a].status = "CONFIRMED" THEN 1 ELSE 0
    /\ ~finalized => \A a \in Applications : teamsMade[a] = 0 /\ a \notin linked

\* After the finalisation no status changes and no team is made, and the
\* registration phase is never open again, even if a settings save that began
\* before the finalisation wants to reopen it.
FrozenAfterFinalization ==
    [][ finalized => /\ finalized' /\ ~Open'
                     /\ \A a \in Applications : /\ row'[a].status = row[a].status
                                                /\ teamsMade'[a] = teamsMade[a]
                     /\ linked' \subseteq linked ]_vars

\* The waitlist of a competition at rest is numbered 1, 2, 3, ... without a gap
\* or a shared place, through every mix of recalculating and reindexing steps
\* and of switches between automatic and manual approval.
WaitlistInOrder ==
    /\ {row[a].position : a \in Waiting(row)} = 1..Cardinality(Waiting(row))
    /\ \A a \in Applications \ Waiting(row) : row[a].position = 0

\* With automatic approval, a step that changes a status leaves the places
\* neither overbooked nor free while someone waits.  While the registration is
\* open that is every step; after it has closed, the organiser's own decisions
\* are not corrected (registrations, [id] and decision routes, and settings).
PlacesFilledExactly ==
    [][ LET admitted == Cardinality({a \in Applications : row'[a].status = "CONFIRMED"})
            changed == \E a \in Applications : row'[a].status # row[a].status
        IN  changed /\ Automatic' /\ Open' =>
                /\ settings'.capacity # 0 => admitted <= settings'.capacity
                /\ Waiting(row') # {} => admitted = settings'.capacity ]_vars

\* The last event of an application's history tells its status, so the report
\* and the digest that read the history agree with the row.
HistoryTellsStatus == \A a \in Applications : log[a] = row[a].status

Moved(a) ==
    \/ row[a].status = "WAITLISTED" /\ row'[a].status = "CONFIRMED"
    \/ row[a].status = "CONFIRMED" /\ row'[a].status = "WAITLISTED"

\* Whoever gets or loses a place because another application was withdrawn or
\* sent back is told so in the same transaction (withdrawApplication and the
\* decision route, recalculation with its default notifyTransitions).
VacatedPlacesAreTold ==
    [][ \A a, b \in Applications :
            /\ Moved(a)
            /\ row[b].status \in {"CONFIRMED", "WAITLISTED"}
            /\ row'[b].status \in {"WITHDRAWN", "CHANGES_REQUESTED"}
            => told'[a] = row'[a].status ]_vars

\* A team is made with all the members that its application had, every edit of
\* them accepted before the finalisation included, but for an edit that was then
\* under way.  An e-mail links one member to an account and no two members share
\* one; a member whose e-mail is dropped lost it to an earlier line, an earlier
\* application or a team there already was, which has it.
Made == {a \in Applications : teamRoster[a] # None}
TeamHasTheMembers ==
    /\ \A a, b \in Made, i, j \in Lines : LET email == teamRoster[a][i] IN
          email \in Emails => /\ email \notin Elsewhere
                              /\ teamRoster[b][j] = email => (a = b /\ i = j)
    /\ \A a \in Made \ overtaken, i \in Lines :
          LET email == row[a].roster[i]
              kept == teamRoster[a][i]
          IN kept # email =>
                /\ email \in Emails /\ kept = None
                /\ \/ email \in Elsewhere
                   \/ \E b \in Made, j \in Lines : /\ teamRoster[b][j] = email
                                                   /\ b < a \/ (b = a /\ j < i)
=============================================================================
