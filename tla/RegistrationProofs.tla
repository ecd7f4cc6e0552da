------------------------- MODULE RegistrationProofs -------------------------
(***************************************************************************)
(* What is proved of Registration for every number of applications and     *)
(* every ranking.  With the split handlers interleaved: its types, that a  *)
(* finalised list is complete and final, that it implements RosterFreeze,  *)
(* who is told of the places that are vacated, and that teams have the     *)
(* members of their applications.  With both handlers alone: the order of  *)
(* the waitlist, the history, and the places.                              *)
(*                                                                         *)
(* Of the allocation, for every number of applications, rules and places:  *)
(* that guarantees are honoured, that more room demotes nobody, and that   *)
(* it ranks applications as Registration assumes.                          *)
(*                                                                         *)
(* Of the form, for every form and everything that can be sent: that no    *)
(* hidden answer stays and a locked one does, and that a mandate can       *)
(* always be completed.                                                    *)
(***************************************************************************)
EXTENDS Registration, Places, Answers, FiniteSetTheorems, WellFoundedInduction, TLAPS

-----------------------------------------------------------------------------
(* Helpers: what they return, and what they leave of a row.                *)

\* The recalculation gives each application of the pool a placement.
LEMMA PlacedType ==
    ASSUME NEW rows \in [Applications -> Row], NEW s \in Settings
    PROVE  /\ Placed(rows, s) \in Writes
           /\ \A a \in Pool(rows) : Placed(rows, s)[a] \in Placement
<1> DEFINE class == [a \in Applications |-> rows[a].class]
           rank == Ranking(Pool(rows), class, s.rules)
           unlimited == s.capacity = 0 \/ s.capacity >= Cardinality(Pool(rows))
           place(a) == IF a \notin Pool(rows)
                       THEN None
                       ELSE IF unlimited
                       THEN [status |-> "CONFIRMED", position |-> 0, reason |-> "UNLIMITED"]
                       ELSE IF rank[a] <= s.capacity
                       THEN [status |-> "CONFIRMED", position |-> 0, reason |-> "PLACE"]
                       ELSE [status |-> "WAITLISTED", position |-> rank[a] - s.capacity,
                             reason |-> "WAITLIST"]
<1>1. Placed(rows, s) = [a \in Applications |-> place(a)]
  BY DEF Placed
<1>2. Pool(rows) \in SUBSET Applications
  BY DEF Pool
<1>3. class \in [Applications -> Classes] /\ s.rules \in Rules /\ s.capacity \in Nat
  BY DEF Row, Settings
<1>4. rank \in [Pool(rows) -> 1..Cardinality(Pool(rows))]
  BY <1>2, <1>3, RankingAssumption
<1> HIDE DEF class, rank, unlimited
<1>5. ASSUME NEW a \in Applications, a \in Pool(rows) PROVE place(a) \in Placement
  <2>1. rank[a] \in Nat
    BY <1>4, <1>5
  <2> QED
    BY <2>1, <1>3, <1>5 DEF Placement, Reasons
<1>6. \A a \in Applications : place(a) \in Placement \cup {None}
  BY <1>5
<1> QED
  BY <1>1, <1>2, <1>5, <1>6 DEF Writes

\* A write changes a row's status, position and reason, and never unsubmits it.
LEMMA OverwriteType ==
    ASSUME NEW rows \in [Applications -> Row], NEW writes \in Writes
    PROVE  /\ Overwrite(rows, writes) \in [Applications -> Row]
           /\ \A a \in Applications : Overwrite(rows, writes)[a].status = "NONE"
                                      => rows[a].status = "NONE"
<1>1. \A a \in Applications : writes[a] # None => writes[a] \in Placement
  BY DEF Writes
<1> QED
  BY <1>1, ZenonT(20) DEF Overwrite, Placement, Row, Statuses

LEMMA RecalculatedType ==
    ASSUME settings \in Settings, NEW rows \in [Applications -> Row]
    PROVE  /\ Recalculated(rows) \in [Applications -> Row]
           /\ \A a \in Applications : Recalculated(rows)[a].status = "NONE"
                                      => rows[a].status = "NONE"
BY PlacedType, OverwriteType DEF Recalculated

\* Renumbering the waitlist changes positions only.
LEMMA ReindexedType ==
    ASSUME NEW rows \in [Applications -> Row]
    PROVE  /\ Reindexed(rows) \in [Applications -> Row]
           /\ \A a \in Applications : Reindexed(rows)[a].status = rows[a].status
<1> DEFINE key(a) == IF rows[a].position = 0 THEN MaxApplications + 1 ELSE rows[a].position
           before(a, b) == key(a) < key(b) \/ (key(a) = key(b) /\ a < b)
           ahead(a) == {b \in Waiting(rows) : before(b, a)}
<1>1. \A a : Cardinality(ahead(a)) \in Nat
  <2>1. IsFiniteSet(Applications)
    BY BoundAssumption, FS_Interval DEF Applications
  <2>2. \A a : ahead(a) \subseteq Applications
    BY DEF Waiting
  <2> QED
    BY <2>1, <2>2, FS_Subset, FS_CardinalityType
<1>2. Reindexed(rows) = [a \in Applications |->
            IF a \in Waiting(rows)
            THEN [rows[a] EXCEPT !.position = 1 + Cardinality(ahead(a))]
            ELSE rows[a]]
  BY DEF Reindexed
<1> HIDE DEF ahead
<1> QED
  BY <1>1, <1>2 DEF Row

\* A decision replaces the status of its application and of no other.
LEMMA DecidedType ==
    ASSUME TypeOK, NEW a \in Applications, NEW status \in Statuses, NEW reason \in Reasons
    PROVE  /\ Decided(a, status, reason) \in [Applications -> Row]
           /\ \A b \in Applications : Decided(a, status, reason)[b].status
                                      = IF b = a THEN status ELSE row[b].status
<1>1. row[a] \in Row
  BY DEF TypeOK
<1>2. /\ [row[a] EXCEPT !.status = status, !.position = 0, !.reason = reason] \in Row
      /\ [row[a] EXCEPT !.status = status, !.position = 0, !.reason = reason].status = status
  BY <1>1 DEF Row
<1> QED
  BY <1>2 DEF Decided, TypeOK

LEMMA ChangedType ==
    ASSUME NEW record \in [Applications -> Statuses \cup {"NONE"}],
           NEW rows, NEW placed \in [Applications -> Row]
    PROVE  Changed(record, rows, placed) \in [Applications -> Statuses \cup {"NONE"}]
BY DEF Changed, Row

-----------------------------------------------------------------------------
(* The types.                                                               *)

\* What most handlers end with: placed rows, and records of what changed.
LEMMA RecordsType ==
    ASSUME TypeOK,
           NEW rows \in [Applications -> Row], NEW placed \in [Applications -> Row],
           NEW history \in [Applications -> Statuses \cup {"NONE"}],
           NEW notices \in [Applications -> Statuses \cup {"NONE"}],
           row' = placed,
           log' = Changed(history, rows, placed),
           told' = Changed(notices, rows, placed) \/ told' = notices,
           UNCHANGED <<phaseVars, teamVars, save, edit>>
    PROVE  TypeOK'
BY ChangedType DEF TypeOK, phaseVars, teamVars

LEMMA CreateApplicationType ==
    ASSUME TypeOK, NEW a \in Applications, NEW class \in Classes, NEW roster \in Rosters,
           CreateApplication(a, class, roster)
    PROVE  TypeOK'
<1> DEFINE rows == [row EXCEPT ![a] = [status |-> AfterSubmission, position |-> 0,
                       reason |-> "NONE", class |-> class, roster |-> roster]]
           placed == IF Automatic THEN Recalculated(rows) ELSE rows
           history == [log EXCEPT ![a] = AfterSubmission]
           notices == [told EXCEPT ![a] = placed[a].status]
<1>1. AfterSubmission \in Statuses
  BY DEF AfterSubmission, Statuses
<1>2. rows \in [Applications -> Row] /\ history \in [Applications -> Statuses \cup {"NONE"}]
  BY <1>1 DEF TypeOK, Row, Reasons
<1>3. placed \in [Applications -> Row]
  BY <1>2, RecalculatedType DEF TypeOK
<1>4. notices \in [Applications -> Statuses \cup {"NONE"}]
  BY <1>3 DEF TypeOK, Row
<1>5. /\ row' = placed /\ log' = Changed(history, rows, placed) /\ told' = notices
      /\ UNCHANGED <<phaseVars, teamVars, save, edit>>
  BY DEF CreateApplication
<1> HIDE DEF rows, placed, history, notices
<1> QED
  BY <1>2, <1>3, <1>4, <1>5, RecordsType

LEMMA UpdateApplicationType ==
    ASSUME TypeOK, NEW a \in Applications, NEW class \in Classes, NEW roster \in Rosters,
           UpdateApplication(a, class, roster)
    PROVE  TypeOK'
<1> DEFINE rows == [row EXCEPT ![a] = [status |-> AfterSubmission, position |-> 0,
                       reason |-> "NONE", class |-> class, roster |-> roster]]
           placed == IF Automatic THEN Recalculated(rows) ELSE Reindexed(rows)
           history == [log EXCEPT ![a] = AfterSubmission]
           notices == [told EXCEPT ![a] = placed[a].status]
<1>1. AfterSubmission \in Statuses
  BY DEF AfterSubmission, Statuses
<1>2. rows \in [Applications -> Row] /\ history \in [Applications -> Statuses \cup {"NONE"}]
  BY <1>1 DEF TypeOK, Row, Reasons
<1>3. placed \in [Applications -> Row]
  BY <1>2, RecalculatedType, ReindexedType DEF TypeOK
<1>4. notices \in [Applications -> Statuses \cup {"NONE"}]
  BY <1>3 DEF TypeOK, Row
<1>5. /\ row' = placed /\ log' = Changed(history, rows, placed) /\ told' = notices
      /\ UNCHANGED <<phaseVars, teamVars, save, edit>>
  BY DEF UpdateApplication
<1> HIDE DEF rows, placed, history, notices
<1> QED
  BY <1>2, <1>3, <1>4, <1>5, RecordsType

LEMMA WithdrawApplicationType ==
    ASSUME TypeOK, NEW a \in Applications, WithdrawApplication(a)
    PROVE  TypeOK'
<1> DEFINE rows == Decided(a, "WITHDRAWN", "NONE")
           placed == IF Automatic THEN Recalculated(rows) ELSE Reindexed(rows)
           history == [log EXCEPT ![a] = "WITHDRAWN"]
<1>1. "WITHDRAWN" \in Statuses /\ "NONE" \in Reasons
  BY DEF Statuses, Reasons
<1>2. rows \in [Applications -> Row] /\ history \in [Applications -> Statuses \cup {"NONE"}]
  BY <1>1, DecidedType DEF TypeOK
<1>3. placed \in [Applications -> Row]
  BY <1>2, RecalculatedType, ReindexedType DEF TypeOK
<1>4. told \in [Applications -> Statuses \cup {"NONE"}]
  BY DEF TypeOK
<1>5. /\ row' = placed /\ log' = Changed(history, rows, placed)
      /\ told' = Changed(told, rows, placed)
      /\ UNCHANGED <<phaseVars, teamVars, save, edit>>
  BY DEF WithdrawApplication
<1> HIDE DEF rows, placed, history
<1> QED
  BY <1>2, <1>3, <1>4, <1>5, RecordsType

LEMMA DecideType ==
    ASSUME TypeOK, NEW a \in Applications, NEW action \in Actions, Decide(a, action)
    PROVE  TypeOK'
<1> DEFINE next == ActionStatus(action)
           reason == IF action = "REJECT" THEN "NONE" ELSE "ORGANIZER"
           rows == Decided(a, next, reason)
           placed == IF Automatic /\ action = "REQUEST_CHANGES"
                     THEN Recalculated(rows) ELSE Reindexed(rows)
           history == [log EXCEPT ![a] = next]
           notices == [told EXCEPT ![a] = next]
<1>1. next \in Statuses /\ reason \in Reasons
  BY DEF Actions, ActionStatus, Statuses, Reasons
<1> HIDE DEF next, reason
<1>2. /\ rows \in [Applications -> Row]
      /\ history \in [Applications -> Statuses \cup {"NONE"}]
      /\ notices \in [Applications -> Statuses \cup {"NONE"}]
  BY <1>1, DecidedType DEF TypeOK
<1>3. placed \in [Applications -> Row]
  BY <1>2, RecalculatedType, ReindexedType DEF TypeOK
<1>5. /\ row' = placed /\ log' = Changed(history, rows, placed)
      /\ told' = Changed(notices, rows, placed)
      /\ UNCHANGED <<phaseVars, teamVars, save, edit>>
  BY DEF Decide, next, reason
<1> HIDE DEF rows, placed, history, notices
<1> QED
  BY <1>2, <1>3, <1>5, RecordsType

LEMMA OrganizerSavedType ==
    ASSUME TypeOK, NEW a \in Applications, NEW rows \in [Applications -> Row],
           OrganizerSaved(a, rows)
    PROVE  TypeOK'
<1> DEFINE placed == IF Automatic /\ Open THEN Recalculated(rows) ELSE rows
           history == [log EXCEPT ![a] = rows[a].status]
<1>1. /\ history \in [Applications -> Statuses \cup {"NONE"}]
      /\ told \in [Applications -> Statuses \cup {"NONE"}]
  BY DEF TypeOK, Row
<1>2. placed \in [Applications -> Row]
  BY RecalculatedType DEF TypeOK
<1>3. /\ row' = placed /\ log' = Changed(history, rows, placed)
      /\ told' = Changed(told, rows, placed)
      /\ UNCHANGED <<phaseVars, teamVars, save, edit>>
  BY DEF OrganizerSaved
<1> HIDE DEF placed, history
<1> QED
  BY <1>1, <1>2, <1>3, RecordsType

LEMMA SettingsBeginType ==
    ASSUME TypeOK, NEW s \in SettingsChoices, SettingsBegin(s)
    PROVE  TypeOK'
<1>1. s \in Settings
  BY SettingsAssumption
<1>2. Placed(row, s) \in Writes
  BY <1>1, PlacedType DEF TypeOK
<1>3. PlannedWrites(s) \in Writes
  BY <1>2 DEF PlannedWrites, Writes
<1>4. save' \in Save
  BY <1>1, <1>3 DEF SettingsBegin, Save
<1> QED
  BY <1>4 DEF SettingsBegin, TypeOK, applicationVars, phaseVars, teamVars

LEMMA SettingsCommitType ==
    ASSUME TypeOK, SettingsCommit
    PROVE  TypeOK'
<1>1. save \in Save
  BY DEF SettingsCommit, TypeOK
<1>2. row' \in [Applications -> Row]
  BY <1>1, OverwriteType DEF SettingsCommit, TypeOK, Save
<1>3. ASSUME NEW old \in [Applications -> Statuses \cup {"NONE"}]
      PROVE  [a \in Applications |-> IF a \in save.moved THEN save.writes[a].status
                                     ELSE old[a]]
                \in [Applications -> Statuses \cup {"NONE"}]
  BY <1>1 DEF Save, Writes, Placement, Statuses
<1> QED
  BY <1>1, <1>2, <1>3 DEF SettingsCommit, TypeOK, Save, teamVars

LEMMA OrganizerRowsType ==
    ASSUME TypeOK, NEW a \in Applications, NEW class \in Classes, NEW roster \in Rosters
    PROVE  /\ [row EXCEPT ![a] = [status |-> "CONFIRMED", position |-> 0,
                  reason |-> "ORGANIZER", class |-> class, roster |-> roster]]
                     \in [Applications -> Row]
           /\ [row EXCEPT ![a] = [@ EXCEPT !.class = class, !.roster = roster]]
                     \in [Applications -> Row]
<1>1. row[a] \in Row
  BY DEF TypeOK
<1>2. [row[a] EXCEPT !.class = class, !.roster = roster] \in Row
  BY <1>1 DEF Row
<1> QED
  BY <1>2 DEF TypeOK, Row, Statuses, Reasons

LEMMA OrganizerCreateType ==
    ASSUME TypeOK, NEW a \in Applications, NEW class \in Classes, NEW roster \in Rosters,
           OrganizerCreate(a, class, roster)
    PROVE  TypeOK'
BY OrganizerRowsType, OrganizerSavedType DEF OrganizerCreate

LEMMA OrganizerEditType ==
    ASSUME TypeOK, NEW a \in Applications, NEW class \in Classes, NEW roster \in Rosters,
           OrganizerEdit(a, class, roster)
    PROVE  TypeOK'
BY OrganizerRowsType, OrganizerSavedType DEF OrganizerEdit

LEMMA MembersBeginType ==
    ASSUME TypeOK, NEW a \in Applications, NEW roster \in Rosters, MembersBegin(a, roster)
    PROVE  TypeOK'
<1>1. edit' \in Edit
  BY DEF TypeOK, MembersBegin, Submitted, Edit, Row
<1> QED
  BY <1>1 DEF TypeOK, MembersBegin, applicationVars, phaseVars, teamVars

LEMMA MembersCommitType ==
    ASSUME TypeOK, MembersCommit
    PROVE  TypeOK'
<1>1. edit \in Edit
  BY DEF TypeOK, MembersCommit
<1>2. [row[edit.target] EXCEPT !.roster = edit.roster] \in Row
  <2>1. row[edit.target] \in Row /\ edit.roster \in Rosters
    BY <1>1 DEF TypeOK, Edit
  <2> QED
    BY <2>1 DEF Row
<1>3. row' \in [Applications -> Row]
  BY <1>1, <1>2 DEF TypeOK, MembersCommit, Edit
<1>4. log' \in [Applications -> Statuses \cup {"NONE"}]
  BY <1>1 DEF TypeOK, MembersCommit, Edit
<1> QED
  BY <1>3, <1>4 DEF TypeOK, MembersCommit, phaseVars, teamVars

LEMMA ResolvedType ==
    ASSUME TypeOK, NEW entering, NEW a \in Applications
    PROVE  Resolved(entering, a) \in [Lines -> Emails \cup {None, Nobody}]
<1>1. row[a].roster \in [Lines -> Emails \cup {None, Nobody}]
  BY RosterAssumption DEF TypeOK, Row
<1> QED
  BY <1>1 DEF Resolved

LEMMA FinalizeType ==
    ASSUME TypeOK, NEW accepted \in Accepted, Finalize(accepted)
    PROVE  TypeOK'
<1> DEFINE entering == {a \in Applications : row[a].status = "CONFIRMED" /\ a \notin linked}
<1>1. entering \subseteq Applications
  OBVIOUS
<1>2. /\ linked' = linked \cup entering
      /\ teamsMade' = [a \in Applications |->
                          IF a \in entering THEN teamsMade[a] + 1 ELSE teamsMade[a]]
      /\ teamRoster' = [a \in Applications |->
                           IF a \in entering THEN Resolved(entering, a) ELSE teamRoster[a]]
      /\ overtaken' = IF edit = None THEN {} ELSE {edit.target}
      /\ finalized' = TRUE
      /\ settings' = [settings EXCEPT !.override = "CLOSED"]
      /\ UNCHANGED <<applicationVars, competition, save, edit>>
  BY DEF Finalize
<1> HIDE DEF entering
<1>3. teamsMade' \in [Applications -> Nat]
  BY <1>2 DEF TypeOK
<1>4. teamRoster' \in [Applications -> [Lines -> Emails \cup {None, Nobody}] \cup {None}]
  BY <1>2, ResolvedType DEF TypeOK
<1>5. settings' \in Settings
  BY <1>2 DEF TypeOK, Settings
<1>6. overtaken' \in SUBSET Applications
  BY <1>2 DEF TypeOK, Edit
<1> QED
  BY <1>1, <1>2, <1>3, <1>4, <1>5, <1>6 DEF TypeOK, applicationVars

LEMMA TickType ==
    ASSUME TypeOK, Tick
    PROVE  TypeOK'
<1>1. settings' \in Settings
  BY DEF TypeOK, Tick, Settings
<1> QED
  BY <1>1 DEF TypeOK, Tick, applicationVars, teamVars

LEMMA DeleteTeamType ==
    ASSUME TypeOK, NEW a \in Applications, DeleteTeam(a)
    PROVE  TypeOK'
BY DEF TypeOK, DeleteTeam, applicationVars, phaseVars

LEMMA InitType == Init => TypeOK
<1> SUFFICES ASSUME Init PROVE TypeOK
  OBVIOUS
<1>1. NoRow \in Row
  BY NonEmptyAssumption DEF NoRow, Row, Reasons
<1> QED
  BY <1>1, SettingsAssumption, LifecycleAssumption DEF Init, TypeOK

\* Every step keeps the types.
LEMMA TypeStep == TypeOK /\ [Next]_vars => TypeOK'
<1> SUFFICES ASSUME TypeOK, [Next]_vars PROVE TypeOK'
  OBVIOUS
<1>1. ASSUME NEW a \in Applications, NEW class \in Classes, NEW roster \in Rosters,
             \/ CreateApplication(a, class, roster)
             \/ UpdateApplication(a, class, roster)
             \/ OrganizerCreate(a, class, roster)
             \/ OrganizerEdit(a, class, roster)
      PROVE  TypeOK'
  BY <1>1, CreateApplicationType, UpdateApplicationType, OrganizerCreateType,
     OrganizerEditType
<1>2. ASSUME NEW a \in Applications, WithdrawApplication(a) \/ DeleteTeam(a)
      PROVE  TypeOK'
  BY <1>2, WithdrawApplicationType, DeleteTeamType
<1>3. ASSUME NEW a \in Applications, NEW action \in Actions, Decide(a, action)
      PROVE  TypeOK'
  BY <1>3, DecideType
<1>4. ASSUME NEW a \in Applications, NEW roster \in Rosters, MembersBegin(a, roster)
      PROVE  TypeOK'
  BY <1>4, MembersBeginType
<1>5. CASE MembersCommit
  BY <1>5, MembersCommitType
<1>6. ASSUME NEW s \in SettingsChoices, SettingsBegin(s) PROVE TypeOK'
  BY <1>6, SettingsBeginType
<1>7. CASE SettingsCommit
  BY <1>7, SettingsCommitType
<1>8. ASSUME NEW accepted \in Accepted, Finalize(accepted) PROVE TypeOK'
  BY <1>8, FinalizeType
<1>9. ASSUME NEW status \in Lifecycle, ChangeCompetitionStatus(status) PROVE TypeOK'
  BY <1>9 DEF ChangeCompetitionStatus, TypeOK, applicationVars, teamVars
<1>10. CASE Tick
  BY <1>10, TickType
<1>11. CASE UNCHANGED vars
  BY <1>11 DEF vars, TypeOK, applicationVars, phaseVars, teamVars
<1> QED
  BY <1>1, <1>2, <1>3, <1>4, <1>5, <1>6, <1>7, <1>8, <1>9, <1>10, <1>11 DEF Next

\* The variables have their types, however many applications there are, whatever
\* ranks them, and however the split handlers interleave.
THEOREM TypeCorrect == Spec => []TypeOK
BY InitType, TypeStep, PTL DEF Spec

-----------------------------------------------------------------------------
(* The finalised list.  The invariant needs one fact beyond FinalizedRoster: *)
(* a settings save that is under way when the list is final has nothing to   *)
(* write to the applications.                                                *)

SaveIsHarmless == finalized /\ save # None => \A a \in Applications : save.writes[a] = None

IInv == TypeOK /\ FinalizedRoster /\ SaveIsHarmless

\* Every step but the finalisation either deliberates or decides nothing.
Deliberates ==
    /\ ~finalized /\ UNCHANGED <<finalized, linked, teamsMade>>
    /\ \A a \in Applications : row'[a].status = "NONE" => row[a].status = "NONE"

DecidesNothing ==
    /\ UNCHANGED <<finalized, teamsMade>> /\ linked' \subseteq linked
    /\ \A a \in Applications : row'[a].status = row[a].status

LEMMA ApplicantDeliberates ==
    ASSUME TypeOK, NEW a \in Applications, NEW class \in Classes, NEW roster \in Rosters,
           \/ CreateApplication(a, class, roster)
           \/ UpdateApplication(a, class, roster)
    PROVE  Deliberates
<1> DEFINE rows == [row EXCEPT ![a] = [status |-> AfterSubmission, position |-> 0,
                       reason |-> "NONE", class |-> class, roster |-> roster]]
<1>1. AfterSubmission \in Statuses /\ AfterSubmission # "NONE"
  BY DEF AfterSubmission, Statuses
<1>2. rows \in [Applications -> Row]
  BY <1>1 DEF TypeOK, Row, Reasons
<1>3. \A b \in Applications : rows[b].status = "NONE" => row[b].status = "NONE"
  BY <1>1 DEF TypeOK
<1>4. row' = Recalculated(rows) \/ row' = Reindexed(rows) \/ row' = rows
  BY DEF CreateApplication, UpdateApplication
<1>5. ~finalized /\ UNCHANGED <<finalized, linked, teamsMade>>
  BY DEF CreateApplication, UpdateApplication, Open, PhaseStatus, phaseVars, teamVars
<1>6. settings \in Settings
  BY DEF TypeOK
<1> HIDE DEF rows
<1> QED
  BY <1>2, <1>3, <1>4, <1>5, <1>6, RecalculatedType, ReindexedType DEF Deliberates

LEMMA WithdrawDeliberates ==
    ASSUME TypeOK, NEW a \in Applications, WithdrawApplication(a)
    PROVE  Deliberates
<1> DEFINE rows == Decided(a, "WITHDRAWN", "NONE")
<1>1. "WITHDRAWN" \in Statuses /\ "NONE" \in Reasons
  BY DEF Statuses, Reasons
<1>2. /\ rows \in [Applications -> Row]
      /\ \A b \in Applications : rows[b].status = "NONE" => row[b].status = "NONE"
  BY <1>1, DecidedType
<1>3. row' = Recalculated(rows) \/ row' = Reindexed(rows)
  BY DEF WithdrawApplication
<1>4. ~finalized /\ UNCHANGED <<finalized, linked, teamsMade>>
  BY DEF WithdrawApplication, Open, PhaseStatus, phaseVars, teamVars
<1>5. settings \in Settings
  BY DEF TypeOK
<1> HIDE DEF rows
<1> QED
  BY <1>2, <1>3, <1>4, <1>5, RecalculatedType, ReindexedType DEF Deliberates

LEMMA DecideDeliberates ==
    ASSUME TypeOK, NEW a \in Applications, NEW action \in Actions, Decide(a, action)
    PROVE  Deliberates
<1> DEFINE next == ActionStatus(action)
           reason == IF action = "REJECT" THEN "NONE" ELSE "ORGANIZER"
           rows == Decided(a, next, reason)
<1>1. next \in Statuses /\ next # "NONE" /\ reason \in Reasons
  BY DEF Actions, ActionStatus, Statuses, Reasons
<1>2. row' = Recalculated(rows) \/ row' = Reindexed(rows)
  BY DEF Decide
<1> HIDE DEF next, reason
<1>3. /\ rows \in [Applications -> Row]
      /\ \A b \in Applications : rows[b].status = "NONE" => row[b].status = "NONE"
  BY <1>1, DecidedType
<1>4. ~finalized /\ UNCHANGED <<finalized, linked, teamsMade>>
  BY DEF Decide, MayDecide, phaseVars, teamVars
<1>5. settings \in Settings
  BY DEF TypeOK
<1> HIDE DEF rows
<1> QED
  BY <1>2, <1>3, <1>4, <1>5, RecalculatedType, ReindexedType DEF Deliberates

LEMMA OrganizerDeliberates ==
    ASSUME TypeOK, NEW a \in Applications, NEW class \in Classes, NEW roster \in Rosters,
           OrganizerCreate(a, class, roster) \/ OrganizerEdit(a, class, roster)
    PROVE  Deliberates
<1> DEFINE created == [row EXCEPT ![a] = [status |-> "CONFIRMED", position |-> 0,
                          reason |-> "ORGANIZER", class |-> class, roster |-> roster]]
           edited == [row EXCEPT ![a] = [@ EXCEPT !.class = class, !.roster = roster]]
<1>1. \E rows \in {created, edited} : OrganizerSaved(a, rows)
  BY DEF OrganizerCreate, OrganizerEdit
<1>2. created \in [Applications -> Row] /\ edited \in [Applications -> Row]
  BY OrganizerRowsType
<1>3. \A b \in Applications : edited[b].status = row[b].status
  BY DEF TypeOK, Row
<1>4. \A b \in Applications : created[b].status = "NONE" => row[b].status = "NONE"
  BY DEF TypeOK
<1>5. ~finalized
  BY DEF OrganizerCreate, OrganizerEdit
<1>6. settings \in Settings
  BY DEF TypeOK
<1> HIDE DEF created, edited
<1>7. PICK rows \in {created, edited} : OrganizerSaved(a, rows)
  BY <1>1
<1>8. /\ rows \in [Applications -> Row]
      /\ \A b \in Applications : rows[b].status = "NONE" => row[b].status = "NONE"
  BY <1>2, <1>3, <1>4, <1>7
<1>9. /\ row' = Recalculated(rows) \/ row' = rows
      /\ UNCHANGED <<finalized, linked, teamsMade>>
  BY <1>7 DEF OrganizerSaved, phaseVars, teamVars
<1> QED
  BY <1>5, <1>6, <1>8, <1>9, RecalculatedType DEF Deliberates

LEMMA MembersCommitDecidesNothing ==
    ASSUME TypeOK, MembersCommit
    PROVE  DecidesNothing
<1>1. edit.target \in Applications
  BY DEF TypeOK, MembersCommit, Edit
<1>2. \A a \in Applications : row'[a].status = row[a].status
  BY <1>1 DEF TypeOK, MembersCommit, Row
<1> QED
  BY <1>2 DEF MembersCommit, DecidesNothing, phaseVars, teamVars

\* A late save of the settings either finds the list open or writes nothing.
LEMMA SettingsCommitShape ==
    ASSUME TypeOK, SaveIsHarmless, SettingsCommit
    PROVE  Deliberates \/ DecidesNothing
<1>1. save \in Save /\ save # None
  BY DEF SettingsCommit, TypeOK
<1>2. UNCHANGED <<finalized, linked, teamsMade>>
  BY DEF SettingsCommit, teamVars
<1>3. CASE finalized
  <2>1. \A a \in Applications : row'[a] = row[a]
    BY <1>1, <1>3 DEF SaveIsHarmless, SettingsCommit, Overwrite
  <2> QED
    BY <2>1, <1>2 DEF DecidesNothing
<1>4. CASE ~finalized
  <2>1. /\ save.writes \in Writes /\ row \in [Applications -> Row]
        /\ row' = Overwrite(row, save.writes)
    BY <1>1 DEF Save, TypeOK, SettingsCommit
  <2> QED
    BY <2>1, <1>2, <1>4, OverwriteType DEF Deliberates
<1> QED
  BY <1>3, <1>4 DEF TypeOK

\* The finalisation, whatever issues are accepted with it.
Finalizes == \E accepted \in Accepted : Finalize(accepted)

LEMMA StepShape ==
    ASSUME TypeOK, SaveIsHarmless, [Next]_vars
    PROVE  Deliberates \/ DecidesNothing \/ Finalizes
<1>1. ASSUME NEW a \in Applications, NEW class \in Classes, NEW roster \in Rosters,
             \/ CreateApplication(a, class, roster)
             \/ UpdateApplication(a, class, roster)
             \/ OrganizerCreate(a, class, roster)
             \/ OrganizerEdit(a, class, roster)
      PROVE  Deliberates
  BY <1>1, ApplicantDeliberates, OrganizerDeliberates
<1>2. ASSUME NEW a \in Applications, WithdrawApplication(a)
      PROVE  Deliberates
  BY <1>2, WithdrawDeliberates
<1>3. ASSUME NEW a \in Applications, NEW action \in Actions, Decide(a, action)
      PROVE  Deliberates
  BY <1>3, DecideDeliberates
<1>4. ASSUME \/ \E a \in Applications : DeleteTeam(a)
             \/ \E a \in Applications, roster \in Rosters : MembersBegin(a, roster)
             \/ \E s \in SettingsChoices : SettingsBegin(s)
             \/ \E status \in Lifecycle : ChangeCompetitionStatus(status)
             \/ Tick
             \/ UNCHANGED vars
      PROVE  DecidesNothing
  BY <1>4 DEF DecidesNothing, DeleteTeam, MembersBegin, SettingsBegin,
     ChangeCompetitionStatus, Tick, vars, applicationVars, phaseVars, teamVars
<1>5. CASE MembersCommit
  BY <1>5, MembersCommitDecidesNothing
<1>6. CASE SettingsCommit
  BY <1>6, SettingsCommitShape
<1> QED
  BY <1>1, <1>2, <1>3, <1>4, <1>5, <1>6 DEF Next, Finalizes

-----------------------------------------------------------------------------
(* The invariant is inductive.                                              *)

LEMMA InitInvariant == Init => IInv
BY InitType DEF Init, IInv, FinalizedRoster, SaveIsHarmless, NoRow

LEMMA RosterStep ==
    ASSUME TypeOK, FinalizedRoster, SaveIsHarmless, [Next]_vars
    PROVE  FinalizedRoster'
<1>1. CASE Deliberates
  BY <1>1 DEF Deliberates, FinalizedRoster
<1>2. CASE DecidesNothing
  BY <1>2 DEF DecidesNothing, FinalizedRoster
<1>3. CASE Finalizes
  <2>1. /\ ~finalized /\ finalized' /\ row' = row
        /\ \A a \in Applications : row[a].status \in Terminal \cup {"NONE", "CONFIRMED"}
    BY <1>3 DEF Finalizes, Finalize, applicationVars, TypeOK, Row, Statuses, Unresolved, Terminal
  <2>2. \A a \in Applications : teamsMade'[a] = IF row[a].status = "CONFIRMED" THEN 1 ELSE 0
    <3>1. \A a \in Applications : teamsMade[a] = 0 /\ a \notin linked
      BY <2>1 DEF FinalizedRoster
    <3> QED
      BY <1>3, <3>1 DEF Finalizes, Finalize, TypeOK
  <2> QED
    BY <2>1, <2>2 DEF FinalizedRoster
<1> QED
  BY <1>1, <1>2, <1>3, StepShape

LEMMA SaveStep ==
    ASSUME TypeOK, SaveIsHarmless, [Next]_vars
    PROVE  SaveIsHarmless'
<1>1. ASSUME NEW s \in SettingsChoices, SettingsBegin(s) PROVE SaveIsHarmless'
  <2>1. finalized => \A a \in Applications : PlannedWrites(s)[a] = None
    BY DEF PlannedWrites, PhaseStatus
  <2>2. save'.writes = PlannedWrites(s) /\ finalized' = finalized
    BY <1>1 DEF SettingsBegin, phaseVars
  <2> QED
    BY <2>1, <2>2 DEF SaveIsHarmless
<1>2. CASE Finalizes \/ SettingsCommit
  BY <1>2 DEF Finalizes, Finalize, SettingsCommit, SaveIsHarmless
<1>3. CASE UNCHANGED <<save, finalized>>
  BY <1>3 DEF SaveIsHarmless
<1>4. ASSUME \/ \E a \in Applications, class \in Classes, roster \in Rosters :
                   \/ CreateApplication(a, class, roster)
                   \/ UpdateApplication(a, class, roster)
                   \/ OrganizerCreate(a, class, roster)
                   \/ OrganizerEdit(a, class, roster)
             \/ \E a \in Applications : WithdrawApplication(a) \/ DeleteTeam(a)
             \/ \E a \in Applications, action \in Actions : Decide(a, action)
             \/ \E a \in Applications, roster \in Rosters : MembersBegin(a, roster)
             \/ MembersCommit
             \/ \E status \in Lifecycle : ChangeCompetitionStatus(status)
             \/ Tick \/ UNCHANGED vars
      PROVE  UNCHANGED <<save, finalized>>
  <2>1. ASSUME NEW a \in Applications, NEW class \in Classes, NEW roster \in Rosters,
               \/ CreateApplication(a, class, roster)
               \/ UpdateApplication(a, class, roster)
        PROVE  UNCHANGED <<save, finalized>>
    BY <2>1 DEF CreateApplication, UpdateApplication, phaseVars
  <2>2. ASSUME NEW a \in Applications, NEW class \in Classes, NEW roster \in Rosters,
               OrganizerCreate(a, class, roster) \/ OrganizerEdit(a, class, roster)
        PROVE  UNCHANGED <<save, finalized>>
    BY <2>2 DEF OrganizerCreate, OrganizerEdit, OrganizerSaved, phaseVars
  <2>3. ASSUME NEW a \in Applications,
               \/ WithdrawApplication(a) \/ DeleteTeam(a)
               \/ \E action \in Actions : Decide(a, action)
        PROVE  UNCHANGED <<save, finalized>>
    BY <2>3 DEF WithdrawApplication, DeleteTeam, Decide, phaseVars
  <2>4. ASSUME \/ \E a \in Applications, roster \in Rosters : MembersBegin(a, roster)
               \/ MembersCommit
               \/ \E status \in Lifecycle : ChangeCompetitionStatus(status)
               \/ Tick \/ UNCHANGED vars
        PROVE  UNCHANGED <<save, finalized>>
    BY <2>4 DEF MembersBegin, MembersCommit, ChangeCompetitionStatus, Tick, vars, phaseVars
  <2> QED
    BY <1>4, <2>1, <2>2, <2>3, <2>4
<1> QED
  BY <1>1, <1>2, <1>3, <1>4 DEF Next, Finalizes

LEMMA InvariantStep == IInv /\ [Next]_vars => IInv'
BY TypeStep, RosterStep, SaveStep DEF IInv

LEMMA Invariance == Spec => []IInv
BY InitInvariant, InvariantStep, PTL DEF Spec

\* A finalised list is the confirmed applications, one team each, although a save
\* of the settings or an edit of members may be under way when it is finalised.
THEOREM RosterIsComplete == Spec => []FinalizedRoster
<1>1. IInv => FinalizedRoster
  BY DEF IInv
<1> QED
  BY <1>1, Invariance, PTL

LEMMA FrozenStep ==
    ASSUME IInv, [Next]_vars, finalized
    PROVE  /\ finalized' /\ ~Open'
           /\ \A a \in Applications : /\ row'[a].status = row[a].status
                                      /\ teamsMade'[a] = teamsMade[a]
           /\ linked' \subseteq linked
<1>1. DecidesNothing
  BY StepShape DEF IInv, Deliberates, Finalizes, Finalize
<1>2. ~Open'
  BY <1>1 DEF DecidesNothing, Open, PhaseStatus
<1> QED
  BY <1>1, <1>2 DEF DecidesNothing

\* After the finalisation nothing is decided, no team is made, and the
\* registration never opens again, whatever save or edit was under way.
THEOREM RosterIsFinal == Spec => FrozenAfterFinalization
<1>1. IInv /\ [Next]_vars =>
         [finalized => /\ finalized' /\ ~Open'
                       /\ \A a \in Applications : /\ row'[a].status = row[a].status
                                                  /\ teamsMade'[a] = teamsMade[a]
                       /\ linked' \subseteq linked]_vars
  BY FrozenStep
<1> QED
  BY <1>1, Invariance, PTL DEF Spec, FrozenAfterFinalization

-----------------------------------------------------------------------------
(* The refinement.                                                          *)

LEMMA FreezeInit == Init => Freeze!Init
<1> SUFFICES ASSUME Init PROVE Freeze!Init
  OBVIOUS
<1>1. \A a \in Applications : Standing(a) = "absent"
  BY DEF Init, Standing, NoRow, Terminal
<1> QED
  BY <1>1 DEF Init, Freeze!Init

LEMMA FreezeStep == IInv /\ [Next]_vars => [Freeze!Next]_(Freeze!vars)
<1> SUFFICES ASSUME IInv, [Next]_vars PROVE [Freeze!Next]_(Freeze!vars)
  OBVIOUS
<1>1. CASE Deliberates
  <2>1. \A a \in Applications : Standing(a)' \in {"absent", "open", "admitted", "out"}
    BY DEF Standing, Terminal
  <2>2. \A a \in Applications : Standing(a)' = "absent" => Standing(a) = "absent"
    BY <1>1 DEF Standing, Terminal, Deliberates
  <2>3. Freeze!Deliberate
    BY <1>1, <2>1, <2>2 DEF Freeze!Deliberate, Deliberates
  <2> QED
    BY <2>3 DEF Freeze!Next
<1>2. CASE DecidesNothing
  <2>1. \A a \in Applications : Standing(a)' = Standing(a)
    BY <1>2 DEF DecidesNothing, Standing
  <2> QED
    BY <2>1, <1>2 DEF Freeze!vars, DecidesNothing
<1>3. CASE Finalizes
  <2>1. ~finalized /\ finalized' /\ row' = row
    BY <1>3 DEF Finalizes, Finalize, applicationVars
  <2>2. \A a \in Applications : Standing(a) # "open"
    BY <1>3 DEF Finalizes, Finalize, Standing, Unresolved, Terminal, IInv, TypeOK, Row, Statuses
  <2>3. \A a \in Applications : Standing(a)' = Standing(a)
    BY <2>1 DEF Standing
  <2>4. FinalizedRoster' /\ TypeOK'
    BY InvariantStep DEF IInv
  <2>5. \A a \in Applications : Standing(a) = "admitted" <=> row[a].status = "CONFIRMED"
    BY DEF Standing, Terminal
  <2>6. teamsMade' = [a \in Applications |-> IF Standing(a) = "admitted" THEN 1 ELSE 0]
    BY <2>1, <2>4, <2>5 DEF FinalizedRoster, TypeOK
  <2>7. Freeze!FreezeRoster
    BY <2>1, <2>2, <2>3, <2>6 DEF Freeze!FreezeRoster
  <2> QED
    BY <2>7 DEF Freeze!Next
<1> QED
  BY <1>1, <1>2, <1>3, StepShape DEF IInv

\* The registration implements the roster freeze.
THEOREM RosterFreezeImplemented == Spec => FreezesTheRoster
BY FreezeInit, FreezeStep, Invariance, PTL DEF Spec, Freeze!Spec, FreezesTheRoster
-----------------------------------------------------------------------------
(* Numbering: what the ranking and the renumbering give to a pool.          *)

LEMMA PoolFinite ==
    ASSUME NEW S \in SUBSET Applications
    PROVE  IsFiniteSet(S) /\ Cardinality(S) \in Nat
<1>1. IsFiniteSet(Applications)
  BY BoundAssumption, FS_Interval DEF Applications
<1> QED
  BY <1>1, FS_Subset, FS_CardinalityType

\* Different numbers, none above how many there are, are the first numbers.
LEMMA NumbersAreFirst ==
    ASSUME NEW S \in SUBSET Applications, NEW f \in [S -> 1..Cardinality(S)],
           \A a, b \in S : f[a] = f[b] => a = b
    PROVE  \A i \in 1..Cardinality(S) : \E a \in S : f[a] = i
<1>1. Cardinality(S) \in Nat
  BY PoolFinite
<1>2. IsFiniteSet(1..Cardinality(S)) /\ Cardinality(1..Cardinality(S)) = Cardinality(S)
  BY <1>1, FS_Interval
<1>3. f \in Injection(S, 1..Cardinality(S))
  BY DEF Injection, IsInjective
<1>4. f \in Surjection(S, 1..Cardinality(S))
  BY <1>2, <1>3, FS_Injection
<1> QED
  BY <1>4 DEF Surjection

Rank(rows, s) == Ranking(Pool(rows), [a \in Applications |-> rows[a].class], s.rules)
Full(rows, s) == s.capacity # 0 /\ s.capacity < Cardinality(Pool(rows))

\* The ranking numbers the pool 1, 2, 3, ...
LEMMA RankNumbers ==
    ASSUME NEW rows \in [Applications -> Row], NEW s \in Settings
    PROVE  /\ Pool(rows) \in SUBSET Applications /\ s.capacity \in Nat
           /\ Cardinality(Pool(rows)) \in Nat
           /\ Rank(rows, s) \in [Pool(rows) -> 1..Cardinality(Pool(rows))]
           /\ \A a, b \in Pool(rows) : Rank(rows, s)[a] = Rank(rows, s)[b] => a = b
           /\ \A i \in 1..Cardinality(Pool(rows)) : \E a \in Pool(rows) : Rank(rows, s)[a] = i
<1>1. Pool(rows) \in SUBSET Applications
  BY DEF Pool
<1> DEFINE class == [a \in Applications |-> rows[a].class]
<1>2. class \in [Applications -> Classes] /\ s.rules \in Rules /\ s.capacity \in Nat
  BY DEF Row, Settings
<1>r. Rank(rows, s) = Ranking(Pool(rows), class, s.rules)
  BY DEF Rank
<1> HIDE DEF class
<1>3. /\ Rank(rows, s) \in [Pool(rows) -> 1..Cardinality(Pool(rows))]
      /\ \A a, b \in Pool(rows) : Rank(rows, s)[a] = Rank(rows, s)[b] => a = b
  BY <1>1, <1>2, <1>r, RankingAssumption
<1>4. \A i \in 1..Cardinality(Pool(rows)) : \E a \in Pool(rows) : Rank(rows, s)[a] = i
  BY <1>1, <1>3, NumbersAreFirst
<1> QED
  BY <1>1, <1>2, <1>3, <1>4, PoolFinite

\* What a recalculation leaves of each application.
LEMMA PlacedRows ==
    ASSUME NEW rows \in [Applications -> Row], NEW s \in Settings, NEW a \in Applications
    PROVE  LET placed == Overwrite(rows, Placed(rows, s))
           IN  /\ a \notin Pool(rows) => placed[a] = rows[a]
               /\ a \in Pool(rows) =>
                    IF Full(rows, s) /\ ~(Rank(rows, s)[a] <= s.capacity)
                    THEN /\ placed[a].status = "WAITLISTED"
                         /\ placed[a].position = Rank(rows, s)[a] - s.capacity
                    ELSE placed[a].status = "CONFIRMED" /\ placed[a].position = 0
<1> DEFINE writes == Placed(rows, s)
           placed == Overwrite(rows, writes)
<1>1. writes \in Writes
  BY PlacedType
<1>2. placed[a] = IF writes[a] = None THEN rows[a]
                  ELSE [rows[a] EXCEPT !.status = writes[a].status,
                                       !.position = writes[a].position,
                                       !.reason = writes[a].reason]
  BY DEF Overwrite
<1>3. rows[a] \in Row
  OBVIOUS
<1>4. CASE a \notin Pool(rows)
  BY <1>2, <1>4 DEF Placed
<1>5. CASE a \in Pool(rows)
  <2>1. s.capacity \in Nat /\ Cardinality(Pool(rows)) \in Nat
    BY RankNumbers
  <2>2. writes[a] = IF ~Full(rows, s)
                    THEN [status |-> "CONFIRMED", position |-> 0, reason |-> "UNLIMITED"]
                    ELSE IF Rank(rows, s)[a] <= s.capacity
                    THEN [status |-> "CONFIRMED", position |-> 0, reason |-> "PLACE"]
                    ELSE [status |-> "WAITLISTED", position |-> Rank(rows, s)[a] - s.capacity,
                          reason |-> "WAITLIST"]
    BY <1>5, <2>1 DEF Placed, Full, Rank
  <2>3. writes[a] # None
    BY <1>5, PlacedType, NoneAssumption
  <2>4. placed[a].status = writes[a].status /\ placed[a].position = writes[a].position
    BY <1>2, <1>3, <2>3 DEF Row
  <2> QED
    BY <1>5, <2>2, <2>4
<1> QED
  BY <1>4, <1>5

\* The waitlist of some rows, as WaitlistInOrder states it, and what is needed to
\* restore it; the places, as PlacesFilledExactly states them.
InOrder(rows) ==
    /\ {rows[a].position : a \in Waiting(rows)} = 1..Cardinality(Waiting(rows))
    /\ \A a \in Applications \ Waiting(rows) : rows[a].position = 0
Unplaced(rows) == \A a \in Applications \ Waiting(rows) : rows[a].position = 0
Admitted(rows) == {a \in Applications : rows[a].status = "CONFIRMED"}
Filled(rows, s) ==
    /\ s.capacity # 0 => Cardinality(Admitted(rows)) <= s.capacity
    /\ Waiting(rows) # {} => Cardinality(Admitted(rows)) = s.capacity

\* Positions that are the first numbers, one each, are in order.
LEMMA OrderFromNumbers ==
    ASSUME NEW rows \in [Applications -> Row], Unplaced(rows), NEW c \in Nat,
           \A a \in Waiting(rows) : rows[a].position \in 1..c,
           \A a, b \in Waiting(rows) : rows[a].position = rows[b].position => a = b,
           \/ c = Cardinality(Waiting(rows))
           \/ \A i \in 1..c : \E a \in Waiting(rows) : rows[a].position = i
    PROVE  InOrder(rows)
<1> DEFINE W == Waiting(rows)
           f == [a \in W |-> rows[a].position]
<1>1. W \in SUBSET Applications
  BY DEF Waiting
<1>2. f \in [W -> 1..c] /\ \A a, b \in W : f[a] = f[b] => a = b
  OBVIOUS
<1>3. c = Cardinality(W) /\ \A i \in 1..c : \E a \in W : f[a] = i
  <2>1. CASE c = Cardinality(W)
    BY <1>1, <1>2, <2>1, NumbersAreFirst, ZenonT(20)
  <2>2. CASE \A i \in 1..c : \E a \in W : f[a] = i
    <3>1. f \in Bijection(W, 1..c)
      BY <1>2, <2>2 DEF Bijection, Injection, Surjection, IsInjective
    <3>2. Cardinality(1..c) = Cardinality(W)
      BY <1>1, <3>1, PoolFinite, FS_Bijection DEF ExistsBijection
    <3>3. Cardinality(1..c) = c
      BY FS_Interval
    <3> QED
      BY <2>2, <3>2, <3>3
  <2> QED
    BY <2>1, <2>2
<1>4. {rows[a].position : a \in W} = 1..Cardinality(W)
  <2>1. \A a \in W : rows[a].position \in 1..Cardinality(W)
    BY <1>3
  <2>2. \A i \in 1..Cardinality(W) : \E a \in W : rows[a].position = i
    BY <1>3
  <2> QED
    BY <2>1, <2>2
<1> QED
  BY <1>4 DEF InOrder, Unplaced

\* A recalculation gives every place there is, and numbers those who wait.
LEMMA RecalculationPlaces ==
    ASSUME NEW rows \in [Applications -> Row], NEW s \in Settings, Unplaced(rows)
    PROVE  LET placed == Overwrite(rows, Placed(rows, s))
           IN  InOrder(placed) /\ Filled(placed, s)
<1> DEFINE placed == Overwrite(rows, Placed(rows, s))
           P == Pool(rows)
           rank == Rank(rows, s)
           c == s.capacity
           n == Cardinality(Pool(rows))
<1>1. /\ P \in SUBSET Applications /\ c \in Nat /\ n \in Nat
      /\ rank \in [P -> 1..n]
      /\ \A a, b \in P : rank[a] = rank[b] => a = b
      /\ \A i \in 1..n : \E a \in P : rank[a] = i
  BY RankNumbers
<1>2. placed \in [Applications -> Row]
  BY PlacedType, OverwriteType
<1>3. \A a \in Applications :
         /\ a \notin P => placed[a] = rows[a]
         /\ a \in P => IF Full(rows, s) /\ ~(rank[a] <= c)
                       THEN /\ placed[a].status = "WAITLISTED"
                            /\ placed[a].position = rank[a] - c
                       ELSE placed[a].status = "CONFIRMED" /\ placed[a].position = 0
  BY PlacedRows
<1>4. \A a \in Applications : a \notin P => rows[a].status \notin {"CONFIRMED", "WAITLISTED"}
  BY DEF Pool
<1>f. Full(rows, s) <=> c # 0 /\ c < n
  BY DEF Full
<1> HIDE DEF placed, P, rank, c, n
<1>5. Waiting(placed) = {a \in P : Full(rows, s) /\ ~(rank[a] <= c)}
  BY <1>1, <1>3, <1>4 DEF Waiting
<1>6. Admitted(placed) = {a \in P : ~Full(rows, s) \/ rank[a] <= c}
  BY <1>1, <1>3, <1>4 DEF Admitted
<1>7. Unplaced(placed)
  <2>1. SUFFICES ASSUME NEW a \in Applications, a \notin Waiting(placed)
                 PROVE  placed[a].position = 0
    BY DEF Unplaced
  <2>2. CASE a \in P
    BY <1>3, <1>5, <2>1, <2>2
  <2>3. CASE a \notin P
    BY <1>3, <1>4, <2>3 DEF Unplaced, Waiting
  <2> QED
    BY <2>2, <2>3
<1>8. CASE ~Full(rows, s)
  <2>1. Waiting(placed) = {} /\ Admitted(placed) = P
    BY <1>5, <1>6, <1>8
  <2>2. InOrder(placed)
    BY <1>2, <1>7, <2>1, FS_EmptySet, OrderFromNumbers
  <2>3. Filled(placed, s)
    <3>1. c # 0 => n <= c
      BY <1>1, <1>8, <1>f
    <3> QED
      BY <2>1, <3>1 DEF Filled, c, n, P
  <2> QED
    BY <2>2, <2>3 DEF placed
<1>9. CASE Full(rows, s)
  <2>0. c # 0 /\ c < n /\ c \in Nat /\ n \in Nat
    BY <1>1, <1>9, <1>f
  <2> DEFINE W == Waiting(placed)
             A == Admitted(placed)
             first == [a \in A |-> rank[a]]
  <2>1. W = {a \in P : ~(rank[a] <= c)} /\ A = {a \in P : rank[a] <= c}
    BY <1>5, <1>6, <1>9
  <2>2. \A a \in P : rank[a] \in Nat /\ 1 <= rank[a] /\ rank[a] <= n
    BY <1>1
  <2>3. \A a \in W : a \in P /\ c < rank[a] /\ placed[a].position = rank[a] - c
    BY <1>1, <1>3, <1>9, <2>0, <2>1, <2>2
  <2> HIDE DEF W, A
  <2>4. InOrder(placed)
    <3>1. \A a \in W : placed[a].position \in 1..(n - c)
      BY <2>0, <2>2, <2>3
    <3>2. ASSUME NEW a \in W, NEW b \in W, placed[a].position = placed[b].position
          PROVE  a = b
      <4>1. rank[a] - c = rank[b] - c /\ rank[a] \in Nat /\ rank[b] \in Nat
        BY <2>2, <2>3, <3>2
      <4>2. rank[a] = rank[b]
        BY <2>0, <4>1
      <4> QED
        BY <1>1, <2>3, <4>2
    <3>3. ASSUME NEW i \in 1..(n - c) PROVE \E a \in W : placed[a].position = i
      <4>1. i + c \in 1..n /\ i \in Nat /\ 1 <= i
        BY <2>0
      <4>2. PICK a \in P : rank[a] = i + c
        BY <1>1, <4>1
      <4>3. ~(rank[a] <= c) /\ rank[a] - c = i
        BY <2>0, <4>1, <4>2
      <4> QED
        BY <2>1, <2>3, <4>2, <4>3
    <3>4. n - c \in Nat
      BY <2>0
    <3> QED
      BY <1>2, <1>7, <3>1, <3>2, <3>3, <3>4, OrderFromNumbers DEF W
  <2>5. Cardinality(A) = c
    <3>1. first \in [A -> 1..c] /\ \A a, b \in A : first[a] = first[b] => a = b
      BY <1>1, <2>0, <2>1, <2>2
    <3>2. ASSUME NEW i \in 1..c PROVE \E a \in A : first[a] = i
      <4>1. i \in 1..n /\ i <= c
        BY <2>0
      <4> QED
        BY <1>1, <2>1, <4>1
    <3>3. first \in Bijection(A, 1..c)
      BY <3>1, <3>2 DEF Bijection, Injection, Surjection, IsInjective
    <3>4. IsFiniteSet(A)
      BY <1>1, <2>1, PoolFinite
    <3> HIDE DEF first
    <3>5. Cardinality(1..c) = Cardinality(A)
      BY <3>3, <3>4, FS_Bijection DEF ExistsBijection
    <3> QED
      BY <2>0, <3>5, FS_Interval
  <2>6. Filled(placed, s)
    BY <2>0, <2>5 DEF Filled, A, c
  <2> QED
    BY <2>4, <2>6 DEF placed
<1> QED
  BY <1>8, <1>9

\* The renumbering closes the gaps: those who wait keep their order.
LEMMA ReindexingNumbers ==
    ASSUME NEW rows \in [Applications -> Row], Unplaced(rows)
    PROVE  InOrder(Reindexed(rows))
<1> DEFINE key(a) == IF rows[a].position = 0 THEN MaxApplications + 1 ELSE rows[a].position
           before(a, b) == key(a) < key(b) \/ (key(a) = key(b) /\ a < b)
           W == Waiting(rows)
           ahead(a) == {b \in W : before(b, a)}
           placed == Reindexed(rows)
<1>1. placed = [a \in Applications |->
            IF a \in W THEN [rows[a] EXCEPT !.position = 1 + Cardinality(ahead(a))]
            ELSE rows[a]]
  BY DEF Reindexed
<1>2. /\ placed \in [Applications -> Row]
      /\ \A a \in Applications : placed[a].status = rows[a].status
  BY ReindexedType
<1>3. Waiting(placed) = W /\ W \in SUBSET Applications
  BY <1>2 DEF Waiting
<1>4. \A a, b \in W : key(a) \in Nat /\ a \in Nat
  BY <1>3, BoundAssumption DEF Row, Applications
<1>k. \A a, b, c \in W : before(a, b) /\ before(b, c) => before(a, c)
  BY <1>4
<1>l. \A a, b \in W : ~before(a, a) /\ (a # b => before(a, b) \/ before(b, a))
  BY <1>4
<1> HIDE DEF before, placed
<1>5. \A a \in W : placed[a].position = 1 + Cardinality(ahead(a))
  <2>1. SUFFICES ASSUME NEW a \in W PROVE placed[a].position = 1 + Cardinality(ahead(a))
    OBVIOUS
  <2> DEFINE n == 1 + Cardinality(ahead(a))
  <2>2. rows[a] \in Row /\ a \in Applications
    BY <1>3
  <2>3. placed[a] = [rows[a] EXCEPT !.position = n]
    BY <1>1, <2>2
  <2> HIDE DEF n
  <2>4. placed[a].position = n
    BY <2>2, <2>3 DEF Row
  <2> QED
    BY <2>4 DEF n
<1>6. IsFiniteSet(W) /\ Cardinality(W) \in Nat
  BY <1>3, PoolFinite
<1>7. ASSUME NEW a \in W
      PROVE  /\ Cardinality(ahead(a)) \in Nat /\ IsFiniteSet(ahead(a))
             /\ Cardinality(ahead(a)) < Cardinality(W)
  <2>1. ahead(a) \in SUBSET W /\ a \notin ahead(a)
    BY <1>l
  <2>2. /\ IsFiniteSet(ahead(a)) /\ Cardinality(ahead(a)) <= Cardinality(W)
        /\ Cardinality(ahead(a)) # Cardinality(W)
    BY <1>6, <2>1, FS_Subset
  <2>3. Cardinality(ahead(a)) \in Nat
    BY <2>2, FS_CardinalityType
  <2> QED
    BY <1>6, <2>2, <2>3
<1>8. ASSUME NEW a \in W, NEW b \in W, before(a, b)
      PROVE  Cardinality(ahead(a)) # Cardinality(ahead(b))
  <2>1. ahead(a) \in SUBSET ahead(b) /\ a \in ahead(b) /\ a \notin ahead(a)
    BY <1>8, <1>k, <1>l
  <2>2. IsFiniteSet(ahead(b))
    BY <1>7
  <2> QED
    BY <2>1, <2>2, FS_Subset
<1> HIDE DEF ahead
<1>9. \A a \in W : placed[a].position \in 1..Cardinality(W)
  BY <1>5, <1>6, <1>7
<1>10. ASSUME NEW a \in W, NEW b \in W, placed[a].position = placed[b].position
       PROVE  a = b
  <2>1. Cardinality(ahead(a)) = Cardinality(ahead(b))
    BY <1>5, <1>7, <1>10
  <2> QED
    BY <1>8, <1>l, <2>1
<1>11. Unplaced(placed)
  BY <1>1, <1>3 DEF Unplaced
<1> QED
  BY <1>2, <1>3, <1>6, <1>9, <1>10, <1>11, OrderFromNumbers DEF placed

-----------------------------------------------------------------------------
(* The split handlers when they run alone: what an operation has read is     *)
(* still so when it commits.                                                 *)

Settled ==
    /\ save # None =>
         /\ edit = None
         /\ save.writes = PlannedWrites(save.settings)
         /\ \A a \in Applications : a \in save.moved <=>
               save.writes[a] # None /\ save.writes[a].status # row[a].status
    /\ edit # None => edit.status = row[edit.target].status

\* A step that touches neither of the split handlers finds none of them under way.
LEMMA OthersAreAlone ==
    ASSUME Interleaved = {}, [Next]_vars
    PROVE  \/ save = None /\ edit = None /\ UNCHANGED <<save, edit>>
           \/ UNCHANGED vars
           \/ MembersCommit \/ SettingsCommit
           \/ \E a \in Applications, roster \in Rosters : MembersBegin(a, roster)
           \/ \E s \in SettingsChoices : SettingsBegin(s)
<1>1. Undisturbed => save = None /\ edit = None
  BY DEF Undisturbed
<1>2. ASSUME NEW a \in Applications, NEW class \in Classes, NEW roster \in Rosters,
             \/ CreateApplication(a, class, roster)
             \/ UpdateApplication(a, class, roster)
             \/ OrganizerCreate(a, class, roster)
             \/ OrganizerEdit(a, class, roster)
      PROVE  Undisturbed /\ UNCHANGED <<save, edit>>
  BY <1>2 DEF CreateApplication, UpdateApplication, OrganizerCreate, OrganizerEdit, OrganizerSaved
<1>3. ASSUME NEW a \in Applications,
             \/ WithdrawApplication(a) \/ DeleteTeam(a)
             \/ \E action \in Actions : Decide(a, action)
      PROVE  Undisturbed /\ UNCHANGED <<save, edit>>
  BY <1>3 DEF WithdrawApplication, DeleteTeam, Decide
<1>4. ASSUME \/ Finalizes \/ Tick
             \/ \E status \in Lifecycle : ChangeCompetitionStatus(status)
      PROVE  Undisturbed /\ UNCHANGED <<save, edit>>
  BY <1>4 DEF Finalizes, Finalize, Tick, ChangeCompetitionStatus
<1> QED
  BY <1>1, <1>2, <1>3, <1>4 DEF Next, Finalizes

LEMMA SettledStep ==
    ASSUME Interleaved = {}, TypeOK, Settled, [Next]_vars
    PROVE  Settled'
<1>1. CASE save = None /\ edit = None /\ UNCHANGED <<save, edit>>
  BY <1>1 DEF Settled
<1>2. CASE UNCHANGED vars
  <2>1. UNCHANGED <<row, finalized, save, edit>>
    BY <1>2 DEF vars, applicationVars, phaseVars
  <2>2. PlannedWrites(save.settings)' = PlannedWrites(save.settings)
    BY <2>1 DEF PlannedWrites
  <2> QED
    BY <2>1, <2>2 DEF Settled
<1>3. CASE MembersCommit
  BY <1>3 DEF MembersCommit, Settled
<1>4. CASE SettingsCommit
  BY <1>4 DEF SettingsCommit, Settled
<1>5. ASSUME NEW a \in Applications, NEW roster \in Rosters, MembersBegin(a, roster)
      PROVE  Settled'
  <2>1. save = None /\ save' = save /\ row' = row
    BY <1>5 DEF MembersBegin, Undisturbed, applicationVars
  <2>2. edit'.target = a /\ edit'.status = row[a].status
    BY <1>5 DEF MembersBegin
  <2> QED
    BY <2>1, <2>2 DEF Settled
<1>6. ASSUME NEW s \in SettingsChoices, SettingsBegin(s) PROVE Settled'
  <2>1. /\ edit = None /\ edit' = edit /\ row' = row /\ finalized' = finalized
        /\ save' = [settings |-> s, writes |-> PlannedWrites(s),
                    moved |-> {a \in Applications : PlannedWrites(s)[a] # None
                                 /\ PlannedWrites(s)[a].status # row[a].status}]
    BY <1>6 DEF SettingsBegin, Undisturbed, applicationVars, phaseVars
  <2>3. /\ save'.settings = s /\ save'.writes = PlannedWrites(s)
        /\ \A a \in Applications : a \in save'.moved <=>
              PlannedWrites(s)[a] # None /\ PlannedWrites(s)[a].status # row[a].status
    BY <2>1
  <2>4. PlannedWrites(save.settings)' = PlannedWrites(s)
    BY <2>1, <2>3 DEF PlannedWrites
  <2> QED
    BY <2>1, <2>3, <2>4 DEF Settled
<1> QED
  BY <1>1, <1>2, <1>3, <1>4, <1>5, <1>6, OthersAreAlone

-----------------------------------------------------------------------------
(* What a step makes of the applications.                                   *)

Tells(record, rows) == \A a \in Applications : record[a] = rows[a].status

\* A step that decides about one application (`rows') and then places the others.
Redecides(rows, history) ==
    /\ rows \in [Applications -> Row] /\ Unplaced(rows) /\ Tells(history, rows)
    /\ \/ row' = Recalculated(rows)
       \/ /\ ~(Automatic /\ Open)
          /\ row' = Reindexed(rows) \/ (row' = rows /\ InOrder(rows))
    /\ log' = Changed(history, rows, row')
    /\ UNCHANGED <<settings, finalized>>

\* A step that leaves every status, every position and every history as they are.
LeavesPlaces ==
    \A a \in Applications : /\ row'[a].status = row[a].status
                            /\ row'[a].position = row[a].position
                            /\ log'[a] = log[a]

\* A save that nothing came between writes what a recalculation would.
ReplacesPlaces ==
    /\ LeavesPlaces \/ row' = Overwrite(row, Placed(row, settings'))
    /\ Automatic' /\ Open' => row' = Overwrite(row, Placed(row, settings'))
    /\ settings' \in Settings /\ Tells(log', row')

LEMMA SameWaitlist ==
    ASSUME NEW rows \in [Applications -> Row], NEW placed \in [Applications -> Row],
           InOrder(rows), Waiting(placed) = Waiting(rows),
           \A a \in Applications : placed[a].position = rows[a].position
    PROVE  InOrder(placed)
<1>1. \A a \in Waiting(rows) : a \in Applications
  BY DEF Waiting
<1>2. {placed[a].position : a \in Waiting(rows)} = {rows[a].position : a \in Waiting(rows)}
  BY <1>1
<1> QED
  BY <1>2 DEF InOrder

\* An application that is not waiting for a place is decided about.
LEMMA AmendedRows ==
    ASSUME TypeOK, WaitlistInOrder, HistoryTellsStatus, NEW a \in Applications,
           NEW r \in Row, r.position = 0, r.status # "NONE"
    PROVE  LET rows == [row EXCEPT ![a] = r]
           IN  /\ rows \in [Applications -> Row] /\ Unplaced(rows)
               /\ Tells([log EXCEPT ![a] = r.status], rows)
               /\ row[a].status # "WAITLISTED" /\ r.status # "WAITLISTED" => InOrder(rows)
<1> DEFINE rows == [row EXCEPT ![a] = r]
<1>1. rows \in [Applications -> Row] /\ \A b \in Applications : rows[b] = IF b = a THEN r ELSE row[b]
  BY DEF TypeOK
<1>2. Tells([log EXCEPT ![a] = r.status], rows)
  BY <1>1 DEF Tells, TypeOK, HistoryTellsStatus
<1> HIDE DEF rows
<1>3. Unplaced(rows)
  BY <1>1 DEF Unplaced, Waiting, WaitlistInOrder
<1>4. ASSUME row[a].status # "WAITLISTED", r.status # "WAITLISTED" PROVE InOrder(rows)
  <2>1. Waiting(rows) = Waiting(row)
    BY <1>1, <1>4 DEF Waiting
  <2>2. \A b \in Applications : rows[b].position = row[b].position
    BY <1>1, <1>4 DEF Waiting, WaitlistInOrder
  <2>3. InOrder(row) /\ row \in [Applications -> Row]
    BY DEF InOrder, WaitlistInOrder, TypeOK
  <2> QED
    BY <1>1, <2>1, <2>2, <2>3, SameWaitlist
<1> QED
  BY <1>1, <1>2, <1>3, <1>4 DEF rows

LEMMA ApplicantRedecides ==
    ASSUME TypeOK, WaitlistInOrder, HistoryTellsStatus,
           NEW a \in Applications, NEW class \in Classes, NEW roster \in Rosters,
           \/ CreateApplication(a, class, roster)
           \/ UpdateApplication(a, class, roster)
    PROVE  \E rows, history : Redecides(rows, history)
<1> DEFINE r == [status |-> AfterSubmission, position |-> 0, reason |-> "NONE",
                 class |-> class, roster |-> roster]
           rows == [row EXCEPT ![a] = r]
           history == [log EXCEPT ![a] = AfterSubmission]
<1>1. r \in Row /\ r.position = 0 /\ r.status = AfterSubmission /\ r.status # "NONE"
  BY DEF Row, AfterSubmission, Statuses, Reasons
<1>2. ~Automatic => r.status # "WAITLISTED"
  BY <1>1 DEF AfterSubmission
<1>3. /\ log' = Changed(history, rows, row') /\ UNCHANGED <<settings, finalized>>
      /\ Automatic => row' = Recalculated(rows)
      /\ ~Automatic => row' = Reindexed(rows) \/ (row' = rows /\ row[a].status = "NONE")
  BY DEF CreateApplication, UpdateApplication, phaseVars, Submitted
<1> HIDE DEF r
<1>4. /\ rows \in [Applications -> Row] /\ Unplaced(rows) /\ Tells(history, rows)
      /\ row[a].status # "WAITLISTED" /\ r.status # "WAITLISTED" => InOrder(rows)
  BY <1>1, AmendedRows
<1> HIDE DEF rows, history
<1>5. Redecides(rows, history)
  BY <1>2, <1>3, <1>4 DEF Redecides
<1> QED
  BY <1>5

\* Decided writes status, position and reason, and keeps what was entered.
LEMMA DecidedRow ==
    ASSUME TypeOK, NEW a \in Applications, NEW status \in Statuses, NEW reason \in Reasons
    PROVE  \E r \in Row : /\ Decided(a, status, reason) = [row EXCEPT ![a] = r]
                          /\ r.status = status /\ r.position = 0 /\ r.roster = row[a].roster
<1> DEFINE r == [row[a] EXCEPT !.status = status, !.position = 0, !.reason = reason]
<1>1. row[a] \in Row
  BY DEF TypeOK
<1>2. r \in Row /\ r.status = status /\ r.position = 0 /\ r.roster = row[a].roster
  BY <1>1 DEF Row
<1>3. Decided(a, status, reason) = [row EXCEPT ![a] = r]
  BY DEF Decided
<1> QED
  BY <1>2, <1>3

LEMMA WithdrawRedecides ==
    ASSUME TypeOK, WaitlistInOrder, HistoryTellsStatus, NEW a \in Applications,
           WithdrawApplication(a)
    PROVE  \E rows, history : Redecides(rows, history)
<1> DEFINE rows == Decided(a, "WITHDRAWN", "NONE")
           history == [log EXCEPT ![a] = "WITHDRAWN"]
<1>1. "WITHDRAWN" \in Statuses /\ "NONE" \in Reasons
  BY DEF Statuses, Reasons
<1>2. /\ log' = Changed(history, rows, row') /\ UNCHANGED <<settings, finalized>>
      /\ Automatic => row' = Recalculated(rows)
      /\ ~Automatic => row' = Reindexed(rows)
  BY DEF WithdrawApplication, phaseVars
<1>3. PICK r \in Row : /\ rows = [row EXCEPT ![a] = r]
                       /\ r.status = "WITHDRAWN" /\ r.position = 0
  BY <1>1, DecidedRow
<1>4. rows \in [Applications -> Row] /\ Unplaced(rows) /\ Tells(history, rows)
  <2> HIDE DEF rows
  <2>1. r.status # "NONE" /\ history = [log EXCEPT ![a] = r.status]
    BY <1>3
  <2> HIDE DEF history
  <2> QED
    BY <1>3, <2>1, AmendedRows
<1> HIDE DEF rows, history
<1>5. Redecides(rows, history)
  BY <1>2, <1>4 DEF Redecides
<1> QED
  BY <1>5

LEMMA DecideRedecides ==
    ASSUME TypeOK, WaitlistInOrder, HistoryTellsStatus,
           NEW a \in Applications, NEW action \in Actions, Decide(a, action)
    PROVE  \E rows, history : Redecides(rows, history)
<1> DEFINE next == ActionStatus(action)
           reason == IF action = "REJECT" THEN "NONE" ELSE "ORGANIZER"
           rows == Decided(a, next, reason)
           history == [log EXCEPT ![a] = next]
<1>1. next \in Statuses /\ next # "NONE" /\ reason \in Reasons
  BY DEF Actions, ActionStatus, Statuses, Reasons
<1>2. /\ log' = Changed(history, rows, row') /\ UNCHANGED <<settings, finalized>>
      /\ \/ row' = Recalculated(rows)
         \/ row' = Reindexed(rows) /\ ~(Automatic /\ Open)
  BY DEF Decide, MayDecide, phaseVars
<1> HIDE DEF next, reason
<1>3. PICK r \in Row : /\ rows = [row EXCEPT ![a] = r]
                       /\ r.status = next /\ r.position = 0
  BY <1>1, DecidedRow
<1>4. rows \in [Applications -> Row] /\ Unplaced(rows) /\ Tells(history, rows)
  <2> HIDE DEF rows
  <2>1. r.status # "NONE" /\ history = [log EXCEPT ![a] = r.status]
    BY <1>1, <1>3
  <2> HIDE DEF history
  <2> QED
    BY <1>3, <2>1, AmendedRows
<1> HIDE DEF rows, history
<1>5. Redecides(rows, history)
  BY <1>2, <1>4 DEF Redecides
<1> QED
  BY <1>5

LEMMA OrganizerRedecides ==
    ASSUME TypeOK, WaitlistInOrder, HistoryTellsStatus,
           NEW a \in Applications, NEW class \in Classes, NEW roster \in Rosters,
           OrganizerCreate(a, class, roster) \/ OrganizerEdit(a, class, roster)
    PROVE  \E rows, history : Redecides(rows, history)
<1>1. ASSUME NEW rows \in [Applications -> Row], OrganizerSaved(a, rows), InOrder(rows),
             Tells([log EXCEPT ![a] = rows[a].status], rows)
      PROVE  \E history : Redecides(rows, history)
  <2> DEFINE history == [log EXCEPT ![a] = rows[a].status]
  <2>1. /\ log' = Changed(history, rows, row') /\ UNCHANGED <<settings, finalized>>
        /\ Automatic /\ Open => row' = Recalculated(rows)
        /\ ~(Automatic /\ Open) => row' = rows
    BY <1>1 DEF OrganizerSaved, phaseVars
  <2>2. Unplaced(rows)
    BY <1>1 DEF Unplaced, InOrder
  <2>3. Tells(history, rows)
    BY <1>1
  <2> HIDE DEF history
  <2>4. Redecides(rows, history)
    BY <1>1, <2>1, <2>2, <2>3 DEF Redecides
  <2> QED
    BY <2>4
<1>2. CASE OrganizerCreate(a, class, roster)
  <2> DEFINE r == [status |-> "CONFIRMED", position |-> 0, reason |-> "ORGANIZER",
                   class |-> class, roster |-> roster]
             rows == [row EXCEPT ![a] = r]
  <2>1. r \in Row /\ r.position = 0 /\ r.status = "CONFIRMED"
    BY DEF Row, Statuses, Reasons
  <2>2. row[a].status # "WAITLISTED" /\ OrganizerSaved(a, rows)
    BY <1>2 DEF OrganizerCreate, Submitted
  <2> HIDE DEF r
  <2>3. /\ rows \in [Applications -> Row] /\ InOrder(rows)
        /\ Tells([log EXCEPT ![a] = r.status], rows)
    BY <2>1, <2>2, AmendedRows
  <2>4. rows[a] = r
    BY DEF TypeOK
  <2> HIDE DEF rows
  <2> QED
    BY <1>1, <2>2, <2>3, <2>4
<1>3. CASE OrganizerEdit(a, class, roster)
  <2> DEFINE r == [row[a] EXCEPT !.class = class, !.roster = roster]
             rows == [row EXCEPT ![a] = r]
  <2>1. row \in [Applications -> Row] /\ row[a] \in Row
    BY DEF TypeOK
  <2>2. r \in Row /\ r.position = row[a].position /\ r.status = row[a].status
    BY <2>1 DEF Row
  <2>3. OrganizerSaved(a, rows)
    BY <1>3 DEF OrganizerEdit
  <2> HIDE DEF r
  <2>4. /\ rows \in [Applications -> Row]
        /\ \A b \in Applications : rows[b] = IF b = a THEN r ELSE row[b]
    BY <2>1, <2>2
  <2> HIDE DEF rows
  <2>5. \A b \in Applications : /\ rows[b].position = row[b].position
                                /\ rows[b].status = row[b].status
    BY <2>2, <2>4
  <2>6. Waiting(rows) = Waiting(row) /\ InOrder(row)
    BY <2>5 DEF Waiting, InOrder, WaitlistInOrder
  <2>7. InOrder(rows)
    BY <2>1, <2>4, <2>5, <2>6, SameWaitlist
  <2>8. Tells([log EXCEPT ![a] = rows[a].status], rows)
    BY <2>5 DEF Tells, TypeOK, HistoryTellsStatus
  <2> QED
    BY <1>1, <2>3, <2>4, <2>7, <2>8
<1> QED
  BY <1>2, <1>3

\* A save that runs alone writes the recalculation of what it finds: the rows it
\* does not write are those that the recalculation would write as they are.
LEMMA CommitReplaces ==
    ASSUME TypeOK, Settled, HistoryTellsStatus, SettingsCommit
    PROVE  ReplacesPlaces
<1> DEFINE s == save.settings
           writes == PlannedWrites(s)
           placed == Placed(row, s)
           full == s.approvalMode = "AUTOMATIC" /\ PhaseStatus(s, finalized) = "OPEN"
           stale == {a \in Pool(row) : \/ placed[a].status # row[a].status
                                       \/ placed[a].position # row[a].position
                                       \/ placed[a].reason # row[a].reason}
<1>1. save # None /\ save \in Save /\ s \in Settings /\ save.writes = writes
  BY DEF SettingsCommit, Settled, TypeOK, Save
<1>2. /\ settings' = s /\ finalized' = finalized
      /\ row' = Overwrite(row, writes)
      /\ log' = [a \in Applications |-> IF a \in save.moved THEN writes[a].status ELSE log[a]]
  BY <1>1 DEF SettingsCommit
<1>3. row \in [Applications -> Row] /\ writes \in Writes
  BY <1>1 DEF TypeOK, Save
<1>4. writes = [a \in Applications |-> IF full /\ a \in stale THEN placed[a] ELSE None]
  BY DEF PlannedWrites
<1>5. \A a \in Pool(row) : placed[a] \in Placement
  BY <1>1, <1>3, PlacedType
<1>p. \A a \in Applications : a \notin Pool(row) => placed[a] = None
  BY DEF Placed
<1>6. \A a \in Pool(row) : a \in Applications
  BY DEF Pool
<1> HIDE DEF writes, placed
<1>7. CASE ~full
  <2>1. \A a \in Applications : row'[a] = row[a]
    BY <1>2, <1>4, <1>7 DEF Overwrite
  <2>2. ~(Automatic' /\ Open')
    BY <1>2, <1>7 DEF Automatic, Open
  <2>3. \A a \in Applications : a \notin save.moved
    BY <1>1, <1>4, <1>7 DEF Settled
  <2>4. \A a \in Applications : log'[a] = log[a]
    BY <1>2, <2>3
  <2> QED
    BY <1>1, <1>2, <2>1, <2>2, <2>4
       DEF ReplacesPlaces, LeavesPlaces, Tells, HistoryTellsStatus
<1>8. CASE full
  <2>1. ASSUME NEW a \in Applications
        PROVE  Overwrite(row, writes)[a] = Overwrite(row, placed)[a]
    <3>1. CASE a \in stale
      <4>1. writes[a] = placed[a]
        BY <1>4, <1>8, <3>1
      <4> QED
        BY <4>1 DEF Overwrite
    <3>2. CASE a \notin Pool(row)
      <4>1. writes[a] = None /\ placed[a] = None
        BY <1>4, <1>p, <3>2
      <4> QED
        BY <4>1 DEF Overwrite
    <3>3. CASE a \in Pool(row) /\ a \notin stale
      <4>1. writes[a] = None
        BY <1>4, <3>3
      <4>2. /\ placed[a].status = row[a].status /\ placed[a].position = row[a].position
            /\ placed[a].reason = row[a].reason
        BY <3>3
      <4>3. row[a] \in Row
        BY <1>3
      <4>4. row[a] = [row[a] EXCEPT !.status = placed[a].status,
                                    !.position = placed[a].position,
                                    !.reason = placed[a].reason]
        BY <4>2, <4>3 DEF Row
      <4> QED
        BY <4>1, <4>4 DEF Overwrite
    <3> QED
      BY <3>1, <3>2, <3>3
  <2>2. Overwrite(row, writes) = Overwrite(row, placed)
    BY <2>1 DEF Overwrite
  <2>3. row' = Overwrite(row, Placed(row, settings'))
    BY <1>2, <2>2 DEF placed
  <2>4. ASSUME NEW a \in Applications PROVE log'[a] = row'[a].status
    <3>1. a \in save.moved <=> writes[a] # None /\ writes[a].status # row[a].status
      BY <1>1 DEF Settled
    <3>2. log'[a] = IF a \in save.moved THEN writes[a].status ELSE row[a].status
      BY <1>2 DEF HistoryTellsStatus
    <3>3. row'[a].status = IF writes[a] = None THEN row[a].status ELSE writes[a].status
      BY <1>2, <1>3 DEF Overwrite, Row
    <3> QED
      BY <3>1, <3>2, <3>3
  <2> QED
    BY <1>1, <1>2, <2>3, <2>4 DEF ReplacesPlaces, Tells
<1> QED
  BY <1>7, <1>8

LEMMA PlacesStep ==
    ASSUME Interleaved = {}, TypeOK, Settled, WaitlistInOrder, HistoryTellsStatus,
           [Next]_vars
    PROVE  \/ \E rows, history : Redecides(rows, history)
           \/ LeavesPlaces
           \/ ReplacesPlaces
<1>1. ASSUME NEW a \in Applications, NEW class \in Classes, NEW roster \in Rosters,
             \/ CreateApplication(a, class, roster)
             \/ UpdateApplication(a, class, roster)
             \/ OrganizerCreate(a, class, roster)
             \/ OrganizerEdit(a, class, roster)
      PROVE  \E rows, history : Redecides(rows, history)
  BY <1>1, ApplicantRedecides, OrganizerRedecides
<1>2. ASSUME NEW a \in Applications, WithdrawApplication(a)
      PROVE  \E rows, history : Redecides(rows, history)
  BY <1>2, WithdrawRedecides
<1>3. ASSUME NEW a \in Applications, NEW action \in Actions, Decide(a, action)
      PROVE  \E rows, history : Redecides(rows, history)
  BY <1>3, DecideRedecides
<1>4. ASSUME \/ \E a \in Applications : DeleteTeam(a)
             \/ \E a \in Applications, roster \in Rosters : MembersBegin(a, roster)
             \/ \E s \in SettingsChoices : SettingsBegin(s)
             \/ Finalizes
             \/ \E status \in Lifecycle : ChangeCompetitionStatus(status)
             \/ Tick
             \/ UNCHANGED vars
      PROVE  LeavesPlaces
  <2>1. UNCHANGED applicationVars
    BY <1>4 DEF DeleteTeam, MembersBegin, SettingsBegin, Finalizes, Finalize,
       ChangeCompetitionStatus, Tick, vars
  <2> QED
    BY <2>1 DEF LeavesPlaces, applicationVars
<1>5. CASE MembersCommit
  <2>1. edit \in Edit /\ edit.status = row[edit.target].status
    BY <1>5 DEF MembersCommit, TypeOK, Settled
  <2>2. /\ row' = [row EXCEPT ![edit.target].roster = edit.roster]
        /\ log' = [log EXCEPT ![edit.target] = edit.status]
    BY <1>5 DEF MembersCommit
  <2>3. edit.target \in Applications
    BY <2>1 DEF Edit
  <2>4. \A a \in Applications : /\ row'[a].status = row[a].status
                                /\ row'[a].position = row[a].position
    BY <2>2, <2>3 DEF TypeOK, Row
  <2>5. \A a \in Applications : log'[a] = log[a]
    BY <2>1, <2>2, <2>3 DEF TypeOK, HistoryTellsStatus
  <2> QED
    BY <2>4, <2>5 DEF LeavesPlaces
<1>6. CASE SettingsCommit
  BY <1>6, CommitReplaces
<1> QED
  BY <1>1, <1>2, <1>3, <1>4, <1>5, <1>6 DEF Next, Finalizes

\* The waitlist and the history, after any step.
LEMMA OrderStep ==
    ASSUME Interleaved = {}, TypeOK, Settled, WaitlistInOrder, HistoryTellsStatus,
           [Next]_vars
    PROVE  WaitlistInOrder' /\ HistoryTellsStatus'
<1>1. row \in [Applications -> Row] /\ settings \in Settings /\ row' \in [Applications -> Row]
  BY TypeStep DEF TypeOK
<1>2. SUFFICES InOrder(row') /\ Tells(log', row')
  BY DEF InOrder, Tells, WaitlistInOrder, HistoryTellsStatus, Waiting
<1>3. InOrder(row) /\ Tells(log, row) /\ Unplaced(row)
  BY DEF InOrder, Tells, WaitlistInOrder, HistoryTellsStatus, Unplaced
<1>4. ASSUME NEW rows, NEW history, Redecides(rows, history)
      PROVE  InOrder(row') /\ Tells(log', row')
  <2>1. /\ rows \in [Applications -> Row] /\ Unplaced(rows) /\ Tells(history, rows)
        /\ log' = Changed(history, rows, row')
        /\ \/ row' = Recalculated(rows)
           \/ row' = Reindexed(rows)
           \/ row' = rows /\ InOrder(rows)
    BY <1>4 DEF Redecides
  <2>2. InOrder(row')
    BY <1>1, <2>1, RecalculationPlaces, ReindexingNumbers DEF Recalculated
  <2>3. Tells(log', row')
    BY <2>1 DEF Changed, Tells
  <2> QED
    BY <2>2, <2>3
<1>5. CASE LeavesPlaces
  <2>1. Waiting(row') = Waiting(row)
    BY <1>5 DEF LeavesPlaces, Waiting
  <2>2. InOrder(row')
    BY <1>1, <1>3, <1>5, <2>1, SameWaitlist DEF LeavesPlaces
  <2> QED
    BY <1>3, <1>5, <2>2 DEF LeavesPlaces, Tells
<1>6. CASE ReplacesPlaces
  <2>1. CASE LeavesPlaces
    BY <1>5, <2>1
  <2>2. CASE row' = Overwrite(row, Placed(row, settings'))
    <3>1. settings' \in Settings /\ Tells(log', row')
      BY <1>6 DEF ReplacesPlaces
    <3> QED
      BY <1>1, <1>3, <2>2, <3>1, RecalculationPlaces
  <2> QED
    BY <1>6, <2>1, <2>2 DEF ReplacesPlaces
<1> QED
  BY <1>4, <1>5, <1>6, PlacesStep

\* A step that changes a status in an automatic registration fills the places.
LEMMA FilledStep ==
    ASSUME Interleaved = {}, TypeOK, Settled, WaitlistInOrder, HistoryTellsStatus,
           [Next]_vars,
           \E a \in Applications : row'[a].status # row[a].status, Automatic', Open'
    PROVE  Filled(row', settings')
<1>1. row \in [Applications -> Row] /\ settings \in Settings /\ Unplaced(row)
  BY DEF TypeOK, WaitlistInOrder, Unplaced
<1>2. ASSUME NEW rows, NEW history, Redecides(rows, history)
      PROVE  Filled(row', settings')
  <2>1. settings' = settings /\ Automatic /\ Open
    BY <1>2 DEF Redecides, Automatic, Open
  <2>2. row' = Recalculated(rows) /\ rows \in [Applications -> Row] /\ Unplaced(rows)
    BY <1>2, <2>1 DEF Redecides
  <2> QED
    BY <1>1, <2>1, <2>2, RecalculationPlaces DEF Recalculated
<1>3. CASE ReplacesPlaces
  <2>1. row' = Overwrite(row, Placed(row, settings')) /\ settings' \in Settings
    BY <1>3 DEF ReplacesPlaces
  <2> QED
    BY <1>1, <2>1, RecalculationPlaces
<1> QED
  BY <1>2, <1>3, PlacesStep DEF LeavesPlaces

OrderInv == TypeOK /\ Settled /\ WaitlistInOrder /\ HistoryTellsStatus

LEMMA InitOrder == Init => OrderInv
<1> SUFFICES ASSUME Init PROVE OrderInv
  OBVIOUS
<1>1. \A a \in Applications : row[a].status = "NONE" /\ row[a].position = 0 /\ log[a] = "NONE"
  BY DEF Init, NoRow
<1>2. Waiting(row) = {}
  BY <1>1 DEF Waiting
<1>3. {row[a].position : a \in Waiting(row)} = 1..Cardinality(Waiting(row))
  BY <1>2, FS_EmptySet
<1>4. Settled
  BY DEF Init, Settled
<1> QED
  BY <1>1, <1>3, <1>4, InitType DEF OrderInv, WaitlistInOrder, HistoryTellsStatus

LEMMA OrderInvariance ==
    ASSUME Interleaved = {}
    PROVE  Spec => []OrderInv
<1>1. OrderInv /\ [Next]_vars => OrderInv'
  BY TypeStep, SettledStep, OrderStep DEF OrderInv
<1> QED
  BY <1>1, InitOrder, PTL DEF Spec

\* The waitlist of a registration whose split handlers run alone is numbered
\* without a gap or a shared place, for any ranking and any number of applications.
THEOREM WaitlistHolds ==
    ASSUME Interleaved = {}
    PROVE  Spec => []WaitlistInOrder
<1>1. OrderInv => WaitlistInOrder
  BY DEF OrderInv
<1> QED
  BY <1>1, OrderInvariance, PTL

\* And the last event of each history tells the status of the row.
THEOREM HistoryHolds ==
    ASSUME Interleaved = {}
    PROVE  Spec => []HistoryTellsStatus
<1>1. OrderInv => HistoryTellsStatus
  BY DEF OrderInv
<1> QED
  BY <1>1, OrderInvariance, PTL

\* In an open automatic registration every step that changes a status, a save of
\* the settings included, leaves the places filled exactly.
THEOREM PlacesHold ==
    ASSUME Interleaved = {}
    PROVE  Spec => PlacesFilledExactly
<1> DEFINE A == LET admitted == Cardinality({a \in Applications : row'[a].status = "CONFIRMED"})
                    changed == \E a \in Applications : row'[a].status # row[a].status
                IN  changed /\ Automatic' /\ Open' =>
                      /\ settings'.capacity # 0 => admitted <= settings'.capacity
                      /\ Waiting(row') # {} => admitted = settings'.capacity
<1>1. OrderInv /\ [Next]_vars => [A]_vars
  BY FilledStep DEF OrderInv, Filled, Admitted
<1> QED
  BY <1>1, OrderInvariance, PTL DEF Spec, PlacesFilledExactly

-----------------------------------------------------------------------------
(* The members of the teams, however the split handlers interleave.  The     *)
(* members change after the finalisation only by an edit that it overtook,   *)
(* and whoever loses an e-mail loses it to the first who has it.             *)

\* There are no teams before the finalisation, and an edit that is under way
\* after it was under way at it.
TeamsYet ==
    /\ ~finalized => overtaken = {} /\ \A a \in Applications : teamRoster[a] = None
    /\ finalized /\ edit # None => edit.target \in overtaken

\* Placing and renumbering keep the members, and a placing keeps who is out.
LEMMA PlacingKeeps ==
    ASSUME NEW rows \in [Applications -> Row], NEW writes \in Writes, NEW a \in Applications
    PROVE  /\ Overwrite(rows, writes)[a].roster = rows[a].roster
           /\ \/ Overwrite(rows, writes)[a].status = rows[a].status
              \/ Overwrite(rows, writes)[a].status \in {"CONFIRMED", "WAITLISTED"}
           /\ Reindexed(rows)[a].roster = rows[a].roster
<1>1. rows[a] \in Row
  OBVIOUS
<1>2. /\ Overwrite(rows, writes)[a].roster = rows[a].roster
      /\ \/ Overwrite(rows, writes)[a].status = rows[a].status
         \/ Overwrite(rows, writes)[a].status \in {"CONFIRMED", "WAITLISTED"}
  <2>1. writes[a] # None => writes[a] \in Placement
    BY DEF Writes
  <2> QED
    BY <1>1, <2>1 DEF Overwrite, Row, Placement
<1>3. Reindexed(rows)[a].roster = rows[a].roster
  <2>1. \E n : Reindexed(rows)[a] = [rows[a] EXCEPT !.position = n] \/ Reindexed(rows)[a] = rows[a]
    BY DEF Reindexed
  <2> QED
    BY <1>1, <2>1 DEF Row
<1> QED
  BY <1>2, <1>3

\* A step before the finalisation, and a step that leaves the teams as they are.
BeforeTheTeams == ~finalized /\ UNCHANGED <<finalized, teamRoster, overtaken>>
KeepsTeams ==
    /\ UNCHANGED <<finalized, teamRoster, overtaken>>
    /\ edit' # None => edit' = edit
    /\ finalized => \A a \in Applications : row'[a].roster = row[a].roster \/ a \in overtaken

LEMMA DecisionsAreBefore ==
    ASSUME NEW a \in Applications, NEW class \in Classes, NEW roster \in Rosters,
           NEW action \in Actions,
           \/ CreateApplication(a, class, roster)
           \/ UpdateApplication(a, class, roster)
           \/ OrganizerCreate(a, class, roster)
           \/ OrganizerEdit(a, class, roster)
           \/ WithdrawApplication(a)
           \/ Decide(a, action)
           \/ MembersBegin(a, roster)
    PROVE  BeforeTheTeams
<1>1. ~finalized
  BY DEF CreateApplication, UpdateApplication, OrganizerCreate, OrganizerEdit,
     WithdrawApplication, Decide, MayDecide, MembersBegin, Open, PhaseStatus
<1>2. UNCHANGED <<phaseVars, teamVars>>
  BY DEF CreateApplication, UpdateApplication, OrganizerCreate, OrganizerEdit,
     OrganizerSaved, WithdrawApplication, Decide, MembersBegin
<1> QED
  BY <1>1, <1>2 DEF BeforeTheTeams, phaseVars, teamVars

LEMMA CommitsKeepTeams ==
    ASSUME TypeOK, TeamsYet, MembersCommit \/ SettingsCommit
    PROVE  KeepsTeams
<1>1. CASE MembersCommit
  <2>1. edit \in Edit /\ edit' = None /\ UNCHANGED <<phaseVars, teamVars>>
        /\ row' = [row EXCEPT ![edit.target].roster = edit.roster]
    BY <1>1 DEF MembersCommit, TypeOK
  <2>2. \A b \in Applications : b # edit.target => row'[b] = row[b]
    BY <2>1 DEF TypeOK
  <2> QED
    BY <1>1, <2>1, <2>2 DEF MembersCommit, TeamsYet, KeepsTeams, phaseVars, teamVars
<1>2. CASE SettingsCommit
  <2>1. save \in Save /\ row' = Overwrite(row, save.writes)
        /\ UNCHANGED <<finalized, teamVars, edit>>
    BY <1>2 DEF SettingsCommit, TypeOK
  <2>2. \A b \in Applications : row'[b].roster = row[b].roster
    BY <2>1, PlacingKeeps DEF Save, TypeOK
  <2> QED
    BY <2>1, <2>2 DEF KeepsTeams, teamVars
<1> QED
  BY <1>1, <1>2

LEMMA TeamsShape ==
    ASSUME TypeOK, TeamsYet, [Next]_vars
    PROVE  BeforeTheTeams \/ KeepsTeams \/ Finalizes
<1>0. "REJECT" \in Actions /\ \E class \in Classes, roster \in Rosters : TRUE
  BY NonEmptyAssumption DEF Actions
<1>1. ASSUME \/ \E a \in Applications, class \in Classes, roster \in Rosters :
                   \/ CreateApplication(a, class, roster)
                   \/ UpdateApplication(a, class, roster)
                   \/ OrganizerCreate(a, class, roster)
                   \/ OrganizerEdit(a, class, roster)
             \/ \E a \in Applications : WithdrawApplication(a)
             \/ \E a \in Applications, action \in Actions : Decide(a, action)
             \/ \E a \in Applications, roster \in Rosters : MembersBegin(a, roster)
      PROVE  BeforeTheTeams
  BY <1>0, <1>1, DecisionsAreBefore
<1>2. ASSUME \/ \E a \in Applications : DeleteTeam(a)
             \/ \E s \in SettingsChoices : SettingsBegin(s)
             \/ \E status \in Lifecycle : ChangeCompetitionStatus(status)
             \/ Tick
             \/ UNCHANGED vars
      PROVE  KeepsTeams
  BY <1>2 DEF DeleteTeam, SettingsBegin, ChangeCompetitionStatus, Tick, vars, KeepsTeams,
     applicationVars, phaseVars, teamVars
<1>3. ASSUME MembersCommit \/ SettingsCommit PROVE KeepsTeams
  BY <1>3, CommitsKeepTeams
<1> QED
  BY <1>1, <1>2, <1>3 DEF Next, Finalizes

LEMMA LeastElement ==
    ASSUME NEW T \in SUBSET Nat, T # {}
    PROVE  \E m \in T : \A k \in T : m <= k
<1>1. IsWellFoundedOn(OpToRel(<, Nat), Nat)
  BY NatLessThanWellFounded
<1>2. PICK m \in T : \A k \in T : <<k, m>> \notin OpToRel(<, Nat)
  BY <1>1, WFMin
<1>3. \A k \in T : ~(k < m)
  BY <1>2 DEF OpToRel
<1>4. \A k \in T : m <= k
  BY <1>3
<1> QED
  BY <1>4

\* Whoever has an e-mail, somebody first has it, and enters with it.
LEMMA FirstKeepsEmail ==
    ASSUME TypeOK, NEW entering \in SUBSET Applications, NEW email \in Emails,
           email \notin Elsewhere, NEW a \in entering, NEW i \in Lines,
           row[a].roster[i] = email
    PROVE  \E b \in entering, j \in Lines :
              /\ Resolved(entering, b)[j] = email
              /\ b < a \/ (b = a /\ j <= i)
<1> DEFINE Has(b) == {k \in Lines : row[b].roster[k] = email}
           havers == {b \in entering : Has(b) # {}}
<1>1. Applications \subseteq Nat /\ Lines \subseteq Nat
  BY BoundAssumption DEF Applications, Lines
<1>2. a \in havers /\ i \in Has(a) /\ havers \in SUBSET Nat /\ \A b \in havers : b \in entering
  BY <1>1
<1>3. \A b \in havers : Has(b) \in SUBSET Nat /\ Has(b) # {}
  BY <1>1
<1>4. \A b \in entering, k \in Lines : row[b].roster[k] = email => b \in havers /\ k \in Has(b)
  OBVIOUS
<1>5. \A b, k : k \in Has(b) => k \in Lines /\ row[b].roster[k] = email
  OBVIOUS
<1> HIDE DEF Has, havers
<1>6. PICK b \in havers : \A c \in havers : b <= c
  BY <1>2, LeastElement
<1>7. PICK j \in Has(b) : \A k \in Has(b) : j <= k
  BY <1>3, LeastElement
<1>8. j \in Lines /\ row[b].roster[j] = email /\ b \in entering /\ b \in Nat /\ j \in Nat
  BY <1>1, <1>2, <1>5
<1>9. ~TakenBefore(entering, b, email)
  <2>1. ASSUME NEW c \in entering, NEW k \in Lines, c < b, row[c].roster[k] = email
        PROVE  FALSE
    <3>1. c \in havers /\ b <= c /\ c \in Nat
      BY <1>1, <1>4, <1>6, <2>1
    <3> QED
      BY <1>8, <2>1, <3>1
  <2> QED
    BY <2>1 DEF TakenBefore
<1>10. \A k \in 1..(j - 1) : row[b].roster[k] # email
  <2> SUFFICES ASSUME NEW k \in 1..(j - 1), row[b].roster[k] = email PROVE FALSE
    OBVIOUS
  <2>1. k \in Lines /\ k \in Nat /\ k < j
    BY <1>8, BoundAssumption DEF Lines
  <2>2. j <= k
    BY <1>4, <1>7, <1>8, <2>1
  <2> QED
    BY <1>8, <2>1, <2>2
<1>11. ~Repeats(entering, b, j)
  BY <1>8, <1>9, <1>10 DEF Repeats
<1>12. Resolved(entering, b)[j] = email
  BY <1>8, <1>11 DEF Resolved
<1>13. b < a \/ (b = a /\ j <= i)
  <2>1. b <= a /\ a \in Nat
    BY <1>1, <1>2, <1>6
  <2>2. CASE b = a
    BY <1>2, <1>7, <2>2
  <2> QED
    BY <1>8, <2>1, <2>2
<1> QED
  BY <1>8, <1>12, <1>13

\* An e-mail that an application enters with is nobody's before.
LEMMA KeptEmail ==
    ASSUME NEW entering \in SUBSET Applications, NEW a \in entering, NEW i \in Lines,
           NEW email \in Emails, Resolved(entering, a)[i] = email
    PROVE  /\ row[a].roster[i] = email /\ ~TakenBefore(entering, a, email)
           /\ \A j \in 1..(i - 1) : row[a].roster[j] # email
<1>1. email # None
  BY RosterAssumption
<1>2. ~Repeats(entering, a, i) /\ row[a].roster[i] = email
  BY <1>1 DEF Resolved
<1> QED
  BY <1>2 DEF Repeats

LEMMA KeptOnce ==
    ASSUME NEW entering \in SUBSET Applications, NEW a \in entering, NEW b \in entering,
           NEW i \in Lines, NEW j \in Lines, NEW email \in Emails,
           Resolved(entering, a)[i] = email, Resolved(entering, b)[j] = email
    PROVE  a = b /\ i = j
<1>1. a \in Nat /\ b \in Nat /\ i \in Nat /\ j \in Nat /\ i >= 1 /\ j >= 1
  BY BoundAssumption DEF Applications, Lines
<1>2. ASSUME NEW c \in entering, NEW k \in Lines, Resolved(entering, c)[k] = email
      PROVE  /\ row[c].roster[k] = email /\ ~TakenBefore(entering, c, email)
             /\ \A l \in 1..(k - 1) : row[c].roster[l] # email
  BY <1>2, KeptEmail
<1>3. /\ row[a].roster[i] = email /\ ~TakenBefore(entering, a, email)
      /\ row[b].roster[j] = email /\ ~TakenBefore(entering, b, email)
      /\ \A l \in 1..(i - 1) : row[a].roster[l] # email
      /\ \A l \in 1..(j - 1) : row[b].roster[l] # email
  BY <1>2
<1>4. ~(b < a) /\ ~(a < b)
  BY <1>3 DEF TakenBefore
<1>5. a = b
  BY <1>1, <1>4
<1>6. ASSUME j \in 1..(i - 1) PROVE FALSE
  BY <1>3, <1>5, <1>6
<1>7. ASSUME i \in 1..(j - 1) PROVE FALSE
  BY <1>3, <1>5, <1>7
<1> QED
  BY <1>1, <1>5, <1>6, <1>7

\* A finalisation makes the teams as they should be.
LEMMA FinalizeMembers ==
    ASSUME TypeOK, TeamsYet, NEW accepted \in Accepted, Finalize(accepted)
    PROVE  TeamsYet' /\ TeamHasTheMembers'
<1> DEFINE entering == {a \in Applications : row[a].status = "CONFIRMED" /\ a \notin linked}
<1>1. /\ ~finalized /\ finalized' = TRUE /\ row' = row /\ edit' = edit
      /\ teamRoster' = [a \in Applications |->
                           IF a \in entering THEN Resolved(entering, a) ELSE teamRoster[a]]
      /\ overtaken' = IF edit = None THEN {} ELSE {edit.target}
  BY DEF Finalize, applicationVars
<1>2. entering \in SUBSET Applications
  OBVIOUS
<1> HIDE DEF entering
<1>3. TeamsYet'
  BY <1>1 DEF TeamsYet
<1>4. \A a \in Applications : teamRoster[a] = None
  BY <1>1 DEF TeamsYet
<1>5. \A a \in entering : /\ teamRoster'[a] = Resolved(entering, a)
                          /\ Resolved(entering, a) # None
  BY <1>1, <1>2, ResolvedType, RosterAssumption
<1>6. Made' = entering
  BY <1>1, <1>2, <1>4, <1>5 DEF Made
<1>7. ASSUME NEW a \in entering, NEW b \in entering, NEW i \in Lines, NEW j \in Lines,
             teamRoster'[a][i] \in Emails
      PROVE  /\ teamRoster'[a][i] \notin Elsewhere
             /\ teamRoster'[b][j] = teamRoster'[a][i] => (a = b /\ i = j)
  <2> DEFINE email == Resolved(entering, a)[i]
  <2>1. email \in Emails /\ teamRoster'[a][i] = email
        /\ teamRoster'[b][j] = Resolved(entering, b)[j]
    BY <1>5, <1>7
  <2>2. email \notin Elsewhere
    BY <1>2, <2>1, KeptEmail DEF TakenBefore
  <2>3. Resolved(entering, b)[j] = email => (a = b /\ i = j)
    BY <1>2, <2>1, KeptOnce
  <2> QED
    BY <2>1, <2>2, <2>3
<1>8. ASSUME NEW a \in entering, NEW i \in Lines, teamRoster'[a][i] # row[a].roster[i]
      PROVE  /\ row[a].roster[i] \in Emails /\ teamRoster'[a][i] = None
             /\ \/ row[a].roster[i] \in Elsewhere
                \/ \E b \in entering, j \in Lines : /\ teamRoster'[b][j] = row[a].roster[i]
                                                    /\ b < a \/ (b = a /\ j < i)
  <2>1. Repeats(entering, a, i) /\ teamRoster'[a][i] = None
    BY <1>5, <1>8 DEF Resolved
  <2>2. PICK email \in Emails : row[a].roster[i] = email
    BY <2>1 DEF Repeats
  <2>3. ASSUME email \notin Elsewhere
        PROVE  \E b \in entering, j \in Lines : /\ teamRoster'[b][j] = email
                                                /\ b < a \/ (b = a /\ j < i)
    <3>1. PICK b \in entering, j \in Lines :
             /\ Resolved(entering, b)[j] = email
             /\ b < a \/ (b = a /\ j <= i)
      BY <1>2, <2>2, <2>3, FirstKeepsEmail
    <3>2. teamRoster'[b][j] = email /\ email # None
      BY <1>5, <3>1, RosterAssumption
    <3>3. ~(b = a /\ j = i)
      BY <2>1, <3>2
    <3>4. j \in Nat /\ i \in Nat
      BY BoundAssumption DEF Lines
    <3> QED
      BY <3>1, <3>2, <3>3, <3>4
  <2> QED
    BY <2>1, <2>2, <2>3
<1>9. TeamHasTheMembers'
  <2>1. ASSUME NEW a \in Made', NEW b \in Made', NEW i \in Lines, NEW j \in Lines,
               teamRoster'[a][i] \in Emails
        PROVE  /\ teamRoster'[a][i] \notin Elsewhere
               /\ teamRoster'[b][j] = teamRoster'[a][i] => (a = b /\ i = j)
    BY <1>6, <1>7, <2>1
  <2>2. ASSUME NEW a \in Made' \ overtaken', NEW i \in Lines,
               teamRoster'[a][i] # row'[a].roster[i]
        PROVE  /\ row'[a].roster[i] \in Emails /\ teamRoster'[a][i] = None
               /\ \/ row'[a].roster[i] \in Elsewhere
                  \/ \E b \in Made', j \in Lines : /\ teamRoster'[b][j] = row'[a].roster[i]
                                                   /\ b < a \/ (b = a /\ j < i)
    BY <1>1, <1>6, <1>8, <2>2
  <2> QED
    BY <2>1, <2>2 DEF TeamHasTheMembers
<1> QED
  BY <1>3, <1>9

LEMMA MembersStep ==
    ASSUME TypeOK, TeamsYet, TeamHasTheMembers, [Next]_vars
    PROVE  TeamsYet' /\ TeamHasTheMembers'
<1>1. CASE BeforeTheTeams
  <2>1. TeamsYet' /\ Made' = {}
    BY <1>1 DEF BeforeTheTeams, TeamsYet, Made
  <2> QED
    BY <2>1 DEF TeamHasTheMembers
<1>2. CASE KeepsTeams /\ ~finalized
  <2>1. TeamsYet' /\ Made' = {}
    BY <1>2 DEF KeepsTeams, TeamsYet, Made
  <2> QED
    BY <2>1 DEF TeamHasTheMembers
<1>3. CASE KeepsTeams /\ finalized
  <2>1. TeamsYet'
    BY <1>3 DEF KeepsTeams, TeamsYet
  <2>2. Made' = Made /\ UNCHANGED <<teamRoster, overtaken>>
    BY <1>3 DEF KeepsTeams, Made
  <2>3. \A a \in Made \ overtaken : row'[a].roster = row[a].roster
    BY <1>3 DEF KeepsTeams, Made
  <2>4. TeamHasTheMembers'
    BY <2>2, <2>3 DEF TeamHasTheMembers
  <2> QED
    BY <2>1, <2>4
<1>4. CASE Finalizes
  BY <1>4, FinalizeMembers DEF Finalizes
<1> QED
  BY <1>1, <1>2, <1>3, <1>4, TeamsShape

\* A team has every member its application had, an edit overtaken by the
\* finalisation apart, and an e-mail that is dropped is with the first who had
\* it, whatever the member lists are and however edits and saves interleave.
THEOREM MembersHold == Spec => []TeamHasTheMembers
<1>1. Init => TypeOK /\ TeamsYet /\ TeamHasTheMembers
  BY InitType DEF Init, TeamsYet, TeamHasTheMembers, Made
<1>2. TypeOK /\ TeamsYet /\ TeamHasTheMembers /\ [Next]_vars
        => TypeOK' /\ TeamsYet' /\ TeamHasTheMembers'
  BY TypeStep, MembersStep
<1> QED
  BY <1>1, <1>2, PTL DEF Spec

-----------------------------------------------------------------------------
(* Who is told, however the split handlers interleave.                      *)

MovesAreTold == \A a \in Applications : Moved(a) => told'[a] = row'[a].status

NobodyLeaves ==
    \A b \in Applications : row'[b].status \in {"WITHDRAWN", "CHANGES_REQUESTED"}
                            => row[b].status \notin {"CONFIRMED", "WAITLISTED"}

LEMMA DecisionIsTold ==
    ASSUME TypeOK, NEW a \in Applications,
           WithdrawApplication(a) \/ \E action \in Actions : Decide(a, action)
    PROVE  MovesAreTold
<1>1. ASSUME NEW status \in Statuses, NEW reason \in Reasons, NEW notices,
             told' = Changed(notices, Decided(a, status, reason), row'),
             \/ notices = told /\ status = "WITHDRAWN"
             \/ notices = [told EXCEPT ![a] = status]
      PROVE  MovesAreTold
  <2> DEFINE rows == Decided(a, status, reason)
  <2>1. \A b \in Applications : rows[b].status = IF b = a THEN status ELSE row[b].status
    BY DecidedType
  <2> HIDE DEF rows
  <2>2. \A b \in Applications : told'[b] = IF row'[b].status # rows[b].status
                                           THEN row'[b].status ELSE notices[b]
    BY <1>1 DEF Changed, rows
  <2>3. SUFFICES ASSUME NEW b \in Applications, Moved(b) PROVE told'[b] = row'[b].status
    BY DEF MovesAreTold
  <2>4. row'[b].status # row[b].status /\ row'[b].status \in {"CONFIRMED", "WAITLISTED"}
    BY <2>3 DEF Moved
  <2>5. CASE b # a
    BY <2>1, <2>2, <2>4, <2>5
  <2>6. CASE b = a
    <3>1. rows[a].status = status
      BY <2>1
    <3>2. CASE status = "WITHDRAWN"
      BY <2>2, <2>4, <2>6, <3>1, <3>2
    <3>3. CASE notices = [told EXCEPT ![a] = status]
      <4>1. notices[a] = status
        BY <3>3 DEF TypeOK
      <4> QED
        BY <2>2, <2>6, <3>1, <4>1
    <3> QED
      BY <1>1, <3>2, <3>3
  <2> QED
    BY <2>5, <2>6
<1>2. CASE WithdrawApplication(a)
  <2>1. "WITHDRAWN" \in Statuses /\ "NONE" \in Reasons
    BY DEF Statuses, Reasons
  <2>2. told' = Changed(told, Decided(a, "WITHDRAWN", "NONE"), row')
    BY <1>2 DEF WithdrawApplication
  <2> QED
    BY <1>1, <2>1, <2>2
<1>3. ASSUME NEW action \in Actions, Decide(a, action) PROVE MovesAreTold
  <2> DEFINE status == ActionStatus(action)
             reason == IF action = "REJECT" THEN "NONE" ELSE "ORGANIZER"
  <2>1. status \in Statuses /\ reason \in Reasons
    BY DEF Actions, ActionStatus, Statuses, Reasons
  <2>2. told' = Changed([told EXCEPT ![a] = status], Decided(a, status, reason), row')
    BY <1>3 DEF Decide
  <2> HIDE DEF status, reason
  <2> QED
    BY <1>1, <2>1, <2>2
<1> QED
  BY <1>2, <1>3

\* No other step takes an application out of the pool.
LEMMA AmendingKeepsPool ==
    ASSUME TypeOK, NEW a \in Applications, NEW r \in Row,
           \/ r.status \notin {"WITHDRAWN", "CHANGES_REQUESTED"}
           \/ r.status = row[a].status,
           \E rows : /\ rows = [row EXCEPT ![a] = r]
                     /\ row' = Recalculated(rows) \/ row' = Reindexed(rows) \/ row' = rows
    PROVE  NobodyLeaves
<1> DEFINE rows == [row EXCEPT ![a] = r]
<1>1. /\ rows \in [Applications -> Row]
      /\ \A b \in Applications : rows[b] = IF b = a THEN r ELSE row[b]
  BY DEF TypeOK
<1>2. \/ row' = Overwrite(rows, Placed(rows, settings))
      \/ row' = Reindexed(rows) \/ row' = rows
  BY DEF Recalculated
<1> HIDE DEF rows
<1>3. Placed(rows, settings) \in Writes
  BY <1>1, PlacedType DEF TypeOK
<1>4. \A b \in Applications : \/ row'[b].status = rows[b].status
                              \/ row'[b].status \in {"CONFIRMED", "WAITLISTED"}
  BY <1>1, <1>2, <1>3, PlacingKeeps, ReindexedType
<1>5. SUFFICES ASSUME NEW b \in Applications,
                      row'[b].status \in {"WITHDRAWN", "CHANGES_REQUESTED"}
               PROVE  row[b].status \notin {"CONFIRMED", "WAITLISTED"}
  BY DEF NobodyLeaves
<1>6. row'[b].status = rows[b].status
  BY <1>4, <1>5
<1> QED
  BY <1>1, <1>5, <1>6

LEMMA SavingKeepsPool ==
    ASSUME TypeOK, NEW a \in Applications, NEW class \in Classes, NEW roster \in Rosters,
           \/ CreateApplication(a, class, roster)
           \/ UpdateApplication(a, class, roster)
           \/ OrganizerCreate(a, class, roster)
           \/ OrganizerEdit(a, class, roster)
    PROVE  NobodyLeaves
<1>1. ASSUME CreateApplication(a, class, roster) \/ UpdateApplication(a, class, roster)
      PROVE  NobodyLeaves
  <2> DEFINE r == [status |-> AfterSubmission, position |-> 0, reason |-> "NONE",
                   class |-> class, roster |-> roster]
             rows == [row EXCEPT ![a] = r]
  <2>1. r \in Row /\ r.status \notin {"WITHDRAWN", "CHANGES_REQUESTED"}
    BY DEF Row, AfterSubmission, Statuses, Reasons
  <2>2. row' = Recalculated(rows) \/ row' = Reindexed(rows) \/ row' = rows
    BY <1>1 DEF CreateApplication, UpdateApplication
  <2> HIDE DEF r
  <2> QED
    BY <2>1, <2>2, AmendingKeepsPool
<1>2. ASSUME OrganizerCreate(a, class, roster) PROVE NobodyLeaves
  <2> DEFINE r == [status |-> "CONFIRMED", position |-> 0, reason |-> "ORGANIZER",
                   class |-> class, roster |-> roster]
             rows == [row EXCEPT ![a] = r]
  <2>1. r \in Row /\ r.status \notin {"WITHDRAWN", "CHANGES_REQUESTED"}
    BY DEF Row, Statuses, Reasons
  <2>2. row' = Recalculated(rows) \/ row' = rows
    BY <1>2 DEF OrganizerCreate, OrganizerSaved
  <2> HIDE DEF r
  <2> QED
    BY <2>1, <2>2, AmendingKeepsPool
<1>3. ASSUME OrganizerEdit(a, class, roster) PROVE NobodyLeaves
  <2> DEFINE r == [row[a] EXCEPT !.class = class, !.roster = roster]
             rows == [row EXCEPT ![a] = r]
  <2>1. r \in Row /\ r.status = row[a].status
    BY DEF Row, TypeOK
  <2>2. row' = Recalculated(rows) \/ row' = rows
    BY <1>3 DEF OrganizerEdit, OrganizerSaved
  <2> HIDE DEF r
  <2> QED
    BY <2>1, <2>2, AmendingKeepsPool
<1> QED
  BY <1>1, <1>2, <1>3

LEMMA ToldStep ==
    ASSUME TypeOK, [Next]_vars
    PROVE  MovesAreTold \/ NobodyLeaves
<1>1. ASSUME NEW a \in Applications, NEW class \in Classes, NEW roster \in Rosters,
             \/ CreateApplication(a, class, roster)
             \/ UpdateApplication(a, class, roster)
             \/ OrganizerCreate(a, class, roster)
             \/ OrganizerEdit(a, class, roster)
      PROVE  NobodyLeaves
  BY <1>1, SavingKeepsPool
<1>2. ASSUME NEW a \in Applications,
             WithdrawApplication(a) \/ \E action \in Actions : Decide(a, action)
      PROVE  MovesAreTold
  BY <1>2, DecisionIsTold
<1>3. ASSUME \/ \E a \in Applications : DeleteTeam(a)
             \/ \E a \in Applications, roster \in Rosters : MembersBegin(a, roster)
             \/ \E s \in SettingsChoices : SettingsBegin(s)
             \/ Finalizes
             \/ \E status \in Lifecycle : ChangeCompetitionStatus(status)
             \/ Tick
             \/ UNCHANGED vars
      PROVE  NobodyLeaves
  <2>1. UNCHANGED applicationVars
    BY <1>3 DEF DeleteTeam, MembersBegin, SettingsBegin, Finalizes, Finalize,
       ChangeCompetitionStatus, Tick, vars
  <2> QED
    BY <2>1 DEF NobodyLeaves, applicationVars
<1>4. ASSUME MembersCommit PROVE NobodyLeaves
  BY <1>4, MembersCommitDecidesNothing DEF DecidesNothing, NobodyLeaves
<1>5. ASSUME SettingsCommit PROVE NobodyLeaves
  <2>1. save \in Save /\ row' = Overwrite(row, save.writes) /\ row \in [Applications -> Row]
    BY <1>5 DEF SettingsCommit, TypeOK
  <2>2. \A b \in Applications : \/ row'[b].status = row[b].status
                                \/ row'[b].status \in {"CONFIRMED", "WAITLISTED"}
    BY <2>1, PlacingKeeps DEF Save
  <2> QED
    BY <2>2 DEF NobodyLeaves
<1> QED
  BY <1>1, <1>2, <1>3, <1>4, <1>5 DEF Next, Finalizes

\* Whoever gets or loses a place by a withdrawal or a request for changes is told
\* of it by the same step.
THEOREM VacatedPlacesHold == Spec => VacatedPlacesAreTold
<1>1. TypeOK /\ [Next]_vars =>
         [\A a, b \in Applications :
            /\ Moved(a)
            /\ row[b].status \in {"CONFIRMED", "WAITLISTED"}
            /\ row'[b].status \in {"WITHDRAWN", "CHANGES_REQUESTED"}
            => told'[a] = row'[a].status]_vars
  BY ToldStep DEF MovesAreTold, NobodyLeaves
<1> QED
  BY <1>1, TypeCorrect, PTL DEF Spec, VacatedPlacesAreTold

-----------------------------------------------------------------------------
(* The allocation: sequences of steps.                                     *)

\* A set of numbers that contains 0, and with each number the next, contains all to n.
LEMMA StepByStep ==
    ASSUME NEW n \in Nat, NEW S, 0 \in S, \A i \in 1..n : i - 1 \in S => i \in S
    PROVE  0..n \subseteq S
<1> DEFINE T == (0..n) \ S
<1> SUFFICES ASSUME T # {} PROVE FALSE
    OBVIOUS
<1>1. PICK m \in T : \A k \in T : ~(k < m)
    <2>1. T \subseteq Nat
        OBVIOUS
    <2> HIDE DEF T
    <2>2. PICK m \in T : \A k \in T : <<k, m>> \notin OpToRel(<, Nat)
        BY <2>1, NatLessThanWellFounded, WFMin
    <2> QED BY <2>1, <2>2 DEF OpToRel
<1>2. m # 0 /\ m \in 1..n /\ m - 1 \in 0..n /\ m - 1 \in S
    BY <1>1
<1> QED BY <1>1, <1>2

\* Steps that keep to a set of pairs (number of steps done, value reached) can be taken
\* one after the other.
Unfolds(f, n, reached, base, step) ==
    /\ f = [i \in 0..n |-> IF i = 0 THEN base ELSE step[<<i, f[i - 1]>>]]
    /\ \A i \in 1..n : <<i - 1, f[i - 1]>> \in reached

\* The recursive function that takes them exists.
LEMMA StepsCanBeTaken ==
    ASSUME NEW n \in Nat, NEW reached, NEW base, <<0, base>> \in reached, NEW step,
           \A i \in 1..n : \A v : <<i - 1, v>> \in reached => <<i, step[<<i, v>>]>> \in reached
    PROVE  \E f : Unfolds(f, n, reached, base, step)
<1> DEFINE Does(f, k) == /\ f = [i \in 0..k |-> f[i]] /\ f[0] = base
                         /\ \A i \in 1..k : f[i] = step[<<i, f[i - 1]>>]
                         /\ \A i \in 0..k : <<i, f[i]>> \in reached
           S == {k \in 0..n : \E f : Does(f, k)}
<1>1. 0 \in S
    <2> DEFINE f == [i \in 0..0 |-> base]
    <2>1. f = [i \in 0..0 |-> f[i]] /\ f[0] = base /\ \A i \in 0..0 : i = 0
        OBVIOUS
    <2> HIDE DEF f
    <2>2. Does(f, 0)
        BY <2>1
    <2> HIDE DEF Does
    <2> QED BY <2>2
<1>2. ASSUME NEW i \in 1..n, i - 1 \in S PROVE i \in S
    <2>1. PICK f : Does(f, i - 1)
        BY <1>2
    <2> DEFINE g == [j \in 0..i |-> IF j = i THEN step[<<i, f[i - 1]>>] ELSE f[j]]
    <2>2. i - 1 \in 0..(i - 1) /\ i \in 0..n /\ i \in 0..i
        OBVIOUS
    <2>3. g = [j \in 0..i |-> g[j]] /\ g[i] = step[<<i, f[i - 1]>>]
        BY <2>2
    <2>4. \A j \in 0..(i - 1) : g[j] = f[j]
        OBVIOUS
    <2> HIDE DEF g
    <2>5. \A j \in 0..i : j = i \/ j \in 0..(i - 1)
        OBVIOUS
    <2>6. ASSUME NEW j \in 1..i PROVE g[j] = step[<<j, g[j - 1]>>]
        <3>1. CASE j = i
            <4>1. g[i - 1] = f[i - 1]
                BY <2>2, <2>4
            <4> QED BY <2>3, <3>1, <4>1
        <3>2. CASE j # i
            <4>1. j \in 1..(i - 1) /\ j \in 0..(i - 1) /\ j - 1 \in 0..(i - 1)
                BY <3>2
            <4>2. g[j] = f[j] /\ g[j - 1] = f[j - 1]
                BY <2>4, <4>1
            <4> QED BY <2>1, <4>1, <4>2
        <3> QED BY <3>1, <3>2
    <2>7. ASSUME NEW j \in 0..i PROVE <<j, g[j]>> \in reached
        <3>1. <<i - 1, f[i - 1]>> \in reached
            BY <2>1, <2>2
        <3>2. <<i, step[<<i, f[i - 1]>>]>> \in reached
            BY <3>1
        <3> QED BY <2>1, <2>3, <2>4, <2>5, <3>2
    <2>8. g[0] = base
        <3>1. 0 \in 0..(i - 1)
            OBVIOUS
        <3> QED BY <2>1, <2>4, <3>1
    <2>9. Does(g, i)
        BY <2>3, <2>6, <2>7, <2>8
    <2> HIDE DEF Does
    <2> QED BY <2>2, <2>9
<1>3. n \in S
    <2> HIDE DEF S
    <2>1. 0..n \subseteq S
        BY <1>1, <1>2, StepByStep
    <2> QED BY <2>1
<1>4. PICK f : Does(f, n)
    BY <1>3
<1>5. \A i \in 1..n : <<i - 1, f[i - 1]>> \in reached
    <2>1. \A i \in 1..n : i - 1 \in 0..n
        OBVIOUS
    <2> QED BY <1>4, <2>1
<1>6. [i \in 0..n |-> f[i]] = [i \in 0..n |-> IF i = 0 THEN base ELSE step[<<i, f[i - 1]>>]]
    <2>1. ASSUME NEW i \in 0..n
          PROVE  f[i] = IF i = 0 THEN base ELSE step[<<i, f[i - 1]>>]
        <3>1. i = 0 \/ i \in 1..n
            OBVIOUS
        <3>2. f[0] = base /\ \A j \in 1..n : f[j] = step[<<j, f[j - 1]>>]
            BY <1>4
        <3> QED BY ONLY <3>1, <3>2
    <2> HIDE DEF Does
    <2> QED BY <2>1
<1>7. Unfolds(f, n, reached, base, step)
    BY <1>4, <1>5, <1>6 DEF Unfolds
<1> QED BY <1>7

\* A set that a sequence of steps never leaves holds their result.
LEMMA StepsStay ==
    ASSUME NEW n \in Nat, NEW reached, NEW f, <<0, f[0]>> \in reached,
           \A i \in 1..n : <<i - 1, f[i - 1]>> \in reached => <<i, f[i]>> \in reached
    PROVE  <<n, f[n]>> \in reached
<1> DEFINE S == {i \in 0..n : <<i, f[i]>> \in reached}
<1>1. 0 \in S /\ \A i \in 1..n : i - 1 \in S => i \in S
    OBVIOUS
<1> HIDE DEF S
<1>2. 0..n \subseteq S
    BY <1>1, StepByStep
<1> QED BY <1>2 DEF S

-----------------------------------------------------------------------------
\* A strict order in which any two elements are comparable.
StrictOrder(S, before) ==
    /\ \A e \in S : <<e, e>> \notin before
    /\ \A e, f, g \in S : <<e, f>> \in before /\ <<f, g>> \in before => <<e, g>> \in before
    /\ \A e, f \in S : e = f \/ <<e, f>> \in before \/ <<f, e>> \in before

\* Each element of the set comes once, in the order.
LEMMA ArrangedInOrder ==
    ASSUME NEW S, IsFiniteSet(S), NEW before, StrictOrder(S, before)
    PROVE  /\ Arranged(S, before) \in [1..Cardinality(S) -> S]
           /\ \A i, j \in 1..Cardinality(S) :
                 i < j => <<Arranged(S, before)[i], Arranged(S, before)[j]>> \in before
           /\ \A e \in S : \E i \in 1..Cardinality(S) : Arranged(S, before)[i] = e
<1> DEFINE Earlier(e) == {o \in S : <<o, e>> \in before}
           n == Cardinality(S)
           rank == [e \in S |-> Cardinality(Earlier(e)) + 1]
           s == Arranged(S, before)
<1>1. n \in Nat
    BY FS_CardinalityType
<1>2. ASSUME NEW e \in S PROVE rank[e] \in 1..n /\ IsFiniteSet(Earlier(e)) /\ Cardinality(Earlier(e)) \in Nat
    <2>1. Earlier(e) \in SUBSET S /\ e \notin Earlier(e)
        BY DEF StrictOrder
    <2> HIDE DEF Earlier
    <2>2. IsFiniteSet(Earlier(e)) /\ Cardinality(Earlier(e)) <= n /\ Cardinality(Earlier(e)) # n
        BY <2>1, FS_Subset
    <2>3. Cardinality(Earlier(e)) \in Nat
        BY <2>2, FS_CardinalityType
    <2> QED BY <1>1, <2>2, <2>3
<1>3. ASSUME NEW e \in S, NEW f \in S, <<e, f>> \in before PROVE rank[e] < rank[f]
    <2>1. Earlier(e) \in SUBSET Earlier(f) /\ e \in Earlier(f) /\ e \notin Earlier(e)
        BY <1>3 DEF StrictOrder
    <2>2. IsFiniteSet(Earlier(f)) /\ Cardinality(Earlier(f)) \in Nat /\ Cardinality(Earlier(e)) \in Nat
        BY <1>2
    <2>3. Earlier(e) # Earlier(f)
        BY <2>1
    <2>4. Cardinality(Earlier(e)) < Cardinality(Earlier(f))
        <3> HIDE DEF Earlier
        <3>1. /\ Cardinality(Earlier(e)) <= Cardinality(Earlier(f))
              /\ Cardinality(Earlier(f)) = Cardinality(Earlier(e)) => Earlier(f) = Earlier(e)
            BY <2>1, <2>2, FS_Subset
        <3> QED BY <2>2, <2>3, <3>1
    <2> HIDE DEF Earlier
    <2> QED BY <2>2, <2>4
<1>4. rank \in [S -> 1..n]
    <2> HIDE DEF n
    <2>1. \A e \in S : Cardinality(Earlier(e)) + 1 \in 1..n
        BY <1>2
    <2> QED BY <2>1
<1> HIDE DEF rank
<1>5. \A e, f \in S : rank[e] = rank[f] => e = f
    <2> HIDE DEF n
    <2> SUFFICES ASSUME NEW e \in S, NEW f \in S, rank[e] = rank[f], e # f PROVE FALSE
        OBVIOUS
    <2>1. rank[e] \in 1..n /\ rank[f] \in 1..n
        BY <1>4
    <2>2. ~(rank[e] < rank[f]) /\ ~(rank[f] < rank[e])
        BY <1>1, <2>1
    <2> QED BY <1>3, <2>2 DEF StrictOrder
<1>6. \A i \in 1..n : \E e \in S : rank[e] = i
    <2>1. rank \in Injection(S, 1..n)
        BY <1>4, <1>5 DEF Injection, IsInjective
    <2>2. IsFiniteSet(1..n) /\ Cardinality(1..n) = n
        BY <1>1, FS_Interval
    <2>3. rank \in Surjection(S, 1..n)
        <3> HIDE DEF n
        <3>1. Cardinality(S) = Cardinality(1..n)
            BY <2>2 DEF n
        <3> QED BY <2>1, <2>2, <3>1, FS_Injection
    <2> QED BY <2>3 DEF Surjection
<1>7. ASSUME NEW i \in 1..n PROVE s[i] \in S /\ rank[s[i]] = i
    <2>1. s[i] = CHOOSE e \in S : Cardinality(Earlier(e)) = i - 1
        BY DEF Arranged
    <2>2. PICK e \in S : rank[e] = i
        BY <1>6
    <2>3. Cardinality(Earlier(e)) \in Nat /\ Cardinality(Earlier(e)) = i - 1
        <3>1. Cardinality(Earlier(e)) \in Nat /\ Cardinality(Earlier(e)) + 1 = i
            BY <1>2, <2>2 DEF rank
        <3> HIDE DEF Earlier
        <3> QED BY <3>1
    <2>4. s[i] \in S /\ Cardinality(Earlier(s[i])) = i - 1
        <3> HIDE DEF Earlier, s
        <3> QED BY <2>1, <2>3
    <2>5. rank[s[i]] = (i - 1) + 1
        BY <2>4 DEF rank
    <2> QED BY <2>4, <2>5
<1>8. s \in [1..n -> S]
    <2> DEFINE c(i) == CHOOSE e \in S : Cardinality(Earlier(e)) = i - 1
    <2>1. s = [i \in 1..n |-> c(i)]
        BY DEF Arranged
    <2> HIDE DEF s, n, c
    <2>2. \A i \in 1..n : c(i) \in S
        BY <1>7, <2>1
    <2> QED BY <2>1, <2>2
<1>9. ASSUME NEW i \in 1..n, NEW j \in 1..n, i < j PROVE <<s[i], s[j]>> \in before
    <2>1. s[i] \in S /\ s[j] \in S /\ rank[s[i]] = i /\ rank[s[j]] = j
        BY <1>7
    <2> HIDE DEF s, n
    <2>2. ~(rank[s[j]] < rank[s[i]]) /\ s[i] # s[j]
        BY <1>1, <1>9, <2>1
    <2> QED BY <1>3, <2>1, <2>2 DEF StrictOrder
<1>10. ASSUME NEW e \in S PROVE \E i \in 1..n : s[i] = e
    <2>1. rank[e] \in 1..n /\ s[rank[e]] \in S /\ rank[s[rank[e]]] = rank[e]
        BY <1>4, <1>7
    <2> HIDE DEF s, n
    <2> QED BY <1>5, <2>1
<1> QED BY <1>8, <1>9, <1>10

\* An element of a finite set with nothing before it in a strict order.
LEMMA MinimalElement ==
    ASSUME NEW V, IsFiniteSet(V), V # {}, NEW R,
           \A v \in V : <<v, v>> \notin R,
           \A u, v, w \in V : <<u, v>> \in R /\ <<v, w>> \in R => <<u, w>> \in R
    PROVE  \E v \in V : \A w \in V : <<w, v>> \notin R
<1> DEFINE Before(v) == {w \in V : <<w, v>> \in R}
           counts == {Cardinality(Before(v)) : v \in V}
<1>1. \A v \in V : IsFiniteSet(Before(v)) /\ Cardinality(Before(v)) \in Nat
    BY FS_Subset, FS_CardinalityType
<1>2. counts \in SUBSET Nat /\ counts # {}
    <2> HIDE DEF Before
    <2> QED BY <1>1
<1>3. PICK n \in counts : \A m \in counts : ~(m < n)
    <2>1. IsWellFoundedOn(OpToRel(<, Nat), Nat)
        BY NatLessThanWellFounded
    <2> HIDE DEF counts
    <2>2. PICK n \in counts : \A m \in counts : <<m, n>> \notin OpToRel(<, Nat)
        BY <1>2, <2>1, WFMin
    <2> QED BY <1>2, <2>2 DEF OpToRel
<1>4. PICK v \in V : n = Cardinality(Before(v))
    OBVIOUS
<1>5. ASSUME NEW w \in V, <<w, v>> \in R PROVE FALSE
    <2>1. Before(w) \in SUBSET Before(v) /\ w \in Before(v) /\ w \notin Before(w)
        BY <1>5
    <2>2. Before(w) # Before(v)
        BY <2>1
    <2>3. Cardinality(Before(w)) \in counts
        OBVIOUS
    <2> HIDE DEF Before, counts
    <2>4. Cardinality(Before(w)) < Cardinality(Before(v))
        <3>1. /\ Cardinality(Before(w)) <= Cardinality(Before(v))
              /\ Cardinality(Before(v)) = Cardinality(Before(w)) => Before(v) = Before(w)
            BY <1>1, <2>1, FS_Subset
        <3> QED BY <1>1, <2>2, <3>1
    <2> QED BY <1>3, <1>4, <2>3, <2>4
<1> QED BY <1>5

-----------------------------------------------------------------------------
\* The applications are finitely many, and their times are numbers.
SoundCandidates(cand) ==
    /\ IsFiniteSet(DOMAIN cand) /\ DOMAIN cand \subseteq Int
    /\ \A e \in DOMAIN cand : cand[e].submittedAt \in Int /\ cand[e].createdAt \in Int

\* What has been picked: applications, each of them once.
Picks(cand) == {s \in Seq(DOMAIN cand) : \A i, j \in DOMAIN s : s[i] = s[j] => i = j}

\* More is picked, after the same.
Continues(s, t) == Len(s) <= Len(t) /\ \A i \in 1..Len(s) : t[i] = s[i]

\* The registration order is strict, and compares any two applications.
LEMMA PrecedesInOrder ==
    ASSUME NEW cand, SoundCandidates(cand)
    PROVE  /\ \A e \in DOMAIN cand : ~Precedes(cand, e, e)
           /\ \A e, f, g \in DOMAIN cand :
                 Precedes(cand, e, f) /\ Precedes(cand, f, g) => Precedes(cand, e, g)
           /\ \A e, f \in DOMAIN cand : e = f \/ Precedes(cand, e, f) \/ Precedes(cand, f, e)
BY DEF SoundCandidates, Precedes

\* Who is picked is an application, and as many are picked as the sequence is long.
LEMMA ChosenType ==
    ASSUME NEW cand, SoundCandidates(cand), NEW s \in Picks(cand)
    PROVE  /\ Chosen(s) \subseteq DOMAIN cand /\ IsFiniteSet(Chosen(s))
           /\ Cardinality(Chosen(s)) = Len(s) /\ Len(s) \in Nat
<1>1. Chosen(s) \subseteq DOMAIN cand /\ Len(s) \in Nat /\ s \in [1..Len(s) -> DOMAIN cand]
    BY DEF Chosen, Picks
<1>2. s \in Bijection(1..Len(s), Chosen(s))
    BY <1>1 DEF Picks, Chosen, Bijection, Injection, IsInjective, Surjection
<1>3. IsFiniteSet(1..Len(s)) /\ Cardinality(1..Len(s)) = Len(s)
    BY <1>1, FS_Interval, SMTT(20)
<1>4. IsFiniteSet(Chosen(s)) /\ Cardinality(Chosen(s)) = Cardinality(1..Len(s))
    BY <1>2, <1>3, FS_Bijection DEF ExistsBijection
<1> QED BY <1>1, <1>3, <1>4

\* Another application can be picked.
LEMMA AppendPicks ==
    ASSUME NEW cand, NEW s \in Picks(cand), NEW e \in DOMAIN cand, e \notin Chosen(s)
    PROVE  /\ Append(s, e) \in Picks(cand) /\ Chosen(Append(s, e)) = Chosen(s) \cup {e}
           /\ Len(Append(s, e)) = Len(s) + 1 /\ Continues(s, Append(s, e))
<1> DEFINE t == Append(s, e)
<1>1. s \in Seq(DOMAIN cand) /\ Len(s) \in Nat /\ DOMAIN s = 1..Len(s)
    BY DEF Picks
<1>2. /\ t \in Seq(DOMAIN cand) /\ Len(t) = Len(s) + 1 /\ DOMAIN t = 1..(Len(s) + 1)
      /\ t[Len(s) + 1] = e /\ \A i \in 1..Len(s) : t[i] = s[i]
    BY <1>1
<1> HIDE DEF t
<1>3. \A i \in 1..Len(s) : s[i] # e
    BY <1>1 DEF Chosen
<1>4. ASSUME NEW i \in DOMAIN t, NEW j \in DOMAIN t, t[i] = t[j] PROVE i = j
    <2>1. CASE i \in 1..Len(s) /\ j \in 1..Len(s)
        BY <1>1, <1>2, <1>4, <2>1 DEF Picks
    <2>2. CASE i = Len(s) + 1 \/ j = Len(s) + 1
        <3>1. \A k \in 1..(Len(s) + 1) : k \in 1..Len(s) \/ k = Len(s) + 1
            BY <1>1
        <3> QED BY <1>2, <1>3, <1>4, <2>2, <3>1
    <2> QED BY <1>1, <1>2, <2>1, <2>2
<1>5. t \in Picks(cand)
    BY <1>2, <1>4 DEF Picks
<1>6. Chosen(t) = Chosen(s) \cup {e}
    <2>1. \A k \in 1..(Len(s) + 1) : k \in 1..Len(s) \/ k = Len(s) + 1
        BY <1>1
    <2>2. \A k \in 1..Len(s) : k \in 1..(Len(s) + 1)
        BY <1>1
    <2>3. Len(s) + 1 \in 1..(Len(s) + 1)
        BY <1>1
    <2> QED BY <1>1, <1>2, <2>1, <2>2, <2>3 DEF Chosen
<1>7. Continues(s, t)
    BY <1>1, <1>2 DEF Continues
<1> QED BY <1>2, <1>5, <1>6, <1>7 DEF t

\* The next application is one of those that are available.
LEMMA NextIsAvailable ==
    ASSUME NEW cand, SoundCandidates(cand), NEW s \in Picks(cand), NEW balanced,
           NEW available \in SUBSET DOMAIN cand, available # {}
    PROVE  NextCandidate(cand, available, s, balanced) \in available
<1> DEFINE Count(e) == ClassCount(cand, s, cand[e].class)
           R == {p \in available \X available : GoesBefore(cand, s, balanced, p[1], p[2])}
<1>1. \A e \in available : Count(e) \in Nat
    <2> SUFFICES ASSUME NEW e \in available PROVE Count(e) \in Nat
        OBVIOUS
    <2> DEFINE same == {a \in Chosen(s) : cand[a].class = cand[e].class}
    <2>1. same \in SUBSET Chosen(s) /\ IsFiniteSet(Chosen(s))
        BY ChosenType
    <2>2. Count(e) = Cardinality(same)
        BY DEF ClassCount
    <2> HIDE DEF same
    <2> QED BY <2>1, <2>2, FS_Subset, FS_CardinalityType
<1>2. \A e, f \in available : <<e, f>> \in R <=>
          IF balanced /\ Count(e) # Count(f) THEN Count(e) < Count(f) ELSE Precedes(cand, e, f)
    BY DEF GoesBefore
<1> HIDE DEF R, Count
<1>3. \A e \in available : <<e, e>> \notin R
    BY <1>2, PrecedesInOrder
<1>4. \A e, f, g \in available : <<e, f>> \in R /\ <<f, g>> \in R => <<e, g>> \in R
    <2> SUFFICES ASSUME NEW e \in available, NEW f \in available, NEW g \in available,
                        <<e, f>> \in R, <<f, g>> \in R
                 PROVE  <<e, g>> \in R
        OBVIOUS
    <2>1. Count(e) \in Nat /\ Count(f) \in Nat /\ Count(g) \in Nat
        BY <1>1
    <2>2. CASE ~balanced
        BY <1>2, <2>2, PrecedesInOrder
    <2>3. CASE balanced /\ Count(e) = Count(g)
        BY <1>2, <2>1, <2>3, PrecedesInOrder
    <2>4. CASE balanced /\ Count(e) # Count(g)
        BY <1>2, <2>1, <2>4
    <2> QED BY <2>2, <2>3, <2>4
<1>5. \A e, f \in available : e = f \/ <<e, f>> \in R \/ <<f, e>> \in R
    <2> SUFFICES ASSUME NEW e \in available, NEW f \in available, e # f
                 PROVE  <<e, f>> \in R \/ <<f, e>> \in R
        OBVIOUS
    <2>1. Count(e) \in Nat /\ Count(f) \in Nat
        BY <1>1
    <2>2. CASE balanced /\ Count(e) # Count(f)
        BY <1>2, <2>1, <2>2
    <2>3. CASE ~(balanced /\ Count(e) # Count(f))
        BY <1>2, <2>3, PrecedesInOrder
    <2> QED BY <2>2, <2>3
<1>6. IsFiniteSet(available)
    BY FS_Subset DEF SoundCandidates
<1>7. PICK e \in available : \A f \in available : <<f, e>> \notin R
    BY <1>3, <1>4, <1>6, MinimalElement
<1>8. \A f \in available \ {e} : GoesBefore(cand, s, balanced, e, f)
    BY <1>5, <1>7 DEF R
<1> QED BY <1>8 DEF NextCandidate

\* A pick adds one of the group, unless all of the group are picked.
LEMMA PickNextStep ==
    ASSUME NEW cand, SoundCandidates(cand), NEW s \in Picks(cand), NEW balanced,
           NEW group \in SUBSET DOMAIN cand
    PROVE  \/ group \subseteq Chosen(s) /\ PickNext(cand, group, s, balanced) = s
           \/ \E e \in group \ Chosen(s) : PickNext(cand, group, s, balanced) = Append(s, e)
<1> DEFINE available == group \ Chosen(s)
<1>1. CASE available = {}
    BY <1>1 DEF PickNext
<1>2. CASE available # {}
    <2>1. NextCandidate(cand, available, s, balanced) \in available
        BY <1>2, NextIsAvailable
    <2>2. PickNext(cand, group, s, balanced) = Append(s, NextCandidate(cand, available, s, balanced))
        BY <1>2 DEF PickNext
    <2> QED BY <2>1, <2>2
<1> QED BY <1>1, <1>2

\* To continue is transitive.
LEMMA ContinuesOn ==
    ASSUME NEW s, NEW t, NEW u, Len(s) \in Nat, Len(t) \in Nat, Len(u) \in Nat,
           Continues(s, t), Continues(t, u)
    PROVE  Continues(s, u)
BY DEF Continues

\* A pick continues what was picked.
LEMMA PickNextPicks ==
    ASSUME NEW cand, SoundCandidates(cand), NEW s \in Picks(cand), NEW balanced,
           NEW group \in SUBSET DOMAIN cand
    PROVE  /\ PickNext(cand, group, s, balanced) \in Picks(cand)
           /\ Continues(s, PickNext(cand, group, s, balanced))
<1>1. CASE PickNext(cand, group, s, balanced) = s
    <2>1. Len(s) \in Nat
        BY ChosenType
    <2> QED BY <1>1, <2>1 DEF Continues
<1>2. CASE \E e \in group \ Chosen(s) : PickNext(cand, group, s, balanced) = Append(s, e)
    BY <1>2, AppendPicks
<1> QED BY <1>1, <1>2, PickNextStep

\* What every pick keeps, picking all of a group keeps.
LEMMA PickAllSteps ==
    ASSUME NEW cand, NEW balanced, NEW s, NEW group,
           NEW n \in Nat, n = Cardinality(group),
           NEW reached, <<0, s>> \in reached,
           \A i \in 1..n : \A t : <<i - 1, t>> \in reached =>
               <<i, PickNext(cand, group, t, balanced)>> \in reached
    PROVE  <<n, PickAll(cand, group, s, balanced)>> \in reached
<1> DEFINE values == {p[2] : p \in reached}
           step == [p \in (1..n) \X values |-> PickNext(cand, group, p[2], balanced)]
           after == CHOOSE after : after = [i \in 0..Cardinality(group) |->
               IF i = 0 THEN s ELSE PickNext(cand, group, after[i - 1], balanced)]
<1>0. n \in Nat /\ <<0, s>> \in reached
    OBVIOUS
<1>1. after = [i \in 0..n |-> IF i = 0 THEN s ELSE PickNext(cand, group, after[i - 1], balanced)]
    <2> SUFFICES \E f : f = [i \in 0..n |-> IF i = 0 THEN s ELSE PickNext(cand, group, f[i - 1], balanced)]
        OBVIOUS
    <2> HIDE DEF after
    <2>1. \A i \in 1..n : \A t : <<i - 1, t>> \in reached =>
              t \in values /\ step[<<i, t>>] = PickNext(cand, group, t, balanced)
        <3>1. \A i \in 1..n : \A t : <<i - 1, t>> \in reached => t \in values
            OBVIOUS
        <3> HIDE DEF values
        <3> QED BY <3>1
    <2> HIDE DEF step, values
    <2>2. PICK f : Unfolds(f, n, reached, s, step)
        <3>1. \A i \in 1..n : \A t : <<i - 1, t>> \in reached => <<i, step[<<i, t>>]>> \in reached
            BY <2>1
        <3>2. \E f : Unfolds(f, n, reached, s, step)
            BY ONLY <1>0, <3>1, StepsCanBeTaken
        <3> QED BY ONLY <3>2
    <2>3. f = [i \in 0..n |-> IF i = 0 THEN s ELSE PickNext(cand, group, f[i - 1], balanced)]
        <3>1. \A i \in 1..n : f[i] = step[<<i, f[i - 1]>>] /\ <<i - 1, f[i - 1]>> \in reached
            <4>1. \A i \in 1..n : <<i - 1, f[i - 1]>> \in reached
                BY ONLY <2>2 DEF Unfolds
            <4>2. f = [i \in 0..n |-> IF i = 0 THEN s ELSE step[<<i, f[i - 1]>>]]
                BY ONLY <2>2 DEF Unfolds
            <4>3. \A i \in 1..n : i \in 0..n /\ i # 0
                BY ONLY <1>0
            <4>4. \A i \in 1..n : f[i] = step[<<i, f[i - 1]>>]
                BY ONLY <4>2, <4>3
            <4> QED BY ONLY <4>1, <4>4
        <3>2. \A i \in 1..n : step[<<i, f[i - 1]>>] = PickNext(cand, group, f[i - 1], balanced)
            BY <2>1, <3>1
        <3>3. \A i \in 0..n : (IF i = 0 THEN s ELSE step[<<i, f[i - 1]>>])
                           = (IF i = 0 THEN s ELSE PickNext(cand, group, f[i - 1], balanced))
            BY ONLY <1>0, <3>2
        <3>4. f = [i \in 0..n |-> IF i = 0 THEN s ELSE step[<<i, f[i - 1]>>]]
            BY ONLY <2>2 DEF Unfolds
        <3> QED BY ONLY <3>3, <3>4
    <2> QED BY <2>3
<1>2. PickAll(cand, group, s, balanced) = after[n]
    BY DEF PickAll
<1> HIDE DEF after
<1>3. after[0] = s /\ \A i \in 1..n : after[i] = PickNext(cand, group, after[i - 1], balanced)
    BY <1>1
<1>4. <<0, after[0]>> \in reached
    BY <1>3
<1>5. \A i \in 1..n : <<i - 1, after[i - 1]>> \in reached => <<i, after[i]>> \in reached
    BY <1>3
<1>6. <<n, after[n]>> \in reached
    BY ONLY <1>0, <1>4, <1>5, StepsStay
<1> QED BY <1>2, <1>6

\* What was picked continues itself.
LEMMA ContinuesItself ==
    ASSUME NEW s, Len(s) \in Nat
    PROVE  Continues(s, s)
BY DEF Continues

\* All of the group are picked in the end, and nobody else.
LEMMA PickAllPicks ==
    ASSUME NEW cand, SoundCandidates(cand), NEW balanced, NEW s \in Picks(cand),
           NEW group \in SUBSET DOMAIN cand
    PROVE  /\ PickAll(cand, group, s, balanced) \in Picks(cand)
           /\ Continues(s, PickAll(cand, group, s, balanced))
           /\ Chosen(PickAll(cand, group, s, balanced)) = Chosen(s) \cup group
<1>1. PICK n \in Nat : n = Cardinality(group) /\ IsFiniteSet(group)
    BY FS_Subset, FS_CardinalityType DEF SoundCandidates
<1> DEFINE Left(t) == group \ Chosen(t)
           Good(i, t) == /\ Continues(s, t) /\ Chosen(s) \subseteq Chosen(t)
                         /\ Chosen(t) \subseteq Chosen(s) \cup group
                         /\ IsFiniteSet(Left(t)) /\ Cardinality(Left(t)) \in Nat
                         /\ Cardinality(Left(t)) <= n - i
           reached == {p \in (0..n) \X Picks(cand) : Good(p[1], p[2])}
<1>2. <<0, s>> \in reached
    <2>1. Left(s) \in SUBSET group /\ Len(s) \in Nat
        BY ChosenType
    <2> HIDE DEF Left
    <2>2. IsFiniteSet(Left(s)) /\ Cardinality(Left(s)) <= n /\ Cardinality(Left(s)) \in Nat
        BY <1>1, <2>1, FS_Subset, FS_CardinalityType
    <2>3. Continues(s, s)
        BY <2>1, ContinuesItself
    <2>4. Good(0, s)
        BY <1>1, <2>2, <2>3
    <2> HIDE DEF Good
    <2> QED BY <1>1, <2>4
<1>3. ASSUME NEW i \in 1..n, NEW t, <<i - 1, t>> \in reached
      PROVE  <<i, PickNext(cand, group, t, balanced)>> \in reached
    <2> DEFINE u == PickNext(cand, group, t, balanced)
    <2>1. t \in Picks(cand) /\ Good(i - 1, t) /\ i \in 0..n
        <3> HIDE DEF Good
        <3> QED BY <1>1, <1>3
    <2>2. u \in Picks(cand) /\ Continues(t, u)
        BY <2>1, PickNextPicks
    <2>3. Continues(s, u)
        <3>1. Len(s) \in Nat /\ Len(t) \in Nat /\ Len(u) \in Nat
            BY <2>1, <2>2, ChosenType
        <3> QED BY <2>1, <2>2, <3>1, ContinuesOn
    <2>4. CASE group \subseteq Chosen(t) /\ u = t
        <3>1. Left(u) = {}
            BY <2>4
        <3>2. IsFiniteSet(Left(u)) /\ Cardinality(Left(u)) = 0
            BY <3>1, FS_EmptySet
        <3>3. Good(i, u)
            <4> HIDE DEF Left
            <4> QED BY <1>1, <2>1, <2>3, <2>4, <3>2
        <3> HIDE DEF Good, u
        <3> QED BY <2>1, <2>2, <3>3 DEF u
    <2>5. CASE \E e \in group \ Chosen(t) : u = Append(t, e)
        <3>1. PICK e \in group \ Chosen(t) : u = Append(t, e)
            BY <2>5
        <3>2. Chosen(u) = Chosen(t) \cup {e}
            BY <2>1, <3>1, AppendPicks
        <3>3. Left(u) = Left(t) \ {e} /\ e \in Left(t)
            BY <3>1, <3>2
        <3>4. IsFiniteSet(Left(u)) /\ Cardinality(Left(u)) = Cardinality(Left(t)) - 1
            <4> HIDE DEF Left
            <4> QED BY <2>1, <3>3, FS_RemoveElement
        <3>5. Cardinality(Left(u)) \in Nat
            BY <3>4, FS_CardinalityType
        <3>6. Cardinality(Left(t)) <= n - (i - 1) /\ Cardinality(Left(t)) \in Nat
            BY <2>1
        <3>7. Chosen(u) \subseteq Chosen(s) \cup group /\ Chosen(s) \subseteq Chosen(u)
            BY <2>1, <3>1, <3>2
        <3>8. Good(i, u)
            <4> HIDE DEF Left
            <4> QED BY <1>1, <2>3, <3>4, <3>5, <3>6, <3>7
        <3> HIDE DEF Good, u
        <3> QED BY <2>1, <2>2, <3>8 DEF u
    <2> QED BY <2>1, <2>4, <2>5, PickNextStep
<1>4. <<n, PickAll(cand, group, s, balanced)>> \in reached
    <2> HIDE DEF reached
    <2> QED BY <1>1, <1>2, <1>3, PickAllSteps
<1> DEFINE u == PickAll(cand, group, s, balanced)
<1>5. u \in Picks(cand) /\ Good(n, u)
    BY <1>4
<1>6. Left(u) = {}
    <2>1. IsFiniteSet(Left(u)) /\ Cardinality(Left(u)) \in Nat /\ Cardinality(Left(u)) <= n - n
        BY <1>5
    <2> HIDE DEF Left
    <2> QED BY <1>1, <2>1, FS_EmptySet
<1> QED BY <1>5, <1>6

-----------------------------------------------------------------------------
\* Each rule of a type comes once among the ordered rules.
LEMMA RulesArranged ==
    ASSUME NEW rules, SoundRules(rules), NEW type
    PROVE  /\ Len(OrderedRules(rules, type)) \in Nat
           /\ \A i \in 1..Len(OrderedRules(rules, type)) :
                 OrderedRules(rules, type)[i] \in rules /\ OrderedRules(rules, type)[i].type = type
           /\ \A i, j \in 1..Len(OrderedRules(rules, type)) :
                 i # j => OrderedRules(rules, type)[i] # OrderedRules(rules, type)[j]
           /\ \A r \in rules : r.type = type =>
                 \E i \in 1..Len(OrderedRules(rules, type)) : OrderedRules(rules, type)[i] = r
<1> DEFINE S == {r \in rules : r.type = type}
           before == {p \in S \X S : \/ p[1].order < p[2].order
                                     \/ p[1].order = p[2].order /\ p[1].id < p[2].id}
           s == Arranged(S, before)
<1>1. OrderedRules(rules, type) = s
    BY DEF OrderedRules
<1>2. IsFiniteSet(S) /\ Cardinality(S) \in Nat
    BY FS_Subset, FS_CardinalityType DEF SoundRules
<1>3. StrictOrder(S, before)
    <2>1. \A e, f \in S : <<e, f>> \in before <=>
              e.order < f.order \/ (e.order = f.order /\ e.id < f.id)
        OBVIOUS
    <2>2. \A e \in S : e.order \in Int /\ e.id \in Int
        BY DEF SoundRules
    <2>3. \A e, f \in S : e.id = f.id => e = f
        BY DEF SoundRules
    <2> HIDE DEF S, before
    <2>4. \A e \in S : <<e, e>> \notin before
        BY <2>1, <2>2
    <2>5. \A e, f, g \in S : <<e, f>> \in before /\ <<f, g>> \in before => <<e, g>> \in before
        BY <2>1, <2>2
    <2>6. \A e, f \in S : e = f \/ <<e, f>> \in before \/ <<f, e>> \in before
        <3> SUFFICES ASSUME NEW e \in S, NEW f \in S, e # f
                     PROVE  <<e, f>> \in before \/ <<f, e>> \in before
            OBVIOUS
        <3>1. e.order \in Int /\ f.order \in Int /\ e.id \in Int /\ f.id \in Int /\ e.id # f.id
            BY <2>2, <2>3
        <3>2. \/ e.order < f.order \/ (e.order = f.order /\ e.id < f.id)
              \/ f.order < e.order \/ (f.order = e.order /\ f.id < e.id)
            BY <3>1
        <3> QED BY <2>1, <3>2
    <2> QED BY <2>4, <2>5, <2>6 DEF StrictOrder
<1>4. S \subseteq rules /\ \A r \in S : r.type = type
    OBVIOUS
<1>5. \A r \in rules : r.type = type => r \in S
    OBVIOUS
<1> HIDE DEF S, before
<1>6. /\ s \in [1..Cardinality(S) -> S] /\ \A e \in S : \E i \in 1..Cardinality(S) : s[i] = e
      /\ \A i, j \in 1..Cardinality(S) : i < j => <<s[i], s[j]>> \in before
    BY <1>2, <1>3, ArrangedInOrder
<1> HIDE DEF s
<1>7. Len(s) = Cardinality(S)
    BY <1>2, <1>6
<1>8. ASSUME NEW i \in 1..Len(s), NEW j \in 1..Len(s), i # j PROVE s[i] # s[j]
    <2>1. i < j \/ j < i
        BY <1>2, <1>7, <1>8
    <2>2. s[i] \in S /\ s[j] \in S /\ (<<s[i], s[j]>> \in before \/ <<s[j], s[i]>> \in before)
        BY <1>6, <1>7, <2>1
    <2> QED BY <1>3, <2>2 DEF StrictOrder
<1> QED BY <1>1, <1>2, <1>4, <1>5, <1>6, <1>7, <1>8

-----------------------------------------------------------------------------
\* A group of a guarantee is a set of applications that match it.
LEMMA GroupsType ==
    ASSUME NEW cand, SoundCandidates(cand), NEW rule
    PROVE  /\ IsFiniteSet(GroupsOf(cand, rule))
           /\ \A g \in GroupsOf(cand, rule) : g \subseteq DOMAIN cand /\ g # {} /\ IsFiniteSet(g)
           /\ \A g, h \in GroupsOf(cand, rule) : g = h \/ g \cap h = {}
           /\ \A e \in Matching(cand, rule) : \E g \in GroupsOf(cand, rule) : e \in g
<1> DEFINE group(e) == GroupOf(cand, rule, SourceValue(cand, e, rule))
<1>1. Matching(cand, rule) \in SUBSET DOMAIN cand /\ IsFiniteSet(Matching(cand, rule))
    BY FS_Subset DEF Matching, SoundCandidates
<1>2. \A e \in Matching(cand, rule) : e \in group(e) /\ group(e) \in SUBSET DOMAIN cand
    BY <1>1 DEF GroupOf
<1>3. \A e, f \in Matching(cand, rule) : group(e) = group(f) \/ group(e) \cap group(f) = {}
    BY DEF GroupOf
<1>4. GroupsOf(cand, rule) = {group(e) : e \in Matching(cand, rule)}
    BY DEF GroupsOf
<1> HIDE DEF group
<1>5. IsFiniteSet(GroupsOf(cand, rule))
    <2> DEFINE M == Matching(cand, rule)
               f == [e \in M |-> group(e)]
    <2>1. f \in Surjection(M, GroupsOf(cand, rule))
        BY <1>4 DEF Surjection
    <2> HIDE DEF M, f
    <2> QED BY <1>1, <2>1, FS_Surjection DEF M
<1>6. \A g \in GroupsOf(cand, rule) : g \subseteq DOMAIN cand /\ g # {}
    BY <1>2, <1>4
<1>7. \A g \in GroupsOf(cand, rule) : IsFiniteSet(g)
    BY <1>6, FS_Subset DEF SoundCandidates
<1>8. \A g, h \in GroupsOf(cand, rule) : g = h \/ g \cap h = {}
    BY <1>3, <1>4
<1>9. \A e \in Matching(cand, rule) : \E g \in GroupsOf(cand, rule) : e \in g
    BY <1>2, <1>4
<1> QED BY <1>5, <1>6, <1>7, <1>8, <1>9

\* Every group comes once, in the order of the earliest applications.
LEMMA GroupsArranged ==
    ASSUME NEW cand, SoundCandidates(cand), NEW rule
    PROVE  LET groups == GuaranteeGroups(cand, rule)
           IN  /\ Len(groups) \in Nat
               /\ groups \in [1..Len(groups) -> GroupsOf(cand, rule)]
               /\ \A i, j \in 1..Len(groups) :
                     i < j => /\ groups[i] # groups[j]
                              /\ \E e \in groups[i] : \A f \in groups[j] : Precedes(cand, e, f)
               /\ \A g \in GroupsOf(cand, rule) : \E i \in 1..Len(groups) : groups[i] = g
<1> DEFINE S == GroupsOf(cand, rule)
           before == {p \in S \X S :
                         p[1] # p[2] /\ \E e \in p[1] : \A f \in p[2] : Precedes(cand, e, f)}
<1>1. \A g, h \in S : <<g, h>> \in before <=>
          g # h /\ \E e \in g : \A f \in h : Precedes(cand, e, f)
    OBVIOUS
<1>2. GuaranteeGroups(cand, rule) = Arranged(S, before)
    BY DEF GuaranteeGroups
<1> HIDE DEF S, before
<1>3. \A g \in S : g \subseteq DOMAIN cand /\ g # {} /\ IsFiniteSet(g)
    BY GroupsType DEF S
<1>4. \A g, h \in S : g = h \/ g \cap h = {}
    BY GroupsType DEF S
<1>5. \A g, h, k \in S : <<g, h>> \in before /\ <<h, k>> \in before => <<g, k>> \in before
    <2> SUFFICES ASSUME NEW g \in S, NEW h \in S, NEW k \in S, <<g, h>> \in before, <<h, k>> \in before
                 PROVE  <<g, k>> \in before
        OBVIOUS
    <2>1. PICK e \in g : \A f \in h : Precedes(cand, e, f)
        BY <1>1
    <2>2. PICK f \in h : \A m \in k : Precedes(cand, f, m)
        BY <1>1
    <2>3. e \in DOMAIN cand /\ f \in DOMAIN cand /\ \A m \in k : m \in DOMAIN cand
        BY <1>3
    <2>4. \A m \in k : Precedes(cand, e, m)
        BY <2>1, <2>2, <2>3, PrecedesInOrder
    <2>5. e \notin k
        BY <2>3, <2>4, PrecedesInOrder
    <2> QED BY <1>1, <2>4, <2>5
<1>6. ASSUME NEW g \in S PROVE \E e \in g : \A f \in g : f = e \/ Precedes(cand, e, f)
    <2> DEFINE R == {p \in g \X g : Precedes(cand, p[1], p[2])}
    <2>1. \A e, f \in g : <<e, f>> \in R <=> Precedes(cand, e, f)
        OBVIOUS
    <2> HIDE DEF R
    <2>2. g \subseteq DOMAIN cand /\ g # {} /\ IsFiniteSet(g)
        BY <1>3
    <2>3. /\ \A e \in g : <<e, e>> \notin R
          /\ \A e, f, m \in g : <<e, f>> \in R /\ <<f, m>> \in R => <<e, m>> \in R
        BY <2>1, <2>2, PrecedesInOrder
    <2>4. PICK e \in g : \A f \in g : <<f, e>> \notin R
        BY <2>2, <2>3, MinimalElement
    <2> QED BY <2>1, <2>2, <2>4, PrecedesInOrder
<1>7. \A g, h \in S : g = h \/ <<g, h>> \in before \/ <<h, g>> \in before
    <2> SUFFICES ASSUME NEW g \in S, NEW h \in S, g # h
                 PROVE  <<g, h>> \in before \/ <<h, g>> \in before
        OBVIOUS
    <2>1. PICK e \in g : \A f \in g : f = e \/ Precedes(cand, e, f)
        BY <1>6
    <2>2. PICK m \in h : \A f \in h : f = m \/ Precedes(cand, m, f)
        BY <1>6
    <2>3. g \subseteq DOMAIN cand /\ h \subseteq DOMAIN cand /\ e # m
        BY <1>3, <1>4
    <2>4. CASE Precedes(cand, e, m)
        <3>1. \A f \in h : Precedes(cand, e, f)
            BY <2>2, <2>3, <2>4, PrecedesInOrder
        <3> QED BY <1>1, <3>1
    <2>5. CASE Precedes(cand, m, e)
        <3>1. \A f \in g : Precedes(cand, m, f)
            BY <2>1, <2>3, <2>5, PrecedesInOrder
        <3> QED BY <1>1, <3>1
    <2> QED BY <2>3, <2>4, <2>5, PrecedesInOrder
<1>8. StrictOrder(S, before)
    <2>1. \A g \in S : <<g, g>> \notin before
        BY <1>1
    <2> QED BY <2>1, <1>5, <1>7 DEF StrictOrder
<1>9. IsFiniteSet(S) /\ Cardinality(S) \in Nat
    BY GroupsType, FS_CardinalityType DEF S
<1> DEFINE groups == GuaranteeGroups(cand, rule)
<1>10. /\ groups \in [1..Cardinality(S) -> S]
       /\ \A i, j \in 1..Cardinality(S) : i < j => <<groups[i], groups[j]>> \in before
       /\ \A g \in S : \E i \in 1..Cardinality(S) : groups[i] = g
    BY <1>2, <1>8, <1>9, ArrangedInOrder
<1> HIDE DEF groups
<1>11. Len(groups) = Cardinality(S)
    BY <1>9, <1>10
<1>12. \A i, j \in 1..Len(groups) :
          i < j => /\ groups[i] # groups[j]
                   /\ \E e \in groups[i] : \A f \in groups[j] : Precedes(cand, e, f)
    <2> SUFFICES ASSUME NEW i \in 1..Len(groups), NEW j \in 1..Len(groups), i < j
                 PROVE  /\ groups[i] # groups[j]
                        /\ \E e \in groups[i] : \A f \in groups[j] : Precedes(cand, e, f)
        OBVIOUS
    <2>1. groups[i] \in S /\ groups[j] \in S /\ <<groups[i], groups[j]>> \in before
        BY <1>10, <1>11
    <2> QED BY <1>1, <2>1
<1> QED BY <1>9, <1>10, <1>11, <1>12 DEF groups, S

-----------------------------------------------------------------------------
\* How many places a group has got.
Count(group, s) == Cardinality(group \cap Chosen(s))

\* A group has got at most as many places as it has applications.
LEMMA CountType ==
    ASSUME NEW cand, SoundCandidates(cand), NEW s \in Picks(cand), NEW group \in SUBSET DOMAIN cand
    PROVE  /\ Count(group, s) \in Nat /\ Cardinality(group) \in Nat /\ Count(group, s) <= Cardinality(group)
           /\ Count(group, s) = Cardinality(group) => group \subseteq Chosen(s)
           /\ Cardinality(group) <= Cardinality(DOMAIN cand) /\ Cardinality(DOMAIN cand) \in Nat
<1>1. IsFiniteSet(group) /\ IsFiniteSet(DOMAIN cand)
    BY FS_Subset DEF SoundCandidates
<1>2. group \cap Chosen(s) \in SUBSET group
    OBVIOUS
<1>3. /\ Cardinality(group \cap Chosen(s)) \in Nat /\ Cardinality(group) \in Nat
      /\ Cardinality(DOMAIN cand) \in Nat
    BY <1>1, <1>2, FS_Subset, FS_CardinalityType
<1>4. /\ Cardinality(group \cap Chosen(s)) <= Cardinality(group)
      /\ Cardinality(group \cap Chosen(s)) = Cardinality(group) => group \cap Chosen(s) = group
    BY <1>1, <1>2, FS_Subset
<1>5. Cardinality(group) <= Cardinality(DOMAIN cand)
    BY <1>1, FS_Subset
<1> QED BY <1>3, <1>4, <1>5 DEF Count

\* A group keeps its places.
LEMMA CountGrows ==
    ASSUME NEW cand, SoundCandidates(cand), NEW s \in Picks(cand), NEW group \in SUBSET DOMAIN cand,
           NEW t \in Picks(cand), Chosen(s) \subseteq Chosen(t)
    PROVE  Count(group, s) <= Count(group, t)
<1>1. group \cap Chosen(s) \in SUBSET (group \cap Chosen(t))
    OBVIOUS
<1>2. IsFiniteSet(group \cap Chosen(t))
    BY ChosenType, FS_Subset
<1> QED BY <1>1, <1>2, FS_Subset DEF Count

\* Who is picked counts for the groups it belongs to.
LEMMA CountOneMore ==
    ASSUME NEW cand, SoundCandidates(cand), NEW s \in Picks(cand), NEW group \in SUBSET DOMAIN cand,
           NEW e \in DOMAIN cand \ Chosen(s)
    PROVE  Count(group, Append(s, e)) = IF e \in group THEN Count(group, s) + 1 ELSE Count(group, s)
<1>1. Chosen(Append(s, e)) = Chosen(s) \cup {e}
    BY AppendPicks
<1>2. IsFiniteSet(group \cap Chosen(s)) /\ e \notin group \cap Chosen(s)
    BY ChosenType, FS_Subset
<1>3. CASE e \in group
    <2>1. group \cap Chosen(Append(s, e)) = (group \cap Chosen(s)) \cup {e}
        BY <1>1, <1>3
    <2>2. Cardinality((group \cap Chosen(s)) \cup {e}) = Cardinality(group \cap Chosen(s)) + 1
        BY <1>2, FS_AddElement
    <2> QED BY <1>3, <2>1, <2>2 DEF Count
<1>4. CASE e \notin group
    <2>1. group \cap Chosen(Append(s, e)) = group \cap Chosen(s)
        BY <1>1, <1>4
    <2> QED BY <1>4, <2>1 DEF Count
<1> QED BY <1>3, <1>4

\* What is due to a group is a number, and no more than its applications.
LEMMA DueType ==
    ASSUME NEW cand, SoundCandidates(cand), NEW group \in SUBSET DOMAIN cand, NEW rule, rule.quota \in Nat
    PROVE  Due(rule, group) \in Nat /\ Due(rule, group) <= rule.quota
           /\ Due(rule, group) <= Cardinality(group) /\ Cardinality(group) <= Cardinality(DOMAIN cand)
           /\ Cardinality(DOMAIN cand) \in Nat
<1>1. IsFiniteSet(group) /\ IsFiniteSet(DOMAIN cand)
    BY FS_Subset DEF SoundCandidates
<1>2. Cardinality(group) <= Cardinality(DOMAIN cand) /\ Cardinality(group) \in Nat /\ Cardinality(DOMAIN cand) \in Nat
    BY <1>1, FS_Subset, FS_CardinalityType
<1> QED BY <1>2 DEF Due

\* A place is offered as long as the group has not got what is due to it.
LEMMA OfferStep ==
    ASSUME NEW cand, SoundCandidates(cand), NEW balanced, NEW s \in Picks(cand),
           NEW group \in SUBSET DOMAIN cand, NEW rule, rule.quota \in Nat
    PROVE  \/ /\ Count(group, s) >= Due(rule, group)
              /\ Offer(cand, rule, group, s, balanced) = s
           \/ /\ Count(group, s) < Due(rule, group)
              /\ \E e \in group \ Chosen(s) : Offer(cand, rule, group, s, balanced) = Append(s, e)
<1>1. /\ Count(group, s) \in Nat /\ Cardinality(group) \in Nat /\ Count(group, s) <= Cardinality(group)
      /\ Count(group, s) = Cardinality(group) => group \subseteq Chosen(s)
    BY CountType
<1>2. CASE Count(group, s) >= rule.quota
    <2>1. Offer(cand, rule, group, s, balanced) = s
        BY <1>2 DEF Offer, Count
    <2>2. Count(group, s) >= Due(rule, group)
        BY <1>1, <1>2 DEF Due
    <2> QED BY <2>1, <2>2
<1>3. CASE Count(group, s) < rule.quota
    <2>1. Offer(cand, rule, group, s, balanced) = PickNext(cand, group, s, balanced)
        <3>1. ~(Cardinality(group \cap Chosen(s)) >= rule.quota)
            BY <1>1, <1>3 DEF Count
        <3> QED BY <3>1 DEF Offer
    <2>2. CASE group \subseteq Chosen(s)
        <3>1. group \cap Chosen(s) = group
            BY <2>2
        <3>2. Count(group, s) = Cardinality(group)
            BY <3>1 DEF Count
        <3>3. Count(group, s) >= Due(rule, group)
            BY <1>1, <1>3, <3>2 DEF Due
        <3>4. PickNext(cand, group, s, balanced) = s
            BY <2>2, PickNextStep
        <3> QED BY <2>1, <3>3, <3>4
    <2>3. CASE ~(group \subseteq Chosen(s))
        <3>1. Count(group, s) < Due(rule, group)
            BY <1>1, <1>3, <2>3 DEF Due
        <3>2. \E e \in group \ Chosen(s) : PickNext(cand, group, s, balanced) = Append(s, e)
            BY <2>3, PickNextStep
        <3> QED BY <2>1, <3>1, <3>2
    <2> QED BY <2>2, <2>3
<1> QED BY <1>1, <1>2, <1>3

\* What every offer keeps, a round keeps.
LEMMA RoundSteps ==
    ASSUME NEW cand, NEW balanced, NEW s, NEW rule,
           NEW n \in Nat, n = Len(GuaranteeGroups(cand, rule)),
           NEW reached, <<0, s>> \in reached,
           \A i \in 1..n : \A t : <<i - 1, t>> \in reached =>
               <<i, Offer(cand, rule, GuaranteeGroups(cand, rule)[i], t, balanced)>> \in reached
    PROVE  <<n, GuaranteeRound(cand, rule, s, balanced)>> \in reached
<1> DEFINE values == {p[2] : p \in reached}
           step == [p \in (1..n) \X values |-> Offer(cand, rule, GuaranteeGroups(cand, rule)[p[1]], p[2], balanced)]
           after == CHOOSE after : after = [i \in 0..Len(GuaranteeGroups(cand, rule)) |->
               IF i = 0 THEN s ELSE Offer(cand, rule, GuaranteeGroups(cand, rule)[i], after[i - 1], balanced)]
<1>0. n \in Nat /\ <<0, s>> \in reached
    OBVIOUS
<1>1. after = [i \in 0..n |-> IF i = 0 THEN s ELSE Offer(cand, rule, GuaranteeGroups(cand, rule)[i], after[i - 1], balanced)]
    <2> SUFFICES \E f : f = [i \in 0..n |-> IF i = 0 THEN s ELSE Offer(cand, rule, GuaranteeGroups(cand, rule)[i], f[i - 1], balanced)]
        OBVIOUS
    <2> HIDE DEF after
    <2>1. \A i \in 1..n : \A t : <<i - 1, t>> \in reached =>
              t \in values /\ step[<<i, t>>] = Offer(cand, rule, GuaranteeGroups(cand, rule)[i], t, balanced)
        <3>1. \A i \in 1..n : \A t : <<i - 1, t>> \in reached => t \in values
            OBVIOUS
        <3> HIDE DEF values
        <3> QED BY <3>1
    <2> HIDE DEF step, values
    <2>2. PICK f : Unfolds(f, n, reached, s, step)
        <3>1. \A i \in 1..n : \A t : <<i - 1, t>> \in reached => <<i, step[<<i, t>>]>> \in reached
            BY <2>1
        <3>2. \E f : Unfolds(f, n, reached, s, step)
            BY ONLY <1>0, <3>1, StepsCanBeTaken
        <3> QED BY ONLY <3>2
    <2>3. f = [i \in 0..n |-> IF i = 0 THEN s ELSE Offer(cand, rule, GuaranteeGroups(cand, rule)[i], f[i - 1], balanced)]
        <3>1. \A i \in 1..n : f[i] = step[<<i, f[i - 1]>>] /\ <<i - 1, f[i - 1]>> \in reached
            <4>1. \A i \in 1..n : <<i - 1, f[i - 1]>> \in reached
                BY ONLY <2>2 DEF Unfolds
            <4>2. f = [i \in 0..n |-> IF i = 0 THEN s ELSE step[<<i, f[i - 1]>>]]
                BY ONLY <2>2 DEF Unfolds
            <4>3. \A i \in 1..n : i \in 0..n /\ i # 0
                BY ONLY <1>0
            <4>4. \A i \in 1..n : f[i] = step[<<i, f[i - 1]>>]
                BY ONLY <4>2, <4>3
            <4> QED BY ONLY <4>1, <4>4
        <3>2. \A i \in 1..n : step[<<i, f[i - 1]>>] = Offer(cand, rule, GuaranteeGroups(cand, rule)[i], f[i - 1], balanced)
            BY <2>1, <3>1
        <3>3. \A i \in 0..n : (IF i = 0 THEN s ELSE step[<<i, f[i - 1]>>])
                           = (IF i = 0 THEN s ELSE Offer(cand, rule, GuaranteeGroups(cand, rule)[i], f[i - 1], balanced))
            BY ONLY <1>0, <3>2
        <3>4. f = [i \in 0..n |-> IF i = 0 THEN s ELSE step[<<i, f[i - 1]>>]]
            BY ONLY <2>2 DEF Unfolds
        <3> QED BY ONLY <3>3, <3>4
    <2> QED BY <2>3
<1>2. GuaranteeRound(cand, rule, s, balanced) = after[n]
    BY DEF GuaranteeRound
<1> HIDE DEF after
<1>3. after[0] = s /\ \A i \in 1..n : after[i] = Offer(cand, rule, GuaranteeGroups(cand, rule)[i], after[i - 1], balanced)
    BY <1>1
<1>4. <<0, after[0]>> \in reached
    BY <1>3
<1>5. \A i \in 1..n : <<i - 1, after[i - 1]>> \in reached => <<i, after[i]>> \in reached
    BY <1>3
<1>6. <<n, after[n]>> \in reached
    BY ONLY <1>0, <1>4, <1>5, StepsStay
<1> QED BY <1>2, <1>6

\* What every round keeps, a guarantee keeps.
LEMMA GuaranteeSteps ==
    ASSUME NEW cand, NEW balanced, NEW s, NEW rule,
           NEW n \in Nat, n = Cardinality(DOMAIN cand),
           NEW reached, <<0, s>> \in reached,
           \A i \in 1..n : \A t : <<i - 1, t>> \in reached =>
               <<i, GuaranteeRound(cand, rule, t, balanced)>> \in reached
    PROVE  <<n, ApplyGuarantee(cand, rule, s, balanced)>> \in reached
<1> DEFINE values == {p[2] : p \in reached}
           step == [p \in (1..n) \X values |-> GuaranteeRound(cand, rule, p[2], balanced)]
           after == CHOOSE after : after = [i \in 0..Cardinality(DOMAIN cand) |->
               IF i = 0 THEN s ELSE GuaranteeRound(cand, rule, after[i - 1], balanced)]
<1>0. n \in Nat /\ <<0, s>> \in reached
    OBVIOUS
<1>1. after = [i \in 0..n |-> IF i = 0 THEN s ELSE GuaranteeRound(cand, rule, after[i - 1], balanced)]
    <2> SUFFICES \E f : f = [i \in 0..n |-> IF i = 0 THEN s ELSE GuaranteeRound(cand, rule, f[i - 1], balanced)]
        OBVIOUS
    <2> HIDE DEF after
    <2>1. \A i \in 1..n : \A t : <<i - 1, t>> \in reached =>
              t \in values /\ step[<<i, t>>] = GuaranteeRound(cand, rule, t, balanced)
        <3>1. \A i \in 1..n : \A t : <<i - 1, t>> \in reached => t \in values
            OBVIOUS
        <3> HIDE DEF values
        <3> QED BY <3>1
    <2> HIDE DEF step, values
    <2>2. PICK f : Unfolds(f, n, reached, s, step)
        <3>1. \A i \in 1..n : \A t : <<i - 1, t>> \in reached => <<i, step[<<i, t>>]>> \in reached
            BY <2>1
        <3>2. \E f : Unfolds(f, n, reached, s, step)
            BY ONLY <1>0, <3>1, StepsCanBeTaken
        <3> QED BY ONLY <3>2
    <2>3. f = [i \in 0..n |-> IF i = 0 THEN s ELSE GuaranteeRound(cand, rule, f[i - 1], balanced)]
        <3>1. \A i \in 1..n : f[i] = step[<<i, f[i - 1]>>] /\ <<i - 1, f[i - 1]>> \in reached
            <4>1. \A i \in 1..n : <<i - 1, f[i - 1]>> \in reached
                BY ONLY <2>2 DEF Unfolds
            <4>2. f = [i \in 0..n |-> IF i = 0 THEN s ELSE step[<<i, f[i - 1]>>]]
                BY ONLY <2>2 DEF Unfolds
            <4>3. \A i \in 1..n : i \in 0..n /\ i # 0
                BY ONLY <1>0
            <4>4. \A i \in 1..n : f[i] = step[<<i, f[i - 1]>>]
                BY ONLY <4>2, <4>3
            <4> QED BY ONLY <4>1, <4>4
        <3>2. \A i \in 1..n : step[<<i, f[i - 1]>>] = GuaranteeRound(cand, rule, f[i - 1], balanced)
            BY <2>1, <3>1
        <3>3. \A i \in 0..n : (IF i = 0 THEN s ELSE step[<<i, f[i - 1]>>])
                           = (IF i = 0 THEN s ELSE GuaranteeRound(cand, rule, f[i - 1], balanced))
            BY ONLY <1>0, <3>2
        <3>4. f = [i \in 0..n |-> IF i = 0 THEN s ELSE step[<<i, f[i - 1]>>]]
            BY ONLY <2>2 DEF Unfolds
        <3> QED BY ONLY <3>3, <3>4
    <2> QED BY <2>3
<1>2. ApplyGuarantee(cand, rule, s, balanced) = after[n]
    BY DEF ApplyGuarantee
<1> HIDE DEF after
<1>3. after[0] = s /\ \A i \in 1..n : after[i] = GuaranteeRound(cand, rule, after[i - 1], balanced)
    BY <1>1
<1>4. <<0, after[0]>> \in reached
    BY <1>3
<1>5. \A i \in 1..n : <<i - 1, after[i - 1]>> \in reached => <<i, after[i]>> \in reached
    BY <1>3
<1>6. <<n, after[n]>> \in reached
    BY ONLY <1>0, <1>4, <1>5, StepsStay
<1> QED BY <1>2, <1>6

\* An offer brings the group a place further, or finds it served, and takes nothing away.
LEMMA OfferKeeps ==
    ASSUME NEW cand, SoundCandidates(cand), NEW balanced, NEW s \in Picks(cand),
           NEW group \in SUBSET DOMAIN cand, NEW rule, rule.quota \in Nat
    PROVE  LET t == Offer(cand, rule, group, s, balanced)
           IN  /\ t \in Picks(cand) /\ Continues(s, t) /\ Chosen(s) \subseteq Chosen(t)
               /\ Count(group, t) >= Due(rule, group) \/ Count(group, t) = Count(group, s) + 1
               /\ \A h \in SUBSET DOMAIN cand : Count(h, s) <= Count(h, t)
<1> DEFINE t == Offer(cand, rule, group, s, balanced)
<1>1. CASE Count(group, s) >= Due(rule, group) /\ t = s
    <2>1. Continues(s, s)
        BY ChosenType, ContinuesItself
    <2>2. \A h \in SUBSET DOMAIN cand : Count(h, s) <= Count(h, s)
        BY CountType
    <2> QED BY <1>1, <2>1, <2>2
<1>2. CASE \E e \in group \ Chosen(s) : t = Append(s, e)
    <2>1. PICK e \in group \ Chosen(s) : t = Append(s, e)
        BY <1>2
    <2>2. t \in Picks(cand) /\ Continues(s, t) /\ Chosen(s) \subseteq Chosen(t)
        BY <2>1, AppendPicks
    <2>3. Count(group, t) = Count(group, s) + 1
        BY <2>1, CountOneMore
    <2>4. \A h \in SUBSET DOMAIN cand : Count(h, s) <= Count(h, t)
        BY <2>2, CountGrows
    <2> QED BY <2>2, <2>3, <2>4
<1> QED BY <1>1, <1>2, OfferStep

\* The group has got so many places, or all that are due to it.
Reaches(rule, group, s, k) == Count(group, s) >= Due(rule, group) \/ Count(group, s) >= k

\* A round brings every group one place further, or to what is due to it.
LEMMA RoundHonours ==
    ASSUME NEW cand, SoundCandidates(cand), NEW balanced, NEW s \in Picks(cand),
           NEW rule, rule.quota \in Nat, NEW k \in Nat,
           \A g \in GroupsOf(cand, rule) : Reaches(rule, g, s, k)
    PROVE  LET t == GuaranteeRound(cand, rule, s, balanced)
           IN  /\ t \in Picks(cand) /\ Continues(s, t) /\ Chosen(s) \subseteq Chosen(t)
               /\ \A g \in GroupsOf(cand, rule) : Reaches(rule, g, t, k + 1)
<1> DEFINE groups == GuaranteeGroups(cand, rule)
<1>1. PICK n \in Nat : n = Len(groups)
    BY GroupsArranged
<1>2. /\ \A i \in 1..n : groups[i] \in GroupsOf(cand, rule) /\ groups[i] \in SUBSET DOMAIN cand
      /\ \A g \in GroupsOf(cand, rule) : \E i \in 1..n : groups[i] = g
    BY <1>1, GroupsArranged, GroupsType
<1> DEFINE Good(i, t) ==
        /\ Continues(s, t) /\ Chosen(s) \subseteq Chosen(t)
        /\ \A j \in 1..n : Reaches(rule, groups[j], t, IF j <= i THEN k + 1 ELSE k)
           reached == {p \in (0..n) \X Picks(cand) : Good(p[1], p[2])}
<1>3. <<0, s>> \in reached
    <2>1. Continues(s, s)
        BY ChosenType, ContinuesItself
    <2>2. \A j \in 1..n : ~(j <= 0)
        BY <1>1
    <2> HIDE DEF groups
    <2>3. Good(0, s)
        BY <1>2, <2>1, <2>2
    <2> HIDE DEF Good
    <2> QED BY <1>1, <2>3
<1>4. ASSUME NEW i \in 1..n, NEW t, <<i - 1, t>> \in reached
      PROVE  <<i, Offer(cand, rule, groups[i], t, balanced)>> \in reached
    <2> DEFINE u == Offer(cand, rule, groups[i], t, balanced)
    <2> HIDE DEF groups
    <2>1. t \in Picks(cand) /\ Good(i - 1, t) /\ i \in 0..n
        <3> HIDE DEF Good
        <3> QED BY <1>1, <1>4
    <2>2. /\ u \in Picks(cand) /\ Continues(t, u) /\ Chosen(t) \subseteq Chosen(u)
          /\ Count(groups[i], u) >= Due(rule, groups[i]) \/ Count(groups[i], u) = Count(groups[i], t) + 1
          /\ \A h \in SUBSET DOMAIN cand : Count(h, t) <= Count(h, u)
        <3> HIDE DEF Good, reached
        <3> QED BY <1>2, <2>1, OfferKeeps
    <2> HIDE DEF u
    <2>3. Continues(s, u) /\ Chosen(s) \subseteq Chosen(u)
        <3>1. Len(s) \in Nat /\ Len(t) \in Nat /\ Len(u) \in Nat
            BY <2>1, <2>2, ChosenType
        <3> QED BY <2>1, <2>2, <3>1, ContinuesOn
    <2>4. ASSUME NEW j \in 1..n PROVE Reaches(rule, groups[j], u, IF j <= i THEN k + 1 ELSE k)
        <3>1. /\ Count(groups[j], t) \in Nat /\ Count(groups[j], u) \in Nat
              /\ Due(rule, groups[j]) \in Nat /\ Count(groups[j], t) <= Count(groups[j], u)
            BY <1>2, <2>1, <2>2, CountType, DueType
        <3>2. Reaches(rule, groups[j], t, IF j <= i - 1 THEN k + 1 ELSE k)
            BY <2>1
        <3>3. CASE j = i
            <4>1. ~(i <= i - 1) /\ i <= i
                BY <1>1
            <4>2. Reaches(rule, groups[j], t, k)
                BY <3>2, <3>3, <4>1
            <4>3. \/ Count(groups[j], u) >= Due(rule, groups[j])
                  \/ Count(groups[j], u) = Count(groups[j], t) + 1
                BY <2>2, <3>3
            <4>4. Reaches(rule, groups[j], u, k + 1)
                BY <3>1, <4>2, <4>3 DEF Reaches
            <4> QED BY <3>3, <4>1, <4>4
        <3>4. CASE j # i
            <4>1. j <= i <=> j <= i - 1
                BY <3>4
            <4>2. Reaches(rule, groups[j], t, IF j <= i THEN k + 1 ELSE k)
                BY <3>2, <4>1
            <4> QED BY <3>1, <4>2 DEF Reaches
        <3> QED BY <3>3, <3>4
    <2>5. Good(i, u)
        BY <2>3, <2>4
    <2> HIDE DEF Good
    <2>6. <<i, u>> \in reached
        BY <2>1, <2>2, <2>5
    <2> QED BY <2>6 DEF u
<1> DEFINE w == GuaranteeRound(cand, rule, s, balanced)
<1>5. <<n, w>> \in reached
    <2> HIDE DEF reached
    <2> QED BY <1>1, <1>3, <1>4, RoundSteps
<1> HIDE DEF w, groups
<1>6. w \in Picks(cand) /\ Good(n, w)
    <2> HIDE DEF Good
    <2> QED BY <1>5
<1>7. ASSUME NEW g \in GroupsOf(cand, rule) PROVE Reaches(rule, g, w, k + 1)
    <2>1. PICK i \in 1..n : groups[i] = g
        BY <1>2
    <2> QED BY <1>6, <2>1
<1> QED BY <1>6, <1>7 DEF w

\* What every guarantee keeps, all of them keep.
LEMMA GuaranteesSteps ==
    ASSUME NEW cand, NEW balanced, NEW rules,
           NEW ordered, ordered = OrderedRules(rules, "GROUP_GUARANTEE"),
           NEW n \in Nat, n = Len(ordered),
           NEW reached, <<0, <<>>>> \in reached,
           \A i \in 1..n : \A t : <<i - 1, t>> \in reached =>
               <<i, ApplyGuarantee(cand, ordered[i], t, balanced)>> \in reached
    PROVE  <<n, Guaranteed(cand, rules, balanced)>> \in reached
<1> DEFINE values == {p[2] : p \in reached}
           step == [p \in (1..n) \X values |-> ApplyGuarantee(cand, ordered[p[1]], p[2], balanced)]
           after == CHOOSE after : after = [i \in 0..Len(OrderedRules(rules, "GROUP_GUARANTEE")) |->
               IF i = 0 THEN <<>> ELSE ApplyGuarantee(cand, OrderedRules(rules, "GROUP_GUARANTEE")[i], after[i - 1], balanced)]
<1>0. n \in Nat /\ <<0, <<>>>> \in reached
    OBVIOUS
<1>1. after = [i \in 0..n |-> IF i = 0 THEN <<>> ELSE ApplyGuarantee(cand, ordered[i], after[i - 1], balanced)]
    <2> SUFFICES \E f : f = [i \in 0..n |-> IF i = 0 THEN <<>> ELSE ApplyGuarantee(cand, ordered[i], f[i - 1], balanced)]
        OBVIOUS
    <2> HIDE DEF after
    <2>1. \A i \in 1..n : \A t : <<i - 1, t>> \in reached =>
              t \in values /\ step[<<i, t>>] = ApplyGuarantee(cand, ordered[i], t, balanced)
        <3>1. \A i \in 1..n : \A t : <<i - 1, t>> \in reached => t \in values
            OBVIOUS
        <3> HIDE DEF values
        <3> QED BY <3>1
    <2> HIDE DEF step, values
    <2>2. PICK f : Unfolds(f, n, reached, <<>>, step)
        <3>1. \A i \in 1..n : \A t : <<i - 1, t>> \in reached => <<i, step[<<i, t>>]>> \in reached
            BY <2>1
        <3>2. \E f : Unfolds(f, n, reached, <<>>, step)
            BY ONLY <1>0, <3>1, StepsCanBeTaken
        <3> QED BY ONLY <3>2
    <2>3. f = [i \in 0..n |-> IF i = 0 THEN <<>> ELSE ApplyGuarantee(cand, ordered[i], f[i - 1], balanced)]
        <3>1. \A i \in 1..n : f[i] = step[<<i, f[i - 1]>>] /\ <<i - 1, f[i - 1]>> \in reached
            <4>1. \A i \in 1..n : <<i - 1, f[i - 1]>> \in reached
                BY ONLY <2>2 DEF Unfolds
            <4>2. f = [i \in 0..n |-> IF i = 0 THEN <<>> ELSE step[<<i, f[i - 1]>>]]
                BY ONLY <2>2 DEF Unfolds
            <4>3. \A i \in 1..n : i \in 0..n /\ i # 0
                BY ONLY <1>0
            <4>4. \A i \in 1..n : f[i] = step[<<i, f[i - 1]>>]
                BY ONLY <4>2, <4>3
            <4> QED BY ONLY <4>1, <4>4
        <3>2. \A i \in 1..n : step[<<i, f[i - 1]>>] = ApplyGuarantee(cand, ordered[i], f[i - 1], balanced)
            BY <2>1, <3>1
        <3>3. \A i \in 0..n : (IF i = 0 THEN <<>> ELSE step[<<i, f[i - 1]>>])
                           = (IF i = 0 THEN <<>> ELSE ApplyGuarantee(cand, ordered[i], f[i - 1], balanced))
            BY ONLY <1>0, <3>2
        <3>4. f = [i \in 0..n |-> IF i = 0 THEN <<>> ELSE step[<<i, f[i - 1]>>]]
            BY ONLY <2>2 DEF Unfolds
        <3> QED BY ONLY <3>3, <3>4
    <2> QED BY <2>3
<1>2. Guaranteed(cand, rules, balanced) = after[n]
    BY DEF Guaranteed
<1> HIDE DEF after
<1>3. after[0] = <<>> /\ \A i \in 1..n : after[i] = ApplyGuarantee(cand, ordered[i], after[i - 1], balanced)
    BY <1>1
<1>4. <<0, after[0]>> \in reached
    BY <1>3
<1>5. \A i \in 1..n : <<i - 1, after[i - 1]>> \in reached => <<i, after[i]>> \in reached
    BY <1>3
<1>6. <<n, after[n]>> \in reached
    BY ONLY <1>0, <1>4, <1>5, StepsStay
<1> QED BY <1>2, <1>6

\* What every priority keeps, all of them keep.
LEMMA PrioritiesSteps ==
    ASSUME NEW cand, NEW balanced, NEW s, NEW rules,
           NEW ordered, ordered = OrderedRules(rules, "PRIORITY"),
           NEW n \in Nat, n = Len(ordered),
           NEW reached, <<0, s>> \in reached,
           \A i \in 1..n : \A t : <<i - 1, t>> \in reached =>
               <<i, PickAll(cand, Matching(cand, ordered[i]), t, balanced)>> \in reached
    PROVE  <<n, Preferred(cand, rules, s, balanced)>> \in reached
<1> DEFINE values == {p[2] : p \in reached}
           step == [p \in (1..n) \X values |-> PickAll(cand, Matching(cand, ordered[p[1]]), p[2], balanced)]
           after == CHOOSE after : after = [i \in 0..Len(OrderedRules(rules, "PRIORITY")) |->
               IF i = 0 THEN s ELSE PickAll(cand, Matching(cand, OrderedRules(rules, "PRIORITY")[i]), after[i - 1], balanced)]
<1>0. n \in Nat /\ <<0, s>> \in reached
    OBVIOUS
<1>1. after = [i \in 0..n |-> IF i = 0 THEN s ELSE PickAll(cand, Matching(cand, ordered[i]), after[i - 1], balanced)]
    <2> SUFFICES \E f : f = [i \in 0..n |-> IF i = 0 THEN s ELSE PickAll(cand, Matching(cand, ordered[i]), f[i - 1], balanced)]
        OBVIOUS
    <2> HIDE DEF after
    <2>1. \A i \in 1..n : \A t : <<i - 1, t>> \in reached =>
              t \in values /\ step[<<i, t>>] = PickAll(cand, Matching(cand, ordered[i]), t, balanced)
        <3>1. \A i \in 1..n : \A t : <<i - 1, t>> \in reached => t \in values
            OBVIOUS
        <3> HIDE DEF values
        <3> QED BY <3>1
    <2> HIDE DEF step, values
    <2>2. PICK f : Unfolds(f, n, reached, s, step)
        <3>1. \A i \in 1..n : \A t : <<i - 1, t>> \in reached => <<i, step[<<i, t>>]>> \in reached
            BY <2>1
        <3>2. \E f : Unfolds(f, n, reached, s, step)
            BY ONLY <1>0, <3>1, StepsCanBeTaken
        <3> QED BY ONLY <3>2
    <2>3. f = [i \in 0..n |-> IF i = 0 THEN s ELSE PickAll(cand, Matching(cand, ordered[i]), f[i - 1], balanced)]
        <3>1. \A i \in 1..n : f[i] = step[<<i, f[i - 1]>>] /\ <<i - 1, f[i - 1]>> \in reached
            <4>1. \A i \in 1..n : <<i - 1, f[i - 1]>> \in reached
                BY ONLY <2>2 DEF Unfolds
            <4>2. f = [i \in 0..n |-> IF i = 0 THEN s ELSE step[<<i, f[i - 1]>>]]
                BY ONLY <2>2 DEF Unfolds
            <4>3. \A i \in 1..n : i \in 0..n /\ i # 0
                BY ONLY <1>0
            <4>4. \A i \in 1..n : f[i] = step[<<i, f[i - 1]>>]
                BY ONLY <4>2, <4>3
            <4> QED BY ONLY <4>1, <4>4
        <3>2. \A i \in 1..n : step[<<i, f[i - 1]>>] = PickAll(cand, Matching(cand, ordered[i]), f[i - 1], balanced)
            BY <2>1, <3>1
        <3>3. \A i \in 0..n : (IF i = 0 THEN s ELSE step[<<i, f[i - 1]>>])
                           = (IF i = 0 THEN s ELSE PickAll(cand, Matching(cand, ordered[i]), f[i - 1], balanced))
            BY ONLY <1>0, <3>2
        <3>4. f = [i \in 0..n |-> IF i = 0 THEN s ELSE step[<<i, f[i - 1]>>]]
            BY ONLY <2>2 DEF Unfolds
        <3> QED BY ONLY <3>3, <3>4
    <2> QED BY <2>3
<1>2. Preferred(cand, rules, s, balanced) = after[n]
    BY DEF Preferred
<1> HIDE DEF after
<1>3. after[0] = s /\ \A i \in 1..n : after[i] = PickAll(cand, Matching(cand, ordered[i]), after[i - 1], balanced)
    BY <1>1
<1>4. <<0, after[0]>> \in reached
    BY <1>3
<1>5. \A i \in 1..n : <<i - 1, after[i - 1]>> \in reached => <<i, after[i]>> \in reached
    BY <1>3
<1>6. <<n, after[n]>> \in reached
    BY ONLY <1>0, <1>4, <1>5, StepsStay
<1> QED BY <1>2, <1>6

\* When a guarantee has been served, every group has what is due to it.
LEMMA GuaranteeHonours ==
    ASSUME NEW cand, SoundCandidates(cand), NEW balanced, NEW s \in Picks(cand),
           NEW rule, rule.quota \in Nat
    PROVE  LET t == ApplyGuarantee(cand, rule, s, balanced)
           IN  /\ t \in Picks(cand) /\ Continues(s, t) /\ Chosen(s) \subseteq Chosen(t)
               /\ \A g \in GroupsOf(cand, rule) : Count(g, t) >= Due(rule, g)
<1>1. PICK n \in Nat : n = Cardinality(DOMAIN cand)
    BY FS_CardinalityType DEF SoundCandidates
<1> DEFINE Good(k, t) == /\ Continues(s, t) /\ Chosen(s) \subseteq Chosen(t)
                         /\ \A g \in GroupsOf(cand, rule) : Reaches(rule, g, t, k)
           reached == {p \in (0..n) \X Picks(cand) : Good(p[1], p[2])}
<1>2. \A g \in GroupsOf(cand, rule) : g \in SUBSET DOMAIN cand
    BY GroupsType
<1>3. <<0, s>> \in reached
    <2>1. Continues(s, s)
        BY ChosenType, ContinuesItself
    <2>2. \A g \in GroupsOf(cand, rule) : Reaches(rule, g, s, 0)
        BY <1>2, CountType DEF Reaches
    <2>3. Good(0, s)
        BY <2>1, <2>2
    <2> HIDE DEF Good
    <2> QED BY <1>1, <2>3
<1>4. ASSUME NEW k \in 1..n, NEW t, <<k - 1, t>> \in reached
      PROVE  <<k, GuaranteeRound(cand, rule, t, balanced)>> \in reached
    <2> DEFINE u == GuaranteeRound(cand, rule, t, balanced)
    <2>1. t \in Picks(cand) /\ Good(k - 1, t) /\ k \in 0..n /\ k - 1 \in Nat
        <3> HIDE DEF Good
        <3> QED BY <1>1, <1>4
    <2>2. /\ u \in Picks(cand) /\ Continues(t, u) /\ Chosen(t) \subseteq Chosen(u)
          /\ \A g \in GroupsOf(cand, rule) : Reaches(rule, g, u, (k - 1) + 1)
        <3> HIDE DEF reached
        <3> QED BY <2>1, RoundHonours
    <2> HIDE DEF u
    <2>3. Continues(s, u) /\ Chosen(s) \subseteq Chosen(u)
        <3>1. Len(s) \in Nat /\ Len(t) \in Nat /\ Len(u) \in Nat
            BY <2>1, <2>2, ChosenType
        <3> QED BY <2>1, <2>2, <3>1, ContinuesOn
    <2>4. (k - 1) + 1 = k
        BY <1>1
    <2>5. Good(k, u)
        BY <2>2, <2>3, <2>4
    <2> HIDE DEF Good
    <2>6. <<k, u>> \in reached
        BY <2>1, <2>2, <2>5
    <2> QED BY <2>6 DEF u
<1> DEFINE w == ApplyGuarantee(cand, rule, s, balanced)
<1>5. <<n, w>> \in reached
    <2> HIDE DEF reached
    <2> QED BY <1>1, <1>3, <1>4, GuaranteeSteps
<1> HIDE DEF w
<1>6. w \in Picks(cand) /\ Good(n, w)
    <2> HIDE DEF Good
    <2> QED BY <1>5
<1>7. ASSUME NEW g \in GroupsOf(cand, rule) PROVE Count(g, w) >= Due(rule, g)
    <2>1. Count(g, w) \in Nat /\ Due(rule, g) \in Nat /\ Due(rule, g) <= n
        <3>1. /\ Due(rule, g) \in Nat /\ Due(rule, g) <= Cardinality(g)
              /\ Cardinality(g) <= n /\ Cardinality(g) \in Nat /\ Count(g, w) \in Nat
            BY <1>1, <1>2, <1>6, CountType, DueType
        <3> QED BY <1>1, <3>1
    <2>2. Reaches(rule, g, w, n)
        BY <1>6
    <2> QED BY <1>1, <2>1, <2>2 DEF Reaches
<1> QED BY <1>6, <1>7 DEF w

\* At the start nobody is picked.
LEMMA NothingPicked ==
    ASSUME NEW cand
    PROVE  <<>> \in Picks(cand) /\ Len(<<>>) = 0 /\ Chosen(<<>>) = {}
BY DEF Picks, Chosen

\* When all of them have been served, no group of any is short.
LEMMA GuaranteesHonour ==
    ASSUME NEW cand, SoundCandidates(cand), NEW balanced, NEW rules, SoundRules(rules)
    PROVE  LET t == Guaranteed(cand, rules, balanced)
           IN  /\ t \in Picks(cand)
               /\ \A r \in rules : r.type = "GROUP_GUARANTEE" =>
                     \A g \in GroupsOf(cand, r) : Count(g, t) >= Due(r, g)
<1>1. PICK ordered : ordered = OrderedRules(rules, "GROUP_GUARANTEE")
    OBVIOUS
<1>2. PICK n \in Nat : n = Len(ordered)
    BY <1>1, RulesArranged
<1>3. /\ \A i \in 1..n : ordered[i] \in rules /\ ordered[i].quota \in Nat
      /\ \A r \in rules : r.type = "GROUP_GUARANTEE" => \E i \in 1..n : ordered[i] = r
    <2>1. /\ \A i \in 1..n : ordered[i] \in rules /\ ordered[i].type = "GROUP_GUARANTEE"
          /\ \A r \in rules : r.type = "GROUP_GUARANTEE" => \E i \in 1..n : ordered[i] = r
        BY <1>1, <1>2, RulesArranged
    <2> QED BY <2>1 DEF SoundRules
<1> DEFINE Served(i, t) == \A g \in GroupsOf(cand, ordered[i]) : Count(g, t) >= Due(ordered[i], g)
           Good(k, t) == \A i \in 1..k : Served(i, t)
           reached == {p \in (0..n) \X Picks(cand) : Good(p[1], p[2])}
<1>4. <<0, <<>>>> \in reached
    <2>1. Good(0, <<>>) /\ 0 \in 0..n
        BY <1>2
    <2>2. <<>> \in Picks(cand)
        BY NothingPicked
    <2> HIDE DEF Good
    <2> QED BY <2>1, <2>2
<1>5. ASSUME NEW k \in 1..n, NEW t, <<k - 1, t>> \in reached
      PROVE  <<k, ApplyGuarantee(cand, ordered[k], t, balanced)>> \in reached
    <2> DEFINE u == ApplyGuarantee(cand, ordered[k], t, balanced)
    <2>1. t \in Picks(cand) /\ Good(k - 1, t) /\ k \in 0..n
        <3> HIDE DEF Good
        <3> QED BY <1>2, <1>5
    <2>2. u \in Picks(cand) /\ Chosen(t) \subseteq Chosen(u) /\ Served(k, u)
        <3> HIDE DEF reached, Good
        <3> QED BY <1>3, <2>1, GuaranteeHonours
    <2> HIDE DEF u
    <2>3. ASSUME NEW i \in 1..k PROVE Served(i, u)
        <3>1. CASE i = k
            BY <2>2, <3>1
        <3>2. CASE i # k
            <4>1. i \in 1..(k - 1) /\ i \in 1..n
                BY <1>2, <3>2
            <4>2. Served(i, t)
                BY <2>1, <4>1
            <4>3. ASSUME NEW g \in GroupsOf(cand, ordered[i])
                  PROVE  Count(g, u) >= Due(ordered[i], g)
                <5>1. g \in SUBSET DOMAIN cand /\ ordered[i].quota \in Nat
                    BY <1>3, <4>1, GroupsType
                <5>2. /\ Count(g, t) \in Nat /\ Count(g, u) \in Nat /\ Due(ordered[i], g) \in Nat
                      /\ Count(g, t) <= Count(g, u)
                    BY <2>1, <2>2, <5>1, CountType, DueType, CountGrows
                <5> QED BY <4>2, <5>2
            <4> QED BY <4>3
        <3> QED BY <3>1, <3>2
    <2> HIDE DEF Served
    <2>4. Good(k, u)
        BY <2>3
    <2> HIDE DEF Good
    <2>5. <<k, u>> \in reached
        BY <2>1, <2>2, <2>4
    <2> QED BY <2>5 DEF u
<1> DEFINE w == Guaranteed(cand, rules, balanced)
<1>6. <<n, w>> \in reached
    <2> HIDE DEF reached
    <2> QED BY <1>1, <1>2, <1>4, <1>5, GuaranteesSteps
<1> HIDE DEF w
<1>7. w \in Picks(cand) /\ Good(n, w)
    <2> HIDE DEF Good
    <2> QED BY <1>6
<1>8. ASSUME NEW r \in rules, r.type = "GROUP_GUARANTEE", NEW g \in GroupsOf(cand, r)
      PROVE  Count(g, w) >= Due(r, g)
    <2>1. PICK i \in 1..n : ordered[i] = r
        BY <1>3, <1>8
    <2>2. Served(i, w)
        BY <1>7
    <2> QED BY <2>1, <2>2
<1> QED BY <1>7, <1>8 DEF w

-----------------------------------------------------------------------------
\* The places that the guarantees ask for are finitely many.
LEMMA OwedType ==
    ASSUME NEW cand, SoundCandidates(cand), NEW rules, SoundRules(rules)
    PROVE  /\ IsFiniteSet(Owed(cand, rules))
           /\ \A r \in rules : r.type = "GROUP_GUARANTEE" =>
                 \A g \in GroupsOf(cand, r) : \A c \in 1..Due(r, g) : <<<<r, g>>, c>> \in Owed(cand, rules)
<1> DEFINE N == Cardinality(DOMAIN cand)
           All == (rules \X SUBSET DOMAIN cand) \X (1..N)
<1>1. N \in Nat /\ IsFiniteSet(DOMAIN cand)
    BY FS_CardinalityType DEF SoundCandidates
<1>2. IsFiniteSet(All)
    <2>0. IsFiniteSet(1..N)
        <3> HIDE DEF N
        <3> QED BY <1>1, FS_Interval
    <2>1. IsFiniteSet(SUBSET DOMAIN cand) /\ IsFiniteSet(rules) /\ IsFiniteSet(1..N)
        <3>1. IsFiniteSet(SUBSET DOMAIN cand)
            BY <1>1, FS_SUBSET
        <3>2. IsFiniteSet(rules)
            BY DEF SoundRules
        <3> HIDE DEF N
        <3> QED BY <2>0, <3>1, <3>2
    <2>2. IsFiniteSet(rules \X SUBSET DOMAIN cand)
        BY <2>1, FS_Product
    <2> QED BY <2>1, <2>2, FS_Product
<1>3. Owed(cand, rules) \in SUBSET All
    <2> SUFFICES ASSUME NEW x \in Owed(cand, rules) PROVE x \in All
        OBVIOUS
    <2>1. PICK r \in Guarantees(rules) :
              x \in UNION {{<<r, g>>} \X (1..Due(r, g)) : g \in GroupsOf(cand, r)}
        BY DEF Owed, Guarantees
    <2>2. PICK g \in GroupsOf(cand, r) : x \in {<<r, g>>} \X (1..Due(r, g))
        BY <2>1
    <2>3. g \in SUBSET DOMAIN cand /\ r.quota \in Nat
        BY <2>1, GroupsType DEF SoundRules, Guarantees
    <2>4. Due(r, g) \in Nat /\ Due(r, g) <= Cardinality(g) /\ Cardinality(g) <= N /\ Cardinality(g) \in Nat
        BY <2>3, DueType, CountType, FS_Subset, FS_CardinalityType DEF SoundCandidates
    <2>5. \A c \in 1..Due(r, g) : c \in 1..N
        BY <1>1, <2>4
    <2>6. PICK c \in 1..Due(r, g) : x = <<<<r, g>>, c>>
        BY <2>2
    <2> QED BY <2>1, <2>3, <2>5, <2>6 DEF Guarantees
<1>4. IsFiniteSet(Owed(cand, rules))
    <2> HIDE DEF All
    <2> QED BY <1>2, <1>3, FS_Subset
<1>5. ASSUME NEW r \in rules, r.type = "GROUP_GUARANTEE", NEW g \in GroupsOf(cand, r), NEW c \in 1..Due(r, g)
      PROVE  <<<<r, g>>, c>> \in Owed(cand, rules)
    <2>1. <<<<r, g>>, c>> \in {<<r, g>>} \X (1..Due(r, g))
        OBVIOUS
    <2>2. <<<<r, g>>, c>> \in UNION {{<<r, h>>} \X (1..Due(r, h)) : h \in GroupsOf(cand, r)}
        BY <2>1
    <2> QED BY <1>5, <2>2 DEF Owed, Guarantees
<1> QED BY <1>4, <1>5

\* Each pick uses up a place that is owed, of a guarantee that has been served or of the
\* one that is being served, to a group that has got so many.
Backed(owed, served, rule, s) ==
    \E T \in SUBSET owed :
        /\ IsFiniteSet(T) /\ Cardinality(T) = Len(s)
        /\ \A x \in T : \/ x[1][1] \in served
                        \/ x[1][1] = rule /\ x[2] <= Count(x[1][2], s)

\* A pick that is offered uses up a place that is owed to the group.
LEMMA OfferBacked ==
    ASSUME NEW cand, SoundCandidates(cand), NEW balanced, NEW rules, SoundRules(rules),
           NEW rule \in rules, rule.type = "GROUP_GUARANTEE", NEW group \in GroupsOf(cand, rule),
           NEW s \in Picks(cand), NEW served, rule \notin served,
           Backed(Owed(cand, rules), served, rule, s)
    PROVE  Backed(Owed(cand, rules), served, rule, Offer(cand, rule, group, s, balanced))
<1> DEFINE owed == Owed(cand, rules)
           t == Offer(cand, rule, group, s, balanced)
<1>1. group \in SUBSET DOMAIN cand /\ rule.quota \in Nat
    BY GroupsType DEF SoundRules
<1>2. CASE t = s
    BY <1>2
<1>3. CASE Count(group, s) < Due(rule, group) /\ \E e \in group \ Chosen(s) : t = Append(s, e)
    <2>1. PICK e \in group \ Chosen(s) : t = Append(s, e)
        BY <1>3
    <2>2. t \in Picks(cand) /\ Len(t) = Len(s) + 1 /\ Chosen(s) \subseteq Chosen(t) /\ Len(s) \in Nat
        BY <1>1, <2>1, AppendPicks, ChosenType
    <2>3. Count(group, t) = Count(group, s) + 1 /\ Count(group, s) \in Nat /\ Due(rule, group) \in Nat
        <3>1. Count(group, s) \in Nat /\ Due(rule, group) \in Nat
            BY <1>1, CountType, DueType
        <3>2. e \in DOMAIN cand \ Chosen(s) /\ e \in group
            BY <1>1
        <3>3. Count(group, Append(s, e)) = Count(group, s) + 1
            BY <1>1, <3>2, CountOneMore
        <3> QED BY <2>1, <3>1, <3>3
    <2>4. PICK T \in SUBSET owed :
              /\ IsFiniteSet(T) /\ Cardinality(T) = Len(s)
              /\ \A x \in T : \/ x[1][1] \in served
                              \/ x[1][1] = rule /\ x[2] <= Count(x[1][2], s)
        BY DEF Backed
    <2> DEFINE x == <<<<rule, group>>, Count(group, s) + 1>>
    <2>5. x \in owed
        <3>1. Count(group, s) + 1 \in 1..Due(rule, group)
            BY <1>3, <2>3
        <3> QED BY <3>1, OwedType
    <2>6. x \notin T
        <3>1. x[1][1] = rule /\ x[1][2] = group /\ x[2] = Count(group, s) + 1
            OBVIOUS
        <3>2. ~(x[2] <= Count(group, s))
            BY <2>3, <3>1
        <3> HIDE DEF x
        <3> QED BY <2>4, <3>1, <3>2
    <2> DEFINE U == T \cup {x}
    <2>7. U \in SUBSET owed /\ IsFiniteSet(U) /\ Cardinality(U) = Len(t)
        <3> HIDE DEF x, owed
        <3> QED BY <2>2, <2>4, <2>5, <2>6, FS_AddElement
    <2>8. ASSUME NEW z \in U
          PROVE  z[1][1] \in served \/ (z[1][1] = rule /\ z[2] <= Count(z[1][2], t))
        <3>1. CASE z = x
            BY <2>3, <3>1
        <3>2. CASE z \in T /\ z[1][1] \in served
            BY <3>2
        <3>3. CASE z \in T /\ z[1][1] = rule /\ z[2] <= Count(z[1][2], s)
            <4>1. z \in owed
                BY <3>3
            <4>2. PICK r \in Guarantees(rules) :
                      z \in UNION {{<<r, g>>} \X (1..Due(r, g)) : g \in GroupsOf(cand, r)}
                BY <4>1 DEF Owed, Guarantees
            <4>3. PICK g \in GroupsOf(cand, r) : z \in {<<r, g>>} \X (1..Due(r, g))
                BY <4>2
            <4>4. g \in SUBSET DOMAIN cand /\ r.quota \in Nat
                BY <4>2, GroupsType DEF SoundRules, Guarantees
            <4>5. z[2] \in 1..Due(r, g) /\ z[1][2] = g /\ Due(r, g) \in Nat
                BY <4>3, <4>4, DueType
            <4>6. Count(g, s) <= Count(g, t) /\ Count(g, s) \in Nat /\ Count(g, t) \in Nat
                BY <2>2, <4>4, CountType, CountGrows
            <4>7. z[2] <= Count(g, t)
                BY <3>3, <4>5, <4>6
            <4> QED BY <3>3, <4>5, <4>7
        <3> HIDE DEF x
        <3> QED BY <2>4, <3>1, <3>2, <3>3
    <2> HIDE DEF U
    <2> QED BY <2>7, <2>8 DEF Backed
<1> QED BY <1>1, <1>2, <1>3, OfferStep

\* So do the picks of a round.
LEMMA RoundBacked ==
    ASSUME NEW cand, SoundCandidates(cand), NEW balanced, NEW rules, SoundRules(rules),
           NEW rule \in rules, rule.type = "GROUP_GUARANTEE",
           NEW s \in Picks(cand), NEW served, rule \notin served,
           Backed(Owed(cand, rules), served, rule, s)
    PROVE  /\ GuaranteeRound(cand, rule, s, balanced) \in Picks(cand)
           /\ Backed(Owed(cand, rules), served, rule, GuaranteeRound(cand, rule, s, balanced))
<1> DEFINE groups == GuaranteeGroups(cand, rule)
           Good(t) == Backed(Owed(cand, rules), served, rule, t)
<1>1. PICK n \in Nat : n = Len(groups)
    BY GroupsArranged
<1>2. /\ \A i \in 1..n : groups[i] \in GroupsOf(cand, rule) /\ groups[i] \in SUBSET DOMAIN cand
      /\ rule.quota \in Nat
    BY <1>1, GroupsArranged, GroupsType DEF SoundRules
<1> DEFINE reached == {p \in (0..n) \X Picks(cand) : Good(p[2])}
<1> HIDE DEF Good, groups
<1>3. <<0, s>> \in reached
    BY <1>1 DEF Good
<1>4. ASSUME NEW i \in 1..n, NEW t, <<i - 1, t>> \in reached
      PROVE  <<i, Offer(cand, rule, groups[i], t, balanced)>> \in reached
    <2>1. t \in Picks(cand) /\ Good(t) /\ i \in 0..n
        BY <1>1, <1>4
    <2> HIDE DEF reached
    <2>2. Good(Offer(cand, rule, groups[i], t, balanced))
        BY <1>2, <2>1, OfferBacked DEF Good
    <2>3. Offer(cand, rule, groups[i], t, balanced) \in Picks(cand)
        BY <1>2, <2>1, OfferKeeps
    <2> QED BY <2>1, <2>2, <2>3 DEF reached
<1>5. <<n, GuaranteeRound(cand, rule, s, balanced)>> \in reached
    <2> HIDE DEF reached
    <2> QED BY <1>1, <1>3, <1>4, RoundSteps DEF groups
<1> QED BY <1>5 DEF Good

\* So do the picks of a guarantee.
LEMMA GuaranteeBacked ==
    ASSUME NEW cand, SoundCandidates(cand), NEW balanced, NEW rules, SoundRules(rules),
           NEW rule \in rules, rule.type = "GROUP_GUARANTEE",
           NEW s \in Picks(cand), NEW served, rule \notin served,
           Backed(Owed(cand, rules), served, rule, s)
    PROVE  /\ ApplyGuarantee(cand, rule, s, balanced) \in Picks(cand)
           /\ Backed(Owed(cand, rules), served, rule, ApplyGuarantee(cand, rule, s, balanced))
<1>1. PICK n \in Nat : n = Cardinality(DOMAIN cand)
    BY FS_CardinalityType DEF SoundCandidates
<1> DEFINE Good(t) == Backed(Owed(cand, rules), served, rule, t)
           reached == {p \in (0..n) \X Picks(cand) : Good(p[2])}
<1> HIDE DEF Good
<1>2. <<0, s>> \in reached
    BY <1>1 DEF Good
<1>3. ASSUME NEW i \in 1..n, NEW t, <<i - 1, t>> \in reached
      PROVE  <<i, GuaranteeRound(cand, rule, t, balanced)>> \in reached
    <2>1. t \in Picks(cand) /\ Good(t) /\ i \in 0..n
        BY <1>1, <1>3
    <2> HIDE DEF reached
    <2>2. /\ GuaranteeRound(cand, rule, t, balanced) \in Picks(cand)
          /\ Good(GuaranteeRound(cand, rule, t, balanced))
        BY <2>1, RoundBacked DEF Good
    <2> QED BY <2>1, <2>2 DEF reached
<1>4. <<n, ApplyGuarantee(cand, rule, s, balanced)>> \in reached
    <2> HIDE DEF reached
    <2> QED BY <1>1, <1>2, <1>3, GuaranteeSteps
<1> QED BY <1>4 DEF Good

\* All guarantees together do not pick more than they ask for.
LEMMA GuaranteesBacked ==
    ASSUME NEW cand, SoundCandidates(cand), NEW balanced, NEW rules, SoundRules(rules)
    PROVE  /\ Guaranteed(cand, rules, balanced) \in Picks(cand)
           /\ Len(Guaranteed(cand, rules, balanced)) <= Cardinality(Owed(cand, rules))
           /\ Cardinality(Owed(cand, rules)) \in Nat
<1>1. PICK ordered : ordered = OrderedRules(rules, "GROUP_GUARANTEE")
    OBVIOUS
<1>2. PICK n \in Nat : n = Len(ordered)
    BY <1>1, RulesArranged
<1>3. /\ \A i \in 1..n : ordered[i] \in rules /\ ordered[i].type = "GROUP_GUARANTEE"
      /\ \A i, j \in 1..n : i # j => ordered[i] # ordered[j]
    BY <1>1, <1>2, RulesArranged
<1> DEFINE owed == Owed(cand, rules)
           Served(k) == {ordered[i] : i \in 1..k}
           Good(k, t) == \E T \in SUBSET owed : /\ IsFiniteSet(T) /\ Cardinality(T) = Len(t)
                                                /\ \A x \in T : x[1][1] \in Served(k)
           reached == {p \in (0..n) \X Picks(cand) : Good(p[1], p[2])}
<1>4. <<0, <<>>>> \in reached
    <2>1. Good(0, <<>>) /\ 0 \in 0..n
        <3>1. IsFiniteSet({}) /\ Cardinality({}) = 0 /\ Len(<<>>) = 0
            BY FS_EmptySet
        <3> QED BY <1>2, <3>1
    <2>2. <<>> \in Picks(cand)
        BY NothingPicked
    <2> HIDE DEF Good
    <2> QED BY <2>1, <2>2
<1>5. ASSUME NEW k \in 1..n, NEW t, <<k - 1, t>> \in reached
      PROVE  <<k, ApplyGuarantee(cand, ordered[k], t, balanced)>> \in reached
    <2> DEFINE u == ApplyGuarantee(cand, ordered[k], t, balanced)
    <2>1. t \in Picks(cand) /\ Good(k - 1, t) /\ k \in 0..n
        <3> HIDE DEF Good
        <3> QED BY <1>2, <1>5
    <2>2. ordered[k] \in rules /\ ordered[k].type = "GROUP_GUARANTEE"
        BY <1>3
    <2>3. ordered[k] \notin Served(k - 1)
        <3>1. \A i \in 1..(k - 1) : i \in 1..n /\ i # k
            BY <1>2
        <3> QED BY <1>3, <3>1
    <2>4. Backed(owed, Served(k - 1), ordered[k], t)
        <3> HIDE DEF Served, owed
        <3> QED BY <2>1 DEF Backed
    <2>5. u \in Picks(cand) /\ Backed(owed, Served(k - 1), ordered[k], u)
        <3> HIDE DEF Served, reached, Good
        <3> QED BY <2>1, <2>2, <2>3, <2>4, GuaranteeBacked
    <2> HIDE DEF u
    <2>6. Served(k - 1) \subseteq Served(k) /\ ordered[k] \in Served(k)
        <3>1. (\A i \in 1..(k - 1) : i \in 1..k) /\ k \in 1..k
            BY <1>2
        <3> QED BY <3>1
    <2>7. Good(k, u)
        <3> HIDE DEF Served, owed
        <3> QED BY <2>5, <2>6 DEF Backed
    <2> HIDE DEF Good
    <2>8. <<k, u>> \in reached
        BY <2>1, <2>5, <2>7
    <2> QED BY <2>8 DEF u
<1> DEFINE w == Guaranteed(cand, rules, balanced)
<1>6. <<n, w>> \in reached
    <2> HIDE DEF reached
    <2> QED BY <1>1, <1>2, <1>4, <1>5, GuaranteesSteps
<1> HIDE DEF w
<1>7. w \in Picks(cand) /\ Good(n, w)
    <2> HIDE DEF Good
    <2> QED BY <1>6
<1>8. Len(w) <= Cardinality(owed) /\ Cardinality(owed) \in Nat
    <2>1. IsFiniteSet(owed)
        BY OwedType
    <2>2. PICK T \in SUBSET owed : IsFiniteSet(T) /\ Cardinality(T) = Len(w)
        BY <1>7
    <2> HIDE DEF owed
    <2> QED BY <2>1, <2>2, FS_Subset, FS_CardinalityType
<1> QED BY <1>7, <1>8 DEF w

\* The first picks.
Upto(s, m) == {s[i] : i \in 1..m}

\* Nobody in a set of groups is two places ahead of one that is short of what is due.
Level(cand, rule, picked) ==
    \A g, h \in GroupsOf(cand, rule) :
        \/ Cardinality(g \cap picked) <= Cardinality(h \cap picked) + 1
        \/ Cardinality(h \cap picked) >= Due(rule, h)
\* At every moment the places are shared evenly.
Shared(cand, rule, s) == \A m \in 0..Len(s) : Level(cand, rule, Upto(s, m))

\* The first picks stay the first when more are picked.
LEMMA UptoPrefix ==
    ASSUME NEW cand, NEW s \in Picks(cand)
    PROVE  /\ Upto(s, Len(s)) = Chosen(s) /\ Len(s) \in Nat
           /\ \A t : Continues(s, t) => \A m \in 0..Len(s) : Upto(t, m) = Upto(s, m)
<1>1. Len(s) \in Nat /\ DOMAIN s = 1..Len(s)
    BY DEF Picks
<1>2. ASSUME NEW t, Continues(s, t), NEW m \in 0..Len(s) PROVE Upto(t, m) = Upto(s, m)
    <2>1. \A i \in 1..m : t[i] = s[i]
        BY <1>1, <1>2 DEF Continues
    <2> QED BY <2>1 DEF Upto
<1> QED BY <1>1, <1>2 DEF Upto, Chosen

\* A pick after which no group is ahead keeps the places shared.
LEMMA PickShared ==
    ASSUME NEW cand, SoundCandidates(cand), NEW rule, NEW s \in Picks(cand), Shared(cand, rule, s),
           NEW e \in DOMAIN cand \ Chosen(s), Level(cand, rule, Chosen(Append(s, e)))
    PROVE  Shared(cand, rule, Append(s, e))
<1> DEFINE t == Append(s, e)
<1>1. t \in Picks(cand) /\ Len(t) = Len(s) + 1 /\ Continues(s, t) /\ Len(s) \in Nat
    BY AppendPicks, ChosenType
<1> HIDE DEF t
<1>2. ASSUME NEW m \in 0..Len(t) PROVE Level(cand, rule, Upto(t, m))
    <2>1. CASE m = Len(t)
        <3>1. Upto(t, m) = Chosen(t)
            BY <1>1, <2>1, UptoPrefix
        <3> QED BY <3>1 DEF t
    <2>2. CASE m # Len(t)
        <3>1. m \in 0..Len(s)
            BY <1>1, <2>2
        <3>2. Upto(t, m) = Upto(s, m)
            BY <1>1, <3>1, UptoPrefix
        <3> QED BY <3>1, <3>2 DEF Shared
    <2> QED BY <2>1, <2>2
<1> QED BY <1>2 DEF Shared, t

\* That no group is ahead, said with what the groups have got.
LEMMA LevelByCount ==
    ASSUME NEW cand, NEW rule, NEW s,
           \A g, h \in GroupsOf(cand, rule) :
               Count(g, s) <= Count(h, s) + 1 \/ Count(h, s) >= Due(rule, h)
    PROVE  Level(cand, rule, Chosen(s))
BY DEF Level, Count

\* The group has got so many places, or fewer if no more are due.
Between(rule, group, s, k) == Reaches(rule, group, s, k) /\ Count(group, s) <= k

\* In the middle of a round.
Underway(cand, rule, s, i, k) ==
    \A j \in 1..Len(GuaranteeGroups(cand, rule)) :
        Between(rule, GuaranteeGroups(cand, rule)[j], s, IF j <= i THEN k + 1 ELSE k)

\* An offer to a group that is short of what is due is a pick of the group.
LEMMA OfferIsPick ==
    ASSUME NEW cand, SoundCandidates(cand), NEW balanced, NEW s \in Picks(cand),
           NEW group \in SUBSET DOMAIN cand, NEW rule, rule.quota \in Nat
    PROVE  \/ Offer(cand, rule, group, s, balanced) = s
           \/ /\ Count(group, s) < Due(rule, group)
              /\ Offer(cand, rule, group, s, balanced) = PickNext(cand, group, s, balanced)
<1>1. Count(group, s) \in Nat /\ Due(rule, group) \in Nat /\ Due(rule, group) <= rule.quota
    BY CountType, DueType
<1>2. CASE Count(group, s) >= Due(rule, group)
    <2>1. ~(Count(group, s) < Due(rule, group))
        BY <1>1, <1>2
    <2>2. \/ /\ Count(group, s) >= Due(rule, group)
             /\ Offer(cand, rule, group, s, balanced) = s
          \/ /\ Count(group, s) < Due(rule, group)
             /\ \E e \in group \ Chosen(s) : Offer(cand, rule, group, s, balanced) = Append(s, e)
        BY OfferStep
    <2> QED BY <2>1, <2>2
<1>3. CASE Count(group, s) < Due(rule, group)
    <2>1. ~(Count(group, s) >= rule.quota)
        BY <1>1, <1>3
    <2>2. ~(Cardinality(group \cap Chosen(s)) >= rule.quota)
        BY <2>1 DEF Count
    <2> QED BY <1>3, <2>2 DEF Offer
<1> QED BY <1>1, <1>2, <1>3

\* An offer gives a group its next place, unless the group has its due.
OfferTaken(rule, group, s, t) ==
    \/ Count(group, s) >= Due(rule, group) /\ t = s
    \/ /\ Count(group, s) < Due(rule, group)
       /\ \E e \in group \ Chosen(s) : t = Append(s, e)

LEMMA OfferTakes ==
    ASSUME NEW cand, SoundCandidates(cand), NEW balanced, NEW s \in Picks(cand),
           NEW group \in SUBSET DOMAIN cand, NEW rule, rule.quota \in Nat
    PROVE  OfferTaken(rule, group, s, Offer(cand, rule, group, s, balanced))
BY OfferStep DEF OfferTaken

\* An offer takes a round one group further.
LEMMA OfferUnderway ==
    ASSUME NEW cand, SoundCandidates(cand), NEW balanced, NEW s \in Picks(cand),
           NEW rule, rule.quota \in Nat, NEW k \in Nat,
           NEW i \in 1..Len(GuaranteeGroups(cand, rule)), Underway(cand, rule, s, i - 1, k)
    PROVE  LET group == GuaranteeGroups(cand, rule)[i]
               t == Offer(cand, rule, group, s, balanced)
           IN  t \in Picks(cand) /\ Underway(cand, rule, t, i, k)
<1> DEFINE groups == GuaranteeGroups(cand, rule)
           t == Offer(cand, rule, groups[i], s, balanced)
<1>1. PICK n \in Nat : n = Len(groups)
    BY GroupsArranged
<1>2. /\ \A j \in 1..n : groups[j] \in GroupsOf(cand, rule) /\ groups[j] \in SUBSET DOMAIN cand
      /\ \A j, l \in 1..n : j < l => groups[j] # groups[l]
    BY <1>1, GroupsArranged, GroupsType, SMTT(20)
<1>3. i \in 1..n /\ \A j \in 1..n : Between(rule, groups[j], s, IF j <= i - 1 THEN k + 1 ELSE k)
    BY <1>1 DEF Underway
<1>4. Underway(cand, rule, t, i, k) <=>
          \A j \in 1..n : Between(rule, groups[j], t, IF j <= i THEN k + 1 ELSE k)
    BY <1>1 DEF Underway
<1>5. t = Offer(cand, rule, groups[i], s, balanced)
    OBVIOUS
<1> HIDE DEF groups, t
<1>6. t \in Picks(cand)
    BY <1>2, <1>3, <1>5, OfferKeeps
<1>7. \/ Count(groups[i], s) >= Due(rule, groups[i]) /\ t = s
      \/ /\ Count(groups[i], s) < Due(rule, groups[i])
         /\ \E e \in groups[i] \ Chosen(s) : t = Append(s, e)
    <2>1. groups[i] \in SUBSET DOMAIN cand
        BY <1>2, <1>3
    <2>2. OfferTaken(rule, groups[i], s, t)
        BY <1>5, <2>1, OfferTakes
    <2> QED BY <2>2 DEF OfferTaken
<1>8. \A j \in 1..n : /\ Count(groups[j], s) \in Nat /\ Count(groups[j], t) \in Nat
                      /\ Due(rule, groups[j]) \in Nat
    BY <1>2, <1>6, CountType, DueType
<1>9. Between(rule, groups[i], s, k)
    <2>1. ~(i <= i - 1)
        BY <1>3
    <2> QED BY <1>3, <2>1
<1>10. \A j \in 1..n : j # i => Between(rule, groups[j], s, IF j <= i THEN k + 1 ELSE k)
    <2>1. \A j \in 1..n : j # i => (j <= i <=> j <= i - 1)
        BY <1>1, <1>3
    <2> QED BY <1>3, <2>1
<1>11. CASE Count(groups[i], s) >= Due(rule, groups[i]) /\ t = s
    <2>1. ASSUME NEW j \in 1..n PROVE Between(rule, groups[j], t, IF j <= i THEN k + 1 ELSE k)
        <3>1. CASE j = i
            <4>1. Between(rule, groups[i], t, k + 1)
                BY <1>3, <1>8, <1>9, <1>11 DEF Between, Reaches
            <4>2. i <= i
                BY <1>3
            <4> QED BY <3>1, <4>1, <4>2
        <3>2. CASE j # i
            BY <1>10, <1>11, <3>2
        <3> QED BY <3>1, <3>2
    <2> QED BY <1>4, <1>6, <2>1 DEF t, groups
<1>12. CASE /\ Count(groups[i], s) < Due(rule, groups[i])
            /\ \E e \in groups[i] \ Chosen(s) : t = Append(s, e)
    <2>1. PICK e \in groups[i] \ Chosen(s) : t = Append(s, e)
        BY <1>12
    <2>2. e \in DOMAIN cand \ Chosen(s)
        BY <1>2, <1>3, <2>1
    <2>3. Count(groups[i], t) = Count(groups[i], s) + 1
        BY <1>2, <1>3, <2>1, <2>2, CountOneMore
    <2>4. ASSUME NEW j \in 1..n, j # i PROVE Count(groups[j], t) = Count(groups[j], s)
        <3>1. i < j \/ j < i
            BY <1>1, <1>3, <2>4
        <3>2. groups[i] # groups[j]
            BY <1>2, <1>3, <3>1
        <3>3. e \notin groups[j] /\ groups[j] \in SUBSET DOMAIN cand
            BY <1>2, <1>3, <2>1, <3>2, GroupsType
        <3> QED BY <2>1, <2>2, <3>3, CountOneMore
    <2>5. Count(groups[i], s) = k
        BY <1>3, <1>8, <1>9, <1>12 DEF Between, Reaches
    <2>6. ASSUME NEW j \in 1..n PROVE Between(rule, groups[j], t, IF j <= i THEN k + 1 ELSE k)
        <3>1. CASE j = i
            <4>1. Between(rule, groups[i], t, k + 1)
                BY <2>3, <2>5 DEF Between, Reaches
            <4>2. i <= i
                BY <1>3
            <4> QED BY <3>1, <4>1, <4>2
        <3>2. CASE j # i
            <4>1. Between(rule, groups[j], s, IF j <= i THEN k + 1 ELSE k)
                BY <1>10, <3>2
            <4> QED BY <2>4, <3>2, <4>1 DEF Between, Reaches
        <3> QED BY <3>1, <3>2
    <2> QED BY <1>4, <1>6, <2>6 DEF t, groups
<1> QED BY <1>7, <1>11, <1>12

\* The picks that a guarantee makes, when it is the first, stay in a set of picks.
PicksStayIn(good, cand, rule, balanced) ==
    \A k \in Nat : \A i \in 1..Len(GuaranteeGroups(cand, rule)) : \A s \in Picks(cand) \cap good :
        LET group == GuaranteeGroups(cand, rule)[i]
        IN  (Underway(cand, rule, s, i - 1, k) /\ Count(group, s) < Due(rule, group))
                => PickNext(cand, group, s, balanced) \in good

\* A round of the first guarantee stays in the set.
LEMMA RoundStaysIn ==
    ASSUME NEW cand, SoundCandidates(cand), NEW balanced, NEW rule, rule.quota \in Nat, NEW k \in Nat,
           NEW good, PicksStayIn(good, cand, rule, balanced), NEW s \in Picks(cand) \cap good,
           \A g \in GroupsOf(cand, rule) : Between(rule, g, s, k)
    PROVE  LET t == GuaranteeRound(cand, rule, s, balanced)
           IN  /\ t \in Picks(cand) \cap good
               /\ \A g \in GroupsOf(cand, rule) : Between(rule, g, t, k + 1)
<1> DEFINE groups == GuaranteeGroups(cand, rule)
           t == GuaranteeRound(cand, rule, s, balanced)
<1>1. PICK n \in Nat : n = Len(groups)
    BY GroupsArranged
<1>2. /\ \A i \in 1..n : groups[i] \in GroupsOf(cand, rule)
      /\ \A g \in GroupsOf(cand, rule) : \E i \in 1..n : groups[i] = g
    BY <1>1, GroupsArranged
<1> DEFINE reached == {p \in (0..n) \X (Picks(cand) \cap good) : Underway(cand, rule, p[2], p[1], k)}
<1>3. <<0, s>> \in reached
    <2>1. \A j \in 1..n : ~(j <= 0)
        BY <1>1
    <2>2. Underway(cand, rule, s, 0, k)
        BY <1>1, <1>2, <2>1 DEF Underway
    <2> QED BY <1>1, <2>2
<1>4. ASSUME NEW i \in 1..n, NEW u, <<i - 1, u>> \in reached
      PROVE  <<i, Offer(cand, rule, groups[i], u, balanced)>> \in reached
    <2> DEFINE v == Offer(cand, rule, groups[i], u, balanced)
    <2>1. u \in Picks(cand) \cap good /\ u \in Picks(cand) /\ Underway(cand, rule, u, i - 1, k)
        BY <1>4
    <2>2. i \in 0..n /\ i \in 1..Len(groups)
        BY <1>1
    <2> HIDE DEF reached
    <2>3. v \in Picks(cand) /\ Underway(cand, rule, v, i, k)
        BY <2>1, <2>2, OfferUnderway
    <2>4. v \in good
        <3>1. \/ v = u
              \/ /\ Count(groups[i], u) < Due(rule, groups[i])
                 /\ v = PickNext(cand, groups[i], u, balanced)
            BY <1>2, <2>1, GroupsType, OfferIsPick
        <3> HIDE DEF v
        <3> QED BY <2>1, <2>2, <3>1 DEF PicksStayIn
    <2> HIDE DEF v
    <2>5. <<i, v>> \in reached
        BY <2>2, <2>3, <2>4 DEF reached
    <2> QED BY <2>5 DEF v
<1>5. <<n, t>> \in reached
    <2> HIDE DEF reached
    <2> QED BY <1>1, <1>3, <1>4, RoundSteps
<1> HIDE DEF t
<1>6. t \in Picks(cand) \cap good /\ Underway(cand, rule, t, n, k)
    BY <1>5
<1>7. ASSUME NEW g \in GroupsOf(cand, rule) PROVE Between(rule, g, t, k + 1)
    <2>1. PICK i \in 1..n : groups[i] = g
        BY <1>2
    <2>2. i <= n
        BY <1>1
    <2> QED BY <1>1, <1>6, <2>1, <2>2 DEF Underway
<1> QED BY <1>6, <1>7 DEF t

\* So do all of its rounds.
LEMMA GuaranteeStaysIn ==
    ASSUME NEW cand, SoundCandidates(cand), NEW balanced, NEW rule, rule.quota \in Nat,
           NEW good, PicksStayIn(good, cand, rule, balanced), <<>> \in good
    PROVE  ApplyGuarantee(cand, rule, <<>>, balanced) \in Picks(cand) \cap good
<1>1. PICK n \in Nat : n = Cardinality(DOMAIN cand)
    BY FS_CardinalityType DEF SoundCandidates
<1> DEFINE Even(k, t) == \A g \in GroupsOf(cand, rule) : Between(rule, g, t, k)
           reached == {p \in (0..n) \X (Picks(cand) \cap good) : Even(p[1], p[2])}
<1>2. <<0, <<>>>> \in reached
    <2>1. \A g \in GroupsOf(cand, rule) : Count(g, <<>>) = 0
        BY NothingPicked, FS_EmptySet DEF Count
    <2>2. Even(0, <<>>)
        BY <2>1 DEF Between, Reaches
    <2>3. <<>> \in Picks(cand)
        BY NothingPicked
    <2> HIDE DEF Even
    <2> QED BY <1>1, <2>2, <2>3
<1>3. ASSUME NEW k \in 1..n, NEW t, <<k - 1, t>> \in reached
      PROVE  <<k, GuaranteeRound(cand, rule, t, balanced)>> \in reached
    <2> DEFINE u == GuaranteeRound(cand, rule, t, balanced)
    <2>1. t \in Picks(cand) \cap good /\ Even(k - 1, t) /\ k \in 0..n /\ k - 1 \in Nat
        <3> HIDE DEF Even
        <3> QED BY <1>1, <1>3
    <2>2. u \in Picks(cand) \cap good /\ \A g \in GroupsOf(cand, rule) : Between(rule, g, u, (k - 1) + 1)
        <3> HIDE DEF reached
        <3> QED BY <2>1, RoundStaysIn
    <2> HIDE DEF u
    <2>3. (k - 1) + 1 = k
        BY <1>1
    <2>4. Even(k, u)
        BY <2>2, <2>3
    <2> HIDE DEF Even
    <2>5. <<k, u>> \in reached
        BY <2>1, <2>2, <2>4
    <2> QED BY <2>5 DEF u
<1>4. <<n, ApplyGuarantee(cand, rule, <<>>, balanced)>> \in reached
    <2> HIDE DEF reached
    <2> QED BY <1>1, <1>2, <1>3, GuaranteeSteps
<1> QED BY <1>4

\* A guarantee that nobody was picked before shares the places evenly.
LEMMA GuaranteeShared ==
    ASSUME NEW cand, SoundCandidates(cand), NEW balanced, NEW rule, rule.quota \in Nat
    PROVE  /\ ApplyGuarantee(cand, rule, <<>>, balanced) \in Picks(cand)
           /\ Shared(cand, rule, ApplyGuarantee(cand, rule, <<>>, balanced))
<1> DEFINE good == {s \in Picks(cand) : Shared(cand, rule, s)}
<1>1. <<>> \in good
    <2>1. \A g \in GroupsOf(cand, rule) : Count(g, <<>>) = 0
        BY NothingPicked, FS_EmptySet DEF Count
    <2>2. Level(cand, rule, Chosen(<<>>))
        <3>1. \A g, h \in GroupsOf(cand, rule) : Count(g, <<>>) <= Count(h, <<>>) + 1
            BY <2>1
        <3> QED BY <3>1, LevelByCount
    <2>3. <<>> \in Picks(cand) /\ Len(<<>>) = 0
        BY NothingPicked
    <2>4. Upto(<<>>, 0) = Chosen(<<>>)
        BY <2>3, UptoPrefix
    <2>5. \A m \in 0..0 : m = 0
        OBVIOUS
    <2> QED BY <2>2, <2>3, <2>4, <2>5 DEF Shared
<1>2. ASSUME NEW k \in Nat, NEW i \in 1..Len(GuaranteeGroups(cand, rule)), NEW s \in Picks(cand) \cap good,
             Underway(cand, rule, s, i - 1, k),
             Count(GuaranteeGroups(cand, rule)[i], s) < Due(rule, GuaranteeGroups(cand, rule)[i])
      PROVE  PickNext(cand, GuaranteeGroups(cand, rule)[i], s, balanced) \in good
    <2> DEFINE groups == GuaranteeGroups(cand, rule)
               t == Offer(cand, rule, groups[i], s, balanced)
               u == PickNext(cand, groups[i], s, balanced)
    <2>1. s \in Picks(cand) /\ Shared(cand, rule, s) /\ Len(groups) \in Nat
        BY GroupsArranged
    <2>2. /\ \A j \in 1..Len(groups) : groups[j] \in GroupsOf(cand, rule) /\ groups[j] \in SUBSET DOMAIN cand
          /\ \A g \in GroupsOf(cand, rule) : \E j \in 1..Len(groups) : groups[j] = g
        BY GroupsArranged, GroupsType
    <2>3. t \in Picks(cand) /\ Underway(cand, rule, t, i, k)
        BY <1>2, <2>1, OfferUnderway
    <2>4. t = u /\ \E e \in groups[i] \ Chosen(s) : u = Append(s, e)
        <3>1. Due(rule, groups[i]) \in Nat /\ Count(groups[i], s) \in Nat
            BY <2>1, <2>2, DueType, CountType
        <3>2. ~(Count(groups[i], s) >= Due(rule, groups[i]))
            BY <1>2, <3>1
        <3>3. \E e \in groups[i] \ Chosen(s) : t = Append(s, e)
            <4>1. PICK g \in SUBSET DOMAIN cand : g = groups[i]
                BY <2>2
            <4>2. PICK v : v = Offer(cand, rule, g, s, balanced)
                OBVIOUS
            <4>3. \/ Count(g, s) >= Due(rule, g)
                  \/ \E e \in g \ Chosen(s) : v = Append(s, e)
                BY <2>1, <4>2, OfferStep
            <4> QED BY <3>2, <4>1, <4>2, <4>3
        <3>4. t # s
            <4>1. \A e \in groups[i] : Len(Append(s, e)) = Len(s) + 1 /\ Len(s) \in Nat
                BY <2>1 DEF Picks
            <4> HIDE DEF t
            <4> QED BY <3>3, <4>1
        <3>5. t = u
            <4> HIDE DEF good
            <4> QED BY <2>1, <2>2, <3>4, OfferIsPick
        <3> QED BY <3>3, <3>5
    <2>5. PICK e \in DOMAIN cand \ Chosen(s) : u = Append(s, e)
        BY <2>2, <2>4
    <2>6. Underway(cand, rule, u, i, k) /\ u \in Picks(cand)
        BY <2>3, <2>4
    <2> HIDE DEF groups, t, u, good
    <2>7. ASSUME NEW g \in GroupsOf(cand, rule), NEW h \in GroupsOf(cand, rule)
          PROVE  Count(g, u) <= Count(h, u) + 1 \/ Count(h, u) >= Due(rule, h)
        <3>1. PICK j \in 1..Len(groups) : groups[j] = g
            BY <2>2
        <3>2. PICK l \in 1..Len(groups) : groups[l] = h
            BY <2>2
        <3>3. /\ Between(rule, g, u, IF j <= i THEN k + 1 ELSE k)
              /\ Between(rule, h, u, IF l <= i THEN k + 1 ELSE k)
            BY <2>6, <3>1, <3>2 DEF Underway, groups
        <3>4. g \in SUBSET DOMAIN cand /\ h \in SUBSET DOMAIN cand
            BY GroupsType
        <3>5. Count(g, u) \in Nat /\ Count(h, u) \in Nat /\ Due(rule, h) \in Nat
            BY <2>6, <3>4, CountType, DueType
        <3>6. Count(g, u) <= k + 1
            BY <3>3, <3>5 DEF Between
        <3>7. Count(h, u) >= Due(rule, h) \/ Count(h, u) >= k
            BY <3>3, <3>5 DEF Between, Reaches
        <3> QED BY <3>5, <3>6, <3>7
    <2>8. Level(cand, rule, Chosen(u))
        BY <2>7, LevelByCount
    <2>9. Shared(cand, rule, u)
        BY <2>1, <2>5, <2>8, PickShared
    <2>10. u \in good
        BY <2>6, <2>9 DEF good
    <2> QED BY <2>10 DEF u, groups
<1>3. PicksStayIn(good, cand, rule, balanced)
    <2> HIDE DEF good
    <2> QED BY <1>2 DEF PicksStayIn
<1>4. ApplyGuarantee(cand, rule, <<>>, balanced) \in Picks(cand) \cap good
    <2> HIDE DEF good
    <2> QED BY <1>1, <1>3, GuaranteeStaysIn
<1> QED BY <1>4

\* The priorities add to what was picked.
LEMMA PrioritiesPick ==
    ASSUME NEW cand, SoundCandidates(cand), NEW balanced, NEW s \in Picks(cand),
           NEW rules, SoundRules(rules)
    PROVE  /\ Preferred(cand, rules, s, balanced) \in Picks(cand)
           /\ Continues(s, Preferred(cand, rules, s, balanced))
<1>1. PICK ordered : ordered = OrderedRules(rules, "PRIORITY")
    OBVIOUS
<1>2. PICK n \in Nat : n = Len(ordered)
    BY <1>1, RulesArranged
<1> DEFINE reached == {p \in (0..n) \X Picks(cand) : Continues(s, p[2])}
<1>3. <<0, s>> \in reached
    BY <1>2, ChosenType, ContinuesItself
<1>4. ASSUME NEW i \in 1..n, NEW t, <<i - 1, t>> \in reached
      PROVE  <<i, PickAll(cand, Matching(cand, ordered[i]), t, balanced)>> \in reached
    <2> DEFINE u == PickAll(cand, Matching(cand, ordered[i]), t, balanced)
    <2>1. t \in Picks(cand) /\ Continues(s, t) /\ i \in 0..n
        BY <1>2, <1>4
    <2>2. Matching(cand, ordered[i]) \in SUBSET DOMAIN cand
        BY DEF Matching
    <2>3. u \in Picks(cand) /\ Continues(t, u)
        <3> HIDE DEF reached
        <3> QED BY <2>1, <2>2, PickAllPicks
    <2> HIDE DEF u
    <2>4. Continues(s, u)
        <3>1. Len(s) \in Nat /\ Len(t) \in Nat /\ Len(u) \in Nat
            BY <2>1, <2>3, ChosenType
        <3> QED BY <2>1, <2>3, <3>1, ContinuesOn
    <2>5. <<i, u>> \in reached
        BY <2>1, <2>3, <2>4
    <2> QED BY <2>5 DEF u
<1>5. <<n, Preferred(cand, rules, s, balanced)>> \in reached
    <2> HIDE DEF reached
    <2> QED BY <1>1, <1>2, <1>3, <1>4, PrioritiesSteps
<1> QED BY <1>5

\* The order begins with those that the guarantees pick, and has everybody once.
LEMMA OrderListsEverybody ==
    ASSUME NEW cand, SoundCandidates(cand), NEW balanced, NEW rules, SoundRules(rules)
    PROVE  LET order == AllocationOrder(cand, rules, balanced)
           IN  /\ order \in Picks(cand) /\ Chosen(order) = DOMAIN cand
               /\ Len(order) = Cardinality(DOMAIN cand) /\ Len(order) \in Nat
               /\ Continues(Guaranteed(cand, rules, balanced), order)
<1> DEFINE s == Guaranteed(cand, rules, balanced)
           t == Preferred(cand, rules, s, balanced)
           u == PickAll(cand, DOMAIN cand, t, balanced)
<1>1. s \in Picks(cand)
    BY GuaranteesHonour
<1> HIDE DEF s
<1>2. t \in Picks(cand) /\ Continues(s, t)
    BY <1>1, PrioritiesPick
<1> HIDE DEF t
<1>3. u \in Picks(cand) /\ Continues(t, u) /\ Chosen(u) = Chosen(t) \cup DOMAIN cand
    BY <1>2, PickAllPicks
<1>4. u = AllocationOrder(cand, rules, balanced)
    BY DEF AllocationOrder, s, t
<1> HIDE DEF u
<1>5. /\ Len(s) \in Nat /\ Len(t) \in Nat /\ Len(u) \in Nat
      /\ Chosen(t) \subseteq DOMAIN cand /\ Cardinality(Chosen(u)) = Len(u)
    BY <1>1, <1>2, <1>3, ChosenType
<1>6. Continues(s, u) /\ Chosen(u) = DOMAIN cand
    BY <1>2, <1>3, <1>5, ContinuesOn
<1> QED BY <1>3, <1>4, <1>5, <1>6 DEF s

\* A rule that is alone in its type is served at the start.
LEMMA OnlyGuarantee ==
    ASSUME NEW cand, NEW balanced, NEW rules, SoundRules(rules), NEW rule,
           Guarantees(rules) = {rule}
    PROVE  Guaranteed(cand, rules, balanced) = ApplyGuarantee(cand, rule, <<>>, balanced)
<1>1. PICK ordered : ordered = OrderedRules(rules, "GROUP_GUARANTEE")
    OBVIOUS
<1>2. PICK n \in Nat : n = Len(ordered)
    BY <1>1, RulesArranged
<1>3. rule \in rules /\ rule.type = "GROUP_GUARANTEE"
    BY DEF Guarantees
<1>4. /\ \A i \in 1..n : ordered[i] \in Guarantees(rules)
      /\ \A i, j \in 1..n : i # j => ordered[i] # ordered[j]
      /\ \E i \in 1..n : ordered[i] = rule
    <2>1. /\ \A i \in 1..n : ordered[i] \in rules /\ ordered[i].type = "GROUP_GUARANTEE"
          /\ \A i, j \in 1..n : i # j => ordered[i] # ordered[j]
          /\ \A r \in rules : r.type = "GROUP_GUARANTEE" => \E i \in 1..n : ordered[i] = r
        BY <1>1, <1>2, RulesArranged
    <2> QED BY <1>3, <2>1 DEF Guarantees
<1>5. n = 1 /\ ordered[1] = rule
    <2>1. \A i, j \in 1..n : i = j
        BY <1>4
    <2>2. PICK i \in 1..n : ordered[i] = rule
        BY <1>4
    <2>3. 1 \in 1..n /\ n \in 1..n
        BY <1>2, <2>2
    <2> QED BY <2>1, <2>2, <2>3
<1> DEFINE reached == {<<0, <<>>>>, <<1, ApplyGuarantee(cand, rule, <<>>, balanced)>>}
<1>6. <<0, <<>>>> \in reached
    OBVIOUS
<1>7. ASSUME NEW i \in 1..n, NEW t, <<i - 1, t>> \in reached
      PROVE  <<i, ApplyGuarantee(cand, ordered[i], t, balanced)>> \in reached
    <2>1. i = 1
        BY <1>5
    <2>2. t = <<>>
        BY <1>7, <2>1
    <2> QED BY <1>5, <2>1, <2>2
<1>8. <<n, Guaranteed(cand, rules, balanced)>> \in reached
    <2> HIDE DEF reached
    <2> QED BY <1>1, <1>2, <1>6, <1>7, GuaranteesSteps
<1> QED BY <1>5, <1>8

-----------------------------------------------------------------------------
\* Those who get the places are the first of the order.
LEMMA FirstOfTheOrder ==
    ASSUME NEW cand, SoundCandidates(cand), NEW balanced, NEW rules, SoundRules(rules),
           NEW capacity \in Nat, ~Unlimited(cand, capacity)
    PROVE  LET order == AllocationOrder(cand, rules, balanced)
           IN  /\ Chosen(Allocate(cand, capacity, rules, balanced).confirmed) = Upto(order, capacity)
               /\ capacity \in 1..Len(order)
<1> DEFINE order == AllocationOrder(cand, rules, balanced)
<1>1. order \in Picks(cand) /\ Len(order) \in Nat /\ Len(order) = Cardinality(DOMAIN cand)
    BY OrderListsEverybody
<1>2. Allocate(cand, capacity, rules, balanced).confirmed = SubSeq(order, 1, capacity)
    BY DEF Allocate
<1> HIDE DEF order
<1>3. capacity \in 1..Len(order)
    BY <1>1 DEF Unlimited, NoCapacity
<1>4. order \in Seq(DOMAIN cand)
    BY <1>1 DEF Picks
<1>5. /\ DOMAIN SubSeq(order, 1, capacity) = 1..capacity
      /\ \A i \in 1..capacity : SubSeq(order, 1, capacity)[i] = order[i]
    BY <1>3, <1>4
<1>6. Chosen(SubSeq(order, 1, capacity)) = Upto(order, capacity)
    BY <1>5 DEF Chosen, Upto
<1> QED BY <1>2, <1>3, <1>6 DEF order

\* What everybody of the guarantees is owed is in the places, if these suffice.
LEMMA PlacesHonour ==
    ASSUME NEW cand, SoundCandidates(cand), NEW balanced, NEW rules, SoundRules(rules),
           NEW capacity \in Nat, ~Unlimited(cand, capacity),
           Cardinality(Owed(cand, rules)) <= capacity,
           NEW r \in Guarantees(rules), NEW g \in GroupsOf(cand, r)
    PROVE  Cardinality(g \cap Chosen(Allocate(cand, capacity, rules, balanced).confirmed)) >= Due(r, g)
<1> DEFINE s == Guaranteed(cand, rules, balanced)
           order == AllocationOrder(cand, rules, balanced)
<1>1. s \in Picks(cand) /\ order \in Picks(cand) /\ Continues(s, order) /\ Len(order) \in Nat
    BY GuaranteesBacked, OrderListsEverybody
<1>2. Len(s) \in Nat /\ Len(s) <= capacity
    BY <1>1, GuaranteesBacked, ChosenType
<1>3. Count(g, s) >= Due(r, g)
    BY GuaranteesHonour DEF Guarantees
<1>4. g \in SUBSET DOMAIN cand /\ r.quota \in Nat
    BY GroupsType DEF SoundRules, Guarantees
<1>5. Count(g, s) \in Nat /\ Due(r, g) \in Nat
    BY <1>1, <1>4, CountType, DueType
<1>6. /\ Chosen(Allocate(cand, capacity, rules, balanced).confirmed) = Upto(order, capacity)
      /\ capacity \in 1..Len(order)
    BY FirstOfTheOrder
<1> HIDE DEF s, order
<1>7. Chosen(s) \subseteq Upto(order, capacity)
    <2>1. Upto(order, Len(s)) = Chosen(s)
        BY <1>1, <1>2, UptoPrefix
    <2>2. \A i \in 1..Len(s) : i \in 1..capacity
        BY <1>2
    <2> QED BY <2>1, <2>2 DEF Upto
<1>8. IsFiniteSet(g \cap Upto(order, capacity)) /\ Cardinality(g \cap Upto(order, capacity)) \in Nat
    <2>1. IsFiniteSet(g)
        BY GroupsType
    <2> QED BY <2>1, FS_Subset, FS_CardinalityType
<1>9. Cardinality(g \cap Chosen(s)) <= Cardinality(g \cap Upto(order, capacity))
    <2>1. g \cap Chosen(s) \in SUBSET (g \cap Upto(order, capacity))
        BY <1>7
    <2> QED BY <1>8, <2>1, FS_Subset
<1> QED BY <1>3, <1>5, <1>6, <1>8, <1>9 DEF Count

\* The only guarantee is shared, however many places there are.
LEMMA PlacesShared ==
    ASSUME NEW cand, SoundCandidates(cand), NEW balanced, NEW rules, SoundRules(rules),
           NEW capacity \in Nat, ~Unlimited(cand, capacity),
           NEW r, Guarantees(rules) = {r}
    PROVE  Level(cand, r, Chosen(Allocate(cand, capacity, rules, balanced).confirmed))
<1> DEFINE s == Guaranteed(cand, rules, balanced)
           order == AllocationOrder(cand, rules, balanced)
<1>1. r \in Guarantees(rules) /\ r.quota \in Nat
    <2>1. r \in Guarantees(rules)
        OBVIOUS
    <2> QED BY <2>1 DEF SoundRules, Guarantees
<1>2. s \in Picks(cand) /\ Shared(cand, r, s)
    <2>1. s = ApplyGuarantee(cand, r, <<>>, balanced)
        BY OnlyGuarantee
    <2> HIDE DEF s
    <2> QED BY <1>1, <2>1, GuaranteeShared
<1>3. order \in Picks(cand) /\ Continues(s, order) /\ Len(order) \in Nat /\ Len(s) \in Nat
    BY <1>2, OrderListsEverybody, ChosenType
<1>4. /\ Chosen(Allocate(cand, capacity, rules, balanced).confirmed) = Upto(order, capacity)
      /\ capacity \in 1..Len(order)
    BY FirstOfTheOrder
<1>5. \A g \in GroupsOf(cand, r) : Count(g, s) >= Due(r, g)
    BY <1>1, GuaranteesHonour DEF Guarantees
<1> HIDE DEF s, order
<1>6. CASE capacity <= Len(s)
    <2>1. capacity \in 0..Len(s)
        BY <1>3, <1>6
    <2>2. Upto(order, capacity) = Upto(s, capacity)
        BY <1>2, <1>3, <2>1, UptoPrefix
    <2> QED BY <1>2, <1>4, <2>1, <2>2 DEF Shared
<1>7. CASE Len(s) < capacity
    <2>1. Chosen(s) \subseteq Upto(order, capacity)
        <3>1. Upto(order, Len(s)) = Chosen(s)
            BY <1>2, <1>3, UptoPrefix
        <3>2. \A i \in 1..Len(s) : i \in 1..capacity
            BY <1>3, <1>7
        <3> QED BY <3>1, <3>2 DEF Upto
    <2>2. ASSUME NEW g \in GroupsOf(cand, r) PROVE Cardinality(g \cap Upto(order, capacity)) >= Due(r, g)
        <3>1. IsFiniteSet(g) /\ g \in SUBSET DOMAIN cand
            BY GroupsType
        <3>2. /\ IsFiniteSet(g \cap Upto(order, capacity))
              /\ Cardinality(g \cap Upto(order, capacity)) \in Nat
            BY <3>1, FS_Subset, FS_CardinalityType
        <3>3. g \cap Chosen(s) \in SUBSET (g \cap Upto(order, capacity))
            BY <2>1
        <3>4. Cardinality(g \cap Chosen(s)) <= Cardinality(g \cap Upto(order, capacity))
            BY <3>2, <3>3, FS_Subset
        <3>5. Count(g, s) \in Nat /\ Due(r, g) \in Nat
            BY <1>1, <1>2, <3>1, CountType, DueType
        <3> QED BY <1>5, <3>2, <3>4, <3>5 DEF Count
    <2> QED BY <1>4, <2>2 DEF Level
<1> QED BY <1>3, <1>6, <1>7

-----------------------------------------------------------------------------
(* Without the class balance.                                              *)

\* The application is the earliest of a set.
Earliest(cand, S, e) == e \in S /\ \A f \in S : f = e \/ Precedes(cand, e, f)

\* Without the class balance the earliest of the available is next.
LEMMA NextIsEarliest ==
    ASSUME NEW cand, SoundCandidates(cand), NEW s, NEW available \in SUBSET DOMAIN cand, available # {}
    PROVE  Earliest(cand, available, NextCandidate(cand, available, s, FALSE))
<1> DEFINE R == {p \in available \X available : Precedes(cand, p[1], p[2])}
<1>1. \A e, f \in available : <<e, f>> \in R <=> Precedes(cand, e, f)
    OBVIOUS
<1> HIDE DEF R
<1>2. IsFiniteSet(available)
    BY FS_Subset DEF SoundCandidates
<1>3. /\ \A e \in available : <<e, e>> \notin R
      /\ \A e, f, g \in available : <<e, f>> \in R /\ <<f, g>> \in R => <<e, g>> \in R
    BY <1>1, PrecedesInOrder
<1>4. PICK e \in available : \A f \in available : <<f, e>> \notin R
    BY <1>2, <1>3, MinimalElement
<1>5. \A f \in available \ {e} : Precedes(cand, e, f)
    BY <1>1, <1>4, PrecedesInOrder
<1>6. \A e1, f \in available : GoesBefore(cand, s, FALSE, e1, f) <=> Precedes(cand, e1, f)
    BY DEF GoesBefore
<1> DEFINE next == NextCandidate(cand, available, s, FALSE)
<1>7. next \in available /\ \A f \in available \ {next} : GoesBefore(cand, s, FALSE, next, f)
    BY <1>5, <1>6 DEF NextCandidate
<1> HIDE DEF next
<1>8. \A f \in available : f = next \/ Precedes(cand, next, f)
    BY <1>6, <1>7
<1> QED BY <1>7, <1>8 DEF Earliest, next

\* The pick of a group is the earliest of those not yet picked.
LEMMA EarliestPicked ==
    ASSUME NEW cand, SoundCandidates(cand), NEW s \in Picks(cand), NEW group \in SUBSET DOMAIN cand
    PROVE  \/ group \subseteq Chosen(s) /\ PickNext(cand, group, s, FALSE) = s
           \/ \E e : /\ Earliest(cand, group \ Chosen(s), e)
                     /\ PickNext(cand, group, s, FALSE) = Append(s, e)
<1> DEFINE available == group \ Chosen(s)
<1>1. CASE available = {}
    BY <1>1 DEF PickNext
<1>2. CASE available # {}
    <2>1. Earliest(cand, available, NextCandidate(cand, available, s, FALSE))
        BY <1>2, NextIsEarliest
    <2>2. PickNext(cand, group, s, FALSE) = Append(s, NextCandidate(cand, available, s, FALSE))
        BY <1>2 DEF PickNext
    <2> QED BY <2>1, <2>2
<1> QED BY <1>1, <1>2

-----------------------------------------------------------------------------
(* Picks that follow an order `B', a set of pairs.                         *)

\* All of the set come before all others.
Initial(cand, B, S) == \A e \in S, f \in DOMAIN cand \ S : <<e, f>> \in B
\* At every moment those picked come before all others.
Orderly(cand, B, s) == \A m \in 0..Len(s) : Initial(cand, B, Upto(s, m))

\* The empty sequence of picks follows every order.
LEMMA NothingOrderly ==
    ASSUME NEW cand, NEW B
    PROVE  <<>> \in Picks(cand) /\ Orderly(cand, B, <<>>)
<1>1. <<>> \in Picks(cand) /\ Len(<<>>) = 0 /\ Chosen(<<>>) = {}
    BY NothingPicked
<1>2. \A m \in 0..0 : Upto(<<>>, m) = {}
    BY DEF Upto
<1> QED BY <1>1, <1>2 DEF Orderly, Initial

\* Who is picked in an order comes before all who are not.
LEMMA OrderlyChosen ==
    ASSUME NEW cand, NEW B, NEW s \in Picks(cand), Orderly(cand, B, s)
    PROVE  Initial(cand, B, Chosen(s))
<1>1. Upto(s, Len(s)) = Chosen(s) /\ Len(s) \in Nat
    BY UptoPrefix
<1>2. Len(s) \in 0..Len(s)
    BY <1>1
<1> QED BY <1>1, <1>2 DEF Orderly

\* A pick follows the order when all who are left come after it.
LEMMA PickOrderly ==
    ASSUME NEW cand, SoundCandidates(cand), NEW B, NEW s \in Picks(cand), Orderly(cand, B, s),
           NEW e \in DOMAIN cand \ Chosen(s),
           \A f \in DOMAIN cand \ Chosen(s) : f = e \/ <<e, f>> \in B
    PROVE  Orderly(cand, B, Append(s, e))
<1> DEFINE t == Append(s, e)
<1>1. /\ t \in Picks(cand) /\ Len(t) = Len(s) + 1 /\ Continues(s, t) /\ Len(s) \in Nat
      /\ Chosen(t) = Chosen(s) \cup {e}
    BY AppendPicks, ChosenType
<1> HIDE DEF t
<1>2. Initial(cand, B, Chosen(t))
    <2>1. Initial(cand, B, Chosen(s))
        BY OrderlyChosen
    <2> QED BY <1>1, <2>1 DEF Initial
<1>3. ASSUME NEW m \in 0..Len(t) PROVE Initial(cand, B, Upto(t, m))
    <2>1. CASE m = Len(t)
        <3>1. Upto(t, m) = Chosen(t)
            BY <1>1, <2>1, UptoPrefix
        <3> QED BY <1>2, <3>1
    <2>2. CASE m # Len(t)
        <3>1. m \in 0..Len(s)
            BY <1>1, <2>2
        <3>2. Upto(t, m) = Upto(s, m)
            BY <1>1, <3>1, UptoPrefix
        <3> QED BY <3>1, <3>2 DEF Orderly
    <2> QED BY <2>1, <2>2
<1> QED BY <1>3 DEF Orderly, t

\* Picking all of a group follows an order in which the group comes first, as it registered.
LEMMA PickAllOrderly ==
    ASSUME NEW cand, SoundCandidates(cand), NEW B, NEW s \in Picks(cand), Orderly(cand, B, s),
           NEW group \in SUBSET DOMAIN cand,
           \A e \in group \ Chosen(s), f \in DOMAIN cand \ Chosen(s) :
               f = e \/ <<e, f>> \in B \/ (f \in group /\ ~Precedes(cand, e, f))
    PROVE  Orderly(cand, B, PickAll(cand, group, s, FALSE))
<1>1. PICK n \in Nat : n = Cardinality(group)
    BY FS_Subset, FS_CardinalityType DEF SoundCandidates
<1> DEFINE Good(t) == Orderly(cand, B, t) /\ Chosen(s) \subseteq Chosen(t)
           reached == {p \in (0..n) \X Picks(cand) : Good(p[2])}
<1> HIDE DEF Good
<1>2. <<0, s>> \in reached
    BY <1>1 DEF Good
<1>3. ASSUME NEW i \in 1..n, NEW t, <<i - 1, t>> \in reached
      PROVE  <<i, PickNext(cand, group, t, FALSE)>> \in reached
    <2> DEFINE u == PickNext(cand, group, t, FALSE)
    <2>1. t \in Picks(cand) /\ Good(t) /\ i \in 0..n
        BY <1>1, <1>3
    <2>2. u \in Picks(cand)
        <3> HIDE DEF reached
        <3> QED BY <2>1, PickNextPicks
    <2>3. Good(u)
        <3>1. CASE u = t
            BY <2>1, <3>1
        <3>2. CASE \E e : Earliest(cand, group \ Chosen(t), e) /\ u = Append(t, e)
            <4>1. PICK e : Earliest(cand, group \ Chosen(t), e) /\ u = Append(t, e)
                BY <3>2
            <4>2. e \in group \ Chosen(t) /\ e \in DOMAIN cand \ Chosen(t)
                BY <4>1 DEF Earliest
            <4>3. ASSUME NEW f \in DOMAIN cand \ Chosen(t) PROVE f = e \/ <<e, f>> \in B
                <5>1. f \in DOMAIN cand \ Chosen(s) /\ e \in group \ Chosen(s)
                    BY <2>1, <4>2 DEF Good
                <5>2. f \in group => f = e \/ Precedes(cand, e, f)
                    BY <4>1 DEF Earliest
                <5> QED BY <5>1, <5>2
            <4>4. Orderly(cand, B, Append(t, e))
                <5> HIDE DEF reached, u
                <5> QED BY <2>1, <4>2, <4>3, PickOrderly DEF Good
            <4>5. Chosen(Append(t, e)) = Chosen(t) \cup {e}
                BY <2>1, <4>2, AppendPicks
            <4> HIDE DEF u
            <4> QED BY <2>1, <4>1, <4>4, <4>5 DEF Good
        <3> HIDE DEF reached
        <3> QED BY <2>1, <3>1, <3>2, EarliestPicked
    <2> QED BY <2>1, <2>2, <2>3
<1>4. <<n, PickAll(cand, group, s, FALSE)>> \in reached
    <2> HIDE DEF reached
    <2> QED BY <1>1, <1>2, <1>3, PickAllSteps
<1> QED BY <1>4 DEF Good

\* In an order without cycles the place of an application is known from those ahead of it.
Ahead(cand, B, e) == {f \in DOMAIN cand : <<f, e>> \in B}

\* It is one more than how many are ahead, whoever follows the order.
LEMMA PlaceInOrder ==
    ASSUME NEW cand, SoundCandidates(cand), NEW B, \A e, f \in DOMAIN cand : ~(<<e, f>> \in B /\ <<f, e>> \in B),
           NEW s \in Picks(cand), Chosen(s) = DOMAIN cand, Orderly(cand, B, s),
           NEW e \in DOMAIN cand, NEW m \in 0..Len(s)
    PROVE  e \in Upto(s, m) <=> Cardinality(Ahead(cand, B, e)) < m
<1>1. Len(s) \in Nat /\ DOMAIN s = 1..Len(s) /\ s \in Seq(DOMAIN cand)
    BY DEF Picks
<1>2. PICK p \in 1..Len(s) : s[p] = e
    BY <1>1 DEF Chosen
<1>3. Ahead(cand, B, e) = Upto(s, p - 1)
    <2>1. \A i \in 1..(p - 1) : i \in 1..Len(s) /\ i # p
        BY <1>1
    <2>2. e \notin Upto(s, p - 1)
        BY <1>1, <1>2, <2>1 DEF Upto, Picks
    <2>3. Upto(s, p - 1) \subseteq DOMAIN cand
        BY <1>1, <2>1 DEF Upto
    <2>4. \A f \in Upto(s, p - 1) : <<f, e>> \in B
        <3>1. p - 1 \in 0..Len(s)
            BY <1>1
        <3>2. Initial(cand, B, Upto(s, p - 1))
            BY <3>1 DEF Orderly
        <3> QED BY <2>2, <3>2 DEF Initial
    <2>5. ASSUME NEW f \in DOMAIN cand \ Upto(s, p - 1) PROVE <<f, e>> \notin B
        <3>1. CASE f = e
            BY <3>1
        <3>2. CASE f # e
            <4>1. e \in Upto(s, p)
                BY <1>1, <1>2 DEF Upto
            <4>2. f \notin Upto(s, p)
                <5>1. \A i \in 1..p : i = p \/ i \in 1..(p - 1)
                    BY <1>1
                <5> QED BY <1>2, <2>5, <3>2, <5>1 DEF Upto
            <4>3. Initial(cand, B, Upto(s, p))
                <5>1. p \in 0..Len(s)
                    BY <1>1
                <5> QED BY <5>1 DEF Orderly
            <4>4. <<e, f>> \in B
                BY <4>1, <4>2, <4>3 DEF Initial
            <4> QED BY <4>4
        <3> QED BY <3>1, <3>2
    <2> QED BY <2>3, <2>4, <2>5 DEF Ahead
<1>4. Cardinality(Upto(s, p - 1)) = p - 1
    <2> DEFINE f == [i \in 1..(p - 1) |-> s[i]]
    <2>1. \A i \in 1..(p - 1) : i \in 1..Len(s)
        BY <1>1
    <2>2. f \in Bijection(1..(p - 1), Upto(s, p - 1))
        BY <1>1, <2>1 DEF Picks, Upto, Bijection, Injection, IsInjective, Surjection
    <2> HIDE DEF f
    <2>3. IsFiniteSet(1..(p - 1)) /\ Cardinality(1..(p - 1)) = p - 1
        <3>1. PICK k \in Nat : k = p - 1
            BY <1>1
        <3>2. IsFiniteSet(1..k) /\ Cardinality(1..k) = k
            <4>1. IsFiniteSet(1..k) /\ Cardinality(1..k) = IF 1 > k THEN 0 ELSE k - 1 + 1
                BY FS_Interval
            <4> QED BY <4>1
        <3> QED BY <3>1, <3>2
    <2> QED BY <2>2, <2>3, FS_Bijection DEF ExistsBijection
<1>5. e \in Upto(s, m) <=> p <= m
    <2>1. \A i \in 1..m : i \in 1..Len(s)
        BY <1>1
    <2>2. \A i \in 1..m : s[i] = e => i = p
        BY <1>1, <1>2, <2>1 DEF Picks
    <2>3. p \in 1..m <=> p <= m
        BY <1>1
    <2> QED BY <1>2, <2>2, <2>3 DEF Upto
<1> QED BY <1>1, <1>3, <1>4, <1>5

-----------------------------------------------------------------------------
(* The order that the rounds of a guarantee make.                          *)

\* The group that a guarantee puts an application into.
OwnGroup(cand, rule, e) == GroupOf(cand, rule, SourceValue(cand, e, rule))
\* How many of its group come before it.
GroupRank(cand, rule, e) == Cardinality({f \in OwnGroup(cand, rule, e) : Precedes(cand, f, e)})
\* Those that the guarantee picks, as long as there are places.
Secured(cand, rule) == {e \in Matching(cand, rule) : GroupRank(cand, rule, e) < rule.quota}
\* The group has the earliest application of the two.
Earlier(cand, g, h) == g # h /\ \E e \in g : \A f \in h : Precedes(cand, e, f)

\* Who is secured is in front; among these the lower rank, then the earlier group.
InFront(cand, rule, e, f) ==
    LET secured == Secured(cand, rule)
    IN  \/ e \in secured /\ f \notin secured
        \/ /\ e \in secured /\ f \in secured
           /\ \/ GroupRank(cand, rule, e) < GroupRank(cand, rule, f)
              \/ /\ GroupRank(cand, rule, e) = GroupRank(cand, rule, f)
                 /\ Earlier(cand, OwnGroup(cand, rule, e), OwnGroup(cand, rule, f))
        \/ e \notin secured /\ f \notin secured /\ Precedes(cand, e, f)
\* The order, as a set of pairs.
GuaranteeOrder(cand, rule) ==
    {p \in (DOMAIN cand) \X (DOMAIN cand) : InFront(cand, rule, p[1], p[2])}

\* Which pairs of applications the order has.
LEMMA GuaranteeOrderPairs ==
    ASSUME NEW cand, NEW rule, NEW e \in DOMAIN cand, NEW f \in DOMAIN cand
    PROVE  <<e, f>> \in GuaranteeOrder(cand, rule) <=> InFront(cand, rule, e, f)
BY DEF GuaranteeOrder

\* An application that matches is in its own group, and in no other.
LEMMA OwnGroupType ==
    ASSUME NEW cand, SoundCandidates(cand), NEW rule, NEW e \in Matching(cand, rule)
    PROVE  /\ e \in DOMAIN cand
           /\ OwnGroup(cand, rule, e) \in GroupsOf(cand, rule) /\ e \in OwnGroup(cand, rule, e)
           /\ \A g \in GroupsOf(cand, rule) : e \in g => g = OwnGroup(cand, rule, e)
           /\ OwnGroup(cand, rule, e) \subseteq DOMAIN cand /\ IsFiniteSet(OwnGroup(cand, rule, e))
           /\ \A f \in OwnGroup(cand, rule, e) :
                 f \in Matching(cand, rule) /\ OwnGroup(cand, rule, f) = OwnGroup(cand, rule, e)
<1>1. e \in DOMAIN cand /\ e \in OwnGroup(cand, rule, e)
    BY DEF Matching, OwnGroup, GroupOf
<1>2. OwnGroup(cand, rule, e) \in GroupsOf(cand, rule)
    BY DEF OwnGroup, GroupsOf
<1>3. \A f \in OwnGroup(cand, rule, e) :
         f \in Matching(cand, rule) /\ OwnGroup(cand, rule, f) = OwnGroup(cand, rule, e)
    BY DEF OwnGroup, GroupOf
<1>4. \A g \in GroupsOf(cand, rule) : e \in g => g = OwnGroup(cand, rule, e)
    BY <1>1, <1>2, GroupsType
<1> QED BY <1>1, <1>2, <1>3, <1>4, GroupsType

\* The rank in a group is a number.
LEMMA RankType ==
    ASSUME NEW cand, SoundCandidates(cand), NEW rule, NEW e \in Matching(cand, rule)
    PROVE  GroupRank(cand, rule, e) \in Nat
<1> DEFINE Before == {f \in OwnGroup(cand, rule, e) : Precedes(cand, f, e)}
<1>1. Before \in SUBSET OwnGroup(cand, rule, e)
    OBVIOUS
<1> HIDE DEF Before
<1>2. Cardinality(Before) \in Nat
    BY <1>1, OwnGroupType, FS_Subset, FS_CardinalityType
<1> QED BY <1>2 DEF Before, GroupRank

\* In a group the ranks follow the order of the applications.
LEMMA RankGrows ==
    ASSUME NEW cand, SoundCandidates(cand), NEW rule, NEW e \in Matching(cand, rule),
           NEW f \in OwnGroup(cand, rule, e), Precedes(cand, e, f)
    PROVE  GroupRank(cand, rule, e) < GroupRank(cand, rule, f)
<1> DEFINE h == OwnGroup(cand, rule, e)
           Before == {x \in h : Precedes(cand, x, e)}
           Until == {x \in h : Precedes(cand, x, f)}
<1>1. /\ h \subseteq DOMAIN cand /\ IsFiniteSet(h) /\ e \in h /\ e \in DOMAIN cand /\ f \in DOMAIN cand
      /\ f \in Matching(cand, rule) /\ OwnGroup(cand, rule, f) = h
    BY OwnGroupType
<1>2. Before \cup {e} \in SUBSET Until /\ e \notin Before
    BY <1>1, PrecedesInOrder
<1>3. Before \in SUBSET h /\ Until \in SUBSET h
    OBVIOUS
<1>4. GroupRank(cand, rule, e) = Cardinality(Before) /\ GroupRank(cand, rule, f) = Cardinality(Until)
    BY <1>1 DEF GroupRank
<1> HIDE DEF h, Before, Until
<1>5. IsFiniteSet(Before) /\ IsFiniteSet(Until)
    BY <1>1, <1>3, FS_Subset
<1>6. Cardinality(Before \cup {e}) = Cardinality(Before) + 1 /\ Cardinality(Before) \in Nat
    BY <1>2, <1>5, FS_AddElement, FS_CardinalityType
<1>7. Cardinality(Before \cup {e}) <= Cardinality(Until) /\ Cardinality(Until) \in Nat
    BY <1>2, <1>5, FS_Subset, FS_CardinalityType
<1> QED BY <1>4, <1>6, <1>7

\* The order has no cycle of two.
LEMMA GuaranteeOrderOneWay ==
    ASSUME NEW cand, SoundCandidates(cand), NEW rule, rule.quota \in Nat,
           NEW e \in DOMAIN cand, NEW f \in DOMAIN cand
    PROVE  ~(<<e, f>> \in GuaranteeOrder(cand, rule) /\ <<f, e>> \in GuaranteeOrder(cand, rule))
<1> SUFFICES ASSUME InFront(cand, rule, e, f), InFront(cand, rule, f, e) PROVE FALSE
    BY GuaranteeOrderPairs
<1> DEFINE S == Secured(cand, rule)
           G(x) == OwnGroup(cand, rule, x)
<1>1. CASE e \in S /\ f \in S
    <2>1. e \in Matching(cand, rule) /\ f \in Matching(cand, rule)
        BY <1>1 DEF Secured
    <2>2. GroupRank(cand, rule, e) \in Nat /\ GroupRank(cand, rule, f) \in Nat
        BY <2>1, RankType
    <2>3. Earlier(cand, G(e), G(f)) /\ Earlier(cand, G(f), G(e))
        BY <1>1, <2>2 DEF InFront
    <2>4. G(e) \subseteq DOMAIN cand /\ G(f) \subseteq DOMAIN cand
        BY <2>1, OwnGroupType
    <2> HIDE DEF G
    <2> QED BY <2>3, <2>4, PrecedesInOrder DEF Earlier
<1>2. CASE e \notin S /\ f \notin S
    <2>1. Precedes(cand, e, f) /\ Precedes(cand, f, e)
        BY <1>2 DEF InFront
    <2> QED BY <2>1, PrecedesInOrder
<1>3. (e \in S) = (f \in S)
    BY DEF InFront
<1> QED BY <1>1, <1>2, <1>3

\* When the picks follow the order, those of a group are its first.
LEMMA FirstOfTheGroup ==
    ASSUME NEW cand, SoundCandidates(cand), NEW rule, rule.quota \in Nat,
           NEW s \in Picks(cand), Orderly(cand, GuaranteeOrder(cand, rule), s),
           NEW f \in Matching(cand, rule), f \notin Chosen(s)
    PROVE  /\ \A e \in OwnGroup(cand, rule, f) \cap Chosen(s) : Precedes(cand, e, f)
           /\ Count(OwnGroup(cand, rule, f), s) <= GroupRank(cand, rule, f)
           /\ Earliest(cand, OwnGroup(cand, rule, f) \ Chosen(s), f) =>
                 Count(OwnGroup(cand, rule, f), s) = GroupRank(cand, rule, f)
<1> DEFINE h == OwnGroup(cand, rule, f)
           Before == {x \in h : Precedes(cand, x, f)}
<1>1. /\ h \subseteq DOMAIN cand /\ IsFiniteSet(h) /\ f \in h /\ f \in DOMAIN cand
      /\ \A e \in h : e \in Matching(cand, rule) /\ OwnGroup(cand, rule, e) = h
    BY OwnGroupType
<1>2. ASSUME NEW e \in h \cap Chosen(s) PROVE Precedes(cand, e, f)
    <2>1. <<e, f>> \in GuaranteeOrder(cand, rule)
        BY <1>1, OrderlyChosen DEF Initial
    <2>2. e \in Matching(cand, rule) /\ e \in DOMAIN cand /\ OwnGroup(cand, rule, e) = h /\ e # f
        BY <1>1
    <2>3. InFront(cand, rule, e, f)
        BY <1>1, <2>1, <2>2, GuaranteeOrderPairs
    <2>4. ~Precedes(cand, f, e)
        <3> SUFFICES ASSUME Precedes(cand, f, e) PROVE FALSE
            OBVIOUS
        <3>1. GroupRank(cand, rule, f) < GroupRank(cand, rule, e)
            BY <2>2, RankGrows
        <3>2. GroupRank(cand, rule, f) \in Nat /\ GroupRank(cand, rule, e) \in Nat
            BY <2>2, RankType
        <3>3. ~Earlier(cand, h, h)
            BY DEF Earlier
        <3>4. e \notin Secured(cand, rule) /\ f \notin Secured(cand, rule) /\ Precedes(cand, e, f)
            <4>1. e \in Secured(cand, rule) => f \in Secured(cand, rule)
                BY <3>1, <3>2, <2>2 DEF Secured
            <4> HIDE DEF h
            <4> QED BY <2>2, <2>3, <3>1, <3>2, <3>3, <4>1 DEF InFront, h
        <3> QED BY <1>1, <2>2, <3>4, PrecedesInOrder
    <2> QED BY <1>1, <2>2, <2>4, PrecedesInOrder
<1>3. h \cap Chosen(s) \in SUBSET Before /\ Before \in SUBSET h
    BY <1>2
<1>4. Earliest(cand, h \ Chosen(s), f) => Before = h \cap Chosen(s)
    <2> SUFFICES ASSUME Earliest(cand, h \ Chosen(s), f), NEW x \in Before PROVE x \in Chosen(s)
        BY <1>3
    <2>1. x \in h /\ x \in DOMAIN cand /\ Precedes(cand, x, f)
        BY <1>1
    <2>2. x # f /\ ~Precedes(cand, f, x)
        BY <1>1, <2>1, PrecedesInOrder
    <2> HIDE DEF h, Before
    <2> QED BY <2>1, <2>2 DEF Earliest
<1>5. GroupRank(cand, rule, f) = Cardinality(Before) /\ Count(h, s) = Cardinality(h \cap Chosen(s))
    BY DEF GroupRank, Count
<1>6. IsFiniteSet(Before) /\ Cardinality(h \cap Chosen(s)) <= Cardinality(Before)
    <2> HIDE DEF h, Before
    <2> QED BY <1>1, <1>3, FS_Subset
<1> HIDE DEF h, Before
<1> QED BY <1>2, <1>4, <1>5, <1>6 DEF h

\* Who is secured and not yet picked has a group that is not yet served.
LEMMA SecuredAreServed ==
    ASSUME NEW cand, SoundCandidates(cand), NEW rule, rule.quota \in Nat,
           NEW s \in Picks(cand), Orderly(cand, GuaranteeOrder(cand, rule), s),
           NEW f \in Secured(cand, rule), f \notin Chosen(s)
    PROVE  Count(OwnGroup(cand, rule, f), s) < Due(rule, OwnGroup(cand, rule, f))
<1> DEFINE h == OwnGroup(cand, rule, f)
<1>1. f \in Matching(cand, rule) /\ GroupRank(cand, rule, f) < rule.quota
    BY DEF Secured
<1>2. f \in h /\ h \in SUBSET DOMAIN cand
    BY <1>1, OwnGroupType
<1>3. Count(h, s) <= GroupRank(cand, rule, f) /\ GroupRank(cand, rule, f) \in Nat
    BY <1>1, FirstOfTheGroup, RankType
<1> HIDE DEF h
<1>4. /\ Count(h, s) \in Nat /\ Cardinality(h) \in Nat /\ Count(h, s) <= Cardinality(h)
      /\ Count(h, s) = Cardinality(h) => h \subseteq Chosen(s)
    BY <1>2, CountType
<1>5. Count(h, s) < Cardinality(h)
    BY <1>2, <1>4
<1>6. Count(h, s) < Due(rule, h)
    BY <1>1, <1>3, <1>4, <1>5 DEF Due
<1> QED BY <1>6 DEF h

\* The one whose turn it is in a round is in front of all who are still to be picked.
LEMMA TurnsInOrder ==
    ASSUME NEW cand, SoundCandidates(cand), NEW rule, rule.quota \in Nat, NEW k \in Nat,
           NEW i \in 1..Len(GuaranteeGroups(cand, rule)), NEW s \in Picks(cand),
           Orderly(cand, GuaranteeOrder(cand, rule), s), Underway(cand, rule, s, i - 1, k),
           Count(GuaranteeGroups(cand, rule)[i], s) < Due(rule, GuaranteeGroups(cand, rule)[i]),
           NEW e, Earliest(cand, GuaranteeGroups(cand, rule)[i] \ Chosen(s), e),
           NEW f \in DOMAIN cand \ Chosen(s), f # e
    PROVE  <<e, f>> \in GuaranteeOrder(cand, rule)
<1>1. PICK groups : groups = GuaranteeGroups(cand, rule)
    OBVIOUS
<1>2. PICK n \in Nat : n = Len(groups)
    BY <1>1, GroupsArranged
<1>3. /\ i \in 1..n /\ \A j \in 1..n : groups[j] \in GroupsOf(cand, rule)
      /\ \A g \in GroupsOf(cand, rule) : \E j \in 1..n : groups[j] = g
      /\ \A j \in 1..n : i < j => Earlier(cand, groups[i], groups[j])
      /\ \A j \in 1..n : Between(rule, groups[j], s, IF j <= i - 1 THEN k + 1 ELSE k)
      /\ Count(groups[i], s) < Due(rule, groups[i])
      /\ Earliest(cand, groups[i] \ Chosen(s), e)
    BY <1>1, <1>2, GroupsArranged, SMTT(20) DEF Underway, Earlier
<1>4. groups[i] \in SUBSET DOMAIN cand /\ groups[i] \subseteq Matching(cand, rule)
    <2>1. \A g \in GroupsOf(cand, rule) : g \subseteq Matching(cand, rule)
        BY DEF GroupsOf, GroupOf
    <2> QED BY <1>3, <2>1, GroupsType
<1>5. e \in groups[i] /\ e \in DOMAIN cand \ Chosen(s) /\ e \in Matching(cand, rule)
    BY <1>3, <1>4 DEF Earliest
<1>6. OwnGroup(cand, rule, e) = groups[i]
    BY <1>3, <1>5, OwnGroupType
<1>7. GroupRank(cand, rule, e) = Count(groups[i], s)
    BY <1>3, <1>5, <1>6, FirstOfTheGroup
<1>8. /\ Count(groups[i], s) \in Nat /\ Due(rule, groups[i]) \in Nat
      /\ Due(rule, groups[i]) <= rule.quota
    BY <1>4, CountType, DueType
<1>9. GroupRank(cand, rule, e) = k
    <2>1. ~(i <= i - 1)
        BY <1>3
    <2>2. Between(rule, groups[i], s, k)
        BY <1>3, <2>1
    <2> QED BY <1>3, <1>7, <1>8, <2>2 DEF Between, Reaches
<1>10. e \in Secured(cand, rule)
    BY <1>3, <1>5, <1>7, <1>8 DEF Secured
<1>11. CASE f \notin Secured(cand, rule)
    <2>1. InFront(cand, rule, e, f)
        BY <1>10, <1>11 DEF InFront
    <2> QED BY <1>5, <2>1, GuaranteeOrderPairs
<1>12. CASE f \in Secured(cand, rule)
    <2>1. f \in Matching(cand, rule)
        BY <1>12 DEF Secured
    <2>2. PICK h : h = OwnGroup(cand, rule, f)
        OBVIOUS
    <2>3. h \in GroupsOf(cand, rule) /\ f \in h /\ h \in SUBSET DOMAIN cand
        BY <2>1, <2>2, OwnGroupType
    <2>4. PICK j \in 1..n : groups[j] = h
        BY <1>3, <2>3
    <2>5. Count(h, s) <= GroupRank(cand, rule, f) /\ GroupRank(cand, rule, f) \in Nat
        BY <2>1, <2>2, FirstOfTheGroup, RankType
    <2>6. Count(h, s) < Due(rule, h)
        BY <1>12, <2>2, SecuredAreServed
    <2>7. Count(h, s) \in Nat /\ Due(rule, h) \in Nat
        BY <2>3, CountType, DueType
    <2>8. Count(h, s) >= IF j <= i - 1 THEN k + 1 ELSE k
        BY <1>3, <2>4, <2>6, <2>7 DEF Between, Reaches
    <2>9. \/ GroupRank(cand, rule, e) < GroupRank(cand, rule, f)
          \/ GroupRank(cand, rule, e) = GroupRank(cand, rule, f) /\ Earlier(cand, groups[i], h)
        <3>1. CASE j < i
            BY <1>2, <1>3, <1>9, <2>5, <2>7, <2>8, <3>1
        <3>2. CASE j = i
            <4>1. Precedes(cand, e, f)
                BY <1>3, <2>3, <2>4, <3>2 DEF Earliest
            <4>2. f \in OwnGroup(cand, rule, e)
                BY <1>6, <2>3, <2>4, <3>2
            <4> QED BY <1>5, <4>1, <4>2, RankGrows
        <3>3. CASE i < j
            <4>1. Earlier(cand, groups[i], h)
                BY <1>3, <2>4, <3>3
            <4>2. k <= GroupRank(cand, rule, f)
                BY <1>2, <1>3, <2>5, <2>7, <2>8, <3>3
            <4> QED BY <1>9, <2>5, <4>1, <4>2
        <3> QED BY <1>2, <1>3, <3>1, <3>2, <3>3
    <2>10. InFront(cand, rule, e, f)
        BY <1>6, <1>10, <1>12, <2>2, <2>9 DEF InFront
    <2> QED BY <1>5, <2>10, GuaranteeOrderPairs
<1> QED BY <1>11, <1>12

\* The picks of the only guarantee follow its order.
LEMMA GuaranteeOrderly ==
    ASSUME NEW cand, SoundCandidates(cand), NEW rule, rule.quota \in Nat
    PROVE  /\ ApplyGuarantee(cand, rule, <<>>, FALSE) \in Picks(cand)
           /\ Orderly(cand, GuaranteeOrder(cand, rule), ApplyGuarantee(cand, rule, <<>>, FALSE))
<1> DEFINE good == {s \in Picks(cand) : Orderly(cand, GuaranteeOrder(cand, rule), s)}
<1>1. <<>> \in good
    BY NothingOrderly
<1>2. ASSUME NEW k \in Nat, NEW i \in 1..Len(GuaranteeGroups(cand, rule)), NEW s \in Picks(cand) \cap good,
             Underway(cand, rule, s, i - 1, k),
             Count(GuaranteeGroups(cand, rule)[i], s) < Due(rule, GuaranteeGroups(cand, rule)[i])
      PROVE  PickNext(cand, GuaranteeGroups(cand, rule)[i], s, FALSE) \in good
    <2> DEFINE group == GuaranteeGroups(cand, rule)[i]
               t == PickNext(cand, group, s, FALSE)
    <2>1. s \in Picks(cand) /\ Orderly(cand, GuaranteeOrder(cand, rule), s)
        OBVIOUS
    <2>2. group \in SUBSET DOMAIN cand
        BY GroupsArranged, GroupsType
    <2>3. \/ t = s
          \/ \E e : Earliest(cand, group \ Chosen(s), e) /\ t = Append(s, e)
        <3> HIDE DEF group, good
        <3> QED BY <2>1, <2>2, EarliestPicked
    <2>4. ASSUME NEW e, Earliest(cand, group \ Chosen(s), e), t = Append(s, e)
          PROVE  t \in good
        <3>1. e \in DOMAIN cand \ Chosen(s)
            <4> HIDE DEF group
            <4> QED BY <2>2, <2>4 DEF Earliest
        <3>2. \A f \in DOMAIN cand \ Chosen(s) : f = e \/ <<e, f>> \in GuaranteeOrder(cand, rule)
            <4> HIDE DEF good
            <4> QED BY <1>2, <2>1, <2>4, TurnsInOrder
        <3>3. Append(s, e) \in Picks(cand)
            BY <2>1, <3>1, AppendPicks
        <3>4. Orderly(cand, GuaranteeOrder(cand, rule), Append(s, e))
            <4> HIDE DEF good, t
            <4> QED BY <2>1, <3>1, <3>2, PickOrderly
        <3> HIDE DEF t
        <3> QED BY <2>4, <3>3, <3>4
    <2> HIDE DEF t
    <2>5. t \in good
        BY <2>3, <2>4
    <2> QED BY <2>5 DEF t
<1>3. PicksStayIn(good, cand, rule, FALSE)
    <2> HIDE DEF good
    <2> QED BY <1>2 DEF PicksStayIn
<1>4. ApplyGuarantee(cand, rule, <<>>, FALSE) \in Picks(cand) \cap good
    <2> HIDE DEF good
    <2> QED BY <1>1, <1>3, GuaranteeStaysIn
<1> QED BY <1>4

\* Without the class balance and under no rule but a guarantee, all places are given in
\* its order.
LEMMA GuaranteeOrdersAll ==
    ASSUME NEW cand, SoundCandidates(cand), NEW rule, rule.quota \in Nat
    PROVE  LET s == ApplyGuarantee(cand, rule, <<>>, FALSE)
           IN  Orderly(cand, GuaranteeOrder(cand, rule), PickAll(cand, DOMAIN cand, s, FALSE))
<1>1. PICK s : s = ApplyGuarantee(cand, rule, <<>>, FALSE)
    OBVIOUS
<1>2. s \in Picks(cand) /\ Orderly(cand, GuaranteeOrder(cand, rule), s)
    BY <1>1, GuaranteeOrderly
<1>3. \A g \in GroupsOf(cand, rule) : Count(g, s) >= Due(rule, g)
    <2>1. \A b : \A g \in GroupsOf(cand, rule) : Count(g, ApplyGuarantee(cand, rule, <<>>, b)) >= Due(rule, g)
        BY NothingPicked, GuaranteeHonours
    <2> QED BY <1>1, <2>1
<1>4. \A f \in DOMAIN cand \ Chosen(s) : f \notin Secured(cand, rule)
    <2> SUFFICES ASSUME NEW f \in Secured(cand, rule), f \notin Chosen(s) PROVE FALSE
        OBVIOUS
    <2>1. PICK h : h = OwnGroup(cand, rule, f)
        OBVIOUS
    <2>2. h \in GroupsOf(cand, rule) /\ h \in SUBSET DOMAIN cand
        BY <2>1, OwnGroupType DEF Secured
    <2>3. Count(h, s) < Due(rule, h)
        BY <1>2, <2>1, SecuredAreServed
    <2>4. Count(h, s) \in Nat /\ Due(rule, h) \in Nat
        BY <1>2, <2>2, CountType, DueType
    <2> QED BY <1>3, <2>2, <2>3, <2>4
<1>5. ASSUME NEW e \in DOMAIN cand \ Chosen(s), NEW f \in DOMAIN cand \ Chosen(s)
      PROVE  f = e \/ <<e, f>> \in GuaranteeOrder(cand, rule) \/ (f \in DOMAIN cand /\ ~Precedes(cand, e, f))
    <2>1. Precedes(cand, e, f) => InFront(cand, rule, e, f)
        BY <1>4 DEF InFront
    <2> QED BY <2>1, GuaranteeOrderPairs
<1>6. Orderly(cand, GuaranteeOrder(cand, rule), PickAll(cand, DOMAIN cand, s, FALSE))
    BY <1>2, <1>5, PickAllOrderly
<1> QED BY <1>1, <1>6

-----------------------------------------------------------------------------
(* One application less.                                                   *)

\* The applications when one has left.
Without(cand, z) == [j \in DOMAIN cand \ {z} |-> cand[j]]

\* What the departure leaves of the groups.
LeavesOut(cand, rule, z, rest) ==
    /\ SoundCandidates(rest) /\ DOMAIN rest = DOMAIN cand \ {z}
    /\ \A e, f \in DOMAIN cand \ {z} : Precedes(rest, e, f) <=> Precedes(cand, e, f)
    /\ Matching(rest, rule) = Matching(cand, rule) \ {z}
    /\ \A e \in DOMAIN cand \ {z} : OwnGroup(rest, rule, e) = OwnGroup(cand, rule, e) \ {z}

\* The others match as they did, and their groups lack only who has left.
LEMMA WithoutType ==
    ASSUME NEW cand, SoundCandidates(cand), NEW z \in DOMAIN cand, NEW rule
    PROVE  LeavesOut(cand, rule, z, Without(cand, z))
<1> DEFINE rest == Without(cand, z)
<1>1. DOMAIN rest = DOMAIN cand \ {z} /\ \A e \in DOMAIN cand \ {z} : rest[e] = cand[e]
    BY DEF Without
<1> HIDE DEF rest
<1>2. IsFiniteSet(DOMAIN rest)
    BY <1>1, FS_Subset DEF SoundCandidates
<1>3. SoundCandidates(rest)
    BY <1>1, <1>2 DEF SoundCandidates
<1>4. \A e, f \in DOMAIN cand \ {z} : Precedes(rest, e, f) <=> Precedes(cand, e, f)
    BY <1>1 DEF Precedes
<1>5. \A e \in DOMAIN cand \ {z} : SourceValue(rest, e, rule) = SourceValue(cand, e, rule)
    BY <1>1 DEF SourceValue
<1>6. Matching(rest, rule) = Matching(cand, rule) \ {z}
    BY <1>1, <1>5 DEF Matching, MatchesRule
<1>7. \A e \in DOMAIN cand \ {z} : OwnGroup(rest, rule, e) = OwnGroup(cand, rule, e) \ {z}
    BY <1>1, <1>5, <1>6 DEF OwnGroup, GroupOf, Matching
<1> QED BY <1>1, <1>3, <1>4, <1>6, <1>7 DEF rest, LeavesOut

\* The application comes after the one that leaves, in the same group.
Follows(cand, rule, z, e) ==
    e \in Matching(cand, rule) /\ z \in OwnGroup(cand, rule, e) /\ Precedes(cand, z, e)

\* Who follows the one that has left moves up one rank, and nobody else moves.
LEMMA RankWithout ==
    ASSUME NEW cand, SoundCandidates(cand), NEW z \in DOMAIN cand, NEW rule,
           NEW e \in Matching(cand, rule), e # z
    PROVE  GroupRank(Without(cand, z), rule, e) =
               IF Follows(cand, rule, z, e) THEN GroupRank(cand, rule, e) - 1 ELSE GroupRank(cand, rule, e)
<1> DEFINE rest == Without(cand, z)
           h == OwnGroup(cand, rule, e)
           Before == {f \in h : Precedes(cand, f, e)}
           Rest == {f \in h \ {z} : Precedes(rest, f, e)}
<1>1. h \subseteq DOMAIN cand /\ IsFiniteSet(h) /\ e \in DOMAIN cand \ {z}
    BY OwnGroupType
<1>2. /\ OwnGroup(rest, rule, e) = h \ {z}
      /\ \A f \in h \ {z} : Precedes(rest, f, e) <=> Precedes(cand, f, e)
    <2> HIDE DEF rest, h
    <2>1. /\ \A x, f \in DOMAIN cand \ {z} : Precedes(rest, x, f) <=> Precedes(cand, x, f)
          /\ \A x \in DOMAIN cand \ {z} : OwnGroup(rest, rule, x) = OwnGroup(cand, rule, x) \ {z}
        <3>1. LeavesOut(cand, rule, z, rest)
            BY WithoutType DEF rest
        <3> QED BY <3>1 DEF LeavesOut
    <2> QED BY <1>1, <2>1 DEF h
<1>3. Rest = Before \ {z} /\ GroupRank(rest, rule, e) = Cardinality(Rest) /\ GroupRank(cand, rule, e) = Cardinality(Before)
    <2> HIDE DEF rest
    <2>1. Rest = Before \ {z}
        BY <1>2
    <2> QED BY <1>2, <2>1 DEF GroupRank
<1>4. IsFiniteSet(Before)
    <2>1. Before \in SUBSET h
        OBVIOUS
    <2> HIDE DEF Before, h
    <2> QED BY <1>1, <2>1, FS_Subset
<1>5. Follows(cand, rule, z, e) <=> z \in Before
    BY DEF Follows
<1> HIDE DEF Before, Rest
<1>6. /\ z \in Before => Cardinality(Before \ {z}) = Cardinality(Before) - 1
      /\ z \notin Before => Before \ {z} = Before
    BY <1>4, FS_RemoveElement
<1> QED BY <1>3, <1>5, <1>6

\* Who comes right before an application in its group.
ComesBefore(cand, rule, e, c) ==
    /\ c \in OwnGroup(cand, rule, e) /\ Precedes(cand, c, e)
    /\ \A d \in OwnGroup(cand, rule, e) : Precedes(cand, d, e) => d = c \/ Precedes(cand, d, c)

\* Unless it is the first of its group, somebody comes right before an application.
LEMMA SomebodyComesBefore ==
    ASSUME NEW cand, SoundCandidates(cand), NEW z \in DOMAIN cand, NEW rule,
           NEW e \in DOMAIN cand, Follows(cand, rule, z, e)
    PROVE  \E c : ComesBefore(cand, rule, e, c)
<1> DEFINE h == OwnGroup(cand, rule, e)
           Before == {f \in h : Precedes(cand, f, e)}
           R == {p \in Before \X Before : Precedes(cand, p[2], p[1])}
<1>1. h \subseteq DOMAIN cand /\ IsFiniteSet(h) /\ z \in Before
    BY OwnGroupType DEF Follows
<1>2. \A f, g \in Before : <<f, g>> \in R <=> Precedes(cand, g, f)
    OBVIOUS
<1>3. Before \in SUBSET h /\ Before \in SUBSET DOMAIN cand
    BY <1>1
<1>4. \A f \in h : f \in Before <=> Precedes(cand, f, e)
    OBVIOUS
<1> HIDE DEF Before, R, h
<1>5. IsFiniteSet(Before)
    BY <1>1, <1>3, FS_Subset
<1>6. /\ \A f \in Before : <<f, f>> \notin R
      /\ \A f, g, d \in Before : <<f, g>> \in R /\ <<g, d>> \in R => <<f, d>> \in R
    BY <1>2, <1>3, PrecedesInOrder
<1>7. PICK c \in Before : \A d \in Before : <<d, c>> \notin R
    BY <1>1, <1>5, <1>6, MinimalElement
<1>8. \A d \in Before : d = c \/ Precedes(cand, d, c)
    BY <1>2, <1>3, <1>7, PrecedesInOrder
<1>9. c \in h /\ Precedes(cand, c, e) /\ \A d \in h : Precedes(cand, d, e) => d = c \/ Precedes(cand, d, c)
    BY <1>3, <1>4, <1>7, <1>8
<1> QED BY <1>9 DEF ComesBefore, h

\* Who comes right before has the rank before.
LEMMA RankBefore ==
    ASSUME NEW cand, SoundCandidates(cand), NEW rule, NEW e \in Matching(cand, rule),
           NEW c, ComesBefore(cand, rule, e, c)
    PROVE  /\ c \in Matching(cand, rule) /\ OwnGroup(cand, rule, c) = OwnGroup(cand, rule, e)
           /\ GroupRank(cand, rule, c) = GroupRank(cand, rule, e) - 1
<1> DEFINE h == OwnGroup(cand, rule, e)
           Before == {f \in h : Precedes(cand, f, c)}
           Until == {f \in h : Precedes(cand, f, e)}
<1>1. /\ h \subseteq DOMAIN cand /\ IsFiniteSet(h) /\ e \in DOMAIN cand
      /\ c \in Matching(cand, rule) /\ OwnGroup(cand, rule, c) = h /\ c \in h
    BY OwnGroupType DEF ComesBefore
<1>2. Until = Before \cup {c} /\ c \notin Before
    BY <1>1, PrecedesInOrder DEF ComesBefore
<1>3. GroupRank(cand, rule, c) = Cardinality(Before) /\ GroupRank(cand, rule, e) = Cardinality(Until)
    BY <1>1 DEF GroupRank
<1>4. IsFiniteSet(Before)
    <2>1. Before \in SUBSET h
        OBVIOUS
    <2> HIDE DEF Before, h
    <2> QED BY <1>1, <2>1, FS_Subset
<1> HIDE DEF Before, Until
<1>5. Cardinality(Until) = Cardinality(Before) + 1 /\ Cardinality(Before) \in Nat
    BY <1>2, <1>4, FS_AddElement, FS_CardinalityType
<1> QED BY <1>1, <1>3, <1>5

\* When z leaves, those behind it in its group move up to the rank of the one before.
Replaced(cand, rule, z, e) ==
    IF Follows(cand, rule, z, e) THEN CHOOSE c : ComesBefore(cand, rule, e, c) ELSE e

\* Who comes after the one that leaves is replaced by the one right before it, nobody else is.
LEMMA ReplacedType ==
    ASSUME NEW cand, SoundCandidates(cand), NEW z \in DOMAIN cand, NEW rule,
           NEW e \in DOMAIN cand, e # z
    PROVE  /\ Follows(cand, rule, z, e) => ComesBefore(cand, rule, e, Replaced(cand, rule, z, e))
           /\ ~Follows(cand, rule, z, e) => Replaced(cand, rule, z, e) = e
           /\ Replaced(cand, rule, z, e) \in DOMAIN cand
           /\ Replaced(cand, rule, z, e) = e \/ Precedes(cand, Replaced(cand, rule, z, e), e)
<1>1. CASE Follows(cand, rule, z, e)
    <2>1. ComesBefore(cand, rule, e, Replaced(cand, rule, z, e))
        BY <1>1, SomebodyComesBefore DEF Replaced
    <2>2. OwnGroup(cand, rule, e) \subseteq DOMAIN cand
        BY <1>1, OwnGroupType DEF Follows
    <2> QED BY <1>1, <2>1, <2>2 DEF ComesBefore
<1>2. CASE ~Follows(cand, rule, z, e)
    BY <1>2 DEF Replaced
<1> QED BY <1>1, <1>2

\* The replacement has the rank that is left behind.
LEMMA ReplacedRank ==
    ASSUME NEW cand, SoundCandidates(cand), NEW z \in DOMAIN cand, NEW rule,
           NEW e \in DOMAIN cand, e # z
    PROVE  /\ e \notin Matching(cand, rule) => Replaced(cand, rule, z, e) = e
           /\ e \in Matching(cand, rule) =>
                 /\ Replaced(cand, rule, z, e) \in Matching(cand, rule)
                 /\ OwnGroup(cand, rule, Replaced(cand, rule, z, e)) = OwnGroup(cand, rule, e)
                 /\ GroupRank(cand, rule, Replaced(cand, rule, z, e)) = GroupRank(Without(cand, z), rule, e)
<1>1. PICK c : c = Replaced(cand, rule, z, e)
    OBVIOUS
<1>2. CASE e \notin Matching(cand, rule)
    BY <1>2, ReplacedType DEF Follows
<1>3. CASE e \in Matching(cand, rule) /\ Follows(cand, rule, z, e)
    <2>1. ComesBefore(cand, rule, e, c)
        BY <1>1, <1>3, ReplacedType
    <2>2. /\ c \in Matching(cand, rule) /\ OwnGroup(cand, rule, c) = OwnGroup(cand, rule, e)
          /\ GroupRank(cand, rule, c) = GroupRank(cand, rule, e) - 1
        BY <1>3, <2>1, RankBefore
    <2>3. GroupRank(Without(cand, z), rule, e) = GroupRank(cand, rule, e) - 1
        BY <1>3, RankWithout
    <2> QED BY <1>1, <1>3, <2>2, <2>3
<1>4. CASE e \in Matching(cand, rule) /\ ~Follows(cand, rule, z, e)
    <2>1. c = e
        BY <1>1, <1>4, ReplacedType
    <2>2. GroupRank(Without(cand, z), rule, e) = GroupRank(cand, rule, e)
        BY <1>4, RankWithout
    <2> QED BY <1>1, <1>4, <2>1, <2>2
<1> QED BY <1>2, <1>3, <1>4

\* Whoever is in front after the departure had its replacement in front before.
LEMMA ReplacedInFront ==
    ASSUME NEW cand, SoundCandidates(cand), NEW z \in DOMAIN cand, NEW rule, rule.quota \in Nat,
           NEW e \in DOMAIN cand, e # z, NEW f \in DOMAIN cand, f # z,
           InFront(Without(cand, z), rule, e, f)
    PROVE  InFront(cand, rule, Replaced(cand, rule, z, e), f)
<1>1. PICK rest : rest = Without(cand, z)
    OBVIOUS
<1>2. PICK c : c = Replaced(cand, rule, z, e)
    OBVIOUS
<1>3. /\ Precedes(rest, e, f) <=> Precedes(cand, e, f)
      /\ Matching(rest, rule) = Matching(cand, rule) \ {z}
      /\ \A x \in {e, f} : OwnGroup(rest, rule, x) = OwnGroup(cand, rule, x) \ {z}
      /\ \A x, y \in DOMAIN cand \ {z} : Precedes(rest, x, y) <=> Precedes(cand, x, y)
    <2>1. LeavesOut(cand, rule, z, rest)
        BY <1>1, WithoutType
    <2> QED BY <2>1 DEF LeavesOut
<1>4. /\ e \notin Matching(cand, rule) => c = e
      /\ e \in Matching(cand, rule) =>
            /\ c \in Matching(cand, rule) /\ OwnGroup(cand, rule, c) = OwnGroup(cand, rule, e)
            /\ GroupRank(cand, rule, c) = GroupRank(rest, rule, e)
    BY <1>1, <1>2, ReplacedRank
<1>5. c \in DOMAIN cand /\ (c = e \/ Precedes(cand, c, e))
    BY <1>2, ReplacedType
<1>6. e \in Secured(rest, rule) <=> c \in Secured(cand, rule)
    BY <1>3, <1>4 DEF Secured
<1>7. f \in Matching(cand, rule) =>
          /\ GroupRank(cand, rule, f) \in Nat /\ GroupRank(rest, rule, f) \in Nat
          /\ GroupRank(rest, rule, f) = IF Follows(cand, rule, z, f) THEN GroupRank(cand, rule, f) - 1 ELSE GroupRank(cand, rule, f)
    <2> SUFFICES ASSUME f \in Matching(cand, rule)
                 PROVE  /\ GroupRank(cand, rule, f) \in Nat /\ GroupRank(rest, rule, f) \in Nat
                        /\ GroupRank(rest, rule, f) =
                              IF Follows(cand, rule, z, f) THEN GroupRank(cand, rule, f) - 1 ELSE GroupRank(cand, rule, f)
        OBVIOUS
    <2>1. SoundCandidates(rest) /\ f \in Matching(rest, rule)
        <3>1. LeavesOut(cand, rule, z, rest)
            BY <1>1, WithoutType
        <3> QED BY <1>3, <3>1 DEF LeavesOut
    <2>2. GroupRank(rest, rule, f) \in Nat /\ GroupRank(cand, rule, f) \in Nat
        BY <2>1, RankType
    <2>3. GroupRank(rest, rule, f) = IF Follows(cand, rule, z, f) THEN GroupRank(cand, rule, f) - 1 ELSE GroupRank(cand, rule, f)
        BY <1>1, RankWithout
    <2> QED BY <2>2, <2>3
<1>8. f \in Secured(cand, rule) => f \in Secured(rest, rule)
    BY <1>3, <1>7 DEF Secured
<1>9. CASE c \in Secured(cand, rule) /\ f \notin Secured(cand, rule)
    BY <1>2, <1>9 DEF InFront
<1>10. CASE c \in Secured(cand, rule) /\ f \in Secured(cand, rule)
    <2>1. e \in Secured(rest, rule) /\ f \in Secured(rest, rule)
        BY <1>6, <1>8, <1>10
    <2>2. e \in Matching(cand, rule) /\ f \in Matching(cand, rule)
        BY <1>3, <2>1 DEF Secured
    <2>3. \/ GroupRank(rest, rule, e) < GroupRank(rest, rule, f)
          \/ /\ GroupRank(rest, rule, e) = GroupRank(rest, rule, f)
             /\ Earlier(rest, OwnGroup(rest, rule, e), OwnGroup(rest, rule, f))
        BY <1>1, <2>1 DEF InFront
    <2>4. GroupRank(cand, rule, c) = GroupRank(rest, rule, e) /\ OwnGroup(cand, rule, c) = OwnGroup(cand, rule, e)
        BY <1>4, <2>2
    <2>5. CASE GroupRank(rest, rule, e) < GroupRank(cand, rule, f)
        BY <1>2, <1>10, <2>4, <2>5 DEF InFront
    <2>6. CASE ~(GroupRank(rest, rule, e) < GroupRank(cand, rule, f))
        <3>1. /\ GroupRank(rest, rule, e) = GroupRank(rest, rule, f) /\ GroupRank(rest, rule, f) = GroupRank(cand, rule, f)
              /\ ~Follows(cand, rule, z, f)
              /\ Earlier(rest, OwnGroup(rest, rule, e), OwnGroup(rest, rule, f))
            <4>1. GroupRank(rest, rule, e) \in Nat
                <5>1. c \in Matching(cand, rule)
                    BY <1>4, <2>2
                <5> QED BY <2>4, <5>1, RankType
            <4> QED BY <1>7, <2>2, <2>3, <2>6, <4>1
        <3>2. PICK g : g = OwnGroup(cand, rule, e)
            OBVIOUS
        <3>3. PICK h : h = OwnGroup(cand, rule, f)
            OBVIOUS
        <3>4. g \ {z} # h \ {z} /\ \E x \in g \ {z} : \A y \in h \ {z} : Precedes(rest, x, y)
            BY <1>3, <3>1, <3>2, <3>3 DEF Earlier
        <3>5. PICK x \in g \ {z} : \A y \in h \ {z} : Precedes(rest, x, y)
            BY <3>4
        <3>6. g \subseteq DOMAIN cand /\ h \subseteq DOMAIN cand /\ f \in h
            BY <2>2, <3>2, <3>3, OwnGroupType
        <3>7. \A y \in h \ {z} : Precedes(cand, x, y)
            BY <1>3, <3>5, <3>6
        <3>8. z \in h => Precedes(cand, x, z)
            <4>1. z \in h => Precedes(cand, f, z)
                <5>1. z \in h => ~Precedes(cand, z, f)
                    BY <2>2, <3>1, <3>3 DEF Follows
                <5> QED BY <5>1, PrecedesInOrder
            <4>2. Precedes(cand, x, f)
                BY <3>6, <3>7
            <4> QED BY <3>5, <3>6, <4>1, <4>2, PrecedesInOrder
        <3>9. Earlier(cand, g, h)
            <4>1. g # h
                BY <3>4
            <4>2. \A y \in h : Precedes(cand, x, y)
                BY <3>7, <3>8
            <4> QED BY <3>5, <4>1, <4>2 DEF Earlier
        <3>10. GroupRank(cand, rule, c) = GroupRank(cand, rule, f)
            BY <2>4, <3>1
        <3> QED BY <1>2, <1>10, <2>4, <3>2, <3>3, <3>9, <3>10 DEF InFront
    <2> QED BY <2>5, <2>6
<1>11. CASE c \notin Secured(cand, rule)
    <2>1. f \notin Secured(rest, rule) /\ Precedes(rest, e, f)
        BY <1>1, <1>6, <1>11 DEF InFront
    <2>2. f \notin Secured(cand, rule) /\ Precedes(cand, e, f)
        BY <1>3, <1>8, <2>1
    <2>3. Precedes(cand, c, f)
        BY <1>5, <2>2, PrecedesInOrder
    <2> QED BY <1>2, <1>11, <2>2, <2>3 DEF InFront
<1> QED BY <1>9, <1>10, <1>11

\* Two are not replaced by the same.
LEMMA ReplacedOnce ==
    ASSUME NEW cand, SoundCandidates(cand), NEW z \in DOMAIN cand, NEW rule,
           NEW e \in DOMAIN cand, e # z, NEW f \in DOMAIN cand, f # z,
           Replaced(cand, rule, z, e) = Replaced(cand, rule, z, f)
    PROVE  e = f
<1> SUFFICES ASSUME NEW a \in DOMAIN cand, a # z, NEW b \in DOMAIN cand, b # z,
                    Replaced(cand, rule, z, a) = Replaced(cand, rule, z, b), Precedes(cand, a, b)
             PROVE  FALSE
    BY PrecedesInOrder
<1>1. PICK c : c = Replaced(cand, rule, z, a) /\ c = Replaced(cand, rule, z, b)
    OBVIOUS
<1>2. c \in DOMAIN cand /\ (c = a \/ Precedes(cand, c, a))
    BY <1>1, ReplacedType
<1>3. Precedes(cand, c, b) /\ c # b
    BY <1>2, PrecedesInOrder
<1>4. Follows(cand, rule, z, b)
    BY <1>1, <1>3, ReplacedType
<1>5. ComesBefore(cand, rule, b, c)
    BY <1>1, <1>4, ReplacedType
<1>6. z \in OwnGroup(cand, rule, b) /\ Precedes(cand, z, b) /\ b \in Matching(cand, rule)
    BY <1>4 DEF Follows
<1>7. z = c \/ Precedes(cand, z, c)
    BY <1>5, <1>6 DEF ComesBefore
<1>8. a \in OwnGroup(cand, rule, b)
    <2>1. c \in OwnGroup(cand, rule, b)
        BY <1>5 DEF ComesBefore
    <2>2. CASE c = a
        BY <2>1, <2>2
    <2>3. CASE c # a
        <3>1. Follows(cand, rule, z, a)
            BY <1>1, <2>3, ReplacedType
        <3>2. a \in Matching(cand, rule) /\ z \in OwnGroup(cand, rule, a)
            BY <3>1 DEF Follows
        <3>3. OwnGroup(cand, rule, z) = OwnGroup(cand, rule, a) /\ OwnGroup(cand, rule, z) = OwnGroup(cand, rule, b)
            BY <1>6, <3>2, OwnGroupType
        <3> QED BY <3>2, <3>3, OwnGroupType
    <2> QED BY <2>2, <2>3
<1>9. a = c \/ Precedes(cand, a, c)
    BY <1>5, <1>8 DEF ComesBefore
<1>10. a = c
    BY <1>2, <1>9, PrecedesInOrder
<1>11. Precedes(cand, z, a)
    BY <1>7, <1>10
<1>12. Follows(cand, rule, z, a)
    <2>1. a \in Matching(cand, rule) /\ OwnGroup(cand, rule, a) = OwnGroup(cand, rule, b)
        BY <1>6, <1>8, OwnGroupType
    <2> QED BY <1>6, <1>11, <2>1 DEF Follows
<1>13. ComesBefore(cand, rule, a, a)
    BY <1>1, <1>10, <1>12, ReplacedType
<1> QED BY <1>13, PrecedesInOrder DEF ComesBefore

\* Under a guarantee alone nobody falls behind when somebody leaves.
LEMMA NobodyFallsBehind ==
    ASSUME NEW cand, SoundCandidates(cand), NEW z \in DOMAIN cand, NEW rule, rule.quota \in Nat,
           NEW e \in DOMAIN cand, e # z
    PROVE  LET rest == Without(cand, z)
           IN  /\ Cardinality(Ahead(rest, GuaranteeOrder(rest, rule), e)) \in Nat
               /\ Cardinality(Ahead(cand, GuaranteeOrder(cand, rule), e)) \in Nat
               /\ Cardinality(Ahead(rest, GuaranteeOrder(rest, rule), e))
                     <= Cardinality(Ahead(cand, GuaranteeOrder(cand, rule), e))
<1>1. PICK rest : rest = Without(cand, z)
    OBVIOUS
<1> DEFINE S == Ahead(rest, GuaranteeOrder(rest, rule), e)
           T == Ahead(cand, GuaranteeOrder(cand, rule), e)
           move == [x \in S |-> Replaced(cand, rule, z, x)]
<1>2. DOMAIN rest = DOMAIN cand \ {z} /\ IsFiniteSet(DOMAIN cand)
    <2>1. LeavesOut(cand, rule, z, rest)
        BY <1>1, WithoutType
    <2> QED BY <2>1 DEF LeavesOut, SoundCandidates
<1>3. ASSUME NEW x \in S PROVE x \in DOMAIN cand /\ x # z /\ Replaced(cand, rule, z, x) \in T
    <2>1. x \in DOMAIN rest /\ <<x, e>> \in GuaranteeOrder(rest, rule)
        BY DEF Ahead
    <2>2. x \in DOMAIN cand /\ x # z /\ e \in DOMAIN rest
        BY <1>2, <2>1
    <2>3. InFront(rest, rule, x, e)
        BY <2>1, <2>2, GuaranteeOrderPairs
    <2>4. Replaced(cand, rule, z, x) \in DOMAIN cand
        BY <2>2, ReplacedType
    <2>5. InFront(cand, rule, Replaced(cand, rule, z, x), e)
        BY <1>1, <2>2, <2>3, ReplacedInFront
    <2>6. <<Replaced(cand, rule, z, x), e>> \in GuaranteeOrder(cand, rule)
        BY <2>4, <2>5, GuaranteeOrderPairs
    <2> QED BY <2>2, <2>4, <2>6 DEF Ahead
<1>4. T \in SUBSET DOMAIN cand
    BY DEF Ahead
<1> HIDE DEF S, T
<1>5. IsFiniteSet(T) /\ Cardinality(T) \in Nat
    BY <1>2, <1>4, FS_Subset, FS_CardinalityType
<1>6. move \in Injection(S, T)
    <2>1. \A x, y \in S : Replaced(cand, rule, z, x) = Replaced(cand, rule, z, y) => x = y
        BY <1>3, ReplacedOnce
    <2> QED BY <1>3, <2>1 DEF Injection, IsInjective
<1>7. IsFiniteSet(S) /\ Cardinality(S) <= Cardinality(T)
    <2> HIDE DEF move
    <2> QED BY <1>5, <1>6, FS_Injection
<1>8. Cardinality(S) \in Nat
    BY <1>7, FS_CardinalityType
<1> QED BY <1>1, <1>5, <1>7, <1>8 DEF S, T

-----------------------------------------------------------------------------
(* Under priorities alone.                                                 *)

\* The application matches an earlier priority than the other, or submitted earlier and
\* no later one.
PriorityOrder(cand, ordered) ==
    {p \in (DOMAIN cand) \X (DOMAIN cand) :
        \/ \E i \in 1..Len(ordered) : /\ p[1] \in Matching(cand, ordered[i])
                                      /\ \A j \in 1..i : p[2] \notin Matching(cand, ordered[j])
        \/ /\ Precedes(cand, p[1], p[2])
           /\ \A i \in 1..Len(ordered) : p[2] \in Matching(cand, ordered[i]) =>
                 \E j \in 1..i : p[1] \in Matching(cand, ordered[j])}

\* The order has no cycle of two.
LEMMA PriorityOrderOneWay ==
    ASSUME NEW cand, SoundCandidates(cand), NEW ordered, Len(ordered) \in Nat,
           NEW e \in DOMAIN cand, NEW f \in DOMAIN cand
    PROVE  ~(<<e, f>> \in PriorityOrder(cand, ordered) /\ <<f, e>> \in PriorityOrder(cand, ordered))
<1> SUFFICES ASSUME <<e, f>> \in PriorityOrder(cand, ordered), <<f, e>> \in PriorityOrder(cand, ordered)
             PROVE  FALSE
    OBVIOUS
<1> DEFINE n == Len(ordered)
           In(x, i) == x \in Matching(cand, ordered[i])
<1>1. /\ \/ \E i \in 1..n : In(e, i) /\ \A j \in 1..i : ~In(f, j)
         \/ Precedes(cand, e, f) /\ \A i \in 1..n : In(f, i) => \E j \in 1..i : In(e, j)
      /\ \/ \E i \in 1..n : In(f, i) /\ \A j \in 1..i : ~In(e, j)
         \/ Precedes(cand, f, e) /\ \A i \in 1..n : In(e, i) => \E j \in 1..i : In(f, j)
    BY DEF PriorityOrder
<1> HIDE DEF In
<1>2. ~(Precedes(cand, e, f) /\ Precedes(cand, f, e))
    BY PrecedesInOrder
<1>3. ASSUME NEW i \in 1..n, In(e, i), \A j \in 1..i : ~In(f, j),
             NEW l \in 1..n, In(f, l), \A j \in 1..l : ~In(e, j)
      PROVE  FALSE
    <2>1. i \in 1..l \/ l \in 1..i
        OBVIOUS
    <2> QED BY <1>3, <2>1
<1> HIDE DEF n
<1> QED BY <1>1, <1>2, <1>3

\* Without the class balance and under priorities alone, all places are given in their order.
LEMMA PrioritiesOrderAll ==
    ASSUME NEW cand, SoundCandidates(cand), NEW rules, SoundRules(rules), Guarantees(rules) = {},
           NEW ordered, ordered = OrderedRules(rules, "PRIORITY")
    PROVE  Orderly(cand, PriorityOrder(cand, ordered), AllocationOrder(cand, rules, FALSE))
<1>1. PICK n \in Nat : n = Len(ordered)
    BY RulesArranged
<1> DEFINE In(x, i) == x \in Matching(cand, ordered[i])
           B == PriorityOrder(cand, ordered)
           Served(i) == {x \in DOMAIN cand : \E j \in 1..i : In(x, j)}
           Good(i, t) == Orderly(cand, B, t) /\ Chosen(t) = Served(i)
           reached == {p \in (0..n) \X Picks(cand) : Good(p[1], p[2])}
<1>2. \A x, y \in DOMAIN cand :
         <<x, y>> \in B <=>
            \/ \E i \in 1..n : In(x, i) /\ \A j \in 1..i : ~In(y, j)
            \/ Precedes(cand, x, y) /\ \A i \in 1..n : In(y, i) => \E j \in 1..i : In(x, j)
    BY <1>1 DEF PriorityOrder
<1>3. \A i \in 1..n : /\ Matching(cand, ordered[i]) \in SUBSET DOMAIN cand
                      /\ \A x : In(x, i) <=> x \in Matching(cand, ordered[i])
    BY DEF Matching
<1> HIDE DEF In, B
<1>4. Guaranteed(cand, rules, FALSE) = <<>>
    <2>1. PICK guarantees : guarantees = OrderedRules(rules, "GROUP_GUARANTEE")
        OBVIOUS
    <2>2. PICK m \in Nat : m = Len(guarantees)
        BY <2>1, RulesArranged
    <2>3. m = 0
        <3>1. \A i \in 1..m : guarantees[i] \in Guarantees(rules)
            BY <2>1, <2>2, RulesArranged DEF Guarantees
        <3> QED BY <2>2, <3>1
    <2> DEFINE there == {<<0, <<>>>>}
    <2>4. <<0, <<>>>> \in there /\ \A i \in 1..m : FALSE
        BY <2>3
    <2> HIDE DEF there
    <2>5. \A b : <<m, Guaranteed(cand, rules, b)>> \in there
        <3> SUFFICES ASSUME NEW b PROVE <<m, Guaranteed(cand, rules, b)>> \in there
            OBVIOUS
        <3> QED BY <2>1, <2>2, <2>4, GuaranteesSteps
    <2> QED BY <2>5 DEF there
<1>5. <<0, <<>>>> \in reached
    <2>1. \A j \in 1..0 : FALSE
        OBVIOUS
    <2>2. Chosen(<<>>) = Served(0)
        BY <2>1, NothingPicked
    <2>3. <<>> \in Picks(cand) /\ Orderly(cand, B, <<>>)
        BY NothingOrderly
    <2> QED BY <1>1, <2>2, <2>3
<1>6. ASSUME NEW i \in 1..n, NEW t, <<i - 1, t>> \in reached
      PROVE  <<i, PickAll(cand, Matching(cand, ordered[i]), t, FALSE)>> \in reached
    <2> DEFINE M == Matching(cand, ordered[i])
               u == PickAll(cand, M, t, FALSE)
    <2>1. t \in Picks(cand) /\ Orderly(cand, B, t) /\ Chosen(t) = Served(i - 1) /\ i \in 0..n
        BY <1>1, <1>6
    <2>2. M \in SUBSET DOMAIN cand /\ \A x : In(x, i) <=> x \in M
        BY <1>3
    <2> HIDE DEF M
    <2>3. \A j \in 1..i : j = i \/ j \in 1..(i - 1)
        OBVIOUS
    <2>4. ASSUME NEW x \in M \ Chosen(t), NEW y \in DOMAIN cand \ Chosen(t)
          PROVE  y = x \/ <<x, y>> \in B \/ (y \in M /\ ~Precedes(cand, x, y))
        <3>1. In(x, i) /\ x \in DOMAIN cand /\ \A j \in 1..(i - 1) : ~In(y, j)
            BY <2>1, <2>2
        <3>2. CASE y \notin M
            <4>1. \A j \in 1..i : ~In(y, j)
                BY <2>2, <2>3, <3>1, <3>2
            <4> QED BY <1>2, <3>1, <4>1
        <3>3. CASE y \in M /\ Precedes(cand, x, y)
            <4>1. ASSUME NEW l \in 1..n, In(y, l) PROVE \E j \in 1..l : In(x, j)
                <5>1. i \in 1..l
                    <6>1. l \notin 1..(i - 1)
                        BY <3>1, <4>1
                    <6> QED BY <1>1, <6>1
                <5> QED BY <3>1, <5>1
            <4> QED BY <1>2, <3>1, <3>3, <4>1
        <3> QED BY <3>2, <3>3
    <2>5. u \in Picks(cand) /\ Orderly(cand, B, u)
        <3>1. u \in Picks(cand)
            <4>1. \A b : PickAll(cand, M, t, b) \in Picks(cand)
                BY <2>1, <2>2, PickAllPicks
            <4> QED BY <4>1
        <3>2. Orderly(cand, B, u)
            <4> HIDE DEF reached, Served
            <4> QED BY <2>1, <2>2, <2>4, PickAllOrderly
        <3> QED BY <3>1, <3>2
    <2>6. Chosen(u) = Chosen(t) \cup M
        <3>1. \A b : Chosen(PickAll(cand, M, t, b)) = Chosen(t) \cup M
            BY <2>1, <2>2, PickAllPicks
        <3> QED BY <3>1
    <2>7. Served(i) = Served(i - 1) \cup M
        <3>1. \A j \in 1..(i - 1) : j \in 1..i
            OBVIOUS
        <3>2. i \in 1..i
            OBVIOUS
        <3> QED BY <2>2, <2>3, <3>1, <3>2
    <2> HIDE DEF Served, u
    <2>8. <<i, u>> \in reached
        BY <2>1, <2>5, <2>6, <2>7
    <2> QED BY <2>8 DEF u, M
<1> DEFINE s == Preferred(cand, rules, <<>>, FALSE)
<1>7. <<n, s>> \in reached
    <2> HIDE DEF reached
    <2> QED BY <1>1, <1>5, <1>6, PrioritiesSteps
<1> HIDE DEF s
<1>8. s \in Picks(cand) /\ Orderly(cand, B, s) /\ Chosen(s) = Served(n)
    BY <1>7
<1>9. ASSUME NEW x \in DOMAIN cand \ Chosen(s), NEW y \in DOMAIN cand \ Chosen(s)
      PROVE  y = x \/ <<x, y>> \in B \/ (y \in DOMAIN cand /\ ~Precedes(cand, x, y))
    <2>1. \A i \in 1..n : ~In(y, i)
        BY <1>8
    <2> QED BY <1>2, <2>1
<1>10. Orderly(cand, B, PickAll(cand, DOMAIN cand, s, FALSE))
    <2> HIDE DEF reached, Served
    <2> QED BY <1>8, <1>9, PickAllOrderly
<1> QED BY <1>4, <1>10 DEF AllocationOrder, s, B

\* Under no rule but a guarantee all places are given in its order.
LEMMA OneGuaranteeOrdersAll ==
    ASSUME NEW cand, SoundCandidates(cand), NEW rules, SoundRules(rules), NEW rule, rules = {rule},
           Guarantees(rules) = {rule}
    PROVE  Orderly(cand, GuaranteeOrder(cand, rule), AllocationOrder(cand, rules, FALSE))
<1>1. PICK s : s = ApplyGuarantee(cand, rule, <<>>, FALSE)
    OBVIOUS
<1>2. rule.quota \in Nat /\ rule.type = "GROUP_GUARANTEE"
    BY DEF SoundRules, Guarantees
<1>3. Guaranteed(cand, rules, FALSE) = s
    <2>1. \A b : Guaranteed(cand, rules, b) = ApplyGuarantee(cand, rule, <<>>, b)
        BY OnlyGuarantee
    <2> QED BY <1>1, <2>1
<1>4. Preferred(cand, rules, s, FALSE) = s
    <2>1. PICK ordered : ordered = OrderedRules(rules, "PRIORITY")
        OBVIOUS
    <2>2. PICK m \in Nat : m = Len(ordered)
        BY <2>1, RulesArranged
    <2>3. m = 0
        <3>1. \A i \in 1..m : ordered[i] \in rules /\ ordered[i].type = "PRIORITY"
            BY <2>1, <2>2, RulesArranged
        <3>2. \A i \in 1..m : FALSE
            BY <1>2, <3>1
        <3> QED BY <2>2, <3>2
    <2> DEFINE there == {<<0, s>>}
    <2>4. <<0, s>> \in there /\ \A i \in 1..m : FALSE
        BY <2>3
    <2> HIDE DEF there
    <2>5. \A b : <<m, Preferred(cand, rules, s, b)>> \in there
        <3> SUFFICES ASSUME NEW b PROVE <<m, Preferred(cand, rules, s, b)>> \in there
            OBVIOUS
        <3>1. m \in Nat
            OBVIOUS
        <3>2. \A i \in 1..m : \A t : <<i - 1, t>> \in there =>
                  <<i, PickAll(cand, Matching(cand, ordered[i]), t, b)>> \in there
            BY <2>4
        <3> QED BY ONLY <2>1, <2>2, <2>4, <3>1, <3>2, PrioritiesSteps
    <2> QED BY <2>5 DEF there
<1>5. Orderly(cand, GuaranteeOrder(cand, rule), PickAll(cand, DOMAIN cand, s, FALSE))
    BY <1>1, <1>2, GuaranteeOrdersAll
<1> QED BY <1>3, <1>4, <1>5 DEF AllocationOrder

-----------------------------------------------------------------------------
(* The arena of the allocation.                                            *)

\* The inputs are sound, and the outcome is that of the input.
PlacesInv ==
    /\ arena = "places"
    /\ input \in [cand : {input.cand}, submitted : Nat, capacity : Nat,
                  rules : RuleSets, balanced : BOOLEAN]
    /\ SoundCandidates(input.cand) /\ DOMAIN input.cand \subseteq 1..input.submitted
    /\ outcome = Allocated(input)

\* The invariant holds at the start.
LEMMA PlacesInitInv == PlacesInit => PlacesInv
<1> SUFFICES ASSUME PlacesInit PROVE PlacesInv
    OBVIOUS
<1>1. PICK cap \in {NoCapacity, 1}, rs \in RuleSets, bal \in BOOLEAN :
         input = [cand |-> <<>>, submitted |-> 0, capacity |-> cap, rules |-> rs, balanced |-> bal]
    BY DEF PlacesInit
<1>2. cap \in Nat
    BY DEF NoCapacity
<1>3. DOMAIN <<>> = {} /\ IsFiniteSet({})
    BY FS_EmptySet
<1>4. SoundCandidates(<<>>)
    BY <1>3 DEF SoundCandidates
<1>5. input.cand = <<>>
    BY <1>1
<1>6. input \in [cand : {input.cand}, submitted : Nat, capacity : Nat, rules : RuleSets, balanced : BOOLEAN]
    BY <1>1, <1>2
<1>7. DOMAIN input.cand \subseteq 1..input.submitted
    BY <1>3, <1>5
<1> QED BY <1>4, <1>5, <1>6, <1>7 DEF PlacesInit, PlacesInv

\* Each operation of the arena keeps it.
LEMMA PlacesNextInv == PlacesInv /\ [PlacesNext]_arenaVars => PlacesInv'
<1> SUFFICES ASSUME PlacesInv, [PlacesNext]_arenaVars PROVE PlacesInv'
    OBVIOUS
<1>0. input \in [cand : {input.cand}, submitted : Nat, capacity : Nat, rules : RuleSets, balanced : BOOLEAN]
    BY DEF PlacesInv
<1>1. ASSUME NEW p \in Profiles, Arrive(p[1], p[2]) PROVE PlacesInv'
    <2> DEFINE i == input.submitted + 1
               time == (i + 1) \div 2
               new == [submittedAt |-> time, createdAt |-> time, class |-> p[1], answers |-> p[2]]
               cand == [j \in DOMAIN input.cand \cup {i} |-> IF j = i THEN new ELSE input.cand[j]]
    <2>1. input' = [input EXCEPT !.submitted = i, !.cand = cand]
        BY <1>1 DEF Arrive, Reallocated
    <2>2. i \in Nat /\ i \in 1..i /\ 1..input.submitted \subseteq 1..i /\ time \in Int
        BY <1>0
    <2> HIDE DEF i
    <2>3. new.submittedAt \in Int /\ new.createdAt \in Int
        BY <2>2
    <2> HIDE DEF new
    <2>4. IsFiniteSet(DOMAIN input.cand \cup {i})
        BY FS_AddElement DEF PlacesInv, SoundCandidates
    <2>5. DOMAIN cand = DOMAIN input.cand \cup {i} /\ \A j \in DOMAIN cand : cand[j] = IF j = i THEN new ELSE input.cand[j]
        OBVIOUS
    <2> HIDE DEF cand
    <2>6. SoundCandidates(cand)
        BY <2>2, <2>3, <2>4, <2>5 DEF PlacesInv, SoundCandidates
    <2>7. DOMAIN cand \subseteq 1..i
        BY <2>2, <2>5 DEF PlacesInv
    <2>8. /\ input'.cand = cand /\ input'.submitted = i
          /\ input' \in [cand : {input'.cand}, submitted : Nat, capacity : Nat, rules : RuleSets, balanced : BOOLEAN]
        BY <1>0, <2>1, <2>2
    <2>9. arena' = arena /\ outcome' = Allocated(input')
        BY <1>1, <2>1 DEF Arrive, Reallocated, Allocated
    <2> QED BY <2>6, <2>7, <2>8, <2>9 DEF PlacesInv
<1>2. CASE Leave
    <2>1. PICK z \in DOMAIN input.cand :
              Reallocated([input EXCEPT !.cand = [j \in DOMAIN @ \ {z} |-> @[j]]])
        BY <1>2 DEF Leave
    <2>2. input' = [input EXCEPT !.cand = Without(input.cand, z)]
        BY <2>1 DEF Reallocated, Without
    <2>3. SoundCandidates(Without(input.cand, z)) /\ DOMAIN Without(input.cand, z) \subseteq DOMAIN input.cand
        <3>1. \A rule : LeavesOut(input.cand, rule, z, Without(input.cand, z))
            BY WithoutType DEF PlacesInv
        <3> QED BY <3>1 DEF LeavesOut
    <2>4. /\ input'.cand = Without(input.cand, z) /\ input'.submitted = input.submitted
          /\ input' \in [cand : {input'.cand}, submitted : Nat, capacity : Nat, rules : RuleSets, balanced : BOOLEAN]
        BY <1>0, <2>2
    <2>5. arena' = arena /\ outcome' = Allocated(input')
        BY <2>1 DEF Reallocated, Allocated
    <2> QED BY <2>3, <2>4, <2>5 DEF PlacesInv
<1>3. ASSUME NEW n \in 0..MaxCapacity, ChangeCapacity(n) PROVE PlacesInv'
    <2>1. input' = [input EXCEPT !.capacity = n] /\ arena' = arena /\ outcome' = Allocated(input')
        BY <1>3 DEF ChangeCapacity, Reallocated, Allocated
    <2>2. /\ input'.cand = input.cand /\ input'.submitted = input.submitted
          /\ input' \in [cand : {input'.cand}, submitted : Nat, capacity : Nat, rules : RuleSets, balanced : BOOLEAN]
        BY <1>0, <2>1
    <2> QED BY <2>1, <2>2 DEF PlacesInv
<1>4. CASE UNCHANGED arenaVars
    BY <1>4 DEF PlacesInv, arenaVars, Allocated
<1> QED BY <1>1, <1>2, <1>3, <1>4 DEF PlacesNext

\* A competition's inputs are what the allocation is proved for.
THEOREM PlacesAlwaysInv == PlacesSpec => []PlacesInv
<1> QED BY PlacesInitInv, PlacesNextInv, PTL DEF PlacesSpec

\* The guarantees that fit are honoured, and the only one is shared.
THEOREM PlacesHonourGuarantees == PlacesSpec => []GuaranteesHonoured
<1>1. PlacesInv => GuaranteesHonoured
    <2> SUFFICES ASSUME PlacesInv, Limited PROVE GuaranteesHonoured
        BY DEF GuaranteesHonoured
    <2>1. PICK cand : cand = input.cand
        OBVIOUS
    <2>2. PICK rules : rules = input.rules
        OBVIOUS
    <2>3. PICK capacity : capacity = input.capacity
        OBVIOUS
    <2>4. PICK places : places = Allocate(cand, capacity, rules, input.balanced)
        OBVIOUS
    <2>5. SoundCandidates(cand) /\ rules \in RuleSets /\ SoundRules(rules) /\ capacity \in Nat
        BY <2>1, <2>2, <2>3, RuleSetsAssumption DEF PlacesInv
    <2>6. ~Unlimited(cand, capacity) /\ outcome = places
        BY <2>1, <2>2, <2>3, <2>4 DEF PlacesInv, Limited, Allocated
    <2>7. Confirmed = Chosen(places.confirmed)
        BY <2>6 DEF Confirmed
    <2>8. Cardinality(Owed(cand, rules)) <= capacity =>
             \A r \in Guarantees(rules) : \A g \in GroupsOf(cand, r) :
                 Cardinality(g \cap Chosen(places.confirmed)) >= Due(r, g)
        BY <2>4, <2>5, <2>6, PlacesHonour
    <2>9. \A r \in Guarantees(rules) : Guarantees(rules) = {r} => Level(cand, r, Chosen(places.confirmed))
        BY <2>4, <2>5, <2>6, PlacesShared
    <2> QED BY <2>1, <2>2, <2>3, <2>7, <2>8, <2>9 DEF GuaranteesHonoured, Level
<1> QED BY <1>1, PlacesAlwaysInv, PTL

\* Without a limit everybody has a place.
LEMMA UnlimitedPlaces ==
    ASSUME NEW cand, SoundCandidates(cand), NEW capacity, Unlimited(cand, capacity)
    PROVE  \A rules, balanced : Chosen(Allocate(cand, capacity, rules, balanced).confirmed) = DOMAIN cand
<1> DEFINE S == DOMAIN cand
           before == {p \in S \X S : Precedes(cand, p[1], p[2])}
<1>1. \A e, f \in S : <<e, f>> \in before <=> Precedes(cand, e, f)
    OBVIOUS
<1>2. RegistrationOrder(cand) = Arranged(S, before)
    BY DEF RegistrationOrder
<1> HIDE DEF before
<1>3. StrictOrder(S, before)
    BY <1>1, PrecedesInOrder DEF StrictOrder
<1>4. PICK n \in Nat : n = Cardinality(S)
    BY FS_CardinalityType DEF SoundCandidates
<1>5. /\ Arranged(S, before) \in [1..n -> S]
      /\ \A e \in S : \E i \in 1..n : Arranged(S, before)[i] = e
    BY <1>3, <1>4, ArrangedInOrder DEF SoundCandidates
<1>6. Chosen(RegistrationOrder(cand)) = DOMAIN cand
    BY <1>2, <1>5 DEF Chosen
<1> QED BY <1>6 DEF Allocate

\* Who has fewer ahead stays among the first.
LEMMA StaysAmongTheFirst ==
    ASSUME NEW cand, SoundCandidates(cand), NEW rest, SoundCandidates(rest),
           NEW B, \A e, f \in DOMAIN cand : ~(<<e, f>> \in B /\ <<f, e>> \in B),
           NEW C, \A e, f \in DOMAIN rest : ~(<<e, f>> \in C /\ <<f, e>> \in C),
           NEW s \in Picks(cand), Chosen(s) = DOMAIN cand, Orderly(cand, B, s),
           NEW t \in Picks(rest), Chosen(t) = DOMAIN rest, Orderly(rest, C, t),
           NEW e \in DOMAIN cand, e \in DOMAIN rest,
           Cardinality(Ahead(rest, C, e)) \in Nat, Cardinality(Ahead(cand, B, e)) \in Nat,
           Cardinality(Ahead(rest, C, e)) <= Cardinality(Ahead(cand, B, e)),
           NEW m \in 0..Len(s), m \in 0..Len(t), e \in Upto(s, m)
    PROVE  e \in Upto(t, m)
<1>1. Cardinality(Ahead(cand, B, e)) < m
    BY PlaceInOrder
<1>2. Cardinality(Ahead(rest, C, e)) < m
    BY <1>1
<1> QED BY <1>2, PlaceInOrder

\* Under priorities alone nobody falls behind when somebody leaves.
LEMMA PrioritiesFallBehindNobody ==
    ASSUME NEW cand, SoundCandidates(cand), NEW z \in DOMAIN cand, NEW ordered,
           NEW e \in DOMAIN cand, e # z
    PROVE  LET rest == Without(cand, z)
           IN  /\ Cardinality(Ahead(rest, PriorityOrder(rest, ordered), e)) \in Nat
               /\ Cardinality(Ahead(cand, PriorityOrder(cand, ordered), e)) \in Nat
               /\ Cardinality(Ahead(rest, PriorityOrder(rest, ordered), e))
                     <= Cardinality(Ahead(cand, PriorityOrder(cand, ordered), e))
<1>1. PICK rest : rest = Without(cand, z)
    OBVIOUS
<1> DEFINE S == Ahead(rest, PriorityOrder(rest, ordered), e)
           T == Ahead(cand, PriorityOrder(cand, ordered), e)
<1>2. /\ DOMAIN rest = DOMAIN cand \ {z}
      /\ \A x, y \in DOMAIN cand \ {z} : Precedes(rest, x, y) <=> Precedes(cand, x, y)
      /\ \A rule : Matching(rest, rule) = Matching(cand, rule) \ {z}
    <2>1. \A rule : LeavesOut(cand, rule, z, rest)
        BY <1>1, WithoutType
    <2> QED BY <2>1 DEF LeavesOut
<1>3. S \in SUBSET T
    <2> SUFFICES ASSUME NEW x \in S PROVE x \in T
        OBVIOUS
    <2>1. x \in DOMAIN rest /\ <<x, e>> \in PriorityOrder(rest, ordered)
        BY DEF Ahead
    <2>2. x \in DOMAIN cand \ {z} /\ e \in DOMAIN cand \ {z}
        BY <1>2, <2>1
    <2>3. \A rule : /\ x \in Matching(rest, rule) <=> x \in Matching(cand, rule)
                    /\ e \in Matching(rest, rule) <=> e \in Matching(cand, rule)
        BY <1>2, <2>2
    <2>4. \/ \E i \in 1..Len(ordered) : /\ x \in Matching(rest, ordered[i])
                                        /\ \A j \in 1..i : e \notin Matching(rest, ordered[j])
          \/ /\ Precedes(rest, x, e)
             /\ \A i \in 1..Len(ordered) : e \in Matching(rest, ordered[i]) =>
                   \E j \in 1..i : x \in Matching(rest, ordered[j])
        BY <2>1 DEF PriorityOrder
    <2>5. \/ \E i \in 1..Len(ordered) : /\ x \in Matching(cand, ordered[i])
                                        /\ \A j \in 1..i : e \notin Matching(cand, ordered[j])
          \/ /\ Precedes(cand, x, e)
             /\ \A i \in 1..Len(ordered) : e \in Matching(cand, ordered[i]) =>
                   \E j \in 1..i : x \in Matching(cand, ordered[j])
        BY <1>2, <2>2, <2>3, <2>4
    <2>6. <<x, e>> \in PriorityOrder(cand, ordered)
        BY <2>2, <2>5 DEF PriorityOrder
    <2> QED BY <2>2, <2>6 DEF Ahead
<1>4. T \in SUBSET DOMAIN cand /\ IsFiniteSet(DOMAIN cand)
    BY DEF Ahead, SoundCandidates
<1> HIDE DEF S, T
<1>5. IsFiniteSet(T) /\ IsFiniteSet(S) /\ Cardinality(S) <= Cardinality(T)
    BY <1>3, <1>4, FS_Subset
<1>6. Cardinality(S) \in Nat /\ Cardinality(T) \in Nat
    BY <1>5, FS_CardinalityType
<1> QED BY <1>1, <1>5, <1>6 DEF S, T

\* A departure costs nobody the place.
LEMMA DepartureDemotesNobody ==
    ASSUME NEW cand, SoundCandidates(cand), NEW z \in DOMAIN cand, NEW rules, SoundRules(rules),
           Cardinality(rules) <= 1 \/ Guarantees(rules) = {}, NEW capacity \in Nat,
           NEW e \in Chosen(Allocate(cand, capacity, rules, FALSE).confirmed), e # z
    PROVE  e \in Chosen(Allocate(Without(cand, z), capacity, rules, FALSE).confirmed)
<1>1. PICK rest : rest = Without(cand, z)
    OBVIOUS
<1>2. DOMAIN rest = DOMAIN cand \ {z} /\ SoundCandidates(rest)
    <2>1. \A rule : LeavesOut(cand, rule, z, rest)
        BY <1>1, WithoutType
    <2> QED BY <2>1 DEF LeavesOut
<1>3. e \in DOMAIN cand
    <2>1. CASE Unlimited(cand, capacity)
        BY <2>1, UnlimitedPlaces
    <2>2. CASE ~Unlimited(cand, capacity)
        <3>1. PICK order : order = AllocationOrder(cand, rules, FALSE)
            OBVIOUS
        <3>2. order \in Picks(cand) /\ Len(order) \in Nat
            <4>1. \A b : /\ AllocationOrder(cand, rules, b) \in Picks(cand)
                         /\ Len(AllocationOrder(cand, rules, b)) \in Nat
                BY OrderListsEverybody
            <4> QED BY <3>1, <4>1
        <3>3. e \in Upto(order, capacity) /\ capacity \in 1..Len(order)
            <4>1. \A b : /\ Chosen(Allocate(cand, capacity, rules, b).confirmed)
                               = Upto(AllocationOrder(cand, rules, b), capacity)
                         /\ capacity \in 1..Len(AllocationOrder(cand, rules, b))
                BY <2>2, FirstOfTheOrder
            <4> QED BY <3>1, <4>1
        <3> QED BY <3>2, <3>3 DEF Upto, Picks
    <2> QED BY <2>1, <2>2
<1>4. CASE Unlimited(rest, capacity)
    <2>1. Chosen(Allocate(rest, capacity, rules, FALSE).confirmed) = DOMAIN rest
        BY <1>2, <1>4, UnlimitedPlaces
    <2> QED BY <1>1, <1>2, <1>3, <2>1
<1>5. CASE ~Unlimited(rest, capacity)
    <2>1. ~Unlimited(cand, capacity)
        <3>1. Cardinality(DOMAIN rest) <= Cardinality(DOMAIN cand)
            BY <1>2, FS_Subset DEF SoundCandidates
        <3>2. Cardinality(DOMAIN rest) \in Nat /\ Cardinality(DOMAIN cand) \in Nat
            BY <1>2, FS_CardinalityType DEF SoundCandidates
        <3> QED BY <1>5, <3>1, <3>2 DEF Unlimited
    <2>2. PICK s : s = AllocationOrder(cand, rules, FALSE)
        OBVIOUS
    <2>3. PICK t : t = AllocationOrder(rest, rules, FALSE)
        OBVIOUS
    <2>4. /\ s \in Picks(cand) /\ Chosen(s) = DOMAIN cand
          /\ t \in Picks(rest) /\ Chosen(t) = DOMAIN rest
          /\ e \in Upto(s, capacity) /\ capacity \in 0..Len(s) /\ capacity \in 0..Len(t)
          /\ Chosen(Allocate(rest, capacity, rules, FALSE).confirmed) = Upto(t, capacity)
        <3>1. \A b : /\ AllocationOrder(cand, rules, b) \in Picks(cand)
                     /\ Chosen(AllocationOrder(cand, rules, b)) = DOMAIN cand
                     /\ Len(AllocationOrder(cand, rules, b)) \in Nat
            BY OrderListsEverybody
        <3>2. \A b : /\ AllocationOrder(rest, rules, b) \in Picks(rest)
                     /\ Chosen(AllocationOrder(rest, rules, b)) = DOMAIN rest
                     /\ Len(AllocationOrder(rest, rules, b)) \in Nat
            BY <1>2, OrderListsEverybody
        <3>3. \A b : /\ Chosen(Allocate(cand, capacity, rules, b).confirmed)
                           = Upto(AllocationOrder(cand, rules, b), capacity)
                     /\ capacity \in 1..Len(AllocationOrder(cand, rules, b))
            BY <2>1, FirstOfTheOrder
        <3>4. \A b : /\ Chosen(Allocate(rest, capacity, rules, b).confirmed)
                           = Upto(AllocationOrder(rest, rules, b), capacity)
                     /\ capacity \in 1..Len(AllocationOrder(rest, rules, b))
            BY <1>2, <1>5, FirstOfTheOrder
        <3>5. s \in Picks(cand) /\ Chosen(s) = DOMAIN cand /\ Len(s) \in Nat
            BY <2>2, <3>1
        <3>6. t \in Picks(rest) /\ Chosen(t) = DOMAIN rest /\ Len(t) \in Nat
            BY <2>3, <3>2
        <3>7. /\ Chosen(Allocate(cand, capacity, rules, FALSE).confirmed) = Upto(s, capacity)
              /\ capacity \in 1..Len(s)
            BY <2>2, <3>3
        <3>8. /\ Chosen(Allocate(rest, capacity, rules, FALSE).confirmed) = Upto(t, capacity)
              /\ capacity \in 1..Len(t)
            BY <2>3, <3>4
        <3>9. capacity \in 0..Len(s) /\ capacity \in 0..Len(t)
            BY <3>5, <3>6, <3>7, <3>8
        <3>10. e \in Upto(s, capacity)
            BY <3>7
        <3> QED BY <3>5, <3>6, <3>8, <3>9, <3>10
    <2>5. CASE Guarantees(rules) = {}
        <3>1. PICK ordered : ordered = OrderedRules(rules, "PRIORITY")
            OBVIOUS
        <3>2. Len(ordered) \in Nat
            BY <3>1, RulesArranged
        <3>3. Orderly(cand, PriorityOrder(cand, ordered), s) /\ Orderly(rest, PriorityOrder(rest, ordered), t)
            BY <1>2, <2>2, <2>3, <2>5, <3>1, PrioritiesOrderAll
        <3>4. /\ Cardinality(Ahead(rest, PriorityOrder(rest, ordered), e)) \in Nat
              /\ Cardinality(Ahead(cand, PriorityOrder(cand, ordered), e)) \in Nat
              /\ Cardinality(Ahead(rest, PriorityOrder(rest, ordered), e))
                    <= Cardinality(Ahead(cand, PriorityOrder(cand, ordered), e))
            BY <1>1, <1>3, PrioritiesFallBehindNobody
        <3>5. e \in Upto(t, capacity)
            <4>1. \A x, y \in DOMAIN cand : ~(/\ <<x, y>> \in PriorityOrder(cand, ordered)
                                              /\ <<y, x>> \in PriorityOrder(cand, ordered))
                BY <3>2, PriorityOrderOneWay
            <4>2. \A x, y \in DOMAIN rest : ~(/\ <<x, y>> \in PriorityOrder(rest, ordered)
                                              /\ <<y, x>> \in PriorityOrder(rest, ordered))
                BY <1>2, <3>2, PriorityOrderOneWay
            <4> QED BY <1>2, <1>3, <2>4, <3>3, <3>4, <4>1, <4>2, StaysAmongTheFirst
        <3> QED BY <1>1, <2>4, <3>5
    <2>6. CASE Guarantees(rules) # {}
        <3>1. PICK r \in Guarantees(rules) : TRUE
            BY <2>6
        <3>2. r \in rules /\ r.type = "GROUP_GUARANTEE" /\ r.quota \in Nat
            BY <3>1 DEF Guarantees, SoundRules
        <3>3. rules = {r}
            <4>1. IsFiniteSet(rules) /\ Cardinality(rules) \in Nat /\ Cardinality(rules) <= 1
                BY <2>6, FS_CardinalityType DEF SoundRules
            <4>2. IsFiniteSet(rules \ {r}) /\ Cardinality(rules \ {r}) = Cardinality(rules) - 1
                BY <3>2, <4>1, FS_RemoveElement
            <4>3. Cardinality(rules \ {r}) = 0
                BY <4>1, <4>2, FS_CardinalityType
            <4>4. rules \ {r} = {}
                BY <4>2, <4>3, FS_EmptySet
            <4> QED BY <3>2, <4>4
        <3>4. Guarantees(rules) = {r}
            BY <3>1, <3>3 DEF Guarantees
        <3>5. Orderly(cand, GuaranteeOrder(cand, r), s) /\ Orderly(rest, GuaranteeOrder(rest, r), t)
            BY <1>2, <2>2, <2>3, <3>3, <3>4, OneGuaranteeOrdersAll
        <3>6. /\ Cardinality(Ahead(rest, GuaranteeOrder(rest, r), e)) \in Nat
              /\ Cardinality(Ahead(cand, GuaranteeOrder(cand, r), e)) \in Nat
              /\ Cardinality(Ahead(rest, GuaranteeOrder(rest, r), e))
                    <= Cardinality(Ahead(cand, GuaranteeOrder(cand, r), e))
            BY <1>1, <1>3, <3>2, NobodyFallsBehind
        <3>7. e \in Upto(t, capacity)
            <4>1. \A x, y \in DOMAIN cand : ~(/\ <<x, y>> \in GuaranteeOrder(cand, r)
                                              /\ <<y, x>> \in GuaranteeOrder(cand, r))
                BY <3>2, GuaranteeOrderOneWay
            <4>2. \A x, y \in DOMAIN rest : ~(/\ <<x, y>> \in GuaranteeOrder(rest, r)
                                              /\ <<y, x>> \in GuaranteeOrder(rest, r))
                BY <1>2, <3>2, GuaranteeOrderOneWay
            <4> QED BY <1>2, <1>3, <2>4, <3>5, <3>6, <4>1, <4>2, StaysAmongTheFirst
        <3> QED BY <1>1, <2>4, <3>7
    <2> QED BY <2>5, <2>6
<1> QED BY <1>4, <1>5

\* Nor do more places, under any rules and with or without the class balance.
LEMMA CapacityDemotesNobody ==
    ASSUME NEW cand, SoundCandidates(cand), NEW rules, SoundRules(rules), NEW balanced,
           NEW capacity \in Nat, capacity # NoCapacity,
           NEW more \in Nat, more = NoCapacity \/ more > capacity
    PROVE  Chosen(Allocate(cand, capacity, rules, balanced).confirmed)
               \subseteq Chosen(Allocate(cand, more, rules, balanced).confirmed)
<1>1. Cardinality(DOMAIN cand) \in Nat
    BY FS_CardinalityType DEF SoundCandidates
<1>2. PICK order : order = AllocationOrder(cand, rules, balanced)
    OBVIOUS
<1>3. order \in Picks(cand) /\ Chosen(order) = DOMAIN cand /\ Len(order) \in Nat
    BY <1>2, OrderListsEverybody
<1>4. CASE Unlimited(cand, more)
    <2>1. Chosen(Allocate(cand, more, rules, balanced).confirmed) = DOMAIN cand
        BY <1>4, UnlimitedPlaces
    <2>2. Chosen(Allocate(cand, capacity, rules, balanced).confirmed) \subseteq DOMAIN cand
        <3>1. CASE Unlimited(cand, capacity)
            BY <3>1, UnlimitedPlaces
        <3>2. CASE ~Unlimited(cand, capacity)
            <4>1. /\ Chosen(Allocate(cand, capacity, rules, balanced).confirmed) = Upto(order, capacity)
                  /\ capacity \in 1..Len(order)
                BY <1>2, <3>2, FirstOfTheOrder
            <4> QED BY <1>3, <4>1 DEF Upto, Picks
        <3> QED BY <3>1, <3>2
    <2> QED BY <2>1, <2>2
<1>5. CASE ~Unlimited(cand, more)
    <2>1. ~Unlimited(cand, capacity) /\ capacity < more
        BY <1>1, <1>5 DEF Unlimited, NoCapacity
    <2>2. Chosen(Allocate(cand, capacity, rules, balanced).confirmed) = Upto(order, capacity)
        BY <1>2, <2>1, FirstOfTheOrder
    <2>3. Chosen(Allocate(cand, more, rules, balanced).confirmed) = Upto(order, more)
        BY <1>2, <1>5, FirstOfTheOrder
    <2>4. \A i \in 1..capacity : i \in 1..more
        BY <2>1
    <2> QED BY <2>2, <2>3, <2>4 DEF Upto
<1> QED BY <1>4, <1>5

\* Nobody loses a place because there is more room.
THEOREM MoreRoomDemotesNobody == PlacesSpec => NobodyIsDemoted
<1>1. PlacesInv /\ [PlacesNext]_arenaVars
        => ((arena = "places" /\ Room /\ DOMAIN input'.cand \subseteq DOMAIN input.cand
                /\ (input'.capacity = input.capacity \/ MoreCapacity))
             => Confirmed \cap DOMAIN input'.cand \subseteq Confirmed')
    <2> SUFFICES ASSUME PlacesInv, PlacesInv', [PlacesNext]_arenaVars, Room,
                        DOMAIN input'.cand \subseteq DOMAIN input.cand,
                        input'.capacity = input.capacity \/ MoreCapacity
                 PROVE  Confirmed \cap DOMAIN input'.cand \subseteq Confirmed'
        BY PlacesNextInv
    <2>0. input \in [cand : {input.cand}, submitted : Nat, capacity : Nat, rules : RuleSets, balanced : BOOLEAN]
        BY DEF PlacesInv
    <2>1. /\ SoundCandidates(input.cand) /\ SoundRules(input.rules) /\ input.capacity \in Nat
          /\ outcome = Allocated(input) /\ outcome' = Allocated(input')
        BY <2>0, RuleSetsAssumption DEF PlacesInv, Allocated
    <2>2. ASSUME NEW p \in Profiles, Arrive(p[1], p[2]) PROVE FALSE
        <3> DEFINE i == input.submitted + 1
        <3>1. i \in DOMAIN input'.cand
            BY <2>0, <2>2 DEF Arrive, Reallocated
        <3>2. i \notin DOMAIN input.cand
            BY <2>0 DEF PlacesInv
        <3> QED BY <3>1, <3>2
    <2>3. CASE Leave
        <3>1. PICK z \in DOMAIN input.cand :
                  Reallocated([input EXCEPT !.cand = [j \in DOMAIN @ \ {z} |-> @[j]]])
            BY <2>3 DEF Leave
        <3>2. input' = [input EXCEPT !.cand = Without(input.cand, z)]
            BY <3>1 DEF Reallocated, Without
        <3>3. /\ input'.cand = Without(input.cand, z) /\ input'.capacity = input.capacity
              /\ input'.rules = input.rules /\ input'.balanced = input.balanced
            BY <2>0, <3>2
        <3>4. ~MoreCapacity
            BY <2>0, <3>3 DEF MoreCapacity, NoCapacity
        <3>5. input.balanced = FALSE /\ (Cardinality(input.rules) <= 1 \/ Guarantees(input.rules) = {})
            BY <2>0, <3>4 DEF Room
        <3>6. z \notin DOMAIN input'.cand
            BY <3>3 DEF Without
        <3>7. \A e \in Chosen(Allocate(input.cand, input.capacity, input.rules, FALSE).confirmed) :
                 e # z => e \in Chosen(Allocate(Without(input.cand, z), input.capacity, input.rules, FALSE).confirmed)
            BY <2>1, <3>5, DepartureDemotesNobody
        <3>8. /\ outcome = Allocate(input.cand, input.capacity, input.rules, FALSE)
              /\ outcome' = Allocate(Without(input.cand, z), input.capacity, input.rules, FALSE)
            BY <2>1, <3>3, <3>5 DEF Allocated
        <3> QED BY <3>6, <3>7, <3>8 DEF Confirmed
    <2>4. ASSUME NEW n \in 0..MaxCapacity, ChangeCapacity(n)
          PROVE  Confirmed \cap DOMAIN input'.cand \subseteq Confirmed'
        <3>1. input' = [input EXCEPT !.capacity = n]
            BY <2>4 DEF ChangeCapacity, Reallocated
        <3>2. /\ input'.cand = input.cand /\ input'.capacity = n
              /\ input'.rules = input.rules /\ input'.balanced = input.balanced
            BY <2>0, <3>1
        <3>3. /\ outcome = Allocate(input.cand, input.capacity, input.rules, input.balanced)
              /\ outcome' = Allocate(input.cand, n, input.rules, input.balanced)
            BY <2>1, <3>2 DEF Allocated
        <3>4. CASE n = input.capacity
            BY <3>3, <3>4 DEF Confirmed
        <3>5. CASE n # input.capacity
            <4>1. n \in Nat /\ input.capacity # NoCapacity /\ (n = NoCapacity \/ n > input.capacity)
                BY <2>4, <3>2, <3>5 DEF MoreCapacity
            <4>2. Chosen(Allocate(input.cand, input.capacity, input.rules, input.balanced).confirmed)
                      \subseteq Chosen(Allocate(input.cand, n, input.rules, input.balanced).confirmed)
                BY <2>1, <4>1, CapacityDemotesNobody
            <4> QED BY <3>3, <4>2 DEF Confirmed
        <3> QED BY <3>4, <3>5
    <2>5. CASE UNCHANGED arenaVars
        BY <2>5 DEF arenaVars, Confirmed
    <2> QED BY <2>2, <2>3, <2>4, <2>5 DEF PlacesNext
<1> QED BY <1>1, PlacesAlwaysInv, PTL DEF PlacesSpec, NobodyIsDemoted

\* The order gives each application a place of its own: what Registration assumes of its
\* Ranking is true of the ranking by AllocationOrder.
THEOREM AllocationRanks ==
    ASSUME NEW cand, SoundCandidates(cand), NEW rules, SoundRules(rules), NEW balanced
    PROVE  LET rank == RankOf(AllocationOrder(cand, rules, balanced))
           IN  /\ rank \in [DOMAIN cand -> 1..Cardinality(DOMAIN cand)]
               /\ \A e, f \in DOMAIN cand : rank[e] = rank[f] => e = f
<1>1. PICK order : order = AllocationOrder(cand, rules, balanced)
    OBVIOUS
<1>2. PICK n \in Nat : n = Cardinality(DOMAIN cand)
    BY FS_CardinalityType DEF SoundCandidates
<1>3. order \in Picks(cand) /\ Chosen(order) = DOMAIN cand /\ Len(order) = n
    BY <1>1, <1>2, OrderListsEverybody
<1>4. DOMAIN order = 1..n
    BY <1>3 DEF Picks
<1>5. \A e \in DOMAIN cand : \E i \in 1..n : order[i] = e
    BY <1>3, <1>4 DEF Chosen
<1> DEFINE rank == RankOf(order)
<1>6. rank = [e \in DOMAIN cand |-> CHOOSE i \in 1..n : order[i] = e]
    BY <1>3, <1>4 DEF RankOf
<1> HIDE DEF rank
<1>7. \A e \in DOMAIN cand : rank[e] \in 1..n /\ order[rank[e]] = e
    BY <1>5, <1>6
<1>8. rank \in [DOMAIN cand -> 1..n]
    BY <1>6, <1>7
<1> QED BY <1>1, <1>2, <1>7, <1>8 DEF rank

\* Every application has one place or one position on the waitlist, and the places are as
\* many as there are.
THEOREM EveryApplicationPlacedOnce ==
    ASSUME NEW cand, SoundCandidates(cand), NEW rules, SoundRules(rules), NEW balanced,
           NEW capacity \in Nat
    PROVE  LET places == Allocate(cand, capacity, rules, balanced)
               confirmed == places.confirmed
               waitlisted == places.waitlisted
           IN  /\ confirmed \in Picks(cand) /\ waitlisted \in Picks(cand)
               /\ Chosen(confirmed) \cup Chosen(waitlisted) = DOMAIN cand
               /\ Chosen(confirmed) \cap Chosen(waitlisted) = {}
               /\ Len(confirmed) = IF Unlimited(cand, capacity) THEN Cardinality(DOMAIN cand) ELSE capacity
<1>1. PICK n \in Nat : n = Cardinality(DOMAIN cand)
    BY FS_CardinalityType DEF SoundCandidates
<1>2. PICK places : places = Allocate(cand, capacity, rules, balanced)
    OBVIOUS
<1>3. CASE Unlimited(cand, capacity)
    <2> DEFINE S == DOMAIN cand
               before == {p \in S \X S : Precedes(cand, p[1], p[2])}
               order == Arranged(S, before)
    <2>1. places.confirmed = order /\ places.waitlisted = <<>>
        BY <1>2, <1>3 DEF Allocate, RegistrationOrder
    <2>2. \A e, f \in S : <<e, f>> \in before <=> Precedes(cand, e, f)
        OBVIOUS
    <2> HIDE DEF before
    <2>3. StrictOrder(S, before)
        BY <2>2, PrecedesInOrder DEF StrictOrder
    <2>4. /\ order \in [1..n -> S]
          /\ \A i, j \in 1..n : i < j => <<order[i], order[j]>> \in before
          /\ \A e \in S : \E i \in 1..n : order[i] = e
        BY <1>1, <2>3, ArrangedInOrder DEF SoundCandidates
    <2> HIDE DEF order
    <2>5. order \in Seq(S) /\ Len(order) = n /\ DOMAIN order = 1..n
        BY <2>4
    <2>6. \A i, j \in 1..n : order[i] = order[j] => i = j
        <3> SUFFICES ASSUME NEW i \in 1..n, NEW j \in 1..n, i < j, order[i] = order[j] PROVE FALSE
            OBVIOUS
        <3>1. order[i] \in S /\ <<order[i], order[i]>> \in before
            BY <2>4
        <3> QED BY <2>3, <3>1 DEF StrictOrder
    <2>7. order \in Picks(cand)
        BY <2>5, <2>6 DEF Picks
    <2>8. Chosen(order) = S
        BY <2>4, <2>5 DEF Chosen
    <2>9. <<>> \in Picks(cand) /\ Chosen(<<>>) = {}
        BY NothingPicked
    <2> QED BY <1>1, <1>2, <1>3, <2>1, <2>5, <2>7, <2>8, <2>9
<1>4. CASE ~Unlimited(cand, capacity)
    <2>1. PICK order : order = AllocationOrder(cand, rules, balanced)
        OBVIOUS
    <2>2. order \in Picks(cand) /\ Chosen(order) = DOMAIN cand /\ Len(order) = n
        BY <1>1, <2>1, OrderListsEverybody
    <2>3. capacity \in 1..(n - 1)
        BY <1>1, <1>4 DEF Unlimited, NoCapacity
    <2>4. order \in Seq(DOMAIN cand) /\ DOMAIN order = 1..n /\ \A i, j \in 1..n : order[i] = order[j] => i = j
        BY <2>2 DEF Picks
    <2> DEFINE confirmed == SubSeq(order, 1, capacity)
               waitlisted == SubSeq(order, capacity + 1, n)
    <2>5. places.confirmed = confirmed /\ places.waitlisted = waitlisted
        BY <1>2, <1>4, <2>1, <2>2 DEF Allocate
    <2>6. /\ confirmed \in Seq(DOMAIN cand) /\ Len(confirmed) = capacity
          /\ \A i \in 1..capacity : confirmed[i] = order[i]
        BY <2>3, <2>4
    <2>7. /\ waitlisted \in Seq(DOMAIN cand) /\ Len(waitlisted) = n - capacity
          /\ \A i \in 1..(n - capacity) : waitlisted[i] = order[capacity + i]
        BY <2>3, <2>4
    <2> HIDE DEF confirmed, waitlisted
    <2>8. DOMAIN confirmed = 1..capacity /\ DOMAIN waitlisted = 1..(n - capacity)
        BY <2>6, <2>7
    <2>9. confirmed \in Picks(cand)
        <3>1. \A i \in 1..capacity : i \in 1..n
            BY <2>3
        <3> QED BY <2>4, <2>6, <2>8, <3>1 DEF Picks
    <2>10. waitlisted \in Picks(cand)
        <3>1. \A i \in 1..(n - capacity) : capacity + i \in 1..n
            BY <2>3
        <3>2. \A i, j \in 1..(n - capacity) : waitlisted[i] = waitlisted[j] => i = j
            <4> SUFFICES ASSUME NEW i \in 1..(n - capacity), NEW j \in 1..(n - capacity),
                                waitlisted[i] = waitlisted[j]
                         PROVE  i = j
                OBVIOUS
            <4>1. capacity + i = capacity + j
                BY <2>4, <2>7, <3>1
            <4> QED BY <4>1
        <3> QED BY <2>7, <2>8, <3>2 DEF Picks
    <2>11. Chosen(confirmed) = {order[i] : i \in 1..capacity}
        BY <2>6, <2>8 DEF Chosen
    <2>12. Chosen(waitlisted) = {order[i] : i \in (capacity + 1)..n}
        <3>1. \A i \in 1..(n - capacity) : capacity + i \in (capacity + 1)..n
            BY <2>3
        <3>2. \A i \in (capacity + 1)..n : i - capacity \in 1..(n - capacity) /\ capacity + (i - capacity) = i
            BY <2>3
        <3>3. ASSUME NEW e \in Chosen(waitlisted) PROVE e \in {order[i] : i \in (capacity + 1)..n}
            <4>1. PICK i \in 1..(n - capacity) : e = waitlisted[i]
                BY <2>8 DEF Chosen
            <4>2. capacity + i \in (capacity + 1)..n /\ e = order[capacity + i]
                BY <2>7, <3>1, <4>1
            <4> QED BY <4>2
        <3>4. ASSUME NEW i \in (capacity + 1)..n PROVE order[i] \in Chosen(waitlisted)
            <4>1. i - capacity \in 1..(n - capacity) /\ waitlisted[i - capacity] = order[capacity + (i - capacity)]
                BY <2>7, <3>2
            <4>2. waitlisted[i - capacity] = order[i]
                BY <3>2, <4>1
            <4> QED BY <2>8, <4>1, <4>2 DEF Chosen
        <3> QED BY <3>3, <3>4
    <2>13. Chosen(confirmed) \cup Chosen(waitlisted) = DOMAIN cand
        <3>1. 1..n = (1..capacity) \cup ((capacity + 1)..n)
            BY <2>3
        <3>2. DOMAIN cand = {order[i] : i \in 1..n}
            BY <2>2, <2>4 DEF Chosen
        <3> QED BY <2>11, <2>12, <3>1, <3>2
    <2>14. Chosen(confirmed) \cap Chosen(waitlisted) = {}
        <3>1. \A i \in 1..capacity, j \in (capacity + 1)..n : i \in 1..n /\ j \in 1..n /\ i # j
            BY <2>3
        <3> QED BY <2>4, <2>11, <2>12, <3>1
    <2> QED BY <1>2, <1>4, <2>5, <2>6, <2>9, <2>10, <2>13, <2>14
<1> QED BY <1>3, <1>4

-----------------------------------------------------------------------------
(* The form: what a validation finds.                                      *)

\* A form is a sequence of fields that have keys of their own.
Sequenced(form) ==
    /\ form \in Seq(Fields(form))
    /\ \A i, j \in DOMAIN form : form[i].key = form[j].key => i = j

\* Conditions of some fields refer to earlier ones of them, without one.
Grounded(form, some) ==
    \A i \in 1..Len(form) : form[i] \in some => \A c \in form[i].condition :
        \E j \in 1..(i - 1) : /\ form[j].key = c.key /\ form[j].condition = {}
                              /\ form[j] \in some
ShownIn(form, phase) == {f \in Fields(form) : Shown(f, phase)}
OfferedIn(form, team) == {f \in Fields(form) : Offered(f, team)}

FieldOf(form, key) == CHOOSE f \in Fields(form) : f.key = key

\* Every answer that was sent as it would be stored, and the fields that are asked for
\* among some.
Answered(form, source) ==
    [k \in FormKeys(form) |-> NormalizeAnswer(FieldOf(form, k), AnswerTo(source, k))]
Asked(form, source, some) ==
    {f \in Fields(form) : f \in some /\ IsFormFieldVisible(form, f, Answered(form, source))}

LEMMA FieldOfKey ==
    ASSUME NEW form, Sequenced(form), NEW f \in Fields(form)
    PROVE  /\ FieldOf(form, f.key) = f /\ TypeOf(form, f.key) = f.type
           /\ f.key \in FormKeys(form)
           /\ \E i \in 1..Len(form) : form[i] = f
<1>1. DOMAIN form = 1..Len(form)
    BY DEF Sequenced
<1>2. \A g \in Fields(form) : g.key = f.key => g = f
    BY DEF Sequenced, Fields
<1> QED BY <1>1, <1>2 DEF FieldOf, TypeOf, FormKeys, Fields

LEMMA OneFieldPerKey ==
    ASSUME NEW form, Sequenced(form)
    PROVE  \A f, g \in Fields(form) : f.key = g.key => f = g
<1> QED BY DEF Sequenced, Fields

LEMMA FieldAt ==
    ASSUME NEW form, Sequenced(form), NEW i \in 1..Len(form)
    PROVE  form[i] \in Fields(form)
<1> QED BY DEF Sequenced, Fields

\* A field is shown under the same conditions by answers that agree where it looks.
LEMMA SameCondition ==
    ASSUME NEW form, NEW f, NEW A, NEW B,
           \A c \in f.condition : AnswerTo(A, c.key) = AnswerTo(B, c.key)
    PROVE  IsFormFieldVisible(form, f, A) <=> IsFormFieldVisible(form, f, B)
<1>1. \A c \in f.condition : Comparable(form, A, c.key) = Comparable(form, B, c.key)
    BY DEF Comparable
<1> QED BY <1>1 DEF IsFormFieldVisible

LEMMA Unconditional ==
    ASSUME NEW form, NEW f, f.condition = {}, NEW A
    PROVE  IsFormFieldVisible(form, f, A)
<1> QED BY DEF IsFormFieldVisible

LEMMA AnsweredField ==
    ASSUME NEW form, Sequenced(form), NEW f \in Fields(form), NEW source
    PROVE  /\ AnswerTo(Answered(form, source), f.key) = NormalizeAnswer(f, AnswerTo(source, f.key))
           /\ Answered(form, source)[f.key] = NormalizeAnswer(f, AnswerTo(source, f.key))
<1> QED BY FieldOfKey DEF Answered, AnswerTo

LEMMA ConditionIsAsked ==
    ASSUME NEW form, Sequenced(form), NEW some, Grounded(form, some), NEW source,
           NEW f \in Fields(form), f \in some, NEW c \in f.condition
    PROVE  \E g \in Asked(form, source, some) : g.key = c.key
<1>1. PICK i \in 1..Len(form) : form[i] = f
    BY FieldOfKey
<1>2. PICK j \in 1..(i - 1) : /\ form[j].key = c.key /\ form[j].condition = {}
                              /\ form[j] \in some
    BY <1>1 DEF Grounded
<1>3. j \in 1..Len(form)
    BY DEF Sequenced
<1> QED BY <1>2, <1>3, FieldAt, Unconditional DEF Asked

\* Answers in which what was asked for has been given show the same fields.
LEMMA AskedDecides ==
    ASSUME NEW form, Sequenced(form), NEW some, Grounded(form, some), NEW source, NEW A,
           \A g \in Asked(form, source, some) :
               AnswerTo(A, g.key) = AnswerTo(Answered(form, source), g.key)
    PROVE  \A f \in Fields(form) : f \in some =>
               (IsFormFieldVisible(form, f, A) <=> f \in Asked(form, source, some))
<1> SUFFICES ASSUME NEW f \in Fields(form), f \in some
             PROVE  IsFormFieldVisible(form, f, A) <=> f \in Asked(form, source, some)
    OBVIOUS
<1>1. \A c \in f.condition : AnswerTo(A, c.key) = AnswerTo(Answered(form, source), c.key)
    BY ConditionIsAsked
<1>2. IsFormFieldVisible(form, f, A) <=> IsFormFieldVisible(form, f, Answered(form, source))
    BY <1>1, SameCondition
<1> QED BY <1>2 DEF Asked

\* The fields are checked one after the other.
ChecksInOrder(after, n, form, source, phase) ==
    /\ after[0] = [answers |-> <<>>, errors |-> {}]
    /\ \A i \in 1..n : after[i] = Checked(form, source, phase, form[i], after[i - 1])

LEMMA ValidationTakesSteps ==
    ASSUME NEW form, Sequenced(form), NEW source, NEW phase
    PROVE  \E after : /\ ChecksInOrder(after, Len(form), form, source, phase)
                      /\ ValidateFormAnswers(form, source, phase) = after[Len(form)]
<1> DEFINE n == Len(form)
           base == [answers |-> <<>>, errors |-> {}]
           Does(f, k) == f = [i \in 0..k |-> f[i]] /\ ChecksInOrder(f, k, form, source, phase)
           S == {k \in 0..n : \E f : Does(f, k)}
<1>0. n \in Nat
    BY DEF Sequenced
<1> HIDE DEF n
<1>1. 0 \in S
    <2> DEFINE f == [i \in 0..0 |-> base]
    <2>1. f = [i \in 0..0 |-> f[i]] /\ f[0] = base /\ 1..0 = {}
        OBVIOUS
    <2> HIDE DEF f
    <2>2. Does(f, 0)
        BY <2>1 DEF ChecksInOrder
    <2> HIDE DEF Does
    <2> QED BY <1>0, <2>2
<1>2. ASSUME NEW i \in 1..n, i - 1 \in S PROVE i \in S
    <2>1. PICK f : Does(f, i - 1)
        BY <1>2
    <2> DEFINE next == Checked(form, source, phase, form[i], f[i - 1])
               g == [j \in 0..i |-> IF j = i THEN next ELSE f[j]]
    <2>2. i - 1 \in 0..(i - 1) /\ i \in 0..n /\ i \in 0..i
        BY <1>0
    <2>3. next = Checked(form, source, phase, form[i], f[i - 1])
        OBVIOUS
    <2> HIDE DEF next
    <2>4. g = [j \in 0..i |-> g[j]] /\ g[i] = next
        BY <2>2
    <2>5. \A j \in 0..(i - 1) : g[j] = f[j]
        BY <1>0
    <2> HIDE DEF g
    <2>6. ASSUME NEW j \in 1..i
          PROVE  g[j] = Checked(form, source, phase, form[j], g[j - 1])
        <3>1. CASE j = i
            <4>1. g[i - 1] = f[i - 1]
                BY <2>2, <2>5
            <4> QED BY <2>3, <2>4, <3>1, <4>1
        <3>2. CASE j # i
            <4>1. j \in 1..(i - 1) /\ j \in 0..(i - 1) /\ j - 1 \in 0..(i - 1)
                BY <1>0, <3>2
            <4>2. g[j] = f[j] /\ g[j - 1] = f[j - 1]
                BY <2>5, <4>1
            <4>3. f[j] = Checked(form, source, phase, form[j], f[j - 1])
                BY <2>1, <4>1 DEF ChecksInOrder
            <4> QED BY <4>2, <4>3
        <3> QED BY <3>1, <3>2
    <2>7. g[0] = base
        <3>1. 0 \in 0..(i - 1)
            BY <1>0
        <3> QED BY <2>1, <2>5, <3>1 DEF ChecksInOrder
    <2>8. Does(g, i)
        BY <2>4, <2>6, <2>7 DEF ChecksInOrder
    <2> HIDE DEF Does
    <2> QED BY <2>2, <2>8
<1>3. n \in S
    <2> HIDE DEF S
    <2>1. 0..n \subseteq S
        BY <1>0, <1>1, <1>2, StepByStep
    <2> QED BY <1>0, <2>1
<1>4. PICK f : Does(f, n)
    BY <1>3
<1> DEFINE Body(i, h) == IF i = 0 THEN base ELSE Checked(form, source, phase, form[i], h[i - 1])
<1>5. ASSUME NEW i \in 0..n PROVE f[i] = Body(i, f)
    <2>1. i = 0 \/ i \in 1..n
        BY <1>0
    <2> QED BY <1>4, <2>1 DEF ChecksInOrder
<1>6. f = [i \in 0..n |-> Body(i, f)]
    <2> HIDE DEF Body
    <2>1. [i \in 0..n |-> f[i]] = [i \in 0..n |-> Body(i, f)]
        BY ONLY <1>5
    <2> QED BY <1>4, <2>1
<1> DEFINE after == CHOOSE h : h = [i \in 0..n |-> Body(i, h)]
<1>7. after = [i \in 0..n |-> Body(i, after)]
    <2> HIDE DEF Body
    <2> QED BY <1>6
<1>8. ValidateFormAnswers(form, source, phase) = after[n]
    BY DEF ValidateFormAnswers, n
<1>9. ChecksInOrder(after, n, form, source, phase)
    <2> HIDE DEF after
    <2>1. after[0] = base
        BY <1>0, <1>7
    <2>2. ASSUME NEW i \in 1..n
          PROVE  after[i] = Checked(form, source, phase, form[i], after[i - 1])
        <3>1. i \in 0..n /\ i # 0
            BY <1>0
        <3>2. after[i] = Body(i, after)
            <4> HIDE DEF Body
            <4> QED BY <1>7, <3>1
        <3> QED BY <3>1, <3>2
    <2> QED BY <2>1, <2>2 DEF ChecksInOrder
<1> QED BY <1>8, <1>9 DEF n

\* What the first fields of the form have come to.
FineTo(i, form, source, phase) ==
    \A j \in 1..i : form[j] \in Asked(form, source, ShownIn(form, phase)) =>
        Acceptable(form[j], AnswerTo(source, form[j].key), phase)
KeysTo(i, form, source, phase) ==
    {form[j].key : j \in {l \in 1..i : form[l] \in Asked(form, source, ShownIn(form, phase))}}
AsExpected(result, i, form, source, phase) ==
    /\ result.errors = {} <=> FineTo(i, form, source, phase)
    /\ FineTo(i, form, source, phase) =>
         result.answers = [k \in KeysTo(i, form, source, phase) |-> Answered(form, source)[k]]

\* The answers checked so far decide about the next field.
LEMMA SoFarDecides ==
    ASSUME NEW form, Sequenced(form), NEW phase, Grounded(form, ShownIn(form, phase)), NEW source,
           NEW i \in 1..Len(form), Shown(form[i], phase), NEW answers,
           answers = [k \in KeysTo(i - 1, form, source, phase) |-> Answered(form, source)[k]]
    PROVE  IsFormFieldVisible(form, form[i], SoFar(answers, source))
             <=> form[i] \in Asked(form, source, ShownIn(form, phase))
<1>1. ASSUME NEW c \in form[i].condition
      PROVE  AnswerTo(SoFar(answers, source), c.key) = AnswerTo(Answered(form, source), c.key)
    <2>1. PICK j \in 1..(i - 1) : /\ form[j].key = c.key /\ form[j].condition = {}
                                  /\ form[j] \in ShownIn(form, phase)
        BY FieldAt DEF Grounded, ShownIn
    <2>2. j \in 1..Len(form) /\ form[j] \in Fields(form)
        BY FieldAt DEF Sequenced
    <2>3. form[j] \in Asked(form, source, ShownIn(form, phase))
        BY <2>1, <2>2, Unconditional DEF Asked, ShownIn
    <2>4. c.key \in KeysTo(i - 1, form, source, phase)
        BY <2>1, <2>3 DEF KeysTo
    <2>5. c.key \in FormKeys(form)
        BY <2>1, <2>2 DEF FormKeys
    <2>6. AnswerTo(SoFar(answers, source), c.key) = answers[c.key]
        BY <2>4 DEF AnswerTo, SoFar, Merged
    <2>7. answers[c.key] = Answered(form, source)[c.key]
        BY <2>4
    <2>8. AnswerTo(Answered(form, source), c.key) = Answered(form, source)[c.key]
        BY <2>5 DEF AnswerTo, Answered
    <2> QED BY <2>6, <2>7, <2>8
<1>2. form[i] \in Fields(form)
    BY FieldAt
<1>3. IsFormFieldVisible(form, form[i], SoFar(answers, source))
        <=> IsFormFieldVisible(form, form[i], Answered(form, source))
    BY <1>1, SameCondition
<1> QED BY <1>2, <1>3 DEF Asked, ShownIn

LEMMA FieldAsExpected ==
    ASSUME NEW form, Sequenced(form), NEW phase, Grounded(form, ShownIn(form, phase)), NEW source,
           NEW i \in 1..Len(form), NEW result,
           AsExpected(result, i - 1, form, source, phase)
    PROVE  AsExpected(Checked(form, source, phase, form[i], result), i, form, source, phase)
<1> DEFINE f == form[i]
           next == Checked(form, source, phase, f, result)
           asked == f \in Asked(form, source, ShownIn(form, phase))
           fine == Acceptable(f, AnswerTo(source, f.key), phase)
<1>0. f \in Fields(form) /\ i \in Nat /\ i # 0
    BY FieldAt DEF Sequenced
<1>1. FineTo(i, form, source, phase) <=> FineTo(i - 1, form, source, phase) /\ (asked => fine)
    <2>1. \A j : j \in 1..i <=> j \in 1..(i - 1) \/ j = i
        BY <1>0
    <2> QED BY <2>1 DEF FineTo
<1>2. KeysTo(i, form, source, phase)
        = KeysTo(i - 1, form, source, phase) \cup (IF asked THEN {f.key} ELSE {})
    <2>1. \A j : j \in 1..i <=> j \in 1..(i - 1) \/ j = i
        BY <1>0
    <2> QED BY <2>1 DEF KeysTo
<1>3. CASE ~FineTo(i - 1, form, source, phase)
    <2>1. result.errors # {}
        BY <1>3 DEF AsExpected
    <2>2. next.errors # {}
        BY <2>1 DEF Checked
    <2> QED BY <1>1, <1>3, <2>2 DEF AsExpected
<1>4. CASE FineTo(i - 1, form, source, phase)
    <2>1. /\ result.errors = {}
          /\ result.answers = [k \in KeysTo(i - 1, form, source, phase) |-> Answered(form, source)[k]]
        BY <1>4 DEF AsExpected
    <2>2. asked <=> Shown(f, phase) /\ IsFormFieldVisible(form, f, SoFar(result.answers, source))
        BY <2>1, SoFarDecides DEF Asked, ShownIn
    <2>3. CASE ~asked
        <3>1. next = result
            BY <2>2, <2>3 DEF Checked
        <3> QED BY <1>1, <1>2, <2>1, <2>3, <3>1, <1>4 DEF AsExpected
    <2>4. CASE asked /\ ~fine
        <3>1. next.errors = result.errors \cup {f.key}
            BY <2>2, <2>4 DEF Checked
        <3> QED BY <1>1, <2>4, <3>1 DEF AsExpected
    <2>5. CASE asked /\ fine
        <3> DEFINE one == [k \in {f.key} |-> NormalizeAnswer(f, AnswerTo(source, k))]
        <3>1. next.errors = {} /\ next.answers = Merged(one, result.answers)
            BY <2>1, <2>2, <2>5 DEF Checked
        <3>2. Answered(form, source)[f.key] = NormalizeAnswer(f, AnswerTo(source, f.key))
            BY <1>0, AnsweredField
        <3>3. Merged(one, result.answers)
                = [k \in KeysTo(i, form, source, phase) |-> Answered(form, source)[k]]
            BY <1>2, <2>1, <2>5, <3>2 DEF Merged
        <3> QED BY <1>1, <1>4, <2>5, <3>1, <3>3 DEF AsExpected
    <2> QED BY <2>3, <2>4, <2>5
<1> QED BY <1>3, <1>4

\* A validation finds what is not acceptable of what the phase asks for, and takes the rest.
Finds(checked, form, source, phase) ==
    /\ checked.errors = {} <=>
         \A f \in Asked(form, source, ShownIn(form, phase)) : Acceptable(f, AnswerTo(source, f.key), phase)
    /\ checked.errors = {} =>
         checked.answers = [k \in {f.key : f \in Asked(form, source, ShownIn(form, phase))} |-> Answered(form, source)[k]]

LEMMA ValidationByField ==
    ASSUME NEW form, Sequenced(form), NEW phase, Grounded(form, ShownIn(form, phase)), NEW source
    PROVE  Finds(ValidateFormAnswers(form, source, phase), form, source, phase)
<1> DEFINE n == Len(form)
<1>0. n \in Nat
    BY DEF Sequenced
<1>1. PICK after : /\ ChecksInOrder(after, n, form, source, phase)
                   /\ ValidateFormAnswers(form, source, phase) = after[n]
    BY ValidationTakesSteps
<1> DEFINE S == {i \in 0..n : AsExpected(after[i], i, form, source, phase)}
<1>2. 0 \in S
    <2>1. 1..0 = {} /\ 0 \in 0..n
        BY <1>0
    <2>2. FineTo(0, form, source, phase) /\ KeysTo(0, form, source, phase) = {}
        BY <2>1 DEF FineTo, KeysTo
    <2>3. <<>> = [k \in {} |-> Answered(form, source)[k]]
        OBVIOUS
    <2>4. AsExpected(after[0], 0, form, source, phase)
        BY <1>1, <2>2, <2>3 DEF AsExpected, ChecksInOrder
    <2> QED BY <2>1, <2>4
<1>3. ASSUME NEW i \in 1..n, i - 1 \in S PROVE i \in S
    <2>1. after[i] = Checked(form, source, phase, form[i], after[i - 1])
        BY <1>1 DEF ChecksInOrder
    <2>2. AsExpected(after[i - 1], i - 1, form, source, phase)
        BY <1>3
    <2>3. AsExpected(after[i], i, form, source, phase)
        BY <2>1, <2>2, FieldAsExpected
    <2> QED BY <1>0, <2>3
<1>4. n \in S
    <2> HIDE DEF S
    <2>1. 0..n \subseteq S
        BY <1>0, <1>2, <1>3, StepByStep
    <2> QED BY <1>0, <2>1
<1>5. AsExpected(ValidateFormAnswers(form, source, phase), n, form, source, phase)
    BY <1>1, <1>4
<1>6. \A f \in Asked(form, source, ShownIn(form, phase)) : \E j \in 1..n : form[j] = f
    BY FieldOfKey DEF Asked, ShownIn
<1>7. FineTo(n, form, source, phase) <=>
        \A f \in Asked(form, source, ShownIn(form, phase)) : Acceptable(f, AnswerTo(source, f.key), phase)
    BY <1>6 DEF FineTo
<1>8. KeysTo(n, form, source, phase) = {f.key : f \in Asked(form, source, ShownIn(form, phase))}
    BY <1>6 DEF KeysTo
<1> QED BY <1>5, <1>7, <1>8 DEF AsExpected, Finds

-----------------------------------------------------------------------------
(* The form: what is kept.                                                 *)

LEMMA FormFacts ==
    ASSUME NEW form \in Forms
    PROVE  /\ Sequenced(form)
           /\ \A f \in Fields(form) :
                /\ f.showInRegistration \/ f.showInMandate
                /\ f.showInMandate => f.showInRegistration \/ f.editableInMandate
                /\ f.requiredInRegistration => f.showInRegistration
                /\ f.memberMaxCount \in Nat /\ 1 <= f.memberMaxCount
                /\ DOMAIN f = FormAttributes
<1>1. AcceptedForm(form) /\ form \in Seq(Fields(form))
    BY FormsAssumption
<1>2. Sequenced(form)
    BY <1>1 DEF Sequenced, AcceptedForm
<1>3. ASSUME NEW f \in Fields(form)
      PROVE  /\ f.showInRegistration \/ f.showInMandate
             /\ f.showInMandate => f.showInRegistration \/ f.editableInMandate
             /\ f.requiredInRegistration => f.showInRegistration
             /\ 1 <= f.memberMinCount /\ f.memberMinCount <= f.memberMaxCount
    BY <1>1 DEF AcceptedForm, Fields
<1>4. \A f \in Fields(form) : /\ DOMAIN f = FormAttributes
                              /\ f.memberMinCount \in Nat /\ f.memberMaxCount \in Nat
    BY FormsAssumption
<1>5. \A f \in Fields(form) : 1 <= f.memberMaxCount
    BY <1>3, <1>4
<1> QED BY <1>2, <1>3, <1>4, <1>5

\* In a sound form the fields of a phase, and those that an organiser is offered, depend on
\* each other alone.
LEMMA SoundIsGrounded ==
    ASSUME NEW form \in Forms, Sound(form)
    PROVE  /\ \A phase \in Phases : Grounded(form, ShownIn(form, phase))
           /\ \A team \in BOOLEAN : Grounded(form, OfferedIn(form, team))
<1>0. Sequenced(form) /\ AcceptedForm(form)
    BY FormFacts, FormsAssumption
<1>1. ASSUME NEW i \in 1..Len(form), NEW c \in form[i].condition
      PROVE  \E j \in 1..(i - 1) :
                /\ form[j].key = c.key /\ form[j].condition = {} /\ form[j] \in Fields(form)
                /\ \A phase \in Phases : Shown(form[i], phase) => Shown(form[j], phase)
    <2>1. form[i] \in Fields(form) /\ i \in DOMAIN form
        BY <1>0, FieldAt DEF Sequenced
    <2>2. PICK j \in 1..(i - 1) : form[j].key = c.key
        BY <1>0, <2>1 DEF AcceptedForm
    <2>3. PICK g \in Fields(form) :
             /\ g.key = c.key /\ g.condition = {}
             /\ \A phase \in Phases : Shown(form[i], phase) => Shown(g, phase)
        BY <2>1 DEF Sound
    <2>4. form[j] \in Fields(form)
        BY <1>0, FieldAt DEF Sequenced
    <2>5. form[j] = g
        BY <1>0, <2>2, <2>3, <2>4, FieldOfKey
    <2> QED BY <2>2, <2>3, <2>4, <2>5
<1>2. \A phase \in Phases : Grounded(form, ShownIn(form, phase))
    BY <1>1 DEF Grounded, ShownIn
<1>3. ASSUME NEW team \in BOOLEAN
      PROVE  Grounded(form, OfferedIn(form, team))
    BY <1>1 DEF Grounded, OfferedIn, Offered, Shown, Phases
<1> QED BY <1>2, <1>3

\* What is kept of an answer fits the field; nothing is kept for what a condition hides, nor
\* for what only the mandate asks for before there is a team; and what is shown in the
\* registration, for a team in both phases, has an answer that one of them has accepted.
Fits(f, v) == Choosable(f, v) /\ (f.type = "MEMBER_LIST" => Cardinality(v) <= f.memberMaxCount)

Kept(form, answers, team, f) ==
    LET v == AnswerTo(answers, f.key)
    IN  /\ v \in Inputs(f)
        /\ Fits(f, v)
        /\ ~IsFormFieldVisible(form, f, answers) => v = {}
        /\ ~team /\ ~f.showInRegistration => v = {}
        /\ /\ IsFormFieldVisible(form, f, answers)
           /\ f.showInRegistration /\ (team => f.showInMandate)
           => /\ f.key \in DOMAIN answers
              /\ NormalizeAnswer(f, v) = v
              /\ \E phase \in Phases : Acceptable(f, v, phase)

LEMMA NothingFits ==
    ASSUME NEW form \in Forms, NEW f \in Fields(form)
    PROVE  {} \in Inputs(f) /\ Fits(f, {})
<1>1. Cardinality({}) = 0
    BY FS_EmptySet
<1>2. f.memberMaxCount \in Nat
    BY FormFacts
<1> QED BY <1>1, <1>2, InputsAssumption DEF Fits, Choosable

\* What was checked stays as it is when it is checked again.
LEMMA NormalAnswer ==
    ASSUME NEW f, NEW v
    PROVE  /\ NormalizeAnswer(f, NormalizeAnswer(f, v)) = NormalizeAnswer(f, v)
           /\ \A phase : Acceptable(f, NormalizeAnswer(f, v), phase) <=> Acceptable(f, v, phase)
           /\ \A phase : Acceptable(f, v, phase) => Fits(f, NormalizeAnswer(f, v))
<1>1. NormalizeAnswer(f, NormalizeAnswer(f, v)) = NormalizeAnswer(f, v)
    BY DEF NormalizeAnswer
<1>2. Choosable(f, NormalizeAnswer(f, v)) <=> Choosable(f, v)
    BY DEF Choosable, NormalizeAnswer
<1> QED BY <1>1, <1>2 DEF Acceptable, Fits

\* Whoever checks and stores the answers to some fields, and deletes the others, leaves what
\* is to be kept.
LEMMA SaveKeeps ==
    ASSUME NEW form \in Forms, NEW some, Grounded(form, some),
           NEW source, \A f \in Fields(form) : AnswerTo(source, f.key) \in Inputs(f),
           NEW phase \in Phases,
           \A f \in Asked(form, source, some) : Acceptable(f, AnswerTo(source, f.key), phase),
           NEW team \in BOOLEAN,
           \A f \in Fields(form) : f.showInRegistration /\ (team => f.showInMandate) => f \in some,
           \A f \in Fields(form) : f \in some => team \/ f.showInRegistration,
           NEW answers,
           \A f \in Asked(form, source, some) :
               f.key \in DOMAIN answers /\ answers[f.key] = Answered(form, source)[f.key],
           \A f \in Fields(form) : f \notin Asked(form, source, some) => AnswerTo(answers, f.key) = {},
           NEW f \in Fields(form)
    PROVE  Kept(form, answers, team, f)
<1> DEFINE v == AnswerTo(source, f.key)
<1>0. Sequenced(form)
    BY FormFacts
<1>1. ASSUME NEW g \in Asked(form, source, some)
      PROVE  AnswerTo(answers, g.key) = AnswerTo(Answered(form, source), g.key)
    <2>1. g.key \in FormKeys(form)
        BY <1>0, FieldOfKey DEF Asked
    <2> QED BY <2>1 DEF AnswerTo, Answered
<1>2. f \in some => (IsFormFieldVisible(form, f, answers) <=> f \in Asked(form, source, some))
    BY <1>0, <1>1, AskedDecides
<1>3. CASE f \in Asked(form, source, some)
    <2>1. AnswerTo(answers, f.key) = NormalizeAnswer(f, v)
        BY <1>0, <1>1, <1>3, AnsweredField
    <2>2. NormalizeAnswer(f, v) \in Inputs(f)
        BY InputsAssumption
    <2>3. Acceptable(f, v, phase)
        BY <1>3
    <2>4. f \in some
        BY <1>3 DEF Asked
    <2> QED BY <1>2, <1>3, <2>1, <2>2, <2>3, <2>4, NormalAnswer DEF Kept
<1>4. CASE f \notin Asked(form, source, some)
    <2>1. AnswerTo(answers, f.key) = {}
        BY <1>4
    <2>2. ~(/\ IsFormFieldVisible(form, f, answers)
            /\ f.showInRegistration /\ (team => f.showInMandate))
        BY <1>2, <1>4
    <2> QED BY <2>1, <2>2, NothingFits DEF Kept
<1> QED BY <1>3, <1>4

LEMMA SentAnswers ==
    ASSUME NEW form, Sequenced(form), NEW raw \in Sent(form), NEW f \in Fields(form)
    PROVE  /\ f.key \in DOMAIN raw /\ raw[f.key] \in Inputs(f)
           /\ AnswerTo(raw, f.key) = raw[f.key]
<1>1. f.key \in FormKeys(form) /\ FieldOf(form, f.key) = f
    BY FieldOfKey
<1>2. DOMAIN raw = FormKeys(form) /\ raw[f.key] \in Inputs(FieldOf(form, f.key))
    BY <1>1 DEF Sent, FieldOf
<1> QED BY <1>1, <1>2 DEF AnswerTo

LEMMA AskedKeys ==
    ASSUME NEW form, Sequenced(form), NEW source, NEW some, NEW f \in Fields(form)
    PROVE  f.key \in {g.key : g \in Asked(form, source, some)} <=> f \in Asked(form, source, some)
<1> QED BY FieldOfKey DEF Asked

\* The answers that were checked, and those of other forms.
LEMMA CheckedAndOutside ==
    ASSUME NEW form, Sequenced(form), NEW source, NEW some, NEW stored, NEW checked, NEW answers,
           checked = [k \in {g.key : g \in Asked(form, source, some)} |-> Answered(form, source)[k]],
           answers = Merged(checked, Outside(form, stored)),
           NEW f \in Fields(form)
    PROVE  /\ f \in Asked(form, source, some) =>
                f.key \in DOMAIN answers /\ answers[f.key] = Answered(form, source)[f.key]
           /\ f \notin Asked(form, source, some) => f.key \notin DOMAIN answers
<1>1. f.key \in DOMAIN checked <=> f \in Asked(form, source, some)
    BY AskedKeys
<1>2. f.key \notin DOMAIN Outside(form, stored)
    BY FieldOfKey DEF Outside
<1> QED BY <1>1, <1>2 DEF Merged

LEMMA RegisterKeeps ==
    ASSUME NEW form \in Forms, Sound(form), NEW raw \in Sent(form), NEW stored,
           Register(form, stored, raw).ok, NEW f \in Fields(form)
    PROVE  Kept(form, Register(form, stored, raw).stored, FALSE, f)
<1> DEFINE some == ShownIn(form, "REGISTRATION")
           checked == ValidateFormAnswers(form, raw, "REGISTRATION")
           answers == Register(form, stored, raw).stored
<1>1. Sequenced(form) /\ Grounded(form, some) /\ "REGISTRATION" \in Phases
    BY FormFacts, SoundIsGrounded DEF Phases
<1>2. Finds(checked, form, raw, "REGISTRATION")
    BY <1>1, ValidationByField
<1>3. checked.errors = {} /\ answers = Merged(checked.answers, Outside(form, stored))
    BY DEF Register, Refused, Saved
<1>4. \A g \in Fields(form) : g \in some <=> g.showInRegistration
    BY DEF ShownIn, Shown
<1> HIDE DEF some, checked, answers
<1>5. \A g \in Fields(form) :
         /\ g \in Asked(form, raw, some) =>
              g.key \in DOMAIN answers /\ answers[g.key] = Answered(form, raw)[g.key]
         /\ g \notin Asked(form, raw, some) => g.key \notin DOMAIN answers
    BY <1>1, <1>2, <1>3, CheckedAndOutside DEF Finds, some
<1>6. \A g \in Fields(form) : AnswerTo(raw, g.key) \in Inputs(g)
    BY <1>1, SentAnswers
<1>7. \A g \in Asked(form, raw, some) : Acceptable(g, AnswerTo(raw, g.key), "REGISTRATION")
    BY <1>2, <1>3 DEF Finds, some
<1>8. \A g \in Asked(form, raw, some) : g \in Fields(form)
    BY DEF Asked
<1>9. \A g \in Fields(form) : g \notin Asked(form, raw, some) => AnswerTo(answers, g.key) = {}
    BY <1>5 DEF AnswerTo
<1>10. Kept(form, answers, FALSE, f)
    BY <1>1, <1>4, <1>5, <1>6, <1>7, <1>8, <1>9, SaveKeeps
<1> QED BY <1>10 DEF answers

\* What counts in a mandate.
LEMMA MandateSource ==
    ASSUME NEW form, Sequenced(form), NEW stored, NEW raw \in Sent(form), NEW f \in Fields(form)
    PROVE  AnswerTo(Merged(LockedAnswers(form, stored), raw), f.key) =
             IF ~f.editableInMandate /\ f.key \in DOMAIN stored THEN stored[f.key] ELSE raw[f.key]
<1>1. f.key \in DOMAIN LockedAnswers(form, stored)
        <=> ~f.editableInMandate /\ f.key \in DOMAIN stored
    BY FieldOfKey DEF LockedAnswers
<1> QED BY <1>1, SentAnswers DEF AnswerTo, Merged, LockedAnswers

\* What a save of the mandate has found and stored.
LEMMA MandateSaved ==
    ASSUME NEW form \in Forms, Sound(form), NEW raw \in Sent(form), NEW stored,
           NEW source, source = Merged(LockedAnswers(form, stored), raw),
           NEW saved, saved = SaveMandate(form, stored, raw)
    PROVE  /\ saved.ok <=> \A f \in Asked(form, source, ShownIn(form, "MANDATE")) :
                              Acceptable(f, AnswerTo(source, f.key), "MANDATE")
           /\ saved.ok => \A f \in Fields(form) :
                /\ f \in Asked(form, source, ShownIn(form, "MANDATE")) =>
                     /\ f.key \in DOMAIN saved.stored
                     /\ saved.stored[f.key] = Answered(form, source)[f.key]
                /\ f \notin Asked(form, source, ShownIn(form, "MANDATE")) =>
                     f.key \notin DOMAIN saved.stored
<1> DEFINE checked == ValidateFormAnswers(form, source, "MANDATE")
<1>1. Sequenced(form) /\ Grounded(form, ShownIn(form, "MANDATE"))
    BY FormFacts, SoundIsGrounded DEF Phases
<1>2. Finds(checked, form, source, "MANDATE")
    BY <1>1, ValidationByField
<1>3. /\ saved.ok <=> checked.errors = {}
      /\ saved.ok => saved.stored = Merged(checked.answers, Outside(form, stored))
    BY DEF SaveMandate, Refused, Saved
<1> HIDE DEF checked
<1>4. ASSUME saved.ok, NEW f \in Fields(form)
      PROVE  /\ f \in Asked(form, source, ShownIn(form, "MANDATE")) =>
                  /\ f.key \in DOMAIN saved.stored
                  /\ saved.stored[f.key] = Answered(form, source)[f.key]
             /\ f \notin Asked(form, source, ShownIn(form, "MANDATE")) =>
                  f.key \notin DOMAIN saved.stored
    BY <1>1, <1>2, <1>3, <1>4, CheckedAndOutside DEF Finds
<1> QED BY <1>2, <1>3, <1>4 DEF Finds

LEMMA MandateKeeps ==
    ASSUME NEW form \in Forms, Sound(form), NEW raw \in Sent(form), NEW stored,
           \A g \in Fields(form) : Kept(form, stored, TRUE, g),
           SaveMandate(form, stored, raw).ok, NEW f \in Fields(form)
    PROVE  Kept(form, SaveMandate(form, stored, raw).stored, TRUE, f)
<1> DEFINE some == ShownIn(form, "MANDATE")
           source == Merged(LockedAnswers(form, stored), raw)
           saved == SaveMandate(form, stored, raw)
<1>1. Sequenced(form) /\ Grounded(form, some) /\ "MANDATE" \in Phases
    BY FormFacts, SoundIsGrounded DEF Phases
<1>2. ASSUME NEW g \in Fields(form) PROVE AnswerTo(source, g.key) \in Inputs(g)
    <2>1. Kept(form, stored, TRUE, g)
        OBVIOUS
    <2>2. AnswerTo(stored, g.key) \in Inputs(g)
        BY <2>1 DEF Kept
    <2>3. raw[g.key] \in Inputs(g)
        BY <1>1, SentAnswers
    <2>4. g.key \in DOMAIN stored => AnswerTo(stored, g.key) = stored[g.key]
        BY DEF AnswerTo
    <2> QED BY <1>1, <2>2, <2>3, <2>4, MandateSource
<1>3. \A g \in Fields(form) : g \in some <=> g.showInMandate
    BY DEF ShownIn, Shown
<1>4. /\ \A g \in Asked(form, source, some) : Acceptable(g, AnswerTo(source, g.key), "MANDATE")
      /\ \A g \in Fields(form) :
           /\ g \in Asked(form, source, some) =>
                g.key \in DOMAIN saved.stored /\ saved.stored[g.key] = Answered(form, source)[g.key]
           /\ g \notin Asked(form, source, some) => g.key \notin DOMAIN saved.stored
    BY MandateSaved
<1> HIDE DEF some, source, saved
<1>5. \A g \in Asked(form, source, some) : g \in Fields(form)
    BY DEF Asked
<1>6. \A g \in Fields(form) : g \notin Asked(form, source, some) => AnswerTo(saved.stored, g.key) = {}
    BY <1>4 DEF AnswerTo
<1>7. Kept(form, saved.stored, TRUE, f)
    BY <1>1, <1>2, <1>3, <1>4, <1>5, <1>6, SaveKeeps
<1> QED BY <1>7 DEF saved

\* The form that an organiser answers differs in what the registration shows.
LEMMA OrganizerField ==
    ASSUME NEW form \in Forms, NEW team \in BOOLEAN, NEW i \in 1..Len(form)
    PROVE  LET f == form[i]
               g == OrganizerFields(form, team)[i]
           IN  /\ g.key = f.key /\ g.type = f.type /\ g.condition = f.condition
               /\ g.showInRegistration <=> Offered(f, team)
               /\ \A v : NormalizeAnswer(g, v) = NormalizeAnswer(f, v)
               /\ \A v : Acceptable(g, v, "REGISTRATION") <=> Acceptable(f, v, "REGISTRATION")
<1> DEFINE f == form[i]
           g == OrganizerFields(form, team)[i]
<1>1. f \in Fields(form) /\ i \in DOMAIN form
    BY FormFacts, FieldAt DEF Sequenced
<1>2. DOMAIN f = FormAttributes
    BY <1>1, FormFacts
<1>3. g = [f EXCEPT !.showInRegistration = Offered(f, team)]
    BY <1>1 DEF OrganizerFields
<1> HIDE DEF f, g
<1>4. /\ g.key = f.key /\ g.type = f.type /\ g.condition = f.condition /\ g.options = f.options
      /\ g.memberMinCount = f.memberMinCount /\ g.memberMaxCount = f.memberMaxCount
      /\ g.requiredInRegistration = f.requiredInRegistration
      /\ g.showInRegistration = Offered(f, team)
    BY <1>2, <1>3 DEF FormAttributes
<1>5. \A v : NormalizeAnswer(g, v) = NormalizeAnswer(f, v)
    BY <1>4 DEF NormalizeAnswer
<1>6. \A v : Choosable(g, v) <=> Choosable(f, v)
    BY <1>4 DEF Choosable
<1>7. \A v : Acceptable(g, v, "REGISTRATION") <=> Acceptable(f, v, "REGISTRATION")
    BY <1>4, <1>5, <1>6 DEF Acceptable, Required
<1> QED BY <1>4, <1>5, <1>7 DEF f, g

LEMMA OrganizerForm ==
    ASSUME NEW form \in Forms, Sound(form), NEW team \in BOOLEAN,
           NEW own, own = OrganizerFields(form, team)
    PROVE  /\ Sequenced(own) /\ Len(own) = Len(form)
           /\ Grounded(own, ShownIn(own, "REGISTRATION"))
<1>0. Sequenced(form) /\ DOMAIN form = 1..Len(form) /\ Len(form) \in Nat
    BY FormFacts DEF Sequenced
<1>1. own = [i \in 1..Len(form) |-> own[i]]
    BY <1>0 DEF OrganizerFields
<1>2. Len(own) = Len(form) /\ DOMAIN own = 1..Len(form)
    BY <1>0, <1>1
<1>3. own \in Seq(Fields(own))
    BY <1>0, <1>1, <1>2 DEF Fields
<1>4. \A i \in 1..Len(form) :
         /\ own[i].key = form[i].key /\ own[i].condition = form[i].condition
         /\ own[i].showInRegistration <=> Offered(form[i], team)
    BY OrganizerField
<1>5. Sequenced(own)
    BY <1>0, <1>2, <1>3, <1>4 DEF Sequenced
<1>6. \A i \in 1..Len(form) :
         own[i] \in ShownIn(own, "REGISTRATION")
           <=> form[i] \in OfferedIn(form, team)
    BY <1>0, <1>2, <1>4, <1>5, FieldAt DEF ShownIn, Shown, OfferedIn
<1>7. Grounded(form, OfferedIn(form, team))
    BY SoundIsGrounded
<1>8. \A i \in 1..Len(form) : \A j \in 1..(i - 1) : j \in 1..Len(form)
    BY <1>0
<1>9. ASSUME NEW i \in 1..Len(own), own[i] \in ShownIn(own, "REGISTRATION"),
             NEW c \in own[i].condition
      PROVE  \E j \in 1..(i - 1) : /\ own[j].key = c.key /\ own[j].condition = {}
                                   /\ own[j] \in ShownIn(own, "REGISTRATION")
    <2>1. i \in 1..Len(form) /\ c \in form[i].condition
        BY <1>2, <1>4, <1>9
    <2>2. form[i] \in OfferedIn(form, team)
        BY <1>6, <1>9, <2>1
    <2>3. PICK j \in 1..(i - 1) : /\ form[j].key = c.key /\ form[j].condition = {}
                                  /\ form[j] \in OfferedIn(form, team)
        BY <1>7, <2>1, <2>2 DEF Grounded
    <2>4. j \in 1..Len(form)
        BY <1>8, <2>1
    <2> QED BY <1>4, <1>6, <2>3, <2>4
<1>10. Grounded(own, ShownIn(own, "REGISTRATION"))
    BY <1>9 DEF Grounded
<1> QED BY <1>2, <1>5, <1>10

\* His answers are those that the form itself would take, from the fields he is offered.
LEMMA OrganizerAsked ==
    ASSUME NEW form \in Forms, Sound(form), NEW team \in BOOLEAN,
           NEW own, own = OrganizerFields(form, team), NEW source,
           NEW offered, offered = OfferedIn(form, team)
    PROVE  /\ FormKeys(own) = FormKeys(form)
           /\ Answered(own, source) = Answered(form, source)
           /\ \A i \in 1..Len(form) :
                own[i] \in Asked(own, source, ShownIn(own, "REGISTRATION"))
                  <=> form[i] \in Asked(form, source, offered)
<1>0. /\ Sequenced(form) /\ DOMAIN form = 1..Len(form)
      /\ Sequenced(own) /\ DOMAIN own = 1..Len(form) /\ Len(own) = Len(form)
    BY FormFacts, OrganizerForm DEF Sequenced
<1>1. \A i \in 1..Len(form) :
         /\ own[i].key = form[i].key /\ own[i].condition = form[i].condition
         /\ own[i].type = form[i].type
         /\ own[i].showInRegistration <=> Offered(form[i], team)
         /\ \A v : NormalizeAnswer(own[i], v) = NormalizeAnswer(form[i], v)
    BY OrganizerField
<1>2. \A i \in 1..Len(form) : form[i] \in Fields(form) /\ own[i] \in Fields(own)
    BY <1>0, FieldAt
<1>3. /\ \A f \in Fields(form) : \E i \in 1..Len(form) : form[i] = f
      /\ \A f \in Fields(own) : \E i \in 1..Len(form) : own[i] = f
    BY <1>0, FieldOfKey
<1>4. FormKeys(own) = FormKeys(form)
    BY <1>1, <1>2, <1>3, SMTT(20) DEF FormKeys
<1>5. \A i \in 1..Len(form) :
         FieldOf(form, form[i].key) = form[i] /\ FieldOf(own, form[i].key) = own[i]
    BY <1>0, <1>1, <1>2, FieldOfKey
<1>6. \A k \in FormKeys(form) : \E i \in 1..Len(form) : form[i].key = k
    BY <1>3 DEF FormKeys
<1>7. \A k \in FormKeys(form) : Answered(own, source)[k] = Answered(form, source)[k]
    BY <1>1, <1>4, <1>5, <1>6 DEF Answered
<1>8. Answered(own, source) = Answered(form, source)
    BY <1>4, <1>7 DEF Answered
<1>9. ASSUME NEW k \in FormKeys(form) PROVE TypeOf(own, k) = TypeOf(form, k)
    <2>1. PICK i \in 1..Len(form) : form[i].key = k
        BY <1>6
    <2>2. TypeOf(form, form[i].key) = form[i].type /\ TypeOf(own, own[i].key) = own[i].type
        BY <1>0, <1>2, FieldOfKey
    <2> QED BY <1>1, <2>1, <2>2
<1>10. ASSUME NEW i \in 1..Len(form), NEW answers
       PROVE  form[i] \in offered =>
                (IsFormFieldVisible(own, own[i], answers) <=> IsFormFieldVisible(form, form[i], answers))
    <2>1. Grounded(form, offered)
        BY SoundIsGrounded
    <2>2. ASSUME form[i] \in offered, NEW c \in form[i].condition PROVE c.key \in FormKeys(form)
        <3>1. \E g \in Asked(form, source, offered) : g.key = c.key
            <4> PICK f \in Fields(form) : f = form[i]
                BY <1>2
            <4>1. Sequenced(form) /\ f \in offered /\ c \in f.condition
                BY <1>0, <2>2
            <4> QED BY ONLY <2>1, <4>1, f \in Fields(form), ConditionIsAsked
        <3> QED BY <3>1 DEF Asked, FormKeys
    <2>3. ASSUME form[i] \in offered, NEW c \in form[i].condition
          PROVE  /\ TypeOf(own, c.key) = TypeOf(form, c.key)
                 /\ Comparable(own, answers, c.key) = Comparable(form, answers, c.key)
        BY <1>9, <2>2, <2>3 DEF Comparable
    <2> QED BY <1>1, <2>3 DEF IsFormFieldVisible
<1>11. ASSUME NEW i \in 1..Len(form)
       PROVE  own[i] \in Asked(own, source, ShownIn(own, "REGISTRATION"))
                <=> form[i] \in Asked(form, source, offered)
    <2>1. own[i] \in ShownIn(own, "REGISTRATION") <=> form[i] \in offered
        BY <1>1, <1>2 DEF ShownIn, Shown, OfferedIn
    <2> QED BY <1>2, <1>8, <1>10, <2>1 DEF Asked
<1> QED BY <1>4, <1>8, <1>11

LEMMA OrganizerKeeps ==
    ASSUME NEW form \in Forms, Sound(form), NEW raw \in Sent(form), NEW stored,
           NEW team \in BOOLEAN, OrganizerSave(form, stored, raw, team).ok,
           \A g \in Fields(form) : ~Offered(g, team) => AnswerTo(stored, g.key) = {},
           NEW f \in Fields(form)
    PROVE  Kept(form, OrganizerSave(form, stored, raw, team).stored, team, f)
<1> DEFINE own == OrganizerFields(form, team)
           offered == OfferedIn(form, team)
           checked == ValidateFormAnswers(own, raw, "REGISTRATION")
           values == [k \in {g.key : g \in offered} |->
                        IF k \in DOMAIN checked.answers THEN checked.answers[k]
                        ELSE Cleared(stored, k)]
           answers == OrganizerSave(form, stored, raw, team).stored
           asked == Asked(form, raw, offered)
<1>0. Sequenced(form) /\ Grounded(form, offered) /\ "REGISTRATION" \in Phases
    BY FormFacts, SoundIsGrounded DEF Phases
<1>1. checked.errors = {} /\ answers = Merged(values, stored)
    BY DEF OrganizerSave, Refused, Saved, OfferedIn
<1>2. /\ Sequenced(own) /\ Len(own) = Len(form)
      /\ Finds(checked, own, raw, "REGISTRATION")
    BY OrganizerForm, ValidationByField
<1>3. /\ Answered(own, raw) = Answered(form, raw)
      /\ \A i \in 1..Len(form) :
           own[i] \in Asked(own, raw, ShownIn(own, "REGISTRATION")) <=> form[i] \in asked
    <2>1. own = OrganizerFields(form, team) /\ offered = OfferedIn(form, team)
        OBVIOUS
    <2> HIDE DEF own, offered, checked, values, answers
    <2>2. /\ Answered(own, raw) = Answered(form, raw)
          /\ \A i \in 1..Len(form) :
               own[i] \in Asked(own, raw, ShownIn(own, "REGISTRATION"))
                 <=> form[i] \in Asked(form, raw, offered)
        <3>1. form \in Forms /\ Sound(form) /\ team \in BOOLEAN
            OBVIOUS
        <3> QED BY ONLY <2>1, <3>1, OrganizerAsked
    <2> QED BY <2>2
<1>4. \A i \in 1..Len(form) :
         /\ own[i].key = form[i].key
         /\ \A v : Acceptable(own[i], v, "REGISTRATION") <=> Acceptable(form[i], v, "REGISTRATION")
    BY OrganizerField
<1>5. /\ \A g \in Fields(form) : \E i \in 1..Len(form) : form[i] = g
      /\ \A g \in Fields(own) : \E i \in 1..Len(form) : own[i] = g
    BY <1>0, <1>2, FieldOfKey
<1> DEFINE ownAsked == Asked(own, raw, ShownIn(own, "REGISTRATION"))
<1>6. /\ \A g \in asked : g \in Fields(form) /\ g \in offered
      /\ \A g \in ownAsked : g \in Fields(own)
      /\ \A g \in offered : g \in Fields(form)
    BY DEF Asked, OfferedIn
<1>7. /\ \A g \in ownAsked : Acceptable(g, AnswerTo(raw, g.key), "REGISTRATION")
      /\ checked.answers = [k \in {g.key : g \in ownAsked} |-> Answered(form, raw)[k]]
    BY <1>1, <1>2, <1>3 DEF Finds
<1> HIDE DEF own, checked, ownAsked, asked, answers
<1>8. {g.key : g \in ownAsked} = {g.key : g \in asked}
    BY <1>3, <1>4, <1>5, <1>6 DEF ownAsked
<1>9. ASSUME NEW g \in asked PROVE Acceptable(g, AnswerTo(raw, g.key), "REGISTRATION")
    <2>1. PICK i \in 1..Len(form) : form[i] = g
        BY <1>5, <1>6
    <2>2. own[i] \in ownAsked
        BY <1>3, <2>1 DEF ownAsked
    <2>3. Acceptable(own[i], AnswerTo(raw, g.key), "REGISTRATION")
        BY <1>4, <1>7, <2>1, <2>2
    <2> QED BY <1>4, <2>1, <2>3
<1>10. \A g \in Fields(form) : /\ g.key \in {h.key : h \in asked} <=> g \in asked
                               /\ g.key \in {h.key : h \in offered} <=> g \in offered
    BY <1>0, <1>6, FieldOfKey
<1>11. ASSUME NEW g \in asked
       PROVE  g.key \in DOMAIN answers /\ answers[g.key] = Answered(form, raw)[g.key]
    <2>1. g.key \in DOMAIN values /\ g.key \in DOMAIN checked.answers
        BY <1>6, <1>7, <1>8, <1>10
    <2>2. values[g.key] = Answered(form, raw)[g.key]
        BY <1>7, <2>1
    <2> QED BY <1>1, <2>1, <2>2 DEF Merged
<1>12. ASSUME NEW g \in Fields(form), g \notin asked PROVE AnswerTo(answers, g.key) = {}
    <2>1. CASE g \in offered
        <3>1. g.key \in DOMAIN values /\ g.key \notin DOMAIN checked.answers
            BY <1>7, <1>8, <1>10, <1>12, <2>1
        <3>2. values[g.key] = {}
            BY <3>1 DEF Cleared
        <3> QED BY <1>1, <3>1, <3>2 DEF Merged, AnswerTo
    <2>2. CASE g \notin offered
        <3>1. g.key \notin DOMAIN values
            BY <1>10, <2>2
        <3>2. AnswerTo(stored, g.key) = {}
            BY <2>2 DEF OfferedIn
        <3> QED BY <1>1, <3>1, <3>2 DEF Merged, AnswerTo
    <2> QED BY <2>1, <2>2
<1>13. \A g \in Fields(form) : AnswerTo(raw, g.key) \in Inputs(g)
    BY <1>0, SentAnswers
<1>14. /\ \A g \in Fields(form) : g.showInRegistration /\ (team => g.showInMandate) => g \in offered
       /\ \A g \in Fields(form) : g \in offered => team \/ g.showInRegistration
    BY DEF Offered, OfferedIn
<1> HIDE DEF offered, values
<1>15. Kept(form, answers, team, f)
    BY <1>0, <1>9, <1>11, <1>12, <1>13, <1>14, SaveKeeps DEF asked
<1> QED BY <1>15 DEF answers

\* Lists are compared as the empty text: they decide about no condition.
LEMMA ListsDecideNothing ==
    ASSUME NEW form, NEW f, NEW A, NEW B,
           \A k : AnswerTo(A, k) = AnswerTo(B, k) \/ TypeOf(form, k) = "MEMBER_LIST"
    PROVE  IsFormFieldVisible(form, f, A) <=> IsFormFieldVisible(form, f, B)
<1>1. \A k : Comparable(form, A, k) = Comparable(form, B, k)
    BY DEF Comparable, Lists
<1>2. \A k : TypeOf(form, k) = "MULTISELECT" => AnswerTo(A, k) = AnswerTo(B, k)
    OBVIOUS
<1> QED BY <1>1, <1>2 DEF IsFormFieldVisible

LEMMA MembersKeep ==
    ASSUME NEW form \in Forms, Sound(form), NEW raw \in Sent(form), NEW stored,
           NEW team \in BOOLEAN,
           \A g \in Fields(form) : Kept(form, stored, team, g),
           UpdateMembers(form, stored, raw).ok, NEW f \in Fields(form)
    PROVE  Kept(form, UpdateMembers(form, stored, raw).stored, team, f)
<1> DEFINE sent == {g \in Fields(form) : /\ g.type = "MEMBER_LIST" /\ g.showInRegistration
                                         /\ g.key \in DOMAIN raw}
           lists == [k \in {g.key : g \in sent} |-> raw[k]]
           merged == Merged(lists, stored)
           visible == {g \in sent : IsFormFieldVisible(form, g, merged)}
           changed == [k \in {g.key : g \in visible} |-> merged[k]]
           answers == UpdateMembers(form, stored, raw).stored
<1>0. Sequenced(form)
    BY FormFacts
<1>1. /\ \A g \in visible : Acceptable(g, merged[g.key], "REGISTRATION")
      /\ answers = Merged(changed, stored)
    BY DEF UpdateMembers, Refused, Saved
<1>2. /\ \A g \in visible : g \in sent /\ IsFormFieldVisible(form, g, merged)
      /\ \A g \in sent : g \in Fields(form) /\ g.type = "MEMBER_LIST" /\ g.showInRegistration
    OBVIOUS
<1> HIDE DEF sent, visible, answers
<1>3. ASSUME NEW g \in Fields(form) PROVE g.key \in DOMAIN changed <=> g \in visible
    <2>1. \A h \in visible : h.key = g.key => h = g
        BY <1>0, <1>2, OneFieldPerKey
    <2>2. DOMAIN changed = {h.key : h \in visible}
        OBVIOUS
    <2> QED BY <2>1, <2>2
<1>4. \A g \in visible : g.key \in DOMAIN lists /\ merged[g.key] = raw[g.key]
    BY <1>2 DEF Merged
<1>5. ASSUME NEW g \in Fields(form)
      PROVE  AnswerTo(answers, g.key) =
               IF g \in visible THEN raw[g.key] ELSE AnswerTo(stored, g.key)
    <2>1. g \in visible => changed[g.key] = raw[g.key]
        BY <1>3, <1>4
    <2> HIDE DEF changed
    <2> QED BY <1>1, <1>3, <2>1 DEF AnswerTo, Merged
<1>6. ASSUME NEW k
      PROVE  /\ AnswerTo(merged, k) = AnswerTo(stored, k) \/ TypeOf(form, k) = "MEMBER_LIST"
             /\ AnswerTo(answers, k) = AnswerTo(stored, k) \/ TypeOf(form, k) = "MEMBER_LIST"
    <2>1. CASE k \in {g.key : g \in sent}
        BY <1>0, <1>2, <2>1, FieldOfKey
    <2>2. CASE k \notin {g.key : g \in sent}
        <3>1. k \notin DOMAIN lists /\ k \notin DOMAIN changed
            BY <1>2, <2>2
        <3> QED BY <1>1, <3>1 DEF AnswerTo, Merged
    <2> QED BY <2>1, <2>2
<1> HIDE DEF lists, merged, changed
<1>7. /\ IsFormFieldVisible(form, f, merged) <=> IsFormFieldVisible(form, f, stored)
      /\ IsFormFieldVisible(form, f, answers) <=> IsFormFieldVisible(form, f, stored)
    BY <1>6, ListsDecideNothing
<1>8. Kept(form, stored, team, f)
    OBVIOUS
<1>9. ASSUME f \in visible PROVE Kept(form, answers, team, f)
    <2> DEFINE v == raw[f.key]
    <2>1. AnswerTo(answers, f.key) = v /\ f.key \in DOMAIN answers
        BY <1>1, <1>3, <1>5, <1>9 DEF Merged
    <2>2. v \in Inputs(f)
        BY <1>0, SentAnswers
    <2>3. Acceptable(f, v, "REGISTRATION") /\ "REGISTRATION" \in Phases
        BY <1>1, <1>4, <1>9 DEF Phases
    <2>4. NormalizeAnswer(f, v) = v
        BY <1>2, <1>9 DEF NormalizeAnswer
    <2>5. f.showInRegistration /\ IsFormFieldVisible(form, f, answers)
        BY <1>2, <1>7, <1>9
    <2>6. Fits(f, v)
        BY <2>3, <2>4, NormalAnswer
    <2> QED BY <2>1, <2>2, <2>3, <2>4, <2>5, <2>6 DEF Kept
<1>10. ASSUME f \notin visible PROVE Kept(form, answers, team, f)
    <2>1. AnswerTo(answers, f.key) = AnswerTo(stored, f.key)
        BY <1>5, <1>10
    <2>2. f.key \in DOMAIN stored => f.key \in DOMAIN answers
        BY <1>1 DEF Merged
    <2> QED BY <1>7, <1>8, <2>1, <2>2 DEF Kept
<1>11. Kept(form, answers, team, f)
    BY <1>9, <1>10
<1> QED BY <1>11 DEF answers

\* A mandate that was saved can be submitted.
LEMMA SavedCanBeSubmitted ==
    ASSUME NEW form \in Forms, Sound(form), NEW raw \in Sent(form), NEW stored,
           SaveMandate(form, stored, raw).ok
    PROVE  CanSubmitMandate(form, SaveMandate(form, stored, raw).stored)
<1> DEFINE some == ShownIn(form, "MANDATE")
           source == Merged(LockedAnswers(form, stored), raw)
           saved == SaveMandate(form, stored, raw).stored
<1>1. Sequenced(form) /\ Grounded(form, some)
    BY FormFacts, SoundIsGrounded DEF Phases
<1>2. /\ \A g \in Asked(form, source, some) : Acceptable(g, AnswerTo(source, g.key), "MANDATE")
      /\ \A g \in Fields(form) :
           /\ g \in Asked(form, source, some) =>
                g.key \in DOMAIN saved /\ saved[g.key] = Answered(form, source)[g.key]
           /\ g \notin Asked(form, source, some) => g.key \notin DOMAIN saved
    BY MandateSaved
<1>3. Finds(ValidateFormAnswers(form, saved, "MANDATE"), form, saved, "MANDATE")
    BY <1>1, ValidationByField
<1> HIDE DEF source, saved
<1>4. ASSUME NEW g \in Asked(form, source, some)
      PROVE  /\ AnswerTo(saved, g.key) = NormalizeAnswer(g, AnswerTo(source, g.key))
             /\ AnswerTo(Answered(form, saved), g.key) = AnswerTo(Answered(form, source), g.key)
    <2>1. g \in Fields(form)
        BY DEF Asked
    <2>2. AnswerTo(saved, g.key) = NormalizeAnswer(g, AnswerTo(source, g.key))
        BY <1>1, <1>2, <2>1, AnsweredField DEF AnswerTo
    <2> QED BY <1>1, <2>1, <2>2, AnsweredField, NormalAnswer
<1>5. \A g \in Fields(form) : g \in some =>
         (IsFormFieldVisible(form, g, Answered(form, saved)) <=> g \in Asked(form, source, some))
    BY <1>1, <1>4, AskedDecides
<1>6. \A g \in Asked(form, saved, some) : g \in Asked(form, source, some)
    BY <1>5 DEF Asked
<1>7. \A g \in Asked(form, saved, some) : Acceptable(g, AnswerTo(saved, g.key), "MANDATE")
    BY <1>2, <1>4, <1>6, NormalAnswer
<1> QED BY <1>3, <1>7 DEF CanSubmitMandate, Finds, saved

\* What is kept for a team.
KeptForTeam(form, stored) == \A g \in Fields(form) : Kept(form, stored, TRUE, g)

\* What was acceptable once is acceptable in the mandate, unless that requires more.
LEMMA AcceptableInMandate ==
    ASSUME NEW f, NEW v, NEW phase \in Phases, Acceptable(f, v, phase),
           f.requiredInMandate => f.requiredInRegistration
    PROVE  Acceptable(f, v, "MANDATE")
<1> QED BY DEF Acceptable, Required, Phases

LEMMA FittingIsAcceptable ==
    ASSUME NEW f, NEW v, Fits(f, v), ~f.requiredInMandate
    PROVE  Acceptable(f, v, "MANDATE")
<1> QED BY DEF Acceptable, Required, Fits, NormalizeAnswer

\* The fields that a condition of a sound form looks at have answers, once a team asks for
\* them in both phases.
LEMMA ConditionIsAnswered ==
    ASSUME NEW form \in Forms, Sound(form), NEW stored,
           KeptForTeam(form, stored),
           NEW f \in Fields(form), f.showInRegistration, f.showInMandate, NEW c \in f.condition
    PROVE  \E h \in Fields(form) :
              /\ h.key = c.key /\ h.key \in DOMAIN stored
              /\ NormalizeAnswer(h, stored[h.key]) = stored[h.key]
              /\ \E phase \in Phases : Acceptable(h, stored[h.key], phase)
<1>1. PICK h \in Fields(form) :
         /\ h.key = c.key /\ h.condition = {}
         /\ \A phase \in Phases : Shown(f, phase) => Shown(h, phase)
    BY DEF Sound
<1>2. h.showInRegistration /\ h.showInMandate
    BY <1>1 DEF Shown, Phases
<1>3. IsFormFieldVisible(form, h, stored)
    BY <1>1, Unconditional
<1>4. Kept(form, stored, TRUE, h)
    BY DEF KeptForTeam
<1>5. /\ h.key \in DOMAIN stored
      /\ NormalizeAnswer(h, AnswerTo(stored, h.key)) = AnswerTo(stored, h.key)
      /\ \E phase \in Phases : Acceptable(h, AnswerTo(stored, h.key), phase)
    BY <1>2, <1>3, <1>4 DEF Kept
<1> QED BY <1>1, <1>5 DEF AnswerTo

\* The answer to give: the stored one if the mandate accepts it, else another that it does.
Suitable(stored, f) ==
    IF f.key \in DOMAIN stored /\ Acceptable(f, stored[f.key], "MANDATE")
    THEN stored[f.key]
    ELSE CHOOSE v \in Inputs(f) : Acceptable(f, v, "MANDATE")

SuitableFor(form, stored) == [k \in FormKeys(form) |-> Suitable(stored, FieldOf(form, k))]

LEMMA SuitableAnswers ==
    ASSUME NEW form \in Forms, NEW stored,
           KeptForTeam(form, stored),
           NEW raw, raw = SuitableFor(form, stored)
    PROVE  /\ raw \in Sent(form)
           /\ \A f \in Fields(form) : Acceptable(f, raw[f.key], "MANDATE")
           /\ \A f \in Fields(form) :
                f.key \in DOMAIN stored /\ Acceptable(f, stored[f.key], "MANDATE") =>
                  raw[f.key] = stored[f.key]
<1>0. Sequenced(form)
    BY FormFacts
<1>1. ASSUME NEW f \in Fields(form)
      PROVE  /\ Suitable(stored, f) \in Inputs(f)
             /\ Acceptable(f, Suitable(stored, f), "MANDATE")
    <2>1. \E v \in Inputs(f) : Acceptable(f, v, "MANDATE")
        BY InputsAssumption
    <2>2. Kept(form, stored, TRUE, f)
        BY DEF KeptForTeam
    <2>3. f.key \in DOMAIN stored => stored[f.key] \in Inputs(f)
        BY <2>2 DEF Kept, AnswerTo
    <2> QED BY <2>1, <2>3 DEF Suitable
<1>2. \A k \in FormKeys(form) : FieldOf(form, k) \in Fields(form)
    BY DEF FieldOf, FormKeys
<1>5. raw = [k \in FormKeys(form) |-> Suitable(stored, FieldOf(form, k))]
    BY DEF SuitableFor
<1>3. raw \in Sent(form)
    <2>1. \A k \in FormKeys(form) : raw[k] \in Inputs(FieldOf(form, k))
        BY <1>1, <1>2, <1>5
    <2>2. raw \in [FormKeys(form) -> UNION {Inputs(f) : f \in Fields(form)}]
        BY <1>2, <1>5, <2>1
    <2> QED BY <2>1, <2>2 DEF Sent, FieldOf
<1>4. ASSUME NEW f \in Fields(form) PROVE raw[f.key] = Suitable(stored, f)
    BY <1>0, <1>5, FieldOfKey DEF FormKeys
<1> QED BY <1>1, <1>3, <1>4 DEF Suitable

LEMMA MandateCanBeSaved ==
    ASSUME NEW form \in Forms, Sound(form), NEW stored,
           KeptForTeam(form, stored)
    PROVE  \E raw \in Sent(form) : SaveMandate(form, stored, raw).ok
<1> DEFINE raw == SuitableFor(form, stored)
           source == Merged(LockedAnswers(form, stored), raw)
           asked == Asked(form, source, ShownIn(form, "MANDATE"))
<1>0. Sequenced(form)
    BY FormFacts
<1>1. /\ raw \in Sent(form)
      /\ \A f \in Fields(form) : Acceptable(f, raw[f.key], "MANDATE")
      /\ \A f \in Fields(form) :
           f.key \in DOMAIN stored /\ Acceptable(f, stored[f.key], "MANDATE") =>
             raw[f.key] = stored[f.key]
    BY SuitableAnswers
<1> HIDE DEF raw
<1>2. \A f \in Fields(form) : AnswerTo(source, f.key) =
         IF ~f.editableInMandate /\ f.key \in DOMAIN stored THEN stored[f.key] ELSE raw[f.key]
    BY <1>0, <1>1, MandateSource
<1> HIDE DEF source
<1>3. ASSUME NEW f \in asked PROVE Acceptable(f, AnswerTo(source, f.key), "MANDATE")
    <2>0. /\ f \in Fields(form) /\ f.showInMandate
          /\ IsFormFieldVisible(form, f, Answered(form, source))
        BY DEF Asked, ShownIn, Shown
    <2>1. CASE f.editableInMandate \/ f.key \notin DOMAIN stored
        BY <1>1, <1>2, <2>0, <2>1
    <2>2. CASE ~f.editableInMandate /\ f.key \in DOMAIN stored
        <3>1. AnswerTo(source, f.key) = stored[f.key] /\ AnswerTo(stored, f.key) = stored[f.key]
            BY <1>2, <2>0, <2>2 DEF AnswerTo
        <3>2. Kept(form, stored, TRUE, f)
            BY <2>0 DEF KeptForTeam
        <3>3. f.showInRegistration
            BY <2>0, <2>2, FormFacts
        <3>4. CASE ~f.requiredInMandate
            BY <3>1, <3>2, <3>4, FittingIsAcceptable DEF Kept
        <3>5. CASE f.requiredInMandate
            <4>1. /\ f.requiredInRegistration
                  /\ \A g \in Fields(form) :
                       g.requiredInMandate /\ (\E c \in f.condition : c.key = g.key)
                         => g.requiredInRegistration
                BY <2>0, <2>2, <3>5 DEF Sound
            <4>2. ASSUME NEW c \in f.condition
                  PROVE  AnswerTo(stored, c.key) = AnswerTo(Answered(form, source), c.key)
                <5>1. PICK h \in Fields(form) :
                         /\ h.key = c.key /\ h.key \in DOMAIN stored
                         /\ NormalizeAnswer(h, stored[h.key]) = stored[h.key]
                         /\ \E phase \in Phases : Acceptable(h, stored[h.key], phase)
                    <6>1. f \in Fields(form) /\ f.showInRegistration /\ f.showInMandate
                        BY <2>0, <3>3
                    <6>2. /\ form \in Forms /\ Sound(form)
                          /\ KeptForTeam(form, stored)
                        OBVIOUS
                    <6>3. c \in f.condition
                        OBVIOUS
                    <6> QED BY ONLY <6>1, <6>2, <6>3, ConditionIsAnswered
                <5>2. Acceptable(h, stored[h.key], "MANDATE")
                    BY <4>1, <5>1, AcceptableInMandate
                <5>3. AnswerTo(source, h.key) = stored[h.key]
                    BY <1>1, <1>2, <5>1, <5>2
                <5>4. AnswerTo(Answered(form, source), h.key) = stored[h.key]
                    BY <1>0, <5>1, <5>3, AnsweredField
                <5> QED BY <5>1, <5>4 DEF AnswerTo
            <4>3. IsFormFieldVisible(form, f, stored)
                BY <2>0, <4>2, SameCondition
            <4>4. \E phase \in Phases : Acceptable(f, AnswerTo(stored, f.key), phase)
                BY <2>0, <3>2, <3>3, <4>3 DEF Kept
            <4> QED BY <3>1, <4>1, <4>4, AcceptableInMandate
        <3> QED BY <3>4, <3>5
    <2> QED BY <2>1, <2>2
<1>4. SaveMandate(form, stored, raw).ok
    BY <1>1, <1>3, MandateSaved DEF source
<1> QED BY <1>1, <1>4

\* What is locked stays as it is.
LEMMA MandateKeepsLocked ==
    ASSUME NEW form \in Forms, Sound(form), NEW raw \in Sent(form), NEW stored,
           KeptForTeam(form, stored),
           SaveMandate(form, stored, raw).ok,
           NEW f \in Locked(form), f.key \in DOMAIN stored
    PROVE  AnswerTo(SaveMandate(form, stored, raw).stored, f.key) = AnswerTo(stored, f.key)
<1> DEFINE source == Merged(LockedAnswers(form, stored), raw)
           asked == Asked(form, source, ShownIn(form, "MANDATE"))
           saved == SaveMandate(form, stored, raw).stored
<1>0. Sequenced(form)
    BY FormFacts
<1>1. /\ f \in Fields(form) /\ f.showInMandate /\ ~f.editableInMandate
      /\ \A c \in f.condition : \E g \in Fields(form) :
           g.key = c.key /\ ~g.editableInMandate
    BY DEF Locked
<1>2. f.showInRegistration
    BY <1>1, FormFacts
<1>3. \A g \in Fields(form) : AnswerTo(source, g.key) =
         IF ~g.editableInMandate /\ g.key \in DOMAIN stored THEN stored[g.key] ELSE raw[g.key]
    BY <1>0, MandateSource
<1>4. /\ f \in asked => f.key \in DOMAIN saved /\ saved[f.key] = Answered(form, source)[f.key]
      /\ f \notin asked => f.key \notin DOMAIN saved
    BY <1>1, MandateSaved
<1> HIDE DEF source, saved
<1>5. ASSUME NEW c \in f.condition
      PROVE  AnswerTo(stored, c.key) = AnswerTo(Answered(form, source), c.key)
    <2>1. PICK h \in Fields(form) :
             /\ h.key = c.key /\ h.key \in DOMAIN stored
             /\ NormalizeAnswer(h, stored[h.key]) = stored[h.key]
             /\ \E phase \in Phases : Acceptable(h, stored[h.key], phase)
        <3>1. f \in Fields(form) /\ f.showInRegistration /\ f.showInMandate
            BY <1>1, <1>2
        <3>2. /\ form \in Forms /\ Sound(form)
              /\ KeptForTeam(form, stored)
            OBVIOUS
        <3>3. c \in f.condition
            OBVIOUS
        <3> QED BY ONLY <3>1, <3>2, <3>3, ConditionIsAnswered
    <2>2. ~h.editableInMandate
        BY <1>0, <1>1, <2>1, OneFieldPerKey
    <2>3. AnswerTo(Answered(form, source), h.key) = stored[h.key]
        BY <1>0, <1>3, <2>1, <2>2, AnsweredField
    <2> QED BY <2>1, <2>3 DEF AnswerTo
<1>6. IsFormFieldVisible(form, f, stored) <=> f \in asked
    <2>1. IsFormFieldVisible(form, f, stored) <=> IsFormFieldVisible(form, f, Answered(form, source))
        BY <1>5, SameCondition
    <2> QED BY <1>1, <2>1 DEF Asked, ShownIn, Shown
<1>7. Kept(form, stored, TRUE, f)
    BY <1>1 DEF KeptForTeam
<1>8. CASE f \in asked
    <2>1. NormalizeAnswer(f, AnswerTo(stored, f.key)) = AnswerTo(stored, f.key)
        BY <1>1, <1>2, <1>6, <1>7, <1>8 DEF Kept
    <2>2. AnswerTo(source, f.key) = AnswerTo(stored, f.key)
        BY <1>1, <1>3 DEF AnswerTo
    <2>3. Answered(form, source)[f.key] = AnswerTo(stored, f.key)
        BY <1>0, <1>1, <2>1, <2>2, AnsweredField
    <2> QED BY <1>4, <1>8, <2>3 DEF AnswerTo, saved
<1>9. CASE f \notin asked
    <2>1. AnswerTo(stored, f.key) = {}
        BY <1>6, <1>7, <1>9 DEF Kept
    <2> QED BY <1>4, <1>9, <2>1 DEF AnswerTo, saved
<1> QED BY <1>8, <1>9

-----------------------------------------------------------------------------
(* The form: its invariant.                                                *)

\* As long as all answers were given under a sound form as it is, what is stored is what is
\* to be kept, and what a mandate has stored can be submitted.
FormInv ==
    arena = "form" =>
        /\ input = [form |-> input.form, last |-> input.last, fresh |-> input.fresh]
        /\ outcome = [team |-> outcome.team, answers |-> outcome.answers]
        /\ input.form \in Forms
        /\ input.fresh \in BOOLEAN /\ outcome.team \in BOOLEAN
        /\ input.fresh /\ Sound(input.form) =>
             /\ \A f \in Fields(input.form) : Kept(input.form, outcome.answers, outcome.team, f)
             /\ input.last = "mandate" => CanSubmitMandate(input.form, outcome.answers)

LEMMA FormInitially == FormInit => FormInv
<1> SUFFICES ASSUME FormInit PROVE FormInv
    OBVIOUS
<1>0. PICK form \in Forms :
         /\ input = [form |-> form, last |-> "none", fresh |-> TRUE]
         /\ \E raw \in Sent(form) :
              /\ Register(form, <<>>, raw).ok
              /\ outcome = [team |-> FALSE, answers |-> Register(form, <<>>, raw).stored]
    BY DEF FormInit
<1>1. PICK raw \in Sent(form) :
         /\ Register(form, <<>>, raw).ok
         /\ outcome = [team |-> FALSE, answers |-> Register(form, <<>>, raw).stored]
    BY <1>0
<1>2. Sound(form) =>
         \A f \in Fields(form) : Kept(form, Register(form, <<>>, raw).stored, FALSE, f)
    BY <1>1, RegisterKeeps
<1>3. /\ input.form = form /\ input.last = "none" /\ input.fresh = TRUE
      /\ outcome.team = FALSE /\ outcome.answers = Register(form, <<>>, raw).stored
    BY <1>0, <1>1
<1>4. /\ input = [form |-> input.form, last |-> input.last, fresh |-> input.fresh]
      /\ outcome = [team |-> outcome.team, answers |-> outcome.answers]
    BY <1>0, <1>1
<1>5. Sound(input.form) =>
         \A f \in Fields(input.form) : Kept(input.form, outcome.answers, outcome.team, f)
    BY <1>2, <1>3
<1> QED BY <1>3, <1>4, <1>5 DEF FormInv

\* An operation keeps the invariant if what it stores is what is to be kept.
LEMMA SavesKeep ==
    ASSUME FormInv, arena = "form", NEW operation, NEW result, NEW all \in BOOLEAN,
           Saves(operation, result, all),
           (input.fresh \/ all) /\ Sound(input.form) =>
               /\ \A f \in Fields(input.form) : Kept(input.form, result.stored, outcome.team, f)
               /\ operation = "mandate" => CanSubmitMandate(input.form, result.stored)
    PROVE  FormInv'
<1>1. /\ input = [form |-> input.form, last |-> input.last, fresh |-> input.fresh]
      /\ outcome = [team |-> outcome.team, answers |-> outcome.answers]
      /\ input.form \in Forms /\ input.fresh \in BOOLEAN /\ outcome.team \in BOOLEAN
    BY DEF FormInv
<1>2. /\ input' = [input EXCEPT !.last = operation, !.fresh = @ \/ all]
      /\ outcome' = [outcome EXCEPT !.answers = result.stored]
    BY DEF Saves
<1>3. /\ input' = [form |-> input.form, last |-> operation, fresh |-> input.fresh \/ all]
      /\ outcome' = [team |-> outcome.team, answers |-> result.stored]
    BY <1>1, <1>2
<1>4. /\ input'.form = input.form /\ input'.last = operation
      /\ input'.fresh = (input.fresh \/ all)
      /\ outcome'.team = outcome.team /\ outcome'.answers = result.stored
    BY <1>3
<1>5. input'.fresh /\ Sound(input'.form) =>
        /\ \A f \in Fields(input'.form) : Kept(input'.form, outcome'.answers, outcome'.team, f)
        /\ input'.last = "mandate" => CanSubmitMandate(input'.form, outcome'.answers)
    BY <1>4
<1> HIDE DEF Sound
<1> QED BY <1>1, <1>3, <1>4, <1>5 DEF FormInv

LEMMA FillKeepsInv ==
    ASSUME FormInv, NEW raw \in Sent(input.form), Fill(raw)
    PROVE  FormInv'
<1> DEFINE result == Register(input.form, outcome.answers, raw)
<1>1. /\ arena = "form" /\ ~outcome.team /\ Saves("register", result, TRUE)
      /\ input.form \in Forms /\ outcome.team \in BOOLEAN
    BY DEF Fill, FormInv
<1>2. result.ok
    BY <1>1 DEF Saves
<1>3. Sound(input.form) =>
         \A f \in Fields(input.form) : Kept(input.form, result.stored, FALSE, f)
    BY <1>1, <1>2, RegisterKeeps
<1>4. outcome.team = FALSE
    BY <1>1
<1> HIDE DEF result
<1>5. Sound(input.form) =>
         \A f \in Fields(input.form) : Kept(input.form, result.stored, outcome.team, f)
    BY <1>3, <1>4
<1> QED BY <1>1, <1>5, SavesKeep

LEMMA CorrectKeepsInv ==
    ASSUME FormInv, NEW raw \in Sent(input.form), Correct(raw)
    PROVE  FormInv'
<1> DEFINE left == {f \in Fields(input.form) :
                       ~Offered(f, outcome.team) /\ AnswerTo(outcome.answers, f.key) # {}}
           result == OrganizerSave(input.form, outcome.answers, raw, outcome.team)
<1>1. /\ arena = "form" /\ Saves("correct", result, left = {})
      /\ input.form \in Forms /\ outcome.team \in BOOLEAN /\ input.fresh \in BOOLEAN
    BY DEF Correct, FormInv
<1>2. result.ok
    BY <1>1 DEF Saves
<1>3. ASSUME input.fresh \/ left = {}, Sound(input.form)
      PROVE  \A f \in Fields(input.form) : Kept(input.form, result.stored, outcome.team, f)
    <2>1. \A g \in Fields(input.form) :
             ~Offered(g, outcome.team) => AnswerTo(outcome.answers, g.key) = {}
        <3>1. CASE left = {}
            BY <3>1
        <3>2. CASE input.fresh
            <4>1. ASSUME NEW g \in Fields(input.form), ~Offered(g, outcome.team)
                  PROVE  ~outcome.team /\ ~g.showInRegistration
                BY <1>1, <4>1, FormFacts DEF Offered
            <4>2. \A g \in Fields(input.form) : Kept(input.form, outcome.answers, outcome.team, g)
                BY <1>1, <1>3, <3>2 DEF FormInv
            <4> QED BY <4>1, <4>2 DEF Kept
        <3> QED BY <1>3, <3>1, <3>2
    <2> QED BY <1>1, <1>2, <1>3, <2>1, OrganizerKeeps
<1>4. (left = {}) \in BOOLEAN
    OBVIOUS
<1> HIDE DEF left, result
<1>5. (input.fresh \/ left = {}) /\ Sound(input.form) =>
        /\ \A f \in Fields(input.form) : Kept(input.form, result.stored, outcome.team, f)
        /\ "correct" = "mandate" => CanSubmitMandate(input.form, result.stored)
    BY <1>3
<1> QED BY <1>1, <1>4, <1>5, SavesKeep

LEMMA EditMembersKeepsInv ==
    ASSUME FormInv, NEW raw \in Sent(input.form), EditMembers(raw)
    PROVE  FormInv'
<1> DEFINE result == UpdateMembers(input.form, outcome.answers, raw)
<1>1. /\ arena = "form" /\ Saves("members", result, FALSE)
      /\ input.form \in Forms /\ outcome.team \in BOOLEAN
    BY DEF EditMembers, FormInv
<1>2. result.ok
    BY <1>1 DEF Saves
<1>3. ASSUME input.fresh, Sound(input.form)
      PROVE  \A f \in Fields(input.form) : Kept(input.form, result.stored, outcome.team, f)
    <2>1. \A g \in Fields(input.form) : Kept(input.form, outcome.answers, outcome.team, g)
        BY <1>1, <1>3 DEF FormInv
    <2> QED BY <1>1, <1>2, <1>3, <2>1, MembersKeep
<1> HIDE DEF result
<1>4. (input.fresh \/ FALSE) /\ Sound(input.form) =>
        /\ \A f \in Fields(input.form) : Kept(input.form, result.stored, outcome.team, f)
        /\ "members" = "mandate" => CanSubmitMandate(input.form, result.stored)
    BY <1>3
<1> QED BY <1>1, <1>4, SavesKeep

\* For a team, in the words of the lemmas about it.
LEMMA KeptOfTeam ==
    ASSUME FormInv, AsIntended, outcome.team
    PROVE  KeptForTeam(input.form, outcome.answers)
<1>1. \A g \in Fields(input.form) : Kept(input.form, outcome.answers, outcome.team, g)
    BY DEF FormInv, AsIntended
<1>2. outcome.team = TRUE
    BY DEF FormInv, AsIntended
<1> QED BY <1>1, <1>2 DEF KeptForTeam

LEMMA FillMandateKeepsInv ==
    ASSUME FormInv, NEW raw \in Sent(input.form), FillMandate(raw)
    PROVE  FormInv'
<1> DEFINE result == SaveMandate(input.form, outcome.answers, raw)
<1>1. /\ arena = "form" /\ outcome.team /\ Saves("mandate", result, FALSE)
      /\ input.form \in Forms /\ outcome.team \in BOOLEAN
    BY DEF FillMandate, FormInv
<1>2. result.ok
    BY <1>1 DEF Saves
<1>3. ASSUME input.fresh, Sound(input.form)
      PROVE  /\ \A f \in Fields(input.form) : Kept(input.form, result.stored, TRUE, f)
             /\ CanSubmitMandate(input.form, result.stored)
    <2>1. KeptForTeam(input.form, outcome.answers)
        BY <1>1, <1>3, KeptOfTeam DEF AsIntended
    <2>2. \A g \in Fields(input.form) : Kept(input.form, outcome.answers, TRUE, g)
        BY <2>1 DEF KeptForTeam
    <2>3. \A f \in Fields(input.form) : Kept(input.form, result.stored, TRUE, f)
        BY <1>1, <1>2, <1>3, <2>2, MandateKeeps
    <2>4. CanSubmitMandate(input.form, result.stored)
        BY <1>1, <1>2, <1>3, SavedCanBeSubmitted
    <2> QED BY <2>3, <2>4
<1>4. outcome.team = TRUE
    BY <1>1
<1> HIDE DEF result
<1>5. (input.fresh \/ FALSE) /\ Sound(input.form) =>
        /\ \A f \in Fields(input.form) : Kept(input.form, result.stored, outcome.team, f)
        /\ "mandate" = "mandate" => CanSubmitMandate(input.form, result.stored)
    BY <1>3, <1>4
<1> QED BY <1>1, <1>5, SavesKeep

\* Without a team more is asked of what is kept.
LEMMA FinaliseKeepsInv ==
    ASSUME FormInv, Finalise
    PROVE  FormInv'
<1>1. /\ arena = "form" /\ ~outcome.team /\ arena' = arena
      /\ input' = [input EXCEPT !.last = "none"] /\ outcome' = [outcome EXCEPT !.team = TRUE]
    BY DEF Finalise
<1>2. /\ input = [form |-> input.form, last |-> input.last, fresh |-> input.fresh]
      /\ outcome = [team |-> outcome.team, answers |-> outcome.answers]
      /\ input.form \in Forms /\ input.fresh \in BOOLEAN /\ outcome.team \in BOOLEAN
    BY <1>1 DEF FormInv
<1>3. /\ input' = [form |-> input.form, last |-> "none", fresh |-> input.fresh]
      /\ outcome' = [team |-> TRUE, answers |-> outcome.answers]
    BY <1>1, <1>2
<1>4. /\ input'.form = input.form /\ input'.last = "none" /\ input'.fresh = input.fresh
      /\ outcome'.team = TRUE /\ outcome'.answers = outcome.answers
    BY <1>3
<1>5. ASSUME input.fresh, Sound(input.form), NEW f \in Fields(input.form)
      PROVE  Kept(input.form, outcome.answers, outcome'.team, f)
    <2>1. Kept(input.form, outcome.answers, outcome.team, f)
        BY <1>1, <1>5 DEF FormInv
    <2> QED BY <1>1, <1>4, <2>1 DEF Kept
<1>6. input'.fresh /\ Sound(input'.form) =>
        /\ \A f \in Fields(input'.form) : Kept(input'.form, outcome'.answers, outcome'.team, f)
        /\ input'.last = "mandate" => CanSubmitMandate(input'.form, outcome'.answers)
    BY <1>4, <1>5
<1> QED BY <1>2, <1>3, <1>4, <1>6 DEF FormInv

LEMMA ReconfigureKeepsInv ==
    ASSUME FormInv, NEW form \in Forms, Reconfigure(form)
    PROVE  FormInv'
<1>1. /\ arena = "form" /\ outcome' = outcome
      /\ input' = [form |-> form, last |-> "none", fresh |-> FALSE]
    BY DEF Reconfigure
<1>2. /\ outcome = [team |-> outcome.team, answers |-> outcome.answers] /\ outcome.team \in BOOLEAN
    BY <1>1 DEF FormInv
<1>3. input'.form = form /\ input'.last = "none" /\ input'.fresh = FALSE
    BY <1>1
<1> QED BY <1>1, <1>2, <1>3 DEF FormInv

LEMMA FormStep ==
    ASSUME FormInv, [FormNext]_arenaVars
    PROVE  FormInv'
<1>1. CASE UNCHANGED arenaVars
    BY <1>1 DEF arenaVars, FormInv
<1>2. CASE Finalise
    BY <1>2, FinaliseKeepsInv
<1>3. CASE \E raw \in Sent(input.form) : Fill(raw) \/ Correct(raw) \/ EditMembers(raw) \/ FillMandate(raw)
    BY <1>3, FillKeepsInv, CorrectKeepsInv, EditMembersKeepsInv, FillMandateKeepsInv
<1>4. CASE \E form \in Forms : Reconfigure(form)
    BY <1>4, ReconfigureKeepsInv
<1> QED BY <1>1, <1>2, <1>3, <1>4 DEF FormNext

\* What is stored under a sound form is what is to be kept.
THEOREM FormKeeps == FormSpec => []FormInv
<1> QED BY FormInitially, FormStep, PTL DEF FormSpec

\* No handler leaves an answer to a field that its condition hides.
THEOREM HiddenAnswersAreGone == FormSpec => []HiddenAnswersGone
<1>1. FormInv => HiddenAnswersGone
    BY DEF FormInv, HiddenAnswersGone, AsIntended, Kept
<1> QED BY <1>1, FormKeeps, PTL

\* A representative always finds answers with which the mandate is saved and submitted.
THEOREM MandateCanAlwaysBeCompleted == FormSpec => []MandateCanBeCompleted
<1>1. FormInv => MandateCanBeCompleted
    <2> SUFFICES ASSUME FormInv, AsIntended, outcome.team
                 PROVE  /\ \E raw \in Sent(input.form) :
                             /\ SaveMandate(input.form, outcome.answers, raw).ok
                             /\ CanSubmitMandate(input.form, SaveMandate(input.form, outcome.answers, raw).stored)
                        /\ input.last = "mandate" => CanSubmitMandate(input.form, outcome.answers)
        BY DEF MandateCanBeCompleted
    <2>1. input.form \in Forms /\ Sound(input.form)
        BY DEF FormInv, AsIntended
    <2>2. KeptForTeam(input.form, outcome.answers)
        BY KeptOfTeam
    <2>3. PICK raw \in Sent(input.form) : SaveMandate(input.form, outcome.answers, raw).ok
        BY <2>1, <2>2, MandateCanBeSaved
    <2>4. CanSubmitMandate(input.form, SaveMandate(input.form, outcome.answers, raw).stored)
        BY <2>1, <2>3, SavedCanBeSubmitted
    <2>5. input.last = "mandate" => CanSubmitMandate(input.form, outcome.answers)
        BY DEF FormInv, AsIntended
    <2> QED BY <2>3, <2>4, <2>5
<1> QED BY <1>1, FormKeeps, PTL

\* A mandate leaves the answers that the form locks as they are.
THEOREM LockedAnswersDoStay == FormSpec => LockedAnswersStay
<1>1. FormInv /\ [FormNext]_arenaVars =>
        [(AsIntended /\ input'.last = "mandate" /\ outcome'.answers # outcome.answers)
          => \A f \in Locked(input.form) : f.key \in DOMAIN outcome.answers =>
               AnswerTo(outcome'.answers, f.key) = AnswerTo(outcome.answers, f.key)]_arenaVars
    <2> SUFFICES ASSUME FormInv, FormNext, AsIntended, input'.last = "mandate",
                        outcome'.answers # outcome.answers,
                        NEW f \in Locked(input.form), f.key \in DOMAIN outcome.answers
                 PROVE  AnswerTo(outcome'.answers, f.key) = AnswerTo(outcome.answers, f.key)
        BY DEF arenaVars
    <2>1. /\ input = [form |-> input.form, last |-> input.last, fresh |-> input.fresh]
          /\ outcome = [team |-> outcome.team, answers |-> outcome.answers]
          /\ input.form \in Forms /\ Sound(input.form)
        BY DEF FormInv, AsIntended
    <2>2. \A operation, result, all : Saves(operation, result, all) => operation = "mandate"
        <3>1. ASSUME NEW operation, NEW result, NEW all, Saves(operation, result, all)
              PROVE  operation = "mandate"
            BY <2>1, <3>1 DEF Saves
        <3> QED BY <3>1
    <2>3. ~Finalise
        BY <2>1 DEF Finalise
    <2>4. \A form \in Forms : ~Reconfigure(form)
        BY DEF Reconfigure
    <2>5. PICK raw \in Sent(input.form) : FillMandate(raw)
        BY <2>2, <2>3, <2>4 DEF FormNext, Fill, Correct, EditMembers
    <2>6. /\ SaveMandate(input.form, outcome.answers, raw).ok /\ outcome.team
          /\ outcome'.answers = SaveMandate(input.form, outcome.answers, raw).stored
        BY <2>1, <2>5 DEF FillMandate, Saves
    <2>7. KeptForTeam(input.form, outcome.answers)
        BY <2>6, KeptOfTeam
    <2> QED BY <2>1, <2>6, <2>7, MandateKeepsLocked
<1> QED BY <1>1, FormKeeps, PTL DEF FormSpec, LockedAnswersStay
=============================================================================
