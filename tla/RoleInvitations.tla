-------------------------- MODULE RoleInvitations --------------------------
(***************************************************************************)
(* Who may do what in one competition: the memberships with their roles,   *)
(* judged elements and represented teams, the ownership, the invitations   *)
(* for people without an account, and the requests that change them.       *)
(*                                                                         *)
(* A SERIALIZABLE transaction is one step.  What a request reads before    *)
(* its transaction (the caller's authority, the invitation, the membership *)
(* it merges) is a step of its own: see OpenAcceptance and BeginAssign.    *)
(* The transactions of a judge, of the ownership, of an organiser who is   *)
(* removed and of a competitor who leaves are READ COMMITTED and have a    *)
(* step for each part that sees what others have committed.                *)
(* An e-mail address is the user it belongs to.                            *)
(***************************************************************************)
EXTENDS Naturals, FiniteSets

CONSTANTS
    Users,            \* people, with or without an account
    Admin,            \* a system administrator, who needs no membership
    Founder,          \* the owner of the competition at the start
    FirstAccounts,    \* those who have an account at the start
    Teams,
    Elements,         \* the scoring elements
    Athletes,         \* those whom rosters may name
    Requests,         \* what a role form or an invitation may ask for
    Added,            \* the roles that the members route is asked for
    Calls,            \* slots for requests under way
    MaxActs,          \* bound: requests of organisers and changes of rosters
    None

Editable == {"ORGANIZER", "JUDGE", "REPRESENTATIVE"}
Roles == Editable \cup {"OWNER", "COMPETITOR"}
Request == [roles: SUBSET Editable, elements: SUBSET Elements, teams: SUBSET Teams]

\* parseCompetitionRoleManagementRequest: a judge judges something, a
\* representative represents somebody, and nobody else does.
WellFormed(q) == /\ ("JUDGE" \in q.roles) = (q.elements # {})
                 /\ ("REPRESENTATIVE" \in q.roles) = (q.teams # {})

ASSUME RequestsAssumption == \A q \in Requests : q \in Request /\ WellFormed(q)
ASSUME PeopleAssumption == /\ Founder \in FirstAccounts /\ FirstAccounts \subseteq Users
                           /\ Athletes \subseteq Users /\ Added \subseteq SUBSET Roles
                           /\ \A roles \in Added : roles # {} /\ "OWNER" \notin roles
                           /\ Admin \notin Users /\ None \notin Users \cup {Admin}
                           /\ MaxActs \in Nat

VARIABLES
    accounts,   \* users with an account
    owner,      \* competition.organizerId
    rights,     \* memberships, representatives and invitations
    calls,      \* requests between their reads and their transaction
    acts,       \* how many of the bounded requests there have been
    named,      \* ghost: those whom someone entitled has made organisers
    crossed,    \* ghost: those whose membership changed under such a request
    contested   \* ghost: the last change of owner had found other owners

ghosts == <<named, crossed, contested>>
vars == <<accounts, owner, rights, calls, acts, ghosts>>

(* What the tables hold. *)

NoRights == [roles |-> {}, elements |-> {}]
NoRequest == [roles |-> {}, elements |-> {}, teams |-> {}]
Membership == [roles: SUBSET Roles, elements: SUBSET Elements]
Invitation == [token: 1..MaxActs, by: Users \cup {Admin},
               roles: SUBSET Editable, elements: SUBSET Elements, teams: SUBSET Teams,
               state: {"PENDING", "ACCEPTED", "REVOKED", "EXPIRED"}]
Rights == [member: [Users -> Membership \cup {None}],
           represents: [Teams -> Users \cup {None}],  \* TeamRepresentative
           awaiting: [Teams -> Users \cup {None}],    \* pendingRepresentativeEmail
           invited: [Users -> Invitation \cup {None}]]
ASSUME NoneAssumption == None \notin Membership \cup Invitation

Held(r, u) == IF r.member[u] = None THEN NoRights ELSE r.member[u]
TeamsOf(r, u) == {t \in Teams : r.represents[t] = u}

WithMember(r, u, membership) == [r EXCEPT !.member = [@ EXCEPT ![u] = membership]]

Without(r, role, people) ==
    [r EXCEPT !.member = [u \in Users |->
        IF u \in people /\ r.member[u] # None
        THEN [r.member[u] EXCEPT !.roles = r.member[u].roles \ {role}] ELSE r.member[u]]]

\* Memberships that give nothing any more are deleted.
Pruned(r, people) ==
    [r EXCEPT !.member = [u \in Users |->
        IF u \in people /\ Held(r, u) = NoRights /\ TeamsOf(r, u) = {}
        THEN None ELSE r.member[u]]]

(* Authority. *)

RolesOf(u) == IF u = Admin THEN {} ELSE Held(rights, u).roles
MayManage(u) == u = Admin \/ u = owner \/ RolesOf(u) \cap {"OWNER", "ORGANIZER"} # {}
MayAppointAsManager(u) == MayManage(u)
MayAppoint(u) == u = Admin \/ u = owner \/ "OWNER" \in RolesOf(u)

\* Ghost: who may appoint organisers, whatever the code asks of them.
Entitled(by) == by \in {Admin, owner} \/ "OWNER" \in RolesOf(by)

MayChangeOrganizer(u, q, entitled) ==
    entitled \/ (("ORGANIZER" \in RolesOf(u)) = ("ORGANIZER" \in q.roles))

(* Invitations. *)

\* getRoleInvitationState, and the database condition for a row that nobody
\* has accepted or revoked, whether it has expired or not.
Pending(i) == i # None /\ i.state = "PENDING"
Open(i) == i # None /\ i.state \in {"PENDING", "EXPIRED"}

\* invalidateRepresentativeInvitations: teams that are given or taken are
\* struck from the invitations of everybody but the one they are given to.
WithoutTeams(i, teams) ==
    LET left == i.teams \ teams
        roles == IF left = {} THEN i.roles \ {"REPRESENTATIVE"} ELSE i.roles
    IN [i EXCEPT !.teams = left, !.roles = roles,
                 !.state = IF roles = {} THEN "REVOKED" ELSE i.state]
Invalidated(invited, teams, keep) ==
    [u \in Users |->
        IF Open(invited[u]) /\ u # keep /\ teams \cap invited[u].teams # {}
        THEN WithoutTeams(invited[u], teams) ELSE invited[u]]

(* setTeamRepresentative, for one team after the other, whose order does   *)
(* not matter: the teams get u, or nobody and perhaps a pending address; a *)
(* former representative keeps the role only for other teams.              *)
SetRepresentative(r, teams, u, address, cleanup) ==
    LET given == [member |-> [v \in Users |->
                     IF v = u /\ teams # {}
                     THEN [roles |-> Held(r, v).roles \cup {"REPRESENTATIVE"},
                           elements |-> Held(r, v).elements]
                     ELSE r.member[v]],
                  represents |-> [t \in Teams |-> IF t \in teams THEN u ELSE r.represents[t]],
                  awaiting |-> [t \in Teams |-> IF t \in teams THEN address ELSE r.awaiting[t]],
                  invited |-> Invalidated(r.invited, teams, IF u = None THEN address ELSE u)]
        left == {v \in Users : /\ cleanup
                               /\ \E t \in teams : r.represents[t] = v
                               /\ TeamsOf(given, v) = {}}
    IN Pruned(Without(given, "REPRESENTATIVE", left), left)

(* The transaction of updateCompetitionMemberRoles, after its checks: the  *)
(* editable rights of u become those of q, whatever they were before, and  *)
(* elements and teams go with the roles for them.                          *)
Effective(q) ==
    [roles |-> q.roles,
     elements |-> IF "JUDGE" \in q.roles THEN q.elements ELSE {},
     teams |-> IF "REPRESENTATIVE" \in q.roles THEN q.teams ELSE {}]
Changeable(entitled) == IF entitled THEN Editable ELSE Editable \ {"ORGANIZER"}

UpdatedWithoutReleasing(r, u, q, entitled) ==
    LET judging == WithMember(r, u, [roles |-> Held(r, u).roles, elements |-> q.elements])
        given == SetRepresentative(judging, q.teams, u, None, TRUE)
        roles == (Held(given, u).roles \ Changeable(entitled)) \cup (q.roles \cap Changeable(entitled))
    IN Pruned(WithMember(given, u, [roles |-> roles, elements |-> q.elements]), {u})
Updated(r, u, q, entitled) ==
    IF r.member[u] = None /\ q.roles = {} THEN r
    ELSE LET judging == WithMember(r, u, [roles |-> Held(r, u).roles, elements |-> q.elements])
             released == SetRepresentative(judging, TeamsOf(r, u) \ q.teams, None, None, FALSE)
             given == SetRepresentative(released, q.teams, u, None, TRUE)
             roles == (Held(given, u).roles \ Changeable(entitled))
                         \cup (q.roles \cap Changeable(entitled))
         IN Pruned(WithMember(given, u, [roles |-> roles, elements |-> q.elements]), {u})

Idle == [kind |-> "idle"]
OfKind(c, kind) == calls[c].kind = kind

\* A judge's elements are deleted and not yet committed.
Waits(u) == \E c \in Calls : /\ OfKind(c, "unjudge") \/ OfKind(c, "prune")
                             /\ calls[c].user = u /\ calls[c].gone # {}

\* A role is deleted and not yet committed.
Deleting(u, roles) == \E c \in Calls : /\ OfKind(c, "prune") /\ calls[c].user = u
                                       /\ calls[c].role \in calls[c].seen.roles \cap roles
Done(c) == calls' = [calls EXCEPT ![c] = Idle]

\* An entitled act makes u an organiser or takes that from them.
Named(u, roles) == named' = IF "ORGANIZER" \in roles THEN named \cup {u} ELSE named \ {u}

\* Every request of an organiser counts; those of a person invited do not.
Acts == acts < MaxActs /\ acts' = acts + 1

Init ==
    /\ accounts = FirstAccounts
    /\ owner = Founder
    /\ rights = [member |-> [u \in Users |-> IF u = Founder
                              THEN [roles |-> {"OWNER", "ORGANIZER"}, elements |-> {}] ELSE None],
                 represents |-> [t \in Teams |-> None],
                 awaiting |-> [t \in Teams |-> None],
                 invited |-> [u \in Users |-> None]]
    /\ calls = [c \in Calls |-> Idle]
    /\ acts = 0
    /\ named = {Founder}
    /\ crossed = {} /\ contested = FALSE

(* Invitations: role-invitations/route.ts. *)

Invite(by, u, q) ==
    /\ MayManage(by) /\ u \notin accounts
    /\ q.roles # {} /\ ("ORGANIZER" \in q.roles => MayAppoint(by))
    /\ Acts
    /\ rights' = [rights EXCEPT !.invited[u] =
                    [token |-> acts', by |-> by, roles |-> q.roles,
                     elements |-> q.elements, teams |-> q.teams, state |-> "PENDING"]]
    /\ UNCHANGED <<accounts, owner, calls, ghosts>>

\* An accepted invitation stays accepted.
Revoke(by, u) ==
    LET i == rights.invited[u] IN
    /\ MayManage(by) /\ Open(i) /\ i.roles # {}
    /\ "ORGANIZER" \in i.roles => MayAppoint(by)
    /\ rights' = [rights EXCEPT !.invited[u].state = "REVOKED"]
    /\ Acts
    /\ UNCHANGED <<accounts, owner, calls, ghosts>>

\* Seven days have passed.
Expire(u) ==
    /\ Pending(rights.invited[u])
    /\ rights' = [rights EXCEPT !.invited[u].state = "EXPIRED"]
    /\ UNCHANGED <<accounts, owner, calls, acts, ghosts>>

(* Accepting an invitation: what is read first, then the transaction.      *)

Merged(u, i) ==  \* mergeCompetitionRoleInvitation
    [roles |-> (Held(rights, u).roles \cap Editable) \cup i.roles,
     elements |-> Held(rights, u).elements \cup i.elements,
     teams |-> TeamsOf(rights, u) \cup i.teams]

OpenAcceptance(c, u) ==
    LET i == rights.invited[u] IN
    /\ OfKind(c, "idle") /\ u \in accounts
    /\ Pending(i) /\ i.roles # {}
    /\ MayManage(i.by) /\ ("ORGANIZER" \in i.roles => MayAppoint(i.by))
    /\ calls' = [calls EXCEPT ![c] =
                   [kind |-> "accept", user |-> u, token |-> i.token, teams |-> i.teams,
                    want |-> Merged(u, i), had |-> Merged(u, NoRequest),
                    entitled |-> "ORGANIZER" \in i.roles, rightful |-> Entitled(i.by)]]
    /\ UNCHANGED <<accounts, owner, rights, acts, ghosts>>

\* The conditional update that uses the invitation up.
ClaimableByToken(q) ==
    LET i == rights.invited[q.user] IN Pending(i) /\ i.token = q.token
Claimable(q) ==
    LET i == rights.invited[q.user] IN
    Pending(i) /\ i.token = q.token /\ i.teams = q.teams
MayUpdate(q) == owner # q.user /\ MayChangeOrganizer(q.user, q.want, q.entitled)

Accept(c) ==
    LET q == calls[c]
        i == rights.invited[q.user]
    IN /\ OfKind(c, "accept") /\ MayUpdate(q) /\ Claimable(q)
       /\ ~Waits(q.user) /\ ~Deleting(q.user, Changeable(q.entitled))
       /\ rights' = Updated([rights EXCEPT !.invited[q.user].state = "ACCEPTED"],
                            q.user, Effective(q.want), q.entitled)
       /\ named' = IF "ORGANIZER" \in i.roles /\ q.rightful THEN named \cup {q.user} ELSE named
       /\ Done(c)
       /\ UNCHANGED <<accounts, owner, acts, crossed, contested>>

(* Assigning roles directly: PUT of roles/route.ts.                        *)

BeginAssign(c, by, u, q) ==
    /\ OfKind(c, "idle") /\ MayManage(by) /\ u \in accounts
    /\ calls' = [calls EXCEPT ![c] = [kind |-> "assign", user |-> u, want |-> q,
                                      entitled |-> MayAppoint(by), rightful |-> Entitled(by)]]
    /\ Acts
    /\ UNCHANGED <<accounts, owner, rights, ghosts>>

Assign(c) ==
    LET q == calls[c] IN
    /\ OfKind(c, "assign") /\ MayUpdate(q)
    /\ ~Waits(q.user) /\ ~Deleting(q.user, Changeable(q.entitled))
    /\ rights' = Updated(rights, q.user, Effective(q.want), q.entitled)
    /\ IF q.rightful THEN Named(q.user, q.want.roles) ELSE UNCHANGED named
    /\ calls' = [calls EXCEPT ![c] = [kind |-> "mark", user |-> q.user]]
    /\ UNCHANGED <<accounts, owner, acts, crossed, contested>>

\* The person's open invitation counts as used, in a statement of its own.
MarkInvitation(c) ==
    LET u == calls[c].user IN
    /\ OfKind(c, "mark")
    /\ rights' = IF Open(rights.invited[u])
                 THEN [rights EXCEPT !.invited[u].state = "ACCEPTED"] ELSE rights
    /\ Done(c)
    /\ UNCHANGED <<accounts, owner, acts, ghosts>>

\* Either transaction refuses and leaves everything as it was.
Refuse(c) ==
    LET q == calls[c] IN
    /\ \/ OfKind(c, "assign") /\ ~MayUpdate(q)
       \/ OfKind(c, "accept") /\ ~(MayUpdate(q) /\ Claimable(q))
    /\ Done(c)
    /\ UNCHANGED <<accounts, owner, rights, acts, ghosts>>

(* The older routes for one role each: members, judges, representatives.   *)

AddMember(by, u, roles) ==
    /\ MayAppoint(by) /\ u \in accounts /\ u # owner /\ ~Deleting(u, roles)
    /\ rights' = WithMember(rights, u, [roles |-> Held(rights, u).roles \cup roles,
                                         elements |-> Held(rights, u).elements])
    /\ named' = IF "ORGANIZER" \in roles /\ Entitled(by) THEN named \cup {u} ELSE named
    /\ Acts
    /\ UNCHANGED <<accounts, owner, calls, crossed, contested>>

GiveTeams(by, teams, u) ==
    /\ MayManage(by) /\ u \in accounts /\ teams # {}
    /\ rights' = SetRepresentative(rights, teams, u, None, TRUE)
    /\ Acts
    /\ UNCHANGED <<accounts, owner, calls, ghosts>>

TakeTeam(by, t) ==
    /\ MayManage(by)
    /\ rights' = SetRepresentative(rights, {t}, None, None, TRUE)
    /\ Acts
    /\ UNCHANGED <<accounts, owner, calls, ghosts>>

\* The organiser names a representative who has no account yet.
AwaitRepresentative(by, t, u) ==
    /\ MayManage(by) /\ u \notin accounts
    /\ rights' = SetRepresentative(rights, {t}, None, u, TRUE)
    /\ Acts
    /\ UNCHANGED <<accounts, owner, calls, ghosts>>

\* An account is created; signing in links the teams that wait for it.
SignIn(u) ==
    LET waiting == {t \in Teams : rights.awaiting[t] = u /\ rights.represents[t] = None} IN
    /\ u \notin accounts \/ waiting # {}
    /\ accounts' = accounts \cup {u}
    /\ rights' = SetRepresentative(rights, waiting, u, None, TRUE)
    /\ UNCHANGED <<owner, calls, acts, ghosts>>

\* A team's roster gains the account of u.
Compete(u) ==
    /\ u \in accounts /\ ~Deleting(u, {"COMPETITOR"})
    /\ rights' = WithMember(rights, u, [roles |-> Held(rights, u).roles \cup {"COMPETITOR"},
                                         elements |-> Held(rights, u).elements])
    /\ Acts
    /\ UNCHANGED <<accounts, owner, calls, ghosts>>

(* Judges: judges/route.ts, two READ COMMITTED transactions.  The rows that *)
(* one has deleted make whoever needs the same rows wait for its end.      *)

BeginSetJudge(c, by, u, elements) ==
    /\ OfKind(c, "idle") /\ MayManage(by) /\ u \in accounts /\ u # owner /\ elements # {}
    /\ calls' = [calls EXCEPT ![c] = [kind |-> "judge", user |-> u, elements |-> elements,
                                      seen |-> rights.member[u]]]
    /\ Acts
    /\ UNCHANGED <<accounts, owner, rights, ghosts>>

\* The membership of u is no longer what a request has seen.
Crosses(u, seen) == crossed' = IF rights.member[u] = seen THEN crossed ELSE crossed \cup {u}

\* The role and the elements are each added to what the statement found, when
\* the request began or after it had waited.
SetJudge(c) ==
    LET q == calls[c]
        u == q.user
        now == Held(rights, u)
        seen == IF q.seen = None THEN NoRights ELSE q.seen
    IN /\ OfKind(c, "judge") /\ ~Waits(u)
       /\ q.seen # None => rights.member[u] # None
       /\ \E asRole \in {seen, now}, asElements \in {seen, now} :
            rights' = WithMember(rights, u,
                [roles |-> now.roles \cup ({"JUDGE"} \ asRole.roles),
                 elements |-> (now.elements \ (asElements.elements \ q.elements))
                                 \cup (q.elements \ asElements.elements)])
       /\ Crosses(u, q.seen) /\ Done(c)
       /\ UNCHANGED <<accounts, owner, acts, named, contested>>

\* The membership is found and its elements are deleted.
BeginRemoveJudge(c, by, u) ==
    /\ OfKind(c, "idle") /\ MayManage(by) /\ rights.member[u] # None /\ ~Waits(u)
    /\ calls' = [calls EXCEPT ![c] = [kind |-> "unjudge", user |-> u, seen |-> rights.member[u],
                                      gone |-> rights.member[u].elements]]
    /\ Acts
    /\ UNCHANGED <<accounts, owner, rights, ghosts>>

\* The role is deleted, and what is left is counted.
CountRights(c) ==
    LET q == calls[c]
        left == rights.member[q.user]
    IN /\ OfKind(c, "unjudge") /\ left # None /\ ~Deleting(q.user, {"JUDGE"})
       /\ calls' = [calls EXCEPT ![c] =
            [kind |-> "prune", role |-> "JUDGE", user |-> q.user, seen |-> left, gone |-> q.gone,
             empty |-> /\ left.roles \subseteq {"JUDGE"} /\ left.elements \subseteq q.gone
                       /\ TeamsOf(rights, q.user) = {}]]
       /\ Crosses(q.user, q.seen)
       /\ UNCHANGED <<accounts, owner, rights, acts, named, contested>>

(* Organisers and competitors: members/route.ts and cleanupCompetitorRoles. *)
(* The role is deleted and what is left is counted, by roles and teams for  *)
(* the one and by roles alone for the other.                                *)

RemoveOrganizer(c, by, u) ==
    LET seen == rights.member[u] IN
    /\ OfKind(c, "idle") /\ MayAppoint(by) /\ u # owner
    /\ seen # None /\ ~Deleting(u, {"ORGANIZER"})
    /\ calls' = [calls EXCEPT ![c] =
         [kind |-> "prune", role |-> "ORGANIZER", user |-> u, seen |-> seen, gone |-> {},
          empty |-> seen.roles \subseteq {"ORGANIZER"} /\ TeamsOf(rights, u) = {}]]
    /\ Acts
    /\ UNCHANGED <<accounts, owner, rights, ghosts>>

\* A team's roster loses the account of u, who is in no other.
StopCompeting(c, u) ==
    LET seen == rights.member[u] IN
    /\ OfKind(c, "idle") /\ seen # None /\ ~Deleting(u, {"COMPETITOR"})
    /\ calls' = [calls EXCEPT ![c] =
         [kind |-> "prune", role |-> "COMPETITOR", user |-> u, seen |-> seen, gone |-> {},
          empty |-> seen.roles \subseteq {"COMPETITOR"}]]
    /\ Acts
    /\ UNCHANGED <<accounts, owner, rights, ghosts>>

\* A membership takes with it what it holds by now.
Dismissed(r, u) ==
    [WithMember(r, u, None) EXCEPT
        !.represents = [t \in Teams |-> IF @[t] = u THEN None ELSE @[t]]]

\* The membership is deleted if nothing was left, and all is committed.
Prune(c) ==
    LET q == calls[c]
        u == q.user
        now == rights.member[u]
        lost == {q.role} \cap q.seen.roles
    IN /\ OfKind(c, "prune") /\ now # None
       /\ rights' = IF q.empty THEN Dismissed(rights, u)
                    ELSE WithMember(rights, u, [roles |-> now.roles \ lost,
                                                elements |-> now.elements \ q.gone])
       /\ named' = IF "ORGANIZER" \in lost THEN named \ {u} ELSE named
       /\ Crosses(u, q.seen) /\ Done(c)
       /\ UNCHANGED <<accounts, owner, acts, contested>>

\* The membership has been deleted meanwhile.
MembershipGone(c) ==
    LET q == calls[c] IN
    /\ \/ OfKind(c, "judge") /\ q.seen # None
       \/ OfKind(c, "unjudge") \/ OfKind(c, "prune")
    /\ rights.member[q.user] = None
    /\ Done(c)
    /\ UNCHANGED <<accounts, owner, rights, acts, ghosts>>

(* Ownership: setCompetitionOwner, a READ COMMITTED transaction.  A second *)
(* one waits at the rows of the first, and afterwards deletes of the OWNER *)
(* roles either those it had found before it waited or those it finds now. *)

Owners == {u \in Users : "OWNER" \in Held(rights, u).roles}

BeginTransfer(c, by, u) ==
    /\ OfKind(c, "idle") /\ MayAppoint(by)
    /\ u = None => by = Admin
    /\ u \notin {None, owner} => "ORGANIZER" \in Held(rights, u).roles
    /\ calls' = [calls EXCEPT ![c] = [kind |-> "transfer", user |-> u, owners |-> Owners]]
    /\ Acts
    /\ UNCHANGED <<accounts, owner, rights, ghosts>>

\* The new OWNER row is inserted, so it must not be there.
Insertable(u, found) == u = None \/ u \in found \/ u \notin Owners

Transfer(c) ==
    LET u == calls[c].user IN
    /\ OfKind(c, "transfer")
    /\ \E found \in {calls[c].owners, Owners} :
         LET dropped == Without(rights, "OWNER", found)
             owned == IF u = None THEN dropped
                      ELSE WithMember(dropped, u, [roles |-> Held(dropped, u).roles \cup {"OWNER"},
                                                   elements |-> Held(dropped, u).elements])
         IN /\ Insertable(u, found)
            /\ rights' = Pruned(owned, found \ {u})
            /\ contested' = (found # Owners)
    /\ owner' = u
    /\ Done(c)
    /\ UNCHANGED <<accounts, acts, named, crossed>>

TransferFails(c) ==
    /\ OfKind(c, "transfer") /\ ~Insertable(calls[c].user, calls[c].owners)
    /\ Done(c)
    /\ UNCHANGED <<accounts, owner, rights, acts, ghosts>>

Next ==
    \/ \E c \in Calls : \/ Accept(c) \/ Assign(c) \/ MarkInvitation(c) \/ Refuse(c)
                        \/ SetJudge(c) \/ CountRights(c) \/ Prune(c) \/ MembershipGone(c)
                        \/ Transfer(c) \/ TransferFails(c)
    \/ \E u \in Users : \/ Expire(u) \/ SignIn(u)
                        \/ \E c \in Calls : OpenAcceptance(c, u)
    \/ \E u \in Athletes : Compete(u) \/ \E c \in Calls : StopCompeting(c, u)
    \/ \E by \in Users \cup {Admin} :
         \/ \E u \in Users :
              \/ Revoke(by, u)
              \/ \E c \in Calls : \/ RemoveOrganizer(c, by, u) \/ BeginRemoveJudge(c, by, u)
                                 \/ \E elements \in SUBSET Elements : BeginSetJudge(c, by, u, elements)
              \/ \E q \in Requests : \/ Invite(by, u, q)
                                     \/ \E c \in Calls : BeginAssign(c, by, u, q)
              \/ \E roles \in Added : AddMember(by, u, roles)
              \/ \E teams \in SUBSET Teams : GiveTeams(by, teams, u)
              \/ \E t \in Teams : AwaitRepresentative(by, t, u)
         \/ \E t \in Teams : TakeTeam(by, t)
         \/ \E c \in Calls, u \in Users \cup {None} : BeginTransfer(c, by, u)

Spec == Init /\ [][Next]_vars

-----------------------------------------------------------------------------
Call == [kind: {"idle"}]
        \cup [kind: {"accept"}, user: Users, token: 1..MaxActs,
              teams: SUBSET Teams, want: Request, had: Request, entitled: BOOLEAN, rightful: BOOLEAN]
        \cup [kind: {"assign"}, user: Users, want: Requests, entitled: BOOLEAN, rightful: BOOLEAN]
        \cup [kind: {"mark"}, user: Users]
        \cup [kind: {"judge"}, user: Users, elements: SUBSET Elements, seen: Membership \cup {None}]
        \cup [kind: {"unjudge"}, user: Users, seen: Membership, gone: SUBSET Elements]
        \cup [kind: {"prune"}, role: {"JUDGE", "ORGANIZER", "COMPETITOR"}, user: Users,
              seen: Membership, gone: SUBSET Elements, empty: BOOLEAN]
        \cup [kind: {"transfer"}, user: Users \cup {None}, owners: SUBSET Users]

TypeOK ==
    /\ accounts \in SUBSET Users
    /\ owner \in Users \cup {None}
    /\ rights \in Rights
    /\ calls \in [Calls -> Call]
    /\ acts \in 0..MaxActs
    /\ named \in SUBSET Users
    /\ crossed \in SUBSET Users
    /\ contested \in BOOLEAN

(***************************************************************************)
(* The parts of the tables that separate routes keep in step.  Whoever     *)
(* represents a team holds the role for it, and the team does not wait for *)
(* somebody else.  Who judges an element is a judge and, unless the        *)
(* members route is asked for bare roles, every judge judges an element    *)
(* and every representative represents a team; the owner holds OWNER and   *)
(* no membership is left with no role.  Excepted is who was given or lost  *)
(* rights while a judge was appointed, or a judge, an organiser or a       *)
(* competitor removed, between what that has seen and what it writes.      *)
(* Nobody but the owner holds OWNER, unless the last change of owner       *)
(* deleted the OWNER roles of before the one it had waited for.            *)
(***************************************************************************)
RightsAgree ==
    /\ \A t \in Teams : LET u == rights.represents[t] IN
          u # None => ("REPRESENTATIVE" \in Held(rights, u).roles /\ rights.awaiting[t] = None)
    /\ \A u \in Users \ crossed : LET has == Held(rights, u) IN
          /\ has.elements # {} => "JUDGE" \in has.roles
          /\ "JUDGE" \in has.roles \ UNION Added => has.elements # {}
          /\ "REPRESENTATIVE" \in has.roles \ UNION Added => TeamsOf(rights, u) # {}
          /\ rights.member[u] # None => has.roles # {}
    /\ owner \in Users \ crossed => owner \in Owners
    /\ ~contested => Owners \subseteq {owner}

(***************************************************************************)
(* The organisers are exactly those whom somebody entitled to appoint has  *)
(* made organisers, directly or by an invitation that was accepted as it   *)
(* then stood, and has not since deprived of the role: no merge, direct    *)
(* assignment or acceptance under way lets a co-organiser raise or lower   *)
(* anyone (mayChangeOrganizerRole).  Only a membership that was found      *)
(* empty and is deleted after it changed takes the role with it.           *)
(***************************************************************************)
Organizers == {u \in Users : "ORGANIZER" \in Held(rights, u).roles}
OrganizersAreNamed == Organizers \subseteq named /\ named \ crossed \subseteq Organizers

(***************************************************************************)
(* Accepting an invitation uses it up while it is open and the latest, and *)
(* adds to what the person has: all that it offers by then, which may be   *)
(* less than when it was read, and nothing else.  No right is lost that    *)
(* the person held when they opened it and holds still, and nobody else    *)
(* loses more than teams that go to the person.                            *)
(***************************************************************************)
AcceptanceIsTheUnion ==
    [][\A c \in Calls : (calls[c].kind = "accept" /\ calls'[c] = Idle /\ rights' # rights) =>
         LET q == calls[c]
             u == q.user
             i == rights.invited[u]
             before == Held(rights, u)
             after == Held(rights', u)
         IN /\ Pending(i) /\ i.token = q.token /\ rights'.invited[u].state = "ACCEPTED"
            /\ i.roles \subseteq after.roles
            /\ i.elements \subseteq after.elements
            /\ i.teams \subseteq TeamsOf(rights', u)
            /\ before.roles \cap (q.had.roles \cup (Roles \ Editable)) \subseteq after.roles
            /\ "JUDGE" \in after.roles => before.elements \cap q.had.elements \subseteq after.elements
            /\ TeamsOf(rights, u) \cap q.had.teams \subseteq TeamsOf(rights', u)
            /\ after.roles \subseteq before.roles \cup q.had.roles \cup i.roles
            /\ after.elements \subseteq before.elements \cup q.had.elements \cup i.elements
            /\ TeamsOf(rights', u) \subseteq TeamsOf(rights, u) \cup q.had.teams \cup i.teams
            /\ \A v \in Users \ {u} :
                 /\ Held(rights, v).roles \ {"REPRESENTATIVE"} \subseteq Held(rights', v).roles
                 /\ Held(rights', v).elements = Held(rights, v).elements
                 /\ TeamsOf(rights, v) \ TeamsOf(rights', v) \subseteq q.had.teams \cup i.teams
      ]_vars
=============================================================================
