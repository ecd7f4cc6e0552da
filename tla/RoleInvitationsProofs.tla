----------------------- MODULE RoleInvitationsProofs -----------------------
(***************************************************************************)
(* Theorems about RoleInvitations, for any people, teams, elements and     *)
(* requests, and any number of calls under way.                            *)
(*                                                                         *)
(* The operations on the tables are taken apart first: what each leaves of *)
(* the roles that people hold, of the teams they represent and of their    *)
(* invitations.  Between the reading of an invitation and its acceptance   *)
(* the invitation may only lose teams (Follows), so that an acceptance     *)
(* that finds its teams unchanged finds its roles unchanged as well.       *)
(***************************************************************************)
EXTENDS RoleInvitations, TLAPS

-----------------------------------------------------------------------------
(* The invariants.                                                         *)

\* RightsAgree, of any rights and any owner.
Sound(r, u) ==
    /\ Held(r, u).elements # {} => "JUDGE" \in Held(r, u).roles
    /\ "JUDGE" \in Held(r, u).roles \ UNION Added => Held(r, u).elements # {}
    /\ "REPRESENTATIVE" \in Held(r, u).roles \ UNION Added => TeamsOf(r, u) # {}
    /\ r.member[u] # None => Held(r, u).roles # {}
OwnersOf(r) == {u \in Users : "OWNER" \in Held(r, u).roles}
Agree(r, o, x, k) ==
    /\ \A t \in Teams : LET u == r.represents[t] IN
          u # None => ("REPRESENTATIVE" \in Held(r, u).roles /\ r.awaiting[t] = None)
    /\ \A u \in Users \ x : Sound(r, u)
    /\ o \in Users \ x => "OWNER" \in Held(r, o).roles
    /\ ~k => OwnersOf(r) \subseteq {o}

\* What is asked for or offered names the roles for its elements and teams,
\* and elements and teams for its roles.
Covered(q) == /\ q.elements # {} => "JUDGE" \in q.roles
              /\ q.teams # {} => "REPRESENTATIVE" \in q.roles
Used(q) == /\ "JUDGE" \in q.roles \ UNION Added => q.elements # {}
           /\ "REPRESENTATIVE" \in q.roles \ UNION Added => q.teams # {}
Complete(q) == Covered(q) /\ Used(q)

\* How an invitation may go on: it loses teams, and with the last of them
\* the role for them, or changes its state.
Follows(i, j) ==
    \/ j = i
    \/ /\ i # None /\ j # None
       /\ j.token = i.token /\ j.elements = i.elements
       /\ ("ORGANIZER" \in j.roles) = ("ORGANIZER" \in i.roles)
       /\ j.teams \subseteq i.teams
       /\ j.teams = i.teams => j.roles = i.roles
       /\ Complete(i) => Complete(j)
       /\ i.state = "ACCEPTED" => j.state = "ACCEPTED"

\* An acceptance under way knows what its invitation offers, unless the
\* invitation has lost teams since it was read.
Known(q, i) ==
    (i # None /\ i.token = q.token) =>
        /\ i.teams \subseteq q.teams
        /\ q.want.elements = q.had.elements \cup i.elements
        /\ ("ORGANIZER" \in i.roles) = q.entitled
        /\ i.teams = q.teams => q.want.roles = q.had.roles \cup i.roles
AcceptSound(q, invited, n, x) ==
    /\ q.token <= n
    /\ q.want.teams # {} => "REPRESENTATIVE" \in q.want.roles
    /\ q.user \notin x => Used(q.want)
    /\ q.want.roles # {}
    /\ q.want.teams = q.had.teams \cup q.teams
    /\ q.entitled => q.rightful
    /\ Known(q, invited[q.user])

\* What the removal of a role has seen still holds of whoever nobody else
\* has changed.
PruneSound(q, x) ==
    q.user \notin x => /\ q.gone = IF q.role = "JUDGE" THEN q.seen.elements ELSE {}
                       /\ q.empty = (q.seen.roles \subseteq {q.role})

CallSound(q, invited, n, x) ==
    /\ q.kind = "accept" => AcceptSound(q, invited, n, x)
    /\ q.kind = "assign" => q.entitled = q.rightful
    /\ q.kind = "judge" => q.elements # {}
    /\ q.kind = "unjudge" => q.gone = q.seen.elements
    /\ q.kind = "prune" => PruneSound(q, x)
CallsSound(cs, invited, n, x) == \A c \in Calls : CallSound(cs[c], invited, n, x)
InvitationsSound(invited, n) ==
    \A u \in Users : invited[u] # None => (Complete(invited[u]) /\ invited[u].token <= n)

OrganizersOf(r) == {u \in Users : "ORGANIZER" \in Held(r, u).roles}
Appointed(r, names, x) == OrganizersOf(r) \subseteq names /\ names \ x \subseteq OrganizersOf(r)

IInv == /\ TypeOK
        /\ Agree(rights, owner, crossed, contested)
        /\ Appointed(rights, named, crossed)
        /\ InvitationsSound(rights.invited, acts)
        /\ CallsSound(calls, rights.invited, acts, crossed)

-----------------------------------------------------------------------------
(* Memberships.                                                            *)

LEMMA NoneIsNobody == None \notin Users /\ None \notin Membership /\ None \notin Invitation
BY PeopleAssumption, NoneAssumption

LEMMA RightsShape ==
    ASSUME NEW r \in Rights
    PROVE  /\ r.member \in [Users -> Membership \cup {None}]
           /\ r.represents \in [Teams -> Users \cup {None}]
           /\ r.awaiting \in [Teams -> Users \cup {None}]
           /\ r.invited \in [Users -> Invitation \cup {None}]
           /\ r = [member |-> r.member, represents |-> r.represents,
                   awaiting |-> r.awaiting, invited |-> r.invited]
BY DEF Rights

LEMMA HeldType ==
    ASSUME NEW r \in Rights, NEW u \in Users
    PROVE  /\ Held(r, u) \in Membership
           /\ Held(r, u).roles \in SUBSET Roles
           /\ Held(r, u).elements \in SUBSET Elements
           /\ Held(r, u) = [roles |-> Held(r, u).roles, elements |-> Held(r, u).elements]
           /\ r.member[u] # None => Held(r, u) = r.member[u]
           /\ r.member[u] = None => Held(r, u).roles = {} /\ Held(r, u).elements = {}
<1>1. r.member[u] \in Membership \cup {None}
    BY RightsShape
<1>2. Held(r, u) \in Membership
    BY <1>1 DEF Held, NoRights, Membership
<1>3. r.member[u] = None => Held(r, u).roles = {} /\ Held(r, u).elements = {}
    BY DEF Held, NoRights
<1>4. r.member[u] # None => Held(r, u) = r.member[u]
    BY DEF Held
<1> QED BY <1>2, <1>3, <1>4 DEF Membership

\* Only the memberships of r changed.
SameButMembers(r, s) ==
    s.represents = r.represents /\ s.awaiting = r.awaiting /\ s.invited = r.invited

LEMMA SameTeams ==
    ASSUME NEW r, NEW s, s.represents = r.represents
    PROVE  \A u : TeamsOf(s, u) = TeamsOf(r, u)
BY DEF TeamsOf

\* WithMember sets the one membership.
LEMMA WithMemberEffect ==
    ASSUME NEW r \in Rights, NEW u \in Users, NEW m \in Membership \cup {None},
           NEW s, s = WithMember(r, u, m)
    PROVE  /\ s \in Rights
           /\ SameButMembers(r, s)
           /\ s.member[u] = m
           /\ m # None => Held(s, u) = m
           /\ m = None => Held(s, u) = NoRights
           /\ \A v \in Users \ {u} : s.member[v] = r.member[v] /\ Held(s, v) = Held(r, v)
<1> DEFINE members == [r.member EXCEPT ![u] = m]
<1>1. r.member \in [Users -> Membership \cup {None}]
    BY RightsShape
<1>2. members \in [Users -> Membership \cup {None}]
    BY <1>1
<1>3. s = [r EXCEPT !.member = members]
    BY DEF WithMember
<1>4. members[u] = m /\ \A v \in Users \ {u} : members[v] = r.member[v]
    BY <1>1
<1> HIDE DEF members
<1>5. s \in Rights /\ s.member = members /\ SameButMembers(r, s)
    BY <1>2, <1>3 DEF Rights, SameButMembers
<1>6. s.member[u] = m /\ \A v \in Users \ {u} : s.member[v] = r.member[v]
    BY <1>4, <1>5
<1>7. \A v \in Users \ {u} : Held(s, v) = Held(r, v)
    BY <1>6 DEF Held
<1>8. (m # None => Held(s, u) = m) /\ (m = None => Held(s, u) = NoRights)
    BY <1>6 DEF Held
<1> QED BY <1>5, <1>6, <1>7, <1>8

\* Without takes the role from the people named, and nothing else.
LEMMA WithoutEffect ==
    ASSUME NEW r \in Rights, NEW role \in Roles, NEW people,
           NEW s, s = Without(r, role, people)
    PROVE  /\ s \in Rights
           /\ SameButMembers(r, s)
           /\ \A v \in Users :
                /\ s.member[v] = None <=> r.member[v] = None
                /\ Held(s, v).elements = Held(r, v).elements
                /\ v \in people => Held(s, v).roles = Held(r, v).roles \ {role}
                /\ v \notin people => Held(s, v).roles = Held(r, v).roles
                /\ v \notin people => s.member[v] = r.member[v]
<1> DEFINE members == [u \in Users |->
        IF u \in people /\ r.member[u] # None
        THEN [r.member[u] EXCEPT !.roles = r.member[u].roles \ {role}] ELSE r.member[u]]
<1>1. r.member \in [Users -> Membership \cup {None}]
    BY RightsShape
<1>2. ASSUME NEW v \in Users
      PROVE  /\ members[v] \in Membership \cup {None}
             /\ members[v] = None <=> r.member[v] = None
             /\ v \notin people => members[v] = r.member[v]
             /\ (v \in people /\ r.member[v] # None) =>
                   /\ members[v].roles = r.member[v].roles \ {role}
                   /\ members[v].elements = r.member[v].elements
    <2>1. CASE r.member[v] = None
        BY <2>1
    <2>2. CASE r.member[v] # None
        <3>1. PICK m \in Membership : r.member[v] = m
            BY <1>1, <2>2
        <3>2. [m EXCEPT !.roles = m.roles \ {role}] =
                [roles |-> m.roles \ {role}, elements |-> m.elements]
            BY DEF Membership
        <3>3. [roles |-> m.roles \ {role}, elements |-> m.elements] \in Membership
            BY DEF Membership
        <3>4. members[v] = IF v \in people
                           THEN [roles |-> m.roles \ {role}, elements |-> m.elements] ELSE m
            BY <2>2, <3>1, <3>2
        <3> HIDE DEF members
        <3> QED BY <3>1, <3>3, <3>4, <2>2, NoneIsNobody
    <2> QED BY <2>1, <2>2
<1>3. members \in [Users -> Membership \cup {None}]
    BY <1>2
<1>4. s = [r EXCEPT !.member = members]
    BY DEF Without
<1> HIDE DEF members
<1>5. s \in Rights /\ s.member = members /\ SameButMembers(r, s)
    BY <1>3, <1>4 DEF Rights, SameButMembers
<1>6. ASSUME NEW v \in Users
      PROVE  /\ s.member[v] = None <=> r.member[v] = None
             /\ Held(s, v).elements = Held(r, v).elements
             /\ v \in people => Held(s, v).roles = Held(r, v).roles \ {role}
             /\ v \notin people => Held(s, v).roles = Held(r, v).roles
             /\ v \notin people => s.member[v] = r.member[v]
    BY <1>2, <1>5 DEF Held, NoRights
<1> QED BY <1>5, <1>6

\* Pruned deletes memberships, and what anyone holds stays what it was.
LEMMA PrunedEffect ==
    ASSUME NEW r \in Rights, NEW people, NEW s, s = Pruned(r, people)
    PROVE  /\ s \in Rights
           /\ SameButMembers(r, s)
           /\ \A v \in Users :
                /\ Held(s, v) = Held(r, v)
                /\ s.member[v] # None => s.member[v] = r.member[v]
                /\ v \notin people => s.member[v] = r.member[v]
                /\ (v \in people /\ Held(r, v) = NoRights /\ TeamsOf(r, v) = {})
                      => s.member[v] = None
<1> DEFINE members == [u \in Users |->
        IF u \in people /\ Held(r, u) = NoRights /\ TeamsOf(r, u) = {}
        THEN None ELSE r.member[u]]
<1>1. r.member \in [Users -> Membership \cup {None}]
    BY RightsShape
<1>2. members \in [Users -> Membership \cup {None}]
    BY <1>1
<1>3. \A v \in Users : members[v] =
          IF v \in people /\ Held(r, v) = NoRights /\ TeamsOf(r, v) = {}
          THEN None ELSE r.member[v]
    OBVIOUS
<1>4. s = [r EXCEPT !.member = members]
    BY DEF Pruned
<1> HIDE DEF members
<1>5. s \in Rights /\ s.member = members /\ SameButMembers(r, s)
    BY <1>2, <1>4 DEF Rights, SameButMembers
<1>6. ASSUME NEW v \in Users
      PROVE  /\ Held(s, v) = Held(r, v)
             /\ s.member[v] # None => s.member[v] = r.member[v]
             /\ v \notin people => s.member[v] = r.member[v]
             /\ (v \in people /\ Held(r, v) = NoRights /\ TeamsOf(r, v) = {})
                   => s.member[v] = None
    <2>1. s.member[v] = IF v \in people /\ Held(r, v) = NoRights /\ TeamsOf(r, v) = {}
                        THEN None ELSE r.member[v]
        BY <1>3, <1>5
    <2>2. Held(s, v) = IF s.member[v] = None THEN NoRights ELSE s.member[v]
        BY DEF Held
    <2>3. Held(r, v) = IF r.member[v] = None THEN NoRights ELSE r.member[v]
        BY DEF Held
    <2> QED BY <2>1, <2>2, <2>3
<1> QED BY <1>5, <1>6

-----------------------------------------------------------------------------
(* Invitations.                                                            *)

LEMMA InvitationShape ==
    ASSUME NEW i \in Invitation
    PROVE  /\ i.token \in 1..MaxActs /\ i.by \in Users \cup {Admin}
           /\ i.roles \in SUBSET Editable /\ i.elements \in SUBSET Elements
           /\ i.teams \in SUBSET Teams
           /\ i.state \in {"PENDING", "ACCEPTED", "REVOKED", "EXPIRED"}
           /\ i # None
BY NoneIsNobody DEF Invitation

LEMMA FollowsItself == ASSUME NEW i PROVE Follows(i, i)
BY DEF Follows

LEMMA FollowsOn ==
    ASSUME NEW i, NEW j, NEW k, Follows(i, j), Follows(j, k)
    PROVE  Follows(i, k)
<1>1. CASE j = i \/ k = j
    BY <1>1
<1>2. CASE j # i /\ k # j
    <2>1. /\ i # None /\ j # None
          /\ j.token = i.token /\ j.elements = i.elements
          /\ ("ORGANIZER" \in j.roles) = ("ORGANIZER" \in i.roles)
          /\ j.teams \subseteq i.teams
          /\ j.teams = i.teams => j.roles = i.roles
          /\ Complete(i) => Complete(j)
          /\ i.state = "ACCEPTED" => j.state = "ACCEPTED"
        BY <1>2 DEF Follows
    <2>2. /\ k # None
          /\ k.token = j.token /\ k.elements = j.elements
          /\ ("ORGANIZER" \in k.roles) = ("ORGANIZER" \in j.roles)
          /\ k.teams \subseteq j.teams
          /\ k.teams = j.teams => k.roles = j.roles
          /\ Complete(j) => Complete(k)
          /\ j.state = "ACCEPTED" => k.state = "ACCEPTED"
        BY <1>2 DEF Follows
    <2>3. k.teams = i.teams => (k.teams = j.teams /\ j.teams = i.teams)
        BY <2>1, <2>2
    <2> QED BY <2>1, <2>2, <2>3 DEF Follows
<1> QED BY <1>1, <1>2

\* An invitation in another state.
LEMMA StateFollows ==
    ASSUME NEW i \in Invitation, NEW st \in {"ACCEPTED", "REVOKED", "EXPIRED"},
           i.state = "ACCEPTED" => st = "ACCEPTED"
    PROVE  LET j == [i EXCEPT !.state = st] IN j \in Invitation /\ Follows(i, j) /\ j.state = st
<1> DEFINE j == [i EXCEPT !.state = st]
<1>1. j = [token |-> i.token, by |-> i.by, roles |-> i.roles, elements |-> i.elements,
           teams |-> i.teams, state |-> st]
    BY DEF Invitation
<1> HIDE DEF j
<1>2. j \in Invitation
    BY <1>1 DEF Invitation
<1>3. i # None /\ j # None
    BY <1>2, NoneIsNobody
<1>4. /\ j.token = i.token /\ j.elements = i.elements /\ j.roles = i.roles
      /\ j.teams = i.teams /\ j.state = st
    BY <1>1
<1>5. Follows(i, j)
    BY <1>3, <1>4 DEF Follows, Complete, Covered, Used
<1> QED BY <1>2, <1>4, <1>5 DEF j

\* Striking teams leaves an invitation that follows the one before.
LEMMA WithoutTeamsFollows ==
    ASSUME NEW i \in Invitation, NEW teams, teams \cap i.teams # {}, Open(i)
    PROVE  LET j == WithoutTeams(i, teams) IN j \in Invitation /\ Follows(i, j)
<1> DEFINE left == i.teams \ teams
           roles == IF left = {} THEN i.roles \ {"REPRESENTATIVE"} ELSE i.roles
           st == IF roles = {} THEN "REVOKED" ELSE i.state
           j == WithoutTeams(i, teams)
<1>0. j = [i EXCEPT !.teams = left, !.roles = roles, !.state = st]
    BY DEF WithoutTeams
<1>2. left \in SUBSET i.teams /\ left # i.teams
    OBVIOUS
<1>3. /\ roles \in SUBSET i.roles /\ i.roles \ {"REPRESENTATIVE"} \subseteq roles
      /\ roles = IF left = {} THEN i.roles \ {"REPRESENTATIVE"} ELSE i.roles
    OBVIOUS
<1>4. st \in {"REVOKED", i.state}
    OBVIOUS
<1> HIDE DEF left, roles, st, j
<1>1. j = [token |-> i.token, by |-> i.by, roles |-> roles, elements |-> i.elements,
           teams |-> left, state |-> st]
    BY <1>0 DEF Invitation
<1>5. j \in Invitation
    BY <1>1, <1>2, <1>3, <1>4 DEF Invitation
<1>6. i # None /\ j # None
    BY <1>5, NoneIsNobody
<1>7. ("ORGANIZER" \in roles) = ("ORGANIZER" \in i.roles)
    BY <1>3
<1>8. Complete(i) => Complete(j)
    BY <1>1, <1>2, <1>3 DEF Complete, Covered, Used
<1>9. i.state # "ACCEPTED"
    BY DEF Open
<1>10. Follows(i, j)
    BY <1>1, <1>2, <1>6, <1>7, <1>8, <1>9 DEF Follows
<1> QED BY <1>5, <1>10 DEF j

LEMMA InvalidatedEffect ==
    ASSUME NEW invited \in [Users -> Invitation \cup {None}], NEW teams, NEW keep
    PROVE  LET new == Invalidated(invited, teams, keep) IN
           /\ new \in [Users -> Invitation \cup {None}]
           /\ \A u \in Users : /\ Follows(invited[u], new[u])
                               /\ ~Open(invited[u]) => new[u] = invited[u]
<1> DEFINE new == Invalidated(invited, teams, keep)
<1>1. ASSUME NEW u \in Users
      PROVE  /\ new[u] \in Invitation \cup {None}
             /\ Follows(invited[u], new[u])
             /\ ~Open(invited[u]) => new[u] = invited[u]
    <2>1. new[u] = IF Open(invited[u]) /\ u # keep /\ teams \cap invited[u].teams # {}
                   THEN WithoutTeams(invited[u], teams) ELSE invited[u]
        BY DEF Invalidated
    <2>2. invited[u] \in Invitation \cup {None}
        OBVIOUS
    <2>3. CASE Open(invited[u]) /\ u # keep /\ teams \cap invited[u].teams # {}
        <3>1. invited[u] \in Invitation
            BY <2>2, <2>3 DEF Open
        <3> QED BY <2>1, <2>3, <3>1, WithoutTeamsFollows
    <2>4. CASE ~(Open(invited[u]) /\ u # keep /\ teams \cap invited[u].teams # {})
        BY <2>1, <2>2, <2>4, FollowsItself
    <2> QED BY <2>3, <2>4
<1>2. new = [u \in Users |-> new[u]]
    BY DEF Invalidated
<1> HIDE DEF new
<1>3. new \in [Users -> Invitation \cup {None}]
    BY <1>1, <1>2
<1> QED BY <1>1, <1>3 DEF new

-----------------------------------------------------------------------------
(* Teams given and taken.                                                  *)

\* The invitations of s are those of r, gone on.
InvitationsFollow(r, s) == \A u \in Users : Follows(r.invited[u], s.invited[u])

\* Whoever has the role for teams and none of them had it without before.
StillNeeded(r, s, v) ==
    ("REPRESENTATIVE" \in Held(s, v).roles /\ TeamsOf(s, v) = {}) =>
        ("REPRESENTATIVE" \in Held(r, v).roles /\ TeamsOf(r, v) = {})

\* setTeamRepresentative: the teams change hands; nobody gains or loses more
\* than the role for them, and whoever loses it represents nobody any more.
Given(r, s, teams, u, address, cleanup) ==
    /\ s \in Rights
    /\ \A t \in Teams : /\ s.represents[t] = IF t \in teams THEN u ELSE r.represents[t]
                        /\ s.awaiting[t] = IF t \in teams THEN address ELSE r.awaiting[t]
    /\ InvitationsFollow(r, s)
    /\ \A v \in Users : ~Open(r.invited[v]) => s.invited[v] = r.invited[v]
    /\ \A v \in Users :
         /\ Held(s, v).elements = Held(r, v).elements
         /\ Held(s, v).roles \ {"REPRESENTATIVE"} = Held(r, v).roles \ {"REPRESENTATIVE"}
         /\ v = u /\ teams # {} => "REPRESENTATIVE" \in Held(s, v).roles
         /\ "REPRESENTATIVE" \in Held(r, v).roles \ Held(s, v).roles => TeamsOf(s, v) = {}
         /\ s.member[v] # None /\ Held(s, v).roles = {} =>
              Held(r, v).elements # {} \/ (r.member[v] # None /\ Held(r, v).roles = {})
         /\ v # u => Held(s, v).roles \subseteq Held(r, v).roles
         /\ cleanup => StillNeeded(r, s, v)

LEMMA SetRepresentativeEffect ==
    ASSUME NEW r \in Rights, NEW teams \in SUBSET Teams, NEW u \in Users \cup {None},
           NEW address \in Users \cup {None}, NEW cleanup \in BOOLEAN,
           NEW s, s = SetRepresentative(r, teams, u, address, cleanup)
    PROVE  Given(r, s, teams, u, address, cleanup)
<1> DEFINE members == [v \in Users |->
                          IF v = u /\ teams # {}
                          THEN [roles |-> Held(r, v).roles \cup {"REPRESENTATIVE"},
                                elements |-> Held(r, v).elements]
                          ELSE r.member[v]]
           represents == [t \in Teams |-> IF t \in teams THEN u ELSE r.represents[t]]
           awaiting == [t \in Teams |-> IF t \in teams THEN address ELSE r.awaiting[t]]
           invited == Invalidated(r.invited, teams, IF u = None THEN address ELSE u)
           given == [member |-> members, represents |-> represents, awaiting |-> awaiting,
                     invited |-> invited]
           left == {v \in Users : /\ cleanup
                                  /\ \E t \in teams : r.represents[t] = v
                                  /\ TeamsOf(given, v) = {}}
           poorer == Without(given, "REPRESENTATIVE", left)
<1>1. s = Pruned(poorer, left)
    BY DEF SetRepresentative
<1>2. r.represents \in [Teams -> Users \cup {None}] /\ r.awaiting \in [Teams -> Users \cup {None}]
      /\ r.invited \in [Users -> Invitation \cup {None}]
    BY RightsShape
<1>3. members \in [Users -> Membership \cup {None}]
    <2>1. SUFFICES ASSUME NEW v \in Users PROVE members[v] \in Membership \cup {None}
        OBVIOUS
    <2>2. r.member[v] \in Membership \cup {None}
        BY RightsShape
    <2>3. Held(r, v).roles \cup {"REPRESENTATIVE"} \in SUBSET Roles
          /\ Held(r, v).elements \in SUBSET Elements
        BY HeldType DEF Roles, Editable
    <2> QED BY <2>2, <2>3 DEF Membership
<1>4. represents \in [Teams -> Users \cup {None}] /\ awaiting \in [Teams -> Users \cup {None}]
    BY <1>2
<1>5. /\ invited \in [Users -> Invitation \cup {None}]
      /\ \A v \in Users : /\ Follows(r.invited[v], invited[v])
                          /\ ~Open(r.invited[v]) => invited[v] = r.invited[v]
    BY <1>2, InvalidatedEffect
<1>6. given \in Rights /\ given.member = members
    BY <1>3, <1>4, <1>5 DEF Rights
<1>7. \A v \in Users :
         given.member[v] = IF v = u /\ teams # {}
                           THEN [roles |-> Held(r, v).roles \cup {"REPRESENTATIVE"},
                                 elements |-> Held(r, v).elements]
                           ELSE r.member[v]
    BY <1>6
<1>8. \A t \in Teams : /\ given.represents[t] = IF t \in teams THEN u ELSE r.represents[t]
                       /\ given.awaiting[t] = IF t \in teams THEN address ELSE r.awaiting[t]
    OBVIOUS
<1>9. given.invited = invited
    OBVIOUS
<1>10. /\ \A v \in left : v \in Users /\ TeamsOf(given, v) = {}
       /\ cleanup => \A v \in Users : (TeamsOf(given, v) = {} /\ v \notin left)
                                        => \A t \in teams : r.represents[t] # v
    OBVIOUS
<1> HIDE DEF members, represents, awaiting, invited, given, left, poorer
<1>11. /\ poorer \in Rights
       /\ SameButMembers(given, poorer)
       /\ \A v \in Users :
            /\ poorer.member[v] = None <=> given.member[v] = None
            /\ Held(poorer, v).elements = Held(given, v).elements
            /\ v \in left => Held(poorer, v).roles = Held(given, v).roles \ {"REPRESENTATIVE"}
            /\ v \notin left => Held(poorer, v).roles = Held(given, v).roles
            /\ v \notin left => poorer.member[v] = given.member[v]
    <2>1. poorer = Without(given, "REPRESENTATIVE", left)
        BY DEF poorer
    <2>2. "REPRESENTATIVE" \in Roles
        BY DEF Roles, Editable
    <2> QED BY <1>6, <2>1, <2>2, WithoutEffect
<1>12. /\ s \in Rights
       /\ SameButMembers(poorer, s)
       /\ \A v \in Users :
            /\ Held(s, v) = Held(poorer, v)
            /\ s.member[v] # None => s.member[v] = poorer.member[v]
            /\ (v \in left /\ Held(poorer, v) = NoRights /\ TeamsOf(poorer, v) = {})
                  => s.member[v] = None
    BY <1>1, <1>11, PrunedEffect
<1>13. s.represents = given.represents /\ s.awaiting = given.awaiting /\ s.invited = invited
    BY <1>9, <1>11, <1>12 DEF SameButMembers
<1>14. \A v : TeamsOf(s, v) = TeamsOf(given, v) /\ TeamsOf(poorer, v) = TeamsOf(given, v)
    BY <1>11, <1>13, SameTeams DEF SameButMembers
<1>15. ASSUME NEW v \in Users
       PROVE  /\ Held(s, v).elements = Held(r, v).elements
              /\ Held(s, v).roles \ {"REPRESENTATIVE"} = Held(r, v).roles \ {"REPRESENTATIVE"}
              /\ v = u /\ teams # {} => "REPRESENTATIVE" \in Held(s, v).roles
              /\ "REPRESENTATIVE" \in Held(r, v).roles \ Held(s, v).roles => TeamsOf(s, v) = {}
              /\ s.member[v] # None /\ Held(s, v).roles = {} =>
                   Held(r, v).elements # {} \/ (r.member[v] # None /\ Held(r, v).roles = {})
              /\ v # u => Held(s, v).roles \subseteq Held(r, v).roles
              /\ cleanup => StillNeeded(r, s, v)
    <2> DEFINE more == [roles |-> Held(r, v).roles \cup {"REPRESENTATIVE"},
                        elements |-> Held(r, v).elements]
    <2>1. more \in Membership
        <3>1. Held(r, v).roles \cup {"REPRESENTATIVE"} \in SUBSET Roles
              /\ Held(r, v).elements \in SUBSET Elements
            BY HeldType DEF Roles, Editable
        <3> QED BY <3>1 DEF Membership
    <2>2. more.roles = Held(r, v).roles \cup {"REPRESENTATIVE"} /\ more.elements = Held(r, v).elements
        OBVIOUS
    <2>3. given.member[v] = IF v = u /\ teams # {} THEN more ELSE r.member[v]
        BY <1>7
    <2> HIDE DEF more
    <2>4. Held(given, v) = IF v = u /\ teams # {} THEN more ELSE Held(r, v)
        BY <2>1, <2>3, NoneIsNobody DEF Held
    <2>5. /\ Held(given, v).elements = Held(r, v).elements
          /\ Held(given, v).roles = IF v = u /\ teams # {}
                                    THEN Held(r, v).roles \cup {"REPRESENTATIVE"}
                                    ELSE Held(r, v).roles
        BY <2>2, <2>4
    <2>6. /\ Held(s, v).elements = Held(r, v).elements
          /\ Held(s, v).roles = IF v \in left THEN Held(given, v).roles \ {"REPRESENTATIVE"}
                                ELSE Held(given, v).roles
        BY <1>11, <1>12, <2>5
    <2>7. v = u /\ teams # {} => v \notin left
        <3>1. SUFFICES ASSUME v = u, teams # {}, v \in left PROVE FALSE
            OBVIOUS
        <3>2. PICK t \in teams : TRUE
            BY <3>1
        <3>3. given.represents[t] = v
            BY <1>8, <3>1, <3>2
        <3> QED BY <1>10, <3>1, <3>2, <3>3 DEF TeamsOf
    <2>8. v \in left => TeamsOf(s, v) = {}
        BY <1>10, <1>14
    <2>9. Held(s, v).roles \ {"REPRESENTATIVE"} = Held(r, v).roles \ {"REPRESENTATIVE"}
        BY <2>5, <2>6
    <2>10. v = u /\ teams # {} => "REPRESENTATIVE" \in Held(s, v).roles
        BY <2>5, <2>6, <2>7
    <2>11. "REPRESENTATIVE" \in Held(r, v).roles \ Held(s, v).roles => TeamsOf(s, v) = {}
        BY <2>5, <2>6, <2>8
    <2>12. ASSUME s.member[v] # None, Held(s, v).roles = {}, Held(r, v).elements = {}
           PROVE  r.member[v] # None /\ Held(r, v).roles = {}
        <3>1. Held(s, v) = NoRights
            BY <1>12, <2>6, <2>12, HeldType DEF NoRights
        <3>2. v \notin left
            BY <1>10, <1>12, <1>14, <2>12, <3>1
        <3>3. Held(given, v).roles = {}
            BY <2>6, <2>12, <3>2
        <3>4. ~(v = u /\ teams # {})
            BY <2>5, <3>3
        <3>5. s.member[v] = r.member[v]
            BY <1>11, <1>12, <2>3, <2>12, <3>2, <3>4
        <3> QED BY <2>5, <2>12, <3>3, <3>4, <3>5
    <2>13. v # u => Held(s, v).roles \subseteq Held(r, v).roles
        BY <2>5, <2>6
    <2>14. ASSUME cleanup, "REPRESENTATIVE" \in Held(s, v).roles, TeamsOf(s, v) = {}
           PROVE  "REPRESENTATIVE" \in Held(r, v).roles /\ TeamsOf(r, v) = {}
        <3>1. v \notin left /\ TeamsOf(given, v) = {}
            BY <1>14, <2>6, <2>14
        <3>2. \A t \in Teams : r.represents[t] # v
            <4>1. ASSUME NEW t \in Teams, t \in teams PROVE r.represents[t] # v
                BY <1>10, <2>14, <3>1, <4>1
            <4>2. ASSUME NEW t \in Teams, t \notin teams PROVE r.represents[t] # v
                BY <1>8, <3>1, <4>2 DEF TeamsOf
            <4> QED BY <4>1, <4>2
        <3>3. ~(v = u /\ teams # {})
            <4>1. SUFFICES ASSUME v = u, NEW t \in teams PROVE FALSE
                OBVIOUS
            <4> QED BY <1>8, <3>1, <4>1 DEF TeamsOf
        <3> QED BY <2>5, <2>6, <2>14, <3>1, <3>2, <3>3 DEF TeamsOf
    <2> QED BY <2>6, <2>9, <2>10, <2>11, <2>12, <2>13, <2>14 DEF StillNeeded
<1>16. InvitationsFollow(r, s) /\ \A v \in Users : ~Open(r.invited[v]) => s.invited[v] = r.invited[v]
    BY <1>5, <1>13 DEF InvitationsFollow
<1>17. \A t \in Teams : /\ s.represents[t] = IF t \in teams THEN u ELSE r.represents[t]
                        /\ s.awaiting[t] = IF t \in teams THEN address ELSE r.awaiting[t]
    BY <1>8, <1>13
<1> QED BY <1>12, <1>15, <1>16, <1>17 DEF Given

-----------------------------------------------------------------------------
(* What keeps the tables in step.                                          *)

\* One membership changes, and goes on to carry what it is needed for.
LEMMA OneMemberAgrees ==
    ASSUME NEW r \in Rights, NEW s \in Rights, NEW o \in Users \cup {None}, NEW x, NEW y, NEW k,
           Agree(r, o, x, k), x \subseteq y, NEW u \in Users,
           SameButMembers(r, s),
           \A v \in Users \ {u} : s.member[v] = r.member[v] /\ Held(s, v) = Held(r, v),
           u \notin y => Sound(s, u),
           TeamsOf(r, u) # {} => "REPRESENTATIVE" \in Held(s, u).roles,
           (o = u /\ u \notin y) => "OWNER" \in Held(s, u).roles,
           "OWNER" \in Held(s, u).roles => "OWNER" \in Held(r, u).roles
    PROVE  Agree(s, o, y, k)
<1>1. ASSUME NEW t \in Teams, s.represents[t] # None
      PROVE  "REPRESENTATIVE" \in Held(s, s.represents[t]).roles /\ s.awaiting[t] = None
    <2>1. s.represents[t] = r.represents[t] /\ s.awaiting[t] = r.awaiting[t]
        BY DEF SameButMembers
    <2>2. "REPRESENTATIVE" \in Held(r, r.represents[t]).roles /\ r.awaiting[t] = None
        BY <1>1, <2>1 DEF Agree
    <2>3. r.represents[t] \in Users
        BY <1>1, <2>1, RightsShape
    <2>4. r.represents[t] = u => TeamsOf(r, u) # {}
        BY DEF TeamsOf
    <2> QED BY <2>1, <2>2, <2>3, <2>4
<1>2. ASSUME NEW v \in Users \ y
      PROVE  Sound(s, v)
    <2>1. CASE v = u
        BY <2>1
    <2>2. CASE v # u
        <3>1. Sound(r, v)
            BY DEF Agree
        <3>2. TeamsOf(s, v) = TeamsOf(r, v)
            BY SameTeams DEF SameButMembers
        <3> QED BY <2>2, <3>1, <3>2 DEF Sound
    <2> QED BY <2>1, <2>2
<1>3. o \in Users \ y => "OWNER" \in Held(s, o).roles
    <2>1. CASE o = u
        BY <2>1
    <2>2. CASE o # u
        BY <2>2 DEF Agree
    <2> QED BY <2>1, <2>2
<1>4. OwnersOf(s) \subseteq OwnersOf(r)
    BY DEF OwnersOf
<1>5. ~k => OwnersOf(s) \subseteq {o}
    BY <1>4 DEF Agree
<1> QED BY <1>1, <1>2, <1>3, <1>5 DEF Agree

LEMMA OneMemberOrganizers ==
    ASSUME NEW r, NEW s, NEW u \in Users,
           \A v \in Users \ {u} : Held(s, v) = Held(r, v)
    PROVE  /\ "ORGANIZER" \in Held(s, u).roles => OrganizersOf(s) = OrganizersOf(r) \cup {u}
           /\ "ORGANIZER" \notin Held(s, u).roles => OrganizersOf(s) = OrganizersOf(r) \ {u}
           /\ ("ORGANIZER" \in Held(s, u).roles) = ("ORGANIZER" \in Held(r, u).roles)
                => OrganizersOf(s) = OrganizersOf(r)
BY DEF OrganizersOf

\* Whether v keeps everything but, perhaps, the role for teams.
KeepsAllButTeams(r, s, v) ==
    /\ Held(s, v).elements = Held(r, v).elements
    /\ Held(s, v).roles \ {"REPRESENTATIVE"} = Held(r, v).roles \ {"REPRESENTATIVE"}

LEMMA KeepsRoles ==
    ASSUME NEW r, NEW s, NEW v, KeepsAllButTeams(r, s, v),
           NEW role \in Roles, role # "REPRESENTATIVE"
    PROVE  (role \in Held(s, v).roles) <=> (role \in Held(r, v).roles)
BY DEF KeepsAllButTeams

LEMMA GivenAgrees ==
    ASSUME NEW r \in Rights, NEW teams \in SUBSET Teams, NEW u \in Users \cup {None},
           NEW address \in Users \cup {None}, NEW s, Given(r, s, teams, u, address, TRUE),
           u # None => address = None,
           NEW o \in Users \cup {None}, NEW x, NEW k, Agree(r, o, x, k)
    PROVE  /\ Agree(s, o, x, k)
           /\ OrganizersOf(s) = OrganizersOf(r)
           /\ s \in Rights
           /\ InvitationsFollow(r, s)
<1>1. /\ s \in Rights
      /\ \A t \in Teams : /\ s.represents[t] = IF t \in teams THEN u ELSE r.represents[t]
                          /\ s.awaiting[t] = IF t \in teams THEN address ELSE r.awaiting[t]
      /\ InvitationsFollow(r, s)
    BY DEF Given
<1>2. \A v \in Users :
        /\ KeepsAllButTeams(r, s, v)
        /\ v = u /\ teams # {} => "REPRESENTATIVE" \in Held(s, v).roles
        /\ "REPRESENTATIVE" \in Held(r, v).roles \ Held(s, v).roles => TeamsOf(s, v) = {}
        /\ s.member[v] # None /\ Held(s, v).roles = {} =>
             Held(r, v).elements # {} \/ (r.member[v] # None /\ Held(r, v).roles = {})
        /\ StillNeeded(r, s, v)
    BY DEF Given, KeepsAllButTeams
<1>3. \A v \in Users, role \in {"OWNER", "ORGANIZER", "JUDGE"} :
         (role \in Held(s, v).roles) <=> (role \in Held(r, v).roles)
    BY <1>2, KeepsRoles DEF Roles, Editable
<1>4. ASSUME NEW t \in Teams, s.represents[t] # None
      PROVE  "REPRESENTATIVE" \in Held(s, s.represents[t]).roles /\ s.awaiting[t] = None
    <2>1. CASE t \in teams
        BY <1>1, <1>2, <1>4, <2>1
    <2>2. CASE t \notin teams
        <3> DEFINE w == r.represents[t]
        <3>1. s.represents[t] = w /\ s.awaiting[t] = r.awaiting[t]
            BY <1>1, <2>2
        <3>2. "REPRESENTATIVE" \in Held(r, w).roles /\ r.awaiting[t] = None
            BY <1>4, <3>1 DEF Agree
        <3>3. w \in Users
            BY <1>4, <3>1, RightsShape
        <3>4. t \in TeamsOf(s, w)
            BY <3>1 DEF TeamsOf
        <3> HIDE DEF w
        <3> QED BY <1>2, <3>1, <3>2, <3>3, <3>4
    <2> QED BY <2>1, <2>2
<1>5. ASSUME NEW v \in Users \ x PROVE Sound(s, v)
    <2>1. Sound(r, v)
        BY DEF Agree
    <2>2. Held(s, v).elements = Held(r, v).elements
        BY <1>2 DEF KeepsAllButTeams
    <2>3. /\ Held(s, v).elements # {} => "JUDGE" \in Held(s, v).roles
          /\ "JUDGE" \in Held(s, v).roles \ UNION Added => Held(s, v).elements # {}
          /\ s.member[v] # None => Held(s, v).roles # {}
        BY <1>2, <1>3, <2>1, <2>2 DEF Sound
    <2>4. "REPRESENTATIVE" \in Held(s, v).roles \ UNION Added => TeamsOf(s, v) # {}
        BY <1>2, <2>1 DEF Sound, StillNeeded
    <2> QED BY <2>3, <2>4 DEF Sound
<1>6. /\ o \in Users \ x => "OWNER" \in Held(s, o).roles
      /\ OwnersOf(s) = OwnersOf(r)
    BY <1>3 DEF Agree, OwnersOf
<1>7. OrganizersOf(s) = OrganizersOf(r)
    BY <1>3 DEF OrganizersOf
<1> QED BY <1>1, <1>4, <1>5, <1>6, <1>7 DEF Agree

LEMMA ChangeableRoles ==
    ASSUME NEW entitled \in BOOLEAN
    PROVE  /\ Changeable(entitled) \in SUBSET Editable
           /\ {"JUDGE", "REPRESENTATIVE"} \subseteq Changeable(entitled)
           /\ ("ORGANIZER" \in Changeable(entitled)) = entitled
BY DEF Changeable, Editable

\* Whether u asks for nothing and has nothing.
NothingAsked(r, u, q) == r.member[u] = None /\ q.roles = {}

\* updateCompetitionMemberRoles, unless nothing is asked: u has the teams and
\* elements asked for and, of the roles that may be changed, those asked for.
LEMMA UpdatedEffect ==
    ASSUME NEW r \in Rights, NEW u \in Users, NEW q \in Request, NEW entitled \in BOOLEAN,
           ~NothingAsked(r, u, q),
           NEW s, s = Updated(r, u, q, entitled)
    PROVE  /\ s \in Rights
           /\ InvitationsFollow(r, s)
           /\ \A v \in Users : ~Open(r.invited[v]) => s.invited[v] = r.invited[v]
           /\ \A t \in Teams :
                /\ s.represents[t] = IF t \in q.teams THEN u
                                     ELSE IF r.represents[t] = u THEN None ELSE r.represents[t]
                /\ s.awaiting[t] = IF t \in q.teams \/ r.represents[t] = u THEN None
                                   ELSE r.awaiting[t]
           /\ Held(s, u).elements = q.elements
           /\ Held(s, u).roles = (Held(r, u).roles \ Changeable(entitled))
                                    \cup (q.roles \cap Changeable(entitled))
           /\ (s.member[u] # None /\ Held(s, u).roles = {}) =>
                 q.elements # {} \/ TeamsOf(s, u) # {}
           /\ \A v \in Users \ {u} :
                /\ KeepsAllButTeams(r, s, v)
                /\ "REPRESENTATIVE" \in Held(r, v).roles \ Held(s, v).roles => TeamsOf(s, v) = {}
                /\ s.member[v] # None /\ Held(s, v).roles = {} =>
                     Held(r, v).elements # {} \/ (r.member[v] # None /\ Held(r, v).roles = {})
                /\ StillNeeded(r, s, v)
<1> DEFINE taught == [roles |-> Held(r, u).roles, elements |-> q.elements]
           judging == WithMember(r, u, taught)
           gone == TeamsOf(r, u) \ q.teams
           released == SetRepresentative(judging, gone, None, None, FALSE)
           given == SetRepresentative(released, q.teams, u, None, TRUE)
           roles == (Held(given, u).roles \ Changeable(entitled))
                       \cup (q.roles \cap Changeable(entitled))
           mine == [roles |-> roles, elements |-> q.elements]
           set == WithMember(given, u, mine)
<1>1. s = Pruned(set, {u})
    BY DEF Updated, NothingAsked
<1>2. /\ taught \in Membership /\ taught # None /\ taught.elements = q.elements
      /\ taught.roles = Held(r, u).roles
    <2>1. Held(r, u).roles \in SUBSET Roles
        BY HeldType
    <2>2. q.elements \in SUBSET Elements
        BY DEF Request
    <2>3. taught \in Membership
        BY <2>1, <2>2 DEF Membership
    <2> QED BY <2>3, NoneIsNobody
<1>3. gone \in SUBSET Teams /\ \A t \in Teams : t \in gone <=> r.represents[t] = u /\ t \notin q.teams
    BY DEF TeamsOf
<1>4. q.teams \in SUBSET Teams /\ q.roles \in SUBSET Editable /\ q.elements \in SUBSET Elements
    BY DEF Request
<1>5. mine.roles = roles /\ mine.elements = q.elements
    OBVIOUS
<1>6. Changeable(entitled) \in SUBSET Editable /\ "REPRESENTATIVE" \in Changeable(entitled)
    BY ChangeableRoles
<1> HIDE DEF taught, judging, gone, released, given
<1>7. /\ judging \in Rights
      /\ SameButMembers(r, judging)
      /\ Held(judging, u) = taught
      /\ \A v \in Users \ {u} : judging.member[v] = r.member[v] /\ Held(judging, v) = Held(r, v)
    BY <1>2, WithMemberEffect DEF judging
<1>8. /\ released \in Rights
      /\ \A t \in Teams :
           /\ released.represents[t] = IF t \in gone THEN None ELSE judging.represents[t]
           /\ released.awaiting[t] = IF t \in gone THEN None ELSE judging.awaiting[t]
      /\ InvitationsFollow(judging, released)
      /\ \A v \in Users : ~Open(judging.invited[v]) => released.invited[v] = judging.invited[v]
      /\ \A v \in Users :
           /\ Held(released, v).elements = Held(judging, v).elements
           /\ Held(released, v).roles \ {"REPRESENTATIVE"}
                = Held(judging, v).roles \ {"REPRESENTATIVE"}
           /\ "REPRESENTATIVE" \in Held(judging, v).roles \ Held(released, v).roles
                => TeamsOf(released, v) = {}
           /\ released.member[v] # None /\ Held(released, v).roles = {} =>
                Held(judging, v).elements # {}
                  \/ (judging.member[v] # None /\ Held(judging, v).roles = {})
           /\ Held(released, v).roles \subseteq Held(judging, v).roles
    <2>1. Given(judging, released, gone, None, None, FALSE)
        BY <1>3, <1>7, SetRepresentativeEffect DEF released
    <2> QED BY <2>1, NoneIsNobody DEF Given
<1>9. /\ given \in Rights
      /\ \A t \in Teams :
           /\ given.represents[t] = IF t \in q.teams THEN u ELSE released.represents[t]
           /\ given.awaiting[t] = IF t \in q.teams THEN None ELSE released.awaiting[t]
      /\ InvitationsFollow(released, given)
      /\ \A v \in Users : ~Open(released.invited[v]) => given.invited[v] = released.invited[v]
      /\ \A v \in Users :
           /\ Held(given, v).elements = Held(released, v).elements
           /\ Held(given, v).roles \ {"REPRESENTATIVE"}
                = Held(released, v).roles \ {"REPRESENTATIVE"}
           /\ "REPRESENTATIVE" \in Held(released, v).roles \ Held(given, v).roles
                => TeamsOf(given, v) = {}
           /\ given.member[v] # None /\ Held(given, v).roles = {} =>
                Held(released, v).elements # {}
                  \/ (released.member[v] # None /\ Held(released, v).roles = {})
           /\ StillNeeded(released, given, v)
    <2>1. Given(released, given, q.teams, u, None, TRUE)
        BY <1>4, <1>8, SetRepresentativeEffect DEF given
    <2> QED BY <2>1 DEF Given
<1>10. mine \in Membership /\ mine # None
    <2>1. Held(given, u).roles \in SUBSET Roles
        BY <1>9, HeldType
    <2>2. roles \in SUBSET Roles
        BY <1>4, <2>1 DEF Roles
    <2> HIDE DEF roles
    <2>3. mine \in Membership
        BY <1>4, <2>2 DEF Membership
    <2> QED BY <2>3, NoneIsNobody
<1> HIDE DEF mine, set
<1>11. /\ set \in Rights
       /\ SameButMembers(given, set)
       /\ Held(set, u) = mine
       /\ \A v \in Users \ {u} : set.member[v] = given.member[v] /\ Held(set, v) = Held(given, v)
    BY <1>9, <1>10, WithMemberEffect DEF set
<1>12. /\ s \in Rights
       /\ SameButMembers(set, s)
       /\ \A v \in Users :
            /\ Held(s, v) = Held(set, v)
            /\ v \notin {u} => s.member[v] = set.member[v]
            /\ (v \in {u} /\ Held(set, v) = NoRights /\ TeamsOf(set, v) = {}) => s.member[v] = None
    BY <1>1, <1>11, PrunedEffect
<1>13. /\ s.represents = given.represents /\ s.awaiting = given.awaiting
       /\ s.invited = given.invited /\ judging.invited = r.invited
       /\ judging.represents = r.represents /\ judging.awaiting = r.awaiting
    BY <1>7, <1>11, <1>12 DEF SameButMembers
<1>14. \A t \in Teams :
         /\ s.represents[t] = IF t \in q.teams THEN u
                              ELSE IF r.represents[t] = u THEN None ELSE r.represents[t]
         /\ s.awaiting[t] = IF t \in q.teams \/ r.represents[t] = u THEN None ELSE r.awaiting[t]
    BY <1>3, <1>8, <1>9, <1>13
<1>15. InvitationsFollow(r, s)
    <2>1. SUFFICES ASSUME NEW v \in Users PROVE Follows(r.invited[v], s.invited[v])
        BY DEF InvitationsFollow
    <2>2. Follows(r.invited[v], released.invited[v]) /\ Follows(released.invited[v], s.invited[v])
        BY <1>8, <1>9, <1>13 DEF InvitationsFollow
    <2> QED BY <2>2, FollowsOn
<1>16. \A v \in Users : ~Open(r.invited[v]) => s.invited[v] = r.invited[v]
    BY <1>8, <1>9, <1>13
<1>17. Held(s, u).elements = q.elements /\ Held(s, u).roles = roles
    BY <1>5, <1>11, <1>12
<1>18. Held(given, u).roles \ {"REPRESENTATIVE"} = Held(r, u).roles \ {"REPRESENTATIVE"}
    BY <1>2, <1>7, <1>8, <1>9
<1>19. roles = (Held(r, u).roles \ Changeable(entitled)) \cup (q.roles \cap Changeable(entitled))
    BY <1>6, <1>18
<1>20. ASSUME s.member[u] # None, Held(s, u).roles = {}, q.elements = {}
       PROVE  TeamsOf(s, u) # {}
    <2>1. Held(set, u) = NoRights
        BY <1>11, <1>12, <1>17, <1>20, HeldType DEF NoRights
    <2>2. TeamsOf(set, u) = TeamsOf(s, u)
        BY <1>12, SameTeams DEF SameButMembers
    <2> QED BY <1>12, <1>20, <2>1, <2>2
<1>21. ASSUME NEW v \in Users \ {u}
       PROVE  /\ KeepsAllButTeams(r, s, v)
              /\ "REPRESENTATIVE" \in Held(r, v).roles \ Held(s, v).roles => TeamsOf(s, v) = {}
              /\ s.member[v] # None /\ Held(s, v).roles = {} =>
                   Held(r, v).elements # {} \/ (r.member[v] # None /\ Held(r, v).roles = {})
              /\ StillNeeded(r, s, v)
    <2>1. Held(s, v) = Held(given, v) /\ s.member[v] = given.member[v]
          /\ Held(judging, v) = Held(r, v) /\ judging.member[v] = r.member[v]
        BY <1>7, <1>11, <1>12
    <2>2. KeepsAllButTeams(r, s, v)
        BY <1>8, <1>9, <2>1 DEF KeepsAllButTeams
    <2>3. TeamsOf(s, v) = TeamsOf(given, v)
        BY <1>13, SameTeams
    <2>4. TeamsOf(released, v) = {} => TeamsOf(given, v) = {}
        <3>1. SUFFICES ASSUME NEW t \in Teams, given.represents[t] = v
                       PROVE  released.represents[t] = v
            BY DEF TeamsOf
        <3> QED BY <1>9, <3>1
    <2>5. "REPRESENTATIVE" \in Held(r, v).roles \ Held(s, v).roles => TeamsOf(s, v) = {}
        BY <1>8, <1>9, <2>1, <2>3, <2>4
    <2>6. s.member[v] # None /\ Held(s, v).roles = {} =>
             Held(r, v).elements # {} \/ (r.member[v] # None /\ Held(r, v).roles = {})
        BY <1>8, <1>9, <2>1
    <2>7. TeamsOf(released, v) = TeamsOf(r, v)
        <3>1. \A t \in Teams : released.represents[t] = v <=> r.represents[t] = v
            BY <1>3, <1>8, <1>13, NoneIsNobody
        <3> QED BY <3>1 DEF TeamsOf
    <2>8. StillNeeded(r, s, v)
        <3>1. StillNeeded(released, given, v) /\ Held(released, v).roles \subseteq Held(r, v).roles
            BY <1>8, <1>9, <2>1
        <3> QED BY <2>1, <2>3, <2>7, <3>1 DEF StillNeeded
    <2> QED BY <2>2, <2>5, <2>6, <2>8
<1> HIDE DEF roles
<1> QED BY <1>12, <1>14, <1>15, <1>16, <1>17, <1>19, <1>20, <1>21

LEMMA NothingUpdated ==
    ASSUME NEW r, NEW u, NEW q, NEW entitled, NothingAsked(r, u, q)
    PROVE  Updated(r, u, q, entitled) = r
BY DEF Updated, NothingAsked

LEMMA UpdatedAgrees ==
    ASSUME NEW r \in Rights, NEW u \in Users, NEW q \in Request, NEW entitled \in BOOLEAN,
           NEW x, Covered(q), u \notin x => Used(q),
           NEW s, s = Updated(r, u, q, entitled),
           NEW o \in Users \cup {None}, o # u, NEW k, Agree(r, o, x, k)
    PROVE  /\ s \in Rights
           /\ InvitationsFollow(r, s)
           /\ Agree(s, o, x, k)
           /\ entitled /\ "ORGANIZER" \in q.roles => OrganizersOf(s) = OrganizersOf(r) \cup {u}
           /\ entitled /\ "ORGANIZER" \notin q.roles => OrganizersOf(s) = OrganizersOf(r) \ {u}
           /\ ~entitled => OrganizersOf(s) = OrganizersOf(r)
<1>1. CASE NothingAsked(r, u, q)
    <2>1. s = r
        BY <1>1, NothingUpdated
    <2>2. InvitationsFollow(r, s)
        BY <2>1, FollowsItself DEF InvitationsFollow
    <2>3. "ORGANIZER" \notin q.roles /\ u \notin OrganizersOf(r)
        BY <1>1 DEF NothingAsked, OrganizersOf, Held, NoRights
    <2> QED BY <2>1, <2>2, <2>3
<1>2. CASE ~NothingAsked(r, u, q)
    <2>1. /\ s \in Rights
          /\ InvitationsFollow(r, s)
          /\ \A t \in Teams :
               /\ s.represents[t] = IF t \in q.teams THEN u
                                    ELSE IF r.represents[t] = u THEN None ELSE r.represents[t]
               /\ s.awaiting[t] = IF t \in q.teams \/ r.represents[t] = u THEN None
                                  ELSE r.awaiting[t]
          /\ Held(s, u).elements = q.elements
          /\ Held(s, u).roles = (Held(r, u).roles \ Changeable(entitled))
                                   \cup (q.roles \cap Changeable(entitled))
          /\ (s.member[u] # None /\ Held(s, u).roles = {}) =>
                q.elements # {} \/ TeamsOf(s, u) # {}
        BY <1>2, UpdatedEffect
    <2>2. ASSUME NEW v \in Users \ {u}
          PROVE  /\ KeepsAllButTeams(r, s, v)
                 /\ "REPRESENTATIVE" \in Held(r, v).roles \ Held(s, v).roles => TeamsOf(s, v) = {}
                 /\ s.member[v] # None /\ Held(s, v).roles = {} =>
                      Held(r, v).elements # {} \/ (r.member[v] # None /\ Held(r, v).roles = {})
                 /\ StillNeeded(r, s, v)
        BY <1>2, UpdatedEffect
    <2>3. \A v \in Users \ {u}, role \in {"OWNER", "ORGANIZER", "JUDGE"} :
             (role \in Held(s, v).roles) <=> (role \in Held(r, v).roles)
        BY <2>2, KeepsRoles DEF Roles, Editable
    <2>4. /\ {"JUDGE", "REPRESENTATIVE"} \subseteq Changeable(entitled)
          /\ ("ORGANIZER" \in Changeable(entitled)) = entitled
          /\ "OWNER" \notin Changeable(entitled)
        BY ChangeableRoles DEF Editable
    <2>5. \A t \in Teams : s.represents[t] = u <=> t \in q.teams
        <3>1. u # None
            BY NoneIsNobody
        <3> QED BY <2>1, <3>1
    <2>6. TeamsOf(s, u) = q.teams
        BY <2>5 DEF TeamsOf, Request
    <2>7. /\ "REPRESENTATIVE" \in Held(s, u).roles <=> "REPRESENTATIVE" \in q.roles
          /\ "JUDGE" \in Held(s, u).roles <=> "JUDGE" \in q.roles
          /\ "OWNER" \in Held(s, u).roles <=> "OWNER" \in Held(r, u).roles
        BY <2>1, <2>4
    <2>8. ASSUME NEW t \in Teams, s.represents[t] # None
          PROVE  "REPRESENTATIVE" \in Held(s, s.represents[t]).roles /\ s.awaiting[t] = None
        <3>1. CASE t \in q.teams
            BY <2>1, <2>7, <3>1 DEF Covered
        <3>2. CASE t \notin q.teams
            <4> DEFINE w == r.represents[t]
            <4>1. s.represents[t] = w /\ w # u /\ s.awaiting[t] = r.awaiting[t]
                BY <2>1, <2>8, <3>2
            <4>2. "REPRESENTATIVE" \in Held(r, w).roles /\ r.awaiting[t] = None
                BY <2>8, <4>1 DEF Agree
            <4>3. w \in Users
                BY <2>8, <4>1, RightsShape
            <4>4. t \in TeamsOf(s, w)
                BY <4>1 DEF TeamsOf
            <4> HIDE DEF w
            <4> QED BY <2>2, <4>1, <4>2, <4>3, <4>4
        <3> QED BY <3>1, <3>2
    <2>9. ASSUME NEW v \in Users \ x PROVE Sound(s, v)
        <3>1. CASE v = u
            BY <2>1, <2>6, <2>7, <3>1 DEF Sound, Covered, Used
        <3>2. CASE v # u
            <4>1. Sound(r, v)
                BY DEF Agree
            <4>2. Held(s, v).elements = Held(r, v).elements
                BY <2>2, <3>2 DEF KeepsAllButTeams
            <4>3. /\ Held(s, v).elements # {} => "JUDGE" \in Held(s, v).roles
                  /\ "JUDGE" \in Held(s, v).roles \ UNION Added => Held(s, v).elements # {}
                  /\ s.member[v] # None => Held(s, v).roles # {}
                BY <2>2, <2>3, <3>2, <4>1, <4>2 DEF Sound
            <4>4. "REPRESENTATIVE" \in Held(s, v).roles \ UNION Added => TeamsOf(s, v) # {}
                BY <2>2, <3>2, <4>1 DEF Sound, StillNeeded
            <4> QED BY <4>3, <4>4 DEF Sound
        <3> QED BY <3>1, <3>2
    <2>10. o \in Users \ x => "OWNER" \in Held(s, o).roles
        BY <2>3 DEF Agree
    <2>11. Agree(s, o, x, k)
        <3>1. OwnersOf(s) = OwnersOf(r)
            BY <2>3, <2>7 DEF OwnersOf
        <3> QED BY <2>8, <2>9, <2>10, <3>1 DEF Agree
    <2>12. ("ORGANIZER" \in Held(s, u).roles) <=>
              (IF entitled THEN "ORGANIZER" \in q.roles ELSE "ORGANIZER" \in Held(r, u).roles)
        BY <2>1, <2>4
    <2>13. /\ entitled /\ "ORGANIZER" \in q.roles => OrganizersOf(s) = OrganizersOf(r) \cup {u}
           /\ entitled /\ "ORGANIZER" \notin q.roles => OrganizersOf(s) = OrganizersOf(r) \ {u}
           /\ ~entitled => OrganizersOf(s) = OrganizersOf(r)
        <3>1. \A v \in Users \ {u} :
                 ("ORGANIZER" \in Held(s, v).roles) <=> ("ORGANIZER" \in Held(r, v).roles)
            BY <2>3
        <3> QED BY <2>12, <3>1 DEF OrganizersOf
    <2> QED BY <2>1, <2>11, <2>13
<1> QED BY <1>1, <1>2

-----------------------------------------------------------------------------
(* What the invitations and the calls under way are known to be.           *)

LEMMA InvitationsGoOn ==
    ASSUME NEW r, NEW s, NEW n \in Nat, NEW m \in Nat, n <= m,
           r.invited \in [Users -> Invitation \cup {None}],
           InvitationsFollow(r, s), InvitationsSound(r.invited, n)
    PROVE  InvitationsSound(s.invited, m)
<1>1. SUFFICES ASSUME NEW u \in Users, s.invited[u] # None
               PROVE  Complete(s.invited[u]) /\ s.invited[u].token <= m
    BY DEF InvitationsSound
<1> DEFINE i == r.invited[u]
           j == s.invited[u]
<1>2. Follows(i, j)
    BY DEF InvitationsFollow
<1>3. i # None
    BY <1>1, <1>2 DEF Follows
<1>4. Complete(i) /\ i.token <= n
    BY <1>3 DEF InvitationsSound
<1>5. i.token \in Nat
    BY <1>3, InvitationShape, PeopleAssumption
<1>6. Complete(j) /\ j.token = i.token
    BY <1>2, <1>4 DEF Follows
<1> HIDE DEF i
<1> QED BY <1>4, <1>5, <1>6

LEMMA KnownGoesOn ==
    ASSUME NEW q, NEW i, NEW j, Follows(i, j), Known(q, i)
    PROVE  Known(q, j)
<1>1. CASE j = i
    BY <1>1
<1>2. CASE j # i
    <2>1. SUFFICES ASSUME j # None, j.token = q.token
                   PROVE  /\ j.teams \subseteq q.teams
                          /\ q.want.elements = q.had.elements \cup j.elements
                          /\ ("ORGANIZER" \in j.roles) = q.entitled
                          /\ j.teams = q.teams => q.want.roles = q.had.roles \cup j.roles
        BY DEF Known
    <2>2. /\ i # None /\ j.token = i.token /\ j.elements = i.elements
          /\ ("ORGANIZER" \in j.roles) = ("ORGANIZER" \in i.roles)
          /\ j.teams \subseteq i.teams
          /\ j.teams = i.teams => j.roles = i.roles
        BY <1>2 DEF Follows
    <2>3. /\ i.teams \subseteq q.teams
          /\ q.want.elements = q.had.elements \cup i.elements
          /\ ("ORGANIZER" \in i.roles) = q.entitled
          /\ i.teams = q.teams => q.want.roles = q.had.roles \cup i.roles
        BY <2>1, <2>2 DEF Known
    <2>4. j.teams = q.teams => i.teams = q.teams
        BY <2>2, <2>3
    <2> QED BY <2>2, <2>3, <2>4
<1> QED BY <1>1, <1>2

LEMMA CallShape ==
    ASSUME NEW q \in Call
    PROVE  /\ q.kind = "accept" =>
                /\ q.user \in Users /\ q.token \in 1..MaxActs /\ q.teams \in SUBSET Teams
                /\ q.want \in Request /\ q.had \in Request
                /\ q.entitled \in BOOLEAN /\ q.rightful \in BOOLEAN
           /\ q.kind = "assign" =>
                /\ q.user \in Users /\ q.want \in Requests
                /\ q.entitled \in BOOLEAN /\ q.rightful \in BOOLEAN
           /\ q.kind = "mark" => q.user \in Users
           /\ q.kind = "judge" =>
                q.user \in Users /\ q.elements \in SUBSET Elements /\ q.seen \in Membership \cup {None}
           /\ q.kind \in {"unjudge", "prune"} =>
                q.user \in Users /\ q.seen \in Membership /\ q.gone \in SUBSET Elements
           /\ q.kind = "prune" => q.empty \in BOOLEAN /\ q.role \in {"JUDGE", "ORGANIZER", "COMPETITOR"}
           /\ q.kind = "transfer" => q.user \in Users \cup {None} /\ q.owners \in SUBSET Users
BY DEF Call

\* Calls go on: the invitations follow, and a new call is sound itself.
LEMMA CallsGoOn ==
    ASSUME NEW cs \in [Calls -> Call], NEW ds, NEW r, NEW s, NEW n \in Nat, NEW m \in Nat, n <= m,
           NEW x, NEW y, x \subseteq y,
           InvitationsFollow(r, s), CallsSound(cs, r.invited, n, x),
           \A c \in Calls : ds[c] = cs[c] \/ CallSound(ds[c], s.invited, m, y)
    PROVE  CallsSound(ds, s.invited, m, y)
<1>1. ASSUME NEW c \in Calls, cs[c].kind = "accept"
      PROVE  AcceptSound(cs[c], s.invited, m, y)
    <2> DEFINE q == cs[c]
    <2>1. q.user \in Users /\ q.token \in Nat
        BY <1>1, CallShape, PeopleAssumption
    <2>2. AcceptSound(q, r.invited, n, x)
        BY <1>1 DEF CallsSound, CallSound
    <2>3. Follows(r.invited[q.user], s.invited[q.user])
        BY <2>1 DEF InvitationsFollow
    <2> HIDE DEF q
    <2>4. Known(q, s.invited[q.user])
        BY <2>2, <2>3, KnownGoesOn DEF AcceptSound
    <2>5. q.token <= m
        BY <2>1, <2>2 DEF AcceptSound
    <2>6. AcceptSound(q, s.invited, m, y)
        BY <2>2, <2>4, <2>5 DEF AcceptSound
    <2> QED BY <2>6 DEF q
<1>2. SUFFICES ASSUME NEW c \in Calls PROVE CallSound(ds[c], s.invited, m, y)
    BY DEF CallsSound
<1>3. CASE ds[c] = cs[c]
    <2>1. CallSound(cs[c], r.invited, n, x)
        BY DEF CallsSound
    <2>2. cs[c].kind = "prune" => PruneSound(cs[c], y)
        BY <2>1 DEF CallSound, PruneSound
    <2> QED BY <1>1, <1>3, <2>1, <2>2 DEF CallSound
<1>4. CASE ds[c] # cs[c]
    BY <1>4
<1> QED BY <1>3, <1>4

-----------------------------------------------------------------------------
(* The invariant is inductive: what every step has to show.                *)

LEMMA GoesOn ==
    ASSUME IInv,
           accounts' \in SUBSET Users, owner' \in Users \cup {None},
           rights' \in Rights, Agree(rights', owner', crossed', contested'),
           Appointed(rights', named', crossed'), named' \in SUBSET Users,
           crossed \subseteq crossed', crossed' \in SUBSET Users, contested' \in BOOLEAN,
           acts' \in Nat, acts <= acts', acts' <= MaxActs,
           InvitationsFollow(rights, rights'),
           calls' \in [Calls -> Call],
           \A c \in Calls : \/ calls'[c] = calls[c]
                            \/ CallSound(calls'[c], rights'.invited, acts', crossed')
    PROVE  IInv'
<1>1. /\ acts \in Nat /\ MaxActs \in Nat /\ rights \in Rights /\ calls \in [Calls -> Call]
    BY PeopleAssumption DEF IInv, TypeOK
<1>2. rights.invited \in [Users -> Invitation \cup {None}]
    BY <1>1, RightsShape
<1>3. InvitationsSound(rights'.invited, acts')
    BY <1>1, <1>2, InvitationsGoOn DEF IInv
<1>4. CallsSound(calls', rights'.invited, acts', crossed')
    BY <1>1, CallsGoOn DEF IInv
<1>5. TypeOK'
    BY <1>1 DEF TypeOK
<1> QED BY <1>3, <1>4, <1>5 DEF IInv

\* A step of Calls that replaces one call by one that is sound.
LEMMA OneCall ==
    ASSUME NEW cs \in [Calls -> Call], NEW c \in Calls, NEW x \in Call,
           NEW ds, ds = [cs EXCEPT ![c] = x]
    PROVE  /\ ds \in [Calls -> Call]
           /\ ds[c] = x
           /\ \A d \in Calls \ {c} : ds[d] = cs[d]
OBVIOUS

LEMMA IdleIsACall ==
    /\ Idle \in Call
    /\ \A invited, n, x : CallSound(Idle, invited, n, x)
BY DEF Idle, Call, CallSound

LEMMA ActsTaken ==
    ASSUME IInv, Acts
    PROVE  acts' \in Nat /\ acts <= acts' /\ acts' <= MaxActs /\ acts' \in 1..MaxActs /\ acts' = acts + 1
<1>1. acts \in Nat /\ MaxActs \in Nat
    BY PeopleAssumption DEF IInv, TypeOK
<1> QED BY <1>1 DEF Acts

LEMMA ActsKept ==
    ASSUME IInv, acts' = acts
    PROVE  acts' \in Nat /\ acts <= acts' /\ acts' <= MaxActs
<1>1. acts \in Nat /\ MaxActs \in Nat /\ acts <= MaxActs
    BY PeopleAssumption DEF IInv, TypeOK
<1> QED BY <1>1

\* What the invariant says of the state, for the steps below.
LEMMA TypedState ==
    ASSUME IInv
    PROVE  /\ rights \in Rights /\ calls \in [Calls -> Call] /\ acts \in Nat
           /\ accounts \in SUBSET Users /\ owner \in Users \cup {None} /\ named \in SUBSET Users
           /\ crossed \in SUBSET Users /\ contested \in BOOLEAN
           /\ Agree(rights, owner, crossed, contested) /\ Appointed(rights, named, crossed)
           /\ \A c \in Calls : CallSound(calls[c], rights.invited, acts, crossed)
BY PeopleAssumption DEF IInv, TypeOK, CallsSound

\* The rights stay; one call changes.
LEMMA CallChanges ==
    ASSUME IInv, UNCHANGED <<accounts, owner, rights, named, contested>>,
           crossed \subseteq crossed', crossed' \in SUBSET Users,
           acts' = acts \/ Acts,
           NEW c \in Calls, NEW x \in Call, calls' = [calls EXCEPT ![c] = x],
           CallSound(x, rights.invited, acts', crossed')
    PROVE  IInv'
<1>1. /\ acts' \in Nat /\ acts <= acts' /\ acts' <= MaxActs
    BY ActsTaken, ActsKept
<1>2. /\ calls' \in [Calls -> Call] /\ calls'[c] = x /\ \A d \in Calls \ {c} : calls'[d] = calls[d]
    BY TypedState, OneCall
<1>3. InvitationsFollow(rights, rights')
    BY FollowsItself DEF InvitationsFollow
<1>4. \A d \in Calls : \/ calls'[d] = calls[d]
                        \/ CallSound(calls'[d], rights'.invited, acts', crossed')
    BY <1>2
<1>5. Agree(rights', owner', crossed', contested') /\ Appointed(rights', named', crossed')
    BY TypedState DEF Agree, Appointed
<1>6. /\ rights' \in Rights /\ accounts' \in SUBSET Users /\ owner' \in Users \cup {None}
      /\ named' \in SUBSET Users /\ contested' \in BOOLEAN
    BY TypedState
<1> QED BY <1>1, <1>2, <1>3, <1>4, <1>5, <1>6, GoesOn

\* The calls stay; the rights change.
LEMMA RightsChange ==
    ASSUME IInv, UNCHANGED <<owner, calls, crossed, contested>>, accounts' \in SUBSET Users,
           acts' = acts \/ Acts,
           rights' \in Rights, InvitationsFollow(rights, rights'), named' \in SUBSET Users,
           Agree(rights', owner, crossed, contested), Appointed(rights', named', crossed)
    PROVE  IInv'
<1>1. /\ acts' \in Nat /\ acts <= acts' /\ acts' <= MaxActs
    BY ActsTaken, ActsKept
<1>2. /\ calls' \in [Calls -> Call] /\ \A d \in Calls : calls'[d] = calls[d]
    BY TypedState
<1>3. /\ owner' \in Users \cup {None} /\ crossed \subseteq crossed'
      /\ crossed' \in SUBSET Users /\ contested' \in BOOLEAN
      /\ Agree(rights', owner', crossed', contested') /\ Appointed(rights', named', crossed')
    BY TypedState
<1> QED BY <1>1, <1>2, <1>3, GoesOn

\* One call ends or turns into another while the rights change.
LEMMA CallAndRightsChange ==
    ASSUME IInv, UNCHANGED <<accounts, acts>>,
           owner' \in Users \cup {None}, contested' \in BOOLEAN,
           crossed \subseteq crossed', crossed' \in SUBSET Users, named' \in SUBSET Users,
           rights' \in Rights, InvitationsFollow(rights, rights'),
           Agree(rights', owner', crossed', contested'), Appointed(rights', named', crossed'),
           NEW c \in Calls, NEW x \in Call, calls' = [calls EXCEPT ![c] = x],
           CallSound(x, rights'.invited, acts, crossed')
    PROVE  IInv'
<1>1. /\ acts' \in Nat /\ acts <= acts' /\ acts' <= MaxActs
    BY ActsKept
<1>2. /\ calls' \in [Calls -> Call] /\ calls'[c] = x /\ \A d \in Calls \ {c} : calls'[d] = calls[d]
    BY TypedState, OneCall
<1>3. \A d \in Calls : \/ calls'[d] = calls[d]
                        \/ CallSound(calls'[d], rights'.invited, acts', crossed')
    BY <1>2
<1>4. accounts' \in SUBSET Users
    BY TypedState
<1> QED BY <1>1, <1>2, <1>3, <1>4, GoesOn

-----------------------------------------------------------------------------
(* Steps that change a call only.                                          *)

\* What an acceptance merges.
LEMMA MergedEffect ==
    ASSUME IInv, NEW u \in Users, NEW i,
           i.roles \in SUBSET Editable, i.elements \in SUBSET Elements, i.teams \in SUBSET Teams
    PROVE  Merged(u, i) \in Request
<1>1. Held(rights, u).elements \in SUBSET Elements
    BY TypedState, HeldType
<1>2. TeamsOf(rights, u) \in SUBSET Teams
    BY DEF TeamsOf
<1> QED BY <1>1, <1>2 DEF Merged, Request

LEMMA OpenAcceptanceStep ==
    ASSUME IInv, NEW c \in Calls, NEW u \in Users, OpenAcceptance(c, u)
    PROVE  IInv'
<1> DEFINE i == rights.invited[u]
           want == Merged(u, i)
           had == Merged(u, NoRequest)
           x == [kind |-> "accept", user |-> u, token |-> i.token, teams |-> i.teams,
                 want |-> want, had |-> had,
                 entitled |-> "ORGANIZER" \in i.roles, rightful |-> Entitled(i.by)]
<1>1. /\ Pending(i) /\ i.roles # {} /\ ("ORGANIZER" \in i.roles => MayAppoint(i.by))
      /\ calls' = [calls EXCEPT ![c] = x]
      /\ UNCHANGED <<accounts, owner, rights, acts, named, crossed, contested>>
    BY DEF OpenAcceptance, ghosts
<1>2. i # None /\ rights \in Rights
    BY <1>1, TypedState DEF Pending
<1>3. i \in Invitation
    <2>1. i \in Invitation \cup {None}
        BY <1>2, RightsShape
    <2> QED BY <1>2, <2>1
<1>4. Complete(i) /\ i.token <= acts
    BY <1>2 DEF IInv, InvitationsSound
<1>5. /\ i.token \in 1..MaxActs /\ i.roles \in SUBSET Editable /\ i.elements \in SUBSET Elements
      /\ i.teams \in SUBSET Teams
    BY <1>3, InvitationShape
<1>6. /\ want.roles = had.roles \cup i.roles
      /\ want.elements = had.elements \cup i.elements
      /\ want.teams = had.teams \cup i.teams
      /\ had.elements = Held(rights, u).elements /\ had.teams = TeamsOf(rights, u)
      /\ had.roles = Held(rights, u).roles \cap Editable
    BY DEF Merged, NoRequest
<1>7. want \in Request
    BY <1>5, MergedEffect
<1>8. had \in Request
    <2>1. /\ NoRequest.roles \in SUBSET Editable /\ NoRequest.elements \in SUBSET Elements
          /\ NoRequest.teams \in SUBSET Teams
        BY DEF NoRequest
    <2> QED BY <2>1, MergedEffect
<1>9. had.teams # {} => "REPRESENTATIVE" \in had.roles
    <2>1. ASSUME NEW t \in Teams, rights.represents[t] = u
          PROVE  "REPRESENTATIVE" \in Held(rights, u).roles
        BY <2>1, TypedState, NoneIsNobody DEF Agree
    <2> QED BY <1>6, <2>1 DEF TeamsOf, Editable
<1>10. u \notin crossed => Used(had)
    <2>1. u \notin crossed => Sound(rights, u)
        BY TypedState DEF Agree
    <2> QED BY <1>6, <2>1 DEF Sound, Used
<1>11. "ORGANIZER" \in i.roles => Entitled(i.by)
    BY <1>1 DEF MayAppoint, Entitled
<1>12. Entitled(i.by) \in BOOLEAN
    BY DEF Entitled
<1>13. x \in Call
    BY <1>5, <1>7, <1>8, <1>12 DEF Call
<1>14. /\ x.kind = "accept" /\ x.user = u /\ x.token = i.token /\ x.teams = i.teams
       /\ x.want = want /\ x.had = had /\ x.entitled = ("ORGANIZER" \in i.roles)
       /\ x.rightful = Entitled(i.by)
    OBVIOUS
<1> HIDE DEF want, had, x
<1>15. Known(x, i)
    BY <1>6, <1>14 DEF Known
<1>16. /\ want.teams # {} => "REPRESENTATIVE" \in want.roles
       /\ u \notin crossed => Used(want)
    BY <1>4, <1>6, <1>9, <1>10 DEF Complete, Covered, Used
<1>17. want.roles # {}
    BY <1>1, <1>6
<1>18. AcceptSound(x, rights.invited, acts', crossed')
    BY <1>1, <1>4, <1>6, <1>11, <1>14, <1>15, <1>16, <1>17 DEF AcceptSound
<1>19. CallSound(x, rights.invited, acts', crossed')
    BY <1>14, <1>18 DEF CallSound
<1> HIDE DEF i
<1> QED BY <1>1, <1>13, <1>19, TypedState, CallChanges

LEMMA BeginAssignStep ==
    ASSUME IInv, NEW c \in Calls, NEW by \in Users \cup {Admin}, NEW u \in Users,
           NEW q \in Requests, BeginAssign(c, by, u, q)
    PROVE  IInv'
<1> DEFINE x == [kind |-> "assign", user |-> u, want |-> q,
                 entitled |-> MayAppoint(by), rightful |-> Entitled(by)]
<1>1. /\ calls' = [calls EXCEPT ![c] = x] /\ Acts
      /\ UNCHANGED <<accounts, owner, rights, named, crossed, contested>>
    BY DEF BeginAssign, ghosts
<1>2. MayAppoint(by) = Entitled(by) /\ MayAppoint(by) \in BOOLEAN
    BY DEF MayAppoint, Entitled
<1>3. x \in Call /\ x.kind = "assign" /\ x.entitled = x.rightful
    BY <1>2 DEF Call
<1> HIDE DEF x
<1>4. CallSound(x, rights.invited, acts', crossed')
    BY <1>3 DEF CallSound
<1> QED BY <1>1, <1>3, <1>4, TypedState, CallChanges

\* A call that ends without an effect.
LEMMA CallEnds ==
    ASSUME IInv, NEW c \in Calls, Done(c), UNCHANGED <<accounts, owner, rights, acts, ghosts>>
    PROVE  IInv'
<1>1. calls' = [calls EXCEPT ![c] = Idle]
    BY DEF Done
<1>2. crossed' = crossed /\ named' = named /\ contested' = contested
    BY DEF ghosts
<1> QED BY <1>1, <1>2, IdleIsACall, TypedState, CallChanges

LEMMA RefuseStep == ASSUME IInv, NEW c \in Calls, Refuse(c) PROVE IInv'
BY CallEnds DEF Refuse

LEMMA TransferFailsStep == ASSUME IInv, NEW c \in Calls, TransferFails(c) PROVE IInv'
BY CallEnds DEF TransferFails

LEMMA MembershipGoneStep == ASSUME IInv, NEW c \in Calls, MembershipGone(c) PROVE IInv'
BY CallEnds DEF MembershipGone

LEMMA BeginTransferStep ==
    ASSUME IInv, NEW c \in Calls, NEW by \in Users \cup {Admin}, NEW u \in Users \cup {None},
           BeginTransfer(c, by, u)
    PROVE  IInv'
<1> DEFINE x == [kind |-> "transfer", user |-> u, owners |-> Owners]
<1>1. /\ calls' = [calls EXCEPT ![c] = x] /\ Acts
      /\ UNCHANGED <<accounts, owner, rights, named, crossed, contested>>
    BY DEF BeginTransfer, ghosts
<1>2. Owners \in SUBSET Users
    BY DEF Owners
<1>3. x \in Call /\ x.kind = "transfer"
    BY <1>2 DEF Call
<1> HIDE DEF x
<1>4. CallSound(x, rights.invited, acts', crossed')
    BY <1>3 DEF CallSound
<1> QED BY <1>1, <1>3, <1>4, TypedState, CallChanges

\* A judge's request begins, and counts what its deletions have left.
LEMMA BeginSetJudgeStep ==
    ASSUME IInv, NEW c \in Calls, NEW by \in Users \cup {Admin}, NEW u \in Users,
           NEW elements \in SUBSET Elements, BeginSetJudge(c, by, u, elements)
    PROVE  IInv'
<1> DEFINE x == [kind |-> "judge", user |-> u, elements |-> elements, seen |-> rights.member[u]]
<1>1. /\ calls' = [calls EXCEPT ![c] = x] /\ Acts /\ elements # {}
      /\ UNCHANGED <<accounts, owner, rights, named, crossed, contested>>
    BY DEF BeginSetJudge, ghosts
<1>2. rights.member[u] \in Membership \cup {None}
    BY TypedState, RightsShape
<1>3. x \in Call /\ x.kind = "judge" /\ x.elements = elements
    BY <1>2 DEF Call
<1> HIDE DEF x
<1>4. CallSound(x, rights.invited, acts', crossed')
    BY <1>1, <1>3 DEF CallSound
<1> QED BY <1>1, <1>3, <1>4, TypedState, CallChanges

LEMMA BeginRemoveJudgeStep ==
    ASSUME IInv, NEW c \in Calls, NEW by \in Users \cup {Admin}, NEW u \in Users,
           BeginRemoveJudge(c, by, u)
    PROVE  IInv'
<1> DEFINE m == rights.member[u]
           x == [kind |-> "unjudge", user |-> u, seen |-> m, gone |-> m.elements]
<1>1. /\ calls' = [calls EXCEPT ![c] = x] /\ Acts /\ m # None
      /\ UNCHANGED <<accounts, owner, rights, named, crossed, contested>>
    BY DEF BeginRemoveJudge, ghosts
<1>2. m \in Membership
    <2>1. m \in Membership \cup {None}
        BY TypedState, RightsShape
    <2> QED BY <1>1, <2>1
<1>3. m.elements \in SUBSET Elements
    BY <1>2 DEF Membership
<1> HIDE DEF m
<1>4. x \in Call /\ x.kind = "unjudge" /\ x.gone = x.seen.elements
    BY <1>2, <1>3 DEF Call
<1> HIDE DEF x
<1>5. CallSound(x, rights.invited, acts', crossed')
    BY <1>4 DEF CallSound
<1> QED BY <1>1, <1>4, <1>5, TypedState, CallChanges

LEMMA CrossesEffect ==
    ASSUME IInv, NEW u \in Users, NEW seen, Crosses(u, seen)
    PROVE  /\ crossed \subseteq crossed' /\ crossed' \in SUBSET Users
           /\ u \notin crossed' => u \notin crossed /\ rights.member[u] = seen
BY TypedState DEF Crosses

LEMMA CountRightsStep == ASSUME IInv, NEW c \in Calls, CountRights(c) PROVE IInv'
<1> DEFINE q == calls[c]
           u == q.user
           left == rights.member[u]
           empty == /\ left.roles \subseteq {"JUDGE"} /\ left.elements \subseteq q.gone
                    /\ TeamsOf(rights, u) = {}
           x == [kind |-> "prune", role |-> "JUDGE", user |-> u, seen |-> left, gone |-> q.gone, empty |-> empty]
<1>1. /\ q.kind = "unjudge" /\ left # None /\ calls' = [calls EXCEPT ![c] = x]
      /\ Crosses(u, q.seen)
      /\ UNCHANGED <<accounts, owner, rights, acts, named, contested>>
    BY DEF CountRights, OfKind
<1>2. q.user \in Users /\ q.seen \in Membership /\ q.gone \in SUBSET Elements
    BY <1>1, TypedState, CallShape
<1>3. q.gone = q.seen.elements
    BY <1>1, TypedState DEF CallSound
<1>4. left \in Membership
    <2>1. left \in Membership \cup {None}
        BY <1>2, TypedState, RightsShape
    <2> QED BY <1>1, <2>1
<1>5. left = Held(rights, u)
    BY <1>1 DEF Held
<1>6. "REPRESENTATIVE" \notin left.roles => TeamsOf(rights, u) = {}
    <2>1. ASSUME NEW t \in Teams, rights.represents[t] = u
          PROVE  "REPRESENTATIVE" \in Held(rights, u).roles
        BY <1>2, <2>1, TypedState, NoneIsNobody DEF Agree
    <2> QED BY <1>5, <2>1 DEF TeamsOf
<1>7. /\ crossed \subseteq crossed' /\ crossed' \in SUBSET Users
      /\ u \notin crossed' => left = q.seen
    BY <1>1, <1>2, CrossesEffect
<1> HIDE DEF q, u, left
<1>8. u \notin crossed' => (empty <=> left.roles \subseteq {"JUDGE"})
    <2>1. CASE "REPRESENTATIVE" \in left.roles
        BY <2>1
    <2>2. CASE "REPRESENTATIVE" \notin left.roles
        <3>1. TeamsOf(rights, u) = {}
            BY <1>6, <2>2
        <3>2. u \notin crossed' => left.elements \subseteq q.gone
            BY <1>3, <1>7
        <3> QED BY <3>1, <3>2
    <2> QED BY <2>1, <2>2
<1>9. empty \in BOOLEAN
    OBVIOUS
<1> HIDE DEF empty
<1>10. x \in Call
    BY <1>2, <1>4, <1>9 DEF Call, u
<1>11. /\ x.kind = "prune" /\ x.role = "JUDGE" /\ x.user = u /\ x.seen = left
       /\ x.gone = q.gone /\ x.empty = empty
    OBVIOUS
<1> HIDE DEF x
<1>12. PruneSound(x, crossed')
    <2>1. u \notin crossed' => x.gone = x.seen.elements
        BY <1>3, <1>7, <1>11
    <2>2. u \notin crossed' => x.empty = (x.seen.roles \subseteq {"JUDGE"})
        BY <1>8, <1>9, <1>11
    <2> QED BY <1>11, <2>1, <2>2 DEF PruneSound
<1>13. CallSound(x, rights.invited, acts', crossed')
    BY <1>11, <1>12 DEF CallSound
<1> QED BY <1>1, <1>7, <1>10, <1>13, CallChanges

\* An organiser's or a competitor's role is deleted and the rest is counted.
LEMMA RemoveOrganizerStep ==
    ASSUME IInv, NEW c \in Calls, NEW by \in Users \cup {Admin}, NEW u \in Users,
           RemoveOrganizer(c, by, u)
    PROVE  IInv'
<1> DEFINE seen == rights.member[u]
           empty == seen.roles \subseteq {"ORGANIZER"} /\ TeamsOf(rights, u) = {}
           x == [kind |-> "prune", role |-> "ORGANIZER", user |-> u, seen |-> seen, gone |-> {},
                 empty |-> empty]
<1>1. /\ seen # None /\ calls' = [calls EXCEPT ![c] = x] /\ Acts
      /\ UNCHANGED <<accounts, owner, rights, named, crossed, contested>>
    BY DEF RemoveOrganizer, ghosts
<1>2. seen \in Membership
    <2>1. seen \in Membership \cup {None}
        BY TypedState, RightsShape
    <2> QED BY <1>1, <2>1
<1>3. seen = Held(rights, u)
    BY <1>1 DEF Held
<1>4. "REPRESENTATIVE" \notin seen.roles => TeamsOf(rights, u) = {}
    <2>1. ASSUME NEW t \in Teams, rights.represents[t] = u
          PROVE  "REPRESENTATIVE" \in Held(rights, u).roles
        BY <2>1, TypedState, NoneIsNobody DEF Agree
    <2> QED BY <1>3, <2>1 DEF TeamsOf
<1> HIDE DEF seen
<1>5. empty <=> seen.roles \subseteq {"ORGANIZER"}
    BY <1>4
<1>6. empty \in BOOLEAN
    OBVIOUS
<1> HIDE DEF empty
<1>7. x \in Call
    BY <1>2, <1>6 DEF Call
<1>8. /\ x.kind = "prune" /\ x.role = "ORGANIZER" /\ x.seen = seen
      /\ x.gone = {} /\ x.empty = empty
    OBVIOUS
<1> HIDE DEF x
<1>9. PruneSound(x, crossed')
    BY <1>5, <1>6, <1>8 DEF PruneSound
<1>10. CallSound(x, rights.invited, acts', crossed')
    BY <1>8, <1>9 DEF CallSound
<1> QED BY <1>1, <1>7, <1>10, TypedState, CallChanges

LEMMA StopCompetingStep ==
    ASSUME IInv, NEW c \in Calls, NEW u \in Users, StopCompeting(c, u)
    PROVE  IInv'
<1> DEFINE seen == rights.member[u]
           empty == seen.roles \subseteq {"COMPETITOR"}
           x == [kind |-> "prune", role |-> "COMPETITOR", user |-> u, seen |-> seen, gone |-> {},
                 empty |-> empty]
<1>1. /\ seen # None /\ calls' = [calls EXCEPT ![c] = x] /\ Acts
      /\ UNCHANGED <<accounts, owner, rights, named, crossed, contested>>
    BY DEF StopCompeting, ghosts
<1>2. seen \in Membership
    <2>1. seen \in Membership \cup {None}
        BY TypedState, RightsShape
    <2> QED BY <1>1, <2>1
<1> HIDE DEF seen
<1>3. empty \in BOOLEAN
    OBVIOUS
<1>4. x \in Call
    BY <1>2, <1>3 DEF Call
<1>5. /\ x.kind = "prune" /\ x.role = "COMPETITOR" /\ x.seen = seen
      /\ x.gone = {} /\ x.empty = empty
    OBVIOUS
<1> HIDE DEF x
<1>6. PruneSound(x, crossed')
    BY <1>5 DEF PruneSound
<1>7. CallSound(x, rights.invited, acts', crossed')
    BY <1>5, <1>6 DEF CallSound
<1> QED BY <1>1, <1>4, <1>7, TypedState, CallChanges

-----------------------------------------------------------------------------
(* Steps that change an invitation only.                                   *)

LEMMA SameMembers ==
    ASSUME NEW r, NEW s, s.member = r.member, s.represents = r.represents,
           s.awaiting = r.awaiting, NEW o, NEW x, NEW k
    PROVE  /\ \A v : Held(s, v) = Held(r, v)
           /\ Agree(s, o, x, k) <=> Agree(r, o, x, k)
           /\ OrganizersOf(s) = OrganizersOf(r)
<1>1. \A v : Held(s, v) = Held(r, v) /\ TeamsOf(s, v) = TeamsOf(r, v)
    BY DEF Held, TeamsOf
<1>2. Agree(s, o, x, k) <=> Agree(r, o, x, k)
    <2>1. OwnersOf(s) = OwnersOf(r)
        BY <1>1 DEF OwnersOf
    <2>2. \A v : Sound(s, v) <=> Sound(r, v)
        BY <1>1 DEF Sound
    <2> QED BY <1>1, <2>1, <2>2 DEF Agree
<1>3. OrganizersOf(s) = OrganizersOf(r)
    BY <1>1 DEF OrganizersOf
<1> QED BY <1>1, <1>2, <1>3

WithInvitation(r, u, j) == [r EXCEPT !.invited[u] = j]
WithState(r, u, st) == [r EXCEPT !.invited[u].state = st]

LEMMA OneInvitation ==
    ASSUME NEW r \in Rights, NEW u \in Users, NEW j \in Invitation,
           NEW s, s = WithInvitation(r, u, j)
    PROVE  /\ s \in Rights
           /\ s.member = r.member /\ s.represents = r.represents /\ s.awaiting = r.awaiting
           /\ s.invited[u] = j
           /\ \A v \in Users \ {u} : s.invited[v] = r.invited[v]
<1> DEFINE invited == [r.invited EXCEPT ![u] = j]
<1>1. r.invited \in [Users -> Invitation \cup {None}]
    BY RightsShape
<1>2. /\ invited \in [Users -> Invitation \cup {None}]
      /\ invited[u] = j
      /\ \A v \in Users \ {u} : invited[v] = r.invited[v]
    BY <1>1
<1>3. s = [r EXCEPT !.invited = invited]
    BY DEF WithInvitation
<1> HIDE DEF invited
<1>4. /\ s \in Rights /\ s.invited = invited
      /\ s.member = r.member /\ s.represents = r.represents /\ s.awaiting = r.awaiting
    BY <1>2, <1>3 DEF Rights
<1> QED BY <1>2, <1>4

LEMMA OneState ==
    ASSUME NEW r \in Rights, NEW u \in Users, r.invited[u] # None,
           NEW st \in {"ACCEPTED", "REVOKED", "EXPIRED"},
           r.invited[u].state = "ACCEPTED" => st = "ACCEPTED",
           NEW s, s = WithState(r, u, st)
    PROVE  /\ s \in Rights /\ InvitationsFollow(r, s)
           /\ s.member = r.member /\ s.represents = r.represents /\ s.awaiting = r.awaiting
           /\ s.invited[u].state = st
           /\ \A v \in Users \ {u} : s.invited[v] = r.invited[v]
<1> DEFINE i == r.invited[u]
           j == [i EXCEPT !.state = st]
<1>1. i \in Invitation
    <2>1. i \in Invitation \cup {None}
        BY RightsShape
    <2> QED BY <2>1
<1>2. j \in Invitation /\ Follows(i, j) /\ j.state = st
    BY <1>1, StateFollows
<1>3. s = WithInvitation(r, u, j)
    BY DEF WithInvitation, WithState
<1> HIDE DEF i, j
<1>4. /\ s \in Rights
      /\ s.member = r.member /\ s.represents = r.represents /\ s.awaiting = r.awaiting
      /\ s.invited[u] = j
      /\ \A v \in Users \ {u} : s.invited[v] = r.invited[v]
    BY <1>2, <1>3, OneInvitation
<1>5. InvitationsFollow(r, s)
    BY <1>2, <1>4, FollowsItself DEF InvitationsFollow, i
<1> QED BY <1>2, <1>4, <1>5 DEF i, j

LEMMA InviteStep ==
    ASSUME IInv, NEW by \in Users \cup {Admin}, NEW u \in Users, NEW q \in Requests,
           Invite(by, u, q)
    PROVE  IInv'
<1> DEFINE j == [token |-> acts', by |-> by, roles |-> q.roles,
                 elements |-> q.elements, teams |-> q.teams, state |-> "PENDING"]
<1>1. /\ rights' = WithInvitation(rights, u, j) /\ Acts
      /\ UNCHANGED <<accounts, owner, calls, named, crossed, contested>>
    BY DEF Invite, WithInvitation, ghosts
<1>2. /\ acts' \in 1..MaxActs /\ acts' = acts + 1 /\ acts' \in Nat /\ acts' <= MaxActs
    BY <1>1, ActsTaken
<1>3. /\ q.roles \in SUBSET Editable /\ q.elements \in SUBSET Elements /\ q.teams \in SUBSET Teams
      /\ Complete(q)
    BY RequestsAssumption DEF Request, WellFormed, Complete, Covered, Used
<1>4. j \in Invitation
    BY <1>2, <1>3 DEF Invitation
<1>5. j.token = acts' /\ Complete(j)
    BY <1>3 DEF Complete, Covered, Used
<1> HIDE DEF j
<1>6. /\ rights' \in Rights
      /\ rights'.member = rights.member /\ rights'.represents = rights.represents
      /\ rights'.awaiting = rights.awaiting
      /\ rights'.invited[u] = j
      /\ \A v \in Users \ {u} : rights'.invited[v] = rights.invited[v]
    BY <1>1, <1>4, TypedState, OneInvitation
<1>7. Agree(rights', owner', crossed', contested') /\ Appointed(rights', named', crossed')
    BY <1>1, <1>6, TypedState, SameMembers DEF Appointed
<1>8. rights.invited \in [Users -> Invitation \cup {None}]
    BY TypedState, RightsShape
<1>9. InvitationsSound(rights'.invited, acts')
    <2>1. SUFFICES ASSUME NEW v \in Users, rights'.invited[v] # None
                   PROVE  Complete(rights'.invited[v]) /\ rights'.invited[v].token <= acts'
        BY DEF InvitationsSound
    <2>2. CASE v = u
        BY <1>2, <1>5, <1>6, <2>2
    <2>3. CASE v # u
        <3>1. rights'.invited[v] = rights.invited[v]
            BY <1>6, <2>3
        <3>2. Complete(rights.invited[v]) /\ rights.invited[v].token <= acts
            BY <2>1, <3>1 DEF IInv, InvitationsSound
        <3>3. rights.invited[v].token \in Nat /\ acts \in Nat
            BY <1>8, <2>1, <3>1, InvitationShape, PeopleAssumption, TypedState
        <3> HIDE DEF Complete
        <3> QED BY <1>2, <3>1, <3>2, <3>3
    <2> QED BY <2>2, <2>3
<1>10. CallsSound(calls', rights'.invited, acts', crossed')
    <2>1. SUFFICES ASSUME NEW c \in Calls
                   PROVE  CallSound(calls[c], rights'.invited, acts', crossed)
        BY <1>1 DEF CallsSound
    <2>2. CallSound(calls[c], rights.invited, acts, crossed)
        BY TypedState
    <2>3. ASSUME calls[c].kind = "accept" PROVE AcceptSound(calls[c], rights'.invited, acts', crossed)
        <3> DEFINE a == calls[c]
        <3>1. a.user \in Users /\ a.token \in Nat /\ acts \in Nat
            BY <2>3, CallShape, PeopleAssumption, TypedState
        <3>2. AcceptSound(a, rights.invited, acts, crossed)
            BY <2>2, <2>3 DEF CallSound
        <3> HIDE DEF a
        <3>3. a.token <= acts
            BY <3>2 DEF AcceptSound
        <3>4. a.token <= acts' /\ acts' # a.token
            BY <1>2, <3>1, <3>3
        <3>5. Known(a, rights'.invited[a.user])
            <4>1. CASE a.user = u
                BY <1>5, <1>6, <3>4, <4>1 DEF Known
            <4>2. CASE a.user # u
                BY <1>6, <3>1, <3>2, <4>2 DEF AcceptSound
            <4> QED BY <4>1, <4>2
        <3>6. AcceptSound(a, rights'.invited, acts', crossed)
            BY <3>2, <3>4, <3>5 DEF AcceptSound
        <3> QED BY <3>6 DEF a
    <2> QED BY <2>2, <2>3 DEF CallSound
<1>11. TypeOK'
    <2>1. acts' \in 0..MaxActs
        BY <1>2
    <2> QED BY <1>1, <1>6, <2>1, TypedState DEF TypeOK
<1> QED BY <1>7, <1>9, <1>10, <1>11 DEF IInv

LEMMA InvitationChanges ==
    ASSUME IInv, UNCHANGED <<accounts, owner, ghosts>>, acts' = acts \/ Acts,
           NEW u \in Users, rights.invited[u] # None,
           NEW st \in {"ACCEPTED", "REVOKED", "EXPIRED"},
           rights.invited[u].state = "ACCEPTED" => st = "ACCEPTED",
           rights' = WithState(rights, u, st)
    PROVE  /\ rights' \in Rights /\ InvitationsFollow(rights, rights')
           /\ Agree(rights', owner', crossed', contested') /\ Appointed(rights', named', crossed')
<1>1. /\ rights' \in Rights /\ InvitationsFollow(rights, rights')
      /\ rights'.member = rights.member /\ rights'.represents = rights.represents
      /\ rights'.awaiting = rights.awaiting
    <2>1. rights \in Rights
        BY TypedState
    <2> QED BY <2>1, OneState
<1>2. owner' = owner /\ named' = named /\ crossed' = crossed /\ contested' = contested
    BY DEF ghosts
<1> QED BY <1>1, <1>2, TypedState, SameMembers DEF Appointed

LEMMA RevokeStep ==
    ASSUME IInv, NEW by \in Users \cup {Admin}, NEW u \in Users, Revoke(by, u)
    PROVE  IInv'
<1>1. /\ rights.invited[u] # None /\ rights.invited[u].state # "ACCEPTED"
      /\ rights' = WithState(rights, u, "REVOKED")
      /\ Acts /\ UNCHANGED <<accounts, owner, calls, ghosts>>
    BY DEF Revoke, Open, WithState
<1>2. /\ rights' \in Rights /\ InvitationsFollow(rights, rights')
      /\ Agree(rights', owner', crossed', contested') /\ Appointed(rights', named', crossed')
    BY <1>1, InvitationChanges
<1> QED BY <1>1, <1>2, TypedState, RightsChange DEF ghosts

LEMMA ExpireStep == ASSUME IInv, NEW u \in Users, Expire(u) PROVE IInv'
<1>1. /\ rights.invited[u] # None /\ rights.invited[u].state # "ACCEPTED"
      /\ rights' = WithState(rights, u, "EXPIRED")
      /\ UNCHANGED <<accounts, owner, calls, acts, ghosts>>
    BY DEF Expire, Pending, WithState
<1>2. /\ rights' \in Rights /\ InvitationsFollow(rights, rights')
      /\ Agree(rights', owner', crossed', contested') /\ Appointed(rights', named', crossed')
    BY <1>1, InvitationChanges
<1> QED BY <1>1, <1>2, TypedState, RightsChange DEF ghosts

LEMMA MarkInvitationStep == ASSUME IInv, NEW c \in Calls, MarkInvitation(c) PROVE IInv'
<1> DEFINE u == calls[c].user
<1>1. /\ OfKind(c, "mark")
      /\ rights' = IF Open(rights.invited[u])
                   THEN WithState(rights, u, "ACCEPTED") ELSE rights
      /\ calls' = [calls EXCEPT ![c] = Idle]
      /\ UNCHANGED <<accounts, owner, acts, ghosts>>
    BY DEF MarkInvitation, Done, WithState
<1>2. u \in Users
    BY <1>1, TypedState, CallShape DEF OfKind
<1>3. /\ rights' \in Rights /\ InvitationsFollow(rights, rights')
      /\ Agree(rights', owner', crossed', contested') /\ Appointed(rights', named', crossed')
    <2>1. CASE Open(rights.invited[u])
        <3>1. rights.invited[u] # None /\ rights' = WithState(rights, u, "ACCEPTED")
            BY <1>1, <2>1 DEF Open
        <3> HIDE DEF u
        <3> QED BY <1>1, <1>2, <3>1, InvitationChanges
    <2>2. CASE ~Open(rights.invited[u])
        BY <1>1, <2>2, TypedState, FollowsItself DEF InvitationsFollow, ghosts
    <2> QED BY <2>1, <2>2
<1>4. named' = named /\ crossed' = crossed /\ contested' = contested
    BY <1>1 DEF ghosts
<1> QED BY <1>1, <1>3, <1>4, IdleIsACall, TypedState, CallAndRightsChange

-----------------------------------------------------------------------------
(* Steps that change one membership.                                       *)

LEMMA SameInvitations ==
    ASSUME NEW r, NEW s, SameButMembers(r, s)
    PROVE  InvitationsFollow(r, s)
BY FollowsItself DEF SameButMembers, InvitationsFollow

\* Whoever represents a team has the role, so whoever has no roles, or only
\* others, represents none; and likewise for judges.
LEMMA RolesAreNeeded ==
    ASSUME IInv, NEW u \in Users
    PROVE  /\ "REPRESENTATIVE" \notin Held(rights, u).roles => TeamsOf(rights, u) = {}
           /\ u \notin crossed => Sound(rights, u)
           /\ (owner = u /\ u \notin crossed) => "OWNER" \in Held(rights, u).roles
           /\ Held(rights, u).roles \in SUBSET Roles /\ Held(rights, u).elements \in SUBSET Elements
<1>1. ASSUME NEW t \in Teams, rights.represents[t] = u
      PROVE  "REPRESENTATIVE" \in Held(rights, u).roles
    BY <1>1, TypedState, NoneIsNobody DEF Agree
<1>2. "REPRESENTATIVE" \notin Held(rights, u).roles => TeamsOf(rights, u) = {}
    BY <1>1 DEF TeamsOf
<1> QED BY <1>2, TypedState, HeldType DEF Agree

\* What membership m, or none, may take the place of that of u.
Fits(m, u, x) ==
    /\ TeamsOf(rights, u) # {} => "REPRESENTATIVE" \in m.roles
    /\ u \notin x => /\ m.roles # {}
                     /\ m.elements # {} => "JUDGE" \in m.roles
                     /\ "JUDGE" \in m.roles \ UNION Added => m.elements # {}
                     /\ "REPRESENTATIVE" \in m.roles \ UNION Added => TeamsOf(rights, u) # {}
                     /\ owner = u => "OWNER" \in m.roles
    /\ "OWNER" \in m.roles => "OWNER" \in Held(rights, u).roles

LEMMA MemberChanges ==
    ASSUME IInv, NEW u \in Users, NEW m \in Membership,
           rights' = WithMember(rights, u, m),
           NEW x, crossed \subseteq x, Fits(m, u, x)
    PROVE  /\ rights' \in Rights /\ InvitationsFollow(rights, rights')
           /\ Agree(rights', owner, x, contested)
           /\ "ORGANIZER" \in m.roles => OrganizersOf(rights') = OrganizersOf(rights) \cup {u}
           /\ "ORGANIZER" \notin m.roles => OrganizersOf(rights') = OrganizersOf(rights) \ {u}
           /\ ("ORGANIZER" \in m.roles) = ("ORGANIZER" \in Held(rights, u).roles)
                => OrganizersOf(rights') = OrganizersOf(rights)
<1>0. m # None
    BY NoneIsNobody
<1>1. /\ rights' \in Rights
      /\ SameButMembers(rights, rights')
      /\ Held(rights', u) = m
      /\ \A v \in Users \ {u} : rights'.member[v] = rights.member[v] /\ Held(rights', v) = Held(rights, v)
    BY <1>0, TypedState, WithMemberEffect
<1>2. u \notin x => Sound(rights', u)
    <2>1. TeamsOf(rights', u) = TeamsOf(rights, u)
        BY <1>1, SameTeams DEF SameButMembers
    <2> QED BY <1>1, <2>1 DEF Sound, Fits
<1>3. /\ TeamsOf(rights, u) # {} => "REPRESENTATIVE" \in Held(rights', u).roles
      /\ (owner = u /\ u \notin x) => "OWNER" \in Held(rights', u).roles
      /\ "OWNER" \in Held(rights', u).roles => "OWNER" \in Held(rights, u).roles
    BY <1>1 DEF Fits
<1>4. Agree(rights', owner, x, contested)
    BY <1>1, <1>2, <1>3, TypedState, OneMemberAgrees
<1>5. InvitationsFollow(rights, rights')
    BY <1>1, SameInvitations
<1> QED BY <1>1, <1>4, <1>5, TypedState, OneMemberOrganizers

LEMMA AddMemberStep ==
    ASSUME IInv, NEW by \in Users \cup {Admin}, NEW u \in Users, NEW roles \in Added,
           AddMember(by, u, roles)
    PROVE  IInv'
<1> DEFINE m == [roles |-> Held(rights, u).roles \cup roles, elements |-> Held(rights, u).elements]
<1>1. /\ MayAppoint(by) /\ rights' = WithMember(rights, u, m)
      /\ named' = IF "ORGANIZER" \in roles /\ Entitled(by) THEN named \cup {u} ELSE named
      /\ Acts /\ UNCHANGED <<accounts, owner, calls, crossed, contested>>
    BY DEF AddMember
<1>2. Entitled(by)
    BY <1>1 DEF MayAppoint, Entitled
<1>3. roles \in SUBSET Roles /\ roles # {} /\ "OWNER" \notin roles /\ roles \subseteq UNION Added
    BY PeopleAssumption
<1>4. /\ m \in Membership
      /\ m.roles = Held(rights, u).roles \cup roles /\ m.elements = Held(rights, u).elements
    <2>1. Held(rights, u).roles \cup roles \in SUBSET Roles /\ Held(rights, u).elements \in SUBSET Elements
        BY <1>3, RolesAreNeeded
    <2> QED BY <2>1 DEF Membership
<1> HIDE DEF m
<1>5. Fits(m, u, crossed)
    BY <1>3, <1>4, RolesAreNeeded DEF Fits, Sound
<1>6. /\ rights' \in Rights /\ InvitationsFollow(rights, rights')
      /\ Agree(rights', owner, crossed, contested)
      /\ "ORGANIZER" \in m.roles => OrganizersOf(rights') = OrganizersOf(rights) \cup {u}
      /\ ("ORGANIZER" \in m.roles) = ("ORGANIZER" \in Held(rights, u).roles)
           => OrganizersOf(rights') = OrganizersOf(rights)
    BY <1>1, <1>4, <1>5, MemberChanges
<1>7. named' \in SUBSET Users /\ Appointed(rights', named', crossed)
    <2>1. CASE "ORGANIZER" \in roles
        BY <1>1, <1>2, <1>4, <1>6, <2>1, TypedState DEF Appointed
    <2>2. CASE "ORGANIZER" \notin roles
        BY <1>1, <1>4, <1>6, <2>2, TypedState DEF Appointed
    <2> QED BY <2>1, <2>2
<1> QED BY <1>1, <1>6, <1>7, TypedState, RightsChange

\* A judge: the role and the elements are added to what each statement found.
LEMMA SetJudgeStep == ASSUME IInv, NEW c \in Calls, SetJudge(c) PROVE IInv'
<1> DEFINE q == calls[c]
           u == q.user
           now == Held(rights, u)
           seen == IF q.seen = None THEN NoRights ELSE q.seen
<1>1. PICK asRole \in {seen, now}, asElements \in {seen, now} :
         rights' = WithMember(rights, u,
                [roles |-> now.roles \cup ({"JUDGE"} \ asRole.roles),
                 elements |-> (now.elements \ (asElements.elements \ q.elements))
                                 \cup (q.elements \ asElements.elements)])
    BY DEF SetJudge
<1>2. /\ q.kind = "judge" /\ Crosses(u, q.seen) /\ calls' = [calls EXCEPT ![c] = Idle]
      /\ q.seen # None => rights.member[u] # None
      /\ UNCHANGED <<accounts, owner, acts, named, contested>>
    BY DEF SetJudge, OfKind, Done
<1>3. /\ q.user \in Users /\ q.elements \in SUBSET Elements /\ q.seen \in Membership \cup {None}
      /\ q.elements # {}
    BY <1>2, TypedState, CallShape DEF CallSound
<1>4. /\ crossed \subseteq crossed' /\ crossed' \in SUBSET Users
      /\ u \notin crossed' => u \notin crossed /\ rights.member[u] = q.seen
    BY <1>2, <1>3, CrossesEffect
<1>5. rights.member[u] = q.seen => now = seen
    BY DEF Held
<1> DEFINE roles == now.roles \cup ({"JUDGE"} \ asRole.roles)
           elements == (now.elements \ (asElements.elements \ q.elements))
                         \cup (q.elements \ asElements.elements)
           m == [roles |-> roles, elements |-> elements]
<1>6. rights' = WithMember(rights, u, m)
    BY <1>1
<1>7. now.roles \in SUBSET Roles /\ now.elements \in SUBSET Elements
    BY <1>3, RolesAreNeeded
<1>8. /\ now.roles \subseteq roles /\ roles \subseteq now.roles \cup {"JUDGE"}
      /\ now = seen => "JUDGE" \in roles /\ elements = q.elements
      /\ roles \in SUBSET Roles /\ elements \in SUBSET Elements
    BY <1>3, <1>7 DEF Roles, Editable
<1>9. m \in Membership /\ m.roles = roles /\ m.elements = elements
    BY <1>8 DEF Membership
<1> HIDE DEF m, roles, elements, seen, q
<1>10. Fits(m, u, crossed')
    <2>1. /\ "REPRESENTATIVE" \notin now.roles => TeamsOf(rights, u) = {}
          /\ u \notin crossed => Sound(rights, u)
          /\ (owner = u /\ u \notin crossed) => "OWNER" \in now.roles
        BY <1>3, RolesAreNeeded
    <2> QED BY <1>3, <1>4, <1>5, <1>8, <1>9, <2>1 DEF Fits, Sound
<1>11. ("ORGANIZER" \in m.roles) = ("ORGANIZER" \in Held(rights, u).roles)
    BY <1>8, <1>9
<1>12. /\ rights' \in Rights /\ InvitationsFollow(rights, rights')
       /\ Agree(rights', owner, crossed', contested)
       /\ OrganizersOf(rights') = OrganizersOf(rights)
    BY <1>3, <1>4, <1>6, <1>9, <1>10, <1>11, MemberChanges
<1>13. Appointed(rights', named', crossed')
    BY <1>2, <1>4, <1>12, TypedState DEF Appointed
<1> QED BY <1>2, <1>4, <1>12, <1>13, IdleIsACall, TypedState, CallAndRightsChange

\* A membership that goes takes its teams with it.
LEMMA DismissedEffect ==
    ASSUME IInv, NEW u \in Users, rights' = Dismissed(rights, u),
           NEW x, crossed \subseteq x, owner = u => u \in x
    PROVE  /\ rights' \in Rights /\ InvitationsFollow(rights, rights')
           /\ Agree(rights', owner, x, contested)
           /\ OrganizersOf(rights') = OrganizersOf(rights) \ {u}
<1> DEFINE gone == WithMember(rights, u, None)
           represents == [t \in Teams |-> IF gone.represents[t] = u THEN None ELSE gone.represents[t]]
<1>1. rights' = [gone EXCEPT !.represents = represents]
    BY DEF Dismissed
<1>2. /\ gone \in Rights
      /\ SameButMembers(rights, gone)
      /\ Held(gone, u) = NoRights /\ gone.member[u] = None
      /\ \A v \in Users \ {u} : gone.member[v] = rights.member[v] /\ Held(gone, v) = Held(rights, v)
    BY TypedState, WithMemberEffect
<1> HIDE DEF gone
<1>3. gone.represents \in [Teams -> Users \cup {None}]
    BY <1>2, RightsShape
<1>4. /\ represents \in [Teams -> Users \cup {None}]
      /\ \A t \in Teams : represents[t] = IF gone.represents[t] = u THEN None ELSE gone.represents[t]
    BY <1>3
<1> HIDE DEF represents
<1>5. /\ rights' \in Rights /\ rights'.represents = represents
      /\ rights'.member = gone.member /\ rights'.awaiting = gone.awaiting
      /\ rights'.invited = gone.invited
    BY <1>1, <1>2, <1>4 DEF Rights
<1>6. \A t \in Teams : /\ rights'.represents[t] = IF rights.represents[t] = u THEN None
                                                   ELSE rights.represents[t]
                       /\ rights'.awaiting[t] = rights.awaiting[t]
    BY <1>2, <1>4, <1>5 DEF SameButMembers
<1>7. /\ Held(rights', u).roles = {} /\ Held(rights', u).elements = {} /\ rights'.member[u] = None
      /\ \A v \in Users \ {u} : rights'.member[v] = rights.member[v] /\ Held(rights', v) = Held(rights, v)
    BY <1>2, <1>5 DEF Held, NoRights
<1>8. ASSUME NEW t \in Teams, rights'.represents[t] # None
      PROVE  "REPRESENTATIVE" \in Held(rights', rights'.represents[t]).roles /\ rights'.awaiting[t] = None
    <2> DEFINE w == rights.represents[t]
    <2>1. rights'.represents[t] = w /\ w # u /\ w # None
        BY <1>6, <1>8
    <2>2. w \in Users
        BY <2>1, TypedState, RightsShape
    <2>3. "REPRESENTATIVE" \in Held(rights, w).roles /\ rights.awaiting[t] = None
        BY <2>1, TypedState DEF Agree
    <2> HIDE DEF w
    <2> QED BY <1>6, <1>7, <2>1, <2>2, <2>3
<1>9. ASSUME NEW v \in Users \ x PROVE Sound(rights', v)
    <2>1. CASE v = u
        BY <1>7, <2>1 DEF Sound
    <2>2. CASE v # u
        <3>1. Sound(rights, v)
            BY TypedState DEF Agree
        <3>2. TeamsOf(rights', v) = TeamsOf(rights, v)
            <4>1. \A t \in Teams : rights'.represents[t] = v <=> rights.represents[t] = v
                BY <1>6, <2>2, NoneIsNobody
            <4> QED BY <4>1 DEF TeamsOf
        <3> QED BY <1>7, <2>2, <3>1, <3>2 DEF Sound
    <2> QED BY <2>1, <2>2
<1>10. owner \in Users \ x => "OWNER" \in Held(rights', owner).roles
    BY <1>7, TypedState DEF Agree
<1>11. OwnersOf(rights') \subseteq OwnersOf(rights)
    BY <1>7 DEF OwnersOf
<1>12. Agree(rights', owner, x, contested)
    BY <1>8, <1>9, <1>10, <1>11, TypedState DEF Agree
<1>13. OrganizersOf(rights') = OrganizersOf(rights) \ {u}
    BY <1>7 DEF OrganizersOf
<1>14. InvitationsFollow(rights, rights')
    BY <1>2, <1>5, FollowsItself DEF InvitationsFollow, SameButMembers
<1> QED BY <1>5, <1>12, <1>13, <1>14

\* What was counted decides whether the membership goes.
LEMMA PruneStep == ASSUME IInv, NEW c \in Calls, Prune(c) PROVE IInv'
<1> DEFINE q == calls[c]
           u == q.user
           now == rights.member[u]
           lost == {q.role} \cap q.seen.roles
           roles == now.roles \ lost
           elements == now.elements \ q.gone
           m == [roles |-> roles, elements |-> elements]
<1>1. /\ q.kind = "prune" /\ now # None
      /\ rights' = IF q.empty THEN Dismissed(rights, u) ELSE WithMember(rights, u, m)
      /\ named' = IF "ORGANIZER" \in lost THEN named \ {u} ELSE named
      /\ Crosses(u, q.seen) /\ calls' = [calls EXCEPT ![c] = Idle]
      /\ UNCHANGED <<accounts, owner, acts, contested>>
    BY DEF Prune, OfKind, Done
<1>2. /\ q.user \in Users /\ q.seen \in Membership /\ q.gone \in SUBSET Elements /\ q.empty \in BOOLEAN
      /\ q.role \in {"JUDGE", "ORGANIZER", "COMPETITOR"} /\ PruneSound(q, crossed)
    BY <1>1, TypedState, CallShape DEF CallSound
<1>3. /\ crossed \subseteq crossed' /\ crossed' \in SUBSET Users
      /\ u \notin crossed' => u \notin crossed /\ now = q.seen
    BY <1>1, <1>2, CrossesEffect
<1>4. now = Held(rights, u)
    BY <1>1 DEF Held
<1>5. now.roles \in SUBSET Roles /\ now.elements \in SUBSET Elements
    BY <1>2, <1>4, RolesAreNeeded
<1>6. m \in Membership /\ m.roles = roles /\ m.elements = elements
    BY <1>5 DEF Membership
<1>7. u \notin crossed' => /\ q.gone = IF q.role = "JUDGE" THEN now.elements ELSE {}
                          /\ q.empty = (now.roles \subseteq {q.role})
    BY <1>2, <1>3 DEF PruneSound
<1>8. /\ "REPRESENTATIVE" \notin now.roles => TeamsOf(rights, u) = {}
      /\ u \notin crossed => Sound(rights, u)
      /\ (owner = u /\ u \notin crossed) => "OWNER" \in now.roles
    BY <1>2, <1>4, RolesAreNeeded
<1>9. u \in OrganizersOf(rights) <=> "ORGANIZER" \in now.roles
    BY <1>2, <1>4 DEF OrganizersOf
<1>10. named' \in SUBSET Users
    BY <1>1, TypedState
<1>11. CASE q.empty
    <2>1. rights' = Dismissed(rights, u)
        BY <1>1, <1>11
    <2>2. u \notin crossed' => now.roles \subseteq {q.role}
        BY <1>7, <1>11
    <2>3. owner = u => u \in crossed'
        BY <1>2, <1>3, <1>8, <2>2
    <2>4. /\ rights' \in Rights /\ InvitationsFollow(rights, rights')
          /\ Agree(rights', owner, crossed', contested)
          /\ OrganizersOf(rights') = OrganizersOf(rights) \ {u}
        BY <1>2, <1>3, <2>1, <2>3, DismissedEffect
    <2>5. (u \notin crossed' /\ "ORGANIZER" \in now.roles) => "ORGANIZER" \in lost
        BY <1>3, <2>2
    <2> HIDE DEF q, u, now, lost
    <2>6. Appointed(rights', named', crossed')
        <3>1. OrganizersOf(rights) \subseteq named /\ named \ crossed \subseteq OrganizersOf(rights)
            BY TypedState DEF Appointed
        <3>2. CASE "ORGANIZER" \in lost
            BY <1>1, <1>3, <2>4, <3>1, <3>2 DEF Appointed
        <3>3. CASE "ORGANIZER" \notin lost
            <4>1. named' = named
                BY <1>1, <3>3
            <4>2. u \notin named \ crossed'
                BY <1>3, <1>9, <2>5, <3>1, <3>3
            <4> QED BY <1>3, <2>4, <3>1, <4>1, <4>2 DEF Appointed
        <3> QED BY <3>2, <3>3
    <2> QED BY <1>1, <1>3, <1>10, <2>4, <2>6, IdleIsACall, TypedState, CallAndRightsChange
<1>12. CASE ~q.empty
    <2>1. rights' = WithMember(rights, u, m)
        BY <1>1, <1>12
    <2>2. /\ "OWNER" \notin lost /\ "REPRESENTATIVE" \notin lost
          /\ "JUDGE" \in lost => q.role = "JUDGE"
        BY <1>2
    <2>3. u \in Users
        BY <1>2
    <2>4. ASSUME u \notin crossed'
          PROVE  /\ m.roles # {}
                 /\ q.role = "JUDGE" => ("JUDGE" \notin m.roles /\ m.elements = {})
                 /\ q.role # "JUDGE" => m.elements = now.elements
        <3>1. now = q.seen /\ ~(now.roles \subseteq {q.role}) /\ lost = {q.role} \cap now.roles
            BY <1>3, <1>7, <1>12, <2>4
        <3> QED BY <1>6, <1>7, <2>4, <3>1
    <2>5. m.roles = now.roles \ lost
        BY <1>6
    <2> HIDE DEF q, u, now, m, lost, roles, elements
    <2>6. Fits(m, u, crossed')
        <3>1. /\ TeamsOf(rights, u) # {} => "REPRESENTATIVE" \in m.roles
              /\ "OWNER" \in m.roles => "OWNER" \in Held(rights, u).roles
            BY <1>4, <1>8, <2>2, <2>5
        <3>2. ASSUME u \notin crossed'
              PROVE  /\ m.roles # {}
                     /\ m.elements # {} => "JUDGE" \in m.roles
                     /\ "JUDGE" \in m.roles \ UNION Added => m.elements # {}
                     /\ "REPRESENTATIVE" \in m.roles \ UNION Added => TeamsOf(rights, u) # {}
                     /\ owner = u => "OWNER" \in m.roles
            <4>1. u \notin crossed /\ Sound(rights, u)
                BY <1>3, <1>8, <3>2
            <4>2. m.elements # {} => "JUDGE" \in m.roles
                <5>1. CASE q.role = "JUDGE"
                    BY <2>4, <3>2, <5>1
                <5>2. CASE q.role # "JUDGE"
                    BY <1>4, <2>2, <2>4, <2>5, <3>2, <4>1, <5>2 DEF Sound
                <5> QED BY <5>1, <5>2
            <4>3. "JUDGE" \in m.roles \ UNION Added => m.elements # {}
                <5>1. CASE q.role = "JUDGE"
                    BY <2>4, <3>2, <5>1
                <5>2. CASE q.role # "JUDGE"
                    BY <1>4, <2>4, <2>5, <3>2, <4>1, <5>2 DEF Sound
                <5> QED BY <5>1, <5>2
            <4>4. "REPRESENTATIVE" \in m.roles \ UNION Added => TeamsOf(rights, u) # {}
                BY <1>4, <2>5, <4>1 DEF Sound
            <4> QED BY <1>8, <2>2, <2>4, <2>5, <3>2, <4>1, <4>2, <4>3, <4>4
        <3> QED BY <3>1, <3>2 DEF Fits
    <2>7. /\ rights' \in Rights /\ InvitationsFollow(rights, rights')
          /\ Agree(rights', owner, crossed', contested)
          /\ "ORGANIZER" \notin m.roles => OrganizersOf(rights') = OrganizersOf(rights) \ {u}
          /\ ("ORGANIZER" \in m.roles) = ("ORGANIZER" \in Held(rights, u).roles)
               => OrganizersOf(rights') = OrganizersOf(rights)
        BY <1>3, <1>6, <2>1, <2>3, <2>6, MemberChanges
    <2>8. Appointed(rights', named', crossed')
        <3>1. CASE "ORGANIZER" \in lost
            <4>1. "ORGANIZER" \notin m.roles
                BY <2>5, <3>1
            <4> QED BY <1>1, <1>3, <2>7, <3>1, <4>1, TypedState DEF Appointed
        <3>2. CASE "ORGANIZER" \notin lost
            <4>1. ("ORGANIZER" \in m.roles) = ("ORGANIZER" \in Held(rights, u).roles)
                BY <1>4, <2>5, <3>2
            <4> QED BY <1>1, <1>3, <2>7, <3>2, <4>1, TypedState DEF Appointed
        <3> QED BY <3>1, <3>2
    <2> QED BY <1>1, <1>3, <1>10, <2>7, <2>8, IdleIsACall, TypedState, CallAndRightsChange
<1> QED BY <1>2, <1>11, <1>12

LEMMA CompeteStep == ASSUME IInv, NEW u \in Users, Compete(u) PROVE IInv'
<1> DEFINE m == [roles |-> Held(rights, u).roles \cup {"COMPETITOR"},
                 elements |-> Held(rights, u).elements]
<1>1. /\ rights' = WithMember(rights, u, m)
      /\ Acts /\ UNCHANGED <<accounts, owner, calls, named, crossed, contested>>
    BY DEF Compete, ghosts
<1>2. Held(rights, u).roles \cup {"COMPETITOR"} \in SUBSET Roles
      /\ Held(rights, u).elements \in SUBSET Elements
    BY RolesAreNeeded DEF Roles, Editable
<1>3. /\ m \in Membership /\ m.roles = Held(rights, u).roles \cup {"COMPETITOR"}
      /\ m.elements = Held(rights, u).elements
    BY <1>2 DEF Membership
<1> HIDE DEF m
<1>4. /\ Fits(m, u, crossed)
      /\ ("ORGANIZER" \in m.roles) = ("ORGANIZER" \in Held(rights, u).roles)
    BY <1>3, RolesAreNeeded DEF Fits, Sound
<1>5. /\ rights' \in Rights /\ InvitationsFollow(rights, rights')
      /\ Agree(rights', owner, crossed, contested)
      /\ OrganizersOf(rights') = OrganizersOf(rights)
    BY <1>1, <1>3, <1>4, MemberChanges
<1>6. Appointed(rights', named', crossed)
    BY <1>1, <1>5, TypedState DEF Appointed
<1> QED BY <1>1, <1>5, <1>6, TypedState, RightsChange

-----------------------------------------------------------------------------
(* Steps that give and take teams.                                         *)

LEMMA TeamsChange ==
    ASSUME IInv, NEW teams \in SUBSET Teams, NEW u \in Users \cup {None},
           NEW address \in Users \cup {None}, u # None => address = None,
           Given(rights, rights', teams, u, address, TRUE),
           UNCHANGED <<owner, calls, ghosts>>, accounts' \in SUBSET Users,
           acts' = acts \/ Acts
    PROVE  IInv'
<1>1. /\ Agree(rights', owner, crossed, contested) /\ OrganizersOf(rights') = OrganizersOf(rights)
      /\ rights' \in Rights /\ InvitationsFollow(rights, rights')
    BY TypedState, GivenAgrees
<1>2. named' = named /\ crossed' = crossed /\ contested' = contested
    BY DEF ghosts
<1>3. Appointed(rights', named', crossed)
    BY <1>1, <1>2, TypedState DEF Appointed
<1> QED BY <1>1, <1>2, <1>3, TypedState, RightsChange

LEMMA GiveTeamsStep ==
    ASSUME IInv, NEW by \in Users \cup {Admin}, NEW teams \in SUBSET Teams, NEW u \in Users,
           GiveTeams(by, teams, u)
    PROVE  IInv'
<1>1. /\ rights' = SetRepresentative(rights, teams, u, None, TRUE)
      /\ Acts /\ UNCHANGED <<accounts, owner, calls, ghosts>>
    BY DEF GiveTeams
<1>2. Given(rights, rights', teams, u, None, TRUE)
    BY <1>1, TypedState, SetRepresentativeEffect
<1> QED BY <1>1, <1>2, TypedState, TeamsChange

LEMMA TakeTeamStep ==
    ASSUME IInv, NEW by \in Users \cup {Admin}, NEW t \in Teams, TakeTeam(by, t)
    PROVE  IInv'
<1>1. /\ rights' = SetRepresentative(rights, {t}, None, None, TRUE)
      /\ Acts /\ UNCHANGED <<accounts, owner, calls, ghosts>>
    BY DEF TakeTeam
<1>2. {t} \in SUBSET Teams /\ None \in Users \cup {None}
    OBVIOUS
<1>3. Given(rights, rights', {t}, None, None, TRUE)
    BY <1>1, <1>2, TypedState, SetRepresentativeEffect
<1> QED BY <1>1, <1>2, <1>3, TypedState, TeamsChange

LEMMA AwaitRepresentativeStep ==
    ASSUME IInv, NEW by \in Users \cup {Admin}, NEW t \in Teams, NEW u \in Users,
           AwaitRepresentative(by, t, u)
    PROVE  IInv'
<1>1. /\ rights' = SetRepresentative(rights, {t}, None, u, TRUE)
      /\ Acts /\ UNCHANGED <<accounts, owner, calls, ghosts>>
    BY DEF AwaitRepresentative
<1>2. Given(rights, rights', {t}, None, u, TRUE)
    BY <1>1, TypedState, SetRepresentativeEffect
<1> QED BY <1>1, <1>2, TypedState, TeamsChange

LEMMA SignInStep == ASSUME IInv, NEW u \in Users, SignIn(u) PROVE IInv'
<1> DEFINE waiting == {t \in Teams : rights.awaiting[t] = u /\ rights.represents[t] = None}
<1>1. /\ accounts' = accounts \cup {u}
      /\ rights' = SetRepresentative(rights, waiting, u, None, TRUE)
      /\ UNCHANGED <<owner, calls, acts, ghosts>>
    BY DEF SignIn
<1>2. waiting \in SUBSET Teams
    OBVIOUS
<1>3. accounts' \in SUBSET Users
    BY <1>1, TypedState
<1> HIDE DEF waiting
<1>4. Given(rights, rights', waiting, u, None, TRUE)
    BY <1>1, <1>2, TypedState, SetRepresentativeEffect
<1> QED BY <1>1, <1>2, <1>3, <1>4, TeamsChange

-----------------------------------------------------------------------------
(* The two transactions that set all of somebody's rights.                 *)

\* Only what goes with its role is given.
LEMMA EffectiveRequest ==
    ASSUME NEW q \in Request
    PROVE  /\ Effective(q) \in Request /\ Covered(Effective(q))
           /\ Effective(q).roles = q.roles
           /\ Effective(q).elements = IF "JUDGE" \in q.roles THEN q.elements ELSE {}
           /\ Effective(q).teams = IF "REPRESENTATIVE" \in q.roles THEN q.teams ELSE {}
           /\ Used(q) => Used(Effective(q))
<1> DEFINE e == Effective(q)
<1>1. e = [roles |-> q.roles, elements |-> IF "JUDGE" \in q.roles THEN q.elements ELSE {},
           teams |-> IF "REPRESENTATIVE" \in q.roles THEN q.teams ELSE {}]
    BY DEF Effective, Request
<1> HIDE DEF e
<1>2. /\ e \in Request /\ e.roles = q.roles
      /\ e.elements = IF "JUDGE" \in q.roles THEN q.elements ELSE {}
      /\ e.teams = IF "REPRESENTATIVE" \in q.roles THEN q.teams ELSE {}
    BY <1>1 DEF Request
<1>3. Covered(e) /\ (Used(q) => Used(e))
    BY <1>2 DEF Covered, Used
<1> QED BY <1>2, <1>3 DEF e

LEMMA AssignStep == ASSUME IInv, NEW c \in Calls, Assign(c) PROVE IInv'
<1> DEFINE q == calls[c]
           want == Effective(q.want)
           x == [kind |-> "mark", user |-> q.user]
<1>1. /\ q.kind = "assign" /\ MayUpdate(q)
      /\ rights' = Updated(rights, q.user, want, q.entitled)
      /\ IF q.rightful THEN Named(q.user, q.want.roles) ELSE UNCHANGED named
      /\ calls' = [calls EXCEPT ![c] = x]
      /\ UNCHANGED <<accounts, owner, acts, crossed, contested>>
    BY DEF Assign, OfKind
<1>2. /\ q.user \in Users /\ q.want \in Requests
      /\ q.entitled \in BOOLEAN /\ q.rightful \in BOOLEAN
    BY <1>1, TypedState, CallShape
<1>3. q.want \in Request /\ Used(q.want)
    BY <1>2, RequestsAssumption DEF WellFormed, Used
<1>4. want \in Request /\ Covered(want) /\ Used(want) /\ want.roles = q.want.roles
    BY <1>3, EffectiveRequest
<1>5. q.entitled = q.rightful
    BY <1>1, TypedState DEF CallSound
<1>6. owner # q.user
    BY <1>1 DEF MayUpdate
<1>7. x \in Call /\ x.kind = "mark"
    BY <1>2 DEF Call
<1>8. CallSound(x, rights'.invited, acts, crossed')
    BY <1>7 DEF CallSound
<1> HIDE DEF q, x, want
<1>9. /\ rights' \in Rights
      /\ InvitationsFollow(rights, rights')
      /\ Agree(rights', owner, crossed, contested)
      /\ q.entitled /\ "ORGANIZER" \in want.roles => OrganizersOf(rights') = OrganizersOf(rights) \cup {q.user}
      /\ q.entitled /\ "ORGANIZER" \notin want.roles => OrganizersOf(rights') = OrganizersOf(rights) \ {q.user}
      /\ ~q.entitled => OrganizersOf(rights') = OrganizersOf(rights)
    BY <1>1, <1>2, <1>4, <1>6, TypedState, UpdatedAgrees
<1>10. named' \in SUBSET Users /\ Appointed(rights', named', crossed')
    <2>1. CASE q.entitled
        BY <1>1, <1>2, <1>4, <1>5, <1>9, <2>1, TypedState DEF Named, Appointed
    <2>2. CASE ~q.entitled
        BY <1>1, <1>5, <1>9, <2>2, TypedState DEF Appointed
    <2> QED BY <2>1, <2>2
<1> QED BY <1>1, <1>7, <1>8, <1>9, <1>10, TypedState, CallAndRightsChange

\* What is known of an acceptance that finds its invitation as it was.
LEMMA ClaimedInvitation ==
    ASSUME IInv, NEW c \in Calls, Accept(c)
    PROVE  LET q == calls[c]
               i == rights.invited[q.user]
           IN /\ q.user \in Users /\ q.want \in Request /\ q.had \in Request
              /\ q.entitled \in BOOLEAN /\ q.rightful \in BOOLEAN
              /\ i \in Invitation /\ Pending(i) /\ i.token = q.token
              /\ q.want.teams # {} => "REPRESENTATIVE" \in q.want.roles
              /\ q.user \notin crossed => Used(q.want)
              /\ Complete(i) /\ q.want.roles # {}
              /\ q.entitled => q.rightful
              /\ ("ORGANIZER" \in i.roles) = q.entitled
              /\ q.want.roles = q.had.roles \cup i.roles
              /\ q.want.elements = q.had.elements \cup i.elements
              /\ q.want.teams = q.had.teams \cup i.teams
<1> DEFINE q == calls[c]
           i == rights.invited[q.user]
<1>1. q.kind = "accept" /\ Pending(i) /\ i.token = q.token /\ i.teams = q.teams
    BY DEF Accept, OfKind, Claimable
<1>2. /\ q.user \in Users /\ q.want \in Request /\ q.had \in Request
      /\ q.entitled \in BOOLEAN /\ q.rightful \in BOOLEAN
    BY <1>1, TypedState, CallShape
<1>3. AcceptSound(q, rights.invited, acts, crossed)
    BY <1>1, TypedState DEF CallSound
<1>4. i # None
    BY <1>1 DEF Pending
<1>5. i \in Invitation
    <2>1. i \in Invitation \cup {None}
        BY <1>2, TypedState, RightsShape
    <2> QED BY <1>4, <2>1
<1>6. Known(q, i)
    BY <1>3 DEF AcceptSound
<1> HIDE DEF q, i
<1>7. /\ ("ORGANIZER" \in i.roles) = q.entitled
      /\ q.want.roles = q.had.roles \cup i.roles
      /\ q.want.elements = q.had.elements \cup i.elements
    BY <1>1, <1>4, <1>6 DEF Known
<1>8. /\ q.want.teams # {} => "REPRESENTATIVE" \in q.want.roles
      /\ q.user \notin crossed => Used(q.want)
      /\ q.want.roles # {} /\ (q.entitled => q.rightful)
      /\ q.want.teams = q.had.teams \cup i.teams
    BY <1>1, <1>3 DEF AcceptSound
<1>9. Complete(i)
    BY <1>2, <1>4 DEF IInv, InvitationsSound, i
<1> QED BY <1>1, <1>2, <1>5, <1>7, <1>8, <1>9 DEF q, i

\* The rights that the acceptance works on: the invitation counts as used.
LEMMA ClaimedRights ==
    ASSUME IInv, NEW c \in Calls, Accept(c),
           NEW r, r = WithState(rights, calls[c].user, "ACCEPTED")
    PROVE  /\ rights' = Updated(r, calls[c].user, Effective(calls[c].want), calls[c].entitled)
           /\ r \in Rights /\ InvitationsFollow(rights, r)
           /\ r.member = rights.member /\ r.represents = rights.represents
           /\ r.awaiting = rights.awaiting
           /\ r.invited[calls[c].user].state = "ACCEPTED"
<1> DEFINE u == calls[c].user
<1>1. rights' = Updated(r, u, Effective(calls[c].want), calls[c].entitled)
    BY DEF Accept, WithState
<1>2. u \in Users /\ Pending(rights.invited[u])
    BY ClaimedInvitation
<1>3. rights.invited[u] # None /\ rights.invited[u].state = "PENDING"
    BY <1>2 DEF Pending
<1>4. rights \in Rights
    BY TypedState
<1> HIDE DEF u
<1>5. r = WithState(rights, u, "ACCEPTED")
    BY DEF u
<1>6. /\ r \in Rights /\ InvitationsFollow(rights, r)
      /\ r.member = rights.member /\ r.represents = rights.represents
      /\ r.awaiting = rights.awaiting /\ r.invited[u].state = "ACCEPTED"
    BY <1>2, <1>3, <1>4, <1>5, OneState
<1> QED BY <1>1, <1>6 DEF u

LEMMA AcceptStep == ASSUME IInv, NEW c \in Calls, Accept(c) PROVE IInv'
<1> DEFINE q == calls[c]
           i == rights.invited[q.user]
           r == WithState(rights, q.user, "ACCEPTED")
           want == Effective(q.want)
<1>1. /\ q.kind = "accept" /\ MayUpdate(q)
      /\ named' = IF "ORGANIZER" \in i.roles /\ q.rightful THEN named \cup {q.user} ELSE named
      /\ calls' = [calls EXCEPT ![c] = Idle]
      /\ UNCHANGED <<accounts, owner, acts, crossed, contested>>
    BY DEF Accept, OfKind, Done
<1>2. /\ q.user \in Users /\ q.want \in Request /\ q.entitled \in BOOLEAN /\ q.rightful \in BOOLEAN
      /\ q.user \notin crossed => Used(q.want)
      /\ q.entitled => q.rightful
      /\ ("ORGANIZER" \in i.roles) = q.entitled
      /\ q.want.roles = q.had.roles \cup i.roles
    BY ClaimedInvitation
<1>3. /\ rights' = Updated(r, q.user, want, q.entitled)
      /\ r \in Rights /\ InvitationsFollow(rights, r)
      /\ r.member = rights.member /\ r.represents = rights.represents
      /\ r.awaiting = rights.awaiting
    BY ClaimedRights
<1>4. owner # q.user
    BY <1>1 DEF MayUpdate
<1>5. /\ want \in Request /\ Covered(want) /\ want.roles = q.want.roles
      /\ q.user \notin crossed => Used(want)
    BY <1>2, EffectiveRequest
<1> HIDE DEF q, i, r, want
<1>6. Agree(r, owner, crossed, contested) /\ OrganizersOf(r) = OrganizersOf(rights)
    BY <1>3, TypedState, SameMembers
<1>7. /\ rights' \in Rights
      /\ InvitationsFollow(r, rights')
      /\ Agree(rights', owner, crossed, contested)
      /\ q.entitled /\ "ORGANIZER" \in want.roles => OrganizersOf(rights') = OrganizersOf(r) \cup {q.user}
      /\ ~q.entitled => OrganizersOf(rights') = OrganizersOf(r)
    BY <1>2, <1>3, <1>4, <1>5, <1>6, TypedState, UpdatedAgrees
<1>8. named' \in SUBSET Users /\ Appointed(rights', named', crossed')
    <2>1. CASE q.entitled
        <3>1. "ORGANIZER" \in i.roles /\ "ORGANIZER" \in want.roles /\ q.rightful
            BY <1>2, <1>5, <2>1
        <3>2. named' = named \cup {q.user}
            BY <1>1, <3>1
        <3>3. OrganizersOf(rights') = OrganizersOf(rights) \cup {q.user}
            BY <1>6, <1>7, <2>1, <3>1
        <3>4. crossed' = crossed
            BY <1>1
        <3> QED BY <1>2, <3>2, <3>3, <3>4, TypedState DEF Appointed
    <2>2. CASE ~q.entitled
        BY <1>1, <1>2, <1>6, <1>7, <2>2, TypedState DEF Appointed
    <2> QED BY <2>1, <2>2
<1>9. InvitationsFollow(rights, rights')
    BY <1>3, <1>7, FollowsOn DEF InvitationsFollow
<1> QED BY <1>1, <1>7, <1>8, <1>9, IdleIsACall, TypedState, CallAndRightsChange

-----------------------------------------------------------------------------
(* A new owner, whichever OWNER roles the transaction deletes.             *)

LEMMA TransferStep == ASSUME IInv, NEW c \in Calls, Transfer(c) PROVE IInv'
<1> DEFINE u == calls[c].user
<1>1. PICK found \in {calls[c].owners, Owners} :
         LET dropped == Without(rights, "OWNER", found)
             owned == IF u = None THEN dropped
                      ELSE WithMember(dropped, u, [roles |-> Held(dropped, u).roles \cup {"OWNER"},
                                                   elements |-> Held(dropped, u).elements])
         IN rights' = Pruned(owned, found \ {u}) /\ contested' = (found # Owners)
    BY DEF Transfer
<1>2. /\ calls[c].kind = "transfer" /\ owner' = u /\ calls' = [calls EXCEPT ![c] = Idle]
      /\ UNCHANGED <<accounts, acts, named, crossed>>
    BY DEF Transfer, OfKind, Done
<1>3. u \in Users \cup {None}
    BY <1>2, TypedState, CallShape
<1> DEFINE dropped == Without(rights, "OWNER", found)
           m == [roles |-> Held(dropped, u).roles \cup {"OWNER"},
                 elements |-> Held(dropped, u).elements]
           owned == IF u = None THEN dropped ELSE WithMember(dropped, u, m)
<1>4. rights' = Pruned(owned, found \ {u}) /\ contested' = (found # Owners)
    BY <1>1
<1> HIDE DEF u, dropped, m, owned
<1>5. /\ dropped \in Rights
      /\ SameButMembers(rights, dropped)
      /\ \A v \in Users :
           /\ dropped.member[v] = None <=> rights.member[v] = None
           /\ Held(dropped, v).elements = Held(rights, v).elements
           /\ v \in found => Held(dropped, v).roles = Held(rights, v).roles \ {"OWNER"}
           /\ v \notin found => Held(dropped, v).roles = Held(rights, v).roles
           /\ v \notin found => dropped.member[v] = rights.member[v]
    <2>1. "OWNER" \in Roles
        BY DEF Roles
    <2> QED BY <2>1, TypedState, WithoutEffect DEF dropped
<1>6. /\ owned \in Rights
      /\ SameButMembers(dropped, owned)
      /\ u # None => /\ Held(owned, u).roles = Held(dropped, u).roles \cup {"OWNER"}
                     /\ Held(owned, u).elements = Held(dropped, u).elements
      /\ \A v \in Users \ {u} : owned.member[v] = dropped.member[v] /\ Held(owned, v) = Held(dropped, v)
    <2>1. CASE u = None
        BY <1>5, <2>1 DEF owned, SameButMembers
    <2>2. CASE u # None
        <3>1. u \in Users
            BY <1>3, <2>2
        <3>2. Held(dropped, u).roles \cup {"OWNER"} \in SUBSET Roles
              /\ Held(dropped, u).elements \in SUBSET Elements
            BY <1>5, <3>1, HeldType DEF Roles
        <3>3. /\ m \in Membership /\ m.roles = Held(dropped, u).roles \cup {"OWNER"}
              /\ m.elements = Held(dropped, u).elements
            BY <3>2 DEF m, Membership
        <3>4. m # None
            BY <3>3, NoneIsNobody
        <3>5. owned = WithMember(dropped, u, m)
            BY <2>2 DEF owned
        <3>6. /\ owned \in Rights
              /\ SameButMembers(dropped, owned)
              /\ Held(owned, u) = m
              /\ \A v \in Users \ {u} :
                    owned.member[v] = dropped.member[v] /\ Held(owned, v) = Held(dropped, v)
            BY <1>5, <3>1, <3>3, <3>4, <3>5, WithMemberEffect
        <3> QED BY <3>3, <3>6
    <2> QED BY <2>1, <2>2
<1>7. /\ rights' \in Rights
      /\ SameButMembers(owned, rights')
      /\ \A v \in Users :
           /\ Held(rights', v) = Held(owned, v)
           /\ rights'.member[v] # None => rights'.member[v] = owned.member[v]
           /\ (v \in found \ {u} /\ Held(owned, v) = NoRights /\ TeamsOf(owned, v) = {})
                 => rights'.member[v] = None
    BY <1>4, <1>6, PrunedEffect
<1>8. SameButMembers(rights, rights')
    BY <1>5, <1>6, <1>7 DEF SameButMembers
<1>9. \A v : TeamsOf(owned, v) = TeamsOf(rights, v)
    BY <1>5, <1>6, SameTeams DEF SameButMembers
<1>10. ASSUME NEW v \in Users
       PROVE  /\ Held(rights', v).elements = Held(rights, v).elements
              /\ Held(rights', v).roles \ {"OWNER"} = Held(rights, v).roles \ {"OWNER"}
              /\ v = u => "OWNER" \in Held(rights', v).roles
    <2>1. CASE v = u
        <3>1. u # None
            BY <2>1, NoneIsNobody
        <3>2. /\ Held(rights', v).elements = Held(rights, v).elements
              /\ Held(rights', v).roles = Held(dropped, v).roles \cup {"OWNER"}
            BY <1>5, <1>6, <1>7, <2>1, <3>1
        <3> QED BY <1>5, <3>2
    <2>2. CASE v # u
        <3>1. Held(rights', v) = Held(dropped, v)
            BY <1>6, <1>7, <2>2
        <3> QED BY <1>5, <2>2, <3>1
    <2> QED BY <2>1, <2>2
<1>11. \A v \in Users, role \in {"ORGANIZER", "JUDGE", "REPRESENTATIVE"} :
          (role \in Held(rights', v).roles) <=> (role \in Held(rights, v).roles)
    BY <1>10
<1>12. ASSUME NEW t \in Teams, rights'.represents[t] # None
       PROVE  "REPRESENTATIVE" \in Held(rights', rights'.represents[t]).roles
              /\ rights'.awaiting[t] = None
    <2> DEFINE w == rights'.represents[t]
    <2>1. rights.represents[t] = w /\ rights'.awaiting[t] = rights.awaiting[t]
        BY <1>8 DEF SameButMembers
    <2>2. w \in Users
        BY <1>7, <1>12, RightsShape
    <2>3. "REPRESENTATIVE" \in Held(rights, w).roles /\ rights.awaiting[t] = None
        BY <1>12, <2>1, TypedState DEF Agree
    <2> HIDE DEF w
    <2>4. "REPRESENTATIVE" \in Held(rights', w).roles /\ rights'.awaiting[t] = None
        BY <1>11, <2>1, <2>2, <2>3
    <2> QED BY <2>4 DEF w
<1>13. ASSUME NEW v \in Users \ crossed PROVE Sound(rights', v)
    <2>1. Sound(rights, v)
        BY TypedState DEF Agree
    <2>2. TeamsOf(rights', v) = TeamsOf(rights, v)
        BY <1>8, SameTeams DEF SameButMembers
    <2>3. /\ Held(rights', v).elements # {} => "JUDGE" \in Held(rights', v).roles
          /\ "JUDGE" \in Held(rights', v).roles \ UNION Added => Held(rights', v).elements # {}
          /\ "REPRESENTATIVE" \in Held(rights', v).roles \ UNION Added => TeamsOf(rights', v) # {}
        BY <1>10, <1>11, <2>1, <2>2 DEF Sound
    <2>4. ASSUME Held(rights', v).roles = {} PROVE rights'.member[v] = None
        <3>1. v # u
            BY <1>10, <2>4
        <3>2. TeamsOf(rights, v) = {}
            BY <1>11, <2>4, RolesAreNeeded
        <3>3. Held(rights', v) = NoRights
            BY <1>7, <2>3, <2>4, HeldType DEF NoRights
        <3>4. CASE v \in found
            BY <1>7, <1>9, <3>1, <3>2, <3>3, <3>4
        <3>5. CASE v \notin found
            <4>1. owned.member[v] = rights.member[v] /\ Held(owned, v).roles = Held(rights, v).roles
                BY <1>5, <1>6, <3>1, <3>5
            <4>2. Held(rights, v).roles = {}
                BY <1>7, <2>4, <4>1
            <4>3. rights.member[v] = None
                BY <2>1, <4>2 DEF Sound
            <4> QED BY <1>7, <4>1, <4>3
        <3> QED BY <3>4, <3>5
    <2> QED BY <2>3, <2>4 DEF Sound
<1>14. ASSUME NEW v \in Users, found = Owners, v # u
       PROVE  "OWNER" \notin Held(rights', v).roles
    <2>1. Held(rights', v) = Held(dropped, v)
        BY <1>6, <1>7, <1>14
    <2>2. v \notin found => "OWNER" \notin Held(rights, v).roles
        BY <1>14 DEF Owners
    <2> QED BY <1>5, <2>1, <2>2
<1>15. Agree(rights', owner', crossed', contested')
    <2>1. owner' \in Users \ crossed' => "OWNER" \in Held(rights', owner').roles
        BY <1>2, <1>10
    <2>2. ~contested' => OwnersOf(rights') \subseteq {owner'}
        BY <1>2, <1>4, <1>14 DEF OwnersOf
    <2> QED BY <1>2, <1>12, <1>13, <2>1, <2>2 DEF Agree
<1>16. Appointed(rights', named', crossed')
    <2>1. OrganizersOf(rights') = OrganizersOf(rights)
        BY <1>11 DEF OrganizersOf
    <2> QED BY <1>2, <2>1, TypedState DEF Appointed
<1>17. InvitationsFollow(rights, rights')
    BY <1>8, SameInvitations
<1>18. /\ owner' \in Users \cup {None} /\ contested' \in BOOLEAN /\ named' \in SUBSET Users
       /\ crossed \subseteq crossed' /\ crossed' \in SUBSET Users
    BY <1>2, <1>3, <1>4, TypedState
<1> QED BY <1>2, <1>7, <1>15, <1>16, <1>17, <1>18, IdleIsACall, TypedState, CallAndRightsChange

-----------------------------------------------------------------------------
(* The theorems.                                                           *)

LEMMA InitEstablishes == Init => IInv
<1> SUFFICES ASSUME Init PROVE IInv
    OBVIOUS
<1> DEFINE founded == [roles |-> {"OWNER", "ORGANIZER"}, elements |-> {}]
<1>1. /\ accounts = FirstAccounts /\ owner = Founder /\ acts = 0 /\ named = {Founder}
      /\ crossed = {} /\ contested = FALSE
      /\ calls = [c \in Calls |-> Idle]
      /\ rights.member = [u \in Users |-> IF u = Founder THEN founded ELSE None]
      /\ rights.represents = [t \in Teams |-> None] /\ rights.awaiting = [t \in Teams |-> None]
      /\ rights.invited = [u \in Users |-> None]
      /\ rights = [member |-> rights.member, represents |-> rights.represents,
                   awaiting |-> rights.awaiting, invited |-> rights.invited]
    BY DEF Init
<1>2. founded \in Membership /\ founded.roles = {"OWNER", "ORGANIZER"} /\ founded.elements = {}
    BY DEF Membership, Roles, Editable
<1>3. Founder \in Users
    BY PeopleAssumption
<1> HIDE DEF founded
<1>4. rights \in Rights
    <2>1. rights.member \in [Users -> Membership \cup {None}]
        BY <1>1, <1>2
    <2>2. /\ rights.represents \in [Teams -> Users \cup {None}]
          /\ rights.awaiting \in [Teams -> Users \cup {None}]
          /\ rights.invited \in [Users -> Invitation \cup {None}]
        BY <1>1
    <2> QED BY <1>1, <2>1, <2>2 DEF Rights
<1>5. \A u \in Users : Held(rights, u) = IF u = Founder THEN founded ELSE NoRights
    BY <1>1, <1>2, NoneIsNobody DEF Held
<1>6. Agree(rights, owner, crossed, contested)
    <2>1. \A t \in Teams : rights.represents[t] = None
        BY <1>1
    <2>2. ASSUME NEW u \in Users PROVE Sound(rights, u)
        BY <1>1, <1>2, <1>5 DEF NoRights, Sound
    <2>3. "OWNER" \in Held(rights, owner).roles /\ OwnersOf(rights) \subseteq {owner}
        BY <1>1, <1>2, <1>3, <1>5 DEF OwnersOf, NoRights
    <2> QED BY <2>1, <2>2, <2>3 DEF Agree
<1>7. Appointed(rights, named, crossed)
    BY <1>1, <1>2, <1>3, <1>5 DEF Appointed, OrganizersOf, NoRights
<1>8. InvitationsSound(rights.invited, acts)
    BY <1>1 DEF InvitationsSound
<1>9. CallsSound(calls, rights.invited, acts, crossed)
    BY <1>1, IdleIsACall DEF CallsSound
<1>10. TypeOK
    <2>1. calls \in [Calls -> Call]
        BY <1>1, IdleIsACall
    <2>2. acts \in 0..MaxActs
        BY <1>1, PeopleAssumption
    <2> QED BY <1>1, <1>3, <1>4, <2>1, <2>2, PeopleAssumption DEF TypeOK
<1> QED BY <1>6, <1>7, <1>8, <1>9, <1>10 DEF IInv

LEMMA StutterKeeps == ASSUME IInv, UNCHANGED vars PROVE IInv'
<1>1. /\ accounts' = accounts /\ owner' = owner /\ rights' = rights /\ calls' = calls
      /\ acts' = acts /\ named' = named /\ crossed' = crossed /\ contested' = contested
    BY DEF vars, ghosts
<1> QED BY <1>1 DEF IInv, TypeOK

LEMMA NextKeeps == ASSUME IInv, Next PROVE IInv'
<1>1. ASSUME NEW c \in Calls,
             \/ Accept(c) \/ Assign(c) \/ MarkInvitation(c) \/ Refuse(c)
             \/ SetJudge(c) \/ CountRights(c) \/ Prune(c) \/ MembershipGone(c)
             \/ Transfer(c) \/ TransferFails(c)
      PROVE  IInv'
    BY <1>1, AcceptStep, AssignStep, MarkInvitationStep, RefuseStep, SetJudgeStep, CountRightsStep,
       PruneStep, MembershipGoneStep, TransferStep, TransferFailsStep
<1>2. ASSUME NEW u \in Users,
             Expire(u) \/ SignIn(u) \/ \E c \in Calls : OpenAcceptance(c, u)
      PROVE  IInv'
    BY <1>2, ExpireStep, SignInStep, OpenAcceptanceStep
<1>3. ASSUME NEW u \in Athletes, Compete(u) \/ \E c \in Calls : StopCompeting(c, u)
      PROVE  IInv'
    BY <1>3, PeopleAssumption, CompeteStep, StopCompetingStep
<1>4. ASSUME NEW by \in Users \cup {Admin}, NEW u \in Users,
             \/ Revoke(by, u)
             \/ \E c \in Calls : \/ RemoveOrganizer(c, by, u) \/ BeginRemoveJudge(c, by, u)
                                \/ \E elements \in SUBSET Elements : BeginSetJudge(c, by, u, elements)
             \/ \E q \in Requests : \/ Invite(by, u, q)
                                    \/ \E c \in Calls : BeginAssign(c, by, u, q)
             \/ \E roles \in Added : AddMember(by, u, roles)
             \/ \E teams \in SUBSET Teams : GiveTeams(by, teams, u)
             \/ \E t \in Teams : AwaitRepresentative(by, t, u)
      PROVE  IInv'
    BY <1>4, RevokeStep, RemoveOrganizerStep, BeginRemoveJudgeStep, InviteStep, BeginAssignStep,
       AddMemberStep, BeginSetJudgeStep, GiveTeamsStep, AwaitRepresentativeStep
<1>5. ASSUME NEW by \in Users \cup {Admin},
             \/ \E t \in Teams : TakeTeam(by, t)
             \/ \E c \in Calls, u \in Users \cup {None} : BeginTransfer(c, by, u)
      PROVE  IInv'
    BY <1>5, TakeTeamStep, BeginTransferStep
<1> QED BY <1>1, <1>2, <1>3, <1>4, <1>5 DEF Next

\* The rights, the invitations and the calls under way stay what the two
\* transactions rely on.
THEOREM Invariant == Spec => []IInv
<1>1. Init => IInv
    BY InitEstablishes
<1>2. IInv /\ [Next]_vars => IInv'
    BY NextKeeps, StutterKeeps
<1> QED BY <1>1, <1>2, PTL DEF Spec

\* Every variable of the roles keeps its type.
THEOREM TypeCorrect == Spec => []TypeOK
<1>1. IInv => TypeOK
    BY DEF IInv
<1> QED BY <1>1, Invariant, PTL

\* Whatever the routes do and in whatever order the transactions come,
\* representatives, judges and the owner hold the roles for what they have,
\* and the roles have what they are for, but for those whose rights changed
\* under the appointment or removal of a judge, or the removal of an
\* organiser or a competitor; and nobody but the owner holds
\* OWNER, unless two changes of owner overlapped.
THEOREM RightsAgreeHolds == Spec => []RightsAgree
<1>1. IInv => RightsAgree
    BY DEF IInv, Agree, Sound, Owners, OwnersOf, RightsAgree
<1> QED BY <1>1, Invariant, PTL

\* The organisers are those whom somebody entitled to appoint has appointed:
\* no stale merge and no invitation accepted late raises or lowers anyone.
THEOREM OrganizersAreNamedHolds == Spec => []OrganizersAreNamed
<1>1. IInv => OrganizersAreNamed
    BY DEF IInv, Appointed, OrganizersOf, Organizers, OrganizersAreNamed
<1> QED BY <1>1, Invariant, PTL

-----------------------------------------------------------------------------
(* What an acceptance does.                                                *)

LEMMA OtherCallsStay ==
    ASSUME IInv, NEW c \in Calls, calls[c].kind = "accept",
           NEW d \in Calls, NEW x, calls' = [calls EXCEPT ![d] = x], calls[d].kind # "accept"
    PROVE  calls'[c] # Idle
<1>1. c # d
    OBVIOUS
<1>2. calls'[c] = calls[c]
    BY <1>1, TypedState
<1> QED BY <1>2 DEF Idle

\* Only an acceptance ends an acceptance under way and changes the rights.
LEMMA OnlyAcceptance ==
    ASSUME IInv, Next, NEW c \in Calls, calls[c].kind = "accept", calls'[c] = Idle,
           rights' # rights
    PROVE  Accept(c)
<1>1. ~UNCHANGED calls
    BY DEF Idle
<1>2. ASSUME NEW d \in Calls, Accept(d) PROVE d = c
    <2>1. calls' = [calls EXCEPT ![d] = Idle]
        BY <1>2 DEF Accept, Done
    <2>2. d # c => calls'[c] = calls[c]
        BY <2>1, TypedState
    <2> QED BY <2>2 DEF Idle
<1>3. \A d \in Calls : ~Assign(d)
    BY OtherCallsStay DEF Assign, OfKind
<1>4. \A d \in Calls : ~MarkInvitation(d)
    BY OtherCallsStay DEF MarkInvitation, Done, OfKind
<1>5. \A d \in Calls : ~Refuse(d) /\ ~TransferFails(d)
    BY DEF Refuse, TransferFails
<1>6. \A d \in Calls : ~Transfer(d)
    BY OtherCallsStay DEF Transfer, Done, OfKind
<1>7. \A d \in Calls, u \in Users : ~OpenAcceptance(d, u)
    BY DEF OpenAcceptance
<1>8. \A d \in Calls : ~SetJudge(d)
    BY OtherCallsStay DEF SetJudge, Done, OfKind
<1>9. \A d \in Calls : ~Prune(d)
    BY OtherCallsStay DEF Prune, Done, OfKind
<1>10. \A d \in Calls : ~CountRights(d) /\ ~MembershipGone(d)
    BY DEF CountRights, MembershipGone
<1>11. \A d \in Calls, by \in Users \cup {Admin}, u \in Users :
          /\ ~BeginRemoveJudge(d, by, u) /\ ~RemoveOrganizer(d, by, u) /\ ~StopCompeting(d, u)
          /\ \A elements \in SUBSET Elements : ~BeginSetJudge(d, by, u, elements)
    BY DEF BeginRemoveJudge, RemoveOrganizer, StopCompeting, BeginSetJudge
<1>12. \A d \in Calls, by \in Users \cup {Admin}, u \in Users \cup {None} : ~BeginTransfer(d, by, u)
    BY DEF BeginTransfer
<1>13. \A d \in Calls, by \in Users \cup {Admin}, u \in Users, q \in Requests :
         ~BeginAssign(d, by, u, q)
    BY DEF BeginAssign
<1>14. \A u \in Users : ~Expire(u) /\ ~SignIn(u) /\ ~Compete(u)
    BY <1>1 DEF Expire, SignIn, Compete
<1>15. \A by \in Users \cup {Admin}, u \in Users :
          /\ ~Revoke(by, u)
          /\ \A q \in Requests : ~Invite(by, u, q)
          /\ \A roles \in Added : ~AddMember(by, u, roles)
          /\ \A teams \in SUBSET Teams : ~GiveTeams(by, teams, u)
          /\ \A t \in Teams : ~AwaitRepresentative(by, t, u)
    BY <1>1, ZenonT(20) DEF Revoke, Invite, AddMember, GiveTeams, AwaitRepresentative
<1>16. \A by \in Users \cup {Admin}, t \in Teams : ~TakeTeam(by, t)
    BY <1>1 DEF TakeTeam
<1>17. Athletes \subseteq Users
    BY PeopleAssumption
<1>18. PICK d \in Calls : Accept(d)
    BY <1>3, <1>4, <1>5, <1>6, <1>7, <1>8, <1>9, <1>10, <1>11, <1>12, <1>13, <1>14, <1>15, <1>16,
       <1>17 DEF Next
<1> QED BY <1>2, <1>18

LEMMA AcceptanceGivesTheUnion ==
    ASSUME IInv, NEW c \in Calls, Accept(c)
    PROVE  LET q == calls[c]
               u == q.user
               i == rights.invited[u]
           IN /\ Pending(i) /\ i.token = q.token /\ rights'.invited[u].state = "ACCEPTED"
              /\ Held(rights', u).roles =
                   (Held(rights, u).roles \ Editable) \cup q.had.roles \cup i.roles
              /\ Held(rights', u).elements =
                   IF "JUDGE" \in Held(rights', u).roles THEN q.had.elements \cup i.elements ELSE {}
              /\ i.elements # {} => "JUDGE" \in i.roles
              /\ TeamsOf(rights', u) = q.had.teams \cup i.teams
              /\ \A v \in Users \ {u} :
                   /\ Held(rights, v).roles \ {"REPRESENTATIVE"} \subseteq Held(rights', v).roles
                   /\ Held(rights', v).elements = Held(rights, v).elements
                   /\ TeamsOf(rights, v) \ TeamsOf(rights', v) \subseteq q.had.teams \cup i.teams
<1> DEFINE q == calls[c]
           u == q.user
           i == rights.invited[u]
           r == WithState(rights, u, "ACCEPTED")
           want == Effective(q.want)
           had == q.had
           entitled == q.entitled
<1>1. /\ u \in Users /\ q.want \in Request /\ had \in Request /\ entitled \in BOOLEAN
      /\ i \in Invitation /\ Pending(i) /\ i.token = q.token
      /\ q.want.roles # {} /\ Complete(i)
      /\ q.want.teams # {} => "REPRESENTATIVE" \in q.want.roles
      /\ ("ORGANIZER" \in i.roles) = entitled
      /\ q.want.roles = had.roles \cup i.roles
      /\ q.want.elements = had.elements \cup i.elements
      /\ q.want.teams = had.teams \cup i.teams
    BY ClaimedInvitation
<1>2. /\ rights' = Updated(r, u, want, entitled)
      /\ r \in Rights
      /\ r.member = rights.member /\ r.represents = rights.represents
      /\ r.awaiting = rights.awaiting
      /\ r.invited[u].state = "ACCEPTED"
    BY ClaimedRights
<1>3. entitled \/ (("ORGANIZER" \in RolesOf(u)) = ("ORGANIZER" \in want.roles))
    <2>1. entitled \/ (("ORGANIZER" \in RolesOf(u)) = ("ORGANIZER" \in q.want.roles))
        BY DEF Accept, MayUpdate, MayChangeOrganizer
    <2> QED BY <1>1, <2>1, EffectiveRequest
<1>4. RolesOf(u) = Held(rights, u).roles
    <2>1. u # Admin
        BY <1>1, PeopleAssumption
    <2> QED BY <2>1 DEF RolesOf
<1>5. /\ want \in Request /\ want.roles = had.roles \cup i.roles /\ want.roles # {}
      /\ want.elements = IF "JUDGE" \in want.roles THEN had.elements \cup i.elements ELSE {}
      /\ want.teams = had.teams \cup i.teams
      /\ i.roles \in SUBSET Editable /\ had.roles \in SUBSET Editable
      /\ want.roles \in SUBSET Editable /\ want.teams \in SUBSET Teams
    <2>1. /\ want \in Request /\ want.roles = q.want.roles
          /\ want.elements = IF "JUDGE" \in q.want.roles THEN q.want.elements ELSE {}
          /\ want.teams = IF "REPRESENTATIVE" \in q.want.roles THEN q.want.teams ELSE {}
        BY <1>1, EffectiveRequest
    <2>2. i.roles \in SUBSET Editable
        BY <1>1, InvitationShape
    <2> HIDE DEF want, had, q, i
    <2>3. had.roles \in SUBSET Editable /\ want.roles \in SUBSET Editable /\ want.teams \in SUBSET Teams
        BY <1>1, <2>1 DEF Request
    <2> QED BY <1>1, <2>1, <2>2, <2>3
<1> HIDE DEF u, i, r, want, had, entitled
<1>6. ~NothingAsked(r, u, want)
    BY <1>5 DEF NothingAsked
<1>7. \A v : Held(r, v) = Held(rights, v)
    BY <1>2, SameMembers
<1>8. /\ \A v \in Users : ~Open(r.invited[v]) => rights'.invited[v] = r.invited[v]
      /\ \A t \in Teams :
           rights'.represents[t] = IF t \in want.teams THEN u
                                   ELSE IF r.represents[t] = u THEN None ELSE r.represents[t]
      /\ Held(rights', u).elements = want.elements
      /\ Held(rights', u).roles = (Held(r, u).roles \ Changeable(entitled))
                                     \cup (want.roles \cap Changeable(entitled))
      /\ \A v \in Users \ {u} : KeepsAllButTeams(r, rights', v)
    BY <1>1, <1>2, <1>5, <1>6, UpdatedEffect
<1>9. rights'.invited[u].state = "ACCEPTED"
    <2>1. ~Open(r.invited[u])
        BY <1>2 DEF Open
    <2> QED BY <1>1, <1>2, <1>8, <2>1
<1>10. Held(rights', u).roles = (Held(rights, u).roles \ Editable) \cup had.roles \cup i.roles
    <2>1. Held(rights', u).roles = (Held(rights, u).roles \ Changeable(entitled))
                                      \cup (want.roles \cap Changeable(entitled))
        BY <1>7, <1>8
    <2>2. CASE entitled
        <3>1. Changeable(entitled) = Editable
            BY <2>2 DEF Changeable
        <3> QED BY <1>1, <1>5, <2>1, <3>1
    <2>3. CASE ~entitled
        <3>1. Changeable(entitled) = Editable \ {"ORGANIZER"}
            BY <2>3 DEF Changeable
        <3>2. "ORGANIZER" \in Held(rights, u).roles <=> "ORGANIZER" \in want.roles
            BY <1>3, <1>4, <2>3
        <3>3. "ORGANIZER" \in Editable
            BY DEF Editable
        <3> QED BY <1>1, <1>5, <2>1, <3>1, <3>2, <3>3
    <2> QED BY <1>1, <2>2, <2>3
<1>11. /\ Held(rights', u).elements =
            IF "JUDGE" \in Held(rights', u).roles THEN had.elements \cup i.elements ELSE {}
       /\ i.elements # {} => "JUDGE" \in i.roles
    <2>1. "JUDGE" \in Editable
        BY DEF Editable
    <2>2. "JUDGE" \in Held(rights', u).roles <=> "JUDGE" \in want.roles
        BY <1>5, <1>10, <2>1
    <2> QED BY <1>1, <1>5, <1>8, <2>2 DEF Complete, Covered
<1>12. TeamsOf(rights', u) = had.teams \cup i.teams
    <2>1. u # None
        BY <1>1, NoneIsNobody
    <2>2. \A t \in Teams : rights'.represents[t] = u <=> t \in want.teams
        BY <1>8, <2>1
    <2>3. TeamsOf(rights', u) = want.teams
        BY <1>5, <2>2 DEF TeamsOf
    <2> QED BY <1>5, <2>3
<1>13. ASSUME NEW v \in Users \ {u}
       PROVE  /\ Held(rights, v).roles \ {"REPRESENTATIVE"} \subseteq Held(rights', v).roles
              /\ Held(rights', v).elements = Held(rights, v).elements
              /\ TeamsOf(rights, v) \ TeamsOf(rights', v) \subseteq had.teams \cup i.teams
    <2>1. KeepsAllButTeams(r, rights', v) /\ Held(r, v) = Held(rights, v)
        BY <1>7, <1>8
    <2>2. ASSUME NEW t \in Teams, rights.represents[t] = v, t \notin want.teams
          PROVE  rights'.represents[t] = v
        BY <1>2, <1>8, <2>2
    <2>3. TeamsOf(rights, v) \ TeamsOf(rights', v) \subseteq want.teams
        BY <2>2 DEF TeamsOf
    <2> QED BY <1>5, <2>1, <2>3 DEF KeepsAllButTeams
<1> HIDE DEF q
<1>14. /\ Pending(i) /\ i.token = q.token /\ rights'.invited[u].state = "ACCEPTED"
       /\ Held(rights', u).roles = (Held(rights, u).roles \ Editable) \cup had.roles \cup i.roles
       /\ Held(rights', u).elements =
            IF "JUDGE" \in Held(rights', u).roles THEN had.elements \cup i.elements ELSE {}
       /\ i.elements # {} => "JUDGE" \in i.roles
       /\ TeamsOf(rights', u) = had.teams \cup i.teams
       /\ \A v \in Users \ {u} :
            /\ Held(rights, v).roles \ {"REPRESENTATIVE"} \subseteq Held(rights', v).roles
            /\ Held(rights', v).elements = Held(rights, v).elements
            /\ TeamsOf(rights, v) \ TeamsOf(rights', v) \subseteq had.teams \cup i.teams
    BY <1>1, <1>9, <1>10, <1>11, <1>12, <1>13
<1> QED BY <1>14 DEF q, u, i, had

\* An acceptance uses an open invitation up and gives all that it offers by
\* then and nothing else; the person loses nothing that they held when it was
\* opened and hold still, and nobody else more than the teams it offers.
THEOREM AcceptanceIsTheUnionHolds == Spec => AcceptanceIsTheUnion
<1> DEFINE Union ==
       \A c \in Calls : (calls[c].kind = "accept" /\ calls'[c] = Idle /\ rights' # rights) =>
         LET q == calls[c]
             u == q.user
             i == rights.invited[u]
             before == Held(rights, u)
             after == Held(rights', u)
         IN /\ Pending(i) /\ i.token = q.token /\ rights'.invited[u].state = "ACCEPTED"
            /\ i.roles \subseteq after.roles
            /\ i.elements \subseteq after.elements
            /\ i.teams \subseteq TeamsOf(rights', u)
            /\ before.roles \cap (q.had.roles \cup (Roles \ Editable)) \subseteq after.roles
            /\ "JUDGE" \in after.roles => before.elements \cap q.had.elements \subseteq after.elements
            /\ TeamsOf(rights, u) \cap q.had.teams \subseteq TeamsOf(rights', u)
            /\ after.roles \subseteq before.roles \cup q.had.roles \cup i.roles
            /\ after.elements \subseteq before.elements \cup q.had.elements \cup i.elements
            /\ TeamsOf(rights', u) \subseteq TeamsOf(rights, u) \cup q.had.teams \cup i.teams
            /\ \A v \in Users \ {u} :
                 /\ Held(rights, v).roles \ {"REPRESENTATIVE"} \subseteq Held(rights', v).roles
                 /\ Held(rights', v).elements = Held(rights, v).elements
                 /\ TeamsOf(rights, v) \ TeamsOf(rights', v) \subseteq q.had.teams \cup i.teams
<1>1. IInv /\ [Next]_vars => [Union]_vars
    <2>1. SUFFICES ASSUME IInv, Next, NEW c \in Calls,
                          calls[c].kind = "accept", calls'[c] = Idle, rights' # rights
                   PROVE  LET q == calls[c]
                              u == q.user
                              i == rights.invited[u]
                              before == Held(rights, u)
                              after == Held(rights', u)
                          IN /\ Pending(i) /\ i.token = q.token /\ rights'.invited[u].state = "ACCEPTED"
                             /\ i.roles \subseteq after.roles
                             /\ i.elements \subseteq after.elements
                             /\ i.teams \subseteq TeamsOf(rights', u)
                             /\ before.roles \cap (q.had.roles \cup (Roles \ Editable)) \subseteq after.roles
                             /\ "JUDGE" \in after.roles => before.elements \cap q.had.elements \subseteq after.elements
                             /\ TeamsOf(rights, u) \cap q.had.teams \subseteq TeamsOf(rights', u)
                             /\ after.roles \subseteq before.roles \cup q.had.roles \cup i.roles
                             /\ after.elements \subseteq before.elements \cup q.had.elements \cup i.elements
                             /\ TeamsOf(rights', u) \subseteq TeamsOf(rights, u) \cup q.had.teams \cup i.teams
                             /\ \A v \in Users \ {u} :
                                  /\ Held(rights, v).roles \ {"REPRESENTATIVE"} \subseteq Held(rights', v).roles
                                  /\ Held(rights', v).elements = Held(rights, v).elements
                                  /\ TeamsOf(rights, v) \ TeamsOf(rights', v) \subseteq q.had.teams \cup i.teams
        OBVIOUS
    <2> DEFINE q == calls[c]
               u == q.user
               i == rights.invited[u]
               before == Held(rights, u)
               after == Held(rights', u)
    <2>2. Accept(c)
        BY <2>1, OnlyAcceptance
    <2>3. /\ Pending(i) /\ i.token = q.token /\ rights'.invited[u].state = "ACCEPTED"
          /\ after.roles = (before.roles \ Editable) \cup q.had.roles \cup i.roles
          /\ after.elements = IF "JUDGE" \in after.roles THEN q.had.elements \cup i.elements ELSE {}
          /\ i.elements # {} => "JUDGE" \in i.roles
          /\ TeamsOf(rights', u) = q.had.teams \cup i.teams
          /\ \A v \in Users \ {u} :
               /\ Held(rights, v).roles \ {"REPRESENTATIVE"} \subseteq Held(rights', v).roles
               /\ Held(rights', v).elements = Held(rights, v).elements
               /\ TeamsOf(rights, v) \ TeamsOf(rights', v) \subseteq q.had.teams \cup i.teams
        BY <2>1, <2>2, AcceptanceGivesTheUnion
    <2> HIDE DEF q, u, i, before, after
    <2>4. i.roles \subseteq after.roles /\ (i.elements # {} => "JUDGE" \in after.roles)
        BY <2>3
    <2>5. i.elements \subseteq after.elements
        BY <2>3, <2>4
    <2>6. /\ before.roles \cap (q.had.roles \cup (Roles \ Editable)) \subseteq after.roles
          /\ after.roles \subseteq before.roles \cup q.had.roles \cup i.roles
        BY <2>3
    <2>7. /\ "JUDGE" \in after.roles => before.elements \cap q.had.elements \subseteq after.elements
          /\ after.elements \subseteq before.elements \cup q.had.elements \cup i.elements
        BY <2>3
    <2>8. /\ i.teams \subseteq TeamsOf(rights', u)
          /\ TeamsOf(rights, u) \cap q.had.teams \subseteq TeamsOf(rights', u)
          /\ TeamsOf(rights', u) \subseteq TeamsOf(rights, u) \cup q.had.teams \cup i.teams
        BY <2>3
    <2> QED BY <2>3, <2>4, <2>5, <2>6, <2>7, <2>8 DEF q, u, i, before, after
<1> HIDE DEF Union
<1>2. Spec => [][Union]_vars
    BY <1>1, Invariant, PTL DEF Spec
<1> QED BY <1>2 DEF AcceptanceIsTheUnion, Union

=============================================================================
