# Tulemuste haldus: TLA+ models, model checking and proofs

`tulemuste-haldus` is a Next.js application for competitions: teams register, an
organiser allocates places, the teams fill in their mandates, judges enter results and
the public sees a leaderboard. All state is in PostgreSQL (through Prisma); the handlers under
`src/src/app/api` read it, check, and write it in transactions, most of them in the
default isolation (READ COMMITTED) and some serializable. A cron calls the delivery,
digest, freeze and retention routes; e-mail goes through Resend.

The models are translated from the code. What each definition stands for, by file and
line, is in `PROJECT.json` under `map`; the comments name the lines a property is about.

## 1. Inventory

Paths are relative to `src/src/`; `api` is `app/api`.

| Component | Code | State | Operations | Modelled |
|---|---|---|---|---|
| Registration | `api/public/competitions/[id]/registrations`, `api/registration-applications/[id]`, `api/competitions/[id]/registration-applications/**`, `api/competitions/[id]/registration-settings`, `lib/organizerRegistration.server.ts`, `lib/registrationAllocation.server.ts`, `lib/competitionPhases.ts` | applications with status, waitlist position and history; the competition's settings, phase, `registrationFinalizedAt` | submit, edit, withdraw, decide, edit members, organiser's create and edit, save settings, finalise, delete a team | `Registration`, `RosterFreeze` |
| Registration allocation | `lib/registrationAllocation.ts` | none (a pure function) | guarantees in rounds, priorities, class balance, registration order | `RegistrationAllocation` |
| Registration form and validation | `lib/registrationForm.ts`, the validation of the settings, the answer handling of the registration, mandate and organiser routes | the form; the answers of an application and of a team | answer, correct, edit members, finalise, save and submit the mandate, change the form | `RegistrationForm`, `Answers` |
| Notification outbox | `lib/notifications.server.ts`, `lib/teamRepresentatives.server.ts`, `api/internal/notifications/deliver` | notifications with e-mail status, attempts, next attempt, batch | queue, batch, cancel, claim, send, record, give up stale claims | `NotificationOutbox` |
| Organiser messages | `lib/competitionMessages.server.ts`, `lib/messageDelivery*.ts`, `lib/resendBatch.ts`, `api/competitions/[id]/messages`, `api/webhooks/resend` | messages, recipients with delivery status | create, claim, send in batches, record, webhook events in any order, purge | `OrganizerMessages` |
| Organiser digest | `lib/organizerDigest*.ts`, `api/competitions/[id]/notification-subscription` | a subscription with `coveredUntil` and `nextDigestAt` | subscribe, change, end; one digest per period | `OrganizerDigest` |
| Team workflow | `api/representative/teams/[teamId]/**`, `api/competitions/[id]/registrations/[teamId]/review`, `api/competitions/[id]/teams/[teamId]`, `lib/teamWorkflow.ts` | registration and mandate status of a team, its content, its representative, `workflowUpdatedAt` | save, submit, review, transfer, organiser's save | `TeamWorkflow` |
| Result entry, recomputation | `api/elements/[id]/results`, `lib/recompute.ts`, `lib/scoreCompute.ts` | results with a version (`updatedAt`), failure rule and exceptions, additional points, computed scores | save with expected version, repeat, delete, reconfigure, recompute | `ResultEntry` |
| Score calculators | `lib/calculators`, `lib/scoreCompute.ts`, `lib/fixedRanking.ts`, `lib/classGroups.ts`, `lib/exceptionKinds.ts` | none (pure) | the points of an element by each calculation method | `ScoreCalculators`, `ScoringOrder`, `ElementPoints` |
| Tie-break and series ranking | `lib/publicLeaderboard.ts`, `lib/tieBreak.ts`, `lib/seriesScoring.ts`, `lib/seriesRanking.ts` | none (pure) | totals, places and shared places; best of N checkpoints of a series | `Standings`, `Leaderboard`, `SeriesRanking` |
| Leaderboard freeze, public snapshots | `lib/leaderboardFreeze*.ts`, `lib/publicSnapshotCache.ts`, `lib/publicLeaderboard.server.ts`, `api/competitions/[id]/leaderboard-freeze` | a stored frozen snapshot; an in-memory cache per process, with loads in flight | freeze, set anew, reveal, ensure, load, invalidate | `PublicSnapshots` |
| Freeze of a series | `lib/seriesFreeze.ts`, `lib/seriesRanking.server.ts`, `api/series/[id]/freeze` | the series' freeze time and its snapshot of the series' competitions | freeze, set anew, reveal, ensure the snapshot, show | `SeriesFreeze` |
| Roles and invitations | `api/invitations/**`, `api/competitions/[id]/{roles,role-invitations,members,judges,representatives,owner}`, `lib/competitionRole*.ts`, `lib/competitionOwnership.ts` | memberships, judged elements, represented teams, invitations, the owner | invite, revoke, accept, assign, add, remove, sign in, transfer the ownership | `RoleInvitations` |
| Member accounts | `lib/teamMemberAccounts.server.ts` | competitor roles of member accounts | resolve, ensure, clean up | partly, `RoleInvitations` |
| Personal data retention | `lib/personalDataRetention*.ts` | retention date, purged marker | purge once per competition | as far as messages see it, `OrganizerMessages` |
| Accounts, permissions | `lib/auth.ts`, `lib/permissions.ts`, `lib/competitionAccess.ts` | sessions | authentication | who may manage and appoint, `RoleInvitations`; elsewhere any actor calls any handler that its role allows |
| Rate limits, security alerts | `lib/security*.ts`, `api/security-alerts/[id]` | the log of events, alerts, rate-limit buckets | log, store an outcome, detect, resolve, purge | the log and its alerts, `SecurityAlerts` |
| Reports, dashboards, CSV, copying | `lib/registrationReport.ts`, `lib/dashboard/**` etc. | none | reads and formatting | no |
| Pages | `app/**/page.tsx`, `components/**` | what a browser holds | display | no: the models start at the handlers they call |

**How they interact.** Every handler of the registration, the team workflow and the
messages queues notifications in its own transaction, and delivers what is due after it
has committed; the cron delivers too, so delivery runs overlap. Every handler that writes an
element's results, configuration or additional points calls the recomputation in its
transaction, which reads the status of teams that other handlers write without a lock,
and invalidates the caches of its own process after the commit.
A recalculation of places
runs inside the transaction of the handler that calls it and calls the pure allocation.
The finalisation turns confirmed applications into teams, after which the team workflow
takes over; a change of a representative cancels notifications of the former one and gives
or takes the role. Every route logs what it does, and the cron turns the log into alerts. The purge of personal data deletes recipients under a delivery run.

**What is hard in it.**

- Handlers in the default isolation read, check and write later: the settings save, the
  member edit, the review, the team's saves and submissions, transfers of the ownership,
  what an acceptance merges.
- The waitlist is numbered by two routines, and the history, the row and the
  notifications are written by different statements of different handlers.
- Delivery runs overlap, crash, lose answers, and read rows before they claim them; the
  webhook's events come before, after and among the answers they are about.
- A digest's period is covered by runs with clocks of their own, while events are stamped
  before they are committed and the organiser changes the subscription.
- A security event is counted once it has an outcome, which may come after later events were
  counted; runs of the detection overlap, with clocks of their own, and an administrator
  resolves an alert between a run's reading and its write.
- A result's save is sent again while its first request is still on its way, or after the
  rule or the penalties have changed; every team's score depends on every team's row.
- A public view is loaded while an invalidation passes, and a freeze's snapshot is made by
  whoever comes first, while the freeze is set anew or lifted; a series takes one of several
  competitions that have freezes of their own.
- Roles, judged elements and represented teams are separate tables that six routes change.
- Guarantees, priorities and balance each change the counts that the next choice reads;
  answers are hidden, kept, locked and deleted by handlers with rules of their own.

`PROJECT.json` lists each hazard at its line, with the properties that would catch it.

**What makes each component correct.**

- *Registration*: the waitlist is numbered without a gap; places are neither overbooked nor
  free while someone waits; history tells the status; a finalised list is complete, has one team per confirmed application, and nothing of it
  changes afterwards.
- *Allocation*: guarantees that fit are honoured and contested ones shared; more places
  demote nobody.
- *Form*: no hidden answer stays, a locked one does, and a mandate can always be completed.
- *Outbox, messages*: an e-mail goes out at most once, by a run that holds it, never after it
  was cancelled; SENT tells the truth and stays; each one settles in the end.
- *Digest*: an event is told in exactly one digest.
- *Alerts*: an event is counted in exactly one alert of a rule, and none that happened after an
  alert was resolved is counted in it.
- *Team workflow*: what was submitted is locked, a former representative is refused, only
  what was submitted is approved, the mandate follows the registration.
- *Result entry*: a save replaces only what its page showed; a repeated save is recognised
  and never refused as somebody else's; each row follows
  the present rule and penalties; the scores are those of the committed inputs.
- *Scoring*: a better result never gets fewer points, those who failed come last, those out
  of competition change nothing, and places follow totals.
- *Snapshots*: a frozen leaderboard, or a frozen series, does not move, the first snapshot
  stays and belongs to its freeze, and nothing older is shown than what the process has
  announced.
- *Roles*: the tables agree; organisers are those whom somebody entitled has named; an
  acceptance adds what was offered.

## 2. Modules and the code

**`RegistrationAllocation`** is `allocateRegistrationPlaces` as operators: `Precedes`
(`compareCandidates`), `NextCandidate`, `Offer`, `GuaranteeRound` and `ApplyGuarantee` (a group's
turn, a round over the groups, the rounds of a rule), `Guaranteed` and `Preferred` (the
guarantees and the priorities in their order), `PickAll`, `Allocate`. A loop is a recursive
function `after`, of the number of steps done; a sort is `Arranged`.

**`Registration`** has a variable for each piece of state the handlers share: `row` (status,
waitlist position, allocation reason, class, members), `log` (the last event of the
history), `told` (the last status notified), `settings`, `competition`, `finalized`,
`linked`/`teamsMade` (the teams; `teamRoster` remembers the members each was made with), and
`save`/`edit`, the transactions of the two handlers that are split. A serializable handler is one action, with everything it
calls: `CreateApplication`, `UpdateApplication`, `WithdrawApplication`, `Decide`,
`OrganizerCreate`, `OrganizerEdit`, `Finalize`, `DeleteTeam`. The settings save and the
member edit run in the default isolation and are `SettingsBegin`/`SettingsCommit` and
`MembersBegin`/`MembersCommit`; while a settings save holds the row lock of the
competition, no other writer of that row takes a step. `Interleaved` says which of the two
may be interleaved with other handlers. A member list is a line for each member, with an e-mail
or without, and lines that have no name. `Finalize` is the handler with `prepareFinalize` and
`analyzeFinalize`: the e-mail that several members have stays with the first (`TakenBefore`,
`Repeats`, `Resolved`), and the organiser must have accepted every such issue (`Issues`).
`Elsewhere` are the e-mails of teams that were made by hand before. `Recalculated` is
`recalculateRegistrationAllocation`, `Reindexed` is `reindexWaitlistPositions`. The order
of the allocation is the constant `Ranking`. `MCRegistration` gives it a short definition and
its assumption `RankingIsTheAllocation` has TLC evaluate that `RegistrationAllocation` ranks every
pool of its instance in the same way; `AllocationRanks` proves for every pool what the theorems
about `Registration` ask of a ranking.

**`RosterFreeze`** is the abstract promise: applicants are deliberated about; the list is
frozen once, with no open application and one team for each admitted one; then nothing
changes. `Registration!FreezesTheRoster` is that specification under the mapping `Standing`
(absent, open, admitted, out), checked by TLC and proved.

**`RegistrationForm`** has the form (what the settings accept: `AcceptedForm`), its conditions
(`IsFormFieldVisible`), the validation (`ValidateFormAnswers`) and, per handler, the answers it
stores: `Register`, `OrganizerSave`, `UpdateMembers`, `SaveMandate` and the check
`CanSubmitMandate`. An answer is a set: nothing, a text or option, several options, members.
The validation is a recursive function `after`, of the number of fields checked (`Checked`).

**`Answers`** is what happens to the answers of one application, under any form of `Forms` and with
anything of `Inputs`: the applicant's edits (`Fill`), the organiser's save and member edit
(`Correct`, `EditMembers`), the copy to the team (`Finalise`), the mandate's saves
(`FillMandate`) and a change of the form on the way (`Reconfigure`). `fresh` remembers whether all
answers were given under the form as it is; an organiser's save makes them so unless an answer
stays to a field that he was not offered.

**`NotificationOutbox`** has the rows (`mail`), a transaction that joins a batch
(`joining`), each team's representative, the delivery runs (`worker`) and the provider
(what each idempotency key was first used for, how often each notification was mailed).
`Queue`, `QueueFirstOfBatch`, `JoinBegin`/`JoinCommit` are `queueUserNotification`;
`ReplaceRepresentative` and `RemoveRepresentative` the cancellation in
`setTeamRepresentative`; `StartRun`, `Scan`, `Take`, `Claim`, `Send`, `Record`, `Finish`
the steps of `deliverPendingNotifications` between its awaits; `Crash` ends a run
anywhere. The provider is external: it mails a key's first request, repeats its answer to
the same request, refuses a different one, and any answer may be lost. Time is relative
(ages of rows, claims and runs) so that the state space is finite.

**`OrganizerMessages`** is one message: its request (`PostBegin` looks at the purge,
`PostCommit` creates the recipients), the recipients' rows, the runs (`StartRun` gives up
stale claims and takes the first batches, `Claim`, `Send`, then `Record` or `PutOff`), the
provider (`Arrives`: a request may arrive after its sender has given it up), the webhook's
two steps (`EventFound`/`EventStored`, or `EventIgnored`), and `Purge`, which deletes the
rows under all of them. The provider answers with the ids of the accepted e-mails alone, in
the order of the request (`Order`, by the rows' places), and the indexes of the refused ones
(`RefusedAt`); `ResendIds` aligns the two. An e-mail is a pair of its recipient and the request
it comes of (`Emails`), so a recipient who is mailed by two requests has two e-mails, with
ids of their own; an event is about one of them and finds its row as `recordMessageDelivery`
does (`Matches`).

**`OrganizerDigest`** is one subscription. The organiser's request reads its clock
(`CallBegin`) before it writes (`Subscribe`, `ChangeSubscription`, `Unsubscribe`); a run reads
its clock (`Start`), then the subscription (`Select`), then the organiser's rights (`Check`, a
nondeterministic outcome), then claims the period in the transaction that reads its events
(`Claim`, `Outrun` if somebody was first). An event is stamped (`Write`) before it is committed
(`Commit`). The ends of an interval are multiples of a period: Tallinn's mornings, and the
hours that a change of the clocks adds or takes, are abstracted.

**`SecurityAlerts`** is the log of one account, with a rule of each form (failures and then a
success, a number of events about a number of things, single events): `Happen` and `Finish`
are `recordSecurityEvent` and `finishSecurityEvent`; a run reads its clock (`Wake`), takes the
lock and reads the settled events (`ReadEvents`), reads the recent alerts (`ReadAlerts`), and
updates and creates alerts (`WriteAlerts`), or rolls everything back (`RollBack`). `Resolve` is
the administrator's request. `Previous`, `Fresh`, `Collects` and `Triggered` are
`evaluateSecurityAlerts`. Events of one moment are in the order of the log; a run leaves the
last `Settle` moments alone. For the properties an event remembers whether its outcome came
within that time (`prompt`), and an alert which events it has counted and which had happened
when it was resolved.

**`TeamWorkflow`** is one team: `status` and `content` of its two phases, `representative`,
whether it comes from an application, and the requests between their reads and their
transaction. `EditBegin`/`EditCommit`, `SubmitBegin`/`SubmitCommit`,
`ReviewBegin`/`ReviewCommit` split each handler there; `Claimed` is `claimTeamWorkflow`,
and `Refused` its error. `OrganizerSave`, `SetTeamRepresentative` and
`ChangeCompetitionStatus` are single transactions. Approval modes and the opening of the
mandate change freely, so they are inputs of the step that reads them. Anything may come between
the reads and the writes of a review, as in the code, which claims nothing there. One switch
names a behaviour that a property excludes: `MembersAlone` (an organiser's call
that saves members alone and so leaves `workflowUpdatedAt` as it is; the team page always
sends the name as well).

**`ResultEntry`** is one scoring element with the browser pages of its judges. `rows`,
`config`, `misc` and `scores` are what is committed; `task` holds a transaction between its
steps, with what it has written itself (`Sees` is what it reads); `network` the requests on
their way; `page` and `waiting` the pages. `Post` is the handler of a save (`Verdict` its
branches in the code's order: deletion, rejected rule, repetition, conflict, write),
`Refuse` its 409 and 422; `DeleteAll`, `Reconfigure`, `ChangeMisc` and `Recalculate` begin
the other transactions that lock the element. `Compute` is `recomputeLockedElementScores`
(the failure of each row by the present rule, then the scores), and `Commit` or `Abort` ends
the transaction. `ChangeTeamStatus` takes no lock and recomputes nothing, so it may come
between any two steps. A request is lost, late or repeated: `Submit`, `GiveUp`, `Lose`.
What the calculators compute is the constant `Points`.

**`ScoreCalculators`** computes points as integers in ten-thousandths, so that the code's
roundings are integer divisions: `RelativeRanking`, `FixedRanking`, `ValueBased`, `Unranked`
(the methods without a ranking), `RankWithHorsConcours`, `CalculateScores` (one part),
`ComputeScores` (an element: parts, bonuses, those who left, cancelled elements).
**`ScoringOrder`** says what these points promise: which of two results is the better one
(`Better`), that it costs no more (`BetterCostsLess`), that those who failed come last
(`FailedComeLast`) and, where the steps survive the rounding, strictly behind
(`FailedStayBehind`), and which settings make sense (`SoundSettings`). **`ElementPoints`** is an
element whose results are entered one by one.
**`Standings`** has the rows of a leaderboard, who is eligible, each tie-break rule, the sort
of a group and the shared places, overall and by class; **`Leaderboard`** is one whose teams get
points one by one; **`SeriesRanking`** has the points of a checkpoint calculated
over all competitions of a series, with choices translated by their labels and points, the number of
checkpoints that count, the best of them, and the places.

**`PublicSnapshots`** is one competition's public view. The results are a number that every
write increments, so that a view is the number it was computed from. `SetFreeze`, `Reveal`,
`CronFinds`; `Check`, `Store`, `Reread` are `ensureSnapshot` with its transaction and the
row it finds; `Invalidate`; `Arrive`, `Find`, `Hit`, `Join`, `Miss`, `Load`, `Settle` a public
request with the cache of its process; `Save`/`Announce` a judge's save and the invalidation
after its commit, `SaveQuietly` a change that invalidates nothing; `Evict`, `LoadFails`,
`EnsureFails`, `Restart` the failures. The reads of one snapshot are one step, although the
code makes nine queries in the default isolation.

**`SeriesFreeze`** is the freeze of a series with one competition. `FreezeSeries`, `RevealSeries`
and `CronFindsSeries` are its organiser and its cron, `AskForSeries` and `LookAtSeries` a public
request; `EnsureReads`, the two reads `ReadResults` and `ReadOwnFreeze` in any order,
`StoreSnapshot` and `RereadSeries` are `ensureSeriesSnapshot`, whose only guard is the condition of
its write. `Hide`/`Unhide` are the competition's own freeze, with its snapshot made at once.
`MCPublicSnapshots` runs this module and `PublicSnapshots` as two scenes.

**`RoleInvitations`** has the accounts, the owner, `rights` (memberships, representatives,
invitations) and the requests under way. What a request reads before its transaction is a
step of its own: `OpenAcceptance`/`Accept`, `BeginAssign`/`Assign`/`MarkInvitation`,
`BeginTransfer`/`Transfer` (in the default isolation: a second transfer deletes of the OWNER
rows those it had found before it waited, or those it finds now). The routes for judges, the
removal of an organiser and the cleanup of competitors run in the default isolation too.
`BeginSetJudge`/`SetJudge`: the role and the elements are each added to
what their statement finds, which is what the membership was at the beginning or what it is after
waiting. `BeginRemoveJudge`/`CountRights` and `RemoveOrganizer`, `StopCompeting`: a judge's elements
are deleted, then the role is, and the rest is counted. `Prune` deletes the membership with all
that it holds by now (`Dismissed`), if nothing was left, and commits; until then whoever needs the deleted
rows waits (`Waits`, `Deleting`). `MembershipGone` ends such a request when there is no membership
any more. The other routes (`AddMember`, `GiveTeams`, `TakeTeam`), the representative waited for
(`AwaitRepresentative`, `SignIn`) and a roster's new account (`Compete`) are one step each.
Three ghosts serve the properties: `named`, whom somebody
entitled has made an organiser; `crossed`, whose membership has changed between two statements of such a
request; `contested`, that the last change of owner did not delete the OWNER rows of
those who had the role by then.

The modules are composed by `MCRegistration` (registration with the allocation) and by
`Registration` (with `RosterFreeze`). The team workflow starts where the finalisation
ends (`Init`); the outbox takes any sequence of queueing calls; the results belong to teams
that the finalisation has made. `MCAlgorithms` puts the pure algorithms into one
specification of arenas (`Arenas`): `Places` (applications arrive and leave, the capacity
changes; `MCPlaces` gives the profiles and the rules that are tried), `Answers` (answers on their way from the registration to the mandate;
`MCForm` gives the forms and the answers that are tried), `ElementPoints`, `Leaderboard` and a
series of two competitions (`MCScoring` gives what is tried in these three). A behaviour stays in
its arena, changes its input step by step, and calculates the outcome anew.

## 3. Runs

| Run | Question | Bounds |
|---|---|---|
| `registration` | waitlist, places, history, notifications | 3 applications, 2 classes, 3 settings; split handlers alone |
| `registration_interleaved` | a finalised list is complete and final, also against a settings save in flight; teams are made with the members of their applications, e-mails that are repeated left to the first | 2 applications, 1 class, 2 lists of 2 lines, 2 e-mails of which a team made by hand has one, 2 settings; both split handlers interleaved (600 000 states) |
| `notification_outbox` | mailed at most once, only by a run that claimed it; SENT and CANCELLED final | 2 rows, 2 runs, 2 attempts, a crash, batches (2.9 million states) |
| `notification_settles` | liveness: every notification settles | 2 rows, 1 run, 2 attempts, a crash |
| `team_workflow` | lock, transfer, order of the phases, completeness, with reviews that are overtaken | 2 accounts, 2 names, 3 rosters, 2 requests (110 000 states up to symmetry) |
| `result_entry` | saves replace only what was seen, repetitions are no conflicts, rows follow the rule, scores follow the rows | 2 teams, 1 page with 2 requests on their way, 3 forms, 3 configurations, 3 writes, 2 transactions |
| `public_snapshots` | a freeze, of a competition or of a series, shows one standing; a series' snapshot belongs to its freeze; nothing older than announced | 2 readers of whom one may be the cron, 1 process, 3 moments, 1 write, 1 failure (2.2 million states in two scenes) |
| `organizer_messages` | mailed once, SENT tells the truth and stays, events in any order | 2 recipients in one batch, 2 runs, 2 attempts, 1 webhook call under way, 2 event times, a crash (1.2 million states up to symmetry) |
| `messages_settle` | liveness: every recipient settles or is purged | 3 recipients in batches of 2, 1 run, 2 attempts, a crash |
| `role_invitations` | tables agree, organisers are named, an acceptance adds | 3 people, 1 team, 1 element, 2 requests under way, 3 acts of organisers (184 000 states up to symmetry) |
| `organizer_digest` | every event in exactly one digest; every security event in exactly one alert, none later than its resolution | digest: 1 submission that may be repeated, 2 runs, 3 moments, intervals at once and each moment; alerts: 3 events, 2 runs, 4 moments, of which the rules look back 2 and leave 1 alone (3.1 million states) |
| `algorithms` | allocation, form, scoring, places, series | 4 applications, 5 profiles, 8 rule sets, capacity 0–3; 4 forms; 4 teams in 2 classes, every method; 2 checkpoints, 3 rule lists; 2 competitions of a series (187 000 states) |

**Why these bounds are enough to be interesting.** Two applications compete for one place;
three let one application be moved by what happens to two others, and let the waitlist have
a gap. Four applications with two groups let guarantees, balance and capacity end in the
middle of a round. Two delivery runs suffice for every pairwise race. Two requests suffice
for a read of one and a write of the other, with the organiser's steps in between. The
two member lists are one that repeats an e-mail and one with a line without a name and the e-mail of
a team made by hand, so every rule about e-mails has its case; that run has a view without the
history and the notifications (`WithoutRecords`), which no action reads and none of its
properties speaks of. The
delays keep the relation that matters to the code's numbers: the first delay is no longer
than a run, the last longer, a claim counts as stale after a request has timed out. For
results, one page is enough for a late request: it gives up, saves again, and the first
request arrives after it. The three forms are a value that the rule may fail, a deletion,
and an exception that a judge has marked as failed; the configurations change the rule, the
penalties, and take the exceptions away; three writes are a save, a change and another save,
with a team's status in between. Other judges' saves come from the same page's late
requests, as does what they overwrite. For the snapshots, one process suffices because
caches are not shared; the theorems take any number. Two recipients are a batch that can be
split, repeated and refused in part. Three acts are an invitation, a change while it is
being accepted, and an overlapping transfer. In the digest one event may be stamped before and
committed after a period, told, and stamped again. The digest and the security rules share
nothing but the cron, and no rule looks at another's events, so `organizer_digest` has a scene
for each: every step of a behaviour is one of its scene. Three events are one that is counted, one
that comes late, and one after the alert is resolved or too old; four moments let two runs
with clocks of their own overlap. Each theorem below needs no bound. Every counter is
bounded in a guard (`MaxApplications`, `MaxRows`, `MaxCrashes`, `MaxClock`, `MaxNetwork`,
`MaxNow`, `MaxLive`, `MaxBreaks`, `MaxActs`, `MaxTime`, `MaxSubscriptions`, `LastHour`, `MaxEvents`,
one transfer per team in the outbox). Applications are not symmetric (their order matters);
runs, teams, accounts and rosters are, and the symmetry is used only in runs without
liveness.

**Deadlock** is checked, except in `public_snapshots`, `organizer_messages`,
`messages_settle`, `role_invitations`, `organizer_digest` and `algorithms`: there everything may
be done, or every bounded counter be used up.

**Fairness.** `notification_settles`: time passes; a transaction that has read its
batch commits; and a run that can take a step takes one in the end. `messages_settle`: time
passes, and a run that can take a step takes one. The cron starts a run
every five minutes (`docs/notifications.md:77`), each request of a run times out after 10
seconds, and a run is a loop over a finite list. A crash is never fair and is bounded.
Nothing is assumed of the provider's answers or the webhook: the liveness properties hold
because attempts end, not because Resend succeeds.

Each property of a run has a mutant: an operator next to the definition it
mutates, written as a plausible slip of that code, under which TLC finds the property
violated.

### Known deviations

Where the code does not do what a document, a comment or the common sense of the property
says, the model does as the code, and the property says what still holds:

- *Registration.* A new registration recalculates without notifications, so a move it causes
  is told to nobody (`registrations/route.ts:178`, `docs/notifications.md:10-12`). A settings save
  in flight writes CONFIRMED over a rejection (`registrationAllocation.server.ts:141`). A member
  edit that checked before the finalisation and commits after it is stored in the application and
  not in the team (`overtaken`;
  `registration-applications/[applicationId]/route.ts:160`). An organiser's edit may change the status of the
  edited application (`organizerRegistration.server.ts:95`, `docs/registration-and-mandate.md:128-129`). What an
  organiser accepts with the finalisation is a set of keys; that of an e-mail repeated in one application does not name
  the members, so consent to one repetition also covers a later one
  (`registrationFinalize.ts:61`, `docs/registration-and-mandate.md:157-158`).
- *Form.* A required field that the mandate locks and that was left empty at registration
  cannot be given any more; a condition on a field that is hidden itself lets the save and
  the submission disagree (`ConditionOnHidden`); an organiser who clears the answer of a locked
  field locks what depends on it; a locked and required field behind one that only the mandate
  requires may make the mandate impossible to complete (`LockedBehindRequired`); the first mandate save deletes answers of fields that only
  the registration shows (`representative/teams/[teamId]/route.ts:455-465`); taking an option out of
  a locked field makes its answer unsavable. `Sound` names the forms without these.
- *Outbox.* A notification that is SENDING while the representative changes is not cancelled and
  may go to the former one (`teamRepresentatives.server.ts:110`,
  `docs/registration-and-mandate.md:207`). The limit of six attempts (`docs/notifications.md:90-91`)
  is looked at when a run selects a notification, not when it claims it
  (`notifications.server.ts:406-418`).
- *Messages.* An event that touches a row in SENDING makes its claim look younger, so its batch
  may be given up in two parts and a recipient mailed twice (`Split`). Recipients may be created
  after the purge (`messages/route.ts:46`, `docs/notifications.md:122-125`). A
  recipient who was mailed twice has a row of both e-mails: it keeps what was reported of the first, gets the
  second's id (`competitionMessages.server.ts:173`) and takes no later event of the first
  (`messageDelivery.server.ts:11-16`).
- *Digest.* A request with an old clock makes the subscription due for a run with an older clock
  than the last digest's; the period is then set back and told twice (`setBack`). An event
  committed after its period was covered is told never (`missed`).
- *Alerts.* A run looks only at events later than the last that its alert has counted, so an
  event whose outcome is stored more than ten seconds after it, when a later one has been counted,
  is counted never (`securityAlerts.server.ts:16`, `securityAlerts.ts:283`); `docs/security.md:43-44`
  says that further events are added. The detection also reads no more than 20 000 events
  (`securityAlerts.server.ts:82`).
- *Team workflow.* A review writes by id what it read before its transaction
  (`review/route.ts:72-147`). One that was overtaken approves a mandate that another has sent
  back, or that is no longer complete, or sends back a registration and leaves a mandate
  submitted that it saw as a draft: the mandate is then without its registration
  (`docs/registration-and-mandate.md:20`). These are the exceptions `Belated` and `Misled`.
- *Roles.* What an acceptance merges was read before its transaction, so what was granted or
  taken in between is undone: rights that were granted between the opening and the acceptance are
  lost, though an acceptance is to keep earlier roles (`docs/accounts-and-roles.md:67-68`), and
  revoked ones come back (`accept/route.ts:91`). Overlapping
  transfers may leave a former owner with OWNER (`contested`;
  `competitionRoleAssignments.server.ts:159`). The removal of a judge, an organiser or a
  competitor and another change of the same person's rights may interleave statement by
  statement: then elements are judged without the role, or a membership is deleted with rights it
  was just given, or stays with none (`crossed`; `judges/route.ts:183-217`,
  `members/route.ts:144-167`, `teamMemberAccounts.server.ts:177-185`). A membership that is
  deleted and made again between two statements of such a request is taken for the same one; its
  rows have new ids, so in the code the request then does nothing or fails.
- *Freeze.* A snapshot begun for an earlier freeze may be stored in one set anew
  (`leaderboardFreeze.server.ts:62`, `docs/statistics-dashboard.md:104-107`); with three freezes and two
  processes that store in the same millisecond a cached view of the same key could show another
  standing. The nine queries of a snapshot may see different moments (`leaderboardFreeze.server.ts:11`).
  The cron's loop ends at the first competition that fails (`leaderboardFreeze.server.ts:117`).
- *Freeze of a series.* The parallel reads of one load may fall on both sides of the moment a
  competition's own freeze begins or ends, so results hidden since may enter the series'
  snapshot (`seriesRanking.server.ts:48-80`, `docs/national-ranking.md:38-40`). A request that finds
  the freeze lifted or postponed between its two reads shows no competition at all
  (`seriesRanking.server.ts:232`).
- *Scoring.* In VALUE_BASED the spreads of two groups of equal values cross from seven teams on
  (`ValueGroupsCross`; `calculators/index.ts:631-661`). In ABSOLUTE_POINTS with penalties the best of
  everybody counts, those out of competition included (`OutsiderSetsTheBest`; `index.ts:402`,
  `docs/exceptions.md`). A failure in the time part of a combined element is worth more than any time
  when points are earned (`FailureBeatsTime`; `index.ts:209-211`). In a table of penalties whose
  minimum is left at 0 the places after the table cost less than the last place in it
  (`fixedRanking.ts:67`, `index.ts:525-529`); the form calls that field the points of the worst
  place, and `SoundTable` asks that it is at least the last entry. A missing tie-breaking number counts
  as 0; a blank row gets 0 points only while nobody has a value (`index.ts:212`).

## 4. Proofs

The modules named `...Proofs` hold the theorems. They
are for every value of the constants that satisfies the named assumptions.

**Registration** — assumptions: at least one class and one member list; `Ranking` gives the
applications of a pool different numbers, none above how many there are (as the allocation does:
`AllocationRanks`, below); the settings choices are well
typed; `None` is no placement.

- `TypeCorrect`: `TypeOK` is inductive. One lemma per helper (`PlacedType`, `OverwriteType`,
  `ReindexedType`), one step per action.
- `RosterIsComplete` (`FinalizedRoster`, which no run checks: `FreezesTheRoster` includes it) and `RosterIsFinal` (`FrozenAfterFinalization`) hold
  with both split handlers interleaved. `FinalizedRoster` alone is not inductive: a settings
  save that read the rows before the finalisation could write afterwards. The
  strengthening `SaveIsHarmless` says that after the finalisation a save in flight writes
  no application: a save holds the competition's row lock, so it cannot span the
  finalisation, and one that begins later sees a finalised phase and recalculates nothing.
- `RosterFreezeImplemented`: the initial states map to initial states, and each step to
  `Deliberate`, `FreezeRoster` or a stutter, by cases on whether the list is finalised.
- `VacatedPlacesHold` (`VacatedPlacesAreTold`), with both handlers interleaved: only a
  withdrawal and a decision take an application out of the pool (`ToldStep`), and both tell
  every status that the placing changed.
- `MembersHold` (`TeamHasTheMembers`), with both handlers interleaved. Before the finalisation there
  are no teams; the finalisation makes each with the list as it is resolved, so an e-mail that is dropped
  is found at its first holder, by the least application and line that have it. Afterwards only an
  edit that was under way then can change a list, and that is the one in `overtaken`; a settings
  save writes no members.
- `WaitlistHolds` (`WaitlistInOrder`), `HistoryHolds` (`HistoryTellsStatus`) and `PlacesHold`
  (`PlacesFilledExactly`), if both split handlers run alone (`Interleaved = {}`), for any
  ranking, capacity and number of applications. The invariant is the first two with `Settled`:
  what a save or an edit under way has read is still so. A recalculation numbers those who wait
  1, 2, 3, ... and confirms as many as there are places (`RecalculationPlaces`: a ranking
  without repetitions meets every number); the renumbering does, because whoever comes before
  has a smaller set ahead (`ReindexingNumbers`). Every step either ends with one of the two
  (`Redecides`), or leaves the places (`LeavesPlaces`), or is a save, which writes only the rows
  that its recalculation changes: the same as writing all (`CommitReplaces`). With the settings
  save interleaved the three are false: it writes what it read over what was decided since (see
  the deviations).

**Registration allocation** (in `RegistrationProofs`) — of rules with ids of their own whose
guarantees have a quota, which is what the settings accept (`SoundRules`). For any number of
applications, rules and places:

- `PlacesHonourGuarantees` (`GuaranteesHonoured`) and `MoreRoomDemotesNobody` (`NobodyIsDemoted`),
  with `PlacesAlwaysInv`: the inputs that a competition produces are sound ones; and
  `EveryApplicationPlacedOnce`, `AllocationRanks`.
- *Loops.* What every step of a loop keeps, its result has: `StepByStep` is the induction, from the
  least counterexample, and `StepsCanBeTaken` shows that the recursive function `after` has a value
  at each number of steps. Each loop of the algorithm has its rule (`PickAllSteps`, `RoundSteps`,
  `GuaranteeSteps`, `GuaranteesSteps`, `PrioritiesSteps`), where what is kept is a set of pairs: how
  many steps are done, and what is picked then.
- *Guarantees.* A round brings every group a place further or to what is due to it
  (`RoundHonours`), so after as many rounds as applications nobody is short
  (`GuaranteesHonour`). Each pick uses up a place that some group is owed (`Backed`), so if these
  fit the capacity all picks of the guarantees are among the confirmed (`PlacesHonour`). In
  the middle of a round the groups differ by one at most (`Underway`), so wherever the
  capacity ends, the places are shared (`GuaranteeShared`).
- *More room.* The order of the picks does not depend on the capacity, and the confirmed are
  its beginning: so more capacity demotes nobody, under any rules and balance. When somebody leaves
  the order itself changes. Without the balance the picks follow an order that is known in advance:
  under one guarantee first those within the quota of their group, by their rank in it, then by the
  group (`GuaranteeOrder`), under priorities by the first priority that matches
  (`PriorityOrder`); everybody's place is then one more than how many are ahead
  (`PlaceInOrder`). Those ahead after the departure are no more than before: whoever moves up a
  rank is matched with the one that had that rank (`Replaced`), and two are never matched with the
  same (`ReplacedOnce`).

**Registration form** (in `RegistrationProofs`) — of sound forms that the settings accept, for any
number of fields and whatever is sent for them; assumed is that an answer may be left out, that
what is stored can be sent again, and that each field has an answer with which the mandate is
content (`InputsAssumption`).

- `HiddenAnswersAreGone` (`HiddenAnswersGone`), `MandateCanAlwaysBeCompleted`
  (`MandateCanBeCompleted`) and `LockedAnswersDoStay` (`LockedAnswersStay`), from `FormKeeps`. Its
  invariant says of each field what is kept for it (`Kept`): something that fits the field,
  nothing if a condition hides it, and, if every phase shows it, an answer that one has
  accepted. Without the last part a mandate might not be completed.
- *Validation.* The loop decides by the answers so far, and by what was sent for the rest. In a
  sound form the conditions look at fields that have been checked before (`Grounded`), so every
  field is decided by the answers as they are stored (`ValidationByField`, by `StepByStep` over
  `SoFarDecides`). The organiser's form, which offers more fields, decides in the same way
  (`OrganizerAsked`).
- *Handlers.* Whoever checks some fields and empties the others leaves what is to be kept
  (`SaveKeeps`), which covers the registration, the organiser's save and the mandate; a list of
  members decides about no condition, so its edit changes nothing else (`MembersKeep`).
- *Mandate.* Sending again what the mandate would accept, and anything it accepts elsewhere,
  completes it (`SuitableAnswers`, `MandateCanBeSaved`): what a locked field depends on is then as
  it was, so the locked answer that is asked for was asked for before and accepted.

**Team workflow** — assumptions: the sentinels are distinct from accounts; a competition has
names.

- `TypeCorrect`.
- `LockHolds` (`SubmittedIsLocked`) and `TransferHolds` (`FormerRepresentativeIsRefused`), for
  any number of requests and however reviews overlap. The invariant is `SeesTheTruth`: a
  request whose row has not been written since it was read still satisfies everything its
  handler checked. Every write of the row outdates every request, so the invariant is
  inductive by itself, and a claim succeeds only for a request that is up to date.
- `MandateFollows` (`MandateFollowsRegistration`), and `CompletenessHolds` (`SubmittedIsComplete`) if
  `~MembersAlone`, with reviews that overlap with everything. A review makes no claim, but while
  the row has not been written it sees the truth as well (`ReviewsSeeTheTruth`): the statuses
  permit its decision, and its cascade is what the mandate calls for. So whoever takes the
  mandate off its registration was overtaken, and would decide otherwise by now.

**Result entry** — assumptions: bounds are numbers; a rule comes with an exception of the
kind "failed" (`elements/[id]/route.ts:67`); the sentinels are no rows. `PointsAreNumbers`
(a hypothesis of each theorem) asks of the calculators that they return numbers, for the
type of the scores. The properties of the run are proved for any number of teams,
judges, requests, configurations and writes:

- `TypeCorrect`.
- `ScoresHold` (`ScoresFollowInputs`): `OneTransaction` (the lock admits one transaction at a
  time) and `FreshScores` (a transaction that no status change has touched since its
  recomputation carries the scores of what it sees).
- `RulesHold` (`RowsFollowRule`): `StoredAreSettled` says that the recomputation would leave
  every committed row as it is; `TransactionsSettle` that a transaction's rows carry the
  present penalties before it and are settled after it, and that a save has nothing to
  settle.
- `OnlySeenHolds` (`OnlySeenIsReplaced`), and `AnswersHold` (`AnswerIsTheRow`: the row a save
  returns is the row it commits): a version names
  one row among everything that the database, a page, a request or a transaction knows
  (`VersionsIdentify`, `VersionsAreOld`), so a save that passes the check of the version
  replaces what its page showed (`SavesSeeTheTruth`).
- `RepetitionsHold` (`OwnSaveIsNoConflict`): a stored row keeps what its form said
  (`FormsKept`), and the rest of it follows from the rule, so the row that a repeated form
  makes is the stored one.
- `VersionsHold` (`SameContentSameVersion`): no transaction writes a row's content anew
  (`ChangesAreNew`); the recomputation does not undo a change of penalties.

**Score calculators** (in `ResultEntryProofs`) — of settings that make sense: the best and the
worst points are whole thousandths (the forms offer halves), the points of a table go from the
best to the worst, a step is not negative, the number of attempts is positive; bonuses have three
decimals at most (`SettingsAreSound`, which TLC evaluates of what the run tries). For any number of
teams, settings and results:

- `BetterResultsCostLess`: the better of two results of a list never gets the worse points. In
  the methods with a ranking the places follow a strict order (`PlacesFollowOrder`), the points
  follow the places (`RelativeRankingFollows`, `FixedTableFollows`, `RegisteredCountFollows`), and
  rounding keeps an order and leaves whole thousandths (`Round3Monotone`, `Round3Exact`). In
  VALUE_BASED points are the sum of a share of the range, from the distance of the values
  (`DistancesFollow`), and a spread among equal values towards each neighbour. The spreads of
  two neighbouring groups of k and l teams stay apart while (k − 1)(l − 1) ≤ 4 (`SharesApart`,
  the hypothesis `StayApart`). So groups of three and four teams are the first that may cross,
  and they do (`ValueGroupsCross`, see the deviations).
- `FailedResultsComeLast`: those who failed share the last points of their list, and nobody who
  succeeded gets worse ones.
- `FailedAreStrictlyBehind`: with a scale of equal steps, or a table, whose steps are wider than
  half a thousandth (`WideSteps`), nobody who succeeded has the points of those who failed. A
  step that is narrower may round to nothing.
- `PointsAlwaysFollowResults` (`PointsFollowResults`): the three of an element whose results come
  one by one. The invariant is that the points are those of the results so far, which are ones
  that can be entered (`ElementInv`). Between the method and what is shown there are the bonus and
  another rounding, which leaves whole thousandths as they are, and teams that have left.

**Leaderboard** (in `FreezeProofs`) — of points that are whole numbers, rules of the five kinds that
there are and orders that list every row once (`BoardsAreSound`, which TLC evaluates of what the run
tries). For any number of teams,
classes, elements and rules:

- `PlacesAlwaysFollowTotals` (`PlacesFollowTotals`): the ranking belongs to the points that are
  there (`BoardInv`), and the places of every scope follow its totals (`ScopeInOrder`). The sort
  lists each team of a group once, whatever the rules compare (`SortedListing`, by `StepByStep`
  over the rows); so the first that share a place are as many places on as there are teams of the
  group before them (`PlaceInGroup`), and the groups follow each other by as many places as they
  have teams. That the rules give a consistent order is not needed here: an inconsistent one
  would still give places that follow the totals.
- `OnlyResultsDoCount` (`OnlyResultsCount`, a part of `OutsidersChangeNothing`): the order in which
  the rows come, and points of those who are not ranked, change no place. Here the rules must
  be consistent, which is what the code's comment claims of them (`lib/tieBreak.ts:66-69`): a rule
  that applies compares equally long sequences of numbers for all the teams of a group
  (`ComparedType`), because one that lacks something for one team is left out for all of them; the
  first rule that tells two apart is then a strict weak order (`RulesOrder`). The sort
  by insertion lists nobody behind a team that they are ahead of (`SortedListing`), so
  a team's place is one more than the number of those with a better total and of the equal ones
  that the rules put ahead of it (`RankByRules`), and in that count the order of the rows no longer occurs.
- *Sums.* That a total is a number needs that the library's sum over a set is one (`SumType`), by
  induction over the number of summands.

**Public snapshots** — assumptions: bounds are numbers; the organiser's request is none of the
readers' or the cron's; there is a process; `None` is no reader and no view.

- `TypeCorrect`, which needs that a request never goes on with a freeze without a snapshot.
- `SnapshotHolds` (`SnapshotStays`, which no run checks), from the types: only `Store` writes a snapshot and only
  where there is none.
- `WaitersHaveALoad`: who joins a load waits for one that is running on its own process
  (`LoadsRun`), through invalidations, evictions, failures and restarts. Without it a waiter
  would never be answered.
- `NothingOlderHolds` (`NothingOlderThanAnnounced`): `Fresh` says that no entry is older than what
  its process has announced, and no view in flight older than what had been announced to
  those who wait for it; an invalidation takes away every entry, and a load without its entry
  is not kept.
  `FrozenWhileFrozen` is only model-checked: it holds of the bounds of the run, not in general
  (see the deviations).

**Freeze of a series** — assumptions: bounds are numbers; the sentinels are no views, times or
versions.

- `TypeCorrect`.
- `StandsStillHolds` (`SeriesStandsStill`) from `InForce`: a request that came within a freeze
  that still stands is on its way to a snapshot of that freeze, never to a live view.
- `SnapshotHolds` (`SnapshotIsOfItsFreeze`) from `ReadsAreFresh`: what a load for a freeze has
  read is no older than what was committed when that freeze came into force. The guard that
  compares freeze times is what makes it true: a load for an earlier freeze stores nothing.

**Notification outbox** — assumptions: counts and times are numbers.

- `TypeCorrect`, `SettledHolds` (`SettledStaysSettled`).
- `OneSenderHolds` (`OneSender`) from `Claims`: what a run holds is younger than a stale claim,
  and no other run holds it, whatever the time limits are.
- `MailedOnceHolds` (`MailedOnce`) from `Mailings`: whatever was accepted under a key has been
  mailed once, and what has been mailed was accepted under the key its row would be sent
  under again, so that a repeated request is recognised.

**Organiser messages** — assumptions: the recipients are distinct, the batch size, the limits and
the delays are positive; `None` is no row, event or set of rows.

- `TypeCorrect`.
- `AnswersAlign`: whichever e-mails of a request are refused, each other one gets its own id.
  `Order` numbers the rows of a request without gaps (`OrderCounts`), and so many accepted
  ones come before a row as indexes that are not refused.
- `RowsTellTheirMailHolds` (`RowsTellTheirMail`). The first parts are inductive together with what
  each knows of the others (`Telling`): an unclaimed recipient was neither mailed nor asked for
  (`PendingUnasked`), so an event that finds no row is about a purged one; an event on its way
  is stored with the row of its own e-mail's recipient (`HooksMakeSense`); who was not refused was
  mailed (`Answers`); and before the message is created there is nothing of it (`Beginning`).
  That the event shown is the earliest of all needs that a recipient whose batch was not split has one
  e-mail (`OneMailUnlessSplit`), which comes of the invariant of the batches (below).
- `MailedOnceUnlessSplitHolds` (`MailedOnceUnlessSplit`) and `SentStaysSentHolds`
  (`SentStaysSent`), from what holds of each batch in which no event has refreshed a claim
  (`Batch`). Its rows change together until their answer parts them (`Lockstep`); so they
  are claimed and given up as one, at most one run works on them, with a claim too
  young to be given up (`OneHolder`), and every request about them is about all of them and
  has one key (`KeyIsWhole`), under which the provider mails each once (`MailedOnce`). None of
  the four is inductive without the others.

**Organiser digest** — `TypeCorrect`, and `ReportedOnceHolds` (`EveryEventReportedOnce`), which is
inductive given the types: a claim tells the events after what is covered and up to its clock,
and compares the subscription's times with those it read.

**Roles and invitations** — assumptions: requests are as the parser leaves them, the founder has
an account, the added roles are none but OWNER's, and `None` is nobody, no membership and no
invitation.

- `TypeCorrect`, and the three properties of the run, for any people, teams, elements, requests
  and calls under way, from one invariant (`IInv`). It says of the tables what `RightsAgree`
  and `OrganizersAreNamed` say (`Agree`, `Appointed`), of every open offer or request that it
  names the role for the elements and teams it asks for (`Complete`), of an acceptance under
  way what it still knows of its invitation (`Known`), and of the removal of a role under way that
  what it has seen still holds, unless somebody else has changed the person (`PruneSound`).
- `RightsAgreeHolds` (`RightsAgree`) takes the operations on the tables apart (`WithMember`,
  `Without`, `Pruned`, `SetRepresentative`, `Updated`): which roles, teams and elements each
  leaves. The judges' routes, the removals and the transfer are followed statement by statement
  (`SetJudge`, `CountRights`, `Prune`, `Transfer`); `crossed` and `contested` are the only
  exceptions, and nobody comes into them but by a change between two statements.
  `setTeamRepresentative` is run for one team after the other; the model states its
  effect on the set of teams, on which the order has no influence.
- `OrganizersAreNamedHolds` (`OrganizersAreNamed`): an authority read before the transaction is
  that of the caller when it was read, which is what the ghost `named` follows; without it
  a request leaves the role as it finds it (`MayChangeOrganizer`). Only a membership that was
  found empty and is deleted after it changed takes the role with it.
- `AcceptanceIsTheUnionHolds` (`AcceptanceIsTheUnion`): between its reading and its acceptance
  an invitation may only lose teams, and with the last the role for them (`Follows`), or be
  replaced under a new token. So an acceptance that finds the token and the teams it has read
  finds the roles and elements it has read, and what it writes is the union of those and of
  what the person held when they opened it. The property never asks for a loss; what an
  acceptance loses or revives of what changed in between is under the deviations.

**Security alerts** — assumptions: bounds, times and thresholds are numbers, the thresholds of
failures and denials positive; `Unset` is no entry of the log.

- `AlertsInvHolds`: the types and the invariant. The lock admits one run at a time past it
  (`OneReads`), so what that run has read of the alerts is what they are but for resolutions
  (`SeesTheAlerts`), and of the events of its window it has every one that got its outcome in time
  (`ReadsArePrompt`). Two alerts of a rule do not overlap in time (`AlertsApart`), and each
  has exactly what it should (`AlertsSound`).
- `AlertsCountExactlyHolds` (`AlertsCountExactly`) and `ResolvedTakesNothingNewHolds`
  (`ResolvedTakesNothingNew`) follow from it, for any number of events, runs and moments.

**Only model-checked**: liveness (`EveryMailSettles`, `EveryRecipientSettles`), which is outside
the prover's reach; `SeriesFollowsResults`, whose totals are the best of all choices of
checkpoints, and what `OutsidersChangeNothing` says of elements and series, which compares two runs of
the whole calculation, in the configurations that the arena tries; and `FrozenWhileFrozen`. What a loop computes is proved where
the loop is a recursive function of the number of steps, as in the allocation, the form and the
sort of a group; of the folds over sequences, with which the series is put together, nothing can be
proved without induction over data.

## 5. What is left out, and why

- Data that no property tells apart: names, formats of texts, numbers and dates, e-mail texts,
  invitation and access tokens. A member list, a class, a name are values of small sets.
- Permissions, except in `RoleInvitations`: the models let every actor call every handler that its role allows.
- Serialization failures of serializable transactions: they change nothing, and the
  caller may repeat the call, which is another action.
- In `Registration`, what happens to teams after the finalisation (the team branch of
  `saveOrganizerRegistration`) except their deletion. In `TeamWorkflow`, team codes and
  result flags, and two writes within one millisecond.
- In `ResultEntry`, elements without results (additional points alone), elements whose
  exceptions come from the competition's defaults, references to sections and estimates,
  and the competition's total; two writes of one row within one millisecond, and
  servers whose clocks disagree (every write has a version of its own). The import of
  results is not modelled. A missing row has the version null, so a first save that comes
  after the row was made and deleted again is accepted, in the model as in the code.
- In `NotificationOutbox`, the 24 hours after which Resend forgets a key: with the code's
  delays the attempts end within hours; and the limit of 100 rows of a run, since a row that
  is left out is taken by the next.
- In `OrganizerMessages`, the kinds of webhook events, each with a column of its own, are one kind.
- In `ScoreCalculators`, the organiser's formulas (CUSTOM, computed fields), estimates, and the
  aggregation of sections.
- The purge of personal data beyond the messages is one transaction that deletes.
- The buckets of the rate limits, single atomic statements; of the alerts their purge after
  the retention, the notification of administrators, which is queued in the transaction that
  creates an alert, and what happens beyond 20 000 events of an hour.
- Reports, exports and pages, which read.

## 6. Plan

1. Copies of competitions and elements, which translate references between what is copied.
2. In `ResultEntry`, the import of results (several rows, no version check) and the change of
   the competition's default exceptions; an abstract register per result with compare-and-set,
   shown to be implemented.
3. The purge of personal data against the other writers of what it deletes.
4. An abstract `OutboxPromise` (queued, then sent, cancelled or given up, mailed at most
   once) implemented by `NotificationOutbox`.
