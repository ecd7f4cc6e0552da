----------------------------- MODULE ResultEntry -----------------------------
(***************************************************************************)
(* The results of one scoring element and the scores computed from them.   *)
(*                                                                         *)
(* Judges enter results in browser pages.  A page sends the version        *)
(* (updatedAt) of the row that it shows; when no answer comes, the judge   *)
(* may send the form again, changed or not, while the first request is     *)
(* still on its way.  Every write of the element's rows locks the          *)
(* element's row, reads, writes and recomputes all scores in one READ      *)
(* COMMITTED transaction: the tasks below.  The status of a team is        *)
(* written without that lock, and without a recomputation.                 *)
(*                                                                         *)
(* Points are not interpreted: Points(t, active) is what the element's     *)
(* calculator gives team t among the active rows.  Versions are numbers of *)
(* a clock that every transaction advances: two writes of one row within a *)
(* millisecond, and servers whose clocks disagree, are not modelled.  Two  *)
(* identical requests that nobody waits for count as one.  The element     *)
(* takes results: those with additional points alone are not modelled.     *)
(***************************************************************************)
EXTENDS Naturals, FiniteSets

CONSTANTS
    Teams, Clients,
    By,                 \* the account or access token of each client
    Values,             \* what a judge can enter, Empty apart
    Configs,            \* the configurations of the element
    Points(_, _),
    MaxPoints,          \* for a team that has withdrawn
    Tasks,              \* bound: transactions of the element at once
    Offered,            \* bound: the forms that judges send
    MaxClock,           \* bound: transactions
    MaxNetwork,         \* bound: requests on their way
    Empty, None

VARIABLES
    rows,               \* Result, per team
    config,             \* of the element: the failure rule, the exceptions, cancelled
    misc,               \* the teams with additional points (MiscEntry)
    scores,             \* ComputedScore
    withdrawn,          \* the teams that withdrew at or before this element
    outdated,           \* a team's status has changed since it was read for the scores
    clock,
    task,               \* transactions between their steps
    network,            \* requests that have not been handled
    page,               \* the rows that a browser page holds
    waiting             \* the page waits for an answer
elementVars == <<rows, config, misc, scores>>
clientVars == <<page, waiting>>
vars == <<elementVars, withdrawn, outdated, clock, task, network, clientVars>>

-----------------------------------------------------------------------------
(* Types.                                                                   *)

Labels == {"FAILED", "OTHER"}       \* the kinds of exceptions that matter here
Modes == {"AUTO", "FORCE_SUCCESS", "FORCE_FAILED"}
AnyValues == Values \cup {Empty}

\* failing: the values that satisfy the failure rule; penalty: of the exceptions
\* that the element has.
Configurations ==
    [failing : SUBSET Values, penalty : [Labels -> Nat \cup {None}],
     cancelled : BOOLEAN]

Forms == [values : AnyValues, label : {"OTHER", None}, mode : Modes]
Rows ==
    [values : AnyValues, mode : Modes, label : Labels \cup {None}, penalty : Nat \cup {None},
     by : {By[c] : c \in Clients}, at : Nat, form : Forms]
Tables == [Teams -> Rows \cup {None}]
Requests ==
    [client : Clients, team : Teams, form : Forms, seen : Rows \cup {None}, live : BOOLEAN]
Scorings == [Teams -> Nat \cup {None}]
Transactions ==
    [phase : {"written", "computed"}, request : Requests \cup {None},
     answer : Rows \cup {None}, rows : Tables, written : SUBSET Teams,
     config : Configs, misc : SUBSET Teams, scores : Scorings, fresh : BOOLEAN]

ASSUME BoundsAssumption == MaxPoints \in Nat /\ MaxClock \in Nat /\ MaxNetwork \in Nat
\* A rule needs an exception of the kind "failed" (elements/[id]/route.ts:67).
ASSUME ConfigsAssumption ==
    \A c \in Configs : c \in Configurations /\ (c.failing # {} => c.penalty["FAILED"] # None)
\* A form has no values beside an exception (sendResult, line 214).
ASSUME OfferedAssumption ==
    Offered \subseteq {f \in Forms : f.label = "OTHER" => f.values = Empty}
ASSUME SentinelsAssumption ==
    /\ Empty \notin Values
    /\ None \notin Rows \cup Requests \cup Transactions \cup Labels \cup Nat

TypeOK ==
    /\ rows \in Tables
    /\ config \in Configs
    /\ misc \in SUBSET Teams
    /\ scores \in Scorings
    /\ withdrawn \in SUBSET Teams
    /\ outdated \in BOOLEAN
    /\ clock \in Nat
    /\ task \in [Tasks -> Transactions \cup {None}]
    /\ network \in SUBSET Requests
    /\ page \in [Clients -> Tables]
    /\ waiting \in [Clients -> BOOLEAN]

Init ==
    /\ rows = [t \in Teams |-> None]
    /\ config \in Configs /\ ~config.cancelled
    /\ misc = {}
    /\ scores = [t \in Teams |-> None]
    /\ withdrawn = {}
    /\ outdated = FALSE
    /\ clock = 0
    /\ task = [w \in Tasks |-> None]
    /\ network = {}
    /\ page = [c \in Clients |-> rows]
    /\ waiting = [c \in Clients |-> FALSE]

-----------------------------------------------------------------------------
(* Failures and exceptions (failureRules.ts, exceptionKinds.ts).            *)

\* resolveFailure: another exception goes first, then the judge's decision or
\* the rule.
Outcome(cfg, values, mode, label) ==
    CASE label = "OTHER" -> "OTHER"
      [] label # "OTHER" /\ mode = "AUTO" -> IF values \in cfg.failing THEN "FAILED" ELSE None
      [] label # "OTHER" /\ mode # "AUTO" -> IF mode = "FORCE_FAILED" THEN "FAILED" ELSE None

\* The rule lacks its values, or the element lacks the exception.
Unresolved(cfg, values, mode, label) ==
    \/ label # "OTHER" /\ mode = "AUTO" /\ cfg.failing # {} /\ values = Empty
    \/ LET outcome == Outcome(cfg, values, mode, label)
       IN  outcome # None /\ cfg.penalty[outcome] = None

Penalty(cfg, label) == IF label = None THEN None ELSE cfg.penalty[label]

\* The row of a form.  resultKeepsValues: an exception that is not a failure has
\* no values.
RowOf(cfg, form, by) ==
    LET label == Outcome(cfg, form.values, form.mode, form.label)
    IN  [values |-> IF label = "OTHER" THEN Empty ELSE form.values, mode |-> form.mode,
         label |-> label, penalty |-> Penalty(cfg, label), by |-> by,
         at |-> clock + 1, form |-> form]

\* The recomputation leaves exceptions that are no failures alone, unless the
\* exception is gone and the judge had decided on a failure.
Skipped(cfg, row) ==
    row.label = "OTHER" /\ (row.mode = "FORCE_FAILED" => cfg.penalty["OTHER"] # None)

\* Mutant: rows keep the failure of the rule under which they were entered.
ResettledNever(cfg, row) == row

Resettled(cfg, row) ==
    LET label == Outcome(cfg, row.values, row.mode, None)
        penalty == Penalty(cfg, label)
    IN  IF row = None \/ Skipped(cfg, row) \/ (row.label = label /\ row.penalty = penalty)
        THEN row
        ELSE [row EXCEPT !.label = label, !.penalty = penalty, !.at = clock + 1]

Unsettled(cfg, row) ==
    row # None /\ ~Skipped(cfg, row) /\ Unresolved(cfg, row.values, row.mode, None)

-----------------------------------------------------------------------------
(* Scores (recompute.ts).                                                   *)

Present(table) == {t \in Teams : table[t] # None}

ComputedScores(cfg, table, extra, gone) ==
    LET active == [t \in Present(table) \ gone |-> table[t]]
        extraPoints(t) == IF t \in extra THEN 1 ELSE 0
    IN  IF cfg.cancelled THEN [t \in Teams |-> 0]
        ELSE [t \in Teams |->
                IF t \notin Present(table) THEN None
                ELSE (IF t \in gone THEN MaxPoints ELSE Points(t, active)) + extraPoints(t)]

-----------------------------------------------------------------------------
(* Transactions of the element.                                             *)

\* Mutant: the element's row is not locked.
LockFreeAlways == TRUE

\* SELECT ... FOR UPDATE (line 34).
LockFree == \A w \in Tasks : task[w] = None

Begin(w, request, answer, table, written, cfg, extra) ==
    /\ LockFree /\ task[w] = None /\ clock < MaxClock
    /\ task' = [task EXCEPT ![w] =
          [phase |-> "written", request |-> request, answer |-> answer,
           rows |-> table, written |-> written, config |-> cfg, misc |-> extra,
           scores |-> scores, fresh |-> FALSE]]
    /\ clock' = clock + 1
    /\ UNCHANGED <<elementVars, withdrawn, outdated>>

\* What a transaction reads: what is committed, and what it has written itself.
Sees(w) == [t \in Teams |-> IF t \in task[w].written THEN task[w].rows[t] ELSE rows[t]]

\* The browser gets an answer, if it still waits for one.
Answered(request) ==
    waiting' = IF request # None /\ request.live
               THEN [waiting EXCEPT ![request.client] = FALSE] ELSE waiting

-----------------------------------------------------------------------------
(* POST /api/elements/[id]/results                                          *)

Version(row) == IF row = None THEN 0 ELSE row.at

IsDeletion(form) == form.values = Empty /\ form.label = None /\ form.mode # "FORCE_FAILED"

\* The row that the form would make is the one that is stored: an earlier
\* attempt was committed.
SameRow(row, new) ==
    /\ row # None
    /\ row.values = new.values /\ row.label = new.label /\ row.penalty = new.penalty
    /\ row.mode = new.mode /\ row.by = new.by

\* Mutants: a version is not looked at; it is looked at before the repetition.
VerdictUnversioned(r) ==
    CASE IsDeletion(r.form) -> "delete"
      [] OTHER ->
          IF Unresolved(config, r.form.values, r.form.mode, r.form.label) THEN "rejected"
          ELSE "write"
VerdictVersionFirst(r) ==
    CASE Version(r.seen) # Version(rows[r.team]) ->
            IF IsDeletion(r.form) /\ rows[r.team] = None THEN "delete" ELSE "conflict"
      [] OTHER ->
          IF IsDeletion(r.form) THEN "delete"
          ELSE IF Unresolved(config, r.form.values, r.form.mode, r.form.label) THEN "rejected"
          ELSE IF SameRow(rows[r.team], RowOf(config, r.form, By[r.client])) THEN "same"
          ELSE "write"

Verdict(r) ==
    LET row == rows[r.team]
        stale == Version(r.seen) # Version(row)
    IN  CASE IsDeletion(r.form) -> IF row # None /\ stale THEN "conflict" ELSE "delete"
          [] ~IsDeletion(r.form) /\ Unresolved(config, r.form.values, r.form.mode, r.form.label)
                -> "rejected"
          [] OTHER -> IF SameRow(row, RowOf(config, r.form, By[r.client])) THEN "same"
                      ELSE IF stale THEN "conflict" ELSE "write"

AnswerTo(r) ==
    CASE Verdict(r) = "same" -> rows[r.team]
      [] Verdict(r) = "write" -> RowOf(config, r.form, By[r.client])
      [] OTHER -> None

\* A save or a deletion, and nothing for a repetition.
Post(w, r) ==
    LET written == IF Verdict(r) = "same" THEN {} ELSE {r.team}
        new == IF Verdict(r) = "write" THEN RowOf(config, r.form, By[r.client]) ELSE None
    IN  /\ r \in network
        /\ Verdict(r) \in {"same", "write", "delete"}
        /\ Begin(w, r, AnswerTo(r), [rows EXCEPT ![r.team] = new], written, config, misc)
        /\ network' = network \ {r}
        /\ UNCHANGED clientVars

\* 409 and 422: the transaction is rolled back.
Refuse(r) ==
    /\ r \in network
    /\ LockFree
    /\ Verdict(r) \in {"conflict", "rejected"}
    /\ network' = network \ {r}
    /\ Answered(r)
    /\ UNCHANGED <<elementVars, withdrawn, outdated, clock, task, page>>

-----------------------------------------------------------------------------
(* Other transactions of the element.                                       *)

Change(w, table, written, cfg, extra) ==
    /\ Begin(w, None, None, table, written, cfg, extra)
    /\ UNCHANGED <<network, clientVars>>

\* DELETE /api/elements/[id]/results
DeleteAll(w) == Change(w, [t \in Teams |-> None], Teams, config, misc)

\* The penalty of the row's exception, if the element has it still.
Priced(cfg, row) ==
    IF row.label = None \/ cfg.penalty[row.label] = None THEN row.penalty
    ELSE cfg.penalty[row.label]

\* A changed penalty is written to the rows that have the exception.
Repriced(cfg) ==
    [t \in Teams |->
        IF rows[t] # None /\ rows[t].penalty # Priced(cfg, rows[t])
        THEN [rows[t] EXCEPT !.penalty = Priced(cfg, rows[t]), !.at = clock + 1]
        ELSE rows[t]]

\* PATCH /api/elements/[id]
Reconfigure(w, cfg) ==
    /\ cfg # config
    /\ Change(w, Repriced(cfg), {t \in Teams : Repriced(cfg)[t] # rows[t]}, cfg, misc)

\* POST .../misc and DELETE /api/misc-entries/[entryId].  Bound: one entry per team.
ChangeMisc(w, t) ==
    Change(w, rows, {}, config, IF t \in misc THEN misc \ {t} ELSE misc \cup {t})

\* The element's part of POST /api/competitions/[id]/recalculate.
Recalculate(w) == Change(w, rows, {}, config, misc)

-----------------------------------------------------------------------------
(* recomputeLockedElementScores, and the end of a transaction.              *)

Abort(w) ==
    /\ task[w] # None
    /\ task' = [task EXCEPT ![w] = None]
    /\ Answered(task[w].request)
    /\ UNCHANGED <<elementVars, withdrawn, outdated, clock, network, page>>

Compute(w) ==
    LET cfg == task[w].config
        settled == [t \in Teams |-> Resettled(cfg, Sees(w)[t])]
        new == ComputedScores(cfg, settled, task[w].misc, withdrawn)
    IN  /\ task[w] # None /\ task[w].phase = "written"
        /\ \A t \in Teams : ~Unsettled(cfg, Sees(w)[t])
        /\ task' = [task EXCEPT ![w] =
              [task[w] EXCEPT !.phase = "computed", !.rows = settled, !.scores = new,
                              !.written = @ \cup {t \in Teams : settled[t] # Sees(w)[t]},
                              !.fresh = TRUE]]
        /\ clock' = IF settled = Sees(w) THEN clock ELSE clock + 1
        /\ UNCHANGED <<elementVars, withdrawn, outdated, network, clientVars>>

Commit(w) ==
    LET request == task[w].request
    IN  /\ task[w] # None /\ task[w].phase = "computed"
        /\ rows' = Sees(w) /\ config' = task[w].config /\ misc' = task[w].misc
        /\ scores' = task[w].scores
        /\ outdated' = ~task[w].fresh
        /\ task' = [task EXCEPT ![w] = None]
        /\ Answered(request)
        /\ page' = IF request # None /\ request.live
                   THEN [page EXCEPT ![request.client][request.team] = task[w].answer] ELSE page
        /\ UNCHANGED <<withdrawn, clock, network>>

\* PATCH /api/competitions/[id]/teams/[teamId]: no lock, no recomputation.
ChangeTeamStatus(t) ==
    /\ clock < MaxClock
    /\ withdrawn' = IF t \in withdrawn THEN withdrawn \ {t} ELSE withdrawn \cup {t}
    /\ clock' = clock + 1
    /\ outdated' = TRUE
    /\ task' = [w \in Tasks |-> IF task[w] = None THEN None ELSE [task[w] EXCEPT !.fresh = FALSE]]
    /\ UNCHANGED <<elementVars, network, clientVars>>

-----------------------------------------------------------------------------
(* Browser pages (JudgeInterface.tsx, ElementResultsTable.tsx).             *)

Load(c) ==
    /\ ~waiting[c]
    /\ page' = [page EXCEPT ![c] = rows]
    /\ UNCHANGED <<elementVars, withdrawn, outdated, clock, task, network, waiting>>

\* A new form, or the same one again.
Submit(c, t, form) ==
    LET r == [client |-> c, team |-> t, form |-> form, seen |-> page[c][t], live |-> TRUE]
    IN  /\ ~waiting[c]
        /\ Cardinality(network) < MaxNetwork
        /\ network' = network \cup {r}
        /\ waiting' = [waiting EXCEPT ![c] = TRUE]
        /\ UNCHANGED <<elementVars, withdrawn, outdated, clock, task, page>>

\* The connection breaks: the request may be lost, on its way, or handled.
GiveUp(c) ==
    LET left(r) == IF r # None /\ r.client = c THEN [r EXCEPT !.live = FALSE] ELSE r
    IN  /\ waiting[c]
        /\ waiting' = [waiting EXCEPT ![c] = FALSE]
        /\ network' = {left(r) : r \in network}
        /\ task' = [w \in Tasks |-> IF task[w] = None THEN None
                                    ELSE [task[w] EXCEPT !.request = left(@)]]
        /\ UNCHANGED <<elementVars, withdrawn, outdated, clock, page>>

Lose(r) ==
    /\ r \in network /\ ~r.live
    /\ network' = network \ {r}
    /\ UNCHANGED <<elementVars, withdrawn, outdated, clock, task, clientVars>>

-----------------------------------------------------------------------------
TaskStep(w) ==
    \/ \E r \in network : Post(w, r)
    \/ DeleteAll(w)
    \/ \E cfg \in Configs : Reconfigure(w, cfg)
    \/ \E t \in Teams : ChangeMisc(w, t)
    \/ Recalculate(w)
    \/ Compute(w) \/ Commit(w) \/ Abort(w)

ClientStep ==
    \/ \E c \in Clients : Load(c) \/ GiveUp(c)
    \/ \E c \in Clients, t \in Teams, form \in Offered : Submit(c, t, form)
    \/ \E r \in network : Refuse(r) \/ Lose(r)

Next ==
    \/ \E w \in Tasks : TaskStep(w)
    \/ ClientStep
    \/ \E t \in Teams : ChangeTeamStatus(t)

Spec == Init /\ [][Next]_vars

-----------------------------------------------------------------------------
(* Properties.                                                              *)

\* Unless a team's status has changed since, the committed scores are those of
\* the committed rows, configuration and additional points, with every team's
\* score from the same inputs (recompute.ts lines 22-25 and 41-42).
ScoresFollowInputs ==
    ~outdated => scores = ComputedScores(config, rows, misc, withdrawn)

\* Whatever order saves and changes of the configuration come in, a result is
\* failed exactly if its judge or the present rule says so, and carries the
\* present penalty of its exception (recompute.ts lines 84-96).
RowsFollowRule ==
    \A t \in Teams : rows[t] # None =>
        /\ rows[t].label # "OTHER" =>
              rows[t].label = Outcome(config, rows[t].values, rows[t].mode, None)
        /\ rows[t].penalty = Priced(config, rows[t])

\* A save or a deletion changes no row but its own, and only if its page showed
\* exactly what it replaces, whatever was saved, deleted or reconfigured since
\* the page was loaded and whatever requests were repeated or came late
\* (results/route.ts lines 132-135 and 209-213).
OnlySeenIsReplaced ==
    [][ \A w \in Tasks :
          task[w] # None /\ task[w].request # None /\ task'[w] = None /\ rows' # rows =>
            \A t \in Teams : rows'[t] # rows[t] =>
                t = task[w].request.team /\ rows[t] = task[w].request.seen ]_vars

\* Whoever repeats a save that is stored is not told that somebody else has
\* changed the result, although the page still shows the version before it and
\* the rule or the penalties have changed since (lines 197-213).  A failure that
\* the recomputation has put in the place of a removed exception is a change.
OwnSaveIsNoConflict ==
    \A r \in network :
        LET row == rows[r.team]
            stored == /\ row # None /\ row.by = By[r.client] /\ row.form = r.form
                      /\ r.form.label = "OTHER" => row.label = "OTHER"
        IN  stored => Verdict(r) # "conflict"

\* A row whose content stays as it is keeps its version: no repetition and no
\* recomputation makes other pages outdated (lines 197-208).
SameContentSameVersion ==
    [][ \A t \in Teams :
          rows[t] # None /\ rows'[t] # None /\ rows'[t] = [rows[t] EXCEPT !.at = rows'[t].at] =>
              rows'[t] = rows[t] ]_vars

\* The row that a save returns, which the page sends as its version next time,
\* is the row that the same transaction commits (lines 222-228: the row is read
\* before the recomputation).
AnswerIsTheRow ==
    \A w \in Tasks :
        task[w] # None /\ task[w].phase = "computed" /\ task[w].request # None =>
            task[w].answer = Sees(w)[task[w].request.team]
=============================================================================
