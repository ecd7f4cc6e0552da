------------------------- MODULE NotificationOutbox -------------------------
(***************************************************************************)
(* The notification outbox: the rows that the workflow handlers queue, the *)
(* delivery runs that send them by e-mail (the cron's and the ones after   *)
(* each request), and the cancellation of a former representative's rows.  *)
(*                                                                         *)
(* Time is relative.  A row knows for how many ticks it has been due       *)
(* (negative: due later), a SENDING row for how many it has been claimed,  *)
(* and a run for how many it has lasted.  A run compares emailNextAttemptAt*)
(* with the moment it started, so a row is due for a run when it has been  *)
(* due for at least as long as the run has lasted.                         *)
(*                                                                         *)
(* Rows are numbered in the order in which they are created.  `due' is read *)
(* of unsent rows only and `held' of SENDING ones; both are 0 otherwise, and*)
(* a run remembers the attempts it has read only while it needs them.       *)
(***************************************************************************)
EXTENDS Integers, FiniteSets, FiniteSetsExt

CONSTANTS
    MaxRows,        \* bound: how many notifications are ever queued
    Teams,          \* the teams (hrefs) that notifications are about
    Workers,        \* delivery runs that can be under way at once
    MaxAttempts,    \* 6 in the code
    Backoff,        \* the delay after the k-th attempt: min(2^k, 60) minutes
    MaxRun,         \* how long a run can last (each request times out in 10 s)
    Stale,          \* a claim this old is given up: 10 minutes
    Window,         \* the batch window: 10 minutes
    MaxCrashes,     \* bound: how many runs are cut off
    None            \* no batch, no team, no transaction

Rows == 1..MaxRows

ASSUME CountsAssumption == MaxRows \in Nat /\ MaxAttempts \in Nat \ {0} /\ MaxCrashes \in Nat
ASSUME TimesAssumption ==
    /\ Backoff \in [1..MaxAttempts -> Nat \ {0}]
    /\ MaxRun \in Nat \ {0} /\ Stale \in Nat \ {0, 1} /\ Window \in Nat \ {0}

VARIABLES
    mail,           \* the rows
    joining,        \* a transaction that has read its batch and not committed
    rep,            \* each team's representative
    worker,         \* the delivery runs
    accepted,       \* provider: what each idempotency key was first used for
    mailed,         \* provider: how many e-mails carried each notification
    crashes         \* how many runs were cut off
rowVars == <<mail, joining, rep>>
providerVars == <<accepted, mailed>>
vars == <<rowVars, worker, providerVars, crashes>>

Unsent == {"PENDING", "FAILED"}
Row == [status : {"NONE", "PENDING", "SENDING", "FAILED", "SENT", "CANCELLED"},
        attempts : Nat, due : Int, held : 0..Stale,
        batch : Rows \cup {None}, team : Teams \cup {None}, to : {"first", "second"}]
Join == [row : Rows, batch : Rows, due : Int, team : Teams]
Run == [pc : {"idle", "started", "scanned", "grouped", "claimed", "answered"},
        age : 0..MaxRun, todo : SUBSET Rows, seen : SUBSET Rows, group : SUBSET Rows,
        read : [Rows -> Nat], ok : BOOLEAN]
Keys == {"row", "batch"} \X Rows

TypeOK ==
    /\ mail \in [Rows -> Row]
    /\ joining \in Join \cup {None}
    /\ rep \in [Teams -> {"first", "second", "nobody"}]
    /\ worker \in [Workers -> Run]
    /\ accepted \in [Keys -> SUBSET Rows]
    /\ mailed \in [Rows -> Nat]
    /\ crashes \in 0..MaxCrashes

NoRow == [status |-> "NONE", attempts |-> 0, due |-> 0, held |-> 0, batch |-> None,
          team |-> None, to |-> "first"]
Idle == [pc |-> "idle", age |-> 0, todo |-> {}, seen |-> {}, group |-> {},
         read |-> [n \in Rows |-> 0], ok |-> FALSE]

Init ==
    /\ mail = [n \in Rows |-> NoRow]
    /\ joining = None
    /\ rep = [t \in Teams |-> "first"]
    /\ worker = [w \in Workers |-> Idle]
    /\ accepted = [key \in Keys |-> {}]
    /\ mailed = [n \in Rows |-> 0]
    /\ crashes = 0

-----------------------------------------------------------------------------
(* Queueing.                                                                *)

\* The next row to be created, if there is one.
NextFree(n) ==
    /\ joining = None
    /\ mail[n].status = "NONE"
    /\ \A m \in 1..(n - 1) : mail[m].status # "NONE"

NewRow(t, batch, due) == [status |-> "PENDING", attempts |-> 0, due |-> due, held |-> 0,
                          batch |-> batch, team |-> t, to |-> rep[t]]

\* The rows whose batch the next batched notification for t joins.
OpenBatch(t) == {m \in Rows : /\ mail[m].batch # None
                              /\ mail[m].status = "PENDING"
                              /\ mail[m].to = rep[t]
                              /\ mail[m].due < 0}

Queue(n, t) ==
    /\ NextFree(n) /\ rep[t] # "nobody"
    /\ mail' = [mail EXCEPT ![n] = NewRow(t, None, 0)]
    /\ UNCHANGED <<joining, rep, worker, providerVars, crashes>>

QueueFirstOfBatch(n, t) ==
    /\ NextFree(n) /\ rep[t] # "nobody"
    /\ OpenBatch(t) = {}
    /\ mail' = [mail EXCEPT ![n] = NewRow(t, n, -Window)]
    /\ UNCHANGED <<joining, rep, worker, providerVars, crashes>>

\* Joining an open batch: the batch is read in a transaction that may commit
\* after the batch has become due.
JoinBegin(n, t) ==
    /\ NextFree(n) /\ rep[t] # "nobody"
    /\ OpenBatch(t) # {}
    /\ LET mate == mail[Min(OpenBatch(t))]
       IN  joining' = [row |-> n, batch |-> mate.batch, due |-> mate.due, team |-> t]
    /\ UNCHANGED <<mail, rep, worker, providerVars, crashes>>

JoinCommit ==
    /\ joining # None
    /\ mail' = [mail EXCEPT ![joining.row] =
                  NewRow(joining.team, joining.batch, joining.due)]
    /\ joining' = None
    /\ UNCHANGED <<rep, worker, providerVars, crashes>>

\* setTeamRepresentative: what is still to be sent to the former representative
\* is cancelled.  A queueing transaction writes the same application row, so
\* the two do not overlap.  Bound: a team's representative changes once.
Cancelled(t, identity) ==
    [n \in Rows |->
        IF mail[n].team = t /\ mail[n].status \in Unsent /\ mail[n].to # identity
        THEN [mail[n] EXCEPT !.status = "CANCELLED", !.due = 0] ELSE mail[n]]

ReplaceRepresentative(n, t) ==
    /\ NextFree(n) /\ rep[t] = "first"
    /\ rep' = [rep EXCEPT ![t] = "second"]
    /\ mail' = [Cancelled(t, "second") EXCEPT ![n] =
                  [NewRow(t, None, 0) EXCEPT !.to = "second"]]
    /\ UNCHANGED <<joining, worker, providerVars, crashes>>

RemoveRepresentative(t) ==
    /\ joining = None /\ rep[t] = "first"
    /\ rep' = [rep EXCEPT ![t] = "nobody"]
    /\ mail' = Cancelled(t, "nobody")
    /\ UNCHANGED <<joining, worker, providerVars, crashes>>

-----------------------------------------------------------------------------
(* A delivery run.                                                          *)

Update(rows, fields(_)) == [n \in Rows |-> IF n \in rows THEN fields(mail[n]) ELSE mail[n]]

\* Mutant: a settled row is due.
DueInAnyStatus(w, n) == mail[n].status # "NONE" /\ mail[n].due >= worker[w].age

\* The rows are due, unsent and, where they are selected, not given up.
Due(w, n) == mail[n].status \in Unsent /\ mail[n].due >= worker[w].age

Selected(w) == {n \in Rows : Due(w, n) /\ mail[n].attempts < MaxAttempts}

\* The attempts as they are now, of the rows in the set.
AttemptsOf(rows) == [n \in Rows |-> IF n \in rows THEN mail[n].attempts ELSE 0]

\* Mutant: no claim is given up.
StartRunOnly(w) ==
    /\ worker[w].pc = "idle"
    /\ worker' = [worker EXCEPT ![w].pc = "started"]
    /\ UNCHANGED <<mail, joining, rep, providerVars, crashes>>

\* Claims that are too old are given up first.
StartRun(w) ==
    LET stale == {n \in Rows : mail[n].status = "SENDING" /\ mail[n].held >= Stale}
        failed(m) == [m EXCEPT !.status = "FAILED", !.due = 0, !.held = 0]
    IN  /\ worker[w].pc = "idle"
        /\ mail' = Update(stale, failed)
        /\ worker' = [worker EXCEPT ![w].pc = "started"]
        /\ UNCHANGED <<joining, rep, providerVars, crashes>>

Scan(w) ==
    /\ worker[w].pc = "started"
    /\ worker' = [worker EXCEPT ![w].pc = "scanned", ![w].todo = Selected(w),
                                ![w].read = AttemptsOf(Selected(w))]
    /\ UNCHANGED <<rowVars, providerVars, crashes>>

\* The next row of the scan: alone, or with what its batch holds by now.
Take(w) ==
    LET n == Min(worker[w].todo)
        batch == mail[n].batch
        mates == {m \in Selected(w) : mail[m].batch = batch}
        run == worker[w]
        rest == [run EXCEPT !.todo = run.todo \ {n}]
    IN  /\ worker[w].pc = "scanned" /\ worker[w].todo # {}
        /\ \/ /\ batch = None
              /\ worker' = [worker EXCEPT ![w] = [rest EXCEPT !.pc = "grouped", !.group = {n}]]
           \/ /\ batch # None
              /\ batch \in worker[w].seen
              /\ worker' = [worker EXCEPT ![w] = rest]
           \/ /\ batch # None
              /\ batch \notin worker[w].seen
              /\ worker' = [worker EXCEPT ![w] =
                    IF mates = {}
                    THEN [rest EXCEPT !.seen = run.seen \cup {batch}]
                    ELSE [rest EXCEPT !.seen = run.seen \cup {batch}, !.pc = "grouped",
                            !.group = mates,
                            !.read = [m \in Rows |->
                                IF m \in mates THEN mail[m].attempts
                                ELSE IF m \in rest.todo THEN run.read[m] ELSE 0]]]
        /\ UNCHANGED <<rowVars, providerVars, crashes>>

\* What is left of the run after a group: the group is forgotten.
Onward(w) ==
    [worker[w] EXCEPT !.pc = "scanned", !.group = {}, !.ok = FALSE,
        !.read = [n \in Rows |-> IF n \in worker[w].todo THEN worker[w].read[n] ELSE 0]]

Claim(w) ==
    LET group == worker[w].group
        claimed == {n \in group : Due(w, n)}
        sending(m) == [m EXCEPT !.status = "SENDING", !.attempts = m.attempts + 1,
                                  !.due = 0, !.held = 0]
    IN  /\ worker[w].pc = "grouped"
        /\ mail' = Update(claimed, sending)
        /\ worker' = [worker EXCEPT ![w] =
              IF claimed = group THEN [worker[w] EXCEPT !.pc = "claimed"] ELSE Onward(w)]
        /\ UNCHANGED <<joining, rep, providerVars, crashes>>

\* Mutant: each attempt has a key of its own.
KeyOfTheAttempt(group) == <<"row", mail[Min(group)].attempts>>

IdempotencyKey(group) ==
    LET first == Min(group)
    IN  IF mail[first].batch # None THEN <<"batch", mail[first].batch>> ELSE <<"row", first>>

\* The provider sends a key's first request, repeats its answer to the same
\* request, and refuses a different one; a request or an answer may be lost.
Send(w) ==
    LET group == worker[w].group
        key == IdempotencyKey(group)
        answer(ok) == worker' = [worker EXCEPT ![w].pc = "answered", ![w].ok = ok]
    IN  /\ worker[w].pc = "claimed"
        /\ \/ /\ accepted[key] = {}
              /\ accepted' = [accepted EXCEPT ![key] = group]
              /\ mailed' = [n \in Rows |-> IF n \in group THEN mailed[n] + 1 ELSE mailed[n]]
              /\ \E ok \in BOOLEAN : answer(ok)
           \/ /\ accepted[key] = group
              /\ answer(TRUE)
              /\ UNCHANGED providerVars
           \/ /\ answer(FALSE)
              /\ UNCHANGED providerVars
        /\ UNCHANGED <<rowVars, crashes>>

Record(w) ==
    LET group == worker[w].group
        attempts == Max({worker[w].read[n] + 1 : n \in group})
        sent(m) == [m EXCEPT !.status = "SENT", !.held = 0]
        failed(m) == [m EXCEPT !.status = "FAILED", !.held = 0,
                               !.due = worker[w].age - Backoff[attempts]]
    IN  /\ worker[w].pc = "answered"
        /\ mail' = IF worker[w].ok THEN Update(group, sent) ELSE Update(group, failed)
        /\ worker' = [worker EXCEPT ![w] = Onward(w)]
        /\ UNCHANGED <<joining, rep, providerVars, crashes>>

Finish(w) ==
    /\ worker[w].pc = "scanned" /\ worker[w].todo = {}
    /\ worker' = [worker EXCEPT ![w] = Idle]
    /\ UNCHANGED <<rowVars, providerVars, crashes>>

\* The process of a run ends anywhere: a deploy, a restart, a platform limit.
Crash(w) ==
    /\ worker[w].pc # "idle" /\ crashes < MaxCrashes
    /\ worker' = [worker EXCEPT ![w] = Idle]
    /\ crashes' = crashes + 1
    /\ UNCHANGED <<rowVars, providerVars>>

-----------------------------------------------------------------------------
Held(w) == IF worker[w].pc \in {"claimed", "answered"} THEN worker[w].group ELSE {}

\* Time passes.  A run ends before MaxRun, and what it has claimed is answered
\* or timed out long before it counts as stale.
Tick ==
    LET later(due) == IF due < MaxRun THEN due + 1 ELSE due
        older(held) == IF held < Stale THEN held + 1 ELSE held
    IN  /\ \A w \in Workers : worker[w].pc # "idle" => worker[w].age < MaxRun
        /\ \A w \in Workers : \A n \in Held(w) : mail[n].held + 1 < Stale
        /\ mail' = [n \in Rows |->
              CASE mail[n].status \in Unsent -> [mail[n] EXCEPT !.due = later(mail[n].due)]
                [] mail[n].status = "SENDING" -> [mail[n] EXCEPT !.held = older(mail[n].held)]
                [] OTHER -> mail[n]]
        /\ joining' = IF joining = None THEN None
                      ELSE [joining EXCEPT !.due = later(joining.due)]
        /\ worker' = [w \in Workers |->
              IF worker[w].pc = "idle" THEN Idle ELSE [worker[w] EXCEPT !.age = worker[w].age + 1]]
        /\ UNCHANGED <<rep, providerVars, crashes>>

WorkerStep(w) ==
    \/ StartRun(w) \/ Scan(w) \/ Take(w) \/ Claim(w) \/ Send(w) \/ Record(w) \/ Finish(w)

QueueStep ==
    \/ \E n \in Rows, t \in Teams :
          \/ Queue(n, t) \/ QueueFirstOfBatch(n, t) \/ JoinBegin(n, t)
          \/ ReplaceRepresentative(n, t)
    \/ JoinCommit
    \/ \E t \in Teams : RemoveRepresentative(t)

Next ==
    \/ QueueStep
    \/ \E w \in Workers : WorkerStep(w) \/ Crash(w)
    \/ Tick

Spec == Init /\ [][Next]_vars

\* Time goes on, the cron starts a run again and again, a started run goes on
\* until it ends or is cut off, and a transaction commits.
FairSpec == Spec /\ WF_vars(Tick) /\ WF_vars(JoinCommit) /\ \A w \in Workers : WF_vars(WorkerStep(w))

-----------------------------------------------------------------------------
(* Properties.                                                              *)

\* No notification is held by two runs at a time, with overlapping runs, stale
\* claims and crashes.
OneSender ==
    \A v, w \in Workers : v # w => Held(v) \cap Held(w) = {}

\* No notification is e-mailed twice, although attempts are repeated after lost
\* answers and after crashes between the e-mail and its record, and one marked SENT
\* has been.
MailedOnce ==
    \A n \in Rows : mailed[n] <= 1 /\ (mail[n].status = "SENT" => mailed[n] = 1)

\* SENT and CANCELLED are final, whatever late run records its outcome.
SettledStaysSettled ==
    [][ \A n \in Rows : mail[n].status \in {"SENT", "CANCELLED"} =>
            mail'[n].status = mail[n].status ]_vars

\* Every queued notification is sent, cancelled, or given up after the last
\* attempt: a crash, a partial claim or a refused batch strands none.
Settled(n) == \/ mail[n].status \in {"SENT", "CANCELLED"}
              \/ mail[n].status = "FAILED" /\ mail[n].attempts >= MaxAttempts
EveryMailSettles == \A n \in Rows : mail[n].status # "NONE" ~> Settled(n)

=============================================================================
