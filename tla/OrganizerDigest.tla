--------------------------- MODULE OrganizerDigest ---------------------------
(***************************************************************************)
(* One organiser's digest of a competition: the subscription that its      *)
(* owner makes, changes and ends, the events that other handlers write,    *)
(* and the runs of the cron, which overlap.  A run reads its clock, then   *)
(* the subscription if it is due, then whether the organiser may still     *)
(* manage the competition, and then marks the period up to its clock as    *)
(* covered in the transaction that reads the period's events.              *)
(*                                                                         *)
(* A mandate submission is the team's own stamp and replaces the earlier   *)
(* one; an event of a registration is a row of its own and written once.   *)
(***************************************************************************)
EXTENDS Integers, FiniteSets

CONSTANTS
    Events,         \* what a digest may tell of
    Submissions,    \* those that are submissions of a mandate
    Periods,        \* the length of each interval's period; IMMEDIATE has 0
    Choices,        \* the topics and intervals that the organiser chooses from
    Runs,           \* runs of the cron that can be under way at once
    MaxTime,        \* bound: the last moment
    MaxSubscriptions, \* bound: how often the organiser subscribes
    None            \* no stamp, no subscription, no call

ASSUME EventsAssumption == Submissions \subseteq Events
Topics == {"registration", "mandate"}
Choice == [topics : (SUBSET Topics) \ {{}}, interval : DOMAIN Periods]
ASSUME ChoicesAssumption == Choices \subseteq Choice
ASSUME TimesAssumption ==
    /\ Periods \in [DOMAIN Periods -> Nat]
    /\ MaxTime \in Nat /\ MaxSubscriptions \in Nat
    /\ None \notin Nat

VARIABLES
    clock,
    pending,        \* events that were stamped but are not committed yet
    event,          \* the stamps of the committed events
    sub,            \* the subscription
    made,           \* how many subscriptions there have been
    call,           \* the organiser's request under way
    run,            \* the cron's runs
    reported,       \* for the property: how many digests of this subscription tell of an event
    missed,         \* for the property: events committed after their period was covered,
                    \* and those whose topic was not asked for when it was
    since,          \* for the property: the moment from which the subscription tells
    setBack         \* for the property: a run has covered a shorter period than before
eventVars == <<pending, event>>
ghosts == <<reported, missed, since, setBack>>
vars == <<clock, eventVars, sub, made, call, run, ghosts>>

Times == 0..MaxTime
Topic(e) == IF e \in Submissions THEN "mandate" ELSE "registration"
Subscription == [id : Nat, topics : SUBSET Topics, interval : DOMAIN Periods,
                 covered : Times, next : Int]
Run == [pc : {"idle", "select", "check", "claim", "drop"}, now : Times,
        read : Subscription \cup {None}]
Call == [now : Times, choice : Choices \cup {None}]

TypeOK ==
    /\ clock \in Times
    /\ pending \in [Events -> Times \cup {None}] /\ event \in [Events -> Times \cup {None}]
    /\ sub \in Subscription \cup {None} /\ made \in Nat
    /\ call \in Call \cup {None}
    /\ run \in [Runs -> Run]
    /\ \A w \in Runs : run[w].pc \in {"check", "claim", "drop"} => run[w].read # None
    /\ reported \in [Events -> Nat] /\ missed \subseteq Events
    /\ since \in Times /\ setBack \in BOOLEAN

Idle == [pc |-> "idle", now |-> 0, read |-> None]

Init ==
    /\ clock = 0
    /\ pending = [e \in Events |-> None] /\ event = [e \in Events |-> None]
    /\ sub = None /\ made = 0 /\ call = None
    /\ run = [w \in Runs |-> Idle]
    /\ reported = [e \in Events |-> 0] /\ missed = {} /\ since = 0 /\ setBack = FALSE

\* When the next digest is due: at once, or at the first end of a period after t.  The
\* ends of days and weeks are 8 o'clock in Tallinn in the code.
NextDigestAt(interval, t) ==
    IF Periods[interval] = 0 THEN t ELSE (t \div Periods[interval] + 1) * Periods[interval]

-----------------------------------------------------------------------------
(* The events.  A handler stamps one with its clock and commits it later.   *)

Write(e) ==
    /\ pending[e] = None /\ (event[e] = None \/ e \in Submissions)
    /\ pending' = [pending EXCEPT ![e] = clock]
    /\ UNCHANGED <<clock, event, sub, made, call, run, ghosts>>

Commit(e) ==
    /\ pending[e] # None
    /\ pending' = [pending EXCEPT ![e] = None]
    /\ event' = [event EXCEPT ![e] = pending[e]]
    /\ reported' = [reported EXCEPT ![e] = 0]
    /\ missed' = IF sub # None /\ pending[e] <= sub.covered THEN missed \cup {e} ELSE missed \ {e}
    /\ UNCHANGED <<clock, sub, made, call, run, since, setBack>>

-----------------------------------------------------------------------------
(* The organiser's requests.                                                *)

\* A request to subscribe, to change the subscription or (None) to end it reads the
\* clock after it was let through, ...
CallBegin(choice) ==
    /\ call = None
    /\ call' = [now |-> clock, choice |-> choice]
    /\ UNCHANGED <<clock, eventVars, sub, made, run, ghosts>>

\* ... and writes.  A new subscription covers what was before it ...
CoveredAtFirst(now) == now
Subscribe ==
    /\ call # None /\ sub = None /\ made < MaxSubscriptions
    /\ call.choice # None
    /\ sub' = [id |-> made, topics |-> call.choice.topics, interval |-> call.choice.interval,
               covered |-> CoveredAtFirst(call.now),
               next |-> NextDigestAt(call.choice.interval, call.now)]
    /\ made' = made + 1 /\ call' = None
    /\ reported' = [e \in Events |-> 0] /\ missed' = {} /\ since' = call.now /\ setBack' = FALSE
    /\ UNCHANGED <<clock, eventVars, run>>

\* ... a changed one keeps what it covers.
Changed(s, choice, now) ==
    [s EXCEPT !.topics = choice.topics, !.interval = choice.interval,
              !.next = NextDigestAt(choice.interval, now)]
ChangeSubscription ==
    /\ call # None /\ sub # None
    /\ call.choice # None
    /\ sub' = Changed(sub, call.choice, call.now)
    /\ call' = None
    /\ UNCHANGED <<clock, eventVars, made, run, ghosts>>

Unsubscribe ==
    /\ call # None /\ call.choice = None
    /\ sub' = None /\ call' = None
    /\ UNCHANGED <<clock, eventVars, made, run, ghosts>>

-----------------------------------------------------------------------------
(* A run of the cron.                                                       *)

Start(w) ==
    /\ run[w].pc = "idle"
    /\ run' = [run EXCEPT ![w] = [pc |-> "select", now |-> clock, read |-> None]]
    /\ UNCHANGED <<clock, eventVars, sub, made, call, ghosts>>

Select(w) ==
    /\ run[w].pc = "select"
    /\ run' = [run EXCEPT ![w] = IF sub # None /\ sub.next <= run[w].now
                                 THEN [@ EXCEPT !.pc = "check", !.read = sub] ELSE Idle]
    /\ UNCHANGED <<clock, eventVars, sub, made, call, ghosts>>

\* The organiser's rights to the competition come and go between any two steps: what
\* the run finds is a choice.
Check(w) ==
    /\ run[w].pc = "check"
    /\ \E pc \in {"claim", "drop"} : run' = [run EXCEPT ![w].pc = pc]
    /\ UNCHANGED <<clock, eventVars, sub, made, call, ghosts>>

\* Who may not manage the competition any more loses the subscription.
Drop(w) ==
    /\ run[w].pc = "drop"
    /\ sub' = IF sub # None /\ sub.id = run[w].read.id THEN None ELSE sub
    /\ run' = [run EXCEPT ![w] = Idle]
    /\ UNCHANGED <<clock, eventVars, made, call, ghosts>>

\* Mutant: the times are not compared.
AsReadById(w) == sub # None /\ sub.id = run[w].read.id

\* The subscription is still what the run has read, as far as its times go.
AsRead(w) ==
    /\ sub # None /\ sub.id = run[w].read.id
    /\ sub.covered = run[w].read.covered /\ sub.next = run[w].read.next

\* The events of the period, and those of them that the digest tells of.
Window(s, now) == {e \in Events : event[e] # None /\ event[e] > s.covered /\ event[e] <= now}
Told(s, now) == {e \in Window(s, now) : Topic(e) \in s.topics}

Claim(w) ==
    /\ run[w].pc = "claim" /\ AsRead(w)
    /\ LET read == run[w].read
           now == run[w].now
       IN  /\ sub' = [sub EXCEPT !.covered = now, !.next = NextDigestAt(read.interval, now)]
           /\ reported' = [e \in Events |-> IF e \in Told(read, now) THEN reported[e] + 1
                                            ELSE reported[e]]
           /\ missed' = missed \cup (Window(read, now) \ Told(read, now))
           /\ setBack' = (setBack \/ now < sub.covered)
    /\ run' = [run EXCEPT ![w] = Idle]
    /\ UNCHANGED <<clock, eventVars, made, call, since>>

\* Another run or a request was first.
Outrun(w) ==
    /\ run[w].pc = "claim" /\ ~AsRead(w)
    /\ run' = [run EXCEPT ![w] = Idle]
    /\ UNCHANGED <<clock, eventVars, sub, made, call, ghosts>>

\* A query fails or the server ends: the transaction is undone.
Stop(w) ==
    /\ run[w].pc # "idle"
    /\ run' = [run EXCEPT ![w] = Idle]
    /\ UNCHANGED <<clock, eventVars, sub, made, call, ghosts>>

-----------------------------------------------------------------------------
Tick ==
    /\ clock < MaxTime
    /\ clock' = clock + 1
    /\ UNCHANGED <<eventVars, sub, made, call, run, ghosts>>

EventStep(e) == Write(e) \/ Commit(e)
CallStep == (\E choice \in Choices \cup {None} : CallBegin(choice))
                \/ Subscribe \/ ChangeSubscription \/ Unsubscribe
RunStep(w) == Start(w) \/ Select(w) \/ Check(w) \/ Drop(w) \/ Claim(w) \/ Outrun(w) \/ Stop(w)

Next ==
    \/ \E e \in Events : EventStep(e)
    \/ CallStep
    \/ \E w \in Runs : RunStep(w)
    \/ Tick

Spec == Init /\ [][Next]_vars

-----------------------------------------------------------------------------
(* Properties.                                                              *)

\* An event since the subscription, of a topic that is asked for, is in exactly one
\* digest once its period is covered and in none before, however runs overlap, fail or
\* come late and whatever the organiser changes meanwhile (lib/organizerDigest.server.ts
\* :88-90: parallel runs do not send a period twice; the route's :61-62: events must not
\* get lost by a change).  What is committed only after its period was covered is in
\* none; and when a request that has read an old clock makes the subscription due for a
\* run with an older clock than the last digest's, that run sets the period back and the
\* next one tells the same again.
EveryEventReportedOnce ==
    sub # None =>
        \A e \in Events \ missed :
            (event[e] # None /\ event[e] > since) =>
                /\ event[e] <= sub.covered => reported[e] > 0
                /\ ~setBack => /\ reported[e] <= 1
                               /\ event[e] > sub.covered => reported[e] = 0
=============================================================================
