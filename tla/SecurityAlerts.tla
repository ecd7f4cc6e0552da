---------------------------- MODULE SecurityAlerts ----------------------------
(***************************************************************************)
(* The alerts about the security log (lib/securityAlerts): the events of   *)
(* one account, the cron's runs that evaluate the rules over the last      *)
(* hour's events, and the administrators who mark alerts as resolved.      *)
(*                                                                         *)
(* An event is written before its request is handled and gets its outcome  *)
(* afterwards (securityRoute.server.ts), or both at once; no rule counts   *)
(* an event without an outcome.  The rules count the events of one account *)
(* or source apart from those of others, so there is one here.  Of the     *)
(* rules there is one of each form: failures and then a success, events    *)
(* and the different things that they are about, and single events.        *)
(***************************************************************************)
EXTENDS Integers, FiniteSets

CONSTANTS
    Kinds,          \* the events that can happen: what, and about what
    Detectors,      \* the cron's runs that can be under way at once
    LookBack,       \* how long the rules look back
    Settle,         \* how long an event is left alone
    Failures,       \* how many failures make a success suspicious
    Denials,        \* how many denials make an account suspicious, ...
    Different,      \* ... if they are about so many different things
    LastHour,       \* bound: the last moment
    MaxEvents,      \* bound: how many events happen
    Unset           \* no event

Whats == {"login denied", "login", "denied", "password reset"}
Rules == {"LOGIN_SUCCESS_AFTER_FAILURES", "ACCESS_PROBING", "PASSWORD_RESET"}
Hours == 0..LastHour
Ids == 1..MaxEvents

ASSUME AlertBounds ==
    /\ LookBack \in Nat /\ Settle \in Nat /\ LastHour \in Nat /\ MaxEvents \in Nat
    /\ Failures \in Nat \ {0} /\ Denials \in Nat \ {0} /\ Different \in Nat
ASSUME KindsAssumption == \A k \in Kinds : k.what \in Whats

VARIABLES
    hour,           \* the clock
    logged,         \* SecurityEvent: the log
    alerts,         \* SecurityAlert
    rounds,         \* how often a run has created alerts
    detector        \* the runs
alertVars == <<hour, logged, alerts, rounds, detector>>

\* `known' is that the event has its outcome, and `prompt', for a property, that it got
\* the outcome before it had settled.
LogEntry == [at : Hours, kind : Kinds, known : BOOLEAN, prompt : BOOLEAN]
ASSUME UnsetAssumption == Unset \notin LogEntry

\* An alert is identified by its rule and the number of the run that created it.
\* For the properties, `counted' remembers which events the alert has counted, and
\* `before' which had happened when it was resolved.
Alert == [id : Nat, rule : Rules, eventCount : Nat, first : Hours, last : Hours,
          open : BOOLEAN, counted : SUBSET Ids, before : SUBSET Ids]
Detector == [pc : {"idle", "lock", "alerts", "write"}, now : Hours,
             events : SUBSET Ids, seen : SUBSET Alert]

AlertsTypeOK ==
    /\ hour \in Hours
    /\ logged \in [Ids -> LogEntry \cup {Unset}]
    /\ alerts \in SUBSET Alert /\ rounds \in Nat
    /\ detector \in [Detectors -> Detector]

Resting == [pc |-> "idle", now |-> 0, events |-> {}, seen |-> {}]

AlertsInit ==
    /\ hour = 0 /\ alerts = {} /\ rounds = 0
    /\ logged = [i \in Ids |-> Unset]
    /\ detector = [w \in Detectors |-> Resting]

-----------------------------------------------------------------------------
(* The rules.                                                               *)

Concerns(rule, i) ==
    logged[i].kind.what \in
        CASE rule = "LOGIN_SUCCESS_AFTER_FAILURES" -> {"login denied", "login"}
          [] rule = "ACCESS_PROBING" -> {"denied"}
          [] rule = "PASSWORD_RESET" -> {"password reset"}

Earlier(i, j) == logged[i].at < logged[j].at \/ (logged[i].at = logged[j].at /\ i < j)
Of(what, es) == {i \in es : logged[i].kind.what = what}

Triggered(rule, es) ==
    CASE rule = "LOGIN_SUCCESS_AFTER_FAILURES" ->
            \E s \in Of("login", es) :
                Cardinality({i \in Of("login denied", es) : Earlier(i, s)}) >= Failures
      [] rule = "ACCESS_PROBING" ->
            /\ Cardinality(es) >= Denials
            /\ Cardinality({logged[i].kind.about : i \in es}) >= Different
      [] rule = "PASSWORD_RESET" -> es # {}

-----------------------------------------------------------------------------
(* The log.                                                                 *)

HourPasses ==
    /\ hour < LastHour
    /\ hour' = hour + 1
    /\ UNCHANGED <<logged, alerts, rounds, detector>>

\* A login is logged with its outcome; another event with it or before it is known.
Happen(i, k, known) ==
    /\ logged[i] = Unset /\ \A j \in 1..(i - 1) : logged[j] # Unset
    /\ known \/ k.what \in {"denied", "password reset"}
    /\ logged' = [logged EXCEPT ![i] = [at |-> hour, kind |-> k, known |-> known,
                                       prompt |-> known /\ Settle > 0]]
    /\ UNCHANGED <<hour, alerts, rounds, detector>>

\* The outcome is stored after the request, or never.
Finish(i) ==
    /\ logged[i] # Unset /\ ~logged[i].known
    /\ logged' = [logged EXCEPT ![i].known = TRUE, ![i].prompt = hour < logged[i].at + Settle]
    /\ UNCHANGED <<hour, alerts, rounds, detector>>

-----------------------------------------------------------------------------
(* A run.                                                                   *)

\* The clock is read before the transaction begins.
Wake(w) ==
    /\ detector[w].pc = "idle"
    /\ detector' = [detector EXCEPT ![w].pc = "lock", ![w].now = hour]
    /\ UNCHANGED <<hour, logged, alerts, rounds>>

\* Mutant: runs do not exclude each other.
AnyMayDetect == TRUE

\* pg_try_advisory_xact_lock: a run that does not get the lock leaves.
MayDetect == \A v \in Detectors : detector[v].pc \in {"idle", "lock"}

Until(w) == detector[w].now - Settle
Since(w) == Until(w) - LookBack

\* Mutant: the last seconds' events are read as well.
InWindowUnsettled(w, i) == logged[i].at > Since(w) /\ logged[i].at <= detector[w].now

InWindow(w, i) == logged[i].at > Since(w) /\ logged[i].at <= Until(w)

ReadEvents(w) ==
    /\ detector[w].pc = "lock"
    /\ IF MayDetect
         THEN LET read == {i \in Ids : logged[i] # Unset /\ logged[i].known /\ InWindow(w, i)}
              IN  detector' = [detector EXCEPT ![w].pc = "alerts", ![w].events = read]
         ELSE detector' = [detector EXCEPT ![w] = Resting]
    /\ UNCHANGED <<hour, logged, alerts, rounds>>

ReadAlerts(w) ==
    /\ detector[w].pc = "alerts"
    /\ detector' = [detector EXCEPT ![w].pc = "write",
                                    ![w].seen = {a \in alerts : a.last > Since(w)}]
    /\ UNCHANGED <<hour, logged, alerts, rounds>>

\* The latest of a rule's alerts that are not over an hour old, if there is one.
Previous(w, rule) ==
    {a \in detector[w].seen : a.rule = rule /\ \A b \in detector[w].seen :
                                                b.rule = rule => b.last <= a.last}

\* The events that it has not counted.
Fresh(w, rule) ==
    {i \in detector[w].events : Concerns(rule, i) /\
                                \A a \in Previous(w, rule) : logged[i].at > a.last}

\* Mutant: a resolved alert collects events like an open one.
CollectsResolvedToo(w, rule) == {a \in Previous(w, rule) : Fresh(w, rule) # {}}

\* An open alert collects them; a resolved one is followed by a new alert, if they are
\* enough for one.
Collects(w, rule) == {a \in Previous(w, rule) : a.open /\ Fresh(w, rule) # {}}

\* The time of the first or the last of some events.
Stamp(es, last) == CHOOSE t \in {logged[i].at : i \in es} :
    \A i \in es : IF last THEN logged[i].at <= t ELSE t <= logged[i].at

SameAlert(a, b) == a.rule = b.rule /\ a.id = b.id

\* The alert as it is, with what the run has read of it brought up to date.
Extended(w, seen) ==
    LET present == CHOOSE a \in alerts : SameAlert(a, seen)
        fresh == Fresh(w, seen.rule)
    IN  [present EXCEPT !.eventCount = seen.eventCount + Cardinality(fresh),
                        !.last = Stamp(fresh, TRUE), !.counted = @ \cup fresh]

New(w, rule) ==
    LET fresh == Fresh(w, rule)
    IN  [id |-> rounds, rule |-> rule, eventCount |-> Cardinality(fresh),
         first |-> Stamp(fresh, FALSE), last |-> Stamp(fresh, TRUE), open |-> TRUE,
         counted |-> fresh, before |-> {}]

WriteAlerts(w) ==
    LET extended == UNION {Collects(w, rule) : rule \in Rules}
        created == {rule \in Rules : Collects(w, rule) = {} /\ Triggered(rule, Fresh(w, rule))}
    IN  /\ detector[w].pc = "write"
        /\ alerts' = {a \in alerts : \A b \in extended : ~SameAlert(a, b)}
                     \cup {Extended(w, a) : a \in extended}
                     \cup {New(w, rule) : rule \in created}
        /\ rounds' = IF created = {} THEN rounds ELSE rounds + 1
        /\ detector' = [detector EXCEPT ![w] = Resting]
        /\ UNCHANGED <<hour, logged>>

\* The transaction is rolled back, with the lock.
RollBack(w) ==
    /\ detector[w].pc # "idle"
    /\ detector' = [detector EXCEPT ![w] = Resting]
    /\ UNCHANGED <<hour, logged, alerts, rounds>>

-----------------------------------------------------------------------------
\* An administrator marks an alert that is not resolved yet.
Resolve(a) ==
    /\ a.open
    /\ alerts' = (alerts \ {a}) \cup {[a EXCEPT !.open = FALSE, !.before = {i \in Ids : logged[i] # Unset}]}
    /\ UNCHANGED <<hour, logged, rounds, detector>>

AlertsNext ==
    \/ HourPasses
    \/ \E i \in Ids : Finish(i) \/ \E k \in Kinds, known \in BOOLEAN : Happen(i, k, known)
    \/ \E w \in Detectors :
         Wake(w) \/ ReadEvents(w) \/ ReadAlerts(w) \/ WriteAlerts(w) \/ RollBack(w)
    \/ \E a \in alerts : Resolve(a)

AlertsSpec == AlertsInit /\ [][AlertsNext]_alertVars

-----------------------------------------------------------------------------
(* Properties.                                                              *)

\* An alert counts, once and in no other alert of its rule, every event between its first
\* and its last that got its outcome before it had settled, however runs overlap, fail
\* and disagree about the time (securityAlerts.server.ts lines 82-105).
AlertsCountExactly ==
    \A a \in alerts :
        /\ a.eventCount = Cardinality(a.counted)
        /\ \A i \in Ids :
              (/\ logged[i] # Unset /\ logged[i].prompt /\ Concerns(a.rule, i)
               /\ a.first <= logged[i].at /\ logged[i].at <= a.last) => i \in a.counted
        /\ \A b \in alerts : (b.rule = a.rule /\ b # a) => a.counted \cap b.counted = {}

\* What happened after an alert was resolved is not counted in it, although a run may
\* have found it open and write to it later: it takes a new alert (docs/security.md:44-45).
ResolvedTakesNothingNew ==
    \A a \in alerts : a.open \/ a.counted \subseteq a.before
=============================================================================
