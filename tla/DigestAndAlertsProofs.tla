----------------------- MODULE DigestAndAlertsProofs -----------------------
(***************************************************************************)
(* Theorems about the two cron jobs that read what others wrote:           *)
(* OrganizerDigest, where for any number of events and runs every event is *)
(* in exactly one digest, and SecurityAlerts, where for any number of      *)
(* events and runs and any thresholds alerts count exactly what they       *)
(* should.                                                                 *)
(*                                                                         *)
(* The lock leaves one alert run between its reads and its commit          *)
(* (OneReads), so what it has seen of the alerts is what they are, apart   *)
(* from being resolved meanwhile (SeesTheAlerts).  An event that is prompt *)
(* was there when a run read its part of the log (ReadsArePrompt), because *)
(* a run reads only what has settled.  Hence alerts of a rule lie one      *)
(* after the other, and the next one begins after the last (AlertsApart).  *)
(***************************************************************************)
EXTENDS OrganizerDigest, SecurityAlerts, FiniteSetTheorems, WellFoundedInduction, TLAPS

-----------------------------------------------------------------------------
(* The digest.                                                              *)

\* The next digest has a time, whatever the interval.
LEMMA NextDigestTyped ==
    ASSUME NEW i \in DOMAIN Periods, NEW t \in Times
    PROVE  NextDigestAt(i, t) \in Int
<1>1. Periods[i] \in Nat /\ t \in Nat
  BY TimesAssumption DEF Times
<1>2. CASE Periods[i] = 0
  BY <1>1, <1>2 DEF NextDigestAt
<1>3. CASE Periods[i] # 0
  <2>1. t \div Periods[i] \in Int
    BY <1>1, <1>3
  <2> QED
    BY <1>1, <1>3, <2>1 DEF NextDigestAt
<1> QED
  BY <1>2, <1>3

-----------------------------------------------------------------------------
(* Typing, with one lemma for each kind of step.                            *)

LEMMA InitTyped == Init => TypeOK
<1> SUFFICES ASSUME Init PROVE TypeOK
  OBVIOUS
<1>1. 0 \in Times
  BY TimesAssumption DEF Times
<1>2. Idle \in Run /\ Idle.pc = "idle"
  BY <1>1 DEF Idle, Run
<1>3. run \in [Runs -> Run] /\ \A w \in Runs : run[w].pc = "idle"
  BY <1>2 DEF Init
<1>4. reported \in [Events -> Nat] /\ since \in Times /\ clock \in Times /\ made \in Nat
  BY <1>1 DEF Init
<1>5. pending \in [Events -> Times \cup {None}] /\ event \in [Events -> Times \cup {None}]
  BY DEF Init
<1> QED
  BY <1>3, <1>4, <1>5 DEF Init, TypeOK

LEMMA EventTyped ==
    ASSUME TypeOK, NEW e \in Events, EventStep(e)
    PROVE  TypeOK'
<1>1. CASE Write(e)
  BY <1>1 DEF Write, TypeOK, ghosts
<1>2. CASE Commit(e)
  <2>1. pending[e] \in Times
    BY <1>2 DEF Commit, TypeOK
  <2> QED
    BY <1>2, <2>1 DEF Commit, TypeOK
<1> QED
  BY <1>1, <1>2 DEF EventStep

LEMMA CallTyped ==
    ASSUME TypeOK, CallStep
    PROVE  TypeOK'
<1>1. ASSUME NEW choice \in Choices \cup {None}, CallBegin(choice)
      PROVE  TypeOK'
  <2>1. call' \in Call
    BY <1>1 DEF CallBegin, TypeOK, Call
  <2> QED
    BY <1>1, <2>1 DEF CallBegin, TypeOK, eventVars, ghosts
<1>2. CASE Subscribe
  <2>1. call.now \in Times /\ call.choice \in Choice
    BY <1>2, ChoicesAssumption DEF Subscribe, TypeOK, Call
  <2>2. call.choice.topics \subseteq Topics /\ call.choice.interval \in DOMAIN Periods
    BY <2>1 DEF Choice
  <2>3. NextDigestAt(call.choice.interval, call.now) \in Int
    BY <2>1, <2>2, NextDigestTyped
  <2>4. sub' \in Subscription
    BY <1>2, <2>1, <2>2, <2>3 DEF Subscribe, TypeOK, Subscription, CoveredAtFirst
  <2>5. reported' \in [Events -> Nat] /\ made' \in Nat /\ missed' \subseteq Events
    BY <1>2 DEF Subscribe, TypeOK
  <2>6. call' = None /\ since' \in Times /\ setBack' \in BOOLEAN
    BY <1>2, <2>1 DEF Subscribe
  <2> QED
    BY <1>2, <2>4, <2>5, <2>6 DEF Subscribe, TypeOK, eventVars
<1>3. CASE ChangeSubscription
  <2>1. call.now \in Times /\ call.choice \in Choice /\ sub \in Subscription
    BY <1>3, ChoicesAssumption DEF ChangeSubscription, TypeOK, Call
  <2>2. call.choice.topics \subseteq Topics /\ call.choice.interval \in DOMAIN Periods
    BY <2>1 DEF Choice
  <2>3. NextDigestAt(call.choice.interval, call.now) \in Int
    BY <2>1, <2>2, NextDigestTyped
  <2>4. sub' \in Subscription
    BY <1>3, <2>1, <2>2, <2>3 DEF ChangeSubscription, Changed, Subscription
  <2> QED
    BY <1>3, <2>4 DEF ChangeSubscription, TypeOK, eventVars, ghosts
<1>4. CASE Unsubscribe
  BY <1>4 DEF Unsubscribe, TypeOK, eventVars, ghosts
<1> QED
  BY <1>1, <1>2, <1>3, <1>4 DEF CallStep

LEMMA RunTyped ==
    ASSUME TypeOK, NEW w \in Runs, RunStep(w)
    PROVE  TypeOK'
<1> USE DEF eventVars, ghosts
<1>0. run[w] \in Run /\ Idle \in Run /\ Idle.pc = "idle"
  BY TimesAssumption DEF TypeOK, Idle, Run, Times
<1>1. CASE Start(w)
  BY <1>0, <1>1 DEF Start, TypeOK, Run
<1>2. CASE Select(w)
  BY <1>0, <1>2 DEF Select, TypeOK, Run
<1>3. CASE Check(w)
  BY <1>0, <1>3 DEF Check, TypeOK, Run
<1>4. CASE Drop(w)
  BY <1>0, <1>4 DEF Drop, TypeOK
<1>5. CASE Claim(w)
  <2>1. run[w].now \in Times /\ run[w].read \in Subscription /\ sub \in Subscription
    BY <1>0, <1>5 DEF Claim, AsRead, TypeOK, Run
  <2>2. NextDigestAt(run[w].read.interval, run[w].now) \in Int
    BY <2>1, NextDigestTyped DEF Subscription
  <2>3. sub' \in Subscription
    BY <1>5, <2>1, <2>2 DEF Claim, Subscription
  <2>4. reported' \in [Events -> Nat]
    BY <1>5 DEF Claim, TypeOK
  <2>5. missed' \subseteq Events /\ setBack' \in BOOLEAN
    BY <1>5, <2>1 DEF Claim, TypeOK, Window
  <2>6. run' \in [Runs -> Run] /\ run' = [run EXCEPT ![w] = Idle]
    BY <1>0, <1>5 DEF Claim, TypeOK
  <2> QED
    BY <1>0, <1>5, <2>3, <2>4, <2>5, <2>6 DEF Claim, TypeOK
<1>6. CASE Outrun(w)
  BY <1>0, <1>6 DEF Outrun, TypeOK
<1>7. CASE Stop(w)
  BY <1>0, <1>7 DEF Stop, TypeOK
<1> QED
  BY <1>1, <1>2, <1>3, <1>4, <1>5, <1>6, <1>7 DEF RunStep

\* Every reachable state of the digest is well typed; in particular a run that goes on
\* has read a subscription (lib/organizerDigest.server.ts:91-110).
THEOREM TypeCorrect == Spec => []TypeOK
<1>1. Init => TypeOK
  BY InitTyped
<1>2. TypeOK /\ [Next]_vars => TypeOK'
  <2> SUFFICES ASSUME TypeOK, [Next]_vars PROVE TypeOK'
    OBVIOUS
  <2>1. CASE UNCHANGED vars
    BY <2>1 DEF vars, eventVars, ghosts, TypeOK
  <2>2. CASE Tick
    BY <2>2, TimesAssumption DEF Tick, TypeOK, eventVars, ghosts, Times
  <2> QED
    BY <2>1, <2>2, EventTyped, CallTyped, RunTyped DEF Next
<1> QED
  BY <1>1, <1>2, PTL DEF Spec

-----------------------------------------------------------------------------
(* The property is inductive, given the types: what a claim covers anew is  *)
(* what it tells of, since it has read what is covered until then.          *)

\* A claim tells of what it covers anew and of nothing else.
LEMMA ClaimReportsOnce ==
    ASSUME TypeOK, EveryEventReportedOnce, NEW w \in Runs, Claim(w)
    PROVE  EveryEventReportedOnce'
<1> DEFINE read == run[w].read
           now == run[w].now
<1>1. /\ sub \in Subscription /\ sub # None /\ read.covered = sub.covered
      /\ now \in Nat /\ sub.covered \in Nat
  BY TimesAssumption DEF Claim, AsRead, TypeOK, Run, Subscription, Times
<1>2. sub'.covered = now /\ since' = since /\ event' = event
  BY <1>1 DEF Claim, Subscription, eventVars
<1> SUFFICES ASSUME NEW e \in Events, e \notin missed', event[e] # None, event[e] > since
             PROVE  /\ event[e] <= now => reported'[e] > 0
                    /\ ~setBack' => /\ reported'[e] <= 1
                                    /\ event[e] > now => reported'[e] = 0
  BY <1>2 DEF EveryEventReportedOnce
<1>3. e \notin missed /\ (e \in Window(read, now) => e \in Told(read, now))
  BY DEF Claim
<1>4. event[e] \in Nat /\ reported[e] \in Nat /\ since \in Nat
  BY DEF TypeOK, Times
<1>5. /\ event[e] <= sub.covered => reported[e] > 0
      /\ ~setBack => reported[e] <= 1 /\ (event[e] > sub.covered => reported[e] = 0)
  BY <1>1, <1>3 DEF EveryEventReportedOnce
<1>6. e \in Window(read, now) <=> event[e] > sub.covered /\ event[e] <= now
  BY <1>1 DEF Window
<1>7. e \in Told(read, now) => e \in Window(read, now)
  BY DEF Told
<1>8. reported'[e] = IF e \in Told(read, now) THEN reported[e] + 1 ELSE reported[e]
  BY DEF Claim
<1>9. ~setBack' => ~setBack /\ now >= sub.covered
  <2>1. setBack' = (setBack \/ now < sub.covered)
    BY DEF Claim
  <2>2. ~(now < sub.covered) => now >= sub.covered
    BY <1>1
  <2> HIDE DEF now
  <2> QED
    BY <2>1, <2>2, Zenon
<1> HIDE DEF read, now
<1> QED
  BY <1>1, <1>3, <1>4, <1>5, <1>6, <1>7, <1>8, <1>9

\* What a submission replaces and what is committed late starts anew.
LEMMA CommitReportsOnce ==
    ASSUME TypeOK, EveryEventReportedOnce, NEW e \in Events, Commit(e)
    PROVE  EveryEventReportedOnce'
<1>1. sub' = sub /\ since' = since /\ setBack' = setBack
  BY DEF Commit
<1> SUFFICES ASSUME sub # None, NEW f \in Events, f \notin missed', event'[f] # None,
                    event'[f] > since
             PROVE  /\ event'[f] <= sub.covered => reported'[f] > 0
                    /\ ~setBack => /\ reported'[f] <= 1
                                   /\ event'[f] > sub.covered => reported'[f] = 0
  BY <1>1 DEF EveryEventReportedOnce
<1>2. CASE f = e
  <2>1. event'[f] = pending[e] /\ reported'[f] = 0
    BY <1>2 DEF Commit, TypeOK
  <2>2. ~(event'[f] <= sub.covered)
    BY <1>2, <2>1 DEF Commit
  <2> QED
    BY <2>1, <2>2
<1>3. CASE f # e
  <2>1. event'[f] = event[f] /\ reported'[f] = reported[f] /\ f \notin missed
    BY <1>3 DEF Commit, TypeOK
  <2> QED
    BY <2>1 DEF EveryEventReportedOnce
<1> QED
  BY <1>2, <1>3

\* A new subscription has told of nothing and covers nothing of what it must tell of.
LEMMA SubscribeReportsOnce ==
    ASSUME TypeOK, Subscribe
    PROVE  EveryEventReportedOnce'
<1>1. call.now \in Nat
  BY DEF Subscribe, TypeOK, Call, Times
<1>2. /\ sub'.covered = call.now /\ since' = call.now /\ event' = event
      /\ \A e \in Events : reported'[e] = 0
  BY DEF Subscribe, CoveredAtFirst, eventVars
<1>3. \A e \in Events : event[e] # None => event[e] \in Nat
  BY DEF TypeOK, Times
<1> QED
  BY <1>1, <1>2, <1>3 DEF EveryEventReportedOnce

\* A digest tells of every event of its topics since the subscription once, and of none
\* before its period is covered, for any number of runs however they overlap, come late
\* or fail (lib/organizerDigest.server.ts:88-113).
THEOREM ReportedOnceHolds == Spec => []EveryEventReportedOnce
<1>1. Init => EveryEventReportedOnce
  BY DEF Init, EveryEventReportedOnce
<1>2. TypeOK /\ EveryEventReportedOnce /\ [Next]_vars => EveryEventReportedOnce'
  <2> SUFFICES ASSUME TypeOK, EveryEventReportedOnce, [Next]_vars
               PROVE  EveryEventReportedOnce'
    OBVIOUS
  <2> USE DEF eventVars, ghosts
  <2>1. CASE UNCHANGED <<sub, event, reported, missed, since, setBack>>
    BY <2>1 DEF EveryEventReportedOnce
  <2>2. ASSUME NEW e \in Events, EventStep(e)
        PROVE  EveryEventReportedOnce'
    BY <2>1, <2>2, CommitReportsOnce DEF EventStep, Write
  <2>3. CASE ChangeSubscription
    <3>1. sub \in Subscription /\ sub'.covered = sub.covered
      BY <2>3 DEF ChangeSubscription, Changed, TypeOK, Subscription
    <3> QED
      BY <2>3, <3>1 DEF ChangeSubscription, EveryEventReportedOnce
  <2>4. CASE Unsubscribe
    BY <2>4 DEF Unsubscribe, EveryEventReportedOnce
  <2>5. CASE CallStep
    <3>1. ASSUME NEW choice \in Choices \cup {None}, CallBegin(choice)
          PROVE  EveryEventReportedOnce'
      BY <2>1, <3>1 DEF CallBegin
    <3> QED
      BY <2>3, <2>4, <2>5, <3>1, SubscribeReportsOnce DEF CallStep
  <2>6. ASSUME NEW w \in Runs, RunStep(w)
        PROVE  EveryEventReportedOnce'
    <3>1. CASE Drop(w)
      BY <3>1 DEF Drop, EveryEventReportedOnce
    <3>2. CASE Start(w) \/ Select(w) \/ Check(w) \/ Outrun(w) \/ Stop(w)
      BY <2>1, <3>2 DEF Start, Select, Check, Outrun, Stop
    <3> QED
      BY <2>6, <3>1, <3>2, ClaimReportsOnce DEF RunStep
  <2>7. CASE Tick
    BY <2>1, <2>7 DEF Tick
  <2>8. CASE UNCHANGED vars
    BY <2>1, <2>8 DEF vars
  <2> QED
    BY <2>2, <2>5, <2>6, <2>7, <2>8 DEF Next
<1> QED
  BY <1>1, <1>2, TypeCorrect, PTL DEF Spec

-----------------------------------------------------------------------------
(* The alerts.                                                              *)

Prompt(i) == logged[i] # Unset /\ logged[i].prompt
Reading(w) == detector[w].pc \in {"alerts", "write"}

LogMakesSense ==
    \A i \in Ids : logged[i] # Unset =>
        logged[i].at <= hour /\ (logged[i].prompt => logged[i].known)

OneReads == \A v, w \in Detectors : Reading(v) /\ Reading(w) => v = w

ReadsArePrompt ==
    \A w \in Detectors :
        /\ detector[w].now <= hour
        /\ Reading(w) =>
             /\ \A i \in detector[w].events : logged[i] # Unset /\ InWindow(w, i)
             /\ \A i \in Ids : Prompt(i) /\ InWindow(w, i) => i \in detector[w].events

\* An alert that run w has seen as s is now a.
SeenAs(w, a, s) ==
    /\ SameAlert(a, s)
    /\ a.eventCount = s.eventCount /\ a.first = s.first /\ a.last = s.last /\ a.counted = s.counted
    /\ a.open => s.open
    /\ s.open => a.open \/ detector[w].events \subseteq a.before

SeesTheAlerts ==
    \A w \in Detectors : detector[w].pc = "write" =>
        /\ \A s \in detector[w].seen : s.last > Since(w) /\ \E a \in alerts : SeenAs(w, a, s)
        /\ \A a \in alerts : a.last > Since(w) => \E s \in detector[w].seen : SeenAs(w, a, s)

Sound(a) ==
    /\ a.id < rounds
    /\ a.first <= a.last /\ a.last <= hour - Settle
    /\ a.eventCount = Cardinality(a.counted)
    /\ \A i \in a.counted : logged[i] # Unset /\ logged[i].at <= a.last
    /\ \A i \in Ids : (/\ Prompt(i) /\ Concerns(a.rule, i)
                       /\ a.first <= logged[i].at /\ logged[i].at <= a.last) => i \in a.counted
    /\ \A i \in a.counted : a.first <= logged[i].at
    /\ a.open \/ a.counted \subseteq a.before
AlertsSound == \A a \in alerts : Sound(a)

AlertsApart ==
    \A a, b \in alerts : a.rule = b.rule /\ a # b =>
        /\ a.id # b.id
        /\ a.last < b.first \/ b.last < a.first

AlertsInv == /\ AlertsTypeOK
             /\ LogMakesSense /\ OneReads /\ ReadsArePrompt
             /\ SeesTheAlerts /\ AlertsSound /\ AlertsApart

-----------------------------------------------------------------------------
(* The first and the last of some events.                                   *)

LEMMA LeastOfNaturals ==
    ASSUME NEW S \in SUBSET Nat, S # {}
    PROVE  \E n \in S : \A m \in S : n <= m
<1>1. IsWellFoundedOn(OpToRel(<, Nat), Nat)
    BY NatLessThanWellFounded
<1>2. PICK n \in S : \A m \in S : <<m, n>> \notin OpToRel(<, Nat)
    BY <1>1, WFMin
<1>3. \A m \in S : ~(m < n)
    BY <1>2 DEF OpToRel
<1> QED BY <1>3

LEMMA HoursAreNumbers == Hours \subseteq Nat /\ \A t \in Hours : LastHour - t \in Nat
  BY AlertBounds DEF Hours

LEMMA GreatestOfHours ==
    ASSUME NEW S \in SUBSET Hours, S # {}
    PROVE  \E t \in S : \A u \in S : u <= t
<1> DEFINE T == {LastHour - t : t \in S}
<1>1. T \in SUBSET Nat /\ T # {}
    BY HoursAreNumbers
<1>2. PICK d \in T : \A e \in T : d <= e
    BY <1>1, LeastOfNaturals
<1>3. PICK t \in S : d = LastHour - t
    BY <1>2
<1>4. \A u \in S : LastHour - t <= LastHour - u
    BY <1>2, <1>3
<1> QED BY <1>4, AlertBounds DEF Hours

LEMMA StampIs ==
    ASSUME NEW es \in SUBSET Ids, es # {}, \A i \in es : logged[i].at \in Hours
    PROVE  /\ Stamp(es, TRUE) \in Hours /\ \A i \in es : logged[i].at <= Stamp(es, TRUE)
           /\ Stamp(es, FALSE) \in Hours /\ \A i \in es : Stamp(es, FALSE) <= logged[i].at
           /\ \E i \in es : logged[i].at = Stamp(es, TRUE)
           /\ \E i \in es : logged[i].at = Stamp(es, FALSE)
<1> DEFINE T == {logged[i].at : i \in es}
<1>1. T \in SUBSET Hours /\ T # {}
    OBVIOUS
<1>2. PICK t \in T : \A u \in T : u <= t
    BY <1>1, GreatestOfHours
<1>3. PICK f \in T : \A u \in T : f <= u
  <2>1. T \in SUBSET Nat
    BY <1>1, HoursAreNumbers
  <2> QED BY <1>1, <2>1, LeastOfNaturals
<1>4. Stamp(es, TRUE) \in T /\ \A i \in es : logged[i].at <= Stamp(es, TRUE)
    BY <1>2 DEF Stamp
<1>5. Stamp(es, FALSE) \in T /\ \A i \in es : Stamp(es, FALSE) <= logged[i].at
    BY <1>3 DEF Stamp
<1> QED BY <1>1, <1>4, <1>5

-----------------------------------------------------------------------------
(* What a run makes of an alert.                                            *)

LEMMA FiniteIds == IsFiniteSet(Ids) /\ \A S \in SUBSET Ids : IsFiniteSet(S)
<1>1. IsFiniteSet(Ids)
    BY FS_Interval, AlertBounds DEF Ids
<1> QED BY <1>1, FS_Subset

LEMMA LoggedAt ==
    ASSUME AlertsTypeOK, NEW i \in Ids, logged[i] # Unset
    PROVE  logged[i] \in LogEntry /\ logged[i].at \in Hours
  BY DEF AlertsTypeOK, LogEntry

LEMMA FreshEvents ==
    ASSUME AlertsInv, NEW w \in Detectors, detector[w].pc = "write", NEW rule \in Rules
    PROVE  /\ Fresh(w, rule) \in SUBSET Ids
           /\ \A i \in Fresh(w, rule) : /\ logged[i] # Unset /\ logged[i].at \in Hours
                                        /\ logged[i].at > Since(w) /\ logged[i].at <= Until(w)
<1>1. detector[w].events \in SUBSET Ids
    BY DEF AlertsInv, AlertsTypeOK, Detector
<1>2. \A i \in detector[w].events : logged[i] # Unset /\ InWindow(w, i)
    BY DEF AlertsInv, ReadsArePrompt, Reading
<1> QED BY <1>1, <1>2, LoggedAt DEF AlertsInv, Fresh, InWindow

\* The numbers of a run.
LEMMA WindowTyped ==
    ASSUME AlertsTypeOK, NEW w \in Detectors
    PROVE  Until(w) \in Int /\ Since(w) \in Int /\ Since(w) <= Until(w)
  BY AlertBounds DEF AlertsTypeOK, Detector, Until, Since, Hours

\* The latest alert that a run has seen is the latest of the rule.
LEMMA PreviousIsLast ==
    ASSUME AlertsInv, NEW w \in Detectors, detector[w].pc = "write", NEW rule \in Rules,
           NEW s \in Previous(w, rule), NEW p \in alerts, SeenAs(w, p, s)
    PROVE  \A b \in alerts : b.rule = rule /\ b # p => b.last < p.first
<1> SUFFICES ASSUME NEW b \in alerts, b.rule = rule, b # p PROVE b.last < p.first
    OBVIOUS
<1>1. s \in detector[w].seen /\ p.rule = rule /\ s.rule = rule /\ s.last = p.last /\ p.last > Since(w)
    BY DEF AlertsInv, SeesTheAlerts, Previous, SeenAs, SameAlert
<1>2. b \in Alert /\ p \in Alert /\ Sound(b) /\ Sound(p)
    BY DEF AlertsInv, AlertsTypeOK, AlertsSound
<1>3. b.last < p.first \/ p.last < b.first
    BY <1>1 DEF AlertsInv, AlertsApart
<1>4. CASE p.last < b.first
  <2>1. b.last > Since(w)
    BY <1>1, <1>2, <1>4, WindowTyped, AlertBounds DEF Sound, Alert, AlertsInv, Hours
  <2>2. PICK r \in detector[w].seen : SeenAs(w, b, r)
    BY <2>1 DEF AlertsInv, SeesTheAlerts
  <2>3. r.rule = rule /\ r.last = b.last
    BY <2>2 DEF SeenAs, SameAlert
  <2>4. r.last <= s.last
    BY <2>3 DEF Previous
  <2> QED BY <1>1, <1>2, <1>4, <2>3, <2>4, AlertBounds DEF Sound, Alert, Hours
<1> QED BY <1>3, <1>4
-----------------------------------------------------------------------------
(* What a run writes.                                                       *)

\* A run leaves an alert as it is, ...
Kept(w, e) ==
    e \in alerts /\ \A rule \in Rules : \A s \in Collects(w, rule) : ~SameAlert(e, s)

\* ... brings it up to date ...
ExtendedFrom(w, e, p) ==
    LET fresh == Fresh(w, p.rule)
    IN  /\ p \in alerts
        /\ e = [p EXCEPT !.eventCount = p.eventCount + Cardinality(fresh),
                         !.last = Stamp(fresh, TRUE), !.counted = p.counted \cup fresh]
        /\ \E s \in Collects(w, p.rule) : SeenAs(w, p, s)
        /\ fresh # {}
        /\ Since(w) < p.last
        /\ \A i \in fresh : p.last < logged[i].at
        /\ \A b \in alerts : b.rule = p.rule /\ b # p => b.last < p.first

\* ... or creates one.
Created(w, e) ==
    /\ e.rule \in Rules /\ e = New(w, e.rule)
    /\ Collects(w, e.rule) = {} /\ Fresh(w, e.rule) # {}
    /\ \A b \in alerts : b.rule = e.rule => \A i \in Fresh(w, e.rule) : b.last < logged[i].at
    /\ rounds' = rounds + 1

LEMMA Extends ==
    ASSUME AlertsInv, NEW w \in Detectors, detector[w].pc = "write", NEW rule \in Rules,
           NEW s \in Collects(w, rule)
    PROVE  \E p \in alerts : ExtendedFrom(w, Extended(w, s), p)
<1>1. s \in Previous(w, rule) /\ s.open /\ Fresh(w, rule) # {}
    BY DEF Collects
<1>2. s \in detector[w].seen /\ s.rule = rule
    BY <1>1 DEF Previous
<1>3. PICK p \in alerts : SeenAs(w, p, s)
    BY <1>2 DEF AlertsInv, SeesTheAlerts
<1>4. p.rule = rule /\ p.last = s.last /\ p.eventCount = s.eventCount /\ s.last > Since(w)
    BY <1>2, <1>3 DEF SeenAs, SameAlert, AlertsInv, SeesTheAlerts
<1>5. (CHOOSE a \in alerts : SameAlert(a, s)) = p
  <2>1. SameAlert(p, s)
    BY <1>3 DEF SeenAs
  <2>2. \A a \in alerts : SameAlert(a, s) => a = p
    BY <2>1 DEF SameAlert, AlertsInv, AlertsApart
  <2> QED BY <2>1, <2>2
<1>6. \A i \in Fresh(w, rule) : p.last < logged[i].at
  <2>1. \A i \in Fresh(w, rule) : logged[i].at > s.last
    BY <1>1 DEF Fresh
  <2>2. p \in Alert
    BY DEF AlertsInv, AlertsTypeOK
  <2> QED BY <1>4, <2>1, <2>2, FreshEvents, HoursAreNumbers DEF Alert
<1>7. \A b \in alerts : b.rule = rule /\ b # p => b.last < p.first
    BY <1>1, <1>3, PreviousIsLast
<1>8. Since(w) < p.last
  <2>1. p.last \in Hours
    BY DEF AlertsInv, AlertsTypeOK, Alert
  <2> QED BY <1>4, <2>1, WindowTyped, HoursAreNumbers DEF AlertsInv
<1> QED BY <1>1, <1>2, <1>3, <1>4, <1>5, <1>6, <1>7, <1>8 DEF ExtendedFrom, Extended

\* A rule takes at least one event.
LEMMA RulesTakeEvents ==
    ASSUME NEW rule \in Rules, NEW es, Triggered(rule, es)
    PROVE  es # {}
<1>1. CASE rule = "LOGIN_SUCCESS_AFTER_FAILURES"
    BY <1>1 DEF Triggered, Of
<1>2. CASE rule = "ACCESS_PROBING"
    BY <1>2, FS_EmptySet, AlertBounds DEF Triggered
<1>3. CASE rule = "PASSWORD_RESET"
    BY <1>3 DEF Triggered
<1> QED BY <1>1, <1>2, <1>3 DEF Rules

LEMMA SeenTyped ==
    ASSUME AlertsInv, NEW w \in Detectors, NEW s \in detector[w].seen
    PROVE  s \in Alert /\ s.last \in Nat
<1>1. s \in Alert
    BY DEF AlertsInv, AlertsTypeOK, Detector
<1> QED BY <1>1, HoursAreNumbers DEF Alert

\* If a run has seen an alert of a rule, it has seen a latest one.
LEMMA SomePrevious ==
    ASSUME AlertsInv, NEW w \in Detectors, NEW rule \in Rules,
           NEW r \in detector[w].seen, r.rule = rule
    PROVE  \E s \in Previous(w, rule) : r.last <= s.last
<1> DEFINE S == {a \in detector[w].seen : a.rule = rule}
           T == {a.last : a \in S}
<1>1. \A a \in S : a.last \in Hours
    BY DEF AlertsInv, AlertsTypeOK, Detector, Alert
<1>2. T \in SUBSET Hours /\ T # {}
    BY <1>1
<1>3. PICK t \in T : \A u \in T : u <= t
    BY <1>2, GreatestOfHours
<1>4. PICK s \in S : s.last = t
    OBVIOUS
<1>5. \A a \in S : a.last <= s.last
    BY <1>3, <1>4
<1> QED BY <1>4, <1>5 DEF Previous

LEMMA Creates ==
    ASSUME AlertsInv, NEW w \in Detectors, detector[w].pc = "write", NEW rule \in Rules,
           Collects(w, rule) = {}, Triggered(rule, Fresh(w, rule)), rounds' = rounds + 1
    PROVE  Created(w, New(w, rule))
<1>1. Fresh(w, rule) # {}
    BY RulesTakeEvents
<1>2. ASSUME NEW b \in alerts, b.rule = rule, NEW i \in Fresh(w, rule)
      PROVE  b.last < logged[i].at
  <2>1. b.last \in Hours /\ logged[i].at \in Hours /\ logged[i].at > Since(w)
    BY FreshEvents DEF AlertsInv, AlertsTypeOK, Alert
  <2>2. CASE b.last > Since(w)
    <3>1. PICK r \in detector[w].seen : SeenAs(w, b, r)
        BY <2>2 DEF AlertsInv, SeesTheAlerts
    <3>2. r.rule = rule /\ r.last = b.last
        BY <1>2, <3>1 DEF SeenAs, SameAlert
    <3>3. PICK s \in Previous(w, rule) : r.last <= s.last
        BY <3>2, SomePrevious
    <3>4. logged[i].at > s.last /\ s.last \in Hours
        BY DEF Fresh, Previous, AlertsInv, AlertsTypeOK, Detector, Alert
    <3> QED BY <2>1, <3>2, <3>3, <3>4, HoursAreNumbers
  <2>3. CASE ~(b.last > Since(w))
    BY <2>1, <2>3, HoursAreNumbers, WindowTyped DEF AlertsInv
  <2> QED BY <2>2, <2>3
<1>3. New(w, rule).rule = rule
    BY DEF New
<1> QED BY <1>1, <1>2, <1>3 DEF Created

LEMMA Written ==
    ASSUME AlertsInv, NEW w \in Detectors, WriteAlerts(w), NEW e \in alerts'
    PROVE  Kept(w, e) \/ (\E p \in alerts : ExtendedFrom(w, e, p)) \/ Created(w, e)
<1> DEFINE extended == UNION {Collects(w, rule) : rule \in Rules}
           created == {rule \in Rules : Collects(w, rule) = {} /\ Triggered(rule, Fresh(w, rule))}
<1>1. /\ detector[w].pc = "write"
      /\ alerts' = {a \in alerts : \A b \in extended : ~SameAlert(a, b)}
                    \cup {Extended(w, a) : a \in extended} \cup {New(w, rule) : rule \in created}
      /\ rounds' = IF created = {} THEN rounds ELSE rounds + 1
    BY DEF WriteAlerts
<1> HIDE DEF created
<1>2. CASE e \in {a \in alerts : \A b \in extended : ~SameAlert(a, b)}
    BY <1>2 DEF Kept
<1>3. CASE e \in {Extended(w, a) : a \in extended}
  <2>1. PICK rule \in Rules : \E s \in Collects(w, rule) : e = Extended(w, s)
    BY <1>3
  <2> QED BY <1>1, <2>1, Extends
<1>4. CASE e \in {New(w, rule) : rule \in created}
  <2>1. PICK rule \in created : e = New(w, rule)
    BY <1>4
  <2>2. rounds' = rounds + 1
    BY <1>1, <2>1
  <2> QED BY <1>1, <2>1, <2>2, Creates DEF created
<1> QED BY <1>1, <1>2, <1>3, <1>4
\* What an alert is after it was brought up to date.
LEMMA ExtendedAlert ==
    ASSUME AlertsInv, NEW w \in Detectors, detector[w].pc = "write",
           NEW e, NEW p \in alerts, ExtendedFrom(w, e, p)
    PROVE  /\ e \in Alert
           /\ e.id = p.id /\ e.rule = p.rule /\ e.first = p.first
           /\ e.open = p.open /\ e.before = p.before
           /\ e.counted = p.counted \cup Fresh(w, p.rule)
           /\ e.eventCount = Cardinality(e.counted)
           /\ p.last < e.last /\ e.last <= Until(w)
           /\ \A i \in Fresh(w, p.rule) : logged[i].at <= e.last
<1> DEFINE F == Fresh(w, p.rule)
<1>1. p \in Alert /\ Sound(p)
    BY DEF AlertsInv, AlertsTypeOK, AlertsSound
<1>2. p.rule \in Rules /\ p.counted \in SUBSET Ids /\ p.eventCount \in Nat
    BY <1>1 DEF Alert
<1>3. F \in SUBSET Ids /\ F # {} /\ \A i \in F : logged[i].at \in Hours /\ logged[i].at <= Until(w)
    BY <1>2, FreshEvents DEF ExtendedFrom
<1>4. /\ Stamp(F, TRUE) \in Hours /\ \A i \in F : logged[i].at <= Stamp(F, TRUE)
      /\ \E i \in F : logged[i].at = Stamp(F, TRUE)
    BY <1>3, StampIs
<1>5. p.counted \cap F = {}
  <2>1. SUFFICES ASSUME NEW i \in F, i \in p.counted PROVE FALSE
    OBVIOUS
  <2>2. logged[i].at <= p.last /\ p.last < logged[i].at
    BY <1>1, <2>1 DEF Sound, ExtendedFrom
  <2>3. logged[i].at \in Nat /\ p.last \in Nat
    BY <1>1, <1>3, <2>1, HoursAreNumbers DEF Alert
  <2> QED BY <2>2, <2>3
<1>6. /\ IsFiniteSet(p.counted) /\ IsFiniteSet(F)
      /\ Cardinality(p.counted \cup F) = p.eventCount + Cardinality(F)
  <2>1. IsFiniteSet(p.counted) /\ IsFiniteSet(F)
    BY <1>2, <1>3, FiniteIds
  <2>2. Cardinality(p.counted \cup F) =
            Cardinality(p.counted) + Cardinality(F) - Cardinality(p.counted \cap F)
    BY <2>1, FS_Union
  <2>3. Cardinality(p.counted \cap F) = 0
    BY <1>5, FS_EmptySet
  <2>4. Cardinality(F) \in Nat
    BY <2>1, FS_CardinalityType
  <2> QED BY <1>1, <1>2, <2>1, <2>2, <2>3, <2>4 DEF Sound
<1>7. e = [p EXCEPT !.eventCount = p.eventCount + Cardinality(F),
                    !.last = Stamp(F, TRUE), !.counted = p.counted \cup F]
    BY DEF ExtendedFrom
<1>8. p.eventCount + Cardinality(F) \in Nat
    BY <1>2, <1>6, FS_CardinalityType
<1> HIDE DEF F
<1>9. /\ e \in Alert /\ e.id = p.id /\ e.rule = p.rule /\ e.first = p.first
      /\ e.open = p.open /\ e.before = p.before /\ e.counted = p.counted \cup F
      /\ e.eventCount = p.eventCount + Cardinality(F) /\ e.last = Stamp(F, TRUE)
    BY <1>1, <1>2, <1>3, <1>4, <1>7, <1>8 DEF Alert
<1>10. p.last < e.last /\ e.last <= Until(w)
  <2>1. PICK i \in F : logged[i].at = e.last
    BY <1>4, <1>9
  <2> QED BY <1>3, <2>1 DEF F, ExtendedFrom
<1> QED BY <1>4, <1>6, <1>9, <1>10 DEF F

\* What a new alert is.
LEMMA CreatedAlert ==
    ASSUME AlertsInv, NEW w \in Detectors, detector[w].pc = "write", NEW e, Created(w, e)
    PROVE  /\ e \in Alert
           /\ e.id = rounds /\ e.open /\ e.counted = Fresh(w, e.rule)
           /\ e.eventCount = Cardinality(e.counted)
           /\ Since(w) < e.first /\ e.first <= e.last /\ e.last <= Until(w)
           /\ \A i \in Fresh(w, e.rule) : e.first <= logged[i].at /\ logged[i].at <= e.last
           /\ \A b \in alerts : b.rule = e.rule => b.last < e.first
<1> DEFINE F == Fresh(w, e.rule)
<1>1. e.rule \in Rules /\ F # {}
    BY DEF Created
<1>2. F \in SUBSET Ids /\ \A i \in F : /\ logged[i].at \in Hours
                                      /\ logged[i].at > Since(w) /\ logged[i].at <= Until(w)
    BY <1>1, FreshEvents
<1>3. /\ Stamp(F, TRUE) \in Hours /\ \A i \in F : logged[i].at <= Stamp(F, TRUE)
      /\ Stamp(F, FALSE) \in Hours /\ \A i \in F : Stamp(F, FALSE) <= logged[i].at
      /\ \E i \in F : logged[i].at = Stamp(F, TRUE)
      /\ \E i \in F : logged[i].at = Stamp(F, FALSE)
    BY <1>1, <1>2, StampIs
<1>4. Cardinality(F) \in Nat
    BY <1>2, FiniteIds, FS_CardinalityType
<1>5. e = [id |-> rounds, rule |-> e.rule, eventCount |-> Cardinality(F),
           first |-> Stamp(F, FALSE), last |-> Stamp(F, TRUE), open |-> TRUE,
           counted |-> F, before |-> {}]
    BY DEF Created, New
<1>6. rounds \in Nat /\ \A b \in alerts : b.rule = e.rule => \A i \in F : b.last < logged[i].at
    BY DEF Created, AlertsInv, AlertsTypeOK
<1> HIDE DEF F
<1>7. /\ e \in Alert /\ e.id = rounds /\ e.open /\ e.counted = F
      /\ e.eventCount = Cardinality(F) /\ e.first = Stamp(F, FALSE) /\ e.last = Stamp(F, TRUE)
  <2>1. PICK rule \in Rules : rule = e.rule
    BY <1>1
  <2>2. PICK id \in Nat, n \in Nat, t \in Hours, f \in Hours, open \in BOOLEAN :
            /\ id = rounds /\ n = Cardinality(F) /\ t = Stamp(F, TRUE) /\ f = Stamp(F, FALSE)
            /\ open = TRUE
    BY <1>3, <1>4, <1>6
  <2>3. e = [id |-> id, rule |-> rule, eventCount |-> n, first |-> f, last |-> t, open |-> open,
             counted |-> F, before |-> {}]
    BY <1>5, <2>1, <2>2
  <2>4. e \in Alert
    BY <1>2, <2>3 DEF Alert
  <2> QED BY <2>2, <2>3, <2>4
<1>8. PICK i \in F : logged[i].at = e.first
    BY <1>3, <1>7
<1>9. PICK j \in F : logged[j].at = e.last
    BY <1>3, <1>7
<1>10. Since(w) < e.first /\ e.last <= Until(w) /\ e.first <= e.last
  <2>1. e.first \in Hours /\ e.last \in Hours
    BY <1>2, <1>8, <1>9
  <2>2. e.first > Since(w) /\ e.last <= Until(w) /\ e.first <= e.last
    BY <1>2, <1>3, <1>7, <1>8, <1>9
  <2> QED BY <2>1, <2>2, WindowTyped, HoursAreNumbers DEF AlertsInv
<1> QED BY <1>3, <1>6, <1>7, <1>8, <1>10 DEF F

\* An event that is prompt and that no alert seen has counted is among the fresh ones.
LEMMA PromptIsFresh ==
    ASSUME AlertsInv, NEW w \in Detectors, detector[w].pc = "write",
           NEW rule, NEW i \in Ids, Prompt(i), Concerns(rule, i),
           logged[i].at > Since(w), logged[i].at <= Until(w),
           \A s \in Previous(w, rule) : logged[i].at > s.last
    PROVE  i \in Fresh(w, rule)
<1>1. i \in detector[w].events
    BY DEF AlertsInv, ReadsArePrompt, Reading, InWindow
<1> QED BY <1>1 DEF Fresh
-----------------------------------------------------------------------------
(* A run commits.                                                           *)

LEMMA KeptStaysSound ==
    ASSUME AlertsInv, NEW w \in Detectors, WriteAlerts(w), NEW e \in alerts
    PROVE  Sound(e)'
<1>1. rounds' \in {rounds, rounds + 1} /\ rounds \in Nat
    BY DEF WriteAlerts, AlertsInv, AlertsTypeOK
<1>2. Sound(e) /\ e.id \in Nat
    BY DEF AlertsInv, AlertsSound, AlertsTypeOK, Alert
<1>3. e.id < rounds'
    BY <1>1, <1>2 DEF Sound
<1>4. UNCHANGED <<hour, logged>>
    BY DEF WriteAlerts
<1> QED BY <1>2, <1>3, <1>4 DEF Sound, Prompt, Concerns

LEMMA ExtendedIsSound ==
    ASSUME AlertsInv, NEW w \in Detectors, WriteAlerts(w),
           NEW e, NEW p \in alerts, ExtendedFrom(w, e, p)
    PROVE  Sound(e)'
<1> DEFINE F == Fresh(w, p.rule)
<1>1. detector[w].pc = "write" /\ UNCHANGED <<hour, logged>> /\ rounds' \in {rounds, rounds + 1}
    BY DEF WriteAlerts
<1>2. /\ e \in Alert
      /\ e.id = p.id /\ e.rule = p.rule /\ e.first = p.first
      /\ e.open = p.open /\ e.before = p.before
      /\ e.counted = p.counted \cup F
      /\ e.eventCount = Cardinality(e.counted)
      /\ p.last < e.last /\ e.last <= Until(w)
      /\ \A i \in F : logged[i].at <= e.last
    BY <1>1, ExtendedAlert
<1>3. p \in Alert /\ Sound(p) /\ p.rule \in Rules /\ p.first \in Nat /\ p.last \in Nat /\ e.last \in Nat
    BY <1>2, HoursAreNumbers DEF AlertsInv, AlertsTypeOK, AlertsSound, Alert
<1>4. PICK s \in Collects(w, p.rule) : SeenAs(w, p, s)
    BY DEF ExtendedFrom
<1>5. s \in Previous(w, p.rule) /\ s.open /\ s.last = p.last
    BY <1>4 DEF Collects, SeenAs
<1>6. F \in SUBSET Ids
      /\ \A i \in F : logged[i] # Unset /\ logged[i].at \in Hours /\ p.last < logged[i].at
    BY <1>1, <1>3, FreshEvents DEF ExtendedFrom
<1>7. e.id < rounds'
    BY <1>1, <1>2, <1>3 DEF Sound, Alert, AlertsInv, AlertsTypeOK
<1>8. e.first <= e.last /\ e.last <= hour - Settle
  <2>1. Until(w) <= hour - Settle
    BY AlertBounds DEF Until, AlertsInv, ReadsArePrompt, AlertsTypeOK, Detector, Hours
  <2>2. hour - Settle \in Int /\ Until(w) \in Int
    BY WindowTyped, AlertBounds DEF AlertsInv, AlertsTypeOK, Hours
  <2> QED BY <1>2, <1>3, <2>1, <2>2 DEF Sound
<1>9. ASSUME NEW i \in e.counted
      PROVE  logged[i] # Unset /\ logged[i].at <= e.last /\ e.first <= logged[i].at
  <2>1. CASE i \in F
    <3>1. logged[i].at \in Nat
        BY <1>6, <2>1, HoursAreNumbers
    <3> QED BY <1>2, <1>3, <1>6, <2>1, <3>1 DEF Sound
  <2>2. CASE i \in p.counted
    <3>1. logged[i] # Unset /\ logged[i].at <= p.last /\ p.first <= logged[i].at /\ i \in Ids
        BY <1>3, <2>2 DEF Sound, Alert
    <3>2. logged[i].at \in Nat
        BY <3>1, LoggedAt, HoursAreNumbers DEF AlertsInv
    <3> QED BY <1>2, <1>3, <3>1, <3>2
  <2> QED BY <1>2, <2>1, <2>2
<1>10. ASSUME NEW i \in Ids, Prompt(i), Concerns(e.rule, i),
              e.first <= logged[i].at, logged[i].at <= e.last
       PROVE  i \in e.counted
  <2>1. logged[i].at \in Nat
    BY <1>10, LoggedAt, HoursAreNumbers DEF AlertsInv, Prompt
  <2>2. CASE logged[i].at <= p.last
    BY <1>2, <1>3, <1>10, <2>2 DEF Sound
  <2>3. CASE ~(logged[i].at <= p.last)
    <3>1. logged[i].at > Since(w) /\ logged[i].at <= Until(w)
      <4>1. Since(w) \in Int /\ Until(w) \in Int
        BY WindowTyped DEF AlertsInv
      <4>2. Since(w) < p.last /\ p.last < logged[i].at
        BY <1>3, <2>1, <2>3 DEF ExtendedFrom
      <4>3. logged[i].at <= e.last /\ e.last <= Until(w)
        BY <1>2, <1>10
      <4> QED BY <1>3, <2>1, <4>1, <4>2, <4>3
    <3>2. \A a \in Previous(w, p.rule) : logged[i].at > a.last
      <4>1. SUFFICES ASSUME NEW a \in Previous(w, p.rule) PROVE logged[i].at > a.last
        OBVIOUS
      <4>2. a \in detector[w].seen /\ a.last <= s.last
        BY <1>5 DEF Previous
      <4>3. a.last \in Nat
        BY <1>1, <4>2, SeenTyped
      <4> QED BY <1>3, <1>5, <2>1, <2>3, <4>2, <4>3
    <3>3. i \in F
        BY <1>1, <1>2, <1>10, <3>1, <3>2, PromptIsFresh
    <3> QED BY <1>2, <3>3
  <2> QED BY <2>2, <2>3
<1>11. e.open \/ e.counted \subseteq e.before
  <2>1. p.open \/ (p.counted \subseteq p.before /\ detector[w].events \subseteq p.before)
    BY <1>3, <1>4, <1>5 DEF SeenAs, Sound
  <2>2. F \subseteq detector[w].events
    BY DEF Fresh
  <2> QED BY <1>2, <2>1, <2>2
<1> HIDE DEF F
<1>12. \A i \in e.counted : logged[i] # Unset /\ logged[i].at <= e.last /\ e.first <= logged[i].at
    BY <1>9
<1>13. \A i \in Ids : (/\ Prompt(i) /\ Concerns(e.rule, i)
                        /\ e.first <= logged[i].at /\ logged[i].at <= e.last) => i \in e.counted
    BY <1>10
<1>14. e.eventCount = Cardinality(e.counted)
    BY <1>2
<1> QED BY <1>1, <1>7, <1>8, <1>11, <1>12, <1>13, <1>14 DEF Sound, Prompt, Concerns

LEMMA CreatedIsSound ==
    ASSUME AlertsInv, NEW w \in Detectors, WriteAlerts(w), NEW e, Created(w, e)
    PROVE  Sound(e)'
<1>1. detector[w].pc = "write" /\ UNCHANGED <<hour, logged>> /\ rounds' = rounds + 1 /\ rounds \in Nat
    BY DEF WriteAlerts, Created, AlertsInv, AlertsTypeOK
<1>2. /\ e \in Alert
      /\ e.id = rounds /\ e.open /\ e.counted = Fresh(w, e.rule)
      /\ e.eventCount = Cardinality(e.counted)
      /\ Since(w) < e.first /\ e.first <= e.last /\ e.last <= Until(w)
      /\ \A i \in Fresh(w, e.rule) : e.first <= logged[i].at /\ logged[i].at <= e.last
      /\ \A b \in alerts : b.rule = e.rule => b.last < e.first
    BY <1>1, CreatedAlert
<1>3. e.first \in Nat /\ e.last \in Nat /\ e.rule \in Rules
    BY <1>2, HoursAreNumbers DEF Alert
<1>4. e.last <= hour - Settle
  <2>1. Until(w) <= hour - Settle
    BY AlertBounds DEF Until, AlertsInv, ReadsArePrompt, AlertsTypeOK, Detector, Hours
  <2>2. hour - Settle \in Int /\ Until(w) \in Int
    BY WindowTyped, AlertBounds DEF AlertsInv, AlertsTypeOK, Hours
  <2> QED BY <1>2, <1>3, <2>1, <2>2
<1>5. \A i \in e.counted : logged[i] # Unset
    BY <1>1, <1>2, <1>3, FreshEvents
<1>6. ASSUME NEW i \in Ids, Prompt(i), Concerns(e.rule, i),
             e.first <= logged[i].at, logged[i].at <= e.last
      PROVE  i \in e.counted
  <2>1. logged[i].at \in Nat
    BY <1>6, LoggedAt, HoursAreNumbers DEF AlertsInv, Prompt
  <2>2. logged[i].at > Since(w) /\ logged[i].at <= Until(w)
    BY <1>2, <1>3, <1>6, <2>1, WindowTyped DEF AlertsInv
  <2>3. \A s \in Previous(w, e.rule) : logged[i].at > s.last
    <3>1. SUFFICES ASSUME NEW s \in Previous(w, e.rule) PROVE logged[i].at > s.last
        OBVIOUS
    <3>2. s \in detector[w].seen /\ s.rule = e.rule
        BY DEF Previous
    <3>3. PICK b \in alerts : SeenAs(w, b, s)
        BY <1>1, <3>2 DEF AlertsInv, SeesTheAlerts
    <3>4. b.rule = e.rule /\ b.last = s.last
        BY <3>2, <3>3 DEF SeenAs, SameAlert
    <3>5. b.last \in Nat
        BY HoursAreNumbers DEF AlertsInv, AlertsTypeOK, Alert
    <3> QED BY <1>2, <1>3, <1>6, <2>1, <3>4, <3>5
  <2> QED BY <1>1, <1>2, <1>6, <2>2, <2>3, PromptIsFresh
<1>7. \A i \in Ids : (/\ Prompt(i) /\ Concerns(e.rule, i)
                       /\ e.first <= logged[i].at /\ logged[i].at <= e.last) => i \in e.counted
    BY <1>6
<1>8. \A i \in e.counted : e.first <= logged[i].at /\ logged[i].at <= e.last
    BY <1>2
<1>9. e.id < rounds' /\ e.open /\ e.first <= e.last /\ e.eventCount = Cardinality(e.counted)
    BY <1>1, <1>2
<1> QED BY <1>1, <1>4, <1>5, <1>7, <1>8, <1>9 DEF Sound, Prompt, Concerns

LEMMA WrittenApart ==
    ASSUME AlertsInv, NEW w \in Detectors, WriteAlerts(w)
    PROVE  AlertsApart'
<1>1. detector[w].pc = "write"
    BY DEF WriteAlerts
<1>2. \A b \in alerts : b \in Alert /\ Sound(b)
    BY DEF AlertsInv, AlertsTypeOK, AlertsSound
<1> DEFINE Apart(d, e) == d.id # e.id /\ (d.last < e.first \/ e.last < d.first)
\* An alert that is kept and one that is not.
<1>3. ASSUME NEW d, NEW e, Kept(w, d), NEW p \in alerts, ExtendedFrom(w, e, p), d.rule = e.rule
      PROVE  Apart(d, e)
  <2>1. e.id = p.id /\ e.rule = p.rule /\ e.first = p.first
    BY <1>1, <1>3, ExtendedAlert
  <2>2. d # p
    BY <1>2, <1>3 DEF Kept, ExtendedFrom, SeenAs, Alert
  <2>3. d.last < p.first /\ d.id # p.id
    BY <1>3, <2>1, <2>2 DEF Kept, ExtendedFrom, AlertsInv, AlertsApart
  <2> QED BY <2>1, <2>3
<1>4. ASSUME NEW d, NEW e, Kept(w, d), Created(w, e), d.rule = e.rule
      PROVE  Apart(d, e)
  <2>1. d.last < e.first /\ e.id = rounds
    BY <1>1, <1>4, CreatedAlert DEF Kept
  <2>2. d.id < rounds /\ d.id \in Nat /\ rounds \in Nat
    BY <1>2, <1>4 DEF Kept, Sound, Alert, AlertsInv, AlertsTypeOK
  <2> QED BY <2>1, <2>2
<1>5. ASSUME NEW d, NEW e, NEW p \in alerts, ExtendedFrom(w, d, p), Created(w, e), d.rule = e.rule
      PROVE  FALSE
  <2>1. d.rule = p.rule
    BY <1>1, <1>5, ExtendedAlert
  <2> QED BY <1>5, <2>1 DEF ExtendedFrom, Created
<1>6. ASSUME NEW d, NEW e, NEW p \in alerts, NEW q \in alerts, ExtendedFrom(w, d, p),
             ExtendedFrom(w, e, q), d.rule = e.rule
      PROVE  d = e
  <2>1. d.rule = p.rule /\ e.rule = q.rule
    BY <1>1, <1>6, ExtendedAlert
  <2>2. ASSUME p # q PROVE FALSE
    <3>1. q.last < p.first /\ p.last < q.first
        BY <1>6, <2>1, <2>2 DEF ExtendedFrom
    <3>2. p.first <= p.last /\ q.first <= q.last
        BY <1>2 DEF Sound
    <3>3. p.first \in Nat /\ p.last \in Nat /\ q.first \in Nat /\ q.last \in Nat
        BY <1>2, HoursAreNumbers DEF Alert
    <3> QED BY <3>1, <3>2, <3>3
  <2> QED BY <1>6, <2>2 DEF ExtendedFrom
<1>7. ASSUME NEW d \in alerts', NEW e \in alerts', d.rule = e.rule, d # e
      PROVE  Apart(d, e)
  <2>1. Kept(w, d) \/ (\E p \in alerts : ExtendedFrom(w, d, p)) \/ Created(w, d)
    BY Written
  <2>2. Kept(w, e) \/ (\E q \in alerts : ExtendedFrom(w, e, q)) \/ Created(w, e)
    BY Written
  <2>3. Kept(w, d) /\ Kept(w, e) => Apart(d, e)
    BY <1>7 DEF Kept, AlertsInv, AlertsApart
  <2>4. Created(w, d) /\ Created(w, e) => d = e
    BY <1>7 DEF Created
  <2>5. Apart(e, d) => Apart(d, e)
    OBVIOUS
  <2> HIDE DEF Apart
  <2> QED BY <1>3, <1>4, <1>5, <1>6, <1>7, <2>1, <2>2, <2>3, <2>4, <2>5
<1> QED BY <1>7 DEF AlertsApart

LEMMA WriteKeepsInv ==
    ASSUME AlertsInv, NEW w \in Detectors, WriteAlerts(w)
    PROVE  AlertsInv'
<1>1. /\ detector[w].pc = "write" /\ UNCHANGED <<hour, logged>> /\ rounds' \in {rounds, rounds + 1}
      /\ detector' = [detector EXCEPT ![w] = Resting]
    BY DEF WriteAlerts
<1>2. AlertsTypeOK'
  <2>1. alerts' \in SUBSET Alert
    <3>1. SUFFICES ASSUME NEW e \in alerts' PROVE e \in Alert
        OBVIOUS
    <3>2. Kept(w, e) => e \in Alert
        BY DEF Kept, AlertsInv, AlertsTypeOK
    <3> QED BY <1>1, <3>2, Written, ExtendedAlert, CreatedAlert
  <2>2. Resting \in Detector
    BY AlertBounds DEF Resting, Detector, Hours
  <2>3. detector' \in [Detectors -> Detector]
    BY <1>1, <2>2 DEF AlertsInv, AlertsTypeOK
  <2> QED BY <1>1, <2>1, <2>3 DEF AlertsInv, AlertsTypeOK
<1>3. \A v \in Detectors : v # w => detector'[v] = detector[v] /\ ~Reading(v)
    BY <1>1 DEF AlertsInv, OneReads, Reading, AlertsTypeOK
<1>4. detector'[w] = Resting
    BY <1>1 DEF AlertsInv, AlertsTypeOK
<1>5. LogMakesSense'
    BY <1>1 DEF AlertsInv, LogMakesSense
<1>6. \A v \in Detectors : ~Reading(v)'
    BY <1>3, <1>4 DEF Reading, Resting
<1>7. OneReads'
    BY <1>6 DEF OneReads
<1>8. ReadsArePrompt'
  <2>1. \A v \in Detectors : detector'[v].now <= hour
    BY <1>3, <1>4, HoursAreNumbers DEF AlertsInv, AlertsTypeOK, ReadsArePrompt, Resting
  <2> QED BY <1>1, <1>6, <2>1 DEF ReadsArePrompt
<1>9. SeesTheAlerts'
    BY <1>6 DEF SeesTheAlerts, Reading
<1>10. AlertsSound'
  <2>1. SUFFICES ASSUME NEW e \in alerts' PROVE Sound(e)'
    BY DEF AlertsSound
  <2> QED BY Written, KeptStaysSound, ExtendedIsSound, CreatedIsSound DEF Kept
<1> QED BY <1>2, <1>5, <1>7, <1>8, <1>9, <1>10, WrittenApart DEF AlertsInv
-----------------------------------------------------------------------------
(* The clock and the log.                                                   *)

\* Time passes, events happen or get their outcome: what gets it in time is later than
\* anything that has been counted or read.
LogGrows ==
    /\ UNCHANGED <<alerts, rounds, detector>>
    /\ hour' \in Hours /\ hour <= hour'
    /\ logged' \in [Ids -> LogEntry \cup {Unset}]
    /\ \A i \in Ids : logged[i] # Unset =>
          logged'[i] # Unset /\ logged'[i].at = logged[i].at /\ logged'[i].kind = logged[i].kind
    /\ \A i \in Ids : logged'[i] # Unset =>
          /\ logged'[i].at <= hour' /\ (logged'[i].prompt => logged'[i].known)
          /\ logged'[i].prompt => Prompt(i) \/ logged'[i].at > hour - Settle

LEMMA GrowingKeepsInv == ASSUME AlertsInv, LogGrows PROVE AlertsInv'
<1>1. AlertsTypeOK' /\ AlertsTypeOK
    BY DEF AlertsInv, AlertsTypeOK, LogGrows
<1>2. hour \in Nat /\ hour' \in Nat /\ hour <= hour' /\ Settle \in Nat
    BY <1>1, HoursAreNumbers, AlertBounds DEF AlertsTypeOK, LogGrows
<1>3. LogMakesSense'
    BY DEF LogMakesSense, LogGrows
<1>4. OneReads'
    BY DEF AlertsInv, OneReads, Reading, LogGrows
<1>5. \A w \in Detectors : Since(w)' = Since(w) /\ Until(w)' = Until(w)
    BY DEF LogGrows, Since, Until
<1>6. \A i \in Ids : logged'[i] # Unset => logged'[i].at \in Nat
    BY <1>1, HoursAreNumbers DEF AlertsTypeOK, LogEntry
<1>7. ReadsArePrompt'
  <2>1. SUFFICES ASSUME NEW w \in Detectors
                 PROVE  /\ detector[w].now <= hour'
                        /\ Reading(w)' =>
                             /\ \A i \in detector[w].events : logged'[i] # Unset /\ InWindow(w, i)'
                             /\ \A i \in Ids : Prompt(i)' /\ InWindow(w, i)' => i \in detector[w].events
    BY DEF ReadsArePrompt, LogGrows
  <2>2. detector[w].now \in Nat /\ detector[w].events \subseteq Ids /\ detector[w].now <= hour
    BY <1>1, HoursAreNumbers DEF AlertsTypeOK, Detector, AlertsInv, ReadsArePrompt
  <2>3. Until(w) \in Int /\ Until(w) <= hour - Settle
    BY <1>2, <2>2 DEF Until
  <2>4. Reading(w)' = Reading(w)
    BY DEF Reading, LogGrows
  <2>5. ASSUME Reading(w), NEW i \in detector[w].events
        PROVE  logged'[i] # Unset /\ InWindow(w, i)'
    <3>1. i \in Ids /\ logged[i] # Unset /\ InWindow(w, i)
        BY <2>2, <2>5 DEF AlertsInv, ReadsArePrompt
    <3> QED BY <1>5, <3>1 DEF InWindow, LogGrows
  <2>6. ASSUME Reading(w), NEW i \in Ids, Prompt(i)', InWindow(w, i)'
        PROVE  i \in detector[w].events
    <3>1. logged'[i] # Unset /\ logged'[i].prompt /\ logged'[i].at <= Until(w)
        BY <1>5, <2>6 DEF Prompt, InWindow
    <3>2. ~(logged'[i].at > hour - Settle)
        BY <1>2, <1>6, <2>3, <3>1
    <3>3. Prompt(i)
        BY <3>1, <3>2 DEF LogGrows
    <3>4. InWindow(w, i)
        BY <1>5, <2>6, <3>3 DEF InWindow, Prompt, LogGrows
    <3> QED BY <2>6, <3>3, <3>4 DEF AlertsInv, ReadsArePrompt
  <2> QED BY <1>2, <2>2, <2>4, <2>5, <2>6
<1>8. SeesTheAlerts'
    BY <1>5 DEF AlertsInv, SeesTheAlerts, SeenAs, LogGrows
<1>9. AlertsSound'
  <2>1. SUFFICES ASSUME NEW a \in alerts PROVE Sound(a)'
    BY DEF AlertsSound, LogGrows
  <2>2. Sound(a) /\ a.counted \subseteq Ids /\ a.first \in Nat /\ a.last \in Nat
    BY <1>1, HoursAreNumbers DEF AlertsInv, AlertsSound, AlertsTypeOK, Alert
  <2>3. a.last <= hour' - Settle
    BY <1>2, <2>2 DEF Sound
  <2>4. ASSUME NEW i \in Ids, Prompt(i)', Concerns(a.rule, i)',
               a.first <= logged'[i].at, logged'[i].at <= a.last
        PROVE  i \in a.counted
    <3>1. logged'[i] # Unset /\ logged'[i].prompt
        BY <2>4 DEF Prompt
    <3>2. ~(logged'[i].at > hour - Settle)
        BY <1>2, <1>6, <2>2, <2>4, <3>1 DEF Sound
    <3>3. Prompt(i)
        BY <3>1, <3>2 DEF LogGrows
    <3>4. logged[i].at = logged'[i].at /\ Concerns(a.rule, i)
        BY <2>4, <3>3 DEF Concerns, Prompt, LogGrows
    <3> QED BY <2>2, <2>4, <3>3, <3>4 DEF Sound
  <2>5. \A i \in a.counted : logged'[i] # Unset /\ logged'[i].at = logged[i].at
    BY <2>2 DEF Sound, LogGrows
  <2>6. rounds' = rounds
    BY DEF LogGrows
  <2> QED BY <2>2, <2>3, <2>4, <2>5, <2>6 DEF Sound
<1>10. AlertsApart'
    BY DEF AlertsInv, AlertsApart, LogGrows
<1> QED BY <1>1, <1>3, <1>4, <1>7, <1>8, <1>9, <1>10 DEF AlertsInv

LEMMA TimeGrows == ASSUME AlertsInv, HourPasses PROVE LogGrows
<1>1. hour \in Nat /\ hour' = hour + 1 /\ hour' \in Hours /\ UNCHANGED <<logged, alerts, rounds, detector>>
    BY AlertBounds DEF AlertsInv, AlertsTypeOK, HourPasses, Hours
<1>2. \A i \in Ids : logged[i] # Unset => logged[i].at <= hour'
  <2>1. SUFFICES ASSUME NEW i \in Ids, logged[i] # Unset PROVE logged[i].at <= hour'
    OBVIOUS
  <2>2. logged[i].at \in Nat /\ logged[i].at <= hour
    BY <2>1, LoggedAt, HoursAreNumbers DEF AlertsInv, LogMakesSense
  <2> QED BY <1>1, <2>2
<1> QED BY <1>1, <1>2 DEF AlertsInv, AlertsTypeOK, LogMakesSense, LogGrows, Prompt

LEMMA HappenGrows ==
    ASSUME AlertsInv, NEW i \in Ids, NEW k \in Kinds, NEW known \in BOOLEAN, Happen(i, k, known)
    PROVE  LogGrows
<1> DEFINE entry == [at |-> hour, kind |-> k, known |-> known, prompt |-> known /\ Settle > 0]
<1>1. /\ logged[i] = Unset /\ logged' = [logged EXCEPT ![i] = entry]
      /\ UNCHANGED <<hour, alerts, rounds, detector>>
    BY DEF Happen
<1>2. hour \in Hours /\ hour \in Nat /\ Settle \in Nat /\ logged \in [Ids -> LogEntry \cup {Unset}]
    BY HoursAreNumbers, AlertBounds DEF AlertsInv, AlertsTypeOK
<1>3. entry \in LogEntry /\ entry # Unset
  <2>1. entry \in LogEntry
    BY <1>2 DEF LogEntry
  <2> QED BY <2>1, UnsetAssumption
<1>4. entry.prompt => hour > hour - Settle
  <2>1. entry.prompt => Settle > 0
    OBVIOUS
  <2>2. Settle > 0 => hour > hour - Settle
    BY <1>2
  <2> QED BY <2>1, <2>2
<1>5. logged'[i] = entry /\ \A j \in Ids : j # i => logged'[j] = logged[j]
    BY <1>1, <1>2
<1>6. logged' \in [Ids -> LogEntry \cup {Unset}]
    BY <1>1, <1>2, <1>3
<1>7. entry.at = hour /\ (entry.prompt => entry.known)
    OBVIOUS
<1> HIDE DEF entry
<1> QED BY <1>1, <1>2, <1>4, <1>5, <1>6, <1>7 DEF LogGrows, Prompt, AlertsInv, LogMakesSense

LEMMA FinishedEntry ==
    ASSUME NEW e \in LogEntry, NEW prompt \in BOOLEAN
    PROVE  LET f == [e EXCEPT !.known = TRUE, !.prompt = prompt]
           IN  f \in LogEntry /\ f.at = e.at /\ f.kind = e.kind /\ f.prompt = prompt /\ f.known
<1>1. PICK known \in BOOLEAN : known = TRUE
    OBVIOUS
<1>2. LET f == [e EXCEPT !.known = known, !.prompt = prompt]
      IN  f \in LogEntry /\ f.at = e.at /\ f.kind = e.kind /\ f.prompt = prompt /\ f.known = known
    BY DEF LogEntry
<1> QED BY <1>1, <1>2

LEMMA FinishGrows ==
    ASSUME AlertsInv, NEW i \in Ids, Finish(i)
    PROVE  LogGrows
<1> DEFINE entry == [logged[i] EXCEPT !.known = TRUE, !.prompt = hour < logged[i].at + Settle]
<1>1. /\ logged[i] # Unset /\ logged' = [logged EXCEPT ![i] = entry]
      /\ UNCHANGED <<hour, alerts, rounds, detector>>
    BY DEF Finish
<1>2. hour \in Hours /\ hour \in Nat /\ Settle \in Nat /\ logged \in [Ids -> LogEntry \cup {Unset}]
    BY HoursAreNumbers, AlertBounds DEF AlertsInv, AlertsTypeOK
<1>3. logged[i] \in LogEntry /\ logged[i].at \in Nat /\ logged[i].at <= hour
    BY <1>1, LoggedAt, HoursAreNumbers DEF AlertsInv, LogMakesSense
<1>4. /\ entry \in LogEntry /\ entry # Unset /\ entry.at = logged[i].at /\ entry.kind = logged[i].kind
      /\ entry.known
      /\ entry.prompt <=> hour < logged[i].at + Settle
  <2>1. (hour < logged[i].at + Settle) \in BOOLEAN
    OBVIOUS
  <2>2. entry \in LogEntry /\ entry.at = logged[i].at /\ entry.kind = logged[i].kind
        /\ entry.prompt = (hour < logged[i].at + Settle) /\ entry.known
    BY <1>3, <2>1, FinishedEntry
  <2>3. entry # Unset
    BY <2>2, UnsetAssumption
  <2> HIDE DEF entry
  <2> QED BY <2>2, <2>3
<1>5. logged'[i] = entry /\ \A j \in Ids : j # i => logged'[j] = logged[j]
    BY <1>1, <1>2
<1>6. logged' \in [Ids -> LogEntry \cup {Unset}]
    BY <1>1, <1>2, <1>4
<1>7. entry.prompt => entry.at > hour - Settle
    BY <1>2, <1>3, <1>4
<1> HIDE DEF entry
<1> QED BY <1>1, <1>2, <1>3, <1>4, <1>5, <1>6, <1>7 DEF LogGrows, Prompt, AlertsInv, LogMakesSense
-----------------------------------------------------------------------------
(* The runs up to their commit.                                             *)

\* What the invariants say of one run.
ReadsPromptly(w) ==
    /\ detector[w].now <= hour
    /\ Reading(w) =>
         /\ \A i \in detector[w].events : logged[i] # Unset /\ InWindow(w, i)
         /\ \A i \in Ids : Prompt(i) /\ InWindow(w, i) => i \in detector[w].events
SeesAlerts(w) == detector[w].pc = "write" =>
    /\ \A s \in detector[w].seen : s.last > Since(w) /\ \E a \in alerts : SeenAs(w, a, s)
    /\ \A a \in alerts : a.last > Since(w) => \E s \in detector[w].seen : SeenAs(w, a, s)

LEMMA RunKeepsInv ==
    ASSUME AlertsInv, NEW w \in Detectors, NEW d \in Detector,
           detector' = [detector EXCEPT ![w] = d], UNCHANGED <<hour, logged, alerts, rounds>>,
           d.pc \in {"alerts", "write"} => \A v \in Detectors : v # w => ~Reading(v),
           ReadsPromptly(w)', SeesAlerts(w)'
    PROVE  AlertsInv'
<1>1. AlertsTypeOK'
    BY DEF AlertsInv, AlertsTypeOK
<1>2. \A v \in Detectors : v # w => detector'[v] = detector[v]
    BY DEF AlertsInv, AlertsTypeOK
<1>3. detector'[w] = d
    BY DEF AlertsInv, AlertsTypeOK
<1>4. LogMakesSense'
    BY DEF AlertsInv, LogMakesSense
<1>5. OneReads'
    BY <1>2, <1>3 DEF AlertsInv, OneReads, Reading
<1>6. ReadsArePrompt'
  <2>1. \A v \in Detectors : v # w => ReadsPromptly(v)'
    BY <1>2 DEF AlertsInv, ReadsArePrompt, ReadsPromptly, Reading, Prompt, InWindow, Since, Until
  <2> QED BY <2>1 DEF ReadsArePrompt, ReadsPromptly
<1>7. SeesTheAlerts'
  <2>1. \A v \in Detectors : v # w => SeesAlerts(v)'
    BY <1>2 DEF AlertsInv, SeesTheAlerts, SeesAlerts, SeenAs, Since, Until
  <2> QED BY <2>1 DEF SeesTheAlerts, SeesAlerts
<1>8. AlertsSound'
    BY DEF AlertsInv, AlertsSound, Sound, Prompt, Concerns
<1>9. AlertsApart'
    BY DEF AlertsInv, AlertsApart
<1> QED BY <1>1, <1>4, <1>5, <1>6, <1>7, <1>8, <1>9 DEF AlertsInv

LEMMA RestingKeepsInv ==
    ASSUME AlertsInv, NEW w \in Detectors, detector' = [detector EXCEPT ![w] = Resting],
           UNCHANGED <<hour, logged, alerts, rounds>>
    PROVE  AlertsInv'
<1>1. Resting \in Detector
    BY AlertBounds DEF Resting, Detector, Hours
<1>2. detector'[w] = Resting
    BY DEF AlertsInv, AlertsTypeOK
<1>3. Resting.pc \notin {"alerts", "write"} /\ Resting.now <= hour
    BY HoursAreNumbers DEF Resting, AlertsInv, AlertsTypeOK
<1>4. ReadsPromptly(w)' /\ SeesAlerts(w)'
    BY <1>2, <1>3 DEF ReadsPromptly, SeesAlerts, Reading
<1> QED BY <1>1, <1>3, <1>4, RunKeepsInv

LEMMA WakeKeepsInv == ASSUME AlertsInv, NEW w \in Detectors, Wake(w) PROVE AlertsInv'
<1> DEFINE d == [detector[w] EXCEPT !.pc = "lock", !.now = hour]
<1>1. detector[w] \in Detector /\ hour \in Hours /\ hour \in Nat
    BY HoursAreNumbers DEF AlertsInv, AlertsTypeOK
<1>2. d \in Detector /\ d.pc = "lock" /\ d.now = hour
    BY <1>1 DEF Detector
<1>3. detector' = [detector EXCEPT ![w] = d] /\ UNCHANGED <<hour, logged, alerts, rounds>>
    BY DEF Wake
<1>4. detector'[w] = d
    BY <1>3 DEF AlertsInv, AlertsTypeOK
<1> HIDE DEF d
<1>5. ReadsPromptly(w)' /\ SeesAlerts(w)'
    BY <1>1, <1>2, <1>3, <1>4 DEF ReadsPromptly, SeesAlerts, Reading
<1> QED BY <1>2, <1>3, <1>5, RunKeepsInv

LEMMA ReadEventsKeepsInv == ASSUME AlertsInv, NEW w \in Detectors, ReadEvents(w) PROVE AlertsInv'
<1> DEFINE read == {i \in Ids : logged[i] # Unset /\ logged[i].known /\ InWindow(w, i)}
           d == [detector[w] EXCEPT !.pc = "alerts", !.events = read]
<1>1. detector[w] \in Detector
    BY DEF AlertsInv, AlertsTypeOK
<1>2. UNCHANGED <<hour, logged, alerts, rounds>>
    BY DEF ReadEvents
<1>3. CASE MayDetect
  <2>1. read \in SUBSET Ids
    OBVIOUS
  <2>2. d \in Detector /\ d.pc = "alerts" /\ d.events = read /\ d.now = detector[w].now
    BY <1>1, <2>1 DEF Detector
  <2>3. detector' = [detector EXCEPT ![w] = d]
    BY <1>3 DEF ReadEvents
  <2>4. detector'[w] = d
    BY <2>3 DEF AlertsInv, AlertsTypeOK
  <2>5. \A v \in Detectors : ~Reading(v)
    BY <1>3 DEF MayDetect, Reading
  <2>6. \A i \in Ids : Prompt(i) /\ InWindow(w, i) => i \in read
    BY DEF AlertsInv, LogMakesSense, Prompt
  <2>7. \A i \in read : logged[i] # Unset /\ InWindow(w, i)
    OBVIOUS
  <2> HIDE DEF d, read
  <2>8. \A i \in Ids : InWindow(w, i)' = InWindow(w, i) /\ Prompt(i)' = Prompt(i)
    BY <1>2, <2>2, <2>4 DEF InWindow, Since, Until, Prompt
  <2>9. read \subseteq Ids
    BY <2>1
  <2>10. ReadsPromptly(w)' /\ SeesAlerts(w)'
    BY <1>2, <2>2, <2>4, <2>6, <2>7, <2>8, <2>9 DEF ReadsPromptly, SeesAlerts, AlertsInv, ReadsArePrompt
  <2> QED BY <1>2, <2>2, <2>3, <2>5, <2>10, RunKeepsInv
<1>4. CASE ~MayDetect
  <2>1. detector' = [detector EXCEPT ![w] = Resting]
    BY <1>4 DEF ReadEvents
  <2> QED BY <1>2, <2>1, RestingKeepsInv
<1> QED BY <1>3, <1>4

LEMMA ReadAlertsKeepsInv == ASSUME AlertsInv, NEW w \in Detectors, ReadAlerts(w) PROVE AlertsInv'
<1> DEFINE seen == {a \in alerts : a.last > Since(w)}
           d == [detector[w] EXCEPT !.pc = "write", !.seen = seen]
<1>1. detector[w] \in Detector /\ detector[w].pc = "alerts" /\ alerts \in SUBSET Alert
    BY DEF AlertsInv, AlertsTypeOK, ReadAlerts
<1>2. UNCHANGED <<hour, logged, alerts, rounds>> /\ detector' = [detector EXCEPT ![w] = d]
    BY DEF ReadAlerts
<1>3. seen \in SUBSET Alert
    BY <1>1
<1>4. d \in Detector /\ d.pc = "write" /\ d.seen = seen /\ d.now = detector[w].now /\ d.events = detector[w].events
    BY <1>1, <1>3 DEF Detector
<1>5. detector'[w] = d
    BY <1>2 DEF AlertsInv, AlertsTypeOK
<1>6. \A v \in Detectors : v # w => ~Reading(v)
    BY <1>1 DEF AlertsInv, OneReads, Reading
<1> HIDE DEF d
<1>7. Since(w)' = Since(w) /\ \A i \in Ids : InWindow(w, i)' = InWindow(w, i) /\ Prompt(i)' = Prompt(i)
    BY <1>2, <1>4, <1>5 DEF InWindow, Since, Until, Prompt
<1>8. ReadsPromptly(w)'
  <2>1. ReadsPromptly(w) /\ Reading(w) /\ detector[w].events \subseteq Ids
    BY <1>1 DEF AlertsInv, ReadsArePrompt, ReadsPromptly, Reading, Detector
  <2> QED BY <1>2, <1>4, <1>5, <1>7, <2>1 DEF ReadsPromptly
<1>9. SeesAlerts(w)'
  <2>1. \A a \in alerts : SeenAs(w, a, a)'
    BY DEF SeenAs, SameAlert
  <2> QED BY <1>2, <1>4, <1>5, <1>7, <2>1 DEF SeesAlerts
<1> QED BY <1>2, <1>4, <1>6, <1>8, <1>9, RunKeepsInv
-----------------------------------------------------------------------------
(* An alert is resolved.                                                    *)

LEMMA ResolveKeepsInv == ASSUME AlertsInv, NEW a \in alerts, Resolve(a) PROVE AlertsInv'
<1> DEFINE happened == {i \in Ids : logged[i] # Unset}
           r == [a EXCEPT !.open = FALSE, !.before = happened]
<1>1. /\ alerts' = (alerts \ {a}) \cup {r} /\ a.open
      /\ UNCHANGED <<hour, logged, rounds, detector>>
    BY DEF Resolve
<1>2. /\ r \in Alert /\ r.id = a.id /\ r.rule = a.rule /\ r.eventCount = a.eventCount
      /\ r.first = a.first /\ r.last = a.last /\ r.counted = a.counted
      /\ ~r.open /\ r.before = happened
  <2>1. a \in Alert /\ happened \in SUBSET Ids
    BY DEF AlertsInv, AlertsTypeOK
  <2>2. PICK open \in BOOLEAN : open = FALSE
    OBVIOUS
  <2>3. LET e == [a EXCEPT !.open = open, !.before = happened]
        IN  /\ e \in Alert /\ e.id = a.id /\ e.rule = a.rule /\ e.eventCount = a.eventCount
            /\ e.first = a.first /\ e.last = a.last /\ e.counted = a.counted
            /\ e.open = open /\ e.before = happened
    BY <2>1 DEF Alert
  <2> QED BY <2>2, <2>3
<1>3. happened \subseteq Ids /\ \A i \in Ids : logged[i] # Unset => i \in happened
    OBVIOUS
<1> HIDE DEF r, happened
<1>4. AlertsTypeOK'
    BY <1>1, <1>2 DEF AlertsInv, AlertsTypeOK
<1>5. LogMakesSense' /\ OneReads' /\ ReadsArePrompt'
    BY <1>1 DEF AlertsInv, LogMakesSense, OneReads, ReadsArePrompt, Reading, Prompt, InWindow, Since, Until
<1>6. AlertsSound'
  <2>1. SUFFICES ASSUME NEW e \in alerts' PROVE Sound(e)'
    BY DEF AlertsSound
  <2>2. CASE e \in alerts
    BY <1>1, <2>2 DEF AlertsInv, AlertsSound, Sound, Prompt, Concerns
  <2>3. CASE e = r
    <3>1. Sound(a) /\ a.counted \subseteq Ids
        BY DEF AlertsInv, AlertsSound, AlertsTypeOK, Alert
    <3>2. r.counted \subseteq r.before
        BY <1>2, <1>3, <3>1 DEF Sound
    <3> QED BY <1>1, <1>2, <2>3, <3>1, <3>2 DEF Sound, Prompt, Concerns
  <2> QED BY <1>1, <2>1, <2>2, <2>3
<1>7. AlertsApart'
    BY <1>1, <1>2 DEF AlertsInv, AlertsApart
<1>8. SeesTheAlerts'
  <2>1. SUFFICES ASSUME NEW w \in Detectors, detector[w].pc = "write"
                 PROVE  /\ \A s \in detector[w].seen : s.last > Since(w) /\ \E e \in alerts' : SeenAs(w, e, s)
                        /\ \A e \in alerts' : e.last > Since(w) => \E s \in detector[w].seen : SeenAs(w, e, s)
    BY <1>1 DEF SeesTheAlerts, SeenAs, Since, Until
  <2>2. detector[w].events \subseteq happened
    BY <1>3, <2>1 DEF AlertsInv, ReadsArePrompt, Reading, AlertsTypeOK, Detector
  <2>3. \A s \in detector[w].seen : SeenAs(w, a, s) => SeenAs(w, r, s)
    BY <1>1, <1>2, <2>2 DEF SeenAs, SameAlert
  <2>4. r \in alerts' /\ \A e \in alerts : e # a => e \in alerts'
    BY <1>1
  <2>5. \A s \in detector[w].seen : s.last > Since(w) /\ \E e \in alerts : SeenAs(w, e, s)
    BY <2>1 DEF AlertsInv, SeesTheAlerts
  <2>6. \A e \in alerts : e.last > Since(w) => \E s \in detector[w].seen : SeenAs(w, e, s)
    BY <2>1 DEF AlertsInv, SeesTheAlerts
  <2>7. \A s \in detector[w].seen : \E e \in alerts' : SeenAs(w, e, s)
    BY <2>3, <2>4, <2>5
  <2>8. \A e \in alerts' : e.last > Since(w) => \E s \in detector[w].seen : SeenAs(w, e, s)
    <3>1. SUFFICES ASSUME NEW e \in alerts', e.last > Since(w)
                   PROVE  \E s \in detector[w].seen : SeenAs(w, e, s)
        OBVIOUS
    <3>2. CASE e \in alerts
        BY <2>6, <3>1, <3>2
    <3>3. CASE e = r
        BY <1>2, <2>3, <2>6, <3>1, <3>3
    <3> QED BY <1>1, <3>2, <3>3
  <2> QED BY <2>5, <2>7, <2>8
<1> QED BY <1>4, <1>5, <1>6, <1>7, <1>8 DEF AlertsInv

-----------------------------------------------------------------------------
(* The theorems.                                                            *)

LEMMA InitIsInv == AlertsInit => AlertsInv
<1> SUFFICES ASSUME AlertsInit PROVE AlertsInv
    OBVIOUS
<1>1. 0 \in Hours
    BY AlertBounds DEF Hours
<1>2. Resting \in Detector /\ ~(Resting.pc \in {"alerts", "write"}) /\ Resting.now = 0
    BY <1>1 DEF Resting, Detector
<1>3. AlertsTypeOK
    BY <1>1, <1>2 DEF AlertsInit, AlertsTypeOK
<1>4. LogMakesSense
    BY DEF AlertsInit, LogMakesSense
<1>5. \A w \in Detectors : ~Reading(w) /\ detector[w].now <= hour
    BY <1>2 DEF AlertsInit, Reading
<1>6. OneReads /\ ReadsArePrompt /\ SeesTheAlerts
    BY <1>5 DEF OneReads, ReadsArePrompt, SeesTheAlerts, Reading
<1>7. AlertsSound /\ AlertsApart
    BY DEF AlertsInit, AlertsSound, AlertsApart
<1> QED BY <1>3, <1>4, <1>6, <1>7 DEF AlertsInv

LEMMA StepKeepsInv == AlertsInv /\ [AlertsNext]_alertVars => AlertsInv'
<1> SUFFICES ASSUME AlertsInv, [AlertsNext]_alertVars PROVE AlertsInv'
    OBVIOUS
<1>1. CASE HourPasses
    BY <1>1, TimeGrows, GrowingKeepsInv
<1>2. ASSUME NEW i \in Ids, Finish(i) PROVE AlertsInv'
    BY <1>2, FinishGrows, GrowingKeepsInv
<1>3. ASSUME NEW i \in Ids, NEW k \in Kinds, NEW known \in BOOLEAN, Happen(i, k, known) PROVE AlertsInv'
    BY <1>3, HappenGrows, GrowingKeepsInv
<1>4. ASSUME NEW w \in Detectors, Wake(w) PROVE AlertsInv'
    BY <1>4, WakeKeepsInv
<1>5. ASSUME NEW w \in Detectors, ReadEvents(w) PROVE AlertsInv'
    BY <1>5, ReadEventsKeepsInv
<1>6. ASSUME NEW w \in Detectors, ReadAlerts(w) PROVE AlertsInv'
    BY <1>6, ReadAlertsKeepsInv
<1>7. ASSUME NEW w \in Detectors, WriteAlerts(w) PROVE AlertsInv'
    BY <1>7, WriteKeepsInv
<1>8. ASSUME NEW w \in Detectors, RollBack(w) PROVE AlertsInv'
    BY <1>8, RestingKeepsInv DEF RollBack
<1>9. ASSUME NEW a \in alerts, Resolve(a) PROVE AlertsInv'
    BY <1>9, ResolveKeepsInv
<1>10. CASE UNCHANGED alertVars
  <2>1. UNCHANGED <<hour, logged, alerts, rounds, detector>>
    BY <1>10 DEF alertVars
  <2>2. AlertsTypeOK' /\ LogMakesSense' /\ OneReads'
    BY <2>1 DEF AlertsInv, AlertsTypeOK, LogMakesSense, OneReads, Reading
  <2>3. ReadsArePrompt'
    BY <2>1 DEF AlertsInv, ReadsArePrompt, Reading, Prompt, InWindow, Since, Until
  <2>4. SeesTheAlerts'
    BY <2>1 DEF AlertsInv, SeesTheAlerts, SeenAs, Since, Until
  <2>5. AlertsSound' /\ AlertsApart'
    BY <2>1 DEF AlertsInv, AlertsSound, Sound, Prompt, Concerns, AlertsApart
  <2> QED BY <2>2, <2>3, <2>4, <2>5 DEF AlertsInv
<1> QED BY <1>1, <1>2, <1>3, <1>4, <1>5, <1>6, <1>7, <1>8, <1>9, <1>10 DEF AlertsNext

\* The runs, their reads and the alerts stay as described above, in every behaviour.
THEOREM AlertsInvHolds == AlertsSpec => []AlertsInv
<1>1. AlertsInit => AlertsInv
    BY InitIsInv
<1>2. AlertsInv /\ [AlertsNext]_alertVars => AlertsInv'
    BY StepKeepsInv
<1> QED BY <1>1, <1>2, PTL DEF AlertsSpec

LEMMA InvCountsExactly == AlertsInv => AlertsCountExactly
<1> SUFFICES ASSUME AlertsInv, NEW a \in alerts
             PROVE  /\ a.eventCount = Cardinality(a.counted)
                    /\ \A i \in Ids :
                          (/\ logged[i] # Unset /\ logged[i].prompt /\ Concerns(a.rule, i)
                           /\ a.first <= logged[i].at /\ logged[i].at <= a.last) => i \in a.counted
                    /\ \A b \in alerts : (b.rule = a.rule /\ b # a) => a.counted \cap b.counted = {}
    BY DEF AlertsCountExactly
<1>1. Sound(a)
    BY DEF AlertsInv, AlertsSound
<1>2. ASSUME NEW b \in alerts, b.rule = a.rule, b # a, NEW i \in a.counted, i \in b.counted
      PROVE  FALSE
  <2>1. Sound(b) /\ (a.last < b.first \/ b.last < a.first)
    BY <1>2 DEF AlertsInv, AlertsSound, AlertsApart
  <2>2. /\ a.first <= logged[i].at /\ logged[i].at <= a.last
        /\ b.first <= logged[i].at /\ logged[i].at <= b.last
    BY <1>1, <1>2, <2>1 DEF Sound
  <2>3. logged[i] # Unset /\ i \in Ids
    BY <1>1, <1>2 DEF Sound, AlertsInv, AlertsTypeOK, Alert
  <2>4. logged[i].at \in Nat
    BY <2>3, LoggedAt, HoursAreNumbers DEF AlertsInv
  <2>5. a.first \in Nat /\ a.last \in Nat /\ b.first \in Nat /\ b.last \in Nat
    BY HoursAreNumbers DEF AlertsInv, AlertsTypeOK, Alert
  <2> QED BY <2>1, <2>2, <2>4, <2>5
<1> QED BY <1>1, <1>2 DEF Sound, Prompt

\* An alert counts each prompt event between its first and its last once, and two alerts of
\* a rule share none, for any thresholds and any number of overlapping runs
\* (securityAlerts.server.ts lines 82-105, securityAlerts.ts lines 254-303).
THEOREM AlertsCountExactlyHolds == AlertsSpec => []AlertsCountExactly
  BY AlertsInvHolds, InvCountsExactly, PTL

LEMMA InvTakesNothingNew == AlertsInv => ResolvedTakesNothingNew
  BY DEF AlertsInv, AlertsSound, Sound, ResolvedTakesNothingNew

\* A resolved alert has counted only what had happened before (docs/security.md:44-45).
THEOREM ResolvedTakesNothingNewHolds == AlertsSpec => []ResolvedTakesNothingNew
  BY AlertsInvHolds, InvTakesNothingNew, PTL

=============================================================================
