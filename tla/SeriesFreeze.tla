----------------------------- MODULE SeriesFreeze -----------------------------
(***************************************************************************)
(* The freeze of a national series (lib/seriesRanking.server): its row has *)
(* a time and, once somebody has come after that time, a snapshot of the   *)
(* series' competitions.  The snapshot is loaded before it is stored, by   *)
(* queries that run in parallel, and nothing locks the row meanwhile.      *)
(*                                                                         *)
(* The series has one competition: several are loaded by the same queries. *)
(* Its committed results are the number of the `latest' write.            *)
(* Its own freeze (the matter of PublicSnapshots) is in force with its     *)
(* snapshot, `hidden', or it is not.                                       *)
(***************************************************************************)
EXTENDS Naturals

CONSTANTS
    SeriesCallers,  \* requests, public or an administrator's, and the scheduled calls
    LastMoment,     \* bound of the clock
    MaxSaves,       \* bound: how many writes change the results
    MaxLosses,      \* bound: how many requests end in an error
    NoCompetition,  \* the view of a series that shows nothing
    Nothing         \* no freeze, no snapshot, nothing read, no view

Moments == 0..LastMoment
Saves == 0..MaxSaves

ASSUME SeriesBounds == LastMoment \in Nat /\ MaxSaves \in Nat /\ MaxLosses \in Nat

VARIABLES
    moment,         \* the clock
    latest,         \* the committed results of the competition
    series,         \* the freeze in the series' row, if there is one
    hidden,         \* the competition's own freeze, if it is in force
    call,           \* the requests
    losses          \* how many of them failed
seriesVars == <<moment, latest, series, hidden, call, losses>>

\* What a public view shows of the competition: results, or its own frozen standing.
Standing == [of : Saves, own : BOOLEAN]
SeriesView == Standing \cup {NoCompetition}

\* `set' names the freeze, and `due' remembers for a property what had been committed
\* when it came into force.
Freeze == [set : Moments, freezeAt : Moments, taken : Standing \cup {Nothing}, due : Saves]
Call ==
    [pc : {"idle", "view", "ensure", "load", "reread", "done"},
     public : BOOLEAN, at : Moments, for : Moments \cup {Nothing},
     results : Saves \cup {Nothing}, own : {{}} \cup {{v} : v \in Saves} \cup {Nothing},
     view : SeriesView \cup {Nothing}, during : Moments]

ASSUME SeriesSentinels ==
    /\ NoCompetition \notin Standing \cup {Nothing}
    /\ Nothing \notin Moments \cup Saves
    /\ Nothing \notin {{}} \cup {{v} : v \in Saves}
    /\ Nothing \notin Standing \cup Freeze

SeriesTypeOK ==
    /\ moment \in Moments /\ latest \in Saves
    /\ series \in Freeze \cup {Nothing}
    /\ hidden \in [since : Moments, of : Saves] \cup {Nothing}
    /\ call \in [SeriesCallers -> Call]
    /\ losses \in 0..MaxLosses

NoCall == [pc |-> "idle", public |-> FALSE, at |-> 0, for |-> Nothing, results |-> Nothing,
           own |-> Nothing, view |-> Nothing, during |-> 0]

SeriesInit ==
    /\ moment = 0 /\ latest = 0 /\ series = Nothing /\ hidden = Nothing /\ losses = 0
    /\ call = [c \in SeriesCallers |-> NoCall]

SeriesDue(at) == series # Nothing /\ series.freezeAt <= at

-----------------------------------------------------------------------------
(* The clock, the results and the competition's own freeze.                 *)

MomentPasses ==
    /\ moment < LastMoment
    /\ moment' = moment + 1
    /\ series' = IF series # Nothing /\ series.freezeAt = moment + 1
                   THEN [series EXCEPT !.due = latest] ELSE series
    /\ UNCHANGED <<latest, hidden, call, losses>>

SaveResult ==
    /\ latest < MaxSaves
    /\ latest' = latest + 1
    /\ UNCHANGED <<moment, series, hidden, call, losses>>

Hide ==
    /\ hidden = Nothing
    /\ hidden' = [since |-> moment, of |-> latest]
    /\ UNCHANGED <<moment, latest, series, call, losses>>

Unhide ==
    /\ hidden # Nothing
    /\ hidden' = Nothing
    /\ UNCHANGED <<moment, latest, series, call, losses>>

-----------------------------------------------------------------------------
(* The freeze of the series.                                                *)

\* An administrator freezes at once (t = moment + 1) or later, in a millisecond of his own,
\* and at once goes on with the snapshot.
FreezeSeries(c, t) ==
    /\ call[c].pc = "idle" /\ moment < LastMoment /\ t > moment
    /\ moment' = moment + 1
    /\ series' = [set |-> moment + 1, freezeAt |-> t, taken |-> Nothing, due |-> latest]
    /\ call' = [call EXCEPT ![c] = IF t > moment + 1 THEN NoCall
                                   ELSE [NoCall EXCEPT !.pc = "ensure", !.at = moment + 1]]
    /\ UNCHANGED <<latest, hidden, losses>>

RevealSeries ==
    /\ series # Nothing
    /\ series' = Nothing
    /\ UNCHANGED <<moment, latest, hidden, call, losses>>

\* The cron finds the freeze due and without a snapshot.
CronFindsSeries(c) ==
    /\ call[c].pc = "idle" /\ SeriesDue(moment) /\ series.taken = Nothing
    /\ call' = [call EXCEPT ![c] = [NoCall EXCEPT !.pc = "ensure", !.at = moment]]
    /\ UNCHANGED <<moment, latest, series, hidden, losses>>

\* `during' remembers, for the properties, which freeze was in force when the request came.
AskForSeries(c) ==
    /\ call[c].pc = "idle"
    /\ call' = [call EXCEPT ![c] = [NoCall EXCEPT !.pc = "view", !.public = TRUE, !.at = moment,
                                      !.during = IF SeriesDue(moment) THEN series.set ELSE 0]]
    /\ UNCHANGED <<moment, latest, series, hidden, losses>>

\* The public view of a series that is not frozen is loaded live.
LookAtSeries(c) ==
    /\ call[c].pc = "view"
    /\ call' = [call EXCEPT ![c].pc = IF SeriesDue(call[c].at) THEN "ensure" ELSE "load"]
    /\ UNCHANGED <<moment, latest, series, hidden, losses>>

SeriesAnswered(c, v) ==
    call' = [call EXCEPT ![c] = IF call[c].public
        THEN [NoCall EXCEPT !.pc = "done", !.public = TRUE, !.at = call[c].at, !.view = v,
                           !.during = call[c].during]
        ELSE NoCall]

\* ensureSeriesSnapshot reads the row anew: if the freeze has been lifted or postponed
\* the view has no competition, and a snapshot that is there is shown.
EnsureReads(c) ==
    /\ call[c].pc = "ensure"
    /\ IF ~SeriesDue(call[c].at) THEN SeriesAnswered(c, NoCompetition)
       ELSE IF series.taken # Nothing THEN SeriesAnswered(c, series.taken)
       ELSE call' = [call EXCEPT ![c].pc = "load", ![c].for = series.freezeAt]
    /\ UNCHANGED <<moment, latest, series, hidden, losses>>

-----------------------------------------------------------------------------
(* The load: two of its parallel reads, in any order.                       *)

ReadResults(c) ==
    /\ call[c].pc = "load" /\ call[c].results = Nothing
    /\ call' = [call EXCEPT ![c].results = latest]
    /\ UNCHANGED <<moment, latest, series, hidden, losses>>

ReadOwnFreeze(c) ==
    /\ call[c].pc = "load" /\ call[c].own = Nothing
    /\ call' = [call EXCEPT ![c].own =
                  IF hidden # Nothing /\ hidden.since <= call[c].at THEN {hidden.of} ELSE {}]
    /\ UNCHANGED <<moment, latest, series, hidden, losses>>

\* A frozen competition enters with its own snapshot.
Loaded(c) ==
    IF call[c].own = {} THEN [of |-> call[c].results, own |-> FALSE]
    ELSE [of |-> CHOOSE v \in call[c].own : TRUE, own |-> TRUE]
HasLoaded(c) == call[c].pc = "load" /\ call[c].results # Nothing /\ call[c].own # Nothing

ShowLive(c) ==
    /\ HasLoaded(c) /\ call[c].for = Nothing
    /\ SeriesAnswered(c, Loaded(c))
    /\ UNCHANGED <<moment, latest, series, hidden, losses>>

\* Mutant: the write does not ask which freeze the snapshot was loaded for.
MayStoreInAny(c) == series # Nothing /\ series.taken = Nothing

\* The snapshot is stored only in the freeze it was loaded for, and only as the first.
MayStore(c) == series # Nothing /\ series.freezeAt = call[c].for /\ series.taken = Nothing

StoreSnapshot(c) ==
    /\ HasLoaded(c) /\ call[c].for # Nothing
    /\ IF MayStore(c)
         THEN /\ series' = [series EXCEPT !.taken = Loaded(c)]
              /\ SeriesAnswered(c, Loaded(c))
         ELSE /\ call' = [call EXCEPT ![c].pc = "reread"]
              /\ UNCHANGED series
    /\ UNCHANGED <<moment, latest, hidden, losses>>

\* Mutant: who comes second shows what it has loaded itself.
RereadOwnLoad(c) ==
    /\ call[c].pc = "reread"
    /\ SeriesAnswered(c, Loaded(c))
    /\ UNCHANGED <<moment, latest, series, hidden, losses>>

\* Who comes second shows what the first has stored.
RereadSeries(c) ==
    /\ call[c].pc = "reread"
    /\ SeriesAnswered(c, IF series # Nothing /\ series.taken # Nothing THEN series.taken
                         ELSE Loaded(c))
    /\ UNCHANGED <<moment, latest, series, hidden, losses>>

\* The request fails, between any two steps.
Fails(c) ==
    /\ call[c].pc \notin {"idle", "done"} /\ losses < MaxLosses
    /\ losses' = losses + 1
    /\ call' = [call EXCEPT ![c] = NoCall]
    /\ UNCHANGED <<moment, latest, series, hidden>>

-----------------------------------------------------------------------------
SeriesNext ==
    \/ MomentPasses \/ SaveResult \/ Hide \/ Unhide \/ RevealSeries
    \/ \E c \in SeriesCallers :
         \/ CronFindsSeries(c) \/ AskForSeries(c) \/ LookAtSeries(c) \/ EnsureReads(c)
         \/ ReadResults(c) \/ ReadOwnFreeze(c) \/ ShowLive(c) \/ StoreSnapshot(c)
         \/ RereadSeries(c) \/ Fails(c)
         \/ \E t \in Moments : FreezeSeries(c, t)

SeriesSpec == SeriesInit /\ [][SeriesNext]_seriesVars

-----------------------------------------------------------------------------
(* Properties.                                                              *)

ShownNow(c) == call[c].pc # "done" /\ call'[c].pc = "done"
SameFreeze(set) == series # Nothing /\ series.set = set /\ series' # Nothing /\ series'.set = set

\* While a freeze of the series is in force all its public views are one and the same
\* standing, the stored one: whoever loads a snapshot at the same time, and whatever is
\* saved, hidden or shown meanwhile, a request that comes within the freeze and is
\* answered within it never shows another, and the stored one is not replaced.
SeriesStandsStill ==
    [][/\ \A c \in SeriesCallers :
            (ShownNow(c) /\ call[c].during # 0 /\ SameFreeze(call[c].during))
              => (series'.taken # Nothing /\ call'[c].view = series'.taken)
       /\ (series # Nothing /\ series.taken # Nothing /\ SameFreeze(series.set))
              => series'.taken = series.taken]_seriesVars

\* The standing of a frozen series includes every result that was committed when the
\* freeze came into force, unless the competition was hidden itself: a snapshot loaded
\* for an earlier freeze is not stored in a later one.
SnapshotIsOfItsFreeze ==
    (series # Nothing /\ series.taken # Nothing) => (series.taken.own \/ series.taken.of >= series.due)
=============================================================================
