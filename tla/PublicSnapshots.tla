-------------------------- MODULE PublicSnapshots --------------------------
(***************************************************************************)
(* The public leaderboard and overview of one competition: the freeze that *)
(* an organiser sets, the snapshot that the first request after its time   *)
(* (or the cron) stores, and the cache of public views in the memory of    *)
(* each server instance, with loads in flight that race with invalidations.*)
(*                                                                         *)
(* The committed results are a number, `live', that every write increments,*)
(* so that a view is the number it was computed from.  A cached entry that *)
(* has passed its five seconds and one that another competition's views    *)
(* have pushed out of the 64 places are both just gone (Evict).            *)
(***************************************************************************)
EXTENDS Naturals, FiniteSets

CONSTANTS
    Instances,      \* server processes, each with a cache of its own
    Readers,        \* the public requests, each of which comes at most once
    Organizer,      \* the organiser's request
    Crons,          \* the callers that can also be the scheduled call
    MaxNow,         \* bound of the clock
    MaxLive,        \* bound: how many writes change the results
    MaxBreaks,      \* bound: how many requests or instances fail
    None            \* no freeze, no snapshot, no value, no version

Callers == Readers \cup Crons \cup {Organizer}
Time == 0..MaxNow
Versions == 0..MaxLive

ASSUME BoundsAssumption ==
    MaxNow \in Nat /\ MaxLive \in Nat /\ MaxBreaks \in Nat
ASSUME CallersAssumption == Organizer \notin Readers \cup Crons
ASSUME InstancesAssumption == Instances # {}

VARIABLES
    now,            \* the clock
    live,           \* the committed results
    owed,           \* per instance: a committed write whose invalidation is still due
    freeze,         \* the row of the competition's freeze, if there is one
    cache,          \* per instance: the entries of the competition's public view
    req,            \* the requests
    floor,          \* per instance, for a property: the newest results announced there
    breaks          \* how many requests or instances failed
vars == <<now, live, owed, freeze, cache, req, floor, breaks>>

Snapshot == [of : Versions \cup {None}, at : Time]
Seen == [freezeAt : Time, taken : Snapshot \cup {None}]
View == [frozen : BOOLEAN, of : Versions \cup {None}]
ASSUME NoneAssumption == None \notin Readers \cup View
Key == [freezeAt : Time, takenAt : Time] \cup {None}
Entry == [key : Key, load : Readers \cup {None}, view : View \cup {None}]
Row == [set : Time, freezeAt : Time, taken : Snapshot \cup {None}]
Request ==
    [pc : {"idle", "find", "check", "store", "reread", "invalidate",
           "lookup", "load", "settle", "joined", "done"},
     public : BOOLEAN, at : Time, inst : Instances, seen : Seen \cup {None}, of : Versions,
     load : Readers \cup {None}, view : View \cup {None},
     floor : Versions, during : Time]

TypeOK ==
    /\ now \in Time /\ live \in Versions
    /\ owed \in [Instances -> Versions] /\ floor \in [Instances -> Versions]
    /\ freeze \in Row \cup {None}
    /\ cache \in [Instances -> SUBSET Entry]
    /\ req \in [Callers -> Request]
    /\ breaks \in 0..MaxBreaks

\* A caller that does nothing, on an instance of no consequence.
AnyInstance == CHOOSE i \in Instances : TRUE
At(i) == [pc |-> "idle", public |-> FALSE, at |-> 0, inst |-> i, seen |-> None, of |-> 0, load |-> None,
          view |-> None, floor |-> 0, during |-> 0]
Quiet == At(AnyInstance)

Init ==
    /\ now = 0 /\ live = 0 /\ freeze = None /\ breaks = 0
    /\ owed = [i \in Instances |-> 0] /\ floor = [i \in Instances |-> 0]
    /\ cache = [i \in Instances |-> {}]
    /\ req = [c \in Callers |-> Quiet]

Larger(a, b) == IF a > b THEN a ELSE b
Due(at) == freeze # None /\ freeze.freezeAt <= at

\* Mutant: one entry for the public view, whatever freeze it was computed for.
AnyVersionOf(seen) == None

\* Which freeze a view was computed for: the version in the key of its cache entry.
VersionOf(seen) ==
    IF seen = None THEN None ELSE [freezeAt |-> seen.freezeAt, takenAt |-> seen.taken.at]
ViewOf(seen, of) ==
    IF seen = None THEN [frozen |-> FALSE, of |-> of] ELSE [frozen |-> TRUE, of |-> seen.taken.of]

-----------------------------------------------------------------------------
(* The results and the clock.                                               *)

Tick ==
    /\ now < MaxNow
    /\ now' = now + 1
    /\ UNCHANGED <<live, owed, freeze, cache, req, floor, breaks>>

\* A judge's save commits; its instance invalidates after the commit.
Save(i) ==
    /\ live < MaxLive /\ owed[i] = 0
    /\ live' = live + 1
    /\ owed' = [owed EXCEPT ![i] = live + 1]
    /\ UNCHANGED <<now, freeze, cache, req, floor, breaks>>

Announce(i) ==
    /\ owed[i] # 0
    /\ cache' = [cache EXCEPT ![i] = {}]
    /\ floor' = [floor EXCEPT ![i] = Larger(floor[i], owed[i])]
    /\ owed' = [owed EXCEPT ![i] = 0]
    /\ UNCHANGED <<now, live, freeze, req, breaks>>

\* A change of a team's status changes the standings and invalidates nothing.
SaveQuietly ==
    /\ live < MaxLive
    /\ live' = live + 1
    /\ UNCHANGED <<now, owed, freeze, cache, req, floor, breaks>>

-----------------------------------------------------------------------------
(* The freeze.                                                              *)

\* An organiser freezes at once (t = now + 1) or later, in a millisecond of his own,
\* which names the freeze.  The call goes on with the invalidation.
SetFreeze(i, t) ==
    /\ req[Organizer].pc = "idle" /\ now < MaxNow /\ t > now
    /\ now' = now + 1
    /\ freeze' = [set |-> now + 1, freezeAt |-> t, taken |-> None]
    /\ req' = [req EXCEPT ![Organizer] =
                 [At(i) EXCEPT !.pc = "invalidate", !.at = now + 1,
                               !.seen = [freezeAt |-> t, taken |-> None]]]
    /\ UNCHANGED <<live, owed, cache, floor, breaks>>

Reveal(i) ==
    /\ req[Organizer].pc = "idle" /\ freeze # None
    /\ freeze' = None
    /\ req' = [req EXCEPT ![Organizer] = [At(i) EXCEPT !.pc = "invalidate"]]
    /\ UNCHANGED <<now, live, owed, cache, floor, breaks>>

\* The cron finds the freeze due and without a snapshot.
CronFinds(c, i) ==
    /\ req[c].pc = "idle" /\ Due(now) /\ freeze.taken = None
    /\ req' = [req EXCEPT ![c] = [At(i) EXCEPT !.pc = "check", !.at = now]]
    /\ UNCHANGED <<now, live, owed, freeze, cache, floor, breaks>>

\* What a caller does after it knows the state of the freeze: a reader looks its
\* view up, the others are done.
Onward(c, seen) ==
    IF req[c].public THEN [req[c] EXCEPT !.pc = "lookup", !.seen = seen, !.of = 0, !.at = 0]
    ELSE Quiet

\* The transaction of ensureSnapshot reads the row and, unless it has a snapshot,
\* the results, ...
Check(c) ==
    /\ req[c].pc = "check"
    /\ req' = [req EXCEPT ![c] =
         IF ~Due(req[c].at) THEN Onward(c, None)
         ELSE LET seen == [freezeAt |-> freeze.freezeAt, taken |-> freeze.taken]
              IN  IF freeze.taken = None
                    THEN [req[c] EXCEPT !.pc = "store", !.seen = seen, !.of = live]
                    ELSE [req[c] EXCEPT !.pc = "invalidate", !.seen = seen]]
    /\ UNCHANGED <<now, live, owed, freeze, cache, floor, breaks>>

\* ... and stores them if the row has no snapshot by then,
Store(c) ==
    /\ req[c].pc = "store"
    /\ IF freeze # None /\ freeze.taken = None
         THEN LET taken == [of |-> req[c].of, at |-> req[c].at]
              IN  /\ freeze' = [freeze EXCEPT !.taken = taken]
                  /\ req' = [req EXCEPT ![c].pc = "invalidate", ![c].seen.taken = taken,
                                          ![c].of = 0]
         ELSE /\ req' = [req EXCEPT ![c].pc = "reread"]
              /\ UNCHANGED freeze
    /\ UNCHANGED <<now, live, owed, cache, floor, breaks>>

\* or else takes the stored one, which counts as empty if it is missing.
Reread(c) ==
    /\ req[c].pc = "reread"
    /\ req' = [req EXCEPT ![c] =
         IF freeze = None THEN Onward(c, None)
         ELSE [req[c] EXCEPT !.pc = "invalidate",
                !.seen = [freezeAt |-> freeze.freezeAt,
                          taken |-> IF freeze.taken # None THEN freeze.taken
                                    ELSE [of |-> None, at |-> freeze.freezeAt]]]]
    /\ UNCHANGED <<now, live, owed, freeze, cache, floor, breaks>>

\* The invalidation after a call that has changed or ensured the freeze.  An
\* organiser's call goes on with the snapshot if the time has come.
Invalidate(c) ==
    /\ req[c].pc = "invalidate"
    /\ cache' = [cache EXCEPT ![req[c].inst] = {}]
    /\ req' = [req EXCEPT ![c] =
         IF c = Organizer /\ req[c].seen # None /\ req[c].seen.taken = None
              /\ req[c].seen.freezeAt <= req[c].at
         THEN [req[c] EXCEPT !.pc = "check", !.seen = None]
         ELSE Onward(c, req[c].seen)]
    /\ UNCHANGED <<now, live, owed, freeze, floor, breaks>>

-----------------------------------------------------------------------------
(* A public request.                                                        *)

\* `floor' and `during' remember, for the properties, what had been announced on
\* the instance and which freeze was in force when the request came.
Arrive(r, i) ==
    /\ req[r].pc = "idle"
    /\ req' = [req EXCEPT ![r] = [At(i) EXCEPT
         !.pc = "find", !.public = TRUE, !.at = now, !.floor = floor[i],
         !.during = IF Due(now) THEN freeze.set ELSE 0]]
    /\ UNCHANGED <<now, live, owed, freeze, cache, floor, breaks>>

Find(r) ==
    /\ req[r].pc = "find"
    /\ req' = [req EXCEPT ![r] =
         IF ~Due(req[r].at) THEN Onward(r, None)
         ELSE IF freeze.taken = None THEN [req[r] EXCEPT !.pc = "check"]
         ELSE Onward(r, [freezeAt |-> freeze.freezeAt, taken |-> freeze.taken])]
    /\ UNCHANGED <<now, live, owed, freeze, cache, floor, breaks>>

\* The entries of the request's version on its instance.
Hits(r) == {e \in cache[req[r].inst] : e.key = VersionOf(req[r].seen)}
Answer(v) == [Quiet EXCEPT !.pc = "done", !.view = v]

\* A fresh entry answers at once,
Hit(r) ==
    /\ req[r].pc = "lookup"
    /\ \E e \in Hits(r) :
         /\ e.view # None
         /\ req' = [req EXCEPT ![r] = Answer(e.view)]
    /\ UNCHANGED <<now, live, owed, freeze, cache, floor, breaks>>

\* a pending one is waited for,
Join(r) ==
    /\ req[r].pc = "lookup"
    /\ \E e \in Hits(r) :
         /\ e.view = None
         /\ req' = [req EXCEPT ![r].pc = "joined", ![r].load = e.load, ![r].seen = None]
    /\ UNCHANGED <<now, live, owed, freeze, cache, floor, breaks>>

\* and without one a load begins, whose pending entry replaces the entries of
\* other versions.
Miss(r) ==
    /\ req[r].pc = "lookup" /\ Hits(r) = {}
    /\ cache' = [cache EXCEPT ![req[r].inst] =
                   {[key |-> VersionOf(req[r].seen), load |-> r, view |-> None]}]
    /\ req' = [req EXCEPT ![r].pc = "load"]
    /\ UNCHANGED <<now, live, owed, freeze, floor, breaks>>

\* The load reads the results, or takes those of the snapshot.
Load(r) ==
    /\ req[r].pc = "load"
    /\ req' = [req EXCEPT ![r].pc = "settle", ![r].view = ViewOf(req[r].seen, live),
                               ![r].seen = None]
    /\ UNCHANGED <<now, live, owed, freeze, cache, floor, breaks>>

Waiting(r) == {q \in Readers : q = r \/ (req[q].pc = "joined" /\ req[q].load = r)}
\* Mutant: the load is kept although its entry has been invalidated.
AlwaysAnEntry(r) == {[key |-> None, load |-> r, view |-> None]}
\* The entry of the load, unless it was invalidated, evicted or replaced meanwhile.
OwnEntry(r) == {e \in cache[req[r].inst] : e.load = r /\ e.view = None}

\* The load resolves: it is kept only if its entry is still there, and answers
\* everybody who waits for it.
Settle(r) ==
    /\ req[r].pc = "settle"
    /\ LET i == req[r].inst
           kept == {[e EXCEPT !.load = None, !.view = req[r].view] : e \in OwnEntry(r)}
       IN  cache' = [cache EXCEPT ![i] = (cache[i] \ OwnEntry(r)) \cup kept]
    /\ req' = [q \in Callers |-> IF q \in Waiting(r) THEN Answer(req[r].view) ELSE req[q]]
    /\ UNCHANGED <<now, live, owed, freeze, floor, breaks>>

-----------------------------------------------------------------------------
(* Failures.                                                                *)

\* An entry expires, or is pushed out by other competitions' views.
Evict(i) ==
    /\ \E e \in cache[i] : cache' = [cache EXCEPT ![i] = cache[i] \ {e}]
    /\ UNCHANGED <<now, live, owed, freeze, req, floor, breaks>>

Ends(callers) == [c \in Callers |-> IF c \in callers THEN Quiet ELSE req[c]]

\* A load rejects: its entry goes, and everybody who waits for it gets the error.
LoadFails(r) ==
    /\ req[r].pc \in {"load", "settle"} /\ breaks < MaxBreaks
    /\ breaks' = breaks + 1
    /\ cache' = [cache EXCEPT ![req[r].inst] = cache[req[r].inst] \ OwnEntry(r)]
    /\ req' = Ends(Waiting(r))
    /\ UNCHANGED <<now, live, owed, freeze, floor>>

\* The transaction of ensureSnapshot times out or is refused.
EnsureFails(c) ==
    /\ req[c].pc \in {"check", "store", "reread"} /\ breaks < MaxBreaks
    /\ breaks' = breaks + 1
    /\ req' = Ends({c})
    /\ UNCHANGED <<now, live, owed, freeze, cache, floor>>

\* An instance ends, with its cache and its requests, and is started again.
Restart(i) ==
    /\ breaks < MaxBreaks
    /\ breaks' = breaks + 1
    /\ cache' = [cache EXCEPT ![i] = {}]
    /\ owed' = [owed EXCEPT ![i] = 0]
    /\ req' = Ends({c \in Callers : req[c].inst = i})
    /\ UNCHANGED <<now, live, freeze, floor>>

-----------------------------------------------------------------------------
Ensure(c) == Check(c) \/ Store(c) \/ Reread(c) \/ Invalidate(c)
Serve(r) == Find(r) \/ Hit(r) \/ Join(r) \/ Miss(r) \/ Load(r) \/ Settle(r)

Next ==
    \/ Tick \/ SaveQuietly
    \/ \E i \in Instances :
         \/ Save(i) \/ Announce(i) \/ Evict(i) \/ Restart(i)
         \/ Reveal(i)
         \/ \E c \in Crons : CronFinds(c, i)
         \/ \E t \in Time : SetFreeze(i, t)
         \/ \E r \in Readers : Arrive(r, i)
    \/ \E c \in Callers : Ensure(c) \/ EnsureFails(c)
    \/ \E r \in Readers : Serve(r) \/ LoadFails(r)

Spec == Init /\ [][Next]_vars

-----------------------------------------------------------------------------
(* Properties.                                                              *)

Answered(r) == req[r].pc # "done" /\ req'[r].pc = "done"

\* A request that comes while a freeze is in force, and is answered before it is
\* lifted or set anew, shows the freeze's stored standing, whichever request stored
\* it, and never the hidden results.  (Only a snapshot that a second organiser's call
\* removed between two reads may make it the empty standing, as parseFreezeSnapshot
\* promises.)
FrozenWhileFrozen ==
    [][\A r \in Readers :
         (Answered(r) /\ req[r].during # 0 /\ freeze # None /\ freeze.set = req[r].during)
           => /\ req'[r].view.frozen
              /\ freeze.taken # None
              /\ req'[r].view.of \in {freeze.taken.of, None}]_vars

\* Once a freeze has a snapshot it keeps it until an organiser lifts the freeze or
\* sets it anew: concurrent requests do not overwrite each other's snapshot.
SnapshotStays ==
    [][(freeze # None /\ freeze.taken # None /\ freeze' # None /\ freeze'.set = freeze.set)
         => freeze' = freeze]_vars

\* A request never shows live results older than those which its instance had
\* announced (invalidated for) when the request came, whatever loads were in flight.
NothingOlderThanAnnounced ==
    [][\A r \in Readers :
         (Answered(r) /\ ~req'[r].view.frozen) => req'[r].view.of >= req[r].floor]_vars
=============================================================================
