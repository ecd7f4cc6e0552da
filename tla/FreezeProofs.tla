---------------------------- MODULE FreezeProofs ----------------------------
(***************************************************************************)
(* Theorems about PublicSnapshots and SeriesFreeze, for any number of      *)
(* instances, readers, requests and scheduled calls, any clock and any     *)
(* number of writes, freezes and failures.                                 *)
(*                                                                         *)
(* Two invariants about the loads carry the safety of the cache.  Every    *)
(* pending entry, and every reader that waits, belongs to a load that is   *)
(* running on the same instance (LoadsRun); and a loaded view is as new as *)
(* what the instance had announced, as long as its entry is still there,   *)
(* and in any case as what it had announced when the reader came (Fresh).  *)
(* A frozen series shows one standing, and it is the freeze's.             *)
(*                                                                         *)
(* The last part is about the places of the standing that is frozen and    *)
(* shown (Leaderboard): they follow the totals.                            *)
(***************************************************************************)
EXTENDS PublicSnapshots, SeriesFreeze, Leaderboard, FiniteSetTheorems, WellFoundedInduction, TLAPS

\* What the request r of a caller knows of the freeze at each step.
Knows(c, r) ==
    /\ r.public => c \in Readers
    /\ r.pc \in {"find", "lookup", "load"} => r.public
    /\ (r.public /\ r.pc \in {"invalidate", "lookup", "load"} /\ r.seen # None)
          => r.seen.taken \in Snapshot
    /\ r.pc = "store" => r.seen \in Seen
    /\ r.pc = "settle" => c \in Readers /\ r.view \in View

KnowsSnapshot == \A c \in Callers : Knows(c, req[c])

\* A freeze was set in the past, so the next one has a name of its own.
SetInThePast == freeze # None => freeze.set <= now

Typed == TypeOK /\ KnowsSnapshot /\ SetInThePast

Loading(r, i) == r \in Readers /\ req[r].pc \in {"load", "settle"} /\ req[r].inst = i

\* Pending entries and waiting readers belong to loads that run.
LoadsRun ==
    /\ \A i \in Instances : \A e \in cache[i] :
          /\ e.load # None => e.view = None /\ Loading(e.load, i)
          /\ e.view = None => e.load # None
    /\ \A q \in Readers : req[q].pc = "joined" => Loading(req[q].load, req[q].inst)

NotOlder(view, version) == ~view.frozen => view.of \in Versions /\ view.of >= version

\* No entry is older than what its instance has announced, and no view in flight
\* is older than what had been announced to those who wait for it.
Fresh ==
    /\ \A i \in Instances : floor[i] <= live /\ owed[i] <= live
    /\ \A c \in Callers : req[c].floor <= floor[req[c].inst]
    /\ \A i \in Instances : \A e \in cache[i] :
          /\ e.load = None /\ e.view # None => NotOlder(e.view, floor[i])
          /\ e.load # None /\ req[e.load].pc = "settle" => NotOlder(req[e.load].view, floor[i])
    /\ \A r, q \in Readers : req[r].pc = "settle" /\ q \in Waiting(r)
          => NotOlder(req[r].view, req[q].floor)

Inv == Typed /\ LoadsRun /\ Fresh

-----------------------------------------------------------------------------
(* Types.                                                                   *)

LEMMA QuietType ==
    ASSUME NEW i \in Instances
    PROVE  /\ At(i) \in Request /\ Quiet = At(AnyInstance)
           /\ AnyInstance \in Instances /\ Quiet \in Request
BY BoundsAssumption DEF At, Quiet, AnyInstance, Request, Time, Versions

LEMMA SomeInstance == Quiet \in Request
BY QuietType, InstancesAssumption

\* What a request knows after it has been told of the freeze.
Informed(c, seen) == req[c].public => seen = None \/ (seen \in Seen /\ seen.taken \in Snapshot)

\* Going on keeps a request well formed.
LEMMA OnwardType ==
    ASSUME Typed, NEW c \in Callers, NEW seen \in Seen \cup {None}, Informed(c, seen)
    PROVE  /\ Onward(c, seen) \in Request
           /\ Onward(c, seen).public => c \in Readers /\ req[c].public
           /\ Onward(c, seen).pc \in {"lookup", "idle"}
           /\ Onward(c, seen).pc = "lookup" =>
                 /\ Onward(c, seen).public
                 /\ Onward(c, seen).seen = seen
                 /\ Onward(c, seen).floor = req[c].floor
                 /\ Onward(c, seen).inst = req[c].inst
           /\ Onward(c, seen).pc = "idle" => Onward(c, seen) = Quiet
<1>1. CASE req[c].public
    <2>1. Onward(c, seen) = [req[c] EXCEPT !.pc = "lookup", !.seen = seen, !.of = 0, !.at = 0]
        BY <1>1 DEF Onward
    <2>2. req[c] \in Request /\ 0 \in Time /\ 0 \in Versions
        BY BoundsAssumption DEF Typed, TypeOK, Time, Versions
    <2>3. Onward(c, seen) \in Request
        BY <2>1, <2>2 DEF Request
    <2>4. c \in Readers
        BY <1>1 DEF Typed, KnowsSnapshot, Knows
    <2>5. /\ Onward(c, seen).public = req[c].public
          /\ Onward(c, seen).pc = "lookup"
          /\ Onward(c, seen).seen = seen
          /\ Onward(c, seen).floor = req[c].floor
          /\ Onward(c, seen).inst = req[c].inst
        BY <2>1, <2>2 DEF Request
    <2> QED BY <1>1, <2>3, <2>4, <2>5
<1>2. CASE ~req[c].public
    <2>1. Onward(c, seen) = Quiet
        BY <1>2 DEF Onward
    <2> QED BY <2>1, SomeInstance DEF Quiet, At
<1> QED BY <1>1, <1>2

LEMMA OnwardKnows ==
    ASSUME Typed, NEW c \in Callers, NEW seen \in Seen \cup {None}, Informed(c, seen)
    PROVE  Onward(c, seen) \in Request /\ Knows(c, Onward(c, seen))
<1>1. /\ Onward(c, seen) \in Request
      /\ Onward(c, seen).public => c \in Readers /\ req[c].public
      /\ Onward(c, seen).pc \in {"lookup", "idle"}
      /\ Onward(c, seen).pc = "lookup" => Onward(c, seen).public /\ Onward(c, seen).seen = seen
    BY OnwardType
<1> QED BY <1>1 DEF Knows, Informed

LEMMA QuietKnows == ASSUME NEW c PROVE Knows(c, Quiet)
BY DEF Knows, Quiet, At

\* A step of one request, and a step that ends several.
LEMMA OneMoves ==
    ASSUME Typed, NEW c \in Callers, NEW r \in Request, Knows(c, r), req' = [req EXCEPT ![c] = r]
    PROVE  req' \in [Callers -> Request] /\ KnowsSnapshot'
<1>1. req \in [Callers -> Request] /\ KnowsSnapshot
    BY DEF Typed, TypeOK
<1>2. \A d \in Callers : req'[d] = IF d = c THEN r ELSE req[d]
    BY <1>1
<1>3. \A d \in Callers : Knows(d, req'[d])
    BY <1>1, <1>2 DEF KnowsSnapshot
<1> QED BY <1>1, <1>3 DEF KnowsSnapshot

LEMMA SomeEnd ==
    ASSUME Typed, NEW callers, req' = Ends(callers)
    PROVE  req' \in [Callers -> Request] /\ KnowsSnapshot'
<1>1. req \in [Callers -> Request] /\ KnowsSnapshot
    BY DEF Typed, TypeOK
<1>2. \A d \in Callers : req'[d] = IF d \in callers THEN Quiet ELSE req[d]
    BY DEF Ends
<1>3. \A d \in Callers : Knows(d, req'[d])
    BY <1>1, <1>2, QuietKnows DEF KnowsSnapshot
<1> QED BY <1>1, <1>2, <1>3, SomeInstance DEF KnowsSnapshot, Ends

\* The freeze as a request finds it.
LEMMA FreezeRow ==
    ASSUME TypeOK, freeze # None
    PROVE  /\ freeze \in Row /\ freeze.freezeAt \in Time /\ freeze.set \in Time
           /\ freeze.taken \in Snapshot \cup {None}
           /\ [freezeAt |-> freeze.freezeAt, taken |-> freeze.taken] \in Seen
BY DEF TypeOK, Row, Seen

\* Every step of a request keeps the types.
LEMMA CheckTyped ==
    ASSUME Typed, NEW c \in Callers, Check(c) PROVE Typed'
<1>1. req[c] \in Request /\ req[c].pc = "check" /\ live \in Versions
    BY DEF Check, Typed, TypeOK
<1> DEFINE seen == [freezeAt |-> freeze.freezeAt, taken |-> freeze.taken]
<1>2. Knows(c, req[c])
    BY DEF Typed, KnowsSnapshot
<1>3. CASE ~Due(req[c].at)
    <2>1. req' = [req EXCEPT ![c] = Onward(c, None)]
        BY <1>3 DEF Check
    <2> QED BY <2>1, OnwardKnows, OneMoves DEF Informed, Check, Typed, TypeOK, SetInThePast
<1>4. CASE Due(req[c].at) /\ freeze.taken = None
    <2>1. req' = [req EXCEPT ![c] = [req[c] EXCEPT !.pc = "store", !.seen = seen, !.of = live]]
        BY <1>4 DEF Check
    <2>2. seen \in Seen
        BY <1>4, FreezeRow DEF Due, Typed
    <2>3. [req[c] EXCEPT !.pc = "store", !.seen = seen, !.of = live] \in Request
        BY <1>1, <2>2 DEF Request
    <2>4. Knows(c, [req[c] EXCEPT !.pc = "store", !.seen = seen, !.of = live])
        BY <1>1, <1>2, <2>2 DEF Knows, Request
    <2>5. req' \in [Callers -> Request] /\ KnowsSnapshot'
        BY <2>1, <2>3, <2>4, OneMoves
    <2> QED BY <2>5 DEF Check, Typed, TypeOK, SetInThePast
<1>5. CASE Due(req[c].at) /\ freeze.taken # None
    <2>1. req' = [req EXCEPT ![c] = [req[c] EXCEPT !.pc = "invalidate", !.seen = seen]]
        BY <1>5 DEF Check
    <2>2. seen \in Seen /\ seen.taken \in Snapshot
        BY <1>5, FreezeRow DEF Due, Typed
    <2>3. [req[c] EXCEPT !.pc = "invalidate", !.seen = seen] \in Request
        BY <1>1, <2>2 DEF Request
    <2>4. Knows(c, [req[c] EXCEPT !.pc = "invalidate", !.seen = seen])
        BY <1>1, <1>2, <2>2 DEF Knows, Request
    <2>5. req' \in [Callers -> Request] /\ KnowsSnapshot'
        BY <2>1, <2>3, <2>4, OneMoves
    <2> QED BY <2>5 DEF Check, Typed, TypeOK, SetInThePast
<1> QED BY <1>3, <1>4, <1>5

LEMMA StoreTyped ==
    ASSUME Typed, NEW c \in Callers, Store(c) PROVE Typed'
<1>1. req[c] \in Request /\ req[c].pc = "store" /\ req[c].seen \in Seen /\ Knows(c, req[c])
    BY DEF Store, Typed, TypeOK, KnowsSnapshot, Knows
<1> DEFINE taken == [of |-> req[c].of, at |-> req[c].at]
<1>2. taken \in Snapshot /\ 0 \in Versions
    BY <1>1, BoundsAssumption DEF Snapshot, Request, Versions
<1>3. CASE freeze # None /\ freeze.taken = None
    <2> DEFINE seen == [req[c].seen EXCEPT !.taken = taken]
               r == [req[c] EXCEPT !.pc = "invalidate", !.seen = seen, !.of = 0]
    <2>1. req' = [req EXCEPT ![c] = r]
        BY <1>1, <1>3 DEF Store, Typed, TypeOK, Request
    <2>2. seen \in Seen /\ seen.taken = taken
        BY <1>1, <1>2 DEF Seen
    <2>3. r \in Request
        BY <1>1, <1>2, <2>2 DEF Request
    <2>4. Knows(c, r)
        BY <1>1, <1>2, <2>2 DEF Knows, Request
    <2>5. req' \in [Callers -> Request] /\ KnowsSnapshot'
        BY <2>1, <2>3, <2>4, OneMoves
    <2>6. freeze' = [freeze EXCEPT !.taken = taken]
        BY <1>3 DEF Store
    <2>7. freeze' \in Row /\ freeze'.set = freeze.set
        BY <1>2, <1>3, <2>6, FreezeRow DEF Typed, Row
    <2> QED BY <1>3, <2>5, <2>7 DEF Store, Typed, TypeOK, SetInThePast
<1>4. CASE ~(freeze # None /\ freeze.taken = None)
    <2> DEFINE r == [req[c] EXCEPT !.pc = "reread"]
    <2>1. req' = [req EXCEPT ![c] = r] /\ freeze' = freeze
        BY <1>4 DEF Store, Typed, TypeOK
    <2>2. r \in Request
        BY <1>1 DEF Request
    <2>3. Knows(c, r)
        BY <1>1 DEF Knows, Request
    <2>4. req' \in [Callers -> Request] /\ KnowsSnapshot'
        BY <2>1, <2>2, <2>3, OneMoves
    <2> QED BY <2>1, <2>4 DEF Store, Typed, TypeOK, SetInThePast
<1> QED BY <1>3, <1>4

LEMMA RereadTyped ==
    ASSUME Typed, NEW c \in Callers, Reread(c) PROVE Typed'
<1>1. req[c] \in Request /\ req[c].pc = "reread" /\ Knows(c, req[c])
    BY DEF Reread, Typed, TypeOK, KnowsSnapshot
<1>2. CASE freeze = None
    <2>1. req' = [req EXCEPT ![c] = Onward(c, None)]
        BY <1>2 DEF Reread
    <2> QED BY <2>1, OnwardKnows, OneMoves DEF Informed, Reread, Typed, TypeOK, SetInThePast
<1>3. CASE freeze # None
    <2> DEFINE taken == IF freeze.taken # None THEN freeze.taken
                        ELSE [of |-> None, at |-> freeze.freezeAt]
               seen == [freezeAt |-> freeze.freezeAt, taken |-> taken]
               r == [req[c] EXCEPT !.pc = "invalidate", !.seen = seen]
    <2>1. req' = [req EXCEPT ![c] = r]
        BY <1>3 DEF Reread
    <2>2. taken \in Snapshot
        BY <1>3, FreezeRow DEF Typed, Snapshot
    <2>3. seen \in Seen /\ seen.taken = taken
        BY <1>3, <2>2, FreezeRow DEF Typed, Seen
    <2>4. r \in Request
        BY <1>1, <2>3 DEF Request
    <2>5. Knows(c, r)
        BY <1>1, <2>2, <2>3 DEF Knows, Request
    <2>6. req' \in [Callers -> Request] /\ KnowsSnapshot'
        BY <2>1, <2>4, <2>5, OneMoves
    <2> QED BY <2>6 DEF Reread, Typed, TypeOK, SetInThePast
<1> QED BY <1>2, <1>3

LEMMA InvalidateTyped ==
    ASSUME Typed, NEW c \in Callers, Invalidate(c) PROVE Typed'
<1>1. req[c] \in Request /\ req[c].pc = "invalidate" /\ Knows(c, req[c])
    BY DEF Invalidate, Typed, TypeOK, KnowsSnapshot
<1>2. cache' \in [Instances -> SUBSET Entry]
    BY <1>1 DEF Invalidate, Typed, TypeOK, Request
<1> DEFINE again == /\ c = Organizer /\ req[c].seen # None /\ req[c].seen.taken = None
                    /\ req[c].seen.freezeAt <= req[c].at
<1>3. CASE again
    <2> DEFINE r == [req[c] EXCEPT !.pc = "check", !.seen = None]
    <2>1. req' = [req EXCEPT ![c] = r]
        BY <1>3 DEF Invalidate
    <2>2. r \in Request
        BY <1>1 DEF Request
    <2>3. Knows(c, r)
        BY <1>1 DEF Knows, Request
    <2>4. req' \in [Callers -> Request] /\ KnowsSnapshot'
        BY <2>1, <2>2, <2>3, OneMoves
    <2> QED BY <1>2, <2>4 DEF Invalidate, Typed, TypeOK, SetInThePast
<1>4. CASE ~again
    <2>1. req' = [req EXCEPT ![c] = Onward(c, req[c].seen)]
        BY <1>4 DEF Invalidate
    <2>2. req[c].seen \in Seen \cup {None} /\ Informed(c, req[c].seen)
        BY <1>1 DEF Request, Knows, Informed
    <2>3. req' \in [Callers -> Request] /\ KnowsSnapshot'
        BY <2>1, <2>2, OnwardKnows, OneMoves
    <2> QED BY <1>2, <2>3 DEF Invalidate, Typed, TypeOK, SetInThePast
<1> QED BY <1>3, <1>4

LEMMA ArriveTyped ==
    ASSUME Typed, NEW q \in Readers, NEW i \in Instances, Arrive(q, i) PROVE Typed'
<1> DEFINE d == IF Due(now) THEN freeze.set ELSE 0
           r == [At(i) EXCEPT !.pc = "find", !.public = TRUE, !.at = now, !.floor = floor[i],
                              !.during = d]
<1>1. req' = [req EXCEPT ![q] = r] /\ q \in Callers
    BY DEF Arrive, Callers
<1>2. d \in Time /\ now \in Time /\ floor[i] \in Versions
    BY FreezeRow, BoundsAssumption DEF Due, Typed, TypeOK, Time
<1>3. r \in Request
    <2> HIDE DEF d
    <2>1. At(i) \in Request
        BY QuietType
    <2> QED BY <1>2, <2>1 DEF Request
<1>4. r.pc = "find" /\ r.public
    BY DEF At
<1>5. Knows(q, r)
    BY <1>4 DEF Knows
<1>6. req' \in [Callers -> Request] /\ KnowsSnapshot'
    BY <1>1, <1>3, <1>5, OneMoves
<1> QED BY <1>6 DEF Arrive, Typed, TypeOK, SetInThePast

LEMMA FindTyped ==
    ASSUME Typed, NEW q \in Readers, Find(q) PROVE Typed'
<1> USE DEF Callers
<1>1. req[q] \in Request /\ req[q].pc = "find" /\ Knows(q, req[q])
    BY DEF Find, Typed, TypeOK, KnowsSnapshot
<1> DEFINE seen == [freezeAt |-> freeze.freezeAt, taken |-> freeze.taken]
<1>2. CASE ~Due(req[q].at)
    <2>1. req' = [req EXCEPT ![q] = Onward(q, None)]
        BY <1>2 DEF Find
    <2>2. req' \in [Callers -> Request] /\ KnowsSnapshot'
        BY <2>1, OnwardKnows, OneMoves DEF Informed
    <2> QED BY <2>2 DEF Find, Typed, TypeOK, SetInThePast
<1>3. CASE Due(req[q].at) /\ freeze.taken = None
    <2> DEFINE r == [req[q] EXCEPT !.pc = "check"]
    <2>1. req' = [req EXCEPT ![q] = r]
        BY <1>3 DEF Find
    <2>2. r \in Request
        BY <1>1 DEF Request
    <2>3. Knows(q, r)
        BY <1>1 DEF Knows, Request
    <2>4. req' \in [Callers -> Request] /\ KnowsSnapshot'
        BY <2>1, <2>2, <2>3, OneMoves
    <2> QED BY <2>4 DEF Find, Typed, TypeOK, SetInThePast
<1>4. CASE Due(req[q].at) /\ freeze.taken # None
    <2>1. req' = [req EXCEPT ![q] = Onward(q, seen)]
        BY <1>4 DEF Find
    <2>2. seen \in Seen /\ seen.taken \in Snapshot
        BY <1>4, FreezeRow DEF Due, Typed
    <2>3. Informed(q, seen)
        BY <2>2 DEF Informed
    <2>4. req' \in [Callers -> Request] /\ KnowsSnapshot'
        BY <2>1, <2>2, <2>3, OnwardKnows, OneMoves
    <2> QED BY <2>4 DEF Find, Typed, TypeOK, SetInThePast
<1> QED BY <1>2, <1>3, <1>4

\* An answer says what was shown, and nothing else.
LEMMA AnswerType ==
    ASSUME NEW v \in View \cup {None}
    PROVE  /\ Answer(v) \in Request
           /\ Answer(v).pc = "done" /\ ~Answer(v).public /\ Answer(v).view = v
           /\ Answer(v).floor = 0 /\ Answer(v).inst = AnyInstance
           /\ \A c : Knows(c, Answer(v))
<1>1. Quiet \in Request /\ ~Quiet.public /\ Quiet.floor = 0 /\ Quiet.inst = AnyInstance
    BY SomeInstance DEF Quiet, At
<1>2. Answer(v) \in Request
    BY <1>1 DEF Answer, Request
<1>3. Answer(v).pc = "done" /\ ~Answer(v).public /\ Answer(v).view = v
      /\ Answer(v).floor = 0 /\ Answer(v).inst = AnyInstance
    BY <1>1 DEF Answer, Request
<1> QED BY <1>2, <1>3 DEF Knows

LEMMA HitTyped ==
    ASSUME Typed, NEW q \in Readers, Hit(q) PROVE Typed'
<1>1. q \in Callers /\ req[q] \in Request
    BY DEF Callers, Typed, TypeOK
<1>2. PICK e \in Hits(q) : e.view # None /\ req' = [req EXCEPT ![q] = Answer(e.view)]
    BY DEF Hit
<1>3. e.view \in View \cup {None}
    BY <1>1 DEF Hits, Typed, TypeOK, Request, Entry
<1>4. req' \in [Callers -> Request] /\ KnowsSnapshot'
    BY <1>1, <1>2, <1>3, AnswerType, OneMoves
<1> QED BY <1>4 DEF Hit, Typed, TypeOK, SetInThePast

LEMMA JoinTyped ==
    ASSUME Typed, NEW q \in Readers, Join(q) PROVE Typed'
<1>1. q \in Callers /\ req[q] \in Request /\ Knows(q, req[q])
    BY DEF Callers, Typed, TypeOK, KnowsSnapshot
<1>2. PICK e \in Hits(q) :
         req' = [req EXCEPT ![q].pc = "joined", ![q].load = e.load, ![q].seen = None]
    BY DEF Join
<1> DEFINE r == [req[q] EXCEPT !.pc = "joined", !.load = e.load, !.seen = None]
<1>3. e.load \in Readers \cup {None}
    BY <1>1 DEF Hits, Typed, TypeOK, Request, Entry
<1>4. req' = [req EXCEPT ![q] = r]
    BY <1>1, <1>2 DEF Typed, TypeOK
<1>5. r \in Request
    BY <1>1, <1>3 DEF Request
<1>6. Knows(q, r)
    BY <1>1 DEF Knows, Request
<1>7. req' \in [Callers -> Request] /\ KnowsSnapshot'
    BY <1>1, <1>4, <1>5, <1>6, OneMoves
<1> QED BY <1>7 DEF Join, Typed, TypeOK, SetInThePast

LEMMA MissTyped ==
    ASSUME Typed, NEW q \in Readers, Miss(q) PROVE Typed'
<1>1. q \in Callers /\ req[q] \in Request /\ Knows(q, req[q]) /\ req[q].pc = "lookup"
    BY DEF Callers, Typed, TypeOK, KnowsSnapshot, Miss
<1> DEFINE r == [req[q] EXCEPT !.pc = "load"]
           e == [key |-> VersionOf(req[q].seen), load |-> q, view |-> None]
<1>2. req' = [req EXCEPT ![q] = r]
    BY <1>1 DEF Miss, Typed, TypeOK
<1>3. r \in Request
    BY <1>1 DEF Request
<1>4. Knows(q, r)
    BY <1>1 DEF Knows, Request
<1>5. req' \in [Callers -> Request] /\ KnowsSnapshot'
    BY <1>1, <1>2, <1>3, <1>4, OneMoves
<1>6. VersionOf(req[q].seen) \in Key
    <2>1. CASE req[q].seen = None
        BY <2>1 DEF VersionOf, Key
    <2>2. CASE req[q].seen # None
        <3>1. req[q].seen \in Seen /\ req[q].seen.taken \in Snapshot
            BY <1>1, <2>2 DEF Request, Knows
        <3>2. req[q].seen.freezeAt \in Time /\ req[q].seen.taken.at \in Time
            BY <3>1 DEF Seen, Snapshot
        <3> QED BY <2>2, <3>2 DEF VersionOf, Key
    <2> QED BY <2>1, <2>2
<1>7. e \in Entry
    BY <1>6 DEF Entry
<1>8. cache' \in [Instances -> SUBSET Entry]
    BY <1>1, <1>7 DEF Miss, Typed, TypeOK, Request
<1> QED BY <1>5, <1>8 DEF Miss, Typed, TypeOK, SetInThePast

LEMMA LoadTyped ==
    ASSUME Typed, NEW q \in Readers, Load(q)
    PROVE  Typed' /\ ViewOf(req[q].seen, live) \in View
<1>1. q \in Callers /\ req[q] \in Request /\ Knows(q, req[q]) /\ req[q].pc = "load"
      /\ live \in Versions
    BY DEF Callers, Typed, TypeOK, KnowsSnapshot, Load
<1> DEFINE v == ViewOf(req[q].seen, live)
           r == [req[q] EXCEPT !.pc = "settle", !.view = v, !.seen = None]
<1>2. req' = [req EXCEPT ![q] = r]
    BY <1>1 DEF Load, Typed, TypeOK
<1>3. v \in View
    <2>1. CASE req[q].seen = None
        BY <1>1, <2>1 DEF ViewOf, View
    <2>2. CASE req[q].seen # None
        <3>1. req[q].seen.taken \in Snapshot
            BY <1>1, <2>2 DEF Request, Knows
        <3> QED BY <2>2, <3>1 DEF ViewOf, View, Snapshot
    <2> QED BY <2>1, <2>2
<1>4. r \in Request
    BY <1>1, <1>3 DEF Request
<1>5. Knows(q, r)
    BY <1>1, <1>3, <1>4 DEF Knows, Request
<1>6. req' \in [Callers -> Request] /\ KnowsSnapshot'
    BY <1>1, <1>2, <1>4, <1>5, OneMoves
<1> QED BY <1>3, <1>6 DEF Load, Typed, TypeOK, SetInThePast

LEMMA SettleTyped ==
    ASSUME Typed, NEW q \in Readers, Settle(q) PROVE Typed'
<1>1. q \in Callers /\ req[q] \in Request /\ Knows(q, req[q]) /\ req[q].pc = "settle"
      /\ req[q].view \in View
    BY DEF Callers, Typed, TypeOK, KnowsSnapshot, Settle, Knows
<1>2. Answer(req[q].view) \in Request /\ \A c : Knows(c, Answer(req[q].view))
    BY <1>1, AnswerType
<1>3. \A c \in Callers : req'[c] = IF c \in Waiting(q) THEN Answer(req[q].view) ELSE req[c]
    BY DEF Settle
<1>4. req' \in [Callers -> Request]
    BY <1>2, <1>3 DEF Settle, Typed, TypeOK
<1>5. KnowsSnapshot'
    BY <1>2, <1>3 DEF Typed, KnowsSnapshot
<1> DEFINE kept == {[e EXCEPT !.load = None, !.view = req[q].view] : e \in OwnEntry(q)}
<1>6. kept \subseteq Entry
    <2>1. SUFFICES ASSUME NEW e \in OwnEntry(q)
                   PROVE  [e EXCEPT !.load = None, !.view = req[q].view] \in Entry
        OBVIOUS
    <2>2. e \in Entry
        BY <1>1 DEF OwnEntry, Typed, TypeOK, Request
    <2> QED BY <1>1, <2>2 DEF Entry
<1>7. cache' = [cache EXCEPT ![req[q].inst] = (cache[req[q].inst] \ OwnEntry(q)) \cup kept]
    BY DEF Settle
<1>8. cache' \in [Instances -> SUBSET Entry]
    BY <1>1, <1>6, <1>7 DEF Typed, TypeOK, Request
<1> QED BY <1>4, <1>5, <1>8 DEF Settle, Typed, TypeOK, SetInThePast

\* A step that changes the requests of some callers at most by ending them.
LEMMA EndsTyped ==
    ASSUME Typed, NEW callers, req' = Ends(callers),
           now' = now, live' = live, freeze' = freeze,
           breaks' \in 0..MaxBreaks,
           owed' \in [Instances -> Versions], floor' = floor,
           cache' \in [Instances -> SUBSET Entry]
    PROVE  Typed'
BY SomeEnd DEF Typed, TypeOK, SetInThePast

LEMMA FailureTyped ==
    ASSUME Typed,
           \/ \E r \in Readers : LoadFails(r)
           \/ \E c \in Callers : EnsureFails(c)
           \/ \E i \in Instances : Restart(i)
    PROVE  Typed'
<1>1. ASSUME NEW r \in Readers, LoadFails(r) PROVE Typed'
    <2>1. req[r].inst \in Instances
        BY DEF Callers, Typed, TypeOK, Request
    <2>2. cache' \in [Instances -> SUBSET Entry]
        BY <1>1, <2>1 DEF LoadFails, Typed, TypeOK
    <2>3. breaks' \in 0..MaxBreaks
        BY <1>1, BoundsAssumption DEF LoadFails, Typed, TypeOK
    <2> QED BY <1>1, <2>2, <2>3, EndsTyped DEF LoadFails, Typed, TypeOK
<1>2. ASSUME NEW c \in Callers, EnsureFails(c) PROVE Typed'
    <2>1. breaks' \in 0..MaxBreaks
        BY <1>2, BoundsAssumption DEF EnsureFails, Typed, TypeOK
    <2> QED BY <1>2, <2>1, EndsTyped DEF EnsureFails, Typed, TypeOK
<1>3. ASSUME NEW i \in Instances, Restart(i) PROVE Typed'
    <2>1. breaks' \in 0..MaxBreaks
        BY <1>3, BoundsAssumption DEF Restart, Typed, TypeOK
    <2>2. owed' \in [Instances -> Versions] /\ cache' \in [Instances -> SUBSET Entry]
        BY <1>3, BoundsAssumption DEF Restart, Typed, TypeOK, Versions
    <2> QED BY <1>3, <2>1, <2>2, EndsTyped DEF Restart, Typed, TypeOK
<1> QED BY <1>1, <1>2, <1>3

\* The organiser and the scheduled call begin with nothing known of the freeze but
\* what the organiser has set.
LEMMA BeginningTyped ==
    ASSUME Typed, NEW i \in Instances,
           \/ \E t \in Time : SetFreeze(i, t)
           \/ Reveal(i)
           \/ \E c \in Crons : CronFinds(c, i)
    PROVE  Typed'
<1> USE DEF Callers
<1>1. ASSUME NEW t \in Time, SetFreeze(i, t) PROVE Typed'
    <2> DEFINE seen == [freezeAt |-> t, taken |-> None]
               r == [At(i) EXCEPT !.pc = "invalidate", !.at = now + 1, !.seen = seen]
    <2>0. now \in Time /\ now < MaxNow /\ now' = now + 1
        BY <1>1 DEF SetFreeze, Typed, TypeOK
    <2>1. now + 1 \in Time /\ now' = now + 1
        BY <2>0, BoundsAssumption DEF Time
    <2>2. seen \in Seen /\ [set |-> now + 1, freezeAt |-> t, taken |-> None] \in Row
        BY <2>1 DEF Seen, Row
    <2>3. At(i) \in Request /\ ~At(i).public
        BY QuietType DEF At
    <2>4. r \in Request /\ ~r.public /\ r.pc = "invalidate"
        BY <2>1, <2>2, <2>3 DEF Request
    <2>5. Knows(Organizer, r)
        BY <2>4 DEF Knows
    <2>6. req' = [req EXCEPT ![Organizer] = r]
        BY <1>1 DEF SetFreeze
    <2>7. req' \in [Callers -> Request] /\ KnowsSnapshot'
        BY <2>4, <2>5, <2>6, OneMoves
    <2>8. freeze' = [set |-> now + 1, freezeAt |-> t, taken |-> None]
        BY <1>1 DEF SetFreeze
    <2>9. freeze' \in Row /\ freeze'.set <= now'
        BY <2>1, <2>2, <2>8 DEF Time
    <2> QED BY <1>1, <2>1, <2>7, <2>9 DEF SetFreeze, Typed, TypeOK, SetInThePast
<1>2. ASSUME Reveal(i) PROVE Typed'
    <2> DEFINE r == [At(i) EXCEPT !.pc = "invalidate"]
    <2>1. At(i) \in Request /\ ~At(i).public
        BY QuietType DEF At
    <2>2. r \in Request /\ ~r.public /\ r.pc = "invalidate"
        BY <2>1 DEF Request
    <2>3. Knows(Organizer, r)
        BY <2>2 DEF Knows
    <2>4. req' \in [Callers -> Request] /\ KnowsSnapshot'
        BY <1>2, <2>2, <2>3, OneMoves DEF Reveal
    <2> QED BY <1>2, <2>4 DEF Reveal, Typed, TypeOK, SetInThePast
<1>3. ASSUME NEW c \in Crons, CronFinds(c, i) PROVE Typed'
    <2> DEFINE r == [At(i) EXCEPT !.pc = "check", !.at = now]
    <2>1. At(i) \in Request /\ ~At(i).public /\ now \in Time
        BY QuietType DEF At, Typed, TypeOK
    <2>2. r \in Request /\ ~r.public /\ r.pc = "check"
        BY <2>1 DEF Request
    <2>3. Knows(c, r)
        BY <2>2 DEF Knows
    <2>4. req' \in [Callers -> Request] /\ KnowsSnapshot'
        BY <1>3, <2>2, <2>3, OneMoves DEF CronFinds
    <2> QED BY <1>3, <2>4 DEF CronFinds, Typed, TypeOK, SetInThePast
<1> QED BY <1>1, <1>2, <1>3

\* The steps that concern no request.
Surroundings ==
    \/ Tick \/ SaveQuietly
    \/ \E i \in Instances : Save(i) \/ Announce(i) \/ Evict(i)

LEMMA SurroundingsTyped ==
    ASSUME Typed, Surroundings PROVE Typed'
<1>1. req' = req
    BY DEF Surroundings, Tick, SaveQuietly, Save, Announce, Evict
<1>2. KnowsSnapshot'
    BY <1>1 DEF Typed, KnowsSnapshot
<1>3. ASSUME Tick PROVE Typed'
    BY <1>2, <1>3, BoundsAssumption DEF Tick, Typed, TypeOK, SetInThePast, Row, Time
<1>4. ASSUME SaveQuietly PROVE Typed'
    BY <1>2, <1>4, BoundsAssumption DEF SaveQuietly, Typed, TypeOK, SetInThePast, Versions
<1>5. ASSUME NEW i \in Instances, Save(i) PROVE Typed'
    BY <1>2, <1>5, BoundsAssumption DEF Save, Typed, TypeOK, SetInThePast, Versions
<1>6. ASSUME NEW i \in Instances, Announce(i) PROVE Typed'
    BY <1>2, <1>6, BoundsAssumption
       DEF Announce, Typed, TypeOK, SetInThePast, Versions, Larger
<1>7. ASSUME NEW i \in Instances, Evict(i) PROVE Typed'
    <2>1. cache' \in [Instances -> SUBSET Entry]
        BY <1>7 DEF Evict, Typed, TypeOK
    <2> QED BY <1>2, <1>7, <2>1 DEF Evict, Typed, TypeOK, SetInThePast
<1> QED BY <1>3, <1>4, <1>5, <1>6, <1>7 DEF Surroundings

LEMMA InitTyped == Init => Typed
<1> SUFFICES ASSUME Init PROVE Typed
    OBVIOUS
<1>1. 0 \in Time /\ 0 \in Versions /\ 0 \in 0..MaxBreaks
    BY BoundsAssumption DEF Time, Versions
<1>2. TypeOK
    BY <1>1, SomeInstance DEF Init, TypeOK
<1>3. KnowsSnapshot
    BY QuietKnows DEF Init, KnowsSnapshot
<1> QED BY <1>2, <1>3 DEF Init, Typed, SetInThePast

LEMMA NextTyped == Typed /\ [Next]_vars => Typed'
<1> SUFFICES ASSUME Typed, [Next]_vars PROVE Typed'
    OBVIOUS
<1>1. CASE UNCHANGED vars
    BY <1>1 DEF vars, Typed, TypeOK, KnowsSnapshot, SetInThePast
<1>2. CASE Surroundings
    BY <1>2, SurroundingsTyped
<1>3. ASSUME NEW i \in Instances,
             Reveal(i) \/ (\E c \in Crons : CronFinds(c, i)) \/ \E t \in Time : SetFreeze(i, t)
      PROVE  Typed'
    BY <1>3, BeginningTyped
<1>4. ASSUME NEW c \in Callers, Ensure(c) PROVE Typed'
    BY <1>4, CheckTyped, StoreTyped, RereadTyped, InvalidateTyped DEF Ensure
<1>5. ASSUME NEW r \in Readers, Serve(r) PROVE Typed'
    BY <1>5, FindTyped, HitTyped, JoinTyped, MissTyped, LoadTyped, SettleTyped DEF Serve
<1>6. ASSUME NEW r \in Readers, NEW i \in Instances, Arrive(r, i) PROVE Typed'
    BY <1>6, ArriveTyped
<1>7. ASSUME \/ \E r \in Readers : LoadFails(r)
             \/ \E c \in Callers : EnsureFails(c)
             \/ \E i \in Instances : Restart(i)
      PROVE  Typed'
    BY <1>7, FailureTyped
<1> QED BY <1>1, <1>2, <1>3, <1>4, <1>5, <1>6, <1>7 DEF Next, Surroundings

LEMMA AlwaysTyped == Spec => []Typed
BY InitTyped, NextTyped, PTL DEF Spec

\* Every variable stays in its type: no request goes on with a freeze that has no
\* snapshot, so the key of a view can always be made (publicLeaderboard.server.ts:12).
THEOREM TypeCorrect == Spec => []TypeOK
BY AlwaysTyped, PTL DEF Typed

-----------------------------------------------------------------------------
(* The snapshot of a freeze.                                                *)

\* Once a freeze has a snapshot it keeps it until an organiser lifts it or sets it
\* anew, however many requests and scheduled calls ensure it at once
\* (leaderboardFreeze.server.ts:55-69).
THEOREM SnapshotHolds == Spec => SnapshotStays
<1>1. Typed /\ [Next]_vars =>
        [(freeze # None /\ freeze.taken # None /\ freeze' # None /\ freeze'.set = freeze.set)
           => freeze' = freeze]_vars
    <2>1. SUFFICES ASSUME Typed, Next, freeze # None, freeze.taken # None, freeze' # None,
                          freeze'.set = freeze.set
                   PROVE  freeze' = freeze
        BY DEF vars
    <2>2. ASSUME NEW i \in Instances, NEW t \in Time, SetFreeze(i, t) PROVE FALSE
        <3>1. freeze.set \in Nat /\ freeze.set <= now /\ now \in Nat
            BY <2>1, FreezeRow, BoundsAssumption DEF Typed, TypeOK, SetInThePast, Time
        <3>2. freeze' = [set |-> now + 1, freezeAt |-> t, taken |-> None]
            BY <2>2 DEF SetFreeze
        <3> QED BY <2>1, <3>1, <3>2
    <2>3. ASSUME NEW i \in Instances, Reveal(i) PROVE FALSE
        BY <2>1, <2>3 DEF Reveal
    <2>4. ASSUME NEW c \in Callers, Ensure(c) \/ EnsureFails(c) PROVE freeze' = freeze
        BY <2>1, <2>4 DEF Ensure, EnsureFails, Check, Store, Reread, Invalidate
    <2>5. ASSUME NEW r \in Readers, Serve(r) \/ LoadFails(r) PROVE freeze' = freeze
        BY <2>5 DEF Serve, LoadFails, Find, Hit, Join, Miss, Load, Settle
    <2>6. ASSUME NEW i \in Instances,
                 \/ Save(i) \/ Announce(i) \/ Evict(i) \/ Restart(i)
                 \/ \E c \in Crons : CronFinds(c, i)
                 \/ \E r \in Readers : Arrive(r, i)
          PROVE  freeze' = freeze
        BY <2>6 DEF Save, Announce, Evict, Restart, CronFinds, Arrive
    <2>7. ASSUME Tick \/ SaveQuietly PROVE freeze' = freeze
        BY <2>7 DEF Tick, SaveQuietly
    <2> QED BY <2>1, <2>2, <2>3, <2>4, <2>5, <2>6, <2>7 DEF Next
<1> QED BY <1>1, AlwaysTyped, PTL DEF Spec, SnapshotStays

-----------------------------------------------------------------------------
(* The loads.                                                               *)

Busy == {"load", "settle", "joined"}

\* A request that has nothing to do with a load takes a step, and entries may go.
AsideStep(c) ==
    /\ req[c].pc \notin Busy /\ req'[c].pc \notin Busy
    /\ req'[c].floor <= floor[req'[c].inst]
    /\ \A d \in Callers \ {c} : req'[d] = req[d]
    /\ \A i \in Instances : cache'[i] \subseteq cache[i]
    /\ UNCHANGED <<live, owed, floor>>

LEMMA AsideKeeps ==
    ASSUME Inv, Typed', NEW c \in Callers, AsideStep(c)
    PROVE  LoadsRun' /\ Fresh'
<1>1. \A d \in Callers : d # c => req'[d] = req[d]
    BY DEF AsideStep
<1>2. \A q \in Readers, i \in Instances : Loading(q, i) => q # c /\ Loading(q, i)'
    BY <1>1 DEF AsideStep, Busy, Loading, Callers
<1>3. LoadsRun'
    <2>1. ASSUME NEW i \in Instances, NEW e \in cache'[i]
          PROVE  /\ e.load # None => e.view = None /\ Loading(e.load, i)'
                 /\ e.view = None => e.load # None
        <3>1. /\ e.load # None => e.view = None /\ Loading(e.load, i)
              /\ e.view = None => e.load # None
            BY DEF Inv, LoadsRun, AsideStep
        <3> QED BY <1>2, <3>1 DEF Loading
    <2>2. ASSUME NEW q \in Readers, req'[q].pc = "joined"
          PROVE  Loading(req[q].load, req[q].inst)'
        <3>1. q \in Callers /\ q # c /\ req'[q] = req[q]
            BY <1>1, <2>2 DEF AsideStep, Busy, Callers
        <3>2. Loading(req[q].load, req[q].inst) /\ req[q].inst \in Instances
            BY <2>2, <3>1 DEF Inv, LoadsRun, Typed, TypeOK, Request
        <3> QED BY <1>2, <3>1, <3>2 DEF Loading
    <2> QED BY <2>1, <2>2 DEF LoadsRun, Loading
<1>4. Fresh'
    <2>1. \A i \in Instances : floor'[i] <= live' /\ owed'[i] <= live'
        BY DEF AsideStep, Inv, Fresh
    <2>2. \A d \in Callers : req'[d].floor <= floor'[req'[d].inst]
        BY <1>1 DEF AsideStep, Inv, Fresh
    <2>3. ASSUME NEW i \in Instances, NEW e \in cache'[i]
          PROVE  /\ e.load = None /\ e.view # None => NotOlder(e.view, floor'[i])
                 /\ e.load # None /\ req'[e.load].pc = "settle"
                      => NotOlder(req'[e.load].view, floor'[i])
        <3>1. e \in cache[i] /\ floor' = floor
            BY DEF AsideStep
        <3>2. e.load # None => e.load \in Readers /\ e.load # c /\ e.load \in Callers
            BY <1>2, <3>1 DEF Inv, LoadsRun, Loading, Callers
        <3> QED BY <1>1, <3>1, <3>2 DEF Inv, Fresh
    <2>4. ASSUME NEW p \in Readers, NEW q \in Readers, req'[p].pc = "settle", (q \in Waiting(p))'
          PROVE  NotOlder(req'[p].view, req'[q].floor)
        <3>1. p \in Callers /\ q \in Callers
            BY DEF Callers
        <3>2. req'[p] = req[p] /\ req'[q] = req[q] /\ q \in Waiting(p)
            BY <1>1, <2>4, <3>1 DEF AsideStep, Busy, Waiting
        <3> QED BY <2>4, <3>2 DEF Inv, Fresh
    <2> QED BY <2>1, <2>2, <2>3, <2>4 DEF Fresh, NotOlder
<1> QED BY <1>3, <1>4

LEMMA QuietIsAside ==
    ASSUME Inv
    PROVE  Quiet.pc \notin Busy /\ Quiet.floor = 0 /\ Quiet.floor <= floor[Quiet.inst]
<1>1. AnyInstance \in Instances
    BY InstancesAssumption DEF AnyInstance
<1>2. Quiet.pc = "idle" /\ Quiet.floor = 0 /\ Quiet.inst = AnyInstance
    BY DEF Quiet, At
<1>3. floor[AnyInstance] \in Versions
    BY <1>1 DEF Inv, Typed, TypeOK
<1> QED BY <1>2, <1>3, BoundsAssumption DEF Busy, Versions

LEMMA OnwardIsAside ==
    ASSUME Inv, NEW c \in Callers, NEW seen \in Seen \cup {None}, Informed(c, seen)
    PROVE  Onward(c, seen).pc \notin Busy
           /\ Onward(c, seen).floor <= floor[Onward(c, seen).inst]
<1>1. CASE Onward(c, seen).pc = "lookup"
    <2>1. Onward(c, seen).floor = req[c].floor /\ Onward(c, seen).inst = req[c].inst
        BY <1>1, OnwardType DEF Inv
    <2> QED BY <1>1, <2>1 DEF Busy, Inv, Fresh
<1>2. CASE Onward(c, seen).pc = "idle"
    <2>1. Onward(c, seen) = Quiet
        BY <1>2, OnwardType DEF Inv
    <2> QED BY <2>1, QuietIsAside
<1> QED BY <1>1, <1>2, OnwardType DEF Inv

\* One request changes to another of the same instance and floor, or to one that
\* goes on, and no entry comes.
LEMMA AsideByType ==
    ASSUME Inv, NEW c \in Callers, NEW r \in Request, req' = [req EXCEPT ![c] = r],
           req[c].pc \notin Busy, r.pc \notin Busy, r.floor <= floor[r.inst],
           \A i \in Instances : cache'[i] \subseteq cache[i],
           UNCHANGED <<live, owed, floor>>
    PROVE  AsideStep(c)
<1>1. \A d \in Callers : req'[d] = IF d = c THEN r ELSE req[d]
    BY DEF Inv, Typed, TypeOK
<1> QED BY <1>1 DEF AsideStep

LEMMA EnsureIsAside ==
    ASSUME Inv, NEW c \in Callers, Ensure(c) PROVE AsideStep(c)
<1>1. req[c] \in Request /\ req[c].floor <= floor[req[c].inst]
    BY DEF Inv, Typed, TypeOK, Fresh
<1> DEFINE seen == [freezeAt |-> freeze.freezeAt, taken |-> freeze.taken]
<1>2. CASE Check(c)
    <2>1. CASE ~Due(req[c].at)
        <3>1. req' = [req EXCEPT ![c] = Onward(c, None)] /\ Informed(c, None)
            BY <1>2, <2>1 DEF Check, Informed
        <3> QED BY <1>2, <3>1, OnwardIsAside, OnwardKnows, AsideByType DEF Check, Busy, Inv
    <2>2. CASE Due(req[c].at)
        <3>1. seen \in Seen
            BY <2>2, FreezeRow DEF Due, Inv, Typed
        <3>2. PICK r : /\ r = IF freeze.taken = None
                              THEN [req[c] EXCEPT !.pc = "store", !.seen = seen, !.of = live]
                              ELSE [req[c] EXCEPT !.pc = "invalidate", !.seen = seen]
                       /\ req' = [req EXCEPT ![c] = r]
            BY <1>2, <2>2 DEF Check
        <3>3. live \in Versions
            BY DEF Inv, Typed, TypeOK
        <3>4. r \in Request /\ r.pc \notin Busy /\ r.floor = req[c].floor /\ r.inst = req[c].inst
            BY <1>1, <3>1, <3>2, <3>3 DEF Request, Busy
        <3> QED BY <1>1, <1>2, <3>2, <3>4, AsideByType DEF Check, Busy
    <2> QED BY <2>1, <2>2
<1>3. CASE Store(c)
    <2>1. \A d \in Callers \ {c} : req'[d] = req[d]
        BY <1>3 DEF Store, Inv, Typed, TypeOK
    <2>2. req'[c].pc \in {"invalidate", "reread"}
          /\ req'[c].floor = req[c].floor /\ req'[c].inst = req[c].inst
        BY <1>1, <1>3 DEF Store, Inv, Typed, TypeOK, Request
    <2> QED BY <1>1, <1>3, <2>1, <2>2 DEF Store, AsideStep, Busy
<1>4. CASE Reread(c)
    <2>1. CASE freeze = None
        <3>1. req' = [req EXCEPT ![c] = Onward(c, None)] /\ Informed(c, None)
            BY <1>4, <2>1 DEF Reread, Informed
        <3> QED BY <1>4, <3>1, OnwardIsAside, OnwardKnows, AsideByType DEF Reread, Busy, Inv
    <2>2. CASE freeze # None
        <3>1. \A d \in Callers \ {c} : req'[d] = req[d]
            BY <1>4, <2>2 DEF Reread, Inv, Typed, TypeOK
        <3>2. req'[c].pc = "invalidate"
              /\ req'[c].floor = req[c].floor /\ req'[c].inst = req[c].inst
            BY <1>1, <1>4, <2>2 DEF Reread, Inv, Typed, TypeOK, Request
        <3> QED BY <1>1, <1>4, <3>1, <3>2 DEF Reread, AsideStep, Busy
    <2> QED BY <2>1, <2>2
<1>5. CASE Invalidate(c)
    <2>1. \A i \in Instances : cache'[i] \subseteq cache[i]
        BY <1>1, <1>5 DEF Invalidate, Inv, Typed, TypeOK, Request
    <2> DEFINE again == /\ c = Organizer /\ req[c].seen # None /\ req[c].seen.taken = None
                        /\ req[c].seen.freezeAt <= req[c].at
    <2>2. CASE again
        <3>1. req' = [req EXCEPT ![c] = [req[c] EXCEPT !.pc = "check", !.seen = None]]
            BY <1>5, <2>2 DEF Invalidate
        <3>2. [req[c] EXCEPT !.pc = "check", !.seen = None] \in Request
            BY <1>1 DEF Request
        <3> QED BY <1>1, <1>5, <2>1, <3>1, <3>2, AsideByType DEF Invalidate, Busy, Request
    <2>3. CASE ~again
        <3>1. req' = [req EXCEPT ![c] = Onward(c, req[c].seen)]
            BY <1>5, <2>3 DEF Invalidate
        <3>2. req[c].seen \in Seen \cup {None} /\ Informed(c, req[c].seen)
            BY <1>1, <1>5 DEF Invalidate, Request, Inv, Typed, KnowsSnapshot, Knows, Informed
        <3> QED BY <1>5, <2>1, <3>1, <3>2, OnwardIsAside, OnwardKnows, AsideByType
                DEF Invalidate, Busy, Inv
    <2> QED BY <2>2, <2>3
<1> QED BY <1>2, <1>3, <1>4, <1>5 DEF Ensure

LEMMA ReaderIsAside ==
    ASSUME Inv, NEW q \in Readers, Find(q) \/ Hit(q) \/ \E i \in Instances : Arrive(q, i)
    PROVE  AsideStep(q)
<1> USE DEF Callers
<1>1. req[q] \in Request /\ req[q].floor <= floor[req[q].inst] /\ Knows(q, req[q])
    BY DEF Inv, Typed, TypeOK, Fresh, KnowsSnapshot
<1>2. CASE Find(q)
    <2> DEFINE seen == [freezeAt |-> freeze.freezeAt, taken |-> freeze.taken]
    <2>1. CASE ~Due(req[q].at)
        <3>1. req' = [req EXCEPT ![q] = Onward(q, None)] /\ Informed(q, None)
            BY <1>2, <2>1 DEF Find, Informed
        <3> QED BY <1>2, <3>1, OnwardIsAside, OnwardKnows, AsideByType DEF Find, Busy, Inv
    <2>2. CASE Due(req[q].at) /\ freeze.taken = None
        <3>1. req' = [req EXCEPT ![q] = [req[q] EXCEPT !.pc = "check"]]
            BY <1>2, <2>2 DEF Find
        <3>2. [req[q] EXCEPT !.pc = "check"] \in Request
            BY <1>1 DEF Request
        <3> QED BY <1>1, <1>2, <3>1, <3>2, AsideByType DEF Find, Busy, Request
    <2>3. CASE Due(req[q].at) /\ freeze.taken # None
        <3>1. seen \in Seen /\ seen.taken \in Snapshot
            BY <2>3, FreezeRow DEF Due, Inv, Typed
        <3>2. req' = [req EXCEPT ![q] = Onward(q, seen)] /\ Informed(q, seen)
            BY <1>2, <2>3, <3>1 DEF Find, Informed
        <3> QED BY <1>2, <3>1, <3>2, OnwardIsAside, OnwardKnows, AsideByType
                DEF Find, Busy, Inv
    <2> QED BY <2>1, <2>2, <2>3
<1>3. CASE Hit(q)
    <2>1. PICK e \in Hits(q) : e.view # None /\ req' = [req EXCEPT ![q] = Answer(e.view)]
        BY <1>3 DEF Hit
    <2>2. e.view \in View \cup {None}
        BY <1>1 DEF Hits, Inv, Typed, TypeOK, Request, Entry
    <2>3. /\ Answer(e.view) \in Request /\ Answer(e.view).pc = "done"
          /\ Answer(e.view).floor <= floor[Answer(e.view).inst]
        BY <2>2, AnswerType, QuietIsAside DEF Quiet, At
    <2> QED BY <1>3, <2>1, <2>3, AsideByType DEF Hit, Busy
<1>4. ASSUME NEW i \in Instances, Arrive(q, i) PROVE AsideStep(q)
    <2>1. floor[i] \in Versions
        BY DEF Inv, Typed, TypeOK
    <2>2. At(i) \in Request /\ At(i).inst = i
        BY QuietType DEF At
    <2>3. /\ \A d \in Callers \ {q} : req'[d] = req[d]
          /\ req'[q].pc = "find" /\ req'[q].floor = floor[i] /\ req'[q].inst = i
        BY <1>4, <2>2 DEF Arrive, Inv, Typed, TypeOK, Request
    <2>4. floor[i] <= floor[i]
        BY <2>1, BoundsAssumption DEF Versions
    <2> QED BY <1>4, <2>3, <2>4 DEF Arrive, AsideStep, Busy
<1> QED BY <1>2, <1>3, <1>4

LEMMA BeginningIsAside ==
    ASSUME Inv, NEW i \in Instances
    PROVE  /\ (\E t \in Time : SetFreeze(i, t)) \/ Reveal(i) => AsideStep(Organizer)
           /\ \A c \in Crons : CronFinds(c, i) => AsideStep(c)
           /\ \A c \in Callers : EnsureFails(c) => AsideStep(c)
<1> USE DEF Callers
<1>1. At(i) \in Request /\ At(i).inst = i /\ At(i).floor = 0
    BY QuietType DEF At
<1>2. floor[i] \in Nat
    BY BoundsAssumption DEF Inv, Typed, TypeOK, Versions
<1>3. ASSUME NEW t \in Time, SetFreeze(i, t) PROVE AsideStep(Organizer)
    <2>1. /\ \A d \in Callers \ {Organizer} : req'[d] = req[d]
          /\ req'[Organizer].pc = "invalidate" /\ req'[Organizer].floor = 0
          /\ req'[Organizer].inst = i
        BY <1>1, <1>3 DEF SetFreeze, Inv, Typed, TypeOK, Request
    <2> QED BY <1>2, <1>3, <2>1 DEF SetFreeze, AsideStep, Busy
<1>4. ASSUME Reveal(i) PROVE AsideStep(Organizer)
    <2>1. /\ \A d \in Callers \ {Organizer} : req'[d] = req[d]
          /\ req'[Organizer].pc = "invalidate" /\ req'[Organizer].floor = 0
          /\ req'[Organizer].inst = i
        BY <1>1, <1>4 DEF Reveal, Inv, Typed, TypeOK, Request
    <2> QED BY <1>2, <1>4, <2>1 DEF Reveal, AsideStep, Busy
<1>5. ASSUME NEW c \in Crons, CronFinds(c, i) PROVE AsideStep(c)
    <2>1. /\ \A d \in Callers \ {c} : req'[d] = req[d]
          /\ req'[c].pc = "check" /\ req'[c].floor = 0 /\ req'[c].inst = i
        BY <1>1, <1>5 DEF CronFinds, Inv, Typed, TypeOK, Request
    <2> QED BY <1>2, <1>5, <2>1 DEF CronFinds, AsideStep, Busy
<1>6. ASSUME NEW c \in Callers, EnsureFails(c) PROVE AsideStep(c)
    <2>1. /\ \A d \in Callers \ {c} : req'[d] = req[d]
          /\ req'[c] = Quiet
        BY <1>6 DEF EnsureFails, Ends
    <2> QED BY <1>6, <2>1, QuietIsAside DEF EnsureFails, AsideStep, Busy
<1> QED BY <1>3, <1>4, <1>5, <1>6

\* A reader joins a load that runs, and whose view is not older than what had been
\* announced when the reader came, because its entry is still there.
LEMMA JoinKeeps ==
    ASSUME Inv, Typed', NEW q \in Readers, Join(q)
    PROVE  LoadsRun' /\ Fresh'
<1>1. q \in Callers /\ req[q] \in Request /\ req[q].pc = "lookup" /\ req[q].inst \in Instances
    BY DEF Join, Callers, Inv, Typed, TypeOK, Request
<1> DEFINE i == req[q].inst
<1>2. PICK e \in cache[i] :
         /\ e.view = None
         /\ req' = [req EXCEPT ![q].pc = "joined", ![q].load = e.load, ![q].seen = None]
    BY DEF Join, Hits
<1>3. /\ \A d \in Callers \ {q} : req'[d] = req[d]
      /\ req'[q].pc = "joined" /\ req'[q].load = e.load
      /\ req'[q].inst = i /\ req'[q].floor = req[q].floor
    BY <1>1, <1>2 DEF Inv, Typed, TypeOK, Request
<1>4. UNCHANGED <<cache, live, owed, floor>>
    BY DEF Join
<1>5. \A r \in Readers : \A j \in Instances :
         Loading(r, j) => r # q /\ r \in Callers /\ req'[r] = req[r] /\ Loading(r, j)'
    BY <1>1, <1>3 DEF Loading, Callers
<1>6. e.load # None
    BY <1>1, <1>2 DEF Inv, LoadsRun
<1>7. Loading(e.load, i) /\ e.load \in Readers
    BY <1>1, <1>2, <1>6 DEF Inv, LoadsRun, Loading
<1>8. LoadsRun'
    <2>1. ASSUME NEW j \in Instances, NEW f \in cache'[j]
          PROVE  /\ f.load # None => f.view = None /\ Loading(f.load, j)'
                 /\ f.view = None => f.load # None
        <3>1. /\ f.load # None => f.view = None /\ Loading(f.load, j)
              /\ f.view = None => f.load # None
            BY <1>4 DEF Inv, LoadsRun
        <3> QED BY <1>5, <3>1 DEF Loading
    <2>2. ASSUME NEW p \in Readers, req'[p].pc = "joined"
          PROVE  Loading(req[p].load, req[p].inst)'
        <3>1. CASE p = q
            BY <1>1, <1>3, <1>5, <1>7, <3>1 DEF Loading
        <3>2. CASE p # q
            <4>1. p \in Callers /\ req'[p] = req[p] /\ req[p].inst \in Instances
                BY <1>3, <3>2 DEF Callers, Inv, Typed, TypeOK, Request
            <4>2. Loading(req[p].load, req[p].inst)
                BY <2>2, <4>1 DEF Inv, LoadsRun
            <4> QED BY <1>5, <4>1, <4>2 DEF Loading
        <3> QED BY <3>1, <3>2
    <2> QED BY <2>1, <2>2 DEF LoadsRun, Loading
<1>9. Fresh'
    <2>1. \A j \in Instances : floor'[j] <= live' /\ owed'[j] <= live'
        BY <1>4 DEF Inv, Fresh
    <2>2. \A d \in Callers : req'[d].floor <= floor'[req'[d].inst]
        BY <1>1, <1>3, <1>4 DEF Inv, Fresh
    <2>3. ASSUME NEW j \in Instances, NEW f \in cache'[j]
          PROVE  /\ f.load = None /\ f.view # None => NotOlder(f.view, floor'[j])
                 /\ f.load # None /\ req'[f.load].pc = "settle"
                      => NotOlder(req'[f.load].view, floor'[j])
        <3>1. f \in cache[j] /\ floor' = floor
            BY <1>4
        <3>2. f.load # None => f.load \in Readers /\ req'[f.load] = req[f.load]
            BY <1>5, <3>1 DEF Inv, LoadsRun, Loading
        <3> QED BY <3>1, <3>2 DEF Inv, Fresh
    <2>4. ASSUME NEW p \in Readers, NEW r \in Readers, req'[p].pc = "settle", (r \in Waiting(p))'
          PROVE  NotOlder(req'[p].view, req'[r].floor)
        <3>1. p # q /\ p \in Callers /\ req'[p] = req[p]
            BY <1>3, <2>4 DEF Callers
        <3>2. CASE r = q
            <4>1. p = e.load
                BY <1>3, <2>4, <3>1, <3>2 DEF Waiting
            <4>2. NotOlder(req[p].view, floor[i])
                BY <1>1, <1>6, <2>4, <3>1, <4>1 DEF Inv, Fresh
            <4>3. req[q].floor <= floor[i] /\ req[q].floor \in Nat /\ floor[i] \in Nat
                BY <1>1, BoundsAssumption DEF Inv, Fresh, Typed, TypeOK, Request, Versions
            <4>4. NotOlder(req[p].view, req[q].floor)
                BY <4>2, <4>3, BoundsAssumption DEF NotOlder, Versions
            <4> QED BY <1>3, <3>1, <3>2, <4>4
        <3>3. CASE r # q
            <4>1. req'[r] = req[r] /\ r \in Waiting(p)
                BY <1>3, <2>4, <3>1, <3>3 DEF Waiting, Callers
            <4> QED BY <2>4, <3>1, <4>1 DEF Inv, Fresh
        <3> QED BY <3>2, <3>3
    <2> QED BY <2>1, <2>2, <2>3, <2>4 DEF Fresh, NotOlder
<1> QED BY <1>8, <1>9

\* A load begins, with the only entry of its instance.
LEMMA MissKeeps ==
    ASSUME Inv, Typed', NEW q \in Readers, Miss(q)
    PROVE  LoadsRun' /\ Fresh'
<1>1. q \in Callers /\ req[q] \in Request /\ req[q].pc = "lookup" /\ req[q].inst \in Instances
    BY DEF Miss, Callers, Inv, Typed, TypeOK, Request
<1> DEFINE i == req[q].inst
           e == [key |-> VersionOf(req[q].seen), load |-> q, view |-> None]
<1>2. /\ \A d \in Callers \ {q} : req'[d] = req[d]
      /\ req'[q].pc = "load" /\ req'[q].inst = i /\ req'[q].floor = req[q].floor
    BY <1>1 DEF Miss, Inv, Typed, TypeOK, Request
<1>3. /\ cache'[i] = {e} /\ \A j \in Instances \ {i} : cache'[j] = cache[j]
      /\ UNCHANGED <<live, owed, floor>>
    BY <1>1 DEF Miss, Inv, Typed, TypeOK
<1>4. e.load = q /\ e.view = None /\ q # None
    BY NoneAssumption
<1>5. \A r \in Readers : \A j \in Instances :
         Loading(r, j) => r # q /\ r \in Callers /\ req'[r] = req[r] /\ Loading(r, j)'
    BY <1>1, <1>2 DEF Loading, Callers
<1> HIDE DEF e
<1>7. LoadsRun'
    <2>1. ASSUME NEW j \in Instances, NEW f \in cache'[j]
          PROVE  /\ f.load # None => f.view = None /\ Loading(f.load, j)'
                 /\ f.view = None => f.load # None
        <3>1. CASE j = i
            BY <1>2, <1>3, <1>4, <3>1 DEF Loading
        <3>2. CASE j # i
            <4>1. /\ f.load # None => f.view = None /\ Loading(f.load, j)
                  /\ f.view = None => f.load # None
                BY <1>3, <3>2 DEF Inv, LoadsRun
            <4> QED BY <1>5, <4>1 DEF Loading
        <3> QED BY <3>1, <3>2
    <2>2. ASSUME NEW p \in Readers, req'[p].pc = "joined"
          PROVE  Loading(req[p].load, req[p].inst)'
        <3>1. p \in Callers /\ req'[p] = req[p] /\ req[p].inst \in Instances
            BY <1>2, <2>2 DEF Callers, Inv, Typed, TypeOK, Request
        <3>2. Loading(req[p].load, req[p].inst)
            BY <2>2, <3>1 DEF Inv, LoadsRun
        <3> QED BY <1>5, <3>1, <3>2 DEF Loading
    <2> QED BY <2>1, <2>2 DEF LoadsRun, Loading
<1>8. Fresh'
    <2>1. \A j \in Instances : floor'[j] <= live' /\ owed'[j] <= live'
        BY <1>3 DEF Inv, Fresh
    <2>2. \A d \in Callers : req'[d].floor <= floor'[req'[d].inst]
        BY <1>1, <1>2, <1>3 DEF Inv, Fresh
    <2>3. ASSUME NEW j \in Instances, NEW f \in cache'[j]
          PROVE  /\ f.load = None /\ f.view # None => NotOlder(f.view, floor'[j])
                 /\ f.load # None /\ req'[f.load].pc = "settle"
                      => NotOlder(req'[f.load].view, floor'[j])
        <3>1. CASE j = i
            BY <1>2, <1>3, <1>4, <3>1
        <3>2. CASE j # i
            <4>1. f \in cache[j] /\ floor' = floor
                BY <1>3, <3>2
            <4>2. f.load # None => f.load \in Readers /\ req'[f.load] = req[f.load]
                BY <1>5, <4>1 DEF Inv, LoadsRun, Loading
            <4> QED BY <4>1, <4>2 DEF Inv, Fresh
        <3> QED BY <3>1, <3>2
    <2>4. ASSUME NEW p \in Readers, NEW r \in Readers, req'[p].pc = "settle", (r \in Waiting(p))'
          PROVE  NotOlder(req'[p].view, req'[r].floor)
        <3>1. p # q /\ p \in Callers /\ req'[p] = req[p]
            BY <1>2, <2>4 DEF Callers
        <3>2. r # q /\ r \in Callers /\ req'[r] = req[r]
            BY <1>2, <2>4, <3>1 DEF Waiting, Callers
        <3>3. r \in Waiting(p)
            BY <2>4, <3>1, <3>2 DEF Waiting
        <3> QED BY <2>4, <3>1, <3>2, <3>3 DEF Inv, Fresh
    <2> QED BY <2>1, <2>2, <2>3, <2>4 DEF Fresh, NotOlder
<1> QED BY <1>7, <1>8

\* A load reads: what it has read is as new as everything announced so far.
LEMMA LoadKeeps ==
    ASSUME Inv, Typed', NEW q \in Readers, Load(q)
    PROVE  LoadsRun' /\ Fresh'
<1>1. q \in Callers /\ req[q] \in Request /\ req[q].pc = "load" /\ live \in Versions
    BY DEF Load, Callers, Inv, Typed, TypeOK
<1> DEFINE v == ViewOf(req[q].seen, live)
<1>2. /\ \A d \in Callers \ {q} : req'[d] = req[d]
      /\ req'[q].pc = "settle" /\ req'[q].inst = req[q].inst /\ req'[q].floor = req[q].floor
      /\ req'[q].view = v
    BY <1>1 DEF Load, Inv, Typed, TypeOK, Request
<1>3. UNCHANGED <<cache, live, owed, floor>>
    BY DEF Load
<1>4. \A n \in Nat : n <= live => NotOlder(v, n)
    BY <1>1, BoundsAssumption DEF ViewOf, NotOlder, Versions
<1>5. \A r \in Readers : \A j \in Instances : Loading(r, j) => r \in Callers /\ Loading(r, j)'
    BY <1>1, <1>2 DEF Loading, Callers
<1>6. \A d \in Callers : req'[d].inst = req[d].inst /\ req'[d].floor = req[d].floor
                         /\ (req'[d].pc = "joined" => d # q /\ req'[d] = req[d])
    BY <1>2
<1> HIDE DEF v
<1>7. LoadsRun'
    <2>1. ASSUME NEW j \in Instances, NEW f \in cache'[j]
          PROVE  /\ f.load # None => f.view = None /\ Loading(f.load, j)'
                 /\ f.view = None => f.load # None
        <3>1. /\ f.load # None => f.view = None /\ Loading(f.load, j)
              /\ f.view = None => f.load # None
            BY <1>3 DEF Inv, LoadsRun
        <3> QED BY <1>5, <3>1 DEF Loading
    <2>2. ASSUME NEW p \in Readers, req'[p].pc = "joined"
          PROVE  Loading(req[p].load, req[p].inst)'
        <3>1. p \in Callers /\ req'[p] = req[p] /\ req[p].inst \in Instances
            BY <1>6, <2>2 DEF Callers, Inv, Typed, TypeOK, Request
        <3>2. Loading(req[p].load, req[p].inst)
            BY <2>2, <3>1 DEF Inv, LoadsRun
        <3> QED BY <1>5, <3>1, <3>2 DEF Loading
    <2> QED BY <2>1, <2>2 DEF LoadsRun, Loading
<1>8. Fresh'
    <2>1. \A j \in Instances : floor'[j] <= live' /\ owed'[j] <= live'
        BY <1>3 DEF Inv, Fresh
    <2>2. \A d \in Callers : req'[d].floor <= floor'[req'[d].inst]
        BY <1>3, <1>6 DEF Inv, Fresh
    <2>3. ASSUME NEW j \in Instances, NEW f \in cache'[j]
          PROVE  /\ f.load = None /\ f.view # None => NotOlder(f.view, floor'[j])
                 /\ f.load # None /\ req'[f.load].pc = "settle"
                      => NotOlder(req'[f.load].view, floor'[j])
        <3>1. f \in cache[j] /\ floor' = floor /\ floor[j] \in Nat /\ floor[j] <= live
            BY <1>3, BoundsAssumption DEF Inv, Fresh, Typed, TypeOK, Versions
        <3>2. f.load # None => f.load \in Readers /\ f.load \in Callers
            BY <3>1 DEF Inv, LoadsRun, Loading, Callers
        <3> QED BY <1>2, <1>4, <3>1, <3>2 DEF Inv, Fresh
    <2>4. ASSUME NEW p \in Readers, NEW r \in Readers, req'[p].pc = "settle", (r \in Waiting(p))'
          PROVE  NotOlder(req'[p].view, req'[r].floor)
        <3>1. p \in Callers /\ r \in Callers /\ req'[r].floor = req[r].floor
            BY <1>6 DEF Callers
        <3>2. CASE p = q
            <4>1. req[r].floor \in Nat /\ req[r].floor <= live
                <5>1. req[r].floor \in Nat /\ req[r].inst \in Instances
                    BY <3>1, BoundsAssumption DEF Inv, Typed, TypeOK, Request, Versions
                <5>2. floor[req[r].inst] \in Nat /\ live \in Nat
                    BY <5>1, BoundsAssumption DEF Inv, Typed, TypeOK, Versions
                <5> QED BY <3>1, <5>1, <5>2 DEF Inv, Fresh
            <4> QED BY <1>2, <1>4, <3>1, <3>2, <4>1
        <3>3. CASE p # q
            <4>1. req'[p] = req[p] /\ r \in Waiting(p)
                BY <1>2, <1>6, <2>4, <3>1, <3>3 DEF Waiting
            <4> QED BY <2>4, <3>1, <4>1 DEF Inv, Fresh
        <3> QED BY <3>2, <3>3
    <2> QED BY <2>1, <2>2, <2>3, <2>4 DEF Fresh, NotOlder
<1> QED BY <1>7, <1>8

\* Some readers are answered or fail, and with them every load that they wait for.
LEMMA LoadsEnd ==
    ASSUME Inv, Typed', NEW callers,
           \A d \in Callers : d \in callers =>
              req'[d].pc \notin Busy /\ req'[d].floor <= floor[req'[d].inst],
           \A d \in Callers : d \notin callers => req'[d] = req[d],
           \A q \in Readers : req[q].pc = "joined" /\ req[q].load \in callers => q \in callers,
           \A i \in Instances : \A e \in cache'[i] :
              \/ e \in cache[i] /\ (e.load # None => e.load \notin callers)
              \/ e.load = None /\ e.view \in View /\ NotOlder(e.view, floor[i]),
           floor' = floor, live' = live,
           \A i \in Instances : owed'[i] <= live
    PROVE  LoadsRun' /\ Fresh'
<1>1. \A r \in Readers : \A j \in Instances :
         Loading(r, j) /\ r \notin callers => r \in Callers /\ req'[r] = req[r] /\ Loading(r, j)'
    BY DEF Loading, Callers
<1>2. LoadsRun'
    <2>1. ASSUME NEW j \in Instances, NEW f \in cache'[j]
          PROVE  /\ f.load # None => f.view = None /\ Loading(f.load, j)'
                 /\ f.view = None => f.load # None
        <3>1. CASE f \in cache[j] /\ (f.load # None => f.load \notin callers)
            <4>1. /\ f.load # None => f.view = None /\ Loading(f.load, j)
                  /\ f.view = None => f.load # None
                BY <3>1 DEF Inv, LoadsRun
            <4> QED BY <1>1, <3>1, <4>1 DEF Loading
        <3>2. CASE f.load = None /\ f.view \in View
            BY <3>2, NoneAssumption
        <3> QED BY <3>1, <3>2
    <2>2. ASSUME NEW p \in Readers, req'[p].pc = "joined"
          PROVE  Loading(req[p].load, req[p].inst)'
        <3>1. p \in Callers /\ p \notin callers /\ req'[p] = req[p] /\ req[p].inst \in Instances
            BY <2>2 DEF Callers, Busy, Inv, Typed, TypeOK, Request
        <3>2. Loading(req[p].load, req[p].inst) /\ req[p].load \notin callers
            BY <2>2, <3>1 DEF Inv, LoadsRun
        <3> QED BY <1>1, <3>1, <3>2 DEF Loading
    <2> QED BY <2>1, <2>2 DEF LoadsRun, Loading
<1>3. Fresh'
    <2>1. \A j \in Instances : floor'[j] <= live' /\ owed'[j] <= live'
        BY DEF Inv, Fresh
    <2>2. \A d \in Callers : req'[d].floor <= floor'[req'[d].inst]
        BY DEF Inv, Fresh
    <2>3. ASSUME NEW j \in Instances, NEW f \in cache'[j]
          PROVE  /\ f.load = None /\ f.view # None => NotOlder(f.view, floor'[j])
                 /\ f.load # None /\ req'[f.load].pc = "settle"
                      => NotOlder(req'[f.load].view, floor'[j])
        <3>1. CASE f \in cache[j] /\ (f.load # None => f.load \notin callers)
            <4>1. f.load # None => f.load \in Readers /\ req'[f.load] = req[f.load]
                BY <1>1, <3>1 DEF Inv, LoadsRun, Loading
            <4> QED BY <3>1, <4>1 DEF Inv, Fresh
        <3>2. CASE f.load = None /\ NotOlder(f.view, floor[j])
            BY <3>2
        <3> QED BY <3>1, <3>2
    <2>4. ASSUME NEW p \in Readers, NEW r \in Readers, req'[p].pc = "settle", (r \in Waiting(p))'
          PROVE  NotOlder(req'[p].view, req'[r].floor)
        <3>1. p \in Callers /\ p \notin callers /\ req'[p] = req[p] /\ r \in Callers
            BY <2>4 DEF Callers, Busy
        <3>2. r \notin callers /\ req'[r] = req[r] /\ r \in Waiting(p)
            BY <2>4, <3>1 DEF Waiting, Busy
        <3> QED BY <2>4, <3>1, <3>2 DEF Inv, Fresh
    <2> QED BY <2>1, <2>2, <2>3, <2>4 DEF Fresh, NotOlder
<1> QED BY <1>2, <1>3

\* A load that runs is not waiting for another one.
LEMMA LoadsDoNotWait ==
    ASSUME Inv, NEW r \in Readers, req[r].pc \in {"load", "settle"}
    PROVE  \A q \in Readers : req[q].pc = "joined" /\ req[q].load \in Waiting(r) => q \in Waiting(r)
<1>1. SUFFICES ASSUME NEW q \in Readers, req[q].pc = "joined", req[q].load \in Waiting(r)
               PROVE  q \in Waiting(r)
    OBVIOUS
<1>2. req[q].load = r
    BY <1>1 DEF Inv, LoadsRun, Loading, Waiting
<1> QED BY <1>1, <1>2 DEF Waiting

LEMMA SettleKeeps ==
    ASSUME Inv, Typed', NEW r \in Readers, Settle(r)
    PROVE  LoadsRun' /\ Fresh'
<1>1. /\ r \in Callers /\ req[r].pc = "settle" /\ req[r].inst \in Instances
      /\ req[r].view \in View
    BY DEF Settle, Callers, Inv, Typed, TypeOK, Request, KnowsSnapshot, Knows
<1> DEFINE i == req[r].inst
           kept == {[e EXCEPT !.load = None, !.view = req[r].view] : e \in OwnEntry(r)}
<1>2. \A d \in Callers : d \in Waiting(r) =>
         req'[d].pc \notin Busy /\ req'[d].floor <= floor[req'[d].inst]
    <2>1. /\ Answer(req[r].view).pc = "done"
          /\ Answer(req[r].view).floor <= floor[Answer(req[r].view).inst]
        BY <1>1, AnswerType, QuietIsAside DEF Quiet, At
    <2> QED BY <2>1 DEF Settle, Busy
<1>3. \A d \in Callers : d \notin Waiting(r) => req'[d] = req[d]
    BY DEF Settle
<1>4. ASSUME NEW j \in Instances, NEW e \in cache'[j]
      PROVE  \/ e \in cache[j] /\ e.load \notin Waiting(r)
             \/ e.load = None /\ e.view \in View /\ NotOlder(e.view, floor[j])
    <2>1. cache' = [cache EXCEPT ![i] = (cache[i] \ OwnEntry(r)) \cup kept]
        BY DEF Settle
    <2>2. CASE e \in cache[j] /\ (j = i => e \notin OwnEntry(r))
        <3>1. e.load # None => e.view = None /\ Loading(e.load, j)
            BY <2>2 DEF Inv, LoadsRun
        <3>2. e.load # r
            BY <1>1, <2>2, <3>1, NoneAssumption DEF OwnEntry, Loading
        <3>3. e.load \notin Waiting(r)
            BY <3>1, <3>2, NoneAssumption DEF Waiting, Loading
        <3> QED BY <2>2, <3>3
    <2>3. CASE j = i /\ e \in kept
        <3>1. PICK own \in OwnEntry(r) : e = [own EXCEPT !.load = None, !.view = req[r].view]
            BY <2>3
        <3>2. own \in cache[i] /\ own \in Entry /\ own.load = r
            BY <1>1, <3>1 DEF OwnEntry, Inv, Typed, TypeOK
        <3>3. NotOlder(req[r].view, floor[i])
            BY <1>1, <3>2, NoneAssumption DEF Inv, Fresh
        <3>4. e.load = None /\ e.view = req[r].view
            BY <3>1, <3>2 DEF Entry
        <3> QED BY <1>1, <2>3, <3>3, <3>4
    <2> QED BY <1>1, <2>1, <2>2, <2>3 DEF Inv, Typed, TypeOK
<1>5. \A q \in Readers : req[q].pc = "joined" /\ req[q].load \in Waiting(r) => q \in Waiting(r)
    BY <1>1, LoadsDoNotWait
<1>6. floor' = floor /\ live' = live /\ \A j \in Instances : owed'[j] <= live
    BY DEF Settle, Inv, Fresh
<1> QED BY <1>2, <1>3, <1>4, <1>5, <1>6, LoadsEnd

LEMMA LoadFailsKeeps ==
    ASSUME Inv, Typed', NEW r \in Readers, LoadFails(r)
    PROVE  LoadsRun' /\ Fresh'
<1>1. r \in Callers /\ req[r].pc \in {"load", "settle"} /\ req[r].inst \in Instances
    BY DEF LoadFails, Callers, Inv, Typed, TypeOK, Request
<1>2. \A d \in Callers : d \in Waiting(r) =>
         req'[d].pc \notin Busy /\ req'[d].floor <= floor[req'[d].inst]
    BY QuietIsAside DEF LoadFails, Ends
<1>3. \A d \in Callers : d \notin Waiting(r) => req'[d] = req[d]
    BY DEF LoadFails, Ends
<1>4. ASSUME NEW j \in Instances, NEW e \in cache'[j]
      PROVE  e \in cache[j] /\ e.load \notin Waiting(r)
    <2>1. e \in cache[j] /\ (j = req[r].inst => e \notin OwnEntry(r))
        BY <1>1 DEF LoadFails, Inv, Typed, TypeOK
    <2>2. e.load # None => e.view = None /\ Loading(e.load, j)
        BY <2>1 DEF Inv, LoadsRun
    <2>3. e.load # r
        BY <1>1, <2>1, <2>2, NoneAssumption DEF OwnEntry, Loading
    <2> QED BY <2>1, <2>2, <2>3, NoneAssumption DEF Waiting, Loading
<1>5. \A q \in Readers : req[q].pc = "joined" /\ req[q].load \in Waiting(r) => q \in Waiting(r)
    BY <1>1, LoadsDoNotWait
<1>6. floor' = floor /\ live' = live /\ \A j \in Instances : owed'[j] <= live
    BY DEF LoadFails, Inv, Fresh
<1> QED BY <1>2, <1>3, <1>4, <1>5, <1>6, LoadsEnd

LEMMA RestartKeeps ==
    ASSUME Inv, Typed', NEW i \in Instances, Restart(i)
    PROVE  LoadsRun' /\ Fresh'
<1> DEFINE gone == {c \in Callers : req[c].inst = i}
<1>1. \A d \in Callers : d \in gone =>
         req'[d].pc \notin Busy /\ req'[d].floor <= floor[req'[d].inst]
    BY QuietIsAside DEF Restart, Ends
<1>2. \A d \in Callers : d \notin gone => req'[d] = req[d]
    BY DEF Restart, Ends
<1>3. ASSUME NEW j \in Instances, NEW e \in cache'[j]
      PROVE  e \in cache[j] /\ (e.load # None => e.load \notin gone)
    <2>1. j # i /\ e \in cache[j]
        BY DEF Restart, Inv, Typed, TypeOK
    <2>2. e.load # None => Loading(e.load, j)
        BY <2>1 DEF Inv, LoadsRun
    <2> QED BY <2>1, <2>2 DEF Loading
<1>4. \A q \in Readers : req[q].pc = "joined" /\ req[q].load \in gone => q \in gone
    BY DEF Inv, LoadsRun, Loading, Callers
<1>5. floor' = floor /\ live' = live /\ \A j \in Instances : owed'[j] <= live
    <2>1. live \in Nat
        BY BoundsAssumption DEF Inv, Typed, TypeOK, Versions
    <2> QED BY <2>1 DEF Restart, Inv, Fresh, Typed, TypeOK
<1> QED BY <1>1, <1>2, <1>3, <1>4, <1>5, LoadsEnd

\* The clock, the writes, their announcements and evictions: announcing raises what
\* the instance has announced, and empties its cache in the same step.
LEMMA SurroundingsKeep ==
    ASSUME Inv, Typed', Surroundings
    PROVE  LoadsRun' /\ Fresh'
<1> DEFINE rises ==
             /\ req' = req /\ live <= live'
             /\ \A j \in Instances : floor'[j] <= live' /\ owed'[j] <= live'
             /\ \A j \in Instances : floor[j] <= floor'[j]
             /\ \A j \in Instances : cache'[j] \subseteq cache[j]
             /\ \A j \in Instances : floor'[j] = floor[j] \/ cache'[j] = {}
<1>1. rises
    <2>0. /\ live \in Nat
          /\ \A j \in Instances : floor[j] \in Nat /\ floor[j] <= live
                                  /\ owed[j] \in Nat /\ owed[j] <= live
        BY BoundsAssumption DEF Inv, Fresh, Typed, TypeOK, Versions
    <2>1. CASE Tick
        BY <2>0, <2>1 DEF Tick
    <2>2. CASE SaveQuietly
        BY <2>0, <2>2 DEF SaveQuietly
    <2>3. ASSUME NEW i \in Instances, Save(i) PROVE rises
        BY <2>0, <2>3 DEF Save, Inv, Typed, TypeOK
    <2>4. ASSUME NEW i \in Instances, Announce(i) PROVE rises
        BY <2>0, <2>4 DEF Announce, Larger, Inv, Typed, TypeOK
    <2>5. ASSUME NEW i \in Instances, Evict(i) PROVE rises
        BY <2>0, <2>5 DEF Evict, Inv, Typed, TypeOK
    <2> QED BY <2>1, <2>2, <2>3, <2>4, <2>5 DEF Surroundings
<1>2. LoadsRun'
    BY <1>1 DEF Inv, LoadsRun, Loading
<1>3. Fresh'
    <2>1. \A d \in Callers : req'[d].floor <= floor'[req'[d].inst]
        <3>1. SUFFICES ASSUME NEW d \in Callers PROVE req[d].floor <= floor'[req[d].inst]
            BY <1>1
        <3>2. req[d].inst \in Instances /\ req[d].floor \in Nat
            BY BoundsAssumption DEF Inv, Typed, TypeOK, Request, Versions
        <3>3. floor[req[d].inst] \in Nat /\ floor'[req[d].inst] \in Nat
            BY <3>2, BoundsAssumption DEF Inv, Typed, TypeOK, Versions
        <3> QED BY <1>1, <3>2, <3>3 DEF Inv, Fresh
    <2>2. ASSUME NEW j \in Instances, NEW f \in cache'[j]
          PROVE  /\ f.load = None /\ f.view # None => NotOlder(f.view, floor'[j])
                 /\ f.load # None /\ req'[f.load].pc = "settle"
                      => NotOlder(req'[f.load].view, floor'[j])
        BY <1>1 DEF Inv, Fresh
    <2>3. ASSUME NEW p \in Readers, NEW r \in Readers, req'[p].pc = "settle", (r \in Waiting(p))'
          PROVE  NotOlder(req'[p].view, req'[r].floor)
        BY <1>1, <2>3 DEF Inv, Fresh, Waiting
    <2> QED BY <1>1, <2>1, <2>2, <2>3 DEF Fresh, NotOlder
<1> QED BY <1>2, <1>3

LEMMA InitInv == Init => Inv
<1> SUFFICES ASSUME Init PROVE Inv
    OBVIOUS
<1>1. Typed
    BY InitTyped
<1>2. \A c \in Callers : req[c].pc = "idle" /\ req[c].floor = 0 /\ req[c].inst = AnyInstance
    BY DEF Init, Quiet, At
<1>3. \A i \in Instances : floor[i] = 0 /\ owed[i] = 0 /\ cache[i] = {}
    BY DEF Init
<1>4. AnyInstance \in Instances /\ live = 0
    BY InstancesAssumption DEF AnyInstance, Init
<1>5. LoadsRun
    BY <1>2, <1>3 DEF LoadsRun, Callers
<1>6. Fresh
    BY <1>2, <1>3, <1>4 DEF Fresh, Callers
<1> QED BY <1>1, <1>5, <1>6 DEF Inv

LEMMA NextInv == Inv /\ [Next]_vars => Inv'
<1> SUFFICES ASSUME Inv, [Next]_vars PROVE Inv'
    OBVIOUS
<1>1. Typed'
    BY NextTyped DEF Inv
<1>2. LoadsRun' /\ Fresh'
    <2>1. CASE UNCHANGED vars
        BY <2>1 DEF vars, Inv, LoadsRun, Fresh, Loading, Waiting
    <2>2. CASE Surroundings
        BY <1>1, <2>2, SurroundingsKeep
    <2>3. ASSUME NEW i \in Instances,
                 \/ (\E t \in Time : SetFreeze(i, t)) \/ Reveal(i)
                 \/ \E c \in Crons : CronFinds(c, i)
          PROVE  LoadsRun' /\ Fresh'
        BY <1>1, <2>3, BeginningIsAside, AsideKeeps DEF Callers
    <2>4. ASSUME NEW c \in Callers, Ensure(c) \/ EnsureFails(c) PROVE LoadsRun' /\ Fresh'
        BY <1>1, <2>4, EnsureIsAside, BeginningIsAside, InstancesAssumption, AsideKeeps
    <2>5. ASSUME NEW r \in Readers, Serve(r) \/ LoadFails(r) PROVE LoadsRun' /\ Fresh'
        <3>1. CASE Find(r) \/ Hit(r)
            BY <1>1, <3>1, ReaderIsAside, AsideKeeps DEF Callers
        <3> QED BY <1>1, <2>5, <3>1, JoinKeeps, MissKeeps, LoadKeeps, SettleKeeps, LoadFailsKeeps
                DEF Serve
    <2>6. ASSUME NEW r \in Readers, NEW i \in Instances, Arrive(r, i) PROVE LoadsRun' /\ Fresh'
        BY <1>1, <2>6, ReaderIsAside, AsideKeeps DEF Callers
    <2>7. ASSUME NEW i \in Instances, Restart(i) PROVE LoadsRun' /\ Fresh'
        BY <1>1, <2>7, RestartKeeps
    <2> QED BY <2>1, <2>2, <2>3, <2>4, <2>5, <2>6, <2>7 DEF Next, Surroundings
<1> QED BY <1>1, <1>2 DEF Inv

LEMMA AlwaysInv == Spec => []Inv
BY InitInv, NextInv, PTL DEF Spec

\* Nobody waits for nothing: a reader that waits for a load waits for one that is
\* running on its own instance, so that it is answered, or told of the failure, with
\* it (publicSnapshotCache.ts:22).
THEOREM WaitersHaveALoad ==
    Spec => [](\A q \in Readers : req[q].pc = "joined" => Loading(req[q].load, req[q].inst))
BY AlwaysInv, PTL DEF Inv, LoadsRun

\* No request shows live results older than those its instance had announced when
\* it came, for any number of loads in flight (publicSnapshotCache.ts:35-42).
THEOREM NothingOlderHolds == Spec => NothingOlderThanAnnounced
<1>1. Inv /\ [Next]_vars =>
        [\A r \in Readers :
           (Answered(r) /\ ~req'[r].view.frozen) => req'[r].view.of >= req[r].floor]_vars
    <2> SUFFICES ASSUME Inv, Next, NEW q \in Readers, Answered(q), ~req'[q].view.frozen
                   PROVE  req'[q].view.of >= req[q].floor
        BY DEF vars
    <2>2. q \in Callers /\ req[q].inst \in Instances /\ req[q].floor \in Nat
          /\ floor[req[q].inst] \in Nat /\ req[q].floor <= floor[req[q].inst]
        <3>1. q \in Callers /\ req[q].inst \in Instances /\ req[q].floor \in Nat
            BY BoundsAssumption DEF Callers, Inv, Typed, TypeOK, Request, Versions
        <3> QED BY <3>1, BoundsAssumption DEF Inv, Fresh, Typed, TypeOK, Versions
    <2>3. ASSUME NEW c \in Callers, AsideStep(c), c # q PROVE FALSE
        BY <2>2, <2>3 DEF AsideStep, Answered
    <2>4. ASSUME NEW r \in Readers, Hit(r) PROVE req'[q].view.of >= req[q].floor
        <3>1. r = q
            BY <2>3, <2>4, ReaderIsAside DEF Callers
        <3>2. PICK e \in Hits(q) : e.view # None /\ req' = [req EXCEPT ![q] = Answer(e.view)]
            BY <2>4, <3>1 DEF Hit
        <3>3. e \in cache[req[q].inst] /\ e.view \in View \cup {None}
            BY <2>2, <3>2 DEF Hits, Inv, Typed, TypeOK, Entry
        <3>4. e.load = None
            BY <2>2, <3>2, <3>3 DEF Inv, LoadsRun
        <3>5. NotOlder(e.view, floor[req[q].inst])
            BY <2>2, <3>2, <3>3, <3>4 DEF Inv, Fresh
        <3>6. req'[q].view = e.view
            BY <2>2, <3>2, <3>3, AnswerType DEF Inv, Typed, TypeOK
        <3> QED BY <2>2, <3>5, <3>6, BoundsAssumption DEF NotOlder, Versions
    <2>5. ASSUME NEW r \in Readers, Settle(r) PROVE req'[q].view.of >= req[q].floor
        <3>1. req[r].pc = "settle" /\ req[r].view \in View
            BY <2>5 DEF Settle, Callers, Inv, Typed, KnowsSnapshot, Knows
        <3>2. q \in Waiting(r) /\ req'[q] = Answer(req[r].view)
            BY <2>2, <2>5 DEF Settle, Answered
        <3>3. req'[q].view = req[r].view
            BY <3>1, <3>2, AnswerType
        <3>4. NotOlder(req[r].view, req[q].floor)
            BY <3>1, <3>2 DEF Inv, Fresh
        <3> QED BY <3>3, <3>4 DEF NotOlder
    <2>6. ASSUME NEW r \in Readers, Find(r) \/ Join(r) \/ Miss(r) \/ Load(r) PROVE FALSE
        <3>1. r \in Callers /\ req[r] \in Request
            BY DEF Callers, Inv, Typed, TypeOK
        <3>2. \A seen : Onward(r, seen).pc # "done"
            BY <3>1 DEF Onward, Quiet, At, Request
        <3>3. CASE Find(r)
            BY <2>2, <3>1, <3>2, <3>3 DEF Find, Answered, Inv, Typed, TypeOK, Request
        <3>4. CASE Join(r)
            BY <2>2, <3>1, <3>4 DEF Join, Answered, Inv, Typed, TypeOK, Request
        <3>5. CASE Miss(r)
            BY <2>2, <3>1, <3>5 DEF Miss, Answered, Inv, Typed, TypeOK, Request
        <3>6. CASE Load(r)
            BY <2>2, <3>1, <3>6 DEF Load, Answered, Inv, Typed, TypeOK, Request
        <3> QED BY <2>6, <3>3, <3>4, <3>5, <3>6
    <2>7. ASSUME NEW c \in Callers, Ensure(c) PROVE FALSE
        <3>1. \A d \in Callers \ {c} : req'[d] = req[d]
            BY <2>7, EnsureIsAside DEF AsideStep
        <3>2. req[c] \in Request
            BY DEF Inv, Typed, TypeOK
        <3>3. \A seen : Onward(c, seen).pc # "done"
            BY <3>2 DEF Onward, Quiet, At, Request
        <3>4. req'[c].pc # "done"
            <4>1. CASE Check(c)
                BY <3>2, <3>3, <4>1 DEF Check, Inv, Typed, TypeOK, Request
            <4>2. CASE Store(c)
                BY <3>2, <4>2 DEF Store, Inv, Typed, TypeOK, Request
            <4>3. CASE Reread(c)
                BY <3>2, <3>3, <4>3 DEF Reread, Inv, Typed, TypeOK, Request
            <4>4. CASE Invalidate(c)
                BY <3>2, <3>3, <4>4 DEF Invalidate, Inv, Typed, TypeOK, Request
            <4> QED BY <2>7, <4>1, <4>2, <4>3, <4>4 DEF Ensure
        <3> QED BY <2>2, <3>1, <3>4 DEF Answered
    <2>8. ASSUME NEW callers, req' = Ends(callers) PROVE FALSE
        BY <2>2, <2>8 DEF Ends, Answered, Quiet, At
    <2>9. ASSUME NEW i \in Instances,
                 (\E t \in Time : SetFreeze(i, t)) \/ Reveal(i) \/ \E c \in Crons : CronFinds(c, i)
          PROVE  FALSE
        <3>1. PICK c \in Callers : /\ \A d \in Callers \ {c} : req'[d] = req[d]
                                   /\ req'[c].pc \in {"invalidate", "check"}
            <4>1. At(i) \in Request
                BY QuietType
            <4>2. req \in [Callers -> Request]
                BY DEF Inv, Typed, TypeOK
            <4>3. CASE \E t \in Time : SetFreeze(i, t)
                BY <4>1, <4>2, <4>3 DEF SetFreeze, Callers, Request
            <4>4. CASE Reveal(i)
                BY <4>1, <4>2, <4>4 DEF Reveal, Callers, Request
            <4>5. CASE \E c \in Crons : CronFinds(c, i)
                BY <4>1, <4>2, <4>5 DEF CronFinds, Callers, Request
            <4> QED BY <2>9, <4>3, <4>4, <4>5
        <3> QED BY <2>2, <3>1 DEF Answered
    <2>10. ASSUME NEW i \in Instances, NEW r \in Readers, Arrive(r, i) PROVE FALSE
        <3>1. At(i) \in Request
            BY QuietType
        <3> QED BY <2>2, <2>10, <3>1 DEF Arrive, Answered, Inv, Typed, TypeOK, Request
    <2>11. ASSUME Surroundings PROVE FALSE
        BY <2>11 DEF Surroundings, Tick, SaveQuietly, Save, Announce, Evict, Answered
    <2> QED BY <2>4, <2>5, <2>6, <2>7, <2>8, <2>9, <2>10, <2>11
            DEF Next, Serve, LoadFails, EnsureFails, Restart, Surroundings
<1> QED BY <1>1, AlwaysInv, PTL DEF Spec, NothingOlderThanAnnounced

-----------------------------------------------------------------------------
(* The freeze of a series: typing.                                          *)

LEMMA NoCallTyped == NoCall \in Call
  BY SeriesBounds DEF NoCall, Call, Moments

LEMMA SeriesInitTyped == SeriesInit => SeriesTypeOK
<1> SUFFICES ASSUME SeriesInit PROVE SeriesTypeOK
  OBVIOUS
<1>1. 0 \in Moments /\ 0 \in Saves /\ 0 \in 0..MaxLosses
  BY SeriesBounds DEF Moments, Saves
<1> QED
  BY <1>1, NoCallTyped DEF SeriesInit, SeriesTypeOK

\* What a request has loaded is a standing.
LEMMA LoadedTyped ==
    ASSUME SeriesTypeOK, NEW c \in SeriesCallers,
           call[c].results # Nothing, call[c].own # Nothing
    PROVE  Loaded(c) \in Standing
<1>1. call[c] \in Call
  BY DEF SeriesTypeOK
<1>2. call[c].results \in Saves
  BY <1>1 DEF Call
<1>3. call[c].own \in {{}} \cup {{v} : v \in Saves}
  BY <1>1 DEF Call
<1>4. CASE call[c].own = {}
  BY <1>2, <1>4 DEF Loaded, Standing
<1>5. CASE call[c].own # {}
  <2>1. PICK v \in Saves : call[c].own = {v}
    BY <1>3, <1>5
  <2>2. (CHOOSE w \in call[c].own : TRUE) = v
    BY <2>1
  <2> QED
    BY <1>5, <2>2 DEF Loaded, Standing
<1> QED
  BY <1>4, <1>5

\* An answer is typed if its view is.
LEMMA AnswerTyped ==
    ASSUME SeriesTypeOK, NEW c \in SeriesCallers, NEW v \in SeriesView, SeriesAnswered(c, v)
    PROVE  call' \in [SeriesCallers -> Call]
<1>1. call[c] \in Call
  BY DEF SeriesTypeOK
<1>2. [NoCall EXCEPT !.pc = "done", !.public = TRUE, !.at = call[c].at, !.view = v,
                    !.during = call[c].during] \in Call
  BY <1>1, NoCallTyped DEF Call
<1> QED
  BY <1>2, NoCallTyped DEF SeriesAnswered, SeriesTypeOK

\* Who comes second has loaded everything.
RereadsHaveLoaded ==
    \A c \in SeriesCallers :
        call[c].pc = "reread" => call[c].results # Nothing /\ call[c].own # Nothing
SeriesTyped == SeriesTypeOK /\ RereadsHaveLoaded

\* The steps of the world, and those of one request.
World == MomentPasses \/ SaveResult \/ Hide \/ Unhide \/ RevealSeries
Begins(c) == CronFindsSeries(c) \/ AskForSeries(c) \/ Fails(c) \/ \E t \in Moments : FreezeSeries(c, t)
Loads(c) == LookAtSeries(c) \/ EnsureReads(c) \/ ReadResults(c) \/ ReadOwnFreeze(c)
SeriesEnds(c) == ShowLive(c) \/ StoreSnapshot(c) \/ RereadSeries(c)

LEMMA SeriesSteps ==
    ASSUME SeriesNext
    PROVE  World \/ \E c \in SeriesCallers : Begins(c) \/ Loads(c) \/ SeriesEnds(c)
  BY DEF SeriesNext, World, Begins, Loads, SeriesEnds

LEMMA WorldTyped == ASSUME SeriesTyped, World PROVE SeriesTyped'
<1> USE SeriesBounds DEF SeriesTyped, RereadsHaveLoaded
<1>1. CASE MomentPasses
  <2>1. moment' \in Moments
    BY <1>1 DEF MomentPasses, SeriesTypeOK, Moments
  <2>2. series' \in Freeze \cup {Nothing}
    BY <1>1 DEF MomentPasses, SeriesTypeOK, Freeze
  <2> QED
    BY <1>1, <2>1, <2>2 DEF MomentPasses, SeriesTypeOK
<1>2. CASE SaveResult
  <2>1. latest' \in Saves
    BY <1>2 DEF SaveResult, SeriesTypeOK, Saves
  <2> QED
    BY <1>2, <2>1 DEF SaveResult, SeriesTypeOK
<1>3. CASE Hide
  BY <1>3 DEF Hide, SeriesTypeOK
<1>4. CASE Unhide
  BY <1>4 DEF Unhide, SeriesTypeOK
<1>5. CASE RevealSeries
  BY <1>5 DEF RevealSeries, SeriesTypeOK
<1> QED
  BY <1>1, <1>2, <1>3, <1>4, <1>5 DEF World

LEMMA BeginsTyped == ASSUME SeriesTyped, NEW c \in SeriesCallers, Begins(c) PROVE SeriesTyped'
<1> USE DEF SeriesTyped, RereadsHaveLoaded
<1>1. CASE CronFindsSeries(c)
  <2>1. [NoCall EXCEPT !.pc = "ensure", !.at = moment] \in Call
    BY NoCallTyped DEF SeriesTypeOK, Call
  <2> QED
    BY <1>1, <2>1 DEF CronFindsSeries, SeriesTypeOK
<1>2. CASE AskForSeries(c)
  <2>1. \A d \in Moments : [NoCall EXCEPT !.pc = "view", !.public = TRUE, !.at = moment,
                                      !.during = d] \in Call
    BY NoCallTyped DEF SeriesTypeOK, Call
  <2>2. (IF SeriesDue(moment) THEN series.set ELSE 0) \in Moments
    BY SeriesBounds DEF SeriesTypeOK, SeriesDue, Freeze, Moments
  <2>3. call' \in [SeriesCallers -> Call]
    BY <1>2, <2>1, <2>2 DEF AskForSeries, SeriesTypeOK
  <2>4. RereadsHaveLoaded'
    BY <1>2 DEF AskForSeries, SeriesTypeOK
  <2> QED
    BY <1>2, <2>3, <2>4 DEF AskForSeries, SeriesTypeOK
<1>3. CASE Fails(c)
  <2>1. losses' \in 0..MaxLosses
    BY <1>3, SeriesBounds DEF Fails, SeriesTypeOK
  <2>2. NoCall.pc = "idle"
    BY DEF NoCall
  <2> QED
    BY <1>3, <2>1, <2>2, NoCallTyped DEF Fails, SeriesTypeOK
<1>4. ASSUME NEW t \in Moments, FreezeSeries(c, t) PROVE SeriesTyped'
  <2>1. moment + 1 \in Moments
    BY <1>4, SeriesBounds DEF FreezeSeries, SeriesTypeOK, Moments
  <2>2. series' \in Freeze
    BY <1>4, <2>1 DEF FreezeSeries, SeriesTypeOK, Freeze
  <2>3. [NoCall EXCEPT !.pc = "ensure", !.at = moment + 1] \in Call
    BY <2>1, NoCallTyped DEF Call
  <2>4. call' \in [SeriesCallers -> Call]
    BY <1>4, <2>3, NoCallTyped DEF FreezeSeries, SeriesTypeOK
  <2>5. NoCall.pc = "idle"
    BY DEF NoCall
  <2>6. RereadsHaveLoaded'
    BY <1>4, <2>5 DEF FreezeSeries, SeriesTypeOK
  <2> QED
    BY <1>4, <2>1, <2>2, <2>4, <2>6 DEF FreezeSeries, SeriesTypeOK
<1> QED
  BY <1>1, <1>2, <1>3, <1>4 DEF Begins

\* An answered request has no load to reread.
LEMMA AnswerKeepsLoads ==
    ASSUME SeriesTyped, NEW c \in SeriesCallers, NEW v, SeriesAnswered(c, v)
    PROVE  RereadsHaveLoaded'
<1>1. call'[c].pc \in {"done", "idle"}
  BY DEF SeriesAnswered, SeriesTyped, SeriesTypeOK, NoCall
<1>2. \A d \in SeriesCallers : d # c => call'[d] = call[d]
  BY DEF SeriesAnswered, SeriesTyped, SeriesTypeOK
<1> QED
  BY <1>1, <1>2 DEF SeriesTyped, RereadsHaveLoaded

LEMMA LoadsTyped == ASSUME SeriesTyped, NEW c \in SeriesCallers, Loads(c) PROVE SeriesTyped'
<1>0. call[c] \in Call
  BY DEF SeriesTyped, SeriesTypeOK
<1>1. CASE LookAtSeries(c)
  <2>1. call' \in [SeriesCallers -> Call]
    BY <1>0, <1>1 DEF LookAtSeries, SeriesTyped, SeriesTypeOK, Call
  <2>2. RereadsHaveLoaded'
    BY <1>1 DEF LookAtSeries, SeriesTyped, SeriesTypeOK, RereadsHaveLoaded
  <2> QED
    BY <1>1, <2>1, <2>2 DEF LookAtSeries, SeriesTyped, SeriesTypeOK
<1>2. CASE EnsureReads(c)
  <2>1. CASE SeriesAnswered(c, NoCompetition)
    <3>1. call' \in [SeriesCallers -> Call]
      BY <2>1, AnswerTyped DEF SeriesTyped, SeriesView
    <3> QED
      BY <1>2, <2>1, <3>1, AnswerKeepsLoads DEF EnsureReads, SeriesTyped, SeriesTypeOK
  <2>2. CASE SeriesDue(call[c].at) /\ series.taken # Nothing /\ SeriesAnswered(c, series.taken)
    <3>1. series.taken \in SeriesView
      BY <2>2 DEF SeriesDue, SeriesTyped, SeriesTypeOK, Freeze, SeriesView
    <3>2. call' \in [SeriesCallers -> Call]
      BY <2>2, <3>1, AnswerTyped DEF SeriesTyped
    <3> QED
      BY <1>2, <2>2, <3>2, AnswerKeepsLoads DEF EnsureReads, SeriesTyped, SeriesTypeOK
  <2>3. CASE SeriesDue(call[c].at) /\ call' = [call EXCEPT ![c].pc = "load", ![c].for = series.freezeAt]
    <3>1. series.freezeAt \in Moments
      BY <2>3 DEF SeriesDue, SeriesTyped, SeriesTypeOK, Freeze
    <3>2. call' \in [SeriesCallers -> Call]
      BY <1>0, <2>3, <3>1 DEF SeriesTyped, SeriesTypeOK, Call
    <3>3. RereadsHaveLoaded'
      BY <2>3 DEF SeriesTyped, SeriesTypeOK, RereadsHaveLoaded
    <3> QED
      BY <1>2, <3>2, <3>3 DEF EnsureReads, SeriesTyped, SeriesTypeOK
  <2> QED
    BY <1>2, <2>1, <2>2, <2>3 DEF EnsureReads
<1>3. CASE ReadResults(c)
  <2>1. call' \in [SeriesCallers -> Call]
    BY <1>0, <1>3 DEF ReadResults, SeriesTyped, SeriesTypeOK, Call
  <2>2. RereadsHaveLoaded'
    BY <1>3 DEF ReadResults, SeriesTyped, SeriesTypeOK, RereadsHaveLoaded
  <2> QED
    BY <1>3, <2>1, <2>2 DEF ReadResults, SeriesTyped, SeriesTypeOK
<1>4. CASE ReadOwnFreeze(c)
  <2> DEFINE own == IF hidden # Nothing /\ hidden.since <= call[c].at THEN {hidden.of} ELSE {}
  <2>1. own \in {{}} \cup {{v} : v \in Saves}
    BY DEF SeriesTyped, SeriesTypeOK
  <2>2. call' = [call EXCEPT ![c].own = own]
    BY <1>4 DEF ReadOwnFreeze
  <2> HIDE DEF own
  <2>3. call' \in [SeriesCallers -> Call]
    BY <1>0, <2>1, <2>2 DEF SeriesTyped, SeriesTypeOK, Call
  <2>4. RereadsHaveLoaded'
    BY <1>4, <2>2 DEF ReadOwnFreeze, SeriesTyped, SeriesTypeOK, RereadsHaveLoaded
  <2> QED
    BY <1>4, <2>3, <2>4 DEF ReadOwnFreeze, SeriesTyped, SeriesTypeOK
<1> QED
  BY <1>1, <1>2, <1>3, <1>4 DEF Loads

LEMMA SeriesEndsTyped == ASSUME SeriesTyped, NEW c \in SeriesCallers, SeriesEnds(c) PROVE SeriesTyped'
<1>0. call[c] \in Call
  BY DEF SeriesTyped, SeriesTypeOK
<1>1. CASE ShowLive(c)
  <2>1. Loaded(c) \in SeriesView
    BY <1>1, LoadedTyped DEF ShowLive, HasLoaded, SeriesTyped, SeriesView
  <2>2. call' \in [SeriesCallers -> Call]
    BY <1>1, <2>1, AnswerTyped DEF ShowLive, SeriesTyped
  <2> QED
    BY <1>1, <2>2, AnswerKeepsLoads DEF ShowLive, SeriesTyped, SeriesTypeOK
<1>2. CASE StoreSnapshot(c)
  <2>1. Loaded(c) \in Standing
    BY <1>2, LoadedTyped DEF StoreSnapshot, HasLoaded, SeriesTyped
  <2>2. CASE MayStore(c)
    <3>1. series' \in Freeze
      BY <1>2, <2>1, <2>2 DEF StoreSnapshot, MayStore, SeriesTyped, SeriesTypeOK, Freeze
    <3>2. SeriesAnswered(c, Loaded(c)) /\ Loaded(c) \in SeriesView
      BY <1>2, <2>1, <2>2 DEF StoreSnapshot, SeriesView
    <3>3. call' \in [SeriesCallers -> Call]
      BY <3>2, AnswerTyped DEF SeriesTyped
    <3> QED
      BY <1>2, <3>1, <3>2, <3>3, AnswerKeepsLoads DEF StoreSnapshot, SeriesTyped, SeriesTypeOK
  <2>3. CASE ~MayStore(c)
    <3>1. call' = [call EXCEPT ![c].pc = "reread"] /\ UNCHANGED series
      BY <1>2, <2>3 DEF StoreSnapshot
    <3>2. call' \in [SeriesCallers -> Call]
      BY <1>0, <3>1 DEF SeriesTyped, SeriesTypeOK, Call
    <3>3. RereadsHaveLoaded'
      BY <1>2, <3>1 DEF StoreSnapshot, HasLoaded, SeriesTyped, SeriesTypeOK, RereadsHaveLoaded
    <3> QED
      BY <1>2, <3>1, <3>2, <3>3 DEF StoreSnapshot, SeriesTyped, SeriesTypeOK
  <2> QED
    BY <2>2, <2>3
<1>3. CASE RereadSeries(c)
  <2>1. Loaded(c) \in Standing
    BY <1>3, LoadedTyped DEF RereadSeries, SeriesTyped, RereadsHaveLoaded
  <2>2. PICK v \in SeriesView : SeriesAnswered(c, v)
    BY <1>3, <2>1 DEF RereadSeries, SeriesTyped, SeriesTypeOK, Freeze, SeriesView
  <2>3. call' \in [SeriesCallers -> Call]
    BY <2>2, AnswerTyped DEF SeriesTyped
  <2> QED
    BY <1>3, <2>2, <2>3, AnswerKeepsLoads DEF RereadSeries, SeriesTyped, SeriesTypeOK
<1> QED
  BY <1>1, <1>2, <1>3 DEF SeriesEnds

LEMMA StepTyped == SeriesTyped /\ [SeriesNext]_seriesVars => SeriesTyped'
<1> SUFFICES ASSUME SeriesTyped, [SeriesNext]_seriesVars PROVE SeriesTyped'
  OBVIOUS
<1>1. CASE UNCHANGED seriesVars
  BY <1>1 DEF seriesVars, SeriesTyped, SeriesTypeOK, RereadsHaveLoaded
<1>2. CASE SeriesNext
  BY <1>2, SeriesSteps, WorldTyped, BeginsTyped, LoadsTyped, SeriesEndsTyped
<1> QED
  BY <1>1, <1>2

LEMMA InitAllTyped == SeriesInit => SeriesTyped
<1>1. NoCall.pc = "idle"
  BY DEF NoCall
<1> QED
  BY <1>1, SeriesInitTyped DEF SeriesTyped, RereadsHaveLoaded, SeriesInit

\* Every variable has its type, and whoever stores second has loaded its own standing,
\* which it needs if the first one's is gone.
THEOREM SeriesTypeCorrect == SeriesSpec => []SeriesTyped
  BY InitAllTyped, StepTyped, PTL DEF SeriesSpec

-----------------------------------------------------------------------------
(* A frozen series shows one standing.                                      *)

\* A request that came within the freeze in force has come after its time: it goes on to
\* ensure the snapshot, loads for this freeze, and rereads only what is stored.
Within(c) == call[c].during # 0 /\ series # Nothing /\ series.set = call[c].during
InForce ==
    /\ series # Nothing => series.set <= moment
    /\ \A c \in SeriesCallers :
         /\ call[c].during <= moment
         /\ (Within(c) /\ call[c].pc # "done") =>
              /\ series.freezeAt <= call[c].at
              /\ call[c].pc = "load" => call[c].for = series.freezeAt
              /\ call[c].pc = "reread" => series.taken # Nothing

LEMMA NoCallFields == NoCall.pc = "idle" /\ NoCall.during = 0 /\ NoCall.at = 0 /\ NoCall.for = Nothing
                     /\ NoCall.results = Nothing
  BY DEF NoCall

\* What an answer makes of the requests.
LEMMA AnswerIs ==
    ASSUME SeriesTyped, NEW c \in SeriesCallers, NEW v, SeriesAnswered(c, v)
    PROVE  /\ call'[c].during \in {0, call[c].during}
           /\ call'[c].during # 0 => call'[c].pc = "done"
           /\ call'[c].pc = "done" => call'[c].view = v
           /\ \A d \in SeriesCallers : d # c => call'[d] = call[d]
<1>1. /\ call'[c].during \in {0, call[c].during} /\ (call'[c].during # 0 => call'[c].pc = "done")
      /\ call'[c].pc = "done" => call'[c].view = v
  BY NoCallFields DEF SeriesAnswered, SeriesTyped, SeriesTypeOK, NoCall
<1>2. \A d \in SeriesCallers : d # c => call'[d] = call[d]
  BY DEF SeriesAnswered, SeriesTyped, SeriesTypeOK
<1> QED
  BY <1>1, <1>2

LEMMA AnswerKeepsInForce ==
    ASSUME SeriesTyped, InForce, NEW c \in SeriesCallers, NEW v, SeriesAnswered(c, v),
           series' = series, moment' = moment
    PROVE  InForce'
<1>1. 0 <= moment
  BY DEF SeriesTyped, SeriesTypeOK, Moments
<1> QED
  BY <1>1, AnswerIs DEF InForce, Within

LEMMA WorldKeepsInForce == ASSUME SeriesTyped, InForce, World PROVE InForce'
<1>1. CASE MomentPasses
  <2>1. moment' = moment + 1 /\ call' = call /\ moment \in Nat
    BY <1>1 DEF MomentPasses, SeriesTyped, SeriesTypeOK, Moments
  <2>2. (series = Nothing) <=> (series' = Nothing)
    <3>1. series # Nothing => [series EXCEPT !.due = latest] \in Freeze
      BY DEF SeriesTyped, SeriesTypeOK, Freeze
    <3> QED
      BY <1>1, <3>1, SeriesSentinels DEF MomentPasses
  <2>3. series # Nothing => series'.set = series.set /\ series'.freezeAt = series.freezeAt
                         /\ series'.taken = series.taken
    BY <1>1 DEF MomentPasses, SeriesTyped, SeriesTypeOK, Freeze
  <2>4. \A c \in SeriesCallers : call[c].during \in Nat
    BY DEF SeriesTyped, SeriesTypeOK, Call, Moments
  <2>5. series # Nothing => series.set \in Nat
    BY DEF SeriesTyped, SeriesTypeOK, Freeze, Moments
  <2> QED
    BY <2>1, <2>2, <2>3, <2>4, <2>5 DEF InForce, Within
<1>2. CASE SaveResult \/ Hide \/ Unhide
  BY <1>2 DEF SaveResult, Hide, Unhide, InForce, Within
<1>3. CASE RevealSeries
  BY <1>3 DEF RevealSeries, InForce, Within
<1> QED
  BY <1>1, <1>2, <1>3 DEF World

LEMMA BeginsKeepsInForce == ASSUME SeriesTyped, InForce, NEW c \in SeriesCallers, Begins(c) PROVE InForce'
<1>0. moment \in Nat /\ \A d \in SeriesCallers : call[d].during \in Nat
  BY DEF SeriesTyped, SeriesTypeOK, Call, Moments
<1>1. CASE CronFindsSeries(c)
  <2>1. call'[c].during = 0
    BY <1>1, NoCallFields DEF CronFindsSeries, SeriesTyped, SeriesTypeOK
  <2>2. \A d \in SeriesCallers : d # c => call'[d] = call[d]
    BY <1>1 DEF CronFindsSeries, SeriesTyped, SeriesTypeOK
  <2> QED
    BY <1>0, <1>1, <2>1, <2>2 DEF CronFindsSeries, InForce, Within
<1>2. CASE AskForSeries(c)
  <2>1. /\ call'[c].pc = "view" /\ call'[c].at = moment
        /\ call'[c].during = IF SeriesDue(moment) THEN series.set ELSE 0
    BY <1>2 DEF AskForSeries, SeriesTyped, SeriesTypeOK, NoCall
  <2>2. \A d \in SeriesCallers : d # c => call'[d] = call[d]
    BY <1>2 DEF AskForSeries, SeriesTyped, SeriesTypeOK
  <2> QED
    BY <1>0, <1>2, <2>1, <2>2 DEF AskForSeries, InForce, Within, SeriesDue
<1>3. CASE Fails(c)
  <2>1. call'[c].during = 0
    BY <1>3, NoCallFields DEF Fails, SeriesTyped, SeriesTypeOK
  <2>2. \A d \in SeriesCallers : d # c => call'[d] = call[d]
    BY <1>3 DEF Fails, SeriesTyped, SeriesTypeOK
  <2> QED
    BY <1>0, <1>3, <2>1, <2>2 DEF Fails, InForce, Within
<1>4. ASSUME NEW t \in Moments, FreezeSeries(c, t) PROVE InForce'
  <2>1. moment' = moment + 1 /\ series'.set = moment + 1
    BY <1>4 DEF FreezeSeries
  <2>2. \A d \in SeriesCallers : call'[d].during \in {0, call[d].during}
    BY <1>4, NoCallFields DEF FreezeSeries, SeriesTyped, SeriesTypeOK
  <2>3. \A d \in SeriesCallers : call[d].during <= moment
    BY DEF InForce
  <2> QED
    BY <1>0, <2>1, <2>2, <2>3 DEF InForce, Within
<1> QED
  BY <1>1, <1>2, <1>3, <1>4 DEF Begins

LEMMA LoadsKeepsInForce == ASSUME SeriesTyped, InForce, NEW c \in SeriesCallers, Loads(c) PROVE InForce'
<1>1. CASE LookAtSeries(c)
  <2>1. /\ call'[c].during = call[c].during /\ call'[c].at = call[c].at
        /\ call'[c].pc = IF SeriesDue(call[c].at) THEN "ensure" ELSE "load"
    BY <1>1 DEF LookAtSeries, SeriesTyped, SeriesTypeOK, Call
  <2>2. \A d \in SeriesCallers : d # c => call'[d] = call[d]
    BY <1>1 DEF LookAtSeries, SeriesTyped, SeriesTypeOK
  <2>3. call[c].pc = "view" /\ series' = series /\ moment' = moment
    BY <1>1 DEF LookAtSeries
  <2> QED
    BY <2>1, <2>2, <2>3 DEF InForce, Within, SeriesDue
<1>2. CASE EnsureReads(c)
  <2>0. series' = series /\ moment' = moment
    BY <1>2 DEF EnsureReads
  <2>1. CASE \E v : SeriesAnswered(c, v)
    BY <2>0, <2>1, AnswerKeepsInForce
  <2>2. CASE call' = [call EXCEPT ![c].pc = "load", ![c].for = series.freezeAt]
    <3>1. /\ call'[c].during = call[c].during /\ call'[c].at = call[c].at
          /\ call'[c].pc = "load" /\ call'[c].for = series.freezeAt
      BY <2>2 DEF SeriesTyped, SeriesTypeOK, Call
    <3>2. \A d \in SeriesCallers : d # c => call'[d] = call[d]
      BY <2>2 DEF SeriesTyped, SeriesTypeOK
    <3>3. call[c].pc = "ensure"
      BY <1>2 DEF EnsureReads
    <3> QED
      BY <2>0, <3>1, <3>2, <3>3 DEF InForce, Within
  <2> QED
    BY <1>2, <2>1, <2>2 DEF EnsureReads
<1>3. CASE ReadResults(c) \/ ReadOwnFreeze(c)
  <2>1. /\ call'[c].during = call[c].during /\ call'[c].at = call[c].at
        /\ call'[c].pc = call[c].pc /\ call'[c].for = call[c].for
    BY <1>3 DEF ReadResults, ReadOwnFreeze, SeriesTyped, SeriesTypeOK, Call
  <2>2. \A d \in SeriesCallers : d # c => call'[d] = call[d]
    BY <1>3 DEF ReadResults, ReadOwnFreeze, SeriesTyped, SeriesTypeOK
  <2>3. series' = series /\ moment' = moment
    BY <1>3 DEF ReadResults, ReadOwnFreeze
  <2> QED
    BY <2>1, <2>2, <2>3 DEF InForce, Within
<1> QED
  BY <1>1, <1>2, <1>3 DEF Loads

LEMMA EndsKeepsInForce == ASSUME SeriesTyped, InForce, NEW c \in SeriesCallers, SeriesEnds(c) PROVE InForce'
<1>1. CASE ShowLive(c) \/ RereadSeries(c)
  BY <1>1, AnswerKeepsInForce DEF ShowLive, RereadSeries
<1>2. CASE StoreSnapshot(c) /\ MayStore(c)
  <2>1. /\ series # Nothing /\ series' # Nothing /\ series'.set = series.set
        /\ series'.freezeAt = series.freezeAt /\ series'.taken = Loaded(c) /\ moment' = moment
    <3>1. Loaded(c) \in Standing
      BY <1>2, LoadedTyped DEF StoreSnapshot, HasLoaded, SeriesTyped
    <3>2. series # Nothing /\ series' = [series EXCEPT !.taken = Loaded(c)] /\ moment' = moment
      BY <1>2 DEF StoreSnapshot, MayStore
    <3>3. series' \in Freeze
      BY <3>1, <3>2 DEF SeriesTyped, SeriesTypeOK, Freeze
    <3> QED
      BY <3>2, <3>3, SeriesSentinels DEF SeriesTyped, SeriesTypeOK, Freeze
  <2>2. Loaded(c) # Nothing
    <3>1. Loaded(c) \in Standing
      BY <1>2, LoadedTyped DEF StoreSnapshot, HasLoaded, SeriesTyped
    <3> QED
      BY <3>1, SeriesSentinels
  <2>3. SeriesAnswered(c, Loaded(c))
    BY <1>2 DEF StoreSnapshot
  <2>4. /\ call'[c].during \in {0, call[c].during}
        /\ call'[c].during # 0 => call'[c].pc = "done"
        /\ \A d \in SeriesCallers : d # c => call'[d] = call[d]
    BY <2>3, AnswerIs
  <2>5. 0 <= moment
    BY DEF SeriesTyped, SeriesTypeOK, Moments
  <2> QED
    BY <2>1, <2>2, <2>3, <2>4, <2>5 DEF InForce, Within
<1>3. CASE StoreSnapshot(c) /\ ~MayStore(c)
  <2>1. /\ call'[c].during = call[c].during /\ call'[c].at = call[c].at
        /\ call'[c].pc = "reread" /\ call'[c].for = call[c].for
    BY <1>3 DEF StoreSnapshot, SeriesTyped, SeriesTypeOK, Call
  <2>2. \A d \in SeriesCallers : d # c => call'[d] = call[d]
    BY <1>3 DEF StoreSnapshot, SeriesTyped, SeriesTypeOK
  <2>3. series' = series /\ moment' = moment /\ call[c].pc = "load"
    BY <1>3 DEF StoreSnapshot, HasLoaded
  <2>4. Within(c) => series.taken # Nothing
    BY <1>3, <2>3 DEF MayStore, InForce, Within
  <2> QED
    BY <2>1, <2>2, <2>3, <2>4 DEF InForce, Within
<1> QED
  BY <1>1, <1>2, <1>3 DEF SeriesEnds

LEMMA StepKeepsInForce == SeriesTyped /\ InForce /\ [SeriesNext]_seriesVars => InForce'
<1> SUFFICES ASSUME SeriesTyped, InForce, [SeriesNext]_seriesVars PROVE InForce'
  OBVIOUS
<1>1. CASE UNCHANGED seriesVars
  BY <1>1 DEF seriesVars, InForce, Within
<1>2. CASE SeriesNext
  BY <1>2, SeriesSteps, WorldKeepsInForce, BeginsKeepsInForce, LoadsKeepsInForce, EndsKeepsInForce
<1> QED
  BY <1>1, <1>2

\* An answer within a freeze is the freeze's stored standing.
LEMMA AnswersInForce ==
    ASSUME SeriesTyped, InForce, NEW c \in SeriesCallers, SeriesNext, ShownNow(c),
           call[c].during # 0, SameFreeze(call[c].during)
    PROVE  series'.taken # Nothing /\ call'[c].view = series'.taken
<1>0. Within(c) /\ call[c].pc # "done" /\ call'[c].pc = "done"
  BY DEF ShownNow, SameFreeze, Within
<1>1. World => call' = call
  BY DEF World, MomentPasses, SaveResult, Hide, Unhide, RevealSeries
<1>2. \A d \in SeriesCallers : ~Begins(d)
  <2> SUFFICES ASSUME NEW d \in SeriesCallers, Begins(d) PROVE FALSE
    OBVIOUS
  <2>1. CASE CronFindsSeries(d) \/ AskForSeries(d)
    BY <1>0, <2>1 DEF CronFindsSeries, AskForSeries, SeriesTyped, SeriesTypeOK, NoCall
  <2>2. CASE Fails(d)
    BY <1>0, <2>2, NoCallFields DEF Fails, SeriesTyped, SeriesTypeOK
  <2>3. CASE \E t \in Moments : FreezeSeries(d, t)
    BY <1>0, <2>3 DEF FreezeSeries, SeriesTyped, SeriesTypeOK, NoCall
  <2> QED
    BY <2>1, <2>2, <2>3 DEF Begins
<1>3. PICK d \in SeriesCallers : Loads(d) \/ SeriesEnds(d)
  BY <1>0, <1>1, <1>2, SeriesSteps
<1>4. \A v : SeriesAnswered(d, v) => d = c /\ call'[c].view = v
  <2> SUFFICES ASSUME NEW v, SeriesAnswered(d, v) PROVE d = c /\ call'[c].view = v
    OBVIOUS
  <2>1. d = c
    BY <1>0, AnswerIs
  <2> QED
    BY <1>0, <2>1, AnswerIs
<1>5. CASE Loads(d)
  <2>0. series' = series
    BY <1>5 DEF Loads, LookAtSeries, EnsureReads, ReadResults, ReadOwnFreeze
  <2>1. CASE LookAtSeries(d)
    <3>1. call'[c].pc \in {call[c].pc, "ensure", "load"}
      BY <2>1 DEF LookAtSeries, SeriesTyped, SeriesTypeOK, Call
    <3> QED
      BY <1>0, <3>1
  <2>2. CASE ReadResults(d) \/ ReadOwnFreeze(d)
    <3>1. call'[c].pc = call[c].pc
      BY <2>2 DEF ReadResults, ReadOwnFreeze, SeriesTyped, SeriesTypeOK, Call
    <3> QED
      BY <1>0, <3>1
  <2>3. CASE EnsureReads(d)
    <3>1. call[d].pc = "ensure"
      BY <2>3 DEF EnsureReads
    <3>2. PICK v : SeriesAnswered(d, v)
      <4>1. CASE call' = [call EXCEPT ![d].pc = "load", ![d].for = series.freezeAt]
        <5>1. call'[c].pc \in {call[c].pc, "load"}
          BY <4>1 DEF SeriesTyped, SeriesTypeOK, Call
        <5> QED
          BY <1>0, <5>1
      <4> QED
        BY <2>3, <4>1 DEF EnsureReads
    <3>3. d = c
      BY <1>4, <3>2
    <3>4. SeriesDue(call[c].at) /\ call'[c].pc # "load"
      BY <1>0, <3>1, <3>3 DEF InForce, Within, SeriesDue
    <3>5. CASE series.taken # Nothing
      BY <1>4, <2>0, <2>3, <3>3, <3>4, <3>5 DEF EnsureReads
    <3>6. CASE series.taken = Nothing
      <4>1. call' = [call EXCEPT ![c].pc = "load", ![c].for = series.freezeAt]
        BY <2>3, <3>3, <3>4, <3>6 DEF EnsureReads
      <4>2. call'[c].pc = "load"
        BY <4>1 DEF SeriesTyped, SeriesTypeOK, Call
      <4> QED
        BY <3>4, <4>2
    <3> QED
      BY <3>5, <3>6
  <2> QED
    BY <1>5, <2>1, <2>2, <2>3 DEF Loads
<1>6. CASE SeriesEnds(d)
  <2>1. CASE ShowLive(d)
    <3>1. call[d].pc = "load" /\ call[d].for = Nothing /\ d = c
      BY <1>4, <2>1 DEF ShowLive, HasLoaded
    <3>2. call[c].for = series.freezeAt /\ series \in Freeze
      BY <1>0, <3>1 DEF InForce, Within, SeriesTyped, SeriesTypeOK
    <3>3. series.freezeAt \in Moments
      BY <3>2 DEF Freeze
    <3> QED
      BY <3>1, <3>2, <3>3, SeriesSentinels
  <2>2. CASE StoreSnapshot(d)
    <3>1. MayStore(d)
      <4>1. CASE ~MayStore(d)
        <5>1. call' = [call EXCEPT ![d].pc = "reread"]
          BY <2>2, <4>1 DEF StoreSnapshot
        <5>2. call'[c].pc \in {call[c].pc, "reread"}
          BY <5>1 DEF SeriesTyped, SeriesTypeOK, Call
        <5> QED
          BY <1>0, <5>2
      <4> QED
        BY <4>1
    <3>2. Loaded(d) \in Standing /\ series \in Freeze
      BY <2>2, <3>1, LoadedTyped DEF StoreSnapshot, HasLoaded, MayStore, SeriesTyped, SeriesTypeOK
    <3>3. series' = [series EXCEPT !.taken = Loaded(d)] /\ SeriesAnswered(d, Loaded(d))
      BY <2>2, <3>1 DEF StoreSnapshot
    <3>4. series'.taken = Loaded(d) /\ call'[c].view = Loaded(d)
      BY <1>4, <3>2, <3>3 DEF Freeze
    <3> QED
      BY <3>2, <3>4, SeriesSentinels
  <2>3. CASE RereadSeries(d)
    <3>1. d = c /\ call[c].pc = "reread"
      BY <1>4, <2>3 DEF RereadSeries
    <3>2. series # Nothing /\ series.taken # Nothing /\ series' = series
      BY <1>0, <2>3, <3>1 DEF RereadSeries, InForce, Within
    <3>3. SeriesAnswered(d, series.taken)
      BY <2>3, <3>2 DEF RereadSeries
    <3> QED
      BY <1>4, <3>2, <3>3
  <2> QED
    BY <1>6, <2>1, <2>2, <2>3 DEF SeriesEnds
<1> QED
  BY <1>3, <1>5, <1>6

\* A stored standing stays with its freeze.
LEMMA TakenStays ==
    ASSUME SeriesTyped, InForce, SeriesNext, series # Nothing, series.taken # Nothing,
           SameFreeze(series.set)
    PROVE  series'.taken = series.taken
<1>0. series \in Freeze /\ series' # Nothing /\ series'.set = series.set
  BY DEF SameFreeze, SeriesTyped, SeriesTypeOK
<1>1. CASE World
  BY <1>0, <1>1 DEF World, MomentPasses, SaveResult, Hide, Unhide, RevealSeries, Freeze
<1>2. ASSUME NEW c \in SeriesCallers, Begins(c) PROVE series'.taken = series.taken
  <2>1. CASE \E t \in Moments : FreezeSeries(c, t)
    <3>1. series'.set = moment + 1
      BY <2>1 DEF FreezeSeries
    <3>2. series.set \in Nat /\ moment \in Nat /\ series.set <= moment
      BY <1>0 DEF Freeze, Moments, InForce, SeriesTyped, SeriesTypeOK
    <3> QED
      BY <1>0, <3>1, <3>2
  <2> QED
    BY <1>2, <2>1 DEF Begins, CronFindsSeries, AskForSeries, Fails
<1>3. ASSUME NEW c \in SeriesCallers, Loads(c) \/ SeriesEnds(c) PROVE series'.taken = series.taken
  BY <1>3 DEF Loads, SeriesEnds, LookAtSeries, EnsureReads, ReadResults, ReadOwnFreeze, ShowLive,
              StoreSnapshot, MayStore, RereadSeries
<1> QED
  BY <1>1, <1>2, <1>3, SeriesSteps

\* Whoever loads, and whatever happens meanwhile, a frozen series shows its stored
\* standing to everybody who comes within the freeze.
THEOREM StandsStillHolds == SeriesSpec => SeriesStandsStill
<1> DEFINE Shown ==
      /\ \A c \in SeriesCallers :
            (ShownNow(c) /\ call[c].during # 0 /\ SameFreeze(call[c].during))
              => (series'.taken # Nothing /\ call'[c].view = series'.taken)
      /\ (series # Nothing /\ series.taken # Nothing /\ SameFreeze(series.set))
              => series'.taken = series.taken
<1>1. SeriesInit => SeriesTyped /\ InForce
  <2>1. SeriesInit => InForce
    BY NoCallFields DEF SeriesInit, InForce, Within
  <2> QED
    BY <2>1, InitAllTyped
<1>2. SeriesTyped /\ InForce /\ [SeriesNext]_seriesVars => (SeriesTyped /\ InForce)'
  BY StepTyped, StepKeepsInForce
<1>3. SeriesTyped /\ InForce /\ [SeriesNext]_seriesVars => [Shown]_seriesVars
  BY AnswersInForce, TakenStays
<1> HIDE DEF Shown
<1>4. SeriesSpec => [][Shown]_seriesVars
  BY <1>1, <1>2, <1>3, PTL DEF SeriesSpec
<1> QED
  BY <1>4 DEF Shown, SeriesStandsStill

-----------------------------------------------------------------------------
(* The stored standing is of its freeze.                                    *)

\* Results that were read for the freeze in force are no older than the freeze.  A freeze
\* that is not in force yet has no loads: they come after its time.
ReadsAreFresh ==
    /\ series # Nothing =>
         /\ series.due <= latest
         /\ series.taken # Nothing => series.freezeAt <= moment
    /\ \A c \in SeriesCallers :
         /\ call[c].at <= moment
         /\ call[c].pc \in {"view", "ensure"} => call[c].results = Nothing
         /\ call[c].for # Nothing => call[c].for <= call[c].at
         /\ (call[c].for # Nothing /\ call[c].results # Nothing /\ series # Nothing
              /\ series.freezeAt = call[c].for) => call[c].results >= series.due

FreezeInv == ReadsAreFresh /\ SnapshotIsOfItsFreeze

\* The numbers behind the types.
LEMMA Numbers ==
    ASSUME SeriesTyped
    PROVE  /\ moment \in Nat /\ latest \in Nat
           /\ series # Nothing => (series.set \in Nat /\ series.freezeAt \in Nat /\ series.due \in Nat)
           /\ \A c \in SeriesCallers :
                /\ call[c].at \in Nat
                /\ call[c].for # Nothing => call[c].for \in Nat
                /\ call[c].results # Nothing => call[c].results \in Nat
  BY DEF SeriesTyped, SeriesTypeOK, Freeze, Call, Moments, Saves

\* A step that changes one request only, to one without a load or with the same load.
LEMMA OtherLoadsStay ==
    ASSUME SeriesTyped, FreezeInv, NEW c \in SeriesCallers,
           UNCHANGED <<moment, latest, series>>,
           \A d \in SeriesCallers : d # c => call'[d] = call[d],
           call'[c].at <= moment,
           call'[c].pc \in {"view", "ensure"} => call'[c].results = Nothing,
           \/ call'[c].for = Nothing
           \/ /\ call'[c].for = call[c].for /\ call'[c].at = call[c].at
              /\ call'[c].results = call[c].results
    PROVE  FreezeInv'
  BY DEF FreezeInv, ReadsAreFresh, SnapshotIsOfItsFreeze

\* An answered request has no load.
LEMMA AnswerHasNoLoad ==
    ASSUME SeriesTyped, FreezeInv, NEW c \in SeriesCallers, NEW v, SeriesAnswered(c, v)
    PROVE  /\ call'[c].for = Nothing /\ call'[c].results = Nothing
           /\ call'[c].at <= moment /\ call'[c].at \in Nat
           /\ \A d \in SeriesCallers : d # c => call'[d] = call[d]
<1>1. call'[c].for = Nothing /\ call'[c].results = Nothing /\ call'[c].at \in {0, call[c].at}
  BY NoCallFields DEF SeriesAnswered, SeriesTyped, SeriesTypeOK, NoCall
<1> QED
  BY <1>1, AnswerIs, Numbers DEF FreezeInv, ReadsAreFresh

LEMMA WorldKeepsFresh == ASSUME SeriesTyped, FreezeInv, World PROVE FreezeInv'
<1> USE Numbers
<1>1. CASE MomentPasses
  <2>1. moment' = moment + 1 /\ call' = call /\ latest' = latest
    BY <1>1 DEF MomentPasses
  <2>2. CASE series # Nothing /\ series.freezeAt = moment + 1
    <3>1. series' = [series EXCEPT !.due = latest] /\ series \in Freeze
      BY <1>1, <2>2 DEF MomentPasses, SeriesTyped, SeriesTypeOK
    <3>2. series'.freezeAt = moment + 1 /\ series'.taken = series.taken /\ series'.due = latest
      BY <2>2, <3>1 DEF Freeze
    <3>3. series.taken = Nothing /\ \A c \in SeriesCallers : call[c].for # moment + 1 \/ call[c].for = Nothing
      BY <2>2 DEF FreezeInv, ReadsAreFresh
    <3> QED
      BY <2>1, <2>2, <3>2, <3>3 DEF FreezeInv, ReadsAreFresh, SnapshotIsOfItsFreeze
  <2>3. CASE ~(series # Nothing /\ series.freezeAt = moment + 1)
    <3>1. series' = series
      BY <1>1, <2>3 DEF MomentPasses
    <3> QED
      BY <2>1, <3>1 DEF FreezeInv, ReadsAreFresh, SnapshotIsOfItsFreeze
  <2> QED
    BY <2>2, <2>3
<1>2. CASE SaveResult
  BY <1>2 DEF SaveResult, FreezeInv, ReadsAreFresh, SnapshotIsOfItsFreeze
<1>3. CASE Hide \/ Unhide \/ RevealSeries
  BY <1>3 DEF Hide, Unhide, RevealSeries, FreezeInv, ReadsAreFresh, SnapshotIsOfItsFreeze
<1> QED
  BY <1>1, <1>2, <1>3 DEF World

LEMMA BeginsKeepsFresh == ASSUME SeriesTyped, FreezeInv, NEW c \in SeriesCallers, Begins(c) PROVE FreezeInv'
<1> USE Numbers
<1>1. CASE CronFindsSeries(c) \/ AskForSeries(c) \/ Fails(c)
  <2>1. call'[c].for = Nothing /\ call'[c].results = Nothing /\ call'[c].at \in {0, moment}
    <3>1. CASE CronFindsSeries(c) \/ AskForSeries(c)
      BY <3>1, ZenonT(20) DEF CronFindsSeries, AskForSeries, SeriesTyped, SeriesTypeOK, NoCall
    <3>2. CASE Fails(c)
      BY <3>2, NoCallFields DEF Fails, SeriesTyped, SeriesTypeOK
    <3> QED
      BY <1>1, <3>1, <3>2
  <2>2. \A d \in SeriesCallers : d # c => call'[d] = call[d]
    BY <1>1 DEF CronFindsSeries, AskForSeries, Fails, SeriesTyped, SeriesTypeOK
  <2>3. UNCHANGED <<moment, latest, series>>
    BY <1>1 DEF CronFindsSeries, AskForSeries, Fails
  <2> QED
    BY <2>1, <2>2, <2>3, OtherLoadsStay
<1>2. ASSUME NEW t \in Moments, FreezeSeries(c, t) PROVE FreezeInv'
  <2>1. /\ moment' = moment + 1 /\ latest' = latest /\ t > moment /\ t \in Nat
        /\ series' = [set |-> moment + 1, freezeAt |-> t, taken |-> Nothing, due |-> latest]
    BY <1>2 DEF FreezeSeries, Moments
  <2>2. call'[c].for = Nothing /\ call'[c].results = Nothing /\ call'[c].at \in {0, moment + 1}
    BY <1>2, NoCallFields DEF FreezeSeries, SeriesTyped, SeriesTypeOK, NoCall
  <2>3. \A d \in SeriesCallers : d # c => call'[d] = call[d]
    BY <1>2 DEF FreezeSeries, SeriesTyped, SeriesTypeOK
  <2>4. \A d \in SeriesCallers : d # c => call'[d].for = Nothing \/ call'[d].for <= moment
    BY <2>3 DEF FreezeInv, ReadsAreFresh
  <2> QED
    BY <2>1, <2>2, <2>3, <2>4 DEF FreezeInv, ReadsAreFresh, SnapshotIsOfItsFreeze
<1> QED
  BY <1>1, <1>2 DEF Begins

LEMMA LoadsKeepsFresh == ASSUME SeriesTyped, FreezeInv, NEW c \in SeriesCallers, Loads(c) PROVE FreezeInv'
<1> USE Numbers
<1>0. UNCHANGED <<moment, latest, series>>
  BY DEF Loads, LookAtSeries, EnsureReads, ReadResults, ReadOwnFreeze
<1>1. CASE LookAtSeries(c) \/ ReadOwnFreeze(c)
  <2>1. /\ call'[c].for = call[c].for /\ call'[c].at = call[c].at
        /\ call'[c].results = call[c].results
    BY <1>1 DEF LookAtSeries, ReadOwnFreeze, SeriesTyped, SeriesTypeOK, Call
  <2>2. \A d \in SeriesCallers : d # c => call'[d] = call[d]
    BY <1>1 DEF LookAtSeries, ReadOwnFreeze, SeriesTyped, SeriesTypeOK
  <2>3. call'[c].at <= moment /\ (call'[c].pc \in {"view", "ensure"} => call'[c].results = Nothing)
    BY <1>1, <2>1 DEF LookAtSeries, ReadOwnFreeze, FreezeInv, ReadsAreFresh, SeriesTyped, SeriesTypeOK, Call
  <2> QED
    BY <1>0, <2>1, <2>2, <2>3, OtherLoadsStay
<1>2. CASE EnsureReads(c)
  <2>1. ASSUME NEW v, SeriesAnswered(c, v) PROVE FreezeInv'
    BY <1>0, <2>1, AnswerHasNoLoad, OtherLoadsStay
  <2>2. CASE SeriesDue(call[c].at) /\ call' = [call EXCEPT ![c].pc = "load", ![c].for = series.freezeAt]
    <3>1. /\ call'[c].for = series.freezeAt /\ call'[c].at = call[c].at
          /\ call'[c].results = call[c].results /\ call'[c].pc = "load"
      BY <2>2 DEF SeriesTyped, SeriesTypeOK, Call
    <3>2. \A d \in SeriesCallers : d # c => call'[d] = call[d]
      BY <2>2 DEF SeriesTyped, SeriesTypeOK
    <3>3. call[c].results = Nothing /\ series.freezeAt <= call[c].at
      BY <1>2, <2>2 DEF EnsureReads, SeriesDue, FreezeInv, ReadsAreFresh
    <3> QED
      BY <1>0, <3>1, <3>2, <3>3 DEF FreezeInv, ReadsAreFresh, SnapshotIsOfItsFreeze
  <2> QED
    BY <1>2, <2>1, <2>2 DEF EnsureReads
<1>3. CASE ReadResults(c)
  <2>1. call'[c].for = call[c].for /\ call'[c].at = call[c].at /\ call'[c].results = latest
        /\ call'[c].pc = "load"
    BY <1>3 DEF ReadResults, SeriesTyped, SeriesTypeOK, Call
  <2>2. \A d \in SeriesCallers : d # c => call'[d] = call[d]
    BY <1>3 DEF ReadResults, SeriesTyped, SeriesTypeOK
  <2> QED
    BY <1>0, <2>1, <2>2 DEF FreezeInv, ReadsAreFresh, SnapshotIsOfItsFreeze
<1> QED
  BY <1>1, <1>2, <1>3 DEF Loads

LEMMA EndsKeepsFresh == ASSUME SeriesTyped, FreezeInv, NEW c \in SeriesCallers, SeriesEnds(c) PROVE FreezeInv'
<1> USE Numbers
<1>1. CASE ShowLive(c) \/ RereadSeries(c)
  <2>1. PICK v : SeriesAnswered(c, v)
    BY <1>1 DEF ShowLive, RereadSeries
  <2>2. UNCHANGED <<moment, latest, series>>
    BY <1>1 DEF ShowLive, RereadSeries
  <2> QED
    BY <2>1, <2>2, AnswerHasNoLoad, OtherLoadsStay
<1>2. CASE StoreSnapshot(c) /\ MayStore(c)
  <2>1. /\ series # Nothing /\ series.freezeAt = call[c].for /\ moment' = moment /\ latest' = latest
        /\ series' = [series EXCEPT !.taken = Loaded(c)] /\ SeriesAnswered(c, Loaded(c))
        /\ call[c].for # Nothing /\ call[c].results # Nothing
    BY <1>2 DEF StoreSnapshot, MayStore, HasLoaded
  <2>2. series \in Freeze
    BY <2>1 DEF SeriesTyped, SeriesTypeOK
  <2>3. /\ series'.freezeAt = series.freezeAt /\ series'.due = series.due
        /\ series'.taken = Loaded(c)
    BY <2>1, <2>2 DEF Freeze
  <2>4. call[c].results >= series.due /\ series.freezeAt <= moment
    BY <2>1 DEF FreezeInv, ReadsAreFresh
  <2>5. Loaded(c).own \/ Loaded(c).of = call[c].results
    BY DEF Loaded
  <2>6. /\ call'[c].for = Nothing /\ call'[c].results = Nothing /\ call'[c].at <= moment
        /\ \A d \in SeriesCallers : d # c => call'[d] = call[d]
    BY <2>1, AnswerHasNoLoad
  <2> QED
    BY <2>1, <2>3, <2>4, <2>5, <2>6 DEF FreezeInv, ReadsAreFresh, SnapshotIsOfItsFreeze
<1>3. CASE StoreSnapshot(c) /\ ~MayStore(c)
  <2>1. /\ call'[c].for = call[c].for /\ call'[c].at = call[c].at
        /\ call'[c].results = call[c].results /\ call'[c].pc = "reread"
    BY <1>3 DEF StoreSnapshot, SeriesTyped, SeriesTypeOK, Call
  <2>2. \A d \in SeriesCallers : d # c => call'[d] = call[d]
    BY <1>3 DEF StoreSnapshot, SeriesTyped, SeriesTypeOK
  <2>3. UNCHANGED <<moment, latest, series>> /\ call'[c].at <= moment
    BY <1>3, <2>1 DEF StoreSnapshot, FreezeInv, ReadsAreFresh
  <2> QED
    BY <2>1, <2>2, <2>3, OtherLoadsStay
<1> QED
  BY <1>1, <1>2, <1>3 DEF SeriesEnds

\* A stored standing includes what was committed when its freeze came into force, whatever
\* was loading when the freeze was set anew.
THEOREM SeriesSnapshotHolds == SeriesSpec => []SnapshotIsOfItsFreeze
<1>1. SeriesInit => SeriesTyped /\ FreezeInv
  <2>1. SeriesInit => FreezeInv
    BY NoCallFields DEF SeriesInit, FreezeInv, ReadsAreFresh, SnapshotIsOfItsFreeze
  <2> QED
    BY <2>1, InitAllTyped
<1>2. SeriesTyped /\ FreezeInv /\ [SeriesNext]_seriesVars => (SeriesTyped /\ FreezeInv)'
  <2> SUFFICES ASSUME SeriesTyped, FreezeInv, [SeriesNext]_seriesVars PROVE FreezeInv'
    BY StepTyped
  <2>1. CASE UNCHANGED seriesVars
    BY <2>1 DEF seriesVars, FreezeInv, ReadsAreFresh, SnapshotIsOfItsFreeze
  <2>2. CASE SeriesNext
    BY <2>2, SeriesSteps, WorldKeepsFresh, BeginsKeepsFresh, LoadsKeepsFresh, EndsKeepsFresh
  <2> QED
    BY <2>1, <2>2
<1>3. FreezeInv => SnapshotIsOfItsFreeze
  BY DEF FreezeInv
<1> QED
  BY <1>1, <1>2, <1>3, PTL DEF SeriesSpec

-----------------------------------------------------------------------------
(* The leaderboard that is shown: sums and sequences.                       *)

\* A set of numbers that contains 0, and with each number the next, contains all to n.
LEMMA StepByStep ==
    ASSUME NEW n \in Nat, NEW S, 0 \in S, \A i \in 1..n : i - 1 \in S => i \in S
    PROVE  0..n \subseteq S
<1> DEFINE T == (0..n) \ S
<1> SUFFICES ASSUME T # {} PROVE FALSE
    OBVIOUS
<1>1. PICK m \in T : \A k \in T : ~(k < m)
    <2>1. T \subseteq Nat
        OBVIOUS
    <2> HIDE DEF T
    <2>2. PICK m \in T : \A k \in T : <<k, m>> \notin OpToRel(<, Nat)
        BY <2>1, NatLessThanWellFounded, WFMin
    <2> QED BY <2>1, <2>2 DEF OpToRel
<1>2. m # 0 /\ m \in 1..n /\ m - 1 \in 0..n /\ m - 1 \in S
    BY <1>1
<1> QED BY <1>1, <1>2

\* How the library adds a function up: one value after the other, over all sets of
\* arguments with at most n of them.
Chosen(s) == CHOOSE x \in s : TRUE
AddsOf(f, g, s) == IF s = {} THEN 0 ELSE f[Chosen(s)] + g[s \ {Chosen(s)}]
Adds(f, g, T) == g = [s \in T |-> AddsOf(f, g, s)]
UpTo(S, n) == {s \in SUBSET S : Cardinality(s) <= n}

LEMMA ChosenLeavesFewer ==
    ASSUME NEW S, IsFiniteSet(S), NEW s \in SUBSET S, s # {}
    PROVE  /\ Chosen(s) \in s /\ s \ {Chosen(s)} \in SUBSET S
           /\ Cardinality(s) \in Nat /\ Cardinality(s \ {Chosen(s)}) = Cardinality(s) - 1
<1>1. Chosen(s) \in s
    BY DEF Chosen
<1>2. IsFiniteSet(s)
    BY FS_Subset
<1> QED BY <1>1, <1>2, FS_RemoveElement, FS_CardinalityType

\* The function exists.
LEMMA SumsExist ==
    ASSUME NEW S, IsFiniteSet(S), NEW f
    PROVE  \E g : Adds(f, g, SUBSET S)
<1> DEFINE n == Cardinality(S)
           K == {k \in 0..n : \E g : Adds(f, g, UpTo(S, k))}
<1>1. n \in Nat /\ \A s \in SUBSET S : Cardinality(s) \in Nat /\ Cardinality(s) <= n
    BY FS_CardinalityType, FS_Subset
<1>2. 0 \in K
    <2> DEFINE g == [s \in UpTo(S, 0) |-> 0]
    <2>1. \A s \in UpTo(S, 0) : s = {}
        <3> SUFFICES ASSUME NEW s \in UpTo(S, 0) PROVE s = {}
            OBVIOUS
        <3>1. IsFiniteSet(s) /\ Cardinality(s) = 0
            BY <1>1, FS_Subset DEF UpTo
        <3> QED BY <3>1, FS_EmptySet
    <2>2. \A s \in UpTo(S, 0) : AddsOf(f, g, s) = 0
        BY <2>1 DEF AddsOf
    <2>3. Adds(f, g, UpTo(S, 0))
        BY <2>2 DEF Adds
    <2> QED BY <1>1, <2>3
<1>3. ASSUME NEW k \in 1..n, k - 1 \in K PROVE k \in K
    <2>1. PICK g : Adds(f, g, UpTo(S, k - 1))
        BY <1>3
    <2> DEFINE h == [s \in UpTo(S, k) |-> AddsOf(f, g, s)]
    <2>2. \A s \in UpTo(S, k - 1) : s \in UpTo(S, k) /\ h[s] = g[s]
        <3> SUFFICES ASSUME NEW s \in UpTo(S, k - 1) PROVE s \in UpTo(S, k) /\ h[s] = g[s]
            OBVIOUS
        <3>1. s \in UpTo(S, k)
            BY <1>1 DEF UpTo
        <3>2. g[s] = AddsOf(f, g, s)
            BY <2>1 DEF Adds
        <3> QED BY <3>1, <3>2
    <2>3. \A s \in UpTo(S, k) : AddsOf(f, h, s) = AddsOf(f, g, s)
        <3> SUFFICES ASSUME NEW s \in UpTo(S, k), s # {} PROVE AddsOf(f, h, s) = AddsOf(f, g, s)
            BY DEF AddsOf
        <3>1. s \in SUBSET S /\ Cardinality(s) <= k
            BY DEF UpTo
        <3>2. s \ {Chosen(s)} \in SUBSET S /\ Cardinality(s \ {Chosen(s)}) <= k - 1
            BY <3>1, ChosenLeavesFewer
        <3>3. s \ {Chosen(s)} \in UpTo(S, k - 1)
            BY <3>2 DEF UpTo
        <3> HIDE DEF h
        <3> QED BY <2>2, <3>3 DEF AddsOf
    <2>4. Adds(f, h, UpTo(S, k))
        <3>1. h = [s \in UpTo(S, k) |-> AddsOf(f, h, s)]
            BY <2>3
        <3> HIDE DEF h
        <3> QED BY <3>1 DEF Adds
    <2> HIDE DEF h
    <2> QED BY <2>4
<1>4. n \in K
    <2> HIDE DEF K, n
    <2>1. 0..n \subseteq K
        BY <1>1, <1>2, <1>3, StepByStep
    <2> QED BY <1>1, <2>1
<1>5. UpTo(S, n) = SUBSET S
    BY <1>1 DEF UpTo
<1> QED BY <1>4, <1>5

\* A sum of integers is an integer.
LEMMA SumType ==
    ASSUME NEW f, IsFiniteSet(DOMAIN f), \A x \in DOMAIN f : f[x] \in Int
    PROVE  SumFunction(f) \in Int
<1> DEFINE S == DOMAIN f
           n == Cardinality(S)
           g == CHOOSE h : Adds(f, h, SUBSET S)
           K == {k \in 0..n : \A s \in UpTo(S, k) : g[s] \in Int}
<1>1. SumFunction(f) = g[S]
    BY DEF SumFunction, SumFunctionOnSet, FoldFunctionOnSet, MapThenFoldSet, Adds, AddsOf, Chosen
<1>2. Adds(f, g, SUBSET S)
    BY SumsExist
<1>3. n \in Nat /\ \A s \in SUBSET S : Cardinality(s) \in Nat /\ Cardinality(s) <= n
    BY FS_CardinalityType, FS_Subset
<1> HIDE DEF g
<1>4. \A s \in SUBSET S : g[s] = AddsOf(f, g, s)
    BY <1>2 DEF Adds
<1>5. 0 \in K
    <2> SUFFICES ASSUME NEW s \in UpTo(S, 0) PROVE g[s] \in Int
        BY <1>3
    <2>1. IsFiniteSet(s) /\ Cardinality(s) = 0 /\ s \in SUBSET S
        BY <1>3, FS_Subset DEF UpTo
    <2>2. s = {}
        BY <2>1, FS_EmptySet
    <2> QED BY <1>4, <2>1, <2>2 DEF AddsOf
<1>6. ASSUME NEW k \in 1..n, k - 1 \in K PROVE k \in K
    <2> SUFFICES ASSUME NEW s \in UpTo(S, k) PROVE g[s] \in Int
        BY <1>6
    <2>1. s \in SUBSET S /\ Cardinality(s) <= k
        BY DEF UpTo
    <2>2. CASE s = {}
        BY <1>4, <2>1, <2>2 DEF AddsOf
    <2>3. CASE s # {}
        <3>1. /\ Chosen(s) \in S /\ s \ {Chosen(s)} \in SUBSET S
              /\ Cardinality(s \ {Chosen(s)}) <= k - 1
            BY <2>1, <2>3, ChosenLeavesFewer
        <3>2. s \ {Chosen(s)} \in UpTo(S, k - 1)
            BY <3>1 DEF UpTo
        <3>3. g[s \ {Chosen(s)}] \in Int /\ f[Chosen(s)] \in Int
            BY <1>6, <3>1, <3>2
        <3> QED BY <1>4, <2>1, <2>3, <3>3 DEF AddsOf
    <2> QED BY <2>2, <2>3
<1>7. n \in K
    <2> HIDE DEF K, n
    <2>1. 0..n \subseteq K
        BY <1>3, <1>5, <1>6, StepByStep
    <2> QED BY <1>3, <2>1
<1>8. S \in UpTo(S, n)
    BY <1>3 DEF UpTo
<1> QED BY <1>1, <1>7, <1>8

\* A sequence that lists each element of a set once.
Listing(seq, n, G) ==
    /\ n \in Nat /\ seq \in [1..n -> G] /\ seq \in Seq(G)
    /\ \A i, j \in 1..n : seq[i] = seq[j] => i = j
    /\ \A t \in G : \E i \in 1..n : seq[i] = t

LEMMA ListingLength ==
    ASSUME NEW seq, NEW n, NEW G, Listing(seq, n, G)
    PROVE  Len(seq) = n /\ DOMAIN seq = 1..n
<1>1. DOMAIN seq = 1..n /\ DOMAIN seq = 1..Len(seq) /\ Len(seq) \in Nat /\ n \in Nat
    BY DEF Listing
<1> DEFINE l == Len(seq)
<1> HIDE DEF l
<1>2. 1..n = 1..l /\ l \in Nat
    BY <1>1 DEF l
<1>3. l = n
    <2>1. n \in 1..n <=> n \in 1..l
        BY <1>2
    <2>2. l \in 1..n <=> l \in 1..l
        BY <1>2
    <2> QED BY <1>1, <1>2, <2>1, <2>2
<1> QED BY <1>1, <1>3 DEF l

\* The least of the places where a team may be inserted.
LEMMA LeastPlace ==
    ASSUME NEW T \in SUBSET Nat, T # {}
    PROVE  \E i \in T : \A j \in T : i <= j
<1>1. PICK m \in T : \A k \in T : <<k, m>> \notin OpToRel(<, Nat)
    BY NatLessThanWellFounded, WFMin
<1>2. \A k \in T : ~(k < m)
    BY <1>1 DEF OpToRel
<1>3. \A k \in T : m <= k
    BY <1>2
<1> QED BY <1>3

\* A team is inserted at a place that nobody has behind whom it is ahead of.
InsertedAt(new, ahead, seq, n, t, place) ==
    /\ new = [i \in 1..(n + 1) |-> IF i < place THEN seq[i] ELSE IF i = place THEN t ELSE seq[i - 1]]
    /\ \A i \in 1..n : i < place => <<t, seq[i]>> \notin ahead
    /\ place <= n => <<t, seq[place]>> \in ahead

LEMMA InsertedIs ==
    ASSUME NEW ahead, NEW seq, NEW n, NEW G, Listing(seq, n, G), NEW t
    PROVE  \E place \in 1..(n + 1) : InsertedAt(Inserted(ahead, seq, t), ahead, seq, n, t, place)
<1> DEFINE later == {i \in DOMAIN seq : <<t, seq[i]>> \in ahead}
           place == IF later = {} THEN Len(seq) + 1 ELSE CHOOSE i \in later : \A j \in later : i <= j
           new == Inserted(ahead, seq, t)
           m == n + 1
<1>1. n \in Nat /\ Len(seq) = n /\ DOMAIN seq = 1..n
    BY ListingLength DEF Listing
<1>2. new = [i \in 1..m |-> IF i < place THEN seq[i] ELSE IF i = place THEN t ELSE seq[i - 1]]
    BY <1>1 DEF Inserted
<1>3. later \in SUBSET Nat /\ later \subseteq 1..n
    BY <1>1
<1>4. \A i \in 1..n : <<t, seq[i]>> \in ahead <=> i \in later
    BY <1>1
<1>5. CASE later = {}
    <2>1. place = m
        BY <1>1, <1>5
    <2>2. \A i \in 1..n : i < place => <<t, seq[i]>> \notin ahead
        BY <1>4, <1>5
    <2> HIDE DEF place, new, later
    <2>3. place \in 1..m /\ ~(place <= n)
        BY <1>1, <2>1
    <2> QED BY <1>2, <2>2, <2>3 DEF InsertedAt, new
<1>6. CASE later # {}
    <2>1. \E i \in later : \A j \in later : i <= j
        <3> HIDE DEF later
        <3> QED BY <1>3, <1>6, LeastPlace
    <2>2. place \in later /\ \A j \in later : place <= j
        BY <1>6, <2>1
    <2> HIDE DEF place, new, later
    <2>3. place \in 1..n /\ <<t, seq[place]>> \in ahead
        BY <1>3, <1>4, <2>2
    <2>4. \A i \in 1..n : i < place => <<t, seq[i]>> \notin ahead
        BY <1>1, <1>4, <2>2, <2>3
    <2>5. place \in 1..m
        BY <1>1, <2>3
    <2> QED BY <1>2, <2>3, <2>4, <2>5 DEF InsertedAt, new
<1> QED BY <1>5, <1>6

\* A team that is inserted is listed with the others.
LEMMA InsertedListing ==
    ASSUME NEW ahead, NEW seq, NEW n, NEW G, Listing(seq, n, G), NEW t, t \notin G
    PROVE  Listing(Inserted(ahead, seq, t), n + 1, G \cup {t})
<1> DEFINE new == Inserted(ahead, seq, t)
           H == G \cup {t}
           m == n + 1
<1>1. /\ n \in Nat /\ DOMAIN seq = 1..n /\ \A i \in 1..n : seq[i] \in G
      /\ \A i, j \in 1..n : seq[i] = seq[j] => i = j
      /\ \A u \in G : \E i \in 1..n : seq[i] = u
    BY ListingLength DEF Listing
<1>2. PICK place \in 1..m : InsertedAt(new, ahead, seq, n, t, place)
    BY InsertedIs
<1>3. new = [i \in 1..m |-> IF i < place THEN seq[i] ELSE IF i = place THEN t ELSE seq[i - 1]]
    BY <1>2 DEF InsertedAt
<1> HIDE DEF new
<1>4. m \in Nat /\ place \in Nat
    BY <1>1, <1>2
<1>5. ASSUME NEW i \in 1..m
      PROVE  /\ i \in Int
             /\ i < place => i \in 1..n /\ new[i] = seq[i]
             /\ i = place => new[i] = t
             /\ i > place => i - 1 \in 1..n /\ new[i] = seq[i - 1]
    BY <1>1, <1>2, <1>3
<1>6. ASSUME NEW i \in 1..m PROVE new[i] \in H
    <2>1. i < place \/ i = place \/ i > place
        BY <1>4, <1>5
    <2> QED BY <1>1, <1>5, <2>1
<1>7. new \in [1..m -> H]
    BY <1>3, <1>6
<1>8. new \in Seq(H)
    <2> HIDE DEF m, H
    <2> QED BY <1>4, <1>7
<1>9. ASSUME NEW i \in 1..m, NEW j \in 1..m, new[i] = new[j]
      PROVE  i = j
    <2>1. \A k \in 1..n : seq[k] # t
        BY <1>1
    <2>2. i \in Int /\ j \in Int /\ place \in Int
        BY <1>4, <1>5
    <2> HIDE DEF m
    <2>3. CASE i = place \/ j = place
        BY <1>5, <1>9, <2>1, <2>2, <2>3
    <2>4. CASE i < place /\ j < place
        BY <1>1, <1>5, <1>9, <2>4
    <2>5. CASE i > place /\ j > place
        BY <1>1, <1>5, <1>9, <2>2, <2>5
    <2>6. CASE i < place /\ j > place
        BY <1>1, <1>5, <1>9, <2>2, <2>6
    <2>7. CASE i > place /\ j < place
        BY <1>1, <1>5, <1>9, <2>2, <2>7
    <2> QED BY <2>2, <2>3, <2>4, <2>5, <2>6, <2>7
<1>10. ASSUME NEW u \in H PROVE \E i \in 1..m : new[i] = u
    <2>1. CASE u = t
        BY <1>2, <1>5, <2>1
    <2>2. CASE u # t
        <3>1. PICK i \in 1..n : seq[i] = u
            BY <1>1, <2>2
        <3>2. CASE i < place
            <4>1. i \in 1..m
                BY <1>1
            <4> QED BY <1>5, <3>1, <3>2, <4>1
        <3>3. CASE i >= place
            <4>1. i + 1 \in 1..m /\ i + 1 > place /\ (i + 1) - 1 = i
                BY <1>1, <1>4, <3>3
            <4>2. new[i + 1] = seq[i]
                BY <1>5, <4>1
            <4> QED BY <3>1, <4>1, <4>2
        <3> QED BY <1>4, <3>2, <3>3
    <2> QED BY <2>1, <2>2
<1> HIDE DEF H, m
<1>11. Listing(new, m, H)
    BY <1>4, <1>7, <1>8, <1>9, <1>10 DEF Listing
<1> QED BY <1>11 DEF new, m, H

\* The first k of those listed are k.
LEMMA FirstListed ==
    ASSUME NEW seq, NEW n, NEW G, Listing(seq, n, G), NEW k \in 0..n
    PROVE  Cardinality({seq[i] : i \in 1..k}) = k
<1> DEFINE T == {seq[i] : i \in 1..k}
           f == [i \in 1..k |-> seq[i]]
<1>1. k \in Nat /\ \A i \in 1..k : i \in 1..n
    BY DEF Listing
<1>2. f \in Bijection(1..k, T)
    <2>1. f \in [1..k -> T]
        OBVIOUS
    <2>2. \A i, j \in 1..k : f[i] = f[j] => i = j
        BY <1>1 DEF Listing
    <2>3. \A t \in T : \E i \in 1..k : f[i] = t
        OBVIOUS
    <2> HIDE DEF f, T
    <2>4. f \in Injection(1..k, T)
        <3>1. DOMAIN f = 1..k
            BY <2>1
        <3> QED BY <2>1, <2>2, <3>1 DEF Injection, IsInjective
    <2>5. f \in Surjection(1..k, T)
        BY <2>1, <2>3 DEF Surjection
    <2> QED BY <2>4, <2>5 DEF Bijection
<1> HIDE DEF T, f
<1>3. ExistsBijection(1..k, T)
    BY <1>2 DEF ExistsBijection
<1>4. Cardinality(T) = k
    BY <1>1, <1>3, FS_CountingElements
<1> QED BY <1>4 DEF T

LEMMA AllListed ==
    ASSUME NEW seq, NEW n, NEW G, Listing(seq, n, G)
    PROVE  Cardinality(G) = n
<1>1. n \in 0..n
    BY DEF Listing
<1>2. {seq[i] : i \in 1..n} = G
    BY DEF Listing
<1> QED BY <1>1, <1>2, FirstListed

-----------------------------------------------------------------------------
(* Orders: of numbers, of sequences of what is ordered, and of teams by what *)
(* the rules compare of them.                                               *)

StrictOrder(R, D) ==
    /\ \A x \in D : <<x, x>> \notin R
    /\ \A x, y, z \in D : <<x, y>> \in R /\ <<y, z>> \in R => <<x, z>> \in R
    /\ \A x, y \in D : x = y \/ <<x, y>> \in R \/ <<y, x>> \in R

\* The first place where two differ decides.
Lex(ord, n, a, b) ==
    \E i \in 1..n : <<a[i], b[i]>> \in ord[i] /\ \A j \in 1..(i - 1) : a[j] = b[j]

LEMMA LexTransitive ==
    ASSUME NEW n \in Nat, NEW ord, NEW D, \A i \in 1..n : StrictOrder(ord[i], D[i]),
           NEW a, NEW b, NEW c, \A i \in 1..n : a[i] \in D[i] /\ b[i] \in D[i] /\ c[i] \in D[i],
           Lex(ord, n, a, b), Lex(ord, n, b, c)
    PROVE  Lex(ord, n, a, c)
<1>1. PICK i \in 1..n : <<a[i], b[i]>> \in ord[i] /\ \A j \in 1..(i - 1) : a[j] = b[j]
    BY DEF Lex
<1>2. PICK k \in 1..n : <<b[k], c[k]>> \in ord[k] /\ \A j \in 1..(k - 1) : b[j] = c[j]
    BY DEF Lex
<1>3. CASE i < k
    <2>1. b[i] = c[i] /\ \A j \in 1..(i - 1) : a[j] = c[j]
        BY <1>1, <1>2, <1>3
    <2> QED BY <1>1, <2>1 DEF Lex
<1>4. CASE k < i
    <2>1. a[k] = b[k] /\ \A j \in 1..(k - 1) : a[j] = c[j]
        BY <1>1, <1>2, <1>4
    <2> QED BY <1>2, <2>1 DEF Lex
<1>5. CASE i = k
    <2>1. <<a[i], c[i]>> \in ord[i]
        BY <1>1, <1>2, <1>5 DEF StrictOrder
    <2>2. \A j \in 1..(i - 1) : a[j] = c[j]
        BY <1>1, <1>2, <1>5
    <2> QED BY <2>1, <2>2 DEF Lex
<1> QED BY <1>3, <1>4, <1>5

LEMMA LexTotal ==
    ASSUME NEW n \in Nat, NEW ord, NEW D, \A i \in 1..n : StrictOrder(ord[i], D[i]),
           NEW a, NEW b, \A i \in 1..n : a[i] \in D[i] /\ b[i] \in D[i]
    PROVE  /\ ~Lex(ord, n, a, a)
           /\ (\A i \in 1..n : a[i] = b[i]) \/ Lex(ord, n, a, b) \/ Lex(ord, n, b, a)
<1>1. ~Lex(ord, n, a, a)
    BY DEF Lex, StrictOrder
<1>2. ASSUME NEW k \in 1..n, a[k] # b[k] PROVE Lex(ord, n, a, b) \/ Lex(ord, n, b, a)
    <2> DEFINE T == {i \in 1..n : a[i] # b[i]}
    <2>1. T \in SUBSET Nat /\ T # {}
        BY <1>2
    <2> HIDE DEF T
    <2>2. PICK i \in T : \A j \in T : i <= j
        BY <2>1, LeastPlace
    <2>3. i \in 1..n /\ a[i] # b[i]
        BY DEF T
    <2>4. \A j \in 1..(i - 1) : a[j] = b[j] /\ b[j] = a[j]
        <3> SUFFICES ASSUME NEW j \in 1..(i - 1), a[j] # b[j] PROVE FALSE
            OBVIOUS
        <3>1. j \in T /\ j < i
            BY <2>3 DEF T
        <3> QED BY <2>1, <2>2, <3>1
    <2>5. <<a[i], b[i]>> \in ord[i] \/ <<b[i], a[i]>> \in ord[i]
        BY <2>3 DEF StrictOrder
    <2> QED BY <2>3, <2>4, <2>5 DEF Lex
<1> QED BY <1>1, <1>2

\* Sequences of n numbers are ordered by Less.
SmallerOf == {p \in Int \X Int : p[1] < p[2]}
LessPairs(n) == {p \in [1..n -> Int] \X [1..n -> Int] : Less(p[1], p[2])}

LEMMA LessIsAnOrder ==
    ASSUME NEW n \in Nat PROVE StrictOrder(LessPairs(n), [1..n -> Int])
<1> DEFINE D == [i \in 1..n |-> Int]
           ord == [i \in 1..n |-> SmallerOf]
           S == [1..n -> Int]
<1>1. \A i \in 1..n : StrictOrder(ord[i], D[i])
    BY DEF StrictOrder, SmallerOf
<1>2. ASSUME NEW a \in S, NEW b \in S PROVE Less(a, b) <=> Lex(ord, n, a, b)
    <2>1. DOMAIN a = 1..n /\ \A i \in 1..n : a[i] \in Int /\ b[i] \in Int
        OBVIOUS
    <2>2. \A i \in 1..n : a[i] < b[i] <=> <<a[i], b[i]>> \in ord[i]
        BY <2>1 DEF SmallerOf
    <2> HIDE DEF ord
    <2> QED BY <2>1, <2>2 DEF Less, Lex
<1>3. \A a \in S : \A i \in 1..n : a[i] \in D[i]
    OBVIOUS
<1>4. \A a, b \in S : <<a, b>> \in LessPairs(n) <=> Less(a, b)
    BY DEF LessPairs
<1> HIDE DEF D, ord
<1>5. ASSUME NEW a \in S PROVE <<a, a>> \notin LessPairs(n)
    BY <1>1, <1>2, <1>3, <1>4, LexTotal
<1>6. ASSUME NEW a \in S, NEW b \in S, NEW c \in S,
             <<a, b>> \in LessPairs(n), <<b, c>> \in LessPairs(n)
      PROVE  <<a, c>> \in LessPairs(n)
    <2>1. Lex(ord, n, a, b) /\ Lex(ord, n, b, c)
        BY <1>2, <1>4, <1>6
    <2>2. Lex(ord, n, a, c)
        BY <1>1, <1>3, <2>1, LexTransitive
    <2> QED BY <1>2, <1>4, <2>2
<1>7. ASSUME NEW a \in S, NEW b \in S, a # b
      PROVE  <<a, b>> \in LessPairs(n) \/ <<b, a>> \in LessPairs(n)
    <2>1. ~ \A i \in 1..n : a[i] = b[i]
        BY <1>7
    <2>2. Lex(ord, n, a, b) \/ Lex(ord, n, b, a)
        BY <1>1, <1>3, <2>1, LexTotal
    <2> QED BY <1>2, <1>4, <2>2
<1> HIDE DEF S
<1>8. StrictOrder(LessPairs(n), S)
    BY <1>5, <1>6, <1>7 DEF StrictOrder
<1> QED BY <1>8 DEF S

\* An order that may leave some equal.
WeakOrder(ahead, G) ==
    /\ \A t \in G : <<t, t>> \notin ahead
    /\ \A t, u, v \in G : <<t, u>> \in ahead /\ <<u, v>> \in ahead => <<t, v>> \in ahead
    /\ \A t, u, v \in G : <<t, v>> \in ahead => <<t, u>> \in ahead \/ <<u, v>> \in ahead

\* Whatever is compared by sequences of numbers, rule by rule, is ordered like this.
KeysTyped(K, G, n, len) ==
    \A t \in G : \A i \in 1..n : K[t][i] \in [1..len[i] -> Int]
AheadByKeys(ahead, K, G, n) ==
    \A t, u \in G : <<t, u>> \in ahead <=>
        \E i \in 1..n : Less(K[t][i], K[u][i]) /\ \A j \in 1..(i - 1) : K[t][j] = K[u][j]

LEMMA RulesOrder ==
    ASSUME NEW n \in Nat, NEW G, NEW K, NEW len \in [1..n -> Nat], KeysTyped(K, G, n, len),
           NEW ahead, AheadByKeys(ahead, K, G, n)
    PROVE  WeakOrder(ahead, G)
<1> DEFINE D == [i \in 1..n |-> [1..len[i] -> Int]]
           ord == [i \in 1..n |-> LessPairs(len[i])]
<1>1. \A i \in 1..n : StrictOrder(ord[i], D[i])
    BY LessIsAnOrder
<1>2. \A t \in G : \A i \in 1..n : K[t][i] \in D[i]
    BY DEF KeysTyped
<1>3. \A t, u \in G : <<t, u>> \in ahead <=> Lex(ord, n, K[t], K[u])
    <2> SUFFICES ASSUME NEW t \in G, NEW u \in G
                 PROVE  <<t, u>> \in ahead <=> Lex(ord, n, K[t], K[u])
        OBVIOUS
    <2>1. ASSUME NEW i \in 1..n
          PROVE  <<K[t][i], K[u][i]>> \in ord[i] <=> Less(K[t][i], K[u][i])
        <3>1. ord[i] = LessPairs(len[i])
            OBVIOUS
        <3>2. K[t][i] \in [1..len[i] -> Int] /\ K[u][i] \in [1..len[i] -> Int]
            BY DEF KeysTyped
        <3> QED BY <3>1, <3>2 DEF LessPairs
    <2>2. <<t, u>> \in ahead <=>
            \E i \in 1..n : Less(K[t][i], K[u][i]) /\ \A j \in 1..(i - 1) : K[t][j] = K[u][j]
        BY DEF AheadByKeys
    <2> HIDE DEF ord
    <2> QED BY <2>1, <2>2 DEF Lex
<1> HIDE DEF D, ord
<1>4. ASSUME NEW t \in G PROVE <<t, t>> \notin ahead
    BY <1>1, <1>2, <1>3, LexTotal
<1>5. ASSUME NEW t \in G, NEW u \in G, NEW v \in G, <<t, u>> \in ahead, <<u, v>> \in ahead
      PROVE  <<t, v>> \in ahead
    <2>1. Lex(ord, n, K[t], K[u]) /\ Lex(ord, n, K[u], K[v])
        BY <1>3, <1>5
    <2>2. Lex(ord, n, K[t], K[v])
        BY <1>1, <1>2, <2>1, LexTransitive
    <2> QED BY <1>3, <2>2
<1>6. ASSUME NEW t \in G, NEW u \in G, NEW v \in G, <<t, v>> \in ahead
      PROVE  <<t, u>> \in ahead \/ <<u, v>> \in ahead
    <2>1. (\A i \in 1..n : K[t][i] = K[u][i]) \/ Lex(ord, n, K[t], K[u]) \/ Lex(ord, n, K[u], K[t])
        BY <1>1, <1>2, LexTotal
    <2>2. CASE Lex(ord, n, K[t], K[u])
        BY <1>3, <2>2
    <2>3. CASE Lex(ord, n, K[u], K[t])
        BY <1>3, <1>5, <1>6, <2>3
    <2>4. CASE \A i \in 1..n : K[t][i] = K[u][i]
        <3>1. PICK i \in 1..n : <<K[t][i], K[v][i]>> \in ord[i] /\ \A j \in 1..(i - 1) : K[t][j] = K[v][j]
            BY <1>3, <1>6 DEF Lex
        <3>2. K[u][i] = K[t][i] /\ \A j \in 1..(i - 1) : K[u][j] = K[v][j]
            BY <2>4, <3>1
        <3>3. Lex(ord, n, K[u], K[v])
            BY <3>1, <3>2 DEF Lex
        <3> QED BY <1>3, <3>3
    <2> QED BY <2>1, <2>2, <2>3, <2>4
<1> QED BY <1>4, <1>5, <1>6 DEF WeakOrder

-----------------------------------------------------------------------------
(* The sort of a group.                                                     *)

\* One row after the other is inserted, those of other groups are passed over.
Placed(ahead, order, G, i, seq) ==
    IF order[i] \in G THEN Inserted(ahead, seq, order[i]) ELSE seq
Sorting(f, ahead, order, G, n) ==
    f = [i \in 0..n |-> IF i = 0 THEN <<>> ELSE Placed(ahead, order, G, i, f[i - 1])]

LEMMA SortingExists ==
    ASSUME NEW ahead, NEW order, NEW G, NEW n \in Nat
    PROVE  \E f : Sorting(f, ahead, order, G, n)
<1> DEFINE K == {k \in 0..n : \E f : Sorting(f, ahead, order, G, k)}
           Step(i, v) == Placed(ahead, order, G, i, v)
<1>1. 0 \in K
    <2> DEFINE f == [i \in 0..0 |-> <<>>]
    <2>1. \A i \in 0..0 : i = 0
        OBVIOUS
    <2>2. f = [i \in 0..0 |-> IF i = 0 THEN <<>> ELSE Step(i, f[i - 1])]
        BY <2>1
    <2> HIDE DEF f
    <2>3. Sorting(f, ahead, order, G, 0)
        BY <2>2 DEF Sorting
    <2> QED BY <2>3
<1>2. ASSUME NEW k \in 1..n, k - 1 \in K PROVE k \in K
    <2>1. PICK f : Sorting(f, ahead, order, G, k - 1)
        BY <1>2
    <2>2. f = [i \in 0..(k - 1) |-> IF i = 0 THEN <<>> ELSE Step(i, f[i - 1])]
        BY <2>1 DEF Sorting
    <2> HIDE DEF Step
    <2> DEFINE g == [i \in 0..k |-> IF i = k THEN Step(k, f[k - 1]) ELSE f[i]]
    <2>3. \A i \in 0..(k - 1) : g[i] = f[i]
        OBVIOUS
    <2>4. g[k] = Step(k, f[k - 1])
        OBVIOUS
    <2>5. ASSUME NEW i \in 0..k PROVE g[i] = IF i = 0 THEN <<>> ELSE Step(i, g[i - 1])
        <3> HIDE DEF g
        <3>1. CASE i = k
            <4>1. k # 0 /\ g[k - 1] = f[k - 1]
                BY <2>3
            <4> QED BY <2>4, <3>1, <4>1
        <3>2. CASE i # k
            <4>1. i \in 0..(k - 1) /\ (i # 0 => i - 1 \in 0..(k - 1))
                BY <3>2
            <4>2. g[i] = f[i] /\ (i # 0 => g[i - 1] = f[i - 1])
                BY <2>3, <4>1
            <4>3. f[i] = IF i = 0 THEN <<>> ELSE Step(i, f[i - 1])
                BY <2>2, <4>1
            <4> QED BY <4>2, <4>3
        <3> QED BY <3>1, <3>2
    <2>6. g = [i \in 0..k |-> IF i = 0 THEN <<>> ELSE Step(i, g[i - 1])]
        <3>1. g = [i \in 0..k |-> g[i]]
            OBVIOUS
        <3> HIDE DEF g
        <3> QED BY <2>5, <3>1
    <2> HIDE DEF g
    <2>7. Sorting(g, ahead, order, G, k)
        BY <2>6 DEF Sorting, Step
    <2> QED BY <2>7
<1>3. n \in K
    <2> HIDE DEF K
    <2>1. 0..n \subseteq K
        BY <1>1, <1>2, StepByStep
    <2> QED BY <2>1
<1> QED BY <1>3

\* Nobody is ahead of one that is listed before.
Ascending(ahead, seq, n) ==
    \A i, j \in 1..n : i < j => <<seq[j], seq[i]>> \notin ahead

\* An insertion keeps it like this.
LEMMA InsertedAscending ==
    ASSUME NEW ahead, NEW seq, NEW n, NEW G, Listing(seq, n, G), NEW W, WeakOrder(ahead, W),
           G \subseteq W, NEW t \in W, Ascending(ahead, seq, n)
    PROVE  Ascending(ahead, Inserted(ahead, seq, t), n + 1)
<1> DEFINE new == Inserted(ahead, seq, t)
           m == n + 1
<1>1. n \in Nat /\ \A i \in 1..n : seq[i] \in W
    BY DEF Listing
<1>2. PICK place \in 1..m : InsertedAt(new, ahead, seq, n, t, place)
    BY InsertedIs
<1> HIDE DEF new
<1>3. ASSUME NEW i \in 1..m
      PROVE  /\ i \in Int
             /\ i < place => i \in 1..n /\ new[i] = seq[i]
             /\ i = place => new[i] = t
             /\ i > place => i - 1 \in 1..n /\ new[i] = seq[i - 1]
    BY <1>1, <1>2 DEF InsertedAt
<1>4. m \in Nat /\ place \in Int
    BY <1>1, <1>2
<1>5. ASSUME NEW i \in 1..m, NEW j \in 1..m, i < j PROVE <<new[j], new[i]>> \notin ahead
    <2>1. CASE j < place
        BY <1>3, <1>5, <2>1 DEF Ascending
    <2>2. CASE j = place
        <3>1. i \in 1..n /\ new[i] = seq[i] /\ new[j] = t
            BY <1>3, <1>5, <2>2
        <3> QED BY <1>2, <1>5, <2>2, <3>1 DEF InsertedAt
    <2>3. CASE i < place /\ j > place
        <3>1. i \in 1..n /\ j - 1 \in 1..n /\ i < j - 1 /\ new[i] = seq[i] /\ new[j] = seq[j - 1]
            BY <1>3, <1>4, <2>3
        <3> QED BY <3>1 DEF Ascending
    <2>4. CASE i = place
        <3>1. j - 1 \in 1..n /\ new[j] = seq[j - 1] /\ new[i] = t /\ place <= j - 1
            BY <1>3, <1>5, <2>4
        <3>2. place \in 1..n /\ <<t, seq[place]>> \in ahead
            BY <1>1, <1>2, <3>1 DEF InsertedAt
        <3>3. <<seq[j - 1], seq[place]>> \notin ahead
            <4>1. CASE place = j - 1
                BY <1>1, <3>2, <4>1 DEF WeakOrder
            <4>2. CASE place < j - 1
                BY <3>1, <3>2, <4>2 DEF Ascending
            <4> QED BY <3>1, <3>2, <4>1, <4>2
        <3>4. seq[j - 1] \in W /\ seq[place] \in W
            BY <1>1, <3>1, <3>2
        <3> QED BY <3>1, <3>2, <3>3, <3>4 DEF WeakOrder
    <2>5. CASE i > place
        <3>1. /\ i - 1 \in 1..n /\ j - 1 \in 1..n /\ i - 1 < j - 1
              /\ new[i] = seq[i - 1] /\ new[j] = seq[j - 1]
            BY <1>3, <1>4, <1>5, <2>5
        <3> QED BY <3>1 DEF Ascending
    <2> QED BY <1>3, <1>4, <2>1, <2>2, <2>3, <2>4, <2>5
<1> HIDE DEF m
<1>6. Ascending(ahead, new, m)
    BY <1>5 DEF Ascending
<1> QED BY <1>6 DEF m, new

\* An order of the rows: every team of the set is in it, none twice.
Orders1(order, T) ==
    /\ Len(order) \in Nat /\ DOMAIN order = 1..Len(order)
    /\ \A t \in T : \E i \in DOMAIN order : order[i] = t
    /\ \A i, j \in DOMAIN order : order[i] = order[j] => i = j

\* The sort lists the group; if `ahead' orders it, nobody is ahead of one listed before.
LEMMA SortedListing ==
    ASSUME NEW ahead, NEW order, NEW G, Orders1(order, G)
    PROVE  \E n : /\ Listing(Sorted(ahead, order, G), n, G)
                  /\ WeakOrder(ahead, G) => Ascending(ahead, Sorted(ahead, order, G), n)
<1> DEFINE N == Len(order)
           f == CHOOSE g : Sorting(g, ahead, order, G, N)
           Until(i) == {t \in G : \E j \in 1..i : order[j] = t}
           Done(k, n) == Listing(f[k], n, Until(k)) /\ (WeakOrder(ahead, G) => Ascending(ahead, f[k], n))
           K == {k \in 0..N : \E n : Done(k, n)}
<1>1. /\ N \in Nat /\ DOMAIN order = 1..N
      /\ \A t \in G : \E i \in 1..N : order[i] = t
      /\ \A i, j \in 1..N : order[i] = order[j] => i = j
    BY DEF Orders1
<1>2. Sorted(ahead, order, G) = f[N]
    BY DEF Sorted, Sorting, Placed
<1>3. Sorting(f, ahead, order, G, N)
    BY <1>1, SortingExists
<1> HIDE DEF f, N
<1>4. f[0] = <<>> /\ \A i \in 1..N : f[i] = Placed(ahead, order, G, i, f[i - 1])
    BY <1>1, <1>3 DEF Sorting
<1>5. 0 \in K
    <2>1. Until(0) = {}
        OBVIOUS
    <2>2. <<>> \in Seq({}) /\ 1..0 = {}
        OBVIOUS
    <2>3. <<>> \in [{} -> {}]
        OBVIOUS
    <2>4. Listing(<<>>, 0, {})
        BY <2>2, <2>3 DEF Listing
    <2> HIDE DEF Until
    <2>5. Done(0, 0)
        BY <1>4, <2>1, <2>2, <2>4 DEF Ascending
    <2> QED BY <1>1, <2>5
<1>6. ASSUME NEW k \in 1..N, k - 1 \in K PROVE k \in K
    <2>1. PICK n : Done(k - 1, n)
        BY <1>6
    <2>2. k \in 0..N /\ f[k] = Placed(ahead, order, G, k, f[k - 1])
        BY <1>1, <1>4
    <2>3. \A j : j \in 1..k <=> (j \in 1..(k - 1) \/ j = k)
        BY <1>1
    <2>4. CASE order[k] \in G
        <3>1. Until(k) = Until(k - 1) \cup {order[k]}
            BY <2>3, <2>4
        <3>2. order[k] \notin Until(k - 1)
            <4>1. \A j \in 1..(k - 1) : j \in 1..N /\ k \in 1..N /\ j # k
                BY <1>1
            <4> QED BY <1>1, <4>1
        <3>3. f[k] = Inserted(ahead, f[k - 1], order[k])
            BY <2>2, <2>4 DEF Placed
        <3>4. Until(k - 1) \subseteq G
            OBVIOUS
        <3> HIDE DEF Until
        <3>5. Listing(f[k], n + 1, Until(k))
            BY <2>1, <3>1, <3>2, <3>3, InsertedListing
        <3>6. ASSUME WeakOrder(ahead, G) PROVE Ascending(ahead, f[k], n + 1)
            BY <2>1, <2>4, <3>3, <3>4, <3>6, InsertedAscending
        <3>7. Done(k, n + 1)
            BY <3>5, <3>6
        <3> QED BY <2>2, <3>7
    <2>5. CASE order[k] \notin G
        <3>1. Until(k) = Until(k - 1)
            BY <2>3, <2>5
        <3>2. f[k] = f[k - 1]
            BY <2>2, <2>5 DEF Placed
        <3> HIDE DEF Until
        <3>3. Done(k, n)
            BY <2>1, <3>1, <3>2
        <3> QED BY <2>2, <3>3
    <2> QED BY <2>4, <2>5
<1>7. N \in K
    <2> HIDE DEF K
    <2>1. 0..N \subseteq K
        BY <1>1, <1>5, <1>6, StepByStep
    <2> QED BY <1>1, <2>1
<1>8. Until(N) = G
    BY <1>1
<1> HIDE DEF Until
<1> QED BY <1>2, <1>7, <1>8

-----------------------------------------------------------------------------
(* The places of a group that is sorted.                                    *)

\* The first of those that share the place of the i-th.
FirstOf(ahead, seq, i) ==
    CHOOSE k \in 1..i : /\ Splits(ahead, seq, k)
                        /\ \A j \in (k + 1)..i : ~Splits(ahead, seq, j)

LEMMA FirstOfType ==
    ASSUME NEW ahead, NEW seq, NEW i \in Nat \ {0}
    PROVE  /\ FirstOf(ahead, seq, i) \in 1..i
           /\ Splits(ahead, seq, FirstOf(ahead, seq, i))
           /\ \A j \in (FirstOf(ahead, seq, i) + 1)..i : ~Splits(ahead, seq, j)
<1> DEFINE Found(k, m) == m \in 1..k /\ Splits(ahead, seq, m)
                          /\ \A j \in (m + 1)..k : ~Splits(ahead, seq, j)
           S == {k \in 0..i : k = 0 \/ \E m : Found(k, m)}
<1>1. 0 \in S
    OBVIOUS
<1>2. ASSUME NEW k \in 1..i, k - 1 \in S PROVE k \in S
    <2>1. CASE Splits(ahead, seq, k)
        <3>1. Found(k, k)
            BY <2>1
        <3> QED BY <3>1
    <2>2. CASE ~Splits(ahead, seq, k)
        <3>1. k # 1
            BY <2>2 DEF Splits
        <3>2. PICK m : Found(k - 1, m)
            BY <1>2, <3>1
        <3>3. m \in 1..k /\ \A j \in (m + 1)..k : j = k \/ j \in (m + 1)..(k - 1)
            BY <3>2
        <3>4. Found(k, m)
            BY <2>2, <3>2, <3>3
        <3> QED BY <3>4
    <2> QED BY <2>1, <2>2
<1>3. \E m : Found(i, m)
    <2> HIDE DEF Found
    <2>1. i \in S
        <3> HIDE DEF S
        <3>1. 0..i \subseteq S
            BY <1>1, <1>2, StepByStep
        <3> QED BY <3>1
    <2> QED BY <2>1
<1>4. FirstOf(ahead, seq, i) = CHOOSE k \in 1..i : /\ Splits(ahead, seq, k)
                                                  /\ \A j \in (k + 1)..i : ~Splits(ahead, seq, j)
    BY DEF FirstOf
<1> HIDE DEF S
<1> QED BY <1>3, <1>4

\* One comes before the first of another's if and only if its own first does.
LEMMA FirstOfOrder ==
    ASSUME NEW ahead, NEW seq, NEW i \in Nat \ {0}, NEW k \in Nat \ {0}
    PROVE  FirstOf(ahead, seq, i) < FirstOf(ahead, seq, k) <=> i < FirstOf(ahead, seq, k)
<1> DEFINE p == FirstOf(ahead, seq, i)
           q == FirstOf(ahead, seq, k)
<1>1. /\ p \in 1..i /\ \A j \in (p + 1)..i : ~Splits(ahead, seq, j)
      /\ q \in 1..k /\ Splits(ahead, seq, q)
    BY FirstOfType
<1> HIDE DEF p, q
<1>2. p < q => i < q
    <2> SUFFICES ASSUME p < q, ~(i < q) PROVE FALSE
        OBVIOUS
    <2>1. q \in (p + 1)..i
        BY <1>1
    <2> QED BY <1>1, <2>1
<1>3. i < q => p < q
    BY <1>1
<1>4. p < q <=> i < q
    BY <1>2, <1>3
<1> QED BY <1>4 DEF p, q

Index(seq, t) == CHOOSE i \in DOMAIN seq : seq[i] = t
PlaceOf(before, ahead, seq, t) == SharedPlaces(before, ahead, seq)[Index(seq, t)]
PlacedBefore(before, ahead, seq, G, t) ==
    {u \in G : PlaceOf(before, ahead, seq, u) < PlaceOf(before, ahead, seq, t)}

\* A team's place is one more than the number of those before it, those of the group
\* that have a better place included.
LEMMA PlaceInGroup ==
    ASSUME NEW seq, NEW n, NEW G, Listing(seq, n, G), NEW ahead, NEW before \in Nat, NEW t \in G
    PROVE  \E F \in 1..n :
             /\ PlaceOf(before, ahead, seq, t) = before + F
             /\ Cardinality(PlacedBefore(before, ahead, seq, G, t)) = F - 1
<1> DEFINE I(u) == Index(seq, u)
           F(u) == FirstOf(ahead, seq, I(u))
           Place(u) == PlaceOf(before, ahead, seq, u)
<1>1. n \in Nat /\ DOMAIN seq = 1..n /\ \A i \in 1..n : seq[i] \in G
    BY ListingLength DEF Listing
<1>2. \A u \in G : I(u) \in 1..n /\ seq[I(u)] = u
    <2>1. \A u \in G : \E i \in 1..n : seq[i] = u
        BY DEF Listing
    <2> QED BY <1>1, <2>1 DEF Index
<1>3. \A i \in 1..n : I(seq[i]) = i
    <2>1. \A i, j \in 1..n : seq[i] = seq[j] => i = j
        BY DEF Listing
    <2> HIDE DEF I
    <2> QED BY <1>1, <1>2, <2>1
<1>4. \A u \in G : I(u) \in Nat \ {0} /\ F(u) \in 1..I(u)
    <2>1. \A u \in G : I(u) \in Nat \ {0}
        BY <1>1, <1>2
    <2> HIDE DEF I
    <2> QED BY <2>1, FirstOfType
<1>5. \A u \in G : Place(u) = before + F(u)
    <2>1. SharedPlaces(before, ahead, seq) = [i \in 1..n |-> before + FirstOf(ahead, seq, i)]
        BY <1>1 DEF SharedPlaces, FirstOf
    <2> HIDE DEF I
    <2> QED BY <1>2, <2>1 DEF PlaceOf, I
<1>6. F(t) \in 1..n
    <2> HIDE DEF I, F
    <2> QED BY <1>1, <1>2, <1>4
<1>7. \A u \in G : Place(u) < Place(t) <=> I(u) < F(t)
    <2>1. \A u \in G : F(u) < F(t) <=> I(u) < F(t)
        <3> HIDE DEF I
        <3> QED BY <1>4, FirstOfOrder
    <2> HIDE DEF I, F, Place
    <2>2. \A u \in G : Place(u) < Place(t) <=> F(u) < F(t)
        BY <1>4, <1>5
    <2> QED BY <2>1, <2>2
<1> DEFINE Before == {u \in G : Place(u) < Place(t)}
           k == F(t) - 1
           First == {seq[i] : i \in 1..k}
<1> HIDE DEF I, F, Place
<1>8. k \in 0..n
    BY <1>1, <1>6
<1>9. Before = First
    <2>1. ASSUME NEW u \in Before PROVE u \in First
        <3>1. I(u) \in 1..k /\ seq[I(u)] = u
            BY <1>1, <1>2, <1>6, <1>7, <2>1
        <3> QED BY <3>1
    <2>2. ASSUME NEW i \in 1..k PROVE seq[i] \in Before
        <3>1. i \in 1..n /\ i < F(t)
            BY <1>1, <1>6, <2>2
        <3> QED BY <1>1, <1>3, <1>7, <3>1
    <2> HIDE DEF Before
    <2> QED BY <2>1, <2>2
<1>10. Cardinality(First) = k
    BY <1>8, FirstListed
<1>11. Place(t) = before + F(t) /\ Cardinality(Before) = F(t) - 1
    BY <1>5, <1>9, <1>10
<1>12. PlacedBefore(before, ahead, seq, G, t) = Before
    BY DEF PlacedBefore, Place
<1> HIDE DEF First, k, Before
<1> QED BY <1>6, <1>11, <1>12 DEF Place

-----------------------------------------------------------------------------
(* The places of a scope: everybody, or one class.                          *)

\* The costs of the teams of a scope, those that are better and those that are equal.
CostOf(comp, rows, t) == Cost(comp, rows[t].total)
Better(comp, rows, scope, t) == {u \in scope : CostOf(comp, rows, u) < CostOf(comp, rows, t)}
AheadIn(comp, element, config, rows, scope, G) ==
    {p \in G \X G : AheadInTie(comp, element, config, rows, scope, G, p[1], p[2])}

\* The place of a team of the group G, the teams `better' being better than the group.
GroupPlace(comp, element, config, rows, order, scope, G, better, t) ==
    LET ahead == AheadIn(comp, element, config, rows, scope, G)
    IN  PlaceOf(Cardinality(better), ahead, Sorted(ahead, order, G), t)

LEMMA RankOfScope ==
    ASSUME NEW comp, NEW element, NEW config, NEW rows, NEW order, NEW scope, NEW t \in scope
    PROVE  ScopeRank(comp, element, config, rows, order, scope)[t] =
             GroupPlace(comp, element, config, rows, order, scope,
                        TiedWith(comp, rows, scope, t), Better(comp, rows, scope, t), t)
BY DEF ScopeRank, GroupPlace, PlaceOf, Index, AheadIn, Better, CostOf

\* The teams with a better total, and the equal ones.
LEMMA EqualCosts ==
    ASSUME NEW comp, comp.plus \in BOOLEAN, NEW rows, NEW scope,
           \A t \in scope : rows[t].total \in Int
    PROVE  /\ \A t \in scope : CostOf(comp, rows, t) \in Int
           /\ \A t, u \in scope : rows[u].total = rows[t].total
                                  <=> CostOf(comp, rows, u) = CostOf(comp, rows, t)
<1>1. ASSUME NEW t \in scope, NEW u \in scope
      PROVE  /\ CostOf(comp, rows, t) \in Int
             /\ rows[u].total = rows[t].total <=> CostOf(comp, rows, u) = CostOf(comp, rows, t)
    <2> DEFINE a == rows[t].total
               b == rows[u].total
    <2>1. a \in Int /\ b \in Int
        OBVIOUS
    <2> HIDE DEF a, b
    <2>2. Cost(comp, a) \in Int /\ (b = a <=> Cost(comp, b) = Cost(comp, a))
        BY <2>1 DEF Cost, Side
    <2> QED BY <2>2 DEF CostOf, a, b
<1> QED BY <1>1

LEMMA DisjointSizes ==
    ASSUME NEW S, IsFiniteSet(S), NEW T, IsFiniteSet(T), S \cap T = {}
    PROVE  Cardinality(S \cup T) = Cardinality(S) + Cardinality(T)
<1>1. Cardinality(S \cap T) = 0
    BY FS_EmptySet
<1>2. Cardinality(S \cup T) = Cardinality(S) + Cardinality(T) - Cardinality(S \cap T)
    BY FS_Union
<1>3. Cardinality(S) \in Nat /\ Cardinality(T) \in Nat
    BY FS_CardinalityType
<1> QED BY <1>1, <1>2, <1>3

\* Equal teams belong to the same group.
LEMMA SameGroup ==
    ASSUME NEW comp, comp.plus \in BOOLEAN, NEW rows, NEW scope,
           \A t \in scope : rows[t].total \in Int, NEW t \in scope,
           NEW u \in TiedWith(comp, rows, scope, t)
    PROVE  /\ TiedWith(comp, rows, scope, u) = TiedWith(comp, rows, scope, t)
           /\ Better(comp, rows, scope, u) = Better(comp, rows, scope, t)
<1>1. u \in scope /\ rows[u].total = rows[t].total
    BY DEF TiedWith
<1>2. CostOf(comp, rows, u) = CostOf(comp, rows, t)
    BY <1>1, EqualCosts
<1> QED BY <1>1, <1>2 DEF TiedWith, Better

\* The places of a scope follow the totals.
LEMMA ScopeInOrder ==
    ASSUME NEW comp, comp.plus \in BOOLEAN, NEW element, NEW config, NEW rows, NEW order,
           NEW scope, IsFiniteSet(scope), Orders1(order, scope),
           \A t \in scope : rows[t].total \in Int, NEW t \in scope
    PROVE  LET R == ScopeRank(comp, element, config, rows, order, scope)
           IN  /\ R[t] = 1 + Cardinality({u \in scope : R[u] < R[t]})
               /\ \A u \in scope : CostOf(comp, rows, t) < CostOf(comp, rows, u) => R[t] < R[u]
<1> DEFINE R == ScopeRank(comp, element, config, rows, order, scope)
           C(u) == CostOf(comp, rows, u)
           B(u) == Better(comp, rows, scope, u)
           G(u) == TiedWith(comp, rows, scope, u)
           ahead(u) == AheadIn(comp, element, config, rows, scope, G(u))
           seq(u) == Sorted(ahead(u), order, G(u))
<1>1. \A u \in scope : C(u) \in Int
    BY EqualCosts
<1>2. \A u, v \in scope : /\ v \in G(u) <=> C(v) = C(u)
                          /\ v \in B(u) <=> C(v) < C(u)
    BY EqualCosts DEF TiedWith, Better
<1>3. \A u \in scope : G(u) \subseteq scope /\ B(u) \subseteq scope
    BY DEF TiedWith, Better
<1>4. \A u \in scope : /\ IsFiniteSet(G(u)) /\ IsFiniteSet(B(u))
                       /\ Cardinality(G(u)) \in Nat /\ Cardinality(B(u)) \in Nat
    <2> HIDE DEF G, B
    <2> QED BY <1>3, FS_Subset, FS_CardinalityType
<1>5. ASSUME NEW u \in scope
      PROVE  \E F \in 1..Cardinality(G(u)) :
               /\ R[u] = Cardinality(B(u)) + F
               /\ Cardinality({v \in G(u) : R[v] < R[u]}) = F - 1
    <2>1. Orders1(order, G(u))
        BY <1>3 DEF Orders1
    <2>2. PICK n : Listing(seq(u), n, G(u))
        <3> HIDE DEF G, ahead
        <3> QED BY <2>1, SortedListing
    <2>3. Cardinality(G(u)) = n
        <3> HIDE DEF G, seq
        <3> QED BY <2>2, AllListed
    <2>4. u \in G(u)
        BY <1>2
    <2>5. ASSUME NEW v \in G(u)
          PROVE  R[v] = PlaceOf(Cardinality(B(u)), ahead(u), seq(u), v)
        <3>1. v \in scope
            BY <1>3
        <3>2. G(v) = G(u) /\ B(v) = B(u)
            BY SameGroup
        <3>3. R[v] = GroupPlace(comp, element, config, rows, order, scope, G(v), B(v), v)
            BY <3>1, RankOfScope
        <3> HIDE DEF G, B, R
        <3> QED BY <3>2, <3>3 DEF GroupPlace
    <2> HIDE DEF G, B, R, ahead, seq
    <2>6. PICK F \in 1..n :
             /\ PlaceOf(Cardinality(B(u)), ahead(u), seq(u), u) = Cardinality(B(u)) + F
             /\ Cardinality(PlacedBefore(Cardinality(B(u)), ahead(u), seq(u), G(u), u)) = F - 1
        BY <1>4, <2>2, <2>4, PlaceInGroup
    <2>7. {v \in G(u) : R[v] < R[u]} = PlacedBefore(Cardinality(B(u)), ahead(u), seq(u), G(u), u)
        BY <2>4, <2>5 DEF PlacedBefore
    <2> QED BY <2>3, <2>4, <2>5, <2>6, <2>7
<1> HIDE DEF R, C, B, G
<1>6. \A u \in scope : /\ R[u] \in Int /\ Cardinality(B(u)) < R[u]
                       /\ R[u] <= Cardinality(B(u)) + Cardinality(G(u))
    <2> SUFFICES ASSUME NEW u \in scope
                 PROVE  /\ R[u] \in Int /\ Cardinality(B(u)) < R[u]
                        /\ R[u] <= Cardinality(B(u)) + Cardinality(G(u))
        OBVIOUS
    <2>1. PICK F \in 1..Cardinality(G(u)) : R[u] = Cardinality(B(u)) + F
        BY <1>5
    <2> QED BY <1>4, <2>1
<1>7. ASSUME NEW u \in scope, NEW v \in scope, C(u) < C(v) PROVE R[u] < R[v]
    <2>1. B(u) \cap G(u) = {} /\ B(u) \cup G(u) \subseteq B(v)
        BY <1>1, <1>2, <1>3, <1>7
    <2>2. Cardinality(B(u) \cup G(u)) = Cardinality(B(u)) + Cardinality(G(u))
        BY <1>4, <2>1, DisjointSizes
    <2>3. Cardinality(B(u) \cup G(u)) <= Cardinality(B(v))
        BY <1>4, <2>1, FS_Subset
    <2> QED BY <1>4, <1>6, <2>2, <2>3
<1> DEFINE InFront == {u \in scope : R[u] < R[t]}
           Inside == {u \in G(t) : R[u] < R[t]}
<1>8. InFront = B(t) \cup Inside
    <2>1. ASSUME NEW u \in scope PROVE R[u] < R[t] <=> C(u) < C(t) \/ (C(u) = C(t) /\ R[u] < R[t])
        <3>1. C(u) < C(t) => R[u] < R[t]
            BY <1>7
        <3>2. C(t) < C(u) => ~(R[u] < R[t])
            BY <1>6, <1>7
        <3> QED BY <1>1, <3>1, <3>2
    <2> QED BY <1>2, <1>3, <2>1
<1>9. B(t) \cap Inside = {}
    BY <1>1, <1>2, <1>3
<1>10. IsFiniteSet(Inside)
    <2>1. Inside \subseteq G(t)
        OBVIOUS
    <2> HIDE DEF Inside
    <2> QED BY <1>4, <2>1, FS_Subset
<1>11. R[t] = 1 + Cardinality(InFront)
    <2>1. PICK F \in 1..Cardinality(G(t)) :
            R[t] = Cardinality(B(t)) + F /\ Cardinality(Inside) = F - 1
        BY <1>5
    <2> HIDE DEF Inside, InFront
    <2>2. Cardinality(B(t) \cup Inside) = Cardinality(B(t)) + Cardinality(Inside)
        BY <1>4, <1>9, <1>10, DisjointSizes
    <2> QED BY <1>4, <1>8, <2>1, <2>2
<1> QED BY <1>7, <1>11 DEF R, C

-----------------------------------------------------------------------------
(* The leaderboard.                                                         *)

\* The totals are numbers.
LEMMA TotalsAreNumbers ==
    ASSUME NEW comp, comp.plus \in BOOLEAN, NEW team, NEW score, IsFiniteSet(DOMAIN score),
           \A e \in DOMAIN score : \A t \in DOMAIN score[e] : score[e][t] \in Int,
           NEW manual \in [DOMAIN team -> Int], NEW t \in DOMAIN Rows(comp, team, score, manual)
    PROVE  t \in DOMAIN team /\ Rows(comp, team, score, manual)[t].total \in Int
<1> DEFINE points == ByElement(score, t)
           sum == SumFunction(points)
           extra == Side(comp, -manual[t], manual[t])
<1>1. /\ t \in DOMAIN team
      /\ Rows(comp, team, score, manual)[t].total = Round3(sum + extra, 1)
    BY DEF Rows
<1>2. sum \in Int
    <2>1. DOMAIN points \subseteq DOMAIN score /\ \A e \in DOMAIN points : points[e] \in Int
        BY DEF ByElement
    <2> HIDE DEF points
    <2>2. IsFiniteSet(DOMAIN points)
        BY <2>1, FS_Subset
    <2> QED BY <2>1, <2>2, SumType
<1>3. extra \in Int
    <2>1. manual[t] \in Int
        BY <1>1
    <2> QED BY <2>1 DEF Side
<1> HIDE DEF sum, extra
<1>4. Round3(sum + extra, 1) \in Int
    <2>1. sum + extra \in Int
        BY <1>2, <1>3
    <2> QED BY <2>1 DEF Round3, RoundDiv
<1> QED BY <1>1, <1>4

\* What is put together from a competition, its points and an order of the rows.
BoardInput(s, score, order) ==
    [comp |-> s.comp, element |-> s.element, config |-> s.config, team |-> s.team,
     score |-> score, manual |-> s.manual, order |-> order]
PointsTyped(s, score) ==
    /\ DOMAIN score = DOMAIN s.element
    /\ \A e \in DOMAIN score : \A t \in DOMAIN score[e] : score[e][t] \in Int

\* The ranking that is shown belongs to the points that are there.
BoardInv ==
    /\ \E s \in Boards, order \in Orders : \E score :
         PointsTyped(s, score) /\ input = BoardInput(s, score, order)
    /\ outcome = BoardOutcome(input)

\* A step keeps the competition, the elements, the rules, the teams and the penalties.
LEMMA BoardSteps ==
    ASSUME BoardsAreSound, BoardInv, [BoardNext]_arenaVars
    PROVE  \E s \in Boards, o1 \in Orders, o2 \in Orders : \E f, g :
             /\ PointsTyped(s, f) /\ input = BoardInput(s, f, o1)
             /\ PointsTyped(s, g) /\ input' = BoardInput(s, g, o2)
             /\ outcome' = BoardOutcome(input')
<1>1. PICK s \in Boards, order \in Orders : \E score :
        PointsTyped(s, score) /\ input = BoardInput(s, score, order)
    BY DEF BoardInv
<1>2. PICK score : PointsTyped(s, score) /\ input = BoardInput(s, score, order)
    BY <1>1
<1>3. ASSUME NEW t \in BoardTeams, NEW e \in BoardElements, NEW p \in PointValues,
             SetPoints(t, e, p)
      PROVE  \E g : /\ PointsTyped(s, g) /\ input' = BoardInput(s, g, order)
                    /\ outcome' = BoardOutcome(input')
    <2> DEFINE new == [score EXCEPT ![e] = [u \in DOMAIN @ \cup {t} |-> IF u = t THEN p ELSE @[u]]]
    <2>1. input.score = score /\ e \in DOMAIN score
        BY <1>2, <1>3 DEF SetPoints, BoardInput
    <2>2. input' = BoardInput(s, new, order) /\ outcome' = BoardOutcome(input')
        BY <1>2, <1>3 DEF SetPoints, BoardInput
    <2>3. PointsTyped(s, new)
        <3>1. p \in Int
            BY DEF BoardsAreSound
        <3>2. DOMAIN new = DOMAIN score
            OBVIOUS
        <3>3. ASSUME NEW d \in DOMAIN score, NEW u \in DOMAIN new[d]
              PROVE  new[d][u] \in Int
            <4>1. CASE d # e
                BY <1>2, <4>1 DEF PointsTyped
            <4>2. CASE d = e
                <5>1. new[e] = [v \in DOMAIN score[e] \cup {t} |-> IF v = t THEN p ELSE score[e][v]]
                    BY <2>1
                <5> QED BY <1>2, <2>1, <3>1, <4>2, <5>1 DEF PointsTyped
            <4> QED BY <4>1, <4>2
        <3> HIDE DEF new
        <3> QED BY <1>2, <3>2, <3>3 DEF PointsTyped
    <2> HIDE DEF new
    <2> QED BY <2>2, <2>3
<1>4. ASSUME NEW o \in Orders, Rearrange(o)
      PROVE  input' = BoardInput(s, score, o) /\ outcome' = BoardOutcome(input')
    BY <1>2, <1>4 DEF Rearrange, BoardInput
<1>5. CASE UNCHANGED arenaVars
    <2>1. input' = input /\ outcome' = BoardOutcome(input')
        BY <1>5 DEF arenaVars, BoardInv, BoardOutcome, TheRows
    <2> QED BY <1>2, <2>1
<1> QED BY <1>2, <1>3, <1>4, <1>5 DEF BoardNext

LEMMA BoardInvHolds ==
    ASSUME BoardsAreSound PROVE BoardSpec => []BoardInv
<1>1. BoardInit => BoardInv
    <2> SUFFICES ASSUME BoardInit PROVE BoardInv
        OBVIOUS
    <2>1. PICK s \in Boards, order \in Orders :
            input = BoardInput(s, [e \in DOMAIN s.element |-> <<>>], order)
        BY DEF BoardInit, BoardInput
    <2>2. PointsTyped(s, [e \in DOMAIN s.element |-> <<>>])
        BY DEF PointsTyped
    <2>3. outcome = BoardOutcome(input)
        BY DEF BoardInit
    <2> QED BY <2>1, <2>2, <2>3 DEF BoardInv
<1>2. BoardInv /\ [BoardNext]_arenaVars => BoardInv'
    BY BoardSteps DEF BoardInv, BoardOutcome, TheRows
<1> QED BY <1>1, <1>2, PTL DEF BoardSpec

\* What the constants say of a competition and an order of its rows.
LEMMA SoundBoards ==
    ASSUME BoardsAreSound, NEW s \in Boards, NEW score, PointsTyped(s, score), NEW order \in Orders
    PROVE  /\ IsFiniteSet(DOMAIN s.team) /\ IsFiniteSet(DOMAIN s.element) /\ IsFiniteSet(DOMAIN score)
           /\ s.comp.plus \in BOOLEAN /\ s.manual \in [DOMAIN s.team -> Int]
           /\ Orders1(order, DOMAIN s.team)
<1>1. order \in Seq(DOMAIN s.team)
    BY DEF BoardsAreSound
<1>2. Len(order) \in Nat /\ DOMAIN order = 1..Len(order)
    BY <1>1
<1>3. Orders1(order, DOMAIN s.team)
    BY <1>2 DEF BoardsAreSound, Orders1
<1> QED BY <1>3 DEF BoardsAreSound, PointsTyped

\* In every leaderboard that is put together from the points so far the places of
\* everybody and of each class follow the totals: whoever has a better total has a better
\* place, those who share a place leave out the next ones, and neither the rules for ties
\* nor the order of the rows can change that (lib/tieBreak.ts:83-96, 142-157).
THEOREM PlacesAlwaysFollowTotals ==
    ASSUME BoardsAreSound PROVE BoardSpec => []PlacesFollowTotals
<1>1. BoardInv => PlacesFollowTotals
    <2> SUFFICES ASSUME BoardInv PROVE PlacesFollowTotals
        OBVIOUS
    <2>1. PICK s \in Boards, order \in Orders : \E score :
            PointsTyped(s, score) /\ input = BoardInput(s, score, order)
        BY DEF BoardInv
    <2>2. PICK score : PointsTyped(s, score) /\ input = BoardInput(s, score, order)
        BY <2>1
    <2> DEFINE rows == TheRows(input)
               total == [t \in DOMAIN rows |-> Cost(input.comp, rows[t].total)]
               class == [t \in DOMAIN rows |-> rows[t].class]
               rank == outcome.rank
               Teams == DOMAIN rows
    <2>3. /\ IsFiniteSet(DOMAIN s.team) /\ IsFiniteSet(DOMAIN score) /\ input.comp.plus \in BOOLEAN
          /\ s.manual \in [DOMAIN s.team -> Int] /\ Orders1(order, DOMAIN s.team)
        BY <2>2, SoundBoards DEF BoardInput
    <2>4. Teams \subseteq DOMAIN s.team /\ \A t \in Teams : rows[t].total \in Int
        <3>1. rows = Rows(s.comp, s.team, score, s.manual) /\ s.comp.plus \in BOOLEAN
            BY <2>2, <2>3 DEF TheRows, BoardInput
        <3> HIDE DEF rows
        <3> QED BY <2>2, <2>3, <3>1, TotalsAreNumbers DEF PointsTyped
    <2>5. rank = RankLeaderboard(input.comp, input.element, input.config, rows, input.order)
          /\ input.order = order
        BY <2>2 DEF BoardInv, BoardOutcome, BoardInput
    <2> DEFINE R(scope) == ScopeRank(input.comp, input.element, input.config, rows, order, scope)
               OfClass(c) == {t \in Teams : rows[t].class = c}
    <2> HIDE DEF rows, rank
    <2>6. ASSUME NEW scope \in SUBSET Teams, NEW place,
                 \A t \in scope : place[t] = R(scope)[t]
          PROVE  InOrder(scope, total, place)
        <3>1. IsFiniteSet(scope) /\ Orders1(order, scope) /\ \A t \in scope : rows[t].total \in Int
            BY <2>3, <2>4, FS_Subset DEF Orders1
        <3>2. \A t \in scope : total[t] = CostOf(input.comp, rows, t)
            BY DEF CostOf
        <3>3. ASSUME NEW t \in scope
              PROVE  /\ R(scope)[t] = 1 + Cardinality({u \in scope : R(scope)[u] < R(scope)[t]})
                     /\ \A u \in scope : CostOf(input.comp, rows, t) < CostOf(input.comp, rows, u)
                                         => R(scope)[t] < R(scope)[u]
            BY <2>3, <3>1, ScopeInOrder
        <3> HIDE DEF R, total
        <3>4. ASSUME NEW t \in scope
              PROVE  {u \in scope : place[u] < place[t]} = {u \in scope : R(scope)[u] < R(scope)[t]}
            BY <2>6
        <3> QED BY <2>6, <3>2, <3>3, <3>4 DEF InOrder
    <2>7. InOrder(Teams, total, [t \in Teams |-> rank[t].rank])
        <3>1. \A t \in Teams : [u \in Teams |-> rank[u].rank][t] = R(Teams)[t]
            BY <2>5 DEF RankLeaderboard
        <3> HIDE DEF R, total
        <3> QED BY <2>6, <3>1
    <2>8. ASSUME NEW c \in {class[t] : t \in Teams} \ {Null}
          PROVE  InOrder({t \in Teams : class[t] = c}, total, [t \in Teams |-> rank[t].classRank])
        <3>1. {t \in Teams : class[t] = c} = OfClass(c)
            OBVIOUS
        <3>2. ASSUME NEW t \in OfClass(c)
              PROVE  [u \in Teams |-> rank[u].classRank][t] = R(OfClass(c))[t]
            BY <2>5 DEF RankLeaderboard
        <3>3. OfClass(c) \in SUBSET Teams
            OBVIOUS
        <3> HIDE DEF R, total, OfClass, class
        <3> QED BY <2>6, <3>1, <3>2, <3>3
    <2>9. DOMAIN total = Teams
        OBVIOUS
    <2>10. Follow(total, class, rank)
        <3> HIDE DEF total, class
        <3> QED BY <2>7, <2>8, <2>9 DEF Follow
    <2> QED BY <2>10 DEF PlacesFollowTotals, rows, rank
<1> QED BY <1>1, BoardInvHolds, PTL

-----------------------------------------------------------------------------
(* The place that the rules give.                                           *)

\* Of a sorted group exactly those are listed before the first that share a team's place
\* who are ahead of it.
LEMMA FirstIsByRules ==
    ASSUME NEW seq, NEW n, NEW G, Listing(seq, n, G), NEW ahead, WeakOrder(ahead, G),
           Ascending(ahead, seq, n), NEW i \in 1..n, NEW j \in 1..n
    PROVE  <<seq[j], seq[i]>> \in ahead <=> j < FirstOf(ahead, seq, i)
<1> DEFINE p == FirstOf(ahead, seq, i)
<1>1. n \in Nat /\ \A k \in 1..n : seq[k] \in G
    BY DEF Listing
<1>2. i \in Nat \ {0} /\ i \in Int /\ j \in Int
    BY <1>1
<1>3. p \in 1..i /\ Splits(ahead, seq, p) /\ \A k \in (p + 1)..i : ~Splits(ahead, seq, k)
    BY <1>2, FirstOfType
<1> HIDE DEF p
<1>4. p \in 1..n /\ p <= i
    BY <1>1, <1>3
<1>5. \A k, l \in 1..n : k <= l => <<seq[l], seq[k]>> \notin ahead
    <2> SUFFICES ASSUME NEW k \in 1..n, NEW l \in 1..n, k <= l PROVE <<seq[l], seq[k]>> \notin ahead
        OBVIOUS
    <2>1. CASE k = l
        BY <1>1, <2>1 DEF WeakOrder
    <2>2. CASE k < l
        BY <2>2 DEF Ascending
    <2> QED BY <1>1, <2>1, <2>2
<1>6. \A t, u, v \in G : <<t, v>> \in ahead => <<t, u>> \in ahead \/ <<u, v>> \in ahead
    BY DEF WeakOrder
<1>7. ASSUME j < p PROVE <<seq[j], seq[i]>> \in ahead
    <2>1. p - 1 \in 1..n /\ p # 1 /\ p - 1 <= p /\ j <= p - 1
        BY <1>1, <1>4, <1>7
    <2>2. <<seq[p - 1], seq[p]>> \in ahead
        <3>1. <<seq[p], seq[p - 1]>> \notin ahead
            BY <1>4, <1>5, <2>1
        <3> QED BY <1>3, <2>1, <3>1 DEF Splits
    <2>3. <<seq[p - 1], seq[j]>> \notin ahead /\ <<seq[i], seq[p]>> \notin ahead
        BY <1>4, <1>5, <2>1
    <2>4. seq[p - 1] \in G /\ seq[p] \in G /\ seq[j] \in G /\ seq[i] \in G
        BY <1>1, <1>4, <2>1
    <2>5. <<seq[j], seq[p]>> \in ahead
        BY <1>6, <2>2, <2>3, <2>4
    <2> QED BY <1>6, <2>3, <2>4, <2>5
<1>8. ASSUME p <= j PROVE <<seq[j], seq[i]>> \notin ahead
    <2> DEFINE K == {k \in 0..i : k <= j \/ <<seq[j], seq[k]>> \notin ahead}
    <2>1. 0 \in K
        BY <1>2
    <2>2. ASSUME NEW k \in 1..i, k - 1 \in K PROVE k \in K
        <3>1. CASE k <= j
            BY <3>1
        <3>2. CASE j < k
            <4>1. k \in 1..n /\ k - 1 \in 1..n /\ k \in (p + 1)..i /\ k # 1
                BY <1>1, <1>4, <1>8, <3>2
            <4>2. <<seq[k - 1], seq[k]>> \notin ahead
                BY <1>3, <4>1 DEF Splits
            <4>3. <<seq[j], seq[k - 1]>> \notin ahead
                <5>1. CASE k - 1 <= j
                    BY <1>5, <4>1, <5>1
                <5>2. CASE ~(k - 1 <= j)
                    BY <2>2, <5>2
                <5> QED BY <5>1, <5>2
            <4>4. <<seq[j], seq[k]>> \notin ahead
                BY <1>1, <1>6, <4>1, <4>2, <4>3
            <4> QED BY <4>4
        <3> QED BY <3>1, <3>2
    <2>3. i \in K
        <3> HIDE DEF K
        <3>1. 0..i \subseteq K
            BY <1>2, <2>1, <2>2, StepByStep
        <3> QED BY <1>2, <3>1
    <2>4. CASE i <= j
        BY <1>5, <2>4
    <2>5. CASE ~(i <= j)
        BY <2>3, <2>5
    <2> QED BY <2>4, <2>5
<1>9. <<seq[j], seq[i]>> \in ahead <=> j < p
    BY <1>2, <1>4, <1>7, <1>8
<1> QED BY <1>9 DEF p

\* The place is one more than the number of those who are ahead, whatever the order of
\* the rows was.
LEMMA PlaceByRules ==
    ASSUME NEW seq, NEW n, NEW G, Listing(seq, n, G), NEW ahead, WeakOrder(ahead, G),
           Ascending(ahead, seq, n), NEW before \in Nat, NEW t \in G
    PROVE  PlaceOf(before, ahead, seq, t) = before + 1 + Cardinality({u \in G : <<u, t>> \in ahead})
<1> DEFINE i == Index(seq, t)
           p == FirstOf(ahead, seq, i)
           k == p - 1
           InFront == {u \in G : <<u, t>> \in ahead}
           First == {seq[j] : j \in 1..k}
<1>1. /\ n \in Nat /\ DOMAIN seq = 1..n /\ \A j \in 1..n : seq[j] \in G
      /\ \A u \in G : \E j \in 1..n : seq[j] = u
    BY ListingLength DEF Listing
<1>2. i \in 1..n /\ seq[i] = t
    BY <1>1 DEF Index
<1> HIDE DEF i
<1>3. i \in Nat \ {0}
    BY <1>1, <1>2
<1>4. p \in 1..i
    BY <1>3, FirstOfType
<1>5. PlaceOf(before, ahead, seq, t) = before + p
    <2>1. SharedPlaces(before, ahead, seq) = [j \in 1..n |-> before + FirstOf(ahead, seq, j)]
        BY <1>1 DEF SharedPlaces, FirstOf
    <2> QED BY <1>2, <2>1 DEF PlaceOf, i
<1>6. \A j \in 1..n : <<seq[j], t>> \in ahead <=> j < p
    BY <1>2, FirstIsByRules
<1> HIDE DEF p
<1>7. k \in 0..n
    BY <1>1, <1>2, <1>4
<1>8. InFront = First
    <2>1. ASSUME NEW u \in InFront PROVE u \in First
        <3>1. PICK j \in 1..n : seq[j] = u
            BY <1>1
        <3>2. j \in 1..k
            BY <1>1, <1>2, <1>4, <1>6, <3>1
        <3> QED BY <3>1, <3>2
    <2>2. ASSUME NEW j \in 1..k PROVE seq[j] \in InFront
        <3>1. j \in 1..n /\ j < p
            BY <1>1, <1>2, <1>4
        <3> QED BY <1>1, <1>6, <3>1
    <2> HIDE DEF InFront
    <2> QED BY <2>1, <2>2
<1>9. Cardinality(First) = k
    BY <1>7, FirstListed
<1> HIDE DEF First, InFront
<1>10. PlaceOf(before, ahead, seq, t) = before + 1 + Cardinality(InFront)
    BY <1>3, <1>4, <1>5, <1>8, <1>9
<1> QED BY <1>10 DEF InFront

\* The place of a team in a scope: behind those with a better total and those that the
\* rules put ahead of it.
AheadInGroup(comp, element, config, rows, scope, t) ==
    AheadIn(comp, element, config, rows, scope, TiedWith(comp, rows, scope, t))
RuledPlace(comp, element, config, rows, scope, t) ==
    Cardinality(Better(comp, rows, scope, t)) + 1
      + Cardinality({u \in TiedWith(comp, rows, scope, t) :
                       <<u, t>> \in AheadInGroup(comp, element, config, rows, scope, t)})

LEMMA RankByRules ==
    ASSUME NEW comp, NEW element, NEW config, NEW rows, NEW order,
           NEW scope, IsFiniteSet(scope), Orders1(order, scope), NEW t \in scope,
           WeakOrder(AheadInGroup(comp, element, config, rows, scope, t),
                     TiedWith(comp, rows, scope, t))
    PROVE  ScopeRank(comp, element, config, rows, order, scope)[t] =
             RuledPlace(comp, element, config, rows, scope, t)
<1> DEFINE G == TiedWith(comp, rows, scope, t)
           B == Better(comp, rows, scope, t)
           ahead == AheadIn(comp, element, config, rows, scope, G)
           seq == Sorted(ahead, order, G)
<1>1. G \subseteq scope /\ B \subseteq scope /\ t \in G
    BY DEF TiedWith, Better
<1>2. Orders1(order, G)
    BY <1>1 DEF Orders1
<1>3. ScopeRank(comp, element, config, rows, order, scope)[t] = PlaceOf(Cardinality(B), ahead, seq, t)
    BY RankOfScope DEF GroupPlace
<1> HIDE DEF G, B, ahead
<1>4. Cardinality(B) \in Nat
    BY <1>1, FS_Subset, FS_CardinalityType
<1>5. WeakOrder(ahead, G)
    BY DEF ahead, G, AheadInGroup
<1>6. PICK n : Listing(seq, n, G) /\ Ascending(ahead, seq, n)
    BY <1>2, <1>5, SortedListing
<1> HIDE DEF seq
<1>7. PlaceOf(Cardinality(B), ahead, seq, t) =
        Cardinality(B) + 1 + Cardinality({u \in G : <<u, t>> \in ahead})
    BY <1>1, <1>4, <1>5, <1>6, PlaceByRules
<1> QED BY <1>3, <1>7 DEF B, G, ahead, RuledPlace, AheadInGroup

-----------------------------------------------------------------------------
(* The rules put a group in order.                                          *)

RowsTyped(rows, scope) ==
    \A t \in scope :
        /\ rows[t].total \in Int /\ rows[t].manual \in Int
        /\ \A e \in DOMAIN rows[t].byElement : rows[t].byElement[e] \in Int
RulesTyped(config) ==
    /\ Len(config.rules) \in Nat /\ DOMAIN config.rules = 1..Len(config.rules)
    /\ \A i \in DOMAIN config.rules :
         /\ config.rules[i].kind \in RuleKinds
         /\ Len(config.rules[i].order) \in Nat
         /\ DOMAIN config.rules[i].order = 1..Len(config.rules[i].order)

LEMMA OneNumber == ASSUME NEW x \in Int PROVE <<x>> \in [1..1 -> Int]
<1>1. DOMAIN <<x>> = 1..1 /\ \A i \in 1..1 : <<x>>[i] \in Int
    OBVIOUS
<1>2. <<x>> = [i \in 1..1 |-> <<x>>[i]]
    BY <1>1
<1> QED BY <1>1, <1>2

\* A rule compares sequences of numbers that are equally long for all the teams of a group.
LEMMA ComparedType ==
    ASSUME NEW comp, comp.plus \in BOOLEAN, NEW element, IsFiniteSet(DOMAIN element),
           NEW config, RulesTyped(config), NEW rows, NEW scope, IsFiniteSet(scope),
           NEW G \in SUBSET scope, RowsTyped(rows, scope), NEW i \in DOMAIN config.rules
    PROVE  \E n \in Nat : \A t \in G :
             Compared(comp, element, config, rows, scope, G, i, t) \in [1..n -> Int]
<1> DEFINE rule == config.rules[i]
           N == Cardinality(scope)
           V(t) == Vector(comp, element, config, rows, scope, rule, t)
           C(t) == Compared(comp, element, config, rows, scope, G, i, t)
           Sel == Selected(element, config)
           PlacesOf(t) == [e \in Sel |-> ElementPlace(comp, rows, scope, e, t)]
           Times(t, k) == Cardinality({e \in Sel : PlacesOf(t)[e] = k})
<1> SUFFICES \E n \in Nat : \A t \in G : C(t) \in [1..n -> Int]
    OBVIOUS
<1>1. CASE ~Applies(element, config, rows, G, rule)
    <2>1. \A t \in G : C(t) = <<>>
        BY <1>1 DEF Compared
    <2>2. <<>> \in [1..0 -> Int]
        <3>1. 1..0 = {} /\ <<>> \in [{} -> Int]
            OBVIOUS
        <3> QED BY <3>1
    <2> HIDE DEF C
    <2> QED BY <2>1, <2>2
<1>2. CASE Applies(element, config, rows, G, rule)
    <2>1. \A t \in G : C(t) = V(t)
        BY <1>2 DEF Compared
    <2>2. rule.kind \in RuleKinds
        BY DEF RulesTyped
    <2>3. N \in Nat
        BY FS_CardinalityType
    <2>4. ASSUME NEW t \in G, NEW k PROVE Times(t, k) \in Nat
        <3> DEFINE T == {e \in Sel : PlacesOf(t)[e] = k}
        <3>1. T \subseteq DOMAIN element
            BY DEF Selected
        <3> HIDE DEF T
        <3>2. Cardinality(T) \in Nat
            BY <3>1, FS_Subset, FS_CardinalityType
        <3> QED BY <3>2 DEF T
    <2>5. CASE rule.kind = "BEST_PLACES"
        <3>1. ASSUME NEW t \in G PROVE V(t) \in [1..N -> Int]
            <4>1. V(t) = [k \in 1..N |-> -Times(t, k)]
                BY <2>5 DEF Vector
            <4> HIDE DEF V, Times
            <4> QED BY <2>4, <4>1
        <3> HIDE DEF C, V, N
        <3> QED BY <2>1, <2>3, <3>1
    <2>6. CASE rule.kind = "BEST_WORST"
        <3>1. ASSUME NEW t \in G PROVE V(t) \in [1..N -> Int]
            <4>1. V(t) = [k \in 1..N |-> Times(t, N + 1 - k)]
                BY <2>6 DEF Vector
            <4> HIDE DEF V, Times
            <4> QED BY <2>4, <4>1
        <3> HIDE DEF C, V, N
        <3> QED BY <2>1, <2>3, <3>1
    <2>7. CASE rule.kind = "PREFERRED_ELEMENT"
        <3>1. ASSUME NEW t \in G PROVE V(t) \in [1..1 -> Int]
            <4> DEFINE x == rows[t].byElement[rule.element]
            <4>1. HasScore(rows, rule.element, t)
                BY <1>2, <2>7 DEF Applies
            <4>2. x \in Int
                BY <4>1 DEF HasScore, RowsTyped
            <4>3. V(t) = <<Cost(comp, x)>>
                BY <2>7 DEF Vector
            <4> HIDE DEF x, V
            <4>4. Cost(comp, x) \in Int
                BY <4>2 DEF Cost, Side
            <4> DEFINE y == Cost(comp, x)
            <4> HIDE DEF y
            <4>5. V(t) = <<y>> /\ y \in Int
                BY <4>3, <4>4 DEF y
            <4> QED BY <4>5, OneNumber
        <3> HIDE DEF C, V
        <3> QED BY <2>1, <3>1
    <2>8. CASE rule.kind = "FEWER_PENALTIES"
        <3>1. ASSUME NEW t \in G PROVE V(t) \in [1..1 -> Int]
            <4>1. V(t) = <<rows[t].manual>> /\ rows[t].manual \in Int
                BY <2>8 DEF Vector, RowsTyped
            <4> HIDE DEF V
            <4> QED BY <4>1, OneNumber
        <3> HIDE DEF C, V
        <3> QED BY <2>1, <3>1
    <2>9. CASE rule.kind = "MANUAL"
        <3>1. ASSUME NEW t \in G PROVE V(t) \in [1..1 -> Int]
            <4> DEFINE listed == {k \in DOMAIN rule.order : rule.order[k] = t}
                       first == CHOOSE k \in listed : TRUE
            <4>1. V(t) = IF listed = {} THEN <<Len(rule.order)>> ELSE <<first - 1>>
                BY <2>9 DEF Vector
            <4>2. Len(rule.order) \in Int /\ listed \subseteq Int
                BY DEF RulesTyped
            <4> HIDE DEF listed, V
            <4>3. CASE listed = {}
                BY <4>1, <4>2, <4>3, OneNumber
            <4>4. CASE listed # {}
                <5>1. first \in listed
                    BY <4>4
                <5> HIDE DEF first
                <5>2. first - 1 \in Int
                    BY <4>2, <5>1
                <5> QED BY <4>1, <4>4, <5>2, OneNumber
            <4> QED BY <4>3, <4>4
        <3> HIDE DEF C, V
        <3> QED BY <2>1, <3>1
    <2> QED BY <2>2, <2>5, <2>6, <2>7, <2>8, <2>9 DEF RuleKinds
<1> QED BY <1>1, <1>2

\* The rules compare the teams of a group one by one, the first decides that tells two apart.
LEMMA RulesOrderTheGroup ==
    ASSUME NEW comp, comp.plus \in BOOLEAN, NEW element, IsFiniteSet(DOMAIN element),
           NEW config, RulesTyped(config), NEW rows, NEW scope, IsFiniteSet(scope),
           NEW G \in SUBSET scope, RowsTyped(rows, scope)
    PROVE  WeakOrder(AheadIn(comp, element, config, rows, scope, G), G)
<1> DEFINE n == Len(config.rules)
           Part(i, t) == Compared(comp, element, config, rows, scope, G, i, t)
           Long(i, m) == \A t \in G : Part(i, t) \in [1..m -> Int]
           len == [i \in 1..n |-> CHOOSE m \in Nat : Long(i, m)]
           K == [t \in G |-> [i \in 1..n |-> Part(i, t)]]
           ahead == AheadIn(comp, element, config, rows, scope, G)
<1>1. n \in Nat /\ DOMAIN config.rules = 1..n
    BY DEF RulesTyped
<1>2. \A i \in 1..n : \E m \in Nat : Long(i, m)
    <2> SUFFICES ASSUME NEW i \in DOMAIN config.rules PROVE \E m \in Nat : Long(i, m)
        BY <1>1
    <2> QED BY ComparedType
<1>3. \A t, u \in G : <<t, u>> \in ahead <=>
        \E i \in 1..n : Less(Part(i, t), Part(i, u)) /\ \A j \in 1..(i - 1) : Part(j, t) = Part(j, u)
    BY <1>1 DEF AheadIn, AheadInTie
<1> HIDE DEF n, Part, ahead
<1>4. len \in [1..n -> Nat] /\ \A i \in 1..n : Long(i, len[i])
    <2> HIDE DEF Long
    <2> QED BY <1>2
<1>5. \A t \in G : \A i \in 1..n : K[t][i] = Part(i, t)
    OBVIOUS
<1> HIDE DEF len, K
<1>6. KeysTyped(K, G, n, len)
    BY <1>4, <1>5 DEF KeysTyped
<1>7. AheadByKeys(ahead, K, G, n)
    <2> SUFFICES ASSUME NEW t \in G, NEW u \in G
                 PROVE  <<t, u>> \in ahead <=>
                          \E i \in 1..n : /\ Less(K[t][i], K[u][i])
                                         /\ \A j \in 1..(i - 1) : K[t][j] = K[u][j]
        BY DEF AheadByKeys
    <2>1. ASSUME NEW i \in 1..n
          PROVE  /\ Less(Part(i, t), Part(i, u)) <=> Less(K[t][i], K[u][i])
                 /\ (\A j \in 1..(i - 1) : Part(j, t) = Part(j, u))
                    <=> (\A j \in 1..(i - 1) : K[t][j] = K[u][j])
        <3>1. \A j \in 1..(i - 1) : j \in 1..n
            BY <1>1
        <3> QED BY <1>5, <3>1
    <2> QED BY <1>3, <2>1
<1>8. WeakOrder(ahead, G)
    BY <1>1, <1>4, <1>6, <1>7, RulesOrder
<1> QED BY <1>8 DEF ahead

\* The order of the rows changes no place of a scope.
LEMMA OrderChangesNothing ==
    ASSUME NEW comp, comp.plus \in BOOLEAN, NEW element, IsFiniteSet(DOMAIN element),
           NEW config, RulesTyped(config), NEW rows, NEW scope, IsFiniteSet(scope),
           RowsTyped(rows, scope), NEW o1, Orders1(o1, scope), NEW o2, Orders1(o2, scope)
    PROVE  ScopeRank(comp, element, config, rows, o1, scope) =
             ScopeRank(comp, element, config, rows, o2, scope)
<1> DEFINE R(o) == ScopeRank(comp, element, config, rows, o, scope)
<1>1. ASSUME NEW t \in scope PROVE R(o1)[t] = R(o2)[t]
    <2>1. TiedWith(comp, rows, scope, t) \in SUBSET scope
        BY DEF TiedWith
    <2>2. WeakOrder(AheadInGroup(comp, element, config, rows, scope, t), TiedWith(comp, rows, scope, t))
        BY <2>1, RulesOrderTheGroup DEF AheadInGroup
    <2> QED BY <2>2, RankByRules
<1>2. R(o1) = [t \in scope |-> R(o1)[t]] /\ R(o2) = [t \in scope |-> R(o2)[t]]
    BY DEF ScopeRank
<1> HIDE DEF R
<1>3. R(o1) = R(o2)
    BY <1>1, <1>2
<1> QED BY <1>3 DEF R

-----------------------------------------------------------------------------
(* What changes a place.                                                    *)

\* The rows and the rules of a leaderboard are of the types that the lemmas ask for.
LEMMA RulesAreTyped ==
    ASSUME BoardsAreSound, NEW s \in Boards PROVE RulesTyped(s.config)
<1> DEFINE rules == s.config.rules
<1>1. /\ rules \in Seq({rules[i] : i \in DOMAIN rules})
      /\ \A i \in DOMAIN rules :
           /\ rules[i].kind \in RuleKinds
           /\ rules[i].order \in Seq({rules[i].order[k] : k \in DOMAIN rules[i].order})
    BY DEF BoardsAreSound
<1>2. ASSUME NEW q, NEW S, q \in Seq(S) PROVE Len(q) \in Nat /\ DOMAIN q = 1..Len(q)
    BY <1>2
<1> HIDE DEF rules
<1>3. Len(rules) \in Nat /\ DOMAIN rules = 1..Len(rules)
    BY <1>1, <1>2
<1>4. ASSUME NEW i \in DOMAIN rules
      PROVE  Len(rules[i].order) \in Nat /\ DOMAIN rules[i].order = 1..Len(rules[i].order)
    BY <1>1, <1>2
<1> QED BY <1>1, <1>3, <1>4 DEF RulesTyped, rules

LEMMA RowsAreTyped ==
    ASSUME BoardsAreSound, NEW s \in Boards, NEW score, PointsTyped(s, score)
    PROVE  LET rows == Rows(s.comp, s.team, score, s.manual)
           IN  DOMAIN rows \subseteq DOMAIN s.team /\ RowsTyped(rows, DOMAIN rows)
<1> DEFINE rows == Rows(s.comp, s.team, score, s.manual)
<1>1. /\ IsFiniteSet(DOMAIN score) /\ s.comp.plus \in BOOLEAN /\ s.manual \in [DOMAIN s.team -> Int]
      /\ \A e \in DOMAIN score : \A t \in DOMAIN score[e] : score[e][t] \in Int
    BY DEF BoardsAreSound, PointsTyped
<1>2. ASSUME NEW t \in DOMAIN rows
      PROVE  /\ t \in DOMAIN s.team /\ rows[t].total \in Int /\ rows[t].manual \in Int
             /\ \A e \in DOMAIN rows[t].byElement : rows[t].byElement[e] \in Int
    <2>1. t \in DOMAIN s.team /\ rows[t].total \in Int
        BY <1>1, TotalsAreNumbers
    <2>2. rows[t].manual = s.manual[t] /\ rows[t].byElement = ByElement(score, t)
        BY DEF Rows
    <2> HIDE DEF rows
    <2>3. \A e \in DOMAIN ByElement(score, t) : ByElement(score, t)[e] \in Int
        BY <1>1 DEF ByElement
    <2> QED BY <1>1, <2>1, <2>2, <2>3
<1> HIDE DEF rows
<1>3. DOMAIN rows \subseteq DOMAIN s.team /\ RowsTyped(rows, DOMAIN rows)
    BY <1>2 DEF RowsTyped
<1> QED BY <1>3 DEF rows

\* The same points of those who are ranked give the same rows.
LEMMA SameRows ==
    ASSUME NEW comp, NEW team, NEW manual, NEW f, NEW g,
           \A t \in DOMAIN team : Eligible(team[t]) => ByElement(g, t) = ByElement(f, t)
    PROVE  Rows(comp, team, g, manual) = Rows(comp, team, f, manual)
BY DEF Rows

\* The order of the rows changes no ranking.
LEMMA SameRanking ==
    ASSUME BoardsAreSound, NEW s \in Boards, NEW score, PointsTyped(s, score),
           NEW o1 \in Orders, NEW o2 \in Orders, NEW rows, rows = Rows(s.comp, s.team, score, s.manual)
    PROVE  RankLeaderboard(s.comp, s.element, s.config, rows, o1) =
             RankLeaderboard(s.comp, s.element, s.config, rows, o2)
<1> DEFINE R(o, scope) == ScopeRank(s.comp, s.element, s.config, rows, o, scope)
           OfClass(c) == {t \in DOMAIN rows : rows[t].class = c}
           Rank(o, t) == R(o, DOMAIN rows)[t]
           ClassRank(o, t) == IF rows[t].class = Null THEN 0 ELSE R(o, OfClass(rows[t].class))[t]
           RankEntry(o, t) == [rank |-> Rank(o, t), classRank |-> ClassRank(o, t)]
<1>1. /\ IsFiniteSet(DOMAIN s.team) /\ IsFiniteSet(DOMAIN s.element) /\ s.comp.plus \in BOOLEAN
      /\ Orders1(o1, DOMAIN s.team) /\ Orders1(o2, DOMAIN s.team) /\ RulesTyped(s.config)
    BY SoundBoards, RulesAreTyped
<1>2. DOMAIN rows \subseteq DOMAIN s.team /\ RowsTyped(rows, DOMAIN rows)
    BY RowsAreTyped
<1>3. ASSUME NEW scope \in SUBSET DOMAIN rows PROVE R(o1, scope) = R(o2, scope)
    <2>1. IsFiniteSet(scope) /\ RowsTyped(rows, scope) /\ Orders1(o1, scope) /\ Orders1(o2, scope)
        BY <1>1, <1>2, FS_Subset DEF RowsTyped, Orders1
    <2> QED BY <1>1, <2>1, OrderChangesNothing
<1>4. R(o1, DOMAIN rows) = R(o2, DOMAIN rows)
    BY <1>3
<1>5. \A c : R(o1, OfClass(c)) = R(o2, OfClass(c))
    <2>1. \A c : OfClass(c) \in SUBSET DOMAIN rows
        OBVIOUS
    <2> HIDE DEF R, OfClass
    <2> QED BY <1>3, <2>1
<1>6. \A o : RankLeaderboard(s.comp, s.element, s.config, rows, o) =
        [t \in DOMAIN rows |-> RankEntry(o, t)]
    BY DEF RankLeaderboard
<1> HIDE DEF R, OfClass
<1>7. \A t \in DOMAIN rows : Rank(o1, t) = Rank(o2, t)
    BY <1>4
<1>8. \A t \in DOMAIN rows : ClassRank(o1, t) = ClassRank(o2, t)
    BY <1>5
<1> HIDE DEF Rank, ClassRank
<1>9. \A t \in DOMAIN rows : RankEntry(o1, t) = RankEntry(o2, t)
    BY <1>7, <1>8
<1> HIDE DEF RankEntry
<1> QED BY <1>6, <1>9

\* Only the results of those who are ranked decide the places: a step that changes the
\* points of nobody who takes part in the ranking, or only the order in which the rows come
\* from the database, leaves every place of the leaderboard and of its classes as it is,
\* whatever the rules for ties are (lib/tieBreak.ts:66-131).
THEOREM OnlyResultsDoCount ==
    ASSUME BoardsAreSound PROVE BoardSpec => OnlyResultsCount
<1> DEFINE Same == \A t \in DOMAIN input.team :
                     Eligible(input.team[t]) => ByElement(input.score, t)' = ByElement(input.score, t)
<1>1. ASSUME BoardInv, [BoardNext]_arenaVars, Same PROVE outcome'.rank = outcome.rank
    <2>1. PICK s \in Boards, o1 \in Orders, o2 \in Orders : \E f, g :
             /\ PointsTyped(s, f) /\ input = BoardInput(s, f, o1)
             /\ PointsTyped(s, g) /\ input' = BoardInput(s, g, o2)
             /\ outcome' = BoardOutcome(input')
        BY <1>1, BoardSteps
    <2>2. PICK f, g :
             /\ PointsTyped(s, f) /\ input = BoardInput(s, f, o1)
             /\ PointsTyped(s, g) /\ input' = BoardInput(s, g, o2)
             /\ outcome' = BoardOutcome(input')
        BY <2>1
    <2>3. \A t \in DOMAIN s.team : Eligible(s.team[t]) => ByElement(g, t) = ByElement(f, t)
        BY <1>1, <2>2 DEF BoardInput, ByElement
    <2> DEFINE rows == Rows(s.comp, s.team, f, s.manual)
    <2>4. Rows(s.comp, s.team, g, s.manual) = rows
        BY <2>3, SameRows
    <2>5. outcome.rank = RankLeaderboard(s.comp, s.element, s.config, rows, o1)
        BY <1>1, <2>2 DEF BoardInv, BoardOutcome, TheRows, BoardInput
    <2>6. outcome'.rank = RankLeaderboard(s.comp, s.element, s.config, rows, o2)
        BY <2>2, <2>4 DEF BoardOutcome, TheRows, BoardInput
    <2> QED BY <2>2, <2>5, <2>6, SameRanking
<1>2. BoardInv /\ [BoardNext]_arenaVars
        => [(arena = "board" /\ Same) => outcome'.rank = outcome.rank]_arenaVars
    BY <1>1
<1> QED BY <1>2, BoardInvHolds, PTL DEF BoardSpec, OnlyResultsCount
=============================================================================
