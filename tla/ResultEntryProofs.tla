-------------------------- MODULE ResultEntryProofs --------------------------
(***************************************************************************)
(* Theorems about ResultEntry, for any teams, pages, forms, configurations *)
(* and calculators, and in the last part about the calculators themselves  *)
(* and about ElementPoints, an element whose results come one by one.      *)
(*                                                                         *)
(* The lock admits one transaction at a time (OneTransaction), so what a   *)
(* transaction has read stays true until it ends, but for the status of    *)
(* teams, which FreshScores accounts for.                                  *)
(***************************************************************************)
EXTENDS ResultEntry, ElementPoints, FiniteSetTheorems, WellFoundedInduction, TLAPS

\* What is asked of the calculators, for the type of the scores alone.
PointsAreNumbers ==
    \A S \in SUBSET Teams : \A active \in [S -> Rows] : \A t \in S : Points(t, active) \in Nat

OneTransaction == \A v, w \in Tasks : task[v] # None /\ task[w] # None => v = w

Computed(w) == task[w] # None /\ task[w].phase = "computed"

FreshScores ==
    \A w \in Tasks : Computed(w) /\ task[w].fresh =>
        task[w].scores = ComputedScores(task[w].config, Sees(w), task[w].misc, withdrawn)

-----------------------------------------------------------------------------
(* Types of what the handlers compute.                                      *)

LEMMA OutcomeType ==
    ASSUME NEW cfg \in Configs, NEW values, NEW mode, NEW label
    PROVE  /\ Outcome(cfg, values, mode, label) \in Labels \cup {None}
           /\ label # "OTHER" => Outcome(cfg, values, mode, label) \in {"FAILED", None}
BY DEF Outcome, Labels

LEMMA PenaltyType ==
    ASSUME NEW cfg \in Configs, NEW label \in Labels \cup {None}
    PROVE  Penalty(cfg, label) \in Nat \cup {None}
BY ConfigsAssumption DEF Penalty, Configurations

LEMMA RowOfType ==
    ASSUME TypeOK, NEW form \in Forms, NEW c \in Clients
    PROVE  RowOf(config, form, By[c]) \in Rows
<1> DEFINE label == Outcome(config, form.values, form.mode, form.label)
<1>1. label \in Labels \cup {None}
    BY OutcomeType DEF TypeOK
<1>2. Penalty(config, label) \in Nat \cup {None}
    BY <1>1, PenaltyType DEF TypeOK
<1>3. /\ form.values \in AnyValues /\ form.mode \in Modes /\ clock + 1 \in Nat
      /\ Empty \in AnyValues
    BY DEF Forms, TypeOK, AnyValues
<1> HIDE DEF label
<1>4. By[c] \in {By[d] : d \in Clients}
    OBVIOUS
<1> QED BY <1>1, <1>2, <1>3, <1>4 DEF RowOf, Rows, label

LEMMA ResettledType ==
    ASSUME TypeOK, NEW cfg \in Configs, NEW row \in Rows \cup {None}
    PROVE  /\ Resettled(cfg, row) \in Rows \cup {None}
           /\ Resettled(cfg, row) = None <=> row = None
<1> DEFINE label == Outcome(cfg, row.values, row.mode, None)
           penalty == Penalty(cfg, label)
<1>1. label \in Labels \cup {None}
    BY OutcomeType
<1>2. penalty \in Nat \cup {None}
    BY <1>1, PenaltyType
<1> HIDE DEF label, penalty
<1>3. CASE Resettled(cfg, row) = row
    BY <1>3
<1>4. CASE Resettled(cfg, row) # row
    <2>1. /\ Resettled(cfg, row) = [row EXCEPT !.label = label, !.penalty = penalty, !.at = clock + 1]
          /\ row # None
        BY <1>4 DEF Resettled, label, penalty
    <2>2. row \in Rows /\ clock + 1 \in Nat
        BY <2>1 DEF TypeOK
    <2>3. Resettled(cfg, row) \in Rows
        BY <2>1, <2>2, <1>1, <1>2 DEF Rows
    <2> QED BY <2>1, <2>3, SentinelsAssumption
<1> QED BY <1>3, <1>4

LEMMA ScoresType ==
    ASSUME PointsAreNumbers, NEW cfg \in Configs, NEW table \in Tables,
           NEW extra \in SUBSET Teams, NEW gone \in SUBSET Teams
    PROVE  ComputedScores(cfg, table, extra, gone) \in Scorings
<1> DEFINE S == Present(table) \ gone
           active == [t \in S |-> table[t]]
<1>1. S \in SUBSET Teams /\ active \in [S -> Rows]
    BY DEF Present, Tables
<1>2. \A t \in S : Points(t, active) \in Nat
    BY <1>1 DEF PointsAreNumbers
<1> HIDE DEF active
<1>3. \A t \in Present(table), n \in {0, 1} :
         (IF t \in gone THEN MaxPoints ELSE Points(t, active)) + n \in Nat
    BY <1>2, BoundsAssumption
<1>4. CASE cfg.cancelled
    BY <1>4 DEF ComputedScores, Scorings
<1>5. CASE ~cfg.cancelled
    BY <1>3, <1>5 DEF ComputedScores, Scorings, active
<1> QED BY <1>4, <1>5

LEMMA SeesType ==
    ASSUME TypeOK, NEW w \in Tasks, task[w] # None
    PROVE  Sees(w) \in Tables /\ task[w] \in Transactions
BY DEF TypeOK, Sees, Tables, Transactions
-----------------------------------------------------------------------------
(* The kinds of steps: a transaction begins, goes on or ends, the status of *)
(* a team changes, or nothing happens in the database.                      *)

Begins(w) ==
    \E request \in Requests \cup {None}, answer \in Rows \cup {None}, table \in Tables,
       written \in SUBSET Teams, cfg \in Configs, extra \in SUBSET Teams :
          Begin(w, request, answer, table, written, cfg, extra)

\* The transaction is what it was, but for the page that waits for its answer.
SameWork(w) ==
    /\ task'[w] = None <=> task[w] = None
    /\ task[w] # None =>
          /\ task'[w].phase = task[w].phase /\ task'[w].fresh = task[w].fresh
          /\ task'[w].answer = task[w].answer
          /\ task'[w].rows = task[w].rows /\ task'[w].written = task[w].written
          /\ task'[w].config = task[w].config /\ task'[w].misc = task[w].misc
          /\ task'[w].scores = task[w].scores
          /\ task'[w].request = None <=> task[w].request = None
          /\ task[w].request # None =>
                /\ task'[w].request.team = task[w].request.team
                /\ task'[w].request.seen = task[w].request.seen

Idles == UNCHANGED <<elementVars, withdrawn, outdated, clock>> /\ \A w \in Tasks : SameWork(w)

LEMMA RepricedType ==
    ASSUME TypeOK, NEW cfg \in Configs
    PROVE  Repriced(cfg) \in Tables
<1>1. ASSUME NEW t \in Teams, rows[t] # None
      PROVE  /\ rows[t] \in Rows
             /\ Priced(cfg, rows[t]) \in Nat \cup {None}
    <2>1. rows[t] \in Rows
        BY <1>1 DEF TypeOK, Tables
    <2>2. cfg.penalty \in [Labels -> Nat \cup {None}]
        BY ConfigsAssumption DEF Configurations
    <2> QED BY <2>1, <2>2 DEF Priced, Rows
<1>2. clock + 1 \in Nat
    BY DEF TypeOK
<1>3. ASSUME NEW t \in Teams, rows[t] # None, NEW n \in Nat \cup {None}
      PROVE  [rows[t] EXCEPT !.penalty = n, !.at = clock + 1] \in Rows
    BY <1>1, <1>2, <1>3 DEF Rows
<1>4. \A t \in Teams : rows[t] \in Rows \cup {None}
    BY DEF TypeOK, Tables
<1> QED BY <1>1, <1>3, <1>4 DEF Repriced, Tables

LEMMA Beginners ==
    ASSUME TypeOK, NEW w \in Tasks,
           \/ \E r \in network : Post(w, r)
           \/ DeleteAll(w)
           \/ \E cfg \in Configs : Reconfigure(w, cfg)
           \/ \E t \in Teams : ChangeMisc(w, t)
           \/ Recalculate(w)
    PROVE  Begins(w) /\ UNCHANGED <<page, waiting>> /\ network' \in SUBSET network
<1>1. /\ rows \in Tables /\ config \in Configs /\ misc \in SUBSET Teams
      /\ network \in SUBSET Requests /\ [t \in Teams |-> None] \in Tables
    BY DEF TypeOK, Tables
<1>2. CASE \E r \in network : Post(w, r)
    <2>1. PICK r \in network : Post(w, r)
        BY <1>2
    <2>2. r \in Requests /\ r.team \in Teams /\ r.form \in Forms /\ r.client \in Clients
        BY <1>1 DEF Requests
    <2>3. RowOf(config, r.form, By[r.client]) \in Rows
        BY <2>2, RowOfType
    <2>4. AnswerTo(r) \in Rows \cup {None}
        BY <1>1, <2>2, <2>3 DEF AnswerTo, Tables
    <2> DEFINE written == IF Verdict(r) = "same" THEN {} ELSE {r.team}
               new == IF Verdict(r) = "write" THEN RowOf(config, r.form, By[r.client]) ELSE None
               table == [rows EXCEPT ![r.team] = new]
    <2>5. table \in Tables /\ written \in SUBSET Teams
        BY <1>1, <2>2, <2>3 DEF Tables
    <2>6. /\ Begin(w, r, AnswerTo(r), table, written, config, misc)
          /\ network' = network \ {r} /\ UNCHANGED <<page, waiting>>
        BY <2>1 DEF Post, clientVars
    <2> HIDE DEF table, written
    <2> QED BY <1>1, <2>2, <2>4, <2>5, <2>6 DEF Begins
<1>3. CASE DeleteAll(w)
    BY <1>1, <1>3 DEF DeleteAll, Change, Begins, clientVars
<1>4. CASE \E cfg \in Configs : Reconfigure(w, cfg)
    <2>1. PICK cfg \in Configs : Reconfigure(w, cfg)
        BY <1>4
    <2> DEFINE written == {t \in Teams : Repriced(cfg)[t] # rows[t]}
    <2>2. Begin(w, None, None, Repriced(cfg), written, cfg, misc) /\ UNCHANGED <<network, page, waiting>>
        BY <2>1 DEF Reconfigure, Change, clientVars
    <2>3. written \in SUBSET Teams /\ Repriced(cfg) \in Tables
        BY RepricedType
    <2> HIDE DEF written
    <2> QED BY <1>1, <2>2, <2>3 DEF Begins
<1>5. CASE \E t \in Teams : ChangeMisc(w, t)
    <2>1. PICK t \in Teams : ChangeMisc(w, t)
        BY <1>5
    <2> DEFINE extra == IF t \in misc THEN misc \ {t} ELSE misc \cup {t}
    <2>2. Begin(w, None, None, rows, {}, config, extra) /\ UNCHANGED <<network, page, waiting>>
        BY <2>1 DEF ChangeMisc, Change, clientVars
    <2>3. extra \in SUBSET Teams
        BY <1>1
    <2> HIDE DEF extra
    <2> QED BY <1>1, <2>2, <2>3 DEF Begins
<1>6. CASE Recalculate(w)
    BY <1>1, <1>6 DEF Recalculate, Change, Begins, clientVars
<1> QED BY <1>2, <1>3, <1>4, <1>5, <1>6
-----------------------------------------------------------------------------
(* Types.                                                                   *)

TypesOfTransactions == task \in [Tasks -> Transactions \cup {None}]

\* A page that no longer waits.
LEMMA LeftType ==
    ASSUME NEW r \in Requests
    PROVE  LET left == [r EXCEPT !.live = FALSE]
           IN  left \in Requests /\ left # None /\ left.team = r.team /\ left.seen = r.seen
BY SentinelsAssumption DEF Requests

LEMMA BeginType ==
    ASSUME TypeOK, NEW w \in Tasks, Begins(w)
    PROVE  /\ TypesOfTransactions' /\ clock' \in Nat
           /\ UNCHANGED <<elementVars, withdrawn, outdated>>
<1>1. PICK request \in Requests \cup {None}, answer \in Rows \cup {None}, table \in Tables,
           written \in SUBSET Teams, cfg \in Configs, extra \in SUBSET Teams :
          Begin(w, request, answer, table, written, cfg, extra)
    BY DEF Begins
<1>2. scores \in Scorings /\ clock \in Nat /\ task \in [Tasks -> Transactions \cup {None}]
    BY DEF TypeOK
<1> DEFINE new == [phase |-> "written", request |-> request, answer |-> answer,
                   rows |-> table, written |-> written, config |-> cfg, misc |-> extra,
                   scores |-> scores, fresh |-> FALSE]
<1>3. new \in Transactions
    BY <1>2 DEF Transactions
<1>4. /\ task' = [task EXCEPT ![w] = new] /\ clock' = clock + 1
      /\ UNCHANGED <<elementVars, withdrawn, outdated>>
    BY <1>1 DEF Begin
<1> HIDE DEF new
<1>5. TypesOfTransactions'
    BY <1>2, <1>3, <1>4 DEF TypesOfTransactions
<1> QED BY <1>2, <1>4, <1>5

LEMMA ComputeType ==
    ASSUME PointsAreNumbers, TypeOK, NEW w \in Tasks, Compute(w)
    PROVE  TypesOfTransactions' /\ clock' \in Nat
<1> DEFINE cfg == task[w].config
           settled == [t \in Teams |-> Resettled(cfg, Sees(w)[t])]
           new == ComputedScores(cfg, settled, task[w].misc, withdrawn)
           more == task[w].written \cup {t \in Teams : settled[t] # Sees(w)[t]}
<1>1. task[w] # None /\ task[w] \in Transactions /\ Sees(w) \in Tables
    BY SeesType DEF Compute
<1>2. cfg \in Configs /\ task[w].misc \in SUBSET Teams /\ task[w].written \in SUBSET Teams
    BY <1>1 DEF Transactions
<1>3. settled \in Tables
    <2>1. \A t \in Teams : Sees(w)[t] \in Rows \cup {None}
        BY <1>1 DEF Tables
    <2> QED BY <1>2, <2>1, ResettledType DEF Tables
<1>4. new \in Scorings
    BY <1>2, <1>3, ScoresType DEF TypeOK
<1>5. more \in SUBSET Teams
    BY <1>2
<1>6. /\ task' = [task EXCEPT ![w] =
            [task[w] EXCEPT !.phase = "computed", !.rows = settled, !.scores = new,
                            !.written = more, !.fresh = TRUE]]
      /\ clock' = IF settled = Sees(w) THEN clock ELSE clock + 1
    BY DEF Compute
<1> HIDE DEF settled, new, more
<1>7. [task[w] EXCEPT !.phase = "computed", !.rows = settled, !.scores = new,
                      !.written = more, !.fresh = TRUE] \in Transactions
    BY <1>1, <1>3, <1>4, <1>5 DEF Transactions
<1> QED BY <1>6, <1>7 DEF TypeOK, TypesOfTransactions

LEMMA ClientWork ==
    ASSUME TypeOK, ClientStep
    PROVE  /\ Idles /\ TypesOfTransactions'
           /\ network' \in SUBSET Requests
           /\ page' \in [Clients -> Tables] /\ waiting' \in [Clients -> BOOLEAN]
<1> DEFINE Types == /\ network' \in SUBSET Requests
                    /\ page' \in [Clients -> Tables] /\ waiting' \in [Clients -> BOOLEAN]
<1>1. /\ network \in SUBSET Requests /\ page \in [Clients -> Tables]
      /\ waiting \in [Clients -> BOOLEAN] /\ rows \in Tables
      /\ task \in [Tasks -> Transactions \cup {None}]
    BY DEF TypeOK
<1>2. task' = task => (\A w \in Tasks : SameWork(w)) /\ TypesOfTransactions'
    BY <1>1 DEF SameWork, TypesOfTransactions
<1>3. CASE \E c \in Clients : Load(c)
    <2>1. Types /\ task' = task /\ UNCHANGED <<elementVars, withdrawn, outdated, clock>>
        BY <1>1, <1>3 DEF Load
    <2> QED BY <1>2, <2>1 DEF Idles
<1>4. CASE \E c \in Clients, t \in Teams, form \in Offered : Submit(c, t, form)
    <2>1. PICK c \in Clients, t \in Teams, form \in Offered : Submit(c, t, form)
        BY <1>4
    <2> DEFINE r == [client |-> c, team |-> t, form |-> form, seen |-> page[c][t], live |-> TRUE]
    <2>2. form \in Forms /\ page[c][t] \in Rows \cup {None}
        BY <1>1, OfferedAssumption DEF Tables
    <2>3. r \in Requests
        BY <2>2 DEF Requests
    <2>4. /\ network' = network \cup {r} /\ waiting' = [waiting EXCEPT ![c] = TRUE]
          /\ page' = page /\ task' = task /\ UNCHANGED <<elementVars, withdrawn, outdated, clock>>
        BY <2>1 DEF Submit
    <2> HIDE DEF r
    <2>5. Types
        BY <1>1, <2>3, <2>4
    <2> QED BY <1>2, <2>4, <2>5 DEF Idles
<1>5. CASE \E c \in Clients : GiveUp(c)
    <2>1. PICK c \in Clients : GiveUp(c)
        BY <1>5
    <2> DEFINE left(r) == IF r # None /\ r.client = c THEN [r EXCEPT !.live = FALSE] ELSE r
    <2>2. \A r \in Requests : left(r) \in Requests /\ left(r) # None
                              /\ left(r).team = r.team /\ left(r).seen = r.seen
        BY LeftType, SentinelsAssumption
    <2>3. left(None) = None
        OBVIOUS
    <2>4. /\ network' = {left(r) : r \in network} /\ page' = page
          /\ waiting' = [waiting EXCEPT ![c] = FALSE]
          /\ UNCHANGED <<elementVars, withdrawn, outdated, clock>>
        BY <2>1 DEF GiveUp
    <2>5. task' = [w \in Tasks |-> IF task[w] = None THEN None
                                   ELSE [task[w] EXCEPT !.request = left(task[w].request)]]
        BY <2>1 DEF GiveUp
    <2> HIDE DEF left
    <2>6. Types
        BY <1>1, <2>2, <2>4
    <2>7. ASSUME NEW w \in Tasks
          PROVE  SameWork(w) /\ task'[w] \in Transactions \cup {None}
        <3>1. CASE task[w] = None
            BY <2>5, <3>1 DEF SameWork
        <3>2. CASE task[w] # None
            <4>1. task[w] \in Transactions /\ task[w].request \in Requests \cup {None}
                BY <1>1, <3>2 DEF Transactions
            <4>2. left(task[w].request) \in Requests \cup {None}
                BY <2>2, <2>3, <4>1
            <4>3. task'[w] = [task[w] EXCEPT !.request = left(task[w].request)]
                BY <2>5, <3>2
            <4>4. task'[w] \in Transactions
                BY <4>1, <4>2, <4>3 DEF Transactions
            <4>5. task'[w] # None
                BY <4>4, SentinelsAssumption
            <4>6. /\ task'[w].phase = task[w].phase /\ task'[w].fresh = task[w].fresh
                  /\ task'[w].answer = task[w].answer
                  /\ task'[w].rows = task[w].rows /\ task'[w].written = task[w].written
                  /\ task'[w].config = task[w].config /\ task'[w].misc = task[w].misc
                  /\ task'[w].scores = task[w].scores
                  /\ task'[w].request = left(task[w].request)
                BY <4>1, <4>3 DEF Transactions
            <4> QED BY <2>2, <2>3, <3>2, <4>1, <4>4, <4>5, <4>6 DEF SameWork
        <3> QED BY <3>1, <3>2
    <2>8. TypesOfTransactions'
        BY <2>5, <2>7 DEF TypesOfTransactions
    <2> QED BY <2>4, <2>6, <2>7, <2>8 DEF Idles
<1>6. CASE \E r \in network : Refuse(r) \/ Lose(r)
    <2>1. PICK r \in network : Refuse(r) \/ Lose(r)
        BY <1>6
    <2>2. r \in Requests /\ r.client \in Clients
        BY <1>1 DEF Requests
    <2>3. /\ network' = network \ {r} /\ page' = page /\ task' = task
          /\ UNCHANGED <<elementVars, withdrawn, outdated, clock>>
          /\ waiting' = waiting \/ waiting' = [waiting EXCEPT ![r.client] = FALSE]
        BY <2>1 DEF Refuse, Lose, Answered, clientVars
    <2>4. Types
        BY <1>1, <2>2, <2>3
    <2> QED BY <1>2, <2>3, <2>4 DEF Idles
<1> QED BY <1>3, <1>4, <1>5, <1>6 DEF ClientStep

\* The end of a transaction.
LEMMA EndType ==
    ASSUME TypeOK, NEW w \in Tasks, Abort(w) \/ Commit(w)
    PROVE  TypeOK'
<1>1. task[w] \in Transactions /\ Sees(w) \in Tables
    BY SeesType DEF Abort, Commit
<1>2. /\ task[w].request \in Requests \cup {None} /\ task[w].answer \in Rows \cup {None}
      /\ task[w].config \in Configs /\ task[w].misc \in SUBSET Teams
      /\ task[w].scores \in Scorings /\ task[w].fresh \in BOOLEAN
    BY <1>1 DEF Transactions
<1>3. task[w].request # None => task[w].request.client \in Clients /\ task[w].request.team \in Teams
    BY <1>2 DEF Requests
<1>4. /\ task' = [task EXCEPT ![w] = None] /\ UNCHANGED <<network, withdrawn, clock>>
      /\ Answered(task[w].request)
    BY DEF Abort, Commit, elementVars
<1>5. TypesOfTransactions'
    BY <1>4 DEF TypeOK, TypesOfTransactions
<1>6. waiting' \in [Clients -> BOOLEAN]
    BY <1>3, <1>4 DEF Answered, TypeOK
<1>7. CASE Abort(w)
    BY <1>4, <1>5, <1>6, <1>7 DEF Abort, elementVars, TypeOK, TypesOfTransactions
<1>8. CASE Commit(w)
    <2>1. /\ rows' = Sees(w) /\ config' = task[w].config /\ misc' = task[w].misc
          /\ scores' = task[w].scores /\ outdated' = ~task[w].fresh
          /\ page' = IF task[w].request # None /\ task[w].request.live
                     THEN [page EXCEPT ![task[w].request.client][task[w].request.team] = task[w].answer]
                     ELSE page
        BY <1>8 DEF Commit
    <2>2. page' \in [Clients -> Tables]
        BY <1>2, <1>3, <2>1 DEF TypeOK, Tables
    <2>3. outdated' \in BOOLEAN
        BY <2>1
    <2> QED BY <1>1, <1>2, <1>4, <1>5, <1>6, <2>1, <2>2, <2>3 DEF TypeOK, TypesOfTransactions
<1> QED BY <1>7, <1>8

\* A team's status concerns no transaction but by making its scores stale.
SameButStale(w) ==
    /\ task'[w] = None <=> task[w] = None
    /\ task[w] # None =>
          /\ ~task'[w].fresh
          /\ task'[w].phase = task[w].phase /\ task'[w].answer = task[w].answer
          /\ task'[w].rows = task[w].rows /\ task'[w].written = task[w].written
          /\ task'[w].config = task[w].config /\ task'[w].misc = task[w].misc
          /\ task'[w].request = task[w].request

LEMMA StatusType ==
    ASSUME TypeOK, NEW t \in Teams, ChangeTeamStatus(t)
    PROVE  TypeOK' /\ \A w \in Tasks : SameButStale(w)
<1>1. task' = [w \in Tasks |-> IF task[w] = None THEN None ELSE [task[w] EXCEPT !.fresh = FALSE]]
    BY DEF ChangeTeamStatus
<1>2. ASSUME NEW w \in Tasks
      PROVE  SameButStale(w) /\ task'[w] \in Transactions \cup {None}
    <2>1. CASE task[w] = None
        BY <1>1, <2>1 DEF SameButStale
    <2>2. CASE task[w] # None
        <3>1. task[w] \in Transactions /\ task'[w] = [task[w] EXCEPT !.fresh = FALSE]
            BY <1>1, <2>2 DEF TypeOK
        <3>2. task'[w] \in Transactions
            BY <3>1 DEF Transactions
        <3>3. task'[w] # None
            BY <3>2, SentinelsAssumption
        <3> QED BY <2>2, <3>1, <3>2, <3>3 DEF SameButStale, Transactions
    <2> QED BY <2>1, <2>2
<1>3. TypesOfTransactions'
    BY <1>1, <1>2 DEF TypesOfTransactions
<1>4. /\ UNCHANGED <<elementVars, network, clientVars>> /\ outdated' = TRUE /\ clock' = clock + 1
      /\ withdrawn' = IF t \in withdrawn THEN withdrawn \ {t} ELSE withdrawn \cup {t}
    BY DEF ChangeTeamStatus
<1> QED BY <1>2, <1>3, <1>4 DEF TypeOK, TypesOfTransactions, elementVars, clientVars

LEMMA TypeStep ==
    ASSUME PointsAreNumbers, TypeOK, [Next]_vars
    PROVE  TypeOK'
<1>1. ASSUME NEW w \in Tasks, Begins(w), UNCHANGED <<page, waiting>>, network' \in SUBSET network
      PROVE  TypeOK'
    <2>1. /\ TypesOfTransactions' /\ clock' \in Nat
          /\ UNCHANGED <<elementVars, withdrawn, outdated>>
        BY <1>1, BeginType
    <2> QED BY <1>1, <2>1 DEF TypeOK, TypesOfTransactions, elementVars
<1>2. ASSUME NEW w \in Tasks, Compute(w)
      PROVE  TypeOK'
    <2>1. UNCHANGED <<elementVars, withdrawn, outdated, network, clientVars>>
        BY <1>2 DEF Compute
    <2> QED BY <1>2, <2>1, ComputeType DEF TypeOK, TypesOfTransactions, elementVars, clientVars
<1>3. CASE ClientStep
    BY <1>3, ClientWork DEF Idles, TypeOK, TypesOfTransactions, elementVars
<1>4. CASE UNCHANGED vars
    BY <1>4 DEF vars, elementVars, clientVars, TypeOK
<1>5. CASE \E w \in Tasks : TaskStep(w)
    <2>1. PICK w \in Tasks : TaskStep(w)
        BY <1>5
    <2>2. CASE Compute(w) \/ Commit(w) \/ Abort(w)
        BY <1>2, <2>2, EndType
    <2>3. CASE ~(Compute(w) \/ Commit(w) \/ Abort(w))
        <3>1. Begins(w) /\ UNCHANGED <<page, waiting>> /\ network' \in SUBSET network
            BY <2>1, <2>3, Beginners DEF TaskStep
        <3> QED BY <1>1, <3>1
    <2> QED BY <2>2, <2>3
<1>6. CASE \E t \in Teams : ChangeTeamStatus(t)
    BY <1>6, StatusType
<1> QED BY <1>3, <1>4, <1>5, <1>6 DEF Next

\* Every reachable state is well typed, whatever the calculators compute from
\* rows, as long as it is a number.
THEOREM TypeCorrect ==
    ASSUME PointsAreNumbers
    PROVE  Spec => []TypeOK
<1>1. Init => TypeOK
    <2>1. SUFFICES ASSUME Init PROVE TypeOK
        OBVIOUS
    <2>2. rows \in Tables /\ scores \in Scorings
        BY <2>1 DEF Init, Tables, Scorings
    <2>3. page \in [Clients -> Tables] /\ waiting \in [Clients -> BOOLEAN]
        BY <2>1, <2>2 DEF Init
    <2>4. task \in [Tasks -> Transactions \cup {None}]
        BY <2>1 DEF Init
    <2> QED BY <2>1, <2>2, <2>3, <2>4 DEF Init, TypeOK
<1>2. TypeOK /\ [Next]_vars => TypeOK'
    BY TypeStep
<1> QED BY <1>1, <1>2, PTL DEF Spec
-----------------------------------------------------------------------------
(* What transactions begin with.                                            *)

\* A save or a deletion: the rows that it sees are the stored ones but its own.
BeginsSave(w) ==
    \E r \in network :
        /\ task'[w].request = r /\ r \in Requests
        /\ task'[w].config = config /\ task'[w].answer = Sees(w)'[r.team]
        /\ \A t \in Teams : Sees(w)'[t] = rows[t]
              \/ /\ t = r.team /\ Sees(w)'[t] = None
                 /\ Version(r.seen) = Version(rows[t])
              \/ /\ t = r.team /\ Sees(w)'[t] = RowOf(config, r.form, By[r.client])
                 /\ ~Unresolved(config, r.form.values, r.form.mode, r.form.label)
                 /\ ~IsDeletion(r.form) /\ ~SameRow(rows[t], Sees(w)'[t])
                 /\ Version(r.seen) = Version(rows[t])

\* Any other change.
BeginsChange(w) ==
    /\ task'[w].request = None /\ task'[w].answer = None
    /\ task'[w].config \in Configs
    /\ \A t \in Teams :
          \/ Sees(w)'[t] = None
          \/ Sees(w)'[t] = rows[t] /\ task'[w].config = config
          \/ Sees(w)'[t] = Repriced(task'[w].config)[t]

LEMMA BeginSees ==
    ASSUME TypeOK, NEW w \in Tasks, NEW request, NEW answer, NEW table \in Tables,
           NEW written, NEW cfg, NEW extra,
           Begin(w, request, answer, table, written, cfg, extra)
    PROVE  /\ task'[w].request = request /\ task'[w].answer = answer /\ task'[w].config = cfg
           /\ Sees(w)' = [t \in Teams |-> IF t \in written THEN table[t] ELSE rows[t]]
           /\ rows' = rows
<1>1. /\ task'[w].request = request /\ task'[w].answer = answer /\ task'[w].config = cfg
      /\ task'[w].written = written /\ task'[w].rows = table /\ rows' = rows
    BY DEF Begin, TypeOK, elementVars
<1> QED BY <1>1 DEF Sees

LEMMA Begun ==
    ASSUME TypeOK, NEW w \in Tasks,
           \/ \E r \in network : Post(w, r)
           \/ DeleteAll(w)
           \/ \E cfg \in Configs : Reconfigure(w, cfg)
           \/ \E t \in Teams : ChangeMisc(w, t)
           \/ Recalculate(w)
    PROVE  BeginsSave(w) \/ BeginsChange(w)
<1>1. /\ rows \in Tables /\ config \in Configs
      /\ network \in SUBSET Requests /\ [t \in Teams |-> None] \in Tables
    BY DEF TypeOK, Tables
<1>2. CASE \E r \in network : Post(w, r)
    <2>1. PICK r \in network : Post(w, r)
        BY <1>2
    <2>2. r \in Requests /\ r.team \in Teams /\ r.form \in Forms /\ r.client \in Clients
        BY <1>1 DEF Requests
    <2> DEFINE save == RowOf(config, r.form, By[r.client])
               written == IF Verdict(r) = "same" THEN {} ELSE {r.team}
               new == IF Verdict(r) = "write" THEN save ELSE None
               table == [rows EXCEPT ![r.team] = new]
    <2>3. save \in Rows
        BY <2>2, RowOfType
    <2>4. table \in Tables
        BY <1>1, <2>2, <2>3 DEF Tables
    <2>5. /\ Begin(w, r, AnswerTo(r), table, written, config, misc)
          /\ Verdict(r) \in {"same", "write", "delete"}
        BY <2>1 DEF Post
    <2>6. table[r.team] = new /\ \A t \in Teams \ {r.team} : table[t] = rows[t]
        BY <1>1, <2>2 DEF Tables
    <2> HIDE DEF table, save, written
    <2>7. /\ task'[w].request = r /\ task'[w].answer = AnswerTo(r) /\ task'[w].config = config
          /\ Sees(w)' = [t \in Teams |-> IF t \in written THEN table[t] ELSE rows[t]]
        BY <2>4, <2>5, BeginSees
    <2>8. \A t \in Teams \ {r.team} : Sees(w)'[t] = rows[t]
        BY <2>7 DEF written
    <2>9. CASE Verdict(r) = "same"
        <3>1. AnswerTo(r) = rows[r.team] /\ \A t \in Teams : Sees(w)'[t] = rows[t]
            BY <2>7, <2>9 DEF AnswerTo, written
        <3> QED BY <2>2, <2>7, <3>1 DEF BeginsSave
    <2>10. CASE Verdict(r) = "write"
        <3>1. AnswerTo(r) = save /\ Sees(w)'[r.team] = save
            BY <2>2, <2>6, <2>7, <2>10 DEF AnswerTo, save, written
        <3>2. /\ ~Unresolved(config, r.form.values, r.form.mode, r.form.label)
              /\ ~IsDeletion(r.form) /\ ~SameRow(rows[r.team], save)
              /\ Version(r.seen) = Version(rows[r.team])
            BY <2>10 DEF Verdict, save
        <3>3. /\ task'[w].request = r /\ r \in Requests /\ task'[w].config = config
              /\ task'[w].answer = Sees(w)'[r.team]
            BY <2>2, <2>7, <3>1
        <3>4. ASSUME NEW t \in Teams, t # r.team PROVE Sees(w)'[t] = rows[t]
            BY <2>8, <3>4
        <3>5. /\ Sees(w)'[r.team] = RowOf(config, r.form, By[r.client])
              /\ ~Unresolved(config, r.form.values, r.form.mode, r.form.label)
              /\ ~IsDeletion(r.form) /\ ~SameRow(rows[r.team], Sees(w)'[r.team])
              /\ Version(r.seen) = Version(rows[r.team])
            BY <3>1, <3>2 DEF save
        <3> QED BY <3>3, <3>4, <3>5, Zenon DEF BeginsSave
    <2>11. CASE Verdict(r) = "delete"
        <3>1. AnswerTo(r) = None /\ Sees(w)'[r.team] = None
            BY <2>2, <2>6, <2>7, <2>11 DEF AnswerTo, written
        <3>2. rows[r.team] = None \/ Version(r.seen) = Version(rows[r.team])
            BY <2>11 DEF Verdict
        <3> QED BY <2>2, <2>7, <2>8, <3>1, <3>2 DEF BeginsSave
    <2> QED BY <2>5, <2>9, <2>10, <2>11
<1>3. CASE DeleteAll(w)
    <2>1. Begin(w, None, None, [t \in Teams |-> None], Teams, config, misc)
        BY <1>3 DEF DeleteAll, Change
    <2>2. /\ task'[w].request = None /\ task'[w].answer = None /\ task'[w].config = config
          /\ \A t \in Teams : Sees(w)'[t] = None
        BY <1>1, <2>1, BeginSees
    <2> QED BY <1>1, <2>2 DEF BeginsChange
<1>4. CASE \E cfg \in Configs : Reconfigure(w, cfg)
    <2>1. PICK cfg \in Configs : Reconfigure(w, cfg)
        BY <1>4
    <2> DEFINE written == {t \in Teams : Repriced(cfg)[t] # rows[t]}
    <2>2. Begin(w, None, None, Repriced(cfg), written, cfg, misc)
        BY <2>1 DEF Reconfigure, Change
    <2>3. Repriced(cfg) \in Tables
        BY RepricedType
    <2>4. /\ task'[w].request = None /\ task'[w].answer = None /\ task'[w].config = cfg
          /\ Sees(w)' = [t \in Teams |-> IF t \in written THEN Repriced(cfg)[t] ELSE rows[t]]
        BY <2>2, <2>3, BeginSees
    <2>5. \A t \in Teams : Sees(w)'[t] = Repriced(cfg)[t]
        BY <2>4
    <2> QED BY <2>4, <2>5 DEF BeginsChange
<1>5. CASE (\E t \in Teams : ChangeMisc(w, t)) \/ Recalculate(w)
    <2>1. PICK extra : Begin(w, None, None, rows, {}, config, extra)
        BY <1>5 DEF ChangeMisc, Recalculate, Change
    <2>2. /\ task'[w].request = None /\ task'[w].answer = None /\ task'[w].config = config
          /\ Sees(w)' = [t \in Teams |-> IF t \in {} THEN rows[t] ELSE rows[t]]
        BY <1>1, <2>1, BeginSees
    <2>3. \A t \in Teams : Sees(w)'[t] = rows[t]
        BY <2>2
    <2> QED BY <1>1, <2>2, <2>3 DEF BeginsChange
<1> QED BY <1>2, <1>3, <1>4, <1>5
Starts(w) ==
    /\ Begins(w) /\ (BeginsSave(w) \/ BeginsChange(w))
    /\ page' = page /\ network' \in SUBSET network

\* What a step is.
LEMMA Kinds ==
    ASSUME TypeOK, [Next]_vars
    PROVE  \/ \E w \in Tasks : Starts(w) \/ Compute(w) \/ Commit(w) \/ Abort(w)
           \/ \E t \in Teams : ChangeTeamStatus(t)
           \/ Idles /\ (ClientStep \/ UNCHANGED vars)
<1>1. CASE ClientStep
    BY <1>1, ClientWork
<1>2. CASE UNCHANGED vars
    BY <1>2 DEF vars, Idles, SameWork
<1>3. ASSUME NEW w \in Tasks, TaskStep(w)
      PROVE  Starts(w) \/ Compute(w) \/ Commit(w) \/ Abort(w)
    <2>1. CASE Compute(w) \/ Commit(w) \/ Abort(w)
        BY <2>1
    <2>2. CASE ~(Compute(w) \/ Commit(w) \/ Abort(w))
        BY <1>3, <2>2, Beginners, Begun DEF TaskStep, Starts
    <2> QED BY <2>1, <2>2
<1> QED BY <1>1, <1>2, <1>3 DEF Next

-----------------------------------------------------------------------------
(* What the steps of a transaction do.                                      *)

LEMMA BeginFacts ==
    ASSUME TypeOK, NEW w \in Tasks, Begins(w)
    PROVE  /\ \A v \in Tasks : task[v] = None
           /\ \A v \in Tasks \ {w} : task'[v] = None
           /\ task'[w].phase = "written"
           /\ UNCHANGED <<elementVars, withdrawn, outdated>> /\ clock' = clock + 1
BY DEF Begins, Begin, LockFree, TypeOK

SettledRows(w) == [t \in Teams |-> Resettled(task[w].config, Sees(w)[t])]

LEMMA ComputeFacts ==
    ASSUME TypeOK, NEW w \in Tasks, Compute(w)
    PROVE  /\ task[w] # None /\ task[w].phase = "written"
           /\ \A t \in Teams : ~Unsettled(task[w].config, Sees(w)[t])
           /\ \A v \in Tasks \ {w} : task'[v] = task[v]
           /\ task'[w].config = task[w].config /\ task'[w].misc = task[w].misc
           /\ task'[w].request = task[w].request /\ task'[w].answer = task[w].answer
           /\ task'[w].scores =
                 ComputedScores(task[w].config, SettledRows(w), task[w].misc, withdrawn)
           /\ Sees(w)' = SettledRows(w)
           /\ UNCHANGED <<elementVars, withdrawn, outdated, network, clientVars>>
           /\ clock' = IF SettledRows(w) = Sees(w) THEN clock ELSE clock + 1
<1> DEFINE more == task[w].written \cup {t \in Teams : SettledRows(w)[t] # Sees(w)[t]}
           new == ComputedScores(task[w].config, SettledRows(w), task[w].misc, withdrawn)
<1>1. /\ task[w] # None /\ task[w].phase = "written"
      /\ \A t \in Teams : ~Unsettled(task[w].config, Sees(w)[t])
      /\ task' = [task EXCEPT ![w] =
            [task[w] EXCEPT !.phase = "computed", !.rows = SettledRows(w), !.scores = new,
                            !.written = more, !.fresh = TRUE]]
      /\ clock' = IF SettledRows(w) = Sees(w) THEN clock ELSE clock + 1
      /\ UNCHANGED <<elementVars, withdrawn, outdated, network, clientVars>>
    BY DEF Compute, SettledRows
<1>2. task[w] \in Transactions
    BY <1>1, SeesType
<1> HIDE DEF new
<1>3. task'[w] = [task[w] EXCEPT !.phase = "computed", !.rows = SettledRows(w), !.scores = new,
                                 !.written = more, !.fresh = TRUE]
    BY <1>1 DEF TypeOK
<1>4. /\ task'[w].config = task[w].config /\ task'[w].misc = task[w].misc
      /\ task'[w].request = task[w].request /\ task'[w].answer = task[w].answer
      /\ task'[w].scores = new
      /\ task'[w].written = more /\ task'[w].rows = SettledRows(w)
    BY <1>2, <1>3 DEF Transactions
<1>5. Sees(w)' = SettledRows(w)
    <2>1. Sees(w)' = [t \in Teams |-> IF t \in more THEN SettledRows(w)[t] ELSE rows[t]]
        <3> HIDE DEF more
        <3>1. rows' = rows /\ task'[w].written = more /\ task'[w].rows = SettledRows(w)
            BY <1>1, <1>4 DEF elementVars
        <3> QED BY <3>1 DEF Sees
    <2>2. ASSUME NEW t \in Teams, t \notin more
          PROVE  rows[t] = SettledRows(w)[t]
        BY <2>2 DEF Sees
    <2>3. SettledRows(w) = [t \in Teams |-> SettledRows(w)[t]]
        BY DEF SettledRows
    <2> HIDE DEF more
    <2> QED BY <2>1, <2>2, <2>3
<1>6. \A v \in Tasks \ {w} : task'[v] = task[v]
    BY <1>1 DEF TypeOK
<1> QED BY <1>1, <1>4, <1>5, <1>6 DEF new

LEMMA CommitFacts ==
    ASSUME TypeOK, OneTransaction, NEW w \in Tasks, Commit(w)
    PROVE  /\ task[w] # None /\ task[w].phase = "computed"
           /\ \A v \in Tasks : task'[v] = None
           /\ rows' = Sees(w) /\ config' = task[w].config /\ misc' = task[w].misc
           /\ scores' = task[w].scores /\ outdated' = ~task[w].fresh
           /\ UNCHANGED <<withdrawn, clock, network>>
BY DEF Commit, TypeOK, OneTransaction

LEMMA AbortFacts ==
    ASSUME TypeOK, OneTransaction, NEW w \in Tasks, Abort(w)
    PROVE  /\ \A v \in Tasks : task'[v] = None
           /\ UNCHANGED <<elementVars, withdrawn, outdated, clock, network, page>>
BY DEF Abort, TypeOK, OneTransaction

LEMMA IdleSees ==
    ASSUME Idles, NEW w \in Tasks
    PROVE  task[w] # None => Sees(w)' = Sees(w)
BY DEF Idles, SameWork, Sees, elementVars

LEMMA StatusSees ==
    ASSUME TypeOK, NEW u \in Teams, ChangeTeamStatus(u), NEW w \in Tasks
    PROVE  task[w] # None => Sees(w)' = Sees(w)
<1>1. SameButStale(w) /\ UNCHANGED elementVars
    BY StatusType DEF ChangeTeamStatus
<1> QED BY <1>1 DEF SameButStale, Sees, elementVars

-----------------------------------------------------------------------------
(* One transaction at a time, and scores of what it has read.               *)

LEMMA OneStep ==
    ASSUME TypeOK, OneTransaction, [Next]_vars
    PROVE  OneTransaction'
<1>1. ASSUME NEW w \in Tasks, Begins(w)
      PROVE  OneTransaction'
    BY <1>1, BeginFacts DEF OneTransaction
<1>2. ASSUME NEW w \in Tasks, Compute(w)
      PROVE  OneTransaction'
    BY <1>2, ComputeFacts DEF OneTransaction
<1>3. ASSUME NEW w \in Tasks, Commit(w) \/ Abort(w)
      PROVE  OneTransaction'
    BY <1>3, CommitFacts, AbortFacts DEF OneTransaction
<1>4. ASSUME NEW t \in Teams, ChangeTeamStatus(t)
      PROVE  OneTransaction'
    BY <1>4, StatusType DEF OneTransaction, SameButStale
<1>5. CASE Idles
    BY <1>5 DEF OneTransaction, Idles, SameWork
<1> QED BY <1>1, <1>2, <1>3, <1>4, <1>5, Kinds DEF Starts

LEMMA ScoresStep ==
    ASSUME TypeOK, OneTransaction, FreshScores, ScoresFollowInputs, [Next]_vars
    PROVE  FreshScores' /\ ScoresFollowInputs'
<1>1. ASSUME NEW w \in Tasks, Begins(w)
      PROVE  FreshScores' /\ ScoresFollowInputs'
    <2>1. \A v \in Tasks : task'[v] # None => task'[v].phase # "computed"
        BY <1>1, BeginFacts
    <2>2. UNCHANGED <<elementVars, withdrawn, outdated>>
        BY <1>1, BeginFacts
    <2> QED BY <2>1, <2>2 DEF FreshScores, Computed, ScoresFollowInputs, elementVars
<1>2. ASSUME NEW w \in Tasks, Compute(w)
      PROVE  FreshScores' /\ ScoresFollowInputs'
    <2>1. ASSUME NEW v \in Tasks, task'[v] # None
          PROVE  task'[v].scores = ComputedScores(task'[v].config, Sees(v)', task'[v].misc, withdrawn')
        <3>1. v = w
            BY <1>2, <2>1, ComputeFacts DEF OneTransaction
        <3> QED BY <1>2, <3>1, ComputeFacts
    <2>2. UNCHANGED <<elementVars, withdrawn, outdated>>
        BY <1>2, ComputeFacts
    <2> QED BY <2>1, <2>2 DEF FreshScores, Computed, ScoresFollowInputs, elementVars
<1>3. ASSUME NEW w \in Tasks, Commit(w)
      PROVE  FreshScores' /\ ScoresFollowInputs'
    <2>1. FreshScores'
        BY <1>3, CommitFacts DEF FreshScores, Computed
    <2>2. task[w].fresh =>
             task[w].scores = ComputedScores(task[w].config, Sees(w), task[w].misc, withdrawn)
        BY <1>3, CommitFacts DEF FreshScores, Computed
    <2>3. /\ rows' = Sees(w) /\ config' = task[w].config /\ misc' = task[w].misc
          /\ scores' = task[w].scores /\ outdated' = ~task[w].fresh /\ withdrawn' = withdrawn
        BY <1>3, CommitFacts
    <2> QED BY <2>1, <2>2, <2>3 DEF ScoresFollowInputs
<1>4. ASSUME NEW w \in Tasks, Abort(w)
      PROVE  FreshScores' /\ ScoresFollowInputs'
    BY <1>4, AbortFacts DEF FreshScores, Computed, ScoresFollowInputs, elementVars
<1>5. ASSUME NEW t \in Teams, ChangeTeamStatus(t)
      PROVE  FreshScores' /\ ScoresFollowInputs'
    <2>1. outdated' = TRUE /\ \A w \in Tasks : task'[w] # None => ~task'[w].fresh
        BY <1>5, StatusType DEF ChangeTeamStatus, SameButStale
    <2> QED BY <2>1 DEF FreshScores, Computed, ScoresFollowInputs
<1>6. CASE Idles
    <2>1. UNCHANGED <<elementVars, withdrawn, outdated>>
        BY <1>6 DEF Idles
    <2>2. ScoresFollowInputs'
        BY <2>1 DEF ScoresFollowInputs, elementVars
    <2>3. FreshScores'
        BY <1>6, <2>1, IdleSees DEF FreshScores, Computed, Idles, SameWork
    <2> QED BY <2>2, <2>3
<1> QED BY <1>1, <1>2, <1>3, <1>4, <1>5, <1>6, Kinds DEF Starts

\* Unless a team's status has changed since, the scores that anybody can read are
\* those of the rows, the configuration and the additional points that can be
\* read, for any number of transactions and any calculator.
THEOREM ScoresHold ==
    ASSUME PointsAreNumbers
    PROVE  Spec => []ScoresFollowInputs
<1>1. Init => OneTransaction /\ FreshScores /\ ScoresFollowInputs
    BY DEF Init, OneTransaction, FreshScores, Computed, ScoresFollowInputs, ComputedScores, Present
<1>2. TypeOK /\ OneTransaction /\ FreshScores /\ ScoresFollowInputs /\ [Next]_vars
          => (OneTransaction /\ FreshScores /\ ScoresFollowInputs)'
    BY OneStep, ScoresStep
<1> QED BY <1>1, <1>2, TypeCorrect, PTL DEF Spec
-----------------------------------------------------------------------------
(* Rows and the rule.  A row that the recomputation would leave as it is:   *)

SettledRow(cfg, row) ==
    row # None =>
        /\ row.label # "OTHER" =>
              /\ row.label = Outcome(cfg, row.values, row.mode, None)
              /\ row.penalty = Penalty(cfg, row.label)
              /\ row.label # None => cfg.penalty[row.label] # None
        /\ row.label = "OTHER" => Skipped(cfg, row) /\ row.penalty = Priced(cfg, row)

\* Whatever was written, an exception that is no failure has the present penalty.
PricedRow(cfg, row) ==
    row # None /\ row.label = "OTHER" => row.penalty = Priced(cfg, row)

StoredAreSettled == \A t \in Teams : SettledRow(config, rows[t])

\* A transaction settles every row before it is committed, and a save has none
\* to settle.
TransactionsSettle ==
    \A w \in Tasks : task[w] # None =>
        /\ \A t \in Teams : PricedRow(task[w].config, Sees(w)[t])
        /\ task[w].phase = "computed" \/ task[w].request # None =>
              \A t \in Teams : SettledRow(task[w].config, Sees(w)[t])

LEMMA ResettledIsSettled ==
    ASSUME TypeOK, NEW cfg \in Configs, NEW row \in Rows \cup {None},
           PricedRow(cfg, row), ~Unsettled(cfg, row)
    PROVE  SettledRow(cfg, Resettled(cfg, row))
<1> DEFINE label == Outcome(cfg, row.values, row.mode, None)
           new == Resettled(cfg, row)
<1>1. CASE row = None
    BY <1>1 DEF Resettled, SettledRow
<1>2. CASE row # None /\ Skipped(cfg, row)
    BY <1>2 DEF Resettled, SettledRow, PricedRow, Skipped
<1>3. CASE row # None /\ ~Skipped(cfg, row)
    <2>1. row \in Rows /\ label \in {"FAILED", None} /\ label # "OTHER"
        BY <1>3, OutcomeType, SentinelsAssumption DEF Labels
    <2>2. /\ new.label = label /\ new.penalty = Penalty(cfg, label)
          /\ new.values = row.values /\ new.mode = row.mode
        <3> DEFINE penalty == Penalty(cfg, label)
        <3>1. CASE row.label = label /\ row.penalty = penalty
            BY <1>3, <3>1 DEF Resettled
        <3>2. CASE ~(row.label = label /\ row.penalty = penalty)
            <4>1. new = [row EXCEPT !.label = label, !.penalty = penalty, !.at = clock + 1]
                BY <1>3, <3>2 DEF Resettled
            <4> HIDE DEF label, penalty, new
            <4>2. /\ new.label = label /\ new.penalty = penalty
                  /\ new.values = row.values /\ new.mode = row.mode
                BY <2>1, <4>1 DEF Rows
            <4> QED BY <4>2 DEF penalty
        <3> QED BY <3>1, <3>2
    <2>3. label # None => cfg.penalty[label] # None
        BY <1>3 DEF Unsettled, Unresolved
    <2> HIDE DEF new
    <2> QED BY <2>1, <2>2, <2>3 DEF SettledRow, new
<1> QED BY <1>1, <1>2, <1>3

LEMMA SettledIsLeftAlone ==
    ASSUME NEW cfg, NEW row, SettledRow(cfg, row)
    PROVE  Resettled(cfg, row) = row
BY DEF SettledRow, Resettled

LEMMA SettledIsPriced ==
    ASSUME NEW cfg, NEW row, SettledRow(cfg, row)
    PROVE  PricedRow(cfg, row)
BY DEF SettledRow, PricedRow

\* The row of a form that is not rejected is settled.
LEMMA RowOfSettled ==
    ASSUME TypeOK, NEW form \in Forms, NEW by,
           ~Unresolved(config, form.values, form.mode, form.label)
    PROVE  SettledRow(config, RowOf(config, form, by))
<1> DEFINE label == Outcome(config, form.values, form.mode, form.label)
           row == RowOf(config, form, by)
<1>1. /\ row.label = label /\ row.mode = form.mode /\ row.penalty = Penalty(config, label)
      /\ row.values = IF label = "OTHER" THEN Empty ELSE form.values
    BY DEF RowOf
<1>2. label # None => config.penalty[label] # None
    BY DEF Unresolved
<1>3. CASE form.label = "OTHER"
    <2>1. label = "OTHER"
        BY <1>3 DEF Outcome
    <2>2. label # None
        BY <2>1, SentinelsAssumption DEF Labels
    <2> HIDE DEF label, row
    <2> QED BY <1>1, <1>2, <2>1, <2>2 DEF SettledRow, Skipped, Priced, Penalty, row
<1>4. CASE form.label # "OTHER"
    <2>1. form.label = None
        BY <1>4 DEF Forms
    <2>2. label \in {"FAILED", None} /\ label # "OTHER"
        BY <1>4, OutcomeType, SentinelsAssumption DEF Labels, TypeOK
    <2>3. label = Outcome(config, form.values, form.mode, None)
        BY <2>1
    <2> HIDE DEF label, row
    <2> QED BY <1>1, <1>2, <2>2, <2>3 DEF SettledRow, row
<1> QED BY <1>3, <1>4

\* Changed penalties reach every row.
LEMMA RepricedIsPriced ==
    ASSUME TypeOK, NEW cfg \in Configs, NEW t \in Teams
    PROVE  PricedRow(cfg, Repriced(cfg)[t])
<1> DEFINE row == rows[t]
           new == [row EXCEPT !.penalty = Priced(cfg, row), !.at = clock + 1]
<1>1. Repriced(cfg)[t] = IF row # None /\ row.penalty # Priced(cfg, row) THEN new ELSE row
    BY DEF Repriced
<1>2. row # None => row \in Rows
    BY DEF TypeOK, Tables
<1>3. row # None => new.penalty = Priced(cfg, row) /\ new.label = row.label
    BY <1>2 DEF Rows
<1> HIDE DEF new, row
<1>4. row # None => Priced(cfg, new) = Priced(cfg, row)
    BY <1>3 DEF Priced
<1> QED BY <1>1, <1>3, <1>4 DEF PricedRow

-----------------------------------------------------------------------------
(* Every stored row follows the rule.                                       *)

LEMMA RulesStep ==
    ASSUME TypeOK, OneTransaction, StoredAreSettled, TransactionsSettle, [Next]_vars
    PROVE  StoredAreSettled' /\ TransactionsSettle'
<1>1. UNCHANGED elementVars => StoredAreSettled'
    BY DEF StoredAreSettled, elementVars
<1>2. ASSUME NEW w \in Tasks, Starts(w)
      PROVE  StoredAreSettled' /\ TransactionsSettle'
    <2>1. /\ \A v \in Tasks \ {w} : task'[v] = None
          /\ task'[w].phase = "written" /\ UNCHANGED elementVars
        BY <1>2, BeginFacts DEF Starts
    <2>2. CASE BeginsSave(w)
        <3>1. PICK r \in network :
                /\ task'[w].request = r /\ r \in Requests /\ task'[w].config = config
                /\ \A t \in Teams :
                      \/ Sees(w)'[t] = rows[t]
                      \/ Sees(w)'[t] = None
                      \/ /\ Sees(w)'[t] = RowOf(config, r.form, By[r.client])
                         /\ ~Unresolved(config, r.form.values, r.form.mode, r.form.label)
            BY <2>2 DEF BeginsSave
        <3>2. r.form \in Forms
            BY <3>1 DEF Requests
        <3>3. ASSUME NEW t \in Teams
              PROVE  SettledRow(task'[w].config, Sees(w)'[t]) /\ PricedRow(task'[w].config, Sees(w)'[t])
            <4>1. CASE Sees(w)'[t] = rows[t]
                BY <3>1, <4>1, SettledIsPriced DEF StoredAreSettled
            <4>2. CASE Sees(w)'[t] = None
                BY <4>2 DEF SettledRow, PricedRow
            <4>3. CASE /\ Sees(w)'[t] = RowOf(config, r.form, By[r.client])
                       /\ ~Unresolved(config, r.form.values, r.form.mode, r.form.label)
                BY <3>1, <3>2, <4>3, RowOfSettled, SettledIsPriced
            <4> QED BY <3>1, <4>1, <4>2, <4>3
        <3> QED BY <1>1, <2>1, <3>3 DEF TransactionsSettle
    <2>3. CASE BeginsChange(w)
        <3>1. ASSUME NEW t \in Teams
              PROVE  PricedRow(task'[w].config, Sees(w)'[t])
            <4>1. CASE Sees(w)'[t] = None
                BY <4>1 DEF PricedRow
            <4>2. CASE Sees(w)'[t] = rows[t] /\ task'[w].config = config
                BY <4>2, SettledIsPriced DEF StoredAreSettled
            <4>3. CASE Sees(w)'[t] = Repriced(task'[w].config)[t]
                BY <2>3, <4>3, RepricedIsPriced DEF BeginsChange
            <4> QED BY <2>3, <4>1, <4>2, <4>3 DEF BeginsChange
        <3>2. task'[w].request = None
            BY <2>3 DEF BeginsChange
        <3> QED BY <1>1, <2>1, <3>1, <3>2 DEF TransactionsSettle
    <2> QED BY <1>2, <2>2, <2>3 DEF Starts
<1>3. ASSUME NEW w \in Tasks, Compute(w)
      PROVE  StoredAreSettled' /\ TransactionsSettle'
    <2>1. \A v \in Tasks : task'[v] # None => v = w
        BY <1>3, ComputeFacts DEF OneTransaction
    <2>2. ASSUME NEW t \in Teams
          PROVE  SettledRow(task'[w].config, Sees(w)'[t]) /\ PricedRow(task'[w].config, Sees(w)'[t])
        <3>1. /\ task'[w].config = task[w].config /\ task[w].config \in Configs
              /\ Sees(w)[t] \in Rows \cup {None} /\ ~Unsettled(task[w].config, Sees(w)[t])
              /\ Sees(w)'[t] = Resettled(task[w].config, Sees(w)[t])
            <4>1. task[w] \in Transactions /\ Sees(w) \in Tables
                BY <1>3, ComputeFacts, SeesType
            <4>2. /\ task'[w].config = task[w].config /\ ~Unsettled(task[w].config, Sees(w)[t])
                  /\ Sees(w)' = SettledRows(w)
                BY <1>3, ComputeFacts
            <4>3. SettledRows(w)[t] = Resettled(task[w].config, Sees(w)[t])
                BY DEF SettledRows
            <4>4. task[w].config \in Configs /\ Sees(w)[t] \in Rows \cup {None}
                BY <4>1 DEF Tables, Transactions
            <4> QED BY <4>2, <4>3, <4>4
        <3>2. PricedRow(task[w].config, Sees(w)[t])
            BY <1>3, ComputeFacts DEF TransactionsSettle
        <3> QED BY <3>1, <3>2, ResettledIsSettled, SettledIsPriced
    <2>3. UNCHANGED elementVars
        BY <1>3, ComputeFacts
    <2> QED BY <1>1, <2>1, <2>2, <2>3 DEF TransactionsSettle
<1>4. ASSUME NEW w \in Tasks, Commit(w)
      PROVE  StoredAreSettled' /\ TransactionsSettle'
    BY <1>4, CommitFacts DEF StoredAreSettled, TransactionsSettle
<1>5. ASSUME NEW w \in Tasks, Abort(w)
      PROVE  StoredAreSettled' /\ TransactionsSettle'
    BY <1>1, <1>5, AbortFacts DEF TransactionsSettle
<1>6. ASSUME NEW t \in Teams, ChangeTeamStatus(t)
      PROVE  StoredAreSettled' /\ TransactionsSettle'
    <2>1. UNCHANGED elementVars /\ \A w \in Tasks : SameButStale(w)
        BY <1>6, StatusType DEF ChangeTeamStatus
    <2>2. \A w \in Tasks : task[w] # None => Sees(w)' = Sees(w)
        BY <1>6, StatusSees
    <2> QED BY <1>1, <2>1, <2>2 DEF TransactionsSettle, SameButStale
<1>7. CASE Idles
    BY <1>1, <1>7, IdleSees DEF TransactionsSettle, Idles, SameWork
<1> QED BY <1>2, <1>3, <1>4, <1>5, <1>6, <1>7, Kinds

\* Whatever order saves and changes of the configuration come in, a result is
\* failed exactly if its judge or the present rule says so, and carries the
\* present penalty of its exception.
THEOREM RulesHold ==
    ASSUME PointsAreNumbers
    PROVE  Spec => []RowsFollowRule
<1>1. Init => OneTransaction /\ StoredAreSettled /\ TransactionsSettle
    BY DEF Init, OneTransaction, StoredAreSettled, TransactionsSettle, SettledRow
<1>2. TypeOK /\ OneTransaction /\ StoredAreSettled /\ TransactionsSettle /\ [Next]_vars
          => (OneTransaction /\ StoredAreSettled /\ TransactionsSettle)'
    BY OneStep, RulesStep
<1>3. StoredAreSettled => RowsFollowRule
    BY DEF StoredAreSettled, SettledRow, RowsFollowRule, Priced, Penalty
<1> QED BY <1>1, <1>2, <1>3, TypeCorrect, PTL DEF Spec
-----------------------------------------------------------------------------
(* Versions.  The rows of a team that somebody holds: the database, a page, *)
(* a request that carries the version, a transaction or its answer.         *)

Known(t, x) ==
    \/ x = rows[t]
    \/ \E c \in Clients : x = page[c][t]
    \/ \E r \in network : r.team = t /\ x = r.seen
    \/ \E w \in Tasks :
          /\ task[w] # None
          /\ \/ x = Sees(w)[t]
             \/ task[w].request # None /\ task[w].request.team = t /\ x = task[w].answer

\* A version names one row.
VersionsIdentify ==
    \A t \in Teams : \A x, y \in Rows :
        Known(t, x) /\ Known(t, y) /\ x.at = y.at => x = y

VersionsAreOld == \A t \in Teams : \A x \in Rows : Known(t, x) => x.at \in 1..clock

\* The rows that a step makes known are new versions, one for each team.
LEMMA NewVersions ==
    ASSUME TypeOK, VersionsIdentify, VersionsAreOld, NEW N,
           clock' = clock \/ clock' = clock + 1,
           \A t \in Teams : \A x \in Rows : Known(t, x)' =>
              \/ Known(t, x)
              \/ x = N[t] /\ x.at = clock + 1 /\ clock' = clock + 1
    PROVE  VersionsIdentify' /\ VersionsAreOld'
<1>1. clock \in Nat
    BY DEF TypeOK
<1>2. \A x \in Rows : x.at \in Nat
    BY DEF Rows
<1>3. \A t \in Teams : \A x \in Rows : Known(t, x) => x.at \in 1..clock
    BY DEF VersionsAreOld
<1>4. \A t \in Teams : \A x \in Rows : Known(t, x)' => x.at \in 1..clock'
    BY <1>1, <1>2, <1>3
<1>5. ASSUME NEW t \in Teams, NEW x \in Rows, NEW y \in Rows,
             Known(t, x)', Known(t, y)', x.at = y.at
      PROVE  x = y
    <2>1. CASE Known(t, x) /\ Known(t, y)
        BY <1>5, <2>1 DEF VersionsIdentify
    <2>2. CASE ~Known(t, x) /\ ~Known(t, y)
        BY <1>5, <2>2
    <2>3. CASE Known(t, x) /\ ~Known(t, y)
        <3>1. x.at \in 1..clock /\ y.at = clock + 1
            BY <1>3, <1>5, <2>3
        <3> QED BY <1>1, <1>5, <3>1
    <2>4. CASE ~Known(t, x) /\ Known(t, y)
        <3>1. y.at \in 1..clock /\ x.at = clock + 1
            BY <1>3, <1>5, <2>4
        <3> QED BY <1>1, <1>5, <3>1
    <2> QED BY <2>1, <2>2, <2>3, <2>4
<1>6. VersionsAreOld'
    BY <1>4 DEF VersionsAreOld
<1>7. VersionsIdentify'
    BY <1>5 DEF VersionsIdentify
<1> QED BY <1>6, <1>7

\* Pages and requests make nothing known.
LEMMA ClientKnows ==
    ASSUME TypeOK, ClientStep, NEW t \in Teams, NEW x \in Rows, Known(t, x)'
    PROVE  Known(t, x)
<1>1. Idles
    BY ClientWork
<1>2. rows' = rows
    BY <1>1 DEF Idles, elementVars
<1>3. ASSUME NEW w \in Tasks, task'[w] # None,
             \/ x = Sees(w)'[t]
             \/ task'[w].request # None /\ task'[w].request.team = t /\ x = task'[w].answer
      PROVE  Known(t, x)
    <2>1. SameWork(w) /\ task[w] # None /\ Sees(w)' = Sees(w)
        BY <1>1, <1>3, IdleSees DEF Idles, SameWork
    <2> QED BY <1>3, <2>1 DEF Known, SameWork
<1>4. ASSUME NEW c \in Clients, x = page'[c][t]
      PROVE  Known(t, x)
    <2>1. page'[c] = page[c] \/ page'[c] = rows
        BY DEF ClientStep, Load, GiveUp, Submit, Refuse, Lose, TypeOK, clientVars
    <2> QED BY <1>4, <2>1 DEF Known
<1>5. ASSUME NEW r \in network', r.team = t, x = r.seen
      PROVE  Known(t, x)
    <2>1. CASE r \in network
        BY <1>5, <2>1 DEF Known
    <2>2. CASE \E c \in Clients, u \in Teams, form \in Offered : Submit(c, u, form)
        <3>1. PICK c \in Clients, u \in Teams, form \in Offered : Submit(c, u, form)
            BY <2>2
        <3> DEFINE q == [client |-> c, team |-> u, form |-> form, seen |-> page[c][u], live |-> TRUE]
        <3>2. network' = network \cup {q}
            BY <3>1 DEF Submit
        <3>3. q.team = u /\ q.seen = page[c][u]
            OBVIOUS
        <3> HIDE DEF q
        <3> QED BY <1>5, <2>1, <3>2, <3>3 DEF Known
    <2>3. CASE \E c \in Clients : GiveUp(c)
        <3>1. PICK c \in Clients : GiveUp(c)
            BY <2>3
        <3> DEFINE left(q) == IF q # None /\ q.client = c THEN [q EXCEPT !.live = FALSE] ELSE q
        <3>2. network' = {left(q) : q \in network}
            BY <3>1 DEF GiveUp
        <3>3. \A q \in Requests : left(q).team = q.team /\ left(q).seen = q.seen
            BY LeftType
        <3>4. network \in SUBSET Requests
            BY DEF TypeOK
        <3> HIDE DEF left
        <3>5. PICK q \in network : r = left(q)
            BY <3>2
        <3> QED BY <1>5, <3>3, <3>4, <3>5 DEF Known
    <2>4. CASE \E c \in Clients : Load(c)
        BY <2>1, <2>4 DEF Load
    <2>5. CASE \E q \in network : Refuse(q) \/ Lose(q)
        BY <2>1, <2>5 DEF Refuse, Lose
    <2> QED BY <2>2, <2>3, <2>4, <2>5 DEF ClientStep
<1> QED BY <1>2, <1>3, <1>4, <1>5 DEF Known
\* A transaction begins with rows that are known, or has made a new version.
LEMMA StartKnows ==
    ASSUME TypeOK, NEW w \in Tasks, Starts(w), NEW t \in Teams, NEW x \in Rows, Known(t, x)'
    PROVE  Known(t, x) \/ (x = Sees(w)'[t] /\ x.at = clock + 1)
<1>1. /\ \A v \in Tasks \ {w} : task'[v] = None
      /\ rows' = rows /\ page' = page /\ network' \in SUBSET network
    BY BeginFacts DEF Starts, elementVars
<1>2. ASSUME x = Sees(w)'[t]
      PROVE  x = rows[t] \/ x.at = clock + 1
    <2>1. x # None
        BY SentinelsAssumption
    <2>2. CASE BeginsSave(w)
        BY <1>2, <2>1, <2>2 DEF BeginsSave, RowOf
    <2>3. CASE BeginsChange(w) /\ x = Repriced(task'[w].config)[t]
        <3>1. rows[t] # None => rows[t] \in Rows
            BY DEF TypeOK, Tables
        <3> QED BY <2>1, <2>3, <3>1 DEF Repriced, Rows
    <2>4. CASE BeginsChange(w) /\ x # Repriced(task'[w].config)[t]
        BY <1>2, <2>1, <2>4 DEF BeginsChange
    <2> QED BY <2>2, <2>3, <2>4 DEF Starts
<1>3. ASSUME task'[w].request # None, task'[w].request.team = t, x = task'[w].answer
      PROVE  x = Sees(w)'[t]
    BY <1>3 DEF Starts, BeginsSave, BeginsChange
<1> QED BY <1>1, <1>2, <1>3 DEF Known

\* A recomputation gives new versions to the rows that it changes, and to no other.
LEMMA ComputeKnows ==
    ASSUME TypeOK, OneTransaction, NEW w \in Tasks, Compute(w),
           NEW t \in Teams, NEW x \in Rows, Known(t, x)'
    PROVE  \/ Known(t, x)
           \/ x = Sees(w)'[t] /\ x.at = clock + 1 /\ clock' = clock + 1
<1>1. /\ task[w] # None /\ \A v \in Tasks \ {w} : task'[v] = None
      /\ rows' = rows /\ page' = page /\ network' = network
      /\ task'[w].request = task[w].request /\ task'[w].answer = task[w].answer
      /\ Sees(w)' = SettledRows(w)
      /\ clock' = IF SettledRows(w) = Sees(w) THEN clock ELSE clock + 1
    BY ComputeFacts DEF OneTransaction, elementVars, clientVars
<1>2. ASSUME x = Sees(w)'[t], x # Sees(w)[t]
      PROVE  x.at = clock + 1 /\ clock' = clock + 1
    <2>1. x = Resettled(task[w].config, Sees(w)[t])
        BY <1>1, <1>2 DEF SettledRows
    <2>2. Sees(w)[t] \in Rows
        BY <1>1, <1>2, <2>1, SeesType DEF Tables, Resettled
    <2>3. x.at = clock + 1
        BY <1>2, <2>1, <2>2 DEF Resettled, Rows
    <2>4. SettledRows(w) # Sees(w)
        BY <1>1, <1>2
    <2> QED BY <1>1, <2>3, <2>4
<1> QED BY <1>1, <1>2 DEF Known

\* A commit shows what the transaction has seen, and its answer.
LEMMA EndKnows ==
    ASSUME TypeOK, OneTransaction, NEW w \in Tasks, Commit(w) \/ Abort(w),
           NEW t \in Teams, NEW x \in Rows, Known(t, x)'
    PROVE  Known(t, x)
<1>1. /\ task[w] # None /\ \A v \in Tasks : task'[v] = None
      /\ rows' = rows \/ rows' = Sees(w)
      /\ network' = network
    BY CommitFacts, AbortFacts DEF elementVars, Abort
<1>2. \/ page' = page
      \/ /\ task[w].request # None
         /\ page' = [page EXCEPT ![task[w].request.client][task[w].request.team] = task[w].answer]
    BY DEF Commit, Abort
<1>3. ASSUME NEW c \in Clients, x = page'[c][t]
      PROVE  x = page[c][t] \/ (task[w].request # None /\ task[w].request.team = t /\ x = task[w].answer)
    BY <1>2, <1>3 DEF TypeOK, Tables
<1> QED BY <1>1, <1>3 DEF Known

LEMMA VersionsStep ==
    ASSUME TypeOK, OneTransaction, VersionsIdentify, VersionsAreOld, [Next]_vars
    PROVE  VersionsIdentify' /\ VersionsAreOld'
<1>1. ASSUME NEW w \in Tasks, Starts(w)
      PROVE  VersionsIdentify' /\ VersionsAreOld'
    <2>1. clock' = clock + 1
        BY <1>1, BeginFacts DEF Starts
    <2>2. \A t \in Teams : \A x \in Rows : Known(t, x)' =>
             Known(t, x) \/ (x = Sees(w)'[t] /\ x.at = clock + 1 /\ clock' = clock + 1)
        BY <1>1, <2>1, StartKnows
    <2> QED BY <2>1, <2>2, NewVersions
<1>2. ASSUME NEW w \in Tasks, Compute(w)
      PROVE  VersionsIdentify' /\ VersionsAreOld'
    <2>1. clock' = clock \/ clock' = clock + 1
        BY <1>2, ComputeFacts
    <2>2. \A t \in Teams : \A x \in Rows : Known(t, x)' =>
             Known(t, x) \/ (x = Sees(w)'[t] /\ x.at = clock + 1 /\ clock' = clock + 1)
        BY <1>2, ComputeKnows
    <2> QED BY <2>1, <2>2, NewVersions
<1>3. ASSUME clock' = clock \/ clock' = clock + 1,
             \A t \in Teams : \A x \in Rows : Known(t, x)' => Known(t, x)
      PROVE  VersionsIdentify' /\ VersionsAreOld'
    BY <1>3, NewVersions
<1>4. ASSUME NEW w \in Tasks, Commit(w) \/ Abort(w)
      PROVE  VersionsIdentify' /\ VersionsAreOld'
    <2>1. clock' = clock
        BY <1>4, CommitFacts, AbortFacts
    <2> QED BY <1>3, <1>4, <2>1, EndKnows
<1>5. ASSUME NEW u \in Teams, ChangeTeamStatus(u)
      PROVE  VersionsIdentify' /\ VersionsAreOld'
    <2>1. /\ UNCHANGED <<elementVars, network, clientVars>> /\ clock' = clock + 1
          /\ \A w \in Tasks : SameButStale(w)
        BY <1>5, StatusType DEF ChangeTeamStatus
    <2>2. \A w \in Tasks : task[w] # None => Sees(w)' = Sees(w)
        BY <1>5, StatusSees
    <2>3. \A t \in Teams : \A x \in Rows : Known(t, x)' => Known(t, x)
        BY <2>1, <2>2 DEF Known, SameButStale, elementVars, clientVars
    <2> QED BY <1>3, <2>1, <2>3
<1>6. CASE Idles /\ ClientStep
    BY <1>3, <1>6, ClientKnows DEF Idles
<1>7. CASE UNCHANGED vars
    BY <1>7 DEF vars, elementVars, clientVars, VersionsIdentify, VersionsAreOld, Known, Sees
<1> QED BY <1>1, <1>2, <1>4, <1>5, <1>6, <1>7, Kinds
-----------------------------------------------------------------------------
(* Saves.                                                                   *)

\* A save answers with the row that it commits, and changes no row but its own,
\* of which its page showed what is stored.
SavesSeeTheTruth ==
    \A w \in Tasks : task[w] # None /\ task[w].request # None =>
        /\ task[w].answer = Sees(w)[task[w].request.team]
        /\ \A t \in Teams : Sees(w)[t] # rows[t] =>
              t = task[w].request.team /\ rows[t] = task[w].request.seen

\* A row whose version is the page's is the row that the page shows.
LEMMA SameVersionSameRow ==
    ASSUME TypeOK, VersionsIdentify, VersionsAreOld, NEW r \in network, r.team \in Teams,
           Version(r.seen) = Version(rows[r.team])
    PROVE  rows[r.team] = r.seen
<1>1. r.seen \in Rows \cup {None} /\ rows[r.team] \in Rows \cup {None}
    BY DEF TypeOK, Requests, Tables
<1>2. Known(r.team, r.seen) /\ Known(r.team, rows[r.team])
    BY DEF Known
<1>3. \A x \in Rows : Known(r.team, x) => x.at \in 1..clock
    BY DEF VersionsAreOld
<1>4. r.seen = None <=> rows[r.team] = None
    BY <1>1, <1>2, <1>3, SentinelsAssumption DEF Version
<1>5. CASE r.seen # None
    BY <1>1, <1>2, <1>4, <1>5 DEF Version, VersionsIdentify
<1> QED BY <1>4, <1>5

LEMMA SavesStep ==
    ASSUME TypeOK, OneTransaction, TransactionsSettle, VersionsIdentify, VersionsAreOld,
           SavesSeeTheTruth, [Next]_vars
    PROVE  SavesSeeTheTruth'
<1>1. ASSUME NEW w \in Tasks, Starts(w)
      PROVE  SavesSeeTheTruth'
    <2>1. rows' = rows /\ \A v \in Tasks \ {w} : task'[v] = None
        BY <1>1, BeginFacts DEF Starts, elementVars
    <2>2. CASE BeginsSave(w)
        <3>1. PICK r \in network :
                /\ task'[w].request = r /\ r \in Requests /\ task'[w].answer = Sees(w)'[r.team]
                /\ \A t \in Teams : Sees(w)'[t] # rows[t] =>
                      t = r.team /\ Version(r.seen) = Version(rows[t])
            BY <2>2 DEF BeginsSave
        <3>2. r.team \in Teams
            BY <3>1 DEF Requests
        <3>3. \A t \in Teams : Sees(w)'[t] # rows[t] => t = r.team /\ rows[t] = r.seen
            BY <3>1, <3>2, SameVersionSameRow
        <3> QED BY <2>1, <3>1, <3>3 DEF SavesSeeTheTruth
    <2>3. CASE BeginsChange(w)
        BY <2>1, <2>3 DEF BeginsChange, SavesSeeTheTruth
    <2> QED BY <1>1, <2>2, <2>3 DEF Starts
<1>2. ASSUME NEW w \in Tasks, Compute(w)
      PROVE  SavesSeeTheTruth'
    <2>1. /\ task[w] # None /\ \A v \in Tasks \ {w} : task'[v] = None
          /\ rows' = rows /\ task'[w].request = task[w].request /\ task'[w].answer = task[w].answer
          /\ Sees(w)' = SettledRows(w)
        BY <1>2, ComputeFacts DEF OneTransaction, elementVars
    <2>2. ASSUME task[w].request # None
          PROVE  \A t \in Teams : Sees(w)'[t] = Sees(w)[t]
        <3>1. \A t \in Teams : SettledRow(task[w].config, Sees(w)[t])
            BY <2>1, <2>2 DEF TransactionsSettle
        <3> QED BY <2>1, <3>1, SettledIsLeftAlone DEF SettledRows
    <2>3. task[w].request # None => task[w].request.team \in Teams
        BY <2>1, SeesType DEF Transactions, Requests
    <2> QED BY <2>1, <2>2, <2>3 DEF SavesSeeTheTruth
<1>3. ASSUME NEW w \in Tasks, Commit(w) \/ Abort(w)
      PROVE  SavesSeeTheTruth'
    BY <1>3, CommitFacts, AbortFacts DEF SavesSeeTheTruth
<1>4. ASSUME NEW u \in Teams, ChangeTeamStatus(u)
      PROVE  SavesSeeTheTruth'
    <2>1. rows' = rows /\ \A w \in Tasks : SameButStale(w)
        BY <1>4, StatusType DEF ChangeTeamStatus, elementVars
    <2>2. \A w \in Tasks : task[w] # None => Sees(w)' = Sees(w)
        BY <1>4, StatusSees
    <2> QED BY <2>1, <2>2 DEF SavesSeeTheTruth, SameButStale
<1>5. CASE Idles
    <2>1. rows' = rows /\ \A w \in Tasks : SameWork(w)
        BY <1>5 DEF Idles, elementVars
    <2>2. \A w \in Tasks : task[w] # None => Sees(w)' = Sees(w)
        BY <1>5, IdleSees
    <2> QED BY <2>1, <2>2 DEF SavesSeeTheTruth, SameWork
<1> QED BY <1>1, <1>2, <1>3, <1>4, <1>5, Kinds

\* What holds of every state, for the two theorems below.
Inv ==
    /\ OneTransaction /\ StoredAreSettled /\ TransactionsSettle
    /\ VersionsIdentify /\ VersionsAreOld /\ SavesSeeTheTruth

LEMMA InvHolds ==
    ASSUME PointsAreNumbers
    PROVE  Spec => [](TypeOK /\ Inv)
<1>1. Init => Inv
    <2> SUFFICES ASSUME Init PROVE Inv
        OBVIOUS
    <2>1. OneTransaction /\ StoredAreSettled /\ TransactionsSettle /\ SavesSeeTheTruth
        BY DEF Init, OneTransaction, StoredAreSettled, TransactionsSettle, SettledRow, SavesSeeTheTruth
    <2>2. \A t \in Teams : \A x \in Rows : ~Known(t, x)
        BY SentinelsAssumption DEF Init, Known
    <2> QED BY <2>1, <2>2 DEF Inv, VersionsIdentify, VersionsAreOld
<1>2. TypeOK /\ Inv /\ [Next]_vars => Inv'
    BY OneStep, RulesStep, VersionsStep, SavesStep DEF Inv
<1> QED BY <1>1, <1>2, TypeCorrect, PTL DEF Spec

\* The row that a save returns, which the page sends as its version next time, is
\* the row that the same transaction commits, although it is read before the
\* recomputation.
THEOREM AnswersHold ==
    ASSUME PointsAreNumbers
    PROVE  Spec => []AnswerIsTheRow
<1>1. Inv => AnswerIsTheRow
    BY DEF Inv, SavesSeeTheTruth, AnswerIsTheRow
<1> QED BY <1>1, InvHolds, PTL

\* A save or a deletion changes no row but its own, and only if its page showed
\* exactly what it replaces, for any number of judges, requests and transactions.
THEOREM OnlySeenHolds ==
    ASSUME PointsAreNumbers
    PROVE  Spec => OnlySeenIsReplaced
<1>1. ASSUME TypeOK, Inv, [Next]_vars,
             NEW w \in Tasks, task[w] # None, task[w].request # None, rows' # rows,
             NEW t \in Teams, rows'[t] # rows[t]
      PROVE  t = task[w].request.team /\ rows[t] = task[w].request.seen
    <2>1. PICK v \in Tasks : Commit(v)
        BY <1>1, Kinds, BeginFacts, ComputeFacts, AbortFacts
           DEF Starts, Idles, ChangeTeamStatus, elementVars, Inv
    <2>2. v = w /\ rows' = Sees(w)
        BY <1>1, <2>1, CommitFacts DEF OneTransaction, Inv
    <2> QED BY <1>1, <2>2 DEF Inv, SavesSeeTheTruth
<1>2. TypeOK /\ Inv /\ [Next]_vars =>
        [ \A w \in Tasks :
            task[w] # None /\ task[w].request # None /\ task'[w] = None /\ rows' # rows =>
              \A t \in Teams : rows'[t] # rows[t] =>
                  t = task[w].request.team /\ rows[t] = task[w].request.seen ]_vars
    BY <1>1
<1> QED BY <1>2, InvHolds, PTL DEF Spec, OnlySeenIsReplaced
-----------------------------------------------------------------------------
(* Repeated saves.  What a row keeps of the form that it was made of, and   *)
(* what no change of the configuration and no recomputation touches.        *)

OfItsForm(row) ==
    row # None =>
        /\ ~IsDeletion(row.form) /\ row.mode = row.form.mode
        /\ row.form.label # "OTHER" => row.values = row.form.values /\ row.label # "OTHER"
        /\ row.form.label = "OTHER" /\ row.label = "OTHER" => row.values = Empty

FormsKept ==
    /\ \A t \in Teams : OfItsForm(rows[t])
    /\ \A w \in Tasks : task[w] # None => \A t \in Teams : OfItsForm(Sees(w)[t])

LEMMA RowOfItsForm ==
    ASSUME TypeOK, NEW form \in Forms, NEW by, ~IsDeletion(form)
    PROVE  OfItsForm(RowOf(config, form, by))
<1> DEFINE label == Outcome(config, form.values, form.mode, form.label)
           row == RowOf(config, form, by)
<1>1. /\ row.label = label /\ row.mode = form.mode /\ row.form = form
      /\ row.values = IF label = "OTHER" THEN Empty ELSE form.values
    BY DEF RowOf
<1>2. form.label # "OTHER" => label # "OTHER"
    BY OutcomeType, SentinelsAssumption DEF Labels, TypeOK
<1> HIDE DEF label, row
<1> QED BY <1>1, <1>2 DEF OfItsForm, row

LEMMA ResettledOfItsForm ==
    ASSUME NEW cfg \in Configs, NEW row \in Rows \cup {None}, OfItsForm(row)
    PROVE  OfItsForm(Resettled(cfg, row))
<1> DEFINE label == Outcome(cfg, row.values, row.mode, None)
           penalty == Penalty(cfg, label)
           new == Resettled(cfg, row)
<1>1. label # "OTHER"
    BY OutcomeType, SentinelsAssumption DEF Labels
<1>2. new = row \/ (row # None /\ new = [row EXCEPT !.label = label, !.penalty = penalty, !.at = clock + 1])
    BY DEF Resettled
<1> HIDE DEF label, penalty, new
<1>3. CASE new = row
    BY <1>3 DEF new
<1>4. CASE row # None /\ new = [row EXCEPT !.label = label, !.penalty = penalty, !.at = clock + 1]
    <2>1. new.label = label /\ new.mode = row.mode /\ new.values = row.values /\ new.form = row.form
        BY <1>4 DEF Rows
    <2> QED BY <1>1, <1>4, <2>1 DEF OfItsForm, new
<1> QED BY <1>2, <1>3, <1>4

LEMMA RepricedOfItsForm ==
    ASSUME TypeOK, NEW cfg \in Configs, NEW t \in Teams, OfItsForm(rows[t])
    PROVE  OfItsForm(Repriced(cfg)[t])
<1> DEFINE row == rows[t]
           new == [row EXCEPT !.penalty = Priced(cfg, row), !.at = clock + 1]
<1>1. Repriced(cfg)[t] = IF row # None /\ row.penalty # Priced(cfg, row) THEN new ELSE row
    BY DEF Repriced
<1>2. row # None => row \in Rows
    BY DEF TypeOK, Tables
<1>3. row # None => new.label = row.label /\ new.mode = row.mode /\ new.values = row.values
                    /\ new.form = row.form
    BY <1>2 DEF Rows
<1> HIDE DEF new
<1> QED BY <1>1, <1>3 DEF OfItsForm

LEMMA FormsStep ==
    ASSUME TypeOK, OneTransaction, FormsKept, [Next]_vars
    PROVE  FormsKept'
<1>1. ASSUME NEW w \in Tasks, Starts(w)
      PROVE  FormsKept'
    <2>1. rows' = rows /\ \A v \in Tasks \ {w} : task'[v] = None
        BY <1>1, BeginFacts DEF Starts, elementVars
    <2>2. ASSUME NEW t \in Teams
          PROVE  OfItsForm(Sees(w)'[t])
        <3>1. OfItsForm(rows[t]) /\ OfItsForm(None)
            BY DEF FormsKept, OfItsForm
        <3>2. CASE BeginsSave(w)
            <4>1. PICK r \in network :
                    /\ r \in Requests
                    /\ \/ Sees(w)'[t] = rows[t] \/ Sees(w)'[t] = None
                       \/ /\ Sees(w)'[t] = RowOf(config, r.form, By[r.client])
                          /\ ~IsDeletion(r.form)
                BY <3>2 DEF BeginsSave
            <4>2. r.form \in Forms
                BY <4>1 DEF Requests
            <4> QED BY <3>1, <4>1, <4>2, RowOfItsForm
        <3>3. CASE BeginsChange(w)
            BY <3>1, <3>3, RepricedOfItsForm DEF BeginsChange
        <3> QED BY <1>1, <3>2, <3>3 DEF Starts
    <2> QED BY <2>1, <2>2 DEF FormsKept
<1>2. ASSUME NEW w \in Tasks, Compute(w)
      PROVE  FormsKept'
    <2>1. /\ task[w] # None /\ \A v \in Tasks \ {w} : task'[v] = None
          /\ rows' = rows /\ Sees(w)' = SettledRows(w)
        BY <1>2, ComputeFacts DEF OneTransaction, elementVars
    <2>2. ASSUME NEW t \in Teams
          PROVE  OfItsForm(Sees(w)'[t])
        <3>1. Sees(w)'[t] = Resettled(task[w].config, Sees(w)[t])
            BY <2>1 DEF SettledRows
        <3>2. task[w].config \in Configs /\ Sees(w)[t] \in Rows \cup {None}
            BY <2>1, SeesType DEF Transactions, Tables
        <3> QED BY <2>1, <3>1, <3>2, ResettledOfItsForm DEF FormsKept
    <2> QED BY <2>1, <2>2 DEF FormsKept
<1>3. ASSUME NEW w \in Tasks, Commit(w) \/ Abort(w)
      PROVE  FormsKept'
    BY <1>3, CommitFacts, AbortFacts DEF FormsKept, elementVars
<1>4. ASSUME NEW u \in Teams, ChangeTeamStatus(u)
      PROVE  FormsKept'
    BY <1>4, StatusType, StatusSees DEF FormsKept, ChangeTeamStatus, SameButStale, elementVars
<1>5. CASE Idles
    BY <1>5, IdleSees DEF FormsKept, Idles, SameWork, elementVars
<1> QED BY <1>1, <1>2, <1>3, <1>4, <1>5, Kinds

LEMMA FormsHold ==
    ASSUME PointsAreNumbers
    PROVE  Spec => []FormsKept
<1>1. Init => FormsKept
    BY DEF Init, FormsKept, OfItsForm
<1>2. TypeOK /\ Inv /\ FormsKept /\ [Next]_vars => FormsKept'
    BY FormsStep DEF Inv
<1> QED BY <1>1, <1>2, InvHolds, PTL DEF Spec

\* Whoever repeats a save that is stored is not told that somebody else has
\* changed the result, however old the version that the page shows and whatever
\* has become of the rule and of the penalties.
THEOREM RepetitionsHold ==
    ASSUME PointsAreNumbers
    PROVE  Spec => []OwnSaveIsNoConflict
<1>1. ASSUME TypeOK, Inv, FormsKept, NEW r \in network,
             rows[r.team] # None, rows[r.team].by = By[r.client], rows[r.team].form = r.form,
             r.form.label = "OTHER" => rows[r.team].label = "OTHER",
             Verdict(r) = "conflict"
      PROVE  FALSE
    <2> DEFINE row == rows[r.team]
               label == Outcome(config, r.form.values, r.form.mode, r.form.label)
               new == RowOf(config, r.form, By[r.client])
    <2>1. r.team \in Teams /\ r.form \in Forms
        BY <1>1 DEF TypeOK, Requests
    <2>2. OfItsForm(row) /\ SettledRow(config, row)
        BY <1>1, <2>1 DEF FormsKept, Inv, StoredAreSettled
    <2>3. /\ ~IsDeletion(r.form)
          /\ ~Unresolved(config, r.form.values, r.form.mode, r.form.label)
          /\ ~SameRow(row, new)
        BY <1>1, <2>2 DEF Verdict, OfItsForm
    <2>4. /\ new.label = label /\ new.mode = r.form.mode /\ new.by = By[r.client]
          /\ new.values = IF label = "OTHER" THEN Empty ELSE r.form.values
          /\ new.penalty = Penalty(config, label)
        BY DEF RowOf
    <2>5. label # None => config.penalty[label] # None
        BY <2>3 DEF Unresolved
    <2>6. CASE r.form.label = "OTHER"
        <3>1. label = "OTHER"
            BY <2>6 DEF Outcome
        <3>2. label # None
            BY <3>1, SentinelsAssumption DEF Labels
        <3> HIDE DEF label, new
        <3>3. row.label = label /\ row.mode = new.mode /\ row.values = new.values
            BY <1>1, <2>2, <2>4, <2>6, <3>1 DEF OfItsForm
        <3>4. row.penalty = new.penalty
            BY <1>1, <2>2, <2>4, <2>5, <3>1, <3>2, <3>3 DEF SettledRow, Priced, Penalty
        <3> QED BY <1>1, <2>3, <2>4, <3>3, <3>4 DEF SameRow
    <2>7. CASE r.form.label # "OTHER"
        <3>1. r.form.label = None
            BY <2>1, <2>7 DEF Forms
        <3>2. row.label # "OTHER" /\ row.mode = r.form.mode /\ row.values = r.form.values
            BY <1>1, <2>2, <2>7 DEF OfItsForm
        <3>3. row.label = label /\ row.penalty = Penalty(config, label)
            BY <1>1, <2>2, <3>1, <3>2 DEF SettledRow
        <3> HIDE DEF label, new
        <3> QED BY <1>1, <2>3, <2>4, <3>2, <3>3 DEF SameRow
    <2> QED BY <2>6, <2>7
<1>2. TypeOK /\ Inv /\ FormsKept => OwnSaveIsNoConflict
    BY <1>1 DEF OwnSaveIsNoConflict
<1> QED BY <1>2, InvHolds, FormsHold, PTL
-----------------------------------------------------------------------------
(* Versions of rows that stay as they are.                                  *)

SameContent(x, y) == y = [x EXCEPT !.at = y.at]

\* Only the penalty of the row has been changed.
RepricedOnly(cfg, x, y) ==
    y = [x EXCEPT !.penalty = Priced(cfg, x), !.at = y.at] /\ x.penalty # Priced(cfg, x)

\* What a transaction changes is new, and a change that is no save has done no
\* more than change penalties before the recomputation.
ChangesAreNew ==
    \A w \in Tasks : task[w] # None => \A t \in Teams :
        rows[t] # None /\ Sees(w)[t] # None /\ Sees(w)[t] # rows[t] =>
            /\ ~SameContent(rows[t], Sees(w)[t])
            /\ task[w].phase = "written" /\ task[w].request = None =>
                  RepricedOnly(task[w].config, rows[t], Sees(w)[t])

LEMMA RowOfIsNew ==
    ASSUME NEW x \in Rows, NEW y \in Rows, ~SameRow(x, y)
    PROVE  ~SameContent(x, y)
<1>1. SUFFICES ASSUME y = [x EXCEPT !.at = y.at] PROVE SameRow(x, y)
    BY DEF SameContent
<1>2. x # None
    BY SentinelsAssumption
<1> QED BY <1>1, <1>2 DEF SameRow, Rows

LEMMA RepricedIsNew ==
    ASSUME NEW cfg, NEW x \in Rows, NEW y \in Rows, RepricedOnly(cfg, x, y)
    PROVE  ~SameContent(x, y) /\ y.label = x.label
<1>1. y.penalty = Priced(cfg, x) /\ x.penalty # Priced(cfg, x) /\ y.label = x.label
    BY DEF RepricedOnly, Rows
<1>2. SameContent(x, y) => y.penalty = x.penalty
    BY DEF SameContent, Rows
<1> QED BY <1>1, <1>2

\* The recomputation does not undo a change of penalties.
LEMMA ResettledIsNew ==
    ASSUME NEW cfg \in Configs, NEW x \in Rows, NEW y \in Rows,
           y = x \/ RepricedOnly(cfg, x, y), Resettled(cfg, y) # x
    PROVE  ~SameContent(x, Resettled(cfg, y))
<1> DEFINE label == Outcome(cfg, y.values, y.mode, None)
           penalty == Penalty(cfg, label)
           z == Resettled(cfg, y)
<1>1. CASE z = y
    BY <1>1, RepricedIsNew
<1>2. CASE z # y
    <2>1. /\ z = [y EXCEPT !.label = label, !.penalty = penalty, !.at = clock + 1]
          /\ ~(y.label = label /\ y.penalty = penalty)
        BY <1>2 DEF Resettled
    <2> HIDE DEF label, penalty, z
    <2>2. z.label = label /\ z.penalty = penalty
        BY <2>1 DEF Rows
    <2>3. SameContent(x, z) => z.label = x.label /\ z.penalty = x.penalty
        BY DEF SameContent, Rows
    <2>4. CASE y = x
        BY <2>1, <2>2, <2>3, <2>4 DEF z
    <2>5. CASE RepricedOnly(cfg, x, y)
        <3>1. x.penalty # Priced(cfg, x)
            BY <2>5 DEF RepricedOnly
        <3>2. x.label = label => Priced(cfg, x) = x.penalty \/ Priced(cfg, x) = penalty
            BY DEF Priced, Penalty, penalty
        <3> QED BY <2>2, <2>3, <3>1, <3>2 DEF z
    <2> QED BY <2>4, <2>5
<1> QED BY <1>1, <1>2

LEMMA NewStep ==
    ASSUME TypeOK, OneTransaction, TransactionsSettle, ChangesAreNew, [Next]_vars
    PROVE  ChangesAreNew'
<1>1. ASSUME NEW w \in Tasks, Starts(w)
      PROVE  ChangesAreNew'
    <2>1. rows' = rows /\ \A v \in Tasks \ {w} : task'[v] = None
        BY <1>1, BeginFacts DEF Starts, elementVars
    <2>2. ASSUME NEW t \in Teams, rows[t] # None, Sees(w)'[t] # None, Sees(w)'[t] # rows[t]
          PROVE  /\ ~SameContent(rows[t], Sees(w)'[t])
                 /\ task'[w].request = None => RepricedOnly(task'[w].config, rows[t], Sees(w)'[t])
        <3>1. rows[t] \in Rows
            BY <2>2 DEF TypeOK, Tables
        <3>2. CASE BeginsSave(w)
            <4>1. PICK r \in network :
                    /\ r \in Requests /\ task'[w].request = r
                    /\ Sees(w)'[t] = RowOf(config, r.form, By[r.client])
                    /\ ~SameRow(rows[t], Sees(w)'[t])
                BY <2>2, <3>2 DEF BeginsSave
            <4>2. Sees(w)'[t] \in Rows /\ task'[w].request # None
                BY <4>1, RowOfType, SentinelsAssumption DEF Requests
            <4> QED BY <3>1, <4>1, <4>2, RowOfIsNew
        <3>3. CASE BeginsChange(w)
            <4> DEFINE cfg == task'[w].config
                       new == [rows[t] EXCEPT !.penalty = Priced(cfg, rows[t]), !.at = clock + 1]
            <4>1. cfg \in Configs /\ Sees(w)'[t] = Repriced(cfg)[t]
                BY <2>2, <3>3 DEF BeginsChange
            <4>2. Sees(w)'[t] \in Rows
                BY <2>2, <4>1, RepricedType DEF Tables
            <4>3. Sees(w)'[t] = new /\ rows[t].penalty # Priced(cfg, rows[t])
                BY <2>2, <4>1 DEF Repriced
            <4> HIDE DEF cfg
            <4>4. Sees(w)'[t] = [rows[t] EXCEPT !.penalty = Priced(cfg, rows[t]), !.at = Sees(w)'[t].at]
                BY <3>1, <4>3 DEF Rows
            <4>5. RepricedOnly(cfg, rows[t], Sees(w)'[t])
                BY <4>3, <4>4 DEF RepricedOnly
            <4> QED BY <3>1, <4>2, <4>5, RepricedIsNew DEF cfg
        <3> QED BY <1>1, <3>2, <3>3 DEF Starts
    <2> QED BY <2>1, <2>2 DEF ChangesAreNew
<1>2. ASSUME NEW w \in Tasks, Compute(w)
      PROVE  ChangesAreNew'
    <2>1. /\ task[w] # None /\ \A v \in Tasks \ {w} : task'[v] = None
          /\ task[w].phase = "written" /\ task'[w].phase = "computed"
          /\ rows' = rows /\ Sees(w)' = SettledRows(w)
        <3>1. task'[w].phase = "computed"
            BY <1>2, SeesType DEF Compute, TypeOK, Transactions
        <3> QED BY <1>2, <3>1, ComputeFacts DEF OneTransaction, elementVars
    <2>2. ASSUME NEW t \in Teams, rows[t] # None, Sees(w)'[t] # None, Sees(w)'[t] # rows[t]
          PROVE  ~SameContent(rows[t], Sees(w)'[t])
        <3> DEFINE cfg == task[w].config
                   y == Sees(w)[t]
        <3>1. rows[t] \in Rows /\ cfg \in Configs /\ y \in Rows \cup {None}
            BY <2>1, <2>2, SeesType DEF TypeOK, Tables, Transactions
        <3>2. Sees(w)'[t] = Resettled(cfg, y)
            BY <2>1 DEF SettledRows
        <3>3. y \in Rows
            BY <2>2, <3>1, <3>2 DEF Resettled
        <3>4. CASE task[w].request # None
            <4>1. Sees(w)'[t] = y
                BY <2>1, <3>2, <3>4, SettledIsLeftAlone DEF TransactionsSettle
            <4> QED BY <2>1, <2>2, <4>1 DEF ChangesAreNew
        <3>5. CASE task[w].request = None
            <4>1. y # None
                BY <3>3, SentinelsAssumption
            <4>2. y = rows[t] \/ RepricedOnly(cfg, rows[t], y)
                BY <2>1, <2>2, <3>5, <4>1 DEF ChangesAreNew
            <4> QED BY <2>2, <3>1, <3>2, <3>3, <4>2, ResettledIsNew
        <3> QED BY <3>4, <3>5
    <2> QED BY <2>1, <2>2 DEF ChangesAreNew
<1>3. ASSUME NEW w \in Tasks, Commit(w) \/ Abort(w)
      PROVE  ChangesAreNew'
    BY <1>3, CommitFacts, AbortFacts DEF ChangesAreNew
<1>4. ASSUME NEW u \in Teams, ChangeTeamStatus(u)
      PROVE  ChangesAreNew'
    <2>1. rows' = rows /\ \A w \in Tasks : SameButStale(w) /\ (task[w] # None => Sees(w)' = Sees(w))
        BY <1>4, StatusType, StatusSees DEF ChangeTeamStatus, elementVars
    <2> QED BY <2>1 DEF ChangesAreNew, SameButStale
<1>5. CASE Idles
    <2>1. rows' = rows /\ \A w \in Tasks : SameWork(w) /\ (task[w] # None => Sees(w)' = Sees(w))
        BY <1>5, IdleSees DEF Idles, elementVars
    <2> QED BY <2>1 DEF ChangesAreNew, SameWork
<1> QED BY <1>1, <1>2, <1>3, <1>4, <1>5, Kinds

LEMMA NewHolds ==
    ASSUME PointsAreNumbers
    PROVE  Spec => []ChangesAreNew
<1>1. Init => ChangesAreNew
    BY DEF Init, ChangesAreNew
<1>2. TypeOK /\ Inv /\ ChangesAreNew /\ [Next]_vars => ChangesAreNew'
    BY NewStep DEF Inv
<1> QED BY <1>1, <1>2, InvHolds, PTL DEF Spec

\* A row whose content stays as it is keeps its version: no repetition of a save,
\* no change of the configuration and no recomputation makes a page outdated
\* without a reason.
THEOREM VersionsHold ==
    ASSUME PointsAreNumbers
    PROVE  Spec => SameContentSameVersion
<1>1. ASSUME TypeOK, Inv, ChangesAreNew, [Next]_vars, NEW t \in Teams,
             rows[t] # None, rows'[t] # None, rows'[t] = [rows[t] EXCEPT !.at = rows'[t].at],
             rows'[t] # rows[t]
      PROVE  FALSE
    <2>1. PICK w \in Tasks : Commit(w)
        BY <1>1, Kinds, BeginFacts, ComputeFacts, AbortFacts
           DEF Starts, Idles, ChangeTeamStatus, elementVars, Inv
    <2>2. rows' = Sees(w) /\ task[w] # None
        BY <1>1, <2>1, CommitFacts DEF Inv
    <2> QED BY <1>1, <2>2 DEF ChangesAreNew, SameContent
<1>2. TypeOK /\ Inv /\ ChangesAreNew /\ [Next]_vars =>
        [ \A t \in Teams :
            rows[t] # None /\ rows'[t] # None /\ rows'[t] = [rows[t] EXCEPT !.at = rows'[t].at] =>
                rows'[t] = rows[t] ]_vars
    BY <1>1
<1> QED BY <1>2, InvHolds, NewHolds, PTL DEF Spec, SameContentSameVersion

-----------------------------------------------------------------------------
(* The points of a scoring element (ScoreCalculators), for any number of    *)
(* teams, any results and any settings that make sense.  All of it is       *)
(* arithmetic on places, on distances from the best value and on quotients  *)
(* that are rounded: what is rounded keeps its order, and whole thousandths *)
(* stay what they are, so the worst points of a scale stay the worst.       *)

\* A quotient of integers keeps the order of what is divided.
LEMMA DivMonotone ==
    ASSUME NEW a \in Int, NEW b \in Int, NEW c \in Int, c > 0, a <= b
    PROVE  a \div c <= b \div c /\ a \div c \in Int /\ b \div c \in Int
OBVIOUS

\* So does a product with a factor that is not negative.
LEMMA TimesMonotone ==
    ASSUME NEW a \in Int, NEW b \in Int, NEW k \in Int, a <= b, k >= 0
    PROVE  a * k <= b * k /\ k * a <= k * b /\ a * k \in Int /\ b * k \in Int
OBVIOUS

\* A quotient is the only number with a remainder below the divisor.
LEMMA DivUnique ==
    ASSUME NEW x \in Int, NEW y \in Int, NEW q \in Int, NEW r \in Int,
           y > 0, x = y * q + r, 0 <= r, r < y
    PROVE  x \div y = q
<1> DEFINE p == x \div y
           s == x % y
<1>1. p \in Int /\ s \in Int /\ x = y * p + s /\ 0 <= s /\ s < y
    OBVIOUS
<1> HIDE DEF p, s
<1>2. y * p + s = y * q + r
    BY <1>1
<1>3. ~(p < q)
    <2> SUFFICES ASSUME p < q PROVE FALSE
        OBVIOUS
    <2>1. y * (p + 1) <= y * q
        BY <1>1, TimesMonotone
    <2>2. y * (p + 1) = y * p + y
        BY <1>1
    <2>3. y * p \in Int /\ y * q \in Int
        BY <1>1
    <2> QED BY <1>1, <1>2, <2>1, <2>2, <2>3
<1>4. ~(q < p)
    <2> SUFFICES ASSUME q < p PROVE FALSE
        OBVIOUS
    <2>1. y * (q + 1) <= y * p
        BY <1>1, TimesMonotone
    <2>2. y * (q + 1) = y * q + y
        BY <1>1
    <2>3. y * p \in Int /\ y * q \in Int
        BY <1>1
    <2> QED BY <1>1, <1>2, <2>1, <2>2, <2>3
<1> QED BY <1>1, <1>3, <1>4 DEF p

\* Rounding keeps the order.
LEMMA RoundDivMonotone ==
    ASSUME NEW a \in Int, NEW b \in Int, NEW c \in Int, c > 0, a <= b
    PROVE  RoundDiv(a, c) <= RoundDiv(b, c) /\ RoundDiv(a, c) \in Int /\ RoundDiv(b, c) \in Int
<1>1. 2 * a + c \in Int /\ 2 * b + c \in Int /\ 2 * c \in Int /\ 2 * c > 0 /\ 2 * a + c <= 2 * b + c
    OBVIOUS
<1> QED BY <1>1, DivMonotone DEF RoundDiv

\* A fraction is rounded the same however it is extended.
LEMMA RoundDivScaled ==
    ASSUME NEW a \in Int, NEW b \in Int, NEW k \in Int, b > 0, k > 0
    PROVE  RoundDiv(a * k, b * k) = RoundDiv(a, b)
<1> DEFINE x == 2 * a + b
           y == 2 * b
           q == x \div y
           r == x % y
<1>1. x \in Int /\ y \in Int /\ y > 0 /\ q \in Int /\ r \in Int /\ x = y * q + r /\ 0 <= r /\ r < y
    OBVIOUS
<1>2. 2 * (a * k) + b * k = x * k /\ 2 * (b * k) = y * k
    OBVIOUS
<1>3. RoundDiv(a, b) = q /\ RoundDiv(a * k, b * k) = (x * k) \div (y * k)
    BY <1>2 DEF RoundDiv
<1> HIDE DEF x, y, q, r
<1>4. x * k \in Int /\ y * k \in Int /\ r * k \in Int /\ y * k > 0 /\ 0 <= r * k /\ r * k < y * k
    BY <1>1
<1>5. x * k = (y * k) * q + r * k
    BY <1>1
<1>6. (x * k) \div (y * k) = q
    BY <1>1, <1>4, <1>5, DivUnique
<1> QED BY <1>3, <1>6

\* Fractions compare as their cross products.
LEMMA RoundDivFractions ==
    ASSUME NEW a \in Int, NEW b \in Int, NEW c \in Int, NEW e \in Int, b > 0, e > 0, a * e <= c * b
    PROVE  RoundDiv(a, b) <= RoundDiv(c, e) /\ RoundDiv(a, b) \in Int /\ RoundDiv(c, e) \in Int
<1>1. RoundDiv(a * e, b * e) = RoundDiv(a, b) /\ RoundDiv(c * b, e * b) = RoundDiv(c, e)
    BY RoundDivScaled
<1>2. a * e \in Int /\ c * b \in Int /\ b * e \in Int /\ b * e > 0 /\ e * b = b * e
    OBVIOUS
<1>3. RoundDiv(a * e, b * e) <= RoundDiv(c * b, b * e) /\ RoundDiv(a * e, b * e) \in Int
      /\ RoundDiv(c * b, b * e) \in Int
    BY <1>2, RoundDivMonotone
<1> QED BY <1>1, <1>2, <1>3

\* What is whole is not rounded.
LEMMA RoundDivExact ==
    ASSUME NEW k \in Int, NEW b \in Int, b > 0
    PROVE  RoundDiv(k * b, b) = k
<1>1. 2 * (k * b) + b = (2 * b) * k + b /\ 2 * (k * b) + b \in Int /\ 2 * b \in Int /\ 2 * b > 0 /\ b < 2 * b
    OBVIOUS
<1> QED BY <1>1, DivUnique DEF RoundDiv

\* Points of three decimals are tens of ten-thousandths.
LEMMA Tens ==
    ASSUME NEW points
    PROVE  points \in Thousandths <=> \E k \in Int : points = 10 * k
<1>1. ASSUME points \in Int, points % 10 = 0
      PROVE  \E k \in Int : points = 10 * k
    <2>1. points = 10 * (points \div 10) /\ points \div 10 \in Int
        BY <1>1
    <2> QED BY <2>1
<1>2. ASSUME NEW k \in Int, points = 10 * k
      PROVE  points \in Int /\ points % 10 = 0
    BY <1>2
<1> QED BY <1>1, <1>2 DEF Thousandths

\* Rounding to three decimals keeps the order and gives thousandths.
LEMMA Round3Monotone ==
    ASSUME NEW a \in Int, NEW b \in Int, NEW c \in Int, c > 0, a <= b
    PROVE  /\ Round3(a, c) <= Round3(b, c)
           /\ Round3(a, c) \in Int /\ Round3(b, c) \in Int
           /\ Round3(a, c) \in Thousandths /\ Round3(b, c) \in Thousandths
<1>1. 10 * c \in Int /\ 10 * c > 0
    OBVIOUS
<1>2. RoundDiv(a, 10 * c) <= RoundDiv(b, 10 * c) /\ RoundDiv(a, 10 * c) \in Int /\ RoundDiv(b, 10 * c) \in Int
    BY <1>1, RoundDivMonotone
<1>3. Round3(a, c) \in Thousandths /\ Round3(b, c) \in Thousandths
    BY <1>2, Tens DEF Round3
<1> QED BY <1>2, <1>3 DEF Round3

\* Thousandths stay what they are.
LEMMA Round3Exact ==
    ASSUME NEW a \in Thousandths, NEW c \in Int, c > 0
    PROVE  Round3(a * c, c) = a /\ a \in Int
<1>1. PICK k \in Int : a = 10 * k
    BY Tens
<1>2. a * c = k * (10 * c) /\ 10 * c \in Int /\ 10 * c > 0 /\ a \in Int
    BY <1>1
<1>3. RoundDiv(a * c, 10 * c) = k
    BY <1>1, <1>2, RoundDivExact
<1> QED BY <1>1, <1>2, <1>3 DEF Round3

-----------------------------------------------------------------------------
(* Places.                                                                  *)

\* An entry of a ranking.
Sound(E, S) == \A t \in S : E[t].value \in Int /\ E[t].tie \in Int \cup {Null}

\* Being ahead in the ranking of an element is a strict order, ties by time included.
LEMMA AheadIsAnOrder ==
    ASSUME NEW part, NEW E, NEW S, Sound(E, S), Null \notin Int
    PROVE  /\ \A t \in S : ~Ahead(part, E[t], E[t])
           /\ \A t, u, v \in S : Ahead(part, E[t], E[u]) /\ Ahead(part, E[u], E[v]) => Ahead(part, E[t], E[v])
BY DEF Sound, Ahead, TieAhead, TieOf

\* Places go from the first to the number of those ranked.
LEMMA PlaceType ==
    ASSUME NEW part, NEW E, NEW S, Sound(E, S), Null \notin Int, IsFiniteSet(S), NEW t \in S
    PROVE  /\ PlaceIn(part, E, S, t) \in Int
           /\ 1 <= PlaceIn(part, E, S, t) /\ PlaceIn(part, E, S, t) <= Cardinality(S)
<1> DEFINE before == {u \in S : Ahead(part, E[u], E[t])}
<1>1. before \subseteq S \ {t}
    BY AheadIsAnOrder
<1>2. IsFiniteSet(S \ {t}) /\ Cardinality(S \ {t}) = Cardinality(S) - 1
    BY FS_RemoveElement
<1>3. IsFiniteSet(before) /\ Cardinality(before) <= Cardinality(S \ {t})
    BY <1>1, <1>2, FS_Subset
<1>4. Cardinality(before) \in Nat /\ Cardinality(S) \in Nat
    BY <1>3, FS_CardinalityType
<1> HIDE DEF before
<1>5. 1 <= 1 + Cardinality(before) /\ 1 + Cardinality(before) <= Cardinality(S) /\ 1 + Cardinality(before) \in Int
    BY <1>2, <1>3, <1>4
<1> QED BY <1>5 DEF PlaceIn, before

\* Whoever is ahead of another has a better place.
LEMMA PlacesFollowOrder ==
    ASSUME NEW part, NEW E, NEW S, Sound(E, S), Null \notin Int, IsFiniteSet(S),
           NEW t \in S, NEW u \in S, Ahead(part, E[t], E[u])
    PROVE  PlaceIn(part, E, S, t) < PlaceIn(part, E, S, u)
<1> DEFINE Before(w) == {v \in S : Ahead(part, E[v], E[w])}
<1>1. Before(t) \subseteq Before(u) /\ t \in Before(u) /\ t \notin Before(t)
    BY AheadIsAnOrder
<1>2. IsFiniteSet(Before(t)) /\ IsFiniteSet(Before(u))
    BY FS_Subset
<1>3. Cardinality(Before(t)) \in Nat /\ Cardinality(Before(u)) \in Nat
    BY <1>2, FS_CardinalityType
<1>4. Cardinality(Before(t)) < Cardinality(Before(u))
    <2>1. Before(t) # Before(u) /\ Before(t) \in SUBSET Before(u)
        BY <1>1
    <2> HIDE DEF Before
    <2>2. /\ Cardinality(Before(t)) <= Cardinality(Before(u))
          /\ Cardinality(Before(u)) = Cardinality(Before(t)) => Before(u) = Before(t)
        BY <1>2, <2>1, FS_Subset
    <2> QED BY <1>3, <2>1, <2>2
<1>5. PlaceIn(part, E, S, t) = 1 + Cardinality(Before(t)) /\ PlaceIn(part, E, S, u) = 1 + Cardinality(Before(u))
    BY DEF PlaceIn
<1> HIDE DEF Before
<1> QED BY <1>3, <1>4, <1>5

-----------------------------------------------------------------------------
(* The scale of equal steps, the table and the number of teams.             *)

\* Those who failed take places behind all who succeeded.
LEMMA PlacesType ==
    ASSUME NEW S, NEW F, IsFiniteSet(S), IsFiniteSet(F)
    PROVE  /\ Places(S, F) \in Nat /\ Cardinality(S) \in Nat
           /\ Cardinality(S) <= Places(S, F)
           /\ \A f \in F \ S : Cardinality(S) < Places(S, F)
<1>1. IsFiniteSet(S \cup F)
    BY FS_Union
<1>2. Cardinality(S) <= Cardinality(S \cup F) /\ (Cardinality(S \cup F) = Cardinality(S) => S \cup F = S)
    BY <1>1, FS_Subset
<1>3. Cardinality(S) \in Nat /\ Cardinality(S \cup F) \in Nat
    BY <1>1, FS_CardinalityType
<1> QED BY <1>2, <1>3 DEF Places

\* The range of a scale is whole as its ends are.
LEMMA ScaleIsWhole ==
    ASSUME NEW part, NEW comp, SoundScale(part, comp)
    PROVE  /\ part.min \in Int /\ part.max \in Int
           /\ part.max - part.min \in Thousandths /\ part.max - part.min \in Int
           /\ part.max - part.min >= 0
<1>1. PICK i \in Int, j \in Int : part.min = 10 * i /\ part.max = 10 * j
    BY Tens DEF SoundScale
<1>2. part.max - part.min = 10 * (j - i) /\ j - i \in Int
    BY <1>1
<1> QED BY <1>1, <1>2, Tens DEF SoundScale

\* On a scale of equal steps who is ahead pays less, and nobody more than who failed
\* (applyRelativeRanking).
LEMMA RelativeRankingFollows ==
    ASSUME NEW part, NEW comp, NEW E, NEW S, NEW F, SoundScale(part, comp), Sound(E, S),
           Null \notin Int, IsFiniteSet(S), IsFiniteSet(F), S \cap F = {},
           NEW t \in S
    PROVE  LET points == RelativeRanking(part, comp, E, S, F)
           IN  /\ \A u \in S : Ahead(part, E[t], E[u]) => Cost(comp, points[t]) <= Cost(comp, points[u])
               /\ \A f \in F : Cost(comp, points[t]) <= Cost(comp, points[f])
<1> DEFINE n == Places(S, F)
           range == part.max - part.min
           P(w) == PlaceIn(part, E, S, w)
           Offset(w) == Round3((P(w) - 1) * range, n - 1)
           points == RelativeRanking(part, comp, E, S, F)
<1>1. \A w \in S : points[w] = IF n <= 1 THEN Side(comp, part.max, part.min)
                                ELSE Side(comp, part.max - Offset(w), part.min + Offset(w))
    BY DEF RelativeRanking
<1>2. \A f \in F : points[f] = Side(comp, part.min, part.max)
    BY DEF RelativeRanking
<1>3. n \in Nat /\ \A w \in S : P(w) \in Int /\ 1 <= P(w) /\ P(w) <= Cardinality(S) /\ P(w) <= n
    BY PlaceType, PlacesType
<1>4. range \in Int /\ range \in Thousandths /\ range >= 0 /\ part.min \in Int /\ part.max \in Int
    BY ScaleIsWhole
<1> HIDE DEF n, range, P, points
<1>5. ASSUME NEW u \in S, Ahead(part, E[t], E[u])
      PROVE  Cost(comp, points[t]) <= Cost(comp, points[u])
    <2>1. P(t) < P(u)
        BY <1>5, PlacesFollowOrder DEF P
    <2>2. n > 1 /\ n - 1 \in Int /\ n - 1 > 0 /\ P(t) - 1 <= P(u) - 1 /\ P(t) - 1 \in Int /\ P(u) - 1 \in Int
        BY <1>3, <2>1
    <2>3. /\ (P(t) - 1) * range <= (P(u) - 1) * range
          /\ (P(t) - 1) * range \in Int /\ (P(u) - 1) * range \in Int
        BY <1>4, <2>2, TimesMonotone
    <2>4. Offset(t) <= Offset(u) /\ Offset(t) \in Int /\ Offset(u) \in Int
        BY <2>2, <2>3, Round3Monotone
    <2> HIDE DEF Offset
    <2> QED BY <1>1, <1>4, <2>2, <2>4 DEF Cost, Side, SoundScale
<1>6. ASSUME NEW f \in F
      PROVE  Cost(comp, points[t]) <= Cost(comp, points[f])
    <2>1. n > 1 /\ n - 1 \in Int /\ n - 1 > 0 /\ P(t) - 1 <= n - 1 /\ P(t) - 1 \in Int
        BY <1>3, PlacesType DEF n
    <2>2. /\ (P(t) - 1) * range <= (n - 1) * range
          /\ (P(t) - 1) * range \in Int /\ (n - 1) * range \in Int
          /\ (n - 1) * range = range * (n - 1)
        BY <1>4, <2>1, TimesMonotone
    <2>3. Offset(t) <= range /\ Offset(t) \in Int
        <3>1. Round3(range * (n - 1), n - 1) = range
            BY <1>4, <2>1, Round3Exact
        <3>2. Offset(t) <= Round3(range * (n - 1), n - 1) /\ Offset(t) \in Int
            BY <2>1, <2>2, Round3Monotone
        <3> QED BY <3>1, <3>2
    <2> HIDE DEF Offset
    <2> QED BY <1>1, <1>2, <1>4, <2>1, <2>3 DEF Cost, Side, SoundScale, range
<1> QED BY <1>5, <1>6 DEF points

\* Costs compare as penalties do, and the other way round as points that are earned.
LEMMA CostOrder ==
    ASSUME NEW comp, comp.plus \in BOOLEAN, NEW p \in Int, NEW q \in Int
    PROVE  /\ Cost(comp, p) \in Int /\ Cost(comp, q) \in Int
           /\ Cost(comp, p) <= Cost(comp, q) <=> IF comp.plus THEN p >= q ELSE p <= q
BY DEF Cost, Side

\* The same for the formula of a table that is empty.
LEMMA PointsByFormula ==
    ASSUME NEW part, NEW comp, SoundScale(part, comp), part.points = <<>>,
           NEW n \in Int, NEW p \in Int, NEW q \in Int, 1 <= p, p <= q, q <= n
    PROVE  Cost(comp, PointsAt(part, comp, n, p)) <= Cost(comp, PointsAt(part, comp, n, q))
<1> DEFINE best == Side(comp, part.max, part.min)
           worst == Side(comp, part.min, part.max)
           gap == best - worst
           Y(w) == best * (n - 1) - (w - 1) * gap
<1>1. /\ best \in Int /\ worst \in Int /\ gap \in Int /\ comp.plus \in BOOLEAN
      /\ IF comp.plus THEN gap >= 0 ELSE gap <= 0
    BY ScaleIsWhole DEF Side, SoundScale
<1>2. \A w : PointsAt(part, comp, n, w) = IF n > 1 THEN Round3(Y(w), n - 1) ELSE best
    BY DEF PointsAt
<1> HIDE DEF best, worst, gap
<1>3. CASE n <= 1
    BY <1>1, <1>2, <1>3, CostOrder
<1>4. CASE n > 1
    <2>1. n - 1 > 0 /\ n - 1 \in Int /\ p - 1 <= q - 1 /\ p - 1 \in Int /\ q - 1 \in Int
          /\ best * (n - 1) \in Int
        BY <1>1, <1>4
    <2>2. /\ (p - 1) * gap \in Int /\ (q - 1) * gap \in Int
          /\ IF comp.plus THEN (p - 1) * gap <= (q - 1) * gap ELSE (p - 1) * gap >= (q - 1) * gap
        <3>1. CASE gap >= 0 /\ comp.plus
            BY <1>1, <2>1, <3>1, TimesMonotone
        <3>2. CASE ~comp.plus
            <4>1. -gap \in Int /\ -gap >= 0
                BY <1>1, <3>2
            <4>2. (p - 1) * (-gap) <= (q - 1) * (-gap)
                BY <2>1, <4>1, TimesMonotone
            <4>3. (p - 1) * (-gap) = -((p - 1) * gap) /\ (q - 1) * (-gap) = -((q - 1) * gap)
                BY <1>1, <2>1
            <4> QED BY <1>1, <2>1, <3>2, <4>2, <4>3
        <3> QED BY <1>1, <3>1, <3>2
    <2>3. Y(p) \in Int /\ Y(q) \in Int /\ IF comp.plus THEN Y(p) >= Y(q) ELSE Y(p) <= Y(q)
        BY <1>1, <2>1, <2>2
    <2> HIDE DEF Y
    <2>4. /\ Round3(Y(p), n - 1) \in Int /\ Round3(Y(q), n - 1) \in Int
          /\ IF comp.plus THEN Round3(Y(p), n - 1) >= Round3(Y(q), n - 1)
                          ELSE Round3(Y(p), n - 1) <= Round3(Y(q), n - 1)
        BY <1>1, <2>1, <2>3, Round3Monotone
    <2> QED BY <1>1, <1>2, <1>4, <2>4, CostOrder
<1> QED BY <1>3, <1>4

\* A place further down never has the better points.
LEMMA PointsAtFollows ==
    ASSUME NEW part, NEW comp, SoundScale(part, comp), SoundTable(part, comp),
           NEW n \in Int, NEW p \in Int, NEW q \in Int, 1 <= p, p <= q, q <= n
    PROVE  Cost(comp, PointsAt(part, comp, n, p)) <= Cost(comp, PointsAt(part, comp, n, q))
<1> DEFINE len == Len(part.points)
           last == part.points[len]
           Y(w) == last * (n - len) - (w - len) * (last - part.min)
<1>1. len \in Nat /\ DOMAIN part.points = 1..len /\ part.points \in Seq(Int)
    BY DEF SoundTable
<1>2. CASE len = 0
    <2>1. part.points = <<>>
        BY <1>1, <1>2
    <2> QED BY <2>1, PointsByFormula
<1>3. CASE len > 0
    <2>1. last \in Int /\ last \in Thousandths /\ part.points # <<>>
          /\ (part.mode # "MANUAL_ALL" => Cost(comp, last) <= Cost(comp, part.min))
        BY <1>1, <1>3 DEF SoundTable
    <2>2. /\ \A w \in Int : (1 <= w /\ w <= len) => PointsAt(part, comp, n, w) = part.points[w]
          /\ \A w \in Int : (w > len /\ part.mode = "MANUAL_ALL") => PointsAt(part, comp, n, w) = last
          /\ \A w \in Int : (w > len /\ w <= n /\ part.mode # "MANUAL_ALL")
                => PointsAt(part, comp, n, w) = Round3(Y(w), n - len)
        BY <1>1, <1>3 DEF PointsAt
    <2>3. \A i, j \in 1..len : i <= j => Cost(comp, part.points[i]) <= Cost(comp, part.points[j])
        BY <1>1 DEF SoundTable
    <2>4. comp.plus \in BOOLEAN /\ part.min \in Int /\ len \in 1..len
        BY <1>1, <1>3, ScaleIsWhole DEF SoundScale
    <2>5. \A i \in 1..len : part.points[i] \in Int
        BY <1>1
    <2>6. CASE q <= len
        <3>1. p \in 1..len /\ q \in 1..len
            BY <1>1, <2>6
        <3> QED BY <2>2, <2>3, <3>1
    <2>7. CASE q > len /\ part.mode = "MANUAL_ALL"
        <3>1. CASE p <= len
            <4>1. p \in 1..len
                BY <1>1, <3>1
            <4> QED BY <2>2, <2>3, <2>4, <2>7, <4>1
        <3>2. CASE p > len
            BY <2>1, <2>2, <2>4, <2>7, <3>2, CostOrder
        <3> QED BY <1>1, <3>1, <3>2
    <2>8. CASE q > len /\ part.mode # "MANUAL_ALL"
        <3> DEFINE gap == last - part.min
        <3>1. n - len > 0 /\ n - len \in Int /\ gap \in Int /\ last * (n - len) \in Int
              /\ IF comp.plus THEN gap >= 0 ELSE gap <= 0
            BY <1>1, <2>1, <2>4, <2>8, CostOrder
        <3>2. /\ \A w \in Int : w * gap \in Int /\ w * (-gap) = -(w * gap)
              /\ 0 * gap = 0 /\ -gap \in Int
            BY <3>1
        <3> HIDE DEF last, len, gap
        <3>3. \A v, w \in Int : v <= w => IF comp.plus THEN v * gap <= w * gap ELSE v * gap >= w * gap
            <4> SUFFICES ASSUME NEW v \in Int, NEW w \in Int, v <= w
                         PROVE  IF comp.plus THEN v * gap <= w * gap ELSE v * gap >= w * gap
                OBVIOUS
            <4>1. CASE comp.plus
                BY <3>1, <4>1, TimesMonotone
            <4>2. CASE ~comp.plus
                <5>1. -gap >= 0
                    BY <3>1, <4>2
                <5>2. v * (-gap) <= w * (-gap)
                    BY <3>2, <5>1, TimesMonotone
                <5> QED BY <3>2, <4>2, <5>2
            <4> QED BY <4>1, <4>2
        <3> DEFINE X(w) == last * (n - len) - (w - len) * gap
        <3>4. \A w \in Int : (w > len /\ w <= n) => PointsAt(part, comp, n, w) = Round3(X(w), n - len)
            BY <2>2, <2>8 DEF gap, last
        <3>5. \A v, w \in Int : v <= w => /\ X(v) \in Int /\ X(w) \in Int
                                         /\ IF comp.plus THEN X(v) >= X(w) ELSE X(v) <= X(w)
            <4> SUFFICES ASSUME NEW v \in Int, NEW w \in Int, v <= w
                         PROVE  /\ X(v) \in Int /\ X(w) \in Int
                                /\ IF comp.plus THEN X(v) >= X(w) ELSE X(v) <= X(w)
                OBVIOUS
            <4>1. v - len \in Int /\ w - len \in Int /\ v - len <= w - len
                BY <1>1
            <4>2. IF comp.plus THEN (v - len) * gap <= (w - len) * gap
                  ELSE (v - len) * gap >= (w - len) * gap
                BY <3>3, <4>1
            <4>3. (v - len) * gap \in Int /\ (w - len) * gap \in Int
                BY <3>2, <4>1
            <4> QED BY <2>4, <3>1, <4>2, <4>3
        <3>6. X(len) = last * (n - len)
            BY <1>1, <3>1, <3>2
        <3> HIDE DEF X
        <3>7. \A v, w \in Int : v <= w =>
                Cost(comp, Round3(X(v), n - len)) <= Cost(comp, Round3(X(w), n - len))
            <4> SUFFICES ASSUME NEW v \in Int, NEW w \in Int, v <= w
                         PROVE  Cost(comp, Round3(X(v), n - len)) <= Cost(comp, Round3(X(w), n - len))
                OBVIOUS
            <4>1. X(v) \in Int /\ X(w) \in Int /\ IF comp.plus THEN X(v) >= X(w) ELSE X(v) <= X(w)
                BY <3>5
            <4>2. /\ Round3(X(v), n - len) \in Int /\ Round3(X(w), n - len) \in Int
                  /\ IF comp.plus THEN Round3(X(v), n - len) >= Round3(X(w), n - len)
                                  ELSE Round3(X(v), n - len) <= Round3(X(w), n - len)
                BY <2>4, <3>1, <4>1, Round3Monotone
            <4> QED BY <2>4, <4>2, CostOrder
        <3>8. Round3(X(len), n - len) = last
            BY <2>1, <3>1, <3>6, Round3Exact
        <3>9. CASE p > len
            <4>1. PointsAt(part, comp, n, p) = Round3(X(p), n - len)
                  /\ PointsAt(part, comp, n, q) = Round3(X(q), n - len)
                BY <2>8, <3>4, <3>9
            <4> QED BY <3>7, <4>1
        <3>10. CASE p <= len
            <4>1. p \in 1..len /\ p <= len /\ len \in Int /\ len <= q
                BY <1>1, <2>8, <3>10
            <4>2. Cost(comp, part.points[p]) <= Cost(comp, last) /\ PointsAt(part, comp, n, p) = part.points[p]
                BY <2>2, <2>3, <2>4, <4>1 DEF last
            <4>3. Cost(comp, last) <= Cost(comp, Round3(X(q), n - len))
                BY <3>7, <3>8, <4>1
            <4>4. PointsAt(part, comp, n, q) = Round3(X(q), n - len)
                BY <2>8, <3>4
            <4>5. /\ Cost(comp, part.points[p]) \in Int /\ Cost(comp, last) \in Int
                  /\ Cost(comp, Round3(X(q), n - len)) \in Int
                <5>1. X(q) \in Int
                    BY <3>5
                <5>2. Round3(X(q), n - len) \in Int
                    BY <3>1, <5>1, Round3Monotone
                <5> QED BY <2>1, <2>4, <2>5, <4>1, <5>2, CostOrder
            <4> QED BY <4>2, <4>3, <4>4, <4>5
        <3> QED BY <1>1, <3>9, <3>10
    <2> QED BY <1>1, <2>6, <2>7, <2>8
<1> QED BY <1>1, <1>2, <1>3

\* In a table who is ahead pays less, and nobody more than who failed
\* (applyFixedRanking).
LEMMA FixedTableFollows ==
    ASSUME NEW part, NEW comp, NEW E, NEW S, NEW F, SoundScale(part, comp), SoundTable(part, comp),
           Sound(E, S), Null \notin Int, IsFiniteSet(S), IsFiniteSet(F), S \cap F = {},
           NEW t \in S
    PROVE  LET points == FixedTable(part, comp, E, S, F)
           IN  /\ \A u \in S : Ahead(part, E[t], E[u]) => Cost(comp, points[t]) <= Cost(comp, points[u])
               /\ \A f \in F : Cost(comp, points[t]) <= Cost(comp, points[f])
<1> DEFINE n == Places(S, F)
           P(w) == PlaceIn(part, E, S, w)
           points == FixedTable(part, comp, E, S, F)
<1>1. /\ \A w \in S : points[w] = PointsAt(part, comp, n, P(w))
      /\ \A f \in F : points[f] = PointsAt(part, comp, n, n)
    BY DEF FixedTable
<1>2. n \in Int /\ n <= n /\ \A w \in S : P(w) \in Int /\ 1 <= P(w) /\ P(w) <= n
    BY PlaceType, PlacesType
<1>3. \A u \in S : Ahead(part, E[t], E[u]) => P(t) <= P(u)
    BY <1>2, PlacesFollowOrder
<1> HIDE DEF n, P, points
<1>4. \A u \in S : Ahead(part, E[t], E[u]) => Cost(comp, points[t]) <= Cost(comp, points[u])
    BY <1>1, <1>2, <1>3, PointsAtFollows
<1>5. \A f \in F : Cost(comp, points[t]) <= Cost(comp, points[f])
    BY <1>1, <1>2, PointsAtFollows
<1> QED BY <1>4, <1>5 DEF points

KeyOf(part, comp, E, t) == ScopeKey(part.scope, E[t].class, comp.groups)

\* Points by the number of teams follow the place, up to the last one
\* (registeredCountPoints).
LEMMA RegisteredCountFollows ==
    ASSUME NEW part, NEW comp, SoundCount(part, comp),
           NEW p \in Int, NEW q \in Int, NEW n \in Int, NEW last \in Int,
           1 <= p, p <= q, 1 <= n, n <= last
    PROVE  /\ Cost(comp, RegisteredCountPoints(part, comp, p, n))
                 <= Cost(comp, RegisteredCountPoints(part, comp, q, n))
           /\ Cost(comp, RegisteredCountPoints(part, comp, p, n))
                 <= Cost(comp, RegisteredCountPoints(part, comp, last, last))
<1> DEFINE Capped(w) == IF w > n THEN n ELSE w
           Steps(w) == IF comp.plus THEN n - Capped(w) ELSE Capped(w) - 1
           LastPlace == IF comp.plus THEN 0 ELSE last - 1
<1>1. /\ \A w : RegisteredCountPoints(part, comp, w, n) = part.base + Steps(w) * part.step
      /\ RegisteredCountPoints(part, comp, last, last) = part.base + LastPlace * part.step
    BY DEF RegisteredCountPoints
<1>2. /\ comp.plus \in BOOLEAN /\ part.base \in Int /\ part.step \in Int /\ part.step >= 0
    BY DEF SoundCount
<1>3. /\ Steps(p) \in Int /\ Steps(q) \in Int /\ LastPlace \in Int
      /\ IF comp.plus THEN Steps(q) <= Steps(p) /\ LastPlace <= Steps(p)
                      ELSE Steps(p) <= Steps(q) /\ Steps(p) <= LastPlace
    BY <1>2
<1> HIDE DEF Steps, LastPlace
<1>4. /\ Steps(p) * part.step \in Int /\ Steps(q) * part.step \in Int /\ LastPlace * part.step \in Int
      /\ IF comp.plus THEN /\ Steps(q) * part.step <= Steps(p) * part.step
                           /\ LastPlace * part.step <= Steps(p) * part.step
                      ELSE /\ Steps(p) * part.step <= Steps(q) * part.step
                           /\ Steps(p) * part.step <= LastPlace * part.step
    BY <1>2, <1>3, TimesMonotone
<1> QED BY <1>1, <1>2, <1>4, CostOrder

\* In a list by the number of teams who is ahead pays less, and nobody more than who
\* failed (applyTeamCountRanking).
LEMMA TeamCountFollows ==
    ASSUME NEW part, NEW comp, NEW E, NEW S, NEW F, SoundCount(part, comp),
           Sound(E, S), Null \notin Int, IsFiniteSet(S), IsFiniteSet(F), S \cap F = {},
           NEW t \in S
    PROVE  LET points == TeamCount(part, comp, E, S, F)
           IN  /\ \A u \in S : (Ahead(part, E[t], E[u]) /\ KeyOf(part, comp, E, t) = KeyOf(part, comp, E, u))
                     => Cost(comp, points[t]) <= Cost(comp, points[u])
               /\ \A f \in F : KeyOf(part, comp, E, t) = KeyOf(part, comp, E, f)
                     => Cost(comp, points[t]) <= Cost(comp, points[f])
<1> DEFINE Key(w) == KeyOf(part, comp, E, w)
           Bucket(T, w) == {v \in T : Key(v) = Key(w)}
           InBucket(w) == Cardinality(Bucket(S \cup F, w))
           N(w) == IF Key(w) \in DOMAIN comp.registered
                   THEN (IF comp.registered[Key(w)] > 1 THEN comp.registered[Key(w)] ELSE 1)
                   ELSE InBucket(w)
           LastPlace(w) == IF InBucket(w) > N(w) THEN InBucket(w) ELSE N(w)
           points == TeamCount(part, comp, E, S, F)
<1>1. /\ \A w \in S : points[w] =
            RegisteredCountPoints(part, comp, PlaceIn(part, E, Bucket(S, w), w), N(w))
      /\ \A f \in F : points[f] = RegisteredCountPoints(part, comp, LastPlace(f), LastPlace(f))
    BY DEF TeamCount, KeyOf
<1>2. \A w \in S \cup F : Key(w) = Key(t) => /\ Bucket(S, w) = Bucket(S, t)
                                            /\ InBucket(w) = InBucket(t) /\ N(w) = N(t)
                                            /\ LastPlace(w) = LastPlace(t)
    OBVIOUS
<1>3. /\ Bucket(S, t) \in SUBSET S /\ t \in Bucket(S, t)
      /\ Bucket(S \cup F, t) \in SUBSET (S \cup F) /\ t \in Bucket(S \cup F, t)
    OBVIOUS
<1>4. IsFiniteSet(Bucket(S, t)) /\ IsFiniteSet(Bucket(S \cup F, t))
    <2> HIDE DEF Bucket
    <2> QED BY <1>3, FS_Subset, FS_Union
<1>5. Sound(E, Bucket(S, t))
    BY DEF Sound
<1>6. InBucket(t) \in Nat /\ InBucket(t) >= 1
    <2> HIDE DEF Bucket
    <2>1. Cardinality(Bucket(S \cup F, t)) \in Nat /\ Cardinality(Bucket(S \cup F, t)) # 0
        BY <1>3, <1>4, FS_CardinalityType, FS_EmptySet
    <2> QED BY <2>1
<1>7. N(t) \in Int /\ 1 <= N(t) /\ LastPlace(t) \in Int /\ N(t) <= LastPlace(t)
    <2> HIDE DEF Key, InBucket
    <2> QED BY <1>6 DEF SoundCount
<1> HIDE DEF Bucket, N, LastPlace, points
<1>8. PlaceIn(part, E, Bucket(S, t), t) \in Int /\ 1 <= PlaceIn(part, E, Bucket(S, t), t)
    BY <1>3, <1>4, <1>5, PlaceType
<1>9. ASSUME NEW u \in S, Ahead(part, E[t], E[u]), Key(t) = Key(u)
      PROVE  Cost(comp, points[t]) <= Cost(comp, points[u])
    <2>1. u \in Bucket(S, t) /\ Bucket(S, u) = Bucket(S, t) /\ N(u) = N(t)
        BY <1>2, <1>9 DEF Bucket
    <2>2. PlaceIn(part, E, Bucket(S, t), t) < PlaceIn(part, E, Bucket(S, t), u)
          /\ PlaceIn(part, E, Bucket(S, t), u) \in Int
        BY <1>3, <1>4, <1>5, <1>9, <2>1, PlacesFollowOrder, PlaceType
    <2>3. PlaceIn(part, E, Bucket(S, t), t) <= PlaceIn(part, E, Bucket(S, t), u)
        BY <1>8, <2>2
    <2> QED BY <1>1, <1>7, <1>8, <2>1, <2>2, <2>3, RegisteredCountFollows
<1>10. ASSUME NEW f \in F, Key(t) = Key(f)
       PROVE  Cost(comp, points[t]) <= Cost(comp, points[f])
    <2>1. LastPlace(f) = LastPlace(t)
        BY <1>2, <1>10
    <2>2. PlaceIn(part, E, Bucket(S, t), t) <= PlaceIn(part, E, Bucket(S, t), t)
        BY <1>8
    <2> QED BY <1>1, <1>7, <1>8, <2>1, <2>2, RegisteredCountFollows
<1> QED BY <1>9, <1>10 DEF points

-----------------------------------------------------------------------------
(* VALUE_BASED: points in proportion to the value.                          *)

\* An element of a finite set with nothing before it in a strict order.
LEMMA MinimalElement ==
    ASSUME NEW V, IsFiniteSet(V), V # {}, NEW R,
           \A v \in V : <<v, v>> \notin R,
           \A u, v, w \in V : <<u, v>> \in R /\ <<v, w>> \in R => <<u, w>> \in R
    PROVE  \E v \in V : \A w \in V : <<w, v>> \notin R
<1> DEFINE Before(v) == {w \in V : <<w, v>> \in R}
           counts == {Cardinality(Before(v)) : v \in V}
<1>1. \A v \in V : IsFiniteSet(Before(v)) /\ Cardinality(Before(v)) \in Nat
    BY FS_Subset, FS_CardinalityType
<1>2. counts \in SUBSET Nat /\ counts # {}
    <2> HIDE DEF Before
    <2> QED BY <1>1
<1>3. PICK n \in counts : \A m \in counts : ~(m < n)
    <2>1. IsWellFoundedOn(OpToRel(<, Nat), Nat)
        BY NatLessThanWellFounded
    <2> HIDE DEF counts
    <2>2. PICK n \in counts : \A m \in counts : <<m, n>> \notin OpToRel(<, Nat)
        BY <1>2, <2>1, WFMin
    <2> QED BY <1>2, <2>2 DEF OpToRel
<1>4. PICK v \in V : n = Cardinality(Before(v))
    OBVIOUS
<1>5. ASSUME NEW w \in V, <<w, v>> \in R PROVE FALSE
    <2>1. Before(w) \in SUBSET Before(v) /\ w \in Before(v) /\ w \notin Before(w)
        BY <1>5
    <2>2. Before(w) # Before(v)
        BY <2>1
    <2>3. Cardinality(Before(w)) \in counts
        OBVIOUS
    <2> HIDE DEF Before, counts
    <2>4. Cardinality(Before(w)) < Cardinality(Before(v))
        <3>1. /\ Cardinality(Before(w)) <= Cardinality(Before(v))
              /\ Cardinality(Before(v)) = Cardinality(Before(w)) => Before(v) = Before(w)
            BY <1>1, <2>1, FS_Subset
        <3> QED BY <1>1, <2>2, <3>1
    <2> QED BY <1>3, <1>4, <2>3, <2>4
<1> QED BY <1>5

\* A finite set of integers has a lowest and a highest element.
LEMMA Extremes ==
    ASSUME NEW V \in SUBSET Int, IsFiniteSet(V), V # {}
    PROVE  /\ \E v \in V : \A w \in V : v <= w
           /\ \E v \in V : \A w \in V : v >= w
<1>1. \E v \in V : \A w \in V : v <= w
    <2> DEFINE R == {p \in V \X V : p[1] < p[2]}
    <2>1. /\ \A v \in V : <<v, v>> \notin R
          /\ \A u, v, w \in V : <<u, v>> \in R /\ <<v, w>> \in R => <<u, w>> \in R
        OBVIOUS
    <2>2. \A v, w \in V : <<w, v>> \notin R => v <= w
        OBVIOUS
    <2> HIDE DEF R
    <2>3. \E v \in V : \A w \in V : <<w, v>> \notin R
        BY <2>1, MinimalElement
    <2> QED BY <2>2, <2>3
<1>2. \E v \in V : \A w \in V : v >= w
    <2> DEFINE R == {p \in V \X V : p[1] > p[2]}
    <2>1. /\ \A v \in V : <<v, v>> \notin R
          /\ \A u, v, w \in V : <<u, v>> \in R /\ <<v, w>> \in R => <<u, w>> \in R
        OBVIOUS
    <2>2. \A v, w \in V : <<w, v>> \notin R => v >= w
        OBVIOUS
    <2> HIDE DEF R
    <2>3. \E v \in V : \A w \in V : <<w, v>> \notin R
        BY <2>1, MinimalElement
    <2> QED BY <2>2, <2>3
<1> QED BY <1>1, <1>2

\* The parts of ValueBased for one team.
StepsOf(part, E, S, t) ==
    IF Undecided(part, E, S, t) THEN 0
    ELSE SpreadSteps(E[t].value = WorstValue(part, E, S), Cardinality(SameValue(E, S, t)),
                     PlaceIn(part, E, SameValue(E, S, t), t) - 1)
Numerator(part, comp, E, S, t) ==
    LET own == ValuePoints(part, comp, E, S, E[t].value)
        next == ValuePoints(part, comp, E, S, Neighbour(part, E, S, E[t].value))
    IN  own * (Cardinality(SameValue(E, S, t)) + 1) + (next - own) * StepsOf(part, E, S, t)

\* The points of a team that succeeded, case by case.
LEMMA ValueBasedByParts ==
    ASSUME NEW part, NEW comp, NEW E, NEW S, NEW F, S \cap F = {}, NEW t \in S
    PROVE  /\ Breadth(E, S) = 0 => ValueBased(part, comp, E, S, F)[t] = BestPoints(part, comp)
           /\ (Breadth(E, S) # 0 /\ part.tieBreak = "NONE") =>
                ValueBased(part, comp, E, S, F)[t]
                    = Round3(ValuePoints(part, comp, E, S, E[t].value), Breadth(E, S))
           /\ (Breadth(E, S) # 0 /\ part.tieBreak # "NONE" /\ Undecided(part, E, S, t)) =>
                ValueBased(part, comp, E, S, F)[t]
                    = RoundDiv(ValuePoints(part, comp, E, S, E[t].value), Breadth(E, S))
           /\ (Breadth(E, S) # 0 /\ part.tieBreak # "NONE" /\ ~Undecided(part, E, S, t)) =>
                ValueBased(part, comp, E, S, F)[t] =
                    RoundDiv(Numerator(part, comp, E, S, t),
                             Breadth(E, S) * (Cardinality(SameValue(E, S, t)) + 1))
<1> DEFINE own == ValuePoints(part, comp, E, S, E[t].value)
           points == ValueBased(part, comp, E, S, F)[t]
<1>1. t \notin F /\ t \in S \cup F
    OBVIOUS
<1>2. points = CASE t \in F -> Side(comp, part.min, part.max)
                 [] t \notin F /\ Breadth(E, S) = 0 -> BestPoints(part, comp)
                 [] t \notin F /\ Breadth(E, S) # 0 /\ part.tieBreak = "NONE" -> Round3(own, Breadth(E, S))
                 [] OTHER -> IF Undecided(part, E, S, t) THEN RoundDiv(own, Breadth(E, S))
                             ELSE SpreadPoints(part, comp, E, S, t)
    BY <1>1 DEF ValueBased
<1>3. ~Undecided(part, E, S, t) => SpreadPoints(part, comp, E, S, t)
        = RoundDiv(Numerator(part, comp, E, S, t), Breadth(E, S) * (Cardinality(SameValue(E, S, t)) + 1))
    <2> HAVE ~Undecided(part, E, S, t)
    <2>1. StepsOf(part, E, S, t) = SpreadSteps(E[t].value = WorstValue(part, E, S),
            Cardinality(SameValue(E, S, t)), PlaceIn(part, E, SameValue(E, S, t), t) - 1)
        BY DEF StepsOf
    <2> QED BY <2>1 DEF SpreadPoints, Numerator
<1> HIDE DEF points, own
<1>4. /\ Breadth(E, S) = 0 => points = BestPoints(part, comp)
      /\ (Breadth(E, S) # 0 /\ part.tieBreak = "NONE") => points = Round3(own, Breadth(E, S))
      /\ (Breadth(E, S) # 0 /\ part.tieBreak # "NONE") =>
            points = IF Undecided(part, E, S, t) THEN RoundDiv(own, Breadth(E, S))
                     ELSE SpreadPoints(part, comp, E, S, t)
    BY <1>1, <1>2
<1> QED BY <1>3, <1>4 DEF points, own

\* Values and how far they are from the best one.
LEMMA ValuesType ==
    ASSUME NEW E, NEW S, Sound(E, S), IsFiniteSet(S), S # {}, NEW part
    PROVE  /\ ValuesOf(E, S) \in SUBSET Int /\ IsFiniteSet(ValuesOf(E, S))
           /\ BestValue(part, E, S) \in ValuesOf(E, S) /\ WorstValue(part, E, S) \in ValuesOf(E, S)
           /\ Breadth(E, S) \in Nat
           /\ \A v \in ValuesOf(E, S) : /\ Away(part, E, S, v) \in Nat
                                       /\ Away(part, E, S, v) <= Breadth(E, S)
           /\ Away(part, E, S, WorstValue(part, E, S)) = Breadth(E, S)
           /\ Away(part, E, S, BestValue(part, E, S)) = 0
           /\ \A v, w \in ValuesOf(E, S) :
                /\ Away(part, E, S, v) = Away(part, E, S, w) => v = w
                /\ Nearer(part, E, S, v, w) <=> IF part.higher THEN v > w ELSE v < w
<1> DEFINE V == ValuesOf(E, S)
<1>1. V \in SUBSET Int /\ V # {}
    BY DEF Sound, ValuesOf
<1>2. IsFiniteSet(V)
    <2> DEFINE f == [t \in S |-> E[t].value]
    <2>1. f \in Surjection(S, V)
        BY DEF ValuesOf, Surjection
    <2> HIDE DEF f, V
    <2> QED BY <2>1, FS_Surjection
<1> HIDE DEF V
<1>3. /\ Lowest(E, S) \in V /\ \A w \in V : Lowest(E, S) <= w
      /\ Highest(E, S) \in V /\ \A w \in V : Highest(E, S) >= w
    BY <1>1, <1>2, Extremes DEF Lowest, Highest, V
<1>4. /\ Breadth(E, S) = Highest(E, S) - Lowest(E, S) /\ Breadth(E, S) \in Nat
      /\ BestValue(part, E, S) \in V /\ WorstValue(part, E, S) \in V
      /\ part.higher => (BestValue(part, E, S) = Highest(E, S) /\ WorstValue(part, E, S) = Lowest(E, S))
      /\ ~part.higher => (BestValue(part, E, S) = Lowest(E, S) /\ WorstValue(part, E, S) = Highest(E, S))
    <2>1. /\ part.higher => (BestValue(part, E, S) = Highest(E, S) /\ WorstValue(part, E, S) = Lowest(E, S))
          /\ ~part.higher => (BestValue(part, E, S) = Lowest(E, S) /\ WorstValue(part, E, S) = Highest(E, S))
        BY DEF BestValue, WorstValue
    <2>2. Lowest(E, S) \in Int /\ Highest(E, S) \in Int /\ Lowest(E, S) <= Highest(E, S)
        BY <1>1, <1>3
    <2>3. Breadth(E, S) = Highest(E, S) - Lowest(E, S) /\ Breadth(E, S) \in Nat
        BY <2>2 DEF Breadth
    <2> QED BY <1>3, <2>1, <2>3
<1>5. \A v \in V : /\ v \in Int
                  /\ Away(part, E, S, v) = IF part.higher THEN Highest(E, S) - v ELSE v - Lowest(E, S)
    <2> TAKE v \in V
    <2>1. v \in Int /\ Lowest(E, S) \in Int /\ Highest(E, S) \in Int /\ Lowest(E, S) <= v /\ v <= Highest(E, S)
        BY <1>1, <1>3
    <2>2. CASE part.higher
        BY <1>4, <2>1, <2>2 DEF Away, Magnitude
    <2>3. CASE ~part.higher
        BY <1>4, <2>1, <2>3 DEF Away, Magnitude
    <2> QED BY <2>1, <2>2, <2>3
<1>6. Lowest(E, S) \in Int /\ Highest(E, S) \in Int
    BY <1>1, <1>3
<1>7. CASE part.higher
    <2>1. \A v \in V : v \in Int /\ v <= Highest(E, S) /\ Lowest(E, S) <= v
                       /\ Away(part, E, S, v) = Highest(E, S) - v
        BY <1>3, <1>5, <1>7
    <2>2. \A v \in V : Away(part, E, S, v) \in Nat /\ Away(part, E, S, v) <= Breadth(E, S)
        BY <1>4, <1>6, <2>1
    <2>3. /\ Away(part, E, S, WorstValue(part, E, S)) = Breadth(E, S)
          /\ Away(part, E, S, BestValue(part, E, S)) = 0
        BY <1>3, <1>4, <1>6, <1>7, <2>1
    <2>4. \A v, w \in V : /\ Away(part, E, S, v) = Away(part, E, S, w) => v = w
                         /\ Nearer(part, E, S, v, w) <=> v > w
        BY <1>6, <2>1 DEF Nearer
    <2> QED BY <1>1, <1>2, <1>4, <1>7, <2>2, <2>3, <2>4 DEF V
<1>8. CASE ~part.higher
    <2>1. \A v \in V : v \in Int /\ v <= Highest(E, S) /\ Lowest(E, S) <= v
                       /\ Away(part, E, S, v) = v - Lowest(E, S)
        BY <1>3, <1>5, <1>8
    <2>2. \A v \in V : Away(part, E, S, v) \in Nat /\ Away(part, E, S, v) <= Breadth(E, S)
        BY <1>4, <1>6, <2>1
    <2>3. /\ Away(part, E, S, WorstValue(part, E, S)) = Breadth(E, S)
          /\ Away(part, E, S, BestValue(part, E, S)) = 0
        BY <1>3, <1>4, <1>6, <1>8, <2>1
    <2>4. \A v, w \in V : /\ Away(part, E, S, v) = Away(part, E, S, w) => v = w
                         /\ Nearer(part, E, S, v, w) <=> v < w
        BY <1>6, <2>1 DEF Nearer
    <2> QED BY <1>1, <1>2, <1>4, <1>8, <2>2, <2>3, <2>4 DEF V
<1> QED BY <1>7, <1>8

\* The neighbour of a value is the next worse one, and of the worst value the next better.
LEMMA NeighbourType ==
    ASSUME NEW E, NEW S, Sound(E, S), IsFiniteSet(S), S # {}, NEW part, Breadth(E, S) # 0,
           NEW v \in ValuesOf(E, S)
    PROVE  /\ Neighbour(part, E, S, v) \in ValuesOf(E, S)
           /\ v # WorstValue(part, E, S) =>
                /\ Nearer(part, E, S, v, Neighbour(part, E, S, v))
                /\ \A x \in ValuesOf(E, S) : Nearer(part, E, S, v, x) =>
                      Away(part, E, S, Neighbour(part, E, S, v)) <= Away(part, E, S, x)
           /\ v = WorstValue(part, E, S) =>
                /\ Nearer(part, E, S, Neighbour(part, E, S, v), v)
                /\ \A x \in ValuesOf(E, S) : Nearer(part, E, S, x, v) =>
                      Away(part, E, S, x) <= Away(part, E, S, Neighbour(part, E, S, v))
<1> DEFINE V == ValuesOf(E, S)
           A(x) == Away(part, E, S, x)
           worst == WorstValue(part, E, S)
           best == BestValue(part, E, S)
<1>1. /\ V \in SUBSET Int /\ IsFiniteSet(V) /\ best \in V /\ worst \in V
      /\ Breadth(E, S) \in Nat /\ A(worst) = Breadth(E, S) /\ A(best) = 0
      /\ \A x \in V : A(x) \in Nat /\ A(x) <= Breadth(E, S)
      /\ \A x, y \in V : A(x) = A(y) => x = y
    BY ValuesType
<1>2. \A x, y : Nearer(part, E, S, x, y) <=> A(x) < A(y)
    BY DEF Nearer
<1>3. \A x, y : Between(part, E, S, x, y) = {z \in V : A(x) < A(z) /\ A(z) < A(y)}
    BY DEF Between, Nearer
<1> HIDE DEF V, A, worst, best
<1>4. CASE v # worst
    <2> DEFINE further == {w \in V : A(v) < A(w)}
               R == {p \in V \X V : A(p[1]) < A(p[2])}
    <2>1. A(v) < A(worst)
        BY <1>1, <1>4 DEF V
    <2>2. worst \in further /\ further \in SUBSET V /\ IsFiniteSet(further)
        <3>1. worst \in further /\ further \in SUBSET V
            BY <1>1, <2>1
        <3> HIDE DEF further
        <3> QED BY <1>1, <3>1, FS_Subset
    <2>3. \E w \in further : \A x \in further : <<x, w>> \notin R
        <3>1. /\ \A x \in further : <<x, x>> \notin R
              /\ \A x, y, z \in further : <<x, y>> \in R /\ <<y, z>> \in R => <<x, z>> \in R
            BY <1>1
        <3>2. further # {}
            BY <2>2
        <3> HIDE DEF further, R
        <3> QED BY <2>2, <3>1, <3>2, MinimalElement
    <2>4. \E w \in V : A(v) < A(w) /\ {z \in V : A(v) < A(z) /\ A(z) < A(w)} = {}
        BY <2>3
    <2> DEFINE next == CHOOSE w \in V : A(v) < A(w) /\ {z \in V : A(v) < A(z) /\ A(z) < A(w)} = {}
    <2>5. Neighbour(part, E, S, v) = next
        BY <1>2, <1>3, <1>4 DEF Neighbour, V, worst
    <2>6. next \in V /\ A(v) < A(next) /\ {z \in V : A(v) < A(z) /\ A(z) < A(next)} = {}
        BY <2>4
    <2> HIDE DEF next
    <2>7. \A x \in V : A(v) < A(x) => A(next) <= A(x)
        BY <1>1, <2>6
    <2> QED BY <1>2, <1>4, <2>5, <2>6, <2>7 DEF V, A, worst
<1>5. CASE v = worst
    <2> DEFINE nearer == {w \in V : A(w) < A(v)}
               R == {p \in V \X V : A(p[1]) > A(p[2])}
    <2>1. A(best) < A(v)
        BY <1>1, <1>5
    <2>2. best \in nearer /\ nearer \in SUBSET V /\ IsFiniteSet(nearer)
        <3>1. best \in nearer /\ nearer \in SUBSET V
            BY <1>1, <2>1
        <3> HIDE DEF nearer
        <3> QED BY <1>1, <3>1, FS_Subset
    <2>3. \E w \in nearer : \A x \in nearer : <<x, w>> \notin R
        <3>1. /\ \A x \in nearer : <<x, x>> \notin R
              /\ \A x, y, z \in nearer : <<x, y>> \in R /\ <<y, z>> \in R => <<x, z>> \in R
            BY <1>1
        <3>2. nearer # {}
            BY <2>2
        <3> HIDE DEF nearer, R
        <3> QED BY <2>2, <3>1, <3>2, MinimalElement
    <2>4. \E w \in V : A(w) < A(v) /\ {z \in V : A(w) < A(z) /\ A(z) < A(v)} = {}
        BY <2>3
    <2> DEFINE next == CHOOSE w \in V : A(w) < A(v) /\ {z \in V : A(w) < A(z) /\ A(z) < A(v)} = {}
    <2>5. Neighbour(part, E, S, v) = next
        BY <1>2, <1>3, <1>5 DEF Neighbour, V, worst
    <2>6. next \in V /\ A(next) < A(v) /\ {z \in V : A(next) < A(z) /\ A(z) < A(v)} = {}
        BY <2>4
    <2> HIDE DEF next
    <2>7. \A x \in V : A(x) < A(v) => A(x) <= A(next)
        BY <1>1, <2>6
    <2> QED BY <1>2, <1>5, <2>5, <2>6, <2>7 DEF V, A, worst
<1> QED BY <1>4, <1>5

\* A share of the range between the best and the worst points, as ValueBased counts it.
Share(comp, best, range, b, x) == best * b + (IF comp.plus THEN -(range * x) ELSE range * x)

\* The points of x steps away from the best, of B * k steps in all.
SharePoints(comp, best, range, B, k, x) == RoundDiv(Share(comp, best, range, B * k, x), B * k)

\* Who is fewer steps away, of the same whole, pays less.
LEMMA SharesFollow ==
    ASSUME NEW comp, comp.plus \in BOOLEAN, NEW best \in Int, NEW range \in Int, range >= 0,
           NEW B \in Int, B > 0, NEW k \in Int, k > 0, NEW l \in Int, l > 0,
           NEW x \in Int, NEW y \in Int, x * l <= y * k
    PROVE  Cost(comp, SharePoints(comp, best, range, B, k, x))
             <= Cost(comp, SharePoints(comp, best, range, B, l, y))
<1> DEFINE bk == B * k
           bl == B * l
           m == Share(comp, best, range, bk, x)
           n == Share(comp, best, range, bl, y)
<1>1. bk \in Int /\ bl \in Int /\ bk > 0 /\ bl > 0
    OBVIOUS
<1>2. range * x \in Int /\ range * y \in Int /\ best * bk \in Int /\ best * bl \in Int
    OBVIOUS
<1>3. m \in Int /\ n \in Int
    BY <1>2 DEF Share
<1>4. (range * x) * bl <= (range * y) * bk /\ (range * x) * bl \in Int /\ (range * y) * bk \in Int
    <2>1. x * l \in Int /\ y * k \in Int /\ range * B \in Int /\ range * B >= 0
        OBVIOUS
    <2>2. (range * B) * (x * l) <= (range * B) * (y * k)
        BY <2>1, TimesMonotone
    <2>3. (range * B) * (x * l) = (range * x) * bl /\ (range * B) * (y * k) = (range * y) * bk
        OBVIOUS
    <2>4. (range * x) * bl \in Int /\ (range * y) * bk \in Int
        OBVIOUS
    <2> QED BY <2>2, <2>3, <2>4
<1>5. (best * bk) * bl = (best * bl) * bk /\ (best * bk) * bl \in Int
    OBVIOUS
<1>6. CASE comp.plus
    <2>1. m = best * bk - range * x /\ n = best * bl - range * y
        BY <1>2, <1>6 DEF Share
    <2>2. n * bk = (best * bl) * bk - (range * y) * bk /\ m * bl = (best * bk) * bl - (range * x) * bl
        BY <2>1
    <2>3. n * bk <= m * bl
        BY <1>4, <1>5, <2>2
    <2> HIDE DEF bk, bl, m, n
    <2>4. RoundDiv(n, bl) <= RoundDiv(m, bk) /\ RoundDiv(n, bl) \in Int /\ RoundDiv(m, bk) \in Int
        BY <1>1, <1>3, <2>3, RoundDivFractions
    <2>5. Cost(comp, RoundDiv(m, bk)) <= Cost(comp, RoundDiv(n, bl))
        BY <1>6, <2>4 DEF Cost, Side
    <2> QED BY <2>5 DEF bk, bl, m, n, SharePoints
<1>7. CASE ~comp.plus
    <2>1. m = best * bk + range * x /\ n = best * bl + range * y
        BY <1>2, <1>7 DEF Share
    <2>2. n * bk = (best * bl) * bk + (range * y) * bk /\ m * bl = (best * bk) * bl + (range * x) * bl
        BY <2>1
    <2>3. m * bl <= n * bk
        BY <1>4, <1>5, <2>2
    <2> HIDE DEF bk, bl, m, n
    <2>4. RoundDiv(m, bk) <= RoundDiv(n, bl) /\ RoundDiv(n, bl) \in Int /\ RoundDiv(m, bk) \in Int
        BY <1>1, <1>3, <2>3, RoundDivFractions
    <2>5. Cost(comp, RoundDiv(m, bk)) <= Cost(comp, RoundDiv(n, bl))
        BY <1>7, <2>4 DEF Cost, Side
    <2> QED BY <2>5 DEF bk, bl, m, n, SharePoints
<1> QED BY <1>6, <1>7

\* The shares of two groups of k and l teams do not overlap while (k - 1) * (l - 1) <= 4.
LEMMA SharesApart ==
    ASSUME NEW a \in Int, NEW c \in Int, a < c, NEW k \in Nat, k > 0, NEW l \in Nat, l > 0,
           NEW i \in Int, 0 <= i, i <= k - 1, NEW j \in Int, 0 <= j, j <= l - 1,
           NEW e \in Int, a < e, e <= c, NEW g \in Int,
           \/ g > c
           \/ a <= g /\ g < c /\ (k - 1) * (l - 1) <= 4
    PROVE  (a * (k + 1) + (e - a) * i) * (l + 1) <= (c * (l + 1) + (g - c) * j) * (k + 1)
<1> DEFINE d == c - a
           x == a * (k + 1) + (e - a) * i
           y == c * (l + 1) + (g - c) * j
<1>1. d \in Int /\ d > 0 /\ x \in Int /\ y \in Int /\ k + 1 \in Int /\ l + 1 \in Int /\ k + 1 >= 0 /\ l + 1 >= 0
      /\ k - 1 \in Int /\ k - 1 >= 0 /\ l - 1 \in Int /\ l - 1 >= 0
    OBVIOUS
\* The near group takes at most k - 1 of k + 1 steps.
<1>2. x <= a * (k + 1) + d * (k - 1)
    <2>1. (e - a) * i <= d * i /\ (e - a) * i \in Int /\ d * i \in Int
        <3>1. e - a \in Int /\ e - a <= d
            OBVIOUS
        <3> QED BY <1>1, <3>1, TimesMonotone
    <2>2. d * i <= d * (k - 1) /\ d * (k - 1) \in Int
        BY <1>1, TimesMonotone
    <2>3. a * (k + 1) \in Int
        OBVIOUS
    <2> HIDE DEF d
    <2> QED BY <2>1, <2>2, <2>3
<1>3. x * (l + 1) <= (a * (k + 1) + d * (k - 1)) * (l + 1)
    <2>1. a * (k + 1) + d * (k - 1) \in Int
        BY <1>1
    <2> HIDE DEF x, d
    <2> QED BY <1>1, <1>2, <2>1, TimesMonotone
<1>4. CASE g > c
    <2>1. (g - c) * j >= 0 /\ (g - c) * j \in Int
        BY <1>4
    <2>2. c * (l + 1) <= y /\ c * (l + 1) \in Int
        BY <2>1
    <2>3. (c * (l + 1)) * (k + 1) <= y * (k + 1)
        <3> HIDE DEF y
        <3> QED BY <1>1, <2>2, TimesMonotone
    <2>4. a * (k + 1) + d * (k - 1) <= c * (k + 1)
        <3>1. c * (k + 1) = a * (k + 1) + d * (k - 1) + 2 * d
            OBVIOUS
        <3>2. a * (k + 1) + d * (k - 1) \in Int
            BY <1>1
        <3> HIDE DEF d
        <3> QED BY <1>1, <3>1, <3>2
    <2>5. (a * (k + 1) + d * (k - 1)) * (l + 1) <= (c * (k + 1)) * (l + 1)
        <3>1. a * (k + 1) + d * (k - 1) \in Int /\ c * (k + 1) \in Int
            BY <1>1
        <3> HIDE DEF d
        <3> QED BY <1>1, <2>4, <3>1, TimesMonotone
    <2>6. (c * (k + 1)) * (l + 1) = (c * (l + 1)) * (k + 1) /\ (c * (k + 1)) * (l + 1) \in Int
        OBVIOUS
    <2>7. x * (l + 1) \in Int /\ y * (k + 1) \in Int /\ (a * (k + 1) + d * (k - 1)) * (l + 1) \in Int
        BY <1>1
    <2> HIDE DEF x, y, d
    <2>8. x * (l + 1) <= y * (k + 1)
        BY <1>3, <2>3, <2>5, <2>6, <2>7
    <2> QED BY <2>8 DEF x, y
<1>5. CASE a <= g /\ g < c /\ (k - 1) * (l - 1) <= 4
    <2>1. (c - g) * j <= d * (l - 1) /\ (c - g) * j \in Int /\ d * (l - 1) \in Int
        <3>1. c - g \in Int /\ c - g <= d
            BY <1>5
        <3>2. (c - g) * j <= d * j /\ (c - g) * j \in Int /\ d * j \in Int
            <4> HIDE DEF d
            <4> QED BY <1>1, <3>1, TimesMonotone
        <3>3. d * j <= d * (l - 1) /\ d * (l - 1) \in Int
            <4> HIDE DEF d
            <4> QED BY <1>1, TimesMonotone
        <3> HIDE DEF d
        <3> QED BY <3>2, <3>3
    <2>2. y = c * (l + 1) - (c - g) * j /\ c * (l + 1) \in Int
        OBVIOUS
    <2>3. c * (l + 1) - d * (l - 1) <= y /\ c * (l + 1) - d * (l - 1) \in Int
        <3> HIDE DEF d, y
        <3> QED BY <2>1, <2>2
    <2>4. (c * (l + 1) - d * (l - 1)) * (k + 1) <= y * (k + 1)
        <3> HIDE DEF y, d
        <3> QED BY <1>1, <2>3, TimesMonotone
    \* What is left between the two groups.
    <2>5. (c * (l + 1) - d * (l - 1)) * (k + 1) - (a * (k + 1) + d * (k - 1)) * (l + 1)
            = d * (4 - (k - 1) * (l - 1))
        OBVIOUS
    <2>6. d * (4 - (k - 1) * (l - 1)) >= 0
        <3>1. (k - 1) * (l - 1) \in Int
            BY <1>1
        <3>2. 4 - (k - 1) * (l - 1) \in Int /\ 4 - (k - 1) * (l - 1) >= 0
            BY <1>5, <3>1
        <3>3. d * 0 <= d * (4 - (k - 1) * (l - 1))
            <4> HIDE DEF d
            <4> QED BY <1>1, <3>2, TimesMonotone
        <3>4. d * 0 = 0
            BY <1>1
        <3> QED BY <3>3, <3>4
    <2>7. /\ x * (l + 1) \in Int /\ y * (k + 1) \in Int /\ (a * (k + 1) + d * (k - 1)) * (l + 1) \in Int
          /\ (c * (l + 1) - d * (l - 1)) * (k + 1) \in Int
        BY <1>1
    <2> DEFINE p == (a * (k + 1) + d * (k - 1)) * (l + 1)
               q == (c * (l + 1) - d * (l - 1)) * (k + 1)
               w == d * (4 - (k - 1) * (l - 1))
    <2>8. q - p = w /\ w >= 0 /\ p \in Int /\ q \in Int /\ x * (l + 1) <= p /\ q <= y * (k + 1)
        BY <1>3, <2>4, <2>5, <2>6, <2>7
    <2> HIDE DEF p, q, w, x, y, d
    <2>9. x * (l + 1) <= y * (k + 1)
        BY <2>7, <2>8
    <2> QED BY <2>9 DEF x, y
<1> QED BY <1>4, <1>5

\* A group of k equal values takes at most k - 1 steps of k + 1 towards its neighbour.
LEMMA StepsWithin ==
    ASSUME NEW part, NEW E, NEW S, Sound(E, S), Null \notin Int, IsFiniteSet(S), NEW t \in S
    PROVE  /\ Cardinality(SameValue(E, S, t)) \in Nat /\ Cardinality(SameValue(E, S, t)) > 0
           /\ StepsOf(part, E, S, t) \in Int /\ 0 <= StepsOf(part, E, S, t)
           /\ StepsOf(part, E, S, t) <= Cardinality(SameValue(E, S, t)) - 1
<1> DEFINE group == SameValue(E, S, t)
           k == Cardinality(group)
           place == PlaceIn(part, E, group, t)
<1>1. group \subseteq S /\ t \in group
    BY DEF SameValue
<1>2. IsFiniteSet(group) /\ Sound(E, group)
    BY <1>1, FS_Subset DEF Sound
<1> HIDE DEF group
<1>3. place \in Int /\ 1 <= place /\ place <= k
    BY <1>1, <1>2, PlaceType
<1>4. k \in Nat
    BY <1>2, FS_CardinalityType
<1> HIDE DEF k, place
<1>5. /\ StepsOf(part, E, S, t) = 0 \/ StepsOf(part, E, S, t) = place - 1
         \/ StepsOf(part, E, S, t) = k - 1 - (place - 1)
    BY DEF StepsOf, SpreadSteps, place, k, group
<1>6. /\ k \in Nat /\ k > 0 /\ StepsOf(part, E, S, t) \in Int /\ 0 <= StepsOf(part, E, S, t)
      /\ StepsOf(part, E, S, t) <= k - 1
    BY <1>3, <1>4, <1>5
<1> QED BY <1>6 DEF k, group

\* How far a team is from the best value, counted in steps of its group.
Distance(part, E, S, t) ==
    LET a == Away(part, E, S, E[t].value)
        e == Away(part, E, S, Neighbour(part, E, S, E[t].value))
    IN  a * (Cardinality(SameValue(E, S, t)) + 1) + (e - a) * StepsOf(part, E, S, t)

\* The points of VALUE_BASED with a tie-break are a share of the range.
LEMMA PointsByDistance ==
    ASSUME NEW part, NEW comp, SoundScale(part, comp), NEW E, NEW S, NEW F, Sound(E, S),
           Null \notin Int, IsFiniteSet(S), S \cap F = {}, Breadth(E, S) # 0, part.tieBreak # "NONE",
           NEW t \in S
    PROVE  LET bk == Breadth(E, S) * (Cardinality(SameValue(E, S, t)) + 1)
           IN  ValueBased(part, comp, E, S, F)[t]
                 = RoundDiv(Share(comp, BestPoints(part, comp), part.max - part.min, bk,
                                  Distance(part, E, S, t)), bk)
<1> DEFINE B == Breadth(E, S)
           k == Cardinality(SameValue(E, S, t))
           j == StepsOf(part, E, S, t)
           v == E[t].value
           next == Neighbour(part, E, S, v)
           a == Away(part, E, S, v)
           e == Away(part, E, S, next)
           best == BestPoints(part, comp)
           range == part.max - part.min
           own == ValuePoints(part, comp, E, S, v)
           more == ValuePoints(part, comp, E, S, next)
           x == a * (k + 1) + (e - a) * j
           points == ValueBased(part, comp, E, S, F)[t]
<1>1. v \in ValuesOf(E, S) /\ S # {}
    BY DEF ValuesOf
<1>2. /\ B \in Nat /\ B # 0 /\ next \in ValuesOf(E, S)
      /\ a \in Nat /\ e \in Nat
    BY <1>1, ValuesType, NeighbourType
<1>3. k \in Nat /\ k > 0 /\ j \in Int
    BY StepsWithin
<1>4. best \in Int /\ range \in Int /\ comp.plus \in BOOLEAN
    BY ScaleIsWhole DEF BestPoints, Side, SoundScale
<1>5. /\ own = best * B + (IF comp.plus THEN -(a * range) ELSE a * range)
      /\ more = best * B + (IF comp.plus THEN -(e * range) ELSE e * range)
    BY DEF ValuePoints
<1>6. Undecided(part, E, S, t) => j = 0
    BY DEF StepsOf
<1>7. /\ Undecided(part, E, S, t) => points = RoundDiv(own, B)
      /\ ~Undecided(part, E, S, t) => points = RoundDiv(own * (k + 1) + (more - own) * j, B * (k + 1))
    BY ValueBasedByParts DEF Numerator
<1>8. Distance(part, E, S, t) = x
    BY DEF Distance
<1> HIDE DEF B, k, j, v, next, a, e, best, range, own, more, points
<1>9. own \in Int /\ more \in Int
    BY <1>2, <1>4, <1>5
<1>10. points = RoundDiv(own * (k + 1) + (more - own) * j, B * (k + 1))
    <2>1. CASE Undecided(part, E, S, t)
        <3>1. (more - own) * j = 0 /\ own * (k + 1) \in Int
            BY <1>3, <1>6, <1>9, <2>1
        <3>2. own * (k + 1) + (more - own) * j = own * (k + 1)
            BY <3>1
        <3>3. RoundDiv(own * (k + 1), B * (k + 1)) = RoundDiv(own, B)
            <4>1. k + 1 \in Int /\ k + 1 > 0 /\ B \in Int /\ B > 0
                BY <1>2, <1>3
            <4> QED BY <1>9, <4>1, RoundDivScaled
        <3> QED BY <1>7, <2>1, <3>2, <3>3
    <2> QED BY <1>7, <2>1
<1>11. own * (k + 1) + (more - own) * j = Share(comp, best, range, B * (k + 1), x)
    <2>1. CASE comp.plus
        <3>1. own = best * B - a * range /\ more = best * B - e * range
            BY <1>2, <1>4, <1>5, <2>1
        <3>2. Share(comp, best, range, B * (k + 1), x) = best * (B * (k + 1)) + (-(range * x))
            BY <2>1 DEF Share
        <3> HIDE DEF x
        <3>3. (best * B - a * range) * (k + 1) + ((best * B - e * range) - (best * B - a * range)) * j
                = best * (B * (k + 1)) + (-(range * (a * (k + 1) + (e - a) * j)))
            BY <1>2, <1>3, <1>4
        <3> QED BY <3>1, <3>2, <3>3 DEF x
    <2>2. CASE ~comp.plus
        <3>1. own = best * B + a * range /\ more = best * B + e * range
            BY <1>5, <2>2
        <3>2. Share(comp, best, range, B * (k + 1), x) = best * (B * (k + 1)) + range * x
            BY <2>2 DEF Share
        <3> HIDE DEF x
        <3>3. (best * B + a * range) * (k + 1) + ((best * B + e * range) - (best * B + a * range)) * j
                = best * (B * (k + 1)) + range * (a * (k + 1) + (e - a) * j)
            BY <1>2, <1>3, <1>4
        <3> QED BY <3>1, <3>2, <3>3 DEF x
    <2> QED BY <2>1, <2>2
<1> HIDE DEF x
<1>12. points = RoundDiv(Share(comp, best, range, B * (k + 1), x), B * (k + 1))
    BY <1>10, <1>11
<1> QED BY <1>8, <1>12 DEF B, k, best, range, points

\* Nobody is spread beyond the worst value.
LEMMA DistanceType ==
    ASSUME NEW part, NEW E, NEW S, Sound(E, S), Null \notin Int, IsFiniteSet(S),
           Breadth(E, S) # 0, NEW t \in S
    PROVE  /\ Distance(part, E, S, t) \in Int
           /\ Distance(part, E, S, t) <= Breadth(E, S) * (Cardinality(SameValue(E, S, t)) + 1)
<1> DEFINE B == Breadth(E, S)
           k == Cardinality(SameValue(E, S, t))
           j == StepsOf(part, E, S, t)
           v == E[t].value
           next == Neighbour(part, E, S, v)
           a == Away(part, E, S, v)
           e == Away(part, E, S, next)
           x == a * (k + 1) + (e - a) * j
<1>1. v \in ValuesOf(E, S) /\ S # {}
    BY DEF ValuesOf
<1>2. /\ B \in Nat /\ B # 0 /\ a \in Nat /\ e \in Nat /\ a <= B /\ e <= B
    BY <1>1, ValuesType, NeighbourType
<1>3. k \in Nat /\ k > 0 /\ j \in Int /\ 0 <= j /\ j <= k - 1
    BY StepsWithin
<1>4. Distance(part, E, S, t) = x
    BY DEF Distance
<1> HIDE DEF B, k, j, v, next, a, e
<1>5. x = a * (k + 1 - j) + e * j
    BY <1>2, <1>3
<1>6. a * (k + 1 - j) <= B * (k + 1 - j) /\ a * (k + 1 - j) \in Int /\ B * (k + 1 - j) \in Int
    <2>1. k + 1 - j \in Int /\ k + 1 - j >= 0
        BY <1>3
    <2> QED BY <1>2, <2>1, TimesMonotone
<1>7. e * j <= B * j /\ e * j \in Int /\ B * j \in Int
    BY <1>2, <1>3, TimesMonotone
<1>8. B * (k + 1 - j) + B * j = B * (k + 1)
    BY <1>2, <1>3
<1> HIDE DEF x
<1>9. x \in Int /\ x <= B * (k + 1)
    BY <1>5, <1>6, <1>7, <1>8
<1> QED BY <1>4, <1>9 DEF B, k

\* Who is ahead is nearer to the best, among equals and among different values whose
\* spreads stay apart.
LEMMA DistancesFollow ==
    ASSUME NEW part, NEW E, NEW S, Sound(E, S), Null \notin Int, IsFiniteSet(S),
           Breadth(E, S) # 0, NEW t \in S, NEW u \in S, Ahead(part, E[t], E[u]),
           \/ E[t].value = E[u].value
           \/ (Cardinality(SameValue(E, S, t)) - 1) * (Cardinality(SameValue(E, S, u)) - 1) <= 4
    PROVE  Distance(part, E, S, t) * (Cardinality(SameValue(E, S, u)) + 1)
             <= Distance(part, E, S, u) * (Cardinality(SameValue(E, S, t)) + 1)
<1> DEFINE k == Cardinality(SameValue(E, S, t))
           l == Cardinality(SameValue(E, S, u))
           i == StepsOf(part, E, S, t)
           j == StepsOf(part, E, S, u)
           v == E[t].value
           w == E[u].value
           N(z) == Neighbour(part, E, S, z)
           A(z) == Away(part, E, S, z)
           worst == WorstValue(part, E, S)
           V == ValuesOf(E, S)
<1>1. v \in V /\ w \in V /\ S # {}
    BY DEF ValuesOf
<1>2. /\ \A z \in V : A(z) \in Nat /\ N(z) \in V
      /\ \A z \in V : A(z) <= A(worst)
      /\ \A z \in V : z # worst =>
            /\ A(z) < A(N(z))
            /\ \A y \in V : A(z) < A(y) => A(N(z)) <= A(y)
      /\ \A z \in V : z = worst =>
            /\ A(N(z)) < A(z)
            /\ \A y \in V : A(y) < A(z) => A(y) <= A(N(z))
    <2>1. \A z \in V : N(z) \in V
        BY <1>1, NeighbourType
    <2>2. \A z \in V : A(z) \in Nat /\ A(z) <= A(worst)
        BY <1>1, ValuesType
    <2>3. \A z \in V : z # worst =>
            /\ A(z) < A(N(z))
            /\ \A y \in V : A(z) < A(y) => A(N(z)) <= A(y)
        BY <1>1, NeighbourType DEF Nearer
    <2>4. \A z \in V : z = worst =>
            /\ A(N(z)) < A(z)
            /\ \A y \in V : A(y) < A(z) => A(y) <= A(N(z))
        BY <1>1, NeighbourType DEF Nearer
    <2> QED BY <2>1, <2>2, <2>3, <2>4
<1>3. /\ k \in Nat /\ k > 0 /\ i \in Int /\ 0 <= i /\ i <= k - 1
      /\ l \in Nat /\ l > 0 /\ j \in Int /\ 0 <= j /\ j <= l - 1
    BY StepsWithin
<1>4. /\ Distance(part, E, S, t) = A(v) * (k + 1) + (A(N(v)) - A(v)) * i
      /\ Distance(part, E, S, u) = A(w) * (l + 1) + (A(N(w)) - A(w)) * j
    BY DEF Distance
<1>5. CASE v = w
    <2> DEFINE group == SameValue(E, S, t)
               P(z) == PlaceIn(part, E, group, z)
    <2>1. group = SameValue(E, S, u) /\ t \in group /\ u \in group /\ group \subseteq S
        BY <1>5 DEF SameValue
    <2>2. IsFiniteSet(group) /\ Sound(E, group)
        BY <2>1, FS_Subset DEF Sound
    <2>3. P(t) < P(u) /\ P(t) \in Int /\ P(u) \in Int
        <3> HIDE DEF group
        <3> QED BY <2>1, <2>2, PlacesFollowOrder, PlaceType
    <2>4. ~Undecided(part, E, S, t) /\ ~Undecided(part, E, S, u)
        BY <2>1 DEF Undecided
    <2>5. /\ k = l
          /\ i = IF v = worst THEN k - 1 - (P(t) - 1) ELSE P(t) - 1
          /\ j = IF v = worst THEN k - 1 - (P(u) - 1) ELSE P(u) - 1
        <3>1. k = l
            BY <2>1
        <3>2. i = IF v = worst THEN k - 1 - (P(t) - 1) ELSE P(t) - 1
            BY <2>4 DEF StepsOf, SpreadSteps
        <3>3. j = IF v = worst THEN k - 1 - (P(u) - 1) ELSE P(u) - 1
            BY <1>5, <2>1, <2>4 DEF StepsOf, SpreadSteps
        <3> QED BY <3>1, <3>2, <3>3
    <2> DEFINE d == A(N(v)) - A(v)
    <2>6. A(v) \in Int /\ A(N(v)) \in Int
        BY <1>1, <1>2
    <2> HIDE DEF P, k, l, i, j, v, w, A, N, worst, V, group
    <2>7. d * i <= d * j /\ d * i \in Int /\ d * j \in Int
        <3>1. CASE v # worst
            <4>1. d \in Int /\ d >= 0 /\ i <= j
                BY <1>1, <1>2, <2>3, <2>5, <2>6, <3>1
            <4> HIDE DEF d
            <4> QED BY <1>3, <4>1, TimesMonotone
        <3>2. CASE v = worst
            <4>1. -d \in Int /\ -d >= 0 /\ j <= i /\ d \in Int
                BY <1>1, <1>2, <1>3, <2>3, <2>5, <2>6, <3>2
            <4> HIDE DEF d
            <4>2. (-d) * j <= (-d) * i
                BY <1>3, <4>1, TimesMonotone
            <4>3. (-d) * j = -(d * j) /\ (-d) * i = -(d * i) /\ d * i \in Int /\ d * j \in Int
                BY <1>3, <4>1
            <4> QED BY <4>2, <4>3
        <3> QED BY <3>1, <3>2
    <2> DEFINE x == A(v) * (k + 1) + d * i
               y == A(v) * (k + 1) + d * j
    <2>8. A(v) * (k + 1) \in Int
        BY <1>3, <2>6
    <2> HIDE DEF d
    <2>9. x <= y /\ x \in Int /\ y \in Int
        BY <2>7, <2>8
    <2>10. k + 1 \in Int /\ k + 1 >= 0
        BY <1>3
    <2> HIDE DEF x, y
    <2>11. x * (k + 1) <= y * (k + 1)
        BY <2>9, <2>10, TimesMonotone
    <2>12. Distance(part, E, S, t) = x /\ Distance(part, E, S, u) = y /\ k = l
        BY <1>4, <1>5, <2>5 DEF x, y, d
    <2> QED BY <2>11, <2>12 DEF k, l
<1>6. CASE v # w
    <2>1. A(v) < A(w)
        <3>1. IF part.higher THEN v > w ELSE v < w
            BY <1>6 DEF Ahead
        <3> QED BY <1>1, <3>1, ValuesType DEF Nearer
    <2>2. v # worst
        BY <1>1, <1>2, <2>1
    <2>3. A(v) \in Int /\ A(w) \in Int /\ A(N(v)) \in Int /\ A(N(w)) \in Int
        BY <1>1, <1>2
    <2>4. A(v) < A(N(v)) /\ A(N(v)) <= A(w)
        BY <1>1, <1>2, <2>1, <2>2
    <2>5. \/ A(N(w)) > A(w)
          \/ A(v) <= A(N(w)) /\ A(N(w)) < A(w) /\ (k - 1) * (l - 1) <= 4
        <3>1. (k - 1) * (l - 1) <= 4
            BY <1>6
        <3>2. CASE w = worst
            BY <1>1, <1>2, <2>1, <3>1, <3>2
        <3>3. CASE w # worst
            BY <1>1, <1>2, <3>3
        <3> QED BY <3>2, <3>3
    <2> HIDE DEF k, l, i, j, v, w, A, N, worst, V
    <2>6. (A(v) * (k + 1) + (A(N(v)) - A(v)) * i) * (l + 1)
            <= (A(w) * (l + 1) + (A(N(w)) - A(w)) * j) * (k + 1)
        BY <1>3, <2>1, <2>3, <2>4, <2>5, SharesApart
    <2>7. Distance(part, E, S, t) * (l + 1) <= Distance(part, E, S, u) * (k + 1)
        BY <1>4, <2>6
    <2> QED BY <2>7 DEF k, l
<1> QED BY <1>5, <1>6

\* In VALUE_BASED who is ahead pays less while the spreads stay apart, and nobody more
\* than who failed (applyValueBased).
LEMMA ValueBasedFollows ==
    ASSUME NEW part, NEW comp, SoundScale(part, comp), NEW E, NEW S, NEW F, Sound(E, S),
           Null \notin Int, IsFiniteSet(S), S \cap F = {}, NEW t \in S
    PROVE  LET points == ValueBased(part, comp, E, S, F)
               Same(w) == Cardinality(SameValue(E, S, w))
           IN  /\ \A u \in S :
                    (/\ Ahead(part, E[t], E[u])
                     /\ \/ part.tieBreak = "NONE"
                        \/ E[t].value = E[u].value
                        \/ (Same(t) - 1) * (Same(u) - 1) <= 4)
                      => Cost(comp, points[t]) <= Cost(comp, points[u])
               /\ \A f \in F : /\ points[f] = Side(comp, part.min, part.max)
                               /\ Cost(comp, points[t]) <= Cost(comp, points[f])
<1> DEFINE points == ValueBased(part, comp, E, S, F)
           Same(w) == Cardinality(SameValue(E, S, w))
           B == Breadth(E, S)
           best == BestPoints(part, comp)
           range == part.max - part.min
           P(w) == ValuePoints(part, comp, E, S, E[w].value)
           A(w) == Away(part, E, S, E[w].value)
<1>1. S # {} /\ \A w \in S : E[w].value \in ValuesOf(E, S)
    BY DEF ValuesOf
<1>2. /\ B \in Nat /\ \A w \in S : A(w) \in Nat /\ A(w) <= B
    BY <1>1, ValuesType
<1>3. /\ part.min \in Int /\ part.max \in Int /\ range \in Int /\ range >= 0 /\ comp.plus \in BOOLEAN
      /\ range \in Thousandths /\ best = (IF comp.plus THEN part.max ELSE part.min) /\ best \in Int
      /\ best \in Thousandths /\ part.min \in Thousandths /\ part.max \in Thousandths
    BY ScaleIsWhole DEF SoundScale, BestPoints, Side
<1>4. \A f \in F : points[f] = Side(comp, part.min, part.max)
    <2> TAKE f \in F
    <2>1. f \in S \cup F /\ f \in F
        OBVIOUS
    <2> QED BY <2>1 DEF ValueBased
<1>5. Cost(comp, best) <= Cost(comp, Side(comp, part.min, part.max))
    <2> HIDE DEF best
    <2> QED BY <1>3 DEF Cost, Side
<1>6. \A w \in S : P(w) = best * B + (IF comp.plus THEN -(A(w) * range) ELSE A(w) * range)
    BY DEF ValuePoints
<1>7. \A w \in S : points[w] =
        CASE B = 0 -> best
          [] B # 0 /\ part.tieBreak = "NONE" -> Round3(P(w), B)
          [] OTHER -> RoundDiv(Share(comp, best, range, B * (Same(w) + 1), Distance(part, E, S, w)),
                               B * (Same(w) + 1))
    <2> TAKE w \in S
    <2>1. B = 0 => points[w] = best
        BY ValueBasedByParts
    <2>2. (B # 0 /\ part.tieBreak = "NONE") => points[w] = Round3(P(w), B)
        BY ValueBasedByParts
    <2>3. (B # 0 /\ part.tieBreak # "NONE") =>
            points[w] = RoundDiv(Share(comp, best, range, B * (Same(w) + 1), Distance(part, E, S, w)),
                                 B * (Same(w) + 1))
        BY PointsByDistance
    <2> HIDE DEF points, best, B, P, Same, range
    <2> QED BY <2>1, <2>2, <2>3
<1> HIDE DEF points, B, best, range, P, A
<1>8. CASE B = 0
    <2>1. \A w \in S : points[w] = best
        BY <1>7, <1>8
    <2> QED BY <1>3, <1>4, <1>5, <2>1, CostOrder DEF points
<1>9. CASE B # 0 /\ part.tieBreak = "NONE"
    <2>1. \A w \in S : points[w] = Round3(P(w), B)
        BY <1>7, <1>9
    <2>2. B \in Int /\ B > 0
        BY <1>2, <1>9
    <2>3. ASSUME NEW x \in Nat, NEW y \in Nat, x <= y
          PROVE  Cost(comp, Round3(best * B + (IF comp.plus THEN -(x * range) ELSE x * range), B))
                   <= Cost(comp, Round3(best * B + (IF comp.plus THEN -(y * range) ELSE y * range), B))
        <3>1. x * range <= y * range /\ x * range \in Int /\ y * range \in Int /\ best * B \in Int
            BY <1>3, <2>2, <2>3, TimesMonotone
        <3> DEFINE m == best * B + (IF comp.plus THEN -(x * range) ELSE x * range)
                   n == best * B + (IF comp.plus THEN -(y * range) ELSE y * range)
        <3>2. m \in Int /\ n \in Int /\ IF comp.plus THEN n <= m ELSE m <= n
            BY <1>3, <3>1
        <3> HIDE DEF m, n
        <3>3. /\ Round3(m, B) \in Int /\ Round3(n, B) \in Int
              /\ IF comp.plus THEN Round3(n, B) <= Round3(m, B) ELSE Round3(m, B) <= Round3(n, B)
            BY <1>3, <2>2, <3>2, Round3Monotone
        <3>4. Cost(comp, Round3(m, B)) <= Cost(comp, Round3(n, B))
            BY <1>3, <3>3 DEF Cost, Side
        <3> QED BY <3>4 DEF m, n
    <2>4. ASSUME NEW u \in S, Ahead(part, E[t], E[u])
          PROVE  Cost(comp, points[t]) <= Cost(comp, points[u])
        <3>1. IF part.higher THEN E[t].value > E[u].value ELSE E[t].value < E[u].value
            BY <1>9, <2>4 DEF Ahead, TieAhead
        <3>2. A(t) < A(u)
            BY <1>1, <3>1, ValuesType DEF Nearer, A
        <3> QED BY <1>2, <1>6, <2>1, <2>3, <3>2
    <2>5. ASSUME NEW f \in F
          PROVE  Cost(comp, points[t]) <= Cost(comp, points[f])
        <3> DEFINE worst == Side(comp, part.min, part.max)
        <3>1. worst \in Thousandths /\ worst * B = best * B + (IF comp.plus THEN -(B * range) ELSE B * range)
            BY <1>2, <1>3 DEF range, Side
        <3>2. Round3(worst * B, B) = worst
            BY <2>2, <3>1, Round3Exact
        <3> HIDE DEF worst
        <3>3. Cost(comp, Round3(P(t), B)) <= Cost(comp, Round3(worst * B, B))
            BY <1>2, <1>6, <2>3, <3>1
        <3> QED BY <1>4, <2>1, <3>2, <3>3 DEF worst
    <2> QED BY <1>4, <2>4, <2>5 DEF points
<1>10. CASE B # 0 /\ part.tieBreak # "NONE"
    <2>1. \A w \in S : points[w] =
            RoundDiv(Share(comp, best, range, B * (Same(w) + 1), Distance(part, E, S, w)), B * (Same(w) + 1))
        <3> HIDE DEF Same
        <3> QED BY <1>7, <1>10
    <2>2. B \in Int /\ B > 0
        BY <1>2, <1>10
    <2>3. \A w \in S : Same(w) \in Nat /\ Same(w) + 1 \in Int /\ Same(w) + 1 > 0
                       /\ Distance(part, E, S, w) \in Int /\ Distance(part, E, S, w) <= B * (Same(w) + 1)
        <3> TAKE w \in S
        <3>1. Same(w) \in Nat
            BY StepsWithin
        <3>2. Distance(part, E, S, w) \in Int /\ Distance(part, E, S, w) <= B * (Same(w) + 1)
            BY <1>10, DistanceType DEF B
        <3> HIDE DEF Same
        <3> QED BY <3>1, <3>2
    <2>4. ASSUME NEW u \in S, Ahead(part, E[t], E[u]),
                 E[t].value = E[u].value \/ (Same(t) - 1) * (Same(u) - 1) <= 4
          PROVE  Cost(comp, points[t]) <= Cost(comp, points[u])
        <3>1. Distance(part, E, S, t) * (Same(u) + 1) <= Distance(part, E, S, u) * (Same(t) + 1)
            BY <1>10, <2>4, DistancesFollow DEF B
        <3> DEFINE k == Same(t) + 1
                   l == Same(u) + 1
                   x == Distance(part, E, S, t)
                   y == Distance(part, E, S, u)
        <3>2. k \in Int /\ k > 0 /\ l \in Int /\ l > 0 /\ x \in Int /\ y \in Int /\ x * l <= y * k
            BY <2>3, <3>1
        <3>3. /\ points[t] = RoundDiv(Share(comp, best, range, B * k, x), B * k)
              /\ points[u] = RoundDiv(Share(comp, best, range, B * l, y), B * l)
            BY <2>1
        <3>4. comp.plus \in BOOLEAN /\ best \in Int /\ range \in Int /\ range >= 0
            BY <1>3
        <3> HIDE DEF Same, k, l, x, y
        <3>5. Cost(comp, SharePoints(comp, best, range, B, k, x))
                <= Cost(comp, SharePoints(comp, best, range, B, l, y))
            BY <2>2, <3>2, <3>4, SharesFollow
        <3> QED BY <3>3, <3>5 DEF SharePoints
    <2>5. ASSUME NEW f \in F
          PROVE  Cost(comp, points[t]) <= Cost(comp, points[f])
        <3> DEFINE worst == Side(comp, part.min, part.max)
        <3>1. worst \in Int /\ worst * B = best * B + (IF comp.plus THEN -(range * B) ELSE range * B)
            BY <1>2, <1>3 DEF range, Side
        <3>2. RoundDiv(worst * B, B) = worst
            BY <2>2, <3>1, RoundDivExact
        <3>3. Share(comp, best, range, B * 1, B) = worst * B /\ B * 1 = B
            <4> HIDE DEF worst
            <4> QED BY <2>2, <3>1 DEF Share
        <3> DEFINE k == Same(t) + 1
                   x == Distance(part, E, S, t)
        <3>4. k \in Int /\ k > 0 /\ x \in Int /\ x <= B * k
            BY <2>3
        <3>5. points[t] = RoundDiv(Share(comp, best, range, B * k, x), B * k)
            BY <2>1
        <3> HIDE DEF worst, Same, k, x
        <3>6. 1 \in Int /\ 1 > 0 /\ B \in Int /\ x * 1 <= B * k /\ comp.plus \in BOOLEAN /\ best \in Int /\ range \in Int /\ range >= 0
            BY <1>3, <2>2, <3>4
        <3>7. Cost(comp, SharePoints(comp, best, range, B, k, x))
                <= Cost(comp, SharePoints(comp, best, range, B, 1, B))
            BY <2>2, <3>4, <3>6, SharesFollow
        <3>8. SharePoints(comp, best, range, B, 1, B) = worst
            BY <3>2, <3>3 DEF SharePoints
        <3>9. SharePoints(comp, best, range, B, k, x) = points[t]
            BY <3>5 DEF SharePoints
        <3> QED BY <1>4, <3>7, <3>8, <3>9 DEF worst
    <2> QED BY <1>4, <1>10, <2>4, <2>5 DEF points
<1> QED BY <1>8, <1>9, <1>10

\* Together: what a method with a ranking promises of one list of competitors.
LEMMA RankingFollows ==
    ASSUME NEW part, NEW comp, NEW E, NEW S, NEW F, SoundSettings(part, comp), Sound(E, S),
           part.type \in RankedTypes, Null \notin Int, IsFiniteSet(S), IsFiniteSet(F), S \cap F = {}
    PROVE  LET points == ApplyRanking(part, comp, E, S, F)
           IN  /\ \A t, u \in S :
                    (Ahead(part, E[t], E[u]) /\ SameList(part, comp, E[t], E[u]) /\ StayApart(part, E, S, t, u))
                      => Cost(comp, points[t]) <= Cost(comp, points[u])
               /\ \A f \in F, t \in S : SameList(part, comp, E[f], E[t])
                                          => Cost(comp, points[t]) <= Cost(comp, points[f])
               /\ \A f, g \in F : SameList(part, comp, E[f], E[g]) => points[f] = points[g]
<1>1. CASE part.type = "RELATIVE_RANKING"
    <2> DEFINE points == RelativeRanking(part, comp, E, S, F)
    <2>1. ApplyRanking(part, comp, E, S, F) = points /\ SoundScale(part, comp)
        BY <1>1 DEF ApplyRanking, SoundSettings
    <2>2. \A f \in F : points[f] = Side(comp, part.min, part.max)
        BY DEF RelativeRanking
    <2>3. \A t \in S : /\ \A u \in S : Ahead(part, E[t], E[u]) => Cost(comp, points[t]) <= Cost(comp, points[u])
                      /\ \A f \in F : Cost(comp, points[t]) <= Cost(comp, points[f])
        BY <2>1, RelativeRankingFollows
    <2> HIDE DEF points
    <2> QED BY <2>1, <2>2, <2>3
<1>2. CASE part.type = "VALUE_BASED"
    <2> DEFINE points == ValueBased(part, comp, E, S, F)
    <2>1. ApplyRanking(part, comp, E, S, F) = points /\ SoundScale(part, comp)
        BY <1>2 DEF ApplyRanking, SoundSettings
    <2>2. \A f \in F : points[f] = Side(comp, part.min, part.max)
        <3> TAKE f \in F
        <3>1. f \in S \cup F /\ f \in F
            OBVIOUS
        <3> QED BY <3>1 DEF ValueBased
    <2>3. \A t \in S : /\ \A u \in S : (Ahead(part, E[t], E[u]) /\ StayApart(part, E, S, t, u))
                                         => Cost(comp, points[t]) <= Cost(comp, points[u])
                      /\ \A f \in F : Cost(comp, points[t]) <= Cost(comp, points[f])
        BY <1>2, <2>1, ValueBasedFollows DEF StayApart
    <2> HIDE DEF points
    <2> QED BY <2>1, <2>2, <2>3
<1>3. CASE part.type = "FIXED_RANKING" /\ part.mode = "REGISTERED_COUNT"
    <2> DEFINE points == TeamCount(part, comp, E, S, F)
    <2>1. ApplyRanking(part, comp, E, S, F) = points /\ SoundCount(part, comp)
        BY <1>3 DEF ApplyRanking, FixedRanking, SoundSettings
    <2>2. \A t, u : SameList(part, comp, E[t], E[u]) <=> KeyOf(part, comp, E, t) = KeyOf(part, comp, E, u)
        BY <1>3 DEF SameList, KeyOf
    <2>3. \A f, g \in F : KeyOf(part, comp, E, f) = KeyOf(part, comp, E, g) => points[f] = points[g]
        <3> DEFINE Key(w) == KeyOf(part, comp, E, w)
                   InBucket(w) == Cardinality({v \in S \cup F : Key(v) = Key(w)})
                   N(w) == IF Key(w) \in DOMAIN comp.registered
                           THEN (IF comp.registered[Key(w)] > 1 THEN comp.registered[Key(w)] ELSE 1)
                           ELSE InBucket(w)
                   LastPlace(w) == IF InBucket(w) > N(w) THEN InBucket(w) ELSE N(w)
        <3>1. \A f \in F : points[f] = RegisteredCountPoints(part, comp, LastPlace(f), LastPlace(f))
            BY DEF TeamCount, KeyOf
        <3>2. \A f, g \in F : Key(f) = Key(g) => LastPlace(f) = LastPlace(g)
            OBVIOUS
        <3> HIDE DEF points, LastPlace
        <3> QED BY <3>1, <3>2
    <2>4. \A t \in S : /\ \A u \in S : (Ahead(part, E[t], E[u]) /\ KeyOf(part, comp, E, t) = KeyOf(part, comp, E, u))
                                         => Cost(comp, points[t]) <= Cost(comp, points[u])
                      /\ \A f \in F : KeyOf(part, comp, E, t) = KeyOf(part, comp, E, f)
                                         => Cost(comp, points[t]) <= Cost(comp, points[f])
        BY <2>1, TeamCountFollows
    <2> HIDE DEF points
    <2> QED BY <2>1, <2>2, <2>3, <2>4
<1>4. CASE part.type = "FIXED_RANKING" /\ part.mode # "REGISTERED_COUNT"
    <2> DEFINE points == FixedTable(part, comp, E, S, F)
    <2>1. ApplyRanking(part, comp, E, S, F) = points /\ SoundScale(part, comp) /\ SoundTable(part, comp)
        BY <1>4 DEF ApplyRanking, FixedRanking, SoundSettings
    <2>2. \A f, g \in F : points[f] = points[g]
        BY DEF FixedTable
    <2>3. \A t \in S : /\ \A u \in S : Ahead(part, E[t], E[u]) => Cost(comp, points[t]) <= Cost(comp, points[u])
                      /\ \A f \in F : Cost(comp, points[t]) <= Cost(comp, points[f])
        BY <2>1, FixedTableFollows
    <2> HIDE DEF points
    <2> QED BY <2>1, <2>2, <2>3
<1> QED BY <1>1, <1>2, <1>3, <1>4 DEF RankedTypes

\* Competitors are ranked among themselves, whoever else is out of competition
\* (rankWithHorsConcours).
LEMMA CompetitorsPoints ==
    ASSUME NEW part, NEW comp, NEW E, NEW worst, part.type \in RankedTypes, SoundEntries(E),
           Null # "FAILED", NEW t \in Succeeded(E) \cup Failed(E)
    PROVE  CalculateScores(part, comp, E, worst)[t]
             = ApplyRanking(part, comp, E, Succeeded(E), Failed(E))[t]
<1> DEFINE normal == {u \in DOMAIN E : E[u].kind = Null /\ E[u].value # Null}
           failed == {u \in DOMAIN E : E[u].kind = "FAILED"}
           others == {u \in DOMAIN E : E[u].kind \notin {Null, "FAILED"}}
           Of(T, all) == {u \in T : all \/ ~E[u].hc}
           ranking == [all \in BOOLEAN |-> ApplyRanking(part, comp, E, Of(normal, all), Of(failed, all))]
           listed == RankWithHorsConcours(part, comp, E, normal, failed)
<1>1. t \in normal \cup failed /\ E[t].hc = FALSE
    BY DEF Succeeded, Failed, SoundEntries
<1>2. Of(normal, FALSE) = Succeeded(E) /\ Of(failed, FALSE) = Failed(E)
    BY DEF Succeeded, Failed
<1>3. listed = OwnRanking(E, normal \cup failed, ranking)
    BY DEF RankWithHorsConcours
<1>4. ranking[FALSE] = ApplyRanking(part, comp, E, Succeeded(E), Failed(E))
    BY <1>2
<1>5. CalculateScores(part, comp, E, worst)[t] = listed[t]
    <2>1. ~(normal = {} /\ (failed = {} \/ ~(part.type \in RankedTypes)))
        BY <1>1
    <2>2. t \in normal \cup failed \cup others /\ t \notin others
        BY <1>1
    <2> QED BY <2>1, <2>2 DEF CalculateScores
<1> HIDE DEF ranking, listed, normal, failed
<1>6. listed[t] = ranking[E[t].hc][t]
    BY <1>1, <1>3 DEF OwnRanking
<1> QED BY <1>1, <1>4, <1>5, <1>6

\* The better of two results never gets the worse points, whatever the method, its scale,
\* direction and tie-break, for any number of teams and whoever else has failed or is out
\* of competition.  In VALUE_BASED two groups of equal values may meet from seven teams on
\* (the better of three and the worst of four): StayApart says how large they may be.
THEOREM BetterResultsCostLess ==
    ASSUME NEW part, NEW comp, NEW E, NEW worst, SoundSettings(part, comp), SoundEntries(E),
           Null \notin Int \cup {"FAILED"}
    PROVE  BetterCostsLess(part, comp, E, CalculateScores(part, comp, E, worst))
<1> DEFINE points == CalculateScores(part, comp, E, worst)
           S == Succeeded(E)
           F == Failed(E)
<1>1. IsFiniteSet(S) /\ IsFiniteSet(F) /\ S \cap F = {} /\ Sound(E, S) /\ S \subseteq DOMAIN E
    <2>1. S \subseteq DOMAIN E /\ F \subseteq DOMAIN E /\ S \cap F = {} /\ Sound(E, S)
        BY DEF Succeeded, Failed, Sound, SoundEntries
    <2> HIDE DEF S, F
    <2> QED BY <2>1, FS_Subset DEF SoundEntries
<1> SUFFICES ASSUME NEW t \in S, NEW u \in S, SameList(part, comp, E[t], E[u]),
                    StayApart(part, E, S, t, u), Better(part, comp, E[t], E[u])
             PROVE  Cost(comp, points[t]) <= Cost(comp, points[u])
    BY DEF BetterCostsLess
<1>2. CASE part.type \in RankedTypes
    <2>1. Ahead(part, E[t], E[u])
        BY <1>2 DEF Better, Ahead, RankedTypes
    <2>3. points[t] = ApplyRanking(part, comp, E, S, F)[t] /\ points[u] = ApplyRanking(part, comp, E, S, F)[u]
        BY <1>2, CompetitorsPoints
    <2> HIDE DEF points, S, F
    <2> QED BY <1>1, <1>2, <2>1, <2>3, RankingFollows
<1>3. CASE part.type \notin RankedTypes
    <2> DEFINE normal == {w \in DOMAIN E : E[w].kind = Null /\ E[w].value # Null}
               best == CHOOSE v \in {E[w].value : w \in normal} : \A w \in normal : v >= E[w].value
               correct(w) == IF E[w].value < 0 THEN 0
                             ELSE IF E[w].value > part.total THEN part.total ELSE E[w].value
    <2>1. S \subseteq normal /\ \A w \in normal : E[w].value \in Int
        BY DEF Succeeded, SoundEntries
    <2>2. \A w \in S : points[w] = Unranked(part, comp, E, normal, w)
        BY <1>3, <2>1 DEF CalculateScores
    <2>3. part.type \in {"ABSOLUTE_TIME", "ABSOLUTE_POINTS", "ABSOLUTE_PENALTY", "PERFORMANCE_BASED", "DIRECT_ENTRY"}
        BY <1>3 DEF SoundSettings, Methods
    <2>4. \A w \in S : points[w] =
            CASE part.type = "ABSOLUTE_TIME" -> Side(comp, -(E[w].value * Scale), E[w].value * Scale)
              [] part.type = "ABSOLUTE_POINTS" -> Side(comp, E[w].value * Scale, best * Scale - E[w].value * Scale)
              [] part.type = "ABSOLUTE_PENALTY" ->
                    Side(comp, -Magnitude(E[w].value * Scale), Magnitude(E[w].value * Scale))
              [] part.type = "PERFORMANCE_BASED" ->
                    Round3(Side(comp, correct(w), part.total - correct(w)) * part.max, part.total)
              [] part.type = "DIRECT_ENTRY" -> E[w].value * Scale
        BY <2>2 DEF Unranked
    <2>5. comp.plus \in BOOLEAN /\ E[t].value \in Int /\ E[u].value \in Int
        BY <2>1 DEF SoundSettings
    <2> DEFINE x == E[t].value
               y == E[u].value
    <2> HIDE DEF points, S, F, normal, best, correct, x, y
    <2>6. CASE part.type = "ABSOLUTE_TIME"
        <3>1. x < y /\ points[t] = Side(comp, -(x * Scale), x * Scale) /\ points[u] = Side(comp, -(y * Scale), y * Scale)
            BY <2>4, <2>6 DEF Better, RankedTypes, x, y
        <3> QED BY <2>5, <3>1 DEF Cost, Side, Scale, x, y
    <2>7. CASE part.type = "ABSOLUTE_PENALTY"
        <3>1. /\ Magnitude(x) < Magnitude(y)
              /\ points[t] = Side(comp, -Magnitude(x * Scale), Magnitude(x * Scale))
              /\ points[u] = Side(comp, -Magnitude(y * Scale), Magnitude(y * Scale))
            BY <2>4, <2>7 DEF Better, RankedTypes, x, y
        <3> QED BY <2>5, <3>1 DEF Cost, Side, Scale, Magnitude, x, y
    <2>8. CASE part.type = "ABSOLUTE_POINTS"
        <3>1. /\ x > y
              /\ points[t] = Side(comp, x * Scale, best * Scale - x * Scale)
              /\ points[u] = Side(comp, y * Scale, best * Scale - y * Scale)
            BY <2>4, <2>8 DEF Better, RankedTypes, x, y
        <3>2. best \in Int
            <4> DEFINE V == {E[w].value : w \in normal}
            <4>1. V \in SUBSET Int /\ V # {}
                BY <2>1
            <4>2. IsFiniteSet(V)
                <5> DEFINE f == [w \in normal |-> E[w].value]
                <5>1. f \in Surjection(normal, V)
                    BY DEF Surjection
                <5>2. IsFiniteSet(normal)
                    <6>1. normal \subseteq DOMAIN E
                        BY DEF normal
                    <6> QED BY <6>1, FS_Subset DEF SoundEntries
                <5> HIDE DEF f, V
                <5> QED BY <5>1, <5>2, FS_Surjection
            <4>3. \E v \in V : \A w \in V : v >= w
                <5> HIDE DEF V
                <5> QED BY <4>1, <4>2, Extremes
            <4>4. \E v \in V : \A w \in normal : v >= E[w].value
                BY <4>3
            <4>5. best \in V
                BY <4>4 DEF best
            <4> HIDE DEF V
            <4> QED BY <4>1, <4>5
        <3> QED BY <2>5, <3>1, <3>2 DEF Cost, Side, Scale, x, y
    <2>9. CASE part.type = "PERFORMANCE_BASED"
        <3> DEFINE c == correct(t)
                   d == correct(u)
                   m == Side(comp, c, part.total - c) * part.max
                   n == Side(comp, d, part.total - d) * part.max
        <3>1. part.total \in Int /\ part.total > 0 /\ part.max \in Int /\ part.max >= 0
            BY <2>9 DEF SoundSettings
        <3>2. x > y /\ points[t] = Round3(m, part.total) /\ points[u] = Round3(n, part.total)
            BY <2>4, <2>9 DEF Better, RankedTypes, x, y
        <3>3. c \in Int /\ d \in Int /\ d <= c
            BY <2>5, <3>1, <3>2 DEF correct, x, y
        <3> HIDE DEF c, d
        <3>4. m \in Int /\ n \in Int /\ IF comp.plus THEN n <= m ELSE m <= n
            <4>1. CASE comp.plus
                <5>1. m = c * part.max /\ n = d * part.max
                    BY <4>1 DEF Side
                <5> QED BY <3>1, <3>3, <4>1, <5>1, TimesMonotone
            <4>2. CASE ~comp.plus
                <5>1. m = (part.total - c) * part.max /\ n = (part.total - d) * part.max
                    BY <4>2 DEF Side
                <5>2. part.total - c \in Int /\ part.total - d \in Int /\ part.total - c <= part.total - d
                    BY <3>1, <3>3
                <5> QED BY <3>1, <4>2, <5>1, <5>2, TimesMonotone
            <4> QED BY <4>1, <4>2
        <3> HIDE DEF m, n
        <3>5. /\ Round3(m, part.total) \in Int /\ Round3(n, part.total) \in Int
              /\ IF comp.plus THEN Round3(n, part.total) <= Round3(m, part.total)
                              ELSE Round3(m, part.total) <= Round3(n, part.total)
            BY <2>5, <3>1, <3>4, Round3Monotone
        <3> QED BY <2>5, <3>2, <3>5 DEF Cost, Side
    <2>10. CASE part.type = "DIRECT_ENTRY"
        <3>1. /\ IF comp.plus THEN x > y ELSE x < y
              /\ points[t] = x * Scale /\ points[u] = y * Scale
            BY <2>4, <2>10 DEF Better, RankedTypes, x, y
        <3> QED BY <2>5, <3>1 DEF Cost, Side, Scale, x, y
    <2> QED BY <2>3, <2>6, <2>7, <2>8, <2>9, <2>10
<1> QED BY <1>2, <1>3

\* In every method with a ranking those who failed share the last points of their list,
\* and nobody who succeeded gets worse ones (docs/exceptions.md:24-27).
THEOREM FailedResultsComeLast ==
    ASSUME NEW part, NEW comp, NEW E, NEW worst, SoundSettings(part, comp), SoundEntries(E),
           Null \notin Int \cup {"FAILED"}
    PROVE  FailedComeLast(part, comp, E, CalculateScores(part, comp, E, worst))
<1> DEFINE points == CalculateScores(part, comp, E, worst)
           S == Succeeded(E)
           F == Failed(E)
<1>1. IsFiniteSet(S) /\ IsFiniteSet(F) /\ S \cap F = {} /\ Sound(E, S)
    <2>1. S \subseteq DOMAIN E /\ F \subseteq DOMAIN E /\ S \cap F = {} /\ Sound(E, S)
        BY DEF Succeeded, Failed, Sound, SoundEntries
    <2> HIDE DEF S, F
    <2> QED BY <2>1, FS_Subset DEF SoundEntries
<1> SUFFICES ASSUME part.type \in RankedTypes, NEW f \in F
             PROVE  /\ \A g \in F : SameList(part, comp, E[f], E[g])
                                      => Cost(comp, points[f]) = Cost(comp, points[g])
                    /\ \A t \in S : SameList(part, comp, E[f], E[t])
                                      => Cost(comp, points[t]) <= Cost(comp, points[f])
    BY DEF FailedComeLast
<1>2. \A t \in S \cup F : points[t] = ApplyRanking(part, comp, E, S, F)[t]
    BY CompetitorsPoints
<1> HIDE DEF points, S, F
<1> QED BY <1>1, <1>2, RankingFollows

-----------------------------------------------------------------------------
(* The arena of one element: points are numbers, and a step that is wide    *)
(* enough survives the rounding.                                            *)

\* Rounding gives thousandths.
LEMMA Round3Type ==
    ASSUME NEW a \in Int, NEW c \in Int, c > 0
    PROVE  Round3(a, c) \in Int /\ Round3(a, c) \in Thousandths
<1>1. a <= a
    OBVIOUS
<1> QED BY <1>1, Round3Monotone

\* Sums and differences of thousandths are thousandths.
LEMMA ThousandthsAdd ==
    ASSUME NEW a \in Thousandths, NEW b \in Thousandths
    PROVE  a + b \in Thousandths /\ a - b \in Thousandths /\ a \in Int /\ b \in Int
<1>1. PICK i \in Int, j \in Int : a = 10 * i /\ b = 10 * j
    BY Tens
<1>2. a + b = 10 * (i + j) /\ i + j \in Int /\ a - b = 10 * (i - j) /\ i - j \in Int
    BY <1>1
<1>3. \A x : (\E k \in Int : x = 10 * k) => x \in Thousandths
    BY Tens
<1>4. (\E k \in Int : a + b = 10 * k) /\ (\E k \in Int : a - b = 10 * k)
    BY <1>2
<1> QED BY <1>1, <1>3, <1>4

\* A quotient leaves a remainder below the divisor.
LEMMA Division ==
    ASSUME NEW x \in Int, NEW y \in Int, y > 0
    PROVE  /\ x \div y \in Int /\ y * (x \div y) \in Int
           /\ y * (x \div y) <= x /\ x < y * (x \div y) + y
<1> DEFINE q == x \div y
           r == x % y
<1>1. q \in Int /\ r \in Int /\ x = y * q + r /\ 0 <= r /\ r < y
    OBVIOUS
<1> HIDE DEF q, r
<1>2. y * q \in Int /\ y * q <= x /\ x < y * q + y
    BY <1>1
<1> QED BY <1>1, <1>2 DEF q

\* Half a step away from whole points is enough to be rounded away from them.
LEMMA StepSurvives ==
    ASSUME NEW a \in Thousandths, NEW n \in Int, n > 0, NEW g \in Int
    PROVE  /\ g > 5 * n => Round3(a * n + g, n) > a
           /\ g < -(5 * n) => Round3(a * n + g, n) < a
<1>1. PICK k \in Int : a = 10 * k
    BY Tens
<1> DEFINE x == 2 * (a * n + g) + 10 * n
           y == 20 * n
           q == x \div y
<1>2. /\ x \in Int /\ y \in Int /\ y > 0
      /\ x = y * k + 2 * g + 10 * n
    BY <1>1
<1>3. Round3(a * n + g, n) = 10 * q
    <2>1. 2 * (10 * n) = y
        OBVIOUS
    <2> QED BY <2>1 DEF Round3, RoundDiv
<1>4. q \in Int /\ y * q \in Int /\ y * k \in Int /\ y * q <= x /\ x < y * q + y
    <2> HIDE DEF x, y
    <2> QED BY <1>2, Division
<1> HIDE DEF x, q
<1>5. ASSUME g > 5 * n PROVE q > k
    <2>1. x > y * k + y
        BY <1>2, <1>4, <1>5
    <2> SUFFICES ASSUME q <= k PROVE FALSE
        BY <1>4
    <2> HIDE DEF y
    <2>2. y * q <= y * k
        BY <1>2, <1>4, TimesMonotone
    <2> QED BY <1>2, <1>4, <2>1, <2>2
<1>6. ASSUME g < -(5 * n) PROVE q < k
    <2>1. x < y * k
        BY <1>2, <1>4, <1>6
    <2> SUFFICES ASSUME k <= q PROVE FALSE
        BY <1>4
    <2> HIDE DEF y
    <2>2. y * k <= y * q
        BY <1>2, <1>4, TimesMonotone
    <2> QED BY <1>2, <1>4, <2>1, <2>2
<1> QED BY <1>1, <1>3, <1>4, <1>5, <1>6

\* The points of a place are a number, and of three decimals if those in the table are.
LEMMA PointsAtType ==
    ASSUME NEW part, NEW comp, SoundScale(part, comp), SoundTable(part, comp),
           NEW n \in Int, NEW p \in Int, 1 <= p, p <= n
    PROVE  /\ PointsAt(part, comp, n, p) \in Int
           /\ (\A i \in DOMAIN part.points : part.points[i] \in Thousandths)
                 => PointsAt(part, comp, n, p) \in Thousandths
<1> DEFINE len == Len(part.points)
           best == Side(comp, part.max, part.min)
           worst == Side(comp, part.min, part.max)
           y == best * (n - 1) - (p - 1) * (best - worst)
           z == part.points[len] * (n - len) - (p - len) * (part.points[len] - part.min)
<1>1. len \in Nat /\ DOMAIN part.points = 1..len /\ \A i \in 1..len : part.points[i] \in Int
    BY DEF SoundTable
<1>2. best \in Int /\ worst \in Int /\ part.min \in Int /\ best \in Thousandths /\ part.min \in Thousandths
    BY ScaleIsWhole DEF Side, SoundScale
<1>3. /\ len = 0 => PointsAt(part, comp, n, p) = IF n > 1 THEN Round3(y, n - 1) ELSE best
      /\ (len > 0 /\ p <= len) => PointsAt(part, comp, n, p) = part.points[p]
      /\ (len > 0 /\ p > len /\ part.mode = "MANUAL_ALL") => PointsAt(part, comp, n, p) = part.points[len]
      /\ (len > 0 /\ p > len /\ part.mode # "MANUAL_ALL")
            => PointsAt(part, comp, n, p) = IF n <= len THEN part.min ELSE Round3(z, n - len)
    BY <1>1 DEF PointsAt
<1>4. y \in Int
    BY <1>2
<1>5. len > 0 => z \in Int /\ len \in 1..len
    BY <1>1, <1>2
<1>6. p <= len => p \in 1..len
    BY <1>1
<1> HIDE DEF len, best, y, z
<1>7. n > 1 => Round3(y, n - 1) \in Int /\ Round3(y, n - 1) \in Thousandths
    BY <1>4, Round3Type
<1>8. (len > 0 /\ n > len) => Round3(z, n - len) \in Int /\ Round3(z, n - len) \in Thousandths
    <2> HAVE len > 0 /\ n > len
    <2>1. n - len \in Int /\ n - len > 0
        BY <1>1
    <2> QED BY <1>5, <2>1, Round3Type
<1> DEFINE x == PointsAt(part, comp, n, p)
<1>9. CASE len = 0
    <2>1. x = IF n > 1 THEN Round3(y, n - 1) ELSE best
        BY <1>3, <1>9
    <2> QED BY <1>2, <1>7, <2>1
<1>10. CASE len > 0 /\ n > len /\ p > len /\ part.mode # "MANUAL_ALL"
    <2>1. x = Round3(z, n - len)
        BY <1>1, <1>3, <1>10
    <2> QED BY <1>8, <1>10, <2>1
<1>11. CASE len > 0 /\ (n <= len \/ p <= len \/ part.mode = "MANUAL_ALL")
    <2>1. x = part.min \/ \E i \in 1..len : x = part.points[i]
        BY <1>1, <1>3, <1>5, <1>6, <1>11
    <2> HIDE DEF x
    <2>2. /\ x \in Int
          /\ (\A i \in DOMAIN part.points : part.points[i] \in Thousandths) => x \in Thousandths
        BY <1>1, <1>2, <2>1
    <2> QED BY <2>2 DEF x
<1> QED BY <1>1, <1>9, <1>10, <1>11

\* In a table the last place is worth less than the one before it.
LEMMA LastPlaceIsBehind ==
    ASSUME NEW part, NEW comp, SoundScale(part, comp), SoundTable(part, comp),
           part.type = "FIXED_RANKING", part.mode # "MANUAL_ALL",
           NEW n \in Int, n > 1, WideSteps(part, comp, n)
    PROVE  Cost(comp, PointsAt(part, comp, n, n - 1)) < Cost(comp, PointsAt(part, comp, n, n))
<1> DEFINE len == Len(part.points)
           last == part.points[len]
           best == Side(comp, part.max, part.min)
           worst == Side(comp, part.min, part.max)
<1>1. /\ len \in Nat /\ DOMAIN part.points = 1..len /\ comp.plus \in BOOLEAN
      /\ \A i \in 1..len : part.points[i] \in Int
    BY DEF SoundTable, SoundScale
<1>2. /\ part.min \in Int /\ part.max \in Int /\ part.min <= part.max
      /\ part.min \in Thousandths /\ part.max \in Thousandths
      /\ best \in Int /\ worst \in Int /\ worst \in Thousandths
    BY ScaleIsWhole DEF SoundScale, Side
<1>3. CASE len = 0
    <2>1. /\ PointsAt(part, comp, n, n - 1) = Round3(best * (n - 1) - (n - 2) * (best - worst), n - 1)
          /\ PointsAt(part, comp, n, n) = Round3(best * (n - 1) - (n - 1) * (best - worst), n - 1)
        BY <1>3 DEF PointsAt
    <2>2. /\ best * (n - 1) - (n - 2) * (best - worst) = worst * (n - 1) + (best - worst)
          /\ best * (n - 1) - (n - 1) * (best - worst) = worst * (n - 1)
        BY <1>2
    <2>3. Round3(worst * (n - 1), n - 1) = worst
        BY <1>2, Round3Exact
    <2>4. Magnitude(part.max - part.min) > 5 * (n - 1)
        BY <1>3 DEF WideSteps
    <2>5. IF comp.plus THEN best - worst > 5 * (n - 1) ELSE best - worst < -(5 * (n - 1))
        BY <1>1, <1>2, <2>4 DEF Magnitude, Side
    <2> HIDE DEF best, worst
    <2>6. /\ n - 1 \in Int /\ n - 1 > 0 /\ best - worst \in Int
          /\ Round3(worst * (n - 1) + (best - worst), n - 1) \in Int
        <3>1. n - 1 \in Int /\ n - 1 > 0 /\ worst * (n - 1) + (best - worst) \in Int
            BY <1>2
        <3> QED BY <1>2, <3>1, Round3Type
    <2>7. IF comp.plus THEN Round3(worst * (n - 1) + (best - worst), n - 1) > worst
          ELSE Round3(worst * (n - 1) + (best - worst), n - 1) < worst
        <3> DEFINE g == best - worst
                   m == n - 1
        <3>1. m \in Int /\ m > 0 /\ g \in Int /\ IF comp.plus THEN g > 5 * m ELSE g < -(5 * m)
            BY <2>5, <2>6
        <3> HIDE DEF g, m
        <3>2. IF comp.plus THEN Round3(worst * m + g, m) > worst ELSE Round3(worst * m + g, m) < worst
            BY <1>2, <3>1, StepSurvives
        <3> QED BY <3>2 DEF g, m
    <2> DEFINE x == PointsAt(part, comp, n, n - 1)
    <2>8. /\ PointsAt(part, comp, n, n) = worst /\ x \in Int
          /\ IF comp.plus THEN x > worst ELSE x < worst
        BY <2>1, <2>2, <2>3, <2>6, <2>7
    <2> HIDE DEF x
    <2>9. Cost(comp, x) < Cost(comp, worst)
        BY <1>1, <1>2, <2>8 DEF Cost, Side
    <2> QED BY <2>8, <2>9 DEF x
<1>4. CASE len > 0 /\ n <= len
    <2>1. PointsAt(part, comp, n, n - 1) = part.points[n - 1] /\ PointsAt(part, comp, n, n) = part.points[n]
        BY <1>1, <1>4 DEF PointsAt
    <2>2. n - 1 \in DOMAIN part.points /\ n \in DOMAIN part.points
        BY <1>1, <1>4
    <2> QED BY <2>1, <2>2 DEF WideSteps
<1>5. CASE len > 0 /\ n > len
    <2> DEFINE m == n - len
               gap == last - part.min
    <2>1. /\ m \in Int /\ m > 0 /\ last \in Int /\ last \in Thousandths /\ gap \in Int
          /\ Cost(comp, last) <= Cost(comp, part.min)
        BY <1>1, <1>2, <1>5 DEF SoundTable
    <2>2. Magnitude(gap) > 5 * m
        <3>1. part.type = "FIXED_RANKING" /\ len > 0 /\ n - len > 0
            BY <1>5, <2>1
        <3> QED BY <3>1 DEF WideSteps
    <2>3. IF comp.plus THEN gap > 5 * m ELSE gap < -(5 * m)
        <3>1. IF comp.plus THEN gap >= 0 ELSE gap <= 0
            <4>1. last \in Int /\ part.min \in Int /\ gap = last - part.min
                BY <1>2, <2>1
            <4> HIDE DEF last, gap
            <4> QED BY <1>1, <2>1, <4>1 DEF Cost, Side
        <3> HIDE DEF gap, m
        <3> QED BY <2>1, <2>2, <3>1 DEF Magnitude
    <2>4. PointsAt(part, comp, n, n) = Round3(last * m - (n - len) * gap, m)
        BY <1>1, <1>5 DEF PointsAt
    <2>5. n - 1 > len => PointsAt(part, comp, n, n - 1) = Round3(last * m - (n - 1 - len) * gap, m)
        BY <1>1, <1>5 DEF PointsAt
    <2>6. n - 1 = len => PointsAt(part, comp, n, n - 1) = last /\ m = 1
        BY <1>1, <1>5 DEF PointsAt
    <2>7. /\ last * m - (n - len) * gap = part.min * m
          /\ last * m - (n - 1 - len) * gap = part.min * m + gap
        <3>1. n - len = m /\ n - 1 - len = m - 1 /\ last = part.min + gap
            BY <1>1, <1>2, <2>1
        <3> HIDE DEF last, gap, m
        <3>2. /\ (part.min + gap) * m - m * gap = part.min * m
              /\ (part.min + gap) * m - (m - 1) * gap = part.min * m + gap
            BY <1>2, <2>1
        <3> QED BY <3>1, <3>2
    <2>8. Round3(part.min * m, m) = part.min
        BY <1>2, <2>1, Round3Exact
    <2>9. n - 1 = len => Round3(part.min * m + gap, m) = last
        <3> HAVE n - 1 = len
        <3>1. part.min * m + gap = last * m
            <4>1. m = 1 /\ last = part.min + gap
                BY <1>2, <2>1, <2>6
            <4> HIDE DEF last, gap, m
            <4> QED BY <1>2, <2>1, <4>1
        <3> QED BY <2>1, <3>1, Round3Exact
    <2> HIDE DEF len, last, gap, m
    <2>10. PointsAt(part, comp, n, n - 1) = Round3(part.min * m + gap, m)
        BY <1>1, <1>5, <2>5, <2>6, <2>7, <2>9
    <2>11. Round3(part.min * m + gap, m) \in Int
        <3>1. part.min * m + gap \in Int
            BY <1>2, <2>1
        <3> QED BY <2>1, <3>1, Round3Type
    <2>12. IF comp.plus THEN Round3(part.min * m + gap, m) > part.min
           ELSE Round3(part.min * m + gap, m) < part.min
        BY <1>2, <2>1, <2>3, StepSurvives
    <2> QED BY <1>1, <1>2, <2>4, <2>7, <2>8, <2>10, <2>11, <2>12 DEF Cost, Side
<1> QED BY <1>1, <1>3, <1>4, <1>5

\* Whatever the method, the points of who succeeded are a number, and so are those of who
\* failed in a ranking.
LEMMA RelativeType ==
    ASSUME NEW part, NEW comp, NEW E, NEW S, NEW F, SoundScale(part, comp), Sound(E, S),
           Null \notin Int, IsFiniteSet(S), IsFiniteSet(F), NEW t \in S \cup F
    PROVE  RelativeRanking(part, comp, E, S, F)[t] \in Thousandths
<1> DEFINE n == Places(S, F)
           range == part.max - part.min
           P(w) == PlaceIn(part, E, S, w)
           Offset(w) == Round3((P(w) - 1) * range, n - 1)
           x == RelativeRanking(part, comp, E, S, F)[t]
<1>1. x = IF t \in F THEN Side(comp, part.min, part.max)
          ELSE IF n <= 1 THEN Side(comp, part.max, part.min)
          ELSE Side(comp, part.max - Offset(t), part.min + Offset(t))
    BY DEF RelativeRanking
<1>2. range \in Int /\ part.min \in Thousandths /\ part.max \in Thousandths /\ comp.plus \in BOOLEAN
    BY ScaleIsWhole DEF SoundScale
<1>3. CASE t \in F \/ n <= 1
    <2> HIDE DEF x
    <2>1. x \in Thousandths
        BY <1>1, <1>2, <1>3 DEF Side
    <2> QED BY <2>1 DEF x
<1>4. CASE t \notin F /\ n > 1
    <2>1. n \in Nat /\ P(t) \in Int
        BY <1>4, PlaceType, PlacesType
    <2> HIDE DEF n, range, P
    <2>2. n - 1 \in Int /\ n - 1 > 0 /\ (P(t) - 1) * range \in Int
        BY <1>2, <1>4, <2>1
    <2>3. Offset(t) \in Thousandths
        BY <2>2, Round3Type
    <2> HIDE DEF Offset
    <2>4. part.max - Offset(t) \in Thousandths /\ part.min + Offset(t) \in Thousandths
        BY <1>2, <2>3, ThousandthsAdd
    <2> HIDE DEF x
    <2>5. x \in Thousandths
        BY <1>1, <1>2, <1>4, <2>1, <2>4 DEF Side
    <2> QED BY <2>5 DEF x
<1> QED BY <1>3, <1>4, PlacesType

LEMMA FixedTableType ==
    ASSUME NEW part, NEW comp, NEW E, NEW S, NEW F, SoundScale(part, comp), SoundTable(part, comp),
           Sound(E, S), Null \notin Int, IsFiniteSet(S), IsFiniteSet(F), S \cap F = {},
           NEW t \in S \cup F
    PROVE  /\ FixedTable(part, comp, E, S, F)[t] \in Int
           /\ (\A i \in DOMAIN part.points : part.points[i] \in Thousandths)
                 => FixedTable(part, comp, E, S, F)[t] \in Thousandths
<1> DEFINE n == Places(S, F)
           p == IF t \in S THEN PlaceIn(part, E, S, t) ELSE n
           x == FixedTable(part, comp, E, S, F)[t]
           wide == \A i \in DOMAIN part.points : part.points[i] \in Thousandths
<1>1. x = Side(comp, part.min, part.max) \/ x = PointsAt(part, comp, n, p)
    BY DEF FixedTable
<1>2. Side(comp, part.min, part.max) \in Int /\ Side(comp, part.min, part.max) \in Thousandths
    BY ScaleIsWhole DEF Side, SoundScale
<1>3. p \in Int /\ n \in Int /\ 1 <= p /\ p <= n
    <2>1. CASE t \in S
        BY <2>1, PlaceType, PlacesType
    <2>2. CASE t \notin S
        BY <2>2, PlacesType
    <2> QED BY <2>1, <2>2
<1> HIDE DEF n, p, x
<1>4. PointsAt(part, comp, n, p) \in Int /\ (wide => PointsAt(part, comp, n, p) \in Thousandths)
    BY <1>3, PointsAtType
<1>5. x \in Int /\ (wide => x \in Thousandths)
    BY <1>1, <1>2, <1>4
<1> QED BY <1>5 DEF x

LEMMA TeamCountType ==
    ASSUME NEW part, NEW comp, NEW E, NEW S, NEW F, SoundCount(part, comp),
           Sound(E, S), Null \notin Int, IsFiniteSet(S), IsFiniteSet(F), NEW t \in S \cup F
    PROVE  TeamCount(part, comp, E, S, F)[t] \in Int
<1> DEFINE Key(w) == KeyOf(part, comp, E, w)
           Bucket(T, w) == {v \in T : Key(v) = Key(w)}
           InBucket(w) == Cardinality(Bucket(S \cup F, w))
           N(w) == IF Key(w) \in DOMAIN comp.registered
                   THEN (IF comp.registered[Key(w)] > 1 THEN comp.registered[Key(w)] ELSE 1)
                   ELSE InBucket(w)
           LastPlace(w) == IF InBucket(w) > N(w) THEN InBucket(w) ELSE N(w)
           x == TeamCount(part, comp, E, S, F)[t]
<1>1. x = IF t \in S
          THEN RegisteredCountPoints(part, comp, PlaceIn(part, E, Bucket(S, t), t), N(t))
          ELSE RegisteredCountPoints(part, comp, LastPlace(t), LastPlace(t))
    BY DEF TeamCount, KeyOf
<1>2. Bucket(S, t) \in SUBSET S /\ Bucket(S \cup F, t) \in SUBSET (S \cup F)
    OBVIOUS
<1>3. IsFiniteSet(Bucket(S, t)) /\ IsFiniteSet(Bucket(S \cup F, t))
    <2> HIDE DEF Bucket
    <2> QED BY <1>2, FS_Subset, FS_Union
<1>4. Sound(E, Bucket(S, t)) /\ (t \in S => t \in Bucket(S, t))
    BY DEF Sound
<1>5. InBucket(t) \in Nat
    <2> HIDE DEF Bucket
    <2> QED BY <1>3, FS_CardinalityType
<1>6. N(t) \in Int /\ LastPlace(t) \in Int
    <2> HIDE DEF Key, InBucket
    <2> QED BY <1>5 DEF SoundCount
<1> HIDE DEF Bucket, N, LastPlace, x
<1>7. t \in S => PlaceIn(part, E, Bucket(S, t), t) \in Int
    BY <1>3, <1>4, PlaceType
<1>8. \A p \in Int, n \in Int : RegisteredCountPoints(part, comp, p, n) \in Int
    BY DEF RegisteredCountPoints, SoundCount
<1>9. x \in Int
    BY <1>1, <1>6, <1>7, <1>8
<1> QED BY <1>9 DEF x

LEMMA ValueBasedType ==
    ASSUME NEW part, NEW comp, SoundScale(part, comp), NEW E, NEW S, NEW F, Sound(E, S),
           Null \notin Int, IsFiniteSet(S), S \cap F = {}, NEW t \in S \cup F
    PROVE  ValueBased(part, comp, E, S, F)[t] \in Int
<1> DEFINE B == Breadth(E, S)
           best == BestPoints(part, comp)
           range == part.max - part.min
           v == E[t].value
           own == ValuePoints(part, comp, E, S, v)
           bk == B * (Cardinality(SameValue(E, S, t)) + 1)
           d == Distance(part, E, S, t)
           x == ValueBased(part, comp, E, S, F)[t]
<1>1. part.min \in Int /\ part.max \in Int /\ range \in Int /\ best \in Int
    BY ScaleIsWhole DEF SoundScale, BestPoints, Side
<1>2. CASE t \in F
    <2>1. x = Side(comp, part.min, part.max)
        BY <1>2 DEF ValueBased
    <2> QED BY <1>1, <2>1 DEF Side
<1>3. CASE t \in S
    <2>1. B \in Nat /\ Away(part, E, S, v) \in Nat
        <3>1. v \in ValuesOf(E, S) /\ S # {}
            BY <1>3 DEF ValuesOf
        <3> QED BY <3>1, ValuesType
    <2>2. CASE B = 0
        BY <1>1, <1>3, <2>2, ValueBasedByParts
    <2>3. CASE B # 0 /\ part.tieBreak = "NONE"
        <3>1. x = Round3(own, B)
            BY <1>3, <2>3, ValueBasedByParts
        <3>2. own = best * B + (IF comp.plus THEN -(Away(part, E, S, v) * range) ELSE Away(part, E, S, v) * range)
            BY DEF ValuePoints
        <3> HIDE DEF B, best, range, v, own, x
        <3>3. own \in Int /\ B \in Int /\ B > 0
            BY <1>1, <2>1, <2>3, <3>2
        <3>4. x \in Int
            BY <3>1, <3>3, Round3Type
        <3> QED BY <3>4 DEF x
    <2>4. CASE B # 0 /\ part.tieBreak # "NONE"
        <3>1. x = RoundDiv(Share(comp, best, range, bk, d), bk)
            BY <1>3, <2>4, PointsByDistance
        <3>2. d \in Int
            BY <1>3, <2>4, DistanceType
        <3>3. Cardinality(SameValue(E, S, t)) \in Nat
            BY <1>3, StepsWithin
        <3>4. bk \in Int /\ bk > 0
            <4> DEFINE k == Cardinality(SameValue(E, S, t))
            <4> HIDE DEF k, B
            <4>1. B \in Int /\ B > 0 /\ k + 1 \in Int /\ k + 1 > 0
                BY <2>1, <2>4, <3>3 DEF k
            <4>2. B * (k + 1) \in Int /\ B * (k + 1) > 0
                BY <4>1
            <4> QED BY <4>2 DEF k
        <3> HIDE DEF bk, d, best, range, x
        <3>5. Share(comp, best, range, bk, d) \in Int
            BY <1>1, <3>2, <3>4 DEF Share
        <3>6. RoundDiv(Share(comp, best, range, bk, d), bk) \in Int
            <4> DEFINE s == Share(comp, best, range, bk, d)
            <4>1. s \in Int /\ s <= s
                BY <3>5
            <4> HIDE DEF s
            <4>2. RoundDiv(s, bk) \in Int
                BY <3>4, <4>1, RoundDivMonotone
            <4> QED BY <4>2 DEF s
        <3> QED BY <3>1, <3>6 DEF x
    <2> QED BY <2>2, <2>3, <2>4
<1> QED BY <1>2, <1>3

LEMMA RankingType ==
    ASSUME NEW part, NEW comp, NEW E, NEW S, NEW F, SoundSettings(part, comp), Sound(E, S),
           part.type \in RankedTypes, Null \notin Int, IsFiniteSet(S), IsFiniteSet(F), S \cap F = {},
           NEW t \in S \cup F
    PROVE  ApplyRanking(part, comp, E, S, F)[t] \in Int
<1>1. CASE part.type = "RELATIVE_RANKING"
    <2>1. ApplyRanking(part, comp, E, S, F) = RelativeRanking(part, comp, E, S, F) /\ SoundScale(part, comp)
        BY <1>1 DEF ApplyRanking, SoundSettings
    <2>2. RelativeRanking(part, comp, E, S, F)[t] \in Thousandths
        BY <2>1, RelativeType
    <2> QED BY <2>1, <2>2 DEF Thousandths
<1>2. CASE part.type = "VALUE_BASED"
    <2>1. ApplyRanking(part, comp, E, S, F) = ValueBased(part, comp, E, S, F) /\ SoundScale(part, comp)
        BY <1>2 DEF ApplyRanking, SoundSettings
    <2> QED BY <2>1, ValueBasedType
<1>3. CASE part.type = "FIXED_RANKING" /\ part.mode = "REGISTERED_COUNT"
    <2>1. ApplyRanking(part, comp, E, S, F) = TeamCount(part, comp, E, S, F) /\ SoundCount(part, comp)
        BY <1>3 DEF ApplyRanking, FixedRanking, SoundSettings
    <2> QED BY <2>1, TeamCountType
<1>4. CASE part.type = "FIXED_RANKING" /\ part.mode # "REGISTERED_COUNT"
    <2>1. /\ ApplyRanking(part, comp, E, S, F) = FixedTable(part, comp, E, S, F)
          /\ SoundScale(part, comp) /\ SoundTable(part, comp)
        BY <1>4 DEF ApplyRanking, FixedRanking, SoundSettings
    <2> QED BY <2>1, FixedTableType
<1> QED BY <1>1, <1>2, <1>3, <1>4 DEF RankedTypes

\* The best value of finitely many is one of them.
LEMMA HighestType ==
    ASSUME NEW E, NEW T, IsFiniteSet(T), T # {}, \A w \in T : E[w].value \in Int
    PROVE  (CHOOSE v \in {E[w].value : w \in T} : \A w \in T : v >= E[w].value) \in Int
<1> DEFINE V == {E[w].value : w \in T}
           best == CHOOSE v \in V : \A w \in T : v >= E[w].value
<1>1. V \in SUBSET Int /\ V # {}
    OBVIOUS
<1>2. IsFiniteSet(V)
    <2> DEFINE f == [w \in T |-> E[w].value]
    <2>1. f \in Surjection(T, V)
        BY DEF Surjection
    <2> HIDE DEF f, V
    <2> QED BY <2>1, FS_Surjection
<1>3. \E v \in V : \A w \in V : v >= w
    <2> HIDE DEF V
    <2> QED BY <1>1, <1>2, Extremes
<1>4. \E v \in V : \A w \in T : v >= E[w].value
    BY <1>3
<1>5. best \in V
    BY <1>4 DEF best
<1> HIDE DEF V, best
<1>6. best \in Int
    BY <1>1, <1>5
<1> QED BY <1>6 DEF best, V

LEMMA UnrankedType ==
    ASSUME NEW part, NEW comp, NEW E, NEW worst, SoundSettings(part, comp), SoundEntries(E),
           part.type \notin RankedTypes, Null \notin Int \cup {"FAILED"}, NEW t \in Succeeded(E)
    PROVE  CalculateScores(part, comp, E, worst)[t] \in Int
<1> DEFINE points == CalculateScores(part, comp, E, worst)[t]
           normal == {w \in DOMAIN E : E[w].kind = Null /\ E[w].value # Null}
           best == CHOOSE v \in {E[w].value : w \in normal} : \A w \in normal : v >= E[w].value
           x == E[t].value * Scale
           correct == IF E[t].value < 0 THEN 0
                      ELSE IF E[t].value > part.total THEN part.total ELSE E[t].value
           share == Side(comp, correct, part.total - correct) * part.max
<1>1. t \in normal /\ \A w \in normal : E[w].value \in Int
    BY DEF Succeeded, SoundEntries
<1>2. points = Unranked(part, comp, E, normal, t)
    BY <1>1 DEF CalculateScores
<1>3. points =
        CASE part.type = "ABSOLUTE_TIME" -> Side(comp, -x, x)
          [] part.type = "ABSOLUTE_POINTS" -> Side(comp, x, best * Scale - x)
          [] part.type = "ABSOLUTE_PENALTY" -> Side(comp, -Magnitude(x), Magnitude(x))
          [] part.type = "PERFORMANCE_BASED" -> Round3(share, part.total)
          [] part.type = "DIRECT_ENTRY" -> x
    BY <1>2 DEF Unranked
<1>4. x \in Int /\ comp.plus \in BOOLEAN
    BY <1>1 DEF Scale, SoundSettings
<1>5. best \in Int
    <2>1. IsFiniteSet(normal)
        <3>1. normal \subseteq DOMAIN E
            OBVIOUS
        <3> QED BY <3>1, FS_Subset DEF SoundEntries
    <2> HIDE DEF normal
    <2> QED BY <1>1, <2>1, HighestType
<1>6. part.type = "PERFORMANCE_BASED" => part.total \in Int /\ part.total > 0 /\ share \in Int
    <2> HAVE part.type = "PERFORMANCE_BASED"
    <2>1. part.total \in Int /\ part.total > 0 /\ part.max \in Int
        BY DEF SoundSettings
    <2>2. correct \in Int
        BY <1>1, <2>1
    <2> HIDE DEF correct
    <2>3. Side(comp, correct, part.total - correct) \in Int
        BY <2>1, <2>2 DEF Side
    <2> QED BY <2>1, <2>3
<1>7. part.type \in {"ABSOLUTE_TIME", "ABSOLUTE_POINTS", "ABSOLUTE_PENALTY", "PERFORMANCE_BASED", "DIRECT_ENTRY"}
    BY DEF SoundSettings, Methods
<1> HIDE DEF points, best, x, share
<1>8. part.type = "PERFORMANCE_BASED" => Round3(share, part.total) \in Int
    BY <1>6, Round3Type
<1>9. points \in Int
    BY <1>3, <1>4, <1>5, <1>7, <1>8 DEF Side, Magnitude, Scale
<1> QED BY <1>9 DEF points

\* What is known of the competitors of a part.
LEMMA Competitors ==
    ASSUME NEW E, SoundEntries(E), Null # "FAILED"
    PROVE  /\ IsFiniteSet(Succeeded(E)) /\ IsFiniteSet(Failed(E))
           /\ Succeeded(E) \cap Failed(E) = {} /\ Sound(E, Succeeded(E))
<1>1. /\ Succeeded(E) \subseteq DOMAIN E /\ Failed(E) \subseteq DOMAIN E
      /\ Succeeded(E) \cap Failed(E) = {} /\ Sound(E, Succeeded(E))
    BY DEF Succeeded, Failed, Sound, SoundEntries
<1> QED BY <1>1, FS_Subset DEF SoundEntries

LEMMA PointsType ==
    ASSUME NEW part, NEW comp, NEW E, NEW worst, SoundSettings(part, comp), SoundEntries(E),
           Null \notin Int \cup {"FAILED"}, NEW t \in Succeeded(E) \cup Failed(E),
           t \in Succeeded(E) \/ part.type \in RankedTypes
    PROVE  CalculateScores(part, comp, E, worst)[t] \in Int
<1>1. CASE part.type \in RankedTypes
    <2>1. CalculateScores(part, comp, E, worst)[t] = ApplyRanking(part, comp, E, Succeeded(E), Failed(E))[t]
        BY <1>1, CompetitorsPoints
    <2> QED BY <1>1, <2>1, Competitors, RankingType
<1>2. CASE part.type \notin RankedTypes
    BY <1>2, UnrankedType
<1> QED BY <1>1, <1>2

\* Who succeeded or failed has points.
LEMMA CompetitorsHavePoints ==
    ASSUME NEW part, NEW comp, NEW E, NEW worst, NEW t \in Succeeded(E) \cup Failed(E)
    PROVE  t \in DOMAIN CalculateScores(part, comp, E, worst)
<1> DEFINE normal == {u \in DOMAIN E : E[u].kind = Null /\ E[u].value # Null}
           failed == {u \in DOMAIN E : E[u].kind = "FAILED"}
<1>1. t \in DOMAIN E /\ t \in normal \cup failed
    BY DEF Succeeded, Failed
<1> QED BY <1>1 DEF CalculateScores

\* Who failed stays strictly behind on a scale of equal steps.
LEMMA BehindOnScale ==
    ASSUME NEW part, NEW comp, NEW E, NEW S, NEW F, SoundScale(part, comp), Sound(E, S),
           Null \notin Int, IsFiniteSet(S), IsFiniteSet(F), S \cap F = {},
           part.type = "RELATIVE_RANKING", WideSteps(part, comp, Places(S, F)),
           NEW t \in S, NEW f \in F
    PROVE  LET points == RelativeRanking(part, comp, E, S, F)
           IN  Cost(comp, points[t]) < Cost(comp, points[f])
<1> DEFINE n == Places(S, F)
           range == part.max - part.min
           P == PlaceIn(part, E, S, t)
           Offset == Round3((P - 1) * range, n - 1)
           points == RelativeRanking(part, comp, E, S, F)
<1>1. /\ points[t] = IF n <= 1 THEN Side(comp, part.max, part.min)
                     ELSE Side(comp, part.max - Offset, part.min + Offset)
      /\ points[f] = Side(comp, part.min, part.max)
    BY DEF RelativeRanking
<1>2. n \in Nat /\ P \in Int /\ 1 <= P /\ P < n
    <2>1. f \in F \ S
        OBVIOUS
    <2> QED BY <2>1, PlaceType, PlacesType
<1>3. range \in Int /\ range \in Thousandths /\ range >= 0 /\ part.min \in Int /\ part.max \in Int
      /\ comp.plus \in BOOLEAN
    BY ScaleIsWhole DEF SoundScale
<1>4. range > 5 * (n - 1)
    <2>1. Magnitude(range) > 5 * (n - 1)
        BY <1>2 DEF WideSteps
    <2> HIDE DEF range
    <2> QED BY <1>3, <2>1 DEF Magnitude
<1> HIDE DEF n, range, P, points
<1> DEFINE m == n - 1
<1>5. Offset \in Int /\ Offset < range
    <2>1. m \in Int /\ m > 0 /\ P - 1 \in Int /\ P - 1 <= m - 1 /\ m - 1 \in Int
        BY <1>2
    <2> HIDE DEF m
    <2>2. /\ (P - 1) * range <= (m - 1) * range /\ (P - 1) * range \in Int /\ (m - 1) * range \in Int
        BY <1>3, <2>1, TimesMonotone
    <2>3. (m - 1) * range = range * m + (-range) /\ -range \in Int
        BY <1>3, <2>1
    <2>4. -range < -(5 * m)
        BY <1>3, <1>4, <2>1 DEF m
    <2>5. Round3(range * m + (-range), m) < range
        BY <1>3, <2>1, <2>3, <2>4, StepSurvives
    <2>6. /\ Round3((P - 1) * range, m) <= Round3((m - 1) * range, m)
          /\ Round3((P - 1) * range, m) \in Int /\ Round3((m - 1) * range, m) \in Int
        BY <2>1, <2>2, Round3Monotone
    <2>7. Round3((P - 1) * range, m) < range
        BY <1>3, <2>3, <2>5, <2>6
    <2> QED BY <2>6, <2>7 DEF m
<1> HIDE DEF Offset
<1>6. points[t] = Side(comp, part.max - Offset, part.min + Offset)
    BY <1>1, <1>2
<1>7. Cost(comp, points[t]) < Cost(comp, points[f])
    BY <1>1, <1>3, <1>5, <1>6 DEF Cost, Side, range
<1> QED BY <1>7 DEF points

\* And in a table, whatever its length.
LEMMA BehindInTable ==
    ASSUME NEW part, NEW comp, NEW E, NEW S, NEW F, SoundScale(part, comp), SoundTable(part, comp),
           Sound(E, S), Null \notin Int, IsFiniteSet(S), IsFiniteSet(F), S \cap F = {},
           part.type = "FIXED_RANKING", part.mode # "MANUAL_ALL",
           WideSteps(part, comp, Places(S, F)), NEW t \in S, NEW f \in F
    PROVE  LET points == FixedTable(part, comp, E, S, F)
           IN  Cost(comp, points[t]) < Cost(comp, points[f])
<1> DEFINE n == Places(S, F)
           P == PlaceIn(part, E, S, t)
           points == FixedTable(part, comp, E, S, F)
<1>1. points[t] = PointsAt(part, comp, n, P) /\ points[f] = PointsAt(part, comp, n, n)
    BY DEF FixedTable
<1>2. n \in Int /\ P \in Int /\ 1 <= P /\ P <= n - 1 /\ n > 1 /\ n - 1 \in Int /\ n - 1 <= n /\ 1 <= n - 1
    <2>1. f \in F \ S
        OBVIOUS
    <2>2. n \in Nat /\ Cardinality(S) \in Nat /\ Cardinality(S) < n
        BY <2>1, PlacesType
    <2>3. P \in Int /\ 1 <= P /\ P <= Cardinality(S)
        BY PlaceType
    <2> HIDE DEF n, P
    <2> QED BY <2>2, <2>3
<1>3. WideSteps(part, comp, n)
    OBVIOUS
<1> HIDE DEF n, P, points
<1>4. Cost(comp, PointsAt(part, comp, n, P)) <= Cost(comp, PointsAt(part, comp, n, n - 1))
    BY <1>2, PointsAtFollows
<1>5. Cost(comp, PointsAt(part, comp, n, n - 1)) < Cost(comp, PointsAt(part, comp, n, n))
    BY <1>2, <1>3, LastPlaceIsBehind
<1>6. /\ PointsAt(part, comp, n, P) \in Int /\ PointsAt(part, comp, n, n - 1) \in Int
      /\ PointsAt(part, comp, n, n) \in Int
    <2>1. n <= n /\ 1 <= n /\ P <= n /\ n - 1 <= n - 1
        BY <1>2
    <2>2. PointsAt(part, comp, n, n) \in Int
        BY <1>2, <2>1, PointsAtType
    <2> QED BY <1>2, <2>1, <2>2, PointsAtType
<1>7. comp.plus \in BOOLEAN
    BY DEF SoundScale
<1> DEFINE a == PointsAt(part, comp, n, P)
           b == PointsAt(part, comp, n, n - 1)
           c == PointsAt(part, comp, n, n)
<1>8. a \in Int /\ b \in Int /\ c \in Int /\ Cost(comp, a) <= Cost(comp, b) /\ Cost(comp, b) < Cost(comp, c)
      /\ points[t] = a /\ points[f] = c
    BY <1>1, <1>4, <1>5, <1>6
<1> HIDE DEF a, b, c
<1>9. Cost(comp, points[t]) < Cost(comp, points[f])
    BY <1>7, <1>8 DEF Cost, Side
<1> QED BY <1>9 DEF points

\* Where the steps are wide enough, nobody who succeeded has the points of those who
\* failed (docs/exceptions.md:24-27, lib/calculators/index.ts:257-347).
THEOREM FailedAreStrictlyBehind ==
    ASSUME NEW part, NEW comp, NEW E, NEW worst, SoundSettings(part, comp), SoundEntries(E),
           Null \notin Int \cup {"FAILED"}
    PROVE  FailedStayBehind(part, comp, E, CalculateScores(part, comp, E, worst))
<1> DEFINE points == CalculateScores(part, comp, E, worst)
           S == Succeeded(E)
           F == Failed(E)
<1> SUFFICES ASSUME \/ part.type = "RELATIVE_RANKING"
                    \/ part.type = "FIXED_RANKING" /\ part.mode \notin {"MANUAL_ALL", "REGISTERED_COUNT"},
                    WideSteps(part, comp, Cardinality(S \cup F)), NEW f \in F, NEW t \in S
             PROVE  Cost(comp, points[t]) < Cost(comp, points[f])
    BY DEF FailedStayBehind
<1>1. IsFiniteSet(S) /\ IsFiniteSet(F) /\ S \cap F = {} /\ Sound(E, S)
    BY Competitors
<1>2. \A u \in S \cup F : points[u] = ApplyRanking(part, comp, E, S, F)[u]
    BY CompetitorsPoints DEF RankedTypes
<1>3. WideSteps(part, comp, Places(S, F))
    BY DEF Places
<1> HIDE DEF points, S, F
<1>4. CASE part.type = "RELATIVE_RANKING"
    <2>1. ApplyRanking(part, comp, E, S, F) = RelativeRanking(part, comp, E, S, F) /\ SoundScale(part, comp)
        BY <1>4 DEF ApplyRanking, SoundSettings
    <2> QED BY <1>1, <1>2, <1>3, <1>4, <2>1, BehindOnScale
<1>5. CASE part.type = "FIXED_RANKING" /\ part.mode \notin {"MANUAL_ALL", "REGISTERED_COUNT"}
    <2>1. /\ ApplyRanking(part, comp, E, S, F) = FixedTable(part, comp, E, S, F)
          /\ SoundScale(part, comp) /\ SoundTable(part, comp)
        BY <1>5 DEF ApplyRanking, FixedRanking, SoundSettings
    <2> QED BY <1>1, <1>2, <1>3, <1>5, <2>1, BehindInTable
<1> QED BY <1>4, <1>5

\* There the points have three decimals.
LEMMA ThousandthsThere ==
    ASSUME NEW part, NEW comp, NEW E, NEW worst, SoundSettings(part, comp), SoundEntries(E),
           Null \notin Int \cup {"FAILED"}, NEW n,
           \/ part.type = "RELATIVE_RANKING"
           \/ part.type = "FIXED_RANKING" /\ part.mode \notin {"MANUAL_ALL", "REGISTERED_COUNT"},
           WideSteps(part, comp, n), NEW t \in Succeeded(E) \cup Failed(E)
    PROVE  CalculateScores(part, comp, E, worst)[t] \in Thousandths
<1> DEFINE x == CalculateScores(part, comp, E, worst)[t]
           S == Succeeded(E)
           F == Failed(E)
<1>1. IsFiniteSet(S) /\ IsFiniteSet(F) /\ S \cap F = {} /\ Sound(E, S)
    BY Competitors
<1>2. x = ApplyRanking(part, comp, E, S, F)[t]
    BY CompetitorsPoints DEF RankedTypes
<1> HIDE DEF x, S, F
<1>3. CASE part.type = "RELATIVE_RANKING"
    <2>1. ApplyRanking(part, comp, E, S, F) = RelativeRanking(part, comp, E, S, F) /\ SoundScale(part, comp)
        BY <1>3 DEF ApplyRanking, SoundSettings
    <2>2. RelativeRanking(part, comp, E, S, F)[t] \in Thousandths
        BY <1>1, <2>1, RelativeType DEF S, F
    <2> QED BY <1>2, <2>1, <2>2 DEF x
<1>4. CASE part.type = "FIXED_RANKING" /\ part.mode \notin {"MANUAL_ALL", "REGISTERED_COUNT"}
    <2>1. /\ ApplyRanking(part, comp, E, S, F) = FixedTable(part, comp, E, S, F)
          /\ SoundScale(part, comp) /\ SoundTable(part, comp)
        BY <1>4 DEF ApplyRanking, FixedRanking, SoundSettings
    <2>2. \A i \in DOMAIN part.points : part.points[i] \in Thousandths
        BY <1>4 DEF WideSteps
    <2>3. FixedTable(part, comp, E, S, F)[t] \in Thousandths
        BY <1>1, <2>1, <2>2, FixedTableType DEF S, F
    <2> QED BY <1>2, <2>1, <2>3 DEF x
<1> QED BY <1>3, <1>4

-----------------------------------------------------------------------------
(* The element: its only part, and the rounding of its points.              *)

\* Those who have not left, and the points of the first part.
Active(element, team, res) == {t \in DOMAIN res : ~Leaves(element, team, t)}
PartPoints(element, comp, team, res) ==
    CalculateScores(element.parts[1], comp, Entries(element, team, res, 1, Active(element, team, res)), FALSE)

\* The points of an element with one part are those of the part, rounded, and the bonus.
LEMMA OutcomePoints ==
    ASSUME NEW element, NEW comp, NEW team, NEW res,
           ~element.cancelled, ~element.misc, Len(element.parts) = 1, DOMAIN element.parts = {1},
           NEW t \in Active(element, team, res), t \in DOMAIN PartPoints(element, comp, team, res)
    PROVE  ComputeScores(element, comp, team, res)[t]
             = Round3(Bonus(element, t) + PartPoints(element, comp, team, res)[t], 1)
<1> DEFINE active == Active(element, team, res)
           P == PartPoints(element, comp, team, res)
           part == [k \in DOMAIN element.parts |->
                      CalculateScores(element.parts[k], comp, Entries(element, team, res, k, active), FALSE)]
           points == CombinedScores(element, comp, res, {}, part)
           gone == {u \in DOMAIN res : Leaves(element, team, u)}
<1>1. ComputeScores(element, comp, team, res) = ElementScores(element, comp, team, res, points)
    <2> DEFINE combined == Len(element.parts) > 1
               here == {u \in DOMAIN res : ~Leaves(element, team, u)}
               excepted == {u \in here : combined /\ res[u].kind \notin {Null, "FAILED"}}
               computed == [k \in DOMAIN element.parts |->
                              CalculateScores(element.parts[k], comp,
                                  Entries(element, team, res, k, here \ excepted), combined)]
    <2>1. ComputeScores(element, comp, team, res)
            = ElementScores(element, comp, team, res, CombinedScores(element, comp, res, excepted, computed))
        BY DEF ComputeScores
    <2>2. combined = FALSE /\ excepted = {} /\ here = active
        BY DEF Active
    <2> HIDE DEF combined, excepted, here, active
    <2>3. here \ excepted = active
        BY <2>2
    <2>4. computed = part
        BY <2>2, <2>3
    <2> HIDE DEF computed, part
    <2> QED BY <2>1, <2>2, <2>4
<1>2. part[1] = P /\ DOMAIN part = {1} /\ t \in DOMAIN P
    BY DEF PartPoints
<1> HIDE DEF part, P
<1>3. t \in DOMAIN points /\ points[t] = P[t]
    BY <1>2 DEF CombinedScores, Total
<1>4. t \notin gone
    BY DEF Active
<1> HIDE DEF points
<1> QED BY <1>1, <1>3, <1>4 DEF ElementScores, P

\* The bonus is added as it is.
LEMMA BonusApart ==
    ASSUME NEW b \in Thousandths, NEW p \in Int
    PROVE  Round3(b + p, 1) - b = Round3(p, 1)
<1>1. PICK k \in Int : b = 10 * k
    BY Tens
<1>2. (2 * (b + p) + 10) \div 20 = (2 * p + 10) \div 20 + k
    BY <1>1
<1>3. (2 * p + 10) \div 20 \in Int
    OBVIOUS
<1>4. 10 * ((2 * (b + p) + 10) \div 20) - b = 10 * ((2 * p + 10) \div 20)
    BY <1>1, <1>2, <1>3
<1>5. 10 * 1 = 10 /\ 2 * 10 = 20
    OBVIOUS
<1> QED BY <1>4, <1>5 DEF Round3, RoundDiv

\* Rounding keeps the order of costs, and strictly where there is nothing to round.
LEMMA RoundedCost ==
    ASSUME NEW comp, comp.plus \in BOOLEAN, NEW p \in Int, NEW q \in Int
    PROVE  /\ Cost(comp, p) <= Cost(comp, q) => Cost(comp, Round3(p, 1)) <= Cost(comp, Round3(q, 1))
           /\ Cost(comp, p) = Cost(comp, q) => Cost(comp, Round3(p, 1)) = Cost(comp, Round3(q, 1))
           /\ p \in Thousandths => Round3(p, 1) = p
<1>1. p <= q => Round3(p, 1) <= Round3(q, 1)
    BY Round3Monotone
<1>2. q <= p => Round3(q, 1) <= Round3(p, 1)
    BY Round3Monotone
<1>3. Round3(p, 1) \in Int /\ Round3(q, 1) \in Int
    BY Round3Type
<1>4. p \in Thousandths => Round3(p, 1) = p
    <2> HAVE p \in Thousandths
    <2>1. Round3(p * 1, 1) = p /\ p * 1 = p
        BY Round3Exact
    <2> QED BY <2>1
<1>5. Cost(comp, p) = Cost(comp, q) => p = q
    BY DEF Cost, Side
<1> QED BY <1>1, <1>2, <1>3, <1>4, <1>5, CostOrder

\* What the order of points promises stays true when all of them are rounded.
LEMMA RoundingKeepsOrder ==
    ASSUME NEW part, NEW comp, NEW E, SoundSettings(part, comp), SoundEntries(E),
           Null \notin Int \cup {"FAILED"}, NEW points,
           \A t \in Succeeded(E) \cup Failed(E) :
               t \in Succeeded(E) \/ part.type \in RankedTypes =>
                   points[t] = Round3(CalculateScores(part, comp, E, FALSE)[t], 1)
    PROVE  /\ BetterCostsLess(part, comp, E, points)
           /\ FailedComeLast(part, comp, E, points)
           /\ FailedStayBehind(part, comp, E, points)
<1> DEFINE P == CalculateScores(part, comp, E, FALSE)
           S == Succeeded(E)
           F == Failed(E)
<1>1. /\ BetterCostsLess(part, comp, E, P) /\ FailedComeLast(part, comp, E, P)
      /\ FailedStayBehind(part, comp, E, P)
    BY BetterResultsCostLess, FailedResultsComeLast, FailedAreStrictlyBehind
<1>2. comp.plus \in BOOLEAN
    BY DEF SoundSettings
<1>3. \A t \in S \cup F : t \in S \/ part.type \in RankedTypes => P[t] \in Int /\ points[t] = Round3(P[t], 1)
    BY PointsType
<1> HIDE DEF P, S, F
<1>4. BetterCostsLess(part, comp, E, points)
    <2> SUFFICES ASSUME NEW t \in S, NEW u \in S, SameList(part, comp, E[t], E[u]),
                        StayApart(part, E, S, t, u), Better(part, comp, E[t], E[u])
                 PROVE  Cost(comp, points[t]) <= Cost(comp, points[u])
        BY DEF BetterCostsLess, S
    <2>1. Cost(comp, P[t]) <= Cost(comp, P[u])
        BY <1>1 DEF BetterCostsLess, S
    <2>2. P[t] \in Int /\ P[u] \in Int /\ points[t] = Round3(P[t], 1) /\ points[u] = Round3(P[u], 1)
        BY <1>3
    <2> QED BY <1>2, <2>1, <2>2, RoundedCost
<1>5. FailedComeLast(part, comp, E, points)
    <2> SUFFICES ASSUME part.type \in RankedTypes, NEW f \in F
                 PROVE  /\ \A g \in F : SameList(part, comp, E[f], E[g])
                                          => Cost(comp, points[f]) = Cost(comp, points[g])
                        /\ \A t \in S : SameList(part, comp, E[f], E[t])
                                          => Cost(comp, points[t]) <= Cost(comp, points[f])
        BY DEF FailedComeLast, S, F
    <2>1. /\ \A g \in F : SameList(part, comp, E[f], E[g]) => Cost(comp, P[f]) = Cost(comp, P[g])
          /\ \A t \in S : SameList(part, comp, E[f], E[t]) => Cost(comp, P[t]) <= Cost(comp, P[f])
        BY <1>1 DEF FailedComeLast, S, F
    <2>2. \A u \in S \cup F : P[u] \in Int /\ points[u] = Round3(P[u], 1)
        BY <1>3
    <2>3. ASSUME NEW g \in F, SameList(part, comp, E[f], E[g])
          PROVE  Cost(comp, points[f]) = Cost(comp, points[g])
        BY <1>2, <2>1, <2>2, <2>3, RoundedCost
    <2>4. ASSUME NEW t \in S, SameList(part, comp, E[f], E[t])
          PROVE  Cost(comp, points[t]) <= Cost(comp, points[f])
        BY <1>2, <2>1, <2>2, <2>4, RoundedCost
    <2> QED BY <2>3, <2>4
<1>6. FailedStayBehind(part, comp, E, points)
    <2> SUFFICES ASSUME \/ part.type = "RELATIVE_RANKING"
                        \/ part.type = "FIXED_RANKING" /\ part.mode \notin {"MANUAL_ALL", "REGISTERED_COUNT"},
                        WideSteps(part, comp, Cardinality(S \cup F)), NEW f \in F, NEW t \in S
                 PROVE  Cost(comp, points[t]) < Cost(comp, points[f])
        BY DEF FailedStayBehind, S, F
    <2>1. Cost(comp, P[t]) < Cost(comp, P[f])
        BY <1>1 DEF FailedStayBehind, S, F
    <2>2. P[t] \in Thousandths /\ P[f] \in Thousandths
        BY ThousandthsThere DEF P, S, F
    <2>3. P[t] \in Int /\ P[f] \in Int /\ points[t] = Round3(P[t], 1) /\ points[f] = Round3(P[f], 1)
        BY <1>3 DEF RankedTypes
    <2>4. points[t] = P[t] /\ points[f] = P[f]
        BY <1>2, <2>2, <2>3, RoundedCost
    <2> QED BY <2>1, <2>4
<1> QED BY <1>4, <1>5, <1>6

-----------------------------------------------------------------------------
(* The arena of one element.                                                *)

\* The input is a competition with an element and results of its teams, and the outcome
\* is calculated from it.
ElementInv ==
    /\ arena = "element"
    /\ \E s \in Settings : \E res :
         input = [comp |-> s.comp, element |-> s.element, team |-> s.team, result |-> res]
    /\ IsFiniteSet(DOMAIN input.result) /\ DOMAIN input.result \subseteq ElementTeams
    /\ \A t \in DOMAIN input.result : input.result[t] \in Results(t)
    /\ outcome = ElementOutcome(input)

LEMMA ElementInvHolds == ElementSpec => []ElementInv
<1>1. ElementInit => ElementInv
    <2> SUFFICES ASSUME ElementInit PROVE ElementInv
        OBVIOUS
    <2>1. PICK s \in Settings :
            input = [comp |-> s.comp, element |-> s.element, team |-> s.team, result |-> <<>>]
        BY DEF ElementInit
    <2>2. input.result = <<>> /\ DOMAIN input.result = {}
        BY <2>1
    <2> QED BY <2>1, <2>2, FS_EmptySet DEF ElementInit, ElementInv
<1>2. ElementInv /\ [ElementNext]_arenaVars => ElementInv'
    <2> SUFFICES ASSUME ElementInv, [ElementNext]_arenaVars PROVE ElementInv'
        OBVIOUS
    <2>1. CASE UNCHANGED arenaVars
        BY <2>1 DEF ElementInv, arenaVars, ElementOutcome
    <2>2. ASSUME NEW t \in ElementTeams, NEW r \in Results(t), EnterResult(t, r)
          PROVE  ElementInv'
        <3> DEFINE old == input.result
                   new == [u \in DOMAIN old \cup {t} |-> IF u = t THEN r ELSE old[u]]
        <3>1. PICK s \in Settings : \E res :
                input = [comp |-> s.comp, element |-> s.element, team |-> s.team, result |-> res]
            BY DEF ElementInv
        <3>2. input' = [input EXCEPT !.result = new]
            BY <2>2 DEF EnterResult
        <3> HIDE DEF new
        <3>3. /\ input' = [comp |-> s.comp, element |-> s.element, team |-> s.team, result |-> new]
              /\ input'.result = new
            BY <3>1, <3>2
        <3>4. DOMAIN new = DOMAIN old \cup {t} /\ \A u \in DOMAIN new : new[u] = IF u = t THEN r ELSE old[u]
            BY DEF new
        <3>5. IsFiniteSet(DOMAIN old \cup {t})
            BY FS_AddElement DEF ElementInv
        <3>6. /\ DOMAIN new \subseteq ElementTeams /\ \A u \in DOMAIN new : new[u] \in Results(u)
              /\ IsFiniteSet(DOMAIN new)
            BY <2>2, <3>4, <3>5 DEF ElementInv
        <3>7. arena' = "element" /\ outcome' = ElementOutcome(input')
            BY <2>2 DEF EnterResult, ElementInv
        <3> HIDE DEF old
        <3> QED BY <3>3, <3>6, <3>7 DEF ElementInv, ElementOutcome
    <2> QED BY <2>1, <2>2 DEF ElementNext
<1> QED BY <1>1, <1>2, PTL DEF ElementSpec

\* Points follow results, whatever the method, the teams and the order of the results:
\* the invariant of the run holds for every competition whose settings make sense.
THEOREM PointsAlwaysFollowResults ==
    ASSUME SettingsAreSound, Null \notin Int \cup {"FAILED"}
    PROVE  ElementSpec => []PointsFollowResults
<1>1. ElementInv => PointsFollowResults
    <2> SUFFICES ASSUME ElementInv, OnePart
                 PROVE  /\ BetterCostsLess(ThePart, input.comp, TheEntries, ThePoints)
                        /\ FailedComeLast(ThePart, input.comp, TheEntries, ThePoints)
                        /\ FailedStayBehind(ThePart, input.comp, TheEntries, ThePoints)
        BY DEF PointsFollowResults
    <2> DEFINE element == input.element
               comp == input.comp
               team == input.team
               res == input.result
               active == {t \in DOMAIN res : ~Leaves(element, team, t)}
               E == TheEntries
    <2>1. PICK s \in Settings : comp = s.comp /\ element = s.element /\ team = s.team
        BY DEF ElementInv
    <2>2. /\ DOMAIN element.parts = {1} /\ Len(element.parts) = 1
          /\ SoundSettings(ThePart, comp) /\ ~element.cancelled /\ ~element.misc
          /\ \A t \in DOMAIN element.bonus : element.bonus[t] \in Thousandths
          /\ \A t \in ElementTeams : \A r \in Results(t) :
                r.parts[1].value \in Int \cup {Null} /\ r.parts[1].tie \in Int \cup {Null}
        <3>1. Len(element.parts) = 1 /\ DOMAIN element.parts = {1}
            BY <2>1 DEF OnePart, SettingsAreSound
        <3> QED BY <2>1, <3>1 DEF SettingsAreSound, ThePart
    <2>3. E = Entries(element, team, res, 1, active) /\ DOMAIN E = active /\ active \subseteq DOMAIN res
        BY DEF TheEntries, Entries
    <2>4. \A t \in active :
            /\ E[t].value = res[t].parts[1].value /\ E[t].tie = res[t].parts[1].tie
            /\ E[t].hc = OutOfCompetition(element, team, t)
        BY <2>3 DEF Entries
    <2>5. SoundEntries(E)
        <3>1. IsFiniteSet(active)
            <4> HIDE DEF active
            <4> QED BY <2>3, FS_Subset DEF ElementInv
        <3>2. \A t \in active : OutOfCompetition(element, team, t) \in BOOLEAN
            BY DEF OutOfCompetition
        <3>3. \A t \in active : t \in ElementTeams /\ res[t] \in Results(t)
            BY DEF ElementInv
        <3> HIDE DEF active, E, element, team, res
        <3> QED BY <2>2, <2>3, <2>4, <3>1, <3>2, <3>3 DEF SoundEntries
    <2> DEFINE P == CalculateScores(ThePart, comp, E, FALSE)
    <2>6. \A t \in Succeeded(E) \cup Failed(E) : ThePoints[t] = Round3(P[t], 1)
          \/ ~(t \in Succeeded(E) \/ ThePart.type \in RankedTypes)
        <3> SUFFICES ASSUME NEW t \in Succeeded(E) \cup Failed(E), t \in Succeeded(E) \/ ThePart.type \in RankedTypes
                     PROVE  ThePoints[t] = Round3(P[t], 1)
            OBVIOUS
        <3>1. t \in active
            BY <2>3 DEF Succeeded, Failed
        <3>2. P[t] \in Int /\ t \in DOMAIN P
            BY <2>2, <2>5, PointsType, CompetitorsHavePoints
        <3>3. outcome.points = ComputeScores(element, comp, team, res)
            BY DEF ElementInv, ElementOutcome
        <3>4. P = PartPoints(element, comp, team, res) /\ active = Active(element, team, res)
            BY <2>3 DEF ThePart, PartPoints, Active
        <3>5. ThePoints[t] = outcome.points[t] - Bonus(element, t)
            BY <2>3, <3>1 DEF ThePoints
        <3>6. Bonus(element, t) \in Thousandths
            <4>1. 0 \in Thousandths
                BY DEF Thousandths
            <4> QED BY <2>2, <4>1 DEF Bonus
        <3>7. ~element.cancelled /\ ~element.misc /\ Len(element.parts) = 1 /\ DOMAIN element.parts = {1}
            BY <2>2
        <3> HIDE DEF P, E, active, element, comp, team, res
        <3>8. ComputeScores(element, comp, team, res)[t] = Round3(Bonus(element, t) + P[t], 1)
            BY <3>1, <3>2, <3>4, <3>7, OutcomePoints
        <3> QED BY <3>2, <3>3, <3>5, <3>6, <3>8, BonusApart
    <2> HIDE DEF E, comp, P
    <2>7. \A t \in Succeeded(E) \cup Failed(E) :
            t \in Succeeded(E) \/ ThePart.type \in RankedTypes => ThePoints[t] = Round3(P[t], 1)
        BY <2>6
    <2>8. /\ BetterCostsLess(ThePart, comp, E, ThePoints)
          /\ FailedComeLast(ThePart, comp, E, ThePoints)
          /\ FailedStayBehind(ThePart, comp, E, ThePoints)
        BY <2>2, <2>5, <2>7, RoundingKeepsOrder DEF P
    <2> QED BY <2>8 DEF E, comp
<1> QED BY <1>1, ElementInvHolds, PTL
=============================================================================
