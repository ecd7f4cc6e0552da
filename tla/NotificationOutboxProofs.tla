---------------------- MODULE NotificationOutboxProofs ----------------------
(***************************************************************************)
(* Theorems about NotificationOutbox, for any number of notifications,     *)
(* teams and delivery runs, any delays and any number of crashes.          *)
(*                                                                         *)
(* That nothing is mailed twice rests on three facts.  A row that a run    *)
(* holds is SENDING and its claim is young (Claims), so no other run can   *)
(* claim it and nobody gives it up; the rows of a group share the key that *)
(* each of them has for good (GroupsMakeSense); and the provider has       *)
(* mailed a row exactly if it accepted the row under that key (Mailings).  *)
(***************************************************************************)
EXTENDS NotificationOutbox, WellFoundedInduction, TLAPS

\* The idempotency key that a row is sent under, alone or with its batch.
KeyOf(n) == IF mail[n].batch # None THEN <<"batch", mail[n].batch>> ELSE <<"row", n>>

\* What a run has before it: rows that exist and had attempts left when it read
\* them, and a group of one key.
Sensible(run) ==
    /\ run.pc \in {"grouped", "claimed", "answered"} <=> run.group # {}
    /\ \A n \in run.todo \cup run.group :
          run.read[n] < MaxAttempts /\ mail[n].status # "NONE"
    /\ \A m, n \in run.group : KeyOf(m) = KeyOf(n)

GroupsMakeSense == \A w \in Workers : Sensible(worker[w])

\* A transaction that has read its batch will create a row that does not exist yet.
JoinsNewRow ==
    joining # None => mail[joining.row].status = "NONE" /\ rep[joining.team] # "nobody"

Typed == TypeOK /\ GroupsMakeSense /\ JoinsNewRow

\* A claim that a run works on is a young claim, and its alone.
Claims ==
    /\ \A w \in Workers : \A n \in Held(w) : mail[n].status = "SENDING" /\ mail[n].held < Stale
    /\ OneSender

\* What the provider has mailed.
Mailings ==
    /\ \A n \in Rows : mailed[n] \in {0, 1}
    /\ \A key \in Keys : \A n \in accepted[key] : mailed[n] = 1
    /\ \A n \in Rows : mailed[n] = 1 => mail[n].status # "NONE" /\ n \in accepted[KeyOf(n)]
    /\ \A w \in Workers : worker[w].pc = "answered" /\ worker[w].ok
          => \A n \in worker[w].group : mailed[n] = 1
    /\ \A n \in Rows : mail[n].status = "SENT" => mailed[n] = 1

-----------------------------------------------------------------------------
(* Least and greatest elements.                                             *)

LEMMA LeastOfNaturals ==
    ASSUME NEW S \in SUBSET Nat, S # {}
    PROVE  \E n \in S : \A m \in S : n <= m
<1>1. IsWellFoundedOn(OpToRel(<, Nat), Nat)
    BY NatLessThanWellFounded
<1>2. PICK n \in S : \A m \in S : <<m, n>> \notin OpToRel(<, Nat)
    BY <1>1, WFMin
<1>3. \A m \in S : ~(m < n)
    BY <1>2 DEF OpToRel
<1> QED BY <1>3

LEMMA MinOfRows ==
    ASSUME NEW S \in SUBSET Rows, S # {}
    PROVE  Min(S) \in S
<1>1. S \in SUBSET Nat
    BY CountsAssumption DEF Rows
<1>2. PICK n \in S : \A m \in S : n <= m
    BY <1>1, LeastOfNaturals
<1> QED BY <1>2 DEF Min

\* A set of attempts has a greatest one: the one that is nearest to the limit.
LEMMA MaxOfAttempts ==
    ASSUME NEW S \in SUBSET (1..MaxAttempts), S # {}
    PROVE  Max(S) \in 1..MaxAttempts
<1> DEFINE T == {MaxAttempts - k : k \in S}
<1>1. T \in SUBSET Nat /\ T # {}
    <2>1. \A k \in S : MaxAttempts - k \in Nat
        BY CountsAssumption
    <2> QED BY <2>1
<1>2. PICK t \in T : \A u \in T : t <= u
    BY <1>1, LeastOfNaturals
<1>3. PICK k \in S : t = MaxAttempts - k
    BY <1>2
<1>4. \A j \in S : k >= j
    <2>1. SUFFICES ASSUME NEW j \in S PROVE k >= j
        OBVIOUS
    <2>2. MaxAttempts - k <= MaxAttempts - j
        BY <1>2, <1>3, <2>1
    <2> QED BY <2>2, CountsAssumption
<1>5. Max(S) \in S
    BY <1>3, <1>4 DEF Max
<1> QED BY <1>5

-----------------------------------------------------------------------------
(* Types.                                                                   *)

\* What deliveries, cancellations and the clock change of a row.
LEMMA CancelledRow ==
    ASSUME NEW m \in Row
    PROVE  LET r == [m EXCEPT !.status = "CANCELLED", !.due = 0]
           IN  r \in Row /\ r.status = "CANCELLED" /\ r.batch = m.batch
<1>1. PICK d \in Int : d = 0
    OBVIOUS
<1>2. LET r == [m EXCEPT !.status = "CANCELLED", !.due = d]
      IN  r \in Row /\ r.status = "CANCELLED" /\ r.batch = m.batch
    BY DEF Row
<1> QED BY <1>1, <1>2

LEMMA FailedRow ==
    ASSUME NEW m \in Row, NEW due \in Int
    PROVE  LET r == [m EXCEPT !.status = "FAILED", !.held = 0, !.due = due]
           IN  r \in Row /\ r.status = "FAILED" /\ r.batch = m.batch
<1>1. PICK h \in 0..Stale : h = 0
    BY TimesAssumption
<1>2. LET r == [m EXCEPT !.status = "FAILED", !.held = h, !.due = due]
      IN  r \in Row /\ r.status = "FAILED" /\ r.batch = m.batch
    BY DEF Row
<1> QED BY <1>1, <1>2

LEMMA GivenUpRow ==
    ASSUME NEW m \in Row
    PROVE  LET r == [m EXCEPT !.status = "FAILED", !.due = 0, !.held = 0]
           IN  r \in Row /\ r.status = "FAILED" /\ r.batch = m.batch
<1>1. PICK d \in Int, h \in 0..Stale : d = 0 /\ h = 0
    BY TimesAssumption
<1>2. LET r == [m EXCEPT !.status = "FAILED", !.due = d, !.held = h]
      IN  r \in Row /\ r.status = "FAILED" /\ r.batch = m.batch
    BY DEF Row
<1> QED BY <1>1, <1>2

LEMMA SentRow ==
    ASSUME NEW m \in Row
    PROVE  LET r == [m EXCEPT !.status = "SENT", !.held = 0]
           IN  r \in Row /\ r.status = "SENT" /\ r.batch = m.batch
<1>1. PICK h \in 0..Stale : h = 0
    BY TimesAssumption
<1>2. LET r == [m EXCEPT !.status = "SENT", !.held = h]
      IN  r \in Row /\ r.status = "SENT" /\ r.batch = m.batch
    BY DEF Row
<1> QED BY <1>1, <1>2

LEMMA SendingRow ==
    ASSUME NEW m \in Row
    PROVE  LET r == [m EXCEPT !.status = "SENDING", !.attempts = m.attempts + 1,
                              !.due = 0, !.held = 0]
           IN  r \in Row /\ r.status = "SENDING" /\ r.held = 0 /\ r.batch = m.batch
<1>1. PICK a \in Nat : a = m.attempts + 1
    BY DEF Row
<1>2. PICK h \in 0..Stale, d \in Int : h = 0 /\ d = 0
    BY TimesAssumption
<1>3. LET r == [m EXCEPT !.status = "SENDING", !.attempts = a, !.due = d, !.held = h]
      IN  r \in Row /\ r.status = "SENDING" /\ r.held = h /\ r.batch = m.batch
    BY DEF Row
<1> QED BY <1>1, <1>2, <1>3

LEMMA LaterRow ==
    ASSUME NEW m \in Row, NEW due \in Int
    PROVE  LET r == [m EXCEPT !.due = due]
           IN  r \in Row /\ r.status = m.status /\ r.batch = m.batch
BY DEF Row

LEMMA OlderRow ==
    ASSUME NEW m \in Row, NEW held \in 0..Stale
    PROVE  LET r == [m EXCEPT !.held = held]
           IN  r \in Row /\ r.status = m.status /\ r.held = held /\ r.batch = m.batch
BY DEF Row

\* What every step does to the rows: none goes, and none changes its batch.
RowsKept ==
    /\ mail' \in [Rows -> Row]
    /\ \A n \in Rows : mail[n].status # "NONE" =>
          mail'[n].status # "NONE" /\ mail'[n].batch = mail[n].batch

LEMMA SensibleKept ==
    ASSUME Typed, RowsKept, NEW run \in Run, Sensible(run)
    PROVE  Sensible(run)'
<1>1. run.todo \subseteq Rows /\ run.group \subseteq Rows
    BY DEF Run
<1>2. \A n \in Rows : mail[n].status # "NONE" => KeyOf(n)' = KeyOf(n)
    BY DEF RowsKept, KeyOf
<1>3. \A n \in run.todo \cup run.group : mail[n].status # "NONE"
    BY DEF Sensible
<1>4. \A m, n \in run.group : KeyOf(m)' = KeyOf(n)'
    BY <1>1, <1>2, <1>3 DEF Sensible
<1>5. \A n \in run.todo \cup run.group : mail'[n].status # "NONE"
    BY <1>1, <1>3 DEF RowsKept
<1> QED BY <1>4, <1>5 DEF Sensible, KeyOf

LEMMA SameRowsKept ==
    ASSUME Typed, mail' = mail PROVE RowsKept
BY DEF RowsKept, Typed, TypeOK

LEMMA RunMoves ==
    ASSUME Typed, RowsKept, NEW w \in Workers, NEW run \in Run, Sensible(run),
           worker' = [worker EXCEPT ![w] = run]
    PROVE  worker' \in [Workers -> Run] /\ GroupsMakeSense'
<1>1. worker \in [Workers -> Run]
    BY DEF Typed, TypeOK
<1>2. \A v \in Workers : worker'[v] = IF v = w THEN run ELSE worker[v]
    BY <1>1
<1>3. \A v \in Workers : worker'[v] \in Run
    BY <1>1, <1>2
<1>4. \A v \in Workers : worker'[v] \in Run /\ Sensible(worker'[v])
    BY <1>1, <1>2 DEF Typed, GroupsMakeSense
<1>5. ASSUME NEW v \in Workers PROVE Sensible(worker[v])'
    <2>1. PICK r \in Run : r = worker'[v] /\ Sensible(r)
        BY <1>4
    <2>2. Sensible(r)'
        BY <2>1, SensibleKept
    <2> QED BY <2>1, <2>2 DEF Sensible, KeyOf
<1> QED BY <1>1, <1>3, <1>5 DEF GroupsMakeSense

LEMMA RunsStay ==
    ASSUME Typed, RowsKept, worker' = worker
    PROVE  worker' \in [Workers -> Run] /\ GroupsMakeSense'
<1>1. ASSUME NEW v \in Workers PROVE Sensible(worker[v])'
    <2>1. PICK r \in Run : r = worker[v] /\ Sensible(r)
        BY DEF Typed, TypeOK, GroupsMakeSense
    <2>2. Sensible(r)'
        BY <2>1, SensibleKept
    <2> QED BY <2>1, <2>2 DEF Sensible, KeyOf
<1> QED BY <1>1 DEF GroupsMakeSense, Typed, TypeOK

LEMMA IdleType == Idle \in Run /\ Sensible(Idle)
<1>1. 0 \in 0..MaxRun
    BY TimesAssumption
<1> QED BY <1>1 DEF Idle, Run, Sensible

\* What queueing does to the rows: it creates some that do not exist and cancels
\* some that are unsent.
QueueEffect ==
    /\ \A n \in Rows : \/ mail'[n] = mail[n]
                       \/ mail[n].status \in {"NONE"} \cup Unsent
                          /\ mail'[n].status \in {"PENDING", "CANCELLED"}
    /\ UNCHANGED <<worker, providerVars>>

LEMMA NewRowType ==
    ASSUME Typed, NEW t \in Teams, NEW b \in Rows \cup {None}, NEW d \in Int, rep[t] # "nobody"
    PROVE  NewRow(t, b, d) \in Row /\ NewRow(t, b, d).status = "PENDING"
<1>1. rep[t] \in {"first", "second"}
    BY DEF Typed, TypeOK
<1>2. 0 \in 0..Stale
    BY TimesAssumption
<1> QED BY <1>1, <1>2 DEF NewRow, Row

\* A row is created, and nothing else changes.
LEMMA CreateTyped ==
    ASSUME Typed, NEW n \in Rows, mail[n].status = "NONE", NEW r \in Row, r.status = "PENDING",
           mail' = [mail EXCEPT ![n] = r], joining' = None,
           UNCHANGED <<rep, worker, providerVars, crashes>>
    PROVE  Typed' /\ RowsKept /\ QueueEffect
<1>1. \A m \in Rows : mail'[m] = IF m = n THEN r ELSE mail[m]
    BY DEF Typed, TypeOK
<1>2. RowsKept
    BY <1>1 DEF RowsKept, Typed, TypeOK
<1>3. worker' \in [Workers -> Run] /\ GroupsMakeSense'
    BY <1>2, RunsStay
<1>4. QueueEffect
    BY <1>1 DEF QueueEffect
<1> QED BY <1>2, <1>3, <1>4 DEF Typed, TypeOK, JoinsNewRow, RowsKept, providerVars

LEMMA CancelledType ==
    ASSUME Typed, NEW t \in Teams, NEW identity
    PROVE  /\ Cancelled(t, identity) \in [Rows -> Row]
           /\ \A n \in Rows :
                 \/ Cancelled(t, identity)[n] = mail[n]
                 \/ /\ mail[n].status \in Unsent
                    /\ Cancelled(t, identity)[n].status = "CANCELLED"
                    /\ Cancelled(t, identity)[n].batch = mail[n].batch
<1> DEFINE hit(n) == mail[n].team = t /\ mail[n].status \in Unsent /\ mail[n].to # identity
           row(n) == [mail[n] EXCEPT !.status = "CANCELLED", !.due = 0]
<1>1. \A n \in Rows : Cancelled(t, identity)[n] = IF hit(n) THEN row(n) ELSE mail[n]
    BY DEF Cancelled
<1>2. \A n \in Rows : mail[n] \in Row
    BY DEF Typed, TypeOK
<1>3. ASSUME NEW n \in Rows
      PROVE  /\ row(n) \in Row /\ row(n).status = "CANCELLED"
             /\ row(n).batch = mail[n].batch
    BY <1>2, CancelledRow
<1> HIDE DEF row
<1>4. Cancelled(t, identity) \in [Rows -> Row]
    BY <1>1, <1>2, <1>3 DEF Cancelled
<1> QED BY <1>1, <1>3, <1>4

LEMMA QueueTyped ==
    ASSUME Typed, QueueStep PROVE Typed' /\ RowsKept /\ QueueEffect
<1>1. ASSUME NEW n \in Rows, NEW t \in Teams, Queue(n, t)
      PROVE  Typed' /\ RowsKept /\ QueueEffect
    <2>1. NewRow(t, None, 0) \in Row /\ NewRow(t, None, 0).status = "PENDING"
        BY <1>1, NewRowType DEF Queue
    <2> QED BY <1>1, <2>1, CreateTyped DEF Queue, NextFree
<1>2. ASSUME NEW n \in Rows, NEW t \in Teams, QueueFirstOfBatch(n, t)
      PROVE  Typed' /\ RowsKept /\ QueueEffect
    <2>1. -Window \in Int
        BY TimesAssumption
    <2>2. NewRow(t, n, -Window) \in Row /\ NewRow(t, n, -Window).status = "PENDING"
        BY <1>2, <2>1, NewRowType DEF QueueFirstOfBatch
    <2> QED BY <1>2, <2>2, CreateTyped DEF QueueFirstOfBatch, NextFree
<1>3. ASSUME NEW n \in Rows, NEW t \in Teams, JoinBegin(n, t)
      PROVE  Typed' /\ RowsKept /\ QueueEffect
    <2> DEFINE mate == mail[Min(OpenBatch(t))]
               j == [row |-> n, batch |-> mate.batch, due |-> mate.due, team |-> t]
    <2>1. Min(OpenBatch(t)) \in OpenBatch(t)
        BY <1>3, MinOfRows DEF JoinBegin, OpenBatch
    <2>2. mate \in Row /\ mate.batch # None
        BY <2>1 DEF OpenBatch, Typed, TypeOK
    <2>3. j \in Join
        BY <2>2 DEF Join, Row
    <2>4. joining' = j
        BY <1>3 DEF JoinBegin
    <2>5. RowsKept
        BY <1>3, SameRowsKept DEF JoinBegin
    <2>6. worker' \in [Workers -> Run] /\ GroupsMakeSense'
        BY <1>3, <2>5, RunsStay DEF JoinBegin
    <2>7. JoinsNewRow'
        BY <1>3, <2>4 DEF JoinBegin, NextFree, JoinsNewRow
    <2>8. QueueEffect
        BY <1>3 DEF JoinBegin, QueueEffect
    <2> QED BY <1>3, <2>3, <2>4, <2>5, <2>6, <2>7, <2>8
            DEF JoinBegin, Typed, TypeOK, RowsKept, providerVars
<1>4. ASSUME JoinCommit PROVE Typed' /\ RowsKept /\ QueueEffect
    <2>1. joining \in Join /\ mail[joining.row].status = "NONE" /\ rep[joining.team] # "nobody"
        BY <1>4 DEF JoinCommit, Typed, TypeOK, JoinsNewRow
    <2>2. /\ joining.row \in Rows /\ joining.team \in Teams
          /\ joining.batch \in Rows \cup {None} /\ joining.due \in Int
        BY <2>1 DEF Join
    <2>3. NewRow(joining.team, joining.batch, joining.due) \in Row
          /\ NewRow(joining.team, joining.batch, joining.due).status = "PENDING"
        BY <2>1, <2>2, NewRowType
    <2> QED BY <1>4, <2>1, <2>2, <2>3, CreateTyped DEF JoinCommit
<1>5. ASSUME NEW n \in Rows, NEW t \in Teams, ReplaceRepresentative(n, t)
      PROVE  Typed' /\ RowsKept /\ QueueEffect
    <2> DEFINE r == [NewRow(t, None, 0) EXCEPT !.to = "second"]
    <2>1. NewRow(t, None, 0) \in Row /\ NewRow(t, None, 0).status = "PENDING"
        BY <1>5, NewRowType DEF ReplaceRepresentative
    <2>2. r \in Row /\ r.status = "PENDING"
        BY <2>1 DEF Row
    <2>3. mail[n].status = "NONE" /\ joining = None
        BY <1>5 DEF ReplaceRepresentative, NextFree
    <2>4. mail' = [Cancelled(t, "second") EXCEPT ![n] = r]
        BY <1>5 DEF ReplaceRepresentative
    <2>5. mail' \in [Rows -> Row]
          /\ \A m \in Rows : mail'[m] = IF m = n THEN r ELSE Cancelled(t, "second")[m]
        BY <2>2, <2>4, CancelledType
    <2>6. RowsKept
        BY <2>3, <2>5, CancelledType DEF RowsKept
    <2>7. QueueEffect
        BY <1>5, <2>2, <2>3, <2>5, CancelledType DEF ReplaceRepresentative, QueueEffect
    <2>8. worker' \in [Workers -> Run] /\ GroupsMakeSense'
        BY <1>5, <2>6, RunsStay DEF ReplaceRepresentative
    <2>9. rep' \in [Teams -> {"first", "second", "nobody"}]
        BY <1>5 DEF ReplaceRepresentative, Typed, TypeOK
    <2> QED BY <1>5, <2>3, <2>5, <2>6, <2>7, <2>8, <2>9
            DEF ReplaceRepresentative, Typed, TypeOK, JoinsNewRow, providerVars
<1>6. ASSUME NEW t \in Teams, RemoveRepresentative(t) PROVE Typed' /\ RowsKept /\ QueueEffect
    <2>1. mail' = Cancelled(t, "nobody") /\ joining = None
        BY <1>6 DEF RemoveRepresentative
    <2>2. RowsKept
        BY <2>1, CancelledType DEF RowsKept
    <2>3. QueueEffect
        BY <1>6, <2>1, CancelledType DEF RemoveRepresentative, QueueEffect
    <2>4. worker' \in [Workers -> Run] /\ GroupsMakeSense'
        BY <1>6, <2>2, RunsStay DEF RemoveRepresentative
    <2>5. rep' \in [Teams -> {"first", "second", "nobody"}]
        BY <1>6 DEF RemoveRepresentative, Typed, TypeOK
    <2> QED BY <1>6, <2>1, <2>2, <2>3, <2>4, <2>5
            DEF RemoveRepresentative, Typed, TypeOK, JoinsNewRow, RowsKept, providerVars
<1> QED BY <1>1, <1>2, <1>3, <1>4, <1>5, <1>6 DEF QueueStep

\* What the steps of a run do to its rows.
RowsOf(rows, status) ==
    \A n \in Rows : IF n \in rows THEN mail'[n].status = status ELSE mail'[n] = mail[n]

LEMMA StartRunTyped ==
    ASSUME Typed, NEW w \in Workers, StartRun(w)
    PROVE  /\ Typed' /\ RowsKept
           /\ RowsOf({n \in Rows : mail[n].status = "SENDING" /\ mail[n].held >= Stale}, "FAILED")
           /\ \A v \in Workers : Held(v)' = Held(v)
           /\ \A v \in Workers : worker[v].pc = "answered" \/ worker'[v].pc = "answered"
                                   => worker'[v] = worker[v]
           /\ UNCHANGED providerVars
<1> DEFINE stale == {n \in Rows : mail[n].status = "SENDING" /\ mail[n].held >= Stale}
           failed(m) == [m EXCEPT !.status = "FAILED", !.due = 0, !.held = 0]
           run == [worker[w] EXCEPT !.pc = "started"]
<1>1. \A n \in Rows : mail[n] \in Row
    BY DEF Typed, TypeOK
<1>2. ASSUME NEW m \in Row
      PROVE  failed(m) \in Row /\ failed(m).status = "FAILED" /\ failed(m).batch = m.batch
    BY GivenUpRow
<1>3. mail' = [n \in Rows |-> IF n \in stale THEN failed(mail[n]) ELSE mail[n]]
    BY DEF StartRun, Update
<1> HIDE DEF failed
<1>4. RowsKept /\ RowsOf(stale, "FAILED")
    BY <1>1, <1>2, <1>3 DEF RowsKept, RowsOf
<1>5. worker[w] \in Run /\ Sensible(worker[w]) /\ worker[w].pc = "idle"
    BY DEF StartRun, Typed, TypeOK, GroupsMakeSense
<1>6. run \in Run /\ worker' = [worker EXCEPT ![w] = run]
    BY <1>5 DEF Run, StartRun
<1>7. Sensible(run)
    BY <1>5 DEF Sensible, Run
<1>8. worker' \in [Workers -> Run] /\ GroupsMakeSense'
    BY <1>4, <1>6, <1>7, RunMoves
<1>9. joining # None => mail'[joining.row].status = "NONE"
    BY <1>3 DEF Typed, TypeOK, JoinsNewRow, Join
<1>10. \A v \in Workers : worker'[v] = IF v = w THEN run ELSE worker[v]
    BY <1>6 DEF Typed, TypeOK
<1>11. run.pc = "started"
    BY <1>5 DEF Run
<1>12. \A v \in Workers : Held(v)' = Held(v)
    BY <1>5, <1>10, <1>11 DEF Held
<1> QED BY <1>4, <1>5, <1>8, <1>9, <1>10, <1>11, <1>12
        DEF StartRun, Typed, TypeOK, JoinsNewRow, RowsKept, providerVars

\* A step of a run that changes nothing else and holds no row afterwards.
Aside(w) ==
    /\ worker'[w].pc \notin {"claimed", "answered"}
    /\ \A v \in Workers \ {w} : worker'[v] = worker[v]
    /\ UNCHANGED <<mail, providerVars>>

LEMMA AsideTyped ==
    ASSUME Typed, NEW w \in Workers, NEW run \in Run, Sensible(run),
           run.pc \notin {"claimed", "answered"},
           worker' = [worker EXCEPT ![w] = run],
           crashes' \in 0..MaxCrashes, UNCHANGED <<rowVars, providerVars>>
    PROVE  Typed' /\ RowsKept /\ Aside(w)
<1>1. RowsKept
    BY SameRowsKept DEF rowVars
<1>2. worker' \in [Workers -> Run] /\ GroupsMakeSense'
    BY <1>1, RunMoves
<1>3. \A v \in Workers : worker'[v] = IF v = w THEN run ELSE worker[v]
    BY DEF Typed, TypeOK
<1>4. Aside(w)
    BY <1>3 DEF Aside, rowVars
<1>5. TypeOK'
    BY <1>2 DEF Typed, TypeOK, rowVars, providerVars
<1>6. JoinsNewRow'
    BY DEF Typed, JoinsNewRow, rowVars
<1> QED BY <1>1, <1>2, <1>4, <1>5, <1>6 DEF Typed

LEMMA ScanTyped ==
    ASSUME Typed, NEW w \in Workers, Scan(w)
    PROVE  Typed' /\ RowsKept /\ Aside(w)
<1> DEFINE run == [worker[w] EXCEPT !.pc = "scanned", !.todo = Selected(w),
                                    !.read = AttemptsOf(Selected(w))]
<1>1. worker[w] \in Run /\ Sensible(worker[w]) /\ worker[w].pc = "started"
    BY DEF Scan, Typed, TypeOK, GroupsMakeSense
<1>2. AttemptsOf(Selected(w)) \in [Rows -> Nat] /\ Selected(w) \subseteq Rows
    BY DEF AttemptsOf, Selected, Typed, TypeOK, Row
<1>3. run \in Run /\ worker' = [worker EXCEPT ![w] = run]
    BY <1>1, <1>2 DEF Run, Scan, Typed, TypeOK
<1>4. run.todo = Selected(w) /\ run.group = {} /\ run.read = AttemptsOf(Selected(w))
      /\ run.pc = "scanned"
    BY <1>1 DEF Run, Sensible
<1>5. \A n \in Selected(w) : mail[n].status # "NONE" /\ AttemptsOf(Selected(w))[n] < MaxAttempts
    BY DEF Selected, AttemptsOf, Due, Unsent
<1>6. Sensible(run)
    BY <1>4, <1>5 DEF Sensible
<1>7. crashes' \in 0..MaxCrashes
    BY DEF Scan, Typed, TypeOK
<1> QED BY <1>3, <1>4, <1>6, <1>7, AsideTyped DEF Scan

LEMMA TakeTyped ==
    ASSUME Typed, NEW w \in Workers, Take(w)
    PROVE  Typed' /\ RowsKept /\ Aside(w)
<1> DEFINE run == worker[w]
           n == Min(run.todo)
           batch == mail[n].batch
           mates == {m \in Selected(w) : mail[m].batch = batch}
           rest == [run EXCEPT !.todo = run.todo \ {n}]
           read == [m \in Rows |-> IF m \in mates THEN mail[m].attempts
                                   ELSE IF m \in rest.todo THEN run.read[m] ELSE 0]
<1>1. run \in Run /\ Sensible(run) /\ run.pc = "scanned" /\ run.todo # {}
    BY DEF Take, Typed, TypeOK, GroupsMakeSense
<1>2. run.todo \subseteq Rows /\ n \in run.todo
    BY <1>1, MinOfRows DEF Run
<1>3. n \in Rows /\ batch \in Rows \cup {None}
    BY <1>2 DEF Typed, TypeOK, Row
<1>4. /\ rest \in Run /\ rest.todo = run.todo \ {n} /\ rest.group = {} /\ rest.read = run.read
      /\ rest.pc = "scanned" /\ rest.seen = run.seen
    BY <1>1 DEF Run, Sensible
<1>5. crashes' \in 0..MaxCrashes /\ UNCHANGED <<rowVars, providerVars>>
    BY DEF Take, Typed, TypeOK
<1>6. CASE worker' = [worker EXCEPT ![w] = [rest EXCEPT !.pc = "grouped", !.group = {n}]]
    <2> DEFINE r == [rest EXCEPT !.pc = "grouped", !.group = {n}]
    <2>1. r \in Run
        BY <1>3, <1>4 DEF Run
    <2>2. r.todo = rest.todo /\ r.group = {n} /\ r.read = run.read /\ r.pc = "grouped"
        BY <1>4 DEF Run
    <2>3. Sensible(r)
        BY <1>1, <1>2, <1>4, <2>2 DEF Sensible
    <2> HIDE DEF rest
    <2> QED BY <1>5, <1>6, <2>1, <2>2, <2>3, AsideTyped
<1>7. CASE worker' = [worker EXCEPT ![w] = rest]
    <2>1. Sensible(rest)
        BY <1>1, <1>4 DEF Sensible
    <2> HIDE DEF rest
    <2> QED BY <1>4, <1>5, <1>7, <2>1, AsideTyped
<1>8. CASE mates = {} /\ batch # None
           /\ worker' = [worker EXCEPT ![w] = [rest EXCEPT !.seen = run.seen \cup {batch}]]
    <2> DEFINE r == [rest EXCEPT !.seen = run.seen \cup {batch}]
    <2>1. r \in Run
        BY <1>1, <1>3, <1>4, <1>8 DEF Run
    <2>2. r.todo = rest.todo /\ r.group = {} /\ r.read = run.read /\ r.pc = "scanned"
        BY <1>4 DEF Run
    <2>3. Sensible(r)
        BY <1>1, <1>4, <2>2 DEF Sensible
    <2> HIDE DEF rest
    <2> QED BY <1>5, <1>8, <2>1, <2>2, <2>3, AsideTyped
<1>9. CASE mates # {} /\ batch # None
           /\ worker' = [worker EXCEPT ![w] =
                [rest EXCEPT !.seen = run.seen \cup {batch}, !.pc = "grouped",
                             !.group = mates, !.read = read]]
    <2> DEFINE r == [rest EXCEPT !.seen = run.seen \cup {batch}, !.pc = "grouped",
                                 !.group = mates, !.read = read]
    <2>1. mates \subseteq Rows
        BY DEF Selected
    <2>2. read \in [Rows -> Nat]
        <3>1. \A m \in Rows : mail[m].attempts \in Nat /\ run.read[m] \in Nat
            BY <1>1 DEF Typed, TypeOK, Row, Run
        <3> QED BY <3>1
    <2>3. r \in Run
        BY <1>1, <1>3, <1>4, <1>9, <2>1, <2>2 DEF Run
    <2>4. r.todo = rest.todo /\ r.group = mates /\ r.read = read /\ r.pc = "grouped"
        BY <1>4 DEF Run
    <2>5. \A m \in mates : /\ read[m] < MaxAttempts /\ mail[m].status # "NONE"
                           /\ KeyOf(m) = <<"batch", batch>>
        BY <1>9 DEF Selected, Due, Unsent, KeyOf
    <2>6. \A m \in rest.todo : read[m] < MaxAttempts /\ mail[m].status # "NONE"
        BY <1>1, <1>2, <1>4, <2>5 DEF Sensible
    <2>7. Sensible(r)
        BY <1>9, <2>4, <2>5, <2>6 DEF Sensible
    <2> HIDE DEF rest, mates, read
    <2> QED BY <1>5, <1>9, <2>3, <2>4, <2>7, AsideTyped
<1> QED BY <1>6, <1>7, <1>8, <1>9 DEF Take

LEMMA EndTyped ==
    ASSUME Typed, NEW w \in Workers, Finish(w) \/ Crash(w)
    PROVE  Typed' /\ RowsKept /\ Aside(w)
<1>1. Idle \in Run /\ Sensible(Idle) /\ Idle.pc = "idle"
    BY IdleType DEF Idle
<1>2. crashes' \in 0..MaxCrashes
    BY CountsAssumption DEF Finish, Crash, Typed, TypeOK
<1> QED BY <1>1, <1>2, AsideTyped DEF Finish, Crash

LEMMA OnwardType ==
    ASSUME Typed, NEW w \in Workers
    PROVE  /\ Onward(w) \in Run /\ Sensible(Onward(w))
           /\ Onward(w).pc = "scanned" /\ Onward(w).group = {}
<1> DEFINE run == worker[w]
           read == [n \in Rows |-> IF n \in run.todo THEN run.read[n] ELSE 0]
<1>1. run \in Run /\ Sensible(run)
    BY DEF Typed, TypeOK, GroupsMakeSense
<1>2. read \in [Rows -> Nat]
    BY <1>1 DEF Run
<1>3. \A n \in run.todo : read[n] < MaxAttempts
    BY <1>1 DEF Run, Sensible
<1>4. Onward(w) = [run EXCEPT !.pc = "scanned", !.group = {}, !.ok = FALSE, !.read = read]
    BY DEF Onward
<1> HIDE DEF read
<1>5. /\ Onward(w) \in Run /\ Onward(w).pc = "scanned" /\ Onward(w).group = {}
      /\ Onward(w).todo = run.todo /\ Onward(w).read = read
    BY <1>1, <1>2, <1>4 DEF Run
<1> QED BY <1>1, <1>3, <1>5 DEF Sensible

LEMMA ClaimTyped ==
    ASSUME Typed, NEW w \in Workers, Claim(w)
    PROVE  /\ Typed' /\ RowsKept
           /\ \A n \in Rows :
                 IF n \in worker[w].group /\ Due(w, n)
                 THEN mail'[n].status = "SENDING" /\ mail'[n].held = 0
                 ELSE mail'[n] = mail[n]
           /\ \A v \in Workers \ {w} : worker'[v] = worker[v]
           /\ \/ Held(w)' = {}
              \/ Held(w)' = worker[w].group /\ \A n \in worker[w].group : Due(w, n)
           /\ worker'[w].pc # "answered"
           /\ UNCHANGED providerVars
<1> DEFINE group == worker[w].group
           claimed == {n \in group : Due(w, n)}
           sending(m) == [m EXCEPT !.status = "SENDING", !.attempts = m.attempts + 1,
                                   !.due = 0, !.held = 0]
           run == IF claimed = group THEN [worker[w] EXCEPT !.pc = "claimed"] ELSE Onward(w)
<1>1. \A n \in Rows : mail[n] \in Row
    BY DEF Typed, TypeOK
<1>2. ASSUME NEW m \in Row
      PROVE  /\ sending(m) \in Row /\ sending(m).status = "SENDING" /\ sending(m).held = 0
             /\ sending(m).batch = m.batch
    BY SendingRow
<1>3. mail' = [n \in Rows |-> IF n \in claimed THEN sending(mail[n]) ELSE mail[n]]
    BY DEF Claim, Update
<1> HIDE DEF sending
<1>4. RowsKept /\ \A n \in Rows : IF n \in claimed
                                  THEN mail'[n].status = "SENDING" /\ mail'[n].held = 0
                                  ELSE mail'[n] = mail[n]
    BY <1>1, <1>2, <1>3 DEF RowsKept
<1>5. worker[w] \in Run /\ Sensible(worker[w]) /\ worker[w].pc = "grouped"
    BY DEF Claim, Typed, TypeOK, GroupsMakeSense
<1>6. Onward(w) \in Run /\ Sensible(Onward(w)) /\ Onward(w).pc = "scanned" /\ Onward(w).group = {}
    BY OnwardType
<1>7. LET r == [worker[w] EXCEPT !.pc = "claimed"]
      IN  r \in Run /\ Sensible(r) /\ r.pc = "claimed" /\ r.group = group
    BY <1>5 DEF Run, Sensible
<1>8. /\ run \in Run /\ Sensible(run) /\ run.pc # "answered"
      /\ \/ run.pc = "scanned"
         \/ run.pc = "claimed" /\ run.group = group /\ claimed = group
    BY <1>6, <1>7
<1>9. worker' = [worker EXCEPT ![w] = run]
    BY DEF Claim
<1> HIDE DEF run
<1>10. worker' \in [Workers -> Run] /\ GroupsMakeSense'
    BY <1>4, <1>8, <1>9, RunMoves
<1>11. \A v \in Workers : worker'[v] = IF v = w THEN run ELSE worker[v]
    BY <1>9 DEF Typed, TypeOK
<1>12. \/ Held(w)' = {}
       \/ Held(w)' = worker[w].group /\ \A n \in worker[w].group : Due(w, n)
    BY <1>8, <1>11 DEF Held
<1>13. joining # None => mail'[joining.row].status = "NONE"
    BY <1>3 DEF Typed, TypeOK, JoinsNewRow, Join, Due, Unsent
<1>14. Typed'
    BY <1>4, <1>10, <1>13 DEF Claim, Typed, TypeOK, JoinsNewRow, RowsKept, providerVars
<1> QED BY <1>4, <1>8, <1>11, <1>12, <1>14 DEF Claim

LEMMA SendTyped ==
    ASSUME Typed, NEW w \in Workers, Send(w)
    PROVE  /\ Typed' /\ RowsKept /\ mail' = mail
           /\ \A v \in Workers \ {w} : worker'[v] = worker[v]
           /\ worker'[w].pc = "answered" /\ worker'[w].group = worker[w].group
           /\ worker[w].pc = "claimed" /\ Held(w) = worker[w].group /\ Held(w)' = Held(w)
<1> DEFINE group == worker[w].group
           key == IdempotencyKey(group)
<1>1. worker[w] \in Run /\ Sensible(worker[w]) /\ worker[w].pc = "claimed"
    BY DEF Send, Typed, TypeOK, GroupsMakeSense
<1>2. PICK ok \in BOOLEAN : worker' = [worker EXCEPT ![w].pc = "answered", ![w].ok = ok]
    BY DEF Send
<1> DEFINE run == [worker[w] EXCEPT !.pc = "answered", !.ok = ok]
<1>3. worker' = [worker EXCEPT ![w] = run]
    BY <1>2 DEF Typed, TypeOK
<1>4. run \in Run /\ run.pc = "answered" /\ run.group = group /\ run.todo = worker[w].todo
      /\ run.read = worker[w].read
    BY <1>1 DEF Run
<1>5. Sensible(run)
    BY <1>1, <1>4 DEF Sensible
<1>6. mail' = mail /\ RowsKept
    BY SameRowsKept DEF Send, rowVars
<1>7. worker' \in [Workers -> Run] /\ GroupsMakeSense'
    BY <1>3, <1>4, <1>5, <1>6, RunMoves
<1>8. \A v \in Workers : worker'[v] = IF v = w THEN run ELSE worker[v]
    BY <1>3 DEF Typed, TypeOK
<1>9. accepted' \in [Keys -> SUBSET Rows] /\ mailed' \in [Rows -> Nat]
    <2>1. group \subseteq Rows
        BY <1>1 DEF Run
    <2>2. CASE UNCHANGED providerVars
        BY <2>2 DEF providerVars, Typed, TypeOK
    <2>3. CASE /\ accepted' = [accepted EXCEPT ![key] = group]
               /\ mailed' = [n \in Rows |-> IF n \in group THEN mailed[n] + 1 ELSE mailed[n]]
        <3> HIDE DEF key, group
        <3>1. \A n \in Rows : mailed[n] \in Nat /\ mailed[n] + 1 \in Nat
            BY DEF Typed, TypeOK
        <3>2. mailed' \in [Rows -> Nat]
            BY <2>3, <3>1
        <3>3. accepted' \in [Keys -> SUBSET Rows]
            BY <2>1, <2>3 DEF Typed, TypeOK
        <3> QED BY <3>2, <3>3
    <2> QED BY <2>2, <2>3 DEF Send
<1>10. Typed'
    BY <1>6, <1>7, <1>9 DEF Send, Typed, TypeOK, JoinsNewRow, rowVars
<1>11. Held(w) = group /\ Held(w)' = group
    BY <1>1, <1>4, <1>8 DEF Held
<1> QED BY <1>1, <1>4, <1>6, <1>8, <1>10, <1>11

LEMMA RecordTyped ==
    ASSUME Typed, NEW w \in Workers, Record(w)
    PROVE  /\ Typed' /\ RowsKept
           /\ RowsOf(worker[w].group, IF worker[w].ok THEN "SENT" ELSE "FAILED")
           /\ \A v \in Workers \ {w} : worker'[v] = worker[v]
           /\ worker'[w].pc = "scanned" /\ worker[w].pc = "answered"
           /\ UNCHANGED providerVars
<1> DEFINE group == worker[w].group
           attempts == Max({worker[w].read[n] + 1 : n \in group})
           due == worker[w].age - Backoff[attempts]
           sent(m) == [m EXCEPT !.status = "SENT", !.held = 0]
           failed(m) == [m EXCEPT !.status = "FAILED", !.held = 0, !.due = due]
<1>1. worker[w] \in Run /\ Sensible(worker[w]) /\ worker[w].pc = "answered"
    BY DEF Record, Typed, TypeOK, GroupsMakeSense
<1>2. group \subseteq Rows /\ group # {}
    BY <1>1 DEF Run, Sensible
<1>3. attempts \in 1..MaxAttempts
    <2>1. \A n \in group : worker[w].read[n] \in Nat /\ worker[w].read[n] < MaxAttempts
        BY <1>1, <1>2 DEF Run, Sensible
    <2>2. \A n \in group : worker[w].read[n] + 1 \in 1..MaxAttempts
        BY <2>1, CountsAssumption
    <2>3. {worker[w].read[n] + 1 : n \in group} \in SUBSET (1..MaxAttempts)
        BY <2>2
    <2> QED BY <1>2, <2>3, MaxOfAttempts
<1>4. due \in Int
    <2>1. Backoff[attempts] \in Nat
        BY <1>3, TimesAssumption
    <2>2. worker[w].age \in Nat
        BY <1>1, TimesAssumption DEF Run
    <2> QED BY <2>1, <2>2
<1> HIDE DEF due, attempts
<1>5. \A n \in Rows : mail[n] \in Row
    BY DEF Typed, TypeOK
<1>6. ASSUME NEW m \in Row
      PROVE  /\ sent(m) \in Row /\ sent(m).status = "SENT" /\ sent(m).batch = m.batch
             /\ failed(m) \in Row /\ failed(m).status = "FAILED" /\ failed(m).batch = m.batch
    <2>1. sent(m) \in Row /\ sent(m).status = "SENT" /\ sent(m).batch = m.batch
        BY SentRow
    <2>2. failed(m) \in Row /\ failed(m).status = "FAILED" /\ failed(m).batch = m.batch
        BY <1>4, FailedRow
    <2> QED BY <2>1, <2>2
<1>7. mail' = [n \in Rows |-> IF n \in group
                              THEN IF worker[w].ok THEN sent(mail[n]) ELSE failed(mail[n])
                              ELSE mail[n]]
    BY DEF Record, Update, due, attempts
<1> HIDE DEF sent, failed
<1>8. RowsKept /\ RowsOf(group, IF worker[w].ok THEN "SENT" ELSE "FAILED")
    BY <1>5, <1>6, <1>7 DEF RowsKept, RowsOf
<1>9. Onward(w) \in Run /\ Sensible(Onward(w)) /\ Onward(w).pc = "scanned"
    BY OnwardType
<1>10. worker' = [worker EXCEPT ![w] = Onward(w)]
    BY DEF Record
<1>11. worker' \in [Workers -> Run] /\ GroupsMakeSense'
    BY <1>8, <1>9, <1>10, RunMoves
<1>12. \A v \in Workers : worker'[v] = IF v = w THEN Onward(w) ELSE worker[v]
    BY <1>10 DEF Typed, TypeOK
<1>13. joining # None => mail'[joining.row].status = "NONE"
    BY <1>1, <1>7 DEF Typed, TypeOK, JoinsNewRow, Join, Sensible
<1>14. Typed'
    BY <1>8, <1>11, <1>13 DEF Record, Typed, TypeOK, JoinsNewRow, RowsKept, providerVars
<1> QED BY <1>1, <1>8, <1>9, <1>12, <1>14 DEF Record

LEMMA TickTyped ==
    ASSUME Typed, Tick
    PROVE  /\ Typed' /\ RowsKept
           /\ \A n \in Rows : mail'[n].status = mail[n].status
           /\ \A n \in Rows : mail[n].status = "SENDING" /\ mail[n].held + 1 < Stale
                                 => mail'[n].held < Stale
           /\ \A v \in Workers : /\ Held(v)' = Held(v)
                                 /\ worker'[v].pc = worker[v].pc
                                 /\ worker'[v].pc # "idle" => /\ worker'[v].group = worker[v].group
                                                              /\ worker'[v].ok = worker[v].ok
           /\ UNCHANGED providerVars
<1> DEFINE later(d) == IF d < MaxRun THEN d + 1 ELSE d
           older(h) == IF h < Stale THEN h + 1 ELSE h
           row(n) == CASE mail[n].status \in Unsent -> [mail[n] EXCEPT !.due = later(mail[n].due)]
                       [] mail[n].status = "SENDING" -> [mail[n] EXCEPT !.held = older(mail[n].held)]
                       [] OTHER -> mail[n]
           run(w) == IF worker[w].pc = "idle" THEN Idle
                     ELSE [worker[w] EXCEPT !.age = worker[w].age + 1]
<1>1. mail' = [n \in Rows |-> row(n)]
    BY DEF Tick
<1>2. ASSUME NEW n \in Rows
      PROVE  /\ row(n) \in Row /\ row(n).status = mail[n].status /\ row(n).batch = mail[n].batch
             /\ mail[n].status = "SENDING" /\ mail[n].held + 1 < Stale => row(n).held < Stale
    <2>1. mail[n] \in Row /\ mail[n].due \in Int /\ mail[n].held \in 0..Stale
        BY DEF Typed, TypeOK, Row
    <2>2. later(mail[n].due) \in Int /\ older(mail[n].held) \in 0..Stale
        BY <2>1, TimesAssumption
    <2>3. mail[n].held + 1 < Stale => older(mail[n].held) < Stale
        BY <2>1, TimesAssumption
    <2> HIDE DEF later, older
    <2>4. CASE mail[n].status \in Unsent
        <3>1. row(n) = [mail[n] EXCEPT !.due = later(mail[n].due)]
            BY <2>4 DEF Unsent
        <3> HIDE DEF row
        <3> QED BY <2>1, <2>2, <2>4, <3>1, LaterRow DEF Unsent
    <2>5. CASE mail[n].status = "SENDING"
        <3>1. row(n) = [mail[n] EXCEPT !.held = older(mail[n].held)]
            BY <2>5 DEF Unsent
        <3> HIDE DEF row
        <3> QED BY <2>1, <2>2, <2>3, <3>1, OlderRow
    <2>6. CASE mail[n].status \notin Unsent /\ mail[n].status # "SENDING"
        BY <2>1, <2>6
    <2> QED BY <2>4, <2>5, <2>6
<1> HIDE DEF row
<1>3. RowsKept
    BY <1>1, <1>2 DEF RowsKept
<1>4. worker' = [w \in Workers |-> run(w)]
    BY DEF Tick
<1>5. ASSUME NEW w \in Workers
      PROVE  /\ run(w) \in Run /\ Sensible(run(w)) /\ run(w).pc = worker[w].pc
             /\ run(w).pc # "idle" => run(w).group = worker[w].group /\ run(w).ok = worker[w].ok
    <2>1. worker[w] \in Run /\ Sensible(worker[w])
        BY DEF Typed, TypeOK, GroupsMakeSense
    <2>2. CASE worker[w].pc = "idle"
        <3>1. run(w) = Idle
            BY <2>2
        <3> HIDE DEF run
        <3> QED BY <2>2, <3>1, IdleType DEF Idle
    <2>3. CASE worker[w].pc # "idle"
        <3>1. worker[w].age \in 0..MaxRun /\ worker[w].age < MaxRun
            BY <2>1, <2>3 DEF Run, Tick
        <3>2. PICK age \in 0..MaxRun : age = worker[w].age + 1
            BY <3>1, TimesAssumption
        <3>3. run(w) = [worker[w] EXCEPT !.age = age]
            BY <2>3, <3>2
        <3> HIDE DEF run
        <3>4. /\ run(w) \in Run /\ run(w).pc = worker[w].pc /\ run(w).group = worker[w].group
              /\ run(w).ok = worker[w].ok /\ run(w).todo = worker[w].todo
              /\ run(w).read = worker[w].read
            BY <2>1, <3>3 DEF Run
        <3> QED BY <2>1, <3>4 DEF Sensible
    <2> QED BY <2>2, <2>3
<1> HIDE DEF run
<1>6. worker' \in [Workers -> Run]
    BY <1>4, <1>5
<1>7. GroupsMakeSense'
    <2>1. ASSUME NEW w \in Workers PROVE Sensible(worker[w])'
        <3>1. PICK r \in Run : r = worker'[w] /\ Sensible(r)
            BY <1>4, <1>5
        <3>2. Sensible(r)'
            BY <1>3, <3>1, SensibleKept
        <3> QED BY <3>1, <3>2 DEF Sensible, KeyOf
    <2> QED BY <2>1 DEF GroupsMakeSense
<1>8. /\ joining' \in Join \cup {None}
      /\ joining' # None => /\ joining # None /\ joining'.row = joining.row
                            /\ joining'.team = joining.team
    <2>1. CASE joining = None
        BY <2>1 DEF Tick
    <2>2. CASE joining # None
        <3>1. joining \in Join /\ joining.due \in Int
            BY <2>2 DEF Typed, TypeOK, Join
        <3>2. PICK d \in Int : d = later(joining.due)
            BY <3>1, TimesAssumption
        <3>3. joining' = [joining EXCEPT !.due = d]
            BY <2>2, <3>2 DEF Tick
        <3>4. joining' \in Join /\ joining'.row = joining.row /\ joining'.team = joining.team
            BY <3>1, <3>3 DEF Join
        <3> QED BY <2>2, <3>4
    <2> QED BY <2>1, <2>2
<1>9. joining # None => joining.row \in Rows
    BY DEF Typed, TypeOK, Join
<1>10. \A n \in Rows : mail'[n].status = mail[n].status
    BY <1>1, <1>2
<1>11. Typed'
    BY <1>3, <1>6, <1>7, <1>8, <1>9, <1>10 DEF Tick, Typed, TypeOK, JoinsNewRow, RowsKept, providerVars
<1>12. \A v \in Workers : Held(v)' = Held(v)
    BY <1>4, <1>5 DEF Held
<1> QED BY <1>1, <1>2, <1>3, <1>4, <1>5, <1>11, <1>12 DEF Tick

LEMMA InitTyped == Init => Typed
<1> SUFFICES ASSUME Init PROVE Typed
    OBVIOUS
<1>1. NoRow \in Row
    <2>1. PICK h \in 0..Stale, d \in Int, a \in Nat : h = 0 /\ d = 0 /\ a = 0
        BY TimesAssumption
    <2> QED BY <2>1 DEF NoRow, Row
<1>2. mail \in [Rows -> Row]
    BY <1>1 DEF Init
<1>3. worker \in [Workers -> Run] /\ GroupsMakeSense
    BY IdleType DEF Init, GroupsMakeSense
<1>4. mailed \in [Rows -> Nat] /\ crashes \in 0..MaxCrashes
    BY CountsAssumption DEF Init
<1> QED BY <1>2, <1>3, <1>4 DEF Init, Typed, TypeOK, JoinsNewRow

LEMMA NextTyped == Typed /\ [Next]_vars => Typed'
<1> SUFFICES ASSUME Typed, [Next]_vars PROVE Typed'
    OBVIOUS
<1>1. CASE QueueStep
    BY <1>1, QueueTyped
<1>2. ASSUME NEW w \in Workers, WorkerStep(w) \/ Crash(w) PROVE Typed'
    BY <1>2, StartRunTyped, ScanTyped, TakeTyped, ClaimTyped, SendTyped, RecordTyped, EndTyped
       DEF WorkerStep
<1>3. CASE Tick
    BY <1>3, TickTyped
<1>4. CASE UNCHANGED vars
    <2>1. RowsKept
        BY <1>4, SameRowsKept DEF vars, rowVars
    <2>2. worker' \in [Workers -> Run] /\ GroupsMakeSense'
        BY <1>4, <2>1, RunsStay DEF vars
    <2> QED BY <1>4, <2>2 DEF vars, rowVars, providerVars, Typed, TypeOK, JoinsNewRow
<1> QED BY <1>1, <1>2, <1>3, <1>4 DEF Next

\* The rows, the requests, the runs and the provider's memory are what they should
\* be, so nothing the handlers compute is outside its type.
THEOREM TypeCorrect == Spec => []TypeOK
<1>1. Typed => TypeOK
    BY DEF Typed
<1> QED BY <1>1, InitTyped, NextTyped, PTL DEF Spec

-----------------------------------------------------------------------------
(* One sender.                                                              *)

\* If no run takes a row and what is held stays as it is, claims stay good.
LEMMA ClaimsKept ==
    ASSUME Claims, \A v \in Workers : Held(v)' \subseteq Held(v),
           \A v \in Workers : \A n \in Held(v)' :
               mail'[n].status = mail[n].status /\ mail'[n].held < Stale
    PROVE  Claims'
<1>1. \A v \in Workers : \A n \in Held(v)' : mail'[n].status = "SENDING" /\ mail'[n].held < Stale
    BY DEF Claims
<1>2. \A v, w \in Workers : v # w => Held(v)' \cap Held(w)' = {}
    BY DEF Claims, OneSender
<1> QED BY <1>1, <1>2 DEF Claims, OneSender, Held

LEMMA HeldRows == ASSUME Typed PROVE \A v \in Workers : Held(v) \subseteq Rows
BY DEF Held, Typed, TypeOK, Run

LEMMA AsideHolds ==
    ASSUME NEW w \in Workers, Aside(w) PROVE \A v \in Workers : Held(v)' \subseteq Held(v)
BY DEF Aside, Held

LEMMA NextClaims == Typed /\ Claims /\ [Next]_vars => Claims'
<1> SUFFICES ASSUME Typed, Claims, [Next]_vars PROVE Claims'
    OBVIOUS
<1>1. CASE QueueStep
    <2>1. QueueEffect
        BY <1>1, QueueTyped
    <2>2. \A v \in Workers : Held(v)' = Held(v)
        BY <2>1 DEF QueueEffect, Held
    <2>3. \A v \in Workers : \A n \in Held(v) : mail'[n] = mail[n]
        BY <2>1, HeldRows DEF QueueEffect, Claims, Unsent
    <2> QED BY <2>2, <2>3, ClaimsKept DEF Claims
<1>2. ASSUME NEW w \in Workers, StartRun(w) PROVE Claims'
    <2> DEFINE stale == {n \in Rows : mail[n].status = "SENDING" /\ mail[n].held >= Stale}
    <2>1. RowsOf(stale, "FAILED") /\ \A v \in Workers : Held(v)' = Held(v)
        BY <1>2, StartRunTyped
    <2>2. \A v \in Workers : \A n \in Held(v) : n \in Rows /\ n \notin stale
        <3>1. \A n \in Rows : mail[n].held \in Int /\ Stale \in Int
            BY TimesAssumption DEF Typed, TypeOK, Row
        <3> QED BY <3>1, HeldRows DEF Claims
    <2> HIDE DEF stale
    <2>3. \A v \in Workers : \A n \in Held(v) : mail'[n] = mail[n]
        BY <2>1, <2>2 DEF RowsOf
    <2> QED BY <2>1, <2>3, ClaimsKept DEF Claims
<1>3. ASSUME NEW w \in Workers, Scan(w) \/ Take(w) \/ Finish(w) \/ Crash(w) PROVE Claims'
    <2>1. Aside(w)
        BY <1>3, ScanTyped, TakeTyped, EndTyped
    <2> QED BY <2>1, AsideHolds, ClaimsKept DEF Aside, Claims
<1>4. ASSUME NEW w \in Workers, Claim(w) PROVE Claims'
    <2> DEFINE group == worker[w].group
    <2>1. /\ \A n \in Rows : IF n \in group /\ Due(w, n)
                             THEN mail'[n].status = "SENDING" /\ mail'[n].held = 0
                             ELSE mail'[n] = mail[n]
          /\ \A v \in Workers \ {w} : worker'[v] = worker[v]
          /\ Held(w)' = {} \/ (Held(w)' = group /\ \A n \in group : Due(w, n))
        BY <1>4, ClaimTyped
    <2>2. \A v \in Workers \ {w} : Held(v)' = Held(v)
        BY <2>1 DEF Held
    <2>3. ASSUME NEW v \in Workers \ {w}, NEW n \in Held(v)
          PROVE  mail'[n] = mail[n] /\ ~Due(w, n)
        <3>1. n \in Rows /\ mail[n].status = "SENDING"
            BY HeldRows DEF Claims
        <3> QED BY <2>1, <3>1 DEF Due, Unsent
    <2>4. \A n \in Held(w)' : mail'[n].status = "SENDING" /\ mail'[n].held < Stale
        <3>1. group \subseteq Rows
            BY DEF Typed, TypeOK, Run
        <3>2. 0 < Stale
            BY TimesAssumption
        <3> QED BY <2>1, <3>1, <3>2
    <2>5. \A v \in Workers : \A n \in Held(v)' : mail'[n].status = "SENDING" /\ mail'[n].held < Stale
        BY <2>2, <2>3, <2>4 DEF Claims
    <2>6. \A v \in Workers \ {w} : Held(v)' \cap Held(w)' = {}
        BY <2>1, <2>2, <2>3
    <2>7. \A u, v \in Workers : u # v => Held(u)' \cap Held(v)' = {}
        BY <2>2, <2>6 DEF Claims, OneSender
    <2> QED BY <2>5, <2>7 DEF Claims, OneSender, Held
<1>5. ASSUME NEW w \in Workers, Send(w) PROVE Claims'
    <2>1. /\ mail' = mail /\ Held(w)' = Held(w)
          /\ \A v \in Workers \ {w} : worker'[v] = worker[v]
        BY <1>5, SendTyped
    <2>2. \A v \in Workers : Held(v)' = Held(v)
        BY <2>1 DEF Held
    <2> QED BY <2>1, <2>2, ClaimsKept DEF Claims
<1>6. ASSUME NEW w \in Workers, Record(w) PROVE Claims'
    <2>1. /\ RowsOf(worker[w].group, IF worker[w].ok THEN "SENT" ELSE "FAILED")
          /\ \A v \in Workers \ {w} : worker'[v] = worker[v]
          /\ worker'[w].pc = "scanned" /\ worker[w].pc = "answered"
        BY <1>6, RecordTyped
    <2>2. /\ Held(w) = worker[w].group /\ Held(w)' = {}
          /\ \A v \in Workers \ {w} : Held(v)' = Held(v)
        BY <2>1 DEF Held
    <2>3. ASSUME NEW v \in Workers \ {w}, NEW n \in Held(v) PROVE mail'[n] = mail[n]
        <3>1. n \in Rows /\ n \notin worker[w].group
            BY <2>2, HeldRows DEF Claims, OneSender
        <3> QED BY <2>1, <3>1 DEF RowsOf
    <2>4. \A v \in Workers : Held(v)' \subseteq Held(v)
        BY <2>2
    <2>5. \A v \in Workers : \A n \in Held(v)' : v \in Workers \ {w} /\ n \in Held(v)
        BY <2>2
    <2>6. \A v \in Workers : \A n \in Held(v)' : mail'[n] = mail[n]
        BY <2>3, <2>5
    <2> QED BY <2>4, <2>5, <2>6, ClaimsKept DEF Claims
<1>7. CASE Tick
    <2>1. /\ \A n \in Rows : mail'[n].status = mail[n].status
          /\ \A n \in Rows : mail[n].status = "SENDING" /\ mail[n].held + 1 < Stale
                                => mail'[n].held < Stale
          /\ \A v \in Workers : Held(v)' = Held(v)
        BY <1>7, TickTyped
    <2>2. \A v \in Workers : \A n \in Held(v) : n \in Rows /\ mail[n].held + 1 < Stale
        BY <1>7, HeldRows DEF Tick
    <2> QED BY <2>1, <2>2, ClaimsKept DEF Claims
<1>8. CASE UNCHANGED vars
    BY <1>8 DEF vars, rowVars, Claims, OneSender, Held
<1> QED BY <1>1, <1>2, <1>3, <1>4, <1>5, <1>6, <1>7, <1>8 DEF Next, WorkerStep

LEMMA InitClaims == Init => Claims
BY DEF Init, Idle, Claims, OneSender, Held

\* No notification is held by two delivery runs at a time, for any number of runs,
\* rows and crashes, and whatever the time limits are.
THEOREM OneSenderHolds == Spec => []OneSender
<1>1. Claims => OneSender
    BY DEF Claims
<1> QED BY <1>1, InitTyped, NextTyped, InitClaims, NextClaims, PTL DEF Spec

-----------------------------------------------------------------------------
(* What is settled, and what has been mailed.                               *)

LEMMA NextSettled ==
    Typed /\ Claims /\ [Next]_vars =>
        \A n \in Rows : mail[n].status \in {"SENT", "CANCELLED"} => mail'[n].status = mail[n].status
<1> SUFFICES ASSUME Typed, Claims, [Next]_vars, NEW n \in Rows,
                    mail[n].status \in {"SENT", "CANCELLED"}
             PROVE  mail'[n].status = mail[n].status
    OBVIOUS
<1>1. CASE QueueStep
    BY <1>1, QueueTyped DEF QueueEffect, Unsent
<1>2. ASSUME NEW w \in Workers, StartRun(w) PROVE mail'[n] = mail[n]
    BY <1>2, StartRunTyped DEF RowsOf
<1>3. ASSUME NEW w \in Workers, Scan(w) \/ Take(w) \/ Finish(w) \/ Crash(w)
      PROVE  mail'[n] = mail[n]
    BY <1>3, ScanTyped, TakeTyped, EndTyped DEF Aside
<1>4. ASSUME NEW w \in Workers, Claim(w) PROVE mail'[n] = mail[n]
    BY <1>4, ClaimTyped DEF Due, Unsent
<1>5. ASSUME NEW w \in Workers, Send(w) PROVE mail'[n] = mail[n]
    BY <1>5, SendTyped
<1>6. ASSUME NEW w \in Workers, Record(w) PROVE mail'[n] = mail[n]
    <2>1. Held(w) = worker[w].group
        BY <1>6, RecordTyped DEF Held
    <2>2. n \notin worker[w].group
        BY <2>1 DEF Claims
    <2> QED BY <1>6, <2>2, RecordTyped DEF RowsOf
<1>7. CASE Tick
    BY <1>7, TickTyped
<1>8. CASE UNCHANGED vars
    BY <1>8 DEF vars, rowVars
<1> QED BY <1>1, <1>2, <1>3, <1>4, <1>5, <1>6, <1>7, <1>8 DEF Next, WorkerStep

\* A notification that is sent or cancelled stays so: a late run that records its
\* outcome, a stale claim and a new representative change only what is not.
THEOREM SettledHolds == Spec => SettledStaysSettled
<1>1. Typed /\ Claims /\ [Next]_vars =>
        [ \A n \in Rows : mail[n].status \in {"SENT", "CANCELLED"} =>
            mail'[n].status = mail[n].status ]_vars
    BY NextSettled
<1> QED BY <1>1, InitTyped, NextTyped, InitClaims, NextClaims, PTL DEF Spec, SettledStaysSettled

\* If the provider does nothing, what it has mailed stays what it was asked to.
LEMMA MailingsKept ==
    ASSUME Typed, RowsKept, Mailings, UNCHANGED providerVars,
           \A v \in Workers : worker'[v].pc = "answered" /\ worker'[v].ok =>
               /\ worker[v].pc = "answered" /\ worker[v].ok
               /\ worker'[v].group = worker[v].group,
           \A n \in Rows : mail'[n].status = "SENT" => mail[n].status = "SENT" \/ mailed[n] = 1
    PROVE  Mailings'
<1>1. mailed' = mailed /\ accepted' = accepted
    BY DEF providerVars
<1>2. \A n \in Rows : mailed[n] = 1 => mail'[n].status # "NONE" /\ KeyOf(n)' = KeyOf(n)
    BY DEF RowsKept, KeyOf, Mailings
<1>3. \A n \in Rows : mail'[n].status = "SENT" => mailed[n] = 1
    BY DEF Mailings
<1>4. \A v \in Workers : worker'[v].pc = "answered" /\ worker'[v].ok
         => \A n \in worker'[v].group : mailed[n] = 1
    BY DEF Mailings
<1> QED BY <1>1, <1>2, <1>3, <1>4 DEF Mailings

\* A request goes under the key of each row of its group.
LEMMA GroupKey ==
    ASSUME Typed, NEW w \in Workers, worker[w].group # {}
    PROVE  /\ IdempotencyKey(worker[w].group) \in Keys
           /\ \A n \in worker[w].group : IdempotencyKey(worker[w].group) = KeyOf(n)
<1> DEFINE group == worker[w].group
           first == Min(group)
<1>1. group \in SUBSET Rows /\ Sensible(worker[w])
    BY DEF Typed, TypeOK, Run, GroupsMakeSense
<1>2. first \in group /\ first \in Rows
    BY <1>1, MinOfRows
<1> HIDE DEF first
<1>3. KeyOf(first) \in Keys
    BY <1>2 DEF KeyOf, Keys, Typed, TypeOK, Row
<1>4. \A n \in group : KeyOf(first) = KeyOf(n)
    BY <1>1, <1>2 DEF Sensible
<1>5. IdempotencyKey(group) = KeyOf(first)
    BY DEF IdempotencyKey, KeyOf, first
<1> QED BY <1>3, <1>4, <1>5

LEMMA SendMailings == ASSUME Typed, Mailings, NEW w \in Workers, Send(w) PROVE Mailings'
<1> DEFINE group == worker[w].group
           key == IdempotencyKey(group)
<1>1. /\ mail' = mail /\ RowsKept /\ worker[w].pc = "claimed"
      /\ \A v \in Workers \ {w} : worker'[v] = worker[v]
      /\ worker'[w].pc = "answered" /\ worker'[w].group = group
    BY SendTyped
<1>2. group \subseteq Rows /\ group # {} /\ \A n \in group : mail[n].status # "NONE"
    BY <1>1 DEF Typed, TypeOK, Run, GroupsMakeSense, Sensible
<1>3. key \in Keys /\ \A n \in group : key = KeyOf(n)
    BY <1>2, GroupKey
<1>4. \A n \in Rows : KeyOf(n)' = KeyOf(n)
    BY <1>1 DEF KeyOf
<1>5. CASE UNCHANGED providerVars /\ ~worker'[w].ok
    BY <1>1, <1>5, MailingsKept
<1>6. CASE UNCHANGED providerVars /\ accepted[key] = group
    <2>1. \A n \in group : mailed[n] = 1
        BY <1>3, <1>6 DEF Mailings
    <2>2. mailed' = mailed /\ accepted' = accepted
        BY <1>6 DEF providerVars
    <2>3. \A v \in Workers : worker'[v].pc = "answered" /\ worker'[v].ok
             => \A n \in worker'[v].group : mailed[n] = 1
        BY <1>1, <2>1 DEF Mailings
    <2> QED BY <1>1, <1>4, <2>2, <2>3 DEF Mailings
<1>7. CASE /\ accepted[key] = {}
           /\ accepted' = [accepted EXCEPT ![key] = group]
           /\ mailed' = [n \in Rows |-> IF n \in group THEN mailed[n] + 1 ELSE mailed[n]]
    <2>1. \A n \in group : mailed[n] = 0
        BY <1>2, <1>3, <1>7 DEF Mailings
    <2>2. \A n \in Rows : IF n \in group THEN mailed'[n] = 1 ELSE mailed'[n] = mailed[n]
        BY <1>7, <2>1
    <2> HIDE DEF key
    <2>3. \A k \in Keys : accepted'[k] = IF k = key THEN group ELSE accepted[k]
        BY <1>7 DEF Typed, TypeOK
    <2>4. \A n \in Rows : mailed'[n] \in {0, 1}
        BY <2>2 DEF Mailings
    <2>5. \A k \in Keys : \A n \in accepted'[k] : mailed'[n] = 1
        BY <1>2, <2>2, <2>3 DEF Mailings, Typed, TypeOK
    <2>6. \A n \in Rows : KeyOf(n) \in Keys
        BY DEF KeyOf, Keys, Typed, TypeOK, Row
    <2>7. \A n \in Rows : mailed'[n] = 1 => mail'[n].status # "NONE" /\ n \in accepted'[KeyOf(n)']
        <3>1. SUFFICES ASSUME NEW n \in Rows, mailed'[n] = 1
                       PROVE  mail[n].status # "NONE" /\ n \in accepted'[KeyOf(n)]
            BY <1>1, <1>4
        <3>2. CASE n \in group
            BY <1>2, <1>3, <2>3, <3>2
        <3>3. CASE n \notin group
            <4>1. mail[n].status # "NONE" /\ n \in accepted[KeyOf(n)]
                BY <2>2, <3>1, <3>3 DEF Mailings
            <4>2. KeyOf(n) # key
                BY <1>7, <4>1
            <4> QED BY <2>3, <2>6, <4>1, <4>2
        <3> QED BY <3>2, <3>3
    <2>8. \A v \in Workers : worker'[v].pc = "answered" /\ worker'[v].ok
             => \A n \in worker'[v].group : mailed'[n] = 1
        <3>1. ASSUME NEW v \in Workers \ {w}, worker[v].pc = "answered", worker[v].ok,
                     NEW n \in worker[v].group
              PROVE  mailed'[n] = 1
            <4>1. n \in Rows /\ mailed[n] = 1
                BY <3>1 DEF Mailings, Typed, TypeOK, Run
            <4> QED BY <2>2, <4>1
        <3> QED BY <1>1, <1>2, <2>2, <3>1
    <2>9. \A n \in Rows : mail'[n].status = "SENT" => mailed'[n] = 1
        BY <1>1, <2>2 DEF Mailings
    <2> QED BY <2>4, <2>5, <2>7, <2>8, <2>9 DEF Mailings
<1>8. \/ UNCHANGED providerVars /\ (accepted[key] = group \/ ~worker'[w].ok)
      \/ /\ accepted[key] = {}
         /\ accepted' = [accepted EXCEPT ![key] = group]
         /\ mailed' = [n \in Rows |-> IF n \in group THEN mailed[n] + 1 ELSE mailed[n]]
    <2>1. \A ok \in BOOLEAN :
             worker' = [worker EXCEPT ![w].pc = "answered", ![w].ok = ok] => worker'[w].ok = ok
        BY DEF Typed, TypeOK, Run
    <2> HIDE DEF key
    <2> QED BY <2>1 DEF Send, key
<1> QED BY <1>5, <1>6, <1>7, <1>8

LEMMA NextMailings == Typed /\ Claims /\ Mailings /\ [Next]_vars => Mailings'
<1> SUFFICES ASSUME Typed, Claims, Mailings, [Next]_vars PROVE Mailings'
    OBVIOUS
<1>1. CASE QueueStep
    <2>1. QueueEffect /\ RowsKept
        BY <1>1, QueueTyped
    <2>2. \A n \in Rows : mail'[n].status = "SENT" => mail[n].status = "SENT"
        BY <2>1 DEF QueueEffect
    <2> QED BY <2>1, <2>2, MailingsKept DEF QueueEffect
<1>2. ASSUME NEW w \in Workers, StartRun(w) PROVE Mailings'
    <2>1. \A n \in Rows : mail'[n].status = "SENT" => mail[n].status = "SENT"
        BY <1>2, StartRunTyped DEF RowsOf
    <2> QED BY <1>2, <2>1, StartRunTyped, MailingsKept
<1>3. ASSUME NEW w \in Workers, Scan(w) \/ Take(w) \/ Finish(w) \/ Crash(w) PROVE Mailings'
    <2>1. Aside(w) /\ RowsKept
        BY <1>3, ScanTyped, TakeTyped, EndTyped
    <2> QED BY <2>1, MailingsKept DEF Aside
<1>4. ASSUME NEW w \in Workers, Claim(w) PROVE Mailings'
    <2>1. \A n \in Rows : mail'[n].status = "SENT" => mail[n].status = "SENT"
        BY <1>4, ClaimTyped
    <2>2. \A v \in Workers : worker'[v].pc = "answered" => worker'[v] = worker[v]
        BY <1>4, ClaimTyped
    <2> QED BY <1>4, <2>1, <2>2, ClaimTyped, MailingsKept
<1>5. ASSUME NEW w \in Workers, Send(w) PROVE Mailings'
    BY <1>5, SendMailings
<1>6. ASSUME NEW w \in Workers, Record(w) PROVE Mailings'
    <2>1. /\ RowsOf(worker[w].group, IF worker[w].ok THEN "SENT" ELSE "FAILED")
          /\ \A v \in Workers \ {w} : worker'[v] = worker[v]
          /\ worker'[w].pc = "scanned" /\ worker[w].pc = "answered"
        BY <1>6, RecordTyped
    <2>2. \A n \in Rows : mail'[n].status = "SENT" => mail[n].status = "SENT" \/ mailed[n] = 1
        <3>1. CASE worker[w].ok
            BY <2>1, <3>1 DEF RowsOf, Mailings
        <3>2. CASE ~worker[w].ok
            BY <2>1, <3>2 DEF RowsOf
        <3> QED BY <3>1, <3>2
    <2>3. \A v \in Workers : worker'[v].pc = "answered" => worker'[v] = worker[v]
        BY <2>1
    <2> QED BY <1>6, <2>2, <2>3, RecordTyped, MailingsKept
<1>7. CASE Tick
    <2>1. \A v \in Workers : worker'[v].pc = "answered" => worker[v].pc = "answered"
              /\ worker'[v].group = worker[v].group /\ worker'[v].ok = worker[v].ok
        BY <1>7, TickTyped
    <2> QED BY <1>7, <2>1, TickTyped, MailingsKept
<1>8. CASE UNCHANGED vars
    BY <1>8, SameRowsKept, MailingsKept DEF vars, rowVars
<1> QED BY <1>1, <1>2, <1>3, <1>4, <1>5, <1>6, <1>7, <1>8 DEF Next, WorkerStep

LEMMA InitMailings == Init => Mailings
<1> SUFFICES ASSUME Init PROVE Mailings
    OBVIOUS
<1>1. \A n \in Rows : mailed[n] = 0 /\ mail[n].status = "NONE"
    BY DEF Init, NoRow
<1>2. \A key \in Keys : accepted[key] = {}
    BY DEF Init
<1>3. \A w \in Workers : worker[w].pc = "idle"
    BY DEF Init, Idle
<1> QED BY <1>1, <1>2, <1>3 DEF Mailings

\* No notification is e-mailed twice, and one marked SENT has been, for any number
\* of attempts, crashes and overlapping runs: the provider answers a key's first
\* request and its repetitions, and every request for a row goes under one key.
THEOREM MailedOnceHolds == Spec => []MailedOnce
<1>1. Mailings => MailedOnce
    <2> SUFFICES ASSUME Mailings, NEW n \in Rows
                 PROVE  mailed[n] <= 1 /\ (mail[n].status = "SENT" => mailed[n] = 1)
        BY DEF MailedOnce
    <2>1. mailed[n] \in {0, 1}
        BY DEF Mailings
    <2> QED BY <2>1 DEF Mailings
<1> QED BY <1>1, InitTyped, NextTyped, InitClaims, NextClaims, InitMailings, NextMailings, PTL
        DEF Spec
=============================================================================
