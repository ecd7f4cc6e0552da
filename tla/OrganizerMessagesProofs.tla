----------------------- MODULE OrganizerMessagesProofs -----------------------
(***************************************************************************)
(* Theorems about OrganizerMessages, for any number of recipients, batches *)
(* and runs, any delays, and events that come at any time.                 *)
(*                                                                         *)
(* That nobody is mailed twice rests on the rows of a batch staying        *)
(* together (Lockstep): as long as no event has made one claim look        *)
(* younger than the rest, they are claimed, put off and given up as one,   *)
(* so that at most one run works on the batch (OneHolder), and every       *)
(* request about it carries the one key of the whole batch (KeysAreWhole), *)
(* which the provider accepts once.                                        *)
(***************************************************************************)
EXTENDS OrganizerMessages, FiniteSetTheorems, WellFoundedInduction, TLAPS

-----------------------------------------------------------------------------
(* Least and greatest elements.                                             *)

LEMMA LeastOfNaturals ==
    ASSUME NEW S \in SUBSET Nat, S # {}
    PROVE  \E n \in S : \A m \in S : n <= m
<1>1. IsWellFoundedOn(OpToRel(<, Nat), Nat)
    BY NatLessThanWellFounded
<1>2. PICK n \in S : \A m \in S : <<m, n>> \notin OpToRel(<, Nat)
    BY <1>1, WFMin
<1>3. \A m \in S : ~(m < n)
    BY <1>2 DEF OpToRel
<1> QED BY <1>3

LEMMA MinOfNaturals ==
    ASSUME NEW S \in SUBSET Nat, S # {}
    PROVE  Min(S) \in S /\ \A m \in S : Min(S) <= m
<1>1. PICK n \in S : \A m \in S : n <= m
    BY LeastOfNaturals
<1> QED BY <1>1 DEF Min

LEMMA MaxOfBounded ==
    ASSUME NEW b \in Nat, NEW S \in SUBSET (0..b), S # {}
    PROVE  Max(S) \in S /\ \A m \in S : m <= Max(S)
<1> DEFINE T == {b - k : k \in S}
<1>1. T \in SUBSET Nat /\ T # {}
    <2>1. SUFFICES ASSUME NEW k \in S PROVE b - k \in Nat
        OBVIOUS
    <2>2. k \in 0..b
        OBVIOUS
    <2> QED BY <2>2
<1>2. PICK t \in T : \A u \in T : t <= u
    BY <1>1, LeastOfNaturals
<1>3. PICK k \in S : t = b - k
    BY <1>2
<1>4. \A j \in S : k >= j
    <2>1. SUFFICES ASSUME NEW j \in S PROVE k >= j
        OBVIOUS
    <2>2. b - k <= b - j
        BY <1>2, <1>3, <2>1
    <2> QED BY <2>2, <2>1
<1>5. k \in S /\ \A j \in S : k >= j
    BY <1>3, <1>4
<1>6. Max(S) \in S /\ \A j \in S : Max(S) >= j
    BY <1>5 DEF Max
<1>7. \A j \in 0..b : j \in Int
    OBVIOUS
<1>8. \A j \in S : j \in 0..b
    OBVIOUS
<1> QED BY <1>6, <1>7, <1>8

\* The delays are bounded, so the longest is one of them (or none).
LEMMA DelaysBounded == \E b \in Nat : \A k \in 1..MaxAttempts : Backoff[k] <= b
<1> DEFINE Bounded(n) == \E b \in Nat : \A k \in 1..n : Backoff[k] <= b
           Bad == {n \in 0..MaxAttempts : ~Bounded(n)}
<1>1. MaxAttempts \in Nat /\ \A k \in 1..MaxAttempts : Backoff[k] \in Nat
    BY CountsAssumption, TimesAssumption
<1>2. CASE Bad = {}
    <2>1. MaxAttempts \in 0..MaxAttempts
        BY <1>1
    <2>2. Bounded(MaxAttempts)
        BY <1>2, <2>1
    <2> QED BY <2>2
<1>3. CASE Bad # {}
    <2>1. PICK n \in Bad : \A m \in Bad : n <= m
        <3>1. Bad \in SUBSET Nat
            BY <1>1
        <3> HIDE DEF Bad
        <3> QED BY <1>3, <3>1, LeastOfNaturals
    <2>2. n # 0
        <3>1. Bounded(0)
            OBVIOUS
        <3> QED BY <2>1, <3>1
    <2>3. n \in 1..MaxAttempts /\ n - 1 \in 0..MaxAttempts
        BY <1>1, <2>1, <2>2
    <2>4. Bounded(n - 1)
        BY <2>1, <2>3
    <2>5. PICK b \in Nat : \A k \in 1..(n - 1) : Backoff[k] <= b
        BY <2>4
    <2>6. PICK c \in Nat : c >= b /\ c >= Backoff[n]
        <3>1. b + Backoff[n] \in Nat /\ b + Backoff[n] >= b /\ b + Backoff[n] >= Backoff[n]
            BY <1>1, <2>3
        <3> QED BY <3>1
    <2>7. \A k \in 1..n : Backoff[k] <= c
        <3>1. SUFFICES ASSUME NEW k \in 1..n PROVE Backoff[k] <= c
            OBVIOUS
        <3>2. CASE k = n
            BY <2>6, <3>2
        <3>3. CASE k # n
            <4>1. k \in 1..(n - 1) /\ Backoff[k] \in Nat
                BY <1>1, <2>3, <3>3
            <4> QED BY <2>5, <2>6, <4>1
        <3> QED BY <3>2, <3>3
    <2>8. Bounded(n)
        BY <2>6, <2>7
    <2> QED BY <2>1, <2>8
<1> QED BY <1>2, <1>3

LEMMA LongestDelay == Longest \in Nat /\ \A k \in 1..MaxAttempts : Backoff[k] \in 1..Longest
<1>1. PICK b \in Nat : \A k \in 1..MaxAttempts : Backoff[k] <= b
    BY DelaysBounded
<1>2. \A k \in 1..MaxAttempts : Backoff[k] \in Nat /\ Backoff[k] >= 1
    BY TimesAssumption
<1> DEFINE D == {0} \cup {Backoff[k] : k \in 1..MaxAttempts}
<1>3. D \in SUBSET (0..b) /\ D # {}
    BY <1>1, <1>2
<1>4. Max(D) \in D /\ \A m \in D : m <= Max(D)
    BY <1>3, MaxOfBounded
<1> QED BY <1>2, <1>3, <1>4 DEF Longest

-----------------------------------------------------------------------------
(* Recipients, batches and the order of a request.                          *)

LEMMA Places ==
    \A n \in Rows : /\ Place(n) \in 1..Len(Recipients) /\ Place(n) \in Nat
                    /\ Recipients[Place(n)] = n
<1>1. DOMAIN Recipients = 1..Len(Recipients) /\ Len(Recipients) \in Nat
    BY RecipientsAssumption
<1>2. SUFFICES ASSUME NEW n \in Rows
               PROVE  Place(n) \in DOMAIN Recipients /\ Recipients[Place(n)] = n
    BY <1>1
<1>3. \E i \in DOMAIN Recipients : Recipients[i] = n
    BY DEF Rows
<1> QED BY <1>3 DEF Place

LEMMA RowsFinite == IsFiniteSet(Rows) /\ \A rows \in SUBSET Rows : IsFiniteSet(rows) /\ Cardinality(rows) \in Nat
<1> DEFINE place == [n \in Rows |-> Place(n)]
<1>1. Len(Recipients) \in Nat
    BY RecipientsAssumption
<1>2. place \in Injection(Rows, 1..Len(Recipients))
    <2>1. place \in [Rows -> 1..Len(Recipients)]
        BY Places
    <2>2. \A m, n \in Rows : place[m] = place[n] => m = n
        BY Places
    <2> QED BY <2>1, <2>2 DEF Injection, IsInjective
<1>3. IsFiniteSet(1..Len(Recipients))
    BY <1>1, FS_Interval
<1>4. IsFiniteSet(Rows)
    BY <1>2, <1>3, FS_Injection
<1> QED BY <1>4, FS_Subset, FS_CardinalityType

LEMMA BatchesAreNumbers == Batches \in SUBSET Nat /\ \A n \in Rows : BatchNo(n) \in Batches
<1>1. SUFFICES ASSUME NEW n \in Rows PROVE (Place(n) - 1) \div BatchSize \in Nat
    BY DEF Batches, BatchNo
<1>2. Place(n) - 1 \in Nat /\ BatchSize \in Nat \ {0}
    BY Places, RecipientsAssumption
<1> QED BY <1>2

LEMMA BatchesApart ==
    /\ \A k \in Batches : In(k) \subseteq Rows
    /\ \A k, c \in Batches : In(k) \cap In(c) # {} => k = c
    /\ \A n \in Rows : n \in In(BatchNo(n))
BY DEF In


\* Among some rows, the order counts them in the order of their places.
LEMMA OrderCounts ==
    ASSUME NEW rows \in SUBSET Rows
    PROVE  /\ \A n \in rows : Order(n, rows) \in 1..Cardinality(rows)
           /\ \A m, n \in rows : Order(m, rows) <= Order(n, rows) <=> Place(m) <= Place(n)
           /\ \A i \in 1..Cardinality(rows) : \E n \in rows : Order(n, rows) = i
<1> DEFINE Upto(n) == {m \in rows : Place(m) <= Place(n)}
<1>1. IsFiniteSet(rows) /\ Cardinality(rows) \in Nat
    BY RowsFinite
<1>2. \A n \in rows : Place(n) \in Nat
    BY Places
<1>3. ASSUME NEW n \in rows
      PROVE  Order(n, rows) \in 1..Cardinality(rows) /\ Order(n, rows) \in Nat
    <2>1. Upto(n) \in SUBSET rows /\ Upto(n) # {}
        BY <1>2
    <2>2. IsFiniteSet(Upto(n)) /\ Cardinality(Upto(n)) <= Cardinality(rows)
        BY <1>1, <2>1, FS_Subset
    <2>3. Cardinality(Upto(n)) \in Nat /\ Cardinality(Upto(n)) # 0
        BY <2>1, <2>2, FS_CardinalityType, FS_EmptySet
    <2> QED BY <1>1, <2>2, <2>3 DEF Order
<1>4. ASSUME NEW m \in rows, NEW n \in rows, Place(m) <= Place(n)
      PROVE  Order(m, rows) <= Order(n, rows)
    <2>1. Upto(m) \in SUBSET Upto(n)
        <3>1. SUFFICES ASSUME NEW l \in Upto(m) PROVE l \in Upto(n)
            OBVIOUS
        <3>2. l \in rows /\ Place(l) <= Place(m)
            OBVIOUS
        <3> QED BY <1>2, <1>4, <3>2
    <2>2. IsFiniteSet(Upto(n))
        BY <1>1, FS_Subset
    <2>3. Cardinality(Upto(m)) <= Cardinality(Upto(n))
        BY <2>1, <2>2, FS_Subset
    <2> QED BY <2>3 DEF Order
<1>5. ASSUME NEW m \in rows, NEW n \in rows, ~(Place(m) <= Place(n))
      PROVE  ~(Order(m, rows) <= Order(n, rows))
    <2>1. Place(n) < Place(m)
        BY <1>2, <1>5
    <2>2. Upto(n) \in SUBSET Upto(m)
        <3>1. SUFFICES ASSUME NEW l \in Upto(n) PROVE l \in Upto(m)
            OBVIOUS
        <3>2. l \in rows /\ Place(l) <= Place(n)
            OBVIOUS
        <3> QED BY <1>2, <2>1, <3>2
    <2>3. m \in Upto(m) /\ m \notin Upto(n)
        BY <1>2, <1>5
    <2>4. IsFiniteSet(Upto(m))
        BY <1>1, FS_Subset
    <2>5. Cardinality(Upto(n)) <= Cardinality(Upto(m)) /\ Cardinality(Upto(n)) # Cardinality(Upto(m))
        BY <2>2, <2>3, <2>4, FS_Subset
    <2>6. Order(m, rows) = Cardinality(Upto(m)) /\ Order(n, rows) = Cardinality(Upto(n))
        BY DEF Order
    <2> QED BY <1>3, <2>5, <2>6
<1>6. \A m, n \in rows : Order(m, rows) <= Order(n, rows) <=> Place(m) <= Place(n)
    BY <1>4, <1>5
<1> DEFINE order == [n \in rows |-> Order(n, rows)]
<1>7. order \in Injection(rows, 1..Cardinality(rows))
    <2>1. order \in [rows -> 1..Cardinality(rows)]
        BY <1>3
    <2>2. ASSUME NEW m \in rows, NEW n \in rows, order[m] = order[n] PROVE m = n
        <3>1. Order(m, rows) = Order(n, rows) /\ Order(m, rows) \in Nat /\ Order(n, rows) \in Nat
            BY <1>3, <2>2
        <3>2. Place(m) <= Place(n) /\ Place(n) <= Place(m)
            BY <1>6, <3>1
        <3>3. Place(m) = Place(n)
            BY <1>2, <3>2
        <3> QED BY <3>3, Places
    <2> QED BY <2>1, <2>2 DEF Injection, IsInjective
<1>8. IsFiniteSet(1..Cardinality(rows)) /\ Cardinality(1..Cardinality(rows)) = Cardinality(rows)
    BY <1>1, FS_Interval
<1>9. order \in Surjection(rows, 1..Cardinality(rows))
    BY <1>7, <1>8, FS_Injection
<1>10. \A i \in 1..Cardinality(rows) : \E n \in rows : Order(n, rows) = i
    BY <1>9 DEF Surjection
<1> QED BY <1>3, <1>6, <1>10

LEMMA OrderTells ==
    ASSUME NEW rows \in SUBSET Rows, NEW m \in rows, NEW n \in rows, Order(m, rows) = Order(n, rows)
    PROVE  m = n
<1>1. Cardinality(rows) \in Nat
    BY RowsFinite
<1>2. Order(m, rows) <= Order(n, rows) /\ Order(n, rows) <= Order(m, rows)
    BY <1>1, OrderCounts
<1>3. Place(m) <= Place(n) /\ Place(n) <= Place(m)
    BY <1>2, OrderCounts
<1>4. Place(m) = Place(n)
    BY <1>3, Places
<1> QED BY <1>4, Places

\* Each accepted e-mail is given its own id, whichever of a request are refused.
THEOREM AnswersAlign ==
    ASSUME NEW group \in SUBSET Rows, NEW bad \in SUBSET group, NEW n \in group
    PROVE  /\ Order(n, group) \in RefusedAt(bad, group) <=> n \in bad
           /\ n \notin bad =>
                ResendIds(Cardinality(group), Ids(group \ bad, group), RefusedAt(bad, group))[Order(n, group)]
                    = <<n, group>>
<1> DEFINE failures == RefusedAt(bad, group)
           good == group \ bad
           c == Cardinality(group)
           i == Order(n, group)
<1>0. failures = {Order(m, group) : m \in bad}
    BY DEF RefusedAt
<1>1. i \in failures <=> n \in bad
    BY <1>0, OrderTells
<1>2. ASSUME n \notin bad
      PROVE  ResendIds(c, Ids(good, group), failures)[i] = <<n, group>>
    <2>1. good \in SUBSET Rows /\ n \in good /\ i \in 1..c /\ c \in Nat
        BY <1>2, OrderCounts, RowsFinite
    <2>2. i \in 1..c \ failures
        BY <1>1, <1>2, <2>1
    <2>3. Cardinality(1..i \ failures) = Order(n, good)
        <3> DEFINE Upto == {m \in good : Place(m) <= Place(n)}
                   order == [m \in Upto |-> Order(m, group)]
        <3>1. order \in [Upto -> 1..i \ failures]
            <4>1. SUFFICES ASSUME NEW m \in Upto PROVE Order(m, group) \in 1..i \ failures
                OBVIOUS
            <4>2. m \in group /\ m \notin bad /\ Place(m) <= Place(n)
                OBVIOUS
            <4>3. Order(m, group) \in 1..c /\ Order(m, group) <= i
                BY <4>2, OrderCounts
            <4>4. Order(m, group) \notin failures
                BY <1>0, <4>2, OrderTells
            <4> QED BY <2>1, <4>3, <4>4
        <3>2. \A l, m \in Upto : order[l] = order[m] => l = m
            BY OrderTells
        <3>3. ASSUME NEW j \in 1..i \ failures PROVE \E m \in Upto : order[m] = j
            <4>1. j \in 1..c /\ j <= i
                BY <2>1
            <4>2. PICK m \in group : Order(m, group) = j
                BY <4>1, OrderCounts
            <4>3. m \notin bad
                BY <1>0, <4>2
            <4>4. Place(m) <= Place(n)
                BY <4>1, <4>2, OrderCounts
            <4> QED BY <4>2, <4>3, <4>4
        <3>4. order \in Bijection(Upto, 1..i \ failures)
            BY <3>1, <3>2, <3>3 DEF Bijection, Injection, Surjection, IsInjective
        <3>5. IsFiniteSet(Upto)
            BY <2>1, RowsFinite
        <3>6. Cardinality(1..i \ failures) = Cardinality(Upto)
            BY <3>4, <3>5, FS_Bijection DEF ExistsBijection
        <3> QED BY <3>6 DEF Order
    <2>4. Order(n, good) \in 1..Cardinality(good)
        BY <2>1, OrderCounts
    <2>5. Ids(good, group)[Order(n, good)] = <<n, group>>
        <3>1. Ids(good, group)[Order(n, good)]
                = <<CHOOSE m \in good : Order(m, good) = Order(n, good), group>>
            BY <2>4 DEF Ids
        <3>2. \A m \in good : Order(m, good) = Order(n, good) => m = n
            BY <2>1, OrderTells
        <3>3. (CHOOSE m \in good : Order(m, good) = Order(n, good)) = n
            BY <2>1, <3>2
        <3> QED BY <3>1, <3>3
    <2> QED BY <2>2, <2>3, <2>5 DEF ResendIds
<1> QED BY <1>1, <1>2

-----------------------------------------------------------------------------
(* Types.                                                                   *)

\* A run that works on a batch knows it, and what it has sent is part of it.
Sensible(r) ==
    /\ r.pc \in {"read", "sent"} => r.batch \in Batches
    /\ r.pc = "claim" => r.todo # {}
    /\ r.pc = "sent" => r.group # {} /\ r.group \subseteq In(r.batch)

GroupsMakeSense == \A w \in Runs : Sensible(run[w])

\* The provider refuses only what it was asked to send.
RefusedWereAsked == \A key \in Keys : refused[key] # None => refused[key] \subseteq key

Typed == TypeOK /\ GroupsMakeSense /\ RefusedWereAsked

Dues == (-Longest)..MaxRun

LEMMA Zeros == 0 \in Dues /\ 0 \in 0..Stale /\ 0 \in 0..MaxRun /\ 0 \in 0..MaxAttempts /\ Dues \subseteq Int
BY LongestDelay, TimesAssumption, CountsAssumption DEF Dues

\* What the steps change of a row.
LEMMA NewRow ==
    /\ NoRow \in Row /\ NoRow.status = "NONE" /\ NoRow.mail = None /\ NoRow.event = None
    /\ LET r == [NoRow EXCEPT !.status = "PENDING"]
       IN  /\ r \in Row /\ r.status = "PENDING" /\ r.attempts = 0 /\ r.due = 0 /\ r.held = 0
           /\ r.mail = None /\ r.event = None
<1>1. PICK a \in 0..MaxAttempts, d \in Dues, h \in 0..Stale : a = 0 /\ d = 0 /\ h = 0
    BY Zeros
<1>2. NoRow = [status |-> "NONE", attempts |-> a, due |-> d, held |-> h, mail |-> None, event |-> None]
    BY <1>1 DEF NoRow
<1> QED BY <1>1, <1>2 DEF Row, Dues

LEMMA SendingRow ==
    ASSUME NEW m \in Row, m.attempts < MaxAttempts
    PROVE  LET r == [m EXCEPT !.status = "SENDING", !.attempts = m.attempts + 1, !.due = 0, !.held = 0]
           IN  /\ r \in Row /\ r.status = "SENDING" /\ r.attempts = m.attempts + 1 /\ r.due = 0
               /\ r.held = 0 /\ r.mail = m.mail /\ r.event = m.event
<1>1. m.attempts \in 0..MaxAttempts /\ MaxAttempts \in Nat
    BY CountsAssumption DEF Row
<1>2. PICK a \in 0..MaxAttempts, d \in Dues, h \in 0..Stale : a = m.attempts + 1 /\ d = 0 /\ h = 0
    BY <1>1, Zeros
<1>3. LET r == [m EXCEPT !.status = "SENDING", !.attempts = a, !.due = d, !.held = h]
      IN  /\ r \in Row /\ r.status = "SENDING" /\ r.attempts = a /\ r.due = d
          /\ r.held = h /\ r.mail = m.mail /\ r.event = m.event
    BY DEF Row, Dues
<1> QED BY <1>2, <1>3

LEMMA RefusedRow ==
    ASSUME NEW m \in Row
    PROVE  LET r == [m EXCEPT !.status = "FAILED", !.attempts = MaxAttempts, !.due = 0, !.held = 0]
           IN  /\ r \in Row /\ r.status = "FAILED" /\ r.attempts = MaxAttempts
               /\ r.mail = m.mail /\ r.event = m.event
<1>1. PICK a \in 0..MaxAttempts, d \in Dues, h \in 0..Stale : a = MaxAttempts /\ d = 0 /\ h = 0
    BY Zeros, CountsAssumption
<1>2. LET r == [m EXCEPT !.status = "FAILED", !.attempts = a, !.due = d, !.held = h]
      IN  /\ r \in Row /\ r.status = "FAILED" /\ r.attempts = a /\ r.mail = m.mail /\ r.event = m.event
    BY DEF Row, Dues
<1> QED BY <1>1, <1>2

LEMMA LaterRow ==
    ASSUME NEW m \in Row, m.due < MaxRun
    PROVE  LET r == [m EXCEPT !.due = m.due + 1]
           IN  /\ r \in Row /\ r.status = m.status /\ r.attempts = m.attempts /\ r.due = m.due + 1
               /\ r.held = m.held /\ r.mail = m.mail /\ r.event = m.event
<1>1. m.due \in Dues /\ MaxRun \in Nat /\ Longest \in Nat
    BY TimesAssumption, LongestDelay DEF Row, Dues
<1>2. PICK d \in Dues : d = m.due + 1
    BY <1>1 DEF Dues
<1>3. LET r == [m EXCEPT !.due = d]
      IN  /\ r \in Row /\ r.status = m.status /\ r.attempts = m.attempts /\ r.due = d
          /\ r.held = m.held /\ r.mail = m.mail /\ r.event = m.event
    BY DEF Row, Dues
<1> QED BY <1>2, <1>3

LEMMA OlderRow ==
    ASSUME NEW m \in Row, m.held < Stale
    PROVE  LET r == [m EXCEPT !.held = m.held + 1]
           IN  /\ r \in Row /\ r.status = m.status /\ r.attempts = m.attempts /\ r.due = m.due
               /\ r.held = m.held + 1 /\ r.mail = m.mail /\ r.event = m.event
<1>1. m.held \in 0..Stale /\ Stale \in Nat
    BY TimesAssumption DEF Row
<1>2. PICK h \in 0..Stale : h = m.held + 1
    BY <1>1
<1>3. LET r == [m EXCEPT !.held = h]
      IN  /\ r \in Row /\ r.status = m.status /\ r.attempts = m.attempts /\ r.due = m.due
          /\ r.held = h /\ r.mail = m.mail /\ r.event = m.event
    BY DEF Row
<1> QED BY <1>2, <1>3

\* A run that is done with a batch, or begins.
Leaves(w) ==
    /\ run' \in [Runs -> Run]
    /\ \A v \in Runs \ {w} : run'[v] = run[v]
    /\ run'[w].pc \in {"idle", "claim"} /\ Sensible(run'[w])

LEMMA IdleType == Idle \in Run /\ Idle.pc = "idle" /\ Sensible(Idle)
<1>1. PICK a \in 0..MaxRun : a = 0
    BY Zeros
<1>2. Idle = [pc |-> "idle", age |-> a, todo |-> {}, batch |-> None, group |-> {}]
    BY <1>1 DEF Idle
<1> QED BY <1>2 DEF Run, Sensible

LEMMA ClaimingRun ==
    ASSUME NEW m \in Run, NEW todo \in SUBSET Batches
    PROVE  LET r == [m EXCEPT !.pc = "claim", !.todo = todo, !.batch = None, !.group = {}]
           IN  r \in Run /\ r.pc = "claim" /\ r.todo = todo
<1>1. PICK b \in Batches \cup {None}, g \in SUBSET Rows : b = None /\ g = {}
    OBVIOUS
<1>2. LET r == [m EXCEPT !.pc = "claim", !.todo = todo, !.batch = b, !.group = g]
      IN  r \in Run /\ r.pc = "claim" /\ r.todo = todo
    BY DEF Run
<1> QED BY <1>1, <1>2

LEMMA OnwardType ==
    ASSUME Typed, NEW w \in Runs, NEW todo \in SUBSET Batches
    PROVE  /\ Onward(w, todo) \in Run /\ Sensible(Onward(w, todo))
           /\ Onward(w, todo).pc \in {"idle", "claim"}
<1>1. CASE todo = {}
    BY <1>1, IdleType DEF Onward
<1>2. CASE todo # {}
    <2> DEFINE r == [run[w] EXCEPT !.pc = "claim", !.todo = todo, !.batch = None, !.group = {}]
    <2>1. run[w] \in Run
        BY DEF Typed, TypeOK
    <2>2. r \in Run /\ r.pc = "claim" /\ r.todo = todo
        BY <2>1, ClaimingRun
    <2>3. Onward(w, todo) = r
        BY <1>2 DEF Onward
    <2> HIDE DEF r
    <2> QED BY <1>2, <2>2, <2>3 DEF Sensible
<1> QED BY <1>1, <1>2

LEMMA Moving ==
    ASSUME Typed, NEW w \in Runs, NEW r \in Run, run' = [run EXCEPT ![w] = r]
    PROVE  /\ run' \in [Runs -> Run] /\ run'[w] = r
           /\ \A v \in Runs \ {w} : run'[v] = run[v]
<1>1. run \in [Runs -> Run]
    BY DEF Typed, TypeOK
<1> QED BY <1>1

LEMMA Leaving ==
    ASSUME Typed, NEW w \in Runs, NEW todo \in SUBSET Batches,
           run' = [run EXCEPT ![w] = Onward(w, todo)]
    PROVE  Leaves(w)
BY OnwardType, Moving DEF Leaves

LEMMA LeavingSensible ==
    ASSUME Typed, NEW w \in Runs, Leaves(w)
    PROVE  run' \in [Runs -> Run] /\ GroupsMakeSense'
BY DEF Leaves, Typed, GroupsMakeSense, Sensible

\* What a row keeps.
KeepsTale(n) == row'[n].mail = row[n].mail /\ row'[n].event = row[n].event
Fails(n, due) ==
    /\ row'[n].status = "FAILED" /\ row'[n].attempts = row[n].attempts
    /\ row'[n].due = due /\ row'[n].held = 0 /\ KeepsTale(n)

LEMMA StartRunSteps ==
    ASSUME Typed, NEW w \in Runs, NEW size \in RunSizes, StartRun(w, size)
    PROVE  /\ Leaves(w) /\ row' \in [Rows -> Row]
           /\ \A n \in StaleClaims : Fails(n, 0)
           /\ \A n \in Rows \ StaleClaims : row'[n] = row[n]
<1>1. row \in [Rows -> Row]
    BY DEF Typed, TypeOK
<1>2. \A n \in Rows : row'[n] = IF n \in StaleClaims
                                THEN [row[n] EXCEPT !.status = "FAILED", !.due = 0, !.held = 0]
                                ELSE row[n]
    BY DEF StartRun
<1>3. StaleClaims \subseteq Rows
    BY DEF StaleClaims
<1>4. ASSUME NEW n \in StaleClaims PROVE Fails(n, 0) /\ row'[n] \in Row
    <2>1. PICK due \in Dues, held \in 0..Stale : due = 0 /\ held = 0
        BY Zeros
    <2>2. row[n] \in Row /\ row'[n] = [row[n] EXCEPT !.status = "FAILED", !.due = due, !.held = held]
        BY <1>1, <1>2, <1>3, <2>1
    <2>3. row'[n] \in Row /\ Fails(n, due)
        BY <2>1, <2>2 DEF Fails, KeepsTale, Row, Dues
    <2> QED BY <2>1, <2>3
<1>5. \A n \in Rows : row'[n] \in Row
    BY <1>1, <1>2, <1>4
<1>6. row' \in [Rows -> Row]
    <2>1. row' = [n \in Rows |-> row'[n]]
        BY DEF StartRun
    <2> QED BY <1>5, <2>1
<1>7. Leaves(w)
    <2>1. PICK todo \in SUBSET Batches : run' = [run EXCEPT ![w] = Onward(w, todo)]
        BY DEF StartRun
    <2> QED BY <2>1, Leaving
<1> QED BY <1>2, <1>4, <1>6, <1>7, <1>3

\* What a run has claimed: all that is due of one batch.
Claimed(w) == In(Min(run[w].todo)) \cap DueFor(w)
LEMMA ClaimSteps ==
    ASSUME Typed, NEW w \in Runs, Claim(w)
    PROVE  /\ Min(run[w].todo) \in Batches /\ Claimed(w) \in SUBSET Rows
           /\ \A n \in Claimed(w) :
                /\ row[n].status \in Unsent /\ row[n].attempts < MaxAttempts
                /\ row'[n].status = "SENDING" /\ row'[n].attempts = row[n].attempts + 1
                /\ row'[n].due = 0 /\ row'[n].held = 0 /\ KeepsTale(n)
           /\ \A n \in Rows \ Claimed(w) : row'[n] = row[n]
           /\ row' \in [Rows -> Row] /\ run' \in [Runs -> Run]
           /\ \/ Leaves(w) /\ Claimed(w) = {}
              \/ /\ \A v \in Runs \ {w} : run'[v] = run[v]
                 /\ run'[w].pc = "read" /\ run'[w].batch = Min(run[w].todo)
                 /\ Claimed(w) # {}
<1> DEFINE b == Min(run[w].todo)
<1>1. row \in [Rows -> Row] /\ run \in [Runs -> Run] /\ run[w] \in Run
    BY DEF Typed, TypeOK
<1>2. run[w].todo \in SUBSET Batches /\ run[w].todo # {}
    BY <1>1 DEF Claim, Typed, GroupsMakeSense, Sensible, Run
<1>3. b \in run[w].todo /\ b \in Batches
    <2>1. run[w].todo \in SUBSET Nat
        BY <1>2, BatchesAreNumbers
    <2> QED BY <1>2, <2>1, MinOfNaturals
<1>4. Claimed(w) \in SUBSET Rows
    BY DEF Claimed, DueFor
<1>5. \A n \in Rows : row'[n] =
          IF n \in Claimed(w)
          THEN [row[n] EXCEPT !.status = "SENDING", !.attempts = row[n].attempts + 1, !.due = 0, !.held = 0]
          ELSE row[n]
    BY DEF Claim, Claimed
<1>6. ASSUME NEW n \in Claimed(w)
      PROVE  /\ row[n].status \in Unsent /\ row[n].attempts < MaxAttempts
             /\ row'[n].status = "SENDING" /\ row'[n].attempts = row[n].attempts + 1
             /\ row'[n].due = 0 /\ row'[n].held = 0 /\ KeepsTale(n)
             /\ row'[n] \in Row
    <2>1. row[n].status \in Unsent /\ row[n].attempts < MaxAttempts
        BY DEF Claimed, DueFor
    <2>2. row[n] \in Row /\ row'[n] = [row[n] EXCEPT !.status = "SENDING", !.attempts = row[n].attempts + 1,
                                                      !.due = 0, !.held = 0]
        BY <1>1, <1>4, <1>5
    <2> QED BY <2>1, <2>2, SendingRow DEF KeepsTale
<1>7. row' \in [Rows -> Row]
    <2>1. \A n \in Rows : row'[n] \in Row
        BY <1>1, <1>5, <1>6
    <2>2. row' = [n \in Rows |-> row'[n]]
        BY DEF Claim
    <2> QED BY <2>1, <2>2
<1>8. CASE Claimed(w) = {}
    <2>1. run' = [run EXCEPT ![w] = Onward(w, run[w].todo \ {b})]
        BY <1>8 DEF Claim, Claimed
    <2>2. run[w].todo \ {b} \in SUBSET Batches
        BY <1>2
    <2>3. Leaves(w)
        BY <2>1, <2>2, Leaving
    <2>4. run' \in [Runs -> Run]
        BY <2>3 DEF Leaves
    <2> QED BY <1>3, <1>4, <1>5, <1>6, <1>7, <1>8, <2>3, <2>4
<1>9. CASE Claimed(w) # {}
    <2> DEFINE r == [run[w] EXCEPT !.pc = "read", !.todo = run[w].todo \ {b}, !.batch = b]
    <2>1. run' = [run EXCEPT ![w] = r]
        BY <1>9 DEF Claim, Claimed
    <2>2. \A m \in Run, c \in Batches, todo \in SUBSET Batches :
              LET q == [m EXCEPT !.pc = "read", !.todo = todo, !.batch = c]
              IN  q \in Run /\ q.pc = "read" /\ q.batch = c
        BY DEF Run
    <2>3. run[w].todo \ {b} \in SUBSET Batches
        BY <1>2
    <2>4. r \in Run /\ r.pc = "read" /\ r.batch = b
        BY <1>1, <1>3, <2>2, <2>3
    <2> HIDE DEF r
    <2>5. run' \in [Runs -> Run] /\ run'[w] = r /\ \A v \in Runs \ {w} : run'[v] = run[v]
        BY <2>1, <2>4, Moving
    <2> QED BY <1>3, <1>4, <1>5, <1>6, <1>7, <1>9, <2>4, <2>5
<1> QED BY <1>8, <1>9

\* What a run sends: the rows of its batch that are being sent.
Group(w) == {n \in In(run[w].batch) : row[n].status = "SENDING"}
LEMMA SendSteps ==
    ASSUME Typed, NEW w \in Runs, Send(w)
    PROVE  /\ run[w].batch \in Batches /\ Group(w) \in SUBSET Rows
           /\ run' \in [Runs -> Run]
           /\ \/ Leaves(w) /\ Group(w) = {} /\ net' = net
              \/ /\ \A v \in Runs \ {w} : run'[v] = run[v]
                 /\ run'[w].pc = "sent" /\ run'[w].batch = run[w].batch /\ run'[w].group = Group(w)
                 /\ Group(w) # {} /\ Group(w) \in Keys /\ net' = net \cup {Group(w)}
<1>1. run \in [Runs -> Run] /\ run[w] \in Run
    BY DEF Typed, TypeOK
<1>2. run[w].batch \in Batches /\ run[w].todo \in SUBSET Batches
    BY <1>1 DEF Send, Typed, GroupsMakeSense, Sensible, Run
<1>3. Group(w) \in SUBSET Rows
    BY <1>2, BatchesApart DEF Group
<1>4. CASE Group(w) = {}
    <2>1. run' = [run EXCEPT ![w] = Onward(w, run[w].todo)] /\ net' = net
        BY <1>4 DEF Send, Group
    <2>2. Leaves(w)
        BY <1>2, <2>1, Leaving
    <2> QED BY <1>2, <1>3, <1>4, <2>1, <2>2 DEF Leaves
<1>5. CASE Group(w) # {}
    <2> DEFINE r == [run[w] EXCEPT !.pc = "sent", !.group = Group(w)]
    <2>1. run' = [run EXCEPT ![w].pc = "sent", ![w].group = Group(w)] /\ net' = net \cup {Group(w)}
        BY <1>5 DEF Send, Group
    <2>2. run' = [run EXCEPT ![w] = r]
        BY <1>1, <2>1
    <2>3. \A m \in Run, g \in SUBSET Rows :
              LET q == [m EXCEPT !.pc = "sent", !.group = g]
              IN  q \in Run /\ q.pc = "sent" /\ q.group = g /\ q.batch = m.batch
        BY DEF Run
    <2>4. r \in Run /\ r.pc = "sent" /\ r.group = Group(w) /\ r.batch = run[w].batch
        BY <1>1, <1>3, <2>3
    <2> HIDE DEF r
    <2>5. run' \in [Runs -> Run] /\ run'[w] = r /\ \A v \in Runs \ {w} : run'[v] = run[v]
        BY <2>2, <2>4, Moving
    <2>6. Group(w) \in Keys
        BY <1>3, <1>5 DEF Keys
    <2> QED BY <1>2, <1>3, <1>5, <2>1, <2>4, <2>5, <2>6
<1> QED BY <1>4, <1>5

\* The rows of a request are of one batch, and its outcome reaches those that exist.
LEMMA RecordSteps ==
    ASSUME Typed, NEW w \in Runs, Record(w)
    PROVE  /\ run[w].group \in Keys /\ run[w].group \subseteq In(run[w].batch) /\ run[w].batch \in Batches
           /\ \A n \in run[w].group : Exists(n)
           /\ Leaves(w) /\ row' \in [Rows -> Row]
           /\ \A n \in refused[run[w].group] :
                row'[n].status = "FAILED" /\ row'[n].attempts = MaxAttempts /\ KeepsTale(n)
           /\ \A n \in run[w].group \ refused[run[w].group] :
                /\ row'[n].status = "SENT" /\ row'[n].mail = <<n, run[w].group>>
                /\ row'[n].event = row[n].event
           /\ \A n \in Rows \ run[w].group : row'[n] = row[n]
<1> DEFINE group == run[w].group
           bad == refused[group]
<1>1. row \in [Rows -> Row] /\ run \in [Runs -> Run] /\ run[w] \in Run
    BY DEF Typed, TypeOK
<1>2. run[w].pc = "sent" /\ bad # None /\ \A n \in group : Exists(n)
    BY DEF Record
<1>3. run[w].batch \in Batches /\ group \in SUBSET Rows /\ group # {} /\ group \subseteq In(run[w].batch)
    BY <1>1, <1>2 DEF Typed, GroupsMakeSense, Sensible, Run
<1>4. group \in Keys
    BY <1>3 DEF Keys
<1>5. bad \in SUBSET group
    BY <1>2, <1>4 DEF Typed, RefusedWereAsked
<1>6. Leaves(w)
    <2>1. run' = [run EXCEPT ![w] = Onward(w, run[w].todo)] /\ run[w].todo \in SUBSET Batches
        BY <1>1 DEF Record, Run
    <2> QED BY <2>1, Leaving
<1> DEFINE failures == RefusedAt(bad, group)
           ids == ResendIds(Cardinality(group), Ids(group \ bad, group), failures)
<1>8. \A n \in Rows : row'[n] = IF n \notin group THEN row[n]
                                ELSE IF Order(n, group) \in failures THEN Refused(n)
                                ELSE Sent(n, ids[Order(n, group)])
    BY DEF Record
<1>9. ASSUME NEW n \in group
      PROVE  /\ Order(n, group) \in failures <=> n \in bad
             /\ n \notin bad => ids[Order(n, group)] = <<n, group>>
    <2>1. PICK g \in SUBSET Rows : g = group
        BY <1>3
    <2>2. PICK b \in SUBSET g : b = bad
        BY <1>5, <2>1
    <2>3. /\ Order(n, g) \in RefusedAt(b, g) <=> n \in b
          /\ n \notin b =>
               ResendIds(Cardinality(g), Ids(g \ b, g), RefusedAt(b, g))[Order(n, g)] = <<n, g>>
        BY <2>1, AnswersAlign
    <2> QED BY <2>1, <2>2, <2>3
<1> HIDE DEF failures, ids, bad
<1>10. ASSUME NEW n \in bad
       PROVE  /\ row'[n] \in Row /\ row'[n].status = "FAILED" /\ row'[n].attempts = MaxAttempts /\ KeepsTale(n)
    <2>1. row'[n] = Refused(n) /\ row[n] \in Row
        BY <1>1, <1>3, <1>5, <1>8, <1>9
    <2> QED BY <2>1, RefusedRow DEF Refused, KeepsTale
<1>11. ASSUME NEW n \in group \ bad
       PROVE  /\ row'[n] \in Row /\ row'[n].status = "SENT" /\ row'[n].mail = <<n, group>>
              /\ row'[n].event = row[n].event
    <2>0. PICK mail \in Emails : mail = <<n, group>>
        BY <1>3, <1>4 DEF Emails
    <2>1. row'[n] = Sent(n, mail) /\ row[n] \in Row /\ n \in Rows
        BY <1>1, <1>3, <1>8, <1>9, <2>0
    <2>2. PICK d \in Dues, h \in 0..Stale : d = 0 /\ h = 0
        BY Zeros
    <2>3. row'[n] = [row[n] EXCEPT !.status = "SENT", !.mail = mail, !.due = d, !.held = h]
        BY <2>1, <2>2 DEF Sent
    <2> QED BY <2>0, <2>1, <2>3 DEF Row, Dues
<1>12. \A n \in Rows \ group : row'[n] = row[n]
    BY <1>8
<1>13. row' \in [Rows -> Row]
    <2>1. \A n \in Rows : row'[n] \in Row
        BY <1>1, <1>10, <1>11, <1>12
    <2>2. row' = [n \in Rows |-> row'[n]]
        BY DEF Record
    <2> QED BY <2>1, <2>2
<1> QED BY <1>2, <1>3, <1>4, <1>6, <1>10, <1>11, <1>12, <1>13 DEF bad

\* A batch that is put off fails as one: its rows are due again at one time.
LEMMA PutOffSteps ==
    ASSUME Typed, NEW w \in Runs, PutOff(w)
    PROVE  /\ run[w].group \subseteq In(run[w].batch) /\ run[w].batch \in Batches
           /\ Leaves(w) /\ row' \in [Rows -> Row]
           /\ \E due \in Dues : \A n \in run[w].group : Exists(n) => Fails(n, due)
           /\ \A n \in Rows : n \notin run[w].group \/ ~Exists(n) => row'[n] = row[n]
<1> DEFINE group == {n \in run[w].group : Exists(n)}
           tried == {1} \cup {row[n].attempts : n \in group}
           due == run[w].age - Backoff[Max(tried)]
<1>1. row \in [Rows -> Row] /\ run \in [Runs -> Run] /\ run[w] \in Run
    BY DEF Typed, TypeOK
<1>2. run[w].batch \in Batches /\ run[w].group \in SUBSET Rows /\ run[w].group \subseteq In(run[w].batch)
    BY <1>1 DEF PutOff, Typed, GroupsMakeSense, Sensible, Run
<1>3. due \in Dues
    <2>1. MaxAttempts \in Nat \ {0}
        BY CountsAssumption
    <2>2. tried \in SUBSET (0..MaxAttempts) /\ 1 \in tried
        <3>1. SUFFICES ASSUME NEW n \in group PROVE row[n].attempts \in 0..MaxAttempts
            BY <2>1
        <3>2. row[n] \in Row
            BY <1>1, <1>2
        <3> QED BY <3>2 DEF Row
    <2>3. Max(tried) \in tried /\ \A m \in tried : m <= Max(tried)
        <3> HIDE DEF tried
        <3> QED BY <2>1, <2>2, MaxOfBounded
    <2>4. Max(tried) \in 0..MaxAttempts /\ 1 <= Max(tried)
        BY <2>2, <2>3
    <2>5. Backoff[Max(tried)] \in 1..Longest /\ Longest \in Nat
        BY <2>1, <2>4, LongestDelay
    <2>6. run[w].age \in 0..MaxRun /\ MaxRun \in Nat
        BY <1>1, TimesAssumption DEF Run
    <2> QED BY <2>5, <2>6 DEF Dues
<1>4. \A n \in Rows : row'[n] = IF n \in group
                                THEN [row[n] EXCEPT !.status = "FAILED", !.due = due, !.held = 0]
                                ELSE row[n]
    BY DEF PutOff
<1> HIDE DEF due
<1>5. ASSUME NEW n \in group PROVE row'[n] \in Row /\ Fails(n, due)
    <2>1. PICK d \in Dues, held \in 0..Stale : d = due /\ held = 0
        BY <1>3, Zeros
    <2>2. row[n] \in Row /\ row'[n] = [row[n] EXCEPT !.status = "FAILED", !.due = d, !.held = held]
        BY <1>1, <1>2, <1>4, <2>1
    <2>3. row'[n] \in Row /\ Fails(n, d)
        BY <2>1, <2>2 DEF Fails, KeepsTale, Row, Dues
    <2> QED BY <2>1, <2>3
<1>6. row' \in [Rows -> Row]
    <2>1. \A n \in Rows : row'[n] \in Row
        BY <1>1, <1>4, <1>5
    <2>2. row' = [n \in Rows |-> row'[n]]
        BY DEF PutOff
    <2> QED BY <2>1, <2>2
<1>7. Leaves(w)
    <2>1. run' = [run EXCEPT ![w] = Onward(w, run[w].todo)] /\ run[w].todo \in SUBSET Batches
        BY <1>1 DEF PutOff, Run
    <2> QED BY <2>1, Leaving
<1>8. \E d \in Dues : \A n \in run[w].group : Exists(n) => Fails(n, d)
    BY <1>3, <1>5
<1>9. \A n \in Rows : n \notin run[w].group \/ ~Exists(n) => row'[n] = row[n]
    BY <1>4
<1> QED BY <1>2, <1>6, <1>7, <1>8, <1>9

LEMMA TickSteps ==
    ASSUME Typed, Tick
    PROVE  /\ row' \in [Rows -> Row] /\ run' \in [Runs -> Run]
           /\ \A n \in Rows :
                /\ row'[n].status = row[n].status /\ row'[n].attempts = row[n].attempts /\ KeepsTale(n)
                /\ row'[n].due = IF row[n].status \in Unsent /\ row[n].due < MaxRun
                                 THEN row[n].due + 1 ELSE row[n].due
                /\ row'[n].held = IF row[n].status = "SENDING" /\ row[n].held < Stale
                                  THEN row[n].held + 1 ELSE row[n].held
           /\ \A w \in Runs :
                \/ run[w].pc = "idle" /\ run'[w] = Idle
                \/ /\ run'[w].pc = run[w].pc /\ run'[w].todo = run[w].todo
                   /\ run'[w].batch = run[w].batch /\ run'[w].group = run[w].group
<1>1. row \in [Rows -> Row] /\ run \in [Runs -> Run]
    BY DEF Typed, TypeOK
<1>2. ASSUME NEW n \in Rows
      PROVE  /\ row'[n] \in Row
             /\ row'[n].status = row[n].status /\ row'[n].attempts = row[n].attempts /\ KeepsTale(n)
             /\ row'[n].due = IF row[n].status \in Unsent /\ row[n].due < MaxRun
                              THEN row[n].due + 1 ELSE row[n].due
             /\ row'[n].held = IF row[n].status = "SENDING" /\ row[n].held < Stale
                               THEN row[n].held + 1 ELSE row[n].held
    <2>1. row[n] \in Row
        BY <1>1
    <2>2. CASE row[n].status \in Unsent /\ row[n].due < MaxRun
        <3>1. row'[n] = [row[n] EXCEPT !.due = row[n].due + 1]
            BY <2>2 DEF Tick, Unsent
        <3>2. row[n].status # "SENDING"
            BY <2>2 DEF Unsent
        <3> QED BY <2>1, <2>2, <3>1, <3>2, LaterRow DEF KeepsTale
    <2>3. CASE row[n].status = "SENDING" /\ row[n].held < Stale
        <3>1. row'[n] = [row[n] EXCEPT !.held = row[n].held + 1]
            BY <2>3 DEF Tick, Unsent
        <3>2. row[n].status \notin Unsent
            BY <2>3 DEF Unsent
        <3> QED BY <2>1, <2>3, <3>1, <3>2, OlderRow DEF KeepsTale
    <2>4. CASE ~(row[n].status \in Unsent /\ row[n].due < MaxRun) /\ ~(row[n].status = "SENDING" /\ row[n].held < Stale)
        <3>1. row'[n] = row[n]
            BY <2>4 DEF Tick
        <3> QED BY <2>1, <2>4, <3>1 DEF KeepsTale
    <2> QED BY <2>2, <2>3, <2>4
<1>3. ASSUME NEW w \in Runs
      PROVE  /\ run'[w] \in Run
             /\ \/ run[w].pc = "idle" /\ run'[w] = Idle
                \/ /\ run'[w].pc = run[w].pc /\ run'[w].todo = run[w].todo
                   /\ run'[w].batch = run[w].batch /\ run'[w].group = run[w].group
    <2>1. CASE run[w].pc = "idle"
        BY <2>1, IdleType DEF Tick
    <2>2. CASE run[w].pc # "idle"
        <3>1. run[w] \in Run /\ run[w].age < MaxRun
            BY <1>1, <2>2 DEF Tick
        <3>2. run[w].age \in 0..MaxRun /\ MaxRun \in Nat
            BY <3>1, TimesAssumption DEF Run
        <3>3. PICK a \in 0..MaxRun : a = run[w].age + 1
            BY <3>1, <3>2
        <3>4. run'[w] = [run[w] EXCEPT !.age = a]
            BY <2>2, <3>3 DEF Tick
        <3> QED BY <3>1, <3>4 DEF Run
    <2> QED BY <2>1, <2>2
<1>4. row' = [n \in Rows |-> row'[n]] /\ run' = [w \in Runs |-> run'[w]]
    BY DEF Tick
<1>5. row' \in [Rows -> Row] /\ run' \in [Runs -> Run]
    BY <1>2, <1>3, <1>4
<1> QED BY <1>2, <1>3, <1>5

\* What an event changes of its row, which is found by then.
LEMMA EventSteps ==
    ASSUME Typed, NEW h \in Handlers, EventStored(h), Exists(hook[h].row)
    PROVE  LET n == hook[h].row
               at == hook[h].at
           IN  /\ hook[h] \in Call /\ n \in Rows /\ at \in EventTimes
               /\ row' \in [Rows -> Row]
               /\ \A m \in Rows \ {n} : row'[m] = row[m]
               /\ row'[n].status = row[n].status /\ row'[n].attempts = row[n].attempts
               /\ row'[n].due = row[n].due /\ row'[n].held = IF News(n, at) THEN 0 ELSE row[n].held
               /\ row'[n].mail = IF row[n].mail = None THEN hook[h].mail ELSE row[n].mail
               /\ row'[n].event = Earlier(at, row[n].event)
<1> DEFINE n == hook[h].row
           at == hook[h].at
           mail == IF row[n].mail = None THEN hook[h].mail ELSE row[n].mail
           event == Earlier(at, row[n].event)
           held == IF News(n, at) THEN 0 ELSE row[n].held
<1>1. row \in [Rows -> Row] /\ hook \in [Handlers -> Call \cup {None}] /\ hook[h] # None
    BY DEF Typed, TypeOK, EventStored
<1>2. hook[h] \in Call
    BY <1>1
<1>3. n \in Rows /\ at \in EventTimes /\ hook[h].mail \in Emails
    BY <1>2 DEF Call
<1>4. row[n] \in Row
    BY <1>1, <1>3
<1>5. row' = [row EXCEPT ![n].mail = mail, ![n].event = event, ![n].held = held]
    BY DEF EventStored
<1>6. mail \in Emails /\ event \in EventTimes /\ held \in 0..Stale
    <2>1. row[n].mail \in Emails \cup {None} /\ row[n].event \in EventTimes \cup {None} /\ row[n].held \in 0..Stale
        BY <1>4 DEF Row
    <2> QED BY <1>3, <2>1, Zeros DEF Earlier
<1> HIDE DEF mail, event, held
<1> DEFINE r == [row[n] EXCEPT !.mail = mail, !.event = event, !.held = held]
<1>7. row' = [row EXCEPT ![n] = r]
    BY <1>1, <1>3, <1>5
<1>8. r \in Row /\ r.status = row[n].status /\ r.attempts = row[n].attempts /\ r.due = row[n].due
      /\ r.held = held /\ r.mail = mail /\ r.event = event
    BY <1>4, <1>6 DEF Row
<1> HIDE DEF r
<1>9. row' \in [Rows -> Row] /\ row'[n] = r /\ \A m \in Rows \ {n} : row'[m] = row[m]
    BY <1>1, <1>3, <1>7, <1>8
<1> QED BY <1>2, <1>3, <1>8, <1>9 DEF mail, event, held

LEMMA InitTyped == Init => Typed
<1> SUFFICES ASSUME Init PROVE Typed
    OBVIOUS
<1>1. row \in [Rows -> Row]
    BY NewRow DEF Init
<1>2. run \in [Runs -> Run] /\ GroupsMakeSense
    BY IdleType DEF Init, GroupsMakeSense
<1>3. 0 \in Nat /\ 0 \in 0..MaxBreaks
    BY CountsAssumption
<1>4. mails \in [Rows -> Nat]
    BY <1>3 DEF Init
<1> QED BY <1>1, <1>2, <1>3, <1>4 DEF Init, Typed, TypeOK, RefusedWereAsked

LEMMA NextTyped == Typed /\ [Next]_vars => Typed'
<1> SUFFICES ASSUME Typed, [Next]_vars PROVE Typed'
    OBVIOUS
<1>0. TypeOK /\ GroupsMakeSense /\ RefusedWereAsked
    BY DEF Typed
<1>1. CASE PostBegin
    BY <1>0, <1>1 DEF PostBegin, Typed, TypeOK, RefusedWereAsked, GroupsMakeSense, providerVars, hookVars
<1>2. CASE PostCommit
    <2>1. row' \in [Rows -> Row]
        BY <1>2, NewRow DEF PostCommit
    <2> QED BY <1>0, <1>2, <2>1 DEF PostCommit, Typed, TypeOK, RefusedWereAsked, GroupsMakeSense, providerVars, hookVars
<1>3. CASE Purge
    <2>1. row' \in [Rows -> Row]
        BY <1>3, NewRow DEF Purge
    <2> QED BY <1>0, <1>3, <2>1 DEF Purge, Typed, TypeOK, RefusedWereAsked, GroupsMakeSense, providerVars, hookVars
<1>4. ASSUME NEW w \in Runs, NEW size \in RunSizes, StartRun(w, size) PROVE Typed'
    <2>1. row' \in [Rows -> Row] /\ run' \in [Runs -> Run] /\ GroupsMakeSense'
        BY <1>4, StartRunSteps, LeavingSensible
    <2> QED BY <1>0, <1>4, <2>1 DEF StartRun, Typed, TypeOK, RefusedWereAsked, providerVars, hookVars
<1>5. ASSUME NEW w \in Runs, Claim(w) PROVE Typed'
    <2>1. row' \in [Rows -> Row] /\ run' \in [Runs -> Run]
        BY <1>5, ClaimSteps
    <2>2. GroupsMakeSense'
        <3>1. CASE Leaves(w)
            BY <3>1, LeavingSensible
        <3>2. CASE ~Leaves(w)
            <4>1. /\ \A v \in Runs \ {w} : run'[v] = run[v]
                  /\ run'[w].pc = "read" /\ run'[w].batch \in Batches
                BY <1>5, <3>2, ClaimSteps
            <4> QED BY <1>0, <4>1 DEF GroupsMakeSense, Sensible
        <3> QED BY <3>1, <3>2
    <2> QED BY <1>0, <1>5, <2>1, <2>2 DEF Claim, Typed, TypeOK, RefusedWereAsked, providerVars, hookVars
<1>6. ASSUME NEW w \in Runs, Send(w) PROVE Typed'
    <2>1. run' \in [Runs -> Run]
        BY <1>6, SendSteps
    <2>2. GroupsMakeSense' /\ net' \subseteq Keys
        <3>1. net \subseteq Keys
            BY <1>0 DEF TypeOK
        <3>2. CASE Leaves(w) /\ net' = net
            BY <3>1, <3>2, LeavingSensible
        <3>3. CASE ~(Leaves(w) /\ net' = net)
            <4>1. /\ \A v \in Runs \ {w} : run'[v] = run[v]
                  /\ run'[w].pc = "sent" /\ run'[w].batch = run[w].batch /\ run'[w].group = Group(w)
                  /\ run[w].batch \in Batches /\ Group(w) # {} /\ Group(w) \in Keys
                  /\ net' = net \cup {Group(w)}
                BY <1>6, <3>3, SendSteps
            <4>2. Group(w) \subseteq In(run[w].batch)
                BY DEF Group
            <4> QED BY <1>0, <3>1, <4>1, <4>2 DEF GroupsMakeSense, Sensible
        <3> QED BY <3>2, <3>3
    <2> QED BY <1>0, <1>6, <2>1, <2>2 DEF Send, Typed, TypeOK, RefusedWereAsked, hookVars
<1>7. ASSUME NEW w \in Runs, Record(w) PROVE Typed'
    <2>1. row' \in [Rows -> Row] /\ Leaves(w)
        BY <1>7, RecordSteps
    <2>2. run' \in [Runs -> Run] /\ GroupsMakeSense'
        BY <2>1, LeavingSensible
    <2> QED BY <1>0, <1>7, <2>1, <2>2 DEF Record, Typed, TypeOK, RefusedWereAsked, providerVars, hookVars
<1>8. ASSUME NEW w \in Runs, PutOff(w) PROVE Typed'
    <2>1. row' \in [Rows -> Row] /\ run' \in [Runs -> Run] /\ GroupsMakeSense'
        BY <1>8, PutOffSteps, LeavingSensible
    <2> QED BY <1>0, <1>8, <2>1 DEF PutOff, Typed, TypeOK, RefusedWereAsked, providerVars, hookVars
<1>9. ASSUME NEW w \in Runs, Crash(w) PROVE Typed'
    <2>1. run' \in [Runs -> Run] /\ run'[w] = Idle /\ \A v \in Runs \ {w} : run'[v] = run[v]
        BY <1>9, IdleType, Moving DEF Crash
    <2>2. GroupsMakeSense'
        BY <1>0, <2>1, IdleType DEF GroupsMakeSense, Sensible
    <2>3. breaks' \in 0..MaxBreaks
        BY <1>0, <1>9, CountsAssumption DEF Crash, TypeOK
    <2> QED BY <1>0, <1>9, <2>1, <2>2, <2>3 DEF Crash, Typed, TypeOK, RefusedWereAsked, providerVars, hookVars
<1>10. ASSUME NEW key \in Keys, NEW bad \in SUBSET key, Arrives(key, bad) PROVE Typed'
    <2>1. net' \subseteq Keys
        BY <1>0, <1>10 DEF Arrives, TypeOK
    <2>2. refused' \in [Keys -> (SUBSET Rows) \cup {None}] /\ mails' \in [Rows -> Nat]
        <3>1. bad \in SUBSET Rows
            BY DEF Keys
        <3>2. CASE refused[key] = None
            <4>1. refused' = [refused EXCEPT ![key] = bad]
                BY <1>10, <3>2 DEF Arrives
            <4>2. mails' = [n \in Rows |-> IF n \in key \ bad THEN mails[n] + 1 ELSE mails[n]]
                BY <1>10, <3>2 DEF Arrives
            <4>3. \A n \in Rows : mails[n] \in Nat /\ mails[n] + 1 \in Nat
                BY <1>0 DEF TypeOK
            <4>4. mails' \in [Rows -> Nat]
                BY <4>2, <4>3
            <4> QED BY <1>0, <3>1, <4>1, <4>4 DEF TypeOK
        <3>3. CASE refused[key] # None
            BY <1>0, <1>10, <3>3 DEF Arrives, TypeOK
        <3> QED BY <3>2, <3>3
    <2>3. RefusedWereAsked'
        BY <1>0, <1>10 DEF Arrives, TypeOK, RefusedWereAsked
    <2> QED BY <1>0, <1>10, <2>1, <2>2, <2>3 DEF Arrives, Typed, TypeOK, GroupsMakeSense, hookVars
<1>11. ASSUME NEW h \in Handlers, NEW mail \in Emails, NEW at \in EventTimes, EventFound(h, mail, at) PROVE Typed'
    <2>1. PICK n \in Rows : hook' = [hook EXCEPT ![h] = [row |-> n, mail |-> mail, at |-> at]]
        BY <1>11 DEF EventFound
    <2>2. [row |-> n, mail |-> mail, at |-> at] \in Call
        BY DEF Call
    <2>3. hook' \in [Handlers -> Call \cup {None}]
        BY <1>0, <2>1, <2>2 DEF TypeOK
    <2> QED BY <1>0, <1>11, <2>3 DEF EventFound, Typed, TypeOK, RefusedWereAsked, GroupsMakeSense, providerVars
<1>12. ASSUME NEW h \in Handlers, NEW mail \in Emails, NEW at \in EventTimes, EventIgnored(h, mail, at) PROVE Typed'
    <2>1. reported' \in [Emails -> SUBSET EventTimes]
        BY <1>0, <1>12 DEF EventIgnored, TypeOK
    <2> QED BY <1>0, <1>12, <2>1 DEF EventIgnored, Typed, TypeOK, RefusedWereAsked, GroupsMakeSense, providerVars
<1>13. ASSUME NEW h \in Handlers, EventStored(h) PROVE Typed'
    <2>1. hook' \in [Handlers -> Call \cup {None}]
        BY <1>0, <1>13 DEF EventStored, TypeOK
    <2>2. row' \in [Rows -> Row] /\ reported' \in [Emails -> SUBSET EventTimes] /\ refreshed' \subseteq Batches
        <3>1. CASE Exists(hook[h].row)
            <4>1. row' \in [Rows -> Row] /\ hook[h] \in Call
                BY <1>13, <3>1, EventSteps
            <4>2. hook[h].at \in EventTimes
                BY <4>1 DEF Call
            <4>3. reported' = [reported EXCEPT ![hook[h].mail] = @ \cup {hook[h].at}]
                BY <1>13, <3>1 DEF EventStored
            <4>4. reported' \in [Emails -> SUBSET EventTimes]
                BY <1>0, <4>2, <4>3 DEF TypeOK
            <4>5. refreshed' \subseteq Batches
                BY <1>0, <1>13, <3>1 DEF EventStored, TypeOK
            <4> QED BY <4>1, <4>4, <4>5
        <3>2. CASE ~Exists(hook[h].row)
            BY <1>0, <1>13, <3>2 DEF EventStored, TypeOK
        <3> QED BY <3>1, <3>2
    <2> QED BY <1>0, <1>13, <2>1, <2>2 DEF EventStored, Typed, TypeOK, RefusedWereAsked, GroupsMakeSense, providerVars
<1>14. CASE Tick
    <2>1. row' \in [Rows -> Row] /\ run' \in [Runs -> Run]
        BY <1>14, TickSteps
    <2>2. GroupsMakeSense'
        <3>1. SUFFICES ASSUME NEW w \in Runs PROVE Sensible(run'[w])
            BY DEF GroupsMakeSense
        <3>2. Sensible(run[w])
            BY <1>0 DEF GroupsMakeSense
        <3> QED BY <1>14, <3>2, TickSteps, IdleType DEF Sensible
    <2> QED BY <1>0, <1>14, <2>1, <2>2 DEF Tick, Typed, TypeOK, RefusedWereAsked, providerVars, hookVars
<1>15. CASE UNCHANGED vars
    BY <1>0, <1>15 DEF vars, providerVars, hookVars, Typed, TypeOK, RefusedWereAsked, GroupsMakeSense
<1> QED BY <1>1, <1>2, <1>3, <1>4, <1>5, <1>6, <1>7, <1>8, <1>9, <1>10, <1>11, <1>12, <1>13, <1>14, <1>15
        DEF Next, RunStep

\* The variables keep their types, and a run knows its batch.
THEOREM TypeCorrect == Spec => []Typed
BY InitTyped, NextTyped, PTL DEF Spec

-----------------------------------------------------------------------------
(* Rows and e-mails.                                                        *)

\* Before the message is created there is nothing of it.
Beginning ==
    post # "done" =>
        /\ \A n \in Rows : ~Exists(n) /\ mails[n] = 0 /\ Reported(n) = {}
        /\ \A w \in Runs : run[w].pc \in {"idle", "claim"}
        /\ net = {} /\ \A key \in Keys : refused[key] = None
        /\ \A h \in Handlers : hook[h] = None

\* What one row tells, of whichever e-mail to its recipient.
Tale(n) ==
    /\ row[n].status = "SENT" => row[n].mail # None
    /\ row[n].mail # None => row[n].mail \in Mailed /\ row[n].mail[1] = n
    /\ row[n].event # None => row[n].event \in Reported(n)
Tales == \A n \in Rows : Tale(n)

\* Whoever was not refused was mailed.
Answers == \A mail \in Mailed : mails[mail[1]] > 0

\* A recipient that no run has claimed was neither mailed nor asked for.
PendingUnasked ==
    \A n \in Rows : row[n].status = "PENDING" => mails[n] = 0 /\ \A key \in net : n \notin key

\* An event is stored with the row of its own e-mail.
HooksMakeSense ==
    \A h \in Handlers : hook[h] # None => hook[h].row = hook[h].mail[1] /\ hook[h].mail \in Mailed

Telling == Typed /\ Beginning /\ Tales /\ Answers /\ PendingUnasked /\ HooksMakeSense

\* A row that is moved on, but neither sent nor created.
Moves(n) ==
    \/ row'[n].status = "NONE" /\ row'[n].mail = None /\ row'[n].event = None
    \/ /\ KeepsTale(n)
       /\ Exists(n)' => Exists(n)
       /\ row'[n].status = "SENT" => row[n].status = "SENT"
       /\ row'[n].status = "PENDING" => row[n].status = "PENDING"

LEMMA SameEmails ==
    ASSUME UNCHANGED refused
    PROVE  Mailed' = Mailed
BY DEF Mailed

LEMMA SameReports ==
    ASSUME UNCHANGED reported, NEW n
    PROVE  Reported(n)' = Reported(n)
BY DEF Reported, MailsTo

LEMMA MovesKeepTelling ==
    ASSUME Telling, Typed', \A n \in Rows : Moves(n), UNCHANGED <<post, net, refused, mails, hook, reported>>,
           post # "done" => \A w \in Runs : run'[w].pc \in {"idle", "claim"}
    PROVE  Telling'
<1>0. Mailed' = Mailed /\ \A n \in Rows : Reported(n)' = Reported(n)
    BY SameEmails, SameReports
<1>1. Tales'
    <2>1. SUFFICES ASSUME NEW n \in Rows PROVE Tale(n)'
        BY DEF Tales
    <2>2. Tale(n) /\ Moves(n)
        BY DEF Telling, Tales
    <2> QED BY <1>0, <2>2 DEF Tale, Moves, KeepsTale
<1>2. Beginning' /\ PendingUnasked'
    BY <1>0 DEF Telling, Beginning, PendingUnasked, Moves, Exists
<1>3. Answers' /\ HooksMakeSense'
    BY <1>0 DEF Telling, Answers, HooksMakeSense
<1> QED BY <1>1, <1>2, <1>3 DEF Telling

LEMMA InitTelling == Init => Telling
<1> SUFFICES ASSUME Init PROVE Telling
    OBVIOUS
<1>1. Typed
    BY InitTyped
<1>2. /\ \A n \in Rows : row[n].status = "NONE" /\ row[n].mail = None /\ row[n].event = None
      /\ Mailed = {} /\ \A n \in Rows : Reported(n) = {}
    <2>1. Mailed = {}
        BY DEF Init, Mailed, Emails
    <2>2. \A n \in Rows : Reported(n) = {}
        BY DEF Init, Reported, MailsTo
    <2> QED BY <2>1, <2>2, NewRow DEF Init
<1>3. \A w \in Runs : run[w].pc = "idle"
    BY IdleType DEF Init
<1>4. Tales /\ PendingUnasked
    BY <1>2 DEF Tales, Tale, PendingUnasked
<1>5. Beginning /\ Answers /\ HooksMakeSense
    BY <1>2, <1>3 DEF Init, Beginning, Answers, HooksMakeSense, Exists
<1> QED BY <1>1, <1>4, <1>5 DEF Telling

\* The least of some times and one more.
LEMMA MinWith ==
    ASSUME NEW times \in SUBSET Nat, NEW at \in Nat
    PROVE  Min(times \cup {at}) = IF times = {} THEN at ELSE IF Min(times) > at THEN at ELSE Min(times)
<1> DEFINE all == times \cup {at}
<1>1. all \in SUBSET Nat /\ all # {}
    OBVIOUS
<1>2. Min(all) \in all /\ \A m \in all : Min(all) <= m
    <2> HIDE DEF all
    <2> QED BY <1>1, MinOfNaturals
<1>3. times # {} => Min(times) \in times /\ \A m \in times : Min(times) <= m
    BY MinOfNaturals
<1>4. Min(all) \in Nat /\ (times # {} => Min(times) \in Nat)
    BY <1>1, <1>2, <1>3
<1> HIDE DEF all
<1>5. at \in all /\ times \subseteq all /\ \A m \in all : m = at \/ m \in times
    BY DEF all
<1>6. CASE times = {}
    BY <1>2, <1>5, <1>6 DEF all
<1>7. CASE times # {}
    <2>1. Min(all) <= at /\ Min(all) <= Min(times)
        BY <1>2, <1>3, <1>5, <1>7
    <2>2. Min(all) = at \/ Min(times) <= Min(all)
        BY <1>2, <1>3, <1>5, <1>7
    <2>3. Min(all) = IF Min(times) > at THEN at ELSE Min(times)
        BY <1>4, <1>7, <2>1, <2>2
    <2> QED BY <1>7, <2>3 DEF all
<1> QED BY <1>6, <1>7

LEMMA NextTelling == Telling /\ [Next]_vars => Telling'
<1> SUFFICES ASSUME Telling, [Next]_vars PROVE Telling'
    OBVIOUS
<1>0. Typed /\ Typed' /\ TypeOK /\ TypeOK'
    BY NextTyped DEF Telling, Typed
<1>t. \A n \in Rows : Tale(n)
    BY DEF Telling, Tales
<1>s. ASSUME UNCHANGED refused PROVE Mailed' = Mailed
    BY <1>s, SameEmails
<1>r. ASSUME UNCHANGED reported, NEW n \in Rows PROVE Reported(n)' = Reported(n)
    BY <1>r, SameReports
<1>1. CASE PostBegin
    <2>1. \A n \in Rows : Moves(n)
        BY <1>1 DEF PostBegin, Moves, KeepsTale, Exists
    <2>2. post # "done" /\ \A w \in Runs : run'[w].pc \in {"idle", "claim"}
        BY <1>1 DEF PostBegin, Telling, Beginning
    <2>3. UNCHANGED <<net, refused, mails, hook, reported>>
        BY <1>1 DEF PostBegin, providerVars, hookVars
    <2>4. post' # "done" => post # "done"
        BY <1>1 DEF PostBegin
    <2>5. Mailed' = Mailed /\ \A n \in Rows : Reported(n)' = Reported(n)
        BY <1>r, <1>s, <2>3
    <2>6. Beginning'
        BY <1>1, <2>2, <2>3, <2>5 DEF PostBegin, Telling, Beginning, Exists
    <2>7. Tales' /\ Answers' /\ PendingUnasked' /\ HooksMakeSense'
        BY <1>1, <2>3, <2>5 DEF PostBegin, Telling, Tales, Tale, Answers, PendingUnasked, HooksMakeSense
    <2> QED BY <1>0, <2>6, <2>7 DEF Telling
<1>2. CASE PostCommit
    <2>1. post' = "done" /\ UNCHANGED <<run, net, refused, mails, hook, reported>> /\ post # "done"
        BY <1>2 DEF PostCommit, providerVars, hookVars
    <2>2. \A n \in Rows : /\ row'[n].status = "PENDING" /\ row'[n].mail = None /\ row'[n].event = None
                          /\ mails[n] = 0
        BY <1>2, <2>1, NewRow DEF PostCommit, Telling, Beginning
    <2>3. Mailed' = Mailed
        BY <1>s, <2>1
    <2>4. Tales'
        BY <2>2 DEF Tales, Tale
    <2>5. PendingUnasked' /\ Beginning' /\ Answers' /\ HooksMakeSense'
        BY <2>1, <2>2, <2>3 DEF Telling, PendingUnasked, Beginning, Answers, HooksMakeSense
    <2> QED BY <1>0, <2>4, <2>5 DEF Telling
<1>3. CASE Purge
    <2>1. \A n \in Rows : Moves(n)
        BY <1>3, NewRow DEF Purge, Moves
    <2> QED BY <1>0, <1>3, <2>1, MovesKeepTelling DEF Purge, providerVars, hookVars, Telling, Beginning
<1> DEFINE Began(w) == post # "done" => \A v \in Runs : run'[v].pc \in {"idle", "claim"}
<1>4. ASSUME NEW w \in Runs, NEW size \in RunSizes, StartRun(w, size) PROVE Telling'
    <2>1. \A n \in Rows : Moves(n)
        BY <1>0, <1>4, StartRunSteps DEF Moves, Fails, KeepsTale, Exists, StaleClaims
    <2>2. Leaves(w)
        BY <1>0, <1>4, StartRunSteps
    <2>3. Began(w)
        BY <2>2 DEF Leaves, Telling, Beginning
    <2> QED BY <1>0, <1>4, <2>1, <2>3, MovesKeepTelling DEF StartRun, providerVars, hookVars
<1>5. ASSUME NEW w \in Runs, Claim(w) PROVE Telling'
    <2>1. \A n \in Rows : Moves(n)
        BY <1>0, <1>5, ClaimSteps DEF Moves, KeepsTale, Exists, Unsent
    <2>2. Began(w)
        <3>1. ASSUME post # "done" PROVE Claimed(w) = {}
            <4>1. \A n \in Rows : ~Exists(n)
                BY <3>1 DEF Telling, Beginning
            <4>2. \A n \in Claimed(w) : Exists(n) /\ n \in Rows
                BY <1>0, <1>5, ClaimSteps DEF Exists, Unsent
            <4> QED BY <4>1, <4>2
        <3>2. post # "done" => Leaves(w)
            BY <1>0, <1>5, <3>1, ClaimSteps
        <3> QED BY <3>2 DEF Leaves, Telling, Beginning
    <2> QED BY <1>0, <1>5, <2>1, <2>2, MovesKeepTelling DEF Claim, providerVars, hookVars
<1>6. ASSUME NEW w \in Runs, Send(w) PROVE Telling'
    <2>1. UNCHANGED <<post, row, refused, mails, hook, reported>> /\ run[w].pc = "read"
        BY <1>6 DEF Send, hookVars
    <2>2. post = "done"
        BY <2>1 DEF Telling, Beginning
    <2>3. net' = net \/ net' = net \cup {Group(w)}
        BY <1>0, <1>6, SendSteps
    <2>4. PendingUnasked'
        <3>1. \A n \in Group(w) : row[n].status # "PENDING"
            BY DEF Group
        <3> QED BY <2>1, <2>3, <3>1 DEF Telling, PendingUnasked
    <2>5. Mailed' = Mailed /\ \A n \in Rows : Reported(n)' = Reported(n)
        BY <1>r, <1>s, <2>1
    <2>6. Tales' /\ Beginning' /\ Answers' /\ HooksMakeSense'
        BY <2>1, <2>2, <2>5 DEF Telling, Tales, Tale, Beginning, Answers, HooksMakeSense
    <2> QED BY <1>0, <2>4, <2>6 DEF Telling
<1>7. ASSUME NEW w \in Runs, Record(w) PROVE Telling'
    <2> DEFINE group == run[w].group
    <2>1. UNCHANGED <<post, net, refused, mails, hook, reported>> /\ run[w].pc = "sent" /\ refused[group] # None
        BY <1>7 DEF Record, providerVars, hookVars
    <2>2. post = "done"
        BY <2>1 DEF Telling, Beginning
    <2>3. group \in Keys /\ \A n \in group : Exists(n) /\ n \in Rows
        BY <1>0, <1>7, RecordSteps DEF Keys
    <2>4. \A n \in group \ refused[group] : <<n, group>> \in Mailed
        BY <2>1, <2>3 DEF Mailed, Emails
    <2>r. Mailed' = Mailed /\ \A n \in Rows : Reported(n)' = Reported(n)
        BY <1>r, <1>s, <2>1
    <2>5. ASSUME NEW n \in Rows PROVE Tale(n)' /\ (row'[n].status = "PENDING" => row[n].status = "PENDING")
        <3>1. CASE n \in refused[group]
            <4>1. row'[n].status = "FAILED" /\ KeepsTale(n)
                BY <1>0, <1>7, <3>1, RecordSteps
            <4>2. n \in group
                BY <1>0, <2>1, <2>3, <3>1 DEF Typed, RefusedWereAsked
            <4> QED BY <1>t, <2>r, <2>3, <4>1, <4>2 DEF Tale, KeepsTale
        <3>2. CASE n \in group \ refused[group]
            <4>1. /\ row'[n].status = "SENT" /\ row'[n].mail = <<n, group>>
                  /\ row'[n].event = row[n].event
                BY <1>0, <1>7, <3>2, RecordSteps
            <4>2. <<n, group>> \in Mailed /\ <<n, group>>[1] = n
                BY <2>4, <3>2
            <4>3. <<n, group>> # None
                BY <4>2, NoneAssumption DEF Mailed
            <4> QED BY <1>t, <2>r, <4>1, <4>2, <4>3 DEF Tale
        <3>3. CASE n \notin group /\ n \notin refused[group]
            <4>1. row'[n] = row[n]
                BY <1>0, <1>7, <3>3, RecordSteps
            <4> QED BY <1>t, <2>r, <4>1 DEF Tale
        <3> QED BY <3>1, <3>2, <3>3
    <2>6. Tales'
        BY <2>5 DEF Tales
    <2>7. PendingUnasked' /\ Beginning' /\ Answers' /\ HooksMakeSense'
        BY <2>1, <2>2, <2>5, <2>r DEF Telling, PendingUnasked, Beginning, Answers, HooksMakeSense
    <2> QED BY <1>0, <2>6, <2>7 DEF Telling
<1>8. ASSUME NEW w \in Runs, PutOff(w) PROVE Telling'
    <2>1. \A n \in Rows : Moves(n)
        BY <1>0, <1>8, PutOffSteps DEF Moves, Fails, KeepsTale, Exists
    <2>2. Leaves(w)
        BY <1>0, <1>8, PutOffSteps
    <2>3. Began(w)
        BY <2>2 DEF Leaves, Telling, Beginning
    <2> QED BY <1>0, <1>8, <2>1, <2>3, MovesKeepTelling DEF PutOff, providerVars, hookVars
<1>9. ASSUME NEW w \in Runs, Crash(w) PROVE Telling'
    <2>1. run'[w] = Idle /\ \A v \in Runs \ {w} : run'[v] = run[v]
        BY <1>0, <1>9, IdleType, Moving DEF Crash
    <2>2. Began(w)
        BY <2>1, IdleType DEF Telling, Beginning
    <2>3. \A n \in Rows : Moves(n)
        BY <1>9 DEF Crash, Moves, KeepsTale, Exists
    <2> QED BY <1>0, <1>9, <2>2, <2>3, MovesKeepTelling DEF Crash, providerVars, hookVars
<1>10. ASSUME NEW key \in Keys, NEW bad \in SUBSET key, Arrives(key, bad) PROVE Telling'
    <2>1. UNCHANGED <<post, row, run, hook, reported>> /\ key \in net /\ net' = net \ {key}
        BY <1>10 DEF Arrives, hookVars
    <2>2. post = "done"
        BY <2>1 DEF Telling, Beginning
    <2>r. \A n \in Rows : Reported(n)' = Reported(n)
        BY <1>r, <2>1
    <2>3. CASE refused[key] # None
        <3>1. UNCHANGED <<refused, mails>>
            BY <1>10, <2>3 DEF Arrives
        <3>2. Mailed' = Mailed
            BY <1>s, <3>1
        <3>3. Tales' /\ Beginning' /\ Answers' /\ PendingUnasked' /\ HooksMakeSense'
            BY <2>1, <2>2, <2>r, <3>1, <3>2 DEF Telling, Tales, Tale, Beginning, Answers, PendingUnasked,
                                    HooksMakeSense
        <3> QED BY <1>0, <3>3 DEF Telling
    <2>4. CASE refused[key] = None
        <3>1. refused' = [refused EXCEPT ![key] = bad]
              /\ mails' = [n \in Rows |-> IF n \in key \ bad THEN mails[n] + 1 ELSE mails[n]]
            BY <1>10, <2>4 DEF Arrives
        <3>2. \A n \in Rows : /\ mails'[n] \in Nat /\ mails[n] \in Nat
                              /\ mails[n] > 0 => mails'[n] > 0
                              /\ n \in key \ bad => mails'[n] > 0
                              /\ n \notin key => mails'[n] = mails[n]
            BY <1>0, <3>1 DEF TypeOK
        <3>e. \A mail \in Emails : mail[1] \in Rows /\ mail[2] \in Keys /\ mail[1] \in mail[2]
            BY DEF Emails
        <3>m. \A mail \in Emails : mail \in Mailed' <=>
                 IF mail[2] = key THEN mail[1] \notin bad ELSE mail \in Mailed
            <4>1. \A k \in Keys : refused'[k] = IF k = key THEN bad ELSE refused[k]
                BY <1>0, <3>1 DEF TypeOK
            <4>2. bad # None
                BY NoneAssumption DEF Keys
            <4> QED BY <3>e, <4>1, <4>2 DEF Mailed
        <3>k. Mailed \subseteq Mailed'
            <4>1. \A mail \in Mailed : mail \in Emails /\ mail[2] # key
                BY <2>4 DEF Mailed
            <4> QED BY <3>m, <4>1
        <3>3. Tales'
            BY <2>1, <2>r, <3>k DEF Telling, Tales, Tale
        <3>4. PendingUnasked'
            BY <2>1, <3>2 DEF Telling, PendingUnasked
        <3>5. Answers'
            <4>1. SUFFICES ASSUME NEW mail \in Mailed' PROVE mails'[mail[1]] > 0
                BY DEF Answers
            <4>2. mail \in Emails
                BY DEF Mailed
            <4>3. CASE mail[2] = key
                BY <3>e, <3>m, <3>2, <4>2, <4>3
            <4>4. CASE mail[2] # key
                <5>1. mail \in Mailed
                    BY <3>m, <4>2, <4>4
                <5> QED BY <3>e, <3>2, <4>2, <5>1 DEF Telling, Answers
            <4> QED BY <4>3, <4>4
        <3>6. HooksMakeSense'
            BY <2>1, <3>k DEF Telling, HooksMakeSense
        <3>7. Beginning'
            BY <2>1, <2>2 DEF Beginning
        <3> QED BY <1>0, <3>3, <3>4, <3>5, <3>6, <3>7 DEF Telling
    <2> QED BY <2>3, <2>4
<1>e. \A mail \in Emails : mail[1] \in Rows /\ mail \in MailsTo(mail[1])
    BY DEF Emails, MailsTo
<1>11. ASSUME NEW h \in Handlers, NEW mail \in Emails, NEW at \in EventTimes, EventFound(h, mail, at) PROVE Telling'
    <2>1. UNCHANGED <<post, row, run, net, refused, mails, reported>> /\ mail \in Mailed
        BY <1>11 DEF EventFound, providerVars
    <2>2. PICK n \in Rows : Matches(n, mail) /\ hook' = [hook EXCEPT ![h] = [row |-> n, mail |-> mail, at |-> at]]
        BY <1>11 DEF EventFound
    <2>3. n = mail[1]
        BY <2>2 DEF Matches
    <2>4. Mailed' = Mailed /\ \A m \in Rows : Reported(m)' = Reported(m)
        BY <1>r, <1>s, <2>1
    <2>5. HooksMakeSense'
        BY <1>0, <2>1, <2>2, <2>3, <2>4 DEF Telling, HooksMakeSense, TypeOK
    <2>6. post = "done"
        <3>1. mail[2] \in Keys /\ refused[mail[2]] # None
            BY <2>1 DEF Mailed, Emails
        <3> QED BY <3>1 DEF Telling, Beginning
    <2>7. Tales' /\ Beginning' /\ Answers' /\ PendingUnasked'
        BY <2>1, <2>4, <2>6 DEF Telling, Tales, Tale, Beginning, Answers, PendingUnasked
    <2> QED BY <1>0, <2>5, <2>7 DEF Telling
<1>12. ASSUME NEW h \in Handlers, NEW mail \in Emails, NEW at \in EventTimes, EventIgnored(h, mail, at) PROVE Telling'
    <2>1. /\ UNCHANGED <<post, row, run, net, refused, mails, hook>> /\ mail \in Mailed
          /\ reported' = [reported EXCEPT ![mail] = @ \cup {at}]
        BY <1>12 DEF EventIgnored, providerVars
    <2>2. Mailed' = Mailed /\ \A n \in Rows : Reported(n) \subseteq Reported(n)'
        <3>1. \A m \in Emails : reported[m] \subseteq reported'[m]
            BY <1>0, <2>1 DEF TypeOK
        <3>2. \A n \in Rows : Reported(n) \subseteq Reported(n)'
            BY <3>1 DEF Reported, MailsTo
        <3> QED BY <1>s, <2>1, <3>2
    <2>3. Tales'
        BY <2>1, <2>2 DEF Telling, Tales, Tale
    <2>4. post = "done"
        <3>1. mail[2] \in Keys /\ refused[mail[2]] # None
            BY <2>1 DEF Mailed, Emails
        <3> QED BY <3>1 DEF Telling, Beginning
    <2>5. Beginning' /\ Answers' /\ PendingUnasked' /\ HooksMakeSense'
        BY <2>1, <2>2, <2>4 DEF Telling, Beginning, Answers, PendingUnasked, HooksMakeSense
    <2> QED BY <1>0, <2>3, <2>5 DEF Telling
<1>13. ASSUME NEW h \in Handlers, EventStored(h) PROVE Telling'
    <2>0. hook[h] \in Call
        BY <1>0, <1>13 DEF EventStored, TypeOK
    <2>n. PICK n \in Rows, at \in EventTimes, mail \in Emails :
             n = hook[h].row /\ at = hook[h].at /\ mail = hook[h].mail
        BY <2>0 DEF Call
    <2>1. UNCHANGED <<post, run, net, refused, mails>> /\ hook[h] # None /\ hook' = [hook EXCEPT ![h] = None]
        BY <1>13 DEF EventStored, providerVars
    <2>2. post = "done" /\ n = mail[1] /\ mail \in Mailed
        BY <2>n, <2>1 DEF Telling, Beginning, HooksMakeSense
    <2>s. Mailed' = Mailed
        BY <1>s, <2>1
    <2>3. HooksMakeSense'
        BY <1>0, <2>1, <2>s DEF Telling, HooksMakeSense, TypeOK
    <2>4. Beginning' /\ Answers'
        BY <2>1, <2>2, <2>s DEF Telling, Beginning, Answers
    <2>5. CASE ~Exists(n)
        <3>1. UNCHANGED <<row, reported>>
            BY <1>13, <2>n, <2>5 DEF EventStored
        <3>2. Tales' /\ PendingUnasked'
            BY <1>r, <2>1, <2>s, <3>1 DEF Telling, Tales, Tale, PendingUnasked
        <3> QED BY <1>0, <2>3, <2>4, <3>2 DEF Telling
    <2>6. CASE Exists(n)
        <3>1. /\ \A m \in Rows \ {n} : row'[m] = row[m]
              /\ row'[n].status = row[n].status
              /\ row'[n].mail = IF row[n].mail = None THEN mail ELSE row[n].mail
              /\ row'[n].event = Earlier(at, row[n].event)
            BY <1>0, <1>13, <2>n, <2>6, EventSteps
        <3>2. reported' = [reported EXCEPT ![mail] = @ \cup {at}]
            BY <1>13, <2>n, <2>6 DEF EventStored
        <3>3. at \in Reported(n)' /\ \A m \in Rows : Reported(m) \subseteq Reported(m)'
            <4>1. \A m \in Emails : reported[m] \subseteq reported'[m]
                BY <1>0, <3>2 DEF TypeOK
            <4>2. at \in reported'[mail] /\ mail \in MailsTo(n)
                BY <1>0, <1>e, <2>2, <3>2 DEF TypeOK
            <4>3. \A m \in Rows : Reported(m) \subseteq Reported(m)'
                BY <4>1 DEF Reported, MailsTo
            <4>4. at \in Reported(n)'
                BY <4>2 DEF Reported, MailsTo
            <4> QED BY <4>3, <4>4
        <3>4. ASSUME NEW m \in Rows PROVE Tale(m)' /\ (row'[m].status = "PENDING" => row[m].status = "PENDING")
            <4>1. CASE m = n
                <5>1. row'[n].event \in {at, row[n].event} /\ at # None
                    BY <3>1, NoneAssumption DEF Earlier
                <5>2. mail # None
                    BY NoneAssumption
                <5> QED BY <1>t, <2>2, <2>s, <3>1, <3>3, <4>1, <5>1, <5>2 DEF Tale
            <4>2. CASE m # n
                BY <1>t, <2>s, <3>1, <3>3, <4>2 DEF Tale
            <4> QED BY <4>1, <4>2
        <3>5. Tales'
            BY <3>4 DEF Tales
        <3>6. PendingUnasked'
            BY <2>1, <3>4 DEF Telling, PendingUnasked
        <3> QED BY <1>0, <2>3, <2>4, <3>5, <3>6 DEF Telling
    <2> QED BY <2>5, <2>6
<1>14. CASE Tick
    <2>1. \A n \in Rows : Moves(n)
        BY <1>0, <1>14, TickSteps DEF Moves, KeepsTale, Exists
    <2>2. \A w \in Runs : run'[w].pc = run[w].pc
        BY <1>0, <1>14, TickSteps, IdleType
    <2> QED BY <1>0, <1>14, <2>1, <2>2, MovesKeepTelling DEF Tick, providerVars, hookVars, Telling, Beginning
<1>15. CASE UNCHANGED vars
    <2>1. UNCHANGED <<post, row, run, net, refused, mails, hook, reported>>
        BY <1>15 DEF vars, providerVars, hookVars
    <2>2. Mailed' = Mailed /\ \A n \in Rows : Reported(n)' = Reported(n)
        BY <1>r, <1>s, <2>1
    <2>3. Tales' /\ Beginning'
        BY <2>1, <2>2 DEF Telling, Tales, Tale, Beginning, Exists
    <2>4. Answers' /\ PendingUnasked' /\ HooksMakeSense'
        BY <2>1, <2>2 DEF Telling, Answers, PendingUnasked, HooksMakeSense
    <2> QED BY <1>0, <2>3, <2>4 DEF Telling
<1> QED BY <1>1, <1>2, <1>3, <1>4, <1>5, <1>6, <1>7, <1>8, <1>9, <1>10, <1>11, <1>12, <1>13, <1>14, <1>15
        DEF Next, RunStep

LEMMA TellingHolds == Spec => []Telling
BY InitTelling, NextTelling, PTL DEF Spec

-----------------------------------------------------------------------------
(* Whole batches.                                                           *)

\* The rows of a batch go through the same states at the same times, until their
\* answer parts those that were sent from those that were refused.
Together(k) ==
    \A m, n \in In(k) : /\ row[m].status = row[n].status /\ row[m].attempts = row[n].attempts
                        /\ row[m].due = row[n].due /\ row[m].held = row[n].held
Over(k) ==
    \A n \in In(k) : row[n].status = "SENT" \/ (row[n].status = "FAILED" /\ row[n].attempts = MaxAttempts)
Lockstep(k) == Together(k) \/ Over(k)

\* At most one run works on it, with all of its rows, whose claim nobody can take over.
BusyWith(w, k) == run[w].pc \in {"read", "sent"} /\ run[w].batch = k
Gone(k) == \A n \in In(k) : ~Exists(n)
Held(k) == \A n \in In(k) : row[n].status = "SENDING" /\ row[n].held < Stale
OneHolder(k) ==
    \A w \in Runs : BusyWith(w, k) =>
        /\ \A v \in Runs : BusyWith(v, k) => v = w
        /\ Gone(k) \/ Held(k)
        /\ run[w].pc = "sent" => run[w].group = In(k)

\* Whatever the provider is asked about it is asked under one key,
KeyIsWhole(k) ==
    \A key \in Keys : (key \in net \/ refused[key] # None) /\ key \cap In(k) # {} => key = In(k)

\* and is done at most once.
MailedOnce(k) == \A n \in In(k) : mails[n] > 0 => mails[n] = 1 /\ refused[In(k)] # None

Batch(k) == Lockstep(k) /\ OneHolder(k) /\ KeyIsWhole(k) /\ MailedOnce(k)
Whole == Telling /\ \A k \in Batches \ refreshed : Batch(k)

LEMMA BatchIsKey == \A k \in Batches : In(k) \in Keys /\ In(k) \in SUBSET Rows /\ In(k) # {}
<1>1. SUFFICES ASSUME NEW k \in Batches PROVE In(k) \in SUBSET Rows /\ In(k) # {}
    BY DEF Keys
<1>2. PICK n \in Rows : k = BatchNo(n)
    BY DEF Batches
<1> QED BY <1>2, BatchesApart

\* A run that leaves a batch leaves the others' holders as they were.
LEMMA LeavingHolders ==
    ASSUME NEW k \in Batches, OneHolder(k), NEW w \in Runs,
           \A v \in Runs \ {w} : run'[v] = run[v], run'[w].pc \in {"idle", "claim"},
           (\E v \in Runs \ {w} : BusyWith(v, k)) => \A n \in In(k) : row'[n] = row[n]
    PROVE  OneHolder(k)'
<1>1. SUFFICES ASSUME NEW v \in Runs, BusyWith(v, k)'
               PROVE  /\ \A u \in Runs : BusyWith(u, k)' => u = v
                      /\ Gone(k)' \/ Held(k)'
                      /\ run'[v].pc = "sent" => run'[v].group = In(k)
    BY DEF OneHolder
<1>2. \A u \in Runs : BusyWith(u, k)' => u # w /\ run'[u] = run[u] /\ BusyWith(u, k)
    BY DEF BusyWith
<1>3. \A n \in In(k) : row'[n] = row[n]
    BY <1>1, <1>2
<1>4. Gone(k)' \/ Held(k)'
    BY <1>1, <1>2, <1>3 DEF OneHolder, Gone, Held, Exists
<1> QED BY <1>1, <1>2, <1>4 DEF OneHolder

LEMMA InitWhole == Init => Whole
<1> SUFFICES ASSUME Init, NEW k \in Batches PROVE Batch(k)
    BY InitTelling DEF Whole
<1>1. Lockstep(k)
    BY BatchIsKey DEF Init, Lockstep, Together
<1>2. OneHolder(k)
    BY IdleType DEF Init, OneHolder, BusyWith
<1>3. KeyIsWhole(k) /\ MailedOnce(k)
    BY BatchIsKey DEF Init, KeyIsWhole, MailedOnce
<1> QED BY <1>1, <1>2, <1>3 DEF Batch

\* What each step does to a batch that no event has split.
LEMMA StartRunKeepsBatch ==
    ASSUME Telling, NEW k \in Batches, Batch(k), NEW w \in Runs, NEW size \in RunSizes, StartRun(w, size)
    PROVE  Batch(k)'
<1>0. Typed /\ In(k) \in SUBSET Rows
    BY BatchIsKey DEF Telling
<1>1. UNCHANGED <<net, refused, mails>>
    BY DEF StartRun, providerVars
<1>2. \A n \in In(k) : IF n \in StaleClaims THEN Fails(n, 0) ELSE row'[n] = row[n]
    BY <1>0, StartRunSteps
<1>3. Lockstep(k)'
    <2>1. CASE Together(k)
        BY <1>0, <1>2, <2>1 DEF Lockstep, Together, StaleClaims, Fails
    <2>2. CASE Over(k)
        BY <1>0, <1>2, <2>2 DEF Lockstep, Over, StaleClaims
    <2> QED BY <2>1, <2>2 DEF Batch, Lockstep
<1>4. OneHolder(k)'
    <2>1. ASSUME Gone(k) \/ Held(k) PROVE \A n \in In(k) : row'[n] = row[n]
        <3>1. SUFFICES ASSUME NEW n \in In(k) PROVE n \notin StaleClaims
            BY <1>2
        <3>2. row[n] \in Row
            BY <1>0 DEF Typed, TypeOK
        <3>3. row[n].held \in Nat /\ Stale \in Nat
            BY <3>2, TimesAssumption DEF Row
        <3> QED BY <2>1, <3>3 DEF StaleClaims, Gone, Held, Exists
    <2>2. Leaves(w)
        BY <1>0, StartRunSteps
    <2>3. (\E v \in Runs \ {w} : BusyWith(v, k)) => Gone(k) \/ Held(k)
        BY DEF Batch, OneHolder
    <2> QED BY <2>1, <2>2, <2>3, LeavingHolders DEF Leaves, Batch
<1> QED BY <1>1, <1>3, <1>4 DEF Batch, KeyIsWhole, MailedOnce

LEMMA ClaimKeepsBatch ==
    ASSUME Telling, NEW k \in Batches, Batch(k), NEW w \in Runs, Claim(w)
    PROVE  Batch(k)'
<1> DEFINE b == Min(run[w].todo)
<1>0. Typed /\ In(k) \in SUBSET Rows
    BY BatchIsKey DEF Telling
<1>1. UNCHANGED <<net, refused, mails>> /\ run[w].pc = "claim"
    BY DEF Claim, providerVars
<1>2. /\ b \in Batches /\ Claimed(w) \in SUBSET Rows
      /\ \A n \in Claimed(w) :
           /\ row[n].status \in Unsent /\ row[n].attempts < MaxAttempts
           /\ row'[n].status = "SENDING" /\ row'[n].attempts = row[n].attempts + 1
           /\ row'[n].due = 0 /\ row'[n].held = 0
      /\ \A n \in Rows \ Claimed(w) : row'[n] = row[n]
    BY <1>0, ClaimSteps
<1>3. \A n \in Claimed(w) : n \in In(b)
    BY DEF Claimed
<1>4. ASSUME Over(k) PROVE \A n \in In(k) : n \notin Claimed(w)
    <2>1. SUFFICES ASSUME NEW n \in In(k), n \in Claimed(w) PROVE FALSE
        OBVIOUS
    <2>2. row[n].status \in Unsent /\ row[n].attempts < MaxAttempts /\ MaxAttempts \in Nat
        BY <1>2, <2>1, CountsAssumption
    <2> QED BY <1>4, <2>2 DEF Over, Unsent
<1>5. ASSUME Together(k), NEW m \in In(k), m \in Claimed(w) PROVE In(k) \subseteq Claimed(w)
    <2>1. k = b
        BY <1>2, <1>3, <1>5, BatchesApart
    <2>2. m \in DueFor(w)
        BY <1>5 DEF Claimed
    <2>3. \A n \in In(k) : n \in DueFor(w)
        BY <1>0, <1>5, <2>2 DEF DueFor, Together
    <2> QED BY <2>1, <2>3 DEF Claimed
<1>6. Lockstep(k)'
    <2>1. CASE \A n \in In(k) : n \notin Claimed(w)
        <3>1. \A n \in In(k) : row'[n] = row[n]
            BY <1>0, <1>2, <2>1
        <3> QED BY <3>1 DEF Batch, Lockstep, Together, Over
    <2>2. CASE \E n \in In(k) : n \in Claimed(w)
        <3>1. Together(k)
            BY <1>4, <2>2 DEF Batch, Lockstep
        <3>2. In(k) \subseteq Claimed(w)
            BY <1>5, <2>2, <3>1
        <3> QED BY <1>2, <3>1, <3>2 DEF Lockstep, Together
    <2> QED BY <2>1, <2>2
<1>7. OneHolder(k)'
    <2>1. ASSUME Gone(k) \/ Held(k) PROVE \A n \in In(k) : n \notin Claimed(w)
        BY <1>2, <2>1 DEF Gone, Held, Unsent, Exists
    <2>2. CASE Leaves(w) /\ Claimed(w) = {}
        <3>1. \A n \in In(k) : row'[n] = row[n]
            BY <1>0, <1>2, <2>2
        <3> QED BY <2>2, <3>1, LeavingHolders DEF Leaves, Batch
    <2>3. CASE ~(Leaves(w) /\ Claimed(w) = {})
        <3>1. /\ \A v \in Runs \ {w} : run'[v] = run[v]
              /\ run'[w].pc = "read" /\ run'[w].batch = b /\ Claimed(w) # {}
            BY <1>0, <2>3, ClaimSteps
        <3>2. CASE k = b
            <4>1. PICK m \in Claimed(w) : m \in In(k)
                BY <1>3, <3>1, <3>2
            <4>2. ~(Gone(k) \/ Held(k))
                BY <2>1, <4>1
            <4>3. \A v \in Runs : ~BusyWith(v, k)
                BY <4>2 DEF Batch, OneHolder
            <4>4. Together(k)
                BY <1>4, <4>1 DEF Batch, Lockstep
            <4>5. In(k) \subseteq Claimed(w)
                BY <1>5, <4>1, <4>4
            <4>6. Held(k)'
                BY <1>2, <4>5, TimesAssumption DEF Held
            <4>7. \A v \in Runs : BusyWith(v, k)' => v = w
                BY <3>1, <4>3 DEF BusyWith
            <4> QED BY <3>1, <4>6, <4>7 DEF OneHolder
        <3>3. CASE k # b
            <4>1. \A n \in In(k) : row'[n] = row[n]
                BY <1>0, <1>2, <1>3, <3>3, BatchesApart
            <4>2. \A v \in Runs : BusyWith(v, k)' => v # w /\ run'[v] = run[v] /\ BusyWith(v, k)
                BY <3>1, <3>3 DEF BusyWith
            <4>3. Gone(k) \/ Held(k) => Gone(k)' \/ Held(k)'
                BY <4>1 DEF Gone, Held, Exists
            <4> QED BY <4>2, <4>3 DEF Batch, OneHolder
        <3> QED BY <3>2, <3>3
    <2> QED BY <2>2, <2>3
<1> QED BY <1>1, <1>6, <1>7 DEF Batch, KeyIsWhole, MailedOnce

LEMMA SendKeepsBatch ==
    ASSUME Telling, NEW k \in Batches, Batch(k), NEW w \in Runs, Send(w)
    PROVE  Batch(k)'
<1>0. Typed /\ In(k) \in SUBSET Rows
    BY BatchIsKey DEF Telling
<1>1. UNCHANGED <<row, refused, mails>> /\ run[w].pc = "read"
    BY DEF Send
<1>2. Lockstep(k)' /\ MailedOnce(k)'
    BY <1>1 DEF Batch, Lockstep, Together, Over, MailedOnce
<1>3. CASE Leaves(w) /\ net' = net
    <2>1. OneHolder(k)'
        BY <1>1, <1>3, LeavingHolders DEF Leaves, Batch
    <2> QED BY <1>1, <1>2, <1>3, <2>1 DEF Batch, KeyIsWhole
<1>4. CASE ~(Leaves(w) /\ net' = net)
    <2>1. /\ \A v \in Runs \ {w} : run'[v] = run[v]
          /\ run'[w].pc = "sent" /\ run'[w].batch = run[w].batch /\ run'[w].group = Group(w)
          /\ Group(w) # {} /\ run[w].batch \in Batches /\ net' = net \cup {Group(w)}
        BY <1>0, <1>4, SendSteps
    <2>2. Group(w) \subseteq In(run[w].batch)
        BY DEF Group
    <2>3. run[w].batch = k => Group(w) = In(k)
        <3>1. SUFFICES ASSUME run[w].batch = k PROVE Group(w) = In(k)
            OBVIOUS
        <3>2. Gone(k) \/ Held(k)
            BY <1>1, <3>1 DEF Batch, OneHolder, BusyWith
        <3>3. ~Gone(k)
            BY <2>1, <3>1 DEF Gone, Group, Exists
        <3>4. Held(k)
            BY <3>2, <3>3
        <3> QED BY <3>1, <3>4 DEF Held, Group
    <2>4. KeyIsWhole(k)'
        <3>1. SUFFICES ASSUME NEW key \in Keys, key \in net' \/ refused'[key] # None, key \cap In(k) # {}
                       PROVE  key = In(k)
            BY DEF KeyIsWhole
        <3>2. CASE key = Group(w)
            BY <2>1, <2>2, <2>3, <3>1, <3>2, BatchesApart
        <3>3. CASE key # Group(w)
            BY <1>1, <2>1, <3>1, <3>3 DEF Batch, KeyIsWhole
        <3> QED BY <3>2, <3>3
    <2>5. OneHolder(k)'
        <3>1. \A v \in Runs : BusyWith(v, k)' => BusyWith(v, k)
            BY <1>1, <2>1 DEF BusyWith
        <3>2. Gone(k)' = Gone(k) /\ Held(k)' = Held(k)
            BY <1>1 DEF Gone, Held, Exists
        <3>3. \A v \in Runs : BusyWith(v, k)' /\ run'[v].pc = "sent" => run'[v].group = In(k)
            <4>1. SUFFICES ASSUME NEW v \in Runs, BusyWith(v, k)', run'[v].pc = "sent" PROVE run'[v].group = In(k)
                OBVIOUS
            <4>2. CASE v = w
                BY <2>1, <2>3, <3>1, <4>1, <4>2 DEF BusyWith
            <4>3. CASE v # w
                BY <2>1, <3>1, <4>1, <4>3 DEF Batch, OneHolder
            <4> QED BY <4>2, <4>3
        <3> QED BY <3>1, <3>2, <3>3 DEF Batch, OneHolder
    <2> QED BY <1>2, <2>4, <2>5 DEF Batch
<1> QED BY <1>3, <1>4

\* A run that has sent a batch holds all of it, or the batch is gone.
LEMMA SenderHolds ==
    ASSUME NEW k \in Batches, Batch(k), NEW w \in Runs, run[w].pc = "sent", run[w].batch = k
    PROVE  run[w].group = In(k) /\ (Gone(k) \/ Held(k)) /\ \A v \in Runs \ {w} : ~BusyWith(v, k)
BY DEF Batch, OneHolder, BusyWith

LEMMA RecordKeepsBatch ==
    ASSUME Telling, NEW k \in Batches, Batch(k), NEW w \in Runs, Record(w)
    PROVE  Batch(k)'
<1>0. Typed /\ In(k) \in SUBSET Rows /\ In(k) # {}
    BY BatchIsKey DEF Telling
<1>1. UNCHANGED <<net, refused, mails>> /\ run[w].pc = "sent" /\ refused[run[w].group] # None
    BY DEF Record, providerVars
<1>2. /\ run[w].group \in Keys /\ run[w].group \subseteq In(run[w].batch) /\ run[w].batch \in Batches
      /\ Leaves(w) /\ \A n \in run[w].group : Exists(n)
      /\ \A n \in refused[run[w].group] : row'[n].status = "FAILED" /\ row'[n].attempts = MaxAttempts
      /\ \A n \in run[w].group \ refused[run[w].group] : row'[n].status = "SENT"
      /\ \A n \in Rows \ run[w].group : row'[n] = row[n]
    BY <1>0, RecordSteps
<1>3. CASE run[w].batch = k
    <2>1. run[w].group = In(k) /\ \A v \in Runs \ {w} : ~BusyWith(v, k)
        BY <1>1, <1>3, SenderHolds
    <2>2. Lockstep(k)'
        BY <1>2, <2>1 DEF Lockstep, Over
    <2>3. OneHolder(k)'
        BY <1>2, <2>1, LeavingHolders DEF Leaves, Batch
    <2> QED BY <1>1, <2>2, <2>3 DEF Batch, KeyIsWhole, MailedOnce
<1>4. CASE run[w].batch # k
    <2>1. \A n \in In(k) : row'[n] = row[n]
        BY <1>0, <1>2, <1>4, BatchesApart
    <2>2. OneHolder(k)'
        BY <1>2, <2>1, LeavingHolders DEF Leaves, Batch
    <2> QED BY <1>1, <2>1, <2>2 DEF Batch, Lockstep, Together, Over, KeyIsWhole, MailedOnce
<1> QED BY <1>3, <1>4

LEMMA PutOffKeepsBatch ==
    ASSUME Telling, NEW k \in Batches, Batch(k), NEW w \in Runs, PutOff(w)
    PROVE  Batch(k)'
<1>0. Typed /\ In(k) \in SUBSET Rows /\ In(k) # {}
    BY BatchIsKey DEF Telling
<1>1. UNCHANGED <<net, refused, mails>> /\ run[w].pc = "sent"
    BY DEF PutOff, providerVars
<1>2. /\ run[w].group \subseteq In(run[w].batch) /\ run[w].batch \in Batches /\ Leaves(w)
      /\ \A n \in Rows : n \notin run[w].group \/ ~Exists(n) => row'[n] = row[n]
    BY <1>0, PutOffSteps
<1>3. PICK due \in Dues : \A n \in run[w].group : Exists(n) => Fails(n, due)
    BY <1>0, PutOffSteps
<1>4. CASE run[w].batch = k
    <2>1. run[w].group = In(k) /\ (Gone(k) \/ Held(k)) /\ \A v \in Runs \ {w} : ~BusyWith(v, k)
        BY <1>1, <1>4, SenderHolds
    <2>2. Lockstep(k)'
        <3>1. CASE Gone(k)
            <4>1. \A n \in In(k) : row'[n] = row[n]
                BY <1>0, <1>2, <3>1 DEF Gone
            <4> QED BY <4>1 DEF Batch, Lockstep, Together, Over
        <3>2. CASE Held(k)
            <4>1. Together(k)
                BY <1>0, <3>2 DEF Batch, Lockstep, Held, Over
            <4>2. \A n \in In(k) : Fails(n, due)
                BY <1>3, <2>1, <3>2 DEF Held, Exists
            <4> QED BY <4>1, <4>2 DEF Lockstep, Together, Fails
        <3> QED BY <2>1, <3>1, <3>2
    <2>3. OneHolder(k)'
        BY <1>2, <2>1, LeavingHolders DEF Leaves, Batch
    <2> QED BY <1>1, <2>2, <2>3 DEF Batch, KeyIsWhole, MailedOnce
<1>5. CASE run[w].batch # k
    <2>1. \A n \in In(k) : row'[n] = row[n]
        BY <1>0, <1>2, <1>5, BatchesApart
    <2>2. OneHolder(k)'
        BY <1>2, <2>1, LeavingHolders DEF Leaves, Batch
    <2> QED BY <1>1, <2>1, <2>2 DEF Batch, Lockstep, Together, Over, KeyIsWhole, MailedOnce
<1> QED BY <1>4, <1>5

LEMMA CrashKeepsBatch ==
    ASSUME Telling, NEW k \in Batches, Batch(k), NEW w \in Runs, Crash(w)
    PROVE  Batch(k)'
<1>1. UNCHANGED <<row, net, refused, mails>> /\ run' = [run EXCEPT ![w] = Idle]
    BY DEF Crash, providerVars
<1>2. run'[w].pc = "idle" /\ \A v \in Runs \ {w} : run'[v] = run[v]
    BY <1>1, IdleType, Moving DEF Telling
<1>3. OneHolder(k)'
    BY <1>1, <1>2, LeavingHolders DEF Batch
<1> QED BY <1>1, <1>3 DEF Batch, Lockstep, Together, Over, KeyIsWhole, MailedOnce

LEMMA ArrivesKeepsBatch ==
    ASSUME Telling, NEW k \in Batches, Batch(k), NEW key \in Keys, NEW bad \in SUBSET key, Arrives(key, bad)
    PROVE  Batch(k)'
<1>0. TypeOK /\ In(k) \in Keys /\ In(k) \in SUBSET Rows
    BY BatchIsKey DEF Telling, Typed
<1>1. UNCHANGED <<row, run>> /\ key \in net /\ net' = net \ {key}
    BY DEF Arrives
<1>2. Lockstep(k)' /\ OneHolder(k)'
    BY <1>1 DEF Batch, Lockstep, Together, Over, OneHolder, BusyWith, Gone, Held, Exists
<1>3. CASE refused[key] # None
    <2>1. UNCHANGED <<refused, mails>>
        BY <1>3 DEF Arrives
    <2> QED BY <1>1, <1>2, <2>1 DEF Batch, KeyIsWhole, MailedOnce
<1>4. CASE refused[key] = None
    <2>1. refused' = [refused EXCEPT ![key] = bad]
          /\ mails' = [n \in Rows |-> IF n \in key \ bad THEN mails[n] + 1 ELSE mails[n]]
        BY <1>4 DEF Arrives
    <2>2. refused'[key] = bad /\ \A c \in Keys \ {key} : refused'[c] = refused[c]
        BY <1>0, <2>1 DEF TypeOK
    <2>3. bad # None
        <3>1. bad \in SUBSET Rows
            BY DEF Keys
        <3> QED BY <3>1, NoneAssumption
    <2>4. KeyIsWhole(k)'
        BY <1>1, <2>2 DEF Batch, KeyIsWhole
    <2>5. MailedOnce(k)'
        <3>1. SUFFICES ASSUME NEW n \in In(k), mails'[n] > 0 PROVE mails'[n] = 1 /\ refused'[In(k)] # None
            BY DEF MailedOnce
        <3>2. n \in Rows /\ mails[n] \in Nat
            BY <1>0 DEF TypeOK
        <3>3. CASE n \in key \ bad
            <4>1. key = In(k)
                BY <1>1, <3>3 DEF Batch, KeyIsWhole
            <4>2. mails[n] = 0
                BY <1>4, <3>2, <4>1 DEF Batch, MailedOnce
            <4>3. mails'[n] = 1
                BY <2>1, <3>2, <3>3, <4>2
            <4> QED BY <2>2, <2>3, <4>1, <4>3
        <3>4. CASE n \notin key \ bad
            <4>1. mails'[n] = mails[n]
                BY <2>1, <3>2, <3>4
            <4>2. mails[n] = 1 /\ refused[In(k)] # None
                BY <3>1, <4>1 DEF Batch, MailedOnce
            <4>3. In(k) # key
                BY <1>4, <4>2
            <4> QED BY <1>0, <2>2, <4>1, <4>2, <4>3
        <3> QED BY <3>3, <3>4
    <2> QED BY <1>2, <2>4, <2>5 DEF Batch
<1> QED BY <1>3, <1>4

LEMMA EventKeepsBatch ==
    ASSUME Telling, NEW k \in Batches, Batch(k), NEW h \in Handlers, EventStored(h), k \notin refreshed'
    PROVE  Batch(k)'
<1>0. Typed /\ TypeOK /\ In(k) \in SUBSET Rows
    BY BatchIsKey DEF Telling, Typed
<1>1. UNCHANGED <<run, net, refused, mails>>
    BY DEF EventStored, providerVars
<1>2. \A n \in In(k) : /\ row'[n].status = row[n].status /\ row'[n].attempts = row[n].attempts
                       /\ row'[n].due = row[n].due /\ row'[n].held = row[n].held
    <2>1. CASE ~Exists(hook[h].row)
        BY <2>1 DEF EventStored
    <2>2. CASE Exists(hook[h].row)
        <3>1. PICK n \in Rows, at \in EventTimes : n = hook[h].row /\ at = hook[h].at
            BY <1>0, <2>2, EventSteps
        <3>2. /\ \A m \in Rows \ {n} : row'[m] = row[m]
              /\ row'[n].status = row[n].status /\ row'[n].attempts = row[n].attempts
              /\ row'[n].due = row[n].due /\ row'[n].held = IF News(n, at) THEN 0 ELSE row[n].held
            BY <1>0, <2>2, <3>1, EventSteps
        <3>3. n \in In(k) => row'[n].held = row[n].held
            <4>1. refreshed' = refreshed \cup {c \in Batches : n \in In(c) /\ row[n].held > 0 /\ News(n, at)}
                BY <2>2, <3>1 DEF EventStored
            <4>2. n \in In(k) => ~(row[n].held > 0 /\ News(n, at))
                BY <4>1
            <4>3. row[n] \in Row
                BY <1>0 DEF TypeOK
            <4>4. row[n].held \in Nat
                BY <4>3, TimesAssumption DEF Row
            <4> QED BY <3>2, <4>2, <4>4
        <3> QED BY <1>0, <3>2, <3>3
    <2> QED BY <2>1, <2>2
<1>3. Lockstep(k)' /\ OneHolder(k)'
    <2>1. Lockstep(k)'
        BY <1>2 DEF Batch, Lockstep, Together, Over
    <2>2. Gone(k) \/ Held(k) => Gone(k)' \/ Held(k)'
        BY <1>2 DEF Gone, Held, Exists
    <2> QED BY <1>1, <2>1, <2>2 DEF Batch, OneHolder, BusyWith
<1> QED BY <1>1, <1>3 DEF Batch, KeyIsWhole, MailedOnce

LEMMA TickKeepsBatch ==
    ASSUME Telling, NEW k \in Batches, Batch(k), Tick
    PROVE  Batch(k)'
<1>0. Typed /\ In(k) \in SUBSET Rows
    BY BatchIsKey DEF Telling
<1>1. UNCHANGED <<net, refused, mails>>
    BY DEF Tick, providerVars
<1>2. \A n \in In(k) :
        /\ row'[n].status = row[n].status /\ row'[n].attempts = row[n].attempts
        /\ row'[n].due = IF row[n].status \in Unsent /\ row[n].due < MaxRun
                         THEN row[n].due + 1 ELSE row[n].due
        /\ row'[n].held = IF row[n].status = "SENDING" /\ row[n].held < Stale
                          THEN row[n].held + 1 ELSE row[n].held
    BY <1>0, TickSteps
<1>3. Lockstep(k)'
    BY <1>2 DEF Batch, Lockstep, Together, Over
<1>4. \A w \in Runs : BusyWith(w, k)' => /\ BusyWith(w, k) /\ run'[w].pc = run[w].pc
                                         /\ run'[w].group = run[w].group
    BY <1>0, TickSteps, IdleType DEF BusyWith
<1>5. ASSUME NEW w \in Runs, BusyWith(w, k) PROVE Gone(k)' \/ Held(k)'
    <2>1. CASE Gone(k)
        BY <1>2, <2>1 DEF Gone, Exists
    <2>2. CASE Held(k)
        <3>1. SUFFICES ASSUME NEW n \in In(k) PROVE row'[n].status = "SENDING" /\ row'[n].held < Stale
            BY DEF Held
        <3>2. row[n].status = "SENDING" /\ row[n].held < Stale
            BY <2>2 DEF Held
        <3>3. n \in Busy(w)
            BY <1>5 DEF Busy, BusyWith
        <3>4. row[n].held + 1 < Stale
            BY <3>2, <3>3 DEF Tick
        <3> QED BY <1>2, <3>2, <3>4
    <2> QED BY <1>5, <2>1, <2>2 DEF Batch, OneHolder
<1>6. OneHolder(k)'
    BY <1>4, <1>5 DEF Batch, OneHolder
<1> QED BY <1>1, <1>3, <1>6 DEF Batch, KeyIsWhole, MailedOnce

LEMMA NextWhole == Whole /\ [Next]_vars => Whole'
<1> SUFFICES ASSUME Whole, [Next]_vars PROVE Whole'
    OBVIOUS
<1>0. Telling /\ Telling' /\ Typed
    BY NextTelling DEF Whole, Telling
<1>r. refreshed \subseteq refreshed'
    BY DEF Next, RunStep, vars, hookVars, PostBegin, PostCommit, Purge, StartRun, Claim, Send, Record,
           PutOff, Crash, Arrives, EventFound, EventIgnored, EventStored, Tick
<1> SUFFICES ASSUME NEW k \in Batches, k \notin refreshed' PROVE Batch(k)'
    BY <1>0 DEF Whole
<1>k. Batch(k) /\ In(k) \in SUBSET Rows
    BY <1>r, BatchIsKey DEF Whole
<1>1. CASE PostCommit
    <2>1. UNCHANGED <<run, net, refused, mails>> /\ post # "done"
        BY <1>1 DEF PostCommit, providerVars
    <2>2. \A n \in In(k) : row'[n] = [NoRow EXCEPT !.status = "PENDING"]
        BY <1>1, <1>k DEF PostCommit
    <2>3. Lockstep(k)'
        BY <2>2 DEF Lockstep, Together
    <2>4. OneHolder(k)'
        BY <1>0, <2>1 DEF Telling, Beginning, OneHolder, BusyWith
    <2> QED BY <1>k, <2>1, <2>3, <2>4 DEF Batch, KeyIsWhole, MailedOnce
<1>2. CASE Purge
    <2>1. UNCHANGED <<run, net, refused, mails>> /\ \A n \in In(k) : row'[n] = NoRow
        BY <1>2, <1>k DEF Purge, providerVars
    <2>2. Lockstep(k)' /\ Gone(k)'
        BY <2>1, NewRow DEF Lockstep, Together, Gone, Exists
    <2>3. OneHolder(k)'
        BY <1>k, <2>1, <2>2 DEF Batch, OneHolder, BusyWith
    <2> QED BY <1>k, <2>1, <2>2, <2>3 DEF Batch, KeyIsWhole, MailedOnce
<1>3. ASSUME UNCHANGED <<row, run, net, refused, mails>> PROVE Batch(k)'
    BY <1>3, <1>k DEF Batch, Lockstep, Together, Over, OneHolder, BusyWith, Gone, Held, Exists, KeyIsWhole, MailedOnce
<1>4. CASE PostBegin \/ UNCHANGED vars
    BY <1>3, <1>4 DEF PostBegin, vars, providerVars
<1>5. ASSUME NEW h \in Handlers, NEW mail \in Emails, NEW at \in EventTimes,
             EventFound(h, mail, at) \/ EventIgnored(h, mail, at)
      PROVE  Batch(k)'
    BY <1>3, <1>5 DEF EventFound, EventIgnored, providerVars
<1>6. ASSUME NEW w \in Runs, RunStep(w) \/ Crash(w) PROVE Batch(k)'
    BY <1>0, <1>6, <1>k, StartRunKeepsBatch, ClaimKeepsBatch, SendKeepsBatch, RecordKeepsBatch,
       PutOffKeepsBatch, CrashKeepsBatch DEF RunStep
<1>7. ASSUME NEW key \in Keys, NEW bad \in SUBSET key, Arrives(key, bad) PROVE Batch(k)'
    BY <1>0, <1>7, <1>k, ArrivesKeepsBatch
<1>8. ASSUME NEW h \in Handlers, EventStored(h) PROVE Batch(k)'
    BY <1>0, <1>8, <1>k, EventKeepsBatch
<1>9. CASE Tick
    BY <1>0, <1>9, <1>k, TickKeepsBatch
<1> QED BY <1>1, <1>2, <1>4, <1>5, <1>6, <1>7, <1>8, <1>9 DEF Next

LEMMA WholeHolds == Spec => []Whole
BY InitWhole, NextWhole, PTL DEF Spec

\* No recipient is sent the message twice, whatever is lost, repeated or late, unless an
\* event made a claim look younger.
THEOREM MailedOnceUnlessSplitHolds == Spec => []MailedOnceUnlessSplit
<1>1. Whole => MailedOnceUnlessSplit
    <2>1. SUFFICES ASSUME Whole, NEW n \in Rows, mails[n] > 1, ~Split(n) PROVE FALSE
        BY DEF MailedOnceUnlessSplit
    <2>2. BatchNo(n) \in Batches /\ n \in In(BatchNo(n))
        BY BatchesAreNumbers, BatchesApart
    <2>3. Batch(BatchNo(n))
        BY <2>1, <2>2 DEF Whole, Split
    <2>4. mails[n] \in Nat
        BY <2>1 DEF Whole, Telling, Typed, TypeOK
    <2> QED BY <2>1, <2>2, <2>3, <2>4 DEF Batch, MailedOnce
<1> QED BY <1>1, WholeHolds, PTL

\* What was sent is never put off or repeated, with the same exception.
THEOREM SentStaysSentHolds == Spec => SentStaysSent
<1> DEFINE Stays(n) == (row[n].status = "SENT" /\ Exists(n)' /\ ~Split(n)) => row'[n].status = "SENT"
<1>1. ASSUME Whole, Next PROVE \A n \in Rows : Stays(n)
    <2> SUFFICES ASSUME NEW n \in Rows, row[n].status = "SENT", Exists(n)', ~Split(n)
                 PROVE  row'[n].status = "SENT"
        OBVIOUS
    <2>0. Telling /\ Typed
        BY <1>1 DEF Whole, Telling
    <2>1. Exists(n)
        BY DEF Exists
    <2>2. ASSUME row'[n] = row[n] PROVE row'[n].status = "SENT"
        BY <2>2
    <2>3. ASSUME NEW w \in Runs, run[w].pc = "sent", n \in In(run[w].batch), run[w].batch \in Batches PROVE FALSE
        <3>1. Batch(run[w].batch)
            BY <1>1, <2>3 DEF Whole, Split
        <3>2. Gone(run[w].batch) \/ Held(run[w].batch)
            BY <2>3, <3>1, SenderHolds
        <3> QED BY <2>1, <2>3, <3>2 DEF Gone, Held
    <2>4. CASE PostCommit
        BY <2>0, <2>1, <2>4 DEF PostCommit, Telling, Beginning
    <2>5. CASE Purge
        BY <2>5, NewRow DEF Purge, Exists
    <2>6. ASSUME NEW w \in Runs, NEW size \in RunSizes, StartRun(w, size) PROVE row'[n].status = "SENT"
        BY <2>0, <2>6, StartRunSteps DEF StaleClaims
    <2>7. ASSUME NEW w \in Runs, Claim(w) PROVE row'[n].status = "SENT"
        BY <2>0, <2>7, ClaimSteps DEF Unsent
    <2>8. ASSUME NEW w \in Runs, Record(w) PROVE row'[n].status = "SENT"
        <3>1. n \notin run[w].group
            BY <2>0, <2>3, <2>8, RecordSteps DEF Record
        <3> QED BY <2>0, <2>2, <2>8, <3>1, RecordSteps
    <2>9. ASSUME NEW w \in Runs, PutOff(w) PROVE row'[n].status = "SENT"
        <3>1. n \notin run[w].group
            BY <2>0, <2>3, <2>9, PutOffSteps DEF PutOff
        <3> QED BY <2>0, <2>2, <2>9, <3>1, PutOffSteps
    <2>10. ASSUME NEW h \in Handlers, EventStored(h) PROVE row'[n].status = "SENT"
        <3>1. CASE ~Exists(hook[h].row)
            BY <2>2, <2>10, <3>1 DEF EventStored
        <3>2. CASE Exists(hook[h].row)
            BY <2>0, <2>10, <3>2, EventSteps
        <3> QED BY <3>1, <3>2
    <2>11. CASE Tick
        BY <2>0, <2>11, TickSteps
    <2>12. CASE PostBegin
        BY <2>2, <2>12 DEF PostBegin
    <2>13. ASSUME NEW w \in Runs, Send(w) \/ Crash(w) PROVE row'[n].status = "SENT"
        BY <2>2, <2>13 DEF Send, Crash
    <2>14. ASSUME NEW key \in Keys, NEW bad \in SUBSET key, Arrives(key, bad) PROVE row'[n].status = "SENT"
        BY <2>2, <2>14 DEF Arrives
    <2>15. ASSUME NEW h \in Handlers, NEW mail \in Emails, NEW at \in EventTimes,
                  EventFound(h, mail, at) \/ EventIgnored(h, mail, at)
           PROVE  row'[n].status = "SENT"
        BY <2>2, <2>15 DEF EventFound, EventIgnored
    <2> QED BY <1>1, <2>4, <2>5, <2>6, <2>7, <2>8, <2>9, <2>10, <2>11, <2>12, <2>13, <2>14, <2>15 DEF Next, RunStep
<1>2. Whole /\ [Next]_vars => [\A n \in Rows : Stays(n)]_vars
    BY <1>1
<1> QED BY <1>2, WholeHolds, PTL DEF Spec, SentStaysSent

-----------------------------------------------------------------------------
(* The earliest event.  As long as a batch is whole there is one e-mail to   *)
(* each of its recipients, so no event about it is ignored.                  *)

Told(n) == IF Reported(n) = {} THEN None ELSE Min(Reported(n))
ShowsEarliest == \A n \in Rows : Exists(n) /\ ~Split(n) => row[n].event = Told(n)

LEMMA TalesTell == Tales /\ ShowsEarliest => RowsTellTheirMail
BY DEF Tales, Tale, ShowsEarliest, Told, RowsTellTheirMail

\* Two e-mails to a recipient are of a batch that was split.
LEMMA OneMailUnlessSplit ==
    ASSUME Whole, NEW n \in Rows, ~Split(n), NEW mail \in Mailed, NEW other \in Mailed,
           mail[1] = n, other[1] = n
    PROVE  mail = other
<1> DEFINE k == BatchNo(n)
<1>1. k \in Batches /\ n \in In(k)
    BY BatchesAreNumbers, BatchesApart
<1>2. KeyIsWhole(k)
    BY <1>1 DEF Whole, Split, Batch
<1>3. \A m \in {mail, other} : /\ m \in Rows \X Keys /\ n \in m[2] /\ m[1] = n
                              /\ refused[m[2]] # None
    BY DEF Mailed, Emails
<1> HIDE DEF k
<1>4. \A m \in {mail, other} : m[2] = In(k) /\ m = <<n, m[2]>>
    BY <1>1, <1>2, <1>3 DEF KeyIsWhole
<1> QED BY <1>4

\* Whatever is neither the creation of the message nor an event leaves the events.
LEMMA StepsKeepEvents ==
    ASSUME Typed, [Next]_vars, ~PostCommit,
           \A h \in Handlers : ~EventStored(h),
           \A h \in Handlers, mail \in Emails, at \in EventTimes : ~EventIgnored(h, mail, at),
           NEW n \in Rows, Exists(n)'
    PROVE  Exists(n) /\ row'[n].event = row[n].event /\ reported' = reported
<1>1. ASSUME row'[n] = row[n] PROVE Exists(n) /\ row'[n].event = row[n].event
    BY <1>1 DEF Exists
<1>2. CASE Purge
    BY <1>2, NewRow DEF Purge, Exists
<1>3. ASSUME NEW w \in Runs, NEW size \in RunSizes, StartRun(w, size)
      PROVE  Exists(n) /\ row'[n].event = row[n].event /\ reported' = reported
    <2>1. CASE n \in StaleClaims
        BY <1>3, <2>1, StartRunSteps DEF StaleClaims, Fails, KeepsTale, Exists, StartRun, hookVars
    <2>2. CASE n \notin StaleClaims
        BY <1>1, <1>3, <2>2, StartRunSteps DEF StartRun, hookVars
    <2> QED BY <2>1, <2>2
<1>4. ASSUME NEW w \in Runs, Claim(w)
      PROVE  Exists(n) /\ row'[n].event = row[n].event /\ reported' = reported
    <2>1. CASE n \in Claimed(w)
        BY <1>4, <2>1, ClaimSteps DEF Unsent, Exists, KeepsTale, Claim, hookVars
    <2>2. CASE n \notin Claimed(w)
        BY <1>1, <1>4, <2>2, ClaimSteps DEF Claim, hookVars
    <2> QED BY <2>1, <2>2
<1>5. ASSUME NEW w \in Runs, Record(w)
      PROVE  Exists(n) /\ row'[n].event = row[n].event /\ reported' = reported
    <2>1. CASE n \in run[w].group
        BY <1>5, <2>1, RecordSteps DEF KeepsTale, Record, hookVars
    <2>2. CASE n \notin run[w].group
        BY <1>1, <1>5, <2>2, RecordSteps DEF Record, hookVars
    <2> QED BY <2>1, <2>2
<1>6. ASSUME NEW w \in Runs, PutOff(w)
      PROVE  Exists(n) /\ row'[n].event = row[n].event /\ reported' = reported
    <2>1. row'[n] = row[n] \/ (Exists(n) /\ KeepsTale(n))
        BY <1>6, PutOffSteps DEF Fails
    <2> QED BY <1>1, <1>6, <2>1 DEF KeepsTale, PutOff, hookVars
<1>7. CASE Tick
    BY <1>7, TickSteps DEF KeepsTale, Exists, Tick, hookVars
<1>8. ASSUME \/ PostBegin \/ UNCHANGED vars
             \/ \E w \in Runs : Send(w) \/ Crash(w)
             \/ \E key \in Keys : \E bad \in SUBSET key : Arrives(key, bad)
             \/ \E h \in Handlers, mail \in Emails, at \in EventTimes : EventFound(h, mail, at)
      PROVE  Exists(n) /\ row'[n].event = row[n].event /\ reported' = reported
    <2>1. row' = row /\ reported' = reported
        BY <1>8 DEF PostBegin, vars, Send, Crash, Arrives, EventFound, hookVars
    <2> QED BY <1>1, <2>1
<1> QED BY <1>2, <1>3, <1>4, <1>5, <1>6, <1>7, <1>8 DEF Next, RunStep

LEMMA EarliestStep ==
    ASSUME Whole, ShowsEarliest, [Next]_vars
    PROVE  ShowsEarliest'
<1>0. Telling /\ Typed /\ TypeOK
    BY DEF Whole, Telling, Typed
<1> SUFFICES ASSUME NEW n \in Rows, Exists(n)', ~Split(n)' PROVE row'[n].event = Told(n)'
    BY DEF ShowsEarliest
<1>1. ~Split(n)
    <2>1. refreshed \subseteq refreshed'
        BY DEF Next, RunStep, vars, hookVars, PostBegin, PostCommit, Purge, StartRun, Claim, Send, Record,
               PutOff, Crash, Arrives, EventFound, EventIgnored, EventStored, Tick
    <2> QED BY <2>1 DEF Split
<1>2. ASSUME Exists(n), row'[n].event = row[n].event, Reported(n)' = Reported(n)
      PROVE  row'[n].event = Told(n)'
    BY <1>1, <1>2 DEF ShowsEarliest, Told
<1>3. CASE PostCommit
    <2>1. row'[n].event = None
        BY <1>3, NewRow DEF PostCommit
    <2>2. Reported(n) = {} /\ reported' = reported
        BY <1>0, <1>3 DEF PostCommit, Telling, Beginning, hookVars
    <2>3. Reported(n)' = {}
        BY <2>2, SameReports
    <2> QED BY <2>1, <2>3 DEF Told
<1>4. ASSUME NEW h \in Handlers, NEW mail \in Emails, NEW at \in EventTimes, EventIgnored(h, mail, at)
      PROVE  row'[n].event = Told(n)'
    <2>1. /\ row' = row /\ mail \in Mailed /\ reported' = [reported EXCEPT ![mail] = @ \cup {at}]
          /\ \A m \in Rows : ~Matches(m, mail)
        BY <1>4 DEF EventIgnored
    <2>2. Exists(n)
        BY <2>1 DEF Exists
    <2>3. mail[1] # n
        <3>1. SUFFICES ASSUME mail[1] = n PROVE FALSE
            OBVIOUS
        <3>2. row[n].status # "PENDING"
            BY <1>0, <2>1, <3>1 DEF Telling, Answers, PendingUnasked
        <3>3. row[n] \in Row
            BY <1>0 DEF TypeOK
        <3>4. row[n].mail # None
            BY <2>1, <2>2, <3>1, <3>2, <3>3 DEF Matches, Row, Exists
        <3>5. row[n].mail \in Mailed /\ row[n].mail[1] = n
            BY <1>0, <3>4 DEF Telling, Tales, Tale
        <3>6. row[n].mail = mail
            BY <1>1, <2>1, <3>1, <3>5, OneMailUnlessSplit
        <3> QED BY <2>1, <3>1, <3>6 DEF Matches
    <2>4. \A m \in MailsTo(n) : reported'[m] = reported[m]
        BY <1>0, <2>1, <2>3 DEF MailsTo, TypeOK
    <2>5. Reported(n)' = Reported(n)
        BY <2>4 DEF Reported, MailsTo
    <2> QED BY <1>2, <2>1, <2>2, <2>5
<1>5. ASSUME NEW h \in Handlers, EventStored(h) PROVE row'[n].event = Told(n)'
    <2>0. hook[h] \in Call
        BY <1>0, <1>5 DEF EventStored, TypeOK
    <2>n. PICK r \in Rows, at \in EventTimes, mail \in Emails :
             r = hook[h].row /\ at = hook[h].at /\ mail = hook[h].mail
        BY <2>0 DEF Call
    <2>1. r = mail[1]
        BY <1>0, <1>5, <2>n DEF Telling, HooksMakeSense, EventStored
    <2>2. CASE ~Exists(r)
        <3>1. row' = row /\ reported' = reported
            BY <1>5, <2>n, <2>2 DEF EventStored
        <3>2. Exists(n)
            BY <3>1 DEF Exists
        <3> QED BY <1>2, <3>1, <3>2, SameReports
    <2>3. CASE Exists(r)
        <3>1. /\ \A m \in Rows \ {r} : row'[m] = row[m]
              /\ row'[r].status = row[r].status
              /\ row'[r].event = Earlier(at, row[r].event)
            BY <1>0, <1>5, <2>n, <2>3, EventSteps
        <3>2. reported' = [reported EXCEPT ![mail] = @ \cup {at}]
            BY <1>5, <2>n, <2>3 DEF EventStored
        <3>3. CASE n # r
            <4>1. \A m \in MailsTo(n) : reported'[m] = reported[m]
                BY <1>0, <2>1, <3>2, <3>3 DEF MailsTo, TypeOK
            <4>2. Reported(n)' = Reported(n)
                BY <4>1 DEF Reported, MailsTo
            <4>3. Exists(n)
                BY <3>1, <3>3 DEF Exists
            <4> QED BY <1>2, <3>1, <3>3, <4>2, <4>3
        <3>4. CASE n = r
            <4>1. Reported(n)' = Reported(n) \cup {at}
                <5>1. mail \in MailsTo(n)
                    BY <2>1, <3>4 DEF MailsTo
                <5>2. \A m \in MailsTo(n) : reported'[m] = IF m = mail THEN reported[m] \cup {at} ELSE reported[m]
                    BY <1>0, <3>2 DEF MailsTo, TypeOK
                <5>3. \A t : t \in Reported(n)' <=> t \in Reported(n) \cup {at}
                    BY <5>1, <5>2 DEF Reported, MailsTo
                <5> QED BY <5>3
            <4>2. Reported(n) \in SUBSET EventTimes
                BY <1>0 DEF Reported, MailsTo, TypeOK
            <4>3. Reported(n) \in SUBSET Nat /\ at \in Nat
                BY <4>2, CountsAssumption
            <4>4. Told(n)' = IF Reported(n) = {} THEN at
                             ELSE IF Min(Reported(n)) > at THEN at ELSE Min(Reported(n))
                <5>1. Told(n)' = Min(Reported(n)')
                    BY <4>1 DEF Told
                <5> QED BY <4>1, <4>3, <5>1, MinWith
            <4>5. row[n].event = Told(n)
                BY <1>1, <2>3, <3>4 DEF ShowsEarliest
            <4>6. Reported(n) # {} => Min(Reported(n)) # None
                <5>1. Reported(n) # {} => Min(Reported(n)) \in Reported(n)
                    BY <4>3, MinOfNaturals
                <5> QED BY <4>2, <5>1, NoneAssumption
            <4>7. Earlier(at, row[n].event) = Told(n)'
                BY <4>4, <4>5, <4>6 DEF Told, Earlier
            <4> QED BY <3>1, <3>4, <4>7
        <3> QED BY <3>3, <3>4
    <2> QED BY <2>2, <2>3
<1>6. CASE /\ ~PostCommit /\ \A h \in Handlers : ~EventStored(h)
           /\ \A h \in Handlers, mail \in Emails, at \in EventTimes : ~EventIgnored(h, mail, at)
    <2>1. Exists(n) /\ row'[n].event = row[n].event /\ reported' = reported
        BY <1>0, <1>6, StepsKeepEvents
    <2> QED BY <1>2, <2>1, SameReports
<1> QED BY <1>3, <1>4, <1>5, <1>6

\* A recipient shown as sent was mailed and carries the id of an e-mail to it, and what
\* it shows of a delivery was reported for it; of a batch that was not split it shows the
\* earliest event, however events and answers are ordered.
THEOREM RowsTellTheirMailHolds == Spec => []RowsTellTheirMail
<1>1. Init => ShowsEarliest
    BY NewRow DEF Init, ShowsEarliest, Exists
<1>2. Whole /\ ShowsEarliest /\ [Next]_vars => ShowsEarliest'
    BY EarliestStep
<1>3. Whole /\ ShowsEarliest => RowsTellTheirMail
    BY TalesTell DEF Whole, Telling
<1> QED BY <1>1, <1>2, <1>3, WholeHolds, PTL DEF Spec

=============================================================================
