-------------------------- MODULE OrganizerMessages --------------------------
(***************************************************************************)
(* An organiser's message to the teams: the recipients' rows, the delivery *)
(* runs that send them in batches (the request's own run and the cron's),  *)
(* the provider, the events that its webhook reports, and the purge of the *)
(* competition's personal data, which deletes the rows at any moment.      *)
(*                                                                         *)
(* Time is relative, as in NotificationOutbox: a row knows for how long it *)
(* has been due (negative: due later), a SENDING row for how long it has   *)
(* been untouched, a run for how long it has lasted.                       *)
(*                                                                         *)
(* An e-mail is the recipient it goes to and the request that it comes of: *)
(* the provider mails each recipient of a request once, so the two stand   *)
(* for the id that it gives the e-mail.                                    *)
(***************************************************************************)
EXTENDS Integers, Sequences, FiniteSets, FiniteSetsExt

CONSTANTS
    Recipients,     \* the recipients of the message, by e-mail address
    BatchSize,      \* 100 in the code
    Runs,           \* delivery runs that can be under way at once
    RunSizes,       \* how many batches a run takes: 5 after the request, 20 in the cron
    MaxAttempts,    \* 6 in the code
    Backoff,        \* the delay after the k-th attempt: min(2^k, 60) minutes
    MaxRun,         \* how long a run lasts at most
    Stale,          \* a claim this old is given up: 10 minutes
    Handlers,       \* webhook calls that can be under way at once
    EventTimes,     \* the times that events of one kind can carry
    MaxBreaks,      \* bound: how many runs are cut off
    None            \* no row, no event, no outcome

Rows == {Recipients[i] : i \in DOMAIN Recipients}
Place(n) == CHOOSE i \in DOMAIN Recipients : Recipients[i] = n
BatchNo(n) == (Place(n) - 1) \div BatchSize
Batches == {BatchNo(n) : n \in Rows}
In(k) == {n \in Rows : BatchNo(n) = k}

\* A request is for some rows, and has an e-mail to each of them.
Keys == (SUBSET Rows) \ {{}}
Emails == {mail \in Rows \X Keys : mail[1] \in mail[2]}
MailsTo(n) == {mail \in Emails : mail[1] = n}

\* The how manieth of some rows n is.
Order(n, rows) == Cardinality({m \in rows : Place(m) <= Place(n)})

ASSUME RecipientsAssumption ==
    /\ Recipients \in Seq(Rows)
    /\ \A i, j \in DOMAIN Recipients : Recipients[i] = Recipients[j] => i = j
    /\ BatchSize \in Nat \ {0}
ASSUME CountsAssumption ==
    MaxAttempts \in Nat \ {0} /\ MaxBreaks \in Nat /\ RunSizes \subseteq Nat \ {0} /\ EventTimes \subseteq Nat
ASSUME NoneAssumption ==
    None \notin Rows /\ None \notin Emails /\ None \notin EventTimes /\ \A rows \in SUBSET Rows : rows # None
ASSUME TimesAssumption ==
    /\ Backoff \in [1..MaxAttempts -> Nat \ {0}]
    /\ MaxRun \in Nat \ {0} /\ Stale \in Nat \ {0, 1}

VARIABLES
    post,           \* the organiser's request
    row,            \* the recipients' rows
    purged,         \* the competition's personal data have been deleted
    run,            \* the delivery runs
    net,            \* provider: requests that have not arrived yet
    refused,        \* provider: what each idempotency key's request was answered
    mails,          \* provider: how many e-mails each recipient was sent
    hook,           \* the webhook calls
    reported,       \* for a property: the times of the events handled for each e-mail
    refreshed,      \* for the properties: batches in which an event refreshed a claim
    breaks          \* how many runs were cut off
providerVars == <<net, refused, mails>>
hookVars == <<hook, reported, refreshed>>
vars == <<post, row, purged, run, providerVars, hookVars, breaks>>

Unsent == {"PENDING", "FAILED"}
Longest == Max({0} \cup {Backoff[k] : k \in 1..MaxAttempts})
Row == [status : {"NONE", "PENDING", "SENDING", "FAILED", "SENT"}, attempts : 0..MaxAttempts,
        due : (-Longest)..MaxRun, held : 0..Stale, mail : Emails \cup {None},
        event : EventTimes \cup {None}]
Run == [pc : {"idle", "claim", "read", "sent"}, age : 0..MaxRun,
        todo : SUBSET Batches, batch : Batches \cup {None}, group : SUBSET Rows]
Call == [row : Rows, mail : Emails, at : EventTimes]

TypeOK ==
    /\ post \in {"new", "checked", "done"}
    /\ row \in [Rows -> Row]
    /\ purged \in BOOLEAN
    /\ run \in [Runs -> Run]
    /\ net \subseteq Keys
    /\ refused \in [Keys -> (SUBSET Rows) \cup {None}]
    /\ mails \in [Rows -> Nat]
    /\ hook \in [Handlers -> Call \cup {None}]
    /\ reported \in [Emails -> SUBSET EventTimes]
    /\ refreshed \subseteq Batches
    /\ breaks \in 0..MaxBreaks

NoRow == [status |-> "NONE", attempts |-> 0, due |-> 0, held |-> 0, mail |-> None, event |-> None]
Idle == [pc |-> "idle", age |-> 0, todo |-> {}, batch |-> None, group |-> {}]

Init ==
    /\ post = "new"
    /\ row = [n \in Rows |-> NoRow]
    /\ purged = FALSE
    /\ run = [w \in Runs |-> Idle]
    /\ net = {} /\ refused = [key \in Keys |-> None] /\ mails = [n \in Rows |-> 0]
    /\ hook = [h \in Handlers |-> None] /\ reported = [mail \in Emails |-> {}] /\ refreshed = {}
    /\ breaks = 0

Exists(n) == row[n].status # "NONE"

-----------------------------------------------------------------------------
(* The request and the purge.                                               *)

\* The request is refused once the data are purged; it reads the contacts ...
PostBegin ==
    /\ post = "new" /\ ~purged
    /\ post' = "checked"
    /\ UNCHANGED <<row, purged, run, providerVars, hookVars, breaks>>

\* ... and creates the message with its recipients.
PostCommit ==
    /\ post = "checked"
    /\ post' = "done"
    /\ row' = [n \in Rows |-> [NoRow EXCEPT !.status = "PENDING"]]
    /\ UNCHANGED <<purged, run, providerVars, hookVars, breaks>>

\* The retention period has passed, or an organiser deletes the data before.
Purge ==
    /\ ~purged
    /\ purged' = TRUE
    /\ row' = [n \in Rows |-> NoRow]
    /\ UNCHANGED <<post, run, providerVars, hookVars, breaks>>

-----------------------------------------------------------------------------
(* A delivery run.                                                          *)

\* What a run does with the batches it has not sent yet.
Onward(w, todo) == IF todo = {} THEN Idle
                   ELSE [run[w] EXCEPT !.pc = "claim", !.todo = todo, !.batch = None, !.group = {}]

\* A row is due for a run if it was when the run began.
DueFor(w) == {n \in Rows : /\ row[n].status \in Unsent /\ row[n].attempts < MaxAttempts
                           /\ row[n].due >= run[w].age}

\* Claims this old are given up.
NoStaleClaims == {}
StaleClaimsOfAnyAge == {n \in Rows : row[n].status = "SENDING"}
StaleClaimsWithoutId ==
    {n \in Rows : row[n].status = "SENDING" /\ row[n].held >= Stale /\ row[n].mail = None}
StaleClaims == {n \in Rows : row[n].status = "SENDING" /\ row[n].held >= Stale}

\* It gives up old claims and takes the first batches with rows that are due,
StartRun(w, size) ==
    LET stale == StaleClaims
        retried == {n \in stale : row[n].attempts < MaxAttempts}
        batches == {k \in Batches : In(k) \cap (retried \cup DueFor(w)) # {}}
        first == {k \in batches : Cardinality({c \in batches : c < k}) < size}
    IN  /\ run[w].pc = "idle"
        /\ row' = [n \in Rows |->
             IF n \in stale THEN [row[n] EXCEPT !.status = "FAILED", !.due = 0, !.held = 0]
             ELSE row[n]]
        /\ run' = [run EXCEPT ![w] = Onward(w, first)]
        /\ UNCHANGED <<post, purged, providerVars, hookVars, breaks>>

\* claims what is still due of the next one,
Claim(w) ==
    /\ run[w].pc = "claim"
    /\ LET b == Min(run[w].todo)
           claimed == In(b) \cap DueFor(w)
       IN  /\ row' = [n \in Rows |->
                IF n \in claimed
                THEN [row[n] EXCEPT !.status = "SENDING", !.attempts = @ + 1, !.due = 0, !.held = 0]
                ELSE row[n]]
           /\ run' = [run EXCEPT ![w] =
                IF claimed = {} THEN Onward(w, run[w].todo \ {b})
                ELSE [run[w] EXCEPT !.pc = "read", !.todo = @ \ {b}, !.batch = b]]
    /\ UNCHANGED <<post, purged, providerVars, hookVars, breaks>>

\* reads the rows of the batch that are being sent, and sends them under a key
\* that is made of their ids.
Send(w) ==
    /\ run[w].pc = "read"
    /\ LET group == {n \in In(run[w].batch) : row[n].status = "SENDING"}
       IN  IF group = {}
             THEN /\ run' = [run EXCEPT ![w] = Onward(w, run[w].todo)]
                  /\ UNCHANGED net
             ELSE /\ run' = [run EXCEPT ![w].pc = "sent", ![w].group = group]
                  /\ net' = net \cup {group}
    /\ UNCHANGED <<post, row, purged, refused, mails, hookVars, breaks>>

\* The answer: the ids of the accepted e-mails in the order of the request, and the
\* indexes of the refused ones.
Ids(accepted, group) ==
    [i \in 1..Cardinality(accepted) |-> <<CHOOSE n \in accepted : Order(n, accepted) = i, group>>]
RefusedAt(bad, group) == {Order(n, group) : n \in bad}

\* Which id belongs to which index: the refused ones have none.
ResendIds(count, ids, failures) ==
    [i \in 1..count \ failures |-> ids[Cardinality(1..i \ failures)]]

Sent(n, mail) == [row[n] EXCEPT !.status = "SENT", !.mail = mail, !.due = 0, !.held = 0]
Refused(n) == [row[n] EXCEPT !.status = "FAILED", !.attempts = MaxAttempts, !.due = 0, !.held = 0]

\* The answer has come and both outcomes are stored in one transaction, which fails if
\* a row is gone.
Record(w) ==
    /\ run[w].pc = "sent" /\ refused[run[w].group] # None
    /\ \A n \in run[w].group : Exists(n)
    /\ LET group == run[w].group
           bad == refused[group]
           ids == ResendIds(Cardinality(group), Ids(group \ bad, group), RefusedAt(bad, group))
       IN  row' = [n \in Rows |->
             IF n \notin group THEN row[n]
             ELSE IF Order(n, group) \in RefusedAt(bad, group) THEN Refused(n)
             ELSE Sent(n, ids[Order(n, group)])]
    /\ run' = [run EXCEPT ![w] = Onward(w, run[w].todo)]
    /\ UNCHANGED <<post, purged, providerVars, hookVars, breaks>>

\* The answer is lost, late, an error or not understood, or the transaction fails: the
\* rows of the batch are tried again later, counting from the moment the run began.
PutOff(w) ==
    /\ run[w].pc = "sent"
    /\ LET group == {n \in run[w].group : Exists(n)}
           delay == Backoff[Max({1} \cup {row[n].attempts : n \in group})]
       IN  row' = [n \in Rows |->
             IF n \in group
             THEN [row[n] EXCEPT !.status = "FAILED", !.due = run[w].age - delay, !.held = 0]
             ELSE row[n]]
    /\ run' = [run EXCEPT ![w] = Onward(w, run[w].todo)]
    /\ UNCHANGED <<post, purged, providerVars, hookVars, breaks>>

\* The server ends during a run.
Crash(w) ==
    /\ run[w].pc # "idle" /\ breaks < MaxBreaks
    /\ breaks' = breaks + 1
    /\ run' = [run EXCEPT ![w] = Idle]
    /\ UNCHANGED <<post, row, purged, providerVars, hookVars>>

-----------------------------------------------------------------------------
(* The provider.                                                            *)

\* A request arrives, perhaps after its sender has given it up.  The first one under
\* a key mails everybody but those it refuses; a repetition changes nothing.
Arrives(key, bad) ==
    /\ key \in net /\ bad \subseteq key
    /\ net' = net \ {key}
    /\ IF refused[key] = None
         THEN /\ refused' = [refused EXCEPT ![key] = bad]
              /\ mails' = [n \in Rows |-> IF n \in key \ bad THEN mails[n] + 1 ELSE mails[n]]
         ELSE bad = {} /\ UNCHANGED <<refused, mails>>
    /\ UNCHANGED <<post, row, purged, run, hookVars, breaks>>

-----------------------------------------------------------------------------
(* The webhook.                                                             *)

\* The e-mails that the provider has sent.
Mailed == {mail \in Emails : refused[mail[2]] # None /\ mail[1] \notin refused[mail[2]]}

\* Mutant: any row without an id will do.
MatchesAnyRow(n, mail) ==
    \/ row[n].mail = mail
    \/ row[n].mail = None /\ row[n].status \in {"SENDING", "SENT", "FAILED"}
Matches(n, mail) ==
    /\ n = mail[1]
    /\ \/ row[n].mail = mail
       \/ row[n].mail = None /\ row[n].status \in {"SENDING", "SENT", "FAILED"}

\* An event about an e-mail finds its row by the address and the e-mail's id, or, if the
\* row has no id yet, by the tag that it carries.
\* Events come in any order, repeatedly, and before the answer of the request.
EventFound(h, mail, at) ==
    /\ hook[h] = None /\ mail \in Mailed
    /\ \E n \in Rows :
         /\ Matches(n, mail)
         /\ hook' = [hook EXCEPT ![h] = [row |-> n, mail |-> mail, at |-> at]]
    /\ UNCHANGED <<post, row, purged, run, providerVars, reported, refreshed, breaks>>

\* An event that finds no row is ignored.
EventIgnored(h, mail, at) ==
    /\ hook[h] = None /\ mail \in Mailed
    /\ \A n \in Rows : ~Matches(n, mail)
    /\ reported' = [reported EXCEPT ![mail] = @ \cup {at}]
    /\ UNCHANGED <<post, row, purged, run, providerVars, hook, refreshed, breaks>>

News(n, at) == row[n].mail = None \/ row[n].event = None \/ row[n].event > at
Earlier(at, stored) == IF stored = None \/ stored > at THEN at ELSE stored

\* The row, if it is still there, gets the id and the earlier of the two times; if either
\* is new to it, its update also makes its claim young again.
EventStored(h) ==
    /\ hook[h] # None
    /\ LET n == hook[h].row
           at == hook[h].at
       IN  IF Exists(n)
             THEN /\ row' = [row EXCEPT
                       ![n].mail = IF row[n].mail = None THEN hook[h].mail ELSE row[n].mail,
                       ![n].event = Earlier(at, row[n].event),
                       ![n].held = IF News(n, at) THEN 0 ELSE row[n].held]
                  /\ reported' = [reported EXCEPT ![hook[h].mail] = @ \cup {at}]
                  /\ refreshed' = refreshed \cup
                       {k \in Batches : n \in In(k) /\ row[n].held > 0 /\ News(n, at)}
             ELSE UNCHANGED <<row, reported, refreshed>>
    /\ hook' = [hook EXCEPT ![h] = None]
    /\ UNCHANGED <<post, purged, run, providerVars, breaks>>

-----------------------------------------------------------------------------
\* Time passes.  A run lasts MaxRun at most, and no run is still busy with rows that
\* were claimed so long ago that another would take them over.
Busy(w) == IF run[w].pc \in {"read", "sent"} THEN In(run[w].batch) ELSE {}
Tick ==
    /\ \A w \in Runs : run[w].pc # "idle" => run[w].age < MaxRun
    /\ \A w \in Runs : \A n \in Busy(w) : row[n].status = "SENDING" => row[n].held + 1 < Stale
    /\ row' = [n \in Rows |->
         CASE row[n].status \in Unsent /\ row[n].due < MaxRun -> [row[n] EXCEPT !.due = @ + 1]
           [] row[n].status = "SENDING" /\ row[n].held < Stale -> [row[n] EXCEPT !.held = @ + 1]
           [] OTHER -> row[n]]
    /\ run' = [w \in Runs |-> IF run[w].pc = "idle" THEN Idle ELSE [run[w] EXCEPT !.age = @ + 1]]
    /\ UNCHANGED <<post, purged, providerVars, hookVars, breaks>>

RunStep(w) ==
    \/ \E size \in RunSizes : StartRun(w, size)
    \/ Claim(w) \/ Send(w) \/ Record(w) \/ PutOff(w)

Next ==
    \/ PostBegin \/ PostCommit \/ Purge
    \/ \E w \in Runs : RunStep(w) \/ Crash(w)
    \/ \E key \in Keys : \E bad \in SUBSET key : Arrives(key, bad)
    \/ \E h \in Handlers :
         \/ \E mail \in Emails, at \in EventTimes : EventFound(h, mail, at) \/ EventIgnored(h, mail, at)
         \/ EventStored(h)
    \/ Tick

\* Time goes on, the cron is called again and again, and a run goes on unless it is
\* cut off.  Nothing is assumed of the provider or the webhook.
Fairness == WF_vars(Tick) /\ \A w \in Runs : WF_vars(RunStep(w))

Spec == Init /\ [][Next]_vars /\ Fairness

-----------------------------------------------------------------------------
(* Properties.                                                              *)

\* No recipient is sent the message twice, although whole batches are repeated after
\* lost answers, failed transactions and crashes, and requests arrive after their
\* sender has given them up (lib/competitionMessages.server.ts:146-147, 169-170) -
\* unless an event has made a claim look younger, so that a batch that was cut off
\* may be given up in two parts and the parts be sent again under other keys.
Split(n) == \E k \in refreshed : n \in In(k)
MailedOnceUnlessSplit == \A n \in Rows : mails[n] > 1 => Split(n)

\* A recipient shown as SENT carries the id of an e-mail that it was really sent, whatever
\* part of its batch was refused and whichever came first, the answer or an event; and
\* what it shows of a delivery was reported of an e-mail to it.  It shows the earliest of
\* all the events that were reported for it, however they were ordered or repeated -
\* unless its batch was split: then it may have been sent two e-mails, and after the id of
\* the second has replaced that of the first the events of the first are ignored
\* (lib/competitionMessages.server.ts:173, lib/messageDelivery.server.ts:11-27,
\* lib/resendBatch.ts:21).
Reported(n) == UNION {reported[mail] : mail \in MailsTo(n)}
RowsTellTheirMail ==
    \A n \in Rows :
        /\ row[n].status = "SENT" => row[n].mail # None
        /\ row[n].mail # None => row[n].mail \in Mailed /\ row[n].mail[1] = n
        /\ row[n].event # None => row[n].event \in Reported(n)
        /\ Exists(n) /\ ~Split(n) =>
              row[n].event = IF Reported(n) = {} THEN None ELSE Min(Reported(n))

\* What was sent stays so until the data are purged: no run that fails or is late puts
\* it off again, with the same exception.
SentStaysSent ==
    [][\A n \in Rows : (row[n].status = "SENT" /\ Exists(n)' /\ ~Split(n)) => row'[n].status = "SENT"]_vars

\* Every recipient is in the end sent the message, finally refused or purged.
Settled(n) == \/ row[n].status = "SENT"
              \/ row[n].status = "FAILED" /\ row[n].attempts = MaxAttempts
EveryRecipientSettles == \A n \in Rows : Exists(n) ~> (Settled(n) \/ ~Exists(n))

=============================================================================
