------------------------------ MODULE NightlyJob ------------------------------
(***************************************************************************)
(* The jobs nobody watches, over the store: the cron route, which warns    *)
(* late customers and takes the deposit of those warned a day ago, the     *)
(* route that only takes deposits, and the two webhooks with their ledger. *)
(* A request goes from one transaction, mail or reading to the next; it    *)
(* may be run twice, be refused by the store, or die in between.           *)
(* Time is in days and starts at the deadline of every rental.             *)
(***************************************************************************)
EXTENDS Store

CONSTANTS
  Rentals, Events,
  Reachable,  \* the rentals whose customer left an address
  Bajie,      \* the events of the cabinets' manufacturer, which nothing signs; the rest is Stripe's
  Lead, Grace, Retention,  \* WARNING_LEAD_MS, OVERDUE_LOSS_GRACE_MS, WEBHOOK_RETENTION_MS
  MaxTime, MaxRuns, MaxFaults
ASSUME NightAssumption ==
  /\ Reachable \subseteq Rentals /\ Bajie \subseteq Events
  /\ {Lead, Grace, Retention, MaxTime, MaxRuns, MaxFaults} \subseteq Nat

VARIABLES
  clock,
  run,     \* run[c]: what request c is doing
  mailed,  \* the messages the mail provider has taken
  acked,   \* the events whose sender was told that they are received
  runs, faults
night == <<clock, run, mailed, acked, runs, faults>>

Kinds == {"RECEIPT", "OVERDUE_WARNING", "LOSS_NOTICE"}
Times == 0..MaxTime
Jobs == {"cron", "losses"}

-----------------------------------------------------------------------------
(* The database, and the callbacks of the transactions. *)

\* A fresh night: rentals due now, no notice sent, no event received.
Fresh == [state  |-> [r \in Rentals |-> "ACTIVE"],
          closed |-> [r \in Rentals |-> None],                  \* when it was given back or lost
          notice |-> [r \in Rentals |-> [k \in Kinds |-> None]], \* the date of its NOTICE_SENT
          ledger |-> [e \in Events |-> None],
          effect |-> {}]                                        \* the events the rows reflect
Entry(status, at) == [status |-> status, at |-> at]
Operations ==
  [do : {"refresh", "sweep"}, at : Times] \cup
  [do : {"lose", "return"}, rental : Rentals, at : Times] \cup
  [do : {"record"}, rental : Rentals, kind : Kinds, at : Times] \cup
  [do : {"receive", "insert"}, event : Events, at : Times] \cup
  [do : {"apply", "settle", "fail"}, event : Events]

OverdueLossEligible(d, r, now) == d.state[r] = "OVERDUE" /\ now >= Grace
\* Mutant: any warning will do, be it of a minute ago.
WarnedAtAll(d, r, now) == d.notice[r]["OVERDUE_WARNING"] # None
WarnedLongEnough(d, r, now) ==
  d.notice[r]["OVERDUE_WARNING"] # None /\ d.notice[r]["OVERDUE_WARNING"] + Lead <= now
Purged(d, now) ==
  [e \in Events |->
     IF d.ledger[e] # None /\ d.ledger[e].status \in {"PROCESSED", "UNTRUSTED"} /\ d.ledger[e].at + Retention <= now
     THEN None ELSE d.ledger[e]]
RefreshOverdue(d, now) ==
  [d EXCEPT !.state = [r \in Rentals |-> IF @[r] = "ACTIVE" /\ now > 0 THEN "OVERDUE" ELSE @[r]]]
\* The cron route also clears the ledger of the events that were settled long ago.
Swept(d, now) == [RefreshOverdue(d, now) EXCEPT !.ledger = Purged(d, now)]
NoticeAlreadySent(d, r, kind) == d.notice[r][kind] # None
Recorded(d, r, kind, now) == IF NoticeAlreadySent(d, r, kind) THEN d ELSE [d EXCEPT !.notice[r][kind] = now]
Closed(d, r, state, now) == [d EXCEPT !.state[r] = state, !.closed[r] = now]
Noted(d, e, now) ==
  [d EXCEPT !.ledger[e] = IF @ = None THEN Entry("RECEIVED", now) ELSE [@ EXCEPT !.status = "RECEIVED"]]
Marked(d, e, status) == IF d.ledger[e] = None THEN d ELSE [d EXCEPT !.ledger[e].status = status]

Accepted(op, d) ==
  CASE op.do = "lose"   -> OverdueLossEligible(d, op.rental, op.at) \/ d.state[op.rental] = "LOST"
    [] op.do = "insert" -> d.ledger[op.event] = None  \* its callback answers "known", and changes nothing
    [] op.do = "return" -> d.state[op.rental] \in {"ACTIVE", "OVERDUE"}
    [] OTHER -> TRUE
Mutated(op, d) ==
  CASE op.do = "refresh" -> RefreshOverdue(d, op.at)
    [] op.do = "sweep"   -> Swept(d, op.at)
    [] op.do = "lose"    -> IF d.state[op.rental] = "LOST" THEN d ELSE Closed(d, op.rental, "LOST", op.at)
    [] op.do = "return"  -> Closed(d, op.rental, "COMPLETED", op.at)
    [] op.do = "record"  -> Recorded(d, op.rental, op.kind, op.at)
    [] op.do = "receive" -> Noted(d, op.event, op.at)
    [] op.do = "insert"  -> [d EXCEPT !.ledger[op.event] = Entry("UNTRUSTED", op.at)]
    [] op.do = "apply"   -> [d EXCEPT !.effect = @ \cup {op.event}]
    [] op.do = "settle"  -> Marked(d, op.event, "PROCESSED")
    [] op.do = "fail"    -> Marked(d, op.event, "FAILED")

\* The first notice that is due for a rental, as none or one.
Due(d, r) ==
  LET kind == CASE d.state[r] = "COMPLETED" -> "RECEIPT"
                [] d.state[r] = "OVERDUE"   -> "OVERDUE_WARNING"
                [] d.state[r] = "LOST"      -> "LOSS_NOTICE"
                [] OTHER -> None
  IN  IF kind = None \/ r \notin Reachable \/ NoticeAlreadySent(d, r, kind) THEN {} ELSE {[rental |-> r, kind |-> kind]}
PlanCustomerNotices(d, only) == UNION {Due(d, r) : r \in only}

-----------------------------------------------------------------------------
(* Requests.  about is the rental or event one names; at is a job's one reading of the clock; todo *)
(* is what a loop has left. *)

Rest == [step |-> "rest"]
Job(step, does, about) == [step |-> step, does |-> does, about |-> about, at |-> clock, todo |-> {}]
Delivery(step, does, e) == [step |-> step, does |-> does, about |-> e]
At(c, step) == run[c].step = step
Does(c, job) == ~At(c, "rest") /\ run[c].does = job
Goes(c, step) == run' = [run EXCEPT ![c].step = step]
Ends(c) == run' = [run EXCEPT ![c] = Rest]
\* The answer of the store is taken, if there was one.
Takes(c) == ~Pending(c) /\ Leave(c)
Trouble(c) == tx[c].told # "ok"
Answered(c, step) == At(c, step) /\ ~Pending(c)
Outside == UNCHANGED <<clock, mailed, acked, runs, faults>>

Begins(c, request) ==
  /\ At(c, "rest") /\ runs < MaxRuns
  /\ runs' = runs + 1
  /\ run' = [run EXCEPT ![c] = request]
  /\ UNCHANGED <<clock, mailed, acked, faults>>
Start(c, request, op) == Begins(c, request) /\ Ask(c, op)
\* Every job first lets time take effect.
StartJob(c) ==
  \E job \in Jobs :
    Start(c, Job("refreshing", job, None), [do |-> IF job = "cron" THEN "sweep" ELSE "refresh", at |-> clock])
Refreshed(c) ==
  /\ Answered(c, "refreshing")
  /\ IF Trouble(c) THEN Ends(c) ELSE Goes(c, IF Does(c, "cron") THEN "plan" ELSE "candidates")
  /\ Takes(c) /\ Outside
\* customer/return, which ends by sending the receipt.
StartReturn(c) ==
  \E r \in Rentals :
    Start(c, Job("returning", "return", r), [do |-> "return", rental |-> r, at |-> clock])
Returned(c) ==
  /\ Answered(c, "returning")
  /\ IF Trouble(c) THEN Ends(c) ELSE Goes(c, "plan")
  /\ Takes(c) /\ Outside

\* deliverNotices: planned on one reading, sent one by one; a success is recorded, a failure is not.
Plan(c) ==
  /\ run[c].step \in {"plan", "plan again"}
  /\ run' = [run EXCEPT ![c].step = IF @ = "plan" THEN "mailing" ELSE "mailing again",
               ![c].todo = PlanCustomerNotices(data, IF Does(c, "return") THEN {run[c].about} ELSE Rentals)]
  /\ UNCHANGED vars /\ Outside
Mailing(c) == run[c].step \in {"mailing", "mailing again"} /\ ~Pending(c)
Sent(n) == mailed' = mailed \cup {[rental |-> n.rental, kind |-> n.kind, at |-> clock]}
Without(c, x) == run' = [run EXCEPT ![c].todo = @ \ {x}]
SendNotice(c) ==
  /\ Mailing(c)
  /\ \E n \in run[c].todo :
       /\ Sent(n) /\ Without(c, n)
       /\ Ask(c, [do |-> "record", rental |-> n.rental, kind |-> n.kind, at |-> run[c].at])
  /\ UNCHANGED <<clock, acked, runs, faults>>
\* The provider refuses or cannot be reached; its silence may hide that it took the message.
SendFails(c) ==
  /\ Mailing(c) /\ faults < MaxFaults
  /\ faults' = faults + 1
  /\ \E n \in run[c].todo : (Sent(n) \/ UNCHANGED mailed) /\ Without(c, n)
  /\ Takes(c) /\ UNCHANGED <<clock, acked, runs>>
NoticesDone(c) ==
  /\ Mailing(c) /\ run[c].todo = {}
  /\ IF Does(c, "cron") /\ At(c, "mailing") THEN Goes(c, "candidates") ELSE Ends(c)
  /\ Takes(c) /\ Outside

\* The losses: chosen on one reading, each taken in a transaction that looks again.
Candidates(c) ==
  /\ At(c, "candidates")
  /\ run' = [run EXCEPT ![c].step = "losing", ![c].todo =
       {r \in Rentals : OverdueLossEligible(data, r, run[c].at) /\ WarnedLongEnough(data, r, run[c].at)}]
  /\ UNCHANGED vars /\ Outside
CaptureLoss(c) ==
  /\ Answered(c, "losing")
  /\ \E r \in run[c].todo : Without(c, r) /\ Ask(c, [do |-> "lose", rental |-> r, at |-> run[c].at])
  /\ Outside
LossesDone(c) ==
  /\ Answered(c, "losing") /\ run[c].todo = {}
  /\ IF Does(c, "cron") THEN Goes(c, "plan again") ELSE Ends(c)
  /\ Takes(c) /\ Outside

-----------------------------------------------------------------------------
(* The webhooks. *)

OnEvent(c, do) == Ask(c, [do |-> do, event |-> run[c].about])
Acknowledge(c) == acked' = acked \cup {run[c].about} /\ UNCHANGED <<clock, mailed, runs, faults>>
\* A Stripe event is looked up first, an event of the manufacturer in the transaction that records it.
StartDelivery(c) ==
  \E e \in Events \ Bajie : Begins(c, Delivery("look up", "stripe/webhook", e)) /\ UNCHANGED vars
StartNotification(c) ==
  \E e \in Bajie :
    Start(c, Delivery("inserting", "manufacturer/webhook", e), [do |-> "insert", event |-> e, at |-> clock])

\* Mutant: an event that is in the ledger is a duplicate, whatever became of it.
DuplicateIfKnown(e) == data.ledger[e] # None
Duplicate(e) == data.ledger[e] # None /\ data.ledger[e].status = "PROCESSED"
LookUp(c) ==
  /\ At(c, "look up")
  /\ IF Duplicate(run[c].about)
     THEN Acknowledge(c) /\ Ends(c) /\ UNCHANGED vars
     ELSE Outside /\ Goes(c, "receiving") /\ Ask(c, [do |-> "receive", event |-> run[c].about, at |-> clock])
Received(c) ==
  /\ Answered(c, "receiving")
  /\ IF Trouble(c) THEN Ends(c) /\ Takes(c) ELSE Goes(c, "applying") /\ OnEvent(c, "apply")
  /\ Outside
\* What fails from here on is caught, marked and answered with an error: Stripe will retry.
Applied(c) ==
  /\ Answered(c, "applying")
  /\ IF Trouble(c) THEN Goes(c, "failing") /\ OnEvent(c, "fail") ELSE Goes(c, "settling") /\ OnEvent(c, "settle")
  /\ Outside
Settled(c) ==
  /\ Answered(c, "settling")
  /\ IF Trouble(c) THEN Outside /\ Goes(c, "failing") /\ OnEvent(c, "fail")
     ELSE Acknowledge(c) /\ Ends(c) /\ Takes(c)
FailureMarked(c) ==
  /\ Answered(c, "failing")
  /\ Ends(c) /\ Takes(c) /\ Outside

\* An event of the manufacturer only makes the cabinets be read again, once.
Inserted(c) ==
  /\ Answered(c, "inserting")
  /\ \/ ~Trouble(c) /\ Outside /\ Goes(c, "reconciling")
        /\ \E outcome \in {"settle", "fail"} : OnEvent(c, outcome)
     \/ tx[c].told = "refused" /\ Acknowledge(c) /\ Ends(c) /\ Takes(c)
     \/ Trouble(c) /\ tx[c].told # "refused" /\ Outside /\ Ends(c) /\ Takes(c)
Reconciled(c) ==
  /\ Answered(c, "reconciling")
  /\ IF Trouble(c) THEN Outside ELSE Acknowledge(c)
  /\ Ends(c) /\ Takes(c)

-----------------------------------------------------------------------------

\* A job takes minutes, and a platform kills it after five: no day passes during one.
Tick ==
  /\ clock < MaxTime
  /\ \A c \in Clients : At(c, "rest") \/ Does(c, "stripe/webhook") \/ Does(c, "manufacturer/webhook")
  /\ clock' = clock + 1
  /\ UNCHANGED <<vars, run, mailed, acked, runs, faults>>
Works(c) == Steps(c) /\ UNCHANGED night
Breaks(c) ==
  /\ faults < MaxFaults /\ Broken(c)
  /\ faults' = faults + 1 /\ UNCHANGED <<clock, run, mailed, acked, runs>>
Crash(c) ==
  /\ faults < MaxFaults /\ ~At(c, "rest")
  /\ faults' = faults + 1
  /\ Ends(c) /\ Leave(c)
  /\ UNCHANGED <<clock, mailed, acked, runs>>

NightInit ==
  /\ Init
  /\ clock = 0 /\ runs = 0 /\ faults = 0
  /\ run = [c \in Clients |-> Rest]
  /\ mailed = {} /\ acked = {}
Cron(c) == \/ StartJob(c) \/ Refreshed(c) \/ StartReturn(c) \/ Returned(c) \/ Plan(c) \/ SendNotice(c)
           \/ SendFails(c) \/ NoticesDone(c) \/ Candidates(c) \/ CaptureLoss(c) \/ LossesDone(c)
Webhook(c) == \/ StartDelivery(c) \/ LookUp(c) \/ Received(c) \/ Applied(c) \/ Settled(c)
              \/ FailureMarked(c) \/ StartNotification(c) \/ Inserted(c) \/ Reconciled(c)
NightNext == Tick \/ \E c \in Clients : Cron(c) \/ Webhook(c) \/ Works(c) \/ Breaks(c) \/ Crash(c)
NightSpec == NightInit /\ [][NightNext]_<<vars, night>>

-----------------------------------------------------------------------------
(* What the nights must never do. *)

\* Nobody loses a deposit before the date the warning names, nor without a warning that the mail
\* provider took a full day before: internal/cron promises it of every customer, and the requests
\* that run together, die or repeat each other must keep it.
LossAfterWarning ==
  \A r \in Rentals : data.state[r] = "LOST" =>
    /\ data.closed[r] >= Grace
    /\ \E m \in mailed : m.rental = r /\ m.kind = "OVERDUE_WARNING" /\ m.at + Lead <= data.closed[r]
\* Stripe never delivers again what it was told is received, so its effect is in the rows by then,
\* whatever other delivery of the event failed or died (route stripe/webhook).
AcknowledgedIsApplied == acked \ Bajie \subseteq data.effect
=============================================================================
