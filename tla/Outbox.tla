------------------------------- MODULE Outbox -------------------------------
(***************************************************************************)
(* The notification outbox: rows written with the domain change            *)
(* (notifications/enqueue.ts), claimed under a five-minute lease by         *)
(* overlapping runs of dispatchNotificationOutbox (jobs/index.ts), rendered *)
(* and delivered channel by channel by a dispatcher that lives as long as   *)
(* the run (notifications/index.ts), into a table with a unique key         *)
(* (notifications/store.ts).  A run may crash at any point and may outlive  *)
(* its lease.  Wording is left out; a template keeps its channels, its      *)
(* category and the parameters it declares.                                 *)
(***************************************************************************)
EXTENDS Naturals, Sequences, FiniteSets

CONSTANTS Runs,               \* runs of the job that may overlap
          Messages,           \* semantic keys of the notifications that can be enqueued
          Payload,            \* Payload[m]: [template, given: names passed, bad: names with an unusable value]
          Reminders,          \* the messages order_reminders enqueues
          MaxOutboxAttempts,  \* MAX_OUTBOX_ATTEMPTS
          MaxSinkFaults       \* bound: failed database calls of the sink, and crashed runs

ASSUME OutboxAssumption == /\ IsFiniteSet(Messages) /\ Reminders \subseteq Messages
                           /\ MaxOutboxAttempts \in Nat \ {0} /\ MaxSinkFaults \in Nat

VARIABLES outbox,    \* outbox[m]: [status, attempts, due]; due: available_at (or the lease) has passed
          run,       \* run[r]: [todo: claimed rows in order, left: channels still to send, failed: one failed, seen: attempts at the claim]
          inbox,     \* app.notifications: the rows <<m, channel, read>> with their unique dedupe key, as a bag of counts
          sinkFaults

outboxVars == <<outbox, run, inbox, sinkFaults>>

----------------------------------------------------------------------------
(* The template catalogue. *)

Channels == {"in_app", "email"}
Entry(default, params) == [category |-> "transactional", default |-> default, params |-> params]
ref == {"ref"}
Money(names) == names \union {"amount", "currency"}

\* One catalogue of several that name different templates.
Catalogue(parts) == [t \in UNION {DOMAIN part : part \in parts} |-> (CHOOSE part \in parts : t \in DOMAIN part)[t]]

OrderTemplates == Catalogue({
    [t \in {"order.brief_missing", "order.revision_requested", "order.approved", "order.overdue", "order.cancellation_requested"}
        |-> Entry(Channels, ref)],
    [t \in {"order.new"} |-> Entry(Channels, ref \union {"text"})],
    [t \in {"order.due_soon", "order.delivered", "order.review_reminder"} |-> Entry(Channels, ref \union {"instant"})],
    [t \in {"order.completed"} |-> Entry({"in_app"}, ref)]})

AccountTemplates == Catalogue({
    [t \in {"auth.email_verification_requested", "auth.password_reset_requested"}
        |-> [category |-> "security", default |-> {"email"}, params |-> {}]],
    [t \in {"payment.pending"} |-> Entry({"in_app"}, Money(ref))],
    [t \in {"payment.confirmed"} |-> Entry(Channels, Money(ref))]})

AgreementTemplates == Catalogue({
    [t \in {"order.cancellation_resolved", "order.deadline_extension_resolved"} |-> Entry({"in_app"}, ref \union {"cancellationOutcome"})],
    [t \in {"order.deadline_extension_requested"} |-> Entry(Channels, ref \union {"instant"})],
    [t \in {"payment.disputed"} |-> Entry({"in_app"}, ref \union {"disputeStage"})]})

SettlementTemplates == Catalogue({
    [t \in {"payment.returned", "payout.failed", "dispute.opened", "dispute.resolved"} |-> Entry(Channels, ref)],
    [t \in {"payout.succeeded"} |-> Entry(Channels, Money(ref))],
    [t \in {"refund.updated"} |-> Entry(Channels, Money(ref \union {"refundStatus"}))]})

MarketTemplates == Catalogue({
    [t \in {"request.application_received", "auction.expired"} |-> Entry({"in_app"}, ref)],
    [t \in {"request.hire_offer"} |-> Entry(Channels, ref)],
    [t \in {"auction.outbid"} |-> Entry({"in_app"}, Money(ref))],
    [t \in {"auction.won"} |-> Entry(Channels, Money(ref \union {"instant"}))],
    [t \in {"pool.asset_missing"} |-> Entry(Channels, ref \union {"currency"})],
    [t \in {"marketing.new_offers"} |-> [category |-> "marketing", default |-> {"email"}, params |-> {}]]})

Template == Catalogue({AccountTemplates, OrderTemplates, AgreementTemplates, SettlementTemplates, MarketTemplates})

\* validateParam: every declared parameter is there with a usable value.
ValidParams(m) == Template[Payload[m].template].params \intersect Payload[m].bad = {}
                  /\ Template[Payload[m].template].params \subseteq Payload[m].given

\* renderNotification: a known template and no parameter it does not declare.
Renders(m) == /\ Payload[m].template \in DOMAIN Template
              /\ Payload[m].given \subseteq Template[Payload[m].template].params
              /\ ValidParams(m)

\* Without a preferences callback nobody opted in to marketing.
Suppressed(m) == Template[Payload[m].template].category = "marketing"

ChannelsOf(m) == IF Suppressed(m) THEN {} ELSE Template[Payload[m].template].default

----------------------------------------------------------------------------
NoRow == [status |-> "NONE", attempts |-> 0, due |-> FALSE]
Idle == [todo |-> <<>>, left |-> {}, failed |-> FALSE, seen |-> <<>>]

OutboxInit == /\ outbox = [m \in Messages |-> NoRow]
              /\ run = [r \in Runs |-> Idle]
              /\ inbox = [mc \in Messages \X Channels |-> [rows |-> 0, read |-> FALSE]]
              /\ sinkFaults = 0

\* insert ... on conflict (semantic_key) do nothing
EnqueueAll(ms) == outbox' = [m \in Messages |->
    IF m \in ms /\ outbox[m].status = "NONE" THEN [status |-> "PENDING", attempts |-> 0, due |-> TRUE] ELSE outbox[m]]

EnqueueNotification(m) == EnqueueAll({m}) /\ UNCHANGED <<run, inbox, sinkFaults>>

\* The orders in their last 24 hours, at once in one transaction; running again enqueues nothing twice.
SendOrderReminders(ms) == ms \subseteq Reminders /\ EnqueueAll(ms) /\ UNCHANGED <<run, inbox, sinkFaults>>

\* now() passes available_at, or the five minutes of a claim.
OutboxTime(m) == /\ outbox[m].status \in {"FAILED", "PROCESSING"} /\ ~outbox[m].due
                 /\ outbox' = [outbox EXCEPT ![m].due = TRUE]
                 /\ UNCHANGED <<run, inbox, sinkFaults>>

Claimable == {m \in Messages : outbox[m].status # "NONE" /\ outbox[m].status # "SENT"
                               /\ outbox[m].due /\ outbox[m].attempts < MaxOutboxAttempts}

\* One update ... returning: the rows are taken together, in the order they were created.
ClaimRows(r) ==
    /\ run[r] = Idle /\ Claimable # {}
    /\ outbox' = [m \in Messages |-> IF m \in Claimable
                    THEN [status |-> "PROCESSING", attempts |-> outbox[m].attempts + 1, due |-> FALSE] ELSE outbox[m]]
    /\ \E order \in [1..Cardinality(Claimable) -> Claimable] :
          /\ \A i, j \in DOMAIN order : i # j => order[i] # order[j]
          /\ run' = [run EXCEPT ![r] = [todo |-> order, failed |-> FALSE,
                        left |-> IF Renders(order[1]) THEN ChannelsOf(order[1]) ELSE {},
                        seen |-> [i \in DOMAIN order |-> outbox[order[i]].attempts + 1]]]
    /\ UNCHANGED <<inbox, sinkFaults>>

\* Mutant: the insert without its unique key.
StoredAgain(row) == [row EXCEPT !.rows = @ + 1]

\* DatabaseNotificationSink.deliver: the insert stores one row for a dedupe key, and finds the old one again.
StoredAs(row) == IF row.rows = 0 THEN [row EXCEPT !.rows = 1] ELSE row

Deliver(r) ==
    \E c \in run[r].left :
       /\ inbox' = [inbox EXCEPT ![<<Head(run[r].todo), c>>] = StoredAs(@)]
       /\ run' = [run EXCEPT ![r].left = @ \ {c}]
       /\ UNCHANGED <<outbox, sinkFaults>>

\* The sink throws: the row may or may not have been stored, and the dispatcher goes on with the next channel.
DeliverFails(r) ==
    /\ sinkFaults < MaxSinkFaults /\ sinkFaults' = sinkFaults + 1
    /\ \E c \in run[r].left :
          /\ run' = [run EXCEPT ![r].left = @ \ {c}, ![r].failed = TRUE]
          /\ \/ UNCHANGED inbox
             \/ inbox' = [inbox EXCEPT ![<<Head(run[r].todo), c>>] = StoredAs(@)]
    /\ UNCHANGED outbox

NextRow(work) ==
    IF Len(work.todo) = 1 THEN Idle
    ELSE LET rest == Tail(work.todo)
         IN  [todo |-> rest, failed |-> FALSE, seen |-> Tail(work.seen),
              left |-> IF Renders(Head(rest)) THEN ChannelsOf(Head(rest)) ELSE {}]

\* What the run writes for a row it has finished, whatever another run wrote meanwhile.
Written(m, work) ==
    IF ~Renders(m) THEN [status |-> "FAILED", attempts |-> MaxOutboxAttempts, due |-> FALSE]
    ELSE IF work.failed THEN [status |-> "FAILED", attempts |-> outbox[m].attempts, due |-> FALSE]
    ELSE [status |-> "SENT", attempts |-> outbox[m].attempts, due |-> outbox[m].due]

RecordOutcome(r) ==
    /\ run[r] # Idle /\ run[r].left = {}
    /\ outbox' = [outbox EXCEPT ![Head(run[r].todo)] = Written(Head(run[r].todo), run[r])]
    /\ run' = [run EXCEPT ![r] = NextRow(run[r])]
    /\ UNCHANGED <<inbox, sinkFaults>>

\* The write of the outcome throws; the catch puts the row back with the attempts it had at the claim.
RecordFails(r) ==
    /\ run[r] # Idle /\ run[r].left = {} /\ Renders(Head(run[r].todo))
    /\ sinkFaults < MaxSinkFaults /\ sinkFaults' = sinkFaults + 1
    /\ outbox' = [outbox EXCEPT ![Head(run[r].todo)] = [status |-> "FAILED", attempts |-> Head(run[r].seen), due |-> FALSE]]
    /\ run' = [run EXCEPT ![r] = NextRow(run[r])]
    /\ UNCHANGED inbox

\* The worker process stops: its rows stay PROCESSING until the lease ends.
RunCrashes(r) == /\ run[r] # Idle /\ sinkFaults < MaxSinkFaults
                 /\ sinkFaults' = sinkFaults + 1
                 /\ run' = [run EXCEPT ![r] = Idle]
                 /\ UNCHANGED <<outbox, inbox>>

\* markRead, for one notification or for all of the recipient's.
MarkRead(ms) == /\ inbox' = [mc \in DOMAIN inbox |-> IF mc[1] \in ms /\ mc[2] = "in_app" /\ inbox[mc].rows > 0
                                THEN [inbox[mc] EXCEPT !.read = TRUE] ELSE inbox[mc]]
                /\ UNCHANGED <<outbox, run, sinkFaults>>

RunStep(r) == ClaimRows(r) \/ Deliver(r) \/ RecordOutcome(r)

OutboxNext == \/ \E m \in Messages : EnqueueNotification(m) \/ OutboxTime(m)
              \/ \E ms \in SUBSET Reminders : SendOrderReminders(ms)
              \/ \E r \in Runs : RunStep(r) \/ DeliverFails(r) \/ RecordFails(r) \/ RunCrashes(r)
              \/ \E ms \in {Messages} \union {{m} : m \in Messages} : MarkRead(ms)

----------------------------------------------------------------------------
(* Properties. *)

\* However many runs handle a row, a recipient gets each channel once and nothing for a message that cannot be
\* rendered; and a row that reads SENT has reached every channel of its template (dispatchNotificationOutbox,
\* NotificationDispatcher.dispatch, the unique dedupe key).
SentIsDelivered ==
    /\ \A mc \in DOMAIN inbox : \/ inbox[mc].rows = 0
                                \/ inbox[mc].rows = 1 /\ Renders(mc[1]) /\ mc[2] \in ChannelsOf(mc[1])
    /\ \A m \in Messages : outbox[m].status = "SENT" => Renders(m) /\ \A c \in ChannelsOf(m) : inbox[<<m, c>>].rows = 1
=============================================================================
