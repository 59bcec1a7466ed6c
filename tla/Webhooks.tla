------------------------------ MODULE Webhooks ------------------------------
(***************************************************************************)
(* From a provider event to its single application: signing and signature   *)
(* verification with secret rotation and a time tolerance, the durable      *)
(* inbox, processing, the job that repeats it, and facts fetched from the   *)
(* provider instead (payments/providers.ts, payments/funding.ts,            *)
(* jobs/index.ts, app/api/webhooks/mock-payment).                           *)
(*                                                                          *)
(* Deliveries may be duplicated, delayed, reordered or lost; storing,       *)
(* processing and counting a failed attempt are separate transactions, and  *)
(* the process may stop between them.  What an event does is in Payments.   *)
(***************************************************************************)
EXTENDS Naturals, Sequences, FiniteSets

CONSTANTS Events,        \* events the provider emits for this account
          FetchedFacts,  \* facts the reconciliation job fetches, stored under ids of their own
          Tolerance,     \* toleranceSeconds
          MaxClock,      \* bound on time
          MaxInboxTries, \* maxAttempts of the reprocessing job
          MaxApplyFaults \* bound on transactions that fail

ASSUME WebhookAssumption == {Tolerance, MaxClock, MaxInboxTries, MaxApplyFaults} \subseteq Nat /\ FetchedFacts \cap Events = {}

VARIABLES clock,
          secrets,      \* configured secrets, the signing one first
          undelivered,  \* emitted events not yet handed out, in order
          sent,         \* signed deliveries on the network: [event, account, body, secret, at]
          batch,        \* the deliveries deliverPendingMockWebhooks has taken and not yet received
          inbox_,       \* inbox_[e]: [stored, processed, attempts]
          handling,     \* handling[w]: the event worker w has stored or listed and not yet processed, with what it does next
          applied,      \* applied[e]: how often the effect of e committed
          applyFaults

webhookVars == <<clock, secrets, undelivered, sent, batch, inbox_, handling, applied, applyFaults>>

Facts == Events \union FetchedFacts
Rotation == <<<<"s1">>, <<"s2", "s1">>, <<"s2">>>>
Workers == {"route", "loop", "job"}
NotHandling == [event |-> "none", next |-> "REST"]

WebhookInit == /\ clock = 0 /\ secrets = Rotation[1] /\ undelivered = <<>> /\ sent = {} /\ batch = <<>>
               /\ inbox_ = [e \in Facts |-> [stored |-> FALSE, processed |-> FALSE, attempts |-> 0]]
               /\ handling = [w \in Workers |-> NotHandling]
               /\ applied = [e \in Facts |-> 0] /\ applyFaults = 0

----------------------------------------------------------------------------
(* The provider. *)

Emitted == {e \in Events : (\E i \in DOMAIN undelivered : undelivered[i] = e) \/ \E d \in sent : d.event = e}

Emit(e) == /\ e \notin Emitted
           /\ undelivered' = Append(undelivered, e)
           /\ UNCHANGED <<clock, secrets, sent, batch, inbox_, handling, applied, applyFaults>>

\* signMockWebhook, with the first secret and the present time.
Signed(e) == [event |-> e, account |-> "ours", body |-> "event", secret |-> secrets[1], at |-> clock]

\* takeWebhookDeliveries: the queue is cleared before anything is received.
TakeDeliveries ==
    /\ undelivered # <<>> /\ batch = <<>> /\ handling["loop"] = NotHandling
    /\ batch' = [i \in DOMAIN undelivered |-> Signed(undelivered[i])]
    /\ sent' = sent \union {Signed(undelivered[i]) : i \in DOMAIN undelivered}
    /\ undelivered' = <<>>
    /\ UNCHANGED <<clock, secrets, inbox_, handling, applied, applyFaults>>

\* redeliverWebhook: the same bytes, signed afresh.
Redeliver(e) == /\ \E d \in sent : d.event = e
                /\ Signed(e) \notin sent /\ sent' = sent \union {Signed(e)}
                /\ UNCHANGED <<clock, secrets, undelivered, batch, inbox_, handling, applied, applyFaults>>

\* A delivery of another account or environment, one that is no event, or one signed with no secret of ours.
Stray == {[event |-> e, account |-> a, body |-> b, secret |-> s, at |-> clock] :
             e \in Events, a \in {"ours", "other"}, b \in {"event", "malformed"}, s \in {"s1", "unknown"}}
         \ {[event |-> e, account |-> "ours", body |-> "event", secret |-> "s1", at |-> clock] : e \in Events}

ClockTicks == /\ clock < MaxClock /\ clock' = clock + 1
              /\ UNCHANGED <<secrets, undelivered, sent, batch, inbox_, handling, applied, applyFaults>>

RotateSecret == /\ \E i \in 1 .. 2 : secrets = Rotation[i] /\ secrets' = Rotation[i + 1]
                /\ UNCHANGED <<clock, undelivered, sent, batch, inbox_, handling, applied, applyFaults>>

----------------------------------------------------------------------------
(* receivePaymentWebhook *)

Distance(a, b) == IF a < b THEN b - a ELSE a - b

\* verifyMockWebhookSignature: any configured secret, and a recent signature.
SignatureHolds(d) == (\E i \in DOMAIN secrets : secrets[i] = d.secret) /\ Distance(clock, d.at) <= Tolerance
\* parseMockEventBody: a known type, object and status that agree, and an atomic amount.
Parses(d) == d.body = "event"
\* The environment and the account of the signed body.
OurContext(d) == d.account = "ours"
Verified(d) == SignatureHolds(d) /\ Parses(d) /\ OurContext(d)

\* Insert, on conflict do nothing.
StoredRows(e) == [inbox_ EXCEPT ![e].stored = TRUE]

ReceiveAtRoute(d) ==
    /\ handling["route"] = NotHandling /\ Verified(d)
    /\ inbox_' = StoredRows(d.event)
    /\ handling' = [handling EXCEPT !["route"] = [event |-> d.event, next |-> "PROCESS"]]
    /\ UNCHANGED <<clock, secrets, undelivered, sent, batch, applied, applyFaults>>

\* deliverPendingMockWebhooks, one delivery at a time; an error ends the loop and loses the rest of the batch.
ReceiveNext ==
    /\ batch # <<>> /\ handling["loop"] = NotHandling
    /\ IF Verified(Head(batch))
       THEN /\ batch' = Tail(batch) /\ inbox_' = StoredRows(Head(batch).event)
            /\ handling' = [handling EXCEPT !["loop"] = [event |-> Head(batch).event, next |-> "PROCESS"]]
       ELSE batch' = <<>> /\ UNCHANGED <<inbox_, handling>>
    /\ UNCHANGED <<clock, secrets, undelivered, sent, applied, applyFaults>>

\* applyFetchedProviderFact: no signature, an id made of the reference and the status.
StoreFetched(e) ==
    /\ e \in FetchedFacts /\ handling["job"] = NotHandling
    /\ inbox_' = StoredRows(e)
    /\ handling' = [handling EXCEPT !["job"] = [event |-> e, next |-> "PROCESS"]]
    /\ UNCHANGED <<clock, secrets, undelivered, sent, batch, applied, applyFaults>>

\* reprocessWebhookInbox: rows not processed, with attempts left.
ListUnprocessed(e) ==
    /\ handling["job"] = NotHandling
    /\ inbox_[e].stored /\ ~inbox_[e].processed /\ inbox_[e].attempts < MaxInboxTries
    /\ handling' = [handling EXCEPT !["job"] = [event |-> e, next |-> "PROCESS"]]
    /\ UNCHANGED <<clock, secrets, undelivered, sent, batch, inbox_, applied, applyFaults>>

\* Mutant: the row is read without looking at processed_at again.
NeverProcessed(e) == FALSE

\* The processed_at read under the row lock.
AlreadyProcessed(e) == inbox_[e].processed

\* processVerifiedEvent: the effect and processed_at in one transaction.
Process(w) ==
    LET e == handling[w].event IN
    /\ handling[w].next = "PROCESS"
    /\ handling' = [handling EXCEPT ![w] = NotHandling]
    /\ IF AlreadyProcessed(e) THEN UNCHANGED <<inbox_, applied>>
       ELSE /\ applied' = [applied EXCEPT ![e] = @ + 1]
            /\ inbox_' = [inbox_ EXCEPT ![e].processed = TRUE, ![e].attempts = @ + 1]
    /\ UNCHANGED <<clock, secrets, undelivered, sent, batch, applyFaults>>

\* It is rolled back; the attempt is counted outside it.
ProcessFails(w) ==
    /\ handling[w].next = "PROCESS" /\ ~AlreadyProcessed(handling[w].event)
    /\ applyFaults < MaxApplyFaults /\ applyFaults' = applyFaults + 1
    /\ handling' = [handling EXCEPT ![w].next = "COUNT"]
    /\ UNCHANGED <<clock, secrets, undelivered, sent, batch, inbox_, applied>>

CountAttempt(w) ==
    /\ handling[w].next = "COUNT"
    /\ inbox_' = [inbox_ EXCEPT ![handling[w].event].attempts = @ + 1]
    /\ handling' = [handling EXCEPT ![w] = NotHandling]
    /\ batch' = IF w = "loop" THEN <<>> ELSE batch
    /\ UNCHANGED <<clock, secrets, undelivered, sent, applied, applyFaults>>

\* The process stops between two transactions.
HandlerStops(w) ==
    /\ handling[w] # NotHandling /\ applyFaults < MaxApplyFaults /\ applyFaults' = applyFaults + 1
    /\ handling' = [handling EXCEPT ![w] = NotHandling]
    /\ batch' = IF w = "loop" THEN <<>> ELSE batch
    /\ UNCHANGED <<clock, secrets, undelivered, sent, inbox_, applied>>

WebhookNext ==
    \/ \E e \in Events : Emit(e) \/ Redeliver(e)
    \/ TakeDeliveries \/ ReceiveNext \/ ClockTicks \/ RotateSecret
    \/ \E d \in sent \union Stray : ReceiveAtRoute(d)
    \/ \E e \in FetchedFacts : StoreFetched(e)
    \/ \E e \in Facts : ListUnprocessed(e)
    \/ \E w \in Workers : Process(w) \/ ProcessFails(w) \/ CountAttempt(w) \/ HandlerStops(w)

----------------------------------------------------------------------------
\* However deliveries are duplicated, delayed and reordered, and wherever the process stops: an event takes effect once,
\* exactly when its row says processed, and only what the provider sent for this account is ever stored
\* (receivePaymentWebhook, processVerifiedEvent, reprocessWebhookInbox).
AppliedOnce ==
    \A e \in Facts : /\ applied[e] = IF inbox_[e].processed THEN 1 ELSE 0
                     /\ inbox_[e].processed => inbox_[e].stored
                     /\ inbox_[e].stored /\ e \in Events => \E d \in sent : d.event = e
=============================================================================
