------------------------------- MODULE Digital -------------------------------
(***************************************************************************)
(* Digital products: releases, licence sales, downloads and the refund      *)
(* before the first download (digital/index.ts, digital/commands.ts,        *)
(* catalog/commands.ts, jobs/index.ts, and the triggers on                  *)
(* digital_entitlements and orders).                                        *)
(***************************************************************************)
EXTENDS Naturals, FiniteSets

CONSTANTS Buyers,       \* each buys at most once here
          Products,     \* the terms the creator may publish: [license, stock, updates, limit]
          MaxVersions   \* bound on releases

ASSUME DigitalAssumption == /\ MaxVersions \in Nat
                            /\ \A p \in Products : p.license = "EXCLUSIVE" => p.stock = 1

VARIABLES product,    \* the published terms
          releases,   \* releases[v]: "READY" or "QUARANTINED", for versions 1..Len
          order,      \* order[b]: the status of b's order
          licence,    \* digital_entitlements: licence[b] = [state, terms, release, count, got]
          takenBack   \* the buyers whose purchase was cancelled before any download

digitalVars == <<product, releases, order, licence, takenBack>>

NoStock == 0   \* digital_stock is null: no limit
NoTerms == [license |-> "none", stock |-> NoStock, updates |-> "none", limit |-> 0]
NoLicence == [state |-> "NONE", terms |-> NoTerms, release |-> 0, count |-> 0, got |-> {}]
LiveStates == {"HELD", "EXPIRY_RECONCILING", "ACTIVE"}

DigitalInit == /\ product \in Products /\ releases = <<>>
               /\ order = [b \in Buyers |-> "NONE"]
               /\ licence = [b \in Buyers |-> NoLicence] /\ takenBack = {}

Versions == DOMAIN releases
LatestRelease == Cardinality(Versions)
LiveLicences == {b \in Buyers : licence[b].state \in LiveStates}

----------------------------------------------------------------------------
\* addDigitalRelease: an upload that passed its checks becomes the next version.
AddRelease == /\ LatestRelease < MaxVersions
              /\ releases' = [v \in 1 .. LatestRelease + 1 |-> IF v \in Versions THEN releases[v] ELSE "READY"]
              /\ UNCHANGED <<product, order, licence, takenBack>>

\* An operator holds the file of a release for review.
QuarantineRelease(v) == /\ v \in Versions /\ releases[v] = "READY"
                        /\ releases' = [releases EXCEPT ![v] = "QUARANTINED"]
                        /\ UNCHANGED <<product, order, licence, takenBack>>

\* updateService with digitalFields: stock counts for the next sale, the terms for new orders only.
UpdateProduct(p) == /\ p \in Products \ {product} /\ product' = p
                    /\ UNCHANGED <<releases, order, licence, takenBack>>

\* Mutant: only other exclusive licences stand in the way of an exclusive one.
AdmitsOtherExclusive(p) ==
    /\ \A b \in LiveLicences : licence[b].terms.license # "EXCLUSIVE"
    /\ p.stock # NoStock /\ p.license # "EXCLUSIVE" => Cardinality(LiveLicences) < p.stock

\* digital_entitlement_guard, under the lock on the product's sales.
Admits(p) ==
    /\ \A b \in LiveLicences : licence[b].terms.license # "EXCLUSIVE"
    /\ p.license = "EXCLUSIVE" => LiveLicences = {}
    /\ p.stock # NoStock => Cardinality(LiveLicences) < p.stock

\* book with digitalPurchaseOf and holdEntitlement.
BuyDigital(b) ==
    /\ order[b] = "NONE" /\ LatestRelease > 0 /\ Admits(product)
    /\ order' = [order EXCEPT ![b] = "AWAITING_PAYMENT"]
    /\ licence' = [licence EXCEPT ![b] = [state |-> "HELD", terms |-> product, release |-> LatestRelease, count |-> 0, got |-> {}]]
    /\ UNCHANGED <<product, releases, takenBack>>

\* order_entitlement_sync: what a change of the order's status does to its licence.
Synced(l, status) ==
    CASE status = "FUNDED" /\ l.state \in {"HELD", "EXPIRY_RECONCILING"} -> [l EXCEPT !.state = "ACTIVE"]
      [] status \in {"CANCELLED", "REFUNDED"} /\ l.state \in {"HELD", "EXPIRY_RECONCILING"} -> [l EXCEPT !.state = "RELEASED"]
      [] status \in {"CANCELLED", "REFUNDED"} /\ l.state = "ACTIVE" -> [l EXCEPT !.state = "REVOKED"]
      [] OTHER -> l

SetStatus(b, status) == /\ order' = [order EXCEPT ![b] = status]
                        /\ licence' = [licence EXCEPT ![b] = Synced(@, status)]
                        /\ UNCHANGED <<product, releases>>

\* The payment arrives: funded, and delivered at once by fulfillDigitalOrder in the same transaction.
FundDigital(b) == /\ order[b] = "AWAITING_PAYMENT"
                  /\ LET active == Synced(licence[b], "FUNDED") IN
                     /\ licence' = [licence EXCEPT ![b] = active]
                     /\ order' = [order EXCEPT ![b] = IF active.state = "ACTIVE" THEN "DELIVERED" ELSE "FUNDED"]
                  /\ UNCHANGED <<product, releases, takenBack>>

\* expireCheckoutHolds: an open payment that cannot be cancelled yet keeps the stock, otherwise the order is cancelled.
HoldReconciles(b) == /\ order[b] = "AWAITING_PAYMENT" /\ licence[b].state = "HELD"
                     /\ licence' = [licence EXCEPT ![b].state = "EXPIRY_RECONCILING"]
                     /\ UNCHANGED <<product, releases, order, takenBack>>
HoldExpires(b) == /\ order[b] = "AWAITING_PAYMENT" /\ licence[b].state \in {"HELD", "EXPIRY_RECONCILING"}
                  /\ SetStatus(b, "CANCELLED") /\ UNCHANGED takenBack

\* downloadableReleases
Downloadable(l) == {v \in Versions : l.terms.updates = "LATEST" \/ v <= l.release}

\* createEntitlementDownload: the version asked for, or the newest the licence covers.
Download(b, v) ==
    /\ licence[b].state = "ACTIVE" /\ v \in Downloadable(licence[b]) /\ releases[v] = "READY"
    /\ licence[b].count < licence[b].terms.limit
    /\ licence' = [licence EXCEPT ![b].count = @ + 1, ![b].got = @ \union {v}]
    /\ UNCHANGED <<product, releases, order, takenBack>>

\* refundDigitalPurchase: before the first download, within the review window.
RefundDigital(b) == /\ order[b] = "DELIVERED" /\ licence[b].state = "ACTIVE" /\ licence[b].count = 0
                    /\ SetStatus(b, "CANCELLED") /\ takenBack' = takenBack \union {b}

\* The ordinary life of a delivered order: revisions, approval or auto-accept, agreed cancellation, a dispute decided either way.
OrderMove == {<<"DELIVERED", "REVISION_REQUESTED">>, <<"REVISION_REQUESTED", "DELIVERED">>, <<"DELIVERED", "COMPLETED">>,
              <<"DELIVERED", "CANCELLED">>, <<"REVISION_REQUESTED", "CANCELLED">>, <<"DELIVERED", "DISPUTED">>,
              <<"REVISION_REQUESTED", "DISPUTED">>, <<"DISPUTED", "COMPLETED">>, <<"DISPUTED", "REFUNDED">>}

DigitalOrderMoves(b) == \E status \in {m[2] : m \in {n \in OrderMove : n[1] = order[b]}} : SetStatus(b, status) /\ UNCHANGED takenBack

DigitalNext ==
    \/ AddRelease \/ (\E v \in 1 .. MaxVersions : QuarantineRelease(v)) \/ (\E p \in Products : UpdateProduct(p))
    \/ \E b \in Buyers : \/ BuyDigital(b) \/ FundDigital(b) \/ HoldReconciles(b) \/ HoldExpires(b) \/ RefundDigital(b)
                         \/ DigitalOrderMoves(b) \/ \E v \in 1 .. MaxVersions : Download(b, v)

----------------------------------------------------------------------------
\* What a licence promises survives every later change of the product and of the other sales: an exclusive licence is
\* the only live one, a licence is live exactly while its order is, a purchase taken back for a full refund gave no file
\* away, and a licence for the purchased version never reached a later one (holdEntitlement and its trigger,
\* refundDigitalPurchase, createEntitlementDownload).
LicenceHonoured ==
    /\ \A b \in LiveLicences : licence[b].terms.license = "EXCLUSIVE" => LiveLicences = {b}
    /\ \A b \in Buyers : b \in LiveLicences <=> order[b] \notin {"NONE", "CANCELLED", "REFUNDED"}
    /\ \A b \in takenBack : licence[b].got = {}
    /\ \A b \in Buyers : licence[b].terms.updates = "PURCHASED_VERSION" => licence[b].got \subseteq 1 .. licence[b].release
=============================================================================
