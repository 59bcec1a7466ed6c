------------------------------ MODULE Listings ------------------------------
(***************************************************************************)
(* A service listing: drafts, samples and their moderation, immutable       *)
(* versions, publishing, reports, and the booking of one exact version      *)
(* (catalog/commands.ts, publish/commands.ts, moderation/commands.ts,       *)
(* admin/commands.ts).  Commands on the listing hold its row; the person    *)
(* acts on the page they opened, which may be older.  Removing the linked   *)
(* account checks for live listings first and removes it afterwards.        *)
(***************************************************************************)
EXTENDS Naturals, Sequences, FiniteSets

CONSTANTS ServiceTerms,  \* title, scope, price, turnaround and the like, as a buyer tells them apart
          Clients,       \* buyers
          MaxEdits       \* bound on the version counter of the listing

ASSUME ListingAssumption == MaxEdits \in Nat

VARIABLES service,     \* services: [status, version, terms, channel, published]
          versions,    \* service_versions, oldest first: [terms, channel]; immutable
          sample,      \* the work sample of this service: its moderation state, or "NONE"
          channel,     \* social_accounts: "LINKED", "REMOVING" (checked, not yet removed) or "REMOVED"
          editor,      \* the version the creator's open form expects
          shown,       \* shown[b]: the number of the version on b's page, or 0
          booked,      \* booked[b]: [version, terms, agreed] of b's order, agreed being the terms b's page showed
          creatorState,
          bookingOn,   \* BOOKING_ENABLED and CHECKOUT_CREATION_ENABLED
          report_      \* the report on this listing: "NONE", "OPEN", "ACTIONED" or "DISMISSED"

listingVars == <<service, versions, sample, channel, editor, shown, booked, creatorState, bookingOn, report_>>

Unbooked == [version |-> 0, terms |-> "none", agreed |-> "none"]

\* createService, with a link or an uploaded sample: such samples start APPROVED by the schema default.
ListingInit ==
    /\ \E t \in ServiceTerms, c \in BOOLEAN :
          service = [status |-> "DRAFT", version |-> 1, terms |-> t, channel |-> c, published |-> 0]
    /\ sample \in {"NONE", "APPROVED"}
    /\ versions = <<>> /\ channel = "LINKED" /\ editor = 1
    /\ shown = [b \in Clients |-> 0] /\ booked = [b \in Clients |-> Unbooked]
    /\ creatorState = "ACTIVE" /\ bookingOn = TRUE /\ report_ = "NONE"

Current(s) == [terms |-> s.terms, channel |-> s.channel]

----------------------------------------------------------------------------
(* The creator's side. *)

AddSample == /\ sample = "NONE" /\ sample' = "PENDING"
             /\ UNCHANGED <<service, versions, channel, editor, shown, booked, creatorState, bookingOn, report_>>

OpenEditor == /\ editor # service.version /\ editor' = service.version
              /\ UNCHANGED <<service, versions, sample, channel, shown, booked, creatorState, bookingOn, report_>>

\* ownedService and assertVersion.
ExpectedVersion == editor = service.version

\* ownedSocialAccount: a new version of a PUBLISH listing needs its account live, when it is read.
ChannelLive(s) == s.channel => channel # "REMOVED"

\* snapshotVersion: the current fields, unless the latest version already has them.
Snapshot(s) == IF versions # <<>> /\ versions[Len(versions)] = Current(s) THEN versions ELSE Append(versions, Current(s))

Saves(s) == /\ service' = [s EXCEPT !.version = service.version + 1, !.published = IF versions' = <<>> THEN 0 ELSE Len(versions')]
            /\ UNCHANGED <<sample, channel, editor, shown, booked, creatorState, bookingOn, report_>>

\* A live listing changes through a new version only.
SnapshotOnEdit(s) == s.status \in {"PUBLISHED", "PAUSED"}

UpdateService(t) ==
    LET s == [service EXCEPT !.terms = t] IN
    /\ ExpectedVersion /\ service.status # "ARCHIVED" /\ service.version < MaxEdits /\ t # service.terms
    /\ IF SnapshotOnEdit(s) THEN ChannelLive(s) /\ versions' = Snapshot(s) ELSE UNCHANGED versions
    /\ Saves(s)

\* assertPublishable: an approved sample linked to it, and the channel it names.
Publishable(s) == sample = "APPROVED" /\ ChannelLive(s)

PublishService ==
    /\ creatorState = "ACTIVE" /\ ExpectedVersion /\ service.status # "ARCHIVED" /\ service.version < MaxEdits
    /\ Publishable(service)
    /\ versions' = Snapshot(service) /\ Saves([service EXCEPT !.status = "PUBLISHED"])

SetListingStatus(status) ==
    /\ ExpectedVersion /\ service.status # "ARCHIVED" /\ service.version < MaxEdits
    /\ status = "PAUSED" => service.status = "PUBLISHED"
    /\ service' = [service EXCEPT !.status = status, !.version = @ + 1]
    /\ UNCHANGED <<versions, sample, channel, editor, shown, booked, creatorState, bookingOn, report_>>

\* removeSocialAccount: first the check, then the draft loses the channel and the account goes.
CheckChannelUnused == /\ channel = "LINKED" /\ ~(service.channel /\ service.status \in {"PUBLISHED", "PAUSED"})
                      /\ channel' = "REMOVING"
                      /\ UNCHANGED <<service, versions, sample, editor, shown, booked, creatorState, bookingOn, report_>>
RemoveChannel ==
    /\ channel = "REMOVING" /\ channel' = "REMOVED" /\ service.version < MaxEdits
    /\ service' = IF service.status = "DRAFT" /\ service.channel THEN [service EXCEPT !.channel = FALSE, !.version = @ + 1] ELSE service
    /\ UNCHANGED <<versions, sample, editor, shown, booked, creatorState, bookingOn, report_>>

----------------------------------------------------------------------------
(* Operators. *)

\* moderateSample, and quarantineFile for an uploaded one.
ModerateSample(decision) == /\ sample \notin {"NONE", decision} /\ sample' = decision
                            /\ UNCHANGED <<service, versions, channel, editor, shown, booked, creatorState, bookingOn, report_>>

SetUserStatus == /\ creatorState' = IF creatorState = "ACTIVE" THEN "SUSPENDED" ELSE "ACTIVE"
                 /\ UNCHANGED <<service, versions, sample, channel, editor, shown, booked, bookingOn, report_>>

SetFlag == /\ bookingOn' = ~bookingOn
           /\ UNCHANGED <<service, versions, sample, channel, editor, shown, booked, creatorState, report_>>

\* reportContent: what the reporter can see, once while it is open.
ReportContent == /\ report_ # "OPEN" /\ service.status = "PUBLISHED" /\ report_' = "OPEN"
                 /\ UNCHANGED <<service, versions, sample, channel, editor, shown, booked, creatorState, bookingOn>>

\* resolveReport: dismissed, or one action the target allows.
ResolveReport(action) ==
    /\ report_ = "OPEN" /\ report_' = IF action = "DISMISS" THEN "DISMISSED" ELSE "ACTIONED"
    /\ action = "PAUSE_SERVICE" => service.version < MaxEdits
    /\ service' = IF action = "PAUSE_SERVICE" /\ service.status = "PUBLISHED"
                  THEN [service EXCEPT !.status = "PAUSED", !.version = @ + 1] ELSE service
    /\ creatorState' = IF action = "SUSPEND_USER" THEN "SUSPENDED" ELSE creatorState
    /\ UNCHANGED <<versions, sample, channel, editor, shown, booked, bookingOn>>

----------------------------------------------------------------------------
(* The buyer. *)

\* The service page shows the published version and sends its id with the form.
OpenListing(b) == /\ service.status = "PUBLISHED" /\ shown[b] # service.published
                  /\ shown' = [shown EXCEPT ![b] = service.published]
                  /\ UNCHANGED <<service, versions, sample, channel, editor, booked, creatorState, bookingOn, report_>>

\* Mutant: the order takes whatever version is published by then.
AnyQuote(b) == TRUE

\* The QUOTE_CHANGED check of book.
QuoteStands(b) == shown[b] = service.published

Book(b) ==
    /\ shown[b] # 0 /\ booked[b].version = 0
    /\ bookingOn /\ service.status = "PUBLISHED" /\ creatorState = "ACTIVE" /\ QuoteStands(b)
    /\ booked' = [booked EXCEPT ![b] = [version |-> service.published, terms |-> versions[service.published],
                                        agreed |-> versions[shown[b]]]]
    /\ UNCHANGED <<service, versions, sample, channel, editor, shown, creatorState, bookingOn, report_>>

ListingNext ==
    \/ AddSample \/ OpenEditor \/ PublishService \/ CheckChannelUnused \/ RemoveChannel \/ SetUserStatus \/ SetFlag \/ ReportContent
    \/ \E t \in ServiceTerms : UpdateService(t)
    \/ \E status \in {"PAUSED", "ARCHIVED"} : SetListingStatus(status)
    \/ \E decision \in {"APPROVED", "REJECTED"} : ModerateSample(decision)
    \/ \E action \in {"DISMISS", "PAUSE_SERVICE", "SUSPEND_USER", "NONE"} : ResolveReport(action)
    \/ \E b \in Clients : OpenListing(b) \/ Book(b)

----------------------------------------------------------------------------
\* An order is for the terms the buyer had in front of them, whatever the creator edits and republishes meanwhile; what
\* was sold stays readable as sold; and a live listing shows its current terms, so the next page shows what the creator
\* last wrote (updateService, snapshotVersion, publishService, book).
SoldAsSeen ==
    /\ \A b \in Clients : booked[b].version # 0 => booked[b].terms = booked[b].agreed /\ versions[booked[b].version] = booked[b].terms
    /\ service.status \in {"PUBLISHED", "PAUSED"} => versions[service.published] = Current(service)
=============================================================================
