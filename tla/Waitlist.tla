------------------------------ MODULE Waitlist ------------------------------
(***************************************************************************)
(* The waitlist (waitlist/): a signup form that may be sent twice, from two *)
(* tabs or after a lost answer, a welcome email whose provider may answer   *)
(* late or never, and the link in it that adds an X handle later.  Each     *)
(* statement of the route is a transaction of its own, and the process may  *)
(* stop between any two.                                                    *)
(*                                                                         *)
(* An address has many spellings; the row holds the normalised one.  The    *)
(* token of a request is the request itself, of which the table keeps a     *)
(* hash.                                                                    *)
(***************************************************************************)
EXTENDS Integers, FiniteSets

CONSTANTS
    Posts,          \* requests that send the signup form
    Spellings,      \* what is typed: spelling -> address
    Networks,       \* ip hashes
    XHandles,       \* handles people add
    RateMax,        \* RATE_LIMIT.max
    Window,         \* RATE_LIMIT.windowMinutes, in ticks
    HandleDays,     \* HANDLE_TOKEN_DAYS, in ticks
    MaxTicks,       \* bound on time
    MaxStops,       \* bound: statements that fail and processes that stop
    NoSignup        \* no signup with this address

Welcomes == {"PENDING", "SENT", "FAILED", "PREVIEWED"}
SignupRows == [token : Posts, net : Networks \cup {"none"}, created : Nat, handle : XHandles \cup {"none"}, welcome : Welcomes]

ASSUME WaitlistAssumption == {RateMax, Window, HandleDays, MaxTicks, MaxStops} \subseteq Nat /\ NoSignup \notin SignupRows

VARIABLES
    signups,        \* address -> [token, net, created, handle, welcome] or NoSignup
    post,           \* request -> [at, typed, net, result]
    welcomed,       \* emails the provider accepted: <<address, token>> under the key of the signup
    known,          \* tokens a person holds, from an answer or an email
    ticks, stops

waitlistVars == <<signups, post, welcomed, known, ticks, stops>>

Addresses == {Spellings[s] : s \in DOMAIN Spellings}
NotSent == [at |-> "unsent", typed |-> "none", net |-> "none", result |-> "PENDING"]
Created == {a \in Addresses : signups[a] # NoSignup}

WaitlistInit ==
    /\ signups = [a \in Addresses |-> NoSignup] /\ post = [r \in Posts |-> NotSent]
    /\ welcomed = {} /\ known = {} /\ ticks = 0 /\ stops = 0

-----------------------------------------------------------------------------
(* POST: email, role and consent *)

NormalizeEmail(typed) == Spellings[typed]
AddressOf(r) == NormalizeEmail(post[r].typed)
Answer(r) == [post EXCEPT ![r] = [NotSent EXCEPT !.at = "answered"]]
To(r, at) == post' = [post EXCEPT ![r].at = at]

\* isSameOrigin, parseSignup: another site, an invalid form or a filled honeypot field changes nothing.
Refused(r) ==
    /\ post[r] = NotSent /\ post' = Answer(r)
    /\ UNCHANGED <<signups, welcomed, known, ticks, stops>>

\* The form is accepted; net = "none" when no address of the client is known.
SendForm(r, typed, net) ==
    /\ post[r] = NotSent
    /\ post' = [post EXCEPT ![r] = [at |-> IF net = "none" THEN "insert" ELSE "count", typed |-> typed, net |-> net, result |-> "PENDING"]]
    /\ UNCHANGED <<signups, welcomed, known, ticks, stops>>

Recent(net) == {a \in Created : signups[a].net = net /\ signups[a].created > ticks - Window}

\* count(*) of the recent signups of the network, before and apart from the insert.
CountRecent(r) ==
    /\ post[r].at = "count"
    /\ IF Cardinality(Recent(post[r].net)) >= RateMax THEN post' = Answer(r) ELSE To(r, "insert")
    /\ UNCHANGED <<signups, welcomed, known, ticks, stops>>

NewRow(r) == [token |-> r, net |-> post[r].net, created |-> ticks, handle |-> "none", welcome |-> "PENDING"]

\* Mutant: on conflict (email) do update.
InsertOrUpdate(r) == signups' = [signups EXCEPT ![AddressOf(r)] = NewRow(r)] /\ To(r, "email")

\* on conflict (email) do nothing: only a new signup goes on to the welcome email.
InsertRow(r) ==
    IF signups[AddressOf(r)] = NoSignup
    THEN signups' = [signups EXCEPT ![AddressOf(r)] = NewRow(r)] /\ To(r, "email")
    ELSE signups' = signups /\ post' = Answer(r)

InsertSignup(r) == post[r].at = "insert" /\ InsertRow(r) /\ UNCHANGED <<welcomed, known, ticks, stops>>

\* renderWelcomeEmail and deliverWelcomeEmail.  The email carries the token.
Delivered(r, result) ==
    /\ post[r].at = "email"
    /\ post' = [post EXCEPT ![r].at = "record", ![r].result = result]
    /\ UNCHANGED <<signups, ticks, stops>>
Sends(r) == welcomed' = welcomed \cup {<<AddressOf(r), r>>} /\ known' = known \cup {r}

EmailSent(r) == Delivered(r, "SENT") /\ Sends(r)
\* The provider refuses, or answers after TIMEOUT_MS: the race is lost, whether or not the email goes out.
EmailFailed(r) == Delivered(r, "FAILED") /\ (Sends(r) \/ UNCHANGED <<welcomed, known>>)
\* No provider is configured: a preview on disk in development, a failure in production.
EmailPreviewed(r) == \E result \in {"PREVIEWED", "FAILED"} : Delivered(r, result) /\ UNCHANGED <<welcomed, known>>

\* publicBaseUrl has no url: the signup stands and the status stays as it was.
EmailNotRendered(r) == /\ post[r].at = "email" /\ To(r, "respond") /\ UNCHANGED <<signups, welcomed, known, ticks, stops>>

RecordDelivery(r) ==
    /\ post[r].at = "record" /\ To(r, "respond")
    /\ signups' = [a \in Addresses |-> IF signups[a] # NoSignup /\ signups[a].token = r
                                       THEN [signups[a] EXCEPT !.welcome = post[r].result] ELSE signups[a]]
    /\ UNCHANGED <<welcomed, known, ticks, stops>>

Respond(r) ==
    /\ post[r].at = "respond" /\ post' = Answer(r) /\ known' = known \cup {r}
    /\ UNCHANGED <<signups, welcomed, ticks, stops>>

\* A statement fails (503, or a delivery left unrecorded), the process stops, or the answer is lost.
RequestStops(r) ==
    /\ post[r].at \in {"count", "insert", "email", "record", "respond"} /\ stops < MaxStops /\ stops' = stops + 1
    /\ \/ post' = Answer(r)
       \/ post[r].at = "record" /\ To(r, "respond")
    /\ UNCHANGED <<signups, welcomed, known, ticks>>

-----------------------------------------------------------------------------
(* PATCH: the X handle, with the token of the answer or of the email *)

\* normalizeXHandle refuses what is no handle; the statement checks the token, its age and that none was set.
Linked(token, a) == /\ signups[a] # NoSignup /\ signups[a].token = token /\ signups[a].handle = "none"
                    /\ signups[a].created > ticks - HandleDays

AttachHandle(token, handle) ==
    /\ token \in known /\ \E a \in Addresses : Linked(token, a)
    /\ signups' = [a \in Addresses |-> IF Linked(token, a) THEN [signups[a] EXCEPT !.handle = handle] ELSE signups[a]]
    /\ UNCHANGED <<post, welcomed, known, ticks, stops>>

TimePasses == ticks < MaxTicks /\ ticks' = ticks + 1 /\ UNCHANGED <<signups, post, welcomed, known, stops>>

WaitlistNext ==
    \/ \E r \in Posts : \/ Refused(r) \/ CountRecent(r) \/ InsertSignup(r) \/ RecordDelivery(r) \/ Respond(r) \/ RequestStops(r)
                        \/ EmailSent(r) \/ EmailFailed(r) \/ EmailPreviewed(r) \/ EmailNotRendered(r)
                        \/ \E typed \in DOMAIN Spellings, net \in Networks \cup {"none"} : SendForm(r, typed, net)
    \/ \E token \in Posts, handle \in XHandles : AttachHandle(token, handle)
    \/ TimePasses

\* However often a form is sent, with whatever spelling, and wherever a request stops: an address is welcomed at most
\* once, the link it got still opens its own row, a row that says SENT was welcomed, and a token that reached a person
\* belongs to a row (POST).
WelcomedOnce ==
    /\ \A a \in Addresses : Cardinality({m \in welcomed : m[1] = a}) <= 1
    /\ \A m \in welcomed : m[1] \in Created /\ signups[m[1]].token = m[2]
    /\ \A a \in Created : signups[a].welcome = "SENT" => <<a, signups[a].token>> \in welcomed
    /\ known \subseteq {signups[a].token : a \in Created}
=============================================================================
