----------------------------- MODULE MCServices -----------------------------
(***************************************************************************)
(* TLC instances of everything around the order and its money.  Beside the *)
(* scenarios of the market, those of the platform: the notification outbox,*)
(* sign-in and X profiles, file storage, the webhook inbox, the command    *)
(* route, the card provider's own ledger, the configuration and the        *)
(* waitlist.  They share no variable; a behaviour follows one of them and  *)
(* the others stay as they were.                                           *)
(***************************************************************************)
EXTENDS MCMarket, Outbox, Identity, Storage, Webhooks, CommandGate, MCCard, Environment, Waitlist

MCPayload == [late |-> [template |-> "order.overdue", given |-> {"ref"}, bad |-> {}],
              money |-> [template |-> "payment.confirmed", given |-> {"ref", "amount", "currency"}, bad |-> {"amount"}],
              offers |-> [template |-> "marketing.new_offers", given |-> {}, bad |-> {}]]
MCMessages == DOMAIN MCPayload
MCUses == {<<"DELIVERY", "video/mp4">>, <<"AVATAR", "image/png">>, <<"BRIEF", "application/zip">>}
MCFirstHandle == [s \in XSubjects |-> IF s = "x1" THEN "ann" ELSE "bea"]

MCLocal == [[n \in Names |-> "unset"] EXCEPT !.APP_ENV = "local", !.PAYMENT_MODE = "mock",
               !.LIVE_PAYMENTS_ENABLED = "false", !.STORAGE_PROVIDER = "local"]
MCDeployed == [[n \in Names |-> "unset"] EXCEPT !.APP_ENV = "production", !.NODE_ENV = "production", !.AUTH_MODE = "app",
                  !.DEV_SESSIONS = "off", !.SERVER_SECRET_KEY = "set", !.STORAGE_PROVIDER = "supabase",
                  !.PAYMENT_MODE = "off", !.LIVE_PAYMENTS_ENABLED = "false"]
MCLive == [MCDeployed EXCEPT !.PAYMENT_MODE = "live", !.LIVE_PAYMENTS_ENABLED = "true", !.PAYMENT_PROVIDER = "stripe_connect",
                            !.STRIPE_KEYS = "live"]
MCStaging == [MCDeployed EXCEPT !.APP_ENV = "staging", !.NODE_ENV = "development", !.PAYMENT_MODE = "sandbox"]
MCStartsFrom == {MCLocal, MCDeployed, MCLive, MCStaging}
MCSpellings == [ann |-> "ann", Ann |-> "ann", bea |-> "bea"]

\* A creator who signed up with X and added an email beside one who signed up with Google; both are signed in.
Connected ==
    /\ member = [u \in Members |-> [made |-> TRUE, creator |-> TRUE, email |-> u = "u1", active |-> TRUE]]
    /\ identity = [u \in Members |-> [p \in {"X", "GOOGLE"} |-> CASE u = "u1" /\ p = "X" -> "x1"
                                                              [] u # "u1" /\ p = "GOOGLE" -> "g"
                                                              [] OTHER -> NoSubject]]
    /\ xcopy = [u \in Members |-> IF u = "u1" THEN [NoCopy EXCEPT !.id = "x1", !.handle = "ann", !.link = "ann"] ELSE NoCopy]
    /\ social = [h \in Handles |-> IF h = "ann" THEN [owner |-> "u1", verified |-> TRUE] ELSE Unlisted]
    /\ oauth = [f \in Flows |-> NoFlow]
    /\ xhandle = FirstHandle /\ signedIn = Members /\ lookup = NoLookup /\ reads = 0 /\ renames = 0
    /\ wallet = [owner |-> NoMember, challenge |-> NoMember]

PlatformScenarios == {"outbox", "sign_in", "x_profile", "storage", "webhooks", "commands", "card", "environment", "waitlist"}

PlatformInit ==
        /\ OutboxInit /\ StorageInit /\ WebhookInit /\ GateInit /\ CardInit /\ EnvironmentInit /\ WaitlistInit
        /\ IF focus = "x_profile" THEN Connected ELSE IdentityInit
        /\ focus # "commands" => actor.roles = {"creator"}
        /\ actor.onboarded <=> actor.roles \cap PrivilegedRoles # {}
        /\ focus # "card" => config.bank
        /\ focus # "environment" => env = MCLocal /\ target = "local"

\* At most two notifications at a time.
Notifying == OutboxNext /\ outboxVars' # outboxVars /\ Cardinality({m \in Messages : outbox'[m].status # "NONE"}) <= 2

SigningIn == \/ OAuthNext
             \/ \E u \in Members : \/ DisconnectX(u) \/ DisconnectGoogle(u) \/ AddEmail(u) \/ Login(u) \/ Logout(u)
                                   \/ CreateWalletChallenge(u) \/ VerifyWalletChallenge(u)

\* One attempt to connect X, or to sign in with it, beside the settings page and the refresh; x1 may be renamed.
Profiling == /\ \/ OAuthNext \/ RefreshNext
                \/ \E u \in Members : \/ DisconnectX(u) \/ Login(u) \/ Logout(u)
                                      \/ \E h \in {"cat"} : AddSocialAccount(u, h) \/ RemoveSocialAccount(u, h)
             /\ oauth'["f2"] = NoFlow /\ oauth'["f1"].provider = "X" /\ oauth'["f1"].purpose # "SIGN_UP" /\ xhandle'["x2"] = FirstHandle["x2"]

\* One command at a time, for one key; the first request always sends the same values.  An account sends the commands of
\* its type and of an operator, and one of each other type.
Sent(roles) == {c \in Commands : RequiredAccountType(c) \subseteq roles} \union {"none", "deliver", "create_request"}
Posting == /\ GateNext
           /\ Cardinality({submit'[r].command : r \in Submits} \ {"none"}) <= 1
           /\ Cardinality({s \in Slots : commands'[s] # "none"}) <= 1
           /\ submit'["s1"].input \in {"none", "i"}
           /\ \A r \in Submits : submit'[r].command \in Sent(actor.roles)

\* The first event is e1 (events are alike); at most two deliveries on the network, and two rows in the inbox.
Delivering == /\ WebhookNext /\ Cardinality(sent') <= 2 /\ (Emitted' # {} => "e1" \in Emitted')
              /\ Cardinality({e \in Facts : inbox_'[e].stored}) <= 2
\* Two forms for one address in two spellings, or for two (forms and addresses are alike); the network of the second is known.
Joining == /\ WaitlistNext /\ post'["p1"].typed \in {"none", "Ann", "bea"} /\ post'["p2"].typed \in {"none", "ann"}
           /\ post'["p2"].typed # "none" => post'["p2"].net # "none"

PlatformNext ==
        \/ focus = "outbox" /\ Notifying /\ UNCHANGED <<identityVars, storageVars, webhookVars, gateVars, cardVars, environmentVars, waitlistVars>>
        \/ focus = "sign_in" /\ SigningIn /\ UNCHANGED <<outboxVars, storageVars, webhookVars, gateVars, cardVars, environmentVars, waitlistVars>>
        \/ focus = "x_profile" /\ Profiling /\ UNCHANGED <<outboxVars, storageVars, webhookVars, gateVars, cardVars, environmentVars, waitlistVars>>
        \/ focus = "storage" /\ StorageNext /\ UNCHANGED <<outboxVars, identityVars, webhookVars, gateVars, cardVars, environmentVars, waitlistVars>>
        \/ focus = "webhooks" /\ Delivering
           /\ UNCHANGED <<outboxVars, identityVars, storageVars, gateVars, cardVars, environmentVars, waitlistVars>>
        \/ focus = "commands" /\ Posting /\ UNCHANGED <<outboxVars, identityVars, storageVars, webhookVars, cardVars, environmentVars, waitlistVars>>
        \/ focus = "card" /\ Charging /\ UNCHANGED <<outboxVars, identityVars, storageVars, webhookVars, gateVars, environmentVars, waitlistVars>>
        \/ focus = "environment" /\ EnvironmentNext
           /\ UNCHANGED <<outboxVars, identityVars, storageVars, webhookVars, gateVars, cardVars, waitlistVars>>
        \/ focus = "waitlist" /\ Joining
           /\ UNCHANGED <<outboxVars, identityVars, storageVars, webhookVars, gateVars, cardVars, environmentVars>>

platformVars == <<outboxVars, identityVars, storageVars, webhookVars, gateVars, cardVars, environmentVars, waitlistVars>>

Init == focus \in MarketScenarios \union PlatformScenarios /\ MarketInit /\ PlatformInit
Next == /\ UNCHANGED focus
        /\ \/ MarketNext /\ UNCHANGED platformVars
           \/ PlatformNext /\ UNCHANGED marketVars
Spec == Init /\ [][Next]_<<focus, marketVars, platformVars>>
=============================================================================
