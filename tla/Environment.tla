---------------------------- MODULE Environment ----------------------------
(***************************************************************************)
(* Configuration: an operator edits environment variables, env:check       *)
(* (scripts/lib/env-rules.ts) passes or refuses them for a target, and the *)
(* application started with them decides, variable by variable and in      *)
(* eight different files, which provider answers each call.  The rules and *)
(* the switches are written apart; this module runs them against each      *)
(* other.                                                                  *)
(*                                                                         *)
(* A secret, a key or a url is "set" when it has the form its rule asks    *)
(* for; PUBLISHABLE_KEY stands for the Supabase url and key, X_CLIENT and  *)
(* GOOGLE_CLIENT for the client and its secrets, STRIPE_KEYS for the keys  *)
(* of the account.  Variables that choose no provider are left out.        *)
(***************************************************************************)
EXTENDS Integers, FiniteSets

CONSTANTS
    StartsFrom,    \* configurations an operator starts from
    MaxSettings    \* bound: variables changed

VARIABLES
    env,           \* variable -> value
    target,        \* what the environment was checked for
    settings,      \* variables changed so far
    started        \* env:check passed and the application runs with env

environmentVars == <<env, target, settings, started>>

Values == [APP_ENV |-> {"unset", "local", "staging", "production"}, NODE_ENV |-> {"unset", "development", "production"},
           AUTH_MODE |-> {"unset", "local", "app", "supabase"}, DEV_SESSIONS |-> {"unset", "on", "off"},
           PUBLISHABLE_KEY |-> {"unset", "set"}, SERVER_SECRET_KEY |-> {"unset", "set"},
           STORAGE_PROVIDER |-> {"unset", "local", "supabase"},
           PAYMENT_MODE |-> {"unset", "mock", "sandbox", "testnet", "live", "off"}, LIVE_PAYMENTS_ENABLED |-> {"unset", "true", "false"},
           PAYMENT_PROVIDER |-> {"unset", "mock", "stripe_connect", "arc_usdc"}, STRIPE_KEYS |-> {"unset", "test", "live"},
           RELEASE_SIGNER |-> {"unset", "set"}, LOCAL_CHAIN |-> {"unset", "on", "off"},
           X_PROVIDER |-> {"unset", "mock", "live", "off"}, X_CLIENT |-> {"unset", "set"},
           GOOGLE_PROVIDER |-> {"unset", "mock", "live", "off"}, GOOGLE_CLIENT |-> {"unset", "set"}]
Names == DOMAIN Values

-----------------------------------------------------------------------------
(* checkEnvironment: per variable, whether it is required and which values are valid *)

Deployed == target # "local"
Production == target = "production"
Live == env.LIVE_PAYMENTS_ENABLED = "true"
SupabaseAuth == env.AUTH_MODE = "supabase" \/ (env.NODE_ENV = "production" /\ env.AUTH_MODE # "app")
SupabaseStorage == Deployed \/ env.STORAGE_PROVIDER = "supabase"

Required == [APP_ENV |-> FALSE, NODE_ENV |-> Deployed, AUTH_MODE |-> Deployed, DEV_SESSIONS |-> Deployed,
             PUBLISHABLE_KEY |-> SupabaseAuth, SERVER_SECRET_KEY |-> SupabaseStorage, STORAGE_PROVIDER |-> Deployed,
             PAYMENT_MODE |-> Deployed \/ Live, LIVE_PAYMENTS_ENABLED |-> Deployed,
             PAYMENT_PROVIDER |-> Live, STRIPE_KEYS |-> Live \/ env.PAYMENT_PROVIDER = "stripe_connect",
             RELEASE_SIGNER |-> FALSE, LOCAL_CHAIN |-> FALSE, X_PROVIDER |-> FALSE, X_CLIENT |-> env.X_PROVIDER = "live",
             GOOGLE_PROVIDER |-> FALSE, GOOGLE_CLIENT |-> env.GOOGLE_PROVIDER = "live"]

\* Mutant: only production refuses simulated payments.
PaymentModesAnyStaging ==
    IF Live THEN IF Production THEN {"live"} ELSE {}
    ELSE {"sandbox", "testnet", "off"} \cup (IF Production THEN {} ELSE {"mock"})

PaymentModes ==
    IF Live THEN IF Production THEN {"live"} ELSE {}
    ELSE {"sandbox", "testnet", "off"} \cup (IF Deployed THEN {} ELSE {"mock"})

Valid == [APP_ENV |-> {target}, NODE_ENV |-> IF Production THEN {"production"} ELSE {"development", "production"},
          AUTH_MODE |-> {"app", "supabase"} \cup (IF Deployed THEN {} ELSE {"local"}),
          DEV_SESSIONS |-> {"off"} \cup (IF Deployed THEN {} ELSE {"on"}),
          PUBLISHABLE_KEY |-> {"set"}, SERVER_SECRET_KEY |-> {"set"},
          STORAGE_PROVIDER |-> {"supabase"} \cup (IF Deployed THEN {} ELSE {"local"}),
          PAYMENT_MODE |-> PaymentModes, LIVE_PAYMENTS_ENABLED |-> {"true", "false"},
          PAYMENT_PROVIDER |-> IF Live THEN {"stripe_connect"}
                               ELSE {"stripe_connect", "arc_usdc"} \cup (IF Production THEN {} ELSE {"mock"}),
          STRIPE_KEYS |-> {IF Live THEN "live" ELSE "test"},
          RELEASE_SIGNER |-> IF Deployed THEN {} ELSE {"set"},
          LOCAL_CHAIN |-> {"off"} \cup (IF Deployed THEN {} ELSE {"on"}),
          X_PROVIDER |-> {"live", "off"} \cup (IF Deployed THEN {} ELSE {"mock"}), X_CLIENT |-> {"set"},
          GOOGLE_PROVIDER |-> {"live", "off"} \cup (IF Deployed THEN {} ELSE {"mock"}), GOOGLE_CLIENT |-> {"set"}]

CheckEnvironment == \A n \in Names : IF env[n] = "unset" THEN ~Required[n] ELSE env[n] \in Valid[n]

-----------------------------------------------------------------------------
(* The switches of the running application *)

NotProduction == env.NODE_ENV # "production"
MockPaymentsEnabled == NotProduction /\ env.PAYMENT_MODE \in {"unset", "mock"} /\ ~Live
LocalChainsEnabled == NotProduction /\ env.LOCAL_CHAIN # "off"
GetReleaseSigner == NotProduction
LocalStorageEnabled == NotProduction /\ env.STORAGE_PROVIDER \in {"unset", "local"}
StorageWorks == IF env.STORAGE_PROVIDER = "supabase" THEN env.SERVER_SECRET_KEY = "set" ELSE LocalStorageEnabled
XMode == CASE env.X_PROVIDER = "off" -> "off"
           [] env.X_PROVIDER = "live" -> IF env.X_CLIENT = "set" THEN "live" ELSE "off"
           [] OTHER -> IF NotProduction THEN "mock" ELSE "off"
GoogleMode == CASE env.GOOGLE_PROVIDER = "off" -> "off"
                [] env.GOOGLE_PROVIDER = "live" -> IF env.GOOGLE_CLIENT = "set" THEN "live" ELSE "off"
                [] OTHER -> IF NotProduction THEN "mock" ELSE "off"
AppSessionsEnabled == env.AUTH_MODE # "supabase" /\ (NotProduction \/ env.AUTH_MODE = "app")
DevSessionsEnabled == NotProduction /\ AppSessionsEnabled /\ env.DEV_SESSIONS # "off"
\* getActor: a first-party session, or the Supabase client, which needs its key.
SignInWorks == AppSessionsEnabled \/ env.PUBLISHABLE_KEY = "set"

StandIns == {s \in {"payments", "chain", "signer", "storage", "x", "google", "personas"} :
                CASE s = "payments" -> MockPaymentsEnabled [] s = "chain" -> LocalChainsEnabled [] s = "signer" -> GetReleaseSigner
                  [] s = "storage" -> LocalStorageEnabled [] s = "x" -> XMode = "mock" [] s = "google" -> GoogleMode = "mock"
                  [] s = "personas" -> DevSessionsEnabled}

-----------------------------------------------------------------------------
EnvironmentInit == env \in StartsFrom /\ target \in {"local", "staging", "production"} /\ settings = {} /\ started = FALSE

SetVariable(n, value) ==
    /\ ~started /\ n \notin settings /\ Cardinality(settings) < MaxSettings
    /\ value # env[n]
    /\ env' = [env EXCEPT ![n] = value] /\ settings' = settings \cup {n}
    /\ UNCHANGED <<target, started>>

\* env:check <target>, then the application starts.
EnvCheck == ~started /\ CheckEnvironment /\ started' = TRUE /\ UNCHANGED <<env, target, settings>>

EnvironmentNext == EnvCheck \/ \E n \in Names : \E value \in Values[n] : SetVariable(n, value)

\* What passed env:check starts with its switches together: live payments, live keys and their provider only all at once
\* and only in production.  An application checked for staging or production takes no simulated payment, keeps no file on
\* its own disk and lets nobody in as a persona, signs its users in, reaches its files and uses the X and Google clients
\* it selects; one checked for production runs no stand-in at all (checkEnvironment against the switches of eight files).
DeployedAsChecked ==
    started =>
        /\ Live <=> env.STRIPE_KEYS = "live"
        /\ Live => Production /\ env.PAYMENT_MODE = "live" /\ env.PAYMENT_PROVIDER = "stripe_connect"
        /\ Deployed => /\ StandIns \cap {"payments", "storage", "personas"} = {}
                       /\ SignInWorks /\ StorageWorks
                       /\ env.X_PROVIDER = "live" => XMode = "live"
                       /\ env.GOOGLE_PROVIDER = "live" => GoogleMode = "live"
        /\ Production => StandIns = {}
=============================================================================
