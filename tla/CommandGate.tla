----------------------------- MODULE CommandGate -----------------------------
(***************************************************************************)
(* The command envelope: who may run which command, and the replay of a     *)
(* command by its idempotency key (app/api/commands/route.ts, lib/auth.ts,  *)
(* lib/account.ts, lib/onboarding.ts, admin/policy.ts).                     *)
(*                                                                          *)
(* The actor is read before the transaction opens, so a suspension may      *)
(* commit in between; the transaction holds the lock on actor, command and  *)
(* key, so it is one step.  A response may be lost and the form sent again, *)
(* unchanged or edited under the same key.                                  *)
(***************************************************************************)
EXTENDS Naturals, FiniteSets

CONSTANTS Submits,      \* requests in flight
          Keys,         \* idempotency keys of one actor
          Inputs,       \* form values, as the hash tells them apart
          MaxFaults     \* bound on handlers that fail and connections that are lost

ASSUME GateAssumption == MaxFaults \in Nat /\ "none" \notin Inputs

VARIABLES actor,      \* [roles, active, onboarded]: the account as committed
          submit,     \* submit[r]: [at, command, key, input, seen]; seen is the actor as the request read it
          commands,   \* app.commands: commands[<<command, key>>] is the stored input, or "none"
          effects,    \* effects[<<command, key>>]: the inputs whose handler committed, in a bag of counts
          gateFaults

gateVars == <<actor, submit, commands, effects, gateFaults>>

----------------------------------------------------------------------------
(* The checks before the transaction; commands are represented by one of each kind the checks tell apart. *)

CreatorCommands == {"publish_service", "deliver"}
BuyerCommands == {"create_request", "book", "approve"}
OperatorCommands == {"admin_suspend_user"}
Commands == CreatorCommands \union BuyerCommands \union OperatorCommands

\* needsOnboarding: what puts the account in front of others.
Gated == {"publish_service", "create_request"}

\* SUSPENDED_ALLOWED_COMMANDS: existing obligations only.
SuspendedAllowed == {"deliver", "approve"}

RequiredAccountType(c) == IF c \in CreatorCommands THEN {"creator"} ELSE IF c \in BuyerCommands THEN {"buyer"} ELSE {}

PrivilegedRoles == {"moderator", "finance", "support", "admin"}

\* requireRole, in the handler of an operator command.
RequireRole(a, roles) == a.active /\ a.roles \cap roles # {}

Admitted(a, c) ==
    /\ c \in OperatorCommands \/ a.roles \cap {"buyer", "creator"} # {}
    /\ RequiredAccountType(c) \subseteq a.roles
    /\ a.active \/ c \in SuspendedAllowed

----------------------------------------------------------------------------
IdleSubmit == [at |-> "IDLE", command |-> "none", key |-> "none", input |-> "none", seen |-> [roles |-> {}, active |-> FALSE, onboarded |-> FALSE]]
Slots == Commands \X Keys

GateInit == /\ actor \in [roles : {{"creator"}, {"buyer"}, {"admin"}, {"support"}}, active : {TRUE}, onboarded : BOOLEAN]
            /\ submit = [r \in Submits |-> IdleSubmit]
            /\ commands = [s \in Slots |-> "none"]
            /\ effects = [s \in Slots |-> [i \in Inputs |-> 0]]
            /\ gateFaults = 0

\* POST: session and roles, as getActor reads them.  The form may repeat a key, with the same values or others.
PostForm(r, c, k, i) ==
    /\ submit[r].at = "IDLE"
    /\ submit' = [submit EXCEPT ![r] = [at |-> "READ", command |-> c, key |-> k, input |-> i, seen |-> actor]]
    /\ UNCHANGED <<actor, commands, effects, gateFaults>>

\* The checks; onboarded_at is read again here.
CheckActor(r) ==
    LET s == submit[r] IN
    /\ s.at = "READ"
    /\ submit' = [submit EXCEPT ![r].at = IF Admitted(s.seen, s.command) /\ (s.command \in Gated => actor.onboarded)
                                          THEN "ADMITTED" ELSE "REFUSED"]
    /\ UNCHANGED <<actor, commands, effects, gateFaults>>

\* Mutant: the stored result is returned whatever the form now says.
ReplaysAnyInput(stored, input) == stored # "none"

\* A key already used: its result is returned for the same values, and refused for others.
Replays(stored, input) == stored = input

\* The handler's own refusals: the operator's grant, and everything else that makes it throw.
Throws(s) == IF s.command \in OperatorCommands THEN ~RequireRole(s.seen, {"admin"}) /\ UNCHANGED gateFaults
             ELSE gateFaults < MaxFaults /\ gateFaults' = gateFaults + 1

\* The transaction: replay, conflict, or the handler with the row that records it.
RunCommand(r) ==
    LET s == submit[r]
        slot == <<s.command, s.key>>
        Ends(at) == submit' = [submit EXCEPT ![r].at = at]
    IN  /\ s.at = "ADMITTED"
        /\ \/ Replays(commands[slot], s.input) /\ Ends("DONE") /\ UNCHANGED <<commands, effects, gateFaults>>
           \/ /\ commands[slot] # "none" /\ ~Replays(commands[slot], s.input)
              /\ Ends("CONFLICT") /\ UNCHANGED <<commands, effects, gateFaults>>
           \/ commands[slot] = "none" /\ Throws(s) /\ Ends("REFUSED") /\ UNCHANGED <<commands, effects>>
           \/ /\ commands[slot] = "none"
              /\ s.command \in OperatorCommands => RequireRole(s.seen, {"admin"})
              /\ commands' = [commands EXCEPT ![slot] = s.input]
              /\ effects' = [effects EXCEPT ![slot][s.input] = @ + 1]
              /\ Ends("DONE") /\ UNCHANGED gateFaults
        /\ UNCHANGED actor

\* The person sees the answer, or the connection is lost after the commit; either way the form can be sent again.
Answered(r) == /\ submit[r].at \in {"DONE", "CONFLICT", "REFUSED"}
               /\ submit' = [submit EXCEPT ![r] = IdleSubmit]
               /\ UNCHANGED <<actor, commands, effects, gateFaults>>

\* Another session of the same person finishes the set-up; an operator suspends or reinstates the account.
CompleteOnboarding == /\ ~actor.onboarded /\ actor' = [actor EXCEPT !.onboarded = TRUE]
                      /\ UNCHANGED <<submit, commands, effects, gateFaults>>
SetSuspended == /\ actor' = [actor EXCEPT !.active = ~@]
                /\ UNCHANGED <<submit, commands, effects, gateFaults>>

GateNext ==
    \/ \E r \in Submits : \/ \E c \in Commands, k \in Keys, i \in Inputs : PostForm(r, c, k, i)
                          \/ CheckActor(r) \/ RunCommand(r) \/ Answered(r)
    \/ CompleteOnboarding \/ SetSuspended

----------------------------------------------------------------------------
\* One key runs one command once, however often the form is sent: its handler committed at most one input, and whoever
\* is told "done" is told so about the values they sent.  No command of the other account type, and no operator command
\* without the admin grant, ever took effect (the POST handler of app/api/commands).
OnceExecuted ==
    /\ \A s \in Slots : \A i \in Inputs : effects[s][i] = 0 \/ (effects[s][i] = 1 /\ \A j \in Inputs \ {i} : effects[s][j] = 0)
    /\ \A r \in Submits : submit[r].at = "DONE" => effects[<<submit[r].command, submit[r].key>>][submit[r].input] = 1
    /\ \A s \in Slots, i \in Inputs : effects[s][i] > 0 =>
          RequiredAccountType(s[1]) \subseteq actor.roles /\ (s[1] \in OperatorCommands => "admin" \in actor.roles)
=============================================================================
