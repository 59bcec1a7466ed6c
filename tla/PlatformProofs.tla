--------------------------- MODULE PlatformProofs ---------------------------
(***************************************************************************)
(* Proofs about the platform's own services: the command route, the        *)
(* webhook inbox, file storage, the configuration, the waitlist, the       *)
(* outbox, the card provider the rail is run against, and the ways into    *)
(* an account, each for any number of requests, events, files, posts,      *)
(* messages, operation ids, accounts and faults.                           *)
(***************************************************************************)
EXTENDS CommandGate, Webhooks, Storage, Environment, Waitlist, Outbox, CardProvider, Identity,
        TotalsTheorems, TLAPS

-----------------------------------------------------------------------------
(* The command route *)

GateSpec == GateInit /\ [][GateNext]_gateVars

Actors == [roles : {{"creator"}, {"buyer"}, {"admin"}, {"support"}}, active : BOOLEAN, onboarded : BOOLEAN]
Blank == [roles |-> {}, active |-> FALSE, onboarded |-> FALSE]
SubmitRows == [at : {"IDLE", "READ", "ADMITTED", "REFUSED", "DONE", "CONFLICT"}, command : Commands \cup {"none"},
               key : Keys \cup {"none"}, input : Inputs \cup {"none"}, seen : Actors \cup {Blank}]

GateTypes ==
    /\ actor \in Actors /\ submit \in [Submits -> SubmitRows]
    /\ commands \in [Slots -> Inputs \cup {"none"}] /\ effects \in [Slots -> [Inputs -> Nat]]

\* What a request knows: its roles are the account's, which only its suspension and its set-up change.
SubmitInv(s) ==
    /\ s.at # "IDLE" => /\ s.command \in Commands /\ s.key \in Keys /\ s.input \in Inputs
                        /\ s.seen \in Actors /\ s.seen.roles = actor.roles
    /\ s.at = "ADMITTED" => RequiredAccountType(s.command) \subseteq actor.roles
    /\ s.at = "DONE" => commands[<<s.command, s.key>>] = s.input

\* What a stored command says: its input took effect once and no other did, and the account may run it.
SlotInv(s) ==
    /\ \A i \in Inputs : effects[s][i] = IF commands[s] = i THEN 1 ELSE 0
    /\ commands[s] # "none" => /\ RequiredAccountType(s[1]) \subseteq actor.roles
                               /\ s[1] \in OperatorCommands => "admin" \in actor.roles

GateInv == GateTypes /\ (\A r \in Submits : SubmitInv(submit[r])) /\ \A s \in Slots : SlotInv(s)

LEMMA GateInitHolds == GateInit => GateInv
<1> SUFFICES ASSUME GateInit PROVE GateInv
    OBVIOUS
<1>1. GateTypes
    BY DEF GateInit, GateTypes, Actors, SubmitRows, IdleSubmit, Blank
<1>2. \A r \in Submits : SubmitInv(submit[r])
    BY DEF GateInit, SubmitInv, IdleSubmit
<1>3. \A s \in Slots : SlotInv(s)
    BY GateAssumption DEF GateInit, SlotInv
<1> QED
    BY <1>1, <1>2, <1>3 DEF GateInv

\* A step that only moves one request.
LEMMA SubmitMoves ==
    ASSUME GateInv, UNCHANGED <<actor, commands, effects>>, NEW r \in Submits, NEW s \in SubmitRows,
           submit' = [submit EXCEPT ![r] = s], SubmitInv(s)
    PROVE  GateInv'
<1>1. GateTypes'
    BY DEF GateInv, GateTypes
<1>2. \A q \in Submits : submit'[q] = IF q = r THEN s ELSE submit[q]
    BY DEF GateInv, GateTypes
<1>3. \A q \in Submits : SubmitInv(submit[q])'
    BY <1>2 DEF GateInv, SubmitInv
<1>4. \A t \in Slots : SlotInv(t)'
    BY DEF GateInv, SlotInv
<1> QED
    BY <1>1, <1>3, <1>4 DEF GateInv

LEMMA RunCommandKeeps ==
    ASSUME GateInv, NEW r \in Submits, RunCommand(r)
    PROVE  GateInv'
<1> DEFINE s == submit[r]
           slot == <<s.command, s.key>>
           Ended(at) == [s EXCEPT !.at = at]
<1>1. /\ s \in SubmitRows /\ s.at = "ADMITTED" /\ s.command \in Commands /\ s.key \in Keys /\ s.input \in Inputs
      /\ s.seen \in Actors /\ s.seen.roles = actor.roles /\ RequiredAccountType(s.command) \subseteq actor.roles
      /\ UNCHANGED actor
    BY DEF RunCommand, GateInv, GateTypes, SubmitInv
<1>2. slot \in Slots /\ slot[1] = s.command
    BY <1>1 DEF Slots
<1>3. \A at \in {"DONE", "CONFLICT", "REFUSED"} :
          /\ Ended(at) \in SubmitRows /\ Ended(at).at = at /\ Ended(at).command = s.command /\ Ended(at).key = s.key
          /\ Ended(at).input = s.input /\ Ended(at).seen = s.seen
    BY <1>1 DEF SubmitRows
<1>4. CASE UNCHANGED <<commands, effects>>
  <2>1. PICK at \in {"DONE", "CONFLICT", "REFUSED"} :
            submit' = [submit EXCEPT ![r] = Ended(at)] /\ (at = "DONE" => commands[slot] = s.input)
    <3>1. CASE Replays(commands[slot], s.input) /\ submit' = [submit EXCEPT ![r].at = "DONE"]
        BY <3>1 DEF Replays
    <3>2. CASE submit' = [submit EXCEPT ![r].at = "CONFLICT"]
        BY <3>2
    <3>3. CASE submit' = [submit EXCEPT ![r].at = "REFUSED"]
        BY <3>3
    <3>4. CASE commands' = [commands EXCEPT ![slot] = s.input] /\ submit' = [submit EXCEPT ![r].at = "DONE"]
      <4>1. commands'[slot] = s.input
          BY <1>2, <3>4 DEF GateInv, GateTypes
      <4> QED
          BY <1>4, <3>4, <4>1
    <3> QED
        BY <3>1, <3>2, <3>3, <3>4 DEF RunCommand
  <2>2. SubmitInv(Ended(at))
      BY <1>1, <1>3, <2>1 DEF SubmitInv
  <2> QED
      BY <1>1, <1>3, <1>4, <2>1, <2>2, SubmitMoves
<1>5. CASE /\ commands[slot] = "none" /\ (s.command \in OperatorCommands => RequireRole(s.seen, {"admin"}))
           /\ commands' = [commands EXCEPT ![slot] = s.input]
           /\ effects' = [effects EXCEPT ![slot][s.input] = @ + 1]
           /\ submit' = [submit EXCEPT ![r].at = "DONE"]
  <2>1. submit' = [submit EXCEPT ![r] = Ended("DONE")] /\ \A q \in Submits : submit'[q] = IF q = r THEN Ended("DONE") ELSE submit[q]
      BY <1>5 DEF GateInv, GateTypes
  <2>2. \A t \in Slots : commands'[t] = IF t = slot THEN s.input ELSE commands[t]
      BY <1>5 DEF GateInv, GateTypes
  <2>3. \A t \in Slots, i \in Inputs : effects'[t][i] = IF t = slot /\ i = s.input THEN effects[t][i] + 1 ELSE effects[t][i]
      BY <1>5 DEF GateInv, GateTypes
  <2>4. GateTypes'
    <3>1. effects[slot] \in [Inputs -> Nat]
        BY <1>2 DEF GateInv, GateTypes
    <3>2. [effects[slot] EXCEPT ![s.input] = @ + 1] \in [Inputs -> Nat]
        BY <1>1, <3>1
    <3>3. effects' \in [Slots -> [Inputs -> Nat]]
        BY <1>2, <1>5, <3>2 DEF GateInv, GateTypes
    <3> QED
        BY <1>1, <1>2, <1>3, <1>5, <2>1, <3>3 DEF GateInv, GateTypes
  <2>5. ASSUME NEW q \in Submits PROVE SubmitInv(submit[q])'
    <3>1. CASE q = r
        BY <1>1, <1>2, <1>3, <2>1, <2>2, <3>1 DEF SubmitInv
    <3>2. CASE q # r
      <4>1. SubmitInv(submit[q]) /\ submit'[q] = submit[q]
          BY <2>1, <3>2 DEF GateInv
      <4>2. submit[q].at = "DONE" => <<submit[q].command, submit[q].key>> \in Slots /\ submit[q].input # "none"
          BY <4>1, GateAssumption DEF SubmitInv, Slots
      <4>3. submit[q].at = "DONE" => commands'[<<submit[q].command, submit[q].key>>] = submit[q].input
          BY <1>5, <2>2, <4>1, <4>2 DEF SubmitInv
      <4> QED
          BY <1>1, <4>1, <4>3 DEF SubmitInv
    <3> QED
        BY <3>1, <3>2
  <2>6. ASSUME NEW t \in Slots PROVE SlotInv(t)'
    <3>1. SlotInv(t) /\ s.input # "none"
        BY <1>1, GateAssumption DEF GateInv
    <3>2. CASE t = slot
      <4>1. \A i \in Inputs : effects'[t][i] = IF commands'[t] = i THEN 1 ELSE 0
          BY <1>5, <2>2, <2>3, <3>1, <3>2, GateAssumption DEF SlotInv
      <4>2. s.command \in OperatorCommands => "admin" \in actor.roles
          BY <1>1, <1>5 DEF RequireRole
      <4> QED
          BY <1>1, <1>2, <3>2, <4>1, <4>2 DEF SlotInv
    <3>3. CASE t # slot
        BY <1>1, <2>2, <2>3, <3>1, <3>3 DEF SlotInv
    <3> QED
        BY <3>2, <3>3
  <2> QED
      BY <2>4, <2>5, <2>6 DEF GateInv
<1> QED
    BY <1>4, <1>5 DEF RunCommand

LEMMA GateNextKeeps == GateInv /\ [GateNext]_gateVars => GateInv'
<1> SUFFICES ASSUME GateInv, [GateNext]_gateVars PROVE GateInv'
    OBVIOUS
<1>1. ASSUME NEW r \in Submits, NEW c \in Commands, NEW k \in Keys, NEW i \in Inputs, PostForm(r, c, k, i)
      PROVE  GateInv'
  <2> DEFINE s == [at |-> "READ", command |-> c, key |-> k, input |-> i, seen |-> actor]
  <2>1. s \in SubmitRows /\ SubmitInv(s)
      BY DEF SubmitRows, SubmitInv, GateInv, GateTypes
  <2>2. submit' = [submit EXCEPT ![r] = s] /\ UNCHANGED <<actor, commands, effects>>
      BY <1>1 DEF PostForm
  <2> HIDE DEF s
  <2> QED
      BY <2>1, <2>2, SubmitMoves
<1>2. ASSUME NEW r \in Submits, CheckActor(r)
      PROVE  GateInv'
  <2> DEFINE at == IF Admitted(submit[r].seen, submit[r].command) /\ (submit[r].command \in Gated => actor.onboarded)
                   THEN "ADMITTED" ELSE "REFUSED"
             s == [submit[r] EXCEPT !.at = at]
  <2>1. submit[r] \in SubmitRows /\ SubmitInv(submit[r]) /\ submit[r].at = "READ"
      BY <1>2 DEF CheckActor, GateInv, GateTypes
  <2>2. s \in SubmitRows /\ s.at = at /\ s.command = submit[r].command /\ s.key = submit[r].key /\ s.input = submit[r].input
        /\ s.seen = submit[r].seen
      BY <2>1 DEF SubmitRows
  <2>3. at \in {"ADMITTED", "REFUSED"} /\ (at = "ADMITTED" => RequiredAccountType(s.command) \subseteq actor.roles)
      BY <2>1, <2>2 DEF Admitted, SubmitInv
  <2>4. submit' = [submit EXCEPT ![r] = s] /\ UNCHANGED <<actor, commands, effects>>
      BY <1>2 DEF CheckActor
  <2> HIDE DEF at, s
  <2>5. SubmitInv(s)
      BY <2>1, <2>2, <2>3 DEF SubmitInv
  <2> QED
      BY <2>2, <2>4, <2>5, SubmitMoves
<1>3. ASSUME NEW r \in Submits, RunCommand(r) PROVE GateInv'
    BY <1>3, RunCommandKeeps
<1>4. ASSUME NEW r \in Submits, Answered(r) PROVE GateInv'
  <2>1. IdleSubmit \in SubmitRows /\ SubmitInv(IdleSubmit)
      BY DEF IdleSubmit, SubmitRows, SubmitInv, Blank
  <2> QED
      BY <1>4, <2>1, SubmitMoves DEF Answered
<1>5. CASE CompleteOnboarding \/ SetSuspended \/ UNCHANGED gateVars
  <2>1. actor' \in Actors /\ actor'.roles = actor.roles /\ UNCHANGED <<submit, commands, effects>>
      BY <1>5 DEF CompleteOnboarding, SetSuspended, GateInv, GateTypes, Actors, gateVars
  <2> QED
      BY <2>1 DEF GateInv, GateTypes, SubmitInv, SlotInv
<1> QED
    BY <1>1, <1>2, <1>3, <1>4, <1>5 DEF GateNext

\* The POST handler of app/api/commands: for any number of requests, keys and values, one key runs one command once, and
\* only a command the account may run.
THEOREM CommandsRunOnce == GateSpec => []OnceExecuted
<1>1. GateInv => OnceExecuted
  <2> SUFFICES ASSUME GateInv PROVE OnceExecuted
      OBVIOUS
  <2>1. \A s \in Slots : \A i \in Inputs :
            effects[s][i] = 0 \/ (effects[s][i] = 1 /\ \A j \in Inputs \ {i} : effects[s][j] = 0)
      BY DEF GateInv, SlotInv
  <2>2. ASSUME NEW r \in Submits, submit[r].at = "DONE"
        PROVE  effects[<<submit[r].command, submit[r].key>>][submit[r].input] = 1
    <3>1. SubmitInv(submit[r])
        BY DEF GateInv
    <3>2. <<submit[r].command, submit[r].key>> \in Slots /\ submit[r].input \in Inputs
          /\ commands[<<submit[r].command, submit[r].key>>] = submit[r].input
        BY <2>2, <3>1 DEF SubmitInv, Slots
    <3> QED
        BY <3>2 DEF GateInv, SlotInv
  <2>3. \A s \in Slots, i \in Inputs : effects[s][i] > 0 =>
            RequiredAccountType(s[1]) \subseteq actor.roles /\ (s[1] \in OperatorCommands => "admin" \in actor.roles)
      BY GateAssumption DEF GateInv, SlotInv
  <2> QED
      BY <2>1, <2>2, <2>3 DEF OnceExecuted
<1>2. GateInit => GateInv
    BY GateInitHolds
<1>3. GateInv /\ [GateNext]_gateVars => GateInv'
    BY GateNextKeeps
<1> QED
    BY <1>1, <1>2, <1>3, PTL DEF GateSpec

-----------------------------------------------------------------------------
(* The webhook inbox *)

WebhookSpec == WebhookInit /\ [][WebhookNext]_webhookVars

InboxRows == [stored : BOOLEAN, processed : BOOLEAN, attempts : Nat]
Handled == [event : Facts \cup {"none"}, next : {"REST", "PROCESS", "COUNT"}]

InboxTypes ==
    /\ inbox_ \in [Facts -> InboxRows] /\ applied \in [Facts -> Nat] /\ handling \in [Workers -> Handled]
    /\ undelivered \in Seq(Events) /\ batch \in Seq(sent)

\* What is on the network is an event of the provider; what a worker handles is a stored row.
NetworkInv == (\A d \in sent : d.event \in Events) /\ \A i \in DOMAIN secrets : secrets[i] \in {"s1", "s2"}
WorkersInv == \A w \in Workers : handling[w].next # "REST" => handling[w].event \in Facts /\ inbox_[handling[w].event].stored

WebhookInv == InboxTypes /\ NetworkInv /\ WorkersInv /\ AppliedOnce

LEMMA WebhookInitHolds == WebhookInit => WebhookInv
<1> SUFFICES ASSUME WebhookInit PROVE WebhookInv
    OBVIOUS
<1>1. InboxTypes
    BY DEF WebhookInit, InboxTypes, InboxRows, Handled, NotHandling
<1>2. NetworkInv
    BY DEF WebhookInit, NetworkInv, Rotation
<1>3. WorkersInv
    BY DEF WebhookInit, WorkersInv, NotHandling
<1>4. AppliedOnce
    BY DEF WebhookInit, AppliedOnce
<1> QED
    BY <1>1, <1>2, <1>3, <1>4 DEF WebhookInv

\* A delivery that verifies was sent by the provider for this account: what the provider did not send is signed with no
\* configured secret, is no event or is not ours.
LEMMA VerifiedIsSent ==
    ASSUME WebhookInv, NEW d \in sent \cup Stray, Verified(d)
    PROVE  d \in sent
<1> SUFFICES ASSUME d \in Stray PROVE FALSE
    OBVIOUS
<1>1. PICK e \in Events, a \in {"ours", "other"}, b \in {"event", "malformed"}, s \in {"s1", "unknown"} :
          d = [event |-> e, account |-> a, body |-> b, secret |-> s, at |-> clock]
    BY DEF Stray
<1>2. a = "ours" /\ b = "event" /\ s # "unknown"
    BY <1>1 DEF Verified, SignatureHolds, Parses, OurContext, WebhookInv, NetworkInv
<1>3. d = [event |-> e, account |-> "ours", body |-> "event", secret |-> "s1", at |-> clock]
    BY <1>1, <1>2
<1>4. d \in {[event |-> x, account |-> "ours", body |-> "event", secret |-> "s1", at |-> clock] : x \in Events}
    BY <1>3
<1> QED
    BY <1>4 DEF Stray

\* The provider's side: more is sent, nothing is stored.
LEMMA SendingKeeps ==
    ASSUME WebhookInv, sent \subseteq sent', \A d \in sent' : d.event \in Events, undelivered' \in Seq(Events),
           batch' \in Seq(sent'), \A i \in DOMAIN secrets' : secrets'[i] \in {"s1", "s2"}, UNCHANGED <<inbox_, handling, applied>>
    PROVE  WebhookInv'
    BY DEF WebhookInv, InboxTypes, NetworkInv, WorkersInv, AppliedOnce

\* Storing the row of e and handing it to worker w.
LEMMA StoringKeeps ==
    ASSUME WebhookInv, NEW e \in Facts, e \in Events => \E d \in sent : d.event = e, NEW w \in Workers,
           inbox_' = StoredRows(e) \/ (inbox_' = inbox_ /\ inbox_[e].stored),
           handling' = [handling EXCEPT ![w] = [event |-> e, next |-> "PROCESS"]],
           batch' \in Seq(sent), UNCHANGED <<secrets, undelivered, sent, applied>>
    PROVE  WebhookInv'
<1>1. \A f \in Facts : /\ inbox_'[f].stored <=> inbox_[f].stored \/ f = e
                       /\ inbox_'[f].processed <=> inbox_[f].processed
    BY DEF WebhookInv, InboxTypes, InboxRows, StoredRows
<1>2. inbox_' \in [Facts -> InboxRows]
    BY DEF WebhookInv, InboxTypes, InboxRows, StoredRows
<1>3. InboxTypes'
    BY <1>2 DEF WebhookInv, InboxTypes, Handled
<1>4. WorkersInv'
    BY <1>1 DEF WebhookInv, InboxTypes, WorkersInv
<1>5. AppliedOnce'
    BY <1>1 DEF WebhookInv, AppliedOnce
<1> QED
    BY <1>3, <1>4, <1>5 DEF WebhookInv, NetworkInv

\* A worker rests; the row it handled may count the attempt.
LEMMA RestingKeeps ==
    ASSUME WebhookInv, NEW w \in Workers, handling' = [handling EXCEPT ![w] = NotHandling] \/ handling' = [handling EXCEPT ![w].next = "COUNT"],
           handling[w].next # "REST" \/ handling' = [handling EXCEPT ![w] = NotHandling],
           inbox_' \in [Facts -> InboxRows],
           \A f \in Facts : (inbox_'[f].stored <=> inbox_[f].stored) /\ (inbox_'[f].processed <=> inbox_[f].processed),
           batch' \in Seq(sent), UNCHANGED <<secrets, undelivered, sent, applied>>
    PROVE  WebhookInv'
<1>0. handling \in [Workers -> Handled] /\ handling[w] \in Handled
    BY DEF WebhookInv, InboxTypes
<1>1. PICK h \in Handled : handling' = [handling EXCEPT ![w] = h] /\ (h.next # "REST" => h.event = handling[w].event /\ handling[w].next # "REST")
  <2>1. CASE handling' = [handling EXCEPT ![w] = NotHandling]
    <3>1. NotHandling \in Handled /\ NotHandling.next = "REST"
        BY DEF Handled, NotHandling
    <3> QED
        BY <2>1, <3>1
  <2>2. CASE handling' = [handling EXCEPT ![w].next = "COUNT"] /\ handling[w].next # "REST"
    <3>1. [handling[w] EXCEPT !.next = "COUNT"] \in Handled /\ [handling[w] EXCEPT !.next = "COUNT"].event = handling[w].event
        BY <1>0 DEF Handled
    <3> QED
        BY <2>2, <3>1
  <2> QED
      BY <2>1, <2>2
<1>2. InboxTypes'
    BY <1>0, <1>1 DEF WebhookInv, InboxTypes
<1>3. WorkersInv'
    BY <1>0, <1>1 DEF WebhookInv, WorkersInv
<1>4. AppliedOnce'
    BY DEF WebhookInv, AppliedOnce
<1> QED
    BY <1>2, <1>3, <1>4 DEF WebhookInv, NetworkInv

LEMMA AttemptCounted ==
    ASSUME NEW x \in InboxRows
    PROVE  /\ [x EXCEPT !.attempts = @ + 1] \in InboxRows
           /\ [x EXCEPT !.processed = TRUE, !.attempts = @ + 1] \in InboxRows
<1>1. x.attempts + 1 \in Nat
    BY DEF InboxRows
<1> DEFINE n == x.attempts + 1
<1>2. /\ [x EXCEPT !.attempts = @ + 1] = [x EXCEPT !.attempts = n]
      /\ [x EXCEPT !.processed = TRUE, !.attempts = @ + 1] = [x EXCEPT !.processed = TRUE, !.attempts = n]
    BY DEF InboxRows
<1>3. n \in Nat
    BY <1>1
<1> HIDE DEF n
<1>4. [x EXCEPT !.attempts = n] \in InboxRows /\ [x EXCEPT !.processed = TRUE, !.attempts = n] \in InboxRows
    BY <1>3 DEF InboxRows
<1> QED
    BY <1>2, <1>4

LEMMA ProcessKeeps ==
    ASSUME WebhookInv, NEW w \in Workers, Process(w)
    PROVE  WebhookInv'
<1> DEFINE e == handling[w].event
<1>1. e \in Facts /\ inbox_[e].stored /\ inbox_[e] \in InboxRows
    BY DEF Process, WebhookInv, WorkersInv, InboxTypes
<1>2. CASE inbox_[e].processed
    BY <1>2, RestingKeeps DEF Process, AlreadyProcessed, WebhookInv, InboxTypes
<1>3. CASE ~inbox_[e].processed
  <2>1. applied' = [applied EXCEPT ![e] = @ + 1] /\ handling' = [handling EXCEPT ![w] = NotHandling]
        /\ inbox_' = [inbox_ EXCEPT ![e].processed = TRUE, ![e].attempts = @ + 1]
        /\ UNCHANGED <<secrets, undelivered, sent, batch>>
      BY <1>3 DEF Process, AlreadyProcessed
  <2> HIDE DEF e
  <2>2. \A f \in Facts : /\ inbox_'[f].stored <=> inbox_[f].stored
                         /\ inbox_'[f].processed <=> inbox_[f].processed \/ f = e
                         /\ applied'[f] = IF f = e THEN applied[f] + 1 ELSE applied[f]
      BY <1>1, <2>1 DEF WebhookInv, InboxTypes, InboxRows
  <2>3. inbox_' \in [Facts -> InboxRows] /\ applied' \in [Facts -> Nat]
    <3>1. inbox_' = [inbox_ EXCEPT ![e] = [inbox_[e] EXCEPT !.processed = TRUE, !.attempts = @ + 1]]
        BY <1>1, <2>1 DEF WebhookInv, InboxTypes, InboxRows
    <3>2. [inbox_[e] EXCEPT !.processed = TRUE, !.attempts = @ + 1] \in InboxRows
        BY <1>1, AttemptCounted
    <3> QED
        BY <1>1, <2>1, <3>1, <3>2 DEF WebhookInv, InboxTypes
  <2>4. InboxTypes'
      BY <2>1, <2>3 DEF WebhookInv, InboxTypes, Handled, NotHandling
  <2>5. WorkersInv'
      BY <2>1, <2>2 DEF WebhookInv, InboxTypes, WorkersInv, NotHandling
  <2>6. AppliedOnce'
      BY <1>1, <1>3, <2>1, <2>2 DEF WebhookInv, InboxTypes, AppliedOnce
  <2> QED
      BY <2>1, <2>4, <2>5, <2>6 DEF WebhookInv, NetworkInv
<1> QED
    BY <1>2, <1>3

LEMMA WebhookNextKeeps == WebhookInv /\ [WebhookNext]_webhookVars => WebhookInv'
<1> SUFFICES ASSUME WebhookInv, [WebhookNext]_webhookVars PROVE WebhookInv'
    OBVIOUS
<1>0. /\ undelivered \in Seq(Events) /\ batch \in Seq(sent) /\ inbox_ \in [Facts -> InboxRows]
      /\ (\A d \in sent : d.event \in Events) /\ \A i \in DOMAIN secrets : secrets[i] \in {"s1", "s2"}
    BY DEF WebhookInv, InboxTypes, NetworkInv
<1>1. ASSUME NEW e \in Events, Emit(e) PROVE WebhookInv'
  <2>1. undelivered' \in Seq(Events)
      BY <1>0, <1>1 DEF Emit
  <2> QED
      BY <1>0, <1>1, <2>1, SendingKeeps DEF Emit
<1>2. ASSUME NEW e \in Events, Redeliver(e) PROVE WebhookInv'
  <2>1. batch \in Seq(sent')
      BY <1>0, <1>2 DEF Redeliver
  <2>2. \A d \in sent' : d.event \in Events
      BY <1>0, <1>2 DEF Redeliver, Signed
  <2> QED
      BY <1>0, <1>2, <2>1, <2>2, SendingKeeps DEF Redeliver
<1>3. CASE TakeDeliveries
  <2>1. DOMAIN undelivered = 1..Len(undelivered) /\ Len(undelivered) \in Nat /\ \A i \in DOMAIN undelivered : undelivered[i] \in Events
      BY <1>0
  <2>2. \A i \in DOMAIN undelivered : Signed(undelivered[i]) \in sent'
      BY <1>3 DEF TakeDeliveries
  <2>3. batch' \in Seq(sent')
      BY <1>3, <2>1, <2>2 DEF TakeDeliveries
  <2>4. (\A d \in sent' : d.event \in Events) /\ sent \subseteq sent' /\ undelivered' \in Seq(Events)
      BY <1>0, <1>3, <2>1 DEF TakeDeliveries, Signed
  <2> QED
      BY <1>0, <1>3, <2>3, <2>4, SendingKeeps DEF TakeDeliveries
<1>4. CASE ReceiveNext
  <2>1. Head(batch) \in sent /\ Tail(batch) \in Seq(sent) /\ Head(batch).event \in Facts /\ <<>> \in Seq(sent)
      BY <1>0, <1>4 DEF ReceiveNext, Facts
  <2>2. CASE Verified(Head(batch))
    <3>1. "loop" \in Workers
        BY DEF Workers
    <3> QED
        BY <1>4, <2>1, <2>2, <3>1, StoringKeeps DEF ReceiveNext
  <2>3. CASE ~Verified(Head(batch))
      BY <1>0, <1>4, <2>1, <2>3, SendingKeeps DEF ReceiveNext
  <2> QED
      BY <2>2, <2>3
<1>5. CASE ClockTicks \/ RotateSecret
  <2>1. \A i \in DOMAIN secrets' : secrets'[i] \in {"s1", "s2"}
      BY <1>0, <1>5 DEF ClockTicks, RotateSecret, Rotation
  <2> QED
      BY <1>0, <1>5, <2>1, SendingKeeps DEF ClockTicks, RotateSecret
<1>6. ASSUME NEW d \in sent \cup Stray, ReceiveAtRoute(d) PROVE WebhookInv'
  <2>1. d \in sent
      BY <1>6, VerifiedIsSent DEF ReceiveAtRoute
  <2>2. d.event \in Facts /\ "route" \in Workers
      BY <1>0, <2>1 DEF Facts, Workers
  <2> QED
      BY <1>0, <1>6, <2>1, <2>2, StoringKeeps DEF ReceiveAtRoute
<1>7. ASSUME NEW e \in FetchedFacts, StoreFetched(e) PROVE WebhookInv'
  <2>1. e \in Facts /\ "job" \in Workers /\ e \notin Events
      BY WebhookAssumption DEF Facts, Workers
  <2> QED
      BY <1>0, <1>7, <2>1, StoringKeeps DEF StoreFetched
<1>8. ASSUME NEW e \in Facts, ListUnprocessed(e) PROVE WebhookInv'
  <2>1. "job" \in Workers /\ inbox_[e].stored /\ (e \in Events => \E d \in sent : d.event = e)
      BY <1>8 DEF Workers, ListUnprocessed, WebhookInv, AppliedOnce
  <2> QED
      BY <1>0, <1>8, <2>1, StoringKeeps DEF ListUnprocessed
<1>9. ASSUME NEW w \in Workers, ProcessFails(w) \/ CountAttempt(w) \/ HandlerStops(w) PROVE WebhookInv'
  <2>1. batch' \in Seq(sent)
    <3>1. batch' = batch \/ batch' = <<>>
        BY <1>9 DEF ProcessFails, CountAttempt, HandlerStops
    <3>2. <<>> \in Seq(sent)
        OBVIOUS
    <3> QED
        BY <1>0, <3>1, <3>2
  <2>2. CASE ProcessFails(w) \/ HandlerStops(w)
      BY <1>0, <2>1, <2>2, RestingKeeps DEF ProcessFails, HandlerStops
  <2>3. CASE CountAttempt(w)
    <3> DEFINE e == handling[w].event
    <3>1. inbox_' = [inbox_ EXCEPT ![e].attempts = @ + 1] /\ e \in Facts
        BY <2>3 DEF CountAttempt, WebhookInv, WorkersInv
    <3> HIDE DEF e
    <3>2. [inbox_[e] EXCEPT !.attempts = @ + 1] \in InboxRows
        BY <1>0, <3>1, AttemptCounted
    <3>3. inbox_' = [inbox_ EXCEPT ![e] = [inbox_[e] EXCEPT !.attempts = @ + 1]]
        BY <1>0, <3>1
    <3>4. inbox_' \in [Facts -> InboxRows]
        BY <1>0, <3>2, <3>3
    <3>5. \A f \in Facts : (inbox_'[f].stored <=> inbox_[f].stored) /\ (inbox_'[f].processed <=> inbox_[f].processed)
        BY <1>0, <3>1 DEF InboxRows
    <3> QED
        BY <2>1, <2>3, <3>4, <3>5, RestingKeeps DEF CountAttempt
  <2> QED
      BY <1>9, <2>2, <2>3
<1>10. CASE UNCHANGED webhookVars
    BY <1>0, <1>10, SendingKeeps DEF webhookVars
<1> QED
    BY <1>1, <1>2, <1>3, <1>4, <1>5, <1>6, <1>7, <1>8, <1>9, <1>10, ProcessKeeps DEF WebhookNext

\* receivePaymentWebhook, processVerifiedEvent, reprocessWebhookInbox: for any number of events, failures and secrets in
\* rotation, an event takes effect once and nothing but what the provider sent is stored.
THEOREM EventsAppliedOnce == WebhookSpec => []AppliedOnce
<1>1. WebhookInit => WebhookInv
    BY WebhookInitHolds
<1>2. WebhookInv /\ [WebhookNext]_webhookVars => WebhookInv'
    BY WebhookNextKeeps
<1>3. WebhookInv => AppliedOnce
    BY DEF WebhookInv
<1> QED
    BY <1>1, <1>2, <1>3, PTL DEF WebhookSpec

-----------------------------------------------------------------------------
(* File storage *)

StorageSpec == StorageInit /\ [][StorageNext]_storageVars

IntentRows == [state : {"NONE", "OPEN", "FINALIZED", "QUARANTINED", "REJECTED", "ABANDONED"},
               use : Uses \cup {<<"none", "none">>}, phase : {"URL", "GRACE", "PAST"}]
AssetRows == [state : {"NONE", "READY", "QUARANTINED", "DELETED"}, attached : BOOLEAN, aged : BOOLEAN]
Verdicts == {"FINALIZED", "QUARANTINED", "REJECTED"}
FinalizerRows == [at : {"IDLE", "REMOVE", "CHECK", "MOVE", "COMMIT", "UNDO"}, file : Files \cup {"none"}, verdict : Verdicts \cup {"none"}]

StorageTypes ==
    /\ intent \in [Files -> IntentRows] /\ asset \in [Files -> AssetRows] /\ finalizer \in [Finalizers -> FinalizerRows]

\* A file that can be fetched was finalized, and one that is used is not deleted.
FileInv(f) ==
    /\ asset[f].attached => asset[f].state \in {"READY", "QUARANTINED"}
    /\ asset[f].state = "READY" => intent[f].state = "FINALIZED"

\* A finalizer at work has a file, and a verdict from the moment it may act on it.
FinalizerInv(w) ==
    /\ finalizer[w].at # "IDLE" => finalizer[w].file \in Files
    /\ finalizer[w].at \in {"COMMIT", "REMOVE", "MOVE"} => finalizer[w].verdict \in Verdicts

Contents == {"none", "good", "othersize", "othertype"}

\* The upload is closed, and its file is not in use: its object may go.
Gone(f) == intent[f].state \notin {"NONE", "OPEN"} /\ asset[f].state # "READY"

\* What the cleanup job has left to remove, and what a finalizer removes after its commit, is gone from the books.
RemovalsInv == \A f \in Files : f \in removals => Gone(f)
UndoInv(w) == finalizer[w].at = "UNDO" => Gone(finalizer[w].file)

StorageInv == /\ StorageTypes /\ (\A f \in Files : FileInv(f)) /\ \A w \in Finalizers : FinalizerInv(w)
              /\ RemovalsInv /\ \A w \in Finalizers : UndoInv(w)

LEMMA StorageInitHolds == StorageInit => StorageInv
<1> SUFFICES ASSUME StorageInit PROVE StorageInv
    OBVIOUS
<1>1. StorageTypes
    BY DEF StorageInit, StorageTypes, IntentRows, AssetRows, FinalizerRows, NoIntent, NoAsset, Resting
<1>2. (\A f \in Files : FileInv(f)) /\ \A w \in Finalizers : FinalizerInv(w)
    BY DEF StorageInit, FileInv, FinalizerInv, NoIntent, NoAsset, Resting
<1>3. RemovalsInv /\ \A w \in Finalizers : UndoInv(w)
    BY DEF StorageInit, RemovalsInv, UndoInv, Resting
<1> QED
    BY <1>1, <1>2, <1>3 DEF StorageInv

\* A step of one finalizer that leaves the rows alone.
LEMMA FinalizerMoves ==
    ASSUME StorageInv, NEW w \in Finalizers, NEW x \in FinalizerRows, finalizer' = [finalizer EXCEPT ![w] = x],
           x.at # "IDLE" => x.file \in Files, x.at \in {"COMMIT", "REMOVE", "MOVE"} => x.verdict \in Verdicts,
           x.at # "UNDO", UNCHANGED <<intent, asset, removals>>
    PROVE  StorageInv'
<1>1. StorageTypes'
    BY DEF StorageInv, StorageTypes
<1>2. (\A f \in Files : FileInv(f)')
    BY DEF StorageInv, FileInv
<1>3. (\A v \in Finalizers : FinalizerInv(v)')
    BY DEF StorageInv, StorageTypes, FinalizerInv
<1>4. RemovalsInv'
    BY DEF StorageInv, RemovalsInv, Gone
<1>5. (\A v \in Finalizers : UndoInv(v)')
    BY DEF StorageInv, StorageTypes, UndoInv, Gone
<1> QED
    BY <1>1, <1>2, <1>3, <1>4, <1>5 DEF StorageInv

\* A step on the asset of one file.
LEMMA AssetMoves ==
    ASSUME StorageInv, NEW f \in Files, NEW x \in AssetRows, asset' = [asset EXCEPT ![f] = x], UNCHANGED <<intent, finalizer>>,
           x.attached => x.state \in {"READY", "QUARANTINED"}, x.state = "READY" => intent[f].state = "FINALIZED",
           x.state = "READY" => asset[f].state = "READY",
           \A g \in Files : g \in removals' => g \in removals \/ (g = f /\ x.state = "DELETED" /\ asset[f].state = "READY")
    PROVE  StorageInv'
<1>1. StorageTypes'
    BY DEF StorageInv, StorageTypes
<1>2. (\A g \in Files : FileInv(g)')
    BY DEF StorageInv, StorageTypes, FileInv
<1>3. (\A v \in Finalizers : FinalizerInv(v)')
    BY DEF StorageInv, FinalizerInv
<1>4. \A g \in Files : Gone(g) \/ (g = f /\ x.state = "DELETED" /\ asset[f].state = "READY") => Gone(g)'
    BY DEF StorageInv, StorageTypes, FileInv, Gone
<1>5. RemovalsInv'
    BY <1>4 DEF StorageInv, RemovalsInv
<1>6. (\A v \in Finalizers : UndoInv(v)')
    BY <1>4 DEF StorageInv, FinalizerInv, UndoInv
<1> QED
    BY <1>1, <1>2, <1>3, <1>5, <1>6 DEF StorageInv

\* A step on intents: a finalized one stays finalized.
LEMMA IntentsMove ==
    ASSUME StorageInv, intent' \in [Files -> IntentRows], UNCHANGED <<asset, finalizer>>,
           \A f \in Files : /\ intent[f].state = "FINALIZED" => intent'[f].state = "FINALIZED"
                            /\ intent[f].state \notin {"NONE", "OPEN"} => intent'[f].state \notin {"NONE", "OPEN"}
                            /\ f \in removals' => f \in removals \/ (intent[f].state = "OPEN" /\ intent'[f].state = "ABANDONED")
    PROVE  StorageInv'
<1>1. StorageTypes' /\ (\A f \in Files : FileInv(f)') /\ \A w \in Finalizers : FinalizerInv(w)'
    BY DEF StorageInv, StorageTypes, FileInv, FinalizerInv
<1>2. \A f \in Files : Gone(f) \/ (intent[f].state = "OPEN" /\ intent'[f].state = "ABANDONED") => Gone(f)'
    BY DEF StorageInv, FileInv, Gone
<1>3. RemovalsInv'
    BY <1>2 DEF StorageInv, RemovalsInv
<1>4. \A w \in Finalizers : UndoInv(w)'
    BY <1>2 DEF StorageInv, FinalizerInv, UndoInv
<1> QED
    BY <1>1, <1>3, <1>4 DEF StorageInv

LEMMA CommitKeeps ==
    ASSUME StorageInv, NEW w \in Finalizers, CommitFinalize(w)
    PROVE  StorageInv'
<1> DEFINE f == finalizer[w].file
           verdict == finalizer[w].verdict
           outcome == IF verdict = "FINALIZED" /\ ~MayUpload(intent[f].use) THEN "REJECTED" ELSE verdict
<1>1. f \in Files /\ verdict \in Verdicts /\ finalizer[w] \in FinalizerRows /\ outcome \in Verdicts
    BY DEF CommitFinalize, StorageInv, StorageTypes, FinalizerInv, Verdicts
<1>2. Resting \in FinalizerRows /\ Resting.at = "IDLE"
    BY DEF Resting, FinalizerRows
<1>3. CASE intent[f].state # "OPEN" \/ intent[f].phase = "PAST"
    BY <1>2, <1>3, FinalizerMoves DEF CommitFinalize
<1>4. CASE ~(intent[f].state # "OPEN" \/ intent[f].phase = "PAST")
  <2>1. /\ intent[f].state = "OPEN" /\ intent' = [intent EXCEPT ![f].state = outcome]
        /\ asset' = IF outcome = "REJECTED" THEN asset
                    ELSE [asset EXCEPT ![f].state = IF outcome = "FINALIZED" THEN "READY" ELSE "QUARANTINED"]
        /\ finalizer' = [finalizer EXCEPT ![w] = IF outcome # verdict THEN [@ EXCEPT !.at = "UNDO"] ELSE Resting]
      BY <1>4 DEF CommitFinalize
  <2> HIDE DEF outcome
  <2>2. intent' \in [Files -> IntentRows] /\ \A g \in Files : intent'[g].state = IF g = f THEN outcome ELSE intent[g].state
      BY <1>1, <2>1 DEF StorageInv, StorageTypes, IntentRows, Verdicts
  <2>3. /\ asset' \in [Files -> AssetRows]
        /\ \A g \in Files : /\ asset'[g].attached <=> asset[g].attached
                            /\ asset'[g].state = IF g # f \/ outcome = "REJECTED" THEN asset[g].state
                                                 ELSE IF outcome = "FINALIZED" THEN "READY" ELSE "QUARANTINED"
      BY <1>1, <2>1 DEF StorageInv, StorageTypes, AssetRows
  <2>4. PICK x \in FinalizerRows : /\ finalizer' = [finalizer EXCEPT ![w] = x] /\ x.at \in {"IDLE", "UNDO"}
                                   /\ x.at = "UNDO" => x.file = f /\ outcome = "REJECTED"
    <3>1. CASE outcome # verdict
      <4>1. [finalizer[w] EXCEPT !.at = "UNDO"] \in FinalizerRows /\ [finalizer[w] EXCEPT !.at = "UNDO"].at = "UNDO"
            /\ [finalizer[w] EXCEPT !.at = "UNDO"].file = f
          BY <1>1 DEF FinalizerRows
      <4>2. outcome = "REJECTED"
          BY <3>1 DEF outcome
      <4> QED
          BY <2>1, <3>1, <4>1, <4>2
    <3>2. CASE outcome = verdict
        BY <1>2, <2>1, <3>2
    <3> QED
        BY <3>1, <3>2
  <2>5. StorageTypes'
      BY <2>2, <2>3, <2>4 DEF StorageInv, StorageTypes
  <2>6. \A g \in Files : FileInv(g)'
      BY <2>1, <2>2, <2>3 DEF StorageInv, FileInv
  <2>7. \A v \in Finalizers : FinalizerInv(v)'
      BY <1>1, <2>4 DEF StorageInv, StorageTypes, FinalizerInv
  <2>8. removals' = removals /\ \A g \in Files : Gone(g) => Gone(g)'
      BY <1>4, <2>1, <2>2, <2>3 DEF CommitFinalize, Gone
  <2>9. RemovalsInv'
      BY <2>8 DEF StorageInv, RemovalsInv
  <2>10. \A v \in Finalizers : UndoInv(v)'
    <3>1. x.at = "UNDO" => x.file \in Files /\ Gone(x.file)'
      <4>1. x.at = "UNDO" => x.file = f /\ outcome = "REJECTED"
          BY <2>4
      <4>2. asset[f].state # "READY"
          BY <1>1, <2>1 DEF StorageInv, FileInv
      <4>3. x.at = "UNDO" => intent'[x.file].state = "REJECTED" /\ asset'[x.file].state # "READY"
          BY <1>1, <2>2, <2>3, <4>1, <4>2
      <4> QED
          BY <1>1, <4>1, <4>3 DEF Gone
    <3> QED
        BY <1>1, <2>4, <2>8, <3>1 DEF StorageInv, StorageTypes, FinalizerInv, UndoInv
  <2> QED
      BY <2>5, <2>6, <2>7, <2>9, <2>10 DEF StorageInv
<1> QED
    BY <1>3, <1>4

LEMMA FinalizersKeep ==
    ASSUME StorageInv, NEW w \in Finalizers,
           \/ \E f \in Files : Stat(w, f)
           \/ RemoveMismatch(w) \/ CheckSignature(w) \/ MoveToQuarantine(w) \/ RemoveRefused(w) \/ FinalizeStops(w)
    PROVE  StorageInv'
<1>1. finalizer[w] \in FinalizerRows /\ FinalizerInv(w)
    BY DEF StorageInv, StorageTypes
<1>2. Resting \in FinalizerRows /\ Resting.at = "IDLE"
    BY DEF Resting, FinalizerRows
<1>3. ASSUME NEW f \in Files, Stat(w, f) PROVE StorageInv'
  <2>1. PICK x \in {[at |-> "COMMIT", file |-> f, verdict |-> "QUARANTINED"], [at |-> "REMOVE", file |-> f, verdict |-> "REJECTED"],
                    [at |-> "CHECK", file |-> f, verdict |-> "none"]} : finalizer' = [finalizer EXCEPT ![w] = x]
    <3>1. PICK found \in {b \in {"main", "quarantine"} : object[f][b] # "none"} :
              finalizer' = [finalizer EXCEPT ![w] =
                CASE found = "quarantine"             -> [at |-> "COMMIT", file |-> f, verdict |-> "QUARANTINED"]
                  [] object[f].main = "othersize"     -> [at |-> "REMOVE", file |-> f, verdict |-> "REJECTED"]
                  [] OTHER                            -> [at |-> "CHECK", file |-> f, verdict |-> "none"]]
              /\ (found = "quarantine" => object[f].main = "none")
        BY <1>3 DEF Stat
    <3>2. CASE found = "quarantine"
        BY <3>1, <3>2
    <3>3. CASE found # "quarantine" /\ object[f].main = "othersize"
        BY <3>1, <3>3
    <3>4. CASE found # "quarantine" /\ object[f].main # "othersize"
        BY <3>1, <3>4
    <3> QED
        BY <3>2, <3>3, <3>4
  <2>2. x \in FinalizerRows /\ x.file \in Files /\ x.at # "UNDO" /\ (x.at \in {"COMMIT", "REMOVE", "MOVE"} => x.verdict \in Verdicts)
      BY <2>1 DEF FinalizerRows, Verdicts
  <2> QED
      BY <1>3, <2>1, <2>2, FinalizerMoves DEF Stat
<1>4. CASE RemoveMismatch(w)
  <2> DEFINE x == [finalizer[w] EXCEPT !.at = "COMMIT"]
  <2>1. x \in FinalizerRows /\ x.at = "COMMIT" /\ x.file \in Files /\ x.verdict \in Verdicts
      BY <1>1, <1>4 DEF RemoveMismatch, FinalizerInv, FinalizerRows
  <2> HIDE DEF x
  <2>2. finalizer' = [finalizer EXCEPT ![w] = x]
      BY <1>4 DEF RemoveMismatch, x
  <2> QED
      BY <1>4, <2>1, <2>2, FinalizerMoves DEF RemoveMismatch
<1>5. CASE CheckSignature(w)
  <2> DEFINE good == [finalizer[w] EXCEPT !.at = "COMMIT", !.verdict = "FINALIZED"]
             bad == [finalizer[w] EXCEPT !.at = "MOVE", !.verdict = "QUARANTINED"]
  <2>1. /\ good \in FinalizerRows /\ good.at = "COMMIT" /\ good.file \in Files /\ good.verdict \in Verdicts
        /\ bad \in FinalizerRows /\ bad.at = "MOVE" /\ bad.file \in Files /\ bad.verdict \in Verdicts
      BY <1>1, <1>5 DEF CheckSignature, FinalizerInv, FinalizerRows, Verdicts
  <2>2. PICK x \in {good, bad, Resting} : finalizer' = [finalizer EXCEPT ![w] = x]
      BY <1>5 DEF CheckSignature
  <2>3. UNCHANGED <<intent, asset, removals>>
      BY <1>5 DEF CheckSignature
  <2> HIDE DEF good, bad
  <2>4. x \in FinalizerRows /\ x.at # "UNDO" /\ (x.at # "IDLE" => x.file \in Files /\ x.verdict \in Verdicts)
      BY <1>2, <2>1, <2>2
  <2> QED
      BY <2>2, <2>3, <2>4, FinalizerMoves
<1>6. CASE MoveToQuarantine(w)
  <2> DEFINE moved == [finalizer[w] EXCEPT !.at = "COMMIT"]
  <2>1. moved \in FinalizerRows /\ moved.at = "COMMIT" /\ moved.file \in Files /\ moved.verdict \in Verdicts
      BY <1>1, <1>6 DEF MoveToQuarantine, FinalizerInv, FinalizerRows
  <2>2. PICK x \in {moved, Resting} : finalizer' = [finalizer EXCEPT ![w] = x]
      BY <1>6 DEF MoveToQuarantine
  <2> HIDE DEF moved
  <2> QED
      BY <1>2, <1>6, <2>1, <2>2, FinalizerMoves DEF MoveToQuarantine
<1>7. CASE RemoveRefused(w) \/ FinalizeStops(w)
    BY <1>2, <1>7, FinalizerMoves DEF RemoveRefused, FinalizeStops
<1> QED
    BY <1>3, <1>4, <1>5, <1>6, <1>7

LEMMA StorageNextKeeps == StorageInv /\ [StorageNext]_storageVars => StorageInv'
<1> SUFFICES ASSUME StorageInv, [StorageNext]_storageVars PROVE StorageInv'
    OBVIOUS
<1>0. \A f \in Files : asset[f] \in AssetRows /\ FileInv(f) /\ intent[f] \in IntentRows
    BY DEF StorageInv, StorageTypes
<1>1. ASSUME NEW f \in Files, NEW use \in Uses, CreateUploadIntent(f, use) PROVE StorageInv'
  <2>1. /\ intent' \in [Files -> IntentRows] /\ removals' = removals
        /\ \A g \in Files : /\ intent[g].state = "FINALIZED" => intent'[g].state = "FINALIZED"
                            /\ intent[g].state \notin {"NONE", "OPEN"} => intent'[g].state \notin {"NONE", "OPEN"}
      BY <1>1 DEF CreateUploadIntent, StorageInv, StorageTypes, IntentRows
  <2> QED
      BY <1>1, <2>1, IntentsMove DEF CreateUploadIntent
<1>2. ASSUME NEW f \in Files, StorageTime(f) PROVE StorageInv'
  <2>1. /\ intent' \in [Files -> IntentRows] /\ removals' = removals
        /\ \A g \in Files : /\ intent[g].state = "FINALIZED" => intent'[g].state = "FINALIZED"
                            /\ intent[g].state \notin {"NONE", "OPEN"} => intent'[g].state \notin {"NONE", "OPEN"}
      BY <1>2 DEF StorageTime, StorageInv, StorageTypes, IntentRows
  <2> QED
      BY <1>2, <2>1, IntentsMove DEF StorageTime
<1>3. CASE AbandonUploads
  <2>1. /\ \A g \in Files : intent'[g] = IF intent[g].state = "OPEN" /\ intent[g].phase = "PAST"
                                         THEN [intent[g] EXCEPT !.state = "ABANDONED"] ELSE intent[g]
        /\ intent' = [g \in Files |-> intent'[g]]
      BY <1>3 DEF AbandonUploads
  <2>2. \A g \in Files : [intent[g] EXCEPT !.state = "ABANDONED"] \in IntentRows
      BY <1>0 DEF IntentRows
  <2>3. /\ intent' \in [Files -> IntentRows] /\ removals' = removals \cup {g \in Files : intent[g].state = "OPEN" /\ intent[g].phase = "PAST"}
        /\ \A g \in Files : /\ intent[g].state = "FINALIZED" => intent'[g].state = "FINALIZED"
                            /\ intent[g].state = "OPEN" /\ intent[g].phase = "PAST" => intent'[g].state = "ABANDONED"
                            /\ intent[g].state \notin {"NONE", "OPEN"} => intent'[g].state \notin {"NONE", "OPEN"}
    <3>1. \A g \in Files : [intent[g] EXCEPT !.state = "ABANDONED"].state = "ABANDONED"
        BY <1>0 DEF IntentRows
    <3>2. removals' = removals \cup {g \in Files : intent[g].state = "OPEN" /\ intent[g].phase = "PAST"}
        BY <1>3 DEF AbandonUploads
    <3> QED
        BY <1>0, <2>1, <2>2, <3>1, <3>2
  <2> QED
      BY <1>3, <2>3, IntentsMove DEF AbandonUploads
<1>4. ASSUME NEW f \in Files, Attach(f) \/ Detach(f) \/ AssetAges(f) \/ QuarantineAsset(f) \/ DeleteOrphan(f) PROVE StorageInv'
  <2>1. CASE Attach(f)
    <3> DEFINE x == [asset[f] EXCEPT !.attached = TRUE]
    <3>1. asset[f].state = "READY" /\ asset' = [asset EXCEPT ![f] = x] /\ UNCHANGED <<intent, finalizer, removals>>
        BY <2>1 DEF Attach, Attachable
    <3>2. x \in AssetRows /\ x.state = asset[f].state
        BY <1>0 DEF AssetRows
    <3> HIDE DEF x
    <3> QED
        BY <1>0, <3>1, <3>2, AssetMoves DEF FileInv
  <2>2. CASE Detach(f)
    <3> DEFINE x == [asset[f] EXCEPT !.attached = FALSE]
    <3>1. asset' = [asset EXCEPT ![f] = x] /\ UNCHANGED <<intent, finalizer, removals>>
        BY <2>2 DEF Detach
    <3>2. x \in AssetRows /\ ~x.attached /\ x.state = asset[f].state
        BY <1>0 DEF AssetRows
    <3> HIDE DEF x
    <3> QED
        BY <1>0, <3>1, <3>2, AssetMoves DEF FileInv
  <2>3. CASE AssetAges(f)
    <3> DEFINE x == [asset[f] EXCEPT !.aged = TRUE]
    <3>1. asset' = [asset EXCEPT ![f] = x] /\ UNCHANGED <<intent, finalizer, removals>>
        BY <2>3 DEF AssetAges
    <3>2. x \in AssetRows /\ (x.attached <=> asset[f].attached) /\ x.state = asset[f].state
        BY <1>0 DEF AssetRows
    <3> HIDE DEF x
    <3> QED
        BY <1>0, <3>1, <3>2, AssetMoves DEF FileInv
  <2>4. CASE QuarantineAsset(f)
    <3> DEFINE x == [asset[f] EXCEPT !.state = "QUARANTINED"]
    <3>1. (asset' = [asset EXCEPT ![f] = x] \/ UNCHANGED asset) /\ UNCHANGED <<intent, finalizer, removals>>
        BY <2>4 DEF QuarantineAsset
    <3>2. x \in AssetRows /\ x.state = "QUARANTINED"
        BY <1>0 DEF AssetRows
    <3> HIDE DEF x
    <3>3. CASE asset' = [asset EXCEPT ![f] = x]
        BY <1>0, <3>1, <3>2, <3>3, AssetMoves
    <3>4. CASE UNCHANGED asset
        BY <3>1, <3>4, IntentsMove DEF StorageInv, StorageTypes
    <3> QED
        BY <3>1, <3>3, <3>4
  <2>5. CASE DeleteOrphan(f)
    <3> DEFINE x == [asset[f] EXCEPT !.state = "DELETED"]
    <3>1. /\ \/ ~asset[f].attached /\ asset[f].state = "READY" /\ asset' = [asset EXCEPT ![f] = x] /\ removals' = removals \cup {f}
             \/ UNCHANGED <<asset, removals>>
          /\ UNCHANGED <<intent, finalizer>>
        BY <2>5 DEF DeleteOrphan, Deletable
    <3>2. x \in AssetRows /\ x.state = "DELETED" /\ (x.attached <=> asset[f].attached)
        BY <1>0 DEF AssetRows
    <3> HIDE DEF x
    <3>3. CASE ~asset[f].attached /\ asset[f].state = "READY" /\ asset' = [asset EXCEPT ![f] = x] /\ removals' = removals \cup {f}
        BY <1>0, <3>1, <3>2, <3>3, AssetMoves
    <3>4. CASE UNCHANGED <<asset, removals>>
        BY <3>1, <3>4, IntentsMove DEF StorageInv, StorageTypes
    <3> QED
        BY <3>1, <3>3, <3>4
  <2> QED
      BY <1>4, <2>1, <2>2, <2>3, <2>4, <2>5
<1>5. CASE \/ OrderCloses \/ SelectOrphans \/ UNCHANGED storageVars
           \/ \E f \in Files : RemoveObject(f) \/ \E content \in {"good", "othersize", "othertype"} : Upload(f, content)
  <2>1. UNCHANGED <<intent, asset, finalizer>> /\ removals' \subseteq removals
      BY <1>5 DEF OrderCloses, SelectOrphans, storageVars, RemoveObject, Upload
  <2> QED
      BY <2>1, IntentsMove DEF StorageInv, StorageTypes
<1> QED
    BY <1>1, <1>2, <1>3, <1>4, <1>5, FinalizersKeep, CommitKeeps DEF StorageNext

ObjectTypes == object \in [Files -> [main : Contents, quarantine : Contents]]

\* What a step does to the stored objects: it leaves them alone, or it changes one of them.
ObjectStep ==
    \/ UNCHANGED object
    \/ \E f \in Files : object[f].main = "none" /\ \E content \in Contents : object' = [object EXCEPT ![f].main = content]
    \/ \E w \in Finalizers : (RemoveMismatch(w) \/ RemoveRefused(w)) /\ object' = [object EXCEPT ![finalizer[w].file].main = "none"]
    \/ \E w \in Finalizers : /\ MoveToQuarantine(w)
                              /\ object' = [object EXCEPT ![finalizer[w].file] = [main |-> "none", quarantine |-> object[finalizer[w].file].main]]
    \/ \E f \in Files : QuarantineAsset(f) /\ object' = [object EXCEPT ![f] = [main |-> "none", quarantine |-> object[f].main]]
    \/ \E f \in Files : f \in removals /\ object' = [object EXCEPT ![f].main = "none"]

LEMMA ObjectSteps == [StorageNext]_storageVars => ObjectStep
<1> SUFFICES ASSUME [StorageNext]_storageVars PROVE ObjectStep
    OBVIOUS
<1>1. CASE UNCHANGED storageVars
    BY <1>1 DEF storageVars, ObjectStep
<1>2. ASSUME NEW f \in Files, NEW content \in {"good", "othersize", "othertype"}, Upload(f, content) PROVE ObjectStep
    BY <1>2 DEF Upload, ObjectStep, Contents
<1>3. ASSUME NEW f \in Files,
             \/ \E use \in Uses : CreateUploadIntent(f, use)
             \/ StorageTime(f) \/ Attach(f) \/ Detach(f) \/ AssetAges(f) \/ DeleteOrphan(f)
             \/ \E w \in Finalizers : Stat(w, f)
      PROVE  ObjectStep
  <2>1. UNCHANGED object
      BY <1>3 DEF CreateUploadIntent, StorageTime, Attach, Detach, AssetAges, DeleteOrphan, Stat
  <2> QED
      BY <2>1 DEF ObjectStep
<1>4. ASSUME NEW f \in Files, QuarantineAsset(f) PROVE ObjectStep
  <2>1. object' = [object EXCEPT ![f] = [main |-> "none", quarantine |-> object[f].main]]
      BY <1>4 DEF QuarantineAsset
  <2> QED
      BY <1>4, <2>1 DEF ObjectStep
<1>5. ASSUME NEW f \in Files, RemoveObject(f) PROVE ObjectStep
    BY <1>5 DEF RemoveObject, ObjectStep
<1>6. ASSUME NEW w \in Finalizers, RemoveMismatch(w) \/ RemoveRefused(w) PROVE ObjectStep
  <2>1. object' = [object EXCEPT ![finalizer[w].file].main = "none"]
      BY <1>6 DEF RemoveMismatch, RemoveRefused
  <2> QED
      BY <1>6, <2>1 DEF ObjectStep
<1>7. ASSUME NEW w \in Finalizers, MoveToQuarantine(w) PROVE ObjectStep
  <2>1. \/ UNCHANGED object
        \/ object' = [object EXCEPT ![finalizer[w].file] = [main |-> "none", quarantine |-> object[finalizer[w].file].main]]
      BY <1>7 DEF MoveToQuarantine
  <2> QED
      BY <1>7, <2>1 DEF ObjectStep
<1>8. ASSUME NEW w \in Finalizers, CheckSignature(w) \/ CommitFinalize(w) \/ FinalizeStops(w) PROVE ObjectStep
    BY <1>8 DEF CheckSignature, CommitFinalize, FinalizeStops, ObjectStep
<1>9. CASE OrderCloses \/ AbandonUploads \/ SelectOrphans
    BY <1>9 DEF OrderCloses, AbandonUploads, SelectOrphans, ObjectStep
<1> QED
    BY <1>1, <1>2, <1>3, <1>4, <1>5, <1>6, <1>7, <1>8, <1>9 DEF StorageNext

\* A change of one object, whichever it is.
LEMMA OneObject ==
    ASSUME ObjectTypes, NEW g, NEW content \in Contents,
           \/ object' = [object EXCEPT ![g].main = content]
           \/ object' = [object EXCEPT ![g] = [main |-> content, quarantine |-> object[g].main]]
    PROVE  ObjectTypes' /\ \A f \in Files : f # g => object'[f] = object[f]
<1>1. CASE object' = [object EXCEPT ![g].main = content]
    BY <1>1 DEF ObjectTypes
<1>2. CASE object' = [object EXCEPT ![g] = [main |-> content, quarantine |-> object[g].main]]
  <2>1. g \in Files => [main |-> content, quarantine |-> object[g].main] \in [main : Contents, quarantine : Contents]
      BY DEF ObjectTypes
  <2> QED
      BY <1>2, <2>1 DEF ObjectTypes
<1> QED
    BY <1>1, <1>2

LEMMA ObjectTypesKept == ObjectTypes /\ ObjectStep => ObjectTypes'
<1> SUFFICES ASSUME ObjectTypes, ObjectStep PROVE ObjectTypes'
    OBVIOUS
<1>1. "none" \in Contents
    BY DEF Contents
<1>2. CASE UNCHANGED object
    BY <1>2 DEF ObjectTypes
<1>3. CASE ~UNCHANGED object
  <2>1. \E g : \E content \in Contents : \/ object' = [object EXCEPT ![g].main = content]
                                        \/ object' = [object EXCEPT ![g] = [main |-> content, quarantine |-> object[g].main]]
      BY <1>1, <1>3 DEF ObjectStep
  <2> QED
      BY <2>1, OneObject
<1> QED
    BY <1>2, <1>3

\* The object of a READY file changes only at the hands AttachedKept names.
LEMMA ObjectStays ==
    ASSUME StorageInv, ObjectTypes, ObjectStep, NEW f \in Files, asset[f].state = "READY", object[f].main # "none",
           object'[f].main # object[f].main
    PROVE  \/ QuarantineAsset(f)
           \/ \E w \in Finalizers : finalizer[w].at \in {"REMOVE", "MOVE"} /\ finalizer[w].file = f /\ finalizer'[w] # finalizer[w]
<1>1. "none" \in Contents /\ ~Gone(f)
    BY DEF Contents, Gone
<1>2. ASSUME NEW g, NEW content \in Contents,
             \/ object' = [object EXCEPT ![g].main = content]
             \/ object' = [object EXCEPT ![g] = [main |-> content, quarantine |-> object[g].main]]
      PROVE  g = f
    BY <1>2, OneObject
<1>3. ASSUME NEW w \in Finalizers, RemoveMismatch(w) \/ MoveToQuarantine(w), finalizer[w].file = f
      PROVE  finalizer[w].at \in {"REMOVE", "MOVE"} /\ finalizer'[w] # finalizer[w]
  <2>1. finalizer[w].at \in {"REMOVE", "MOVE"}
      BY <1>3 DEF RemoveMismatch, MoveToQuarantine
  <2>2. finalizer \in [Finalizers -> FinalizerRows] /\ finalizer[w] \in FinalizerRows
      BY DEF StorageInv, StorageTypes
  <2>3. \/ finalizer' = [finalizer EXCEPT ![w].at = "COMMIT"]
        \/ finalizer' = [finalizer EXCEPT ![w] = Resting]
      BY <1>3 DEF RemoveMismatch, MoveToQuarantine
  <2>4. finalizer'[w].at \in {"COMMIT", "IDLE"}
      BY <2>2, <2>3 DEF FinalizerRows, Resting
  <2> QED
      BY <2>1, <2>4
<1>4. ASSUME NEW w \in Finalizers, RemoveRefused(w) PROVE finalizer[w].file # f
    BY <1>1, <1>4 DEF RemoveRefused, StorageInv, UndoInv
<1>5. f \notin removals
    BY <1>1 DEF StorageInv, RemovalsInv
<1>6. ~UNCHANGED object
    OBVIOUS
<1>7. CASE \E g \in Files : object[g].main = "none" /\ \E content \in Contents : object' = [object EXCEPT ![g].main = content]
    BY <1>2, <1>7
<1>8. CASE \E w \in Finalizers : (RemoveMismatch(w) \/ RemoveRefused(w)) /\ object' = [object EXCEPT ![finalizer[w].file].main = "none"]
    BY <1>1, <1>2, <1>3, <1>4, <1>8
<1>9. CASE \E w \in Finalizers : /\ MoveToQuarantine(w)
                                 /\ object' = [object EXCEPT ![finalizer[w].file] = [main |-> "none", quarantine |-> object[finalizer[w].file].main]]
    BY <1>1, <1>2, <1>3, <1>9
<1>10. CASE \E g \in Files : QuarantineAsset(g) /\ object' = [object EXCEPT ![g] = [main |-> "none", quarantine |-> object[g].main]]
    BY <1>1, <1>2, <1>10
<1>11. CASE \E g \in Files : g \in removals /\ object' = [object EXCEPT ![g].main = "none"]
    BY <1>1, <1>2, <1>5, <1>11
<1> QED
    BY <1>6, <1>7, <1>8, <1>9, <1>10, <1>11 DEF ObjectStep

\* A file in use is not deleted.
LEMMA NotDeleted ==
    ASSUME StorageInv, [StorageNext]_storageVars, NEW f \in Files, asset[f].state = "READY", asset[f].attached
    PROVE  asset'[f].state # "DELETED"
<1>1. asset \in [Files -> AssetRows] /\ \A g \in Files : asset[g] \in AssetRows
    BY DEF StorageInv, StorageTypes
<1>3. ASSUME NEW g \in Files, Attach(g) \/ Detach(g) \/ AssetAges(g) \/ QuarantineAsset(g) PROVE asset'[f].state # "DELETED"
  <2>1. CASE Attach(g)
    <3>1. asset' = [asset EXCEPT ![g].attached = TRUE]
        BY <2>1 DEF Attach
    <3> QED
        BY <1>1, <3>1 DEF AssetRows
  <2>2. CASE Detach(g)
    <3>1. asset' = [asset EXCEPT ![g].attached = FALSE]
        BY <2>2 DEF Detach
    <3> QED
        BY <1>1, <3>1 DEF AssetRows
  <2>3. CASE AssetAges(g)
    <3>1. asset' = [asset EXCEPT ![g].aged = TRUE]
        BY <2>3 DEF AssetAges
    <3> QED
        BY <1>1, <3>1 DEF AssetRows
  <2>4. CASE QuarantineAsset(g)
    <3>1. asset' = [asset EXCEPT ![g].state = "QUARANTINED"] \/ UNCHANGED asset
        BY <2>4 DEF QuarantineAsset
    <3> QED
        BY <1>1, <3>1 DEF AssetRows
  <2> QED
      BY <1>3, <2>1, <2>2, <2>3, <2>4
<1>4. ASSUME NEW g \in Files, DeleteOrphan(g) PROVE asset'[f].state # "DELETED"
  <2>1. UNCHANGED asset \/ (~asset[g].attached /\ asset' = [asset EXCEPT ![g].state = "DELETED"])
      BY <1>4 DEF DeleteOrphan, Deletable
  <2>2. CASE UNCHANGED asset
      BY <2>2
  <2>3. CASE ~asset[g].attached /\ asset' = [asset EXCEPT ![g].state = "DELETED"]
    <3>1. f # g
        BY <2>3
    <3> QED
        BY <1>1, <2>3, <3>1
  <2> QED
      BY <2>1, <2>2, <2>3
<1>5. ASSUME NEW w \in Finalizers, CommitFinalize(w) PROVE asset'[f].state # "DELETED"
  <2>1. \/ UNCHANGED asset
        \/ asset' = [asset EXCEPT ![finalizer[w].file].state = "READY"]
        \/ asset' = [asset EXCEPT ![finalizer[w].file].state = "QUARANTINED"]
    <3> DEFINE outcome == IF finalizer[w].verdict = "FINALIZED" /\ ~MayUpload(intent[finalizer[w].file].use)
                          THEN "REJECTED" ELSE finalizer[w].verdict
    <3>1. \/ UNCHANGED asset
          \/ asset' = IF outcome = "REJECTED" THEN asset
                      ELSE [asset EXCEPT ![finalizer[w].file].state = IF outcome = "FINALIZED" THEN "READY" ELSE "QUARANTINED"]
        BY <1>5 DEF CommitFinalize
    <3> HIDE DEF outcome
    <3> QED
        BY <3>1
  <2> QED
      BY <1>1, <2>1 DEF AssetRows
<1>6. CASE UNCHANGED asset
    BY <1>6
<1> QED
  <2>1. ASSUME NEW g \in Files, \/ \E use \in Uses : CreateUploadIntent(g, use)
                                \/ \E content \in {"good", "othersize", "othertype"} : Upload(g, content)
                                \/ StorageTime(g) \/ RemoveObject(g) \/ \E w \in Finalizers : Stat(w, g)
        PROVE  UNCHANGED asset
      BY <2>1 DEF CreateUploadIntent, Upload, StorageTime, RemoveObject, Stat
  <2>2. ASSUME NEW w \in Finalizers, RemoveMismatch(w) \/ CheckSignature(w) \/ MoveToQuarantine(w) \/ RemoveRefused(w) \/ FinalizeStops(w)
        PROVE  UNCHANGED asset
      BY <2>2 DEF RemoveMismatch, CheckSignature, MoveToQuarantine, RemoveRefused, FinalizeStops
  <2>3. CASE OrderCloses \/ AbandonUploads \/ SelectOrphans \/ UNCHANGED storageVars
      BY <1>6, <2>3 DEF OrderCloses, AbandonUploads, SelectOrphans, storageVars
  <2> QED
      BY <1>3, <1>4, <1>5, <1>6, <2>1, <2>2, <2>3 DEF StorageNext

\* lockDeliveryAssets, cleanupStorage, finalizeUpload: for any number of files, finalizers and failures, a file in use is
\* not deleted, its object is not taken by the cleanup job or by a finalizer whose commit was refused, and a file that can
\* be fetched was finalized.
THEOREM AttachedFilesKept == StorageSpec => AttachedKept
<1>1. StorageInit => StorageInv
    BY StorageInitHolds
<1>2. StorageInv /\ [StorageNext]_storageVars => StorageInv'
    BY StorageNextKeeps
<1>3. StorageInit => ObjectTypes
    BY DEF StorageInit, ObjectTypes, Contents
<1>4. ObjectTypes /\ [StorageNext]_storageVars => ObjectTypes'
    BY ObjectSteps, ObjectTypesKept
<1>5. StorageInv /\ ObjectTypes /\ [StorageNext]_storageVars => StorageStep
  <2> SUFFICES ASSUME StorageInv, ObjectTypes, [StorageNext]_storageVars, NEW f \in Files PROVE FileKept(f)
      BY DEF StorageStep
  <2>1. ObjectStep
      BY ObjectSteps
  <2>2. asset[f].state = "READY" => intent[f].state = "FINALIZED"
      BY DEF StorageInv, FileInv
  <2>3. (\E asking \in {"owner", "participant", "operator", "moderator"} : MayDownload(f, asking)) => intent[f].state = "FINALIZED"
      BY <2>2 DEF MayDownload
  <2>4. asset[f].state = "READY" => (asset[f].attached => asset'[f].state # "DELETED")
      BY NotDeleted
  <2>5. asset[f].state = "READY" /\ object[f].main # "none" /\ object'[f].main # object[f].main =>
           \/ QuarantineAsset(f)
           \/ \E w \in Finalizers : finalizer[w].at \in {"REMOVE", "MOVE"} /\ finalizer[w].file = f /\ finalizer'[w] # finalizer[w]
      BY <2>1, ObjectStays
  <2> QED
      BY <2>3, <2>4, <2>5 DEF FileKept
<1>6. StorageInv /\ ObjectTypes /\ [StorageNext]_storageVars => [StorageStep]_storageVars
    BY <1>5
<1> QED
    BY <1>1, <1>2, <1>3, <1>4, <1>6, PTL DEF StorageSpec, AttachedKept

-----------------------------------------------------------------------------
(* The configuration *)

EnvironmentSpec == EnvironmentInit /\ [][EnvironmentNext]_environmentVars

CheckedInv == target \in {"local", "staging", "production"} /\ started \in BOOLEAN /\ (started => CheckEnvironment)

\* What env:check said of one variable.
Passed(n) == IF env[n] = "unset" THEN ~Required[n] ELSE env[n] \in Valid[n]

LEMMA CheckedVariables ==
    ASSUME CheckEnvironment
    PROVE  /\ Passed("APP_ENV") /\ Passed("NODE_ENV") /\ Passed("AUTH_MODE") /\ Passed("DEV_SESSIONS")
           /\ Passed("PUBLISHABLE_KEY") /\ Passed("SERVER_SECRET_KEY") /\ Passed("STORAGE_PROVIDER")
           /\ Passed("PAYMENT_MODE") /\ Passed("PAYMENT_PROVIDER") /\ Passed("STRIPE_KEYS")
           /\ Passed("X_PROVIDER") /\ Passed("X_CLIENT")
           /\ Passed("GOOGLE_PROVIDER") /\ Passed("GOOGLE_CLIENT")
    BY DEF CheckEnvironment, Names, Values, Passed

\* env-rules.ts against the switches of eight files: whatever configuration an operator starts from and however many
\* variables are changed, what passed the check turns its payment switches together, and for staging or production it
\* simulates no payment, file store or sign-in and can do what it selects.
THEOREM DeploymentsChecked == EnvironmentSpec => []DeployedAsChecked
<1>1. EnvironmentInit => CheckedInv
    BY DEF EnvironmentInit, CheckedInv
<1>2. CheckedInv /\ [EnvironmentNext]_environmentVars => CheckedInv'
  <2> SUFFICES ASSUME CheckedInv, [EnvironmentNext]_environmentVars PROVE CheckedInv'
      OBVIOUS
  <2>1. CASE EnvCheck \/ UNCHANGED environmentVars
    <3>1. UNCHANGED <<env, target>> /\ (started' = started \/ (started' = TRUE /\ CheckEnvironment))
        BY <2>1 DEF EnvCheck, environmentVars
    <3>2. CheckEnvironment' <=> CheckEnvironment
      <4>1. Required' = Required
          BY <3>1 DEF Required, Deployed, Live, SupabaseAuth, SupabaseStorage
      <4>2. Valid' = Valid
          BY <3>1 DEF Valid, Deployed, Production, Live, PaymentModes
      <4>3. env' = env
          BY <3>1
      <4> QED
          BY <4>1, <4>2, <4>3 DEF CheckEnvironment
    <3>3. (started => CheckEnvironment) /\ started \in BOOLEAN /\ target' \in {"local", "staging", "production"}
        BY <3>1 DEF CheckedInv
    <3>4. CASE started' = started
        BY <3>2, <3>3, <3>4 DEF CheckedInv
    <3>5. CASE started' = TRUE /\ CheckEnvironment
        BY <3>2, <3>3, <3>5 DEF CheckedInv
    <3> QED
        BY <3>1, <3>4, <3>5
  <2>2. ASSUME NEW n \in Names, NEW value \in Values[n], SetVariable(n, value) PROVE CheckedInv'
      BY <2>2 DEF SetVariable, CheckedInv
  <2> QED
      BY <2>1, <2>2 DEF EnvironmentNext
<1>3. CheckedInv => DeployedAsChecked
  <2> SUFFICES ASSUME CheckedInv, started PROVE DeployedAsChecked
      BY DEF DeployedAsChecked
  <2>1. /\ Passed("APP_ENV") /\ Passed("NODE_ENV") /\ Passed("AUTH_MODE") /\ Passed("DEV_SESSIONS")
        /\ Passed("PUBLISHABLE_KEY") /\ Passed("SERVER_SECRET_KEY") /\ Passed("STORAGE_PROVIDER")
        /\ Passed("PAYMENT_MODE") /\ Passed("PAYMENT_PROVIDER") /\ Passed("STRIPE_KEYS")
        /\ Passed("X_PROVIDER") /\ Passed("X_CLIENT")
        /\ Passed("GOOGLE_PROVIDER") /\ Passed("GOOGLE_CLIENT")
      BY CheckedVariables DEF CheckedInv
  <2>2. /\ Live <=> env.STRIPE_KEYS = "live"
        /\ Live => Production /\ env.PAYMENT_MODE = "live" /\ env.PAYMENT_PROVIDER = "stripe_connect"
      BY <2>1 DEF Passed, Required, Valid, PaymentModes
  <2>3. Production => ~NotProduction
      BY <2>1 DEF Passed, Required, Valid, Production, Deployed, NotProduction
  <2>4. ASSUME Deployed
        PROVE  /\ StandIns \cap {"payments", "storage", "personas"} = {} /\ SignInWorks /\ StorageWorks
               /\ env.X_PROVIDER = "live" => XMode = "live"
               /\ env.GOOGLE_PROVIDER = "live" => GoogleMode = "live"
    <3>1. env.AUTH_MODE \in {"app", "supabase"} /\ env.DEV_SESSIONS = "off" /\ env.STORAGE_PROVIDER = "supabase"
          /\ env.SERVER_SECRET_KEY = "set" /\ env.PAYMENT_MODE \notin {"unset", "mock"}
        BY <2>1, <2>4 DEF Passed, Required, Valid, PaymentModes, SupabaseStorage, Deployed
    <3>2. env.AUTH_MODE = "supabase" => env.PUBLISHABLE_KEY = "set"
        BY <2>1 DEF Passed, Required, Valid, SupabaseAuth
    <3>3. (env.X_PROVIDER = "live" => env.X_CLIENT = "set") /\ (env.GOOGLE_PROVIDER = "live" => env.GOOGLE_CLIENT = "set")
        BY <2>1 DEF Passed, Required, Valid
    <3>4. ~MockPaymentsEnabled /\ ~LocalStorageEnabled /\ ~DevSessionsEnabled
        BY <3>1 DEF MockPaymentsEnabled, LocalStorageEnabled, DevSessionsEnabled
    <3>5. StandIns \cap {"payments", "storage", "personas"} = {}
        BY <3>4 DEF StandIns
    <3>6. SignInWorks /\ StorageWorks
        BY <3>1, <3>2 DEF SignInWorks, StorageWorks, AppSessionsEnabled
    <3>7. (env.X_PROVIDER = "live" => XMode = "live") /\ (env.GOOGLE_PROVIDER = "live" => GoogleMode = "live")
        BY <3>3 DEF XMode, GoogleMode
    <3> QED
        BY <3>5, <3>6, <3>7
  <2>5. Production => StandIns = {}
    <3>1. ~NotProduction => /\ ~LocalChainsEnabled /\ ~GetReleaseSigner /\ XMode # "mock" /\ GoogleMode # "mock"
                            /\ ~MockPaymentsEnabled /\ ~LocalStorageEnabled /\ ~DevSessionsEnabled
        BY DEF LocalChainsEnabled, GetReleaseSigner, XMode, GoogleMode, MockPaymentsEnabled, LocalStorageEnabled, DevSessionsEnabled
    <3> QED
        BY <2>3, <3>1 DEF StandIns
  <2> QED
      BY <2>2, <2>4, <2>5 DEF DeployedAsChecked
<1> QED
    BY <1>1, <1>2, <1>3, PTL DEF EnvironmentSpec

-----------------------------------------------------------------------------
(* The waitlist *)

WaitlistSpec == WaitlistInit /\ [][WaitlistNext]_waitlistVars

PostRows == [at : {"unsent", "count", "insert", "email", "record", "respond", "answered"}, typed : DOMAIN Spellings \cup {"none"},
             net : Networks \cup {"none"}, result : Welcomes]

WaitlistTypes ==
    /\ signups \in [Addresses -> SignupRows \cup {NoSignup}] /\ post \in [Posts -> PostRows]
    /\ welcomed \in SUBSET (Addresses \X Posts) /\ known \in SUBSET Posts /\ ticks \in Nat

Has(a, token) == signups[a] # NoSignup /\ signups[a].token = token

\* A token is in no row before its request inserts one, and then in the row of the address it was sent for.
PostInv(r) ==
    /\ post[r].at \in {"count", "insert", "email", "record", "respond"} => post[r].typed \in DOMAIN Spellings
    /\ post[r].at \in {"unsent", "count", "insert"} => \A a \in Addresses : ~Has(a, r)
    /\ post[r].at \in {"email", "record", "respond"} => \A a \in Addresses : Has(a, r) <=> a = AddressOf(r)
    /\ post[r].at = "record" /\ post[r].result = "SENT" => <<AddressOf(r), r>> \in welcomed

RowsInv ==
    /\ \A m \in welcomed : Has(m[1], m[2])
    /\ \A a \in Addresses : signups[a] # NoSignup /\ signups[a].welcome = "SENT" => <<a, signups[a].token>> \in welcomed
    /\ \A t \in known : \E a \in Addresses : Has(a, t)

WaitlistInv == WaitlistTypes /\ (\A r \in Posts : PostInv(r)) /\ RowsInv

LEMMA WaitlistInitHolds == WaitlistInit => WaitlistInv
<1> SUFFICES ASSUME WaitlistInit PROVE WaitlistInv
    OBVIOUS
<1>1. WaitlistTypes
    BY DEF WaitlistInit, WaitlistTypes, PostRows, NotSent, Welcomes
<1>2. \A r \in Posts : PostInv(r)
    BY DEF WaitlistInit, PostInv, NotSent, Has
<1>3. RowsInv
    BY DEF WaitlistInit, RowsInv, Has
<1> QED
    BY <1>1, <1>2, <1>3 DEF WaitlistInv

\* A request moves on; no row changes.
LEMMA PostMoves ==
    ASSUME WaitlistInv, NEW r \in Posts, NEW x \in PostRows, post' = [post EXCEPT ![r] = x], UNCHANGED <<signups, ticks>>,
           welcomed \subseteq welcomed', known \subseteq known',
           \A m \in welcomed' : m \in welcomed \/ (m \in Addresses \X Posts /\ Has(m[1], m[2])),
           \A t \in known' : t \in known \/ (t \in Posts /\ \E a \in Addresses : Has(a, t)), PostInv(r)'
    PROVE  WaitlistInv'
<1>1. WaitlistTypes'
    BY DEF WaitlistInv, WaitlistTypes
<1>2. \A a, t : Has(a, t)' <=> Has(a, t)
    BY DEF Has
<1>3. ASSUME NEW q \in Posts PROVE PostInv(q)'
  <2>1. CASE q = r
      BY <2>1
  <2>2. CASE q # r
    <3>1. post'[q] = post[q]
        BY <2>2 DEF WaitlistInv, WaitlistTypes
    <3>2. AddressOf(q)' = AddressOf(q)
        BY <3>1 DEF AddressOf, NormalizeEmail
    <3>3. PostInv(q)
        BY DEF WaitlistInv
    <3> QED
        BY <1>2, <3>1, <3>2, <3>3 DEF PostInv
  <2> QED
      BY <2>1, <2>2
<1>4. RowsInv'
    BY <1>2 DEF WaitlistInv, RowsInv
<1> QED
    BY <1>1, <1>3, <1>4 DEF WaitlistInv

\* Answered: a request that is over says nothing more.
LEMMA AnswerMoves ==
    ASSUME WaitlistInv, NEW r \in Posts, post' = Answer(r), UNCHANGED <<signups, ticks, welcomed>>, known \subseteq known',
           \A t \in known' : t \in known \/ (t \in Posts /\ \E a \in Addresses : Has(a, t))
    PROVE  WaitlistInv'
<1> DEFINE x == [NotSent EXCEPT !.at = "answered"]
<1>1. x \in PostRows /\ x.at = "answered"
    BY DEF NotSent, PostRows, Welcomes
<1>2. post' = [post EXCEPT ![r] = x] /\ post'[r] = x
    BY DEF Answer, WaitlistInv, WaitlistTypes
<1>3. PostInv(r)'
    BY <1>1, <1>2 DEF PostInv
<1> HIDE DEF x
<1> QED
    BY <1>1, <1>2, <1>3, PostMoves

\* A request moves to another step and keeps what it sent.
LEMMA StepMoves ==
    ASSUME WaitlistInv, NEW r \in Posts, NEW at \in {"insert", "email", "record", "respond"}, NEW result \in Welcomes,
           post' = [post EXCEPT ![r].at = at, ![r].result = result] \/ (post' = [post EXCEPT ![r].at = at] /\ result = post[r].result),
           post[r].at \in {"count", "email", "record"}, at = "insert" <=> post[r].at = "count",
           UNCHANGED <<signups, ticks>>, welcomed \subseteq welcomed', known \subseteq known',
           \A m \in welcomed' : m \in welcomed \/ m = <<AddressOf(r), r>>, \A t \in known' : t \in known \/ t = r,
           at = "insert" => UNCHANGED <<welcomed, known>>,
           at = "record" /\ result = "SENT" => <<AddressOf(r), r>> \in welcomed'
    PROVE  WaitlistInv'
<1> DEFINE x == [post[r] EXCEPT !.at = at, !.result = result]
<1>0. post[r] \in PostRows /\ PostInv(r)
    BY DEF WaitlistInv, WaitlistTypes
<1>1. x \in PostRows /\ x.at = at /\ x.typed = post[r].typed /\ x.result = result
    BY <1>0 DEF PostRows
<1>2. post' = [post EXCEPT ![r] = x]
    BY <1>0 DEF WaitlistInv, WaitlistTypes, PostRows
<1>3. post'[r] = x
    BY <1>2 DEF WaitlistInv, WaitlistTypes
<1> HIDE DEF x
<1>4. AddressOf(r)' = AddressOf(r) /\ AddressOf(r) \in Addresses
  <2>1. AddressOf(r)' = AddressOf(r)
      BY <1>1, <1>3 DEF AddressOf, NormalizeEmail
  <2> QED
      BY <1>0, <2>1 DEF PostInv, AddressOf, NormalizeEmail, Addresses
<1>5. \A a, t : Has(a, t)' <=> Has(a, t)
    BY DEF Has
<1>6. at # "insert" => Has(AddressOf(r), r)
    BY <1>0, <1>4 DEF PostInv
<1>7. PostInv(r)'
  <2>1. CASE at = "insert"
      BY <1>0, <1>1, <1>3, <1>5, <2>1 DEF PostInv
  <2>2. CASE at # "insert"
      BY <1>0, <1>1, <1>3, <1>4, <1>5, <2>2 DEF PostInv
  <2> QED
      BY <2>1, <2>2
<1>8. \A m \in welcomed' : m \in welcomed \/ (m \in Addresses \X Posts /\ Has(m[1], m[2]))
    BY <1>4, <1>6
<1>9. \A t \in known' : t \in known \/ (t \in Posts /\ \E a \in Addresses : Has(a, t))
    BY <1>4, <1>6
<1> QED
    BY <1>1, <1>2, <1>7, <1>8, <1>9, PostMoves

LEMMA InsertKeeps ==
    ASSUME WaitlistInv, NEW r \in Posts, InsertSignup(r)
    PROVE  WaitlistInv'
<1> DEFINE b == AddressOf(r)
           x == [post[r] EXCEPT !.at = "email"]
<1>0. post[r] \in PostRows /\ PostInv(r) /\ post[r].at = "insert" /\ UNCHANGED <<welcomed, known, ticks>>
    BY DEF WaitlistInv, WaitlistTypes, InsertSignup
<1>1. b \in Addresses
    BY <1>0 DEF PostInv, AddressOf, NormalizeEmail, Addresses
<1>2. CASE signups[b] # NoSignup
  <2>1. post' = Answer(r) /\ UNCHANGED signups
      BY <1>2 DEF InsertSignup, InsertRow
  <2> QED
      BY <1>0, <2>1, AnswerMoves
<1>3. CASE signups[b] = NoSignup
  <2>1. signups' = [signups EXCEPT ![b] = NewRow(r)] /\ post' = [post EXCEPT ![r] = x]
      BY <1>3 DEF InsertSignup, InsertRow, To
  <2>2. NewRow(r) \in SignupRows /\ NewRow(r).token = r /\ NewRow(r).welcome = "PENDING" /\ NewRow(r) # NoSignup
    <3>1. NewRow(r) \in SignupRows
        BY <1>0 DEF NewRow, SignupRows, PostRows, Welcomes, WaitlistInv, WaitlistTypes
    <3> QED
        BY <3>1, WaitlistAssumption DEF NewRow
  <2>3. x \in PostRows /\ x.at = "email" /\ x.typed = post[r].typed
      BY <1>0 DEF PostRows
  <2> HIDE DEF x, b
  <2>4. WaitlistTypes'
      BY <1>0, <1>1, <2>1, <2>2, <2>3 DEF WaitlistInv, WaitlistTypes
  <2>5. \A a \in Addresses : signups'[a] = IF a = b THEN NewRow(r) ELSE signups[a]
      BY <2>1 DEF WaitlistInv, WaitlistTypes
  <2>6. \A a \in Addresses, t \in Posts : Has(a, t)' <=> Has(a, t) \/ (a = b /\ t = r)
      BY <1>3, <2>2, <2>5 DEF Has
  <2>7. ASSUME NEW q \in Posts PROVE PostInv(q)'
    <3>1. CASE q = r
      <4>1. post'[q] = x
          BY <2>1, <3>1 DEF WaitlistInv, WaitlistTypes
      <4>2. AddressOf(q)' = b
          BY <2>3, <3>1, <4>1 DEF AddressOf, NormalizeEmail, b
      <4>3. \A a \in Addresses : Has(a, q)' <=> a = b
          BY <1>0, <2>6, <3>1 DEF PostInv
      <4>4. post'[q].typed \in DOMAIN Spellings
          BY <1>0, <2>3, <4>1 DEF PostInv
      <4> QED
          BY <2>3, <4>1, <4>2, <4>3, <4>4 DEF PostInv
    <3>2. CASE q # r
      <4>1. post'[q] = post[q]
          BY <2>1, <3>2 DEF WaitlistInv, WaitlistTypes
      <4>2. AddressOf(q)' = AddressOf(q)
          BY <4>1 DEF AddressOf, NormalizeEmail
      <4>3. \A a \in Addresses : Has(a, q)' <=> Has(a, q)
          BY <2>6, <3>2
      <4>4. PostInv(q) /\ UNCHANGED welcomed
          BY <1>0 DEF WaitlistInv
      <4> QED
          BY <4>1, <4>2, <4>3, <4>4 DEF PostInv
    <3> QED
        BY <3>1, <3>2
  <2>8. RowsInv'
    <3>1. \A m \in welcomed : m[1] \in Addresses /\ m[2] \in Posts
        BY DEF WaitlistInv, WaitlistTypes
    <3>2. \A m \in welcomed' : Has(m[1], m[2])'
        BY <1>0, <2>6, <3>1 DEF WaitlistInv, RowsInv
    <3>3. \A a \in Addresses : signups'[a] # NoSignup /\ signups'[a].welcome = "SENT" => <<a, signups'[a].token>> \in welcomed'
        BY <1>0, <2>2, <2>5 DEF WaitlistInv, RowsInv
    <3>4. \A t \in known' : \E a \in Addresses : Has(a, t)'
        BY <1>0, <2>6 DEF WaitlistInv, WaitlistTypes, RowsInv
    <3> QED
        BY <3>2, <3>3, <3>4 DEF RowsInv
  <2> QED
      BY <2>4, <2>7, <2>8 DEF WaitlistInv
<1> QED
    BY <1>2, <1>3

\* Rows change what they say, never whose they are.
LEMMA RowsMove ==
    ASSUME WaitlistInv, signups' \in [Addresses -> SignupRows \cup {NoSignup}], UNCHANGED <<post, welcomed, known, ticks>>,
           \A a \in Addresses : (signups'[a] = NoSignup <=> signups[a] = NoSignup)
                                /\ (signups[a] # NoSignup => signups'[a].token = signups[a].token),
           \A a \in Addresses : signups[a] # NoSignup /\ signups'[a].welcome = "SENT" => <<a, signups[a].token>> \in welcomed
    PROVE  WaitlistInv'
<1>1. \A a \in Addresses, t \in Posts : Has(a, t)' <=> Has(a, t)
    BY DEF Has
<1>2. WaitlistTypes'
    BY DEF WaitlistInv, WaitlistTypes
<1>3. \A r \in Posts : PostInv(r)'
  <2>1. \A r \in Posts : AddressOf(r)' = AddressOf(r)
      BY DEF AddressOf, NormalizeEmail
  <2> QED
      BY <1>1, <2>1 DEF WaitlistInv, PostInv
<1>4. RowsInv'
  <2>1. \A m \in welcomed : m[1] \in Addresses /\ m[2] \in Posts
      BY DEF WaitlistInv, WaitlistTypes
  <2>2. \A m \in welcomed' : Has(m[1], m[2])'
      BY <1>1, <2>1 DEF WaitlistInv, RowsInv
  <2>3. \A t \in known' : \E a \in Addresses : Has(a, t)'
      BY <1>1 DEF WaitlistInv, WaitlistTypes, RowsInv
  <2> QED
      BY <2>2, <2>3 DEF RowsInv
<1> QED
    BY <1>2, <1>3, <1>4 DEF WaitlistInv

LEMMA WaitlistNextKeeps == WaitlistInv /\ [WaitlistNext]_waitlistVars => WaitlistInv'
<1> SUFFICES ASSUME WaitlistInv, [WaitlistNext]_waitlistVars PROVE WaitlistInv'
    OBVIOUS
<1>0. (\A r \in Posts : post[r] \in PostRows /\ PostInv(r)) /\ \A a \in Addresses : signups[a] \in SignupRows \cup {NoSignup}
    BY DEF WaitlistInv, WaitlistTypes
<1>1. ASSUME NEW r \in Posts, Refused(r) PROVE WaitlistInv'
    BY <1>1, AnswerMoves DEF Refused
<1>2. ASSUME NEW r \in Posts, CountRecent(r) PROVE WaitlistInv'
  <2>1. CASE post' = Answer(r)
      BY <1>2, <2>1, AnswerMoves DEF CountRecent
  <2>2. CASE post' = [post EXCEPT ![r].at = "insert"]
    <3>1. post[r].result \in Welcomes
        BY <1>0 DEF PostRows
    <3> QED
        BY <1>2, <2>2, <3>1, StepMoves DEF CountRecent
  <2> QED
      BY <1>2, <2>1, <2>2 DEF CountRecent, To
<1>3. ASSUME NEW r \in Posts, EmailSent(r) \/ EmailFailed(r) \/ EmailPreviewed(r) PROVE WaitlistInv'
  <2>1. PICK result \in Welcomes :
            /\ Delivered(r, result)
            /\ \/ Sends(r)
               \/ UNCHANGED <<welcomed, known>> /\ result # "SENT"
      BY <1>3 DEF EmailSent, EmailFailed, EmailPreviewed, Welcomes
  <2>2. /\ post[r].at = "email" /\ post' = [post EXCEPT ![r].at = "record", ![r].result = result]
        /\ UNCHANGED <<signups, ticks>>
      BY <2>1 DEF Delivered
  <2>3. /\ welcomed \subseteq welcomed' /\ known \subseteq known' /\ \A m \in welcomed' : m \in welcomed \/ m = <<AddressOf(r), r>>
        /\ (\A t \in known' : t \in known \/ t = r) /\ (result = "SENT" => <<AddressOf(r), r>> \in welcomed')
      BY <2>1 DEF Sends
  <2> QED
      BY <2>2, <2>3, StepMoves
<1>4. ASSUME NEW r \in Posts, EmailNotRendered(r) PROVE WaitlistInv'
  <2>1. post[r].result \in Welcomes
      BY <1>0 DEF PostRows
  <2> QED
      BY <1>4, <2>1, StepMoves DEF EmailNotRendered, To
<1>5. ASSUME NEW r \in Posts, RecordDelivery(r) PROVE WaitlistInv'
  <2> DEFINE x == [post[r] EXCEPT !.at = "respond"]
  <2>0. /\ post[r].at = "record" /\ post' = [post EXCEPT ![r].at = "respond"] /\ UNCHANGED <<welcomed, known, ticks>>
        /\ \A a \in Addresses : signups'[a] = IF Has(a, r) THEN [signups[a] EXCEPT !.welcome = post[r].result] ELSE signups[a]
        /\ signups' = [a \in Addresses |-> signups'[a]]
      BY <1>5 DEF RecordDelivery, To, Has
  <2>1. ASSUME NEW a \in Addresses
        PROVE  /\ signups'[a] \in SignupRows \cup {NoSignup} /\ (signups'[a] = NoSignup <=> signups[a] = NoSignup)
               /\ signups[a] # NoSignup => signups'[a].token = signups[a].token
               /\ signups[a] # NoSignup /\ signups'[a].welcome = "SENT" => <<a, signups[a].token>> \in welcomed
    <3>1. CASE Has(a, r)
      <4> DEFINE y == [signups[a] EXCEPT !.welcome = post[r].result]
      <4>1. signups[a] \in SignupRows /\ post[r].result \in Welcomes /\ signups'[a] = y
          BY <1>0, <2>0, <3>1 DEF Has, PostRows
      <4>2. y \in SignupRows /\ y.token = signups[a].token /\ y.welcome = post[r].result
          BY <4>1 DEF SignupRows
      <4>3. y # NoSignup
          BY <4>2, WaitlistAssumption
      <4>4. post[r].result = "SENT" => <<a, signups[a].token>> \in welcomed
          BY <1>0, <2>0, <3>1 DEF PostInv, Has
      <4> QED
          BY <3>1, <4>1, <4>2, <4>3, <4>4 DEF Has
    <3>2. CASE ~Has(a, r)
        BY <1>0, <2>0, <3>2 DEF WaitlistInv, RowsInv
    <3> QED
        BY <3>1, <3>2
  <2>2. signups' \in [Addresses -> SignupRows \cup {NoSignup}]
      BY <2>0, <2>1
  <2>3. \A a \in Addresses, t \in Posts : Has(a, t)' <=> Has(a, t)
      BY <2>1 DEF Has
  <2>4. x \in PostRows /\ x.at = "respond" /\ x.typed = post[r].typed /\ post' = [post EXCEPT ![r] = x]
      BY <1>0, <2>0 DEF PostRows
  <2> HIDE DEF x
  <2>5. WaitlistTypes'
      BY <2>0, <2>2, <2>4 DEF WaitlistInv, WaitlistTypes
  <2>6. ASSUME NEW q \in Posts PROVE PostInv(q)'
    <3>1. post'[q].typed = post[q].typed /\ post'[q] = IF q = r THEN x ELSE post[q]
        BY <2>4 DEF WaitlistInv, WaitlistTypes
    <3>2. AddressOf(q)' = AddressOf(q) /\ PostInv(q) /\ UNCHANGED welcomed
        BY <1>0, <2>0, <3>1 DEF AddressOf, NormalizeEmail
    <3>3. CASE q = r
        BY <2>0, <2>3, <2>4, <3>1, <3>2, <3>3 DEF PostInv
    <3>4. CASE q # r
        BY <2>3, <3>1, <3>2, <3>4 DEF PostInv
    <3> QED
        BY <3>3, <3>4
  <2>7. RowsInv'
    <3>1. \A m \in welcomed : m[1] \in Addresses /\ m[2] \in Posts
        BY DEF WaitlistInv, WaitlistTypes
    <3>2. \A m \in welcomed' : Has(m[1], m[2])'
        BY <2>0, <2>3, <3>1 DEF WaitlistInv, RowsInv
    <3>3. \A t \in known' : \E a \in Addresses : Has(a, t)'
        BY <2>0, <2>3 DEF WaitlistInv, WaitlistTypes, RowsInv
    <3>4. \A a \in Addresses : signups'[a] # NoSignup /\ signups'[a].welcome = "SENT" => <<a, signups'[a].token>> \in welcomed'
        BY <2>0, <2>1
    <3> QED
        BY <3>2, <3>3, <3>4 DEF RowsInv
  <2> QED
      BY <2>5, <2>6, <2>7 DEF WaitlistInv
<1>6. ASSUME NEW r \in Posts, Respond(r) PROVE WaitlistInv'
  <2>1. AddressOf(r) \in Addresses
      BY <1>0, <1>6 DEF Respond, PostInv, AddressOf, NormalizeEmail, Addresses
  <2>2. Has(AddressOf(r), r)
      BY <1>0, <1>6, <2>1 DEF Respond, PostInv
  <2> QED
      BY <1>6, <2>1, <2>2, AnswerMoves DEF Respond
<1>7. ASSUME NEW r \in Posts, RequestStops(r) PROVE WaitlistInv'
  <2>1. CASE post' = Answer(r)
      BY <1>7, <2>1, AnswerMoves DEF RequestStops
  <2>2. CASE post[r].at = "record" /\ To(r, "respond")
    <3>1. post[r].result \in Welcomes
        BY <1>0 DEF PostRows
    <3> QED
        BY <1>7, <2>2, <3>1, StepMoves DEF RequestStops, To
  <2> QED
      BY <1>7, <2>1, <2>2 DEF RequestStops
<1>8. ASSUME NEW r \in Posts, NEW typed \in DOMAIN Spellings, NEW net \in Networks \cup {"none"}, SendForm(r, typed, net)
      PROVE  WaitlistInv'
  <2> DEFINE x == [at |-> IF net = "none" THEN "insert" ELSE "count", typed |-> typed, net |-> net, result |-> "PENDING"]
  <2>1. x \in PostRows /\ x.at \in {"insert", "count"} /\ x.typed \in DOMAIN Spellings
      BY DEF PostRows, Welcomes
  <2>2. post[r].at = "unsent" /\ post' = [post EXCEPT ![r] = x] /\ UNCHANGED <<signups, welcomed, known, ticks>>
      BY <1>8 DEF SendForm, NotSent
  <2> HIDE DEF x
  <2>3. post'[r] = x
      BY <2>2 DEF WaitlistInv, WaitlistTypes
  <2>4. PostInv(r)'
      BY <1>0, <2>1, <2>2, <2>3 DEF PostInv, Has
  <2> QED
      BY <2>1, <2>2, <2>4, PostMoves
<1>9. ASSUME NEW token \in Posts, NEW handle \in XHandles, AttachHandle(token, handle) PROVE WaitlistInv'
  <2>0. /\ UNCHANGED <<post, welcomed, known, ticks>> /\ signups' = [a \in Addresses |-> signups'[a]]
        /\ \A a \in Addresses : signups'[a] = signups[a] \/ (signups[a] # NoSignup /\ signups'[a] = [signups[a] EXCEPT !.handle = handle])
      BY <1>9 DEF AttachHandle, Linked
  <2>1. ASSUME NEW a \in Addresses
        PROVE  /\ signups'[a] \in SignupRows \cup {NoSignup} /\ (signups'[a] = NoSignup <=> signups[a] = NoSignup)
               /\ signups[a] # NoSignup => signups'[a].token = signups[a].token /\ signups'[a].welcome = signups[a].welcome
    <3>1. CASE signups'[a] = signups[a]
        BY <1>0, <3>1
    <3>2. CASE signups[a] # NoSignup /\ signups'[a] = [signups[a] EXCEPT !.handle = handle]
      <4> DEFINE y == [signups[a] EXCEPT !.handle = handle]
      <4>1. signups[a] \in SignupRows
          BY <1>0, <3>2
      <4>2. y \in SignupRows /\ y.token = signups[a].token /\ y.welcome = signups[a].welcome
          BY <4>1 DEF SignupRows
      <4>3. y # NoSignup
          BY <4>2, WaitlistAssumption
      <4> QED
          BY <3>2, <4>2, <4>3
    <3> QED
        BY <2>0, <3>1, <3>2
  <2>2. signups' \in [Addresses -> SignupRows \cup {NoSignup}]
      BY <2>0, <2>1
  <2>3. \A a \in Addresses : signups[a] # NoSignup /\ signups'[a].welcome = "SENT" => <<a, signups[a].token>> \in welcomed
      BY <2>1 DEF WaitlistInv, RowsInv
  <2> QED
      BY <2>0, <2>1, <2>2, <2>3, RowsMove
<1>10. CASE TimePasses \/ UNCHANGED waitlistVars
  <2>1. UNCHANGED <<signups, post, welcomed, known>> /\ ticks' \in Nat
      BY <1>10 DEF TimePasses, waitlistVars, WaitlistInv, WaitlistTypes
  <2> QED
      BY <2>1 DEF WaitlistInv, WaitlistTypes, PostInv, RowsInv, Has, AddressOf, NormalizeEmail
<1> QED
    BY <1>1, <1>2, <1>3, <1>4, <1>5, <1>6, <1>7, <1>8, <1>9, <1>10, InsertKeeps DEF WaitlistNext

\* POST of app/api/waitlist: for any number of forms, spellings and stops, an address is welcomed at most once and the
\* link it got is its own.
THEOREM WelcomedAtMostOnce == WaitlistSpec => []WelcomedOnce
<1>1. WaitlistInit => WaitlistInv
    BY WaitlistInitHolds
<1>2. WaitlistInv /\ [WaitlistNext]_waitlistVars => WaitlistInv'
    BY WaitlistNextKeeps
<1>3. WaitlistInv => WelcomedOnce
  <2> SUFFICES ASSUME WaitlistInv PROVE WelcomedOnce
      OBVIOUS
  <2>1. ASSUME NEW a \in Addresses PROVE Cardinality({m \in welcomed : m[1] = a}) <= 1
    <3> DEFINE mine == {m \in welcomed : m[1] = a}
    <3>1. \A m \in mine : m = <<a, signups[a].token>>
        BY DEF WaitlistInv, WaitlistTypes, RowsInv, Has
    <3>2. mine = {} \/ mine = {<<a, signups[a].token>>}
        BY <3>1
    <3>3. Cardinality({}) = 0 /\ Cardinality({<<a, signups[a].token>>}) = 1
        BY FS_EmptySet, FS_Singleton
    <3> HIDE DEF mine
    <3>4. Cardinality(mine) <= 1
        BY <3>2, <3>3
    <3> QED
        BY <3>4 DEF mine
  <2>2. \A m \in welcomed : m[1] \in Created /\ signups[m[1]].token = m[2]
      BY DEF WaitlistInv, WaitlistTypes, RowsInv, Has, Created
  <2>3. \A a \in Created : signups[a].welcome = "SENT" => <<a, signups[a].token>> \in welcomed
      BY DEF WaitlistInv, RowsInv, Created
  <2>4. known \subseteq {signups[a].token : a \in Created}
      BY DEF WaitlistInv, RowsInv, Has, Created
  <2> QED
      BY <2>1, <2>2, <2>3, <2>4 DEF WelcomedOnce
<1> QED
    BY <1>1, <1>2, <1>3, PTL DEF WaitlistSpec

-----------------------------------------------------------------------------
(* The notification outbox *)

OutboxSpec == OutboxInit /\ [][OutboxNext]_outboxVars

\* The channels a message is due on.
Due(m) == IF Renders(m) THEN ChannelsOf(m) ELSE {}

OutboxRows == [status : {"NONE", "PENDING", "PROCESSING", "FAILED", "SENT"}, attempts : Nat, due : BOOLEAN]
Work == [todo : Seq(Messages), left : SUBSET Channels, failed : BOOLEAN, seen : Seq(Nat)]
Sink == [rows : Nat, read : BOOLEAN]

OutboxTypes ==
    /\ outbox \in [Messages -> OutboxRows] /\ run \in [Runs -> Work] /\ inbox \in [Messages \X Channels -> Sink]

\* A run at work has sent the first of its rows on every channel it is done with, unless one of them failed.
WorkInv(work, box) ==
    \/ work = Idle
    \/ /\ work.todo # <<>> /\ Len(work.seen) = Len(work.todo) /\ work.left \subseteq Due(Head(work.todo))
       /\ ~work.failed => \A c \in Due(Head(work.todo)) \ work.left : box[<<Head(work.todo), c>>].rows = 1

OutboxInv == OutboxTypes /\ (\A r \in Runs : WorkInv(run[r], inbox)) /\ SentIsDelivered

LEMMA CatalogueChannels ==
    ASSUME NEW parts, \A part \in parts : \A t \in DOMAIN part : part[t].default \subseteq Channels
    PROVE  \A t \in DOMAIN Catalogue(parts) : Catalogue(parts)[t].default \subseteq Channels
<1> SUFFICES ASSUME NEW t \in DOMAIN Catalogue(parts)
             PROVE  Catalogue(parts)[t].default \subseteq Channels
    OBVIOUS
<1> DEFINE part == CHOOSE x \in parts : t \in DOMAIN x
<1>1. \E x \in parts : t \in DOMAIN x
    BY DEF Catalogue
<1>2. part \in parts /\ t \in DOMAIN part
    BY <1>1
<1>3. Catalogue(parts)[t] = part[t]
    BY DEF Catalogue
<1> QED
    BY <1>2, <1>3

\* Every template is for channels there are.
LEMMA TemplateChannels == \A t \in DOMAIN Template : Template[t].default \subseteq Channels
<1>1. \A t \in DOMAIN OrderTemplates : OrderTemplates[t].default \subseteq Channels
    BY CatalogueChannels DEF OrderTemplates, Entry, Channels
<1>2. \A t \in DOMAIN AccountTemplates : AccountTemplates[t].default \subseteq Channels
    BY CatalogueChannels DEF AccountTemplates, Entry, Channels
<1>3. \A t \in DOMAIN AgreementTemplates : AgreementTemplates[t].default \subseteq Channels
    BY CatalogueChannels DEF AgreementTemplates, Entry, Channels
<1>4. \A t \in DOMAIN SettlementTemplates : SettlementTemplates[t].default \subseteq Channels
    BY CatalogueChannels DEF SettlementTemplates, Entry, Channels
<1>5. \A t \in DOMAIN MarketTemplates : MarketTemplates[t].default \subseteq Channels
    BY CatalogueChannels DEF MarketTemplates, Entry, Channels
<1> QED
    BY <1>1, <1>2, <1>3, <1>4, <1>5, CatalogueChannels DEF Template

LEMMA DueChannels == \A m : Due(m) \subseteq Channels
    BY TemplateChannels DEF Due, Renders, ChannelsOf

LEMMA OutboxInitHolds == OutboxInit => OutboxInv
<1> SUFFICES ASSUME OutboxInit PROVE OutboxInv
    OBVIOUS
<1>1. Idle \in Work
    BY DEF Idle, Work
<1>2. OutboxTypes
    BY <1>1 DEF OutboxInit, OutboxTypes, OutboxRows, NoRow, Sink
<1>3. \A r \in Runs : WorkInv(run[r], inbox)
    BY DEF OutboxInit, WorkInv
<1>4. SentIsDelivered
    BY DEF OutboxInit, SentIsDelivered, NoRow
<1> QED
    BY <1>2, <1>3, <1>4 DEF OutboxInv

\* A step on rows of the outbox that sends nothing.
LEMMA RowsUnsent ==
    ASSUME OutboxInv, outbox' \in [Messages -> OutboxRows], UNCHANGED <<run, inbox>>,
           \A m \in Messages : outbox'[m].status = "SENT" => outbox[m].status = "SENT"
    PROVE  OutboxInv'
    BY DEF OutboxInv, OutboxTypes, WorkInv, SentIsDelivered, Renders, ChannelsOf

\* What a run starts on: nothing of its first row is sent yet, and every channel it is due on is left.
LEMMA FreshWork ==
    ASSUME NEW todo \in Seq(Messages), todo # <<>>, NEW seen \in Seq(Nat), Len(seen) = Len(todo)
    PROVE  LET work == [todo |-> todo, failed |-> FALSE, seen |-> seen,
                        left |-> IF Renders(Head(todo)) THEN ChannelsOf(Head(todo)) ELSE {}]
           IN  work \in Work /\ \A box : WorkInv(work, box)
<1> DEFINE work == [todo |-> todo, failed |-> FALSE, seen |-> seen,
                    left |-> IF Renders(Head(todo)) THEN ChannelsOf(Head(todo)) ELSE {}]
<1>1. work.left = Due(Head(todo)) /\ work.left \subseteq Channels
    BY DueChannels DEF Due
<1>2. work \in Work
    BY <1>1 DEF Work
<1>3. \A box : WorkInv(work, box)
    BY <1>1 DEF WorkInv
<1> QED
    BY <1>2, <1>3

LEMMA ClaimKeeps ==
    ASSUME OutboxInv, NEW r \in Runs, ClaimRows(r)
    PROVE  OutboxInv'
<1>1. Claimable \in SUBSET Messages /\ Claimable # {} /\ IsFiniteSet(Claimable)
    BY OutboxAssumption, FS_Subset DEF ClaimRows, Claimable
<1>2. Cardinality(Claimable) \in Nat \ {0}
    BY <1>1, FS_EmptySet, FS_CardinalityType
<1>3. PICK order \in [1..Cardinality(Claimable) -> Claimable] :
          run' = [run EXCEPT ![r] = [todo |-> order, failed |-> FALSE,
                        left |-> IF Renders(order[1]) THEN ChannelsOf(order[1]) ELSE {},
                        seen |-> [i \in DOMAIN order |-> outbox[order[i]].attempts + 1]]]
    BY DEF ClaimRows
<1> DEFINE n == Cardinality(Claimable)
           seen == [i \in DOMAIN order |-> outbox[order[i]].attempts + 1]
           work == [todo |-> order, failed |-> FALSE, seen |-> seen,
                    left |-> IF Renders(Head(order)) THEN ChannelsOf(Head(order)) ELSE {}]
<1> HIDE DEF n
<1>4. n \in Nat \ {0} /\ order \in [1..n -> Messages]
    BY <1>1, <1>2, <1>3 DEF n
<1>5. order \in Seq(Messages) /\ Len(order) = n /\ Head(order) = order[1] /\ order # <<>>
    BY <1>4
<1>6. \A m \in Messages : outbox[m].attempts + 1 \in Nat
    BY DEF OutboxInv, OutboxTypes, OutboxRows
<1>7. seen \in [1..n -> Nat]
    BY <1>4, <1>6
<1>8. seen \in Seq(Nat) /\ Len(seen) = n
  <2> HIDE DEF seen
  <2> QED
      BY <1>4, <1>7
<1>9. run' = [run EXCEPT ![r] = work]
  <2>1. Head(order) = order[1]
      BY <1>5
  <2>2. work = [todo |-> order, failed |-> FALSE,
                left |-> IF Renders(order[1]) THEN ChannelsOf(order[1]) ELSE {},
                seen |-> [i \in DOMAIN order |-> outbox[order[i]].attempts + 1]]
      BY <2>1
  <2> QED
      BY <1>3, <2>2
<1>10. work \in Work /\ WorkInv(work, inbox')
  <2>1. work \in Work /\ \A box : WorkInv(work, box)
    <3> HIDE DEF seen
    <3> QED
      BY <1>4, <1>5, <1>8, FreshWork
  <2> QED
      BY <2>1
<1> HIDE DEF work
<1>11. outbox' \in [Messages -> OutboxRows] /\ UNCHANGED inbox
       /\ \A m \in Messages : outbox'[m].status = "SENT" => outbox[m].status = "SENT"
  <2>1. \A m \in Messages : [status |-> "PROCESSING", attempts |-> outbox[m].attempts + 1, due |-> FALSE] \in OutboxRows
      BY <1>6 DEF OutboxRows
  <2> QED
      BY <2>1 DEF ClaimRows, OutboxInv, OutboxTypes
<1>12. OutboxTypes'
    BY <1>9, <1>10, <1>11 DEF OutboxInv, OutboxTypes
<1>13. \A q \in Runs : WorkInv(run'[q], inbox')
  <2>1. \A q \in Runs : run'[q] = IF q = r THEN work ELSE run[q]
      BY <1>9 DEF OutboxInv, OutboxTypes
  <2>2. \A q \in Runs : WorkInv(run[q], inbox)
      BY DEF OutboxInv
  <2> QED
      BY <1>10, <1>11, <2>1, <2>2
<1>14. SentIsDelivered'
    BY <1>11 DEF OutboxInv, SentIsDelivered
<1> QED
    BY <1>12, <1>13, <1>14 DEF OutboxInv

\* A row may appear on a channel its message is due on, once.
Arrives == /\ inbox' \in [Messages \X Channels -> Sink]
           /\ \A m \in Messages, c \in Channels :
                 \/ inbox'[<<m, c>>].rows = inbox[<<m, c>>].rows
                 \/ inbox[<<m, c>>].rows = 0 /\ inbox'[<<m, c>>].rows = 1 /\ c \in Due(m)

\* What has been delivered stays delivered.
LEMMA ArrivalsKeep ==
    ASSUME OutboxInv, Arrives, UNCHANGED outbox
    PROVE  /\ \A work \in Work : WorkInv(work, inbox) => WorkInv(work, inbox')
           /\ SentIsDelivered'
<1>1. \A m \in Messages, c \in Channels : inbox[<<m, c>>].rows = 1 => inbox'[<<m, c>>].rows = 1
    BY DEF Arrives
<1>2. ASSUME NEW work \in Work, WorkInv(work, inbox) PROVE WorkInv(work, inbox')
  <2>1. CASE work = Idle
      BY <2>1 DEF WorkInv
  <2>2. CASE work # Idle
    <3>1. work.todo \in Seq(Messages) /\ work.todo # <<>>
        BY <1>2, <2>2 DEF WorkInv, Work
    <3>2. Head(work.todo) \in Messages
        BY <3>1
    <3>3. \A c \in Due(Head(work.todo)) : inbox[<<Head(work.todo), c>>].rows = 1 => inbox'[<<Head(work.todo), c>>].rows = 1
        BY <1>1, <3>2, DueChannels
    <3> QED
        BY <1>2, <2>2, <3>3 DEF WorkInv
  <2> QED
      BY <2>1, <2>2
<1>3. \A mc \in DOMAIN inbox' : inbox'[mc].rows = 0 \/ (inbox'[mc].rows = 1 /\ Renders(mc[1]) /\ mc[2] \in ChannelsOf(mc[1]))
  <2> SUFFICES ASSUME NEW m \in Messages, NEW c \in Channels
               PROVE  inbox'[<<m, c>>].rows = 0 \/ (inbox'[<<m, c>>].rows = 1 /\ Renders(m) /\ c \in ChannelsOf(m))
      BY DEF Arrives
  <2>1. inbox[<<m, c>>].rows = 0 \/ (inbox[<<m, c>>].rows = 1 /\ Renders(m) /\ c \in ChannelsOf(m))
      BY DEF OutboxInv, OutboxTypes, SentIsDelivered
  <2>2. c \in Due(m) => Renders(m) /\ c \in ChannelsOf(m)
      BY DEF Due
  <2> QED
      BY <2>1, <2>2 DEF Arrives
<1>4. ASSUME NEW m \in Messages, outbox'[m].status = "SENT"
      PROVE  Renders(m) /\ \A c \in ChannelsOf(m) : inbox'[<<m, c>>].rows = 1
  <2>1. Renders(m) /\ \A c \in ChannelsOf(m) : inbox[<<m, c>>].rows = 1
      BY <1>4 DEF OutboxInv, SentIsDelivered
  <2>2. ChannelsOf(m) \subseteq Channels
      BY <2>1, DueChannels DEF Due
  <2> QED
      BY <1>1, <2>1, <2>2
<1> QED
    BY <1>2, <1>3, <1>4 DEF SentIsDelivered

\* One channel of a run's first row, stored or not.
LEMMA SendKeeps ==
    ASSUME OutboxInv, NEW r \in Runs, NEW c \in run[r].left, UNCHANGED outbox,
           NEW failed \in BOOLEAN, NEW stored \in BOOLEAN, failed \/ stored,
           run' = [run EXCEPT ![r].left = @ \ {c}, ![r].failed = failed \/ run[r].failed],
           inbox' = IF stored THEN [inbox EXCEPT ![<<Head(run[r].todo), c>>] = StoredAs(@)] ELSE inbox
    PROVE  OutboxInv'
<1> DEFINE todo == run[r].todo
           m == Head(todo)
           row == inbox[<<m, c>>]
           next == [todo |-> todo, left |-> run[r].left \ {c}, failed |-> failed \/ run[r].failed, seen |-> run[r].seen]
<1>1. run[r] \in Work /\ WorkInv(run[r], inbox) /\ run[r] # Idle
    BY DEF OutboxInv, OutboxTypes, Idle
<1>2. todo \in Seq(Messages) /\ todo # <<>> /\ Len(run[r].seen) = Len(todo) /\ run[r].left \subseteq Due(m)
    BY <1>1 DEF WorkInv, Work
<1>3. m \in Messages /\ c \in Due(m) /\ c \in Channels
    BY <1>2, DueChannels
<1>4. row \in Sink
    BY <1>3 DEF OutboxInv, OutboxTypes
<1>5. row.rows <= 1
  <2>1. Renders(m) /\ c \in ChannelsOf(m)
      BY <1>3 DEF Due
  <2> QED
      BY <1>3, <2>1 DEF OutboxInv, OutboxTypes, SentIsDelivered
<1>6. StoredAs(row) \in Sink /\ StoredAs(row).rows = 1
    BY <1>4, <1>5 DEF StoredAs, Sink
<1> HIDE DEF m
<1>7. inbox' = IF stored THEN [inbox EXCEPT ![<<m, c>>] = StoredAs(row)] ELSE inbox
    BY DEF m
<1>8. inbox \in [Messages \X Channels -> Sink]
    BY DEF OutboxInv, OutboxTypes
<1>9. Arrives
  <2>1. inbox' \in [Messages \X Channels -> Sink]
      BY <1>6, <1>7, <1>8
  <2>2. ASSUME NEW n \in Messages, NEW d \in Channels
        PROVE  \/ inbox'[<<n, d>>].rows = inbox[<<n, d>>].rows
               \/ inbox[<<n, d>>].rows = 0 /\ inbox'[<<n, d>>].rows = 1 /\ d \in Due(n)
    <3>1. CASE stored /\ n = m /\ d = c
      <4>1. inbox'[<<n, d>>] = StoredAs(row)
          BY <1>3, <1>7, <1>8, <3>1
      <4>2. row.rows = 0 \/ row.rows = 1
          BY <1>4, <1>5 DEF Sink
      <4> QED
          BY <1>3, <1>6, <3>1, <4>1, <4>2
    <3>2. CASE ~(stored /\ n = m /\ d = c)
        BY <1>7, <1>8, <3>2
    <3> QED
        BY <3>1, <3>2
  <2> QED
      BY <2>1, <2>2 DEF Arrives
<1>10. stored => inbox'[<<m, c>>].rows = 1
    BY <1>3, <1>6, <1>7, <1>8
<1>11. run' = [run EXCEPT ![r] = next] /\ next \in Work
  <2>1. [[run[r] EXCEPT !.left = @ \ {c}] EXCEPT !.failed = failed \/ run[r].failed] = next
    <3>1. ASSUME NEW work \in Work, NEW left \in SUBSET Channels, NEW bad \in BOOLEAN
          PROVE  [[work EXCEPT !.left = left] EXCEPT !.failed = bad]
                    = [todo |-> work.todo, left |-> left, failed |-> bad, seen |-> work.seen]
      <4>1. [work EXCEPT !.left = left] = [todo |-> work.todo, left |-> left, failed |-> work.failed, seen |-> work.seen]
        <5>1. work = [todo |-> work.todo, left |-> work.left, failed |-> work.failed, seen |-> work.seen]
            BY DEF Work
        <5>2. [[todo |-> work.todo, left |-> work.left, failed |-> work.failed, seen |-> work.seen] EXCEPT !.left = left]
                = [todo |-> work.todo, left |-> left, failed |-> work.failed, seen |-> work.seen]
            OBVIOUS
        <5> QED
            BY <5>1, <5>2, Zenon
      <4>2. [[todo |-> work.todo, left |-> left, failed |-> work.failed, seen |-> work.seen] EXCEPT !.failed = bad]
               = [todo |-> work.todo, left |-> left, failed |-> bad, seen |-> work.seen]
          OBVIOUS
      <4> QED
          BY <4>1, <4>2, Zenon
    <3>3. run[r].left \ {c} \in SUBSET Channels /\ (failed \/ run[r].failed) \in BOOLEAN
        BY <1>1 DEF Work
    <3> HIDE DEF next, todo
    <3>2. next = [todo |-> run[r].todo, left |-> run[r].left \ {c}, failed |-> failed \/ run[r].failed, seen |-> run[r].seen]
        BY Zenon DEF next, todo
    <3> QED
        BY <1>1, <3>1, <3>2, <3>3, Zenon
  <2>2. run' = [run EXCEPT ![r] = [[run[r] EXCEPT !.left = @ \ {c}] EXCEPT !.failed = failed \/ run[r].failed]]
      BY DEF OutboxInv, OutboxTypes
  <2>3. next \in Work
      BY <1>1 DEF Work
  <2> QED
      BY <2>1, <2>2, <2>3
<1>12. WorkInv(next, inbox')
  <2>1. ASSUME ~failed, ~run[r].failed, NEW d \in Due(m), d \notin run[r].left \ {c} PROVE inbox'[<<m, d>>].rows = 1
    <3>1. CASE d = c
        BY <1>10, <2>1, <3>1
    <3>2. CASE d # c
      <4>1. inbox[<<m, d>>].rows = 1
          BY <1>1, <2>1, <3>2 DEF WorkInv, m
      <4>2. d \in Channels
          BY DueChannels
      <4> QED
          BY <1>3, <1>9, <4>1, <4>2 DEF Arrives
    <3> QED
        BY <3>1, <3>2
  <2>2. next.left \subseteq Due(m)
      BY <1>2
  <2>3. ~next.failed => \A d \in Due(m) \ next.left : inbox'[<<m, d>>].rows = 1
      BY <2>1
  <2> QED
      BY <1>2, <2>2, <2>3 DEF WorkInv, m
<1> HIDE DEF next
<1>13. \A q \in Runs : run'[q] \in Work /\ run'[q] = IF q = r THEN next ELSE run[q]
    BY <1>11 DEF OutboxInv, OutboxTypes
<1>14. \A q \in Runs : WorkInv(run'[q], inbox')
    BY <1>9, <1>12, <1>13, ArrivalsKeep DEF OutboxInv
<1>15. run' \in [Runs -> Work]
    BY <1>11, <1>13 DEF OutboxInv, OutboxTypes
<1>16. SentIsDelivered'
    BY <1>9, ArrivalsKeep
<1> QED
    BY <1>9, <1>14, <1>15, <1>16 DEF OutboxInv, OutboxTypes, Arrives

\* The run goes on to its next row.
LEMMA NextWork ==
    ASSUME OutboxInv, NEW r \in Runs, run[r] # Idle
    PROVE  NextRow(run[r]) \in Work /\ \A box : WorkInv(NextRow(run[r]), box)
<1> DEFINE todo == run[r].todo
           seen == run[r].seen
<1>1. todo \in Seq(Messages) /\ todo # <<>> /\ seen \in Seq(Nat) /\ Len(seen) = Len(todo)
    BY DEF OutboxInv, OutboxTypes, WorkInv, Work
<1>2. CASE Len(todo) = 1
    BY <1>2 DEF NextRow, Idle, Work, WorkInv
<1>3. CASE Len(todo) # 1
  <2> HIDE DEF todo, seen
  <2>1. Tail(todo) \in Seq(Messages) /\ Tail(todo) # <<>> /\ Tail(seen) \in Seq(Nat) /\ Len(Tail(seen)) = Len(Tail(todo))
    <3>1. Len(todo) \in Nat /\ Len(todo) > 1 /\ seen # <<>>
        BY <1>1, <1>3
    <3>2. Tail(todo) \in Seq(Messages) /\ Len(Tail(todo)) = Len(todo) - 1
        BY <1>1
    <3>3. Tail(seen) \in Seq(Nat) /\ Len(Tail(seen)) = Len(seen) - 1
        BY <1>1, <3>1
    <3>4. Tail(todo) # <<>>
      <4>1. Len(Tail(todo)) # 0
        <5> DEFINE long == Len(todo)
                   short == Len(Tail(todo))
        <5>1. long \in Nat /\ long > 1 /\ short = long - 1
            BY <3>1, <3>2
        <5> HIDE DEF long, short
        <5>2. short # 0
            BY <5>1
        <5> QED
            BY <5>2 DEF short
      <4>2. Len(<<>>) = 0
          OBVIOUS
      <4> QED
          BY <4>1, <4>2, Zenon
    <3> QED
        BY <1>1, <3>2, <3>3, <3>4
  <2> DEFINE next == [todo |-> Tail(todo), failed |-> FALSE, seen |-> Tail(seen),
                      left |-> IF Renders(Head(Tail(todo))) THEN ChannelsOf(Head(Tail(todo))) ELSE {}]
  <2>2. NextRow(run[r]) = next
      BY <1>3 DEF NextRow, todo, seen
  <2>3. next \in Work /\ \A box : WorkInv(next, box)
      BY <2>1, FreshWork
  <2> QED
      BY <2>2, <2>3
<1> QED
    BY <1>2, <1>3

\* The outcome of a run's first row, written by the run or by its catch.
LEMMA OutcomeKeeps ==
    ASSUME OutboxInv, NEW r \in Runs, run[r] # Idle, NEW row \in OutboxRows, UNCHANGED inbox,
           row.status = "SENT" => run[r].left = {} /\ ~run[r].failed /\ Renders(Head(run[r].todo)),
           outbox' = [outbox EXCEPT ![Head(run[r].todo)] = row],
           run' = [run EXCEPT ![r] = NextRow(run[r])]
    PROVE  OutboxInv'
<1> DEFINE m == Head(run[r].todo)
           next == NextRow(run[r])
<1>1. next \in Work /\ \A box : WorkInv(next, box)
    BY NextWork
<1>2. run[r].todo \in Seq(Messages) /\ run[r].todo # <<>>
    BY DEF OutboxInv, OutboxTypes, WorkInv, Work
<1>3. m \in Messages
    BY <1>2
<1>4. row.status = "SENT" => Renders(m) /\ \A c \in ChannelsOf(m) : inbox[<<m, c>>].rows = 1
    BY DEF OutboxInv, WorkInv, Due
<1> HIDE DEF m, next
<1>5. outbox' = [outbox EXCEPT ![m] = row] /\ run' = [run EXCEPT ![r] = next]
    BY DEF m, next
<1>6. OutboxTypes'
    BY <1>1, <1>3, <1>5 DEF OutboxInv, OutboxTypes
<1>7. \A q \in Runs : run'[q] = IF q = r THEN next ELSE run[q]
    BY <1>5 DEF OutboxInv, OutboxTypes
<1>8. \A q \in Runs : WorkInv(run'[q], inbox')
    BY <1>1, <1>7 DEF OutboxInv
<1>9. \A n \in Messages : outbox'[n] = IF n = m THEN row ELSE outbox[n]
    BY <1>5 DEF OutboxInv, OutboxTypes
<1>10. SentIsDelivered'
    BY <1>4, <1>9 DEF OutboxInv, SentIsDelivered
<1> QED
    BY <1>6, <1>8, <1>10 DEF OutboxInv

LEMMA OutboxNextKeeps == OutboxInv /\ [OutboxNext]_outboxVars => OutboxInv'
<1> SUFFICES ASSUME OutboxInv, [OutboxNext]_outboxVars PROVE OutboxInv'
    OBVIOUS
<1>0. /\ \A m \in Messages : outbox[m] \in OutboxRows
      /\ \A r \in Runs : run[r] \in Work
    BY DEF OutboxInv, OutboxTypes
<1>1. ASSUME NEW ms, EnqueueAll(ms), UNCHANGED <<run, inbox>> PROVE OutboxInv'
  <2>2. [status |-> "PENDING", attempts |-> 0, due |-> TRUE] \in OutboxRows
      BY DEF OutboxRows
  <2>3. outbox' = [m \in Messages |-> IF m \in ms /\ outbox[m].status = "NONE"
                                         THEN [status |-> "PENDING", attempts |-> 0, due |-> TRUE] ELSE outbox[m]]
      BY <1>1, Zenon DEF EnqueueAll
  <2> QED
      BY <1>0, <1>1, <2>2, <2>3, RowsUnsent
<1>2. ASSUME NEW m \in Messages, OutboxTime(m) PROVE OutboxInv'
  <2>1. [outbox[m] EXCEPT !.due = TRUE] \in OutboxRows /\ [outbox[m] EXCEPT !.due = TRUE].status = outbox[m].status
      BY <1>0 DEF OutboxRows
  <2>2. outbox' = [outbox EXCEPT ![m] = [outbox[m] EXCEPT !.due = TRUE]] /\ UNCHANGED <<run, inbox>>
      BY <1>2 DEF OutboxTime, OutboxInv, OutboxTypes
  <2> QED
      BY <2>1, <2>2, RowsUnsent DEF OutboxInv, OutboxTypes
<1>3. ASSUME NEW r \in Runs, Deliver(r) PROVE OutboxInv'
  <2>1. PICK c \in run[r].left : /\ inbox' = [inbox EXCEPT ![<<Head(run[r].todo), c>>] = StoredAs(@)]
                                 /\ run' = [run EXCEPT ![r].left = @ \ {c}]
                                 /\ UNCHANGED outbox
      BY <1>3 DEF Deliver
  <2>2. run' = [run EXCEPT ![r].left = @ \ {c}, ![r].failed = FALSE \/ run[r].failed]
    <3>1. \A w \in Work : \A left : [w EXCEPT !.left = left] = [[w EXCEPT !.left = left] EXCEPT !.failed = FALSE \/ w.failed]
        BY DEF Work
    <3> QED
        BY <1>0, <2>1, <3>1 DEF OutboxInv, OutboxTypes
  <2> QED
      BY <2>1, <2>2, SendKeeps
<1>4. ASSUME NEW r \in Runs, DeliverFails(r) PROVE OutboxInv'
  <2>1. PICK c \in run[r].left : /\ run' = [run EXCEPT ![r].left = @ \ {c}, ![r].failed = TRUE]
                                 /\ \/ UNCHANGED inbox
                                    \/ inbox' = [inbox EXCEPT ![<<Head(run[r].todo), c>>] = StoredAs(@)]
                                 /\ UNCHANGED outbox
      BY <1>4 DEF DeliverFails
  <2>2. run' = [run EXCEPT ![r].left = @ \ {c}, ![r].failed = TRUE \/ run[r].failed]
      BY <2>1
  <2>3. CASE UNCHANGED inbox
    <3>1. inbox' = IF FALSE THEN [inbox EXCEPT ![<<Head(run[r].todo), c>>] = StoredAs(@)] ELSE inbox
        BY <2>3
    <3> QED
        BY <2>1, <2>2, <3>1, SendKeeps
  <2>4. CASE inbox' = [inbox EXCEPT ![<<Head(run[r].todo), c>>] = StoredAs(@)]
      BY <2>1, <2>2, <2>4, SendKeeps
  <2> QED
      BY <2>1, <2>3, <2>4
<1>5. ASSUME NEW r \in Runs, run[r] # Idle
      PROVE  Head(run[r].todo) \in Messages /\ Head(run[r].seen) \in Nat
  <2> DEFINE todo == run[r].todo
             seen == run[r].seen
  <2>1. todo \in Seq(Messages) /\ todo # <<>> /\ seen \in Seq(Nat) /\ Len(seen) = Len(todo)
      BY <1>0, <1>5 DEF OutboxInv, WorkInv, Work
  <2> HIDE DEF todo, seen
  <2>2. Head(todo) \in Messages /\ Head(seen) \in Nat
      BY <2>1
  <2> QED
      BY <2>2 DEF todo, seen
<1>6. ASSUME NEW r \in Runs, RecordOutcome(r) PROVE OutboxInv'
  <2> DEFINE m == Head(run[r].todo)
             row == Written(m, run[r])
  <2>1. run[r] # Idle /\ run[r].left = {} /\ UNCHANGED inbox /\ outbox' = [outbox EXCEPT ![m] = row]
        /\ run' = [run EXCEPT ![r] = NextRow(run[r])]
      BY <1>6 DEF RecordOutcome
  <2>2. outbox[m] \in OutboxRows
      BY <1>0, <1>5, <2>1
  <2>3. row \in OutboxRows /\ (row.status = "SENT" => ~run[r].failed /\ Renders(m))
      BY <2>2, OutboxAssumption DEF Written, OutboxRows
  <2> HIDE DEF row
  <2> QED
      BY <2>1, <2>3, OutcomeKeeps
<1>7. ASSUME NEW r \in Runs, RecordFails(r) PROVE OutboxInv'
  <2> DEFINE row == [status |-> "FAILED", attempts |-> Head(run[r].seen), due |-> FALSE]
  <2>1. run[r] # Idle /\ UNCHANGED inbox /\ outbox' = [outbox EXCEPT ![Head(run[r].todo)] = row]
        /\ run' = [run EXCEPT ![r] = NextRow(run[r])]
      BY <1>7 DEF RecordFails
  <2>2. row \in OutboxRows /\ row.status # "SENT"
      BY <1>5, <2>1 DEF OutboxRows
  <2> HIDE DEF row
  <2> QED
      BY <2>1, <2>2, OutcomeKeeps
<1>8. ASSUME NEW r \in Runs, RunCrashes(r) PROVE OutboxInv'
  <2>1. Idle \in Work /\ WorkInv(Idle, inbox)
      BY DEF Idle, Work, WorkInv
  <2>2. run' = [run EXCEPT ![r] = Idle] /\ UNCHANGED <<outbox, inbox>>
      BY <1>8 DEF RunCrashes
  <2>3. \A q \in Runs : run'[q] = IF q = r THEN Idle ELSE run[q]
      BY <2>2 DEF OutboxInv, OutboxTypes
  <2>4. \A q \in Runs : WorkInv(run'[q], inbox')
      BY <2>1, <2>2, <2>3 DEF OutboxInv
  <2>5. OutboxTypes'
      BY <2>1, <2>2 DEF OutboxInv, OutboxTypes
  <2>6. SentIsDelivered'
      BY <2>2 DEF OutboxInv, SentIsDelivered
  <2> QED
      BY <2>4, <2>5, <2>6 DEF OutboxInv
<1>9. ASSUME NEW ms, MarkRead(ms) PROVE OutboxInv'
  <2>1. DOMAIN inbox = Messages \X Channels /\ \A mc \in DOMAIN inbox : inbox[mc] \in Sink
      BY DEF OutboxInv, OutboxTypes
  <2>2. \A box \in Sink : [box EXCEPT !.read = TRUE] \in Sink /\ [box EXCEPT !.read = TRUE].rows = box.rows
      BY DEF Sink
  <2>3. /\ UNCHANGED <<outbox, run>> /\ inbox' = [mc \in Messages \X Channels |-> inbox'[mc]]
        /\ \A mc \in Messages \X Channels : inbox'[mc] \in {inbox[mc], [inbox[mc] EXCEPT !.read = TRUE]}
      BY <1>9, <2>1 DEF MarkRead
  <2>4. \A mc \in Messages \X Channels : inbox'[mc] \in Sink /\ inbox'[mc].rows = inbox[mc].rows
      BY <2>1, <2>2, <2>3
  <2>5. Arrives
      BY <2>3, <2>4 DEF Arrives
  <2>6. SentIsDelivered' /\ \A q \in Runs : WorkInv(run'[q], inbox')
      BY <1>0, <2>3, <2>5, ArrivalsKeep DEF OutboxInv
  <2>7. OutboxTypes'
      BY <2>3, <2>5 DEF Arrives, OutboxInv, OutboxTypes
  <2> QED
      BY <2>6, <2>7 DEF OutboxInv
<1>10. CASE UNCHANGED outboxVars
    BY <1>10 DEF outboxVars, OutboxInv, OutboxTypes, WorkInv, SentIsDelivered
<1>11. CASE OutboxNext
    BY <1>1, <1>2, <1>3, <1>4, <1>6, <1>7, <1>8, <1>9, <1>11, ClaimKeeps
       DEF OutboxNext, RunStep, EnqueueNotification, SendOrderReminders
<1> QED
    BY <1>10, <1>11

\* dispatchNotificationOutbox and the unique dedupe key: for any number of overlapping runs, failures and crashes, a
\* recipient gets each channel once, and a row that reads SENT has reached every channel of its template.
THEOREM SentNotificationsDelivered == OutboxSpec => []SentIsDelivered
<1>1. OutboxInit => OutboxInv
    BY OutboxInitHolds
<1>2. OutboxInv /\ [OutboxNext]_outboxVars => OutboxInv'
    BY OutboxNextKeeps
<1>3. OutboxInv => SentIsDelivered
    BY DEF OutboxInv
<1> QED
    BY <1>1, <1>2, <1>3, PTL DEF OutboxSpec

-----------------------------------------------------------------------------
(* The card provider *)

CardSpec == CardInit /\ [][CardNext]_cardVars

\* Transfers by what they do to a funding's money.
Does(b, t) ==
    /\ b = "drawn" => t.status # "FAILED" /\ t.kind # "reversal" /\ t.source = "PRINCIPAL"
    /\ b = "reversed" => t.kind = "reversal"
    /\ b = "released" => t.kind = "release" /\ t.status = "SUCCEEDED"
    /\ b = "refunded" => t.kind = "refund" /\ t.status # "FAILED"
    /\ b = "platform" => t.kind = "refund" /\ t.status # "FAILED" /\ t.source = "PLATFORM_BALANCE"
    /\ b = "pending" => t.status = "PENDING" /\ t.kind # "reversal" /\ t.source = "PRINCIPAL"
    /\ b = "paid" => t.status = "SUCCEEDED" /\ t.kind # "reversal" /\ t.source = "PRINCIPAL"
AmountsOf(ts) == [o \in Operations |-> IF ts[o] = NotMade THEN 0 ELSE ts[o].amount]
Doing(b, ts, f) == {o \in Operations : ts[o] # NotMade /\ ts[o].funding = f /\ Does(b, ts[o])}
Moved(b, ts, f) == Total(AmountsOf(ts), Doing(b, ts, f))

CardTypes ==
    /\ journal \in [Operations -> JournalRows \cup {NotMade}] /\ answered \subseteq Operations
    /\ fundings \in [Operations -> FundingRows \cup {NotMade}] /\ transfers \in [Operations -> TransferRows \cup {NotMade}]
\* A captured charge is never overdrawn, no more is taken back than was released, and the platform pays no more than the charge.
NotOverdrawn(ts, f, amount) ==
    /\ Moved("drawn", ts, f) <= amount + Moved("reversed", ts, f)
    /\ Moved("reversed", ts, f) <= Moved("released", ts, f)
    /\ Moved("platform", ts, f) <= amount
\* Transfers name a funding that was made; only a refund is paid by the platform, and a reversal settles at once.
TransferFits(t, fs) == fs[t.funding] # NotMade /\ (t.kind # "refund" => t.source = "PRINCIPAL")
IsApplied(j) == j # NotMade /\ j.state = "APPLIED"
\* An operation made an object exactly if the journal says it was applied and it was not a cancellation.
JournalFits(js, fs, ts, heard) ==
    \A o \in Operations : /\ (fs[o] # NotMade \/ ts[o] # NotMade) <=> (IsApplied(js[o]) /\ js[o].request.kind # "funding.cancel")
                          /\ o \in heard => IsApplied(js[o])
MoneyFits(fs, ts) ==
    /\ \A o \in Operations : ts[o] # NotMade => TransferFits(ts[o], fs)
    /\ \A f \in Operations : fs[f] # NotMade => NotOverdrawn(ts, f, fs[f].amount)
CardInv == CardTypes /\ JournalFits(journal, fundings, transfers, answered) /\ MoneyFits(fundings, transfers)

LEMMA CardRows ==
    /\ IsFiniteSet(Operations) /\ MaxAtomic \in Nat
    /\ NotMade \notin {"APPLIED", "NOT_APPLIED"} /\ NotMade \notin JournalRows /\ NotMade \notin FundingRows /\ NotMade \notin TransferRows
    BY CardAssumption

LEMMA MovedNat ==
    ASSUME NEW b, NEW f, NEW ts \in [Operations -> TransferRows \cup {NotMade}]
    PROVE  Moved(b, ts, f) \in Nat
<1> DEFINE A == AmountsOf(ts)
           S == Doing(b, ts, f)
<1>1. \A o \in Operations : A[o] \in Nat
  <2> TAKE o \in Operations
  <2>1. ts[o] = NotMade \/ ts[o] \in TransferRows
      OBVIOUS
  <2>2. A[o] = IF ts[o] = NotMade THEN 0 ELSE ts[o].amount
      BY DEF AmountsOf
  <2> QED
      BY <2>1, <2>2 DEF TransferRows
<1>2. S \in SUBSET Operations
    BY DEF Doing
<1>3. Moved(b, ts, f) = Total(A, S)
    BY DEF Moved
<1> HIDE DEF A, S
<1>4. Amounts(A, Operations)
    BY <1>1, CardRows DEF Amounts
<1> QED
    BY <1>2, <1>3, <1>4, TotalPart

Counted(b, t, f) == IF t # NotMade /\ t.funding = f /\ Does(b, t) THEN t.amount ELSE 0

OneTransfer(ts, us, o, t) == us = [ts EXCEPT ![o] = t]

\* When one transfer is made or settles, each total of a funding moves by that transfer's amount.
LEMMA MovedMoves ==
    ASSUME NEW b, NEW f, NEW ts \in [Operations -> TransferRows \cup {NotMade}], NEW o \in Operations, NEW t \in TransferRows,
           NEW us, OneTransfer(ts, us, o, t)
    PROVE  Moved(b, us, f) = Moved(b, ts, f) + Counted(b, t, f) - Counted(b, ts[o], f)
<1> DEFINE A == AmountsOf(ts)
           B == AmountsOf(us)
           S == Doing(b, ts, f)
           T == Doing(b, us, f)
<1>0. us \in [Operations -> TransferRows \cup {NotMade}] /\ us[o] = t /\ t # NotMade /\ \A x \in Operations : x # o => us[x] = ts[x]
    BY CardRows DEF OneTransfer
<1>1. ASSUME NEW vs \in [Operations -> TransferRows \cup {NotMade}], NEW x \in Operations
      PROVE  /\ AmountsOf(vs)[x] = IF vs[x] = NotMade THEN 0 ELSE vs[x].amount
             /\ AmountsOf(vs)[x] \in Nat
             /\ x \in Doing(b, vs, f) <=> vs[x] # NotMade /\ vs[x].funding = f /\ Does(b, vs[x])
  <2>1. vs[x] = NotMade \/ vs[x] \in TransferRows
      OBVIOUS
  <2>2. AmountsOf(vs)[x] = IF vs[x] = NotMade THEN 0 ELSE vs[x].amount
      BY DEF AmountsOf
  <2>3. AmountsOf(vs)[x] \in Nat
      BY <2>1, <2>2 DEF TransferRows
  <2>4. x \in Doing(b, vs, f) <=> vs[x] # NotMade /\ vs[x].funding = f /\ Does(b, vs[x])
      BY DEF Doing
  <2> QED
      BY <2>2, <2>3, <2>4
<1>2. \A x \in Operations : A[x] \in Nat /\ B[x] \in Nat /\ (x # o => B[x] = A[x] /\ (x \in T <=> x \in S))
    BY <1>0, <1>1
<1>3. S \in SUBSET Operations /\ T \in SUBSET Operations
    BY DEF Doing
<1>4. Moved(b, ts, f) = Total(A, S) /\ Moved(b, us, f) = Total(B, T)
    BY DEF Moved
<1>5. Counted(b, t, f) = IF o \in T THEN B[o] ELSE 0
    BY <1>0, <1>1 DEF Counted
<1>6. Counted(b, ts[o], f) = IF o \in S THEN A[o] ELSE 0
    BY <1>1 DEF Counted
<1> HIDE DEF A, B, S, T
<1>7. OnlyEntry(A, B, S, T, Operations, o)
    BY <1>2, <1>3, CardRows DEF OnlyEntry
<1>8. Total(B, T) = Total(A, S) + (IF o \in T THEN B[o] ELSE 0) - (IF o \in S THEN A[o] ELSE 0)
    BY <1>7, TotalMoves
<1> QED
    BY <1>4, <1>5, <1>6, <1>8

LEMMA CardInitHolds == CardInit => CardInv
<1> SUFFICES ASSUME CardInit PROVE CardInv
    OBVIOUS
<1>1. /\ journal = [o \in Operations |-> NotMade] /\ answered = {}
      /\ fundings = [o \in Operations |-> NotMade] /\ transfers = [o \in Operations |-> NotMade]
    BY DEF CardInit
<1>2. CardTypes
    BY <1>1 DEF CardTypes
<1>3. JournalFits(journal, fundings, transfers, answered)
    BY <1>1 DEF JournalFits, IsApplied
<1>4. MoneyFits(fundings, transfers)
    BY <1>1 DEF MoneyFits
<1> QED
    BY <1>2, <1>3, <1>4 DEF CardInv

\* A call that applies nothing: refused, repeated, or lost before it was accepted.
Quiet(o, q) ==
    /\ UNCHANGED <<fundings, transfers>>
    /\ \/ journal' = journal /\ answered' = answered
       \/ journal' = journal /\ answered' = answered \union {o} /\ journal[o] = JournalEntry(q, "APPLIED")
       \/ journal[o] \in {NotMade, JournalEntry(q, "NOT_APPLIED")} /\ Records(o, q, "NOT_APPLIED") /\ answered' = answered
\* A call that is applied, for the first time under its id.
Fresh(o, q) ==
    /\ journal[o] \in {NotMade, JournalEntry(q, "NOT_APPLIED")} /\ Records(o, q, "APPLIED")
    /\ answered' = answered \/ answered' = answered \union {o}

LEMMA EntryRows ==
    ASSUME NEW q \in Requests, NEW s \in {"APPLIED", "NOT_APPLIED"}
    PROVE  /\ JournalEntry(q, s) \in JournalRows /\ JournalEntry(q, s).state = s /\ JournalEntry(q, s).request = q
           /\ JournalEntry(q, s) # NotMade
<1>1. JournalEntry(q, s) \in JournalRows /\ JournalEntry(q, s).state = s /\ JournalEntry(q, s).request = q
    BY DEF JournalEntry, JournalRows
<1> QED
    BY <1>1, CardRows

LEMMA QuietKeeps == ASSUME CardInv, NEW o \in Operations, NEW q \in Requests, Quiet(o, q) PROVE CardInv'
<1>1. CardTypes /\ JournalFits(journal, fundings, transfers, answered) /\ MoneyFits(fundings, transfers) /\ UNCHANGED <<fundings, transfers>>
    BY DEF CardInv, Quiet
<1>2. MoneyFits(fundings', transfers')
    BY <1>1
<1>3. journal' \in [Operations -> JournalRows \cup {NotMade}] /\ answered' \subseteq Operations /\ JournalFits(journal', fundings', transfers', answered')
  <2>1. CASE journal' = journal /\ answered' = answered
      BY <1>1, <2>1 DEF CardTypes
  <2>2. CASE journal' = journal /\ answered' = answered \union {o} /\ journal[o] = JournalEntry(q, "APPLIED")
    <3>1. IsApplied(journal[o])
        BY <2>2, EntryRows DEF IsApplied
    <3> QED
        BY <1>1, <2>2, <3>1 DEF CardTypes, JournalFits
  <2>3. CASE journal[o] \in {NotMade, JournalEntry(q, "NOT_APPLIED")} /\ Records(o, q, "NOT_APPLIED") /\ answered' = answered
    <3>1. JournalEntry(q, "NOT_APPLIED") \in JournalRows /\ JournalEntry(q, "NOT_APPLIED").state = "NOT_APPLIED"
        BY EntryRows
    <3>2. journal' = [journal EXCEPT ![o] = JournalEntry(q, "NOT_APPLIED")]
        BY <2>3 DEF Records
    <3>3. /\ journal' \in [Operations -> JournalRows \cup {NotMade}] /\ journal'[o] = JournalEntry(q, "NOT_APPLIED")
          /\ \A x \in Operations : x # o => journal'[x] = journal[x]
        BY <1>1, <3>1, <3>2 DEF CardTypes
    <3>4. ~IsApplied(journal[o]) /\ ~IsApplied(journal'[o])
        BY <2>3, <3>1, <3>3 DEF IsApplied
    <3>5. JournalFits(journal', fundings', transfers', answered')
      <4> SUFFICES ASSUME NEW x \in Operations
                   PROVE  /\ (fundings'[x] # NotMade \/ transfers'[x] # NotMade)
                               <=> (IsApplied(journal'[x]) /\ journal'[x].request.kind # "funding.cancel")
                          /\ x \in answered' => IsApplied(journal'[x])
          BY DEF JournalFits
      <4>1. /\ (fundings[x] # NotMade \/ transfers[x] # NotMade) <=> (IsApplied(journal[x]) /\ journal[x].request.kind # "funding.cancel")
            /\ x \in answered => IsApplied(journal[x])
          BY <1>1 DEF JournalFits
      <4> QED
          BY <1>1, <2>3, <3>3, <3>4, <4>1
    <3> QED
        BY <1>1, <2>3, <3>3, <3>5 DEF CardTypes
  <2> QED
      BY <2>1, <2>2, <2>3 DEF Quiet
<1> QED
    BY <1>1, <1>2, <1>3 DEF CardInv, CardTypes

LEMMA FreshMakesNothingYet ==
    ASSUME CardInv, NEW o \in Operations, NEW q \in Requests, Fresh(o, q)
    PROVE  fundings[o] = NotMade /\ transfers[o] = NotMade
<1>1. ~IsApplied(journal[o])
    BY EntryRows DEF Fresh, IsApplied
<1> QED
    BY <1>1 DEF CardInv, JournalFits

\* Applying a call under a fresh id keeps the journal's word, whatever object the call makes under that id.
LEMMA FreshKeepsJournal ==
    ASSUME CardInv, NEW o \in Operations, NEW q \in Requests, Fresh(o, q),
           \A x \in Operations : x # o => (fundings'[x] # NotMade <=> fundings[x] # NotMade) /\ (transfers'[x] # NotMade <=> transfers[x] # NotMade),
           (fundings'[o] # NotMade \/ transfers'[o] # NotMade) <=> q.kind # "funding.cancel"
    PROVE  journal' \in [Operations -> JournalRows \cup {NotMade}] /\ answered' \subseteq Operations /\ JournalFits(journal', fundings', transfers', answered')
<1>1. CardTypes /\ JournalFits(journal, fundings, transfers, answered)
    BY DEF CardInv
<1>2. /\ JournalEntry(q, "APPLIED") \in JournalRows /\ JournalEntry(q, "APPLIED").state = "APPLIED"
      /\ JournalEntry(q, "APPLIED").request = q /\ JournalEntry(q, "APPLIED") # NotMade
    BY EntryRows
<1>3. journal' = [journal EXCEPT ![o] = JournalEntry(q, "APPLIED")]
    BY DEF Fresh, Records
<1>4. /\ journal' \in [Operations -> JournalRows \cup {NotMade}] /\ journal'[o] = JournalEntry(q, "APPLIED")
      /\ \A x \in Operations : x # o => journal'[x] = journal[x]
    BY <1>1, <1>2, <1>3 DEF CardTypes
<1>5. IsApplied(journal'[o]) /\ journal'[o].request.kind = q.kind
    BY <1>2, <1>4 DEF IsApplied
<1>6. answered' \subseteq Operations /\ \A x \in answered' : x = o \/ x \in answered
    BY <1>1 DEF CardTypes, Fresh
<1>7. JournalFits(journal', fundings', transfers', answered')
  <2> SUFFICES ASSUME NEW x \in Operations
               PROVE  /\ (fundings'[x] # NotMade \/ transfers'[x] # NotMade)
                           <=> (IsApplied(journal'[x]) /\ journal'[x].request.kind # "funding.cancel")
                      /\ x \in answered' => IsApplied(journal'[x])
      BY DEF JournalFits
  <2>1. /\ (fundings[x] # NotMade \/ transfers[x] # NotMade) <=> (IsApplied(journal[x]) /\ journal[x].request.kind # "funding.cancel")
        /\ x \in answered => IsApplied(journal[x])
      BY <1>1 DEF JournalFits
  <2>2. CASE x = o
      BY <1>5, <2>2
  <2>3. CASE x # o
      BY <1>4, <1>6, <2>1, <2>3
  <2> QED
      BY <2>2, <2>3
<1> QED
    BY <1>4, <1>6, <1>7

\* Facts about a funding's status and cost move no money.
LEMMA FundingsKeepMoney ==
    ASSUME CardInv, transfers' = transfers, \A x \in Operations : fundings[x] # NotMade <=> fundings'[x] # NotMade,
           \A x \in Operations : fundings[x] # NotMade => fundings'[x].amount = fundings[x].amount
    PROVE  MoneyFits(fundings', transfers')
<1>1. MoneyFits(fundings, transfers) /\ transfers \in [Operations -> TransferRows \cup {NotMade}]
    BY DEF CardInv, CardTypes
<1>2. ASSUME NEW o \in Operations, transfers'[o] # NotMade PROVE TransferFits(transfers'[o], fundings')
  <2>1. TransferFits(transfers[o], fundings) /\ transfers[o] \in TransferRows
      BY <1>1, <1>2 DEF MoneyFits
  <2>2. transfers[o].funding \in Operations
      BY <2>1 DEF TransferRows
  <2> QED
      BY <2>1, <2>2 DEF TransferFits
<1>3. ASSUME NEW f \in Operations, fundings'[f] # NotMade PROVE NotOverdrawn(transfers', f, fundings'[f].amount)
    BY <1>1, <1>3 DEF MoneyFits
<1> QED
    BY <1>2, <1>3 DEF MoneyFits

\* A new funding has no transfers.
LEMMA NewFundingFits ==
    ASSUME CardInv, NEW o \in Operations, fundings[o] = NotMade, NEW r \in FundingRows, fundings' = [fundings EXCEPT ![o] = r], transfers' = transfers
    PROVE  MoneyFits(fundings', transfers')
<1>1. /\ MoneyFits(fundings, transfers) /\ transfers \in [Operations -> TransferRows \cup {NotMade}]
      /\ fundings \in [Operations -> FundingRows \cup {NotMade}]
    BY DEF CardInv, CardTypes
<1>2. fundings'[o] = r /\ r # NotMade /\ r.amount \in Nat /\ \A x \in Operations : x # o => fundings'[x] = fundings[x]
  <2>1. r.amount \in Nat
      BY DEF FundingRows
  <2> QED
      BY <1>1, <2>1, CardRows
<1>3. \A x \in Operations : transfers[x] # NotMade => transfers[x].funding \in Operations /\ fundings[transfers[x].funding] # NotMade /\ TransferFits(transfers[x], fundings)
  <2> TAKE x \in Operations
  <2>1. transfers[x] # NotMade => transfers[x] \in TransferRows
      BY <1>1
  <2> QED
      BY <1>1, <2>1 DEF MoneyFits, TransferFits, TransferRows
<1>4. \A x \in Operations : transfers'[x] # NotMade => TransferFits(transfers'[x], fundings')
    BY <1>2, <1>3 DEF TransferFits
<1>5. \A b : Moved(b, transfers', o) = 0
  <2> TAKE b
  <2>1. Doing(b, transfers', o) = {}
      BY <1>3 DEF Doing
  <2> QED
      BY <2>1, TotalEmpty DEF Moved
<1>6. ASSUME NEW f \in Operations, fundings'[f] # NotMade PROVE NotOverdrawn(transfers', f, fundings'[f].amount)
  <2>1. CASE f = o
      BY <1>2, <1>5, <2>1 DEF NotOverdrawn
  <2>2. CASE f # o
      BY <1>1, <1>2, <1>6, <2>2 DEF MoneyFits
  <2> QED
      BY <2>1, <2>2
<1> QED
    BY <1>4, <1>6 DEF MoneyFits

\* What may be drawn, sent from the platform's balance or taken back without overdrawing funding f.
Room(t, ts, amount) ==
    \/ t.kind # "reversal" /\ t.source = "PRINCIPAL" /\ t.amount <= amount - Moved("drawn", ts, t.funding) + Moved("reversed", ts, t.funding)
    \/ t.kind = "refund" /\ t.source = "PLATFORM_BALANCE" /\ t.amount <= amount - Moved("platform", ts, t.funding)
    \/ t.kind = "reversal" /\ t.source = "PRINCIPAL" /\ t.amount <= Moved("released", ts, t.funding) - Moved("reversed", ts, t.funding)

\* Totals of every funding after one transfer changed, from what that transfer counted for before and after.
Shift(b, f, t, old) == Counted(b, t, f) - Counted(b, old, f)
KeepsBounds(f, t, old, ts, amount) ==
    /\ Moved("drawn", ts, f) + Shift("drawn", f, t, old) <= amount + Moved("reversed", ts, f) + Shift("reversed", f, t, old)
    /\ Moved("reversed", ts, f) + Shift("reversed", f, t, old) <= Moved("released", ts, f) + Shift("released", f, t, old)
    /\ Moved("platform", ts, f) + Shift("platform", f, t, old) <= amount

LEMMA TransferStep ==
    ASSUME CardInv, NEW o \in Operations, NEW t \in TransferRows, transfers' = [transfers EXCEPT ![o] = t], fundings' = fundings,
           fundings[t.funding] # NotMade, t.kind # "refund" => t.source = "PRINCIPAL",
           \A f \in Operations : fundings[f] # NotMade => KeepsBounds(f, t, transfers[o], transfers, fundings[f].amount)
    PROVE  transfers' \in [Operations -> TransferRows \cup {NotMade}] /\ MoneyFits(fundings', transfers')
<1>1. /\ MoneyFits(fundings, transfers) /\ transfers \in [Operations -> TransferRows \cup {NotMade}]
      /\ fundings \in [Operations -> FundingRows \cup {NotMade}]
    BY DEF CardInv, CardTypes
<1>2. /\ transfers' \in [Operations -> TransferRows \cup {NotMade}] /\ transfers'[o] = t
      /\ \A x \in Operations : x # o => transfers'[x] = transfers[x]
    BY <1>1
<1>3. \A x \in Operations : transfers'[x] # NotMade => TransferFits(transfers'[x], fundings')
    BY <1>1, <1>2 DEF MoneyFits, TransferFits
<1> DEFINE us == transfers'
<1>4. \A b, f : Moved(b, us, f) = Moved(b, transfers, f) + Counted(b, t, f) - Counted(b, transfers[o], f)
  <2> TAKE b, f
  <2>1. us = [transfers EXCEPT ![o] = t]
      OBVIOUS
  <2> HIDE DEF us
  <2> DEFINE ts == transfers
  <2>2. ts \in [Operations -> TransferRows \cup {NotMade}] /\ OneTransfer(ts, us, o, t)
      BY <1>1, <2>1 DEF OneTransfer
  <2> HIDE DEF ts
  <2>3. Moved(b, us, f) = Moved(b, ts, f) + Counted(b, t, f) - Counted(b, ts[o], f)
      BY <2>2, MovedMoves
  <2> QED
      BY <2>3 DEF ts
<1>5. \A b, f : Moved(b, transfers, f) \in Nat /\ Counted(b, t, f) \in Nat /\ Counted(b, transfers[o], f) \in Nat
  <2>1. \A b, f : Moved(b, transfers, f) \in Nat
      BY <1>1, MovedNat
  <2>2. \A b, f : Counted(b, t, f) \in Nat
      BY DEF Counted, TransferRows
  <2>3. \A b, f : Counted(b, transfers[o], f) \in Nat
    <3>1. transfers[o] = NotMade \/ transfers[o] \in TransferRows
        BY <1>1
    <3> QED
        BY <3>1 DEF Counted, TransferRows
  <2> QED
      BY <2>1, <2>2, <2>3
<1>6. ASSUME NEW f \in Operations, fundings'[f] # NotMade PROVE NotOverdrawn(us, f, fundings'[f].amount)
  <2>1. KeepsBounds(f, t, transfers[o], transfers, fundings[f].amount) /\ fundings'[f].amount = fundings[f].amount /\ fundings[f].amount \in Nat
      BY <1>1, <1>6 DEF FundingRows
  <2> HIDE DEF us
  <2>2. \A b : /\ Moved(b, us, f) = Moved(b, transfers, f) + Shift(b, f, t, transfers[o])
              /\ Moved(b, transfers, f) \in Nat /\ Shift(b, f, t, transfers[o]) \in Int
      BY <1>4, <1>5 DEF Shift
  <2> QED
      BY <2>1, <2>2 DEF KeepsBounds, NotOverdrawn
<1> QED
    BY <1>2, <1>3, <1>6 DEF MoneyFits

LEMMA TransferMade ==
    ASSUME CardInv, NEW o \in Operations, transfers[o] = NotMade, NEW t \in TransferRows, transfers' = [transfers EXCEPT ![o] = t],
           fundings' = fundings, fundings[t.funding] # NotMade, Room(t, transfers, fundings[t.funding].amount)
    PROVE  transfers' \in [Operations -> TransferRows \cup {NotMade}] /\ MoneyFits(fundings', transfers')
<1>1. /\ MoneyFits(fundings, transfers) /\ transfers \in [Operations -> TransferRows \cup {NotMade}]
      /\ fundings \in [Operations -> FundingRows \cup {NotMade}]
    BY DEF CardInv, CardTypes
<1>2. t.kind # "refund" => t.source = "PRINCIPAL"
    BY DEF Room
<1>3. t \in TransferRows /\ t # NotMade /\ t.amount \in Nat
    BY CardRows DEF TransferRows
<1>4. ASSUME NEW f \in Operations, fundings[f] # NotMade PROVE KeepsBounds(f, t, transfers[o], transfers, fundings[f].amount)
  <2>1. \A b : Counted(b, transfers[o], f) = 0
      BY DEF Counted
  <2>2. NotOverdrawn(transfers, f, fundings[f].amount) /\ fundings[f].amount \in Nat
      BY <1>1, <1>4 DEF MoneyFits, FundingRows
  <2>3. \A b : Moved(b, transfers, f) \in Nat
      BY <1>1, MovedNat
  <2>4. CASE t.funding # f
    <3>1. \A b : Counted(b, t, f) = 0
        BY <2>4 DEF Counted
    <3> QED
        BY <2>1, <2>2, <2>3, <3>1 DEF KeepsBounds, Shift, NotOverdrawn
  <2>5. CASE t.funding = f
    <3>1. Room(t, transfers, fundings[f].amount)
        BY <2>5
    <3>2. CASE t.kind # "reversal" /\ t.source = "PRINCIPAL"
      <4>1. Counted("reversed", t, f) = 0 /\ Counted("platform", t, f) = 0 /\ Counted("drawn", t, f) <= t.amount /\ Counted("drawn", t, f) \in Nat /\ Counted("released", t, f) \in Nat
          BY <1>3, <3>2 DEF Counted, Does
      <4>2. t.amount <= fundings[f].amount - Moved("drawn", transfers, f) + Moved("reversed", transfers, f)
          BY <2>5, <3>1, <3>2 DEF Room
      <4> QED
          BY <1>3, <2>1, <2>2, <2>3, <4>1, <4>2 DEF KeepsBounds, Shift, NotOverdrawn
    <3>3. CASE t.kind = "refund" /\ t.source = "PLATFORM_BALANCE"
      <4>1. /\ Counted("reversed", t, f) = 0 /\ Counted("drawn", t, f) = 0 /\ Counted("released", t, f) = 0
            /\ Counted("platform", t, f) <= t.amount /\ Counted("platform", t, f) \in Nat
          BY <1>3, <3>3 DEF Counted, Does
      <4>2. t.amount <= fundings[f].amount - Moved("platform", transfers, f)
          BY <2>5, <3>1, <3>3 DEF Room
      <4> QED
          BY <1>3, <2>1, <2>2, <2>3, <4>1, <4>2 DEF KeepsBounds, Shift, NotOverdrawn
    <3>4. CASE t.kind = "reversal" /\ t.source = "PRINCIPAL"
      <4>1. /\ Counted("reversed", t, f) = t.amount /\ Counted("drawn", t, f) = 0 /\ Counted("released", t, f) = 0
            /\ Counted("platform", t, f) = 0
          BY <1>3, <2>5, <3>4 DEF Counted, Does
      <4>2. t.amount <= Moved("released", transfers, f) - Moved("reversed", transfers, f)
          BY <2>5, <3>1, <3>4 DEF Room
      <4> QED
          BY <1>3, <2>1, <2>2, <2>3, <4>1, <4>2 DEF KeepsBounds, Shift, NotOverdrawn
    <3> QED
        BY <3>1, <3>2, <3>3, <3>4 DEF Room
  <2> QED
      BY <2>4, <2>5
<1> QED
    BY <1>2, <1>4, TransferStep

LEMMA SettleFits ==
    ASSUME CardInv, NEW o \in Operations, NEW s \in {"SUCCEEDED", "FAILED"}, SettleTransfer(o, s)
    PROVE  CardInv'
<1>1. /\ MoneyFits(fundings, transfers) /\ transfers \in [Operations -> TransferRows \cup {NotMade}] /\ CardTypes
      /\ fundings \in [Operations -> FundingRows \cup {NotMade}] /\ JournalFits(journal, fundings, transfers, answered)
    BY DEF CardInv, CardTypes
<1> DEFINE old == transfers[o]
           t == [old EXCEPT !.status = s]
<1>2. /\ old # NotMade /\ old.status = "PENDING" /\ transfers' = [transfers EXCEPT ![o] = t]
      /\ UNCHANGED <<journal, fundings, answered>>
    BY DEF SettleTransfer
<1>3. old \in TransferRows
    BY <1>1, <1>2
<1>4. /\ t \in TransferRows /\ t.status = s /\ t.kind = old.kind /\ t.source = old.source /\ t.funding = old.funding
      /\ t.amount = old.amount /\ t.amount \in Nat
  <2> HIDE DEF old
  <2> QED
      BY <1>3 DEF TransferRows
<1>5. TransferFits(old, fundings)
    BY <1>1, <1>2 DEF MoneyFits
<1> HIDE DEF t
<1>6. t # NotMade
    BY <1>4, CardRows
<1>7. ASSUME NEW f \in Operations, fundings[f] # NotMade PROVE KeepsBounds(f, t, transfers[o], transfers, fundings[f].amount)
  <2>1. NotOverdrawn(transfers, f, fundings[f].amount) /\ fundings[f].amount \in Nat
      BY <1>1, <1>7 DEF MoneyFits, FundingRows
  <2>2. \A b : Moved(b, transfers, f) \in Nat
      BY <1>1, MovedNat
  <2> HIDE DEF old
  <2>3. /\ Counted("drawn", t, f) <= Counted("drawn", old, f) /\ Counted("reversed", t, f) = Counted("reversed", old, f)
        /\ Counted("platform", t, f) <= Counted("platform", old, f) /\ Counted("released", t, f) >= Counted("released", old, f)
      BY <1>2, <1>4, <1>6 DEF Counted, Does
  <2>4. \A b : Counted(b, t, f) \in Nat /\ Counted(b, old, f) \in Nat
      BY <1>4 DEF Counted
  <2>5. KeepsBounds(f, t, old, transfers, fundings[f].amount)
      BY <2>1, <2>2, <2>3, <2>4 DEF KeepsBounds, Shift, NotOverdrawn
  <2> QED
      BY <2>5 DEF old
<1>8. transfers' \in [Operations -> TransferRows \cup {NotMade}] /\ MoneyFits(fundings', transfers')
  <2>1. fundings[t.funding] # NotMade /\ (t.kind # "refund" => t.source = "PRINCIPAL") /\ fundings' = fundings
      BY <1>2, <1>4, <1>5 DEF TransferFits
  <2> QED
      BY <1>2, <1>4, <1>7, <2>1, TransferStep
<1>9. \A x \in Operations : transfers'[x] # NotMade <=> transfers[x] # NotMade
    BY <1>1, <1>2, <1>6
<1>10. JournalFits(journal', fundings', transfers', answered')
    BY <1>1, <1>2, <1>9 DEF JournalFits
<1> QED
    BY <1>1, <1>2, <1>8, <1>10 DEF CardInv, CardTypes

\* The provider's sums are the totals above.
LEMMA SumsAreMoved ==
    ASSUME NEW f
    PROVE  /\ AvailablePrincipal(f) = IF fundings[f].status # "SUCCEEDED" THEN 0
                                      ELSE fundings[f].amount - Moved("drawn", transfers, f) + Moved("reversed", transfers, f)
           /\ SumOf(OfKind("reversal", f)) = Moved("reversed", transfers, f)
           /\ CardRefunded(f) = Moved("refunded", transfers, f)
<1>1. OfKind("reversal", f) = Doing("reversed", transfers, f)
    BY DEF OfKind, TransfersOf, Doing, Does
<1>2. {o \in TransfersOf(f) : transfers[o].status # "FAILED" /\ transfers[o].kind # "reversal" /\ transfers[o].source = "PRINCIPAL"}
        = Doing("drawn", transfers, f)
    BY DEF TransfersOf, Doing, Does
<1>3. {o \in OfKind("refund", f) : transfers[o].status # "FAILED"} = Doing("refunded", transfers, f)
    BY DEF OfKind, TransfersOf, Doing, Does
<1>4. \A S : SumOf(S) = Total(AmountsOf(transfers), S)
    BY DEF SumOf, AmountsOf
<1>5. AvailablePrincipal(f) = IF fundings[f].status # "SUCCEEDED" THEN 0
                              ELSE fundings[f].amount - SumOf(Doing("drawn", transfers, f)) + SumOf(Doing("reversed", transfers, f))
    BY <1>1, <1>2 DEF AvailablePrincipal
<1>6. CardRefunded(f) = SumOf(Doing("refunded", transfers, f))
    BY <1>3 DEF CardRefunded
<1>7. \A b : SumOf(Doing(b, transfers, f)) = Moved(b, transfers, f)
    BY <1>4 DEF Moved
<1> QED
    BY <1>1, <1>5, <1>6, <1>7

LEMMA PartOfTotal ==
    ASSUME NEW b, NEW c, NEW f, NEW ts \in [Operations -> TransferRows \cup {NotMade}], Doing(b, ts, f) \subseteq Doing(c, ts, f)
    PROVE  Moved(b, ts, f) <= Moved(c, ts, f)
<1> DEFINE A == AmountsOf(ts)
           S == Doing(c, ts, f)
           T == Doing(b, ts, f)
<1>1. \A o \in Operations : A[o] \in Nat
  <2> TAKE o \in Operations
  <2>1. ts[o] = NotMade \/ ts[o] \in TransferRows
      OBVIOUS
  <2>2. A[o] = IF ts[o] = NotMade THEN 0 ELSE ts[o].amount
      BY DEF AmountsOf
  <2> QED
      BY <2>1, <2>2 DEF TransferRows
<1>2. S \in SUBSET Operations /\ T \in SUBSET S
    BY DEF Doing
<1>3. Moved(b, ts, f) = Total(A, T) /\ Moved(c, ts, f) = Total(A, S)
    BY DEF Moved
<1> HIDE DEF A, S, T
<1>4. Amounts(A, S)
    BY <1>1, <1>2, CardRows, FS_Subset DEF Amounts
<1> QED
    BY <1>2, <1>3, <1>4, TotalPart

\* One released transfer is part of what was released.
LEMMA ReleasedCounts ==
    ASSUME NEW ts \in [Operations -> TransferRows \cup {NotMade}], NEW o \in Operations, ts[o] # NotMade, ts[o].kind = "release", ts[o].status = "SUCCEEDED"
    PROVE  ts[o].amount <= Moved("released", ts, ts[o].funding)
<1> DEFINE A == AmountsOf(ts)
           S == Doing("released", ts, ts[o].funding)
<1>1. \A x \in Operations : A[x] \in Nat
  <2> TAKE x \in Operations
  <2>1. ts[x] = NotMade \/ ts[x] \in TransferRows
      OBVIOUS
  <2>2. A[x] = IF ts[x] = NotMade THEN 0 ELSE ts[x].amount
      BY DEF AmountsOf
  <2> QED
      BY <2>1, <2>2 DEF TransferRows
<1>2. S \in SUBSET Operations /\ o \in S /\ A[o] = ts[o].amount
    BY DEF Doing, Does, AmountsOf
<1>3. Moved("released", ts, ts[o].funding) = Total(A, S)
    BY DEF Moved
<1> HIDE DEF A, S
<1>4. Amounts(A, S)
    BY <1>1, <1>2, CardRows, FS_Subset DEF Amounts
<1>5. A[o] <= Total(A, S)
    BY <1>2, <1>4, TotalRemove
<1> QED
    BY <1>2, <1>3, <1>5

\* A transfer made under id o, with room for it.
Drawing(o) ==
    \E t \in TransferRows :
        /\ transfers' = [transfers EXCEPT ![o] = t] /\ fundings' = fundings
        /\ fundings[t.funding] # NotMade /\ Room(t, transfers, fundings[t.funding].amount)
        /\ t.amount > 0 /\ t.status \in {"PENDING", "SUCCEEDED"}
        /\ t.kind # "reversal" => fundings[t.funding].status = "SUCCEEDED"

LEMMA CreateDraws ==
    ASSUME NEW o \in Operations, NEW kind \in {"release", "refund", "reversal"}, NEW f \in Operations, NEW payee \in STRING \cup {NotMade},
           NEW amount \in Nat \ {0}, NEW source \in {"PRINCIPAL", "PLATFORM_BALANCE"}, CreateTransfer(o, kind, f, payee, amount, source),
           fundings[f] # NotMade, kind # "reversal" => fundings[f].status = "SUCCEEDED",
           \A s : Room(TransferRecord(kind, f, payee, amount, source, s), transfers, fundings[f].amount)
    PROVE  Drawing(o)
<1> DEFINE s == IF kind = "reversal" \/ (kind = "release" /\ config.release = "immediate")
                     \/ (kind = "refund" /\ config.refund = "immediate") THEN "SUCCEEDED" ELSE "PENDING"
           t == TransferRecord(kind, f, payee, amount, source, s)
<1>1. s \in {"SUCCEEDED", "PENDING"}
    OBVIOUS
<1>2. transfers' = [transfers EXCEPT ![o] = t] /\ fundings' = fundings
    BY DEF CreateTransfer
<1>3. Room(t, transfers, fundings[f].amount)
    OBVIOUS
<1> HIDE DEF s
<1>4. t \in TransferRows /\ t.funding = f /\ t.amount = amount /\ t.status = s /\ t.kind = kind
    BY <1>1 DEF TransferRecord, TransferRows
<1>5. t.amount > 0
    BY <1>4
<1> HIDE DEF t
<1> QED
    BY <1>1, <1>2, <1>3, <1>4, <1>5 DEF Drawing

LEMMA DrawingKeeps ==
    ASSUME CardInv, NEW o \in Operations, NEW q \in Requests, Fresh(o, q), q.kind # "funding.cancel", Drawing(o)
    PROVE  CardInv'
<1>1. PICK t \in TransferRows : /\ transfers' = [transfers EXCEPT ![o] = t] /\ fundings' = fundings
                                 /\ fundings[t.funding] # NotMade /\ Room(t, transfers, fundings[t.funding].amount)
    BY DEF Drawing
<1>2. transfers[o] = NotMade /\ fundings[o] = NotMade
    BY FreshMakesNothingYet
<1>3. transfers' \in [Operations -> TransferRows \cup {NotMade}] /\ MoneyFits(fundings', transfers')
    BY <1>1, <1>2, TransferMade
<1>4. transfers'[o] # NotMade /\ \A x \in Operations : x # o => transfers'[x] = transfers[x]
  <2>1. t # NotMade /\ transfers \in [Operations -> TransferRows \cup {NotMade}]
      BY CardRows DEF CardInv, CardTypes
  <2> QED
      BY <1>1, <2>1
<1>5. journal' \in [Operations -> JournalRows \cup {NotMade}] /\ answered' \subseteq Operations /\ JournalFits(journal', fundings', transfers', answered')
    BY <1>1, <1>4, FreshKeepsJournal
<1> QED
    BY <1>1, <1>3, <1>5 DEF CardInv, CardTypes

\* A request's kind says which fields it has.
LEMMA KindsOfRequest ==
    ASSUME NEW q \in Requests
    PROVE  /\ q.kind = "funding.create" => q \in FundingInput
           /\ q.kind = "release.create" => q \in ReleaseInput
           /\ q.kind = "refund.create" => q \in RefundInput
           /\ q.kind = "reversal.create" => q \in ReversalInput
    BY DEF Requests, FundingInput, CancelInput, ReleaseInput, RefundInput, ReversalInput

LEMMA FundingCreateKeeps == ASSUME CardInv, NEW o \in Operations, NEW q \in Requests, CreateFundingIntent(o, q) PROVE CardInv'
<1> DEFINE r == FundingRecord(q)
<1>1. \/ Quiet(o, q)
      \/ Fresh(o, q) /\ q.amount \in 1..MaxAtomic /\ fundings' = [fundings EXCEPT ![o] = r] /\ transfers' = transfers
    BY DEF CreateFundingIntent, RunIdempotent, Quiet, Fresh, Nothing, Succeeds, AtomicAmount
<1>2. CASE Fresh(o, q) /\ q.amount \in 1..MaxAtomic /\ fundings' = [fundings EXCEPT ![o] = r] /\ transfers' = transfers
  <2>1. q \in FundingInput /\ q.kind = "funding.create"
      BY KindsOfRequest DEF CreateFundingIntent
  <2>2. q.amount \in Nat
      BY <1>2, CardRows
  <2>3. r \in FundingRows
      BY <2>1, <2>2 DEF FundingRecord, FundingInput, FundingRows
  <2> HIDE DEF r
  <2>4. /\ fundings \in [Operations -> FundingRows \cup {NotMade}] /\ transfers \in [Operations -> TransferRows \cup {NotMade}]
        /\ fundings[o] = NotMade /\ r # NotMade
      BY <1>2, <2>3, FreshMakesNothingYet, CardRows DEF CardInv, CardTypes
  <2>5. /\ fundings' \in [Operations -> FundingRows \cup {NotMade}] /\ fundings'[o] # NotMade
        /\ \A x \in Operations : x # o => fundings'[x] = fundings[x]
      BY <1>2, <2>3, <2>4
  <2>6. MoneyFits(fundings', transfers')
      BY <1>2, <2>3, <2>4, NewFundingFits
  <2>7. journal' \in [Operations -> JournalRows \cup {NotMade}] /\ answered' \subseteq Operations /\ JournalFits(journal', fundings', transfers', answered')
      BY <1>2, <2>1, <2>5, FreshKeepsJournal
  <2> QED
      BY <1>2, <2>4, <2>5, <2>6, <2>7 DEF CardInv, CardTypes
<1> QED
    BY <1>1, <1>2, QuietKeeps

\* One funding's status or cost moves.
OneFunding(f, s, c) == fundings' = [fundings EXCEPT ![f] = [fundings[f] EXCEPT !.status = s, !.cost = c]]

LEMMA FundingMoves ==
    ASSUME CardInv, NEW f \in Operations, fundings[f] # NotMade, NEW c \in Nat \cup {NotMade},
           NEW s \in {"REQUIRES_ACTION", "PROCESSING", "SUCCEEDED", "FAILED", "CANCELED", "RETURNED"}, OneFunding(f, s, c), transfers' = transfers
    PROVE  /\ fundings' \in [Operations -> FundingRows \cup {NotMade}] /\ MoneyFits(fundings', transfers')
           /\ \A x \in Operations : fundings[x] # NotMade <=> fundings'[x] # NotMade
<1> DEFINE old == fundings[f]
           r == [old EXCEPT !.status = s, !.cost = c]
<1>1. fundings \in [Operations -> FundingRows \cup {NotMade}] /\ old \in FundingRows
    BY DEF CardInv, CardTypes
<1>2. fundings' = [fundings EXCEPT ![f] = r]
    BY DEF OneFunding
<1>3. r \in FundingRows /\ r.amount = old.amount
  <2>1. old \in FundingRows
      BY <1>1
  <2> HIDE DEF old
  <2> QED
      BY <2>1 DEF FundingRows
<1> HIDE DEF r
<1>4. r # NotMade
    BY <1>3, CardRows
<1>5. /\ fundings' \in [Operations -> FundingRows \cup {NotMade}] /\ fundings'[f] = r
      /\ \A x \in Operations : x # f => fundings'[x] = fundings[x]
    BY <1>1, <1>2, <1>3
<1>6. \A x \in Operations : (fundings[x] # NotMade <=> fundings'[x] # NotMade) /\ (fundings[x] # NotMade => fundings'[x].amount = fundings[x].amount)
    BY <1>3, <1>4, <1>5
<1>7. MoneyFits(fundings', transfers')
    BY <1>6, FundingsKeepMoney
<1> QED
    BY <1>5, <1>6, <1>7

LEMMA FundingFactKeeps ==
    ASSUME CardInv, NEW f \in Operations, fundings[f] # NotMade, NEW c \in Nat \cup {NotMade},
           NEW s \in {"REQUIRES_ACTION", "PROCESSING", "SUCCEEDED", "FAILED", "CANCELED", "RETURNED"}, OneFunding(f, s, c),
           UNCHANGED <<transfers, journal, answered>>
    PROVE  CardInv'
<1>1. /\ fundings' \in [Operations -> FundingRows \cup {NotMade}] /\ MoneyFits(fundings', transfers')
      /\ \A x \in Operations : fundings[x] # NotMade <=> fundings'[x] # NotMade
    BY FundingMoves
<1>2. JournalFits(journal', fundings', transfers', answered')
    BY <1>1 DEF CardInv, JournalFits
<1> QED
    BY <1>1, <1>2 DEF CardInv, CardTypes

LEMMA CancelKeeps == ASSUME CardInv, NEW o \in Operations, NEW q \in Requests, CancelFunding(o, q) PROVE CardInv'
<1> DEFINE f == q.on
           Cancels == fundings' = [fundings EXCEPT ![f].status = "CANCELED"]
<1>1. \/ Quiet(o, q)
      \/ Fresh(o, q) /\ f \in Made /\ (fundings' = fundings \/ Cancels) /\ transfers' = transfers
    BY DEF CancelFunding, RunIdempotent, Quiet, Fresh, Nothing, Succeeds
<1>2. CASE Fresh(o, q) /\ f \in Made /\ (fundings' = fundings \/ Cancels) /\ transfers' = transfers
  <2>1. f \in Operations /\ fundings[f] # NotMade /\ q.kind = "funding.cancel"
      BY <1>2 DEF Made, CancelFunding
  <2>2. fundings[f] \in FundingRows /\ MoneyFits(fundings, transfers) /\ fundings \in [Operations -> FundingRows \cup {NotMade}]
      BY <2>1 DEF CardInv, CardTypes
  <2>3. /\ fundings' \in [Operations -> FundingRows \cup {NotMade}] /\ MoneyFits(fundings', transfers')
        /\ \A x \in Operations : fundings[x] # NotMade <=> fundings'[x] # NotMade
    <3>1. CASE fundings' = fundings
        BY <1>2, <2>2, <3>1
    <3>2. CASE Cancels
      <4>1. [fundings[f] EXCEPT !.status = "CANCELED"] = [fundings[f] EXCEPT !.status = "CANCELED", !.cost = fundings[f].cost] /\ fundings[f].cost \in Nat \cup {NotMade}
        <5> DEFINE r == fundings[f]
        <5>1. r \in FundingRows
            BY <2>2
        <5> HIDE DEF r
        <5>2. [r EXCEPT !.status = "CANCELED"] = [r EXCEPT !.status = "CANCELED", !.cost = r.cost] /\ r.cost \in Nat \cup {NotMade}
            BY <5>1 DEF FundingRows
        <5> QED
            BY <5>2 DEF r
      <4>2. OneFunding(f, "CANCELED", fundings[f].cost)
          BY <3>2, <4>1 DEF OneFunding
      <4> QED
          BY <1>2, <2>1, <4>1, <4>2, FundingMoves
    <3> QED
        BY <1>2, <3>1, <3>2
  <2>4. fundings[o] = NotMade /\ transfers[o] = NotMade
      BY <1>2, FreshMakesNothingYet
  <2>5. journal' \in [Operations -> JournalRows \cup {NotMade}] /\ answered' \subseteq Operations /\ JournalFits(journal', fundings', transfers', answered')
      BY <1>2, <2>1, <2>3, <2>4, FreshKeepsJournal
  <2> QED
      BY <1>2, <2>3, <2>5 DEF CardInv, CardTypes
<1> QED
    BY <1>1, <1>2, QuietKeeps

LEMMA ReleaseToDraws ==
    ASSUME CardInv, NEW o \in Operations, NEW q \in Requests, ReleaseToCreator(o, q)
    PROVE  q.kind # "funding.cancel" /\ (Quiet(o, q) \/ (Fresh(o, q) /\ Drawing(o)))
<1> DEFINE Draws == /\ q.amount \in 1..MaxAtomic /\ TransferAgainst(q) /\ q.amount <= AvailablePrincipal(q.on)
                    /\ CreateTransfer(o, "release", q.on, q.payee, q.amount, "PRINCIPAL")
<1>1. Quiet(o, q) \/ (Fresh(o, q) /\ Draws)
    BY DEF ReleaseToCreator, RunIdempotent, Quiet, Fresh, Nothing, Succeeds, AtomicAmount
<1>2. CASE Fresh(o, q) /\ Draws
  <2>1. q.on \in Operations /\ fundings[q.on] # NotMade /\ fundings[q.on].status = "SUCCEEDED" /\ q.amount \in Nat \ {0}
      BY <1>2, CardRows DEF TransferAgainst, Made
  <2>2. q.payee \in STRING \cup {NotMade} /\ q.kind # "funding.cancel"
      BY KindsOfRequest DEF ReleaseToCreator, ReleaseInput
  <2>3. q.amount <= fundings[q.on].amount - Moved("drawn", transfers, q.on) + Moved("reversed", transfers, q.on)
      BY <1>2, <2>1, SumsAreMoved
  <2>4. \A s : Room(TransferRecord("release", q.on, q.payee, q.amount, "PRINCIPAL", s), transfers, fundings[q.on].amount)
      BY <2>3 DEF Room, TransferRecord
  <2> QED
      BY <1>2, <2>1, <2>2, <2>4, CreateDraws
<1>3. q.kind # "funding.cancel"
    BY DEF ReleaseToCreator
<1> QED
    BY <1>1, <1>2, <1>3

LEMMA RefundChargeDraws ==
    ASSUME CardInv, NEW o \in Operations, NEW q \in Requests, RefundCharge(o, q)
    PROVE  q.kind # "funding.cancel" /\ (Quiet(o, q) \/ (Fresh(o, q) /\ Drawing(o)))
<1> DEFINE Draws == /\ q.amount \in 1..MaxAtomic /\ TransferAgainst(q)
                    /\ q.amount <= IF q.source = "PLATFORM_BALANCE" THEN fundings[q.on].amount - CardRefunded(q.on) ELSE AvailablePrincipal(q.on)
                    /\ CreateTransfer(o, "refund", q.on, NotMade, q.amount, q.source)
<1>1. Quiet(o, q) \/ (Fresh(o, q) /\ Draws)
    BY DEF RefundCharge, RunIdempotent, Quiet, Fresh, Nothing, Succeeds, AtomicAmount
<1>2. CASE Fresh(o, q) /\ Draws
  <2>1. q.on \in Operations /\ fundings[q.on] # NotMade /\ fundings[q.on].status = "SUCCEEDED" /\ q.amount \in Nat \ {0}
      BY <1>2, CardRows DEF TransferAgainst, Made
  <2>2. q.source \in {"PRINCIPAL", "PLATFORM_BALANCE"} /\ q.kind # "funding.cancel"
      BY KindsOfRequest DEF RefundCharge, RefundInput
  <2>3. /\ transfers \in [Operations -> TransferRows \cup {NotMade}] /\ fundings[q.on].amount \in Nat
        /\ Moved("platform", transfers, q.on) \in Nat /\ Moved("refunded", transfers, q.on) \in Nat
    <3>1. transfers \in [Operations -> TransferRows \cup {NotMade}] /\ fundings[q.on] \in FundingRows
        BY <2>1 DEF CardInv, CardTypes
    <3> QED
        BY <3>1, MovedNat DEF FundingRows
  <2>4. CASE q.source = "PRINCIPAL"
    <3>1. q.amount <= fundings[q.on].amount - Moved("drawn", transfers, q.on) + Moved("reversed", transfers, q.on)
        BY <1>2, <2>1, <2>4, SumsAreMoved
    <3>2. \A s : Room(TransferRecord("refund", q.on, NotMade, q.amount, "PRINCIPAL", s), transfers, fundings[q.on].amount)
        BY <3>1 DEF Room, TransferRecord
    <3> QED
        BY <1>2, <2>1, <2>2, <2>4, <3>2, CreateDraws
  <2>5. CASE q.source = "PLATFORM_BALANCE"
    <3>1. q.amount <= fundings[q.on].amount - Moved("refunded", transfers, q.on)
        BY <1>2, <2>5, SumsAreMoved
    <3>2. Doing("platform", transfers, q.on) \subseteq Doing("refunded", transfers, q.on)
        BY DEF Doing, Does
    <3>3. Moved("platform", transfers, q.on) <= Moved("refunded", transfers, q.on)
        BY <2>3, <3>2, PartOfTotal
    <3>4. q.amount <= fundings[q.on].amount - Moved("platform", transfers, q.on)
        BY <2>1, <2>3, <3>1, <3>3
    <3>5. \A s : Room(TransferRecord("refund", q.on, NotMade, q.amount, "PLATFORM_BALANCE", s), transfers, fundings[q.on].amount)
        BY <3>4 DEF Room, TransferRecord
    <3> QED
        BY <1>2, <2>1, <2>2, <2>5, <3>5, CreateDraws
  <2> QED
      BY <2>2, <2>4, <2>5
<1>3. q.kind # "funding.cancel"
    BY DEF RefundCharge
<1> QED
    BY <1>1, <1>2, <1>3

LEMMA ReverseDraws ==
    ASSUME CardInv, NEW o \in Operations, NEW q \in Requests, ReverseTransfer(o, q)
    PROVE  q.kind # "funding.cancel" /\ (Quiet(o, q) \/ (Fresh(o, q) /\ Drawing(o)))
<1> DEFINE r == transfers[q.on]
           Draws == /\ q.amount \in 1..MaxAtomic /\ IsTransfer(q.on, "release") /\ r.status = "SUCCEEDED"
                    /\ q.amount <= r.amount - SumOf(OfKind("reversal", r.funding))
                    /\ CreateTransfer(o, "reversal", r.funding, r.payee, q.amount, "PRINCIPAL")
<1>1. Quiet(o, q) \/ (Fresh(o, q) /\ Draws)
    BY DEF ReverseTransfer, RunIdempotent, Quiet, Fresh, Nothing, Succeeds, AtomicAmount
<1>2. CASE Fresh(o, q) /\ Draws
  <2>1. q.on \in Operations /\ r # NotMade /\ r.kind = "release" /\ r.status = "SUCCEEDED" /\ q.amount \in Nat \ {0}
      BY <1>2, CardRows DEF IsTransfer
  <2>2. transfers \in [Operations -> TransferRows \cup {NotMade}] /\ r \in TransferRows /\ TransferFits(r, fundings)
      BY <2>1 DEF CardInv, CardTypes, MoneyFits
  <2>3. q.kind # "funding.cancel"
      BY DEF ReverseTransfer
  <2>4. r.funding \in Operations /\ fundings[r.funding] # NotMade /\ r.payee \in STRING \cup {NotMade} /\ r.amount \in Nat
      BY <2>2 DEF TransferFits, TransferRows
  <2>5. r.amount <= Moved("released", transfers, r.funding)
      BY <2>1, <2>2, ReleasedCounts
  <2>6. q.amount <= r.amount - Moved("reversed", transfers, r.funding)
      BY <1>2, SumsAreMoved
  <2>7. Moved("released", transfers, r.funding) \in Nat /\ Moved("reversed", transfers, r.funding) \in Nat
      BY <2>2, MovedNat
  <2> DEFINE f == r.funding
             p == r.payee
  <2>8. q.amount <= Moved("released", transfers, f) - Moved("reversed", transfers, f)
      BY <2>1, <2>4, <2>5, <2>6, <2>7
  <2>9. /\ f \in Operations /\ fundings[f] # NotMade /\ p \in STRING \cup {NotMade}
        /\ CreateTransfer(o, "reversal", f, p, q.amount, "PRINCIPAL") /\ Fresh(o, q)
      BY <1>2, <2>4
  <2> HIDE DEF f, p, r
  <2>10. \A s : Room(TransferRecord("reversal", f, p, q.amount, "PRINCIPAL", s), transfers, fundings[f].amount)
      BY <2>8 DEF Room, TransferRecord
  <2> QED
      BY <2>1, <2>3, <2>9, <2>10, CreateDraws
<1>3. q.kind # "funding.cancel"
    BY DEF ReverseTransfer
<1> QED
    BY <1>1, <1>2, <1>3

LEMMA FactIsOneFunding ==
    ASSUME CardInv, NEW f \in Operations, fundings[f] # NotMade, NEW s, NEW c, FundingFact(f, s, c)
    PROVE  OneFunding(f, s, c) /\ UNCHANGED <<transfers, journal, answered>>
<1> DEFINE old == fundings[f]
           r == [old EXCEPT !.status = s]
           g == [fundings EXCEPT ![f] = r]
<1>1. fundings \in [Operations -> FundingRows \cup {NotMade}] /\ old \in FundingRows
    BY DEF CardInv, CardTypes
<1>2. fundings' = [g EXCEPT ![f] = [g[f] EXCEPT !.cost = c]] /\ UNCHANGED <<transfers, journal, answered>>
    BY DEF FundingFact
<1>3. g[f] = r
    BY <1>1
<1>4. [r EXCEPT !.cost = c] = [old EXCEPT !.status = s, !.cost = c]
    OBVIOUS
<1> HIDE DEF r
<1>5. \A y : [g EXCEPT ![f] = y] = [fundings EXCEPT ![f] = y]
    BY <1>1
<1> QED
    BY <1>2, <1>3, <1>4, <1>5 DEF OneFunding

LEMMA FactsKeep ==
    ASSUME CardInv, NEW f \in Operations, fundings[f] # NotMade,
           \/ \E s \in {"PROCESSING", "SUCCEEDED", "FAILED"}, c \in {0, 1} : FundingOutcome(f, s, c)
           \/ LateCapture(f) \/ BankReturn(f) \/ \E c \in {0, 1} : FeeAdjustment(f, c)
    PROVE  CardInv'
<1>1. fundings[f] \in FundingRows
    BY DEF CardInv, CardTypes
<1>2. fundings[f].cost \in Nat \cup {NotMade} /\ fundings[f].status \in {"REQUIRES_ACTION", "PROCESSING", "SUCCEEDED", "FAILED", "CANCELED", "RETURNED"}
    BY <1>1 DEF FundingRows
<1>3. ASSUME NEW s \in {"PROCESSING", "SUCCEEDED", "FAILED", "RETURNED"}, NEW c \in Nat \cup {NotMade}, FundingFact(f, s, c) PROVE CardInv'
  <2>1. OneFunding(f, s, c) /\ UNCHANGED <<transfers, journal, answered>>
      BY <1>3, FactIsOneFunding
  <2> QED
      BY <2>1, FundingFactKeeps
<1>4. ASSUME NEW s \in {"PROCESSING", "SUCCEEDED", "FAILED"}, NEW c \in {0, 1}, FundingOutcome(f, s, c) PROVE CardInv'
  <2> DEFINE k == IF s = "SUCCEEDED" THEN c ELSE fundings[f].cost
  <2>1. k \in Nat \cup {NotMade} /\ FundingFact(f, s, k)
      BY <1>2, <1>4 DEF FundingOutcome
  <2> HIDE DEF k
  <2> QED
      BY <1>3, <2>1
<1>5. CASE LateCapture(f)
  <2> DEFINE k == IF fundings[f].cost = NotMade THEN 0 ELSE fundings[f].cost
  <2>1. k \in Nat \cup {NotMade} /\ FundingFact(f, "SUCCEEDED", k)
      BY <1>2, <1>5 DEF LateCapture
  <2> HIDE DEF k
  <2> QED
      BY <1>3, <2>1
<1>6. CASE BankReturn(f)
    BY <1>2, <1>3, <1>6 DEF BankReturn
<1>7. ASSUME NEW c \in {0, 1}, FeeAdjustment(f, c) PROVE CardInv'
  <2> DEFINE r == fundings[f]
             g == [fundings EXCEPT ![f].cost = c]
  <2>1. fundings' = [fundings EXCEPT ![f] = [r EXCEPT !.cost = c]] /\ UNCHANGED <<transfers, journal, answered>>
      BY <1>7 DEF FeeAdjustment
  <2>2. r \in FundingRows
      BY <1>1
  <2>3. [r EXCEPT !.cost = c] = [r EXCEPT !.status = r.status, !.cost = c]
    <3> HIDE DEF r
    <3> QED
        BY <2>2 DEF FundingRows
  <2>4. OneFunding(f, fundings[f].status, c)
      BY <2>1, <2>3 DEF OneFunding
  <2>5. c \in Nat \cup {NotMade}
      OBVIOUS
  <2> QED
      BY <1>2, <2>1, <2>4, <2>5, FundingFactKeeps
<1> QED
    BY <1>4, <1>5, <1>6, <1>7

LEMMA CardNextKeeps == CardInv /\ [CardNext]_cardVars => CardInv'
<1> SUFFICES ASSUME CardInv, [CardNext]_cardVars PROVE CardInv'
    OBVIOUS
<1>1. CASE UNCHANGED <<journal, fundings, transfers, answered>>
    BY <1>1 DEF CardInv, CardTypes
<1>2. ASSUME NEW a \in Asked,
             CreateFundingIntent(a[1], a[2]) \/ CancelFunding(a[1], a[2]) \/ ReleaseToCreator(a[1], a[2]) \/ RefundCharge(a[1], a[2]) \/ ReverseTransfer(a[1], a[2])
      PROVE  CardInv'
  <2>1. a[1] \in Operations /\ a[2] \in Requests
      BY CardAssumption
  <2> QED
      BY <1>2, <2>1, FundingCreateKeeps, CancelKeeps, ReleaseToDraws, RefundChargeDraws, ReverseDraws, QuietKeeps, DrawingKeeps
<1>3. ASSUME NEW f \in Made,
             \/ \E s \in {"PROCESSING", "SUCCEEDED", "FAILED"}, c \in {0, 1} : FundingOutcome(f, s, c)
             \/ LateCapture(f) \/ BankReturn(f) \/ \E c \in {0, 1} : FeeAdjustment(f, c)
      PROVE  CardInv'
  <2>1. f \in Operations /\ fundings[f] # NotMade
      BY DEF Made
  <2> QED
      BY <1>3, <2>1, FactsKeep
<1>4. ASSUME NEW f \in Made, NEW x, Chargeback(f, x) PROVE CardInv'
    BY <1>1, <1>4 DEF Chargeback
<1>5. ASSUME NEW d, NEW s, ChargebackOutcome(d, s) PROVE CardInv'
    BY <1>1, <1>5 DEF ChargebackOutcome
<1>6. ASSUME NEW b, SetPayeeBalance(b) PROVE CardInv'
    BY <1>1, <1>6 DEF SetPayeeBalance
<1>7. CASE UNCHANGED cardVars
    BY <1>1, <1>7 DEF cardVars
<1>8. CASE CardNext
    BY <1>2, <1>3, <1>4, <1>5, <1>6, <1>8, SettleFits DEF CardNext
<1> QED
    BY <1>7, <1>8

\* What is out is what was drawn: releases and refunds, settled or on their way, less what the platform paid.
LEMMA OutIsDrawn ==
    ASSUME CardInv, NEW f
    PROVE  LET Sum(k, s) == SumOf({o \in OfKind(k, f) : transfers[o].status = s})
               Platform == SumOf({o \in OfKind("refund", f) : transfers[o].source = "PLATFORM_BALANCE" /\ transfers[o].status # "FAILED"})
           IN  /\ Sum("release", "SUCCEEDED") + Sum("release", "PENDING") + Sum("refund", "SUCCEEDED") + Sum("refund", "PENDING") - Platform
                    = Moved("drawn", transfers, f)
               /\ Sum("release", "SUCCEEDED") = Moved("released", transfers, f) /\ Platform = Moved("platform", transfers, f)
<1> DEFINE A == AmountsOf(transfers)
           In(k, s) == {o \in OfKind(k, f) : transfers[o].status = s}
           Platform == {o \in OfKind("refund", f) : transfers[o].source = "PLATFORM_BALANCE" /\ transfers[o].status # "FAILED"}
           Principal == {o \in OfKind("refund", f) : transfers[o].source = "PRINCIPAL" /\ transfers[o].status # "FAILED"}
           R1 == In("release", "SUCCEEDED")
           R2 == In("release", "PENDING")
           F1 == In("refund", "SUCCEEDED")
           F2 == In("refund", "PENDING")
<1>1. transfers \in [Operations -> TransferRows \cup {NotMade}] /\ MoneyFits(fundings, transfers)
    BY DEF CardInv, CardTypes
<1>2. \A o \in Operations : A[o] \in Nat
  <2> TAKE o \in Operations
  <2>1. transfers[o] = NotMade \/ transfers[o] \in TransferRows
      BY <1>1
  <2>2. A[o] = IF transfers[o] = NotMade THEN 0 ELSE transfers[o].amount
      BY DEF AmountsOf
  <2> QED
      BY <2>1, <2>2 DEF TransferRows
<1>3. \A o \in Operations : transfers[o] # NotMade =>
           /\ transfers[o].kind \in {"release", "refund", "reversal"} /\ transfers[o].source \in {"PRINCIPAL", "PLATFORM_BALANCE"}
           /\ transfers[o].status \in {"PENDING", "SUCCEEDED", "FAILED"} /\ (transfers[o].kind # "refund" => transfers[o].source = "PRINCIPAL")
  <2> TAKE o \in Operations
  <2>1. transfers[o] # NotMade => transfers[o] \in TransferRows /\ TransferFits(transfers[o], fundings)
      BY <1>1 DEF MoneyFits
  <2> QED
      BY <2>1 DEF TransferRows, TransferFits
<1>4. /\ Doing("drawn", transfers, f) = (R1 \cup R2) \cup Principal /\ (R1 \cup R2) \cap Principal = {} /\ R1 \cap R2 = {}
      /\ R1 = Doing("released", transfers, f) /\ Platform = Doing("platform", transfers, f)
    BY <1>3 DEF Doing, Does, OfKind, TransfersOf
<1>5. F1 \cup F2 = Platform \cup Principal /\ F1 \cap F2 = {} /\ Platform \cap Principal = {}
    BY <1>3 DEF OfKind, TransfersOf
<1>6. \A S : SumOf(S) = Total(A, S)
    BY DEF SumOf, AmountsOf
<1>7. R1 \subseteq Operations /\ R2 \subseteq Operations /\ F1 \subseteq Operations /\ F2 \subseteq Operations /\ Platform \subseteq Operations /\ Principal \subseteq Operations
    BY DEF OfKind, TransfersOf
<1>8. \A b : Moved(b, transfers, f) = Total(A, Doing(b, transfers, f))
    BY DEF Moved
<1> HIDE DEF A
<1>9. \A S \in SUBSET Operations : Amounts(A, S) /\ Total(A, S) \in Nat
    BY <1>2, CardRows, FS_Subset, TotalNat DEF Amounts
<1> HIDE DEF R1, R2, F1, F2, Platform, Principal
<1>10. Total(A, R1 \cup R2) = Total(A, R1) + Total(A, R2)
    BY <1>4, <1>7, <1>9, TotalUnion
<1>11. Total(A, (R1 \cup R2) \cup Principal) = Total(A, R1 \cup R2) + Total(A, Principal)
  <2>1. R1 \cup R2 \in SUBSET Operations
      BY <1>7
  <2> QED
      BY <1>4, <1>7, <1>9, <2>1, TotalUnion
<1>12. Total(A, F1 \cup F2) = Total(A, F1) + Total(A, F2)
    BY <1>5, <1>7, <1>9, TotalUnion
<1>13. Total(A, Platform \cup Principal) = Total(A, Platform) + Total(A, Principal)
    BY <1>5, <1>7, <1>9, TotalUnion
<1>14. /\ Total(A, R1) + Total(A, R2) + Total(A, F1) + Total(A, F2) - Total(A, Platform) = Total(A, Doing("drawn", transfers, f))
       /\ Total(A, R1) = Moved("released", transfers, f) /\ Total(A, Platform) = Moved("platform", transfers, f)
  <2>1. Total(A, R1) \in Nat /\ Total(A, R2) \in Nat /\ Total(A, F1) \in Nat /\ Total(A, F2) \in Nat /\ Total(A, Platform) \in Nat /\ Total(A, Principal) \in Nat
      BY <1>7, <1>9
  <2>2. Total(A, F1) + Total(A, F2) = Total(A, Platform) + Total(A, Principal)
      BY <1>5, <1>12, <1>13
  <2>3. Total(A, Doing("drawn", transfers, f)) = Total(A, R1) + Total(A, R2) + Total(A, Principal)
      BY <1>4, <1>10, <1>11
  <2>4. Total(A, R1) = Moved("released", transfers, f) /\ Total(A, Platform) = Moved("platform", transfers, f)
      BY <1>4, <1>8
  <2> QED
      BY <2>1, <2>2, <2>3, <2>4
<1>15. /\ SumOf(R1) + SumOf(R2) + SumOf(F1) + SumOf(F2) - SumOf(Platform) = Moved("drawn", transfers, f)
       /\ SumOf(R1) = Moved("released", transfers, f) /\ SumOf(Platform) = Moved("platform", transfers, f)
    BY <1>6, <1>8, <1>14
<1> QED
    BY <1>15 DEF R1, R2, F1, F2, Platform

LEMMA CardInvConserves == CardInv => ChargeConserved
<1> SUFFICES ASSUME CardInv PROVE ChargeConserved
    OBVIOUS
<1>1. /\ MoneyFits(fundings, transfers) /\ JournalFits(journal, fundings, transfers, answered)
      /\ transfers \in [Operations -> TransferRows \cup {NotMade}] /\ fundings \in [Operations -> FundingRows \cup {NotMade}]
    BY DEF CardInv, CardTypes
<1>2. ASSUME NEW f \in Made
      PROVE  LET Reversed == SumOf(OfKind("reversal", f))
                 FromPlatform == SumOf({o \in OfKind("refund", f) : transfers[o].source = "PLATFORM_BALANCE" /\ transfers[o].status # "FAILED"})
                 snap == FundingSnapshot(f)
                 Out == snap.released + snap.releasePending + snap.refunded + snap.refundPending - FromPlatform
             IN  /\ Out <= fundings[f].amount + Reversed
                 /\ fundings[f].status = "SUCCEEDED" => snap.available = fundings[f].amount + Reversed - Out
                 /\ Reversed <= snap.released
                 /\ FromPlatform <= fundings[f].amount
  <2> DEFINE Reversed == SumOf(OfKind("reversal", f))
             FromPlatform == SumOf({o \in OfKind("refund", f) : transfers[o].source = "PLATFORM_BALANCE" /\ transfers[o].status # "FAILED"})
             snap == FundingSnapshot(f)
             Out == snap.released + snap.releasePending + snap.refunded + snap.refundPending - FromPlatform
  <2>1. f \in Operations /\ fundings[f] # NotMade /\ fundings[f] \in FundingRows
      BY <1>1 DEF Made
  <2>2. NotOverdrawn(transfers, f, fundings[f].amount) /\ fundings[f].amount \in Nat
      BY <1>1, <2>1 DEF MoneyFits, FundingRows
  <2>3. \A b : Moved(b, transfers, f) \in Nat
      BY <1>1, MovedNat
  <2>4. Reversed = Moved("reversed", transfers, f)
      BY SumsAreMoved
  <2>5. /\ snap.released = SumOf({o \in OfKind("release", f) : transfers[o].status = "SUCCEEDED"})
        /\ snap.releasePending = SumOf({o \in OfKind("release", f) : transfers[o].status = "PENDING"})
        /\ snap.refunded = SumOf({o \in OfKind("refund", f) : transfers[o].status = "SUCCEEDED"})
        /\ snap.refundPending = SumOf({o \in OfKind("refund", f) : transfers[o].status = "PENDING"})
        /\ snap.available = AvailablePrincipal(f)
      BY DEF FundingSnapshot
  <2>6. Out = Moved("drawn", transfers, f) /\ snap.released = Moved("released", transfers, f) /\ FromPlatform = Moved("platform", transfers, f)
      BY <2>5, OutIsDrawn
  <2>7. fundings[f].status = "SUCCEEDED" => snap.available = fundings[f].amount - Moved("drawn", transfers, f) + Moved("reversed", transfers, f)
      BY <2>5, SumsAreMoved
  <2> HIDE DEF Reversed, FromPlatform, snap, Out
  <2>8. /\ Out <= fundings[f].amount + Reversed
        /\ fundings[f].status = "SUCCEEDED" => snap.available = fundings[f].amount + Reversed - Out
        /\ Reversed <= snap.released /\ FromPlatform <= fundings[f].amount
      BY <2>2, <2>3, <2>4, <2>6, <2>7 DEF NotOverdrawn
  <2> QED
      BY <2>8 DEF Reversed, FromPlatform, snap, Out
<1>3. ASSUME NEW o \in Operations
      PROVE  /\ LookupOperation(o) = "APPLIED" /\ journal[o].request.kind # "funding.cancel" <=> fundings[o] # NotMade \/ transfers[o] # NotMade
             /\ o \in answered => LookupOperation(o) = "APPLIED"
  <2>1. LookupOperation(o) = "APPLIED" <=> IsApplied(journal[o])
      BY CardRows DEF LookupOperation, IsApplied
  <2> QED
      BY <1>1, <2>1 DEF JournalFits
<1> QED
    BY <1>2, <1>3 DEF ChargeConserved

\* The provider behind the card and bank rail (payments/providers.ts): for any number of operation ids and requests, however
\* calls are lost, repeated, refused and settled, no more is taken out of a charge's principal than it holds, no more is taken
\* back from a creator than it got, what is reported as available is what is left, and the journal never claims an object that was not made.
THEOREM ChargesConserved == CardSpec => []ChargeConserved
<1>1. CardSpec => []CardInv
    BY CardInitHolds, CardNextKeeps, PTL DEF CardSpec
<1> QED
    BY <1>1, CardInvConserves, PTL

-----------------------------------------------------------------------------
(* Refinement: the ledger of the provider keeps the contract of Charges *)

\* A charge as a record, from its parts.
ChargeRow(status, method, amount, pending, paid, back) ==
    [status |-> status, method |-> method, amount |-> amount, pending |-> pending, paid |-> paid, back |-> back]
NoChargeRow == ChargeRow("NONE", "NONE", 0, 0, 0, 0)
\* Funding f of the ledger as a charge.
CardCharge(fs, ts, f) ==
    IF fs[f] = NotMade THEN NoChargeRow
    ELSE ChargeRow(fs[f].status, fs[f].method, fs[f].amount, Moved("pending", ts, f), Moved("paid", ts, f), Moved("reversed", ts, f))
Charges(fs, ts) == [f \in Operations |-> CardCharge(fs, ts, f)]

LEMMA ChargesAre ==
    /\ [f \in Operations |-> ChargeOf(f)] = Charges(fundings, transfers)
    /\ [f \in Operations |-> ChargeOf(f)]' = Charges(fundings', transfers')
<1>1. ASSUME NEW f PROVE ChargeOf(f) = CardCharge(fundings, transfers, f)
  <2>1. \A S : SumOf(S) = Total(AmountsOf(transfers), S)
      BY DEF SumOf, AmountsOf
  <2>2. /\ {o \in TransfersOf(f) : transfers[o].status = "PENDING" /\ transfers[o].kind # "reversal" /\ transfers[o].source = "PRINCIPAL"}
             = Doing("pending", transfers, f)
        /\ {o \in TransfersOf(f) : transfers[o].status = "SUCCEEDED" /\ transfers[o].kind # "reversal" /\ transfers[o].source = "PRINCIPAL"}
             = Doing("paid", transfers, f)
        /\ OfKind("reversal", f) = Doing("reversed", transfers, f)
      BY DEF OfKind, TransfersOf, Doing, Does
  <2> QED
      BY <2>1, <2>2 DEF ChargeOf, CardCharge, ChargeRow, NoChargeRow, Moved
<1>2. ASSUME NEW f PROVE ChargeOf(f)' = CardCharge(fundings', transfers', f)
    BY DEF ChargeOf, CardCharge, ChargeRow, NoChargeRow, Moved, SumOf, AmountsOf, OfKind, TransfersOf, Doing, Does
<1> QED
    BY <1>1, <1>2 DEF Charges

\* Steps of a charge, from its parts.
LEMMA ChargeBegins ==
    ASSUME NEW m \in {"CARD", "BANK_TRANSFER"}, NEW a \in Nat \ {0}
    PROVE  Contract!Step(NoChargeRow, ChargeRow("REQUIRES_ACTION", m, a, 0, 0, 0))
<1> DEFINE c == NoChargeRow
           d1 == ChargeRow("REQUIRES_ACTION", m, a, 0, 0, 0)
           e1 == [c EXCEPT !.status = "REQUIRES_ACTION"]
           e2 == [e1 EXCEPT !.method = m]
           e3 == [e2 EXCEPT !.amount = a]
<1>1. c.status = "NONE" /\ d1.method = m /\ d1.amount = a
    BY DEF NoChargeRow, ChargeRow
<1>2. e1 = ChargeRow("REQUIRES_ACTION", "NONE", 0, 0, 0, 0)
    BY DEF NoChargeRow, ChargeRow
<1>3. e2 = ChargeRow("REQUIRES_ACTION", m, 0, 0, 0, 0)
  <2> HIDE DEF e1
  <2> QED
      BY <1>2 DEF ChargeRow
<1>4. e3 = d1
  <2> HIDE DEF e2
  <2> QED
      BY <1>3 DEF ChargeRow
<1>5. [c EXCEPT !.status = "REQUIRES_ACTION", !.method = m, !.amount = a] = d1
    BY <1>4
<1> HIDE DEF c, d1
<1>6. Contract!Created(c, d1)
  <2>1. d1.amount > 0
      BY <1>1
  <2> QED
      BY <1>1, <1>5, <2>1, Zenon DEF Contract!Created
<1> QED
    BY <1>6 DEF Contract!Step, c, d1

\* How a charge's status may move, by its method.
StatusMoves(s, t, m) ==
    \/ s \in {"REQUIRES_ACTION", "PROCESSING"} /\ t \in {"SUCCEEDED", "FAILED"}
    \/ s = "REQUIRES_ACTION" /\ t \in {"PROCESSING", "CANCELED"}
    \/ s = "PROCESSING" /\ t = "CANCELED" /\ m = "CARD"
    \/ s = "CANCELED" /\ t = "SUCCEEDED"
    \/ s = "SUCCEEDED" /\ t = "RETURNED" /\ m = "BANK_TRANSFER"

LEMMA ChargeMoves ==
    ASSUME NEW s, NEW t, NEW m, NEW a, NEW p, NEW d, NEW b, StatusMoves(s, t, m)
    PROVE  Contract!Step(ChargeRow(s, m, a, p, d, b), ChargeRow(t, m, a, p, d, b))
<1>1. Contract!Moved(ChargeRow(s, m, a, p, d, b), ChargeRow(t, m, a, p, d, b))
    BY DEF Contract!Moved, ChargeRow, StatusMoves
<1> QED
    BY <1>1 DEF Contract!Step

LEMMA ChargePays ==
    ASSUME NEW m, NEW a \in Nat, NEW p \in Nat, NEW d \in Nat, NEW b \in Nat, NEW x \in Nat \ {0}, x <= a - p - d + b
    PROVE  /\ Contract!Step(ChargeRow("SUCCEEDED", m, a, p, d, b), ChargeRow("SUCCEEDED", m, a, p + x, d, b))
           /\ Contract!Step(ChargeRow("SUCCEEDED", m, a, p, d, b), ChargeRow("SUCCEEDED", m, a, p, d + x, b))
<1> DEFINE c == ChargeRow("SUCCEEDED", m, a, p, d, b)
<1>1. Contract!Left(c) = a - p - d + b
    BY DEF Contract!Left, ChargeRow
<1>2. [c EXCEPT !.pending = @ + x] = ChargeRow("SUCCEEDED", m, a, p + x, d, b) /\ [c EXCEPT !.paid = @ + x] = ChargeRow("SUCCEEDED", m, a, p, d + x, b)
    BY DEF ChargeRow
<1>3. x \in 1..Contract!Left(c)
    BY <1>1
<1> HIDE DEF c
<1>4. Contract!PaidOut(c, [c EXCEPT !.pending = @ + x]) /\ Contract!PaidOut(c, [c EXCEPT !.paid = @ + x])
    BY <1>3 DEF Contract!PaidOut
<1>5. Contract!Step(c, ChargeRow("SUCCEEDED", m, a, p + x, d, b)) /\ Contract!Step(c, ChargeRow("SUCCEEDED", m, a, p, d + x, b))
    BY <1>2, <1>4 DEF Contract!Step
<1> QED
    BY <1>5 DEF c

LEMMA ChargeSettles ==
    ASSUME NEW s, NEW m, NEW a, NEW p \in Nat, NEW d \in Nat, NEW b \in Nat, NEW x \in Nat \ {0}, x <= p
    PROVE  /\ Contract!Step(ChargeRow(s, m, a, p, d, b), ChargeRow(s, m, a, p - x, d, b))
           /\ Contract!Step(ChargeRow(s, m, a, p, d, b), ChargeRow(s, m, a, p - x, d + x, b))
<1> DEFINE c == ChargeRow(s, m, a, p, d, b)
<1>1. c.pending = p
    BY DEF ChargeRow
<1>2. [c EXCEPT !.pending = @ - x] = ChargeRow(s, m, a, p - x, d, b)
    BY DEF ChargeRow
<1>3. [c EXCEPT !.pending = @ - x, !.paid = @ + x] = ChargeRow(s, m, a, p - x, d + x, b)
  <2> DEFINE e == [c EXCEPT !.pending = @ - x]
  <2>1. e = ChargeRow(s, m, a, p - x, d, b)
      BY <1>2
  <2>2. [e EXCEPT !.paid = @ + x] = ChargeRow(s, m, a, p - x, d + x, b)
    <3> HIDE DEF e
    <3> QED
        BY <2>1 DEF ChargeRow
  <2> QED
      BY <2>2
<1>4. x \in 1..c.pending
    BY <1>1
<1> HIDE DEF c
<1>5. Contract!Settled(c, [c EXCEPT !.pending = @ - x]) /\ Contract!Settled(c, [c EXCEPT !.pending = @ - x, !.paid = @ + x])
    BY <1>4 DEF Contract!Settled
<1>6. Contract!Step(c, ChargeRow(s, m, a, p - x, d, b)) /\ Contract!Step(c, ChargeRow(s, m, a, p - x, d + x, b))
    BY <1>2, <1>3, <1>5 DEF Contract!Step
<1> QED
    BY <1>6 DEF c

LEMMA ChargeReverses ==
    ASSUME NEW s, NEW m, NEW a, NEW p, NEW d \in Nat, NEW b \in Nat, NEW x \in Nat \ {0}, x <= d - b
    PROVE  Contract!Step(ChargeRow(s, m, a, p, d, b), ChargeRow(s, m, a, p, d, b + x))
<1> DEFINE c == ChargeRow(s, m, a, p, d, b)
<1>1. c.paid - c.back = d - b
    BY DEF ChargeRow
<1>2. [c EXCEPT !.back = @ + x] = ChargeRow(s, m, a, p, d, b + x)
    BY DEF ChargeRow
<1>3. x \in 1..(c.paid - c.back)
    BY <1>1
<1> HIDE DEF c
<1>4. Contract!TakenBack(c, [c EXCEPT !.back = @ + x])
    BY <1>3 DEF Contract!TakenBack
<1>5. Contract!Step(c, ChargeRow(s, m, a, p, d, b + x))
    BY <1>2, <1>4 DEF Contract!Step
<1> QED
    BY <1>5 DEF c

\* What was drawn is on its way or paid, and what was released is part of what was paid.
LEMMA DrawnSplits ==
    ASSUME CardInv, NEW f
    PROVE  /\ Moved("drawn", transfers, f) = Moved("pending", transfers, f) + Moved("paid", transfers, f)
           /\ Moved("released", transfers, f) <= Moved("paid", transfers, f)
<1>1. transfers \in [Operations -> TransferRows \cup {NotMade}] /\ MoneyFits(fundings, transfers)
    BY DEF CardInv, CardTypes
<1>2. \A o \in Operations : transfers[o] # NotMade =>
           /\ transfers[o].amount \in Nat /\ transfers[o].kind \in {"release", "refund", "reversal"}
           /\ transfers[o].status \in {"PENDING", "SUCCEEDED", "FAILED"} /\ (transfers[o].kind # "refund" => transfers[o].source = "PRINCIPAL")
  <2> TAKE o \in Operations
  <2>1. transfers[o] # NotMade => transfers[o] \in TransferRows /\ TransferFits(transfers[o], fundings)
      BY <1>1 DEF MoneyFits
  <2> QED
      BY <2>1 DEF TransferRows, TransferFits
<1> DEFINE A == AmountsOf(transfers)
           D == Doing("drawn", transfers, f)
           P == Doing("pending", transfers, f)
           Q == Doing("paid", transfers, f)
<1>3. \A o \in Operations : A[o] \in Nat
    BY <1>2 DEF AmountsOf
<1>4. D = P \cup Q /\ P \cap Q = {} /\ P \subseteq Operations /\ Q \subseteq Operations
    BY <1>2 DEF Doing, Does
<1>5. Doing("released", transfers, f) \subseteq Q
    BY <1>2 DEF Doing, Does
<1>6. Moved("released", transfers, f) <= Moved("paid", transfers, f)
    BY <1>1, <1>5, PartOfTotal
<1>7. Moved("drawn", transfers, f) = Total(A, D) /\ Moved("pending", transfers, f) = Total(A, P) /\ Moved("paid", transfers, f) = Total(A, Q)
    BY DEF Moved
<1> HIDE DEF A, D, P, Q
<1>8. Amounts(A, P) /\ Amounts(A, Q)
    BY <1>3, <1>4, CardRows, FS_Subset DEF Amounts
<1>9. Total(A, P \cup Q) = Total(A, P) + Total(A, Q)
    BY <1>4, <1>8, TotalUnion
<1> QED
    BY <1>4, <1>6, <1>7, <1>9

\* Every charge stays as it is or takes a step of the contract.
ChargesStep == \A f \in Operations : LET c == CardCharge(fundings, transfers, f)
                                         d == CardCharge(fundings', transfers', f)
                                     IN  d = c \/ Contract!Step(c, d)

LEMMA QuietCharges == ASSUME UNCHANGED <<fundings, transfers>> PROVE ChargesStep
    BY DEF ChargesStep

\* A funding's status moves as the contract allows.
LEMMA FundingCharges ==
    ASSUME CardInv, NEW f \in Operations, fundings[f] # NotMade, NEW s \in {"PROCESSING", "SUCCEEDED", "FAILED", "CANCELED", "RETURNED"},
           NEW c \in Nat \cup {NotMade}, OneFunding(f, s, c), transfers' = transfers,
           s = fundings[f].status \/ StatusMoves(fundings[f].status, s, fundings[f].method)
    PROVE  ChargesStep
<1> DEFINE old == fundings[f]
           r == [old EXCEPT !.status = s, !.cost = c]
<1>1. /\ fundings \in [Operations -> FundingRows \cup {NotMade}] /\ transfers \in [Operations -> TransferRows \cup {NotMade}]
      /\ old \in FundingRows
    BY DEF CardInv, CardTypes
<1>2. fundings' = [fundings EXCEPT ![f] = r]
    BY DEF OneFunding
<1>3. r \in FundingRows /\ r.amount = old.amount /\ r.method = old.method /\ r.status = s
  <2>1. old \in FundingRows
      BY <1>1
  <2> HIDE DEF old
  <2> QED
      BY <2>1 DEF FundingRows
<1> HIDE DEF r
<1>4. fundings'[f] = r /\ r # NotMade /\ \A x \in Operations : x # f => fundings'[x] = fundings[x]
    BY <1>1, <1>2, <1>3, CardRows
<1> SUFFICES ASSUME NEW x \in Operations
             PROVE  LET a == CardCharge(fundings, transfers, x)
                        b == CardCharge(fundings', transfers', x)
                    IN  b = a \/ Contract!Step(a, b)
    BY DEF ChargesStep
<1>5. CASE x # f
    BY <1>4, <1>5 DEF CardCharge
<1>6. CASE x = f
  <2> DEFINE p == Moved("pending", transfers, f)
             d == Moved("paid", transfers, f)
             b == Moved("reversed", transfers, f)
             m == old.method
             n == old.amount
             st == old.status
  <2>1. CardCharge(fundings, transfers, x) = ChargeRow(st, m, n, p, d, b)
      BY <1>6 DEF CardCharge
  <2>2. CardCharge(fundings', transfers', x) = ChargeRow(s, m, n, p, d, b)
      BY <1>3, <1>4, <1>6 DEF CardCharge
  <2>3. s = st \/ StatusMoves(st, s, m)
      OBVIOUS
  <2> HIDE DEF p, d, b, m, n, st
  <2>4. s = st \/ Contract!Step(ChargeRow(st, m, n, p, d, b), ChargeRow(s, m, n, p, d, b))
      BY <2>3, ChargeMoves
  <2> QED
      BY <2>1, <2>2, <2>4, Zenon
<1> QED
    BY <1>5, <1>6

\* A transfer made or settled changes only the charge it is drawn from, by its amount.
LEMMA TransferCharges ==
    ASSUME CardInv, NEW o \in Operations, NEW t \in TransferRows, transfers' = [transfers EXCEPT ![o] = t], fundings' = fundings,
           transfers[o] = NotMade \/ (transfers[o] \in TransferRows /\ transfers[o].funding = t.funding)
    PROVE  /\ \A b, f : Moved(b, transfers', f) = Moved(b, transfers, f) + Counted(b, t, f) - Counted(b, transfers[o], f)
           /\ \A b, f : Moved(b, transfers, f) \in Nat /\ Counted(b, t, f) \in Nat /\ Counted(b, transfers[o], f) \in Nat
           /\ \A f : f # t.funding => CardCharge(fundings', transfers', f) = CardCharge(fundings, transfers, f)
<1>1. transfers \in [Operations -> TransferRows \cup {NotMade}]
    BY DEF CardInv, CardTypes
<1>2. ASSUME NEW b, NEW f
      PROVE  Moved(b, transfers', f) = Moved(b, transfers, f) + Counted(b, t, f) - Counted(b, transfers[o], f)
  <2> DEFINE ts == transfers
             us == transfers'
  <2>1. ts \in [Operations -> TransferRows \cup {NotMade}] /\ OneTransfer(ts, us, o, t)
      BY <1>1 DEF OneTransfer
  <2> HIDE DEF ts, us
  <2>2. Moved(b, us, f) = Moved(b, ts, f) + Counted(b, t, f) - Counted(b, ts[o], f)
      BY <2>1, MovedMoves
  <2> QED
      BY <2>2 DEF ts, us
<1>3. ASSUME NEW b, NEW f
      PROVE  Moved(b, transfers, f) \in Nat /\ Counted(b, t, f) \in Nat /\ Counted(b, transfers[o], f) \in Nat
  <2>1. Moved(b, transfers, f) \in Nat
      BY <1>1, MovedNat
  <2>2. transfers[o] = NotMade \/ transfers[o] \in TransferRows
      BY <1>1
  <2> QED
      BY <2>1, <2>2 DEF Counted, TransferRows
<1>4. ASSUME NEW f, f # t.funding PROVE CardCharge(fundings', transfers', f) = CardCharge(fundings, transfers, f)
  <2>1. \A b : Counted(b, t, f) = 0 /\ Counted(b, transfers[o], f) = 0
      BY <1>4 DEF Counted
  <2>2. \A b : Moved(b, transfers', f) = Moved(b, transfers, f)
    <3> TAKE b
    <3>1. /\ Moved(b, transfers', f) = Moved(b, transfers, f) + Counted(b, t, f) - Counted(b, transfers[o], f)
          /\ Moved(b, transfers, f) \in Nat /\ Counted(b, t, f) = 0 /\ Counted(b, transfers[o], f) = 0
        BY <1>2, <1>3, <2>1
    <3> QED
        BY <3>1
  <2> QED
      BY <2>2 DEF CardCharge
<1> QED
    BY <1>2, <1>3, <1>4

\* A transfer made under a fresh id, within what is left, within the platform's share or within what was paid.
LEMMA MadeCharges ==
    ASSUME CardInv, NEW o \in Operations, transfers[o] = NotMade, NEW t \in TransferRows, transfers' = [transfers EXCEPT ![o] = t],
           fundings' = fundings, fundings[t.funding] # NotMade, t.amount > 0, t.status \in {"PENDING", "SUCCEEDED"},
           t.kind # "reversal" => fundings[t.funding].status = "SUCCEEDED",
           Room(t, transfers, fundings[t.funding].amount)
    PROVE  ChargesStep
<1> DEFINE f == t.funding
           x == t.amount
           n == fundings[f].amount
           p == Moved("pending", transfers, f)
           d == Moved("paid", transfers, f)
           b == Moved("reversed", transfers, f)
           m == fundings[f].method
           s == fundings[f].status
           Before == CardCharge(fundings, transfers, f)
           After == CardCharge(fundings', transfers', f)
<1>1. f \in Operations /\ x \in Nat /\ fundings[f] \in FundingRows /\ t # NotMade
    BY CardRows DEF TransferRows, CardInv, CardTypes
<1>2. n \in Nat
    BY <1>1 DEF FundingRows
<1>3. \A c : Counted(c, transfers[o], f) = 0
    BY DEF Counted
<1>4. \A c : Moved(c, transfers', f) = Moved(c, transfers, f) + Counted(c, t, f) /\ Moved(c, transfers, f) \in Nat /\ Counted(c, t, f) \in Nat
  <2> TAKE c
  <2>1. /\ Moved(c, transfers', f) = Moved(c, transfers, f) + Counted(c, t, f) - Counted(c, transfers[o], f)
        /\ Moved(c, transfers, f) \in Nat /\ Counted(c, t, f) \in Nat
      BY TransferCharges
  <2> QED
      BY <1>3, <2>1
<1>5. \A g : g # f => CardCharge(fundings', transfers', g) = CardCharge(fundings, transfers, g)
    BY TransferCharges
<1>6. Before = ChargeRow(s, m, n, p, d, b)
    BY DEF CardCharge
<1>7. After = ChargeRow(s, m, n, p + Counted("pending", t, f), d + Counted("paid", t, f), b + Counted("reversed", t, f))
    BY <1>4 DEF CardCharge
<1>8. Moved("drawn", transfers, f) = p + d /\ Moved("released", transfers, f) <= d /\ Moved("released", transfers, f) \in Nat
    BY <1>4, DrawnSplits
<1>9. p \in Nat /\ d \in Nat /\ b \in Nat
    BY <1>4
<1>10. After = Before \/ Contract!Step(Before, After)
  <2>1. CASE t.kind # "reversal" /\ t.source = "PRINCIPAL"
    <3>1. s = "SUCCEEDED" /\ x <= n - (p + d) + b
        BY <1>8, <2>1 DEF Room
    <3>2. /\ Counted("reversed", t, f) = 0
          /\ Counted("pending", t, f) = IF t.status = "PENDING" THEN x ELSE 0
          /\ Counted("paid", t, f) = IF t.status = "SUCCEEDED" THEN x ELSE 0
        BY <1>1, <2>1 DEF Counted, Does
    <3>3. x \in Nat \ {0} /\ x <= n - p - d + b
        BY <1>1, <1>2, <1>9, <3>1
    <3> HIDE DEF n, p, d, b, m, s, x
    <3>4. CASE t.status = "PENDING"
      <4>1. After = ChargeRow("SUCCEEDED", m, n, p + x, d, b) /\ Before = ChargeRow("SUCCEEDED", m, n, p, d, b)
        <5>1. d + 0 = d /\ b + 0 = b
            BY <1>9
        <5> QED
            BY <1>6, <1>7, <3>1, <3>2, <3>4, <5>1
      <4>2. Contract!Step(ChargeRow("SUCCEEDED", m, n, p, d, b), ChargeRow("SUCCEEDED", m, n, p + x, d, b))
          BY <1>2, <1>9, <3>3, ChargePays
      <4> QED
          BY <4>1, <4>2, Zenon
    <3>5. CASE t.status = "SUCCEEDED"
      <4>1. After = ChargeRow("SUCCEEDED", m, n, p, d + x, b) /\ Before = ChargeRow("SUCCEEDED", m, n, p, d, b)
        <5>1. p + 0 = p /\ b + 0 = b
            BY <1>9
        <5> QED
            BY <1>6, <1>7, <3>1, <3>2, <3>5, <5>1
      <4>2. Contract!Step(ChargeRow("SUCCEEDED", m, n, p, d, b), ChargeRow("SUCCEEDED", m, n, p, d + x, b))
          BY <1>2, <1>9, <3>3, ChargePays
      <4> QED
          BY <4>1, <4>2, Zenon
    <3> QED
        BY <3>4, <3>5
  <2>2. CASE t.kind = "refund" /\ t.source = "PLATFORM_BALANCE"
    <3>1. Counted("pending", t, f) = 0 /\ Counted("paid", t, f) = 0 /\ Counted("reversed", t, f) = 0
        BY <2>2 DEF Counted, Does
    <3>2. p + 0 = p /\ d + 0 = d /\ b + 0 = b
        BY <1>9
    <3> QED
        BY <1>6, <1>7, <3>1, <3>2
  <2>3. CASE t.kind = "reversal" /\ t.source = "PRINCIPAL"
    <3>1. Counted("pending", t, f) = 0 /\ Counted("paid", t, f) = 0 /\ Counted("reversed", t, f) = x
        BY <1>1, <2>3 DEF Counted, Does
    <3>2. x <= Moved("released", transfers, f) - b
        BY <2>3 DEF Room
    <3>3. p + 0 = p /\ d + 0 = d /\ x <= d - b /\ x \in Nat \ {0}
        BY <1>1, <1>8, <1>9, <3>2
    <3> HIDE DEF n, p, d, b, m, s, x
    <3>4. After = ChargeRow(s, m, n, p, d, b + x)
        BY <1>7, <3>1, <3>3
    <3>5. Contract!Step(ChargeRow(s, m, n, p, d, b), ChargeRow(s, m, n, p, d, b + x))
        BY <1>9, <3>3, ChargeReverses
    <3> QED
        BY <1>6, <3>4, <3>5, Zenon
  <2> QED
      BY <2>1, <2>2, <2>3 DEF Room
<1> QED
    BY <1>5, <1>10 DEF ChargesStep

LEMMA SettleCharges ==
    ASSUME CardInv, NEW o \in Operations, NEW st \in {"SUCCEEDED", "FAILED"}, SettleTransfer(o, st)
    PROVE  ChargesStep
<1> DEFINE old == transfers[o]
           t == [old EXCEPT !.status = st]
           f == old.funding
           x == old.amount
           p == Moved("pending", transfers, f)
           d == Moved("paid", transfers, f)
           b == Moved("reversed", transfers, f)
           n == fundings[f].amount
           m == fundings[f].method
           s == fundings[f].status
           Before == CardCharge(fundings, transfers, f)
           After == CardCharge(fundings', transfers', f)
<1>1. /\ old # NotMade /\ old.status = "PENDING" /\ transfers' = [transfers EXCEPT ![o] = t] /\ fundings' = fundings
      /\ transfers \in [Operations -> TransferRows \cup {NotMade}] /\ old \in TransferRows /\ TransferFits(old, fundings)
    BY DEF SettleTransfer, CardInv, CardTypes, MoneyFits
<1>2. /\ t \in TransferRows /\ t.status = st /\ t.kind = old.kind /\ t.source = old.source /\ t.funding = f
      /\ t.amount = x /\ x \in Nat
  <2>1. old \in TransferRows
      BY <1>1
  <2> HIDE DEF old
  <2> QED
      BY <2>1 DEF TransferRows
<1> HIDE DEF t
<1>3. t # NotMade
    BY <1>2, CardRows
<1>4. /\ \A c, g : Moved(c, transfers', g) = Moved(c, transfers, g) + Counted(c, t, g) - Counted(c, old, g)
      /\ \A c, g : Moved(c, transfers, g) \in Nat /\ Counted(c, t, g) \in Nat /\ Counted(c, old, g) \in Nat
      /\ \A g : g # f => CardCharge(fundings', transfers', g) = CardCharge(fundings, transfers, g)
    BY <1>1, <1>2, TransferCharges
<1>5. fundings[f] # NotMade
    BY <1>1 DEF TransferFits
<1>6. Before = ChargeRow(s, m, n, p, d, b)
    BY <1>5 DEF CardCharge
<1>7. After = ChargeRow(s, m, n, p + Counted("pending", t, f) - Counted("pending", old, f), d + Counted("paid", t, f) - Counted("paid", old, f),
                        b + Counted("reversed", t, f) - Counted("reversed", old, f))
    BY <1>1, <1>4, <1>5 DEF CardCharge
<1>8. p \in Nat /\ d \in Nat /\ b \in Nat
    BY <1>4
<1>9. After = Before \/ Contract!Step(Before, After)
  <2> DEFINE Drawn == old.kind # "reversal" /\ old.source = "PRINCIPAL"
  <2>1. /\ Counted("reversed", t, f) = Counted("reversed", old, f) /\ Counted("reversed", old, f) \in Nat
        /\ Counted("pending", old, f) = IF Drawn THEN x ELSE 0
        /\ Counted("pending", t, f) = 0 /\ Counted("paid", old, f) = 0
        /\ Counted("paid", t, f) = IF Drawn /\ st = "SUCCEEDED" THEN x ELSE 0
    <3> HIDE DEF old
    <3>1. f = old.funding /\ x = old.amount
        OBVIOUS
    <3> HIDE DEF f, x
    <3> QED
        BY <1>1, <1>2, <1>3, <3>1 DEF Counted, Does
  <2>2. b + Counted("reversed", t, f) - Counted("reversed", old, f) = b
      BY <1>8, <2>1
  <2>3. CASE ~Drawn \/ x = 0
    <3>1. p + Counted("pending", t, f) - Counted("pending", old, f) = p /\ d + Counted("paid", t, f) - Counted("paid", old, f) = d
        BY <1>8, <2>1, <2>3
    <3> QED
        BY <1>6, <1>7, <2>2, <3>1
  <2>4. CASE Drawn /\ x # 0
    <3>1. o \in Doing("pending", transfers, f) /\ x <= p
      <4> DEFINE us == [transfers EXCEPT ![o] = t]
      <4>1. Moved("pending", transfers', f) = p + 0 - x /\ Moved("pending", transfers', f) \in Nat
        <5>1. transfers' \in [Operations -> TransferRows \cup {NotMade}]
            BY <1>1, <1>2
        <5>2. Moved("pending", transfers', f) \in Nat
            BY <5>1, MovedNat
        <5> QED
            BY <1>4, <2>1, <2>4, <5>2
      <4> QED
          BY <1>1, <1>2, <1>8, <2>4, <4>1 DEF Doing, Does
    <3>2. /\ p + Counted("pending", t, f) - Counted("pending", old, f) = p - x
          /\ d + Counted("paid", t, f) - Counted("paid", old, f) = IF st = "SUCCEEDED" THEN d + x ELSE d
        BY <1>2, <1>8, <2>1, <2>4
    <3>3. x \in Nat \ {0}
        BY <1>2, <2>4
    <3>4. After = ChargeRow(s, m, n, p - x, IF st = "SUCCEEDED" THEN d + x ELSE d, b)
        BY <1>7, <2>2, <3>2
    <3> HIDE DEF n, p, d, b, m, s, x, f
    <3>5. /\ Contract!Step(ChargeRow(s, m, n, p, d, b), ChargeRow(s, m, n, p - x, d, b))
          /\ Contract!Step(ChargeRow(s, m, n, p, d, b), ChargeRow(s, m, n, p - x, d + x, b))
        BY <1>8, <3>1, <3>3, ChargeSettles
    <3> QED
        BY <1>6, <3>4, <3>5, Zenon
  <2> QED
      BY <2>3, <2>4
<1> QED
    BY <1>4, <1>9 DEF ChargesStep

\* A new charge has no transfers.
LEMMA NewCharges ==
    ASSUME CardInv, NEW o \in Operations, fundings[o] = NotMade, NEW r \in FundingRows, fundings' = [fundings EXCEPT ![o] = r], transfers' = transfers,
           r.status = "REQUIRES_ACTION", r.amount > 0
    PROVE  ChargesStep
<1>1. /\ MoneyFits(fundings, transfers) /\ transfers \in [Operations -> TransferRows \cup {NotMade}]
      /\ fundings \in [Operations -> FundingRows \cup {NotMade}]
    BY DEF CardInv, CardTypes
<1>2. /\ fundings'[o] = r /\ r # NotMade /\ r.amount \in Nat \ {0} /\ r.method \in {"CARD", "BANK_TRANSFER"}
      /\ \A x \in Operations : x # o => fundings'[x] = fundings[x]
  <2>1. r.amount \in Nat /\ r.method \in {"CARD", "BANK_TRANSFER"}
      BY DEF FundingRows
  <2> QED
      BY <1>1, <2>1, CardRows
<1>3. \A b : Moved(b, transfers', o) = 0
  <2> TAKE b
  <2>1. Doing(b, transfers', o) = {}
      BY <1>1 DEF Doing, MoneyFits, TransferFits
  <2> QED
      BY <2>1, TotalEmpty DEF Moved
<1>4. CardCharge(fundings, transfers, o) = NoChargeRow /\ CardCharge(fundings', transfers', o) = ChargeRow("REQUIRES_ACTION", r.method, r.amount, 0, 0, 0)
    BY <1>2, <1>3 DEF CardCharge
<1>5. Contract!Step(NoChargeRow, ChargeRow("REQUIRES_ACTION", r.method, r.amount, 0, 0, 0))
    BY <1>2, ChargeBegins
<1>6. \A x \in Operations : x # o => CardCharge(fundings', transfers', x) = CardCharge(fundings, transfers, x)
    BY <1>2 DEF CardCharge
<1> QED
    BY <1>4, <1>5, <1>6, Zenon DEF ChargesStep

LEMMA DrawingCharges ==
    ASSUME CardInv, NEW o \in Operations, NEW q \in Requests, Fresh(o, q), Drawing(o)
    PROVE  ChargesStep
<1>1. transfers[o] = NotMade
    BY FreshMakesNothingYet
<1> QED
    BY <1>1, MadeCharges DEF Drawing

LEMMA FundingCreateCharges == ASSUME CardInv, NEW o \in Operations, NEW q \in Requests, CreateFundingIntent(o, q) PROVE ChargesStep
<1> DEFINE r == FundingRecord(q)
<1>1. \/ Quiet(o, q)
      \/ Fresh(o, q) /\ q.amount \in 1..MaxAtomic /\ fundings' = [fundings EXCEPT ![o] = r] /\ transfers' = transfers
    BY DEF CreateFundingIntent, RunIdempotent, Quiet, Fresh, Nothing, Succeeds, AtomicAmount
<1>2. CASE Quiet(o, q)
    BY <1>2, QuietCharges DEF Quiet
<1>3. CASE Fresh(o, q) /\ q.amount \in 1..MaxAtomic /\ fundings' = [fundings EXCEPT ![o] = r] /\ transfers' = transfers
  <2>1. q \in FundingInput /\ q.amount \in Nat /\ q.amount > 0
      BY <1>3, KindsOfRequest, CardRows DEF CreateFundingIntent
  <2>2. r \in FundingRows /\ r.status = "REQUIRES_ACTION" /\ r.amount = q.amount
      BY <2>1 DEF FundingRecord, FundingInput, FundingRows
  <2> HIDE DEF r
  <2>3. fundings[o] = NotMade
      BY <1>3, FreshMakesNothingYet
  <2> QED
      BY <1>3, <2>1, <2>2, <2>3, NewCharges
<1> QED
    BY <1>1, <1>2, <1>3

LEMMA CancelCharges == ASSUME CardInv, NEW o \in Operations, NEW q \in Requests, CancelFunding(o, q) PROVE ChargesStep
<1> DEFINE f == q.on
           Cancels == /\ fundings' = [fundings EXCEPT ![f].status = "CANCELED"]
                      /\ fundings[f].status = "REQUIRES_ACTION" \/ (fundings[f].status = "PROCESSING" /\ fundings[f].method = "CARD")
<1>1. \/ Quiet(o, q)
      \/ f \in Made /\ (fundings' = fundings \/ Cancels) /\ transfers' = transfers
    BY DEF CancelFunding, RunIdempotent, Quiet, Fresh, Nothing, Succeeds
<1>2. CASE Quiet(o, q)
    BY <1>2, QuietCharges DEF Quiet
<1>3. CASE f \in Made /\ Cancels /\ transfers' = transfers
  <2>1. f \in Operations /\ fundings[f] # NotMade /\ fundings[f] \in FundingRows
      BY <1>3 DEF Made, CardInv, CardTypes
  <2>2. [fundings[f] EXCEPT !.status = "CANCELED"] = [fundings[f] EXCEPT !.status = "CANCELED", !.cost = fundings[f].cost] /\ fundings[f].cost \in Nat \cup {NotMade}
    <3> DEFINE r == fundings[f]
    <3>1. r \in FundingRows
        BY <2>1
    <3> HIDE DEF r
    <3>2. [r EXCEPT !.status = "CANCELED"] = [r EXCEPT !.status = "CANCELED", !.cost = r.cost] /\ r.cost \in Nat \cup {NotMade}
        BY <3>1 DEF FundingRows
    <3> QED
        BY <3>2 DEF r
  <2>3. OneFunding(f, "CANCELED", fundings[f].cost)
      BY <1>3, <2>2 DEF OneFunding
  <2>4. StatusMoves(fundings[f].status, "CANCELED", fundings[f].method)
      BY <1>3 DEF StatusMoves
  <2> QED
      BY <1>3, <2>1, <2>2, <2>3, <2>4, FundingCharges
<1> QED
    BY <1>1, <1>2, <1>3, QuietCharges

LEMMA FactCharges ==
    ASSUME CardInv, NEW f \in Operations, fundings[f] # NotMade,
           \/ \E s \in {"PROCESSING", "SUCCEEDED", "FAILED"}, c \in {0, 1} : FundingOutcome(f, s, c)
           \/ LateCapture(f) \/ BankReturn(f) \/ \E c \in {0, 1} : FeeAdjustment(f, c)
    PROVE  ChargesStep
<1>1. fundings[f] \in FundingRows
    BY DEF CardInv, CardTypes
<1>2. fundings[f].cost \in Nat \cup {NotMade} /\ fundings[f].status \in {"REQUIRES_ACTION", "PROCESSING", "SUCCEEDED", "FAILED", "CANCELED", "RETURNED"}
    BY <1>1 DEF FundingRows
<1>3. ASSUME NEW s \in {"PROCESSING", "SUCCEEDED", "FAILED", "RETURNED"}, NEW c \in Nat \cup {NotMade}, FundingFact(f, s, c),
             StatusMoves(fundings[f].status, s, fundings[f].method)
      PROVE  ChargesStep
    BY <1>3, FactIsOneFunding, FundingCharges
<1>4. ASSUME NEW s \in {"PROCESSING", "SUCCEEDED", "FAILED"}, NEW c \in {0, 1}, FundingOutcome(f, s, c) PROVE ChargesStep
  <2> DEFINE k == IF s = "SUCCEEDED" THEN c ELSE fundings[f].cost
  <2>1. k \in Nat \cup {NotMade} /\ FundingFact(f, s, k)
      BY <1>2, <1>4 DEF FundingOutcome
  <2>2. StatusMoves(fundings[f].status, s, fundings[f].method)
      BY <1>2, <1>4 DEF FundingOutcome, Capturable, StatusMoves
  <2> HIDE DEF k
  <2> QED
      BY <1>3, <2>1, <2>2
<1>5. CASE LateCapture(f)
  <2> DEFINE k == IF fundings[f].cost = NotMade THEN 0 ELSE fundings[f].cost
  <2>1. k \in Nat \cup {NotMade} /\ FundingFact(f, "SUCCEEDED", k)
      BY <1>2, <1>5 DEF LateCapture
  <2>2. StatusMoves(fundings[f].status, "SUCCEEDED", fundings[f].method)
      BY <1>5 DEF LateCapture, StatusMoves
  <2> HIDE DEF k
  <2> QED
      BY <1>3, <2>1, <2>2
<1>6. CASE BankReturn(f)
  <2>1. StatusMoves(fundings[f].status, "RETURNED", fundings[f].method) /\ FundingFact(f, "RETURNED", fundings[f].cost)
      BY <1>6 DEF BankReturn, StatusMoves
  <2> QED
      BY <1>2, <1>3, <2>1
<1>7. ASSUME NEW c \in {0, 1}, FeeAdjustment(f, c) PROVE ChargesStep
  <2> DEFINE r == fundings[f]
  <2>1. fundings' = [fundings EXCEPT ![f] = [r EXCEPT !.cost = c]] /\ transfers' = transfers /\ r.status = "SUCCEEDED"
      BY <1>7 DEF FeeAdjustment
  <2>2. [r EXCEPT !.cost = c] = [r EXCEPT !.status = r.status, !.cost = c]
    <3>1. r \in FundingRows
        BY <1>1
    <3> HIDE DEF r
    <3> QED
        BY <3>1 DEF FundingRows
  <2>3. OneFunding(f, fundings[f].status, c)
      BY <2>1, <2>2 DEF OneFunding
  <2>4. c \in Nat \cup {NotMade}
      OBVIOUS
  <2> QED
      BY <2>1, <2>3, <2>4, FundingCharges
<1> QED
    BY <1>4, <1>5, <1>6, <1>7

LEMMA CardNextCharges == CardInv /\ [CardNext]_cardVars => ChargesStep
<1> SUFFICES ASSUME CardInv, [CardNext]_cardVars PROVE ChargesStep
    OBVIOUS
<1>1. ASSUME NEW a \in Asked,
             CreateFundingIntent(a[1], a[2]) \/ CancelFunding(a[1], a[2]) \/ ReleaseToCreator(a[1], a[2]) \/ RefundCharge(a[1], a[2]) \/ ReverseTransfer(a[1], a[2])
      PROVE  ChargesStep
  <2>1. a[1] \in Operations /\ a[2] \in Requests
      BY CardAssumption
  <2>2. CASE Quiet(a[1], a[2])
      BY <2>2, QuietCharges DEF Quiet
  <2> QED
      BY <1>1, <2>1, <2>2, FundingCreateCharges, CancelCharges, ReleaseToDraws, RefundChargeDraws, ReverseDraws, DrawingCharges
<1>2. ASSUME NEW f \in Made,
             \/ \E s \in {"PROCESSING", "SUCCEEDED", "FAILED"}, c \in {0, 1} : FundingOutcome(f, s, c)
             \/ LateCapture(f) \/ BankReturn(f) \/ \E c \in {0, 1} : FeeAdjustment(f, c)
      PROVE  ChargesStep
    BY <1>2, FactCharges DEF Made
<1>3. ASSUME NEW f \in Made, NEW x, Chargeback(f, x) PROVE ChargesStep
    BY <1>3, QuietCharges DEF Chargeback
<1>4. ASSUME NEW d, NEW s, ChargebackOutcome(d, s) PROVE ChargesStep
    BY <1>4, QuietCharges DEF ChargebackOutcome
<1>5. ASSUME NEW b, SetPayeeBalance(b) PROVE ChargesStep
    BY <1>5, QuietCharges DEF SetPayeeBalance
<1>6. CASE UNCHANGED cardVars
    BY <1>6, QuietCharges DEF cardVars
<1>7. CASE CardNext
    BY <1>1, <1>2, <1>3, <1>4, <1>5, <1>7, SettleCharges DEF CardNext
<1> QED
    BY <1>6, <1>7

\* The provider's ledger keeps the contract of Charges (payments/providers.ts).
THEOREM CardKeepsCharges == CardSpec => ChargesKept
<1>1. CardInit => Contract!Init
  <2> SUFFICES ASSUME CardInit PROVE Contract!Init
      OBVIOUS
  <2>1. \A f \in Operations : CardCharge(fundings, transfers, f) = NoChargeRow
      BY DEF CardInit, CardCharge
  <2>2. Charges(fundings, transfers) = [f \in Operations |-> NoChargeRow]
      BY <2>1 DEF Charges
  <2> QED
      BY <2>2, ChargesAre DEF Contract!Init, Contract!NoCharge, NoChargeRow, ChargeRow
<1>2. CardInv /\ [CardNext]_cardVars => [Contract!Next]_[f \in Operations |-> ChargeOf(f)]
  <2> SUFFICES ASSUME CardInv, [CardNext]_cardVars PROVE Contract!Next
      OBVIOUS
  <2>1. ChargesStep
      BY CardNextCharges
  <2>2. \A f \in Operations : /\ [g \in Operations |-> ChargeOf(g)][f] = CardCharge(fundings, transfers, f)
                               /\ [g \in Operations |-> ChargeOf(g)]'[f] = CardCharge(fundings', transfers', f)
      BY ChargesAre DEF Charges
  <2> QED
      BY <2>1, <2>2, Zenon DEF ChargesStep, Contract!Next
<1>3. CardSpec => []CardInv
    BY CardInitHolds, CardNextKeeps, PTL DEF CardSpec
<1> QED
    BY <1>1, <1>2, <1>3, PTL DEF CardSpec, ChargesKept, Contract!Spec

-----------------------------------------------------------------------------
(* Sign-in *)

IdentitySpec == IdentityInit /\ [][IdentityNext]_identityVars

SignIns == {"X", "GOOGLE"}
Subjects == XSubjects \cup GoogleSubjects
MemberRows == [made : BOOLEAN, creator : BOOLEAN, email : BOOLEAN, active : BOOLEAN]
FlowRows == [stage : {"NONE", "STARTED", "CLAIMED", "READ", "OVER"}, provider : SignIns, purpose : {"CONNECT", "SIGN_IN", "SIGN_UP"},
             user : Members \cup {NoMember}, creator : BOOLEAN, subject : Subjects \cup {NoSubject}, handle : Handles \cup {NoHandle}]

\* A saved profile and a candidate of a refresh have their columns, whatever is in them.
IsCopy(c) == c = [x \in DOMAIN NoCopy |-> c[x]]
IsCandidate(c) == c = [x \in {"user", "id", "handle", "link"} |-> c[x]] /\ c.user \in Members
Copies(xs) == xs = [u \in Members |-> xs[u]] /\ \A u \in Members : IsCopy(xs[u])

IdentityTypes ==
    /\ member \in [Members -> MemberRows] /\ identity \in [Members -> [SignIns -> Subjects \cup {NoSubject}]]
    /\ Copies(xcopy) /\ oauth \in [Flows -> FlowRows] /\ xhandle \in [XSubjects -> Handles] /\ signedIn \subseteq Members
    /\ lookup = [by |-> lookup.by, candidates |-> lookup.candidates] /\ IsFiniteSet(lookup.candidates)
    /\ \A c \in lookup.candidates : IsCandidate(c)

\* An attempt that has been answered knows the account at the provider, and a connection the account it is for.
FlowFits(x) ==
    /\ x.stage = "READ" => x.subject \in Subjects
    /\ x.purpose = "CONNECT" => x.user \in Members

IdentityInv == IdentityTypes /\ (\A f \in Flows : FlowFits(oauth[f])) /\ OneWayIn

-----------------------------------------------------------------------------
(* A refresh keeps the X account of every profile *)

LEMMA CopyColumns ==
    ASSUME NEW c, IsCopy(c)
    PROVE  /\ \A v : IsCopy([c EXCEPT !.link = v]) /\ [c EXCEPT !.link = v].id = c.id
           /\ \A h : IsCopy(Refreshed(c, h)) /\ Refreshed(c, h).id = c.id
           /\ IsCopy([c EXCEPT !.gone = TRUE, !.asked = FALSE]) /\ [c EXCEPT !.gone = TRUE, !.asked = FALSE].id = c.id
           /\ \A v : IsCopy([c EXCEPT !.failures = v]) /\ [c EXCEPT !.failures = v].id = c.id
           /\ IsCopy([c EXCEPT !.old = TRUE]) /\ [c EXCEPT !.old = TRUE].id = c.id
           /\ IsCopy([c EXCEPT !.asked = TRUE]) /\ [c EXCEPT !.asked = TRUE].id = c.id
<1>1. DOMAIN NoCopy = {"id", "handle", "link", "old", "asked", "gone", "failures"}
    BY DEF NoCopy
<1> QED
    BY <1>1 DEF IsCopy, Refreshed

Kept(rows) == Copies(rows.xcopy) /\ \A u \in Members : rows.xcopy[u].id = xcopy[u].id
WriteOne(found, rows, c) == IF c \in found THEN Found(rows, c) ELSE Missing(rows, c)

LEMMA ReplacedCopy ==
    ASSUME NEW xs, Copies(xs), NEW u \in Members, NEW c, IsCopy(c), c.id = xs[u].id
    PROVE  LET ys == [xs EXCEPT ![u] = c] IN Copies(ys) /\ \A v \in Members : ys[v].id = xs[v].id
BY DEF Copies

LEMMA WriteKeeps ==
    ASSUME NEW found, NEW rows, Kept(rows), rows = [social |-> rows.social, xcopy |-> rows.xcopy], NEW c, IsCandidate(c)
    PROVE  LET after == WriteOne(found, rows, c) IN Kept(after) /\ after = [social |-> after.social, xcopy |-> after.xcopy]
<1> DEFINE u == c.user
           xs == rows.xcopy
<1>1. u \in Members /\ Copies(xs) /\ IsCopy(xs[u])
    BY DEF IsCandidate, Kept, Copies
<1>2. ASSUME c \in found PROVE Kept(Found(rows, c)) /\ Found(rows, c) = [social |-> Found(rows, c).social, xcopy |-> Found(rows, c).xcopy]
  <2> DEFINE accounts == Follow(c, rows.social)
             link(l) == IF accounts # rows.social /\ l = c.link THEN xhandle[c.id] ELSE l
             copy == IF rows.xcopy[c.user].id = c.id THEN Refreshed(rows.xcopy[c.user], xhandle[c.id]) ELSE rows.xcopy[c.user]
             next == [copy EXCEPT !.link = link(@)]
  <2>1. IsCopy(copy) /\ copy.id = xs[u].id
      BY <1>1, CopyColumns
  <2>2. next = [copy EXCEPT !.link = link(copy.link)]
      OBVIOUS
  <2>3. IsCopy(next) /\ next.id = xs[u].id
    <3> HIDE DEF copy, link
    <3> QED
        BY <2>1, <2>2, CopyColumns
  <2>4. Found(rows, c) = [social |-> accounts, xcopy |-> [xs EXCEPT ![u] = next]]
      BY DEF Found
  <2> HIDE DEF next, accounts
  <2> QED
      BY <1>1, <2>3, <2>4, ReplacedCopy DEF Kept
<1>3. ASSUME c \notin found PROVE Kept(Missing(rows, c)) /\ Missing(rows, c) = [social |-> Missing(rows, c).social, xcopy |-> Missing(rows, c).xcopy]
  <2> DEFINE next == [xs[u] EXCEPT !.gone = TRUE, !.asked = FALSE]
  <2>1. IsCopy(next) /\ next.id = xs[u].id
      BY <1>1, CopyColumns
  <2>2. CASE xs[u].id # c.id
      BY <2>2 DEF Missing
  <2>3. CASE xs[u].id = c.id
    <3>1. Missing(rows, c) = [social |-> rows.social, xcopy |-> [xs EXCEPT ![u] = next]]
        BY <2>3, <1>1 DEF Missing, Copies
    <3> HIDE DEF next
    <3> QED
        BY <1>1, <2>1, <3>1, ReplacedCopy DEF Kept
  <2> QED
      BY <2>2, <2>3
<1> QED
    BY <1>2, <1>3 DEF WriteOne

\* applyLookup writes the candidates one after the other, so its rows exist, and every one of them keeps the X accounts.
LEMMA LookupKeeps ==
    ASSUME Copies(xcopy), NEW found, NEW order, Len(order) \in Nat, \A n \in 1..Len(order) : IsCandidate(order[n])
    PROVE  Kept(ApplyLookup(found, order))
<1> DEFINE N == Len(order)
           first == [social |-> social, xcopy |-> xcopy]
           Chain(k, r) == r = [n \in 0..k |-> IF n = 0 THEN first ELSE WriteOne(found, r[n - 1], order[n])]
           rows == CHOOSE r : Chain(N, r)
           IsRows(x) == x = [social |-> x.social, xcopy |-> x.xcopy]
<1>1. \A k \in 0..N : \E r : Chain(k, r)
  <2> SUFFICES ASSUME {k \in 0..N : ~\E r : Chain(k, r)} # {} PROVE FALSE
      OBVIOUS
  <2> DEFINE Bad == {k \in 0..N : ~\E r : Chain(k, r)}
  <2>1. PICK k \in Bad : \A j \in Bad : k <= j
    <3>1. Bad \in SUBSET Nat
        OBVIOUS
    <3> HIDE DEF Bad
    <3> QED
        BY <3>1, LeastOf DEF Bad
  <2>2. k # 0
    <3>1. Chain(0, [n \in 0..0 |-> first])
      <4> HIDE DEF first
      <4> QED
          OBVIOUS
    <3> HIDE DEF Chain
    <3> QED
        BY <3>1
  <2>3. PICK r : Chain(k - 1, r)
    <3>1. k \in 1..N /\ k - 1 \in 0..N /\ k - 1 < k
        BY <2>2
    <3> HIDE DEF Chain
    <3> QED
        BY <2>1, <3>1
  <2> DEFINE s == [n \in 0..k |-> IF n = k THEN WriteOne(found, r[k - 1], order[k]) ELSE r[n]]
  <2>4. k \in Nat /\ k > 0
      BY <2>2
  <2>5. \A n \in 0..(k - 1) : s[n] = r[n] /\ r[n] = IF n = 0 THEN first ELSE WriteOne(found, r[n - 1], order[n])
    <3> HIDE DEF first
    <3> QED
        BY <2>3, <2>4
  <2>6. \A n \in 0..k : s[n] = IF n = 0 THEN first ELSE WriteOne(found, s[n - 1], order[n])
    <3> SUFFICES ASSUME NEW n \in 0..k PROVE s[n] = IF n = 0 THEN first ELSE WriteOne(found, s[n - 1], order[n])
        OBVIOUS
    <3>1. CASE n = k
      <4>1. s[n] = WriteOne(found, r[k - 1], order[k])
          BY <3>1
      <4> HIDE DEF s, first
      <4> QED
          BY <2>4, <2>5, <3>1, <4>1
    <3>2. CASE n # k
      <4>1. n \in 0..(k - 1) /\ (n # 0 => n - 1 \in 0..(k - 1))
          BY <2>4, <3>2
      <4> HIDE DEF s, first
      <4> QED
          BY <2>5, <4>1
    <3> QED
        BY <3>1, <3>2
  <2>7. Chain(k, s)
    <3>1. s = [n \in 0..k |-> s[n]]
        OBVIOUS
    <3> HIDE DEF s, first
    <3> QED
        BY <2>6, <3>1
  <2> HIDE DEF Chain
  <2> QED
      BY <2>7
<1>2. Chain(N, rows)
  <2>1. N \in 0..N
      OBVIOUS
  <2> HIDE DEF Chain
  <2> QED
      BY <1>1, <2>1
<1>3. rows[0] = first /\ \A n \in 1..N : rows[n] = WriteOne(found, rows[n - 1], order[n])
  <2> HIDE DEF rows, first
  <2> QED
      BY <1>2
<1>4. \A n \in 0..N : Kept(rows[n]) /\ IsRows(rows[n])
  <2> DEFINE Bad == {n \in 0..N : ~(Kept(rows[n]) /\ IsRows(rows[n]))}
  <2> SUFFICES ASSUME Bad # {} PROVE FALSE
      OBVIOUS
  <2>1. PICK n \in Bad : \A j \in Bad : n <= j
    <3>1. Bad \in SUBSET Nat
        OBVIOUS
    <3> HIDE DEF Bad
    <3> QED
        BY <3>1, LeastOf
  <2>2. n # 0
    <3>1. Kept(first) /\ IsRows(first)
        BY DEF Kept
    <3> HIDE DEF rows, first, IsRows
    <3> QED
        BY <1>3, <3>1
  <2>3. n \in 1..N /\ n - 1 \in 0..N /\ n - 1 \notin Bad
    <3> HIDE DEF rows, IsRows
    <3> QED
        BY <2>1, <2>2
  <2>4. Kept(rows[n - 1]) /\ IsRows(rows[n - 1])
    <3> HIDE DEF rows, IsRows
    <3> QED
        BY <2>3
  <2>5. Kept(rows[n]) /\ IsRows(rows[n])
    <3> HIDE DEF rows
    <3> QED
        BY <1>3, <2>3, <2>4, WriteKeeps
  <2> QED
      BY <2>5
<1>5. ApplyLookup(found, order) = rows[N]
    BY DEF ApplyLookup, WriteOne
<1>6. N \in 0..N
    OBVIOUS
<1> HIDE DEF rows
<1> QED
    BY <1>4, <1>5, <1>6

-----------------------------------------------------------------------------
(* Steps *)

LEMMA IdentityRows == /\ NoSubject \notin Subjects /\ NoCopy.id = NoSubject /\ IsCopy(NoCopy) /\ NoFlow \in FlowRows /\ FlowFits(NoFlow)
                      /\ FirstHandle \in [XSubjects -> Handles]
BY IdentityAssumption DEF Subjects, NoCopy, IsCopy, NoFlow, FlowRows, FlowFits, SignIns, NoMember

LEMMA IdentityInitHolds == IdentityInit => IdentityInv
<1> SUFFICES ASSUME IdentityInit PROVE IdentityInv
    OBVIOUS
<1>1. /\ member \in [Members -> MemberRows] /\ identity \in [Members -> [SignIns -> Subjects \cup {NoSubject}]]
      /\ oauth \in [Flows -> FlowRows] /\ xhandle \in [XSubjects -> Handles] /\ signedIn \subseteq Members
    BY IdentityRows DEF IdentityInit, MemberRows, SignIns
<1>2. Copies(xcopy)
    BY IdentityRows DEF IdentityInit, Copies
<1>3. /\ lookup = [by |-> lookup.by, candidates |-> lookup.candidates] /\ IsFiniteSet(lookup.candidates)
      /\ \A c \in lookup.candidates : IsCandidate(c)
    BY FS_EmptySet DEF IdentityInit, NoLookup
<1>4. \A f \in Flows : FlowFits(oauth[f])
    BY IdentityRows DEF IdentityInit
<1>5. OneWayIn
    BY IdentityRows DEF IdentityInit, OneWayIn
<1> QED
    BY <1>1, <1>2, <1>3, <1>4, <1>5 DEF IdentityInv, IdentityTypes

\* A step that makes nobody, connects nothing and lets every saved profile name its X account.
LEMMA SameWays ==
    ASSUME IdentityInv, identity' = identity, \A u \in Members : xcopy'[u].id = xcopy[u].id,
           member' \in [Members -> MemberRows],
           \A u \in Members : member'[u].made = member[u].made /\ (member[u].email => member'[u].email)
    PROVE  OneWayIn'
BY DEF IdentityInv, OneWayIn

\* An attempt moves on.
LEMMA FlowMoves ==
    ASSUME IdentityInv, NEW f \in Flows, NEW x \in FlowRows, FlowFits(x), oauth' = [oauth EXCEPT ![f] = x]
    PROVE  oauth' \in [Flows -> FlowRows] /\ \A g \in Flows : FlowFits(oauth'[g])
BY DEF IdentityInv, IdentityTypes

LEMMA FlowOver ==
    ASSUME IdentityInv, NEW f \in Flows, Over(f)
    PROVE  oauth' \in [Flows -> FlowRows] /\ \A g \in Flows : FlowFits(oauth'[g])
<1> DEFINE x == [NoFlow EXCEPT !.stage = "OVER"]
<1>1. x \in FlowRows /\ FlowFits(x)
    BY IdentityRows DEF FlowRows, FlowFits, NoFlow
<1>2. oauth' = [oauth EXCEPT ![f] = x]
    BY DEF Over
<1> QED
    BY <1>1, <1>2, FlowMoves

LEMMA StartKeeps ==
    ASSUME IdentityInv, NEW f \in Flows, NEW p \in SignIns, NEW purpose \in {"CONNECT", "SIGN_IN", "SIGN_UP"},
           NEW u \in Members \cup {NoMember}, NEW creator \in BOOLEAN, purpose = "CONNECT" => u \in Members,
           StartFlow(f, p, purpose, u, creator)
    PROVE  IdentityInv'
<1> DEFINE x == [NoFlow EXCEPT !.stage = "STARTED", !.provider = p, !.purpose = purpose, !.user = u, !.creator = creator]
<1>1. x \in FlowRows /\ FlowFits(x)
    BY IdentityRows DEF FlowRows, FlowFits, NoFlow
<1>2. oauth' \in [Flows -> FlowRows] /\ \A g \in Flows : FlowFits(oauth'[g])
    BY <1>1, FlowMoves DEF StartFlow
<1>3. OneWayIn'
    BY SameWays DEF StartFlow, IdentityInv, IdentityTypes
<1> QED
    BY <1>2, <1>3 DEF IdentityInv, IdentityTypes, StartFlow

\* An attempt is claimed or answered, or ends with nothing.
LEMMA AttemptKeeps ==
    ASSUME IdentityInv, NEW f \in Flows,
           FlowFails(f) \/ ClaimState(f) \/ (\E s \in XSubjects : SignedInProfile(f, s)) \/ (\E s \in GoogleSubjects : GoogleProfile(f, s))
    PROVE  IdentityInv'
<1>1. oauth[f] \in FlowRows /\ FlowFits(oauth[f]) /\ \A s \in XSubjects : xhandle[s] \in Handles
    BY DEF IdentityInv, IdentityTypes
<1>2. oauth' \in [Flows -> FlowRows] /\ \A g \in Flows : FlowFits(oauth'[g])
  <2>1. CASE FlowFails(f)
      BY <2>1, FlowOver DEF FlowFails
  <2>2. CASE ClaimState(f)
    <3> DEFINE x == [oauth[f] EXCEPT !.stage = "CLAIMED"]
    <3>1. x \in FlowRows /\ FlowFits(x)
        BY <1>1 DEF FlowRows, FlowFits
    <3>2. oauth' = [oauth EXCEPT ![f] = x]
        BY <2>2 DEF ClaimState
    <3> QED
        BY <3>1, <3>2, FlowMoves
  <2>3. ASSUME NEW s \in XSubjects, SignedInProfile(f, s) PROVE oauth' \in [Flows -> FlowRows] /\ \A g \in Flows : FlowFits(oauth'[g])
    <3> DEFINE x == [oauth[f] EXCEPT !.stage = "READ", !.subject = s, !.handle = xhandle[s]]
    <3>1. x \in FlowRows /\ FlowFits(x)
        BY <1>1 DEF FlowRows, FlowFits, Subjects
    <3>2. oauth' = [oauth EXCEPT ![f] = x]
        BY <2>3 DEF SignedInProfile, IdentityInv, IdentityTypes
    <3> QED
        BY <3>1, <3>2, FlowMoves
  <2>4. ASSUME NEW s \in GoogleSubjects, GoogleProfile(f, s) PROVE oauth' \in [Flows -> FlowRows] /\ \A g \in Flows : FlowFits(oauth'[g])
    <3> DEFINE x == [oauth[f] EXCEPT !.stage = "READ", !.subject = s]
    <3>1. x \in FlowRows /\ FlowFits(x)
        BY <1>1 DEF FlowRows, FlowFits, Subjects
    <3>2. oauth' = [oauth EXCEPT ![f] = x]
        BY <2>4 DEF GoogleProfile, IdentityInv, IdentityTypes
    <3> QED
        BY <3>1, <3>2, FlowMoves
  <2> QED
      BY <2>1, <2>2, <2>3, <2>4
<1>3. UNCHANGED <<member, identity, xcopy, xhandle, signedIn, lookup>>
    BY DEF FlowFails, ClaimState, SignedInProfile, GoogleProfile
<1>4. OneWayIn'
    BY <1>3, SameWays DEF IdentityInv, IdentityTypes
<1> QED
    BY <1>2, <1>3, <1>4 DEF IdentityInv, IdentityTypes

\* saveConnection, of an account that exists or is made with it.
LEMMA ConnectionKeeps ==
    ASSUME IdentityInv, NEW u \in Members, NEW creator, NEW s \in Subjects, NEW h, SaveConnection(u, creator, s, h),
           member' \in [Members -> MemberRows], \A v \in Members : v # u => member'[v] = member[v]
    PROVE  identity' \in [Members -> [SignIns -> Subjects \cup {NoSubject}]] /\ Copies(xcopy') /\ OneWayIn'
<1> DEFINE copy(l) == [NoCopy EXCEPT !.id = s, !.handle = h, !.link = l]
<1>1. \A l : IsCopy(copy(l)) /\ copy(l).id = s
    BY DEF NoCopy, IsCopy
<1>2. PICK l : xcopy' = [xcopy EXCEPT ![u] = copy(l)]
    BY DEF SaveConnection
<1>3. identity' = [identity EXCEPT ![u]["X"] = s] /\ \A v \in Members \ {u} : identity[v]["X"] # s
    BY DEF SaveConnection, OwnedByAnother
<1>4. identity \in [Members -> [SignIns -> Subjects \cup {NoSubject}]] /\ Copies(xcopy) /\ OneWayIn
    BY DEF IdentityInv, IdentityTypes
<1>5. identity' \in [Members -> [SignIns -> Subjects \cup {NoSubject}]]
    BY <1>3, <1>4 DEF SignIns
<1>6. /\ identity'[u]["X"] = s /\ identity'[u]["GOOGLE"] = identity[u]["GOOGLE"]
      /\ \A v \in Members : v # u => identity'[v] = identity[v]
    BY <1>3, <1>4 DEF SignIns
<1>7. Copies(xcopy') /\ xcopy'[u].id = s /\ \A v \in Members : v # u => xcopy'[v] = xcopy[v]
  <2> HIDE DEF copy
  <2> QED
      BY <1>1, <1>2, <1>4 DEF Copies
<1>8. OneWayIn'
  <2>1. \A p \in {"X", "GOOGLE"}, v, w \in Members : v # w /\ identity'[v][p] # NoSubject => identity'[v][p] # identity'[w][p]
      BY <1>3, <1>4, <1>6 DEF OneWayIn
  <2>2. \A v \in Members : xcopy'[v].id = identity'[v]["X"]
      BY <1>4, <1>6, <1>7 DEF OneWayIn
  <2>3. \A v \in Members : member'[v].made => member'[v].email \/ \E p \in {"X", "GOOGLE"} : identity'[v][p] # NoSubject
      BY <1>4, <1>6, IdentityRows DEF OneWayIn
  <2> QED
      BY <2>1, <2>2, <2>3 DEF OneWayIn
<1> QED
    BY <1>5, <1>7, <1>8

LEMMA XConnectKeeps ==
    ASSUME IdentityInv, NEW f \in Flows, FinishXConnect(f)
    PROVE  IdentityInv'
<1>1. oauth' \in [Flows -> FlowRows] /\ \A g \in Flows : FlowFits(oauth'[g])
    BY FlowOver DEF FinishXConnect
<1>2. UNCHANGED <<member, xhandle, signedIn, lookup>> /\ member \in [Members -> MemberRows]
    BY DEF FinishXConnect, IdentityInv, IdentityTypes
<1>3. oauth[f].user \in Members /\ oauth[f].subject \in Subjects
    BY DEF FinishXConnect, IdentityInv, FlowFits
<1>4. identity' \in [Members -> [SignIns -> Subjects \cup {NoSubject}]] /\ Copies(xcopy') /\ OneWayIn'
  <2>1. CASE SaveConnection(oauth[f].user, TRUE, oauth[f].subject, oauth[f].handle)
      BY <1>2, <1>3, <2>1, ConnectionKeeps
  <2>2. CASE UNCHANGED <<identity, xcopy, social>>
      BY <1>2, <2>2, SameWays DEF IdentityInv, IdentityTypes
  <2> QED
      BY <2>1, <2>2 DEF FinishXConnect
<1> QED
    BY <1>1, <1>2, <1>4 DEF IdentityInv, IdentityTypes

LEMMA MadeMember ==
    ASSUME IdentityInv, NEW u \in Members, NEW creator \in BOOLEAN, NewMember(u, creator)
    PROVE  member' \in [Members -> MemberRows] /\ (\A v \in Members : v # u => member'[v] = member[v]) /\ ~member[u].made
BY DEF IdentityInv, IdentityTypes, NewMember, MemberRows

LEMMA XSignInKeeps ==
    ASSUME IdentityInv, NEW f \in Flows, FinishXSignIn(f)
    PROVE  IdentityInv'
<1> DEFINE s == oauth[f].subject
           h == oauth[f].handle
           Fits == /\ member' \in [Members -> MemberRows] /\ signedIn' \subseteq Members
                   /\ identity' \in [Members -> [SignIns -> Subjects \cup {NoSubject}]] /\ Copies(xcopy') /\ OneWayIn'
<1>1. oauth' \in [Flows -> FlowRows] /\ \A g \in Flows : FlowFits(oauth'[g])
    BY FlowOver DEF FinishXSignIn
<1>2. UNCHANGED <<xhandle, lookup>> /\ member \in [Members -> MemberRows] /\ Copies(xcopy)
    BY DEF FinishXSignIn, IdentityInv, IdentityTypes
<1>3. s \in Subjects /\ oauth[f].creator \in BOOLEAN
    BY DEF FinishXSignIn, IdentityInv, FlowFits, IdentityTypes, FlowRows
<1>4. Fits
  <2>1. ASSUME NEW u \in Holders("X", s), signedIn' = signedIn \union {u}, UNCHANGED <<member, identity, social>>,
               xcopy' = IF xcopy[u].id = s THEN [xcopy EXCEPT ![u] = Refreshed(@, h)] ELSE xcopy
        PROVE  Fits
    <3>1. u \in Members /\ IsCopy(xcopy[u])
        BY <1>2 DEF Holders, Copies
    <3> DEFINE c == Refreshed(xcopy[u], h)
    <3>2. IsCopy(c) /\ c.id = xcopy[u].id
        BY <3>1, CopyColumns
    <3>3. xcopy' = xcopy \/ xcopy' = [xcopy EXCEPT ![u] = c]
        BY <2>1
    <3> HIDE DEF c
    <3>4. Copies(xcopy') /\ \A v \in Members : xcopy'[v].id = xcopy[v].id
      <4>1. LET ys == [xcopy EXCEPT ![u] = c] IN Copies(ys) /\ \A v \in Members : ys[v].id = xcopy[v].id
          BY <1>2, <3>1, <3>2, ReplacedCopy
      <4> QED
          BY <1>2, <3>3, <4>1
    <3>5. OneWayIn'
        BY <1>2, <2>1, <3>4, SameWays
    <3> QED
        BY <1>2, <2>1, <3>1, <3>4, <3>5 DEF IdentityInv, IdentityTypes
  <2>2. ASSUME NEW u \in Members, NewMember(u, oauth[f].creator), SaveConnection(u, oauth[f].creator, s, h), signedIn' = signedIn \union {u}
        PROVE  Fits
    <3>1. member' \in [Members -> MemberRows] /\ \A v \in Members : v # u => member'[v] = member[v]
        BY <1>3, <2>2, MadeMember
    <3> QED
        BY <1>3, <2>2, <3>1, ConnectionKeeps DEF IdentityInv, IdentityTypes
  <2>3. ASSUME UNCHANGED <<member, identity, xcopy, social, signedIn>> PROVE Fits
      BY <1>2, <2>3, SameWays DEF IdentityInv, IdentityTypes
  <2> HIDE DEF Fits
  <2> QED
      BY <2>1, <2>2, <2>3 DEF FinishXSignIn
<1> QED
    BY <1>1, <1>2, <1>4 DEF IdentityInv, IdentityTypes

\* A Google account is connected to u, which exists or is made with it.
LEMMA GoogleConnected ==
    ASSUME IdentityInv, NEW u \in Members, NEW s \in Subjects, Holders("GOOGLE", s) \subseteq {u}, xcopy' = xcopy,
           identity' = [identity EXCEPT ![u]["GOOGLE"] = s],
           member' \in [Members -> MemberRows], \A v \in Members : v # u => member'[v] = member[v]
    PROVE  identity' \in [Members -> [SignIns -> Subjects \cup {NoSubject}]] /\ OneWayIn'
<1>1. identity \in [Members -> [SignIns -> Subjects \cup {NoSubject}]] /\ OneWayIn
    BY DEF IdentityInv, IdentityTypes
<1>2. identity' \in [Members -> [SignIns -> Subjects \cup {NoSubject}]]
    BY <1>1 DEF SignIns
<1>3. /\ identity'[u]["GOOGLE"] = s /\ identity'[u]["X"] = identity[u]["X"]
      /\ \A v \in Members : v # u => identity'[v] = identity[v]
    BY <1>1 DEF SignIns
<1>4. \A v \in Members \ {u} : identity[v]["GOOGLE"] # s
    BY DEF Holders
<1>5. \A p \in {"X", "GOOGLE"}, v, w \in Members : v # w /\ identity'[v][p] # NoSubject => identity'[v][p] # identity'[w][p]
    BY <1>1, <1>3, <1>4 DEF OneWayIn
<1>6. \A v \in Members : xcopy'[v].id = identity'[v]["X"]
    BY <1>1, <1>3 DEF OneWayIn
<1>7. \A v \in Members : member'[v].made => member'[v].email \/ \E p \in {"X", "GOOGLE"} : identity'[v][p] # NoSubject
    BY <1>1, <1>3, IdentityRows DEF OneWayIn
<1> QED
    BY <1>2, <1>5, <1>6, <1>7 DEF OneWayIn

LEMMA GoogleKeeps ==
    ASSUME IdentityInv, NEW f \in Flows, FinishGoogle(f)
    PROVE  IdentityInv'
<1> DEFINE s == oauth[f].subject
           owners == Holders("GOOGLE", s)
           Fits == /\ member' \in [Members -> MemberRows] /\ signedIn' \subseteq Members
                   /\ identity' \in [Members -> [SignIns -> Subjects \cup {NoSubject}]] /\ OneWayIn'
<1>1. oauth' \in [Flows -> FlowRows] /\ \A g \in Flows : FlowFits(oauth'[g])
    BY FlowOver DEF FinishGoogle
<1>2. UNCHANGED <<xcopy, xhandle, lookup>> /\ member \in [Members -> MemberRows] /\ signedIn \subseteq Members
    BY DEF FinishGoogle, IdentityInv, IdentityTypes
<1>3. s \in Subjects /\ oauth[f].creator \in BOOLEAN /\ (oauth[f].purpose = "CONNECT" => oauth[f].user \in Members)
    BY DEF FinishGoogle, IdentityInv, FlowFits, IdentityTypes, FlowRows
<1>4. ASSUME UNCHANGED <<member, identity>>, signedIn' \subseteq Members PROVE Fits
    BY <1>2, <1>4, SameWays DEF IdentityInv, IdentityTypes
<1>5. ASSUME oauth[f].purpose = "CONNECT", UNCHANGED <<member, signedIn>>,
             identity' = IF owners \subseteq {oauth[f].user} THEN [identity EXCEPT ![oauth[f].user]["GOOGLE"] = s] ELSE identity
      PROVE  Fits
  <2>1. CASE owners \subseteq {oauth[f].user}
      BY <1>2, <1>3, <1>5, <2>1, GoogleConnected
  <2>2. CASE ~(owners \subseteq {oauth[f].user})
      BY <1>2, <1>4, <1>5, <2>2
  <2> QED
      BY <2>1, <2>2
<1>6. ASSUME owners = {}, NEW u \in Members, NewMember(u, oauth[f].creator), signedIn' = signedIn \union {u},
             identity' = [identity EXCEPT ![u]["GOOGLE"] = s]
      PROVE  Fits
  <2>1. member' \in [Members -> MemberRows] /\ \A v \in Members : v # u => member'[v] = member[v]
      BY <1>3, <1>6, MadeMember
  <2> QED
      BY <1>2, <1>3, <1>6, <2>1, GoogleConnected
<1>7. ASSUME UNCHANGED <<member, identity>>, signedIn' = signedIn \union owners PROVE Fits
    BY <1>2, <1>4, <1>7 DEF Holders
<1>8. Fits
  <2> HIDE DEF Fits
  <2> QED
      BY <1>5, <1>6, <1>7 DEF FinishGoogle
<1> QED
    BY <1>1, <1>2, <1>8 DEF IdentityInv, IdentityTypes

\* One saved profile is replaced by a row about the same X account.
LEMMA CopyMoves ==
    ASSUME IdentityInv, NEW u \in Members, NEW c, IsCopy(c), c.id = xcopy[u].id, xcopy' = [xcopy EXCEPT ![u] = c],
           UNCHANGED <<member, identity>>
    PROVE  Copies(xcopy') /\ OneWayIn'
<1>1. Copies(xcopy) /\ member' \in [Members -> MemberRows]
    BY DEF IdentityInv, IdentityTypes
<1>3. Copies(xcopy') /\ \A v \in Members : xcopy'[v].id = xcopy[v].id
    BY <1>1 DEF Copies
<1> QED
    BY <1>1, <1>3, SameWays

LEMMA DisconnectXKeeps ==
    ASSUME IdentityInv, NEW u \in Members, DisconnectX(u)
    PROVE  IdentityInv'
<1>1. identity \in [Members -> [SignIns -> Subjects \cup {NoSubject}]] /\ Copies(xcopy) /\ OneWayIn
    BY DEF IdentityInv, IdentityTypes
<1>2. identity' \in [Members -> [SignIns -> Subjects \cup {NoSubject}]]
    BY <1>1 DEF DisconnectX, SignIns
<1>3. /\ identity'[u]["X"] = NoSubject /\ identity'[u]["GOOGLE"] = identity[u]["GOOGLE"]
      /\ \A v \in Members : v # u => identity'[v] = identity[v]
    BY <1>1 DEF DisconnectX, SignIns
<1>4. Copies(xcopy') /\ xcopy'[u].id = NoSubject /\ \A v \in Members : v # u => xcopy'[v] = xcopy[v]
  <2>1. xcopy' = [xcopy EXCEPT ![u] = NoCopy]
      BY DEF DisconnectX
  <2> QED
      BY <1>1, <2>1, IdentityRows DEF Copies
<1>5. member' = member /\ (member[u].email \/ identity[u]["GOOGLE"] # NoSubject)
    BY DEF DisconnectX, KeepsAnotherSignIn
<1>6. OneWayIn'
  <2>1. \A p \in {"X", "GOOGLE"}, v, w \in Members : v # w /\ identity'[v][p] # NoSubject => identity'[v][p] # identity'[w][p]
      BY <1>1, <1>3 DEF OneWayIn
  <2>2. \A v \in Members : xcopy'[v].id = identity'[v]["X"]
      BY <1>1, <1>3, <1>4 DEF OneWayIn
  <2>3. \A v \in Members : member'[v].made => member'[v].email \/ \E p \in {"X", "GOOGLE"} : identity'[v][p] # NoSubject
      BY <1>1, <1>3, <1>5 DEF OneWayIn
  <2> QED
      BY <2>1, <2>2, <2>3 DEF OneWayIn
<1> QED
    BY <1>2, <1>4, <1>6 DEF IdentityInv, IdentityTypes, DisconnectX

LEMMA DisconnectGoogleKeeps ==
    ASSUME IdentityInv, NEW u \in Members, DisconnectGoogle(u)
    PROVE  IdentityInv'
<1>1. identity \in [Members -> [SignIns -> Subjects \cup {NoSubject}]] /\ OneWayIn
    BY DEF IdentityInv, IdentityTypes
<1>2. identity' \in [Members -> [SignIns -> Subjects \cup {NoSubject}]]
    BY <1>1 DEF DisconnectGoogle, SignIns
<1>3. /\ identity'[u]["GOOGLE"] = NoSubject /\ identity'[u]["X"] = identity[u]["X"]
      /\ \A v \in Members : v # u => identity'[v] = identity[v]
    BY <1>1 DEF DisconnectGoogle, SignIns
<1>4. UNCHANGED <<member, xcopy>> /\ (member[u].email \/ identity[u]["X"] # NoSubject)
    BY DEF DisconnectGoogle, KeepsAnotherSignIn
<1>5. OneWayIn'
  <2>1. \A p \in {"X", "GOOGLE"}, v, w \in Members : v # w /\ identity'[v][p] # NoSubject => identity'[v][p] # identity'[w][p]
      BY <1>1, <1>3 DEF OneWayIn
  <2>2. \A v \in Members : xcopy'[v].id = identity'[v]["X"]
      BY <1>1, <1>3, <1>4 DEF OneWayIn
  <2>3. \A v \in Members : member'[v].made => member'[v].email \/ \E p \in {"X", "GOOGLE"} : identity'[v][p] # NoSubject
      BY <1>1, <1>3, <1>4 DEF OneWayIn
  <2> QED
      BY <2>1, <2>2, <2>3 DEF OneWayIn
<1> QED
    BY <1>2, <1>5 DEF IdentityInv, IdentityTypes, DisconnectGoogle

LEMMA SettingsKeep ==
    ASSUME IdentityInv, SettingsNext
    PROVE  IdentityInv'
<1> PICK u \in Members : \/ DisconnectX(u) \/ DisconnectGoogle(u) \/ AddEmail(u) \/ Login(u) \/ Logout(u)
                         \/ CreateWalletChallenge(u) \/ VerifyWalletChallenge(u)
                         \/ \E h \in Handles : AddSocialAccount(u, h) \/ RemoveSocialAccount(u, h)
    BY DEF SettingsNext
<1>1. CASE AddEmail(u)
  <2>1. member' \in [Members -> MemberRows] /\ \A v \in Members : member'[v].made = member[v].made /\ (member[v].email => member'[v].email)
      BY <1>1 DEF AddEmail, IdentityInv, IdentityTypes, MemberRows
  <2>2. OneWayIn'
      BY <1>1, <2>1, SameWays DEF AddEmail
  <2> QED
      BY <1>1, <2>1, <2>2 DEF AddEmail, IdentityInv, IdentityTypes
<1>2. CASE Login(u) \/ Logout(u) \/ CreateWalletChallenge(u) \/ VerifyWalletChallenge(u) \/ \E h \in Handles : AddSocialAccount(u, h)
  <2>1. UNCHANGED <<member, identity, xcopy, oauth, xhandle, lookup>> /\ (signedIn' \subseteq signedIn \cup {u})
      BY <1>2 DEF Login, Logout, CreateWalletChallenge, VerifyWalletChallenge, AddSocialAccount
  <2>2. OneWayIn'
      BY <2>1, SameWays DEF IdentityInv, IdentityTypes
  <2> QED
      BY <2>1, <2>2 DEF IdentityInv, IdentityTypes
<1>3. ASSUME NEW h \in Handles, RemoveSocialAccount(u, h) PROVE IdentityInv'
  <2> DEFINE c == [xcopy[u] EXCEPT !.link = IF @ = h THEN NoHandle ELSE @]
             l == IF xcopy[u].link = h THEN NoHandle ELSE xcopy[u].link
  <2>1. IsCopy(xcopy[u]) /\ c = [xcopy[u] EXCEPT !.link = l]
      BY DEF IdentityInv, IdentityTypes, Copies
  <2>2. IsCopy(c) /\ c.id = xcopy[u].id
    <3> HIDE DEF l, c
    <3> QED
        BY <2>1, CopyColumns
  <2>3. xcopy' = [xcopy EXCEPT ![u] = c] /\ UNCHANGED <<member, identity>>
      BY <1>3 DEF RemoveSocialAccount, IdentityInv, IdentityTypes, Copies
  <2> HIDE DEF c
  <2>4. Copies(xcopy') /\ OneWayIn'
      BY <2>2, <2>3, CopyMoves
  <2>5. /\ lookup' = [by |-> lookup'.by, candidates |-> lookup'.candidates] /\ IsFiniteSet(lookup'.candidates)
        /\ \A x \in lookup'.candidates : IsCandidate(x)
    <3>1. /\ lookup = [by |-> lookup.by, candidates |-> lookup.candidates] /\ \A x \in lookup.candidates : IsCandidate(x)
          /\ lookup' = [lookup EXCEPT !.candidates = {IF x.user = u /\ x.link = h THEN [x EXCEPT !.link = NoHandle] ELSE x : x \in @}]
        BY <1>3 DEF RemoveSocialAccount, IdentityInv, IdentityTypes
    <3>2. \A x \in lookup.candidates : IsCandidate([x EXCEPT !.link = NoHandle])
        BY <3>1 DEF IsCandidate
    <3>3. lookup'.candidates = {IF x.user = u /\ x.link = h THEN [x EXCEPT !.link = NoHandle] ELSE x : x \in lookup.candidates}
        BY <3>1
    <3>4. \A x \in lookup'.candidates : IsCandidate(x)
        BY <3>1, <3>2, <3>3
    <3>5. lookup' = [by |-> lookup'.by, candidates |-> lookup'.candidates]
        BY <3>1
    <3>6. IsFiniteSet(lookup'.candidates)
      <4>1. IsFiniteSet(lookup.candidates)
          BY DEF IdentityInv, IdentityTypes
      <4> QED
        <5> DEFINE g == [x \in lookup.candidates |-> IF x.user = u /\ x.link = h THEN [x EXCEPT !.link = NoHandle] ELSE x]
        <5>1. IsFiniteSet({g[x] : x \in lookup.candidates})
          <6> HIDE DEF g
          <6> QED
              BY <4>1, FiniteImage
        <5> QED
            BY <3>3, <5>1
    <3> QED
        BY <3>4, <3>5, <3>6
  <2> QED
      BY <1>3, <2>4, <2>5 DEF RemoveSocialAccount, IdentityInv, IdentityTypes
<1> QED
    BY <1>1, <1>2, <1>3, DisconnectXKeeps, DisconnectGoogleKeeps

LEMMA RefreshKeeps ==
    ASSUME IdentityInv, RefreshNext
    PROVE  IdentityInv'
<1> DEFINE LookupFits == /\ lookup' = [by |-> lookup'.by, candidates |-> lookup'.candidates] /\ IsFiniteSet(lookup'.candidates)
                         /\ \A x \in lookup'.candidates : IsCandidate(x)
<1>1. /\ Copies(xcopy) /\ \A u \in Members : IsCopy(xcopy[u])
      /\ member \in [Members -> MemberRows] /\ \A u \in Members : IsCandidate(Candidate(u))
      /\ \A x \in lookup.candidates : IsCandidate(x)
      /\ IsFiniteSet(Members) /\ IsFiniteSet(lookup.candidates)
    BY IdentityAssumption DEF IdentityInv, IdentityTypes, Copies, IsCandidate, Candidate
<1>2. ASSUME NEW u \in Members, CopyAges(u) \/ RequestXRefresh(u) PROVE IdentityInv'
  <2> DEFINE c == IF CopyAges(u) THEN [xcopy[u] EXCEPT !.old = TRUE] ELSE [xcopy[u] EXCEPT !.asked = TRUE]
  <2>1. IsCopy(c) /\ c.id = xcopy[u].id
      BY <1>1, CopyColumns
  <2>2. UNCHANGED <<member, identity, oauth, xhandle, signedIn, lookup>> /\ xcopy' = [xcopy EXCEPT ![u] = c]
      BY <1>1, <1>2 DEF CopyAges, RequestXRefresh, Copies
  <2> HIDE DEF c
  <2>3. Copies(xcopy') /\ OneWayIn'
      BY <2>1, <2>2, CopyMoves
  <2> QED
      BY <2>2, <2>3 DEF IdentityInv, IdentityTypes
<1>3. ASSUME JobReads \/ (\E u \in Members : OwnerReads(u)) PROVE IdentityInv'
  <2>1. LookupFits
    <3>1. CASE JobReads
      <4>1. PICK us \in SUBSET Members : lookup' = [by |-> "job", candidates |-> {Candidate(u) : u \in us}]
          BY <3>1 DEF JobReads
      <4>2. IsFiniteSet({Candidate(u) : u \in us})
        <5>1. IsFiniteSet(us)
            BY <1>1, FS_Subset
        <5> QED
          <6> DEFINE g == [u \in us |-> Candidate(u)]
          <6>1. IsFiniteSet({g[u] : u \in us})
            <7> HIDE DEF g
            <7> QED
                BY <5>1, FiniteImage
          <6> QED
              BY <6>1
      <4> QED
          BY <1>1, <4>1, <4>2
    <3>2. ASSUME NEW u \in Members, OwnerReads(u) PROVE LookupFits
      <4>1. lookup' = [by |-> u, candidates |-> {Candidate(u)}]
          BY <3>2 DEF OwnerReads
      <4>2. IsFiniteSet({Candidate(u)})
          BY FS_Singleton
      <4> QED
          BY <1>1, <4>1, <4>2
    <3> QED
        BY <1>3, <3>1, <3>2
  <2>2. UNCHANGED <<member, identity, xcopy, oauth, xhandle, signedIn>>
      BY <1>3 DEF JobReads, OwnerReads
  <2>3. OneWayIn'
      BY <1>1, <2>2, SameWays
  <2> QED
      BY <2>1, <2>2, <2>3 DEF IdentityInv, IdentityTypes
<1>4. ASSUME NEW s \in XSubjects, NEW h \in Handles, XRenames(s, h) PROVE IdentityInv'
  <2>1. UNCHANGED <<member, identity, xcopy, oauth, signedIn, lookup>> /\ xhandle' \in [XSubjects -> Handles]
      BY <1>4 DEF XRenames, IdentityInv, IdentityTypes
  <2>2. OneWayIn'
      BY <1>1, <2>1, SameWays
  <2> QED
      BY <2>1, <2>2 DEF IdentityInv, IdentityTypes
<1>5. ASSUME LookupAnswered \/ LookupFails PROVE IdentityInv'
  <2>1. LookupFits /\ UNCHANGED <<member, identity, oauth, xhandle, signedIn>>
    <3>1. lookup' = NoLookup /\ UNCHANGED <<member, identity, oauth, xhandle, signedIn>>
        BY <1>5 DEF LookupAnswered, LookupFails
    <3>2. IsFiniteSet({})
        BY FS_EmptySet
    <3> QED
        BY <3>1, <3>2 DEF NoLookup
  <2>2. Copies(xcopy') /\ \A u \in Members : xcopy'[u].id = xcopy[u].id
    <3>1. CASE LookupAnswered
      <4>1. PICK found \in SUBSET lookup.candidates, order \in SetToSeqs(lookup.candidates) : xcopy' = ApplyLookup(found, order).xcopy
          BY <3>1 DEF LookupAnswered
      <4>2. Len(order) \in Nat /\ \A n \in 1..Len(order) : IsCandidate(order[n])
        <5>1. PICK n \in Nat : order \in [1..n -> lookup.candidates]
            BY <1>1, FS_CardinalityType DEF SetToSeqs
        <5> QED
            BY <1>1, <5>1
      <4>3. Kept(ApplyLookup(found, order))
          BY <1>1, <4>2, LookupKeeps
      <4> QED
          BY <4>1, <4>3 DEF Kept
    <3>2. CASE LookupFails
      <4> DEFINE c(u) == [xcopy[u] EXCEPT !.failures = @ + 1]
      <4>1. \A u \in Members : IsCopy(c(u)) /\ c(u).id = xcopy[u].id
          BY <1>1, CopyColumns
      <4>2. \A u \in Members : xcopy'[u] \in {xcopy[u], c(u)}
          BY <3>2 DEF LookupFails
      <4>3. xcopy' = [u \in Members |-> xcopy'[u]]
          BY <3>2 DEF LookupFails
      <4> HIDE DEF c
      <4> QED
          BY <1>1, <4>1, <4>2, <4>3 DEF Copies
    <3> QED
        BY <1>5, <3>1, <3>2
  <2>3. OneWayIn'
      BY <1>1, <2>1, <2>2, SameWays
  <2> QED
      BY <2>1, <2>2, <2>3 DEF IdentityInv, IdentityTypes
<1> QED
    BY <1>2, <1>3, <1>4, <1>5 DEF RefreshNext

LEMMA OAuthKeeps ==
    ASSUME IdentityInv, OAuthNext
    PROVE  IdentityInv'
<1>1. PICK f \in Flows :
        \/ \E u \in Members : StartXConnect(f, u)
        \/ \E purpose \in {"SIGN_IN", "SIGN_UP"}, creator \in BOOLEAN : StartXSignIn(f, purpose, creator)
        \/ \E purpose \in {"CONNECT", "SIGN_IN", "SIGN_UP"}, u \in Members \cup {NoMember}, creator \in BOOLEAN : StartGoogle(f, purpose, u, creator)
        \/ FlowFails(f) \/ ClaimState(f) \/ FinishXConnect(f) \/ FinishXSignIn(f) \/ FinishGoogle(f)
        \/ \E s \in XSubjects : SignedInProfile(f, s)
        \/ \E s \in GoogleSubjects : GoogleProfile(f, s)
    BY DEF OAuthNext
<1>2. ASSUME NEW u \in Members, StartXConnect(f, u) PROVE IdentityInv'
    BY <1>2, StartKeeps DEF StartXConnect, SignIns
<1>3. ASSUME NEW purpose \in {"SIGN_IN", "SIGN_UP"}, NEW creator \in BOOLEAN, StartXSignIn(f, purpose, creator) PROVE IdentityInv'
    BY <1>3, StartKeeps DEF StartXSignIn, SignIns
<1>4. ASSUME NEW purpose \in {"CONNECT", "SIGN_IN", "SIGN_UP"}, NEW u \in Members \cup {NoMember}, NEW creator \in BOOLEAN,
             StartGoogle(f, purpose, u, creator)
      PROVE  IdentityInv'
  <2>1. purpose = "CONNECT" => u \in Members
      BY <1>4 DEF StartGoogle, IdentityInv, IdentityTypes
  <2> QED
      BY <1>4, <2>1, StartKeeps DEF StartGoogle, SignIns
<1> QED
    BY <1>1, <1>2, <1>3, <1>4, AttemptKeeps, XConnectKeeps, XSignInKeeps, GoogleKeeps

\* An X or Google account opens one account, the X sign-in and the saved profile name the same X account, and an account
\* that was made keeps a way in, for any accounts, attempts, renamings and refreshes.
THEOREM EveryAccountKeepsAWayIn == IdentitySpec => []OneWayIn
<1>1. IdentityInv /\ [IdentityNext]_identityVars => IdentityInv'
  <2> SUFFICES ASSUME IdentityInv, [IdentityNext]_identityVars PROVE IdentityInv'
      OBVIOUS
  <2>1. CASE UNCHANGED identityVars
      BY <2>1 DEF identityVars, IdentityInv, IdentityTypes, OneWayIn, FlowFits
  <2> QED
      BY <2>1, OAuthKeeps, SettingsKeep, RefreshKeeps DEF IdentityNext
<1>2. IdentityInv => OneWayIn
    BY DEF IdentityInv
<1> QED
    BY <1>1, <1>2, IdentityInitHolds, PTL DEF IdentitySpec
=============================================================================
