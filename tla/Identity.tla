------------------------------ MODULE Identity ------------------------------
(***************************************************************************)
(* Ways into an account: sign-up and sign-in with X or Google, connecting   *)
(* and disconnecting them, email and password, the saved copy of the X      *)
(* profile with the linked X account it verifies, and wallet proofs.        *)
(*                                                                          *)
(* An OAuth callback is three steps: the single-use state is claimed in one *)
(* transaction, the provider is asked, the result is saved in another; a    *)
(* profile refresh reads its candidates, asks X, and writes afterwards.     *)
(* Between the steps anything else may commit, and X accounts may rename.   *)
(***************************************************************************)
EXTENDS Naturals, FiniteSets, Sequences, SequencesExt

CONSTANTS Members,      \* accounts, existing or to be made
          XSubjects,    \* X account ids
          GoogleSubjects,
          Handles,      \* X usernames
          FirstHandle,  \* FirstHandle[s]: the username of s at the start
          Flows,        \* OAuth attempts
          MaxLinked,    \* MAX_LINKED_ACCOUNTS
          ReadsCap,     \* xReadsMonthlyCap
          MaxRenames,   \* bound on renamings at X
          MaxFailures   \* MAX_REFRESH_FAILURES

NoSubject == "none"
ASSUME IdentityAssumption == /\ IsFiniteSet(Members) /\ FirstHandle \in [XSubjects -> Handles] /\ NoSubject \notin XSubjects \cup GoogleSubjects
                             /\ {MaxLinked, ReadsCap, MaxRenames, MaxFailures} \subseteq Nat

VARIABLES member,     \* member[u]: [made, creator, email, active]
          identity,   \* user_identities: identity[u][provider] is a subject or NoSubject
          xcopy,      \* x_profiles: xcopy[u] is NoCopy or [id, handle, link, old, asked, gone, failures]
          social,     \* live X social_accounts: social[h] is [owner, verified], at most one for a handle
          oauth,      \* oauth[f]: [stage, provider, purpose, user, creator, subject, handle]
          xhandle,    \* the usernames at X
          signedIn,   \* accounts with a live session
          lookup,     \* the refresh in flight: the candidates it read
          reads,      \* profiles X returned this month
          renames,
          wallet      \* wallet: the account the address is linked to, challenge: [user, used] of the open proof

identityVars == <<member, identity, xcopy, social, oauth, xhandle, signedIn, lookup, reads, renames, wallet>>

NoMember == "nobody"
NoHandle == "unnamed"
NoCopy == [id |-> NoSubject, handle |-> NoHandle, link |-> NoHandle, old |-> FALSE, asked |-> FALSE, gone |-> FALSE, failures |-> 0]
NoFlow == [stage |-> "NONE", provider |-> "X", purpose |-> "SIGN_IN", user |-> NoMember, creator |-> FALSE,
           subject |-> NoSubject, handle |-> NoHandle]
Unlisted == [owner |-> NoMember, verified |-> FALSE]
NoLookup == [by |-> NoMember, candidates |-> {}]

IdentityInit ==
    /\ member = [u \in Members |-> [made |-> FALSE, creator |-> FALSE, email |-> FALSE, active |-> TRUE]]
    /\ identity = [u \in Members |-> [p \in {"X", "GOOGLE"} |-> NoSubject]]
    /\ xcopy = [u \in Members |-> NoCopy]
    /\ social = [h \in Handles |-> Unlisted]
    /\ oauth = [f \in Flows |-> NoFlow]
    /\ xhandle = FirstHandle /\ signedIn = {} /\ lookup = NoLookup /\ reads = 0 /\ renames = 0
    /\ wallet = [owner |-> NoMember, challenge |-> NoMember]

----------------------------------------------------------------------------
(* OAuth attempts. *)

\* assertBudget, before a connection or the owner's refresh; a sign-in never waits for it.
WithinBudget == reads < ReadsCap

StartFlow(f, p, purpose, u, creator) ==
    /\ oauth[f].stage = "NONE"
    /\ oauth' = [oauth EXCEPT ![f] = [NoFlow EXCEPT !.stage = "STARTED", !.provider = p, !.purpose = purpose, !.user = u, !.creator = creator]]
    /\ UNCHANGED <<member, identity, xcopy, social, xhandle, signedIn, lookup, reads, renames, wallet>>

StartXConnect(f, u) == /\ u \in signedIn /\ member[u].active /\ member[u].creator /\ WithinBudget
                       /\ StartFlow(f, "X", "CONNECT", u, FALSE)

\* The account type is chosen to sign up and is not asked of somebody who signs in.
StartXSignIn(f, purpose, creator) == /\ purpose = "SIGN_IN" => ~creator
                                     /\ StartFlow(f, "X", purpose, NoMember, creator)

StartGoogle(f, purpose, u, creator) == /\ IF purpose = "CONNECT" THEN u \in signedIn /\ member[u].active ELSE u = NoMember
                                       /\ purpose # "SIGN_UP" => ~creator
                                       /\ StartFlow(f, "GOOGLE", purpose, u, creator)

Over(f) == oauth' = [oauth EXCEPT ![f] = [NoFlow EXCEPT !.stage = "OVER"]]

\* The ten minutes pass, consent is refused, or the provider fails: nothing is connected.
FlowFails(f) == /\ oauth[f].stage \in {"STARTED", "CLAIMED"} /\ Over(f)
                /\ UNCHANGED <<member, identity, xcopy, social, xhandle, signedIn, lookup, reads, renames, wallet>>

\* The callback claims its state once; a connection belongs to the account still signed in.
ClaimState(f) ==
    /\ oauth[f].stage = "STARTED"
    /\ oauth[f].purpose = "CONNECT" => oauth[f].user \in signedIn
    /\ oauth' = [oauth EXCEPT ![f].stage = "CLAIMED"]
    /\ UNCHANGED <<member, identity, xcopy, social, xhandle, signedIn, lookup, reads, renames, wallet>>

\* signedInProfile of X: the account the browser is signed in to there, as it is named now.
SignedInProfile(f, s) ==
    /\ oauth[f].stage = "CLAIMED" /\ oauth[f].provider = "X"
    /\ oauth' = [oauth EXCEPT ![f].stage = "READ", ![f].subject = s, ![f].handle = xhandle[s]]
    /\ reads' = IF reads <= ReadsCap THEN reads + 1 ELSE reads
    /\ UNCHANGED <<member, identity, xcopy, social, xhandle, signedIn, lookup, renames, wallet>>

\* signedInProfile of Google: an account id with a verified email; any other answer fails the attempt.
GoogleProfile(f, s) ==
    /\ oauth[f].stage = "CLAIMED" /\ oauth[f].provider = "GOOGLE"
    /\ oauth' = [oauth EXCEPT ![f].stage = "READ", ![f].subject = s]
    /\ UNCHANGED <<member, identity, xcopy, social, xhandle, signedIn, lookup, reads, renames, wallet>>

----------------------------------------------------------------------------
(* Saving the result. *)

Holders(p, s) == {u \in Members : identity[u][p] = s}

\* unverifyLinkedAccount
Unverified(accounts, u, h) ==
    IF h # NoHandle /\ accounts[h].owner = u THEN [accounts EXCEPT ![h].verified = FALSE] ELSE accounts

Listed(u) == {h \in Handles : social[h].owner = u}

\* linkSocialAccount: a free or own handle is verified, unless the account already lists too many.
Links(u, h) == social[h].owner = u \/ Cardinality(Listed(u)) < MaxLinked

\* saveConnection, under the lock on this X account.
OwnedByAnother(u, s) == \E v \in Members \ {u} : identity[v]["X"] = s \/ xcopy[v].id = s

SaveConnection(u, creator, s, h) ==
    LET replaced == xcopy[u].id \notin {NoSubject, s}
        accounts == IF replaced THEN Unverified(social, u, xcopy[u].link) ELSE social
        link     == IF creator /\ Links(u, h) THEN h ELSE NoHandle
    IN  /\ ~OwnedByAnother(u, s)
        /\ creator => social[h].owner \in {NoMember, u}
        /\ identity' = [identity EXCEPT ![u]["X"] = s]
        /\ social' = IF link = NoHandle THEN accounts ELSE [accounts EXCEPT ![h] = [owner |-> u, verified |-> TRUE]]
        /\ xcopy' = [xcopy EXCEPT ![u] = [NoCopy EXCEPT !.id = s, !.handle = h, !.link = link]]

\* completeXConnect; a refusal of saveConnection leaves everything as it was.
FinishXConnect(f) ==
    LET u == oauth[f].user IN
    /\ oauth[f].stage = "READ" /\ oauth[f].provider = "X" /\ oauth[f].purpose = "CONNECT"
    /\ Over(f)
    /\ \/ SaveConnection(u, TRUE, oauth[f].subject, oauth[f].handle)
       \/ /\ OwnedByAnother(u, oauth[f].subject) \/ social[oauth[f].handle].owner \notin {NoMember, u}
          /\ UNCHANGED <<identity, xcopy, social>>
    /\ UNCHANGED <<member, xhandle, signedIn, lookup, reads, renames, wallet>>

NewMember(u, creator) == /\ ~member[u].made
                         /\ member' = [member EXCEPT ![u].made = TRUE, ![u].creator = creator]

Refreshed(copy, h) == [copy EXCEPT !.handle = h, !.old = FALSE, !.asked = FALSE, !.gone = FALSE, !.failures = 0]

\* completeXSignIn: a known X account signs in and its copy is brought up to date; an unknown one makes an account on sign-up.
FinishXSignIn(f) ==
    LET s == oauth[f].subject
        h == oauth[f].handle
    IN  /\ oauth[f].stage = "READ" /\ oauth[f].provider = "X" /\ oauth[f].purpose # "CONNECT" /\ Over(f)
        /\ \/ \E u \in Holders("X", s) :
                 /\ signedIn' = signedIn \union {u}
                 /\ xcopy' = IF xcopy[u].id = s THEN [xcopy EXCEPT ![u] = Refreshed(@, h)] ELSE xcopy
                 /\ UNCHANGED <<member, identity, social>>
           \/ \E u \in Members :
                 /\ Holders("X", s) = {} /\ oauth[f].purpose = "SIGN_UP"
                 /\ NewMember(u, oauth[f].creator) /\ SaveConnection(u, oauth[f].creator, s, h)
                 /\ signedIn' = signedIn \union {u}
           \/ /\ Holders("X", s) = {}
              /\ oauth[f].purpose = "SIGN_IN" \/ social[h].owner # NoMember
              /\ UNCHANGED <<member, identity, xcopy, social, signedIn>>
        /\ UNCHANGED <<xhandle, lookup, reads, renames, wallet>>

\* completeGoogle, under the lock on this Google account.
FinishGoogle(f) ==
    LET s == oauth[f].subject
        owners == Holders("GOOGLE", s)
    IN  /\ oauth[f].stage = "READ" /\ oauth[f].provider = "GOOGLE" /\ Over(f)
        /\ \/ /\ oauth[f].purpose = "CONNECT"
              /\ identity' = IF owners \subseteq {oauth[f].user} THEN [identity EXCEPT ![oauth[f].user]["GOOGLE"] = s] ELSE identity
              /\ UNCHANGED <<member, signedIn>>
           \/ /\ oauth[f].purpose = "SIGN_UP" /\ owners = {}
              /\ \E u \in Members : /\ NewMember(u, oauth[f].creator) /\ signedIn' = signedIn \union {u}
                                    /\ identity' = [identity EXCEPT ![u]["GOOGLE"] = s]
           \/ /\ oauth[f].purpose # "CONNECT" /\ signedIn' = signedIn \union owners
              /\ oauth[f].purpose = "SIGN_UP" => owners # {}
              /\ UNCHANGED <<member, identity>>
        /\ UNCHANGED <<xcopy, social, xhandle, lookup, reads, renames, wallet>>

----------------------------------------------------------------------------
(* Settings. *)

\* Mutant: the identity that is being removed counts as another way in.
KeepsAnySignIn(u, removing) == member[u].email \/ \E p \in {"X", "GOOGLE"} : identity[u][p] # NoSubject

KeepsAnotherSignIn(u, removing) == member[u].email \/ \E p \in {"X", "GOOGLE"} \ {removing} : identity[u][p] # NoSubject

\* Both hold the account's row, so they happen one after the other.
DisconnectX(u) ==
    /\ u \in signedIn /\ xcopy[u] # NoCopy /\ KeepsAnotherSignIn(u, "X")
    /\ xcopy' = [xcopy EXCEPT ![u] = NoCopy]
    /\ identity' = [identity EXCEPT ![u]["X"] = NoSubject]
    /\ social' = Unverified(social, u, xcopy[u].link)
    /\ UNCHANGED <<member, oauth, xhandle, signedIn, lookup, reads, renames, wallet>>

DisconnectGoogle(u) ==
    /\ u \in signedIn /\ identity[u]["GOOGLE"] # NoSubject /\ KeepsAnotherSignIn(u, "GOOGLE")
    /\ identity' = [identity EXCEPT ![u]["GOOGLE"] = NoSubject]
    /\ UNCHANGED <<member, xcopy, social, oauth, xhandle, signedIn, lookup, reads, renames, wallet>>

AddEmail(u) == /\ u \in signedIn /\ ~member[u].email
               /\ member' = [member EXCEPT ![u].email = TRUE]
               /\ UNCHANGED <<identity, xcopy, social, oauth, xhandle, signedIn, lookup, reads, renames, wallet>>

\* A password sign-in that verifies; one that does not only adds to the count that makes the address wait.
Login(u) == /\ member[u].email /\ signedIn' = signedIn \union {u}
            /\ UNCHANGED <<member, identity, xcopy, social, oauth, xhandle, lookup, reads, renames, wallet>>

Logout(u) == /\ u \in signedIn /\ signedIn' = signedIn \ {u}
             /\ UNCHANGED <<member, identity, xcopy, social, oauth, xhandle, lookup, reads, renames, wallet>>

AddSocialAccount(u, h) ==
    /\ u \in signedIn /\ member[u].creator /\ social[h].owner = NoMember /\ Cardinality(Listed(u)) < MaxLinked
    /\ social' = [social EXCEPT ![h].owner = u]
    /\ UNCHANGED <<member, identity, xcopy, oauth, xhandle, signedIn, lookup, reads, renames, wallet>>

\* The row stays, removed: a copy or a refresh that still names it changes nothing anyone sees.
RemoveSocialAccount(u, h) ==
    /\ u \in signedIn /\ social[h].owner = u
    /\ social' = [social EXCEPT ![h] = Unlisted]
    /\ xcopy' = [xcopy EXCEPT ![u].link = IF @ = h THEN NoHandle ELSE @]
    /\ lookup' = [lookup EXCEPT !.candidates = {IF c.user = u /\ c.link = h THEN [c EXCEPT !.link = NoHandle] ELSE c : c \in @}]
    /\ UNCHANGED <<member, identity, oauth, xhandle, signedIn, reads, renames, wallet>>

----------------------------------------------------------------------------
(* The saved X profile. *)

\* At X: an account takes a username nobody has.
XRenames(s, h) == /\ renames < MaxRenames /\ renames' = renames + 1
                  /\ \A t \in XSubjects : xhandle[t] # h
                  /\ xhandle' = [xhandle EXCEPT ![s] = h]
                  /\ UNCHANGED <<member, identity, xcopy, social, oauth, signedIn, lookup, reads, wallet>>

CopyAges(u) == /\ xcopy[u] # NoCopy /\ ~xcopy[u].old /\ xcopy' = [xcopy EXCEPT ![u].old = TRUE]
               /\ UNCHANGED <<member, identity, social, oauth, xhandle, signedIn, lookup, reads, renames, wallet>>

\* requestXRefresh: someone looks at an old copy.
RequestXRefresh(u) ==
    /\ xcopy[u].old /\ ~xcopy[u].asked /\ ~xcopy[u].gone
    /\ xcopy' = [xcopy EXCEPT ![u].asked = TRUE]
    /\ UNCHANGED <<member, identity, social, oauth, xhandle, signedIn, lookup, reads, renames, wallet>>

Candidate(u) == [user |-> u, id |-> xcopy[u].id, handle |-> xcopy[u].handle, link |-> xcopy[u].link]

\* refreshRequestedXProfiles, up to the lookup.
JobReads ==
    LET asked == {u \in Members : xcopy[u].asked /\ ~xcopy[u].gone /\ xcopy[u].failures < MaxFailures}
    IN  /\ lookup = NoLookup /\ WithinBudget
        /\ \E us \in SUBSET asked : /\ us # {} /\ Cardinality(us) <= ReadsCap - reads
                                    /\ Cardinality(us) = Cardinality(asked) \/ Cardinality(us) = ReadsCap - reads
                                    /\ lookup' = [by |-> "job", candidates |-> {Candidate(u) : u \in us}]
        /\ UNCHANGED <<member, identity, xcopy, social, oauth, xhandle, signedIn, reads, renames, wallet>>

\* refreshOwnXProfile, up to the lookup.
OwnerReads(u) ==
    /\ lookup = NoLookup /\ u \in signedIn /\ xcopy[u] # NoCopy /\ xcopy[u].old /\ WithinBudget
    /\ lookup' = [by |-> u, candidates |-> {Candidate(u)}]
    /\ UNCHANGED <<member, identity, xcopy, social, oauth, xhandle, signedIn, reads, renames, wallet>>

\* followRename for the candidates that were found under another name than the one they were read with.
Follow(c, accounts) ==
    LET h == xhandle[c.id] IN
    IF /\ c.link # NoHandle /\ c.handle # h /\ h # c.link
       /\ accounts[h].owner = NoMember
       /\ accounts[c.link].owner = c.user /\ accounts[c.link].verified
    THEN [accounts EXCEPT ![h] = accounts[c.link], ![c.link] = Unlisted]
    ELSE accounts

\* applyLookup for one candidate; a copy that meanwhile belongs to another X account is left alone.
Found(rows, c) ==
    LET accounts == Follow(c, rows.social)
        link(l) == IF accounts # rows.social /\ l = c.link THEN xhandle[c.id] ELSE l
        copy == IF rows.xcopy[c.user].id = c.id THEN Refreshed(rows.xcopy[c.user], xhandle[c.id]) ELSE rows.xcopy[c.user]
    IN  [social |-> accounts, xcopy |-> [rows.xcopy EXCEPT ![c.user] = [copy EXCEPT !.link = link(@)]]]

Missing(rows, c) ==
    IF rows.xcopy[c.user].id # c.id THEN rows
    ELSE [rows EXCEPT !.xcopy[c.user].gone = TRUE, !.xcopy[c.user].asked = FALSE]

\* The rows after the candidates were written in order, each on what the ones before it left.
ApplyLookup(found, order) ==
    LET rows[n \in 0..Len(order)] ==
            IF n = 0 THEN [social |-> social, xcopy |-> xcopy]
            ELSE IF order[n] \in found THEN Found(rows[n - 1], order[n]) ELSE Missing(rows[n - 1], order[n])
    IN  rows[Len(order)]

\* X answers: the profiles it returned are counted, and all candidates are written in one transaction, in order.
LookupAnswered ==
    /\ lookup # NoLookup /\ lookup' = NoLookup
    /\ \E found \in SUBSET lookup.candidates, order \in SetToSeqs(lookup.candidates) :
          /\ social' = ApplyLookup(found, order).social /\ xcopy' = ApplyLookup(found, order).xcopy
          /\ reads' = reads + Cardinality(found)
    /\ UNCHANGED <<member, identity, oauth, xhandle, signedIn, renames, wallet>>

\* X fails; the job counts it against its candidates.
LookupFails ==
    /\ lookup # NoLookup /\ lookup' = NoLookup
    /\ xcopy' = [u \in Members |-> IF lookup.by = "job" /\ xcopy[u] # NoCopy /\ \E c \in lookup.candidates : c.user = u
                                   THEN [xcopy[u] EXCEPT !.failures = @ + 1] ELSE xcopy[u]]
    /\ UNCHANGED <<member, identity, social, oauth, xhandle, signedIn, reads, renames, wallet>>

----------------------------------------------------------------------------
(* Proof of control of one wallet address. *)

CreateWalletChallenge(u) == /\ u \in signedIn /\ wallet.challenge = NoMember
                            /\ wallet' = [wallet EXCEPT !.challenge = u]
                            /\ UNCHANGED <<member, identity, xcopy, social, oauth, xhandle, signedIn, lookup, reads, renames>>

\* Consumed on success; refused, and rolled back, when the address is linked to another account.
VerifyWalletChallenge(u) == /\ u \in signedIn /\ wallet.challenge = u /\ wallet.owner \in {NoMember, u}
                            /\ wallet' = [owner |-> u, challenge |-> NoMember]
                            /\ UNCHANGED <<member, identity, xcopy, social, oauth, xhandle, signedIn, lookup, reads, renames>>

OAuthNext == \E f \in Flows :
    \/ \E u \in Members : StartXConnect(f, u)
    \/ \E purpose \in {"SIGN_IN", "SIGN_UP"}, creator \in BOOLEAN : StartXSignIn(f, purpose, creator)
    \/ \E purpose \in {"CONNECT", "SIGN_IN", "SIGN_UP"}, u \in Members \cup {NoMember}, creator \in BOOLEAN : StartGoogle(f, purpose, u, creator)
    \/ FlowFails(f) \/ ClaimState(f) \/ FinishXConnect(f) \/ FinishXSignIn(f) \/ FinishGoogle(f)
    \/ \E s \in XSubjects : SignedInProfile(f, s)
    \/ \E s \in GoogleSubjects : GoogleProfile(f, s)

SettingsNext == \E u \in Members :
    \/ DisconnectX(u) \/ DisconnectGoogle(u) \/ AddEmail(u) \/ Login(u) \/ Logout(u)
    \/ CreateWalletChallenge(u) \/ VerifyWalletChallenge(u)
    \/ \E h \in Handles : AddSocialAccount(u, h) \/ RemoveSocialAccount(u, h)

RefreshNext == \/ \E u \in Members : CopyAges(u) \/ RequestXRefresh(u) \/ OwnerReads(u)
               \/ \E s \in XSubjects, h \in Handles : XRenames(s, h)
               \/ JobReads \/ LookupAnswered \/ LookupFails

IdentityNext == OAuthNext \/ SettingsNext \/ RefreshNext

----------------------------------------------------------------------------
\* Whatever attempts, disconnections and refreshes overlap: an X or Google account opens one account, the X sign-in and
\* the saved profile name the same X account, and an account that was made always keeps a way in (completeXConnect,
\* completeXSignIn, completeGoogle, disconnectX, disconnectGoogle, applyLookup).
OneWayIn ==
    /\ \A p \in {"X", "GOOGLE"}, u, v \in Members : u # v /\ identity[u][p] # NoSubject => identity[u][p] # identity[v][p]
    /\ \A u \in Members : xcopy[u].id = identity[u]["X"]
    /\ \A u \in Members : member[u].made => member[u].email \/ \E p \in {"X", "GOOGLE"} : identity[u][p] # NoSubject
=============================================================================
