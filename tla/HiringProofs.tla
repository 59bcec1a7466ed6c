---------------------------- MODULE HiringProofs ----------------------------
(***************************************************************************)
(* Proofs about money that several hires or refunds draw on, for any       *)
(* number of applicants, quotes, attempts and hires: the budget of a       *)
(* request, refunds after the creator was paid, and campaign pools.        *)
(***************************************************************************)
EXTENDS HireRequests, AfterRelease, Pools, TotalsTheorems

-----------------------------------------------------------------------------
(* Requests and hire offers *)

HireSpec == HireInit /\ [][HireNext]_hireVars

RequestRows == [status : {"OPEN", "FILLED", "CLOSED", "CANCELLED"}, model : {"FIXED", "PERFORMANCE"}, budget : Nat, cap : Nat, target : Nat,
                edits : Nat, reserved : Int, committed : Int, reservedHires : Int, committedHires : Int]
OfferRows == [status : {"NONE", "OFFERED", "ACCEPTED", "WITHDRAWN", "DECLINED", "EXPIRED", "LAPSED"}, amount : Nat, due : BOOLEAN]
ApplicationRows == [status : {"NONE", "SUBMITTED", "OFFERED", "ACCEPTED", "WITHDRAWN", "DECLINED"}, version : Nat, quote : Nat]

HireTypes ==
    /\ request \in RequestRows /\ offer \in [Applicants -> OfferRows] /\ application \in [Applicants -> ApplicationRows]
    /\ seen \in [Applicants -> [version : Nat, quote : Nat]]
    /\ reservation \in [Applicants -> {"NONE", "HELD", "COMMITTED", "RELEASED"}]
    /\ hire \in [Applicants -> {"NONE", "AWAITING_PAYMENT", "FUNDED", "CANCELLED", "REFUNDED"}]

\* A hold, its offer, its order and the application tell one story.
HoldFits(status, held, order, app) ==
    /\ status = "OFFERED" => held = "HELD" /\ order = "NONE" /\ app = "OFFERED"
    /\ status = "ACCEPTED" => /\ <<held, order>> \in {<<"HELD", "AWAITING_PAYMENT">>, <<"COMMITTED", "FUNDED">>, <<"RELEASED", "REFUNDED">>}
                              /\ app = "ACCEPTED"
    /\ status \notin {"OFFERED", "ACCEPTED"} => held \in {"NONE", "RELEASED"} /\ order \in {"NONE", "CANCELLED"}

\* The buyer's page is at most behind, and a live offer is for what it shows.
PageFits(app, page, o, model) ==
    /\ page.version <= app.version /\ (page.version = app.version => page.quote = app.quote)
    /\ o.status \in {"OFFERED", "ACCEPTED"} =>
          page.version = app.version /\ o.amount = IF model = "PERFORMANCE" THEN BaseFee + BonusCap ELSE page.quote

Counters(r) ==
    /\ r.reserved = OfferSum(HeldOn("HELD")) /\ r.reservedHires = Cardinality(HeldOn("HELD"))
    /\ r.committed = OfferSum(HeldOn("COMMITTED")) /\ r.committedHires = Cardinality(HeldOn("COMMITTED"))

WithinBudget(r) ==
    /\ r.reserved + r.committed <= r.budget /\ r.reservedHires + r.committedHires <= r.target
    /\ r.status = "OPEN" => r.committedHires < r.target
    /\ r.status = "FILLED" => r.committedHires >= r.target

HireInv ==
    /\ HireTypes /\ Counters(request) /\ WithinBudget(request)
    /\ \A c \in Applicants : /\ HoldFits(offer[c].status, reservation[c], hire[c], application[c].status)
                             /\ PageFits(application[c], seen[c], offer[c], request.model)

LEMMA HireInitHolds == HireInit => HireInv
<1> SUFFICES ASSUME HireInit PROVE HireInv
    OBVIOUS
<1>1. PICK model \in {"FIXED", "PERFORMANCE"}, b \in Budgets : CreateRequest(model, b)
    BY DEF HireInit
<1>2. b.budget \in Nat \ {0} /\ b.cap \in Nat /\ b.target \in Nat \ {0}
    BY HireAssumption
<1>3. request \in RequestRows /\ request.status = "OPEN" /\ request.reserved = 0 /\ request.committed = 0 /\ request.reservedHires = 0
      /\ request.committedHires = 0 /\ request.target > 0 /\ request.budget > 0
    BY <1>1, <1>2 DEF CreateRequest, RequestRows
<1>4. HireTypes
    BY <1>3 DEF HireInit, HireTypes, OfferRows, ApplicationRows, NoOffer, NoApplication
<1>5. HeldOn("HELD") = {} /\ HeldOn("COMMITTED") = {}
    BY DEF HireInit, HeldOn
<1>6. Counters(request)
    BY <1>3, <1>5, TotalEmpty, FS_EmptySet DEF Counters, OfferSum
<1>7. WithinBudget(request)
    BY <1>3 DEF WithinBudget, RequestRows
<1>8. \A c \in Applicants : /\ HoldFits(offer[c].status, reservation[c], hire[c], application[c].status)
                            /\ PageFits(application[c], seen[c], offer[c], request.model)
    BY DEF HireInit, HoldFits, PageFits, NoOffer, NoApplication
<1> QED
    BY <1>4, <1>6, <1>7, <1>8 DEF HireInv

\* One entry c, of amount n, goes from state was to state new; S and T hold the entries in one state before and after, f and g the amounts.
EntryMoves(f, g, S, T, all, c, n, was, new, state) ==
    /\ IsFiniteSet(all) /\ S \in SUBSET all /\ T \in SUBSET all /\ c \in all /\ n \in Nat
    /\ \A x \in all : f[x] \in Nat /\ (x # c => g[x] = f[x]) /\ (x # c => (x \in T <=> x \in S))
    /\ g[c] = n /\ (was = state => f[c] = n) /\ (c \in S <=> was = state) /\ (c \in T <=> new = state)

\* A total, and the number of its entries, when one entry moves in or out of it.
LEMMA MovedTotal ==
    ASSUME NEW f, NEW g, NEW S, NEW T, NEW all, NEW c, NEW n, NEW was, NEW new, NEW state,
           EntryMoves(f, g, S, T, all, c, n, was, new, state)
    PROVE  /\ Total(g, T) = Total(f, S) + Change(new, was, state, n)
           /\ Cardinality(T) = Cardinality(S) + Change(new, was, state, 1)
<1> USE DEF EntryMoves
<1> DEFINE R == S \ {c}
<1>1. IsFiniteSet(S) /\ IsFiniteSet(R) /\ S \subseteq all
  <2>1. IsFiniteSet(all) /\ S \subseteq all /\ R \subseteq all
      OBVIOUS
  <2> QED
      BY <2>1, FS_Subset
<1>2. Amounts(f, S) /\ Amounts(g, R) /\ Amounts(f, R)
    BY <1>1 DEF Amounts
<1>3. Total(g, R) = Total(f, R)
    BY TotalSame
<1>4. Total(f, S) = Total(f, R) + (IF was = state THEN n ELSE 0) /\ Total(f, R) \in Nat
  <2>1. CASE was = state
    <3>1. c \in S
        BY <2>1
    <3>2. Total(f, R) = Total(f, S) - f[c] /\ Total(f, S) \in Nat /\ Total(f, R) \in Nat
        BY <1>2, <3>1, TotalRemove, TotalNat
    <3> HIDE DEF R
    <3> QED
        BY <2>1, <3>2
  <2>2. CASE was # state
    <3>1. R = S
        BY <2>2
    <3> HIDE DEF R
    <3> QED
        BY <1>2, <2>2, <3>1, TotalNat
  <2> QED
      BY <2>1, <2>2
<1>5. Total(g, T) = Total(g, R) + (IF new = state THEN n ELSE 0)
  <2>1. CASE new = state
    <3>1. T = R \cup {c} /\ c \notin R
        BY <2>1
    <3> HIDE DEF R
    <3> QED
        BY <1>2, <2>1, <3>1, TotalAdd
  <2>2. CASE new # state
    <3>1. T = R
        BY <2>2
    <3> HIDE DEF R
    <3> QED
        BY <1>3, <1>4, <2>2, <3>1
  <2> QED
      BY <2>1, <2>2
<1>6. Cardinality(S) = Cardinality(R) + (IF was = state THEN 1 ELSE 0) /\ Cardinality(R) \in Nat
  <2>1. CASE was = state
    <3>1. c \in S
        BY <2>1
    <3>2. Cardinality(R) = Cardinality(S) - 1 /\ Cardinality(S) \in Nat /\ Cardinality(R) \in Nat
        BY <1>1, <3>1, FS_RemoveElement, FS_CardinalityType
    <3> HIDE DEF R
    <3> QED
        BY <2>1, <3>2
  <2>2. CASE was # state
    <3>1. R = S
        BY <2>2
    <3> HIDE DEF R
    <3> QED
        BY <1>1, <2>2, <3>1, FS_CardinalityType
  <2> QED
      BY <2>1, <2>2
<1>7. Cardinality(T) = Cardinality(R) + (IF new = state THEN 1 ELSE 0)
  <2>1. CASE new = state
    <3>1. T = R \cup {c} /\ c \notin R
        BY <2>1
    <3> HIDE DEF R
    <3> QED
        BY <1>1, <2>1, <3>1, FS_AddElement
  <2>2. CASE new # state
    <3>1. T = R
        BY <2>2
    <3> HIDE DEF R
    <3> QED
        BY <1>6, <2>2, <3>1
  <2> QED
      BY <2>1, <2>2
<1> HIDE DEF R
<1>8. Total(g, T) = Total(f, S) + Change(new, was, state, n)
    BY <1>3, <1>4, <1>5 DEF Change
<1>9. Cardinality(T) = Cardinality(S) + Change(new, was, state, 1)
    BY <1>6, <1>7 DEF Change
<1> QED
    BY <1>8, <1>9

\* What the trigger on a reservation writes to the request.
LEMMA CountedRow ==
    ASSUME NEW r \in RequestRows, NEW was, NEW new, NEW n \in Nat
    PROVE  LET q == Counted(r, was, new, n) IN
           /\ q \in RequestRows /\ q.model = r.model /\ q.budget = r.budget /\ q.target = r.target
           /\ q.reserved = r.reserved + Change(new, was, "HELD", n) /\ q.reservedHires = r.reservedHires + Change(new, was, "HELD", 1)
           /\ q.committed = r.committed + Change(new, was, "COMMITTED", n)
           /\ q.committedHires = r.committedHires + Change(new, was, "COMMITTED", 1)
           /\ (r.status = "OPEN" => r.committedHires < r.target) /\ (r.status = "FILLED" => r.committedHires >= r.target) =>
                 (q.status = "OPEN" => q.committedHires < q.target) /\ (q.status = "FILLED" => q.committedHires >= q.target)
<1>1. \A state : \A m \in Nat : Change(new, was, state, m) \in Int
    BY DEF Change
<1> DEFINE hires == r.committedHires + Change(new, was, "COMMITTED", 1)
           status == IF r.status = "OPEN" /\ hires >= r.target THEN "FILLED"
                     ELSE IF r.status = "FILLED" /\ hires < r.target
                     THEN IF hireClock # "over" THEN "OPEN" ELSE "CLOSED" ELSE r.status
           reserved == r.reserved + Change(new, was, "HELD", n)
           reservedHires == r.reservedHires + Change(new, was, "HELD", 1)
           committed == r.committed + Change(new, was, "COMMITTED", n)
<1>2. /\ hires \in Int /\ reserved \in Int /\ reservedHires \in Int /\ committed \in Int /\ r.target \in Nat
      /\ status \in {"OPEN", "FILLED", "CLOSED", "CANCELLED"}
    BY <1>1 DEF RequestRows
<1>3. /\ (r.status = "OPEN" => r.committedHires < r.target) /\ (r.status = "FILLED" => r.committedHires >= r.target) =>
           (status = "OPEN" => hires < r.target) /\ (status = "FILLED" => hires >= r.target)
  <2>1. hires \in Int /\ r.target \in Nat
      BY <1>2
  <2> HIDE DEF hires
  <2> QED
      BY <2>1
<1>4. Counted(r, was, new, n) = [r EXCEPT !.reserved = reserved, !.reservedHires = reservedHires, !.committed = committed,
                                          !.committedHires = hires, !.status = status]
    BY DEF Counted, RequestRows
<1> HIDE DEF hires, status, reserved, reservedHires, committed
<1> DEFINE q == [r EXCEPT !.reserved = reserved, !.reservedHires = reservedHires, !.committed = committed,
                          !.committedHires = hires, !.status = status]
<1>5. /\ q \in RequestRows /\ q.model = r.model /\ q.budget = r.budget /\ q.target = r.target
      /\ q.reserved = reserved /\ q.reservedHires = reservedHires /\ q.committed = committed /\ q.committedHires = hires /\ q.status = status
    BY <1>2 DEF RequestRows
<1> HIDE DEF q
<1>6. /\ q.reserved = r.reserved + Change(new, was, "HELD", n) /\ q.reservedHires = r.reservedHires + Change(new, was, "HELD", 1)
      /\ q.committed = r.committed + Change(new, was, "COMMITTED", n)
      /\ q.committedHires = r.committedHires + Change(new, was, "COMMITTED", 1)
    BY <1>5 DEF hires, reserved, reservedHires, committed
<1>7. Counted(r, was, new, n) = q
    BY <1>4 DEF q
<1> QED
    BY <1>3, <1>5, <1>6, <1>7

\* A creator's hold moves, with what it counts for: the counters follow, and stay within the budget if they did before.
LEMMA HoldKeeps ==
    ASSUME HireInv, NEW c \in Applicants, NEW was, NEW new, NEW o \in OfferRows,
           reservation[c] \in {"HELD", "COMMITTED"} => offer[c].amount = o.amount,
           \A state \in {"HELD", "COMMITTED"} : was = state <=> reservation[c] = state,
           request' = Counted(request, was, new, o.amount),
           reservation' = [reservation EXCEPT ![c] = new], offer' = [offer EXCEPT ![c] = o],
           request.reserved + request.committed + Change(new, was, "HELD", o.amount) + Change(new, was, "COMMITTED", o.amount) <= request.budget,
           request.reservedHires + request.committedHires + Change(new, was, "HELD", 1) + Change(new, was, "COMMITTED", 1) <= request.target
    PROVE  request' \in RequestRows /\ request'.model = request.model /\ Counters(request)' /\ WithinBudget(request)'
<1> DEFINE f == [x \in Applicants |-> offer[x].amount]
           g == [x \in Applicants |-> offer'[x].amount]
           n == o.amount
<1>1. /\ DOMAIN reservation = Applicants /\ request \in RequestRows /\ offer \in [Applicants -> OfferRows] /\ n \in Nat
      /\ Counters(request) /\ WithinBudget(request)
    BY DEF HireInv, HireTypes, OfferRows
<1>2. \A x \in Applicants : f[x] \in Nat
    BY <1>1 DEF OfferRows
<1>3. (\A x \in Applicants : x # c => g[x] = f[x]) /\ g[c] = n
    BY <1>1
<1>4. reservation[c] \in {"HELD", "COMMITTED"} => f[c] = n
    OBVIOUS
<1>5. ASSUME NEW state \in {"HELD", "COMMITTED"}
      PROVE  /\ Total(g, HeldOn(state)') = Total(f, HeldOn(state)) + Change(new, was, state, n)
             /\ Cardinality(HeldOn(state)') = Cardinality(HeldOn(state)) + Change(new, was, state, 1)
  <2>1. reservation[c] = state => f[c] = n
      BY <1>4
  <2>2. HeldOn(state) \in SUBSET Applicants /\ HeldOn(state)' \in SUBSET Applicants
      BY DEF HeldOn
  <2>3. /\ \A x \in Applicants : x # c => (x \in HeldOn(state)' <=> x \in HeldOn(state))
        /\ (c \in HeldOn(state) <=> was = state) /\ (c \in HeldOn(state)' <=> new = state)
      BY <1>1 DEF HeldOn
  <2>4. was = state => f[c] = n
      BY <2>1
  <2>5. EntryMoves(f, g, HeldOn(state), HeldOn(state)', Applicants, c, n, was, new, state)
    <3> HIDE DEF f, g, n
    <3> QED
        BY <1>1, <1>2, <1>3, <2>2, <2>3, <2>4, HireAssumption DEF EntryMoves
  <2> HIDE DEF f, g, n
  <2> QED
      BY <2>5, MovedTotal, SMT
<1>6. OfferSum(HeldOn("HELD")) = Total(f, HeldOn("HELD")) /\ OfferSum(HeldOn("COMMITTED")) = Total(f, HeldOn("COMMITTED"))
    BY DEF OfferSum
<1>7. OfferSum(HeldOn("HELD"))' = Total(g, HeldOn("HELD")') /\ OfferSum(HeldOn("COMMITTED"))' = Total(g, HeldOn("COMMITTED")')
    BY DEF OfferSum
<1> DEFINE q == Counted(request, was, new, n)
<1>8. /\ q \in RequestRows /\ q.model = request.model /\ q.budget = request.budget /\ q.target = request.target
      /\ q.reserved = request.reserved + Change(new, was, "HELD", n)
      /\ q.reservedHires = request.reservedHires + Change(new, was, "HELD", 1)
      /\ q.committed = request.committed + Change(new, was, "COMMITTED", n)
      /\ q.committedHires = request.committedHires + Change(new, was, "COMMITTED", 1)
      /\ (q.status = "OPEN" => q.committedHires < q.target) /\ (q.status = "FILLED" => q.committedHires >= q.target)
  <2> HIDE DEF n
  <2> QED
      BY <1>1, CountedRow DEF WithinBudget
<1>9. request' = q
    OBVIOUS
<1>10. /\ Change(new, was, "HELD", n) \in Int /\ Change(new, was, "HELD", 1) \in Int
       /\ Change(new, was, "COMMITTED", n) \in Int /\ Change(new, was, "COMMITTED", 1) \in Int
    BY <1>1 DEF Change
<1>11. request.reserved + request.committed + Change(new, was, "HELD", n) + Change(new, was, "COMMITTED", n) <= request.budget
    OBVIOUS
<1> HIDE DEF f, g, n, q
<1>12. Counters(request)'
    BY <1>1, <1>5, <1>6, <1>7, <1>8, <1>9, <1>10 DEF Counters
<1>13. q.reserved + q.committed <= q.budget /\ q.reservedHires + q.committedHires <= q.target
    BY <1>1, <1>8, <1>10, <1>11 DEF RequestRows
<1>14. WithinBudget(request)'
    BY <1>8, <1>9, <1>13 DEF WithinBudget
<1> QED
    BY <1>8, <1>9, <1>12, <1>14

\* What a step must leave behind, once the counters are known to follow the holds.
LEMMA HireStep ==
    ASSUME HireInv, request' \in RequestRows, request'.model = request.model, Counters(request)', WithinBudget(request)', HireTypes',
           NEW c \in Applicants,
           \A x \in Applicants : x # c => /\ offer'[x] = offer[x] /\ reservation'[x] = reservation[x] /\ hire'[x] = hire[x]
                                          /\ application'[x] = application[x] /\ seen'[x] = seen[x],
           HoldFits(offer'[c].status, reservation'[c], hire'[c], application'[c].status),
           PageFits(application'[c], seen'[c], offer'[c], request.model)
    PROVE  HireInv'
<1>1. ASSUME NEW x \in Applicants
      PROVE  /\ HoldFits(offer'[x].status, reservation'[x], hire'[x], application'[x].status)
             /\ PageFits(application'[x], seen'[x], offer'[x], request'.model)
  <2>1. CASE x = c
      BY <2>1
  <2>2. CASE x # c
      BY <2>2 DEF HireInv
  <2> QED
      BY <2>1, <2>2
<1> QED
    BY <1>1 DEF HireInv

\* While no hold and no amount changes, the counters that fitted still do.
LEMMA SameHolds ==
    ASSUME HireInv, reservation' = reservation, \A c \in Applicants : offer'[c].amount = offer[c].amount,
           request'.reserved = request.reserved, request'.committed = request.committed,
           request'.reservedHires = request.reservedHires, request'.committedHires = request.committedHires
    PROVE  Counters(request)'
<1>1. HeldOn("HELD")' = HeldOn("HELD") /\ HeldOn("COMMITTED")' = HeldOn("COMMITTED")
    BY DEF HeldOn
<1>2. [c \in Applicants |-> offer[c].amount]' = [c \in Applicants |-> offer[c].amount]
    OBVIOUS
<1>3. OfferSum(HeldOn("HELD"))' = OfferSum(HeldOn("HELD")) /\ OfferSum(HeldOn("COMMITTED"))' = OfferSum(HeldOn("COMMITTED"))
    BY <1>1, <1>2 DEF OfferSum
<1> QED
    BY <1>1, <1>3 DEF HireInv, Counters

LEMMA SelectKeeps ==
    ASSUME HireInv, NEW c \in Applicants, SelectApplication(c)
    PROVE  HireInv'
<1> DEFINE amount == HoldAmount(application[c].quote)
           o == [status |-> "OFFERED", amount |-> amount, due |-> FALSE]
<1>1. /\ request.reserved + request.committed + amount <= request.budget
      /\ request.reservedHires + request.committedHires + 1 <= request.target
      /\ offer' = [offer EXCEPT ![c] = o] /\ reservation' = [reservation EXCEPT ![c] = "HELD"]
      /\ request' = Counted(request, "NONE", "HELD", amount)
      /\ hire' = [hire EXCEPT ![c] = "NONE"] /\ application' = [application EXCEPT ![c].status = "OFFERED"] /\ seen' = seen
      /\ application[c].status = "SUBMITTED" /\ seen[c].version = application[c].version
    BY DEF SelectApplication
<1>2. /\ HireTypes /\ HoldFits(offer[c].status, reservation[c], hire[c], application[c].status)
      /\ PageFits(application[c], seen[c], offer[c], request.model)
    BY DEF HireInv
<1>3. amount \in Nat /\ o \in OfferRows
    BY <1>2, HireAssumption DEF HireTypes, HoldAmount, ApplicationRows, OfferRows
<1>4. reservation[c] \in {"NONE", "RELEASED"}
    BY <1>1, <1>2 DEF HoldFits, HireTypes, OfferRows
<1>5. amount = (IF request.model = "PERFORMANCE" THEN BaseFee + BonusCap ELSE seen[c].quote)
    BY <1>1, <1>2 DEF PageFits, HoldAmount
<1>6. /\ Change("HELD", "NONE", "HELD", amount) = amount /\ Change("HELD", "NONE", "HELD", 1) = 1
      /\ Change("HELD", "NONE", "COMMITTED", amount) = 0 /\ Change("HELD", "NONE", "COMMITTED", 1) = 0
    BY <1>3 DEF Change
<1> HIDE DEF amount
<1>7. o.amount = amount /\ o.status = "OFFERED"
    OBVIOUS
<1> HIDE DEF o
<1>8. request' \in RequestRows /\ request'.model = request.model /\ Counters(request)' /\ WithinBudget(request)'
  <2>1. /\ request.reserved + request.committed + Change("HELD", "NONE", "HELD", o.amount) + Change("HELD", "NONE", "COMMITTED", o.amount) <= request.budget
        /\ request.reservedHires + request.committedHires + Change("HELD", "NONE", "HELD", 1) + Change("HELD", "NONE", "COMMITTED", 1) <= request.target
      BY <1>1, <1>2, <1>3, <1>6, <1>7 DEF HireTypes, RequestRows
  <2>2. /\ reservation[c] \in {"HELD", "COMMITTED"} => offer[c].amount = o.amount
        /\ \A state \in {"HELD", "COMMITTED"} : "NONE" = state <=> reservation[c] = state
      BY <1>4
  <2>3. request' = Counted(request, "NONE", "HELD", o.amount)
      BY <1>1, <1>7
  <2> QED
      BY <1>1, <1>3, <2>1, <2>2, <2>3, HoldKeeps
<1>9. HireTypes'
    BY <1>1, <1>2, <1>3, <1>8 DEF HireTypes, ApplicationRows
<1>10. /\ \A x \in Applicants : x # c => /\ offer'[x] = offer[x] /\ reservation'[x] = reservation[x] /\ hire'[x] = hire[x]
                                         /\ application'[x] = application[x] /\ seen'[x] = seen[x]
       /\ offer'[c] = o /\ reservation'[c] = "HELD" /\ hire'[c] = "NONE" /\ application'[c] = [application[c] EXCEPT !.status = "OFFERED"] /\ seen'[c] = seen[c]
    BY <1>1, <1>2 DEF HireTypes
<1>11. application[c] \in ApplicationRows
    BY <1>2 DEF HireTypes
<1>12. application'[c].status = "OFFERED" /\ application'[c].version = application[c].version /\ application'[c].quote = application[c].quote
    BY <1>10, <1>11 DEF ApplicationRows
<1>13. HoldFits(offer'[c].status, reservation'[c], hire'[c], application'[c].status)
    BY <1>7, <1>10, <1>12 DEF HoldFits
<1>14. PageFits(application'[c], seen'[c], offer'[c], request.model)
    BY <1>1, <1>2, <1>5, <1>7, <1>10, <1>12 DEF PageFits
<1> QED
    BY <1>8, <1>9, <1>10, <1>13, <1>14, HireStep

\* A live hold is released or committed: nothing more is held than before.
LEMMA ReleaseKeeps ==
    ASSUME HireInv, NEW c \in Applicants, NEW o \in OfferRows, o.amount = offer[c].amount,
           NEW new \in {"COMMITTED", "RELEASED"}, reservation[c] = "HELD" \/ (reservation[c] = "COMMITTED" /\ new = "RELEASED"),
           offer' = [offer EXCEPT ![c] = o], Reserve(c, new)
    PROVE  request' \in RequestRows /\ request'.model = request.model /\ Counters(request)' /\ WithinBudget(request)'
<1>1. HireTypes /\ WithinBudget(request) /\ o.amount \in Nat
    BY DEF HireInv, OfferRows
<1>2. offer'[c].amount = o.amount
    BY <1>1 DEF HireTypes
<1>3. reservation' = [reservation EXCEPT ![c] = new] /\ request' = Counted(request, reservation[c], new, o.amount)
    BY <1>2 DEF Reserve
<1>4. /\ Change(new, reservation[c], "HELD", o.amount) + Change(new, reservation[c], "COMMITTED", o.amount) <= 0
      /\ Change(new, reservation[c], "HELD", 1) + Change(new, reservation[c], "COMMITTED", 1) <= 0
      /\ Change(new, reservation[c], "HELD", o.amount) \in Int /\ Change(new, reservation[c], "COMMITTED", o.amount) \in Int
      /\ Change(new, reservation[c], "HELD", 1) \in Int /\ Change(new, reservation[c], "COMMITTED", 1) \in Int
    BY <1>1 DEF Change
<1>5. /\ request.reserved + request.committed + Change(new, reservation[c], "HELD", o.amount) + Change(new, reservation[c], "COMMITTED", o.amount) <= request.budget
      /\ request.reservedHires + request.committedHires + Change(new, reservation[c], "HELD", 1) + Change(new, reservation[c], "COMMITTED", 1) <= request.target
    BY <1>1, <1>4 DEF HireTypes, RequestRows, WithinBudget
<1> QED
    BY <1>3, <1>5, HoldKeeps

\* An offer ends without a hire: declined, withdrawn or expired.
LEMMA EndOfferKeeps ==
    ASSUME HireInv, NEW c \in Applicants, offer[c].status = "OFFERED", NEW s \in {"WITHDRAWN", "DECLINED", "EXPIRED"},
           NEW a \in {"SUBMITTED", "DECLINED"}, offer' = [offer EXCEPT ![c].status = s], ReleaseHeld(c),
           application' = [application EXCEPT ![c].status = a], hire' = hire, seen' = seen
    PROVE  HireInv'
<1> DEFINE o == [offer[c] EXCEPT !.status = s]
<1>1. /\ HireTypes /\ HoldFits(offer[c].status, reservation[c], hire[c], application[c].status)
      /\ PageFits(application[c], seen[c], offer[c], request.model)
    BY DEF HireInv
<1>2. reservation[c] = "HELD" /\ hire[c] = "NONE"
    BY <1>1 DEF HoldFits
<1>3. o \in OfferRows /\ o.amount = offer[c].amount /\ o.status = s
    BY <1>1 DEF HireTypes, OfferRows
<1>4. offer' = [offer EXCEPT ![c] = o]
    OBVIOUS
<1>5. Reserve(c, "RELEASED")
    BY <1>2 DEF ReleaseHeld
<1> HIDE DEF o
<1>6. request' \in RequestRows /\ request'.model = request.model /\ Counters(request)' /\ WithinBudget(request)'
    BY <1>2, <1>3, <1>4, <1>5, ReleaseKeeps
<1>7. reservation' = [reservation EXCEPT ![c] = "RELEASED"]
    BY <1>5 DEF Reserve
<1>8. HireTypes'
  <2>1. application' \in [Applicants -> ApplicationRows]
      BY <1>1 DEF HireTypes, ApplicationRows
  <2>2. offer' \in [Applicants -> OfferRows]
      BY <1>1, <1>3, <1>4 DEF HireTypes
  <2>3. reservation' \in [Applicants -> {"NONE", "HELD", "COMMITTED", "RELEASED"}]
      BY <1>1, <1>7 DEF HireTypes
  <2> QED
      BY <1>1, <1>6, <2>1, <2>2, <2>3 DEF HireTypes
<1>9. /\ \A x \in Applicants : x # c => /\ offer'[x] = offer[x] /\ reservation'[x] = reservation[x] /\ hire'[x] = hire[x]
                                        /\ application'[x] = application[x] /\ seen'[x] = seen[x]
      /\ offer'[c] = o /\ reservation'[c] = "RELEASED" /\ hire'[c] = "NONE" /\ application'[c] = [application[c] EXCEPT !.status = a] /\ seen'[c] = seen[c]
    BY <1>1, <1>2, <1>4, <1>7 DEF HireTypes
<1>10. application[c] \in ApplicationRows
    BY <1>1 DEF HireTypes
<1>11. application'[c].version = application[c].version /\ application'[c].quote = application[c].quote
    BY <1>9, <1>10 DEF ApplicationRows
<1>12. HoldFits(offer'[c].status, reservation'[c], hire'[c], application'[c].status)
    BY <1>3, <1>9 DEF HoldFits
<1>13. PageFits(application'[c], seen'[c], offer'[c], request.model)
    BY <1>1, <1>3, <1>9, <1>11 DEF PageFits
<1> QED
    BY <1>6, <1>8, <1>9, <1>12, <1>13, HireStep

LEMMA OrderMovesKeeps ==
    ASSUME HireInv, NEW c \in Applicants, NEW to \in {"FUNDED", "CANCELLED", "REFUNDED"}, OrderMoves(c, to)
    PROVE  HireInv'
<1> DEFINE s == IF to = "CANCELLED" THEN "LAPSED" ELSE offer[c].status
           a == IF to = "CANCELLED" THEN "SUBMITTED" ELSE application[c].status
           new == IF to = "FUNDED" THEN "COMMITTED" ELSE "RELEASED"
           o == [offer[c] EXCEPT !.status = s]
<1>1. /\ HireTypes /\ HoldFits(offer[c].status, reservation[c], hire[c], application[c].status)
      /\ PageFits(application[c], seen[c], offer[c], request.model)
    BY DEF HireInv
<1>2. /\ hire' = [hire EXCEPT ![c] = to] /\ offer' = [offer EXCEPT ![c] = o] /\ Reserve(c, new) /\ seen' = seen
      /\ application' = [application EXCEPT ![c].status = a]
      /\ \/ hire[c] = "AWAITING_PAYMENT" /\ to \in {"FUNDED", "CANCELLED"}
         \/ hire[c] = "FUNDED" /\ to = "REFUNDED"
    BY DEF OrderMoves
<1>3. offer[c].status = "ACCEPTED" /\ application[c].status = "ACCEPTED" /\ reservation[c] = IF to = "REFUNDED" THEN "COMMITTED" ELSE "HELD"
    BY <1>1, <1>2 DEF HoldFits
<1>4. s \in {"ACCEPTED", "LAPSED"} /\ a \in {"ACCEPTED", "SUBMITTED"} /\ new \in {"COMMITTED", "RELEASED"}
    BY <1>3
<1>5. o \in OfferRows /\ o.amount = offer[c].amount /\ o.status = s
  <2>1. offer[c] \in OfferRows
      BY <1>1 DEF HireTypes
  <2> HIDE DEF s
  <2> QED
      BY <1>4, <2>1 DEF OfferRows
<1>6. reservation[c] = "HELD" \/ (reservation[c] = "COMMITTED" /\ new = "RELEASED")
    BY <1>3
<1>7. HoldFits(s, new, to, a)
    BY <1>3 DEF HoldFits
<1>8. reservation' = [reservation EXCEPT ![c] = new]
    BY <1>2 DEF Reserve
<1> HIDE DEF s, a, new, o
<1>9. request' \in RequestRows /\ request'.model = request.model /\ Counters(request)' /\ WithinBudget(request)'
    BY <1>2, <1>4, <1>5, <1>6, ReleaseKeeps
<1>10. HireTypes'
    BY <1>1, <1>2, <1>4, <1>5, <1>8, <1>9 DEF HireTypes, ApplicationRows
<1>11. /\ \A x \in Applicants : x # c => /\ offer'[x] = offer[x] /\ reservation'[x] = reservation[x] /\ hire'[x] = hire[x]
                                         /\ application'[x] = application[x] /\ seen'[x] = seen[x]
       /\ offer'[c] = o /\ reservation'[c] = new /\ hire'[c] = to /\ application'[c] = [application[c] EXCEPT !.status = a] /\ seen'[c] = seen[c]
    BY <1>1, <1>2, <1>8 DEF HireTypes
<1>12. application[c] \in ApplicationRows
    BY <1>1 DEF HireTypes
<1>13. application'[c].status = a /\ application'[c].version = application[c].version /\ application'[c].quote = application[c].quote
    BY <1>11, <1>12 DEF ApplicationRows
<1>14. HoldFits(offer'[c].status, reservation'[c], hire'[c], application'[c].status)
    BY <1>5, <1>7, <1>11, <1>13
<1>15. PageFits(application'[c], seen'[c], offer'[c], request.model)
    BY <1>1, <1>3, <1>5, <1>11, <1>13 DEF PageFits
<1> QED
    BY <1>9, <1>10, <1>11, <1>14, <1>15, HireStep

\* Steps on one application that move no hold, and what they leave of it.
Answers(c, o, a, page, order) ==
    /\ o \in OfferRows /\ a \in ApplicationRows /\ page \in [version : Nat, quote : Nat]
    /\ order \in {"NONE", "AWAITING_PAYMENT", "FUNDED", "CANCELLED", "REFUNDED"}
    /\ offer' = [offer EXCEPT ![c] = o] /\ application' = [application EXCEPT ![c] = a] /\ seen' = [seen EXCEPT ![c] = page]
    /\ hire' = [hire EXCEPT ![c] = order] /\ reservation' = reservation /\ request' = request /\ o.amount = offer[c].amount
    /\ HoldFits(o.status, reservation[c], order, a.status) /\ PageFits(a, page, o, request.model)

LEMMA AnswerKeeps ==
    ASSUME HireInv, NEW c \in Applicants, NEW o, NEW a, NEW page, NEW order, Answers(c, o, a, page, order)
    PROVE  HireInv'
<1> USE DEF Answers
<1>1. HireTypes /\ WithinBudget(request)
    BY DEF HireInv
<1>2. HireTypes'
    BY <1>1 DEF HireTypes
<1>3. \A x \in Applicants : offer'[x].amount = offer[x].amount
    BY <1>1 DEF HireTypes
<1>4. Counters(request)'
    BY <1>3, SameHolds
<1>5. WithinBudget(request)'
    BY <1>1 DEF WithinBudget
<1>6. /\ \A x \in Applicants : x # c => /\ offer'[x] = offer[x] /\ reservation'[x] = reservation[x] /\ hire'[x] = hire[x]
                                        /\ application'[x] = application[x] /\ seen'[x] = seen[x]
      /\ offer'[c] = o /\ hire'[c] = order /\ application'[c] = a /\ seen'[c] = page
    BY <1>1 DEF HireTypes
<1>7. HoldFits(offer'[c].status, reservation'[c], hire'[c], application'[c].status) /\ PageFits(application'[c], seen'[c], offer'[c], request.model)
    BY <1>6
<1>8. request' \in RequestRows /\ request'.model = request.model
    BY <1>1 DEF HireTypes
<1> QED
    BY <1>2, <1>4, <1>5, <1>6, <1>7, <1>8, HireStep

LEMMA ApplicantKeeps ==
    ASSUME HireInv, NEW c \in Applicants,
           ViewApplication(c) \/ (\E quote \in Quotes : Apply(c, quote)) \/ WithdrawApplication(c) \/ AcceptOffer(c) \/ OfferDue(c)
    PROVE  HireInv'
<1>1. /\ HireTypes /\ HoldFits(offer[c].status, reservation[c], hire[c], application[c].status)
      /\ PageFits(application[c], seen[c], offer[c], request.model)
    BY DEF HireInv
<1>2. /\ offer[c] \in OfferRows /\ application[c] \in ApplicationRows /\ seen[c] \in [version : Nat, quote : Nat]
      /\ hire[c] \in {"NONE", "AWAITING_PAYMENT", "FUNDED", "CANCELLED", "REFUNDED"}
      /\ offer = [offer EXCEPT ![c] = offer[c]] /\ application = [application EXCEPT ![c] = application[c]]
      /\ seen = [seen EXCEPT ![c] = seen[c]] /\ hire = [hire EXCEPT ![c] = hire[c]]
    BY <1>1 DEF HireTypes
<1>3. CASE ViewApplication(c)
  <2> DEFINE page == [version |-> application[c].version, quote |-> application[c].quote]
  <2>1. /\ seen' = [seen EXCEPT ![c] = page] /\ UNCHANGED <<request, application, offer, reservation, hire>>
        /\ seen[c].version # application[c].version
      BY <1>3 DEF ViewApplication, holds
  <2>2. page \in [version : Nat, quote : Nat]
      BY <1>2 DEF ApplicationRows
  <2>3. PageFits(application[c], page, offer[c], request.model)
      BY <1>1, <1>2, <2>1 DEF PageFits, ApplicationRows
  <2>9. offer' = [offer EXCEPT ![c] = offer[c]] /\ application' = [application EXCEPT ![c] = application[c]] /\ hire' = [hire EXCEPT ![c] = hire[c]]
      BY <1>2, <2>1
  <2> HIDE DEF page
  <2>10. Answers(c, offer[c], application[c], page, hire[c])
      BY <1>1, <1>2, <2>1, <2>2, <2>3, <2>9 DEF Answers
  <2> QED
      BY <2>10, AnswerKeeps
<1>4. CASE \E quote \in Quotes : Apply(c, quote)
  <2>1. PICK quote \in Quotes : Apply(c, quote)
      BY <1>4
  <2> DEFINE a == [status |-> "SUBMITTED", version |-> application[c].version + 1, quote |-> quote]
  <2>2. /\ application' = [application EXCEPT ![c] = a] /\ UNCHANGED <<request, seen, offer, reservation, hire>>
        /\ application[c].status \notin {"OFFERED", "ACCEPTED"}
      BY <2>1 DEF Apply, holds
  <2>3. a \in ApplicationRows
      BY <1>2, HireAssumption DEF ApplicationRows
  <2>4. offer[c].status \notin {"OFFERED", "ACCEPTED"}
      BY <1>1, <2>2 DEF HoldFits
  <2>5. HoldFits(offer[c].status, reservation[c], hire[c], a.status) /\ PageFits(a, seen[c], offer[c], request.model)
      BY <1>1, <1>2, <2>4 DEF HoldFits, PageFits, ApplicationRows
  <2>9. offer' = [offer EXCEPT ![c] = offer[c]] /\ seen' = [seen EXCEPT ![c] = seen[c]] /\ hire' = [hire EXCEPT ![c] = hire[c]]
      BY <1>2, <2>2
  <2> HIDE DEF a
  <2>10. Answers(c, offer[c], a, seen[c], hire[c])
      BY <1>1, <1>2, <2>2, <2>3, <2>5, <2>9 DEF Answers
  <2> QED
      BY <2>10, AnswerKeeps
<1>5. CASE WithdrawApplication(c)
  <2> DEFINE a == [application[c] EXCEPT !.status = "WITHDRAWN"]
  <2>1. /\ application' = [application EXCEPT ![c] = a] /\ UNCHANGED <<request, seen, offer, reservation, hire>>
        /\ application[c].status = "SUBMITTED"
      BY <1>5 DEF WithdrawApplication, holds
  <2>2. a \in ApplicationRows /\ a.version = application[c].version /\ a.quote = application[c].quote
      BY <1>2 DEF ApplicationRows
  <2>3. offer[c].status \notin {"OFFERED", "ACCEPTED"}
      BY <1>1, <2>1 DEF HoldFits
  <2>4. HoldFits(offer[c].status, reservation[c], hire[c], a.status) /\ PageFits(a, seen[c], offer[c], request.model)
      BY <1>1, <2>2, <2>3 DEF HoldFits, PageFits
  <2>9. offer' = [offer EXCEPT ![c] = offer[c]] /\ seen' = [seen EXCEPT ![c] = seen[c]] /\ hire' = [hire EXCEPT ![c] = hire[c]]
      BY <1>2, <2>1
  <2> HIDE DEF a
  <2>10. Answers(c, offer[c], a, seen[c], hire[c])
      BY <1>1, <1>2, <2>1, <2>2, <2>4, <2>9 DEF Answers
  <2> QED
      BY <2>10, AnswerKeeps
<1>6. CASE AcceptOffer(c)
  <2> DEFINE a == [application[c] EXCEPT !.status = "ACCEPTED"]
             o == [offer[c] EXCEPT !.status = "ACCEPTED"]
  <2>1. /\ application' = [application EXCEPT ![c] = a] /\ offer' = [offer EXCEPT ![c] = o] /\ hire' = [hire EXCEPT ![c] = "AWAITING_PAYMENT"]
        /\ UNCHANGED <<request, seen, reservation>> /\ offer[c].status = "OFFERED"
      BY <1>6 DEF AcceptOffer
  <2>2. /\ a \in ApplicationRows /\ a.version = application[c].version /\ a.quote = application[c].quote /\ a.status = "ACCEPTED"
        /\ o \in OfferRows /\ o.amount = offer[c].amount /\ o.status = "ACCEPTED"
      BY <1>2 DEF ApplicationRows, OfferRows
  <2>3. HoldFits(o.status, reservation[c], "AWAITING_PAYMENT", a.status) /\ PageFits(a, seen[c], o, request.model)
      BY <1>1, <2>1, <2>2 DEF HoldFits, PageFits
  <2>9. seen' = [seen EXCEPT ![c] = seen[c]]
      BY <1>2, <2>1
  <2> HIDE DEF a, o
  <2>10. Answers(c, o, a, seen[c], "AWAITING_PAYMENT")
      BY <1>1, <1>2, <2>1, <2>2, <2>3, <2>9 DEF Answers
  <2> QED
      BY <2>10, AnswerKeeps
<1>7. CASE OfferDue(c)
  <2> DEFINE o == [offer[c] EXCEPT !.due = TRUE]
  <2>1. offer' = [offer EXCEPT ![c] = o] /\ UNCHANGED <<request, application, seen, reservation, hire>>
      BY <1>7 DEF OfferDue
  <2>2. o \in OfferRows /\ o.amount = offer[c].amount /\ o.status = offer[c].status
      BY <1>2 DEF OfferRows
  <2>3. HoldFits(o.status, reservation[c], hire[c], application[c].status) /\ PageFits(application[c], seen[c], o, request.model)
      BY <1>1, <2>2 DEF PageFits
  <2>9. application' = [application EXCEPT ![c] = application[c]] /\ seen' = [seen EXCEPT ![c] = seen[c]] /\ hire' = [hire EXCEPT ![c] = hire[c]]
      BY <1>2, <2>1
  <2> HIDE DEF o
  <2>10. Answers(c, o, application[c], seen[c], hire[c])
      BY <1>1, <1>2, <2>1, <2>2, <2>3, <2>9 DEF Answers
  <2> QED
      BY <2>10, AnswerKeeps
<1> QED
    BY <1>3, <1>4, <1>5, <1>6, <1>7

\* Nothing but the clock, the job's list and the request's terms change.
LEMMA TermsKeep ==
    ASSUME HireInv, UNCHANGED <<application, seen, offer, reservation, hire>>, request' \in RequestRows, request'.model = request.model,
           request'.reserved = request.reserved, request'.committed = request.committed,
           request'.reservedHires = request.reservedHires, request'.committedHires = request.committedHires, WithinBudget(request)'
    PROVE  HireInv'
<1>1. HireTypes'
    BY DEF HireInv, HireTypes
<1>2. Counters(request)'
    BY SameHolds
<1>3. \A c \in Applicants : /\ HoldFits(offer[c].status, reservation[c], hire[c], application[c].status)'
                            /\ PageFits(application[c], seen[c], offer[c], request.model)'
    BY DEF HireInv
<1> QED
    BY <1>1, <1>2, <1>3 DEF HireInv

LEMMA RequestKeeps ==
    ASSUME HireInv,
           (\E b \in Budgets : UpdateRequest(b)) \/ (\E to \in {"apply", "over"} : MoveDeadline(to)) \/ CloseAtDeadline \/ HireTime \/ ListDueOffers
    PROVE  HireInv'
<1>1. request \in RequestRows /\ WithinBudget(request)
    BY DEF HireInv, HireTypes
<1>2. CASE \E b \in Budgets : UpdateRequest(b)
  <2>1. PICK b \in Budgets : UpdateRequest(b)
      BY <1>2
  <2>2. b.budget \in Nat /\ b.cap \in Nat /\ b.target \in Nat
      BY HireAssumption
  <2> DEFINE status == IF request.status = "FILLED" /\ request.committedHires < b.target THEN "OPEN"
                       ELSE IF request.status = "OPEN" /\ request.committedHires >= b.target THEN "FILLED" ELSE request.status
             edits == request.edits + 1
             q == [request EXCEPT !.budget = b.budget, !.cap = b.cap, !.target = b.target, !.edits = edits, !.status = status]
  <2>3. /\ request' = q /\ UNCHANGED <<application, seen, offer, reservation, hire>> /\ request.status \in {"OPEN", "FILLED"}
        /\ b.budget >= request.reserved + request.committed /\ b.target >= request.reservedHires + request.committedHires
      BY <1>1, <2>1 DEF UpdateRequest, FitsHolds, holds, RequestRows
  <2>4. /\ status \in {"OPEN", "FILLED"} /\ (status = "OPEN" => request.committedHires < b.target)
        /\ (status = "FILLED" => request.committedHires >= b.target) /\ edits \in Nat
      BY <1>1, <2>2, <2>3 DEF RequestRows
  <2> HIDE DEF status, edits
  <2>5. /\ q \in RequestRows /\ q.model = request.model /\ q.reserved = request.reserved /\ q.committed = request.committed
        /\ q.reservedHires = request.reservedHires /\ q.committedHires = request.committedHires
        /\ q.budget = b.budget /\ q.target = b.target /\ q.status = status
      BY <1>1, <2>2, <2>4 DEF RequestRows
  <2> HIDE DEF q
  <2>6. q.reserved + q.committed <= q.budget /\ q.reservedHires + q.committedHires <= q.target
      BY <1>1, <2>2, <2>3, <2>5 DEF RequestRows
  <2>7. WithinBudget(request)'
      BY <2>3, <2>4, <2>5, <2>6 DEF WithinBudget
  <2> QED
      BY <2>3, <2>5, <2>7, TermsKeep
<1>3. CASE \E to \in {"apply", "over"} : MoveDeadline(to)
  <2> DEFINE q == [request EXCEPT !.edits = request.edits + 1]
  <2>1. request' = q /\ UNCHANGED <<application, seen, offer, reservation, hire>>
      BY <1>3 DEF MoveDeadline, holds
  <2>2. /\ q \in RequestRows /\ q.model = request.model /\ q.reserved = request.reserved /\ q.committed = request.committed
        /\ q.reservedHires = request.reservedHires /\ q.committedHires = request.committedHires
        /\ q.budget = request.budget /\ q.target = request.target /\ q.status = request.status
      BY <1>1 DEF RequestRows
  <2> HIDE DEF q
  <2>3. WithinBudget(request)'
      BY <1>1, <2>1, <2>2 DEF WithinBudget
  <2> QED
      BY <2>1, <2>2, <2>3, TermsKeep
<1>4. CASE CloseAtDeadline
  <2> DEFINE q == [request EXCEPT !.status = "CLOSED"]
  <2>1. request' = q /\ UNCHANGED <<application, seen, offer, reservation, hire>>
      BY <1>4 DEF CloseAtDeadline, holds
  <2>2. /\ q \in RequestRows /\ q.model = request.model /\ q.reserved = request.reserved /\ q.committed = request.committed
        /\ q.reservedHires = request.reservedHires /\ q.committedHires = request.committedHires
        /\ q.budget = request.budget /\ q.target = request.target /\ q.status = "CLOSED"
      BY <1>1 DEF RequestRows
  <2> HIDE DEF q
  <2>3. WithinBudget(request)'
      BY <1>1, <2>1, <2>2 DEF WithinBudget
  <2> QED
      BY <2>1, <2>2, <2>3, TermsKeep
<1>5. CASE HireTime \/ ListDueOffers
  <2>1. UNCHANGED <<request, application, seen, offer, reservation, hire>>
      BY <1>5 DEF HireTime, ListDueOffers, holds
  <2>2. WithinBudget(request)'
      BY <1>1, <2>1 DEF WithinBudget
  <2> QED
      BY <1>1, <2>1, <2>2, TermsKeep
<1> QED
    BY <1>2, <1>3, <1>4, <1>5

\* Closing or cancelling withdraws every open offer at once; hires that were accepted keep theirs.
LEMMA CloseKeeps ==
    ASSUME HireInv, NEW status \in {"CLOSED", "CANCELLED"}, CloseRequest(status)
    PROVE  HireInv'
<1> DEFINE open == {c \in Applicants : offer[c].status = "OFFERED"}
           f == [c \in Applicants |-> offer[c].amount]
           hires == request.reservedHires - Cardinality(open)
           held == request.reserved - OfferSum(open)
           q == [request EXCEPT !.status = status, !.reservedHires = hires, !.reserved = held]
<1>1. /\ offer' = [c \in Applicants |-> IF c \in open THEN [offer[c] EXCEPT !.status = "WITHDRAWN"] ELSE offer[c]]
      /\ reservation' = [c \in Applicants |-> IF c \in open THEN "RELEASED" ELSE reservation[c]]
      /\ application' = [c \in Applicants |-> IF c \in open THEN [application[c] EXCEPT !.status = "SUBMITTED"] ELSE application[c]]
      /\ request' = q /\ seen' = seen /\ hire' = hire
    BY DEF CloseRequest
<1>2. /\ HireTypes /\ Counters(request) /\ WithinBudget(request)
      /\ \A c \in Applicants : /\ HoldFits(offer[c].status, reservation[c], hire[c], application[c].status)
                               /\ PageFits(application[c], seen[c], offer[c], request.model)
    BY DEF HireInv
<1>3. \A c \in Applicants : offer[c] \in OfferRows /\ application[c] \in ApplicationRows
    BY <1>2 DEF HireTypes
<1>4. open \subseteq HeldOn("HELD") /\ HeldOn("HELD") \subseteq Applicants /\ HeldOn("COMMITTED") \subseteq Applicants
    BY <1>2 DEF HoldFits, HeldOn
<1>5. HeldOn("HELD")' = HeldOn("HELD") \ open /\ HeldOn("COMMITTED")' = HeldOn("COMMITTED")
  <2>1. \A c \in open : reservation[c] = "HELD"
      BY <1>4 DEF HeldOn
  <2> QED
      BY <1>1, <2>1 DEF HeldOn
<1>6. \A c \in Applicants : offer'[c] \in OfferRows /\ offer'[c].amount = offer[c].amount /\ application'[c] \in ApplicationRows
    BY <1>1, <1>3 DEF OfferRows, ApplicationRows
<1>7. \A c \in Applicants : /\ HoldFits(offer'[c].status, reservation'[c], hire'[c], application'[c].status)
                            /\ PageFits(application'[c], seen'[c], offer'[c], request.model)
  <2> SUFFICES ASSUME NEW c \in Applicants
               PROVE  /\ HoldFits(offer'[c].status, reservation'[c], hire'[c], application'[c].status)
                      /\ PageFits(application'[c], seen'[c], offer'[c], request.model)
      OBVIOUS
  <2>1. CASE c \in open
    <3>1. /\ offer'[c].status = "WITHDRAWN" /\ reservation'[c] = "RELEASED" /\ hire[c] = "NONE"
          /\ application'[c].version = application[c].version /\ application'[c].quote = application[c].quote
        BY <1>1, <1>2, <1>3, <2>1 DEF HoldFits, OfferRows, ApplicationRows
    <3> QED
        BY <1>1, <1>2, <3>1 DEF HoldFits, PageFits
  <2>2. CASE c \notin open
    <3>1. offer'[c] = offer[c] /\ reservation'[c] = reservation[c] /\ application'[c] = application[c]
        BY <1>1, <2>2
    <3> QED
        BY <1>1, <1>2, <3>1
  <2> QED
      BY <2>1, <2>2
<1> HIDE DEF open
<1>8. Amounts(f, HeldOn("HELD")) /\ open \in SUBSET HeldOn("HELD") /\ IsFiniteSet(HeldOn("HELD")) /\ IsFiniteSet(open)
  <2>1. IsFiniteSet(HeldOn("HELD")) /\ IsFiniteSet(open)
      BY <1>4, HireAssumption, FS_Subset
  <2> QED
      BY <1>3, <1>4, <2>1 DEF Amounts, OfferRows
<1>9. OfferSum(open) = Total(f, open) /\ OfferSum(HeldOn("HELD")) = Total(f, HeldOn("HELD")) /\ OfferSum(HeldOn("COMMITTED")) = Total(f, HeldOn("COMMITTED"))
    BY DEF OfferSum
<1>10. OfferSum(HeldOn("HELD"))' = Total(f, HeldOn("HELD")') /\ OfferSum(HeldOn("COMMITTED"))' = Total(f, HeldOn("COMMITTED")')
  <2>1. [c \in Applicants |-> offer[c].amount]' = f
      BY <1>6
  <2> QED
      BY <2>1 DEF OfferSum
<1> HIDE DEF f
<1>11. /\ Total(f, HeldOn("HELD")) = Total(f, open) + Total(f, HeldOn("HELD") \ open)
       /\ Total(f, open) \in Nat /\ Total(f, HeldOn("HELD") \ open) \in Nat
  <2> DEFINE H == HeldOn("HELD")
             rest == H \ open
  <2>1. Amounts(f, open) /\ Amounts(f, rest)
      BY <1>8, FS_Subset DEF Amounts
  <2>2. H = open \cup rest /\ open \cap rest = {}
      BY <1>8
  <2> HIDE DEF H, rest
  <2>3. Total(f, open \cup rest) = Total(f, open) + Total(f, rest) /\ Total(f, open) \in Nat /\ Total(f, rest) \in Nat
      BY <2>1, <2>2, TotalUnion, TotalNat
  <2> QED
      BY <2>2, <2>3 DEF H, rest
<1>12. /\ Cardinality(HeldOn("HELD")) = Cardinality(open) + Cardinality(HeldOn("HELD") \ open)
       /\ Cardinality(open) \in Nat /\ Cardinality(HeldOn("HELD") \ open) \in Nat
  <2> DEFINE H == HeldOn("HELD")
             rest == H \ open
  <2>1. IsFiniteSet(rest) /\ H \cap open = open
      BY <1>8, FS_Difference
  <2>2. Cardinality(rest) = Cardinality(H) - Cardinality(H \cap open)
      BY <1>8, FS_Difference
  <2>3. Cardinality(H) \in Nat /\ Cardinality(open) \in Nat /\ Cardinality(rest) \in Nat
      BY <1>8, <2>1, FS_CardinalityType
  <2> HIDE DEF H, rest
  <2>4. Cardinality(rest) = Cardinality(H) - Cardinality(open)
      BY <2>1, <2>2, Zenon
  <2>5. Cardinality(H) = Cardinality(open) + Cardinality(rest)
      BY <2>3, <2>4
  <2> QED
      BY <2>3, <2>5 DEF H, rest
<1>13. request \in RequestRows
    BY <1>2 DEF HireTypes
<1>14. OfferSum(open) \in Nat
    BY <1>9, <1>11
<1>15. /\ q \in RequestRows /\ q.model = request.model /\ q.budget = request.budget /\ q.target = request.target /\ q.status = status
       /\ q.committed = request.committed /\ q.committedHires = request.committedHires
       /\ q.reserved = request.reserved - OfferSum(open) /\ q.reservedHires = request.reservedHires - Cardinality(open)
  <2>1. hires \in Int /\ held \in Int
      BY <1>12, <1>13, <1>14 DEF RequestRows
  <2> HIDE DEF hires, held
  <2>2. /\ q \in RequestRows /\ q.model = request.model /\ q.budget = request.budget /\ q.target = request.target /\ q.status = status
        /\ q.committed = request.committed /\ q.committedHires = request.committedHires /\ q.reserved = held /\ q.reservedHires = hires
      BY <1>13, <2>1 DEF RequestRows
  <2> QED
      BY <2>2 DEF hires, held
<1> HIDE DEF q
<1>16. Counters(request)'
  <2>1. q.reserved = Total(f, HeldOn("HELD") \ open) /\ q.reservedHires = Cardinality(HeldOn("HELD") \ open)
      BY <1>2, <1>9, <1>11, <1>12, <1>15 DEF Counters
  <2>2. q.committed = Total(f, HeldOn("COMMITTED")) /\ q.committedHires = Cardinality(HeldOn("COMMITTED"))
      BY <1>2, <1>9, <1>15 DEF Counters
  <2> QED
      BY <1>1, <1>5, <1>10, <2>1, <2>2 DEF Counters
<1>17. WithinBudget(request)'
  <2>1. q.reserved + q.committed <= q.budget /\ q.reservedHires + q.committedHires <= q.target
      BY <1>2, <1>12, <1>13, <1>14, <1>15 DEF WithinBudget, RequestRows
  <2> QED
      BY <1>1, <1>15, <2>1 DEF WithinBudget
<1>18. HireTypes'
  <2>1. offer' \in [Applicants -> OfferRows] /\ application' \in [Applicants -> ApplicationRows]
      BY <1>1, <1>6
  <2>2. reservation' \in [Applicants -> {"NONE", "HELD", "COMMITTED", "RELEASED"}]
      BY <1>1, <1>2 DEF HireTypes
  <2> QED
      BY <1>1, <1>2, <1>15, <2>1, <2>2 DEF HireTypes
<1>19. request'.model = request.model
    BY <1>1, <1>15
<1> QED
    BY <1>7, <1>16, <1>17, <1>18, <1>19 DEF HireInv

LEMMA HireNextKeeps == HireInv /\ [HireNext]_hireVars => HireInv'
<1> SUFFICES ASSUME HireInv, [HireNext]_hireVars PROVE HireInv'
    OBVIOUS
<1>1. ASSUME NEW c \in Applicants, NEW withdrawn \in BOOLEAN, DeclineOffer(c, withdrawn) PROVE HireInv'
  <2> DEFINE s == IF withdrawn THEN "WITHDRAWN" ELSE "DECLINED"
             a == IF withdrawn THEN "SUBMITTED" ELSE "DECLINED"
  <2>1. /\ offer[c].status = "OFFERED" /\ offer' = [offer EXCEPT ![c].status = s] /\ ReleaseHeld(c)
        /\ application' = [application EXCEPT ![c].status = a] /\ hire' = hire /\ seen' = seen
      BY <1>1 DEF DeclineOffer
  <2>2. s \in {"WITHDRAWN", "DECLINED", "EXPIRED"} /\ a \in {"SUBMITTED", "DECLINED"}
      OBVIOUS
  <2> HIDE DEF s, a
  <2> QED
      BY <2>1, <2>2, EndOfferKeeps
<1>2. ASSUME NEW c \in Applicants, ExpireOffer(c) PROVE HireInv'
  <2>1. CASE offer[c].status = "OFFERED" /\ offer[c].due
    <3>1. application[c].status = "OFFERED"
        BY <2>1 DEF HireInv, HoldFits
    <3>2. /\ offer' = [offer EXCEPT ![c].status = "EXPIRED"] /\ ReleaseHeld(c)
          /\ application' = [application EXCEPT ![c].status = "SUBMITTED"] /\ hire' = hire /\ seen' = seen
        BY <1>2, <2>1, <3>1 DEF ExpireOffer
    <3> QED
        BY <2>1, <3>2, EndOfferKeeps
  <2>2. CASE ~(offer[c].status = "OFFERED" /\ offer[c].due)
    <3>1. UNCHANGED <<request, application, seen, offer, reservation, hire>>
        BY <1>2, <2>2 DEF ExpireOffer
    <3>2. WithinBudget(request)' /\ request \in RequestRows
        BY <3>1 DEF HireInv, WithinBudget, HireTypes
    <3> QED
        BY <3>1, <3>2, TermsKeep
  <2> QED
      BY <2>1, <2>2
<1>3. CASE BuyerNext
    BY <1>1, <1>3, RequestKeeps, CloseKeeps, ApplicantKeeps, SelectKeeps DEF BuyerNext
<1>4. CASE CreatorNext
    BY <1>1, <1>4, ApplicantKeeps DEF CreatorNext
<1>5. CASE HireTime \/ ExpireHireOffers
    BY <1>2, <1>5, RequestKeeps DEF ExpireHireOffers
<1>6. CASE \E c \in Applicants : OfferDue(c) \/ \E to \in {"FUNDED", "CANCELLED", "REFUNDED"} : OrderMoves(c, to)
    BY <1>6, ApplicantKeeps, OrderMovesKeeps
<1>7. CASE UNCHANGED hireVars
  <2>1. UNCHANGED <<request, application, seen, offer, reservation, hire>>
      BY <1>7 DEF hireVars
  <2>2. WithinBudget(request)' /\ request \in RequestRows
      BY <2>1 DEF HireInv, WithinBudget, HireTypes
  <2> QED
      BY <2>1, <2>2, TermsKeep
<1> QED
    BY <1>3, <1>4, <1>5, <1>6, <1>7 DEF HireNext

\* Whoever ends an offer first, the counters of a request are the sum of its live holds, never above its budget or its
\* number of hires, and a live offer asks for what the buyer saw (modules/requests/commands.ts, trigger request_budget_counters).
THEOREM BudgetIsHeld == HireSpec => []BudgetHeld
<1>1. HireInv => BudgetHeld
  <2> SUFFICES ASSUME HireInv PROVE BudgetHeld
      OBVIOUS
  <2>1. \A c \in Applicants : /\ reservation[c] = "HELD" <=> offer[c].status = "OFFERED" \/ hire[c] = "AWAITING_PAYMENT"
                              /\ reservation[c] = "COMMITTED" <=> hire[c] = "FUNDED"
                              /\ offer[c].status \in {"OFFERED", "ACCEPTED"} => offer[c].amount = HoldAmount(seen[c].quote)
    <3> SUFFICES ASSUME NEW c \in Applicants
                 PROVE  /\ reservation[c] = "HELD" <=> offer[c].status = "OFFERED" \/ hire[c] = "AWAITING_PAYMENT"
                        /\ reservation[c] = "COMMITTED" <=> hire[c] = "FUNDED"
                        /\ offer[c].status \in {"OFFERED", "ACCEPTED"} => offer[c].amount = HoldAmount(seen[c].quote)
        OBVIOUS
    <3>1. /\ HoldFits(offer[c].status, reservation[c], hire[c], application[c].status)
          /\ PageFits(application[c], seen[c], offer[c], request.model)
        BY DEF HireInv
    <3>2. /\ reservation[c] = "HELD" <=> offer[c].status = "OFFERED" \/ hire[c] = "AWAITING_PAYMENT"
          /\ reservation[c] = "COMMITTED" <=> hire[c] = "FUNDED"
        BY <3>1 DEF HoldFits
    <3>3. offer[c].status \in {"OFFERED", "ACCEPTED"} => offer[c].amount = HoldAmount(seen[c].quote)
        BY <3>1 DEF PageFits, HoldAmount
    <3> QED
        BY <3>2, <3>3
  <2>2. Counters(request) /\ WithinBudget(request)
      BY DEF HireInv
  <2> QED
      BY <2>1, <2>2 DEF BudgetHeld, Counters, WithinBudget
<1> QED
    BY <1>1, HireInitHolds, HireNextKeeps, PTL DEF HireSpec

-----------------------------------------------------------------------------
(* Refunds after the creator was paid *)

AfterSpec == AfterInit /\ [][AfterNext]_afterVars

AfterRows == [status : {"NONE", "RECOVERING", "DEFICIT", "REFUND_PENDING", "REFUNDED"}, amount : Nat, recovered : Nat, covered : Nat]
ReversalRows == [journal : {"NONE", "PENDING", "UNKNOWN", "SUCCEEDED", "FAILED"}, applied : BOOLEAN, fact : BOOLEAN]
BuyerRows == [journal : {"NONE", "PENDING", "UNKNOWN", "SUCCEEDED", "FAILED"}, provider : {"NONE", "PENDING", "SUCCEEDED", "FAILED"},
              fact : {"NONE", "SUCCEEDED", "FAILED"}]

AfterTypes ==
    /\ after \in [Attempts -> AfterRows] /\ reversal \in [Attempts -> ReversalRows] /\ buyerBack \in [Attempts -> BuyerRows]
    /\ accountHeld \in Int

\* Nothing is taken until the reversal's fact or the cover, the two exclude each other, and a reversal that moved money never looks refused.
Backed(a, v, b) ==
    /\ a.status = "NONE" => a.amount = 0 /\ ~v.applied
    /\ a.status # "NONE" => a.amount > 0
    /\ a.status \in {"NONE", "RECOVERING", "DEFICIT"} => a.recovered = 0 /\ a.covered = 0 /\ ~v.fact /\ b.provider = "NONE"
    /\ a.status \in {"REFUND_PENDING", "REFUNDED"} =>
          \/ a.recovered = a.amount /\ a.covered = 0 /\ v.applied /\ v.fact
          \/ a.covered = a.amount /\ a.recovered = 0 /\ ~v.applied
    /\ v.applied => v.journal \in {"UNKNOWN", "SUCCEEDED"}

Taken(a) == IF a.status # "REFUNDED" THEN a.recovered + a.covered ELSE 0
TakenTotal == Total([r \in Attempts |-> after[r].recovered + after[r].covered], {r \in Attempts : after[r].status # "REFUNDED"})

BackedInv ==
    /\ AfterTypes /\ AskedFor(Attempts) <= Transferred /\ accountHeld = TakenTotal
    /\ \A r \in Attempts : Backed(after[r], reversal[r], buyerBack[r])

LEMMA BackedInit == AfterInit => BackedInv
<1> SUFFICES ASSUME AfterInit PROVE BackedInv
    OBVIOUS
<1>1. AfterTypes
    BY DEF AfterInit, AfterTypes, AfterRows, ReversalRows, BuyerRows
<1>2. AskedFor(Attempts) = 0 /\ TakenTotal = 0
  <2>1. /\ \A r \in Attempts : [x \in Attempts |-> after[x].amount][r] = 0
        /\ \A r \in {x \in Attempts : after[x].status # "REFUNDED"} : [x \in Attempts |-> after[x].recovered + after[x].covered][r] = 0
      BY DEF AfterInit
  <2> QED
      BY <2>1, TotalZero DEF AskedFor, TakenTotal
<1>3. \A r \in Attempts : Backed(after[r], reversal[r], buyerBack[r])
    BY DEF AfterInit, Backed
<1> QED
    BY <1>1, <1>2, <1>3, AfterAssumption DEF BackedInv, AfterInit

\* A step on one refund: its rows afterwards, and what it takes or sends.
RefundStep(r, a, v, b) ==
    /\ a \in AfterRows /\ v \in ReversalRows /\ b \in BuyerRows /\ Backed(a, v, b)
    /\ after' = [after EXCEPT ![r] = a] /\ reversal' = [reversal EXCEPT ![r] = v] /\ buyerBack' = [buyerBack EXCEPT ![r] = b]
    /\ AskedFor(Attempts) + a.amount - after[r].amount <= Transferred
    /\ accountHeld' = accountHeld + Taken(a) - Taken(after[r])

LEMMA RefundStepKeeps ==
    ASSUME BackedInv, NEW r \in Attempts, NEW a, NEW v, NEW b, RefundStep(r, a, v, b)
    PROVE  BackedInv'
<1> USE DEF RefundStep
<1> DEFINE f == [x \in Attempts |-> after[x].amount]
           g == [x \in Attempts |-> after'[x].amount]
           fTaken == [x \in Attempts |-> after[x].recovered + after[x].covered]
           gTaken == [x \in Attempts |-> after'[x].recovered + after'[x].covered]
           S == {x \in Attempts : after[x].status # "REFUNDED"}
           T == {x \in Attempts : after'[x].status # "REFUNDED"}
<1>1. AfterTypes /\ AskedFor(Attempts) <= Transferred /\ accountHeld = TakenTotal
    BY DEF BackedInv
<1>2. /\ after' \in [Attempts -> AfterRows] /\ reversal' \in [Attempts -> ReversalRows] /\ buyerBack' \in [Attempts -> BuyerRows]
      /\ after'[r] = a /\ reversal'[r] = v /\ buyerBack'[r] = b
      /\ \A x \in Attempts : x # r => after'[x] = after[x] /\ reversal'[x] = reversal[x] /\ buyerBack'[x] = buyerBack[x]
    BY <1>1 DEF AfterTypes
<1>3. \A x \in Attempts : Backed(after'[x], reversal'[x], buyerBack'[x])
  <2> SUFFICES ASSUME NEW x \in Attempts PROVE Backed(after'[x], reversal'[x], buyerBack'[x])
      OBVIOUS
  <2>1. CASE x = r
      BY <1>2, <2>1
  <2>2. CASE x # r
      BY <1>2, <2>2 DEF BackedInv
  <2> QED
      BY <2>1, <2>2
<1>4. \A x \in Attempts : after[x] \in AfterRows /\ after'[x] \in AfterRows
    BY <1>1, <1>2 DEF AfterTypes
<1>5. OnlyEntry(f, g, Attempts, Attempts, Attempts, r)
    BY <1>2, <1>4, AfterAssumption DEF OnlyEntry, AfterRows
<1>6. OnlyEntry(fTaken, gTaken, S, T, Attempts, r)
    BY <1>2, <1>4, AfterAssumption DEF OnlyEntry, AfterRows
<1>7. AskedFor(Attempts) = Total(f, Attempts) /\ AskedFor(Attempts)' = Total(g, Attempts)
    BY DEF AskedFor
<1>8. TakenTotal = Total(fTaken, S) /\ TakenTotal' = Total(gTaken, T)
    BY DEF TakenTotal
<1>9. g[r] = a.amount /\ f[r] = after[r].amount
    BY <1>2
<1>10. (IF r \in T THEN gTaken[r] ELSE 0) = Taken(a) /\ (IF r \in S THEN fTaken[r] ELSE 0) = Taken(after[r])
    BY <1>2 DEF Taken
<1> HIDE DEF f, g, fTaken, gTaken, S, T
<1>11. Total(g, Attempts) = Total(f, Attempts) + g[r] - f[r] /\ Total(f, Attempts) \in Nat /\ Total(g, Attempts) \in Nat
    BY <1>5, TotalMoves
<1>12. /\ Total(gTaken, T) = Total(fTaken, S) + (IF r \in T THEN gTaken[r] ELSE 0) - (IF r \in S THEN fTaken[r] ELSE 0)
       /\ Total(fTaken, S) \in Nat /\ Total(gTaken, T) \in Nat
    BY <1>6, TotalMoves
<1>13. AskedFor(Attempts)' <= Transferred
    BY <1>7, <1>9, <1>11
<1>14. accountHeld' = TakenTotal'
    BY <1>1, <1>8, <1>10, <1>12
<1>15. accountHeld' \in Int
    BY <1>8, <1>12, <1>14
<1> QED
    BY <1>2, <1>3, <1>13, <1>14, <1>15 DEF BackedInv, AfterTypes

\* The rows of one refund, typed, and unchanged where a step leaves them.
LEMMA RefundRows ==
    ASSUME BackedInv, NEW r \in Attempts
    PROVE  /\ after[r] \in AfterRows /\ reversal[r] \in ReversalRows /\ buyerBack[r] \in BuyerRows /\ Backed(after[r], reversal[r], buyerBack[r])
           /\ after = [after EXCEPT ![r] = after[r]] /\ reversal = [reversal EXCEPT ![r] = reversal[r]]
           /\ buyerBack = [buyerBack EXCEPT ![r] = buyerBack[r]] /\ AskedFor(Attempts) \in Nat /\ AskedFor(Attempts) <= Transferred
           /\ accountHeld \in Int
<1>1. AfterTypes
    BY DEF BackedInv
<1>2. Amounts([x \in Attempts |-> after[x].amount], Attempts)
    BY <1>1, AfterAssumption DEF Amounts, AfterTypes, AfterRows
<1>3. AskedFor(Attempts) \in Nat
    BY <1>2, TotalNat DEF AskedFor
<1> QED
    BY <1>1, <1>3 DEF BackedInv, AfterTypes

LEMMA AttemptKeeps ==
    ASSUME BackedInv, NEW r \in Attempts, NEW reply \in Replies, NEW row \in AfterRows, AttemptReversal(r, row, reply),
           row.status \in {"RECOVERING", "DEFICIT"}, row.recovered = 0, row.covered = 0, row.amount > 0,
           after[r].status \in {"NONE", "DEFICIT"}, AskedFor(Attempts) + row.amount - after[r].amount <= Transferred
    PROVE  BackedInv'
<1> DEFINE journal == IF reversal[r].journal = "SUCCEEDED" THEN "SUCCEEDED" ELSE Journalled(reply)
           applied == reversal[r].applied \/ reply \in {"ok", "late"}
           status == IF reply = "ok" THEN "RECOVERING" ELSE IF reply = "refused" THEN "DEFICIT" ELSE row.status
           v == [reversal[r] EXCEPT !.journal = journal, !.applied = applied]
           a == [row EXCEPT !.status = status]
<1>1. /\ after[r] \in AfterRows /\ reversal[r] \in ReversalRows /\ buyerBack[r] \in BuyerRows /\ Backed(after[r], reversal[r], buyerBack[r])
      /\ buyerBack = [buyerBack EXCEPT ![r] = buyerBack[r]] /\ accountHeld \in Int
    BY RefundRows
<1>2. after' = [after EXCEPT ![r] = a] /\ buyerBack' = buyerBack /\ accountHeld' = accountHeld
    BY DEF AttemptReversal, Replies
<1>3. reversal' = [reversal EXCEPT ![r] = v]
  <2>1. reversal \in [Attempts -> ReversalRows]
      BY DEF BackedInv, AfterTypes
  <2>2. reversal' = [reversal EXCEPT ![r].journal = IF @ = "SUCCEEDED" THEN @ ELSE Journalled(reply),
                                     ![r].applied = @ \/ reply \in {"ok", "late"}]
      BY DEF AttemptReversal
  <2> QED
      BY <1>1, <2>1, <2>2 DEF ReversalRows
<1>4. reversal[r].applied => reply = "ok"
    BY DEF AttemptReversal, ReverseReply
<1>5. /\ journal \in {"PENDING", "UNKNOWN", "SUCCEEDED", "FAILED"} /\ applied \in BOOLEAN /\ status \in {"RECOVERING", "DEFICIT"}
      /\ (applied => journal \in {"UNKNOWN", "SUCCEEDED"})
    BY <1>1, <1>4 DEF Journalled, Replies, ReversalRows
<1> HIDE DEF journal, applied, status
<1>6. v \in ReversalRows /\ v.journal = journal /\ v.applied = applied /\ v.fact = reversal[r].fact
    BY <1>1, <1>5 DEF ReversalRows
<1>7. a \in AfterRows /\ a.status = status /\ a.amount = row.amount /\ a.recovered = 0 /\ a.covered = 0
    BY <1>5 DEF AfterRows
<1> HIDE DEF v, a
<1>8. ~reversal[r].fact /\ buyerBack[r].provider = "NONE" /\ after[r].recovered = 0 /\ after[r].covered = 0
    BY <1>1 DEF Backed
<1>9. Backed(a, v, buyerBack[r])
    BY <1>5, <1>6, <1>7, <1>8 DEF Backed
<1>10. Taken(a) = 0 /\ Taken(after[r]) = 0
    BY <1>7, <1>8 DEF Taken
<1>11. RefundStep(r, a, v, buyerBack[r])
    BY <1>1, <1>2, <1>3, <1>6, <1>7, <1>9, <1>10 DEF RefundStep
<1> QED
    BY <1>11, RefundStepKeeps

LEMMA RecoverKeeps ==
    ASSUME BackedInv, NEW r \in Attempts, NEW reply \in Replies,
           (\E amount \in AfterSums : StartPostReleaseRefund(r, amount, reply)) \/ RetryRecovery(r, reply)
    PROVE  BackedInv'
<1>1. after[r] \in AfterRows /\ Backed(after[r], reversal[r], buyerBack[r]) /\ AskedFor(Attempts) \in Nat /\ AskedFor(Attempts) <= Transferred
    BY RefundRows
<1>2. CASE \E amount \in AfterSums : StartPostReleaseRefund(r, amount, reply)
  <2>1. PICK amount \in AfterSums : StartPostReleaseRefund(r, amount, reply)
      BY <1>2
  <2> DEFINE row == [status |-> "RECOVERING", amount |-> amount, recovered |-> 0, covered |-> 0]
  <2>2. amount \in Nat /\ amount > 0 /\ Transferred \in Nat
      BY AfterAssumption
  <2>3. row \in AfterRows /\ row.status = "RECOVERING" /\ row.amount = amount /\ row.recovered = 0 /\ row.covered = 0
      BY <2>2 DEF AfterRows
  <2>4. after[r].status = "NONE" /\ amount <= Transferred - AskedFor(Attempts) /\ AttemptReversal(r, row, reply)
      BY <2>1 DEF StartPostReleaseRefund
  <2>5. after[r].amount = 0
      BY <1>1, <2>4 DEF Backed
  <2> HIDE DEF row
  <2> QED
      BY <1>1, <2>2, <2>3, <2>4, <2>5, AttemptKeeps
<1>3. CASE RetryRecovery(r, reply)
  <2>1. after[r].status = "DEFICIT" /\ AttemptReversal(r, after[r], reply)
      BY <1>3 DEF RetryRecovery
  <2>2. after[r].amount > 0 /\ after[r].recovered = 0 /\ after[r].covered = 0 /\ after[r].amount \in Nat
      BY <1>1, <2>1 DEF Backed, AfterRows
  <2> QED
      BY <1>1, <2>1, <2>2, AttemptKeeps
<1> QED
    BY <1>2, <1>3

\* What requestAfterReleaseRefund leaves of the refund to the buyer.
LEMMA SentRow ==
    ASSUME NEW r, NEW row, NEW left, NEW reply \in Replies, SendRefund(r, row, left, reply)
    PROVE  \E b \in BuyerRows : buyerBack' = [buyerBack EXCEPT ![r] = b]
<1> DEFINE journal == Journalled(reply)
           provider == IF reply \in {"ok", "late"} THEN "PENDING" ELSE "NONE"
           b == [journal |-> journal, fact |-> "NONE", provider |-> provider]
<1>1. journal \in {"PENDING", "UNKNOWN", "SUCCEEDED", "FAILED"} /\ provider \in {"PENDING", "NONE"}
    BY DEF Journalled, Replies
<1>2. buyerBack' = [buyerBack EXCEPT ![r] = b]
    BY DEF SendRefund
<1> HIDE DEF journal, provider
<1>3. b \in BuyerRows
    BY <1>1 DEF BuyerRows
<1> QED
    BY <1>2, <1>3

LEMMA CoverKeeps ==
    ASSUME BackedInv, NEW r \in Attempts, NEW reply \in Replies, CoverDeficit(r, reply)
    PROVE  BackedInv'
<1> DEFINE a == [after[r] EXCEPT !.status = "REFUND_PENDING", !.covered = after[r].amount]
<1>1. /\ after[r] \in AfterRows /\ reversal[r] \in ReversalRows /\ Backed(after[r], reversal[r], buyerBack[r])
      /\ reversal = [reversal EXCEPT ![r] = reversal[r]] /\ accountHeld \in Int /\ AskedFor(Attempts) \in Nat /\ AskedFor(Attempts) <= Transferred
    BY RefundRows
<1>2. /\ after[r].status = "DEFICIT" /\ reversal[r].journal \notin {"PENDING", "UNKNOWN", "SUCCEEDED"} /\ reversal' = reversal
      /\ after' = [after EXCEPT ![r].status = "REFUND_PENDING", ![r].covered = after[r].amount - after[r].recovered]
      /\ accountHeld' = accountHeld + (after[r].amount - after[r].recovered)
      /\ SendRefund(r, after[r], Transferred - RefundedTotal, reply)
    BY DEF CoverDeficit
<1>3. after[r].recovered = 0 /\ after[r].covered = 0 /\ ~reversal[r].applied /\ after[r].amount \in Nat /\ after[r].amount > 0
    BY <1>1, <1>2 DEF Backed, AfterRows
<1>4. after[r].amount - after[r].recovered = after[r].amount
    BY <1>3
<1>5. after' = [after EXCEPT ![r] = a]
  <2>1. after \in [Attempts -> AfterRows]
      BY DEF BackedInv, AfterTypes
  <2> QED
      BY <1>2, <1>4, <2>1 DEF AfterRows
<1>6. PICK b \in BuyerRows : buyerBack' = [buyerBack EXCEPT ![r] = b]
    BY <1>2, SentRow
<1>7. a \in AfterRows /\ a.status = "REFUND_PENDING" /\ a.amount = after[r].amount /\ a.recovered = 0 /\ a.covered = after[r].amount
    BY <1>1, <1>3 DEF AfterRows
<1> HIDE DEF a
<1>8. Backed(a, reversal[r], b)
    BY <1>3, <1>7 DEF Backed
<1>9. Taken(a) = after[r].amount /\ Taken(after[r]) = 0
    BY <1>2, <1>3, <1>7 DEF Taken
<1>10. AskedFor(Attempts) + a.amount - after[r].amount <= Transferred
    BY <1>1, <1>3, <1>7
<1>11. accountHeld' = accountHeld + Taken(a) - Taken(after[r])
    BY <1>1, <1>2, <1>3, <1>4, <1>9
<1>12. RefundStep(r, a, reversal[r], b)
    BY <1>1, <1>2, <1>5, <1>6, <1>7, <1>8, <1>10, <1>11 DEF RefundStep
<1> QED
    BY <1>12, RefundStepKeeps

LEMMA ReversalFactKeeps ==
    ASSUME BackedInv, NEW r \in Attempts, NEW reply \in Replies, ReversalSucceeded(r, reply)
    PROVE  BackedInv'
<1> DEFINE a == [after[r] EXCEPT !.recovered = after[r].amount, !.status = "REFUND_PENDING"]
           v == [reversal[r] EXCEPT !.fact = TRUE]
<1>1. /\ after[r] \in AfterRows /\ reversal[r] \in ReversalRows /\ Backed(after[r], reversal[r], buyerBack[r])
      /\ accountHeld \in Int /\ AskedFor(Attempts) \in Nat /\ AskedFor(Attempts) <= Transferred
    BY RefundRows
<1>2. reversal[r].applied /\ ~reversal[r].fact /\ reversal' = [reversal EXCEPT ![r] = v]
    BY DEF ReversalSucceeded
<1>3. /\ after[r].status \in {"RECOVERING", "DEFICIT"} /\ after[r].recovered = 0 /\ after[r].covered = 0
      /\ after[r].amount \in Nat /\ after[r].amount > 0
    BY <1>1, <1>2 DEF Backed, AfterRows
<1>4. /\ after' = [after EXCEPT ![r].recovered = after[r].amount, ![r].status = "REFUND_PENDING"]
      /\ accountHeld' = accountHeld + after[r].amount /\ SendRefund(r, after[r], PrincipalLeft, reply)
    BY <1>3 DEF ReversalSucceeded
<1>5. after' = [after EXCEPT ![r] = a]
  <2>1. after \in [Attempts -> AfterRows]
      BY DEF BackedInv, AfterTypes
  <2> QED
      BY <1>4, <2>1 DEF AfterRows
<1>6. PICK b \in BuyerRows : buyerBack' = [buyerBack EXCEPT ![r] = b]
    BY <1>4, SentRow
<1>7. /\ a \in AfterRows /\ a.status = "REFUND_PENDING" /\ a.amount = after[r].amount /\ a.recovered = after[r].amount /\ a.covered = 0
      /\ v \in ReversalRows /\ v.applied = reversal[r].applied /\ v.fact /\ v.journal = reversal[r].journal
    BY <1>1, <1>3 DEF AfterRows, ReversalRows
<1> HIDE DEF a, v
<1>8. Backed(a, v, b)
    BY <1>1, <1>2, <1>3, <1>7 DEF Backed
<1>9. Taken(a) = after[r].amount /\ Taken(after[r]) = 0
    BY <1>3, <1>7 DEF Taken
<1>10. AskedFor(Attempts) + a.amount - after[r].amount <= Transferred
    BY <1>1, <1>3, <1>7
<1>11. accountHeld' = accountHeld + Taken(a) - Taken(after[r])
    BY <1>1, <1>3, <1>4, <1>9
<1>12. RefundStep(r, a, v, b)
    BY <1>2, <1>5, <1>6, <1>7, <1>8, <1>10, <1>11 DEF RefundStep
<1> QED
    BY <1>12, RefundStepKeeps

LEMMA BuyerFactKeeps ==
    ASSUME BackedInv, NEW r \in Attempts, BuyerRefundFact(r)
    PROVE  BackedInv'
<1> DEFINE b == [buyerBack[r] EXCEPT !.fact = buyerBack[r].provider]
           a == [after[r] EXCEPT !.status = "REFUNDED"]
<1>1. /\ after[r] \in AfterRows /\ reversal[r] \in ReversalRows /\ buyerBack[r] \in BuyerRows /\ Backed(after[r], reversal[r], buyerBack[r])
      /\ after = [after EXCEPT ![r] = after[r]] /\ reversal = [reversal EXCEPT ![r] = reversal[r]]
      /\ accountHeld \in Int /\ AskedFor(Attempts) \in Nat /\ AskedFor(Attempts) <= Transferred
    BY RefundRows
<1>2. buyerBack[r].provider \in {"SUCCEEDED", "FAILED"} /\ buyerBack' = [buyerBack EXCEPT ![r] = b] /\ reversal' = reversal
    BY DEF BuyerRefundFact
<1>3. /\ after[r].status \in {"REFUND_PENDING", "REFUNDED"} /\ after[r].recovered + after[r].covered = after[r].amount
      /\ after[r].amount \in Nat
    BY <1>1, <1>2 DEF Backed, AfterRows
<1>4. b \in BuyerRows /\ b.provider = buyerBack[r].provider
    BY <1>1, <1>2 DEF BuyerRows
<1> HIDE DEF b
<1>5. CASE buyerBack[r].provider = "SUCCEEDED" /\ after[r].status = "REFUND_PENDING"
  <2>1. after' = [after EXCEPT ![r] = a] /\ accountHeld' = accountHeld - after[r].amount
      BY <1>5 DEF BuyerRefundFact
  <2>2. a \in AfterRows /\ a.status = "REFUNDED" /\ a.amount = after[r].amount /\ a.recovered = after[r].recovered /\ a.covered = after[r].covered
      BY <1>1 DEF AfterRows
  <2> HIDE DEF a
  <2>3. Backed(a, reversal[r], b)
      BY <1>1, <1>3, <2>2 DEF Backed
  <2>4. Taken(a) = 0 /\ Taken(after[r]) = after[r].amount
      BY <1>3, <1>5, <2>2 DEF Taken
  <2>5. AskedFor(Attempts) + a.amount - after[r].amount <= Transferred /\ accountHeld' = accountHeld + Taken(a) - Taken(after[r])
      BY <1>1, <1>3, <2>1, <2>2, <2>4
  <2>6. RefundStep(r, a, reversal[r], b)
      BY <1>1, <1>2, <1>4, <2>1, <2>2, <2>3, <2>5 DEF RefundStep
  <2> QED
      BY <2>6, RefundStepKeeps
<1>6. CASE ~(buyerBack[r].provider = "SUCCEEDED" /\ after[r].status = "REFUND_PENDING")
  <2>1. after' = after /\ accountHeld' = accountHeld
      BY <1>6 DEF BuyerRefundFact
  <2>2. Backed(after[r], reversal[r], b)
      BY <1>1, <1>3 DEF Backed
  <2>3. Taken(after[r]) \in Nat
      BY <1>1 DEF Taken, AfterRows
  <2>4. AskedFor(Attempts) + after[r].amount - after[r].amount <= Transferred /\ accountHeld' = accountHeld + Taken(after[r]) - Taken(after[r])
      BY <1>1, <1>3, <2>1, <2>3
  <2>5. RefundStep(r, after[r], reversal[r], b)
      BY <1>1, <1>2, <1>4, <2>1, <2>2, <2>4 DEF RefundStep
  <2> QED
      BY <2>5, RefundStepKeeps
<1> QED
    BY <1>5, <1>6

\* The provider settles a refund, or the reconciliation job learns of a call: no money of the platform moves.
LEMMA ProviderStepKeeps ==
    ASSUME BackedInv, NEW r \in Attempts, ResolveAfter(r) \/ \E s \in {"SUCCEEDED", "FAILED"} : SettleBuyerRefund(r, s)
    PROVE  BackedInv'
<1>1. /\ after[r] \in AfterRows /\ reversal[r] \in ReversalRows /\ buyerBack[r] \in BuyerRows /\ Backed(after[r], reversal[r], buyerBack[r])
      /\ after = [after EXCEPT ![r] = after[r]] /\ reversal = [reversal EXCEPT ![r] = reversal[r]] /\ buyerBack = [buyerBack EXCEPT ![r] = buyerBack[r]]
      /\ accountHeld \in Int /\ AskedFor(Attempts) \in Nat /\ AskedFor(Attempts) <= Transferred
    BY RefundRows
<1>2. after' = after /\ accountHeld' = accountHeld
    BY DEF ResolveAfter, SettleBuyerRefund
<1>3. Taken(after[r]) \in Nat /\ after[r].amount \in Nat
    BY <1>1 DEF Taken, AfterRows
<1>4. /\ AskedFor(Attempts) + after[r].amount - after[r].amount <= Transferred
      /\ accountHeld' = accountHeld + Taken(after[r]) - Taken(after[r])
    BY <1>1, <1>2, <1>3
<1>5. \E v \in ReversalRows, b \in BuyerRows : /\ reversal' = [reversal EXCEPT ![r] = v] /\ buyerBack' = [buyerBack EXCEPT ![r] = b]
                                               /\ Backed(after[r], v, b)
  <2>1. CASE \E s \in {"SUCCEEDED", "FAILED"} : SettleBuyerRefund(r, s)
    <3>1. PICK s \in {"SUCCEEDED", "FAILED"} : SettleBuyerRefund(r, s)
        BY <2>1
    <3> DEFINE b == [buyerBack[r] EXCEPT !.provider = s]
    <3>2. buyerBack' = [buyerBack EXCEPT ![r] = b] /\ reversal' = reversal /\ buyerBack[r].provider = "PENDING"
        BY <3>1 DEF SettleBuyerRefund
    <3>3. b \in BuyerRows
        BY <1>1 DEF BuyerRows
    <3> HIDE DEF b
    <3>4. Backed(after[r], reversal[r], b)
        BY <1>1, <3>2 DEF Backed
    <3> QED
        BY <1>1, <3>2, <3>3, <3>4
  <2>2. CASE ResolveAfter(r)
    <3>1. CASE reversal[r].applied /\ reversal' = [reversal EXCEPT ![r].journal = "SUCCEEDED"] /\ buyerBack' = buyerBack
      <4> DEFINE v == [reversal[r] EXCEPT !.journal = "SUCCEEDED"]
      <4>1. reversal' = [reversal EXCEPT ![r] = v] /\ buyerBack' = [buyerBack EXCEPT ![r] = buyerBack[r]]
          BY <1>1, <3>1
      <4>2. v \in ReversalRows /\ v.journal = "SUCCEEDED" /\ v.applied = reversal[r].applied /\ v.fact = reversal[r].fact
          BY <1>1 DEF ReversalRows
      <4> HIDE DEF v
      <4>3. Backed(after[r], v, buyerBack[r])
          BY <1>1, <4>2 DEF Backed
      <4> QED
          BY <1>1, <4>1, <4>2, <4>3
    <3>2. CASE buyerBack' = [buyerBack EXCEPT ![r].journal = "SUCCEEDED"] /\ reversal' = reversal
      <4> DEFINE b == [buyerBack[r] EXCEPT !.journal = "SUCCEEDED"]
      <4>1. buyerBack' = [buyerBack EXCEPT ![r] = b] /\ reversal' = [reversal EXCEPT ![r] = reversal[r]]
          BY <1>1, <3>2
      <4>2. b \in BuyerRows /\ b.provider = buyerBack[r].provider
          BY <1>1 DEF BuyerRows
      <4> HIDE DEF b
      <4>3. Backed(after[r], reversal[r], b)
          BY <1>1, <4>2 DEF Backed
      <4> QED
          BY <1>1, <4>1, <4>2, <4>3
    <3> QED
        BY <2>2, <3>1, <3>2 DEF ResolveAfter
  <2> QED
      BY <2>1, <2>2
<1>6. PICK v \in ReversalRows, b \in BuyerRows : /\ reversal' = [reversal EXCEPT ![r] = v] /\ buyerBack' = [buyerBack EXCEPT ![r] = b]
                                                 /\ Backed(after[r], v, b)
    BY <1>5
<1>7. RefundStep(r, after[r], v, b)
    BY <1>1, <1>2, <1>4, <1>6 DEF RefundStep
<1> QED
    BY <1>7, RefundStepKeeps

LEMMA AfterNextKeeps == BackedInv /\ [AfterNext]_afterVars => BackedInv'
<1> SUFFICES ASSUME BackedInv, [AfterNext]_afterVars PROVE BackedInv'
    OBVIOUS
<1>1. CASE \E r \in Attempts, reply \in Replies :
             \/ \E amount \in AfterSums : StartPostReleaseRefund(r, amount, reply)
             \/ RetryRecovery(r, reply) \/ CoverDeficit(r, reply) \/ ReversalSucceeded(r, reply)
    BY <1>1, RecoverKeeps, CoverKeeps, ReversalFactKeeps
<1>2. CASE \E r \in Attempts : BuyerRefundFact(r) \/ ResolveAfter(r) \/ \E s \in {"SUCCEEDED", "FAILED"} : SettleBuyerRefund(r, s)
    BY <1>2, BuyerFactKeeps, ProviderStepKeeps
<1>3. CASE CardDispute \/ UNCHANGED afterVars
  <2>1. UNCHANGED <<after, reversal, buyerBack, accountHeld>>
      BY <1>3 DEF CardDispute, afterVars
  <2> QED
      BY <2>1 DEF BackedInv, AfterTypes, AskedFor, TakenTotal
<1> QED
    BY <1>1, <1>2, <1>3 DEF AfterNext

\* However calls are lost, repeated, covered or reported late, the buyer of a paid-out order is refunded with money taken
\* back exactly once, never more than was transferred, and the books hold what was taken and not sent (funding.ts:569-570).
THEOREM RefundsAreBackedOnce == AfterSpec => []RefundBackedOnce
<1>1. BackedInv => RefundBackedOnce
  <2> SUFFICES ASSUME BackedInv PROVE RefundBackedOnce
      OBVIOUS
  <2>1. ASSUME NEW r \in Attempts, buyerBack[r].provider # "NONE"
        PROVE  \/ after[r].recovered = after[r].amount /\ after[r].covered = 0 /\ reversal[r].applied
               \/ after[r].covered = after[r].amount /\ after[r].recovered = 0 /\ ~reversal[r].applied
    <3>1. Backed(after[r], reversal[r], buyerBack[r]) /\ after[r] \in AfterRows
        BY DEF BackedInv, AfterTypes
    <3> QED
        BY <2>1, <3>1 DEF Backed, AfterRows
  <2>2. RefundedTotal <= Transferred
    <3> DEFINE f == [r \in Attempts |-> after[r].amount]
               S == {r \in Attempts : LiveRefund(r)}
    <3>1. Amounts(f, Attempts)
        BY AfterAssumption DEF BackedInv, AfterTypes, AfterRows, Amounts
    <3>2. S \in SUBSET Attempts
        OBVIOUS
    <3>3. RefundedTotal = Total(f, S) /\ AskedFor(Attempts) = Total(f, Attempts) /\ AskedFor(Attempts) <= Transferred
        BY DEF RefundedTotal, AskedFor, BackedInv
    <3> HIDE DEF f, S
    <3>4. Total(f, S) <= Total(f, Attempts) /\ Total(f, S) \in Nat /\ Total(f, Attempts) \in Nat
        BY <3>1, <3>2, TotalPart, TotalNat
    <3> QED
        BY <3>3, <3>4, AfterAssumption
  <2>3. accountHeld = TakenTotal
      BY DEF BackedInv
  <2> QED
      BY <2>1, <2>2, <2>3 DEF RefundBackedOnce, TakenTotal
<1> QED
    BY <1>1, BackedInit, AfterNextKeeps, PTL DEF AfterSpec

-----------------------------------------------------------------------------
(* Campaign pools *)

PoolSpec == PoolInit /\ [][PoolNext]_poolVars

BucketRows == [confirmed_deposit : Int, unallocated : Int, allocated_active : Int, pending_outflow : Int, released : Int, refunded : Int]
AllocationRows == [state : {"NONE", "ACTIVE", "CANCELLED", "RELEASE_PENDING", "RELEASED"}, amount : Nat, attempts : Nat,
                   required : BOOLEAN]
PooledRows == [status : {"NONE", "OFFERED", "FUNDED", "REFUNDED", "APPROVED", "CANCELLED", "COMPLETED"},
               settlement : {"NOT_READY", "READY", "PENDING", "RELEASED"}, cash : Nat, version : Nat]
PoolRefundRows == [state : {"REFUND_PENDING", "REFUNDED", "FAILED"}, amount : Nat]

\* The templates validateTemplate lets through.
Accepted == {v \in 1..Len(Templates) : ValidTemplate(Templates[v])}
PoolRows == [status : {"FUNDING", "ACTIVE", "CLOSED"}, version : Accepted]

PoolTypes ==
    /\ pool \in PoolRows
    /\ balance \in [Assets -> BucketRows] /\ allocation \in [PoolHires -> [Assets -> AllocationRows]]
    /\ pooled \in [PoolHires -> PooledRows] /\ refund \in [Assets -> Seq(PoolRefundRows)] /\ funded \in [Assets -> Nat]

\* Every reward the template of the order's terms requires, in full, and no other is marked required.
HoldsRewards(p, al) ==
    /\ p.version \in Accepted /\ Templates[p.version].cash = p.cash
    /\ \A a \in Assets : /\ al[a].required <=> a \in Templates[p.version].required
                         /\ a \in Templates[p.version].required => al[a].state # "NONE" /\ al[a].amount = Templates[p.version][a]

\* An order and its rewards tell one story: the required rewards live as long as the order, and settle it together.
RewardsFit(p, al) ==
    /\ p.status \in {"NONE", "OFFERED"} => p.settlement = "NOT_READY" /\ \A a \in Assets : al[a] = NoAllocation
    /\ p.status = "FUNDED" => p.settlement = "NOT_READY" /\ HoldsRewards(p, al) /\ \A a \in Assets : al[a].state \in {"NONE", "ACTIVE"}
    /\ p.status = "REFUNDED" => p.settlement = "NOT_READY" /\ \A a \in Assets : al[a].state \in {"NONE", "CANCELLED"}
    /\ p.status \in {"APPROVED", "CANCELLED", "COMPLETED"} =>
          /\ p.settlement \in {"READY", "PENDING", "RELEASED"} /\ (p.settlement = "RELEASED" <=> Settled(al))
          /\ HoldsRewards(p, al) /\ \A a \in Assets : al[a].state \in {"NONE", "ACTIVE", "RELEASE_PENDING", "RELEASED"}
          /\ p.status = "COMPLETED" => p.settlement = "RELEASED"

\* A closed pool waits for nobody.
ClosedFits(status, p) == status = "CLOSED" => p.status \in {"NONE", "OFFERED", "REFUNDED"} \/ p.settlement = "RELEASED"

\* Movements of a reward, and of an asset, that the ledger L cannot hold yet: the next one is never taken for a repetition.
RewardRefs(L, h, a, p, x) ==
    /\ p.status \in {"NONE", "OFFERED"} => <<"ALLOCATE", <<h, a>>>> \notin L
    /\ p.status # "REFUNDED" => <<"DEALLOCATE", <<h, a>>>> \notin L
    /\ \A n \in Nat :
        /\ n > x.attempts => <<"RELEASE_START", <<h, a, n>>>> \notin L
        /\ n > x.attempts \/ (n = x.attempts /\ x.state = "RELEASE_PENDING") =>
              <<"RELEASE_DONE", <<h, a, n>>>> \notin L /\ <<"RELEASE_FAILED", <<h, a, n>>>> \notin L
AssetRefs(L, a, credited, rs) ==
    \A n \in Nat \ {0} :
        /\ n > credited => <<"DEPOSIT", <<a, n>>>> \notin L
        /\ n > Len(rs) => <<"REFUND_START", <<a, n>>>> \notin L
        /\ n > Len(rs) \/ rs[n].state = "REFUND_PENDING" => <<"REFUND_DONE", <<a, n>>>> \notin L /\ <<"REFUND_FAILED", <<a, n>>>> \notin L

\* The buckets of an asset are its deposits and the sums of its rewards and refunds, by state.
BucketsFit(b, deposits, active, releasing, paid, refunding, back) ==
    /\ b.confirmed_deposit = deposits
    /\ b.confirmed_deposit = b.unallocated + b.allocated_active + b.pending_outflow + b.released + b.refunded
    /\ b.allocated_active = active /\ b.pending_outflow = releasing + refunding /\ b.released = paid /\ b.refunded = back
AssetFits(a) == BucketsFit(balance[a], funded[a] * PoolDeposits[a], AllocatedIn(a, "ACTIVE"), AllocatedIn(a, "RELEASE_PENDING"),
                           AllocatedIn(a, "RELEASED"), RefundsIn(a, "REFUND_PENDING"), RefundsIn(a, "REFUNDED"))

PoolInv ==
    /\ PoolTypes
    /\ \A h \in PoolHires : /\ RewardsFit(pooled[h], allocation[h]) /\ ClosedFits(pool.status, pooled[h])
                            /\ \A a \in Assets : RewardRefs(poolLedger, h, a, pooled[h], allocation[h][a])
    /\ \A a \in Assets : AssetFits(a) /\ AssetRefs(poolLedger, a, funded[a], refund[a])

LEMMA TemplateRows == Len(Templates) \in Nat /\ 1 \in 1..Len(Templates)
                      /\ \A v \in 1..Len(Templates) : Templates[v].required \subseteq Assets /\ \A a \in Assets : Templates[v][a] \in Nat
<1>1. /\ Len(Templates) \in Nat /\ Len(Templates) > 0
      /\ \A v \in 1..Len(Templates) : Templates[v] \in [cash : Nat, token : Nat, required : SUBSET Assets, perk : BOOLEAN]
  <2> DEFINE row == [cash : Nat, token : Nat, required : SUBSET Assets, perk : BOOLEAN]
  <2>1. Templates \in Seq(row) /\ Templates # <<>>
      BY PoolAssumption
  <2> HIDE DEF row
  <2>2. Len(Templates) \in Nat /\ Len(Templates) > 0 /\ \A v \in 1..Len(Templates) : Templates[v] \in row
      BY <2>1
  <2> QED
      BY <2>2 DEF row
<1> QED
    BY <1>1 DEF Assets

\* An accepted template requires its CASH item.
LEMMA AcceptedRows == \A v \in Accepted : v \in 1..Len(Templates) /\ "cash" \in Templates[v].required /\ "cash" \in Assets
    BY DEF Accepted, ValidTemplate, Assets

\* A hire that holds a required reward which is not released is not settled.
LEMMA Outstanding ==
    ASSUME NEW p, NEW al, HoldsRewards(p, al), \A a \in Assets : al[a].state \in {"NONE", "ACTIVE"}
    PROVE  ~Settled(al)
<1>1. "cash" \in Templates[p.version].required /\ "cash" \in Assets
    BY AcceptedRows DEF HoldsRewards
<1>2. al["cash"].required /\ al["cash"].state # "RELEASED"
    BY <1>1 DEF HoldsRewards
<1> QED
    BY <1>1, <1>2 DEF Settled

LEMMA PoolInitHolds == PoolInit => PoolInv
<1> SUFFICES ASSUME PoolInit PROVE PoolInv
    OBVIOUS
<1>1. PoolTypes
  <2>1. pool \in PoolRows
      BY TemplateRows DEF PoolInit, PoolRows, Accepted
  <2>2. balance \in [Assets -> BucketRows] /\ allocation \in [PoolHires -> [Assets -> AllocationRows]] /\ pooled \in [PoolHires -> PooledRows]
      BY DEF PoolInit, Empty, BucketRows, NoAllocation, AllocationRows, PooledRows
  <2>3. refund \in [Assets -> Seq(PoolRefundRows)] /\ funded \in [Assets -> Nat]
      BY DEF PoolInit
  <2> QED
      BY <2>1, <2>2, <2>3 DEF PoolTypes
<1>2. \A h \in PoolHires : /\ RewardsFit(pooled[h], allocation[h]) /\ ClosedFits(pool.status, pooled[h])
                           /\ \A a \in Assets : RewardRefs(poolLedger, h, a, pooled[h], allocation[h][a])
    BY DEF PoolInit, RewardsFit, ClosedFits, RewardRefs
<1>3. \A a \in Assets : AssetRefs(poolLedger, a, funded[a], refund[a])
    BY DEF PoolInit, AssetRefs
<1>4. ASSUME NEW a \in Assets PROVE AssetFits(a)
  <2>1. \A state : /\ \A h \in {x \in PoolHires : allocation[x][a].state = state} : [x \in PoolHires |-> allocation[x][a].amount][h] = 0
                   /\ \A k \in {x \in DOMAIN refund[a] : refund[a][x].state = state} : [x \in DOMAIN refund[a] |-> refund[a][x].amount][k] = 0
      BY DEF PoolInit, NoAllocation
  <2>2. AllocatedIn(a, "ACTIVE") = 0 /\ AllocatedIn(a, "RELEASE_PENDING") = 0 /\ AllocatedIn(a, "RELEASED") = 0
      BY <2>1, TotalZero DEF AllocatedIn
  <2>3. RefundsIn(a, "REFUND_PENDING") = 0 /\ RefundsIn(a, "REFUNDED") = 0
      BY <2>1, TotalZero DEF RefundsIn
  <2>4. funded[a] * PoolDeposits[a] = 0
    <3>1. PoolDeposits[a] \in Nat /\ funded[a] = 0
        BY PoolAssumption DEF PoolInit
    <3> QED
        BY <3>1
  <2>5. balance[a] = Empty
      BY DEF PoolInit
  <2> QED
      BY <2>2, <2>3, <2>4, <2>5 DEF AssetFits, BucketsFit, Empty
<1> QED
    BY <1>1, <1>2, <1>3, <1>4 DEF PoolInv

\* The six buckets of an asset.
BucketsAre(c, deposit, free, active, out, released, refunded) ==
    /\ c \in BucketRows /\ c.confirmed_deposit = deposit /\ c.unallocated = free /\ c.allocated_active = active
    /\ c.pending_outflow = out /\ c.released = released /\ c.refunded = refunded

\* Where a movement takes an amount from and puts it.
LEMMA BucketMoves ==
    ASSUME NEW b \in BucketRows, NEW n \in Int
    PROVE  /\ BucketsAre(BucketsAfter("DEPOSIT", b, n), b.confirmed_deposit + n, b.unallocated + n, b.allocated_active, b.pending_outflow, b.released, b.refunded)
           /\ BucketsAre(BucketsAfter("ALLOCATE", b, n), b.confirmed_deposit, b.unallocated - n, b.allocated_active + n, b.pending_outflow, b.released, b.refunded)
           /\ BucketsAre(BucketsAfter("DEALLOCATE", b, n), b.confirmed_deposit, b.unallocated + n, b.allocated_active - n, b.pending_outflow, b.released, b.refunded)
           /\ BucketsAre(BucketsAfter("RELEASE_START", b, n), b.confirmed_deposit, b.unallocated, b.allocated_active - n, b.pending_outflow + n, b.released, b.refunded)
           /\ BucketsAre(BucketsAfter("RELEASE_DONE", b, n), b.confirmed_deposit, b.unallocated, b.allocated_active, b.pending_outflow - n, b.released + n, b.refunded)
           /\ BucketsAre(BucketsAfter("RELEASE_FAILED", b, n), b.confirmed_deposit, b.unallocated, b.allocated_active + n, b.pending_outflow - n, b.released, b.refunded)
           /\ BucketsAre(BucketsAfter("REFUND_START", b, n), b.confirmed_deposit, b.unallocated - n, b.allocated_active, b.pending_outflow + n, b.released, b.refunded)
           /\ BucketsAre(BucketsAfter("REFUND_DONE", b, n), b.confirmed_deposit, b.unallocated, b.allocated_active, b.pending_outflow - n, b.released, b.refunded + n)
           /\ BucketsAre(BucketsAfter("REFUND_FAILED", b, n), b.confirmed_deposit, b.unallocated + n, b.allocated_active, b.pending_outflow - n, b.released, b.refunded)
<1>1. BucketsAre(BucketsAfter("DEPOSIT", b, n), b.confirmed_deposit + n, b.unallocated + n, b.allocated_active, b.pending_outflow, b.released, b.refunded)
  <2> DEFINE first == b.confirmed_deposit + n
             second == b.unallocated + n
  <2>1. first \in Int /\ second \in Int
      BY DEF BucketRows
  <2>2. BucketsAfter("DEPOSIT", b, n) = [b EXCEPT !.confirmed_deposit = first, !.unallocated = second]
      BY DEF BucketsAfter, BucketRows, MOVES
  <2> HIDE DEF first, second
  <2>3. BucketsAre([b EXCEPT !.confirmed_deposit = first, !.unallocated = second], first, second, b.allocated_active, b.pending_outflow, b.released, b.refunded)
      BY <2>1 DEF BucketsAre, BucketRows
  <2> QED
      BY <2>2, <2>3 DEF first, second
<1>2. BucketsAre(BucketsAfter("ALLOCATE", b, n), b.confirmed_deposit, b.unallocated - n, b.allocated_active + n, b.pending_outflow, b.released, b.refunded)
  <2> DEFINE first == b.unallocated - n
             second == b.allocated_active + n
  <2>1. first \in Int /\ second \in Int
      BY DEF BucketRows
  <2>2. BucketsAfter("ALLOCATE", b, n) = [b EXCEPT !.unallocated = first, !.allocated_active = second]
      BY DEF BucketsAfter, BucketRows, MOVES
  <2> HIDE DEF first, second
  <2>3. BucketsAre([b EXCEPT !.unallocated = first, !.allocated_active = second], b.confirmed_deposit, first, second, b.pending_outflow, b.released, b.refunded)
      BY <2>1 DEF BucketsAre, BucketRows
  <2> QED
      BY <2>2, <2>3 DEF first, second
<1>3. BucketsAre(BucketsAfter("DEALLOCATE", b, n), b.confirmed_deposit, b.unallocated + n, b.allocated_active - n, b.pending_outflow, b.released, b.refunded)
  <2> DEFINE first == b.allocated_active - n
             second == b.unallocated + n
  <2>1. first \in Int /\ second \in Int
      BY DEF BucketRows
  <2>2. BucketsAfter("DEALLOCATE", b, n) = [b EXCEPT !.allocated_active = first, !.unallocated = second]
      BY DEF BucketsAfter, BucketRows, MOVES
  <2> HIDE DEF first, second
  <2>3. BucketsAre([b EXCEPT !.allocated_active = first, !.unallocated = second], b.confirmed_deposit, second, first, b.pending_outflow, b.released, b.refunded)
      BY <2>1 DEF BucketsAre, BucketRows
  <2> QED
      BY <2>2, <2>3 DEF first, second
<1>4. BucketsAre(BucketsAfter("RELEASE_START", b, n), b.confirmed_deposit, b.unallocated, b.allocated_active - n, b.pending_outflow + n, b.released, b.refunded)
  <2> DEFINE first == b.allocated_active - n
             second == b.pending_outflow + n
  <2>1. first \in Int /\ second \in Int
      BY DEF BucketRows
  <2>2. BucketsAfter("RELEASE_START", b, n) = [b EXCEPT !.allocated_active = first, !.pending_outflow = second]
      BY DEF BucketsAfter, BucketRows, MOVES
  <2> HIDE DEF first, second
  <2>3. BucketsAre([b EXCEPT !.allocated_active = first, !.pending_outflow = second], b.confirmed_deposit, b.unallocated, first, second, b.released, b.refunded)
      BY <2>1 DEF BucketsAre, BucketRows
  <2> QED
      BY <2>2, <2>3 DEF first, second
<1>5. BucketsAre(BucketsAfter("RELEASE_DONE", b, n), b.confirmed_deposit, b.unallocated, b.allocated_active, b.pending_outflow - n, b.released + n, b.refunded)
  <2> DEFINE first == b.pending_outflow - n
             second == b.released + n
  <2>1. first \in Int /\ second \in Int
      BY DEF BucketRows
  <2>2. BucketsAfter("RELEASE_DONE", b, n) = [b EXCEPT !.pending_outflow = first, !.released = second]
      BY DEF BucketsAfter, BucketRows, MOVES
  <2> HIDE DEF first, second
  <2>3. BucketsAre([b EXCEPT !.pending_outflow = first, !.released = second], b.confirmed_deposit, b.unallocated, b.allocated_active, first, second, b.refunded)
      BY <2>1 DEF BucketsAre, BucketRows
  <2> QED
      BY <2>2, <2>3 DEF first, second
<1>6. BucketsAre(BucketsAfter("RELEASE_FAILED", b, n), b.confirmed_deposit, b.unallocated, b.allocated_active + n, b.pending_outflow - n, b.released, b.refunded)
  <2> DEFINE first == b.pending_outflow - n
             second == b.allocated_active + n
  <2>1. first \in Int /\ second \in Int
      BY DEF BucketRows
  <2>2. BucketsAfter("RELEASE_FAILED", b, n) = [b EXCEPT !.pending_outflow = first, !.allocated_active = second]
      BY DEF BucketsAfter, BucketRows, MOVES
  <2> HIDE DEF first, second
  <2>3. BucketsAre([b EXCEPT !.pending_outflow = first, !.allocated_active = second], b.confirmed_deposit, b.unallocated, second, first, b.released, b.refunded)
      BY <2>1 DEF BucketsAre, BucketRows
  <2> QED
      BY <2>2, <2>3 DEF first, second
<1>7. BucketsAre(BucketsAfter("REFUND_START", b, n), b.confirmed_deposit, b.unallocated - n, b.allocated_active, b.pending_outflow + n, b.released, b.refunded)
  <2> DEFINE first == b.unallocated - n
             second == b.pending_outflow + n
  <2>1. first \in Int /\ second \in Int
      BY DEF BucketRows
  <2>2. BucketsAfter("REFUND_START", b, n) = [b EXCEPT !.unallocated = first, !.pending_outflow = second]
      BY DEF BucketsAfter, BucketRows, MOVES
  <2> HIDE DEF first, second
  <2>3. BucketsAre([b EXCEPT !.unallocated = first, !.pending_outflow = second], b.confirmed_deposit, first, b.allocated_active, second, b.released, b.refunded)
      BY <2>1 DEF BucketsAre, BucketRows
  <2> QED
      BY <2>2, <2>3 DEF first, second
<1>8. BucketsAre(BucketsAfter("REFUND_DONE", b, n), b.confirmed_deposit, b.unallocated, b.allocated_active, b.pending_outflow - n, b.released, b.refunded + n)
  <2> DEFINE first == b.pending_outflow - n
             second == b.refunded + n
  <2>1. first \in Int /\ second \in Int
      BY DEF BucketRows
  <2>2. BucketsAfter("REFUND_DONE", b, n) = [b EXCEPT !.pending_outflow = first, !.refunded = second]
      BY DEF BucketsAfter, BucketRows, MOVES
  <2> HIDE DEF first, second
  <2>3. BucketsAre([b EXCEPT !.pending_outflow = first, !.refunded = second], b.confirmed_deposit, b.unallocated, b.allocated_active, first, b.released, second)
      BY <2>1 DEF BucketsAre, BucketRows
  <2> QED
      BY <2>2, <2>3 DEF first, second
<1>9. BucketsAre(BucketsAfter("REFUND_FAILED", b, n), b.confirmed_deposit, b.unallocated + n, b.allocated_active, b.pending_outflow - n, b.released, b.refunded)
  <2> DEFINE first == b.pending_outflow - n
             second == b.unallocated + n
  <2>1. first \in Int /\ second \in Int
      BY DEF BucketRows
  <2>2. BucketsAfter("REFUND_FAILED", b, n) = [b EXCEPT !.pending_outflow = first, !.unallocated = second]
      BY DEF BucketsAfter, BucketRows, MOVES
  <2> HIDE DEF first, second
  <2>3. BucketsAre([b EXCEPT !.pending_outflow = first, !.unallocated = second], b.confirmed_deposit, second, b.allocated_active, first, b.released, b.refunded)
      BY <2>1 DEF BucketsAre, BucketRows
  <2> QED
      BY <2>2, <2>3 DEF first, second
<1> QED
    BY <1>1, <1>2, <1>3, <1>4, <1>5, <1>6, <1>7, <1>8, <1>9

\* One movement per asset in G, and the ledger entries it leaves.
MovesOf(G, amount, ref) == {Move(a, amount[a], ref[a]) : a \in G}
EntriesOf(movement, G, ref) == {<<movement, ref[a]>> : a \in G}

\* Movements with new references are all applied, each to its asset.
LEMMA AllMoved ==
    ASSUME NEW movement, NEW G \in SUBSET Assets, NEW amount, NEW ref, MoveBalance(movement, MovesOf(G, amount, ref)),
           \A a \in G : <<movement, ref[a]>> \notin poolLedger
    PROVE  /\ balance' = [a \in Assets |-> IF a \in G THEN BucketsAfter(movement, balance[a], amount[a]) ELSE balance[a]]
           /\ poolLedger' = poolLedger \cup EntriesOf(movement, G, ref)
<1> USE DEF MovesOf, EntriesOf
<1> DEFINE moves == {Move(a, amount[a], ref[a]) : a \in G}
           new == {m \in moves : <<movement, m.ref>> \notin poolLedger}
<1>1. \A a \in G : Move(a, amount[a], ref[a]).asset = a /\ Move(a, amount[a], ref[a]).amount = amount[a] /\ Move(a, amount[a], ref[a]).ref = ref[a]
    BY DEF Move
<1>2. new = moves
    BY <1>1
<1>3. /\ balance' = [a \in Assets |-> IF \E m \in new : m.asset = a
                                      THEN BucketsAfter(movement, balance[a], (CHOOSE m \in new : m.asset = a).amount) ELSE balance[a]]
      /\ poolLedger' = poolLedger \cup {<<movement, m.ref>> : m \in new}
    BY DEF MoveBalance
<1>4. ASSUME NEW a \in Assets
      PROVE  /\ (\E m \in moves : m.asset = a) <=> a \in G
             /\ a \in G => (CHOOSE m \in moves : m.asset = a).amount = amount[a]
  <2>1. (\E m \in moves : m.asset = a) <=> a \in G
      BY <1>1
  <2>2. ASSUME a \in G PROVE (CHOOSE m \in moves : m.asset = a).amount = amount[a]
    <3> DEFINE c == CHOOSE m \in moves : m.asset = a
    <3>1. c \in moves /\ c.asset = a
        BY <2>1, <2>2
    <3>2. PICK x \in G : c = Move(x, amount[x], ref[x])
        BY <3>1
    <3> HIDE DEF c
    <3>3. x = a /\ c.amount = amount[x]
        BY <1>1, <3>1, <3>2
    <3> QED
        BY <3>3 DEF c
  <2> QED
      BY <2>1, <2>2
<1>5. {<<movement, m.ref>> : m \in moves} = {<<movement, ref[a]>> : a \in G}
  <2>1. \A m \in moves : \E a \in G : m.ref = ref[a]
      BY <1>1
  <2>2. \A a \in G : \E m \in moves : m.ref = ref[a]
      BY <1>1
  <2> HIDE DEF moves
  <2> QED
      BY <2>1, <2>2
<1> HIDE DEF moves, new
<1>6. \A a \in Assets : (IF \E m \in moves : m.asset = a
                         THEN BucketsAfter(movement, balance[a], (CHOOSE m \in moves : m.asset = a).amount) ELSE balance[a])
                        = IF a \in G THEN BucketsAfter(movement, balance[a], amount[a]) ELSE balance[a]
    BY <1>4
<1> QED
    BY <1>2, <1>3, <1>5, <1>6

\* What a reward or refund adds to the sum of those in a state.
Counts(x, state) == IF x.state = state THEN x.amount ELSE 0
RefundSum(rs, state) == Total([k \in DOMAIN rs |-> rs[k].amount], {k \in DOMAIN rs : rs[k].state = state})

LEMMA RewardSum ==
    ASSUME PoolInv, NEW h \in PoolHires, NEW al \in [Assets -> AllocationRows], allocation' = [allocation EXCEPT ![h] = al],
           NEW a \in Assets, NEW state
    PROVE  /\ AllocatedIn(a, state)' = AllocatedIn(a, state) + Counts(al[a], state) - Counts(allocation[h][a], state)
           /\ AllocatedIn(a, state) \in Nat
<1> DEFINE f == [x \in PoolHires |-> allocation[x][a].amount]
           g == [x \in PoolHires |-> allocation'[x][a].amount]
           S == {x \in PoolHires : allocation[x][a].state = state}
           T == {x \in PoolHires : allocation'[x][a].state = state}
<1>1. allocation \in [PoolHires -> [Assets -> AllocationRows]]
    BY DEF PoolInv, PoolTypes
<1>2. allocation'[h] = al /\ \A x \in PoolHires : x # h => allocation'[x] = allocation[x]
    BY <1>1
<1>3. \A x \in PoolHires : allocation[x][a] \in AllocationRows /\ allocation'[x][a] \in AllocationRows
    BY <1>1, <1>2
<1>4. OnlyEntry(f, g, S, T, PoolHires, h)
    BY <1>2, <1>3, PoolAssumption DEF OnlyEntry, AllocationRows
<1>5. (IF h \in T THEN g[h] ELSE 0) = Counts(al[a], state) /\ (IF h \in S THEN f[h] ELSE 0) = Counts(allocation[h][a], state)
    BY <1>2 DEF Counts
<1>6. AllocatedIn(a, state) = Total(f, S) /\ AllocatedIn(a, state)' = Total(g, T)
    BY DEF AllocatedIn
<1> HIDE DEF f, g, S, T
<1>7. Total(g, T) = Total(f, S) + (IF h \in T THEN g[h] ELSE 0) - (IF h \in S THEN f[h] ELSE 0) /\ Total(f, S) \in Nat
    BY <1>4, TotalMoves
<1> QED
    BY <1>5, <1>6, <1>7

LEMMA RefundSumMoves ==
    ASSUME NEW rs \in Seq(PoolRefundRows), NEW k \in 1..Len(rs), NEW row \in PoolRefundRows, NEW state
    PROVE  /\ RefundSum([rs EXCEPT ![k] = row], state) = RefundSum(rs, state) + Counts(row, state) - Counts(rs[k], state)
           /\ RefundSum(rs, state) \in Nat
<1> DEFINE D == 1..Len(rs)
           qs == [rs EXCEPT ![k] = row]
           f == [x \in D |-> rs[x].amount]
           g == [x \in D |-> qs[x].amount]
           S == {x \in D : rs[x].state = state}
           T == {x \in D : qs[x].state = state}
<1>1. Len(rs) \in Nat /\ rs \in [D -> PoolRefundRows] /\ DOMAIN rs = D /\ DOMAIN qs = D /\ k \in D
    OBVIOUS
<1>2. IsFiniteSet(D)
    BY <1>1, FS_Interval
<1>3. qs[k] = row /\ \A x \in D : x # k => qs[x] = rs[x]
    BY <1>1
<1>4. \A x \in D : rs[x] \in PoolRefundRows /\ qs[x] \in PoolRefundRows
    BY <1>1, <1>3
<1>5. RefundSum(rs, state) = Total(f, S) /\ RefundSum(qs, state) = Total(g, T)
    BY <1>1 DEF RefundSum
<1> HIDE DEF D, qs
<1>6. OnlyEntry(f, g, S, T, D, k)
    BY <1>1, <1>2, <1>3, <1>4 DEF OnlyEntry, PoolRefundRows
<1>7. (IF k \in T THEN g[k] ELSE 0) = Counts(row, state) /\ (IF k \in S THEN f[k] ELSE 0) = Counts(rs[k], state)
    BY <1>1, <1>3 DEF Counts
<1> HIDE DEF f, g, S, T
<1>8. Total(g, T) = Total(f, S) + (IF k \in T THEN g[k] ELSE 0) - (IF k \in S THEN f[k] ELSE 0) /\ Total(f, S) \in Nat
    BY <1>6, TotalMoves
<1> QED
    BY <1>5, <1>7, <1>8 DEF qs

LEMMA RefundSumGrows ==
    ASSUME NEW rs \in Seq(PoolRefundRows), NEW row \in PoolRefundRows, NEW state
    PROVE  RefundSum(Append(rs, row), state) = RefundSum(rs, state) + Counts(row, state) /\ RefundSum(rs, state) \in Nat
<1> DEFINE D == 1..Len(rs)
           k == Len(rs) + 1
           qs == Append(rs, row)
           f == [x \in D |-> rs[x].amount]
           g == [x \in 1..k |-> qs[x].amount]
           S == {x \in D : rs[x].state = state}
           T == {x \in 1..k : qs[x].state = state}
<1>1. Len(rs) \in Nat /\ rs \in [D -> PoolRefundRows] /\ DOMAIN rs = D /\ DOMAIN qs = 1..k /\ 1..k = D \cup {k} /\ k \notin D
    OBVIOUS
<1>2. qs[k] = row /\ \A x \in D : qs[x] = rs[x] /\ rs[x] \in PoolRefundRows
    BY <1>1
<1>3. RefundSum(rs, state) = Total(f, S) /\ RefundSum(qs, state) = Total(g, T)
    BY <1>1 DEF RefundSum
<1>4. IsFiniteSet(D)
    BY <1>1, FS_Interval
<1> HIDE DEF D, k, qs
<1>5. (\A x \in S : f[x] = g[x]) /\ (\A x \in S : g[x] \in Nat) /\ S \subseteq D
    BY <1>1, <1>2 DEF PoolRefundRows
<1>6. Amounts(g, S) /\ Amounts(f, S)
    BY <1>4, <1>5, FS_Subset DEF Amounts
<1>7. Total(f, S) = Total(g, S) /\ Total(f, S) \in Nat
  <2> HIDE DEF f, g, S
  <2> QED
      BY <1>5, <1>6, TotalSame, TotalNat
<1>8. g[k] = row.amount /\ row.amount \in Nat
    BY <1>1, <1>2 DEF PoolRefundRows
<1>9. CASE row.state = state
  <2>1. T = S \cup {k} /\ k \notin S
      BY <1>1, <1>2, <1>9
  <2> HIDE DEF f, g, S, T
  <2>2. Total(g, T) = Total(g, S) + g[k]
      BY <1>6, <1>8, <2>1, TotalAdd
  <2> QED
      BY <1>3, <1>7, <1>8, <1>9, <2>2 DEF Counts, qs
<1>10. CASE row.state # state
  <2>1. T = S
      BY <1>1, <1>2, <1>10
  <2> HIDE DEF f, g, S, T
  <2> QED
      BY <1>3, <1>7, <1>10, <2>1 DEF Counts, qs
<1> QED
    BY <1>9, <1>10

\* The buckets follow one reward from x to y.
BucketStep(b, c, x, y) ==
    /\ c \in BucketRows /\ c.confirmed_deposit = b.confirmed_deposit /\ c.refunded = b.refunded
    /\ c.allocated_active = b.allocated_active + Counts(y, "ACTIVE") - Counts(x, "ACTIVE")
    /\ c.pending_outflow = b.pending_outflow + Counts(y, "RELEASE_PENDING") - Counts(x, "RELEASE_PENDING")
    /\ c.released = b.released + Counts(y, "RELEASED") - Counts(x, "RELEASED")
    /\ c.unallocated + c.allocated_active + c.pending_outflow + c.released = b.unallocated + b.allocated_active + b.pending_outflow + b.released

RewardMoves(movement, x, y) ==
    \/ movement = "ALLOCATE" /\ x.state = "NONE" /\ y.state = "ACTIVE"
    \/ /\ x.amount = y.amount
       /\ \/ movement = "DEALLOCATE" /\ x.state = "ACTIVE" /\ y.state = "CANCELLED"
          \/ movement = "RELEASE_START" /\ x.state = "ACTIVE" /\ y.state = "RELEASE_PENDING"
          \/ movement = "RELEASE_DONE" /\ x.state = "RELEASE_PENDING" /\ y.state = "RELEASED"
          \/ movement = "RELEASE_FAILED" /\ x.state = "RELEASE_PENDING" /\ y.state = "ACTIVE"

LEMMA BucketFollows ==
    ASSUME NEW b \in BucketRows, NEW movement, NEW x \in AllocationRows, NEW y \in AllocationRows, RewardMoves(movement, x, y)
    PROVE  BucketStep(b, BucketsAfter(movement, b, y.amount), x, y)
<1> DEFINE n == y.amount
           c == BucketsAfter(movement, b, n)
<1>1. n \in Nat /\ n \in Int /\ b.unallocated \in Int /\ b.allocated_active \in Int /\ b.pending_outflow \in Int /\ b.released \in Int
    BY DEF AllocationRows, BucketRows
<1> HIDE DEF n, c
<1>2. CASE movement = "ALLOCATE" /\ x.state = "NONE" /\ y.state = "ACTIVE"
  <2>1. BucketsAre(c, b.confirmed_deposit, b.unallocated - n, b.allocated_active + n, b.pending_outflow, b.released, b.refunded)
      BY <1>1, <1>2, BucketMoves DEF c
  <2>2. /\ Counts(x, "ACTIVE") = 0 /\ Counts(x, "RELEASE_PENDING") = 0 /\ Counts(x, "RELEASED") = 0
        /\ Counts(y, "ACTIVE") = n /\ Counts(y, "RELEASE_PENDING") = 0 /\ Counts(y, "RELEASED") = 0
      BY <1>2 DEF Counts, n
  <2>3. BucketStep(b, c, x, y)
      BY <1>1, <2>1, <2>2 DEF BucketStep, BucketsAre
  <2> QED
      BY <2>3 DEF c, n
<1>3. CASE movement = "DEALLOCATE" /\ x.state = "ACTIVE" /\ y.state = "CANCELLED" /\ x.amount = y.amount
  <2>1. BucketsAre(c, b.confirmed_deposit, b.unallocated + n, b.allocated_active - n, b.pending_outflow, b.released, b.refunded)
      BY <1>1, <1>3, BucketMoves DEF c
  <2>2. /\ Counts(x, "ACTIVE") = n /\ Counts(x, "RELEASE_PENDING") = 0 /\ Counts(x, "RELEASED") = 0
        /\ Counts(y, "ACTIVE") = 0 /\ Counts(y, "RELEASE_PENDING") = 0 /\ Counts(y, "RELEASED") = 0
      BY <1>3 DEF Counts, n
  <2>3. BucketStep(b, c, x, y)
      BY <1>1, <2>1, <2>2 DEF BucketStep, BucketsAre
  <2> QED
      BY <2>3 DEF c, n
<1>4. CASE movement = "RELEASE_START" /\ x.state = "ACTIVE" /\ y.state = "RELEASE_PENDING" /\ x.amount = y.amount
  <2>1. BucketsAre(c, b.confirmed_deposit, b.unallocated, b.allocated_active - n, b.pending_outflow + n, b.released, b.refunded)
      BY <1>1, <1>4, BucketMoves DEF c
  <2>2. /\ Counts(x, "ACTIVE") = n /\ Counts(x, "RELEASE_PENDING") = 0 /\ Counts(x, "RELEASED") = 0
        /\ Counts(y, "ACTIVE") = 0 /\ Counts(y, "RELEASE_PENDING") = n /\ Counts(y, "RELEASED") = 0
      BY <1>4 DEF Counts, n
  <2>3. BucketStep(b, c, x, y)
      BY <1>1, <2>1, <2>2 DEF BucketStep, BucketsAre
  <2> QED
      BY <2>3 DEF c, n
<1>5. CASE movement = "RELEASE_DONE" /\ x.state = "RELEASE_PENDING" /\ y.state = "RELEASED" /\ x.amount = y.amount
  <2>1. BucketsAre(c, b.confirmed_deposit, b.unallocated, b.allocated_active, b.pending_outflow - n, b.released + n, b.refunded)
      BY <1>1, <1>5, BucketMoves DEF c
  <2>2. /\ Counts(x, "ACTIVE") = 0 /\ Counts(x, "RELEASE_PENDING") = n /\ Counts(x, "RELEASED") = 0
        /\ Counts(y, "ACTIVE") = 0 /\ Counts(y, "RELEASE_PENDING") = 0 /\ Counts(y, "RELEASED") = n
      BY <1>5 DEF Counts, n
  <2>3. BucketStep(b, c, x, y)
      BY <1>1, <2>1, <2>2 DEF BucketStep, BucketsAre
  <2> QED
      BY <2>3 DEF c, n
<1>6. CASE movement = "RELEASE_FAILED" /\ x.state = "RELEASE_PENDING" /\ y.state = "ACTIVE" /\ x.amount = y.amount
  <2>1. BucketsAre(c, b.confirmed_deposit, b.unallocated, b.allocated_active + n, b.pending_outflow - n, b.released, b.refunded)
      BY <1>1, <1>6, BucketMoves DEF c
  <2>2. /\ Counts(x, "ACTIVE") = 0 /\ Counts(x, "RELEASE_PENDING") = n /\ Counts(x, "RELEASED") = 0
        /\ Counts(y, "ACTIVE") = n /\ Counts(y, "RELEASE_PENDING") = 0 /\ Counts(y, "RELEASED") = 0
      BY <1>6 DEF Counts, n
  <2>3. BucketStep(b, c, x, y)
      BY <1>1, <2>1, <2>2 DEF BucketStep, BucketsAre
  <2> QED
      BY <2>3 DEF c, n
<1> QED
    BY <1>2, <1>3, <1>4, <1>5, <1>6 DEF RewardMoves

\* Ledger entries of one hire.
HireRefs(h) == {<<m, <<h, a>>>> : m \in {"ALLOCATE", "DEALLOCATE"}, a \in Assets}
                 \cup {<<m, <<h, a, n>>>> : m \in {"RELEASE_START", "RELEASE_DONE", "RELEASE_FAILED"}, a \in Assets, n \in Nat}

\* Entries of one hire leave the next movements of every other hire, and of the assets, new.
LEMMA OtherRefs ==
    ASSUME PoolInv, NEW h \in PoolHires, NEW N \in SUBSET HireRefs(h)
    PROVE  /\ \A x \in PoolHires : x # h => \A a \in Assets : RewardRefs(poolLedger \cup N, x, a, pooled[x], allocation[x][a])
           /\ \A a \in Assets : AssetRefs(poolLedger \cup N, a, funded[a], refund[a])
<1>1. ASSUME NEW x \in PoolHires, x # h, NEW a \in Assets PROVE RewardRefs(poolLedger \cup N, x, a, pooled[x], allocation[x][a])
  <2>1. RewardRefs(poolLedger, x, a, pooled[x], allocation[x][a])
      BY DEF PoolInv
  <2>2. <<"ALLOCATE", <<x, a>>>> \notin HireRefs(h) /\ <<"DEALLOCATE", <<x, a>>>> \notin HireRefs(h)
      BY <1>1 DEF HireRefs
  <2>3. \A n \in Nat : /\ <<"RELEASE_START", <<x, a, n>>>> \notin HireRefs(h) /\ <<"RELEASE_DONE", <<x, a, n>>>> \notin HireRefs(h)
                       /\ <<"RELEASE_FAILED", <<x, a, n>>>> \notin HireRefs(h)
      BY <1>1 DEF HireRefs
  <2> QED
      BY <2>1, <2>2, <2>3 DEF RewardRefs
<1>2. ASSUME NEW a \in Assets PROVE AssetRefs(poolLedger \cup N, a, funded[a], refund[a])
  <2>1. AssetRefs(poolLedger, a, funded[a], refund[a])
      BY DEF PoolInv
  <2>2. \A n \in Nat \ {0} : /\ <<"DEPOSIT", <<a, n>>>> \notin HireRefs(h) /\ <<"REFUND_START", <<a, n>>>> \notin HireRefs(h)
                             /\ <<"REFUND_DONE", <<a, n>>>> \notin HireRefs(h) /\ <<"REFUND_FAILED", <<a, n>>>> \notin HireRefs(h)
      BY DEF HireRefs
  <2> QED
      BY <2>1, <2>2 DEF AssetRefs
<1> QED
    BY <1>1, <1>2

\* A step on one hire: its rows afterwards, with the buckets and the ledger that go with them.
HireMoves(h, p, al, N) ==
    /\ p \in PooledRows /\ al \in [Assets -> AllocationRows] /\ pooled' = [pooled EXCEPT ![h] = p] /\ allocation' = [allocation EXCEPT ![h] = al]
    /\ refund' = refund /\ funded' = funded /\ pool' \in PoolRows /\ (pool'.status = "CLOSED" <=> pool.status = "CLOSED")
    /\ RewardsFit(p, al) /\ ClosedFits(pool.status, p)
    /\ balance' \in [Assets -> BucketRows] /\ \A a \in Assets : BucketStep(balance[a], balance'[a], allocation[h][a], al[a])
    /\ N \in SUBSET HireRefs(h) /\ poolLedger' = poolLedger \cup N /\ \A a \in Assets : RewardRefs(poolLedger \cup N, h, a, p, al[a])

LEMMA HireMovesKeep ==
    ASSUME PoolInv, NEW h \in PoolHires, NEW p, NEW al, NEW N, HireMoves(h, p, al, N)
    PROVE  PoolInv'
<1> USE DEF HireMoves
<1>1. PoolTypes
    BY DEF PoolInv
<1>2. pooled'[h] = p /\ allocation'[h] = al /\ \A x \in PoolHires : x # h => pooled'[x] = pooled[x] /\ allocation'[x] = allocation[x]
    BY <1>1 DEF PoolTypes
<1>3. PoolTypes'
  <2>1. pooled' \in [PoolHires -> PooledRows]
      BY <1>1 DEF PoolTypes
  <2>2. allocation' \in [PoolHires -> [Assets -> AllocationRows]]
      BY <1>1 DEF PoolTypes
  <2> QED
      BY <1>1, <2>1, <2>2 DEF PoolTypes, PoolRows
<1>4. ASSUME NEW x \in PoolHires
      PROVE  /\ RewardsFit(pooled'[x], allocation'[x]) /\ ClosedFits(pool'.status, pooled'[x])
             /\ \A a \in Assets : RewardRefs(poolLedger', x, a, pooled'[x], allocation'[x][a])
  <2>1. CASE x = h
      BY <1>2, <2>1 DEF ClosedFits
  <2>2. CASE x # h
    <3>1. RewardsFit(pooled[x], allocation[x]) /\ ClosedFits(pool.status, pooled[x])
        BY DEF PoolInv
    <3>2. \A a \in Assets : RewardRefs(poolLedger \cup N, x, a, pooled[x], allocation[x][a])
        BY <2>2, OtherRefs
    <3> QED
        BY <1>2, <2>2, <3>1, <3>2 DEF ClosedFits
  <2> QED
      BY <2>1, <2>2
<1>5. ASSUME NEW a \in Assets PROVE AssetFits(a)'
  <2> DEFINE b == balance[a]
             c == balance'[a]
             x == allocation[h][a]
             y == al[a]
  <2>1. /\ AllocatedIn(a, "ACTIVE")' = AllocatedIn(a, "ACTIVE") + Counts(y, "ACTIVE") - Counts(x, "ACTIVE") /\ AllocatedIn(a, "ACTIVE") \in Nat
        /\ AllocatedIn(a, "RELEASE_PENDING")' = AllocatedIn(a, "RELEASE_PENDING") + Counts(y, "RELEASE_PENDING") - Counts(x, "RELEASE_PENDING")
        /\ AllocatedIn(a, "RELEASE_PENDING") \in Nat
        /\ AllocatedIn(a, "RELEASED")' = AllocatedIn(a, "RELEASED") + Counts(y, "RELEASED") - Counts(x, "RELEASED") /\ AllocatedIn(a, "RELEASED") \in Nat
      BY RewardSum
  <2>2. RefundsIn(a, "REFUND_PENDING")' = RefundsIn(a, "REFUND_PENDING") /\ RefundsIn(a, "REFUNDED")' = RefundsIn(a, "REFUNDED")
      BY DEF RefundsIn
  <2>3. BucketStep(b, c, x, y) /\ b \in BucketRows /\ c \in BucketRows /\ x \in AllocationRows /\ y \in AllocationRows
      BY <1>1 DEF PoolTypes
  <2>4. BucketsFit(b, funded[a] * PoolDeposits[a], AllocatedIn(a, "ACTIVE"), AllocatedIn(a, "RELEASE_PENDING"),
                   AllocatedIn(a, "RELEASED"), RefundsIn(a, "REFUND_PENDING"), RefundsIn(a, "REFUNDED"))
      BY DEF PoolInv, AssetFits
  <2>5. RefundsIn(a, "REFUND_PENDING") = b.pending_outflow - AllocatedIn(a, "RELEASE_PENDING") /\ RefundsIn(a, "REFUND_PENDING") \in Int
    <3>1. RefundsIn(a, "REFUND_PENDING") \in Nat
      <4>1. refund[a] \in Seq(PoolRefundRows) /\ [state |-> "FAILED", amount |-> 0] \in PoolRefundRows
          BY <1>1 DEF PoolTypes, PoolRefundRows
      <4>2. RefundSum(refund[a], "REFUND_PENDING") \in Nat
          BY <4>1, RefundSumGrows
      <4> QED
          BY <4>2 DEF RefundsIn, RefundSum
    <3> QED
        BY <2>1, <2>3, <2>4, <3>1 DEF BucketsFit, BucketRows
  <2>6. /\ Counts(x, "ACTIVE") \in Nat /\ Counts(x, "RELEASE_PENDING") \in Nat /\ Counts(x, "RELEASED") \in Nat
        /\ Counts(y, "ACTIVE") \in Nat /\ Counts(y, "RELEASE_PENDING") \in Nat /\ Counts(y, "RELEASED") \in Nat
      BY <2>3 DEF Counts, AllocationRows
  <2>7. /\ b.unallocated \in Int /\ b.allocated_active \in Int /\ b.pending_outflow \in Int /\ b.released \in Int /\ b.refunded \in Int
        /\ c.unallocated \in Int /\ c.allocated_active \in Int /\ c.pending_outflow \in Int /\ c.released \in Int /\ c.refunded \in Int
      BY <2>3 DEF BucketRows
  <2> HIDE DEF b, c, x, y
  <2>8. BucketsFit(c, funded[a] * PoolDeposits[a], AllocatedIn(a, "ACTIVE")', AllocatedIn(a, "RELEASE_PENDING")',
                   AllocatedIn(a, "RELEASED")', RefundsIn(a, "REFUND_PENDING"), RefundsIn(a, "REFUNDED"))
    <3>1. c.confirmed_deposit = c.unallocated + c.allocated_active + c.pending_outflow + c.released + c.refunded
        BY <2>3, <2>4, <2>7 DEF BucketStep, BucketsFit
    <3>2. c.allocated_active = AllocatedIn(a, "ACTIVE")' /\ c.released = AllocatedIn(a, "RELEASED")'
        BY <2>1, <2>3, <2>4, <2>6 DEF BucketStep, BucketsFit
    <3>3. c.pending_outflow = AllocatedIn(a, "RELEASE_PENDING")' + RefundsIn(a, "REFUND_PENDING")
        BY <2>1, <2>3, <2>4, <2>5, <2>6 DEF BucketStep, BucketsFit
    <3> QED
        BY <2>3, <2>4, <3>1, <3>2, <3>3 DEF BucketStep, BucketsFit
  <2> QED
      BY <2>2, <2>8 DEF AssetFits, c
<1>6. \A a \in Assets : AssetRefs(poolLedger', a, funded'[a], refund'[a])
    BY OtherRefs
<1> QED
    BY <1>3, <1>4, <1>5, <1>6 DEF PoolInv

\* A hire's rewards in G make one movement, each with a new reference.
AmountsOf(al) == [a \in Assets |-> al[a].amount]
RewardsMove(h, p, al, movement, G, ref) ==
    /\ p \in PooledRows /\ al \in [Assets -> AllocationRows] /\ G \in SUBSET Assets /\ MoveBalance(movement, MovesOf(G, AmountsOf(al), ref))
    /\ pooled' = [pooled EXCEPT ![h] = p] /\ allocation' = [allocation EXCEPT ![h] = al] /\ refund' = refund /\ funded' = funded
    /\ pool' \in PoolRows /\ (pool'.status = "CLOSED" <=> pool.status = "CLOSED") /\ RewardsFit(p, al) /\ ClosedFits(pool.status, p)
    /\ \A a \in G : /\ <<movement, ref[a]>> \notin poolLedger /\ <<movement, ref[a]>> \in HireRefs(h)
                    /\ RewardMoves(movement, allocation[h][a], al[a])
    /\ \A a \in Assets \ G : al[a] = allocation[h][a]
    /\ \A a \in Assets : RewardRefs(poolLedger \cup EntriesOf(movement, G, ref), h, a, p, al[a])

LEMMA RewardsMoveKeeps ==
    ASSUME PoolInv, NEW h \in PoolHires, NEW p, NEW al, NEW movement, NEW G, NEW ref, RewardsMove(h, p, al, movement, G, ref)
    PROVE  PoolInv'
<1> USE DEF RewardsMove
<1> DEFINE N == EntriesOf(movement, G, ref)
           amount == AmountsOf(al)
<1>1. PoolTypes
    BY DEF PoolInv
<1>3. MoveBalance(movement, MovesOf(G, amount, ref))
    OBVIOUS
<1>4. /\ balance' = [a \in Assets |-> IF a \in G THEN BucketsAfter(movement, balance[a], amount[a]) ELSE balance[a]]
      /\ poolLedger' = poolLedger \cup N
    BY <1>3, AllMoved
<1>5. ASSUME NEW a \in Assets PROVE BucketStep(balance[a], balance'[a], allocation[h][a], al[a]) /\ balance'[a] \in BucketRows
  <2>1. balance[a] \in BucketRows /\ allocation[h][a] \in AllocationRows /\ al[a] \in AllocationRows
      BY <1>1 DEF PoolTypes
  <2>2. CASE a \in G
    <3>1. balance'[a] = BucketsAfter(movement, balance[a], al[a].amount)
        BY <1>4, <2>2 DEF AmountsOf
    <3>2. BucketStep(balance[a], BucketsAfter(movement, balance[a], al[a].amount), allocation[h][a], al[a])
        BY <2>1, <2>2, BucketFollows
    <3> QED
        BY <3>1, <3>2 DEF BucketStep
  <2>3. CASE a \notin G
    <3>1. balance'[a] = balance[a] /\ al[a] = allocation[h][a]
        BY <1>4, <2>3
    <3>2. Counts(al[a], "ACTIVE") \in Nat /\ Counts(al[a], "RELEASE_PENDING") \in Nat /\ Counts(al[a], "RELEASED") \in Nat
        BY <2>1 DEF Counts, AllocationRows
    <3> QED
        BY <2>1, <3>1, <3>2 DEF BucketStep, BucketRows
  <2> QED
      BY <2>2, <2>3
<1>6. balance' \in [Assets -> BucketRows]
    BY <1>4, <1>5
<1>7. N \in SUBSET HireRefs(h) /\ \A a \in Assets : RewardRefs(poolLedger \cup N, h, a, p, al[a])
    BY DEF EntriesOf
<1> HIDE DEF N
<1>8. HireMoves(h, p, al, N)
    BY <1>4, <1>5, <1>6, <1>7 DEF HireMoves
<1> QED
    BY <1>8, HireMovesKeep

\* The rows of one hire.
LEMMA HireRows ==
    ASSUME PoolInv, NEW h \in PoolHires
    PROVE  /\ pooled[h] \in PooledRows /\ allocation[h] \in [Assets -> AllocationRows] /\ pool \in PoolRows
           /\ RewardsFit(pooled[h], allocation[h]) /\ ClosedFits(pool.status, pooled[h])
           /\ pooled = [pooled EXCEPT ![h] = pooled[h]] /\ allocation = [allocation EXCEPT ![h] = allocation[h]]
           /\ \A a \in Assets : allocation[h][a] \in AllocationRows /\ RewardRefs(poolLedger, h, a, pooled[h], allocation[h][a])
    BY DEF PoolInv, PoolTypes, PoolRows

\* A step on a hire that moves no money.
LEMMA StatusKeeps ==
    ASSUME PoolInv, NEW h \in PoolHires, NEW p \in PooledRows, pooled' = [pooled EXCEPT ![h] = p], RewardsFit(p, allocation[h]),
           ClosedFits(pool.status, p), UNCHANGED <<pool, balance, poolLedger, allocation, refund, funded>>,
           p.status \in {"NONE", "OFFERED"} => pooled[h].status \in {"NONE", "OFFERED"}, pooled[h].status # "REFUNDED"
    PROVE  PoolInv'
<1>1. HireMoves(h, p, allocation[h], {})
  <2>1. /\ allocation[h] \in [Assets -> AllocationRows] /\ pool \in PoolRows /\ allocation = [allocation EXCEPT ![h] = allocation[h]]
        /\ \A a \in Assets : allocation[h][a] \in AllocationRows /\ RewardRefs(poolLedger, h, a, pooled[h], allocation[h][a])
      BY HireRows
  <2>2. balance \in [Assets -> BucketRows]
      BY DEF PoolInv, PoolTypes
  <2>3. ASSUME NEW a \in Assets PROVE BucketStep(balance[a], balance'[a], allocation[h][a], allocation[h][a])
    <3>1. /\ Counts(allocation[h][a], "ACTIVE") \in Nat /\ Counts(allocation[h][a], "RELEASE_PENDING") \in Nat
          /\ Counts(allocation[h][a], "RELEASED") \in Nat
        BY <2>1 DEF Counts, AllocationRows
    <3>2. balance'[a] = balance[a] /\ balance[a] \in BucketRows
        BY <2>2
    <3> QED
        BY <3>1, <3>2 DEF BucketStep, BucketRows
  <2>4. \A a \in Assets : RewardRefs(poolLedger \cup {}, h, a, p, allocation[h][a])
      BY <2>1 DEF RewardRefs
  <2>5. poolLedger' = poolLedger \cup {} /\ {} \in SUBSET HireRefs(h)
      OBVIOUS
  <2> QED
      BY <2>1, <2>2, <2>3, <2>4, <2>5 DEF HireMoves
<1> QED
    BY <1>1, HireMovesKeep

LEMMA OfferHireKeeps ==
    ASSUME PoolInv, NEW h \in PoolHires, OfferHire(h) \/ CancelKeepingRewards(h) \/ ApproveHire(h)
    PROVE  PoolInv'
<1>1. pooled[h] \in PooledRows /\ pool \in PoolRows /\ RewardsFit(pooled[h], allocation[h]) /\ ClosedFits(pool.status, pooled[h])
    BY HireRows
<1>2. UNCHANGED <<pool, balance, poolLedger, allocation, refund, funded>>
    BY DEF OfferHire, CancelKeepingRewards, ApproveHire, poolMoney
<1>3. CASE OfferHire(h)
  <2> DEFINE p == [pooled[h] EXCEPT !.status = "OFFERED", !.cash = Reward("cash")]
  <2>1. pooled[h].status \in {"NONE", "OFFERED"} /\ pooled' = [pooled EXCEPT ![h] = p]
      BY <1>3 DEF OfferHire
  <2>2. Reward("cash") \in Nat
      BY <1>1, TemplateRows DEF Reward, PoolRows, Accepted, Assets
  <2>3. p \in PooledRows /\ p.status = "OFFERED" /\ p.settlement = pooled[h].settlement
      BY <1>1, <2>2 DEF PooledRows
  <2> HIDE DEF p
  <2>4. RewardsFit(p, allocation[h]) /\ ClosedFits(pool.status, p)
      BY <1>1, <2>1, <2>3 DEF RewardsFit, ClosedFits
  <2> QED
      BY <1>2, <2>1, <2>3, <2>4, StatusKeeps
<1>4. CASE CancelKeepingRewards(h) \/ ApproveHire(h)
  <2>1. PICK s \in {"CANCELLED", "APPROVED"} : pooled[h].status = "FUNDED" /\ pooled' = [pooled EXCEPT ![h].status = s, ![h].settlement = "READY"]
      BY <1>4 DEF CancelKeepingRewards, ApproveHire
  <2> DEFINE p == [pooled[h] EXCEPT !.status = s, !.settlement = "READY"]
  <2>2. pooled' = [pooled EXCEPT ![h] = p]
    <3>1. pooled \in [PoolHires -> PooledRows]
        BY DEF PoolInv, PoolTypes
    <3> QED
        BY <2>1, <3>1 DEF PooledRows
  <2>3. p \in PooledRows /\ p.status = s /\ p.settlement = "READY" /\ p.cash = pooled[h].cash /\ p.version = pooled[h].version
      BY <1>1 DEF PooledRows
  <2> HIDE DEF p
  <2>4. HoldsRewards(pooled[h], allocation[h]) /\ \A a \in Assets : allocation[h][a].state \in {"NONE", "ACTIVE"}
      BY <1>1, <2>1 DEF RewardsFit
  <2>5. HoldsRewards(p, allocation[h]) /\ ~Settled(allocation[h])
    <3>1. ~Settled(allocation[h])
        BY <2>4, Outstanding
    <3>2. HoldsRewards(p, allocation[h])
        BY <2>3, <2>4, Zenon DEF HoldsRewards
    <3> QED
        BY <3>1, <3>2
  <2>6. RewardsFit(p, allocation[h]) /\ ClosedFits(pool.status, p)
      BY <1>1, <2>1, <2>3, <2>4, <2>5 DEF RewardsFit, ClosedFits
  <2> QED
      BY <1>2, <2>1, <2>2, <2>3, <2>6, StatusKeeps
<1> QED
    BY <1>3, <1>4

LEMMA RefreshedPool ==
    ASSUME pool \in PoolRows, NEW version \in Accepted, RefreshPoolStatus(version)
    PROVE  pool' \in PoolRows /\ (pool'.status = "CLOSED" <=> pool.status = "CLOSED")
    BY DEF RefreshPoolStatus, PoolRows

LEMMA AllocateKeeps ==
    ASSUME PoolInv, NEW h \in PoolHires, AllocateHire(h)
    PROVE  PoolInv'
<1> DEFINE given == {a \in Assets : Reward(a) > 0 /\ balance[a].unallocated >= Reward(a)}
           required == Templates[pool.version].required
           al == [a \in Assets |-> IF a \in given
                     THEN [state |-> "ACTIVE", amount |-> Reward(a), attempts |-> 0, required |-> a \in required] ELSE NoAllocation]
           p == [pooled[h] EXCEPT !.status = "FUNDED", !.version = pool.version]
           ref == [a \in Assets |-> <<h, a>>]
<1>1. /\ pooled[h] \in PooledRows /\ allocation[h] \in [Assets -> AllocationRows] /\ pool \in PoolRows
      /\ RewardsFit(pooled[h], allocation[h]) /\ ClosedFits(pool.status, pooled[h])
      /\ \A a \in Assets : allocation[h][a] \in AllocationRows /\ RewardRefs(poolLedger, h, a, pooled[h], allocation[h][a])
    BY HireRows
<1>2. \A a \in Assets : Reward(a) \in Nat
    BY <1>1, TemplateRows DEF Reward, PoolRows, Accepted
<1>3. /\ pool.status # "CLOSED" /\ required \subseteq given /\ MoveBalance("ALLOCATE", {Move(a, Reward(a), <<h, a>>) : a \in given})
      /\ allocation' = [allocation EXCEPT ![h] = al] /\ pooled' = [pooled EXCEPT ![h] = p] /\ pooled[h].status = "OFFERED"
      /\ Reward("cash") = pooled[h].cash /\ pool' = pool /\ refund' = refund /\ funded' = funded
    BY DEF AllocateHire, ApplyPoolFunding
<1>4. {Move(a, Reward(a), <<h, a>>) : a \in given} = MovesOf(given, AmountsOf(al), ref)
  <2>1. \A a \in given : AmountsOf(al)[a] = Reward(a) /\ ref[a] = <<h, a>>
      BY DEF AmountsOf
  <2> HIDE DEF given, al, ref
  <2> QED
      BY <2>1 DEF MovesOf
<1>5. \A a \in Assets : allocation[h][a] = NoAllocation
    BY <1>1, <1>3 DEF RewardsFit
<1>6. /\ \A a \in given : al[a] = [state |-> "ACTIVE", amount |-> Reward(a), attempts |-> 0, required |-> a \in required]
      /\ \A a \in Assets \ given : al[a] = NoAllocation
      /\ \A a \in Assets : al[a] \in AllocationRows /\ al[a].attempts = 0 /\ al[a].state \in {"ACTIVE", "NONE"}
      /\ \A a \in given : al[a].state = "ACTIVE" /\ al[a].amount = Reward(a) /\ (al[a].required <=> a \in required)
  <2>1. \A a \in given : al[a] = [state |-> "ACTIVE", amount |-> Reward(a), attempts |-> 0, required |-> a \in required]
      BY Zenon
  <2>2. \A a \in Assets \ given : al[a] = NoAllocation
      BY Zenon
  <2>3. given \subseteq Assets
      OBVIOUS
  <2> HIDE DEF given, required, al
  <2>4. ASSUME NEW a \in given
        PROVE  /\ al[a] \in AllocationRows /\ al[a].attempts = 0 /\ al[a].state = "ACTIVE" /\ al[a].amount = Reward(a)
               /\ al[a].required <=> a \in required
    <3>1. (a \in required) \in BOOLEAN /\ Reward(a) \in Nat /\ 0 \in Nat
        BY <1>2, <2>3
    <3>2. al[a] = [state |-> "ACTIVE", amount |-> Reward(a), attempts |-> 0, required |-> a \in required]
        BY <2>1
    <3>3. PICK b \in BOOLEAN : b = (a \in required)
        BY <3>1, Zenon
    <3>4. al[a] = [state |-> "ACTIVE", amount |-> Reward(a), attempts |-> 0, required |-> b]
        BY <3>2, <3>3, Zenon
    <3>5. al[a] \in AllocationRows
        BY <3>1, <3>4 DEF AllocationRows
    <3>6. al[a].attempts = 0 /\ al[a].state = "ACTIVE" /\ al[a].amount = Reward(a)
        BY <3>4
    <3>7. al[a].required <=> a \in required
      <4>1. CASE a \in required
        <5>1. b = TRUE
            BY <3>3, <4>1
        <5>2. al[a].required = TRUE
            BY <3>4, <5>1
        <5> QED
            BY <4>1, <5>2
      <4>2. CASE a \notin required
        <5>1. b = FALSE
            BY <3>3, <4>2
        <5>2. al[a].required = FALSE
            BY <3>4, <5>1
        <5> QED
            BY <4>2, <5>2
      <4> QED
          BY <4>1, <4>2
    <3> QED
        BY <3>5, <3>6, <3>7
  <2>5. NoAllocation \in AllocationRows /\ NoAllocation.attempts = 0 /\ NoAllocation.state = "NONE"
      BY DEF AllocationRows, NoAllocation
  <2> QED
      BY <2>1, <2>2, <2>4, <2>5, Zenon
<1>7. al \in [Assets -> AllocationRows]
    BY <1>6
<1>8. p \in PooledRows /\ p.status = "FUNDED" /\ p.settlement = pooled[h].settlement /\ p.cash = pooled[h].cash /\ p.version = pool.version
  <2> DEFINE q == [pooled[h] EXCEPT !.status = "FUNDED"]
  <2>1. q \in PooledRows /\ q.status = "FUNDED" /\ q.settlement = pooled[h].settlement /\ q.cash = pooled[h].cash
      BY <1>1 DEF PooledRows
  <2>2. p = [q EXCEPT !.version = pool.version] /\ pool.version \in Nat
      BY <1>1, TemplateRows DEF PooledRows, PoolRows, Accepted
  <2> HIDE DEF p, q
  <2> QED
      BY <2>1, <2>2 DEF PooledRows
<1>9. \A a \in Assets : ref[a] = <<h, a>>
    OBVIOUS
<1>10. given \subseteq Assets
    OBVIOUS
<1> HIDE DEF given, required, al, p, ref
<1>11. RewardsFit(p, al) /\ ClosedFits(pool.status, p)
  <2>1. \A a \in Assets : /\ al[a].required <=> a \in required
                          /\ a \in required => al[a].state = "ACTIVE" /\ al[a].amount = Templates[pool.version][a]
    <3>1. \A a \in given : (al[a].required <=> a \in required) /\ al[a].state = "ACTIVE" /\ al[a].amount = Templates[pool.version][a]
        BY <1>6, Zenon DEF Reward
    <3>2. \A a \in Assets \ given : a \notin required
        BY <1>3
    <3>3. ~NoAllocation.required
        BY Zenon DEF NoAllocation
    <3>4. \A a \in Assets \ given : ~al[a].required
        BY <1>6, <3>3, Zenon
    <3> QED
        BY <3>1, <3>2, <3>4, Zenon
  <2>2. HoldsRewards(p, al)
    <3>1. p.version \in Accepted /\ Templates[p.version].cash = p.cash
        BY <1>1, <1>3, <1>8 DEF PoolRows, Reward
    <3>2. ASSUME NEW a \in Assets
          PROVE  /\ al[a].required <=> a \in Templates[p.version].required
                 /\ a \in Templates[p.version].required => al[a].state # "NONE" /\ al[a].amount = Templates[p.version][a]
      <4>1. Templates[p.version] = Templates[pool.version]
          BY <1>8, Zenon
      <4>2. /\ al[a].required <=> a \in Templates[pool.version].required
            /\ a \in Templates[pool.version].required => al[a].state = "ACTIVE" /\ al[a].amount = Templates[pool.version][a]
        <5>1. /\ al[a].required <=> a \in required
              /\ a \in required => al[a].state = "ACTIVE" /\ al[a].amount = Templates[pool.version][a]
            BY <2>1
        <5>2. required = Templates[pool.version].required
            BY DEF required
        <5>3. a \in required <=> a \in Templates[pool.version].required
            BY <5>2
        <5> QED
            BY <5>1, <5>3, Zenon
      <4>3. al[a].state = "ACTIVE" => al[a].state # "NONE"
          OBVIOUS
      <4> QED
          BY <4>1, <4>2, <4>3, Zenon
    <3> QED
        BY <3>1, <3>2 DEF HoldsRewards
  <2>3. p.settlement = "NOT_READY"
      BY <1>1, <1>3, <1>8 DEF RewardsFit
  <2> QED
      BY <1>3, <1>6, <1>8, <2>2, <2>3 DEF RewardsFit, ClosedFits
<1>12. \A a \in given : /\ <<"ALLOCATE", ref[a]>> \notin poolLedger /\ <<"ALLOCATE", ref[a]>> \in HireRefs(h)
                        /\ RewardMoves("ALLOCATE", allocation[h][a], al[a])
  <2> SUFFICES ASSUME NEW a \in given
               PROVE  /\ <<"ALLOCATE", ref[a]>> \notin poolLedger /\ <<"ALLOCATE", ref[a]>> \in HireRefs(h)
                      /\ RewardMoves("ALLOCATE", allocation[h][a], al[a])
      OBVIOUS
  <2>1. a \in Assets /\ ref[a] = <<h, a>>
      BY <1>9, <1>10
  <2>2. <<"ALLOCATE", <<h, a>>>> \notin poolLedger
      BY <1>1, <1>3, <2>1 DEF RewardRefs
  <2>3. <<"ALLOCATE", <<h, a>>>> \in HireRefs(h)
      BY <2>1 DEF HireRefs
  <2>4. RewardMoves("ALLOCATE", allocation[h][a], al[a])
    <3>1. allocation[h][a].state = "NONE"
        BY <1>5, <2>1 DEF NoAllocation
    <3>2. al[a].state = "ACTIVE"
      <4>1. al[a] = [state |-> "ACTIVE", amount |-> Reward(a), attempts |-> 0, required |-> a \in required]
          BY <1>6
      <4> QED
          BY <4>1
    <3> QED
        BY <3>1, <3>2 DEF RewardMoves
  <2> QED
      BY <2>1, <2>2, <2>3, <2>4
<1>13. ASSUME NEW a \in Assets PROVE RewardRefs(poolLedger \cup EntriesOf("ALLOCATE", given, ref), h, a, p, al[a])
  <2>1. RewardRefs(poolLedger, h, a, pooled[h], allocation[h][a]) /\ allocation[h][a].attempts = 0
      BY <1>1, <1>5 DEF NoAllocation
  <2>2. \A e \in EntriesOf("ALLOCATE", given, ref) : e[1] = "ALLOCATE"
      BY DEF EntriesOf
  <2>3. /\ <<"DEALLOCATE", <<h, a>>>> \notin EntriesOf("ALLOCATE", given, ref)
        /\ \A n \in Nat : /\ <<"RELEASE_START", <<h, a, n>>>> \notin EntriesOf("ALLOCATE", given, ref)
                          /\ <<"RELEASE_DONE", <<h, a, n>>>> \notin EntriesOf("ALLOCATE", given, ref)
                          /\ <<"RELEASE_FAILED", <<h, a, n>>>> \notin EntriesOf("ALLOCATE", given, ref)
      BY <2>2
  <2> QED
      BY <1>3, <1>6, <1>8, <2>1, <2>3 DEF RewardRefs
<1>14. \A a \in Assets \ given : al[a] = allocation[h][a]
    BY <1>5, <1>6
<1>15. MoveBalance("ALLOCATE", MovesOf(given, AmountsOf(al), ref))
    BY <1>3, <1>4
<1>16. RewardsMove(h, p, al, "ALLOCATE", given, ref)
    BY <1>1, <1>3, <1>7, <1>8, <1>10, <1>11, <1>12, <1>13, <1>14, <1>15 DEF RewardsMove
<1> QED
    BY <1>16, RewardsMoveKeeps

LEMMA CancelHireKeeps ==
    ASSUME PoolInv, NEW h \in PoolHires, CancelHire(h)
    PROVE  PoolInv'
<1> DEFINE active == {a \in Assets : allocation[h][a].state = "ACTIVE"}
           al == [a \in Assets |-> IF a \in active THEN [allocation[h][a] EXCEPT !.state = "CANCELLED"] ELSE allocation[h][a]]
           p == [pooled[h] EXCEPT !.status = "REFUNDED"]
           ref == [a \in Assets |-> <<h, a>>]
<1>1. /\ pooled[h] \in PooledRows /\ allocation[h] \in [Assets -> AllocationRows] /\ pool \in PoolRows
      /\ RewardsFit(pooled[h], allocation[h]) /\ ClosedFits(pool.status, pooled[h])
      /\ \A a \in Assets : allocation[h][a] \in AllocationRows /\ RewardRefs(poolLedger, h, a, pooled[h], allocation[h][a])
    BY HireRows
<1>2. /\ MoveBalance("DEALLOCATE", {Move(a, allocation[h][a].amount, <<h, a>>) : a \in active})
      /\ allocation' = [allocation EXCEPT ![h] = al] /\ pooled' = [pooled EXCEPT ![h] = p] /\ pooled[h].status = "FUNDED"
      /\ RefreshPoolStatus(pool.version) /\ refund' = refund /\ funded' = funded
    BY DEF CancelHire, ReturnPoolAllocations
<1>3. pool' \in PoolRows /\ (pool'.status = "CLOSED" <=> pool.status = "CLOSED")
    BY <1>1, <1>2, RefreshedPool DEF PoolRows
<1>4. \A a \in Assets : /\ al[a] \in AllocationRows /\ al[a].amount = allocation[h][a].amount /\ al[a].attempts = allocation[h][a].attempts
                        /\ (a \in active => al[a].state = "CANCELLED") /\ (a \notin active => al[a] = allocation[h][a])
    BY <1>1 DEF AllocationRows
<1>5. {Move(a, allocation[h][a].amount, <<h, a>>) : a \in active} = MovesOf(active, AmountsOf(al), ref)
  <2>1. \A a \in active : AmountsOf(al)[a] = allocation[h][a].amount /\ ref[a] = <<h, a>>
      BY <1>4 DEF AmountsOf
  <2> HIDE DEF active, al, ref
  <2> QED
      BY <2>1 DEF MovesOf
<1>6. al \in [Assets -> AllocationRows]
    BY <1>4
<1>7. p \in PooledRows /\ p.status = "REFUNDED" /\ p.settlement = pooled[h].settlement
    BY <1>1 DEF PooledRows
<1>8. \A a \in Assets : ref[a] = <<h, a>> /\ (a \in active <=> allocation[h][a].state = "ACTIVE")
    OBVIOUS
<1>9. active \subseteq Assets
    OBVIOUS
<1> HIDE DEF active, al, p, ref
<1>10. RewardsFit(p, al) /\ ClosedFits(pool.status, p)
  <2>1. \A a \in Assets : al[a].state \in {"NONE", "CANCELLED"}
    <3>1. \A a \in Assets : allocation[h][a].state \in {"NONE", "ACTIVE"}
        BY <1>1, <1>2 DEF RewardsFit
    <3> QED
        BY <1>4, <1>8, <3>1
  <2>2. p.settlement = "NOT_READY"
      BY <1>1, <1>2, <1>7 DEF RewardsFit
  <2> QED
      BY <1>7, <2>1, <2>2 DEF RewardsFit, ClosedFits
<1>11. \A a \in active : /\ <<"DEALLOCATE", ref[a]>> \notin poolLedger /\ <<"DEALLOCATE", ref[a]>> \in HireRefs(h)
                         /\ RewardMoves("DEALLOCATE", allocation[h][a], al[a])
  <2> SUFFICES ASSUME NEW a \in active
               PROVE  /\ <<"DEALLOCATE", ref[a]>> \notin poolLedger /\ <<"DEALLOCATE", ref[a]>> \in HireRefs(h)
                      /\ RewardMoves("DEALLOCATE", allocation[h][a], al[a])
      OBVIOUS
  <2>1. a \in Assets /\ ref[a] = <<h, a>>
      BY <1>8, <1>9
  <2>2. <<"DEALLOCATE", <<h, a>>>> \notin poolLedger
      BY <1>1, <1>2, <2>1 DEF RewardRefs
  <2>3. <<"DEALLOCATE", <<h, a>>>> \in HireRefs(h)
      BY <2>1 DEF HireRefs
  <2>4. RewardMoves("DEALLOCATE", allocation[h][a], al[a])
      BY <1>4, <1>8, <2>1 DEF RewardMoves
  <2> QED
      BY <2>1, <2>2, <2>3, <2>4
<1>12. ASSUME NEW a \in Assets PROVE RewardRefs(poolLedger \cup EntriesOf("DEALLOCATE", active, ref), h, a, p, al[a])
  <2>1. RewardRefs(poolLedger, h, a, pooled[h], allocation[h][a])
      BY <1>1
  <2>2. \A e \in EntriesOf("DEALLOCATE", active, ref) : e[1] = "DEALLOCATE"
      BY DEF EntriesOf
  <2>3. \A n \in Nat : /\ <<"RELEASE_START", <<h, a, n>>>> \notin EntriesOf("DEALLOCATE", active, ref)
                       /\ <<"RELEASE_DONE", <<h, a, n>>>> \notin EntriesOf("DEALLOCATE", active, ref)
                       /\ <<"RELEASE_FAILED", <<h, a, n>>>> \notin EntriesOf("DEALLOCATE", active, ref)
      BY <2>2
  <2>4. al[a].attempts = allocation[h][a].attempts /\ (al[a].state = "RELEASE_PENDING" => allocation[h][a].state = "RELEASE_PENDING")
      BY <1>4, <1>8
  <2> QED
      BY <1>7, <2>1, <2>3, <2>4 DEF RewardRefs
<1>13. \A a \in Assets \ active : al[a] = allocation[h][a]
    BY <1>4
<1>14. MoveBalance("DEALLOCATE", MovesOf(active, AmountsOf(al), ref))
    BY <1>2, <1>5
<1>15. RewardsMove(h, p, al, "DEALLOCATE", active, ref)
    BY <1>2, <1>3, <1>6, <1>7, <1>9, <1>10, <1>11, <1>12, <1>13, <1>14 DEF RewardsMove
<1> QED
    BY <1>15, RewardsMoveKeeps

LEMMA SettleKeeps ==
    ASSUME PoolInv, NEW h \in PoolHires, SettlePoolOrder(h)
    PROVE  PoolInv'
<1> DEFINE active == {a \in Assets : allocation[h][a].state = "ACTIVE"}
           al == [a \in Assets |-> IF a \in active
                     THEN [allocation[h][a] EXCEPT !.state = "RELEASE_PENDING", !.attempts = @ + 1] ELSE allocation[h][a]]
           p == [pooled[h] EXCEPT !.settlement = "PENDING"]
           ref == [a \in Assets |-> <<h, a, al[a].attempts>>]
<1>1. /\ pooled[h] \in PooledRows /\ allocation[h] \in [Assets -> AllocationRows] /\ pool \in PoolRows
      /\ RewardsFit(pooled[h], allocation[h]) /\ ClosedFits(pool.status, pooled[h])
      /\ \A a \in Assets : allocation[h][a] \in AllocationRows /\ RewardRefs(poolLedger, h, a, pooled[h], allocation[h][a])
    BY HireRows
<1>2. /\ MoveBalance("RELEASE_START", {Move(a, al[a].amount, ReleaseRef(h, a, al[a].attempts)) : a \in active})
      /\ allocation' = [allocation EXCEPT ![h] = al]
      /\ pooled' = [pooled EXCEPT ![h] = IF Settled(al) THEN Completed(pooled[h], al) ELSE p]
      /\ pooled[h].status \in {"APPROVED", "CANCELLED"} /\ pooled[h].settlement \in {"READY", "PENDING"}
      /\ pool' = pool /\ refund' = refund /\ funded' = funded
    BY DEF SettlePoolOrder
<1>4. \A a \in Assets : /\ al[a] \in AllocationRows /\ al[a].amount = allocation[h][a].amount
                        /\ al[a].required = allocation[h][a].required
                        /\ (a \in active => al[a].state = "RELEASE_PENDING" /\ al[a].attempts = allocation[h][a].attempts + 1)
                        /\ (a \notin active => al[a] = allocation[h][a])
  <2>2. \A a \in active : /\ al[a] = [allocation[h][a] EXCEPT !.state = "RELEASE_PENDING", !.attempts = allocation[h][a].attempts + 1]
                          /\ allocation[h][a] \in AllocationRows /\ allocation[h][a].attempts + 1 \in Nat
    <3>1. \A x \in AllocationRows : x.attempts + 1 \in Nat
        BY DEF AllocationRows
    <3> QED
        BY <1>1, <3>1
  <2>3. \A a \in Assets \ active : al[a] = allocation[h][a]
      OBVIOUS
  <2> HIDE DEF active, al
  <2>4. \A a \in active : /\ al[a] \in AllocationRows /\ al[a].amount = allocation[h][a].amount /\ al[a].state = "RELEASE_PENDING"
                          /\ al[a].required = allocation[h][a].required /\ al[a].attempts = allocation[h][a].attempts + 1
    <3> SUFFICES ASSUME NEW a \in active
                 PROVE  /\ al[a] \in AllocationRows /\ al[a].amount = allocation[h][a].amount /\ al[a].state = "RELEASE_PENDING"
                        /\ al[a].required = allocation[h][a].required /\ al[a].attempts = allocation[h][a].attempts + 1
        OBVIOUS
    <3> DEFINE x == allocation[h][a]
               n == x.attempts + 1
    <3>1. al[a] = [x EXCEPT !.state = "RELEASE_PENDING", !.attempts = n] /\ x \in AllocationRows /\ n \in Nat
        BY <2>2
    <3> HIDE DEF x, n
    <3>2. al[a] \in AllocationRows /\ al[a].amount = x.amount /\ al[a].state = "RELEASE_PENDING" /\ al[a].required = x.required /\ al[a].attempts = n
        BY <3>1 DEF AllocationRows
    <3> QED
        BY <3>2 DEF x, n
  <2> QED
      BY <1>1, <2>3, <2>4
<1>5. {Move(a, al[a].amount, ReleaseRef(h, a, al[a].attempts)) : a \in active} = MovesOf(active, AmountsOf(al), ref)
  <2>1. \A a \in active : AmountsOf(al)[a] = al[a].amount /\ ref[a] = ReleaseRef(h, a, al[a].attempts)
      BY DEF AmountsOf, ReleaseRef
  <2> HIDE DEF active, al, ref
  <2> QED
      BY <2>1 DEF MovesOf
<1>6. al \in [Assets -> AllocationRows]
    BY <1>4
<1>7. p \in PooledRows /\ p.status = pooled[h].status /\ p.settlement = "PENDING" /\ p.cash = pooled[h].cash /\ p.version = pooled[h].version
    BY <1>1 DEF PooledRows
<1>8. \A a \in Assets : ref[a] = <<h, a, al[a].attempts>> /\ (a \in active <=> allocation[h][a].state = "ACTIVE")
    OBVIOUS
<1>9. active \subseteq Assets
    OBVIOUS
<1> HIDE DEF active, al, p, ref
<1>3. ~Settled(al) /\ pooled' = [pooled EXCEPT ![h] = p]
  <2>1. ~Settled(allocation[h])
      BY <1>1, <1>2 DEF RewardsFit
  <2>2. PICK a \in Assets : allocation[h][a].required /\ allocation[h][a].state # "RELEASED"
      BY <2>1 DEF Settled
  <2>3. al[a].required /\ al[a].state # "RELEASED"
      BY <1>4, <2>2
  <2>4. ~Settled(al)
      BY <2>3 DEF Settled
  <2> QED
      BY <1>2, <2>4
<1>10. RewardsFit(p, al) /\ ClosedFits(pool.status, p)
  <2>1. /\ HoldsRewards(pooled[h], allocation[h])
        /\ \A a \in Assets : allocation[h][a].state \in {"NONE", "ACTIVE", "RELEASE_PENDING", "RELEASED"}
      BY <1>1, <1>2 DEF RewardsFit
  <2>2. ASSUME NEW a \in Assets
        PROVE  /\ al[a].state \in {"NONE", "RELEASE_PENDING", "RELEASED"} /\ al[a].amount = allocation[h][a].amount
               /\ al[a].required = allocation[h][a].required /\ (al[a].state = "NONE" => allocation[h][a].state = "NONE")
      BY <1>4, <1>8, <2>1
  <2>3. HoldsRewards(p, al)
    <3>1. p.version \in Accepted /\ Templates[p.version].cash = p.cash
        BY <1>7, <2>1 DEF HoldsRewards
    <3>2. ASSUME NEW a \in Assets
          PROVE  /\ al[a].required <=> a \in Templates[p.version].required
                 /\ a \in Templates[p.version].required => al[a].state # "NONE" /\ al[a].amount = Templates[p.version][a]
      <4>1. /\ allocation[h][a].required <=> a \in Templates[p.version].required
            /\ a \in Templates[p.version].required => allocation[h][a].state # "NONE" /\ allocation[h][a].amount = Templates[p.version][a]
          BY <1>7, <2>1, Zenon DEF HoldsRewards
      <4> QED
          BY <2>2, <4>1, Zenon
    <3> QED
        BY <3>1, <3>2 DEF HoldsRewards
  <2>4. \A a \in Assets : al[a].state \in {"NONE", "ACTIVE", "RELEASE_PENDING", "RELEASED"}
      BY <2>2
  <2>5. ClosedFits(pool.status, p)
      BY <1>1, <1>2 DEF ClosedFits
  <2> QED
      BY <1>2, <1>3, <1>7, <2>3, <2>4, <2>5 DEF RewardsFit
<1>11. \A a \in active : /\ <<"RELEASE_START", ref[a]>> \notin poolLedger /\ <<"RELEASE_START", ref[a]>> \in HireRefs(h)
                         /\ RewardMoves("RELEASE_START", allocation[h][a], al[a])
  <2> SUFFICES ASSUME NEW a \in active
               PROVE  /\ <<"RELEASE_START", ref[a]>> \notin poolLedger /\ <<"RELEASE_START", ref[a]>> \in HireRefs(h)
                      /\ RewardMoves("RELEASE_START", allocation[h][a], al[a])
      OBVIOUS
  <2> DEFINE n == al[a].attempts
  <2>1. a \in Assets /\ ref[a] = <<h, a, n>>
      BY <1>8, <1>9
  <2>2. n \in Nat /\ n > allocation[h][a].attempts
      BY <1>1, <1>4, <2>1 DEF AllocationRows
  <2> HIDE DEF n
  <2>3. <<"RELEASE_START", <<h, a, n>>>> \notin poolLedger
    <3>1. RewardRefs(poolLedger, h, a, pooled[h], allocation[h][a])
        BY <1>1, <2>1
    <3> QED
        BY <2>2, <3>1 DEF RewardRefs
  <2>4. <<"RELEASE_START", <<h, a, n>>>> \in HireRefs(h)
      BY <2>1, <2>2 DEF HireRefs
  <2>5. RewardMoves("RELEASE_START", allocation[h][a], al[a])
      BY <1>4, <1>8, <2>1 DEF RewardMoves
  <2> QED
      BY <2>1, <2>3, <2>4, <2>5
<1>12. ASSUME NEW a \in Assets PROVE RewardRefs(poolLedger \cup EntriesOf("RELEASE_START", active, ref), h, a, p, al[a])
  <2> DEFINE E == EntriesOf("RELEASE_START", active, ref)
             x == allocation[h][a]
             y == al[a]
  <2>1. RewardRefs(poolLedger, h, a, pooled[h], x) /\ x \in AllocationRows /\ y \in AllocationRows
      BY <1>1, <1>4
  <2>2. \A e \in E : e[1] = "RELEASE_START" /\ \E b \in active : e[2] = <<h, b, al[b].attempts>>
      BY <1>8, <1>9 DEF EntriesOf
  <2>3. y.attempts >= x.attempts /\ (y.state = "RELEASE_PENDING" => x.state = "RELEASE_PENDING" \/ y.attempts > x.attempts)
      BY <1>4, <1>8, <2>1 DEF AllocationRows
  <2>4. ASSUME NEW n \in Nat, n > y.attempts PROVE <<"RELEASE_START", <<h, a, n>>>> \notin E
    <3>1. \A b : <<h, a, n>> = <<h, b, al[b].attempts>> => n = al[a].attempts
        OBVIOUS
    <3> QED
        BY <2>1, <2>2, <2>4, <3>1 DEF AllocationRows
  <2> HIDE DEF E, x, y
  <2>5. /\ <<"DEALLOCATE", <<h, a>>>> \notin E
        /\ \A n \in Nat : <<"RELEASE_DONE", <<h, a, n>>>> \notin E /\ <<"RELEASE_FAILED", <<h, a, n>>>> \notin E
      BY <2>2
  <2>6. p.status \notin {"NONE", "OFFERED", "REFUNDED"} /\ pooled[h].status # "REFUNDED"
      BY <1>2, <1>7
  <2>7. x.attempts \in Nat /\ y.attempts \in Nat
      BY <2>1 DEF AllocationRows
  <2>8. RewardRefs(poolLedger \cup E, h, a, p, y)
      BY <2>1, <2>3, <2>4, <2>5, <2>6, <2>7 DEF RewardRefs
  <2> QED
      BY <2>8 DEF E, y
<1>13. \A a \in Assets \ active : al[a] = allocation[h][a]
    BY <1>4
<1>14. MoveBalance("RELEASE_START", MovesOf(active, AmountsOf(al), ref))
    BY <1>2, <1>5
<1>15. RewardsMove(h, p, al, "RELEASE_START", active, ref)
    BY <1>1, <1>2, <1>3, <1>6, <1>7, <1>9, <1>10, <1>11, <1>12, <1>13, <1>14 DEF RewardsMove
<1> QED
    BY <1>15, RewardsMoveKeeps

LEMMA RewardPaidKeeps ==
    ASSUME PoolInv, NEW h \in PoolHires, NEW c \in Assets, NEW paid \in BOOLEAN, RewardPaid(h, c, paid)
    PROVE  PoolInv'
<1> DEFINE x == allocation[h][c]
           movement == IF paid THEN "RELEASE_DONE" ELSE "RELEASE_FAILED"
           s == IF paid THEN "RELEASED" ELSE "ACTIVE"
           al == [allocation[h] EXCEPT ![c].state = s]
           p == IF paid \/ ~x.required THEN Completed(pooled[h], al) ELSE pooled[h]
           ref == [a \in Assets |-> <<h, a, x.attempts>>]
<1>1. /\ pooled[h] \in PooledRows /\ allocation[h] \in [Assets -> AllocationRows] /\ pool \in PoolRows
      /\ RewardsFit(pooled[h], allocation[h]) /\ ClosedFits(pool.status, pooled[h])
      /\ \A a \in Assets : allocation[h][a] \in AllocationRows /\ RewardRefs(poolLedger, h, a, pooled[h], allocation[h][a])
    BY HireRows
<1>2. /\ MoveBalance(movement, {Move(c, x.amount, ReleaseRef(h, c, x.attempts))}) /\ x.state = "RELEASE_PENDING"
      /\ allocation' = [allocation EXCEPT ![h] = al] /\ pooled' = [pooled EXCEPT ![h] = p]
      /\ pool' = pool /\ refund' = refund /\ funded' = funded
    BY DEF RewardPaid
<1>3. /\ \A a \in Assets : al[a] \in AllocationRows /\ (a # c => al[a] = allocation[h][a])
      /\ al[c].state = s /\ al[c].amount = x.amount /\ al[c].attempts = x.attempts /\ al[c].required = x.required
    BY <1>1 DEF AllocationRows
<1>4. {Move(c, x.amount, ReleaseRef(h, c, x.attempts))} = MovesOf({c}, AmountsOf(al), ref)
  <2>1. AmountsOf(al)[c] = x.amount /\ ref[c] = ReleaseRef(h, c, x.attempts)
      BY <1>3 DEF AmountsOf, ReleaseRef
  <2> HIDE DEF x, al, ref
  <2> QED
      BY <2>1 DEF MovesOf
<1>5. al \in [Assets -> AllocationRows]
    BY <1>1, <1>3
<1>6. ref[c] = <<h, c, x.attempts>> /\ x \in AllocationRows /\ x.attempts \in Nat
    BY <1>1 DEF AllocationRows
<1>7. /\ paid => movement = "RELEASE_DONE" /\ s = "RELEASED"
      /\ ~paid => movement = "RELEASE_FAILED" /\ s = "ACTIVE"
    OBVIOUS
<1>8. pooled[h].status \in {"APPROVED", "CANCELLED", "COMPLETED"}
  <2>1. allocation[h][c].state = "RELEASE_PENDING"
      BY <1>2
  <2>2. allocation[h][c] # NoAllocation
      BY <2>1 DEF NoAllocation
  <2>3. pooled[h].status \notin {"NONE", "OFFERED", "FUNDED", "REFUNDED"}
      BY <1>1, <2>1, <2>2 DEF RewardsFit
  <2> QED
      BY <1>1, <2>3 DEF PooledRows
<1>9. /\ \/ p = pooled[h]
         \/ /\ p = [pooled[h] EXCEPT !.status = IF @ = "APPROVED" THEN "COMPLETED" ELSE @, !.settlement = "RELEASED"]
            /\ Settled(al)
      /\ paid => (p.settlement = "RELEASED" \/ ~Settled(al) \/ pooled[h].status = "COMPLETED")
  <2>1. CASE (paid \/ ~x.required) /\ pooled[h].status \in {"APPROVED", "CANCELLED"} /\ pooled[h].settlement # "RELEASED" /\ Settled(al)
    <3>1. p = [pooled[h] EXCEPT !.status = IF @ = "APPROVED" THEN "COMPLETED" ELSE @, !.settlement = "RELEASED"]
        BY <2>1 DEF Completed
    <3>2. p.settlement = "RELEASED"
        BY <1>1, <3>1 DEF PooledRows
    <3> QED
        BY <2>1, <3>1, <3>2
  <2>2. CASE ~((paid \/ ~x.required) /\ pooled[h].status \in {"APPROVED", "CANCELLED"} /\ pooled[h].settlement # "RELEASED" /\ Settled(al))
    <3>1. p = pooled[h]
        BY <2>2 DEF Completed
    <3> QED
        BY <1>8, <2>2, <3>1
  <2> QED
      BY <2>1, <2>2
<1> HIDE DEF x, movement, s, al, p, ref
<1>10. /\ p \in PooledRows /\ p.status \in {"APPROVED", "CANCELLED", "COMPLETED"} /\ p.cash = pooled[h].cash /\ p.version = pooled[h].version
       /\ p.settlement = pooled[h].settlement \/ (p.settlement = "RELEASED" /\ Settled(al))
       /\ p.status = "COMPLETED" => p.settlement = "RELEASED"
  <2>1. CASE p = pooled[h]
      BY <1>1, <1>8, <2>1 DEF RewardsFit
  <2>2. CASE /\ p = [pooled[h] EXCEPT !.status = IF @ = "APPROVED" THEN "COMPLETED" ELSE @, !.settlement = "RELEASED"]
             /\ Settled(al)
    <3> DEFINE t == IF pooled[h].status = "APPROVED" THEN "COMPLETED" ELSE pooled[h].status
    <3>1. p = [pooled[h] EXCEPT !.status = t, !.settlement = "RELEASED"] /\ t \in {"APPROVED", "CANCELLED", "COMPLETED"}
        BY <1>1, <1>8, <2>2 DEF PooledRows
    <3> HIDE DEF t
    <3> QED
        BY <1>1, <2>2, <3>1 DEF PooledRows
  <2> QED
      BY <1>9, <2>1, <2>2
<1>11. RewardsFit(p, al) /\ ClosedFits(pool.status, p)
  <2>1. /\ pooled[h].settlement \in {"READY", "PENDING", "RELEASED"} /\ (pooled[h].settlement = "RELEASED" <=> Settled(allocation[h]))
        /\ HoldsRewards(pooled[h], allocation[h]) /\ (pooled[h].status = "COMPLETED" => pooled[h].settlement = "RELEASED")
        /\ \A a \in Assets : allocation[h][a].state \in {"NONE", "ACTIVE", "RELEASE_PENDING", "RELEASED"}
      BY <1>1, <1>8 DEF RewardsFit
  <2>2. s \in {"ACTIVE", "RELEASED"}
      BY <1>7
  <2>3. ASSUME NEW a \in Assets
        PROVE  /\ al[a].state \in {"NONE", "ACTIVE", "RELEASE_PENDING", "RELEASED"} /\ al[a].amount = allocation[h][a].amount
               /\ al[a].required = allocation[h][a].required /\ (al[a].state = "NONE" => allocation[h][a].state = "NONE")
      BY <1>3, <2>1, <2>2 DEF x
  <2>4. HoldsRewards(p, al)
    <3>1. p.version \in Accepted /\ Templates[p.version].cash = p.cash
        BY <1>10, <2>1 DEF HoldsRewards
    <3>2. ASSUME NEW a \in Assets
          PROVE  /\ al[a].required <=> a \in Templates[p.version].required
                 /\ a \in Templates[p.version].required => al[a].state # "NONE" /\ al[a].amount = Templates[p.version][a]
      <4>1. /\ allocation[h][a].required <=> a \in Templates[p.version].required
            /\ a \in Templates[p.version].required => allocation[h][a].state # "NONE" /\ allocation[h][a].amount = Templates[p.version][a]
          BY <1>10, <2>1, Zenon DEF HoldsRewards
      <4> QED
          BY <2>3, <4>1, Zenon
    <3> QED
        BY <3>1, <3>2 DEF HoldsRewards
  <2>5. p.settlement = "RELEASED" <=> Settled(al)
    <3>1. CASE x.required
      <4>1. ~Settled(allocation[h])
          BY <1>2, <3>1 DEF Settled, x
      <4>2. pooled[h].settlement # "RELEASED" /\ pooled[h].status # "COMPLETED"
          BY <2>1, <4>1
      <4>3. CASE paid
          BY <1>9, <1>10, <4>2, <4>3
      <4>4. CASE ~paid
        <5>1. ~Settled(al)
            BY <1>3, <1>7, <3>1, <4>4 DEF Settled
        <5> QED
            BY <1>10, <4>2, <5>1
      <4> QED
          BY <4>3, <4>4
    <3>2. CASE ~x.required
      <4>1. ASSUME NEW a \in Assets
            PROVE  (al[a].required => al[a].state = "RELEASED") <=> (allocation[h][a].required => allocation[h][a].state = "RELEASED")
        <5>1. CASE a = c
            BY <1>3, <3>2, <5>1, Zenon DEF x
        <5>2. CASE a # c
            BY <1>3, <5>2
        <5> QED
            BY <5>1, <5>2
      <4>2. Settled(al) <=> Settled(allocation[h])
          BY <4>1, Zenon DEF Settled
      <4> QED
          BY <1>10, <2>1, <4>2
    <3> QED
        BY <3>1, <3>2
  <2>6. RewardsFit(p, al)
    <3>1. \A a \in Assets : al[a].state \in {"NONE", "ACTIVE", "RELEASE_PENDING", "RELEASED"}
        BY <2>3
    <3> QED
        BY <1>10, <2>1, <2>4, <2>5, <3>1 DEF RewardsFit
  <2>7. ClosedFits(pool.status, p)
      BY <1>1, <1>8, <1>10 DEF ClosedFits
  <2> QED
      BY <2>6, <2>7
<1>12. RewardRefs(poolLedger, h, c, pooled[h], x)
    BY <1>1 DEF x
<1>13. <<movement, ref[c]>> \notin poolLedger /\ <<movement, ref[c]>> \in HireRefs(h) /\ RewardMoves(movement, x, al[c])
  <2>1. <<movement, <<h, c, x.attempts>>>> \notin poolLedger
      BY <1>2, <1>6, <1>7, <1>12 DEF RewardRefs
  <2>2. <<movement, <<h, c, x.attempts>>>> \in HireRefs(h)
      BY <1>6, <1>7 DEF HireRefs
  <2>3. RewardMoves(movement, x, al[c])
      BY <1>2, <1>3, <1>7 DEF RewardMoves
  <2> QED
      BY <1>6, <2>1, <2>2, <2>3
<1>14. ASSUME NEW a \in Assets PROVE RewardRefs(poolLedger \cup EntriesOf(movement, {c}, ref), h, a, p, al[a])
  <2> DEFINE E == EntriesOf(movement, {c}, ref)
             u == allocation[h][a]
             y == al[a]
  <2>1. RewardRefs(poolLedger, h, a, pooled[h], u) /\ u \in AllocationRows /\ y \in AllocationRows
      BY <1>1, <1>3
  <2>2. E = {<<movement, <<h, c, x.attempts>>>>}
      BY <1>6 DEF EntriesOf
  <2>3. /\ y.attempts = u.attempts /\ (y.state = "RELEASE_PENDING" => u.state = "RELEASE_PENDING" /\ a # c)
        /\ (a = c => x.attempts = y.attempts)
    <3>1. s # "RELEASE_PENDING"
        BY <1>7
    <3> QED
        BY <1>3, <3>1 DEF x
  <2>4. u.attempts \in Nat /\ y.attempts \in Nat
      BY <2>1 DEF AllocationRows
  <2> HIDE DEF E, u, y
  <2>5. /\ <<"DEALLOCATE", <<h, a>>>> \notin E
        /\ \A n \in Nat : <<"RELEASE_START", <<h, a, n>>>> \notin E
      BY <1>7, <2>2
  <2>6. ASSUME NEW n \in Nat, n > y.attempts \/ (n = y.attempts /\ y.state = "RELEASE_PENDING")
        PROVE  <<"RELEASE_DONE", <<h, a, n>>>> \notin E /\ <<"RELEASE_FAILED", <<h, a, n>>>> \notin E
    <3>1. a # c \/ n # x.attempts
        BY <2>3, <2>4, <2>6
    <3>2. <<h, a, n>> # <<h, c, x.attempts>>
        BY <3>1
    <3> QED
        BY <2>2, <3>2
  <2>7. p.status \notin {"NONE", "OFFERED", "REFUNDED"} /\ pooled[h].status # "REFUNDED"
      BY <1>8, <1>10
  <2>8. RewardRefs(poolLedger \cup E, h, a, p, y)
      BY <2>1, <2>3, <2>4, <2>5, <2>6, <2>7 DEF RewardRefs
  <2> QED
      BY <2>8 DEF E, y
<1>15. MoveBalance(movement, MovesOf({c}, AmountsOf(al), ref))
    BY <1>2, <1>4
<1>16. RewardsMove(h, p, al, movement, {c}, ref)
    BY <1>1, <1>2, <1>3, <1>5, <1>10, <1>11, <1>13, <1>14, <1>15 DEF RewardsMove, x
<1> QED
    BY <1>16, RewardsMoveKeeps

\* A step on its deposits and refunds: the rewards stay as they are.
AssetMoves(c, b, movement, amount, n, k, rs) ==
    /\ b = BucketsAfter(movement, balance[c], amount) /\ MoveBalance(movement, {Move(c, amount, <<c, n>>)}) /\ amount \in Nat /\ n \in Nat \ {0}
    /\ movement \in {"DEPOSIT", "REFUND_START", "REFUND_DONE", "REFUND_FAILED"} /\ <<movement, <<c, n>>>> \notin poolLedger
    /\ k \in Nat /\ rs \in Seq(PoolRefundRows) /\ funded' = [funded EXCEPT ![c] = k] /\ refund' = [refund EXCEPT ![c] = rs]
    /\ pooled' = pooled /\ allocation' = allocation /\ RefreshPoolStatus(pool.version)
    /\ BucketsFit(b, k * PoolDeposits[c], AllocatedIn(c, "ACTIVE"), AllocatedIn(c, "RELEASE_PENDING"), AllocatedIn(c, "RELEASED"),
                  RefundSum(rs, "REFUND_PENDING"), RefundSum(rs, "REFUNDED"))
    /\ AssetRefs(poolLedger \cup {<<movement, <<c, n>>>>}, c, k, rs)

LEMMA AssetMovesKeep ==
    ASSUME PoolInv, NEW c \in Assets, NEW b, NEW movement, NEW amount, NEW n, NEW k, NEW rs, AssetMoves(c, b, movement, amount, n, k, rs)
    PROVE  PoolInv'
<1> USE DEF AssetMoves
<1> DEFINE e == <<movement, <<c, n>>>>
           am == [a \in Assets |-> amount]
           ref == [a \in Assets |-> <<a, n>>]
<1>1. PoolTypes /\ pool \in PoolRows
    BY DEF PoolInv, PoolTypes, PoolRows
<1>2. MoveBalance(movement, MovesOf({c}, am, ref)) /\ {c} \in SUBSET Assets /\ \A a \in {c} : <<movement, ref[a]>> \notin poolLedger
  <2>1. MovesOf({c}, am, ref) = {Move(c, amount, <<c, n>>)}
      BY DEF MovesOf
  <2> QED
      BY <2>1
<1>3. /\ balance' = [a \in Assets |-> IF a \in {c} THEN BucketsAfter(movement, balance[a], am[a]) ELSE balance[a]]
      /\ poolLedger' = poolLedger \cup EntriesOf(movement, {c}, ref)
    BY <1>2, AllMoved
<1>4. balance'[c] = b /\ (\A a \in Assets : a # c => balance'[a] = balance[a]) /\ poolLedger' = poolLedger \cup {e}
    BY <1>3 DEF EntriesOf
<1>5. b \in BucketRows
  <2>1. balance[c] \in BucketRows /\ amount \in Int
      BY <1>1 DEF PoolTypes
  <2> QED
      BY <2>1, BucketMoves DEF BucketsAre
<1>6. pool' \in PoolRows /\ (pool'.status = "CLOSED" <=> pool.status = "CLOSED")
    BY <1>1, RefreshedPool DEF PoolRows
<1>7. PoolTypes'
  <2>1. balance' \in [Assets -> BucketRows]
    <3>1. \A a \in Assets : balance'[a] \in BucketRows
        BY <1>1, <1>4, <1>5 DEF PoolTypes
    <3> QED
        BY <1>3, <3>1
  <2>2. refund' \in [Assets -> Seq(PoolRefundRows)] /\ funded' \in [Assets -> Nat]
      BY <1>1 DEF PoolTypes
  <2> QED
      BY <1>1, <1>6, <2>1, <2>2 DEF PoolTypes, PoolRows
<1>8. funded'[c] = k /\ refund'[c] = rs /\ \A a \in Assets : a # c => funded'[a] = funded[a] /\ refund'[a] = refund[a]
    BY <1>1 DEF PoolTypes
<1> HIDE DEF e
<1>9. ASSUME NEW h \in PoolHires
      PROVE  /\ RewardsFit(pooled'[h], allocation'[h]) /\ ClosedFits(pool'.status, pooled'[h])
             /\ \A a \in Assets : RewardRefs(poolLedger', h, a, pooled'[h], allocation'[h][a])
  <2>1. /\ RewardsFit(pooled[h], allocation[h]) /\ ClosedFits(pool.status, pooled[h])
        /\ \A a \in Assets : RewardRefs(poolLedger, h, a, pooled[h], allocation[h][a])
      BY DEF PoolInv
  <2>2. e[1] \in {"DEPOSIT", "REFUND_START", "REFUND_DONE", "REFUND_FAILED"}
      BY DEF e
  <2>3. \A a \in Assets : RewardRefs(poolLedger \cup {e}, h, a, pooled[h], allocation[h][a])
    <3> SUFFICES ASSUME NEW a \in Assets PROVE RewardRefs(poolLedger \cup {e}, h, a, pooled[h], allocation[h][a])
        OBVIOUS
    <3>1. <<"ALLOCATE", <<h, a>>>> # e /\ <<"DEALLOCATE", <<h, a>>>> # e
        BY <2>2
    <3>2. \A i \in Nat : <<"RELEASE_START", <<h, a, i>>>> # e /\ <<"RELEASE_DONE", <<h, a, i>>>> # e /\ <<"RELEASE_FAILED", <<h, a, i>>>> # e
        BY <2>2
    <3> QED
        BY <2>1, <3>1, <3>2 DEF RewardRefs
  <2> QED
      BY <1>4, <1>6, <2>1, <2>3 DEF ClosedFits
<1>10. ASSUME NEW a \in Assets PROVE AssetFits(a)' /\ AssetRefs(poolLedger', a, funded'[a], refund'[a])
  <2>1. AllocatedIn(a, "ACTIVE")' = AllocatedIn(a, "ACTIVE") /\ AllocatedIn(a, "RELEASE_PENDING")' = AllocatedIn(a, "RELEASE_PENDING")
        /\ AllocatedIn(a, "RELEASED")' = AllocatedIn(a, "RELEASED")
      BY DEF AllocatedIn
  <2>2. CASE a = c
    <3>1. RefundsIn(a, "REFUND_PENDING")' = RefundSum(rs, "REFUND_PENDING") /\ RefundsIn(a, "REFUNDED")' = RefundSum(rs, "REFUNDED")
      <4>1. rs = refund'[a]
          BY <1>8, <2>2
      <4>2. RefundsIn(a, "REFUND_PENDING")' = RefundSum(refund'[a], "REFUND_PENDING") /\ RefundsIn(a, "REFUNDED")' = RefundSum(refund'[a], "REFUNDED")
          BY DEF RefundsIn, RefundSum
      <4> QED
          BY <4>1, <4>2
    <3>2. AssetFits(a)'
        BY <1>4, <1>8, <2>1, <2>2, <3>1 DEF AssetFits
    <3>3. AssetRefs(poolLedger', a, funded'[a], refund'[a])
        BY <1>4, <1>8, <2>2 DEF e
    <3> QED
        BY <3>2, <3>3
  <2>3. CASE a # c
    <3>1. AssetFits(a) /\ AssetRefs(poolLedger, a, funded[a], refund[a])
        BY DEF PoolInv
    <3>2. RefundsIn(a, "REFUND_PENDING")' = RefundsIn(a, "REFUND_PENDING") /\ RefundsIn(a, "REFUNDED")' = RefundsIn(a, "REFUNDED")
        BY <1>8, <2>3 DEF RefundsIn
    <3>3. AssetFits(a)'
        BY <1>4, <1>8, <2>1, <2>3, <3>1, <3>2 DEF AssetFits
    <3>4. \A m, i : <<m, <<a, i>>>> # e
        BY <2>3 DEF e
    <3>5. AssetRefs(poolLedger \cup {e}, a, funded[a], refund[a])
        BY <3>1, <3>4 DEF AssetRefs
    <3> QED
        BY <1>4, <1>8, <2>3, <3>3, <3>5
  <2> QED
      BY <2>2, <2>3
<1> QED
    BY <1>7, <1>9, <1>10 DEF PoolInv

\* The books of one asset.
LEMMA AssetRows ==
    ASSUME PoolInv, NEW c \in Assets
    PROVE  /\ balance[c] \in BucketRows /\ funded[c] \in Nat /\ refund[c] \in Seq(PoolRefundRows) /\ PoolDeposits[c] \in Nat
           /\ AssetRefs(poolLedger, c, funded[c], refund[c])
           /\ funded = [funded EXCEPT ![c] = funded[c]] /\ refund = [refund EXCEPT ![c] = refund[c]]
           /\ BucketsFit(balance[c], funded[c] * PoolDeposits[c], AllocatedIn(c, "ACTIVE"), AllocatedIn(c, "RELEASE_PENDING"),
                         AllocatedIn(c, "RELEASED"), RefundSum(refund[c], "REFUND_PENDING"), RefundSum(refund[c], "REFUNDED"))
           /\ AllocatedIn(c, "RELEASE_PENDING") \in Int /\ AllocatedIn(c, "ACTIVE") = balance[c].allocated_active
<1>1. PoolTypes
    BY DEF PoolInv
<1>2. balance[c] \in BucketRows /\ funded[c] \in Nat /\ refund[c] \in Seq(PoolRefundRows)
    BY <1>1 DEF PoolTypes
<1>3. funded = [funded EXCEPT ![c] = funded[c]] /\ refund = [refund EXCEPT ![c] = refund[c]]
    BY <1>1 DEF PoolTypes
<1>4. PoolDeposits[c] \in Nat
    BY PoolAssumption
<1>5. AssetRefs(poolLedger, c, funded[c], refund[c]) /\ AssetFits(c)
    BY DEF PoolInv
<1>6. RefundsIn(c, "REFUND_PENDING") = RefundSum(refund[c], "REFUND_PENDING") /\ RefundsIn(c, "REFUNDED") = RefundSum(refund[c], "REFUNDED")
    BY DEF RefundsIn, RefundSum
<1>7. AllocatedIn(c, "RELEASE_PENDING") \in Nat
  <2> DEFINE f == [h \in PoolHires |-> allocation[h][c].amount]
             S == {h \in PoolHires : allocation[h][c].state = "RELEASE_PENDING"}
  <2>1. Amounts(f, S)
    <3>1. IsFiniteSet(S)
        BY PoolAssumption, FS_Subset
    <3>2. \A h \in S : f[h] \in Nat
        BY <1>1 DEF PoolTypes, AllocationRows
    <3> QED
        BY <3>1, <3>2 DEF Amounts
  <2> HIDE DEF f, S
  <2>2. Total(f, S) \in Nat
      BY <2>1, TotalNat
  <2> QED
      BY <2>2 DEF f, S, AllocatedIn
<1>8. BucketsFit(balance[c], funded[c] * PoolDeposits[c], AllocatedIn(c, "ACTIVE"), AllocatedIn(c, "RELEASE_PENDING"),
                 AllocatedIn(c, "RELEASED"), RefundSum(refund[c], "REFUND_PENDING"), RefundSum(refund[c], "REFUNDED"))
    BY <1>5, <1>6 DEF AssetFits
<1>9. AllocatedIn(c, "ACTIVE") = balance[c].allocated_active
    BY <1>8 DEF BucketsFit
<1> QED
    BY <1>2, <1>3, <1>4, <1>5, <1>7, <1>8, <1>9

LEMMA PoolDepositKeeps ==
    ASSUME PoolInv, NEW c \in Assets, PoolDeposit(c)
    PROVE  PoolInv'
<1> DEFINE D == PoolDeposits[c]
           k == funded[c] + 1
           b == BucketsAfter("DEPOSIT", balance[c], D)
           rs == refund[c]
<1>1. /\ balance[c] \in BucketRows /\ funded[c] \in Nat /\ rs \in Seq(PoolRefundRows) /\ D \in Nat
      /\ AssetRefs(poolLedger, c, funded[c], rs) /\ refund = [refund EXCEPT ![c] = rs]
      /\ BucketsFit(balance[c], funded[c] * D, AllocatedIn(c, "ACTIVE"), AllocatedIn(c, "RELEASE_PENDING"),
                    AllocatedIn(c, "RELEASED"), RefundSum(rs, "REFUND_PENDING"), RefundSum(rs, "REFUNDED"))
    BY AssetRows
<1>2. k \in Nat \ {0} /\ k > funded[c]
    BY <1>1
<1>3. funded' = [funded EXCEPT ![c] = k]
    BY DEF PoolDeposit
<1>4. funded'[c] = k
  <2>1. funded \in [Assets -> Nat]
      BY DEF PoolInv, PoolTypes
  <2> QED
      BY <1>3, <2>1
<1>5. /\ MoveBalance("DEPOSIT", {Move(c, D, <<c, k>>)}) /\ RefreshPoolStatus(pool.version)
      /\ pooled' = pooled /\ allocation' = allocation /\ refund' = refund
    BY <1>4 DEF PoolDeposit
<1>6. BucketsFit(b, k * D, AllocatedIn(c, "ACTIVE"), AllocatedIn(c, "RELEASE_PENDING"),
                 AllocatedIn(c, "RELEASED"), RefundSum(rs, "REFUND_PENDING"), RefundSum(rs, "REFUNDED"))
  <2>1. k * D = funded[c] * D + D
      BY <1>1
  <2>2. BucketsAre(b, balance[c].confirmed_deposit + D, balance[c].unallocated + D, balance[c].allocated_active,
                   balance[c].pending_outflow, balance[c].released, balance[c].refunded)
      BY <1>1, BucketMoves
  <2>3. /\ balance[c].confirmed_deposit \in Int /\ balance[c].unallocated \in Int /\ balance[c].allocated_active \in Int
        /\ balance[c].pending_outflow \in Int /\ balance[c].released \in Int /\ balance[c].refunded \in Int
      BY <1>1 DEF BucketRows
  <2> HIDE DEF b, k, D, rs
  <2>4. b.confirmed_deposit = b.unallocated + b.allocated_active + b.pending_outflow + b.released + b.refunded
    <3>1. /\ b.confirmed_deposit = balance[c].confirmed_deposit + D /\ b.unallocated = balance[c].unallocated + D
          /\ b.allocated_active = balance[c].allocated_active /\ b.pending_outflow = balance[c].pending_outflow
          /\ b.released = balance[c].released /\ b.refunded = balance[c].refunded
        BY <2>2 DEF BucketsAre
    <3>2. balance[c].confirmed_deposit = balance[c].unallocated + balance[c].allocated_active + balance[c].pending_outflow
                                         + balance[c].released + balance[c].refunded
        BY <1>1 DEF BucketsFit
    <3>3. D \in Nat
        BY <1>1
    <3> QED
        BY <2>3, <3>1, <3>2, <3>3
  <2> QED
      BY <1>1, <2>1, <2>2, <2>4 DEF BucketsFit, BucketsAre
<1>7. <<"DEPOSIT", <<c, k>>>> \notin poolLedger
    BY <1>1, <1>2 DEF AssetRefs
<1>8. AssetRefs(poolLedger \cup {<<"DEPOSIT", <<c, k>>>>}, c, k, rs)
  <2> DEFINE e == <<"DEPOSIT", <<c, k>>>>
  <2>1. \A n \in Nat : /\ (n > k => <<"DEPOSIT", <<c, n>>>> # e /\ n > funded[c]) /\ <<"REFUND_START", <<c, n>>>> # e
                       /\ <<"REFUND_DONE", <<c, n>>>> # e /\ <<"REFUND_FAILED", <<c, n>>>> # e
      BY <1>1
  <2> HIDE DEF k, rs, e
  <2>2. AssetRefs(poolLedger \cup {e}, c, k, rs)
      BY <1>1, <2>1 DEF AssetRefs
  <2> QED
      BY <2>2 DEF e
<1> HIDE DEF b, k, D, rs
<1>9. AssetMoves(c, b, "DEPOSIT", D, k, k, rs)
    BY <1>1, <1>2, <1>3, <1>5, <1>6, <1>7, <1>8 DEF AssetMoves, b, D
<1> QED
    BY <1>9, AssetMovesKeep

LEMMA RefundUnusedKeeps ==
    ASSUME PoolInv, NEW c \in Assets, NEW m, RefundUnused(c, m)
    PROVE  PoolInv'
<1> DEFINE row == [state |-> "REFUND_PENDING", amount |-> m]
           q == balance[c]
           rs == refund[c]
           qs == Append(rs, row)
           k == Len(rs) + 1
           b == BucketsAfter("REFUND_START", q, m)
<1>1. /\ q \in BucketRows /\ funded[c] \in Nat /\ rs \in Seq(PoolRefundRows) /\ PoolDeposits[c] \in Nat
      /\ AssetRefs(poolLedger, c, funded[c], rs) /\ funded = [funded EXCEPT ![c] = funded[c]]
      /\ BucketsFit(q, funded[c] * PoolDeposits[c], AllocatedIn(c, "ACTIVE"), AllocatedIn(c, "RELEASE_PENDING"),
                    AllocatedIn(c, "RELEASED"), RefundSum(rs, "REFUND_PENDING"), RefundSum(rs, "REFUNDED"))
      /\ AllocatedIn(c, "RELEASE_PENDING") \in Int
    BY AssetRows
<1>2. m \in Nat /\ m \in Int
  <2>1. m \in 1..balance[c].unallocated /\ balance[c].unallocated \in Int
      BY <1>1 DEF RefundUnused, BucketRows
  <2> QED
      BY <2>1
<1>3. refund' = [refund EXCEPT ![c] = qs]
    BY DEF RefundUnused
<1>4. row \in PoolRefundRows /\ Len(rs) \in Nat /\ k \in Nat \ {0} /\ Len(qs) = k /\ qs \in Seq(PoolRefundRows)
  <2>1. row \in PoolRefundRows
      BY <1>2 DEF PoolRefundRows
  <2> HIDE DEF row, rs
  <2> QED
      BY <1>1, <2>1
<1>5. refund'[c] = qs
  <2>1. refund \in [Assets -> Seq(PoolRefundRows)]
      BY DEF PoolInv, PoolTypes
  <2> HIDE DEF qs
  <2> QED
      BY <1>3, <2>1
<1>6. /\ MoveBalance("REFUND_START", {Move(c, m, <<c, k>>)}) /\ RefreshPoolStatus(pool.version)
      /\ pooled' = pooled /\ allocation' = allocation /\ funded' = funded
  <2>1. MoveBalance("REFUND_START", {Move(c, m, <<c, Len(refund'[c])>>)}) /\ RefreshPoolStatus(pool.version)
        /\ pooled' = pooled /\ allocation' = allocation /\ funded' = funded
      BY DEF RefundUnused
  <2> HIDE DEF k, qs
  <2> QED
      BY <1>4, <1>5, <2>1
<1>7. /\ qs[k] = row /\ \A i \in 1..Len(rs) : qs[i] = rs[i]
      /\ row.state = "REFUND_PENDING" /\ row.amount = m
  <2>1. row.state = "REFUND_PENDING" /\ row.amount = m
      OBVIOUS
  <2> HIDE DEF row, rs
  <2> QED
      BY <1>1, <1>4, <2>1
<1>8. /\ RefundSum(qs, "REFUND_PENDING") = RefundSum(rs, "REFUND_PENDING") + m /\ RefundSum(qs, "REFUNDED") = RefundSum(rs, "REFUNDED")
      /\ RefundSum(rs, "REFUND_PENDING") \in Nat
  <2>1. Counts(row, "REFUND_PENDING") = m /\ Counts(row, "REFUNDED") = 0
      BY DEF Counts
  <2> HIDE DEF row, rs
  <2>2. /\ RefundSum(qs, "REFUND_PENDING") = RefundSum(rs, "REFUND_PENDING") + Counts(row, "REFUND_PENDING")
        /\ RefundSum(qs, "REFUNDED") = RefundSum(rs, "REFUNDED") + Counts(row, "REFUNDED")
        /\ RefundSum(rs, "REFUND_PENDING") \in Nat /\ RefundSum(rs, "REFUNDED") \in Nat
      BY <1>1, <1>4, RefundSumGrows
  <2> HIDE DEF qs
  <2> QED
      BY <2>1, <2>2
<1>9. BucketsFit(b, funded[c] * PoolDeposits[c], AllocatedIn(c, "ACTIVE"), AllocatedIn(c, "RELEASE_PENDING"),
                 AllocatedIn(c, "RELEASED"), RefundSum(qs, "REFUND_PENDING"), RefundSum(qs, "REFUNDED"))
  <2>1. BucketsAre(b, q.confirmed_deposit, q.unallocated - m, q.allocated_active, q.pending_outflow + m, q.released, q.refunded)
      BY <1>1, <1>2, BucketMoves
  <2>2. /\ q.confirmed_deposit \in Int /\ q.unallocated \in Int /\ q.allocated_active \in Int
        /\ q.pending_outflow \in Int /\ q.released \in Int /\ q.refunded \in Int
      BY <1>1 DEF BucketRows
  <2> HIDE DEF b, q, qs, rs
  <2>3. /\ b.confirmed_deposit = q.confirmed_deposit /\ b.unallocated = q.unallocated - m
        /\ b.allocated_active = q.allocated_active /\ b.pending_outflow = q.pending_outflow + m
        /\ b.released = q.released /\ b.refunded = q.refunded
      BY <2>1 DEF BucketsAre
  <2>4. q.confirmed_deposit = q.unallocated + q.allocated_active + q.pending_outflow + q.released + q.refunded
      BY <1>1 DEF BucketsFit
  <2>5. b.confirmed_deposit = b.unallocated + b.allocated_active + b.pending_outflow + b.released + b.refunded
      BY <1>2, <2>2, <2>3, <2>4
  <2>6. b.pending_outflow = AllocatedIn(c, "RELEASE_PENDING") + RefundSum(qs, "REFUND_PENDING")
    <3>1. q.pending_outflow = AllocatedIn(c, "RELEASE_PENDING") + RefundSum(rs, "REFUND_PENDING") /\ AllocatedIn(c, "RELEASE_PENDING") \in Int
        BY <1>1 DEF BucketsFit
    <3> QED
        BY <1>2, <1>8, <2>3, <3>1
  <2> QED
      BY <1>1, <1>8, <2>3, <2>5, <2>6 DEF BucketsFit
<1>10. <<"REFUND_START", <<c, k>>>> \notin poolLedger
  <2>1. k > Len(rs) /\ k \in Nat \ {0}
      BY <1>4
  <2> HIDE DEF k, rs
  <2> QED
      BY <1>1, <2>1 DEF AssetRefs
<1>11. AssetRefs(poolLedger \cup {<<"REFUND_START", <<c, k>>>>}, c, funded[c], qs)
  <2> DEFINE e == <<"REFUND_START", <<c, k>>>>
  <2>1. \A n \in Nat : /\ (n > k => <<"REFUND_START", <<c, n>>>> # e /\ n > Len(rs)) /\ <<"DEPOSIT", <<c, n>>>> # e
                       /\ <<"REFUND_DONE", <<c, n>>>> # e /\ <<"REFUND_FAILED", <<c, n>>>> # e
      BY <1>4
  <2>2. \A n \in Nat \ {0} : n > Len(qs) \/ qs[n].state = "REFUND_PENDING" => n > Len(rs) \/ rs[n].state = "REFUND_PENDING"
    <3> HIDE DEF qs, rs
    <3> QED
        BY <1>4, <1>7
  <2> HIDE DEF k, rs, qs, e
  <2>3. AssetRefs(poolLedger \cup {e}, c, funded[c], qs)
      BY <1>1, <1>4, <2>1, <2>2 DEF AssetRefs
  <2> QED
      BY <2>3 DEF e
<1> HIDE DEF b, k, q, rs, qs
<1>12. AssetMoves(c, b, "REFUND_START", m, k, funded[c], qs)
    BY <1>1, <1>2, <1>3, <1>4, <1>6, <1>9, <1>10, <1>11 DEF AssetMoves, b, q
<1> QED
    BY <1>12, AssetMovesKeep

LEMMA PoolRefundedKeeps ==
    ASSUME PoolInv, NEW c \in Assets, NEW k, NEW paid \in BOOLEAN, PoolRefunded(c, k, paid)
    PROVE  PoolInv'
<1> DEFINE movement == IF paid THEN "REFUND_DONE" ELSE "REFUND_FAILED"
           s == IF paid THEN "REFUNDED" ELSE "FAILED"
           q == balance[c]
           rs == refund[c]
           m == rs[k].amount
           row == [rs[k] EXCEPT !.state = s]
           qs == [rs EXCEPT ![k] = row]
           b == BucketsAfter(movement, q, m)
<1>1. /\ q \in BucketRows /\ funded[c] \in Nat /\ rs \in Seq(PoolRefundRows) /\ PoolDeposits[c] \in Nat
      /\ AssetRefs(poolLedger, c, funded[c], rs) /\ funded = [funded EXCEPT ![c] = funded[c]]
      /\ BucketsFit(q, funded[c] * PoolDeposits[c], AllocatedIn(c, "ACTIVE"), AllocatedIn(c, "RELEASE_PENDING"),
                    AllocatedIn(c, "RELEASED"), RefundSum(rs, "REFUND_PENDING"), RefundSum(rs, "REFUNDED"))
      /\ AllocatedIn(c, "RELEASE_PENDING") \in Int
    BY AssetRows
<1>2. /\ k \in DOMAIN rs /\ rs[k].state = "REFUND_PENDING" /\ MoveBalance(movement, {Move(c, m, <<c, k>>)})
      /\ refund' = [refund EXCEPT ![c][k].state = s] /\ RefreshPoolStatus(pool.version)
      /\ pooled' = pooled /\ allocation' = allocation /\ funded' = funded
    BY DEF PoolRefunded
<1>3. k \in 1..Len(rs) /\ k \in Nat \ {0} /\ rs[k] \in PoolRefundRows
  <2> HIDE DEF rs
  <2> QED
      BY <1>1, <1>2
<1>4. s \in {"REFUNDED", "FAILED"} /\ movement \in {"REFUND_DONE", "REFUND_FAILED"} /\ (s = "REFUNDED" <=> movement = "REFUND_DONE")
    OBVIOUS
<1>5. row \in PoolRefundRows /\ row.state = s /\ row.amount = m /\ m \in Nat /\ m \in Int
  <2> DEFINE x == rs[k]
  <2>1. x \in PoolRefundRows
      BY <1>3
  <2> HIDE DEF x, s
  <2>2. [x EXCEPT !.state = s] \in PoolRefundRows /\ [x EXCEPT !.state = s].state = s /\ [x EXCEPT !.state = s].amount = x.amount
        /\ x.amount \in Nat
      BY <1>4, <2>1 DEF PoolRefundRows
  <2> QED
      BY <2>2 DEF x
<1>6. refund' = [refund EXCEPT ![c] = qs]
  <2>1. refund \in [Assets -> Seq(PoolRefundRows)]
      BY DEF PoolInv, PoolTypes
  <2> HIDE DEF s
  <2> QED
      BY <1>2, <2>1
<1>7. qs \in Seq(PoolRefundRows) /\ Len(qs) = Len(rs) /\ qs[k] = row /\ \A i \in 1..Len(rs) : i # k => qs[i] = rs[i]
  <2> HIDE DEF row, rs
  <2> QED
      BY <1>1, <1>3, <1>5
<1>8. /\ RefundSum(qs, "REFUND_PENDING") = RefundSum(rs, "REFUND_PENDING") - m
      /\ RefundSum(qs, "REFUNDED") = RefundSum(rs, "REFUNDED") + (IF s = "REFUNDED" THEN m ELSE 0)
      /\ RefundSum(rs, "REFUND_PENDING") \in Nat /\ RefundSum(rs, "REFUNDED") \in Nat
  <2>1. /\ Counts(row, "REFUND_PENDING") = 0 /\ Counts(rs[k], "REFUND_PENDING") = m
        /\ Counts(row, "REFUNDED") = (IF s = "REFUNDED" THEN m ELSE 0) /\ Counts(rs[k], "REFUNDED") = 0
    <3> HIDE DEF row, s, rs
    <3> QED
        BY <1>2, <1>4, <1>5 DEF Counts
  <2> HIDE DEF row, rs, m, s
  <2>2. /\ RefundSum(qs, "REFUND_PENDING") = RefundSum(rs, "REFUND_PENDING") + Counts(row, "REFUND_PENDING") - Counts(rs[k], "REFUND_PENDING")
        /\ RefundSum(qs, "REFUNDED") = RefundSum(rs, "REFUNDED") + Counts(row, "REFUNDED") - Counts(rs[k], "REFUNDED")
        /\ RefundSum(rs, "REFUND_PENDING") \in Nat /\ RefundSum(rs, "REFUNDED") \in Nat
      BY <1>1, <1>3, <1>5, RefundSumMoves
  <2> HIDE DEF qs
  <2> QED
      BY <1>5, <2>1, <2>2
<1> DEFINE back == IF s = "REFUNDED" THEN m ELSE 0
           free == IF s = "REFUNDED" THEN 0 ELSE m
<1>9. back \in Nat /\ free \in Nat /\ back + free = m
    BY <1>5
<1>10. BucketsAre(b, q.confirmed_deposit, q.unallocated + free, q.allocated_active, q.pending_outflow - m, q.released, q.refunded + back)
  <2> HIDE DEF q, m
  <2>1. q.unallocated \in Int /\ q.refunded \in Int
      BY <1>1 DEF BucketRows
  <2>2. CASE paid
    <3>1. BucketsAre(BucketsAfter("REFUND_DONE", q, m), q.confirmed_deposit, q.unallocated, q.allocated_active, q.pending_outflow - m, q.released, q.refunded + m)
        BY <1>1, <1>5, BucketMoves
    <3>2. b = BucketsAfter("REFUND_DONE", q, m) /\ q.unallocated + free = q.unallocated /\ q.refunded + back = q.refunded + m
        BY <2>1, <2>2
    <3> QED
        BY <3>1, <3>2
  <2>3. CASE ~paid
    <3>1. BucketsAre(BucketsAfter("REFUND_FAILED", q, m), q.confirmed_deposit, q.unallocated + m, q.allocated_active, q.pending_outflow - m, q.released, q.refunded)
        BY <1>1, <1>5, BucketMoves
    <3>2. b = BucketsAfter("REFUND_FAILED", q, m) /\ q.unallocated + free = q.unallocated + m /\ q.refunded + back = q.refunded
        BY <2>1, <2>3
    <3> QED
        BY <3>1, <3>2
  <2> QED
      BY <2>2, <2>3
<1>11. BucketsFit(b, funded[c] * PoolDeposits[c], AllocatedIn(c, "ACTIVE"), AllocatedIn(c, "RELEASE_PENDING"),
                  AllocatedIn(c, "RELEASED"), RefundSum(qs, "REFUND_PENDING"), RefundSum(qs, "REFUNDED"))
  <2>1. /\ q.confirmed_deposit \in Int /\ q.unallocated \in Int /\ q.allocated_active \in Int
        /\ q.pending_outflow \in Int /\ q.released \in Int /\ q.refunded \in Int
      BY <1>1 DEF BucketRows
  <2>2. RefundSum(qs, "REFUNDED") = RefundSum(rs, "REFUNDED") + back
      BY <1>8
  <2> HIDE DEF b, q, qs, rs, m, back, free
  <2>3. /\ b.confirmed_deposit = q.confirmed_deposit /\ b.unallocated = q.unallocated + free
        /\ b.allocated_active = q.allocated_active /\ b.pending_outflow = q.pending_outflow - m
        /\ b.released = q.released /\ b.refunded = q.refunded + back
      BY <1>10 DEF BucketsAre
  <2>4. q.confirmed_deposit = q.unallocated + q.allocated_active + q.pending_outflow + q.released + q.refunded
      BY <1>1 DEF BucketsFit
  <2>5. b.confirmed_deposit = b.unallocated + b.allocated_active + b.pending_outflow + b.released + b.refunded
      BY <1>9, <2>1, <2>3, <2>4
  <2>6. b.pending_outflow = AllocatedIn(c, "RELEASE_PENDING") + RefundSum(qs, "REFUND_PENDING")
    <3>1. q.pending_outflow = AllocatedIn(c, "RELEASE_PENDING") + RefundSum(rs, "REFUND_PENDING") /\ AllocatedIn(c, "RELEASE_PENDING") \in Int
        BY <1>1 DEF BucketsFit
    <3> QED
        BY <1>5, <1>8, <2>3, <3>1
  <2>7. b.refunded = RefundSum(qs, "REFUNDED")
      BY <1>1, <2>2, <2>3 DEF BucketsFit
  <2> QED
      BY <1>1, <2>3, <2>5, <2>6, <2>7 DEF BucketsFit
<1>12. <<movement, <<c, k>>>> \notin poolLedger
  <2> HIDE DEF rs, movement
  <2> QED
      BY <1>1, <1>2, <1>3, <1>4 DEF AssetRefs
<1>13. AssetRefs(poolLedger \cup {<<movement, <<c, k>>>>}, c, funded[c], qs)
  <2> DEFINE e == <<movement, <<c, k>>>>
  <2>1. \A n \in Nat : /\ <<"DEPOSIT", <<c, n>>>> # e /\ <<"REFUND_START", <<c, n>>>> # e
                       /\ (n # k => <<"REFUND_DONE", <<c, n>>>> # e /\ <<"REFUND_FAILED", <<c, n>>>> # e)
    <3> HIDE DEF movement
    <3> QED
        BY <1>4
  <2>2. \A n \in Nat \ {0} : n > Len(qs) \/ qs[n].state = "REFUND_PENDING" => n # k /\ (n > Len(rs) \/ rs[n].state = "REFUND_PENDING")
    <3> HIDE DEF qs, rs, row, s
    <3> QED
        BY <1>1, <1>3, <1>4, <1>5, <1>7
  <2> HIDE DEF rs, qs, e, movement
  <2>3. AssetRefs(poolLedger \cup {e}, c, funded[c], qs)
      BY <1>1, <1>7, <2>1, <2>2 DEF AssetRefs
  <2> QED
      BY <2>3 DEF e
<1> HIDE DEF b, q, rs, qs, m, movement
<1>14. AssetMoves(c, b, movement, m, k, funded[c], qs)
    BY <1>1, <1>2, <1>3, <1>4, <1>5, <1>6, <1>7, <1>11, <1>12, <1>13 DEF AssetMoves, b, q
<1> QED
    BY <1>14, AssetMovesKeep

\* A step that changes the pool's row only.
LEMMA PoolRowKeeps ==
    ASSUME PoolInv, pool' \in PoolRows, UNCHANGED <<balance, poolLedger, pooled, allocation, refund, funded>>,
           \A h \in PoolHires : ClosedFits(pool'.status, pooled[h])
    PROVE  PoolInv'
<1>1. PoolTypes'
    BY DEF PoolInv, PoolTypes, PoolRows
<1>2. \A h \in PoolHires : /\ RewardsFit(pooled'[h], allocation'[h]) /\ ClosedFits(pool'.status, pooled'[h])
                           /\ \A a \in Assets : RewardRefs(poolLedger', h, a, pooled'[h], allocation'[h][a])
    BY DEF PoolInv
<1>3. \A a \in Assets : AssetFits(a)' /\ AssetRefs(poolLedger', a, funded'[a], refund'[a])
  <2>1. \A a \in Assets : AssetFits(a)' <=> AssetFits(a)
      BY DEF AssetFits, AllocatedIn, RefundsIn
  <2> QED
      BY <2>1 DEF PoolInv
<1> QED
    BY <1>1, <1>2, <1>3 DEF PoolInv

LEMMA ClosePoolKeeps ==
    ASSUME PoolInv, ClosePool
    PROVE  PoolInv'
<1>1. pool' = [pool EXCEPT !.status = "CLOSED"] /\ UNCHANGED <<balance, poolLedger, pooled, allocation, refund, funded>>
    BY DEF ClosePool, poolMoney
<1>2. pool' \in PoolRows
  <2>1. pool \in PoolRows
      BY DEF PoolInv, PoolTypes, PoolRows
  <2> QED
      BY <1>1, <2>1 DEF PoolRows
<1>3. ASSUME NEW h \in PoolHires PROVE ClosedFits(pool'.status, pooled[h])
  <2>1. pooled[h] \in PooledRows /\ RewardsFit(pooled[h], allocation[h])
      BY HireRows
  <2>2. \A a \in Assets : allocation[h][a].state \notin {"ACTIVE", "RELEASE_PENDING"}
      BY DEF ClosePool
  <2>3. pooled[h].status # "FUNDED"
    <3> SUFFICES ASSUME pooled[h].status = "FUNDED" PROVE FALSE
        OBVIOUS
    <3>1. HoldsRewards(pooled[h], allocation[h]) /\ \A a \in Assets : allocation[h][a].state \in {"NONE", "ACTIVE"}
        BY <2>1 DEF RewardsFit
    <3>2. "cash" \in Templates[pooled[h].version].required /\ "cash" \in Assets
        BY <3>1, AcceptedRows DEF HoldsRewards
    <3>3. allocation[h]["cash"].state # "NONE"
        BY <3>1, <3>2 DEF HoldsRewards
    <3> QED
        BY <2>2, <3>1, <3>2, <3>3
  <2>4. pooled[h].status \in {"APPROVED", "CANCELLED", "COMPLETED"} => pooled[h].settlement = "RELEASED"
    <3> SUFFICES ASSUME pooled[h].status \in {"APPROVED", "CANCELLED", "COMPLETED"} PROVE pooled[h].settlement = "RELEASED"
        OBVIOUS
    <3>1. /\ HoldsRewards(pooled[h], allocation[h]) /\ (pooled[h].settlement = "RELEASED" <=> Settled(allocation[h]))
          /\ \A a \in Assets : allocation[h][a].state \in {"NONE", "ACTIVE", "RELEASE_PENDING", "RELEASED"}
        BY <2>1 DEF RewardsFit
    <3>2. ASSUME NEW a \in Assets, allocation[h][a].required PROVE allocation[h][a].state = "RELEASED"
      <4>1. allocation[h][a].state # "NONE"
          BY <3>1, <3>2, Zenon DEF HoldsRewards
      <4> QED
          BY <2>2, <3>1, <4>1
    <3> QED
        BY <3>1, <3>2 DEF Settled
  <2> QED
      BY <2>1, <2>3, <2>4 DEF ClosedFits, PooledRows
<1> QED
    BY <1>1, <1>2, <1>3, PoolRowKeeps

LEMMA UpdateTemplateKeeps ==
    ASSUME PoolInv, UpdatePoolTemplate
    PROVE  PoolInv'
<1>1. pool \in PoolRows /\ \A h \in PoolHires : ClosedFits(pool.status, pooled[h])
    BY DEF PoolInv, PoolTypes, PoolRows
<1>2. pool.version + 1 \in Accepted /\ RefreshPoolStatus(pool.version + 1)
    BY <1>1, TemplateRows DEF UpdatePoolTemplate, PoolRows, Accepted
<1>3. pool' \in PoolRows /\ (pool'.status = "CLOSED" <=> pool.status = "CLOSED")
    BY <1>1, <1>2, RefreshedPool
<1>4. UNCHANGED <<balance, poolLedger, pooled, allocation, refund, funded>>
    BY DEF UpdatePoolTemplate, poolMoney
<1>5. \A h \in PoolHires : ClosedFits(pool'.status, pooled[h])
    BY <1>1, <1>3 DEF ClosedFits
<1> QED
    BY <1>3, <1>4, <1>5, PoolRowKeeps

LEMMA OtherPoolStepsKeep ==
    ASSUME PoolInv, UNCHANGED <<pool, balance, poolLedger, pooled, allocation, refund, funded>>
    PROVE  PoolInv'
<1>1. pool' \in PoolRows /\ \A h \in PoolHires : ClosedFits(pool'.status, pooled[h])
    BY DEF PoolInv, PoolTypes, PoolRows
<1> QED
    BY <1>1, PoolRowKeeps

LEMMA PoolNextKeeps == PoolInv /\ [PoolNext]_poolVars => PoolInv'
<1> SUFFICES ASSUME PoolInv, [PoolNext]_poolVars PROVE PoolInv'
    OBVIOUS
<1>1. CASE UNCHANGED poolVars
    BY <1>1, OtherPoolStepsKeep DEF poolVars
<1>2. CASE UpdatePoolTemplate
    BY <1>2, UpdateTemplateKeeps
<1>3. CASE ClosePool
    BY <1>3, ClosePoolKeeps
<1>4. ASSUME NEW a \in Assets, CreatePoolFundingIntent(a) PROVE PoolInv'
    BY <1>4, OtherPoolStepsKeep DEF CreatePoolFundingIntent, poolMoney
<1>5. ASSUME NEW a \in Assets, PoolDeposit(a) PROVE PoolInv'
    BY <1>5, PoolDepositKeeps
<1>6. ASSUME NEW a \in Assets, NEW n \in 1..balance[a].unallocated, RefundUnused(a, n) PROVE PoolInv'
    BY <1>6, RefundUnusedKeeps
<1>7. ASSUME NEW h \in PoolHires, OfferHire(h) \/ CancelKeepingRewards(h) \/ ApproveHire(h) PROVE PoolInv'
    BY <1>7, OfferHireKeeps
<1>8. ASSUME NEW h \in PoolHires, AllocateHire(h) PROVE PoolInv'
    BY <1>8, AllocateKeeps
<1>9. ASSUME NEW h \in PoolHires, CancelHire(h) PROVE PoolInv'
    BY <1>9, CancelHireKeeps
<1>10. ASSUME NEW h \in PoolHires, FulfillEntitlement(h) \/ ClaimEntitlement(h) PROVE PoolInv'
    BY <1>10, OtherPoolStepsKeep DEF FulfillEntitlement, ClaimEntitlement, Entitle, poolMoney
<1>11. ASSUME NEW h \in PoolHires, SettlePoolOrder(h) PROVE PoolInv'
    BY <1>11, SettleKeeps
<1>12. ASSUME NEW a \in Assets, NEW paid \in BOOLEAN, NEW h \in PoolHires, RewardPaid(h, a, paid) PROVE PoolInv'
    BY <1>12, RewardPaidKeeps
<1>13. ASSUME NEW a \in Assets, NEW paid \in BOOLEAN, NEW k \in DOMAIN refund[a], PoolRefunded(a, k, paid) PROVE PoolInv'
    BY <1>13, PoolRefundedKeeps
<1> QED
    BY <1>1, <1>2, <1>3, <1>4, <1>5, <1>6, <1>7, <1>8, <1>9, <1>10, <1>11, <1>12, <1>13 DEF PoolNext

\* The pool's status after a step that moves rewards only: the net deposits are what they were.
LEMMA RewardsKeepCover ==
    ASSUME NEW movement \in {"ALLOCATE", "RELEASE_START", "RELEASE_DONE", "RELEASE_FAILED"}, NEW moves, MoveBalance(movement, moves),
           balance \in [Assets -> BucketRows]
    PROVE  \A a \in Assets : balance'[a].confirmed_deposit = balance[a].confirmed_deposit /\ balance'[a].refunded = balance[a].refunded
<1> TAKE a \in Assets
<1>1. balance[a] \in BucketRows
    OBVIOUS
<1>2. \A n : /\ BucketsAfter(movement, balance[a], n).confirmed_deposit = balance[a].confirmed_deposit
             /\ BucketsAfter(movement, balance[a], n).refunded = balance[a].refunded
    BY <1>1 DEF BucketsAfter, MOVES, BucketRows
<1>3. balance'[a] = balance[a] \/ \E n : balance'[a] = BucketsAfter(movement, balance[a], n)
    BY Zenon DEF MoveBalance
<1> QED
    BY <1>2, <1>3

\* The pool is ACTIVE exactly while its deposits cover what its template requires.
StatusFits == pool.status # "CLOSED" => (pool.status = "ACTIVE" <=> Covered(pool.version, balance))

LEMMA StatusInit == PoolInit => StatusFits
<1> SUFFICES ASSUME PoolInit PROVE ~Covered(1, balance) /\ pool.status = "FUNDING" /\ pool.version = 1
    BY DEF StatusFits
<1>1. "cash" \in Templates[1].required /\ Templates[1]["cash"] > 0 /\ Templates[1]["cash"] \in Nat /\ "cash" \in Assets
    BY TemplateRows DEF PoolInit, ValidTemplate, Assets
<1>2. Templates[1]["cash"] * TargetHires > 0
  <2>1. TargetHires \in Nat /\ TargetHires > 0
      BY PoolAssumption
  <2> QED
      BY <1>1, <2>1
<1>3. Target(1, "cash") > 0
    BY <1>1, <1>2 DEF Target
<1>4. balance["cash"].confirmed_deposit - balance["cash"].refunded = 0
    BY <1>1 DEF PoolInit, Empty
<1>5. Target(1, "cash") \in Int
    BY <1>1, PoolAssumption DEF Target
<1> QED
    BY <1>1, <1>3, <1>4, <1>5 DEF PoolInit, Covered

LEMMA StatusStep == PoolInv /\ StatusFits /\ [PoolNext]_poolVars => StatusFits'
<1> SUFFICES ASSUME PoolInv, StatusFits, [PoolNext]_poolVars PROVE StatusFits'
    OBVIOUS
<1>1. pool \in PoolRows /\ balance \in [Assets -> BucketRows]
    BY DEF PoolInv, PoolTypes
<1>2. ASSUME NEW v \in Accepted, RefreshPoolStatus(v) PROVE StatusFits'
  <2>1. pool'.version = v /\ pool'.status = IF pool.status = "CLOSED" THEN "CLOSED" ELSE IF Covered(v, balance') THEN "ACTIVE" ELSE "FUNDING"
      BY <1>2 DEF RefreshPoolStatus
  <2>2. Covered(v, balance)' <=> Covered(v, balance')
      BY DEF Covered, Target
  <2>3. StatusFits' <=> (pool'.status # "CLOSED" => (pool'.status = "ACTIVE" <=> Covered(v, balance')))
      BY <2>1 DEF StatusFits, Covered, Target
  <2> QED
      BY <2>1, <2>3
<1>3. ASSUME pool' = pool,
             \A a \in Assets : balance'[a].confirmed_deposit = balance[a].confirmed_deposit /\ balance'[a].refunded = balance[a].refunded
      PROVE  StatusFits'
    BY <1>3 DEF StatusFits, Covered, Target
<1>4. ASSUME pool' = pool, balance' = balance PROVE StatusFits'
    BY <1>3, <1>4
<1>5. CASE UNCHANGED poolVars
    BY <1>4, <1>5 DEF poolVars
<1>6. pool.version \in Accepted /\ (UpdatePoolTemplate => pool.version + 1 \in Accepted)
    BY <1>1, TemplateRows DEF UpdatePoolTemplate, PoolRows, Accepted
<1>7. CASE UpdatePoolTemplate
    BY <1>2, <1>6, <1>7 DEF UpdatePoolTemplate
<1>8. CASE ClosePool
  <2>1. pool'.status = "CLOSED"
      BY <1>1, <1>8 DEF ClosePool, PoolRows
  <2> QED
      BY <2>1 DEF StatusFits
<1>9. ASSUME NEW a \in Assets, CreatePoolFundingIntent(a) PROVE StatusFits'
    BY <1>4, <1>9 DEF CreatePoolFundingIntent, poolMoney
<1>10. ASSUME NEW a \in Assets, PoolDeposit(a) PROVE StatusFits'
    BY <1>2, <1>6, <1>10 DEF PoolDeposit
<1>11. ASSUME NEW a \in Assets, NEW n \in 1..balance[a].unallocated, RefundUnused(a, n) PROVE StatusFits'
    BY <1>2, <1>6, <1>11 DEF RefundUnused
<1>12. ASSUME NEW h \in PoolHires, OfferHire(h) \/ CancelKeepingRewards(h) \/ ApproveHire(h) PROVE StatusFits'
    BY <1>4, <1>12 DEF OfferHire, CancelKeepingRewards, ApproveHire, poolMoney
<1>13. ASSUME NEW h \in PoolHires, AllocateHire(h) PROVE StatusFits'
  <2>1. PICK moves : MoveBalance("ALLOCATE", moves)
      BY <1>13, Zenon DEF AllocateHire
  <2>2. pool' = pool
      BY <1>13 DEF AllocateHire
  <2> QED
      BY <1>1, <1>3, <2>1, <2>2, RewardsKeepCover
<1>14. ASSUME NEW h \in PoolHires, CancelHire(h) PROVE StatusFits'
    BY <1>2, <1>6, <1>14 DEF CancelHire, ReturnPoolAllocations
<1>15. ASSUME NEW h \in PoolHires, FulfillEntitlement(h) \/ ClaimEntitlement(h) PROVE StatusFits'
    BY <1>4, <1>15 DEF FulfillEntitlement, ClaimEntitlement, Entitle, poolMoney
<1>16. ASSUME NEW h \in PoolHires, SettlePoolOrder(h) PROVE StatusFits'
  <2>1. PICK moves : MoveBalance("RELEASE_START", moves)
      BY <1>16, Zenon DEF SettlePoolOrder
  <2>2. pool' = pool
      BY <1>16 DEF SettlePoolOrder
  <2> QED
      BY <1>1, <1>3, <2>1, <2>2, RewardsKeepCover
<1>17. ASSUME NEW a \in Assets, NEW paid \in BOOLEAN, NEW h \in PoolHires, RewardPaid(h, a, paid) PROVE StatusFits'
  <2>1. PICK movement \in {"RELEASE_DONE", "RELEASE_FAILED"} : \E moves : MoveBalance(movement, moves)
    <3> DEFINE movement == IF paid THEN "RELEASE_DONE" ELSE "RELEASE_FAILED"
               moves == {Move(a, allocation[h][a].amount, ReleaseRef(h, a, allocation[h][a].attempts))}
    <3>1. MoveBalance(movement, moves)
        BY <1>17, Zenon DEF RewardPaid
    <3>2. movement \in {"RELEASE_DONE", "RELEASE_FAILED"}
        OBVIOUS
    <3> HIDE DEF movement, moves
    <3> QED
        BY <3>1, <3>2
  <2>2. pool' = pool
      BY <1>17 DEF RewardPaid
  <2> QED
      BY <1>1, <1>3, <2>1, <2>2, RewardsKeepCover
<1>18. ASSUME NEW a \in Assets, NEW paid \in BOOLEAN, NEW k \in DOMAIN refund[a], PoolRefunded(a, k, paid) PROVE StatusFits'
    BY <1>2, <1>6, <1>18 DEF PoolRefunded
<1> QED
    BY <1>5, <1>7, <1>8, <1>9, <1>10, <1>11, <1>12, <1>13, <1>14, <1>15, <1>16, <1>17, <1>18 DEF PoolNext

\* Whatever order a pool's payouts confirm, fail and are retried in, for any number of hires and any templates: each
\* bucket holds what the rewards and refunds in its state add up to, a hire holds every reward its template requires and
\* is settled only when all of them are paid, the pool is ACTIVE exactly while its deposits cover every required asset,
\* and it closes only when no hire waits for it (moveBalance, allocateHire, settlePoolOrder, refreshPoolStatus,
\* close_campaign_pool).
THEOREM PoolsAreConserved == PoolSpec => []PoolConserved
<1>1. PoolInv /\ StatusFits => PoolConserved
  <2> SUFFICES ASSUME PoolInv, StatusFits PROVE PoolConserved
      OBVIOUS
  <2>1. ASSUME NEW h \in PoolHires
        PROVE  /\ pooled[h].status \in {"FUNDED", "APPROVED", "CANCELLED", "COMPLETED"} =>
                     /\ "cash" \in Templates[pooled[h].version].required /\ Templates[pooled[h].version].cash = pooled[h].cash
                     /\ \A a \in Templates[pooled[h].version].required :
                           /\ allocation[h][a].amount = Templates[pooled[h].version][a]
                           /\ allocation[h][a].state \in {"ACTIVE", "RELEASE_PENDING", "RELEASED"}
               /\ pooled[h].settlement = "RELEASED" =>
                     \A a \in Templates[pooled[h].version].required : allocation[h][a].state = "RELEASED"
               /\ pooled[h].status = "REFUNDED" => \A a \in Assets : allocation[h][a].state \in {"NONE", "CANCELLED"}
    <3>1. pooled[h] \in PooledRows /\ RewardsFit(pooled[h], allocation[h])
        BY HireRows
    <3>2. pooled[h].status \in {"FUNDED", "APPROVED", "CANCELLED", "COMPLETED"} =>
              /\ HoldsRewards(pooled[h], allocation[h]) /\ (pooled[h].settlement = "RELEASED" => Settled(allocation[h]))
              /\ \A a \in Assets : allocation[h][a].state \in {"NONE", "ACTIVE", "RELEASE_PENDING", "RELEASED"}
        BY <3>1 DEF RewardsFit
    <3>3. pooled[h].settlement = "RELEASED" => pooled[h].status \in {"FUNDED", "APPROVED", "CANCELLED", "COMPLETED"}
        BY <3>1 DEF RewardsFit, PooledRows
    <3>4. ASSUME HoldsRewards(pooled[h], allocation[h])
          PROVE  /\ "cash" \in Templates[pooled[h].version].required /\ Templates[pooled[h].version].required \subseteq Assets
                 /\ Templates[pooled[h].version].cash = pooled[h].cash
                 /\ \A a \in Templates[pooled[h].version].required :
                        allocation[h][a].required /\ allocation[h][a].amount = Templates[pooled[h].version][a] /\ allocation[h][a].state # "NONE"
      <4>1. Templates[pooled[h].version].required \subseteq Assets /\ "cash" \in Templates[pooled[h].version].required
          BY <3>4, AcceptedRows, TemplateRows DEF HoldsRewards
      <4>2. \A a \in Templates[pooled[h].version].required :
               allocation[h][a].required /\ allocation[h][a].amount = Templates[pooled[h].version][a] /\ allocation[h][a].state # "NONE"
          BY <3>4, <4>1, Zenon DEF HoldsRewards
      <4> QED
          BY <3>4, <4>1, <4>2 DEF HoldsRewards
    <3>5. ASSUME HoldsRewards(pooled[h], allocation[h]), Settled(allocation[h])
          PROVE  \A a \in Templates[pooled[h].version].required : allocation[h][a].state = "RELEASED"
        BY <3>4, <3>5, Zenon DEF Settled
    <3> QED
        BY <3>1, <3>2, <3>3, <3>4, <3>5 DEF RewardsFit
  <2>2. pool.status = "CLOSED" => \A h \in PoolHires : pooled[h].status \in {"NONE", "OFFERED", "REFUNDED"} \/ pooled[h].settlement = "RELEASED"
      BY DEF PoolInv, ClosedFits
  <2>3. \A a \in Assets :
            /\ balance[a].confirmed_deposit = funded[a] * PoolDeposits[a]
            /\ balance[a].confirmed_deposit = balance[a].unallocated + balance[a].allocated_active + balance[a].pending_outflow
                                              + balance[a].released + balance[a].refunded
            /\ balance[a].allocated_active = AllocatedIn(a, "ACTIVE")
            /\ balance[a].pending_outflow = AllocatedIn(a, "RELEASE_PENDING") + RefundsIn(a, "REFUND_PENDING")
            /\ balance[a].released = AllocatedIn(a, "RELEASED") /\ balance[a].refunded = RefundsIn(a, "REFUNDED")
      BY DEF PoolInv, AssetFits, BucketsFit
  <2> QED
      BY <2>1, <2>2, <2>3 DEF PoolConserved, StatusFits
<1> QED
    BY <1>1, PoolInitHolds, StatusInit, PoolNextKeeps, StatusStep, PTL DEF PoolSpec
=============================================================================
