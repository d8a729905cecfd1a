------------------------- MODULE CreditWalletProofs -------------------------
(***************************************************************************)
(* Proofs about CreditWallet and CreditWalletAdmin, for every bound, bonus *)
(* and set of amounts.                                                     *)
(*                                                                         *)
(* The difficulty is reserved_balance: a settlement writes                 *)
(* max(0, reserved_balance - amount), and the accounting is right only     *)
(* because the maximum never clips.  That needs reserved_balance to cover  *)
(* the amount of every ACTIVE reservation, hence to be their sum.          *)
(***************************************************************************)
EXTENDS CreditWalletAdmin, TLAPS, WellFoundedInduction

-----------------------------------------------------------------------------
(* Totals over the reservations *)

Less == {ss \in Nat \X Nat : ss[1] < ss[2]}

\* A property of numbers that fails somewhere fails somewhere first.
LEMMA LeastNumber ==
  ASSUME NEW S \in SUBSET Nat, S # {}
  PROVE  \E n \in S : \A m \in S : n <= m
<1>1. IsWellFoundedOn(Less, Nat)
  BY NatLessThanWellFounded, Zenon DEF OpToRel, Less
<1>2. PICK n \in S : \A m \in S : <<m, n>> \notin Less
  BY <1>1, WFMin, Zenon
<1>3. ASSUME NEW m \in S PROVE n <= m
  <2>1. m \in Nat /\ n \in Nat
    OBVIOUS
  <2>2. ~ m < n
    BY <1>2, <2>1 DEF Less
  <2> QED BY <2>1, <2>2
<1> QED BY <1>3

LEMMA LeastIndex ==
  ASSUME NEW S \in SUBSET (0..MaxReservations), S # {}
  PROVE  \E k \in S : \A m \in S : k <= m
<1>1. 0..MaxReservations \subseteq Nat
  BY BoundsAssumption
<1>2. S \in SUBSET Nat
  BY <1>1
<1> QED BY <1>2, LeastNumber

\* P holds the total of the first i entries of f, for each i up to k.
IsRunningTotal(P, f, k) ==
  P = [i \in 0..k |-> IF i = 0 THEN 0 ELSE P[i - 1] + f[i]]

\* Every function of the reservations has running totals: the first k that
\* had none could be given them from those of k - 1.
LEMMA RunningTotalsExist ==
  ASSUME NEW f
  PROVE  \E P : IsRunningTotal(P, f, MaxReservations)
<1> DEFINE S == {k \in Nat : ~ \E P : IsRunningTotal(P, f, k)}
<1> SUFFICES ASSUME S # {} PROVE FALSE
  BY BoundsAssumption
<1>1. PICK k \in S : \A m \in S : k <= m
  BY LeastNumber
<1>2. CASE k = 0
  <2>1. IsRunningTotal([i \in 0..0 |-> 0], f, 0)
    BY DEF IsRunningTotal
  <2> QED BY <1>2, <2>1
<1>3. CASE k # 0
  <2>1. k - 1 \in Nat /\ k \in Nat /\ k - 1 \notin S
    BY <1>1, <1>3
  <2>2. PICK P : IsRunningTotal(P, f, k - 1)
    BY <2>1
  <2> DEFINE Q == [i \in 0..k |-> IF i = k THEN P[k - 1] + f[k] ELSE P[i]]
  <2>3. ASSUME NEW i \in 0..k
        PROVE  Q[i] = IF i = 0 THEN 0 ELSE Q[i - 1] + f[i]
    <3>1. CASE i = k
      BY <2>1, <3>1, <1>3
    <3>2. CASE i # k
      <4>1. P[i] = IF i = 0 THEN 0 ELSE P[i - 1] + f[i]
        BY <2>1, <2>2, <3>2 DEF IsRunningTotal
      <4> QED BY <2>1, <3>2, <4>1
    <3> QED BY <3>1, <3>2
  <2>4. IsRunningTotal(Q, f, k)
    BY <2>3 DEF IsRunningTotal
  <2> QED BY <2>4
<1> QED BY <1>2, <1>3

\* Total(f) is the last of the running totals.
LEMMA TotalIsRunningTotal ==
  ASSUME NEW f
  PROVE  \E P : /\ IsRunningTotal(P, f, MaxReservations)
                /\ Total(f) = P[MaxReservations]
<1> DEFINE P == CHOOSE P : IsRunningTotal(P, f, MaxReservations)
<1>1. IsRunningTotal(P, f, MaxReservations)
  BY RunningTotalsExist
<1>2. Total(f) = P[MaxReservations]
  BY DEF Total, IsRunningTotal
<1> QED BY <1>1, <1>2

\* Running totals of integers are integers.
LEMMA RunningTotalsAreIntegers ==
  ASSUME NEW f \in [ReservationIds -> Int], NEW P,
         IsRunningTotal(P, f, MaxReservations)
  PROVE  P \in [0..MaxReservations -> Int]
<1> DEFINE S == {k \in 0..MaxReservations : P[k] \notin Int}
<1> SUFFICES ASSUME S # {} PROVE FALSE
  BY DEF IsRunningTotal
<1>1. PICK k \in S : \A m \in S : k <= m
  BY LeastIndex
<1>2. P[k] = IF k = 0 THEN 0 ELSE P[k - 1] + f[k]
  BY DEF IsRunningTotal
<1>3. k # 0
  BY <1>2
<1>4. k - 1 \in 0..MaxReservations /\ k - 1 \notin S /\ k \in ReservationIds
  BY <1>1, <1>3, BoundsAssumption DEF ReservationIds
<1>5. P[k - 1] \in Int /\ f[k] \in Int
  BY <1>4
<1> QED BY <1>2, <1>3, <1>5

\* Functions that differ by d at r, and nowhere else, have totals that differ
\* by d: the running totals differ by d from r onwards, and not before.
LEMMA TotalShifts ==
  ASSUME NEW f \in [ReservationIds -> Int], NEW g \in [ReservationIds -> Int],
         NEW r \in ReservationIds, NEW d \in Int, g[r] = f[r] + d,
         \A q \in ReservationIds \ {r} : g[q] = f[q]
  PROVE  Total(g) = Total(f) + d
<1> USE BoundsAssumption DEF ReservationIds
<1>1. PICK P : IsRunningTotal(P, f, MaxReservations) /\ Total(f) = P[MaxReservations]
  BY TotalIsRunningTotal
<1>2. PICK Q : IsRunningTotal(Q, g, MaxReservations) /\ Total(g) = Q[MaxReservations]
  BY TotalIsRunningTotal
<1>3. P \in [0..MaxReservations -> Int] /\ Q \in [0..MaxReservations -> Int]
  BY <1>1, <1>2, RunningTotalsAreIntegers DEF ReservationIds
<1> DEFINE S == {k \in 0..MaxReservations : Q[k] # IF k < r THEN P[k] ELSE P[k] + d}
<1>4. SUFFICES ASSUME S # {} PROVE FALSE
  BY <1>1, <1>2
<1>5. PICK k \in S : \A m \in S : k <= m
  BY <1>4, LeastIndex
<1>6. /\ P[k] = IF k = 0 THEN 0 ELSE P[k - 1] + f[k]
      /\ Q[k] = IF k = 0 THEN 0 ELSE Q[k - 1] + g[k]
  BY <1>1, <1>2 DEF IsRunningTotal
<1>7. CASE k = 0
  BY <1>6, <1>7
<1>8. CASE k # 0
  <2>1. k - 1 \in 0..MaxReservations /\ k - 1 \notin S /\ k \in ReservationIds
    BY <1>5, <1>8
  <2>2. /\ P[k - 1] \in Int /\ f[k] \in Int /\ g[k] \in Int
        /\ Q[k - 1] = IF k - 1 < r THEN P[k - 1] ELSE P[k - 1] + d
    BY <1>3, <2>1
  <2>3. CASE k < r
    BY <1>6, <1>8, <2>1, <2>2, <2>3
  <2>4. CASE k = r
    BY <1>6, <1>8, <2>1, <2>2, <2>4
  <2>5. CASE k > r
    BY <1>6, <1>8, <2>1, <2>2, <2>5
  <2> QED BY <2>3, <2>4, <2>5
<1> QED BY <1>7, <1>8

\* The total of natural numbers covers each of them.
LEMMA TotalCovers ==
  ASSUME NEW f \in [ReservationIds -> Nat]
  PROVE  /\ Total(f) \in Nat
         /\ \A r \in ReservationIds : f[r] <= Total(f)
<1> USE BoundsAssumption DEF ReservationIds
<1>1. PICK P : IsRunningTotal(P, f, MaxReservations) /\ Total(f) = P[MaxReservations]
  BY TotalIsRunningTotal
<1>2. P \in [0..MaxReservations -> Int]
  BY <1>1, RunningTotalsAreIntegers DEF ReservationIds
<1> DEFINE S == {k \in 0..MaxReservations :
                   ~ (P[k] >= 0 /\ \A r \in 1..k : f[r] <= P[k])}
<1>3. SUFFICES ASSUME S # {} PROVE FALSE
  BY <1>1, <1>2
<1>4. PICK k \in S : \A m \in S : k <= m
  BY <1>3, LeastIndex
<1>5. P[k] = IF k = 0 THEN 0 ELSE P[k - 1] + f[k]
  BY <1>1 DEF IsRunningTotal
<1>6. k # 0
  BY <1>5
<1>7. k - 1 \in 0..MaxReservations /\ k - 1 \notin S /\ k \in ReservationIds
  BY <1>4, <1>6
<1>8. /\ P[k - 1] \in Int /\ P[k - 1] >= 0 /\ f[k] \in Nat
      /\ \A r \in 1..(k - 1) : f[r] <= P[k - 1]
  BY <1>2, <1>7
<1>9. ASSUME NEW r \in 1..k PROVE f[r] <= P[k]
  <2>1. CASE r = k
    BY <1>5, <1>6, <1>8, <2>1
  <2>2. CASE r # k
    <3>1. f[r] <= P[k - 1] /\ f[r] \in Nat
      BY <1>7, <1>8, <2>2
    <3> QED BY <1>5, <1>6, <1>8, <3>1
  <2> QED BY <2>1, <2>2
<1> QED BY <1>5, <1>6, <1>8, <1>9

\* Nothing adds up to nothing.
LEMMA TotalOfZeros == Total([r \in ReservationIds |-> 0]) = 0
<1> USE BoundsAssumption DEF ReservationIds
<1> DEFINE f == [r \in ReservationIds |-> 0]
<1>1. PICK P : IsRunningTotal(P, f, MaxReservations) /\ Total(f) = P[MaxReservations]
  BY TotalIsRunningTotal
<1> DEFINE S == {k \in 0..MaxReservations : P[k] # 0}
<1>2. SUFFICES ASSUME S # {} PROVE FALSE
  BY <1>1
<1>3. PICK k \in S : \A m \in S : k <= m
  BY <1>2, LeastIndex
<1>4. P[k] = IF k = 0 THEN 0 ELSE P[k - 1] + f[k]
  BY <1>1 DEF IsRunningTotal
<1>5. k # 0
  BY <1>4
<1>6. k - 1 \in 0..MaxReservations /\ k - 1 \notin S /\ f[k] = 0
  BY <1>3, <1>5
<1> QED BY <1>4, <1>5, <1>6

-----------------------------------------------------------------------------
(* Types *)

\* The custody of the reservations, and what was captured of each.
Held     == [r \in ReservationIds |-> InStatus(r, "ACTIVE")]
Stranded == [r \in ReservationIds |-> InStatus(r, "ACTIVE") + InStatus(r, "CANCELLED")]
Captured == [r \in ReservationIds |-> reservations[r].captured]

LEMMA AmountsAreNumbers ==
  ASSUME TypeOK
  PROVE  /\ Held \in [ReservationIds -> Nat]
         /\ Stranded \in [ReservationIds -> Nat]
         /\ Captured \in [ReservationIds -> Nat]
         /\ \A r \in ReservationIds : reservations[r].amount \in Nat
<1>1. ASSUME NEW r \in ReservationIds
      PROVE  reservations[r].amount \in Nat /\ reservations[r].captured \in Nat
  BY DEF TypeOK, CreditReservation
<1> QED BY <1>1 DEF Held, Stranded, Captured, InStatus

\* Writing both amounts of a wallet row leaves a wallet row.
LEMMA RowUpdate ==
  ASSUME wallet \in CreditWalletRow, NEW b \in Int, NEW c \in Int
  PROVE  /\ [wallet EXCEPT !.balance = b, !.reserved_balance = c] \in CreditWalletRow
         /\ [wallet EXCEPT !.balance = b] \in CreditWalletRow
BY DEF CreditWalletRow

\* What a hold writes, column by column.
LEMMA HoldWrites ==
  ASSUME TypeOK, NEW r \in ReservationIds, NEW amount \in Int, hold_credits(r, amount)
  PROVE  /\ amount \in Nat /\ amount > 0 /\ Charged(amount) \in Nat
         /\ reservations[r].status = "NONE"
         /\ reservations'[r] = [status |-> "ACTIVE", amount |-> amount,
                                captured |-> 0, released |-> 0]
         /\ \A q \in ReservationIds \ {r} : reservations'[q] = reservations[q]
         /\ wallet'.balance = wallet.balance - Charged(amount)
         /\ wallet'.reserved_balance = wallet.reserved_balance + amount
         /\ wallet'.is_unlimited = wallet.is_unlimited
         /\ wallet'.exists
         /\ wallet.is_unlimited \/ wallet.balance >= amount
         /\ newest' = wallet'.balance
         /\ ledger' = [ledger EXCEPT !["HOLD"] = @ - Charged(amount)]
<1> USE DEF hold_credits
<1>1. amount \in Nat /\ Charged(amount) \in Nat
  BY DEF Charged
<1>2. wallet \in CreditWalletRow /\ reservations \in [ReservationIds -> CreditReservation]
  BY DEF TypeOK
<1>3. /\ wallet'.balance = wallet.balance - Charged(amount)
      /\ wallet'.reserved_balance = wallet.reserved_balance + amount
      /\ wallet'.is_unlimited = wallet.is_unlimited
      /\ wallet'.exists
  BY <1>2 DEF CreditWalletRow
<1> QED BY <1>1, <1>2, <1>3 DEF Fresh

\* What a settlement writes, once the maxima of the code are known not to
\* clip: the whole amount leaves custody, split into capture and refund.
LEMMA SettlementSplits ==
  ASSUME TypeOK, NEW r \in ReservationIds, NEW actual \in Int,
         capture_and_release(r, actual),
         reservations[r].amount <= wallet.reserved_balance
  PROVE  \E capture_val, release_val \in Nat :
           /\ capture_val + release_val = reservations[r].amount
           /\ reservations[r].status = "ACTIVE"
           /\ wallet'.balance = wallet.balance + Charged(release_val)
           /\ wallet'.reserved_balance = wallet.reserved_balance - reservations[r].amount
           /\ wallet'.is_unlimited = wallet.is_unlimited
           /\ wallet'.exists = wallet.exists
           /\ reservations'[r] = [status |-> "SETTLED", amount |-> reservations[r].amount,
                                  captured |-> capture_val, released |-> release_val]
           /\ \A q \in ReservationIds \ {r} : reservations'[q] = reservations[q]
           /\ ledger' = [ledger EXCEPT !["CAPTURE"] = @ - Charged(capture_val),
                                       !["RELEASE"] = @ + Charged(release_val)]
           /\ newest' = wallet'.balance
<1> DEFINE reserved == reservations[r].amount
           capture_val == Minimum(actual, reserved)
           release_val == Maximum(0, reserved - capture_val)
<1>1. reserved \in Nat /\ wallet \in CreditWalletRow
  BY AmountsAreNumbers DEF TypeOK
<1>2. actual >= 0 /\ reservations[r].status = "ACTIVE"
  BY DEF capture_and_release, Active
<1>3. capture_val \in Nat /\ release_val \in Nat /\ capture_val + release_val = reserved
  BY <1>1, <1>2 DEF Minimum, Maximum
<1>4. Maximum(0, wallet.reserved_balance - reserved) = wallet.reserved_balance - reserved
  BY <1>1 DEF Maximum, CreditWalletRow
<1>5. /\ wallet' = [wallet EXCEPT
                      !.balance = wallet.balance + Charged(release_val),
                      !.reserved_balance = wallet.reserved_balance - reserved]
      /\ reservations' = [reservations EXCEPT ![r].status = "SETTLED",
                                              ![r].captured = capture_val,
                                              ![r].released = release_val]
      /\ ledger' = [ledger EXCEPT !["CAPTURE"] = @ - Charged(capture_val),
                                  !["RELEASE"] = @ + Charged(release_val)]
      /\ newest' = wallet.balance + Charged(release_val)
  BY <1>4 DEF capture_and_release, Settle
<1>6. /\ wallet'.balance = wallet.balance + Charged(release_val)
      /\ wallet'.reserved_balance = wallet.reserved_balance - reserved
      /\ wallet'.is_unlimited = wallet.is_unlimited
      /\ wallet'.exists = wallet.exists
  BY <1>1, <1>5 DEF CreditWalletRow
<1>7. /\ reservations'[r] = [status |-> "SETTLED", amount |-> reserved,
                             captured |-> capture_val, released |-> release_val]
      /\ \A q \in ReservationIds \ {r} : reservations'[q] = reservations[q]
  BY ZenonT(60), <1>5 DEF TypeOK, CreditReservation
<1> QED BY <1>2, <1>3, <1>5, <1>6, <1>7

\* Every operation keeps the types; no other part of the invariants is needed
\* for that.
LEMMA TypeStep == TypeOK /\ [Next]_vars => TypeOK'
<1> SUFFICES ASSUME TypeOK, [Next]_vars PROVE TypeOK'
  OBVIOUS
<1>0. wallet \in CreditWalletRow /\ ledger \in [TransactionTypes -> Int]
  BY DEF TypeOK
<1>1. ASSUME NEW is_internal \in TenantKinds, get_or_create_wallet(is_internal)
      PROVE  TypeOK'
  <2>1. is_internal \in BOOLEAN /\ (IF is_internal THEN 0 ELSE INITIAL_CREDIT_BONUS) \in Nat
    BY AmountsAssumption
  <2> QED BY <1>1, <2>1 DEF get_or_create_wallet, TypeOK, CreditWalletRow, TransactionTypes
<1>2. ASSUME NEW initial \in InitialCredits, ProvisionTenant(initial)
      PROVE  TypeOK'
  BY <1>2, AmountsAssumption DEF ProvisionTenant, TypeOK, CreditWalletRow, TransactionTypes
<1>3. ASSUME NEW amount \in Amounts, deposit_credits(amount)
      PROVE  TypeOK'
  BY <1>3, AmountsAssumption DEF deposit_credits, TypeOK, CreditWalletRow, TransactionTypes
<1>4. ASSUME NEW r \in ReservationIds, NEW amount \in Amounts, hold_credits(r, amount)
      PROVE  TypeOK'
  <2>1. amount \in Nat /\ Charged(amount) \in Nat
    BY <1>4, AmountsAssumption, HoldWrites
  <2>2. /\ wallet.balance - Charged(amount) \in Int
        /\ wallet.reserved_balance + amount \in Int
    BY <1>0, <2>1 DEF CreditWalletRow
  <2>3. wallet' \in CreditWalletRow
    BY <1>0, <1>4, <2>2, RowUpdate DEF hold_credits
  <2>4. ledger' \in [TransactionTypes -> Int] /\ newest' \in Int
    BY <1>0, <1>4, <2>1, <2>2 DEF hold_credits, TransactionTypes
  <2>5. reservations' \in [ReservationIds -> CreditReservation]
    BY <1>4, <2>1 DEF hold_credits, TypeOK, CreditReservation, Statuses
  <2> QED BY <2>3, <2>4, <2>5 DEF TypeOK
<1>5. ASSUME NEW r \in ReservationIds, NEW actual \in Amounts,
             capture_and_release(r, actual)
      PROVE  TypeOK'
  <2> DEFINE reserved == reservations[r].amount
             capture_val == Minimum(actual, reserved)
             release_val == Maximum(0, reserved - capture_val)
  <2>1. reserved \in Nat /\ actual \in Nat
    BY <1>5, AmountsAssumption, AmountsAreNumbers DEF capture_and_release
  <2>2. /\ capture_val \in Nat /\ release_val \in Nat
        /\ Charged(capture_val) \in Nat /\ Charged(release_val) \in Nat
    BY <2>1 DEF Minimum, Maximum, Charged
  <2>3. /\ wallet.balance + Charged(release_val) \in Int
        /\ Maximum(0, wallet.reserved_balance - reserved) \in Int
    BY <1>0, <2>1, <2>2 DEF CreditWalletRow, Maximum
  <2> HIDE DEF reserved, capture_val, release_val
  <2>4. Settle(r, capture_val, release_val)
    BY <1>5 DEF capture_and_release, reserved, capture_val, release_val
  <2>5. wallet' \in CreditWalletRow
    BY <1>0, <2>3, <2>4, RowUpdate DEF Settle, reserved
  <2>6. ledger' \in [TransactionTypes -> Int] /\ newest' \in Int
    BY <1>0, <2>2, <2>3, <2>4 DEF Settle, TransactionTypes
  <2>7. reservations' \in [ReservationIds -> CreditReservation]
    <3>1. \A row \in CreditReservation :
            [row EXCEPT !.status = "SETTLED", !.captured = capture_val,
                        !.released = release_val] \in CreditReservation
      BY <2>2 DEF CreditReservation, Statuses
    <3>2. reservations \in [ReservationIds -> CreditReservation]
      BY DEF TypeOK
    <3>3. reservations' = [reservations EXCEPT ![r] =
            [@ EXCEPT !.status = "SETTLED", !.captured = capture_val,
                      !.released = release_val]]
      BY Zenon, <2>4 DEF Settle
    <3> QED BY <3>1, <3>2, <3>3
  <2> QED BY <2>5, <2>6, <2>7 DEF TypeOK
<1>6. CASE UNCHANGED vars
  BY <1>6 DEF vars, TypeOK
<1> QED BY <1>1, <1>2, <1>3, <1>4, <1>5, <1>6 DEF Next

-----------------------------------------------------------------------------
(* The inductive invariant of the wallet *)

\* Nothing is recorded of a wallet before it exists.
Unopened ==
  ~wallet.exists =>
    /\ wallet.balance = 0
    /\ wallet.reserved_balance = 0
    /\ ~wallet.is_unlimited

\* Only a settlement captures anything.
CapturedWhenSettled ==
  \A r \in ReservationIds :
    reservations[r].status # "SETTLED" => reservations[r].captured = 0

IInv ==
  /\ TypeOK
  /\ ReservedIsSumOfActive
  /\ ChargesMatchSettlements
  /\ CapturedWhenSettled
  /\ FundsNonNegative
  /\ LedgerReproducesBalance
  /\ LedgerReproducesCustody
  /\ StatementShowsBalance
  /\ Unopened

\* reserved_balance covers every ACTIVE reservation.
LEMMA CustodyCoversHeld ==
  ASSUME TypeOK, ReservedIsSumOfActive, NEW r \in ReservationIds,
         reservations[r].status = "ACTIVE"
  PROVE  reservations[r].amount <= wallet.reserved_balance
<1>1. Held \in [ReservationIds -> Nat]
  BY AmountsAreNumbers
<1>2. Held[r] <= Total(Held) /\ wallet.reserved_balance = Total(Held)
  BY <1>1, TotalCovers DEF ReservedIsSumOfActive, Held
<1>3. Held[r] = reservations[r].amount
  BY DEF Held, InStatus
<1> QED BY <1>2, <1>3

\* Before the wallet exists everything is zero, and so are the totals.
LEMMA InitEstablishes == Init => IInv
<1> SUFFICES ASSUME Init PROVE IInv
  OBVIOUS
<1> USE DEF Init
<1>1. TypeOK
  BY DEF TypeOK, CreditWalletRow, CreditReservation, NoReservation, Statuses
<1>2. /\ [r \in ReservationIds |-> InStatus(r, "ACTIVE")] = [r \in ReservationIds |-> 0]
      /\ [r \in ReservationIds |-> reservations[r].captured] = [r \in ReservationIds |-> 0]
  BY DEF InStatus, NoReservation
<1>3. ledger["CAPTURE"] = 0
  BY DEF TransactionTypes
<1>4. ReservedIsSumOfActive
  BY <1>2, TotalOfZeros DEF ReservedIsSumOfActive
<1>5. ChargesMatchSettlements
  <2>1. 0 - ledger["CAPTURE"] = Total([r \in ReservationIds |-> reservations[r].captured])
    BY <1>2, <1>3, TotalOfZeros
  <2> QED BY <2>1 DEF ChargesMatchSettlements, NoReservation
<1>6. FundsNonNegative /\ LedgerReproducesBalance /\ LedgerReproducesCustody
        /\ StatementShowsBalance
  BY DEF FundsNonNegative, LedgerReproducesBalance, LedgerReproducesCustody,
         StatementShowsBalance, TransactionTypes
<1>7. Unopened /\ CapturedWhenSettled
  BY DEF Unopened, CapturedWhenSettled, NoReservation
<1> QED BY <1>1, <1>4, <1>5, <1>6, <1>7 DEF IInv

\* A step that leaves reservations, custody and captures alone keeps the
\* totals.
LEMMA SameTotals ==
  ASSUME ReservedIsSumOfActive, CapturedWhenSettled, UNCHANGED reservations,
         wallet'.reserved_balance = wallet.reserved_balance
  PROVE  ReservedIsSumOfActive' /\ CapturedWhenSettled'
BY DEF ReservedIsSumOfActive, CapturedWhenSettled, InStatus

LEMMA SameCharges ==
  ASSUME ChargesMatchSettlements, UNCHANGED reservations,
         wallet'.is_unlimited \/ ~wallet.is_unlimited,
         ledger'["CAPTURE"] = ledger["CAPTURE"]
  PROVE  ChargesMatchSettlements'
<1>1. ASSUME ~wallet.is_unlimited
      PROVE  0 - ledger'["CAPTURE"] = Total([r \in ReservationIds |-> reservations'[r].captured])
  BY <1>1 DEF ChargesMatchSettlements
<1> QED BY <1>1 DEF ChargesMatchSettlements

\* The two ways a wallet is created write the same row and the same entry.
LEMMA CreateStep ==
  ASSUME IInv, NEW initial \in Nat, NEW kind \in BOOLEAN,
         ~wallet.exists,
         wallet' = [exists |-> TRUE, balance |-> initial,
                    reserved_balance |-> 0, is_unlimited |-> kind],
         ledger' = [ledger EXCEPT !["BONUS"] = @ + initial],
         newest' = initial,
         UNCHANGED reservations,
         TypeOK'
  PROVE  IInv'
<1>0. wallet.balance = 0 /\ wallet.reserved_balance = 0 /\ ~wallet.is_unlimited
  BY DEF IInv, Unopened
<1>1. ReservedIsSumOfActive' /\ CapturedWhenSettled'
  BY <1>0, SameTotals DEF IInv
<1>2. ChargesMatchSettlements'
  BY <1>0, SameCharges DEF IInv, TypeOK, TransactionTypes
<1>3. FundsNonNegative' /\ StatementShowsBalance' /\ Unopened'
  BY DEF FundsNonNegative, StatementShowsBalance, Unopened
<1>4. LedgerReproducesBalance' /\ LedgerReproducesCustody'
  BY <1>0 DEF IInv, TypeOK, LedgerReproducesBalance, LedgerReproducesCustody,
              TransactionTypes
<1> QED BY <1>1, <1>2, <1>3, <1>4 DEF IInv

\* A deposit moves balance and ledger together and leaves custody alone.
LEMMA DepositStep ==
  ASSUME IInv, NEW amount \in Int, deposit_credits(amount), TypeOK'
  PROVE  IInv'
<1> USE DEF deposit_credits, IInv
<1>1. wallet'.reserved_balance = wallet.reserved_balance
        /\ wallet'.is_unlimited = wallet.is_unlimited
        /\ ledger'["CAPTURE"] = ledger["CAPTURE"]
  BY DEF TypeOK, CreditWalletRow, TransactionTypes
<1>2. ReservedIsSumOfActive' /\ CapturedWhenSettled'
  BY <1>1, SameTotals
<1>3. ChargesMatchSettlements'
  BY <1>1, SameCharges DEF TypeOK, CreditWalletRow
<1>4. FundsNonNegative' /\ StatementShowsBalance' /\ Unopened'
  BY DEF TypeOK, CreditWalletRow, FundsNonNegative, StatementShowsBalance, Unopened
<1>5. LedgerReproducesBalance' /\ LedgerReproducesCustody'
  BY DEF TypeOK, CreditWalletRow, TransactionTypes,
         LedgerReproducesBalance, LedgerReproducesCustody
<1> QED BY <1>2, <1>3, <1>4, <1>5

\* A hold opens one reservation: its amount moves from balance to custody,
\* free of charge when the wallet is unlimited.
LEMMA HoldStep ==
  ASSUME IInv, NEW r \in ReservationIds, NEW amount \in Int,
         hold_credits(r, amount), TypeOK'
  PROVE  IInv'
<1> USE DEF IInv
<1>1. /\ amount \in Nat /\ amount > 0 /\ Charged(amount) \in Nat
      /\ reservations[r].status = "NONE"
      /\ reservations'[r] = [status |-> "ACTIVE", amount |-> amount,
                             captured |-> 0, released |-> 0]
      /\ \A q \in ReservationIds \ {r} : reservations'[q] = reservations[q]
      /\ wallet'.balance = wallet.balance - Charged(amount)
      /\ wallet'.reserved_balance = wallet.reserved_balance + amount
      /\ wallet'.is_unlimited = wallet.is_unlimited
      /\ wallet'.exists
      /\ wallet.is_unlimited \/ wallet.balance >= amount
      /\ newest' = wallet'.balance
      /\ ledger' = [ledger EXCEPT !["HOLD"] = @ - Charged(amount)]
  BY HoldWrites
<1>2. /\ wallet.balance \in Int /\ wallet.reserved_balance \in Int
      /\ \A t \in TransactionTypes : ledger[t] \in Int
  BY DEF TypeOK, CreditWalletRow
<1>3. ReservedIsSumOfActive'
  <2>1. Held \in [ReservationIds -> Int] /\ Held' \in [ReservationIds -> Int]
    BY AmountsAreNumbers DEF TypeOK, Held, InStatus, CreditReservation
  <2>2. Held'[r] = Held[r] + amount /\ \A q \in ReservationIds \ {r} : Held'[q] = Held[q]
    BY <1>1 DEF Held, InStatus
  <2>3. Total(Held') = Total(Held) + amount
    BY <1>1, <2>1, <2>2, TotalShifts
  <2> QED BY <1>1, <1>2, <2>3 DEF ReservedIsSumOfActive, Held, Total
<1>4. CapturedWhenSettled'
  BY <1>1 DEF CapturedWhenSettled
<1>5. ChargesMatchSettlements'
  <2>1. Captured' = Captured
    BY <1>1 DEF Captured, CapturedWhenSettled
  <2>2. ledger'["CAPTURE"] = ledger["CAPTURE"]
    BY <1>1 DEF TypeOK, TransactionTypes
  <2>3. wallet.is_unlimited \/ 0 - ledger'["CAPTURE"] = Total(Captured')
    BY <2>1, <2>2 DEF ChargesMatchSettlements, Captured
  <2>4. \A q \in ReservationIds :
          reservations'[q].status = "SETTLED" =>
            reservations'[q].captured + reservations'[q].released = reservations'[q].amount
    BY <1>1 DEF ChargesMatchSettlements
  <2> QED BY <1>1, <2>3, <2>4 DEF ChargesMatchSettlements, Captured, Total
<1>6. FundsNonNegative' /\ StatementShowsBalance' /\ Unopened'
  BY <1>1, <1>2 DEF FundsNonNegative, StatementShowsBalance, Unopened, Charged
<1>7. LedgerReproducesBalance' /\ LedgerReproducesCustody'
  BY <1>1, <1>2 DEF TypeOK, TransactionTypes, Charged,
                    LedgerReproducesBalance, LedgerReproducesCustody
<1> QED BY <1>3, <1>4, <1>5, <1>6, <1>7

\* A settlement closes one reservation and keeps every part of IInv.
LEMMA SettleStep ==
  ASSUME IInv, NEW r \in ReservationIds, NEW actual \in Int,
         capture_and_release(r, actual), TypeOK'
  PROVE  IInv'
<1> DEFINE reserved == reservations[r].amount
<1> USE DEF IInv
<1>0. reserved \in Nat /\ reserved <= wallet.reserved_balance
  BY CustodyCoversHeld, AmountsAreNumbers DEF capture_and_release, Active
<1>1. PICK capture_val \in Nat, release_val \in Nat :
           /\ capture_val + release_val = reserved
           /\ reservations[r].status = "ACTIVE"
           /\ wallet'.balance = wallet.balance + Charged(release_val)
           /\ wallet'.reserved_balance = wallet.reserved_balance - reserved
           /\ wallet'.is_unlimited = wallet.is_unlimited
           /\ wallet'.exists = wallet.exists
           /\ reservations'[r] = [status |-> "SETTLED", amount |-> reserved,
                                  captured |-> capture_val, released |-> release_val]
           /\ \A q \in ReservationIds \ {r} : reservations'[q] = reservations[q]
           /\ ledger' = [ledger EXCEPT !["CAPTURE"] = @ - Charged(capture_val),
                                       !["RELEASE"] = @ + Charged(release_val)]
           /\ newest' = wallet'.balance
  BY <1>0, SettlementSplits
<1>2. Charged(capture_val) \in Nat /\ Charged(release_val) \in Nat
  BY DEF Charged
<1>3. /\ wallet.balance \in Int /\ wallet.reserved_balance \in Int
      /\ \A t \in TransactionTypes : ledger[t] \in Int
  BY DEF TypeOK, CreditWalletRow
<1>4. ReservedIsSumOfActive'
  <2>1. Held \in [ReservationIds -> Int] /\ Held' \in [ReservationIds -> Int]
    BY AmountsAreNumbers DEF TypeOK, Held, InStatus, CreditReservation
  <2>2. /\ Held'[r] = Held[r] + (-reserved)
        /\ \A q \in ReservationIds \ {r} : Held'[q] = Held[q]
    BY <1>0, <1>1 DEF Held, InStatus
  <2>3. Total(Held') = Total(Held) + (-reserved)
    BY <1>0, <2>1, <2>2, TotalShifts
  <2> QED BY <1>0, <1>1, <1>3, <2>3 DEF ReservedIsSumOfActive, Held, Total
<1>5. CapturedWhenSettled'
  BY <1>1 DEF CapturedWhenSettled
<1>6. ledger'["CAPTURE"] = ledger["CAPTURE"] - Charged(capture_val)
        /\ ledger'["RELEASE"] = ledger["RELEASE"] + Charged(release_val)
        /\ ledger'["HOLD"] = ledger["HOLD"]
        /\ ledger'["BONUS"] = ledger["BONUS"]
        /\ ledger'["DEPOSIT"] = ledger["DEPOSIT"]
  BY <1>1 DEF TypeOK, TransactionTypes
<1>7. ChargesMatchSettlements'
  <2>1. Captured \in [ReservationIds -> Int] /\ Captured' \in [ReservationIds -> Int]
    BY AmountsAreNumbers DEF TypeOK, Captured, CreditReservation
  <2>2. /\ Captured'[r] = Captured[r] + capture_val
        /\ \A q \in ReservationIds \ {r} : Captured'[q] = Captured[q]
    BY <1>1 DEF Captured, CapturedWhenSettled
  <2>3. Total(Captured') = Total(Captured) + capture_val
    BY <2>1, <2>2, TotalShifts
  <2>4. ASSUME ~wallet.is_unlimited
        PROVE  0 - ledger'["CAPTURE"] = Total(Captured')
    <3>1. 0 - ledger["CAPTURE"] = Total(Captured) /\ ledger["CAPTURE"] \in Int
      BY <1>3, <2>4 DEF ChargesMatchSettlements, Captured, TransactionTypes
    <3>2. Charged(capture_val) = capture_val
      BY <2>4 DEF Charged
    <3> QED BY <1>6, <2>3, <3>1, <3>2
  <2>5. \A q \in ReservationIds :
          reservations'[q].status = "SETTLED" =>
            reservations'[q].captured + reservations'[q].released = reservations'[q].amount
    BY <1>1 DEF ChargesMatchSettlements
  <2> QED BY <1>1, <2>4, <2>5 DEF ChargesMatchSettlements, Captured, Total
<1>8. FundsNonNegative' /\ StatementShowsBalance'
  BY <1>0, <1>1, <1>2, <1>3 DEF FundsNonNegative, StatementShowsBalance
<1>9. Unopened'
  <2>1. ASSUME ~wallet.exists PROVE release_val = 0 /\ reserved = 0
    BY <1>0, <1>1, <2>1 DEF Unopened
  <2> QED BY <1>1, <1>3, <2>1 DEF Unopened, Charged
<1>10. LedgerReproducesBalance' /\ LedgerReproducesCustody'
  BY <1>0, <1>1, <1>2, <1>3, <1>6
     DEF LedgerReproducesBalance, LedgerReproducesCustody, Charged, TransactionTypes
<1> QED BY <1>4, <1>5, <1>7, <1>8, <1>9, <1>10

\* Every operation keeps IInv.
LEMMA NextStep == IInv /\ [Next]_vars => IInv'
<1> SUFFICES ASSUME IInv, [Next]_vars PROVE IInv'
  OBVIOUS
<1>0. TypeOK'
  BY TypeStep DEF IInv
<1>1. ASSUME NEW is_internal \in TenantKinds, get_or_create_wallet(is_internal)
      PROVE  IInv'
  <2>1. is_internal \in BOOLEAN
    BY AmountsAssumption
  <2>2. (IF is_internal THEN 0 ELSE INITIAL_CREDIT_BONUS) \in Nat
    BY AmountsAssumption
  <2> QED BY <1>0, <1>1, <2>1, <2>2, CreateStep DEF get_or_create_wallet
<1>2. ASSUME NEW initial \in InitialCredits, ProvisionTenant(initial)
      PROVE  IInv'
  <2>1. initial \in Nat
    BY <1>2, AmountsAssumption DEF ProvisionTenant
  <2> QED BY <1>0, <1>2, <2>1, CreateStep DEF ProvisionTenant
<1>3. ASSUME NEW amount \in Amounts, deposit_credits(amount)
      PROVE  IInv'
  BY <1>0, <1>3, AmountsAssumption, DepositStep
<1>4. ASSUME NEW r \in ReservationIds, NEW amount \in Amounts, hold_credits(r, amount)
      PROVE  IInv'
  BY <1>0, <1>4, AmountsAssumption, HoldStep
<1>5. ASSUME NEW r \in ReservationIds, NEW actual \in Amounts,
             capture_and_release(r, actual)
      PROVE  IInv'
  BY <1>0, <1>5, AmountsAssumption, SettleStep
<1>6. CASE UNCHANGED vars
  <2>1. ReservedIsSumOfActive' /\ CapturedWhenSettled'
    BY <1>6, SameTotals DEF IInv, vars
  <2>2. ChargesMatchSettlements'
    BY <1>6, SameCharges DEF IInv, vars, TypeOK, CreditWalletRow
  <2> QED BY <1>0, <1>6, <2>1, <2>2
          DEF IInv, vars, FundsNonNegative, LedgerReproducesBalance,
              LedgerReproducesCustody, StatementShowsBalance, Unopened
<1> QED BY <1>1, <1>2, <1>3, <1>4, <1>5, <1>6 DEF Next

\* IInv is an invariant of the wallet, and every theorem below follows from it.
LEMMA Inductive == Spec => []IInv
BY InitEstablishes, NextStep, PTL DEF Spec

-----------------------------------------------------------------------------
(* Theorems *)

\* The types are right in every reachable state: amounts stay integers, and
\* captured and released amounts natural numbers.
THEOREM TypeCorrect == Spec => []TypeOK
<1>1. IInv => TypeOK
  BY DEF IInv
<1> QED BY <1>1, Inductive, PTL

\* No sequence of deposits, holds and settlements makes balance or
\* reserved_balance negative: the CHECK constraints never fire.
THEOREM FundsNeverNegative == Spec => []FundsNonNegative
<1>1. IInv => FundsNonNegative
  BY DEF IInv
<1> QED BY <1>1, Inductive, PTL

\* The balance can always be recomputed from the ledger.
THEOREM BalanceFromLedger == Spec => []LedgerReproducesBalance
<1>1. IInv => LedgerReproducesBalance
  BY DEF IInv
<1> QED BY <1>1, Inductive, PTL

\* The custody of a limited wallet can always be recomputed from the ledger.
THEOREM CustodyFromLedger == Spec => []LedgerReproducesCustody
<1>1. IInv => LedgerReproducesCustody
  BY DEF IInv
<1> QED BY <1>1, Inductive, PTL

\* Balance and custody together can always be recomputed from the ledger.
THEOREM WalletFromLedger == Spec => []LedgerReproducesWallet
<1>1. IInv => LedgerReproducesWallet
  BY DEF IInv, LedgerReproducesWallet
<1> QED BY <1>1, Inductive, PTL

\* The newest statement line always shows the balance the wallet has.
THEOREM StatementIsCurrent == Spec => []StatementShowsBalance
<1>1. IInv => StatementShowsBalance
  BY DEF IInv
<1> QED BY <1>1, Inductive, PTL

\* reserved_balance, a column that every service updates by arithmetic, is in
\* every reachable state the sum of the amounts of the ACTIVE reservations.
THEOREM CustodyIsSumOfActive == Spec => []ReservedIsSumOfActive
<1>1. IInv => ReservedIsSumOfActive
  BY DEF IInv
<1> QED BY <1>1, Inductive, PTL

\* A settlement splits its reservation without loss, and what a limited tenant
\* was charged is the sum of what the settlements captured.
THEOREM ChargesAreSettlements == Spec => []ChargesMatchSettlements
<1>1. IInv => ChargesMatchSettlements
  BY DEF IInv
<1> QED BY <1>1, Inductive, PTL

\* A step writes no reservation that is over.
LeavesOver ==
  \A r \in ReservationIds :
    reservations[r].status \in {"SETTLED", "CANCELLED"} =>
      reservations'[r] = reservations[r]

LEMMA ServicesLeaveOver == ASSUME TypeOK, Next PROVE LeavesOver
<1> USE DEF LeavesOver
<1>1. ASSUME NEW q \in ReservationIds, NEW amount, hold_credits(q, amount)
      PROVE  LeavesOver
  BY <1>1 DEF hold_credits, Fresh, TypeOK
<1>2. ASSUME NEW q \in ReservationIds, NEW actual, capture_and_release(q, actual)
      PROVE  LeavesOver
  BY <1>2 DEF capture_and_release, Settle, Active, TypeOK
<1>3. ASSUME UNCHANGED reservations
      PROVE  LeavesOver
  BY <1>3
<1> QED BY <1>1, <1>2, <1>3 DEF Next, get_or_create_wallet, ProvisionTenant,
                                deposit_credits

\* A reservation that is over is never written again.
THEOREM SettledReservationsAreFinal == Spec => SettledOnce
<1>1. TypeOK /\ [Next]_vars => [LeavesOver]_vars
  BY ServicesLeaveOver
<1>2. Spec => [][LeavesOver]_vars
  BY <1>1, TypeCorrect, PTL DEF Spec
<1> QED BY <1>2 DEF SettledOnce, LeavesOver

-----------------------------------------------------------------------------
(* Refinement *)

\* The wallet implements the abstract account: whatever the callers do, credits
\* are only funded, reserved and settled.
THEOREM WalletImplementsAccount == Spec => ImplementsAccount
<1>1. Init => Account!Init
  <2> SUFFICES ASSUME Init PROVE Account!Init
    OBVIOUS
  <2>1. ledger["CAPTURE"] = 0
    BY DEF Init, TransactionTypes
  <2>2. 0 - ledger["CAPTURE"] = 0
    BY <2>1
  <2>3. wallet.balance = 0 /\ wallet.reserved_balance = 0 /\ ~wallet.is_unlimited
    BY DEF Init
  <2> QED BY <2>2, <2>3 DEF Account!Init
<1>2. IInv /\ IInv' /\ [Next]_vars => [Account!Next]_(Account!vars)
  <2> SUFFICES ASSUME IInv, IInv', [Next]_vars
               PROVE  [Account!Next]_(Account!vars)
    OBVIOUS
  <2> USE DEF Account!Next, Account!vars
  <2>0. /\ wallet.balance \in Nat /\ wallet.reserved_balance \in Nat
        /\ wallet'.balance \in Nat /\ wallet'.reserved_balance \in Nat
        /\ \A t \in TransactionTypes : ledger[t] \in Int /\ ledger'[t] \in Int
        /\ wallet \in CreditWalletRow
    BY DEF IInv, TypeOK, CreditWalletRow, FundsNonNegative
  <2> DEFINE Kept == wallet'.is_unlimited = wallet.is_unlimited
  <2>1. ASSUME NEW initial \in Nat, ~wallet.exists,
               wallet'.balance = initial, wallet'.reserved_balance = 0,
               ledger' = [ledger EXCEPT !["BONUS"] = @ + initial]
        PROVE  [Account!Next]_(Account!vars)
    <3>1. wallet.balance = 0 /\ wallet.reserved_balance = 0 /\ ~wallet.is_unlimited
      BY <2>1 DEF IInv, Unopened
    <3>2. ledger'["CAPTURE"] = ledger["CAPTURE"]
      BY <2>1 DEF IInv, TypeOK, TransactionTypes
    <3> QED BY <2>0, <2>1, <3>1, <3>2 DEF Account!Fund
  <2>2. ASSUME NEW amount \in Int, deposit_credits(amount)
        PROVE  Account!Fund
    BY <2>0, <2>2 DEF deposit_credits, Account!Fund, CreditWalletRow, IInv, TypeOK,
                      TransactionTypes
  <2>3. ASSUME NEW r \in ReservationIds, NEW amount \in Int, hold_credits(r, amount)
        PROVE  [Account!Next]_(Account!vars)
    <3>1. ledger'["CAPTURE"] = ledger["CAPTURE"]
      BY <2>3 DEF hold_credits, IInv, TypeOK, TransactionTypes
    <3>2. /\ amount > 0
          /\ wallet'.balance = wallet.balance - Charged(amount)
          /\ wallet'.reserved_balance = wallet.reserved_balance + amount
          /\ Kept
      BY <2>0, <2>3 DEF hold_credits, CreditWalletRow
    <3>3. CASE wallet.is_unlimited
      BY <2>0, <3>1, <3>2, <3>3 DEF Charged
    <3>4. CASE ~wallet.is_unlimited
      <4>1. Charged(amount) = amount
        BY <3>4 DEF Charged
      <4> QED BY <2>0, <3>1, <3>2, <3>4, <4>1 DEF Account!Reserve
    <3> QED BY <3>3, <3>4
  <2>4. ASSUME NEW r \in ReservationIds, NEW actual \in Int,
               capture_and_release(r, actual)
        PROVE  [Account!Next]_(Account!vars)
    <3>0. reservations[r].amount <= wallet.reserved_balance
      BY <2>4, CustodyCoversHeld DEF IInv, capture_and_release, Active
    <3>1. PICK capture_val \in Nat, release_val \in Nat :
           /\ capture_val + release_val = reservations[r].amount
           /\ reservations[r].status = "ACTIVE"
           /\ wallet'.balance = wallet.balance + Charged(release_val)
           /\ wallet'.reserved_balance = wallet.reserved_balance - reservations[r].amount
           /\ wallet'.is_unlimited = wallet.is_unlimited
           /\ wallet'.exists = wallet.exists
           /\ reservations'[r] = [status |-> "SETTLED", amount |-> reservations[r].amount,
                                  captured |-> capture_val, released |-> release_val]
           /\ \A q \in ReservationIds \ {r} : reservations'[q] = reservations[q]
           /\ ledger' = [ledger EXCEPT !["CAPTURE"] = @ - Charged(capture_val),
                                       !["RELEASE"] = @ + Charged(release_val)]
           /\ newest' = wallet'.balance
      BY <2>4, <3>0, SettlementSplits DEF IInv
    <3>2. /\ wallet'.balance = wallet.balance + Charged(release_val)
          /\ wallet'.reserved_balance = wallet.reserved_balance - (capture_val + release_val)
          /\ ledger'["CAPTURE"] = ledger["CAPTURE"] - Charged(capture_val)
          /\ Kept
      BY <3>1 DEF IInv, TypeOK, TransactionTypes
    <3>3. ledger["CAPTURE"] \in Int /\ ledger'["CAPTURE"] \in Int
      BY <2>0 DEF TransactionTypes
    <3>4. CASE wallet.is_unlimited
      <4>1. Charged(release_val) = 0 /\ Charged(capture_val) = 0
        BY <3>4 DEF Charged
      <4> QED BY <2>0, <3>2, <3>3, <3>4, <4>1
    <3>5. CASE ~wallet.is_unlimited
      <4>1. Charged(capture_val) = capture_val /\ Charged(release_val) = release_val
        BY <3>5 DEF Charged
      <4>2. 0 - ledger'["CAPTURE"] = (0 - ledger["CAPTURE"]) + capture_val
        BY <3>2, <3>3, <4>1
      <4>3. 0 - ledger["CAPTURE"] \in Int /\ 0 - ledger'["CAPTURE"] \in Int
        BY <3>3
      <4>4. CASE capture_val + release_val = 0
        BY <2>0, <3>2, <3>5, <4>1, <4>2, <4>3, <4>4
      <4>5. CASE capture_val + release_val > 0
        BY <2>0, <3>2, <3>5, <4>1, <4>2, <4>3, <4>5 DEF Account!Settle
      <4> QED BY <4>4, <4>5
    <3> QED BY <3>4, <3>5
  <2>5. CASE UNCHANGED vars
    BY <2>5 DEF vars
  <2>6. ASSUME NEW is_internal \in TenantKinds, get_or_create_wallet(is_internal)
        PROVE  [Account!Next]_(Account!vars)
    <3>1. (IF is_internal THEN 0 ELSE INITIAL_CREDIT_BONUS) \in Nat
      BY AmountsAssumption
    <3> QED BY <2>1, <2>6, <3>1 DEF get_or_create_wallet
  <2>7. ASSUME NEW initial \in InitialCredits, ProvisionTenant(initial)
        PROVE  [Account!Next]_(Account!vars)
    <3>1. initial \in Nat
      BY <2>7, AmountsAssumption DEF ProvisionTenant
    <3> QED BY <2>1, <2>7, <3>1 DEF ProvisionTenant
  <2>8. CASE Next
    <3>1. ASSUME NEW amount \in Amounts, deposit_credits(amount)
          PROVE  Account!Next
      BY <2>2, <3>1, AmountsAssumption
    <3>2. ASSUME NEW r \in ReservationIds, NEW amount \in Amounts,
                 hold_credits(r, amount)
          PROVE  [Account!Next]_(Account!vars)
      BY <2>3, <3>2, AmountsAssumption
    <3>3. ASSUME NEW r \in ReservationIds, NEW actual \in Amounts,
                 capture_and_release(r, actual)
          PROVE  [Account!Next]_(Account!vars)
      BY <2>4, <3>3, AmountsAssumption
    <3> QED BY <2>6, <2>7, <2>8, <3>1, <3>2, <3>3 DEF Next
  <2> QED BY <2>5, <2>8
<1> QED BY <1>1, <1>2, Inductive, PTL DEF Spec, ImplementsAccount, Account!Spec

-----------------------------------------------------------------------------
(* The wallet with its administrators *)

Request == [reading : BOOLEAN, balance : Int, amount : Int]

\* What the administrative writes leave of IInv: an injection overwrites the
\* balance of any other write since its reading, so nothing is left of the
\* ledger's equations; a cancelled reservation leaves its credits in custody.
AdminInv ==
  /\ TypeOK
  /\ injection \in [Admins -> Request]
  /\ CustodyIsActivePlusCancelled
  /\ ~wallet.exists => wallet.reserved_balance = 0

\* Custody covers every ACTIVE reservation here too, although the ledger can
\* no longer be trusted: the maximum in Settle never clips.
LEMMA CustodyCoversStranded ==
  ASSUME TypeOK, CustodyIsActivePlusCancelled, NEW r \in ReservationIds,
         reservations[r].status = "ACTIVE"
  PROVE  reservations[r].amount <= wallet.reserved_balance
<1>1. Stranded \in [ReservationIds -> Nat]
  BY AmountsAreNumbers
<1>2. Stranded[r] <= Total(Stranded) /\ wallet.reserved_balance = Total(Stranded)
  BY <1>1, TotalCovers DEF CustodyIsActivePlusCancelled, Stranded
<1>3. Stranded[r] = reservations[r].amount
  BY AmountsAreNumbers DEF Stranded, InStatus
<1> QED BY <1>2, <1>3

\* Writes that change what one reservation keeps and reserved_balance by the
\* same amount keep the equation.
LEMMA StrandedShifts ==
  ASSUME TypeOK, TypeOK', CustodyIsActivePlusCancelled,
         NEW r \in ReservationIds, NEW d \in Int,
         wallet'.reserved_balance = wallet.reserved_balance + d,
         Stranded'[r] = Stranded[r] + d,
         \A q \in ReservationIds \ {r} : Stranded'[q] = Stranded[q]
  PROVE  CustodyIsActivePlusCancelled'
<1>1. Stranded \in [ReservationIds -> Int] /\ Stranded' \in [ReservationIds -> Int]
  BY AmountsAreNumbers DEF TypeOK, Stranded, InStatus, CreditReservation
<1>2. Total(Stranded') = Total(Stranded) + d
  BY <1>1, TotalShifts
<1> QED BY <1>2 DEF CustodyIsActivePlusCancelled, Stranded, Total

LEMMA SameStranded ==
  ASSUME CustodyIsActivePlusCancelled, UNCHANGED reservations,
         wallet'.reserved_balance = wallet.reserved_balance
  PROVE  CustodyIsActivePlusCancelled'
BY DEF CustodyIsActivePlusCancelled, InStatus

LEMMA AdminInitEstablishes == AdminInit => AdminInv
<1> SUFFICES ASSUME AdminInit PROVE AdminInv
  OBVIOUS
<1>1. IInv
  BY InitEstablishes DEF AdminInit
<1>2. injection \in [Admins -> Request]
  BY DEF AdminInit, Request, Idle
<1>3. [r \in ReservationIds |-> InStatus(r, "ACTIVE") + InStatus(r, "CANCELLED")]
        = [r \in ReservationIds |-> 0]
  BY DEF AdminInit, Init, InStatus, NoReservation
<1>4. CustodyIsActivePlusCancelled /\ wallet.reserved_balance = 0
  BY <1>3, TotalOfZeros DEF AdminInit, Init, CustodyIsActivePlusCancelled
<1> QED BY <1>1, <1>2, <1>4 DEF AdminInv, IInv

\* The services keep AdminInv whatever the administrators did before.
LEMMA ServiceStep ==
  ASSUME AdminInv, Next, UNCHANGED injection
  PROVE  AdminInv'
<1> USE DEF AdminInv
<1>0. TypeOK'
  BY TypeStep
<1>1. ASSUME ~wallet.exists, wallet'.reserved_balance = 0, UNCHANGED reservations
      PROVE  AdminInv'
  BY <1>0, <1>1, SameStranded
<1>2. ASSUME NEW is_internal \in TenantKinds, get_or_create_wallet(is_internal)
      PROVE  AdminInv'
  BY <1>1, <1>2 DEF get_or_create_wallet
<1>3. ASSUME NEW initial \in InitialCredits, ProvisionTenant(initial)
      PROVE  AdminInv'
  BY <1>1, <1>3 DEF ProvisionTenant
<1>4. ASSUME NEW amount \in Amounts, deposit_credits(amount)
      PROVE  AdminInv'
  <2>1. wallet'.reserved_balance = wallet.reserved_balance /\ wallet'.exists
    BY <1>4 DEF deposit_credits, TypeOK, CreditWalletRow
  <2> QED BY <1>0, <1>4, <2>1, SameStranded DEF deposit_credits
<1>5. ASSUME NEW r \in ReservationIds, NEW amount \in Amounts, hold_credits(r, amount)
      PROVE  AdminInv'
  <2>1. /\ amount \in Nat /\ reservations[r].status = "NONE"
        /\ reservations'[r] = [status |-> "ACTIVE", amount |-> amount,
                               captured |-> 0, released |-> 0]
        /\ \A q \in ReservationIds \ {r} : reservations'[q] = reservations[q]
        /\ wallet'.reserved_balance = wallet.reserved_balance + amount
        /\ wallet'.exists
    BY <1>5, AmountsAssumption, HoldWrites
  <2>2. Stranded'[r] = Stranded[r] + amount
          /\ \A q \in ReservationIds \ {r} : Stranded'[q] = Stranded[q]
    BY <2>1 DEF Stranded, InStatus
  <2>3. CustodyIsActivePlusCancelled'
    BY <1>0, <2>1, <2>2, StrandedShifts
  <2> QED BY <1>0, <2>1, <2>3
<1>6. ASSUME NEW r \in ReservationIds, NEW actual \in Amounts,
             capture_and_release(r, actual)
      PROVE  AdminInv'
  <2> DEFINE reserved == reservations[r].amount
  <2>0. /\ reserved \in Nat /\ reserved <= wallet.reserved_balance
        /\ wallet.reserved_balance \in Int
    BY <1>6, CustodyCoversStranded, AmountsAreNumbers
       DEF capture_and_release, Active, TypeOK, CreditWalletRow
  <2>1. /\ reservations[r].status = "ACTIVE"
        /\ wallet'.reserved_balance = wallet.reserved_balance - reserved
        /\ wallet'.exists = wallet.exists
        /\ reservations'[r].status = "SETTLED"
        /\ \A q \in ReservationIds \ {r} : reservations'[q] = reservations[q]
    <3>1. actual \in Int
      BY AmountsAssumption
    <3>2. PICK capture_val \in Nat, release_val \in Nat :
           /\ capture_val + release_val = reserved
           /\ reservations[r].status = "ACTIVE"
           /\ wallet'.balance = wallet.balance + Charged(release_val)
           /\ wallet'.reserved_balance = wallet.reserved_balance - reserved
           /\ wallet'.is_unlimited = wallet.is_unlimited
           /\ wallet'.exists = wallet.exists
           /\ reservations'[r] = [status |-> "SETTLED", amount |-> reserved,
                                  captured |-> capture_val, released |-> release_val]
           /\ \A q \in ReservationIds \ {r} : reservations'[q] = reservations[q]
           /\ ledger' = [ledger EXCEPT !["CAPTURE"] = @ - Charged(capture_val),
                                       !["RELEASE"] = @ + Charged(release_val)]
           /\ newest' = wallet'.balance
      BY <1>6, <2>0, <3>1, SettlementSplits
    <3> QED BY <3>2
  <2>2. Stranded'[r] = Stranded[r] + (-reserved)
          /\ \A q \in ReservationIds \ {r} : Stranded'[q] = Stranded[q]
    BY <2>0, <2>1 DEF Stranded, InStatus
  <2>3. CustodyIsActivePlusCancelled'
    BY <1>0, <2>0, <2>1, <2>2, StrandedShifts
  <2> QED BY <1>0, <2>0, <2>1, <2>3
<1> QED BY <1>2, <1>3, <1>4, <1>5, <1>6 DEF Next

\* So do the administrators' own writes: the stale balance is written without
\* the custody that was read with it, and a cancellation moves an amount from
\* one term of the sum to the other.
LEMMA AdminStep == AdminInv /\ [AdminNext]_adminVars => AdminInv'
<1> SUFFICES ASSUME AdminInv, [AdminNext]_adminVars PROVE AdminInv'
  OBVIOUS
<1> USE DEF AdminInv
<1>0. wallet \in CreditWalletRow /\ ledger \in [TransactionTypes -> Int]
  BY DEF TypeOK
<1>1. CASE Next /\ UNCHANGED injection
  BY <1>1, ServiceStep
<1>2. ASSUME NEW a \in Admins, NEW amount \in Amounts, InjectRead(a, amount)
      PROVE  AdminInv'
  <2>1. injection' \in [Admins -> Request]
    BY <1>0, <1>2, AmountsAssumption DEF InjectRead, Request, CreditWalletRow
  <2> QED BY <1>2, <2>1, SameStranded DEF InjectRead, vars, TypeOK
<1>3. ASSUME NEW a \in Admins, InjectWrite(a)
      PROVE  AdminInv'
  <2> DEFINE new_balance == injection[a].balance + injection[a].amount
  <2>1. new_balance \in Int /\ injection[a].amount \in Int
    BY DEF Request
  <2>2. wallet' \in CreditWalletRow
    BY <1>0, <1>3, <2>1, RowUpdate DEF InjectWrite
  <2>3. /\ wallet'.reserved_balance = wallet.reserved_balance
        /\ wallet'.exists = wallet.exists
    BY <1>0, <1>3 DEF InjectWrite, CreditWalletRow
  <2>4. TypeOK'
    BY <1>0, <1>3, <2>1, <2>2 DEF InjectWrite, TypeOK, TransactionTypes
  <2>5. injection' \in [Admins -> Request]
    BY <1>3 DEF InjectWrite, Request, Idle
  <2> QED BY <1>3, <2>3, <2>4, <2>5, SameStranded DEF InjectWrite
<1>4. ASSUME NEW amount \in Amounts, InjectCreate(amount)
      PROVE  AdminInv'
  <2>1. TypeOK'
    BY <1>0, <1>4, AmountsAssumption
       DEF InjectCreate, TypeOK, CreditWalletRow, TransactionTypes
  <2>2. wallet'.reserved_balance = 0 /\ wallet.reserved_balance = 0
    BY <1>4 DEF InjectCreate
  <2> QED BY <1>4, <2>1, <2>2, SameStranded DEF InjectCreate
<1>5. ASSUME NEW r \in ReservationIds, CancelReservation(r)
      PROVE  AdminInv'
  <2>1. TypeOK'
    BY <1>5 DEF CancelReservation, TypeOK, CreditReservation, Statuses
  <2>2. Stranded'[r] = Stranded[r] + 0
          /\ \A q \in ReservationIds \ {r} : Stranded'[q] = Stranded[q]
    BY <1>5, AmountsAreNumbers DEF CancelReservation, Stranded, InStatus, TypeOK, CreditReservation
  <2>3. wallet'.reserved_balance = wallet.reserved_balance + 0
    BY <1>0, <1>5 DEF CancelReservation, CreditWalletRow
  <2>4. CustodyIsActivePlusCancelled'
    BY <2>1, <2>2, <2>3, StrandedShifts
  <2> QED BY <1>5, <2>1, <2>4 DEF CancelReservation
<1>6. CASE UNCHANGED adminVars
  BY <1>6, SameStranded DEF adminVars, TypeOK
<1> QED BY <1>1, <1>2, <1>3, <1>4, <1>5, <1>6 DEF AdminNext

\* Whatever the administrators overwrite or cancel, custody is the ACTIVE
\* reservations plus what cancelling stranded.
THEOREM CustodyIsActiveOrStranded == AdminSpec => []CustodyIsActivePlusCancelled
<1>1. AdminInv => CustodyIsActivePlusCancelled
  BY DEF AdminInv
<1> QED BY <1>1, AdminInitEstablishes, AdminStep, PTL DEF AdminSpec

\* A reservation that is over is not written again by an administrator either,
\* and one that an administrator has cancelled is never captured or refunded.
THEOREM CancelledReservationsAreFinal == AdminSpec => SettledOnce
<1>1. AdminInv /\ [AdminNext]_adminVars => [LeavesOver]_vars
  <2> SUFFICES ASSUME TypeOK, AdminNext PROVE [LeavesOver]_vars
    BY DEF AdminInv, adminVars, vars
  <2>1. CASE Next
    BY <2>1, ServicesLeaveOver
  <2>2. ASSUME NEW a \in Admins, InjectWrite(a)
        PROVE  LeavesOver
    BY <2>2 DEF InjectWrite, LeavesOver
  <2>3. ASSUME NEW r \in ReservationIds, CancelReservation(r)
        PROVE  LeavesOver
    BY <2>3 DEF CancelReservation, LeavesOver, TypeOK
  <2> QED BY <2>1, <2>2, <2>3 DEF AdminNext, InjectRead, InjectCreate, LeavesOver
<1>2. AdminSpec => [][LeavesOver]_vars
  BY <1>1, AdminInitEstablishes, AdminStep, PTL DEF AdminSpec
<1> QED BY <1>2 DEF SettledOnce, LeavesOver
=============================================================================
