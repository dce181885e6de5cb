---------------------------- MODULE LedgerPosting ----------------------------
(***************************************************************************)
(* Pure operators on postings of the double-entry ledger (packages/ledger): *)
(* what guards.ts accepts and what a posting does to the balance of an      *)
(* account.  No state: the state machines are Ledger and AtomicLedger.      *)
(*                                                                         *)
(* The legs of a posting are a function from <<account, direction>> to an   *)
(* amount.  The code allows several legs with one account and direction;    *)
(* they act like one leg with their sum.                                    *)
(***************************************************************************)
EXTENDS Integers, FiniteSets, Functions

CONSTANTS
    Accounts,      \* account ids; ids are numbers because rows are locked in id order
    MaxId,         \* the largest id; a UUID has 128 bits
    Owner,         \* [Accounts -> party]
    Purpose,       \* [Accounts -> {"AVAILABLE", "RESERVED", "FEE", "RESIDUAL"}]
    NormalSide,    \* [Accounts -> {"DEBIT", "CREDIT"}]
    Denomination,  \* [Accounts -> account type with its currency or instrument]
    MaxNumeric,    \* the largest numeric(38, 0)
    None           \* no value

ASSUME AccountsAssumption ==
    /\ MaxId \in Nat
    /\ Accounts \subseteq 0..MaxId
    /\ NormalSide \in [Accounts -> {"DEBIT", "CREDIT"}]
    /\ MaxNumeric \in Nat \ {0}

Directions == {"DEBIT", "CREDIT"}
Sides == Accounts \X Directions

AmountOn(legs, a, d) == IF <<a, d>> \in DOMAIN legs THEN legs[<<a, d>>] ELSE 0

Total(legs, d, as) == SumFunctionOnSet([a \in Accounts |-> AmountOn(legs, a, d)], as)

\* assertLedgerLegs: two legs at least, positive amounts that fit the column,
\* and debits equal to credits over the whole posting.
WellFormed(legs) ==
    /\ Cardinality(DOMAIN legs) >= 2
    /\ \A side \in DOMAIN legs : legs[side] > 0 /\ legs[side] <= MaxNumeric
    /\ Total(legs, "DEBIT", Accounts) = Total(legs, "CREDIT", Accounts)

Touched(legs) == {a \in Accounts : \E d \in Directions : <<a, d>> \in DOMAIN legs}

\* The check of denominationTotals: each currency and each instrument balances
\* on its own.
BalancedByDenomination(legs) ==
    \A denomination \in {Denomination[a] : a \in Touched(legs)} :
        LET as == {a \in Accounts : Denomination[a] = denomination}
        IN  Total(legs, "DEBIT", as) = Total(legs, "CREDIT", as)

\* balanceDelta: a leg on the normal side of its account adds to the balance.
Effect(legs, a) ==
    IF NormalSide[a] = "DEBIT"
    THEN AmountOn(legs, a, "DEBIT") - AmountOn(legs, a, "CREDIT")
    ELSE AmountOn(legs, a, "CREDIT") - AmountOn(legs, a, "DEBIT")

Opposite(d) == IF d = "DEBIT" THEN "CREDIT" ELSE "DEBIT"

\* The legs that reverse() posts.
InverseLegs(legs) ==
    [side \in {<<s[1], Opposite(s[2])>> : s \in DOMAIN legs} |->
        legs[<<side[1], Opposite(side[2])>>]]

\* validateMovementAccounts: reserve and release move between the AVAILABLE and
\* the RESERVED account of one owner and one denomination.
IsMovementPair(available, reserved) ==
    /\ Purpose[available] = "AVAILABLE"
    /\ Purpose[reserved] = "RESERVED"
    /\ Owner[available] = Owner[reserved]
    /\ NormalSide[available] = NormalSide[reserved]
    /\ Denomination[available] = Denomination[reserved]

MoveLegs(from, to, amount) ==
    [side \in {<<from, "CREDIT">>, <<to, "DEBIT">>} |-> amount]

=============================================================================
