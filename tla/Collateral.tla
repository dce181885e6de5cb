------------------------------- MODULE Collateral -------------------------------
(***************************************************************************)
(* collateral-ledger.service.ts for several instruments and assets.  A      *)
(* worker is one call of reserve or release.  It holds a lock on the oracle *)
(* event, then on the row of the instrument, then on the row of the asset,  *)
(* until its transaction ends; between the locks others may go on.  The     *)
(* callers are the consumers of applied oracle events, which pass what the  *)
(* event says, so a command that contradicts its event does not occur;      *)
(* units agree.                                                             *)
(***************************************************************************)
EXTENDS Integers, FiniteSets, Functions

CONSTANTS
    Instruments,
    Assets,
    AssetQuantity,  \* asset.quantity
    UnitPerToken,   \* instrument.unit_per_token
    Events,         \* ids of applied oracle events
    Says,           \* the change of collateral that each event asks for
    Workers,        \* concurrent calls
    None

Changes == [kind : {"RESERVE", "RELEASE"}, asset : Assets, instrument : Instruments,
            quantity : Nat \ {0}]

ASSUME CollateralAssumption ==
    /\ AssetQuantity \in [Assets -> Nat]
    /\ UnitPerToken \in [Instruments -> Nat \ {0}]
    /\ Says \in [Events -> Changes]
    /\ None \notin Nat /\ None \notin Events
    /\ IsFiniteSet(Assets) /\ IsFiniteSet(Instruments)

VARIABLES
    reserved,     \* collateral_position.reserved, 0 without a row
    available,    \* collateral_position.available, None without a row
    encumbrance,  \* asset.encumbrance_status
    movements,    \* events with a row in collateral_position_movements
    supply,       \* instrument.circulating_supply; only Listing changes it
    stage,        \* how far the transaction of each worker is
    job,          \* the event that each worker applies
    read          \* what each worker read under its locks

book == <<reserved, available, encumbrance, movements>>
calls == <<stage, job, read>>

Positions == Assets \X Instruments
Stages == {"idle", "event", "instrument", "asset", "done"}

AssetOf(w) == Says[job[w]].asset
InstrumentOf(w) == Says[job[w]].instrument
QuantityOf(w) == Says[job[w]].quantity
IsReserve(w) == Says[job[w]].kind = "RESERVE"

TotalReserved(a) == SumFunctionOnSet(reserved, {a} \X Instruments)
VerifiedAvailable(i) == SumFunctionOnSet(reserved, Assets \X {i})

CollateralInit ==
    /\ reserved = [p \in Positions |-> 0]
    /\ available = [p \in Positions |-> None]
    /\ encumbrance = [a \in Assets |-> "UNKNOWN"]
    /\ movements = {}
    /\ stage = [w \in Workers |-> "idle"]
    /\ job = [w \in Workers |-> None]
    /\ read = [w \in Workers |-> None]

-----------------------------------------------------------------------------
(* Locks *)

EventIsFree(e) == \A w \in Workers : stage[w] \notin {"idle", "done"} => job[w] # e
InstrumentIsFree(i) ==
    \A w \in Workers : stage[w] \in {"instrument", "asset"} => InstrumentOf(w) # i
AssetIsFree(a) == \A w \in Workers : stage[w] = "asset" => AssetOf(w) # a

Go(w, from, to) == stage[w] = from /\ stage' = [stage EXCEPT ![w] = to]

\* The advisory lock on the event; an event must be APPLIED, as all Events are.
Begin(w, e) ==
    /\ Go(w, "idle", "event") /\ EventIsFree(e)
    /\ job' = [job EXCEPT ![w] = e]
    /\ UNCHANGED <<book, supply, read>>

\* The event has been applied before: the stored position is the answer.
Replay(w) ==
    /\ Go(w, "event", "done") /\ job[w] \in movements
    /\ UNCHANGED <<book, supply, job, read>>

LockInstrument(w) ==
    /\ Go(w, "event", "instrument") /\ job[w] \notin movements
    /\ InstrumentIsFree(InstrumentOf(w))
    /\ read' = [read EXCEPT ![w] = [supply |-> supply[InstrumentOf(w)]]]
    /\ UNCHANGED <<book, supply, job>>

\* What the transaction reads once it has the asset.
Read(w) == read' = [read EXCEPT ![w] =
    [supply |-> @.supply,
     total |-> TotalReserved(AssetOf(w)),
     here |-> reserved[<<AssetOf(w), InstrumentOf(w)>>],
     behind |-> VerifiedAvailable(InstrumentOf(w))]]

\* Seeded fault: the asset is read without FOR UPDATE.
ReadAssetUnlocked(w) ==
    /\ Go(w, "instrument", "asset")
    /\ Read(w)
    /\ UNCHANGED <<book, supply, job>>

LockAsset(w) ==
    /\ Go(w, "instrument", "asset") /\ AssetIsFree(AssetOf(w))
    /\ Read(w)
    /\ UNCHANGED <<book, supply, job>>

-----------------------------------------------------------------------------
(* The change *)

TotalAfter(w) ==
    IF IsReserve(w) THEN read[w].total + QuantityOf(w) ELSE read[w].total - QuantityOf(w)

\* Seeded fault: a release looks only at the position it takes from.
MayTake(w) ==
    IF IsReserve(w) THEN TotalAfter(w) <= AssetQuantity[AssetOf(w)]
    ELSE QuantityOf(w) <= read[w].here

MayChange(w) ==
    IF IsReserve(w) THEN TotalAfter(w) <= AssetQuantity[AssetOf(w)]
    ELSE /\ QuantityOf(w) <= read[w].here
         /\ read[w].supply * UnitPerToken[InstrumentOf(w)] <= read[w].behind - QuantityOf(w)

\* The position, and the availability of every position on the asset.
WritePosition(w) ==
    LET a == AssetOf(w)  i == InstrumentOf(w)  d == TotalAfter(w) - read[w].total IN
    /\ reserved' = [reserved EXCEPT ![<<a, i>>] = read[w].here + d]
    /\ available' = [p \in Positions |->
           IF p = <<a, i>> \/ (p[1] = a /\ available[p] # None)
           THEN AssetQuantity[a] - TotalAfter(w) ELSE available[p]]

Change(w) ==
    /\ Go(w, "asset", "done") /\ MayChange(w)
    /\ WritePosition(w)
    /\ encumbrance' = [encumbrance EXCEPT ![AssetOf(w)] =
           IF TotalAfter(w) = 0 THEN "RELEASED" ELSE "LOCKED"]
    /\ movements' = movements \cup {job[w]}
    /\ UNCHANGED <<supply, job, read>>

\* The call ends; with an error, or the death of the process, nothing is written.
End(w) ==
    /\ stage' = [stage EXCEPT ![w] = "idle"]
    /\ job' = [job EXCEPT ![w] = None]
    /\ read' = [read EXCEPT ![w] = None]
    /\ UNCHANGED <<book, supply>>

Refuse(w) == stage[w] = "asset" /\ ~MayChange(w) /\ End(w)

\* All steps of a call but the first.
CollateralStep(w) ==
    \/ Replay(w) \/ LockInstrument(w) \/ LockAsset(w) \/ Change(w) \/ Refuse(w)

-----------------------------------------------------------------------------
(* Properties *)

\* collateral/README.md: locking the asset serializes reservations of different
\* instruments, prevents double tokenization and keeps the availability on all
\* positions of the asset synchronized, however the calls interleave.
NoDoublePledge ==
    \A a \in Assets :
        /\ TotalReserved(a) <= AssetQuantity[a]
        /\ \A i \in Instruments :
              available[<<a, i>>] \in {None, AssetQuantity[a] - TotalReserved(a)}
        /\ encumbrance[a] = "LOCKED" <=> TotalReserved(a) > 0

\* Refinement: no worker can tell that the others work at the same time.
Pledge == INSTANCE Pledges WITH pledged <- reserved, used <- movements
ImplementsPledges == Pledge!Spec
=============================================================================
