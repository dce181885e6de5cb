----------------------------- MODULE ListingProofs -----------------------------
(***************************************************************************)
(* Proofs about IssuerWizard, and so about Listing and Collateral, for any  *)
(* number of instruments, assets, workers, operators and pages.             *)
(*                                                                         *)
(* The invariants come in layers, and each is preserved with the help of    *)
(* those before it: Holdings, the books of the collateral ledger and what   *)
(* its workers have read under their locks; Paper, what the rows of         *)
(* instruments, versions and decisions say of each other; Reports, who      *)
(* still has to say that an instrument is covered; Forms, what the pages    *)
(* know of the draft.                                                       *)
(***************************************************************************)
EXTENDS IssuerWizard, SumTheorems, SequenceTheorems

-----------------------------------------------------------------------------
(* The invariants *)

HoldingTypes ==
    /\ reserved \in [Positions -> Nat]
    /\ available \in [Positions -> Nat \cup {None}]
    /\ encumbrance \in [Assets -> {"UNKNOWN", "LOCKED", "RELEASED"}]
    /\ movements \subseteq Events
    /\ supply \in [Instruments -> Nat]
    /\ stage \in [Workers -> Stages]
    /\ job \in [Workers -> Events \cup {None}]
    /\ read = [w \in Workers |-> read[w]]
    /\ \A w \in Workers : stage[w] # "idle" => job[w] \in Events

\* One worker to each lock.
Locks == \A v, w \in Workers : v # w =>
    /\ {stage[v], stage[w]} \cap {"idle", "done"} = {} => job[v] # job[w]
    /\ {stage[v], stage[w]} \subseteq {"instrument", "asset"} =>
          InstrumentOf(v) # InstrumentOf(w)
    /\ {stage[v], stage[w]} \subseteq {"asset"} => AssetOf(v) # AssetOf(w)

\* What was read under a lock is still so.
Fresh == \A w \in Workers :
    /\ stage[w] \in {"instrument", "asset"} =>
          job[w] \notin movements /\ read[w].supply = supply[InstrumentOf(w)]
    /\ stage[w] = "asset" =>
          /\ read[w].total = TotalReserved(AssetOf(w))
          /\ read[w].here = reserved[<<AssetOf(w), InstrumentOf(w)>>]
          /\ read[w].behind = VerifiedAvailable(InstrumentOf(w))

Holdings == HoldingTypes /\ Locks /\ Fresh /\ NoDoublePledge

VersionStates == {"DRAFT", "SUBMITTED", "RETURNED", "REJECTED", "APPROVED"}
VersionRows == [passport : Passports, state : VersionStates, hash : Hashes \cup {None},
                published : BOOLEAN]
DecisionRows == [issue : Instruments, version : 1..MaxVersion, operator : Operators,
                 decision : {"APPROVE", "REJECT", "RETURN_FOR_REVISION"},
                 hash : Hashes \cup {None}]

PaperTypes ==
    /\ instrument \in [Instruments -> InstrumentRows \cup {None}]
    /\ versions \in [Instruments -> Seq(VersionRows)]
    /\ decisions \subseteq DecisionRows
    /\ promotions \subseteq Events
    /\ missed \in [Instruments -> BOOLEAN]
    /\ \A i \in Instruments :
          /\ Len(versions[i]) = IF Created(i) THEN instrument[i].version ELSE 0
          /\ Created(i) /\ Status(i) = "SUSPENDED" => instrument[i].suspendedFrom # "NONE"

\* Only the current version is ever published, and then it is final.
OnlyCurrent(i) == \A v \in 1..instrument[i].version :
    versions[i][v].published <=> v = instrument[i].version /\ Current(i).state = "APPROVED"

\* A submitted version says what its hash says.
Hashed(i) == Current(i).state \in {"SUBMITTED", "APPROVED"} =>
    /\ IsComplete(Current(i).passport)
    /\ Current(i).hash = HashPassport(i, instrument[i].terms, instrument[i].version,
                                      Current(i).passport)
    /\ instrument[i].hash = Current(i).hash

\* Decisions are about versions that have been submitted, word for word.
Decided(i) == \A d \in decisions : d.issue = i =>
    /\ d.version <= instrument[i].version
    /\ d.version = instrument[i].version =>
          Current(i).state # "DRAFT" /\ d.hash = Current(i).hash

InStep(i) ==
    /\ Reached(i) = "DRAFT" => instrument[i].version = 1 /\ Current(i).state = "DRAFT"
    /\ Reached(i) \notin BeforeApproval => Current(i).state = "APPROVED"
    /\ Current(i).state = "APPROVED" =>
          Cardinality(Endorsers(i, instrument[i].version)) >= 2

PaperOf(i) == OnlyCurrent(i) /\ Hashed(i) /\ Decided(i) /\ InStep(i)

Paper ==
    /\ PaperTypes
    /\ \A d \in decisions : Created(d.issue)
    /\ \A i \in Instruments : Created(i) => PaperOf(i)

\* Somebody has still to report on i, or has done so in vain.
Pending(i) ==
    \/ missed[i]
    \/ \E w \in Workers : stage[w] = "done" /\ IsReserve(w) /\ InstrumentOf(w) = i

\* Before the approval it cannot be known how much will be required.
Owes(i) ==
    /\ Created(i) /\ VerifiedAvailable(i) > 0
    /\ \/ Reached(i) \in BeforeApproval
       \/ Status(i) = "APPROVED" /\ Covered(i)

Reports ==
    /\ \A w \in Workers : stage[w] # "idle" => Created(InstrumentOf(w))
    /\ \A e \in promotions :
          /\ Created(Says[e].instrument)
          /\ Reached(Says[e].instrument) \notin BeforeApproval \cup {"APPROVED"}
    /\ \A i \in Instruments :
          /\ ~Created(i) => VerifiedAvailable(i) = 0
          /\ Owes(i) => Pending(i)

Answers == [version : 1..MaxVersion, draft : DraftRows, at : Times]
SubmitRequests == [id : Drafts, version : 1..MaxVersion, shown : DraftRows,
                   base : DraftRows \cup {None}, at : Times]
PageStates == [open : BOOLEAN, id : Drafts \cup {None}, version : 1..MaxVersion,
               step : 1..Review, loading : BOOLEAN, fetched : Answers \cup {None},
               terms : Terms, text : Passports, saving : SaveRequests \cup {None},
               submitting : SubmitRequests \cup {None}, edited : SUBSET Sections,
               base : DraftRows \cup {None}, at : Times]
Submissions == [version : 1..MaxVersion, shown : DraftRows, clean : BOOLEAN]

FormTypes ==
    /\ page \in [Pages -> PageStates \cup {None}]
    /\ saves \in [Instruments -> Nat]
    /\ sent \in [Instruments -> Submissions \cup {None}]
    /\ clicks \in Nat
    /\ \A p \in Pages : page[p] # None =>
          /\ page[p].id # None => Created(page[p].id)
          /\ page[p].loading => page[p].id # None

\* Version v at time t is one that the server had; who knows it with its text d
\* knows what is stored, unless it has been written or revised since.
Known(i, v, t) ==
    t # None => /\ i \in Drafts /\ Created(i)
                /\ v <= instrument[i].version /\ t <= saves[i]
IsNow(i, v, t) == t = saves[i] /\ v = instrument[i].version
Knows(i, v, t, d) ==
    Known(i, v, t) /\ (t # None => d \in DraftRows /\ (IsNow(i, v, t) => d = Stored(i)))

\* What a save may make of a section that has not been edited.
Kept(s, before, after, currency) ==
    \/ after = before
    \/ s = Rights /\ before # Absent /\
          after = IF Head(before) = Blank THEN Absent ELSE <<Head(before), Disclosure>>
    \/ s = Economics /\ before # Absent /\ after = <<Head(before), currency>>

\* The form shows what is stored, as far as a form does, whatever currency it has.
Shows(s, text, stored) == \A currency \in Lines :
    Kept(s, stored[s], BuildPassport(text, currency)[s], currency)

\* The prices of the form are a line, and those of a draft have its currency too.
OneLine(t) == t # Absent => t = <<Head(t)>>
Priced(d) == d.passport[Economics] # Absent =>
    d.passport[Economics] = <<Head(d.passport[Economics]), CurrencyOf[d.terms]>>

InFlight(r) == IF r.saving = None THEN {} ELSE r.saving.edited

FormKnows(r) ==
    /\ OneLine(r.text[Economics])
    /\ r.id = None => r.at = None /\ r.version = 1
    /\ r.fetched # None => r.loading
    /\ Knows(r.id, r.version, r.at, r.base)
    /\ r.at # None => \A s \in Sections \ (r.edited \cup InFlight(r)) :
                          Shows(s, r.text, r.base.passport)
    /\ r.fetched # None => r.fetched.at # None /\
                           Knows(r.id, r.fetched.version, r.fetched.at, r.fetched.draft)
    /\ r.submitting # None =>
          /\ Created(r.submitting.id)
          /\ Knows(r.submitting.id, r.submitting.version, r.submitting.at, r.submitting.base)

SaveKnows(r) == r.saving # None =>
    LET q == r.saving IN
    /\ q.id = r.id /\ (r.loading => q.loading)
    /\ q.id = None => q.version = 1 /\ q.at = None
    /\ Known(q.id, q.version, q.at)
    /\ q.at # None /\ IsNow(q.id, q.version, q.at) =>
          \A s \in Sections \ q.edited :
             Kept(s, Current(q.id).passport[s], q.draft.passport[s], CurrencyOf[q.draft.terms])
    /\ r.loading = q.loading => \A s \in Sections \ r.edited :
             Shows(s, r.text, q.draft.passport)
    /\ Priced(q.draft)

\* Of every page, in the state r.
PagesKnow == \A p \in Pages, r \in PageStates :
    r # None /\ page[p] = r => FormKnows(r) /\ SaveKnows(r)

\* What was submitted is not a draft any more.
SentStays == \A i \in Instruments : sent[i] # None =>
    /\ Created(i) /\ Reached(i) # "DRAFT"
    /\ sent[i].version <= instrument[i].version
    /\ sent[i].version = instrument[i].version => Current(i).state # "DRAFT"

\* Only a page writes the first version.
PricesStay == \A i \in Drafts :
    Created(i) /\ instrument[i].version = 1 => Priced(Stored(i))

Forms ==
    /\ FormTypes
    /\ PagesKnow
    /\ PricesStay
    /\ SentStays
    /\ SubmittedIsShown

-----------------------------------------------------------------------------
(* Sums over positions *)

OnAsset(f, a) == SumFunctionOnSet(f, {a} \X Instruments)
Behind(f, i) == SumFunctionOnSet(f, Assets \X {i})

LEMMA PositionsAreFinite ==
    /\ \A a \in Assets : IsFiniteSet({a} \X Instruments)
    /\ \A i \in Instruments : IsFiniteSet(Assets \X {i})
  <1>1. IsFiniteSet(Assets) /\ IsFiniteSet(Instruments)
    BY CollateralAssumption
  <1>2. \A x : IsFiniteSet({x})
    BY FS_Singleton
  <1> QED
    BY <1>1, <1>2, FS_Product

LEMMA SumsAreNatural ==
    ASSUME NEW f \in [Positions -> Nat]
    PROVE  /\ \A a \in Assets : OnAsset(f, a) \in Nat
           /\ \A i \in Instruments : Behind(f, i) \in Nat
  <1>1. ASSUME NEW a \in Assets PROVE OnAsset(f, a) \in Nat
    <2>1. \A p \in {a} \X Instruments : f[p] \in Nat
      BY DEF Positions
    <2> QED
      BY <2>1, PositionsAreFinite, SumNat DEF OnAsset
  <1>2. ASSUME NEW i \in Instruments PROVE Behind(f, i) \in Nat
    <2>1. \A p \in Assets \X {i} : f[p] \in Nat
      BY DEF Positions
    <2> QED
      BY <2>1, PositionsAreFinite, SumNat DEF Behind
  <1> QED
    BY <1>1, <1>2

\* One position changes the sums of its asset and of its instrument, and no other.
LEMMA PositionChange ==
    ASSUME NEW f \in [Positions -> Nat], NEW g \in [Positions -> Nat],
           NEW a \in Assets, NEW i \in Instruments,
           \A p \in Positions : p # <<a, i>> => g[p] = f[p]
    PROVE  /\ \A b \in Assets : OnAsset(g, b) =
                 OnAsset(f, b) + IF b = a THEN g[<<a, i>>] - f[<<a, i>>] ELSE 0
           /\ \A j \in Instruments : Behind(g, j) =
                 Behind(f, j) + IF j = i THEN g[<<a, i>>] - f[<<a, i>>] ELSE 0
  <1>0. PICK x : x = <<a, i>>
    OBVIOUS
  <1>1. /\ x \in Positions
        /\ \A p \in Positions : p # x => g[p] = f[p]
        /\ \A p \in Positions : f[p] \in Int /\ g[p] \in Int
    BY <1>0 DEF Positions
  <1>2. ASSUME NEW b \in Assets
        PROVE  OnAsset(g, b) = OnAsset(f, b) + IF b = a THEN g[x] - f[x] ELSE 0
    <2>1. {b} \X Instruments \subseteq Positions /\ (x \in {b} \X Instruments <=> b = a)
      BY <1>0 DEF Positions
    <2> DEFINE S == {b} \X Instruments
    <2>2. /\ IsFiniteSet(S)
          /\ \A p \in S : f[p] \in Int /\ g[p] \in Int
          /\ \A p \in S : p # x => g[p] = f[p]
      BY <1>1, <2>1, PositionsAreFinite
    <2> HIDE DEF S
    <2>3. SumFunctionOnSet(g, S) = SumFunctionOnSet(f, S) + IF x \in S THEN g[x] - f[x] ELSE 0
      BY <2>2, SumChangeIn
    <2> QED
      BY <1>1, <2>1, <2>3 DEF OnAsset, S
  <1>3. ASSUME NEW j \in Instruments
        PROVE  Behind(g, j) = Behind(f, j) + IF j = i THEN g[x] - f[x] ELSE 0
    <2>1. Assets \X {j} \subseteq Positions /\ (x \in Assets \X {j} <=> j = i)
      BY <1>0 DEF Positions
    <2> DEFINE S == Assets \X {j}
    <2>2. /\ IsFiniteSet(S)
          /\ \A p \in S : f[p] \in Int /\ g[p] \in Int
          /\ \A p \in S : p # x => g[p] = f[p]
      BY <1>1, <2>1, PositionsAreFinite
    <2> HIDE DEF S
    <2>3. SumFunctionOnSet(g, S) = SumFunctionOnSet(f, S) + IF x \in S THEN g[x] - f[x] ELSE 0
      BY <2>2, SumChangeIn
    <2> QED
      BY <1>1, <2>1, <2>3 DEF Behind, S
  <1> QED
    BY <1>0, <1>1, <1>2, <1>3

-----------------------------------------------------------------------------
(* The books of the collateral ledger *)

\* Nobody else has a hand in them.
LEMMA HoldingSteps ==
    ASSUME [Next]_allvars
    PROVE  \/ UNCHANGED <<book, calls, supply>>
           \/ \E w \in Workers : \/ \E e \in Events : Begin(w, e)
                                 \/ Replay(w) \/ LockInstrument(w) \/ LockAsset(w)
                                 \/ Change(w) \/ End(w)
           \/ \E i \in Instruments, q \in 1..2 : Mint(i, q)
  <1>1. CASE UNCHANGED allvars
    BY <1>1 DEF allvars, vars
  <1>2. ASSUME NEW p \in Pages, PageStep(p) PROVE UNCHANGED <<book, calls, supply>>
    BY <1>2 DEF PageStep, vars, Open, Fetch, Hydrate, Save, Sign, Type, ChooseTerms, ChooseStep,
       SaveNew, SaveAgain, Submitted, SaveFails, SubmitIncomplete, SubmitFails,
       CreateDraft, UpdateDraft, Submit
  <1>3. ASSUME NEW w \in Workers, WorkerStep(w)
        PROVE  \/ \E e \in Events : Begin(w, e)
               \/ Replay(w) \/ LockInstrument(w) \/ LockAsset(w) \/ Change(w) \/ End(w)
    BY <1>3 DEF WorkerStep, CollateralStep, Refuse, ApplyCollateralReserved, Finish, Crash
  <1>4. ASSUME NEW i \in Instruments, InternalStep(i)
        PROVE  \/ UNCHANGED <<book, calls, supply>>
               \/ \E q \in 1..2 : Mint(i, q)
    BY <1>4 DEF InternalStep, RevisePassport, Approve, Dismiss, Transition
  <1> QED
    BY <1>1, <1>2, <1>3, <1>4 DEF Next

\* What a worker is at.
LEMMA JobParts ==
    ASSUME HoldingTypes, NEW w \in Workers, stage[w] # "idle"
    PROVE  /\ job[w] \in Events
           /\ AssetOf(w) \in Assets /\ InstrumentOf(w) \in Instruments
           /\ QuantityOf(w) \in Nat /\ QuantityOf(w) > 0
           /\ AssetQuantity[AssetOf(w)] \in Nat
           /\ UnitPerToken[InstrumentOf(w)] \in Nat
  <1>1. Says[job[w]] \in Changes
    BY CollateralAssumption DEF HoldingTypes
  <1>2. /\ AssetOf(w) \in Assets /\ InstrumentOf(w) \in Instruments
        /\ QuantityOf(w) \in Nat /\ QuantityOf(w) > 0
    BY <1>1 DEF Changes, AssetOf, InstrumentOf, QuantityOf
  <1> QED
    BY <1>2, CollateralAssumption DEF HoldingTypes

LEMMA BeginStep ==
    ASSUME Holdings, NEW w \in Workers, NEW e \in Events, Begin(w, e)
    PROVE  Holdings'
  <1>1. HoldingTypes'
    BY DEF Holdings, HoldingTypes, Begin, Go, Stages, book
  <1>2. Locks'
    BY DEF Holdings, HoldingTypes, Begin, Go, EventIsFree, Locks, AssetOf, InstrumentOf
  <1>3. Fresh'
    BY DEF Holdings, HoldingTypes, Begin, Go, book, Fresh, TotalReserved, VerifiedAvailable,
       AssetOf, InstrumentOf
  <1>4. NoDoublePledge'
    BY DEF Holdings, Begin, book, NoDoublePledge, TotalReserved
  <1> QED
    BY <1>1, <1>2, <1>3, <1>4 DEF Holdings

\* Steps that only go on, from one stage to another, with a lock that is free.
LEMMA GoOn ==
    ASSUME Holdings, NEW w \in Workers,
           \/ Replay(w) \/ LockInstrument(w) \/ LockAsset(w)
    PROVE  Holdings'
  <1>1. HoldingTypes'
    BY DEF Holdings, HoldingTypes, Replay, LockInstrument, LockAsset, Read, Go, Stages, book
  <1>2. Locks'
    <2>1. CASE Replay(w)
      BY <2>1 DEF Holdings, HoldingTypes, Replay, Go, Locks, AssetOf, InstrumentOf
    <2>2. CASE LockInstrument(w)
      BY <2>2 DEF Holdings, HoldingTypes, LockInstrument, Go, InstrumentIsFree, Locks,
         AssetOf, InstrumentOf
    <2>3. CASE LockAsset(w)
      BY <2>3 DEF Holdings, HoldingTypes, LockAsset, Go, AssetIsFree, Locks,
         AssetOf, InstrumentOf
    <2> QED
      BY <2>1, <2>2, <2>3
  <1>3. Fresh'
    <2> SUFFICES ASSUME NEW v \in Workers
                 PROVE  /\ stage'[v] \in {"instrument", "asset"} =>
                              job'[v] \notin movements' /\ read'[v].supply = supply'[InstrumentOf(v)']
                        /\ stage'[v] = "asset" =>
                              /\ read'[v].total = TotalReserved(AssetOf(v))'
                              /\ read'[v].here = reserved'[<<AssetOf(v), InstrumentOf(v)>>']
                              /\ read'[v].behind = VerifiedAvailable(InstrumentOf(v))'
      BY DEF Fresh
    <2>0. /\ AssetOf(v)' = AssetOf(v) /\ InstrumentOf(v)' = InstrumentOf(v)
          /\ UNCHANGED <<book, supply, job>>
          /\ TotalReserved(AssetOf(v))' = TotalReserved(AssetOf(v))
          /\ VerifiedAvailable(InstrumentOf(v))' = VerifiedAvailable(InstrumentOf(v))
      BY DEF Replay, LockInstrument, LockAsset, AssetOf, InstrumentOf, book, TotalReserved,
             VerifiedAvailable
    <2>1. CASE v # w
      <3>1. stage'[v] = stage[v] /\ read'[v] = read[v]
        BY <2>1 DEF Holdings, HoldingTypes, Replay, LockInstrument, LockAsset, Read, Go
      <3> QED
        BY <2>0, <3>1 DEF Holdings, Fresh, book
    <2>2. CASE v = w /\ Replay(w)
      BY <2>2 DEF Holdings, HoldingTypes, Replay, Go
    <2>3. CASE v = w /\ LockInstrument(w)
      BY <2>0, <2>3 DEF Holdings, HoldingTypes, LockInstrument, Go, book
    <2>4. CASE v = w /\ LockAsset(w)
      <3>1. /\ read'[w].supply = read[w].supply
            /\ read'[w].total = TotalReserved(AssetOf(w))
            /\ read'[w].here = reserved[<<AssetOf(w), InstrumentOf(w)>>]
            /\ read'[w].behind = VerifiedAvailable(InstrumentOf(w))
        BY <2>4 DEF Holdings, HoldingTypes, LockAsset, Read
      <3>2. stage[w] = "instrument" /\ stage'[w] = "asset"
        BY <2>4 DEF Holdings, HoldingTypes, LockAsset, Go
      <3> QED
        BY <2>0, <2>4, <3>1, <3>2 DEF Holdings, Fresh, book
    <2> QED
      BY <2>1, <2>2, <2>3, <2>4
  <1>4. NoDoublePledge'
    <2>1. UNCHANGED <<reserved, available, encumbrance>>
      BY DEF Replay, LockInstrument, LockAsset, book
    <2> QED
      BY <2>1 DEF Holdings, NoDoublePledge, TotalReserved
  <1> QED
    BY <1>1, <1>2, <1>3, <1>4 DEF Holdings

LEMMA EndStep ==
    ASSUME Holdings, NEW w \in Workers, End(w)
    PROVE  Holdings'
  <1>1. HoldingTypes'
    BY DEF Holdings, HoldingTypes, End, Stages, book
  <1>2. Locks'
    BY DEF Holdings, HoldingTypes, End, Locks, AssetOf, InstrumentOf
  <1>3. Fresh'
    BY DEF Holdings, HoldingTypes, End, book, Fresh, TotalReserved, VerifiedAvailable,
       AssetOf, InstrumentOf
  <1>4. NoDoublePledge'
    BY DEF Holdings, End, book, NoDoublePledge, TotalReserved
  <1> QED
    BY <1>1, <1>2, <1>3, <1>4 DEF Holdings

\* Tokens are minted only while no worker has read how many there are.
LEMMA MintStep ==
    ASSUME Holdings, NEW i \in Instruments, NEW q \in 1..2, Mint(i, q)
    PROVE  Holdings'
  <1>1. UNCHANGED <<reserved, available, encumbrance, movements, stage, job, read>>
    BY DEF Mint, book, calls
  <1>2. HoldingTypes'
    BY <1>1 DEF Holdings, HoldingTypes, Mint
  <1>3. Locks'
    BY <1>1 DEF Holdings, Locks, AssetOf, InstrumentOf
  <1>4. Fresh'
    <2>1. \A j \in Instruments : j # i => supply'[j] = supply[j]
      BY DEF Holdings, HoldingTypes, Mint
    <2>2. \A w \in Workers : stage[w] \in {"instrument", "asset"} =>
             InstrumentOf(w) # i /\ InstrumentOf(w) \in Instruments
      BY JobParts DEF Mint, InstrumentIsFree, Holdings
    <2> QED
      BY <1>1, <2>1, <2>2 DEF Holdings, Fresh, TotalReserved, VerifiedAvailable,
         AssetOf, InstrumentOf
  <1>5. NoDoublePledge'
    BY <1>1 DEF Holdings, NoDoublePledge, TotalReserved
  <1> QED
    BY <1>2, <1>3, <1>4, <1>5 DEF Holdings

\* What the change writes, in terms of the books as they are.
LEMMA ChangeWrites ==
    ASSUME Holdings, NEW w \in Workers, Change(w), NEW a, NEW i,
           a = AssetOf(w), i = InstrumentOf(w)
    PROVE  LET n == reserved'[<<a, i>>]  old == reserved[<<a, i>>] IN
           /\ a \in Assets /\ i \in Instruments /\ n \in Nat /\ old \in Nat
           /\ reserved' = [reserved EXCEPT ![<<a, i>>] = n]
           /\ \/ /\ IsReserve(w) /\ n = old + QuantityOf(w)
                 /\ TotalReserved(a)' <= AssetQuantity[a]
              \/ /\ ~IsReserve(w) /\ n = old - QuantityOf(w)
                 /\ supply[i] * UnitPerToken[i] <= VerifiedAvailable(i)'
           /\ TotalAfter(w) = TotalReserved(a)'
           /\ reserved' \in [Positions -> Nat]
           /\ \A b \in Assets : b # a => TotalReserved(b)' = TotalReserved(b)
           /\ \A j \in Instruments : VerifiedAvailable(j)' =
                 VerifiedAvailable(j) + IF j = i THEN n - old ELSE 0
  <1> DEFINE q == QuantityOf(w)
             old == reserved[<<a, i>>]
             n == IF IsReserve(w) THEN old + q ELSE old - q
  <1>1. stage[w] = "asset" /\ MayChange(w) /\ WritePosition(w)
    BY DEF Change, Go
  <1>2. a \in Assets /\ i \in Instruments /\ q \in Nat /\ q > 0
    BY <1>1, JobParts DEF Holdings
  <1>3. /\ read[w].supply = supply[i]
        /\ read[w].total = TotalReserved(a) /\ read[w].here = old
        /\ read[w].behind = VerifiedAvailable(i)
    BY <1>1 DEF Holdings, Fresh
  <1>4. reserved \in [Positions -> Nat] /\ old \in Nat
    BY <1>2 DEF Holdings, HoldingTypes, Positions
  <1>5. /\ \A b \in Assets : TotalReserved(b) = OnAsset(reserved, b)
        /\ \A b \in Assets : TotalReserved(b)' = OnAsset(reserved', b)
        /\ \A j \in Instruments : VerifiedAvailable(j) = Behind(reserved, j)
        /\ \A j \in Instruments : VerifiedAvailable(j)' = Behind(reserved', j)
    BY DEF TotalReserved, OnAsset, VerifiedAvailable, Behind
  <1>6. /\ \A b \in Assets : TotalReserved(b) \in Nat
        /\ \A j \in Instruments : VerifiedAvailable(j) \in Nat
    BY <1>4, <1>5, SumsAreNatural
  <1>7. /\ n \in Nat
        /\ TotalAfter(w) = TotalReserved(a) + (n - old)
        /\ reserved' = [reserved EXCEPT ![<<a, i>>] = n]
    <2>1. IsReserve(w) \/ q <= old
      BY <1>1, <1>3 DEF MayChange
    <2>2. n \in Nat
      BY <1>2, <1>4, <2>1
    <2>3. TotalAfter(w) = IF IsReserve(w) THEN TotalReserved(a) + q ELSE TotalReserved(a) - q
      BY <1>3 DEF TotalAfter
    <2>4. /\ TotalAfter(w) = TotalReserved(a) + (n - old)
          /\ old + (TotalAfter(w) - TotalReserved(a)) = n
      BY <1>2, <1>4, <1>6, <2>3
    <2>5. reserved' = [reserved EXCEPT ![<<a, i>>] = old + (TotalAfter(w) - TotalReserved(a))]
      BY <1>1, <1>3 DEF WritePosition
    <2> QED
      BY <2>2, <2>4, <2>5
  <1> HIDE DEF n
  <1>8. PICK f \in [Positions -> Nat] : f = reserved
    BY <1>4
  <1>9. PICK m \in Nat : m = n
    BY <1>7
  <1>10. PICK b \in Assets : b = a
    BY <1>2
  <1>11. PICK j \in Instruments : j = i
    BY <1>2
  <1>12. PICK g \in [Positions -> Nat] : g = reserved' /\ g = [f EXCEPT ![<<b, j>>] = m]
    BY <1>7, <1>8, <1>9, <1>10, <1>11 DEF Positions
  <1>13. /\ \A c \in Assets : OnAsset(g, c) =
               OnAsset(f, c) + IF c = b THEN g[<<b, j>>] - f[<<b, j>>] ELSE 0
         /\ \A c \in Instruments : Behind(g, c) =
               Behind(f, c) + IF c = j THEN g[<<b, j>>] - f[<<b, j>>] ELSE 0
    <2>1. \A p \in Positions : p # <<b, j>> => g[p] = f[p]
      BY <1>12
    <2> QED
      BY <2>1, PositionChange
  <1>14. /\ reserved'[<<a, i>>] = n /\ reserved' \in [Positions -> Nat]
         /\ \A c \in Assets : TotalReserved(c)' =
               TotalReserved(c) + IF c = a THEN n - old ELSE 0
         /\ \A c \in Instruments : VerifiedAvailable(c)' =
               VerifiedAvailable(c) + IF c = i THEN n - old ELSE 0
    <2>1. /\ f[<<b, j>>] = old /\ g[<<b, j>>] = n
          /\ reserved'[<<a, i>>] = n /\ reserved' \in [Positions -> Nat]
      BY <1>8, <1>9, <1>10, <1>11, <1>12 DEF Positions
    <2> HIDE DEF old
    <2>2. \A c \in Assets : OnAsset(g, c) =
             OnAsset(f, c) + IF c = a THEN n - old ELSE 0
      BY <1>10, <1>13, <2>1
    <2>3. \A c \in Instruments : Behind(g, c) =
             Behind(f, c) + IF c = i THEN n - old ELSE 0
      BY <1>11, <1>13, <2>1
    <2>4. /\ \A c \in Assets : TotalReserved(c) = OnAsset(f, c)
          /\ \A c \in Assets : TotalReserved(c)' = OnAsset(g, c)
      BY <1>5, <1>8, <1>12
    <2>5. /\ \A c \in Instruments : VerifiedAvailable(c) = Behind(f, c)
          /\ \A c \in Instruments : VerifiedAvailable(c)' = Behind(g, c)
      BY <1>5, <1>8, <1>12
    <2> QED
      BY <2>1, <2>2, <2>3, <2>4, <2>5
  <1>15. /\ TotalAfter(w) = TotalReserved(a)'
         /\ \A c \in Assets : c # a => TotalReserved(c)' = TotalReserved(c)
    BY <1>2, <1>6, <1>7, <1>14
  <1>16. \/ IsReserve(w) /\ n = old + q /\ TotalReserved(a)' <= AssetQuantity[a]
         \/ ~IsReserve(w) /\ n = old - q /\ supply[i] * UnitPerToken[i] <= VerifiedAvailable(i)'
    <2>1. CASE IsReserve(w)
      BY <1>1, <1>15, <2>1 DEF MayChange, n
    <2>2. CASE ~IsReserve(w)
      <3>1. supply[i] * UnitPerToken[i] <= VerifiedAvailable(i) - q /\ n = old - q
        BY <1>1, <1>3, <2>2 DEF MayChange, n
      <3>2. VerifiedAvailable(i)' = VerifiedAvailable(i) - q
        BY <1>2, <1>4, <1>6, <1>14, <3>1
      <3> QED
        BY <2>2, <3>1, <3>2
    <2> QED
      BY <2>1, <2>2
  <1> QED
    BY <1>2, <1>4, <1>7, <1>14, <1>15, <1>16

LEMMA ChangeStep ==
    ASSUME Holdings, NEW w \in Workers, Change(w)
    PROVE  Holdings'
  <1>0. PICK a, i : a = AssetOf(w) /\ i = InstrumentOf(w)
    OBVIOUS
  <1>1. /\ stage[w] = "asset" /\ stage' = [stage EXCEPT ![w] = "done"]
        /\ movements' = movements \cup {job[w]} /\ UNCHANGED <<supply, job, read>>
        /\ encumbrance' = [encumbrance EXCEPT ![a] =
               IF TotalAfter(w) = 0 THEN "RELEASED" ELSE "LOCKED"]
        /\ available' = [p \in Positions |->
               IF p = <<a, i>> \/ (p[1] = a /\ available[p] # None)
               THEN AssetQuantity[a] - TotalAfter(w) ELSE available[p]]
    BY <1>0 DEF Change, Go, WritePosition
  <1>2. /\ a \in Assets /\ i \in Instruments /\ job[w] \in Events
        /\ AssetQuantity[a] \in Nat /\ QuantityOf(w) \in Nat
    BY <1>0, <1>1, JobParts DEF Holdings
  <1>3. /\ reserved' \in [Positions -> Nat]
        /\ \A p \in Positions : p # <<a, i>> => reserved'[p] = reserved[p]
        /\ TotalAfter(w) = TotalReserved(a)'
        /\ \A b \in Assets : b # a => TotalReserved(b)' = TotalReserved(b)
        /\ \A j \in Instruments : j # i => VerifiedAvailable(j)' = VerifiedAvailable(j) + 0
        /\ IsReserve(w) => TotalReserved(a)' <= AssetQuantity[a]
    <2>1. LET n == reserved'[<<a, i>>]  old == reserved[<<a, i>>] IN
          /\ reserved' = [reserved EXCEPT ![<<a, i>>] = n]
          /\ \/ /\ IsReserve(w) /\ n = old + QuantityOf(w)
                /\ TotalReserved(a)' <= AssetQuantity[a]
             \/ /\ ~IsReserve(w) /\ n = old - QuantityOf(w)
                /\ supply[i] * UnitPerToken[i] <= VerifiedAvailable(i)'
          /\ TotalAfter(w) = TotalReserved(a)'
          /\ reserved' \in [Positions -> Nat]
          /\ \A b \in Assets : b # a => TotalReserved(b)' = TotalReserved(b)
          /\ \A j \in Instruments : VerifiedAvailable(j)' =
                VerifiedAvailable(j) + IF j = i THEN n - old ELSE 0
      BY <1>0, ChangeWrites
    <2>2. \A p \in Positions : p # <<a, i>> => reserved'[p] = reserved[p]
      BY <2>1 DEF Holdings, HoldingTypes
    <2>3. \A j \in Instruments : j # i => VerifiedAvailable(j)' = VerifiedAvailable(j) + 0
      BY <2>1
    <2> QED
      BY <2>1, <2>2, <2>3
  <1>4. /\ \A b \in Assets : TotalReserved(b) \in Nat
        /\ \A j \in Instruments : VerifiedAvailable(j) \in Nat
        /\ TotalReserved(a)' \in Nat
    BY <1>2, <1>3, SumsAreNatural DEF Holdings, HoldingTypes, TotalReserved, VerifiedAvailable,
       OnAsset, Behind
  <1>5. TotalReserved(a)' <= AssetQuantity[a]
    <2>1. TotalReserved(a) <= AssetQuantity[a]
      BY <1>2 DEF Holdings, NoDoublePledge
    <2>2. ~IsReserve(w) => TotalAfter(w) = TotalReserved(a) - QuantityOf(w)
      BY <1>0, <1>1 DEF TotalAfter, Holdings, Fresh
    <2> QED
      BY <1>2, <1>3, <1>4, <2>1, <2>2
  <1>6. HoldingTypes'
    <2>1. AssetQuantity[a] - TotalAfter(w) \in Nat
      BY <1>2, <1>3, <1>4, <1>5
    <2>2. available' \in [Positions -> Nat \cup {None}]
      BY <1>1, <2>1 DEF Holdings, HoldingTypes
    <2> QED
      BY <1>1, <1>2, <1>3, <2>2 DEF Holdings, HoldingTypes, Stages
  <1>7. Locks'
    BY <1>1 DEF Holdings, HoldingTypes, Locks, AssetOf, InstrumentOf
  <1>8. Fresh'
    <2> SUFFICES ASSUME NEW v \in Workers, stage'[v] \in {"instrument", "asset"}
                 PROVE  /\ job'[v] \notin movements' /\ read'[v].supply = supply'[InstrumentOf(v)']
                        /\ stage'[v] = "asset" =>
                              /\ read'[v].total = TotalReserved(AssetOf(v))'
                              /\ read'[v].here = reserved'[<<AssetOf(v), InstrumentOf(v)>>']
                              /\ read'[v].behind = VerifiedAvailable(InstrumentOf(v))'
      BY DEF Fresh
    <2>1. v # w /\ stage'[v] = stage[v]
      BY <1>1 DEF Holdings, HoldingTypes
    <2>2. /\ job[v] # job[w] /\ InstrumentOf(v) # i
          /\ stage[v] = "asset" => AssetOf(v) # a
      BY <1>0, <1>1, <2>1 DEF Holdings, Locks
    <2>3. AssetOf(v)' = AssetOf(v) /\ InstrumentOf(v)' = InstrumentOf(v)
      BY <1>1 DEF AssetOf, InstrumentOf
    <2>4. AssetOf(v) \in Assets /\ InstrumentOf(v) \in Instruments
      BY <2>1, JobParts DEF Holdings
    <2>5. /\ job[v] \notin movements /\ read[v].supply = supply[InstrumentOf(v)]
          /\ stage[v] = "asset" =>
                /\ read[v].total = TotalReserved(AssetOf(v))
                /\ read[v].here = reserved[<<AssetOf(v), InstrumentOf(v)>>]
                /\ read[v].behind = VerifiedAvailable(InstrumentOf(v))
      BY <2>1 DEF Holdings, Fresh
    <2>6. /\ TotalReserved(AssetOf(v))' = OnAsset(reserved', AssetOf(v))
          /\ VerifiedAvailable(InstrumentOf(v))' = Behind(reserved', InstrumentOf(v))
      BY <2>3 DEF TotalReserved, VerifiedAvailable, OnAsset, Behind
    <2>7. /\ \A b \in Assets : TotalReserved(b)' = OnAsset(reserved', b)
          /\ \A j \in Instruments : VerifiedAvailable(j)' = Behind(reserved', j)
      BY DEF TotalReserved, VerifiedAvailable, OnAsset, Behind
    <2>8. stage[v] = "asset" =>
             /\ OnAsset(reserved', AssetOf(v)) = TotalReserved(AssetOf(v))
             /\ Behind(reserved', InstrumentOf(v)) = VerifiedAvailable(InstrumentOf(v))
             /\ reserved'[<<AssetOf(v), InstrumentOf(v)>>] =
                   reserved[<<AssetOf(v), InstrumentOf(v)>>]
      BY <1>3, <1>4, <2>2, <2>4, <2>7 DEF Positions
    <2> QED
      BY <1>1, <2>1, <2>2, <2>3, <2>5, <2>6, <2>8
  <1>9. NoDoublePledge'
    <2> SUFFICES ASSUME NEW b \in Assets
                 PROVE  /\ TotalReserved(b)' <= AssetQuantity[b]
                        /\ \A j \in Instruments :
                              available'[<<b, j>>] \in {None, AssetQuantity[b] - TotalReserved(b)'}
                        /\ encumbrance'[b] = "LOCKED" <=> TotalReserved(b)' > 0
      BY DEF NoDoublePledge
    <2>1. CASE b = a
      <3>1. \A j \in Instruments :
               available'[<<b, j>>] \in {None, AssetQuantity[b] - TotalReserved(b)'}
        <4> SUFFICES ASSUME NEW j \in Instruments
                     PROVE  available'[<<b, j>>] \in {None, AssetQuantity[b] - TotalReserved(b)'}
          OBVIOUS
        <4>1. <<b, j>> \in Positions /\ <<b, j>>[1] = b
          BY DEF Positions
        <4>2. available'[<<b, j>>] \in {available[<<b, j>>], AssetQuantity[a] - TotalAfter(w)}
          BY <1>1, <4>1
        <4>3. available[<<b, j>>] # None =>
                 available'[<<b, j>>] = AssetQuantity[a] - TotalAfter(w)
          BY <1>1, <2>1, <4>1
        <4> QED
          BY <1>3, <2>1, <4>2, <4>3
      <3>2. encumbrance'[b] = "LOCKED" <=> TotalReserved(b)' > 0
        <4>1. encumbrance'[b] = IF TotalAfter(w) = 0 THEN "RELEASED" ELSE "LOCKED"
          BY <1>1, <1>2, <2>1 DEF Holdings, HoldingTypes
        <4>2. TotalAfter(w) = TotalReserved(b)' /\ TotalReserved(b)' \in Nat
          BY <1>3, <1>4, <2>1
        <4> QED
          BY <4>1, <4>2
      <3> QED
        BY <1>5, <2>1, <3>1, <3>2
    <2>2. CASE b # a
      <3>1. /\ \A j \in Instruments : available'[<<b, j>>] = available[<<b, j>>]
            /\ encumbrance'[b] = encumbrance[b]
        BY <1>1, <2>2 DEF Positions, Holdings, HoldingTypes
      <3> QED
        BY <1>3, <2>2, <3>1 DEF Holdings, NoDoublePledge
    <2> QED
      BY <2>1, <2>2
  <1> QED
    BY <1>6, <1>7, <1>8, <1>9 DEF Holdings

\* Nothing is reserved at first.
LEMMA HoldingsInit == Init => Holdings
  <1> SUFFICES ASSUME Init PROVE Holdings
    OBVIOUS
  <1>1. HoldingTypes
    BY DEF Init, CollateralInit, HoldingTypes, Stages
  <1>2. Locks /\ Fresh
    BY DEF Init, CollateralInit, Locks, Fresh
  <1>3. \A a \in Assets : TotalReserved(a) = 0
    <2>1. \A a \in Assets : \A p \in {a} \X Instruments : reserved[p] = 0
      BY DEF Init, CollateralInit, Positions
    <2> QED
      BY <2>1, PositionsAreFinite, SumZero DEF TotalReserved
  <1>4. NoDoublePledge
    <2>1. \A a \in Assets : AssetQuantity[a] \in Nat
      BY CollateralAssumption
    <2>2. /\ \A a \in Assets, i \in Instruments : available[<<a, i>>] = None
          /\ \A a \in Assets : encumbrance[a] = "UNKNOWN"
      BY DEF Init, CollateralInit, Positions
    <2> QED
      BY <1>3, <2>1, <2>2 DEF NoDoublePledge
  <1> QED
    BY <1>1, <1>2, <1>4 DEF Holdings

LEMMA HoldingsStep == Holdings /\ [Next]_allvars => Holdings'
  <1> SUFFICES ASSUME Holdings, [Next]_allvars PROVE Holdings'
    OBVIOUS
  <1>1. CASE UNCHANGED <<book, calls, supply>>
    <2>1. UNCHANGED <<reserved, available, encumbrance, movements, supply, stage, job, read>>
      BY <1>1 DEF book, calls
    <2>2. HoldingTypes'
      BY <2>1 DEF Holdings, HoldingTypes
    <2>3. Locks'
      BY <2>1 DEF Holdings, Locks, AssetOf, InstrumentOf
    <2>4. Fresh'
      BY <2>1 DEF Holdings, Fresh, TotalReserved, VerifiedAvailable, AssetOf, InstrumentOf
    <2>5. NoDoublePledge'
      BY <2>1 DEF Holdings, NoDoublePledge, TotalReserved
    <2> QED
      BY <2>2, <2>3, <2>4, <2>5 DEF Holdings
  <1>2. ASSUME NEW w \in Workers,
               \/ \E e \in Events : Begin(w, e)
               \/ Replay(w) \/ LockInstrument(w) \/ LockAsset(w) \/ Change(w) \/ End(w)
        PROVE  Holdings'
    <2>1. CASE \E e \in Events : Begin(w, e)
      BY <2>1, BeginStep
    <2>2. CASE Replay(w) \/ LockInstrument(w) \/ LockAsset(w)
      BY <2>2, GoOn
    <2>3. CASE Change(w)
      BY <2>3, ChangeStep
    <2>4. CASE End(w)
      BY <2>4, EndStep
    <2> QED
      BY <1>2, <2>1, <2>2, <2>3, <2>4
  <1>3. ASSUME NEW i \in Instruments, NEW q \in 1..2, Mint(i, q) PROVE Holdings'
    BY <1>3, MintStep
  <1> QED
    BY <1>1, <1>2, <1>3, HoldingSteps

LEMMA HoldingsInvariant == Spec => []Holdings
  BY HoldingsInit, HoldingsStep, PTL DEF Spec

\* However the calls of the collateral ledger interleave, stop or die: no asset is
\* pledged twice, and every position shows what is left of its asset.
THEOREM CollateralNoDoublePledge == Spec => []NoDoublePledge
  <1>1. Holdings => NoDoublePledge
    BY DEF Holdings
  <1> QED
    BY <1>1, HoldingsInvariant, PTL

-----------------------------------------------------------------------------
(* Refinement of Pledges *)

\* Pledges sums in the same way.
LEMMA PledgeSums ==
    ASSUME NEW f, NEW S
    PROVE  Pledge!SumFunctionOnSet(f, S) = SumFunctionOnSet(f, S)
  BY DEF SumFunctionOnSet, Pledge!SumFunctionOnSet, FoldFunctionOnSet,
     Pledge!FoldFunctionOnSet, MapThenFoldSet, Pledge!MapThenFoldSet

LEMMA PledgeReads ==
    ASSUME NEW a, NEW i
    PROVE  /\ Pledge!OnAsset(a) = TotalReserved(a) /\ Pledge!Behind(i) = VerifiedAvailable(i)
           /\ Pledge!OnAsset(a)' = TotalReserved(a)'
           /\ Pledge!Behind(i)' = VerifiedAvailable(i)'
  BY PledgeSums DEF Pledge!OnAsset, Pledge!Behind, TotalReserved, VerifiedAvailable

\* The change itself is the step of Pledges; it is for an event of its own.
LEMMA ChangeApplies ==
    ASSUME Holdings, NEW w \in Workers, Change(w)
    PROVE  Pledge!Next
  <1>1. PICK a, i, e : a = AssetOf(w) /\ i = InstrumentOf(w) /\ e = job[w]
    OBVIOUS
  <1>2. stage[w] = "asset"
    BY DEF Change, Go
  <1>3. /\ e \in Events /\ QuantityOf(w) \in Nat /\ QuantityOf(w) > 0
        /\ e \notin movements /\ movements' = movements \cup {e} /\ UNCHANGED supply
    BY <1>1, <1>2, JobParts DEF Holdings, Fresh, Change
  <1> DEFINE n == reserved'[<<a, i>>]
             old == reserved[<<a, i>>]
  <1>4. /\ a \in Assets /\ i \in Instruments /\ n \in Nat /\ old \in Nat
        /\ reserved' = [reserved EXCEPT ![<<a, i>>] = n]
        /\ \/ n = old + QuantityOf(w) /\ TotalReserved(a)' <= AssetQuantity[a]
           \/ /\ n = old - QuantityOf(w)
              /\ supply[i] * UnitPerToken[i] <= VerifiedAvailable(i)'
    BY <1>1, ChangeWrites
  <1>5. /\ Pledge!OnAsset(a)' = TotalReserved(a)'
        /\ supply[i] * UnitPerToken[i] <= VerifiedAvailable(i)' => Pledge!Supported(i)'
    BY <1>3, PledgeReads DEF Pledge!Supported
  <1>6. \/ n > old /\ Pledge!OnAsset(a)' <= AssetQuantity[a]
        \/ n \in 0..old - 1 /\ Pledge!Supported(i)'
    BY <1>3, <1>4, <1>5
  <1> QED
    BY <1>3, <1>4, <1>6 DEF Pledge!Next, Pledge!Apply

LEMMA MintSupports ==
    ASSUME Holdings, NEW i \in Instruments, NEW q \in 1..2, Mint(i, q)
    PROVE  Pledge!Mint(i)
  <1>1. /\ supply[i] \in Nat /\ supply' = [supply EXCEPT ![i] = supply[i] + q]
        /\ supply'[i] = supply[i] + q
        /\ (supply[i] + q) * UnitPerToken[i] <= VerifiedAvailable(i)
        /\ UNCHANGED <<reserved, movements>>
    BY DEF Mint, Holdings, HoldingTypes, book
  <1>2. Pledge!Behind(i)' = VerifiedAvailable(i)
    BY <1>1, PledgeReads DEF VerifiedAvailable
  <1>3. Pledge!Supported(i)'
    BY <1>1, <1>2 DEF Pledge!Supported
  <1>4. supply' = [supply EXCEPT ![i] = supply'[i]]
    BY <1>1
  <1>5. supply'[i] > supply[i]
    BY <1>1
  <1> QED
    BY <1>1, <1>3, <1>4, <1>5 DEF Pledge!Mint

\* Concurrent calls look as if each reservation, release and mint happened in one
\* step, with an event of its own, and nothing is released from under tokens.
THEOREM CollateralImplementsPledges == Spec => ImplementsPledges
  <1>1. Init => Pledge!Init
    BY DEF Init, CollateralInit, Pledge!Init, Positions
  <1>2. ASSUME Holdings, [Next]_allvars PROVE [Pledge!Next]_(Pledge!vars)
    <2>1. CASE UNCHANGED <<book, calls, supply>>
      BY <2>1 DEF book, Pledge!vars
    <2>2. ASSUME NEW w \in Workers,
                 \/ \E e \in Events : Begin(w, e)
                 \/ Replay(w) \/ LockInstrument(w) \/ LockAsset(w) \/ End(w)
          PROVE  UNCHANGED Pledge!vars
      BY <2>2 DEF Begin, Replay, LockInstrument, LockAsset, End, book, Pledge!vars
    <2>3. ASSUME NEW w \in Workers, Change(w) PROVE Pledge!Next
      BY <1>2, <2>3, ChangeApplies
    <2>4. ASSUME NEW i \in Instruments, NEW q \in 1..2, Mint(i, q) PROVE Pledge!Next
      BY <1>2, <2>4, MintSupports DEF Pledge!Next
    <2> QED
      BY <1>2, <2>1, <2>2, <2>3, <2>4, HoldingSteps
  <1> QED
    BY <1>1, <1>2, HoldingsInvariant, PTL DEF Spec, ImplementsPledges, Pledge!Spec

-----------------------------------------------------------------------------
(* Drafts, versions and decisions *)

ReachedOf(row) == IF row.status = "SUSPENDED" THEN row.suspendedFrom ELSE row.status

LEMMA RowParts ==
    ASSUME PaperTypes, NEW i \in Instruments, Created(i)
    PROVE  /\ instrument[i] \in InstrumentRows
           /\ instrument[i].version \in 1..Len(versions[i])
           /\ Len(versions[i]) = instrument[i].version
           /\ versions[i] \in Seq(VersionRows)
           /\ Current(i) \in VersionRows
           /\ Reached(i) = ReachedOf(instrument[i])
  <1>1. instrument[i] \in InstrumentRows
    BY DEF PaperTypes, Created
  <1>2. instrument[i].version \in 1..MaxVersion
    BY <1>1 DEF InstrumentRows
  <1>3. Len(versions[i]) = instrument[i].version /\ versions[i] \in Seq(VersionRows)
    BY DEF PaperTypes
  <1>4. instrument[i].version \in 1..Len(versions[i])
    BY <1>2, <1>3, ListingAssumption
  <1>5. versions[i][instrument[i].version] \in VersionRows
    BY <1>3, <1>4
  <1> QED
    BY <1>1, <1>3, <1>4, <1>5 DEF Current, Reached, ReachedOf, Status

\* What a transition does to a row.
LEMMA BecomeParts ==
    ASSUME NEW row \in InstrumentRows, NEW target \in Statuses, MayBecome(row, target),
           row.status = "SUSPENDED" => row.suspendedFrom # "NONE"
    PROVE  /\ Become(row, target) \in InstrumentRows
           /\ Become(row, target).status = target
           /\ Become(row, target).issuer = row.issuer
           /\ Become(row, target).terms = row.terms
           /\ Become(row, target).version = row.version
           /\ Become(row, target).hash = row.hash
           /\ target = "SUSPENDED" => Become(row, target).suspendedFrom # "NONE"
           /\ \/ ReachedOf(Become(row, target)) = ReachedOf(row)
              \/ <<row.status, target>> \in Forward /\ ReachedOf(row) = row.status
                    /\ ReachedOf(Become(row, target)) = target
  <1>1. target = "SUSPENDED" => row.status \in Suspendable
    BY DEF MayBecome, InstrumentRows, Forward, Suspendable, Statuses
  <1>2. /\ Become(row, target) \in InstrumentRows
        /\ Become(row, target).status = target
        /\ Become(row, target).issuer = row.issuer
        /\ Become(row, target).terms = row.terms
        /\ Become(row, target).version = row.version
        /\ Become(row, target).hash = row.hash
        /\ Become(row, target).suspendedFrom =
              IF target = "SUSPENDED" THEN row.status ELSE "NONE"
    BY <1>1 DEF Become, InstrumentRows, Statuses
  <1>3. "NONE" \notin Suspendable /\ "SUSPENDED" \notin Suspendable
    BY DEF Suspendable
  <1>4. <<row.status, target>> \in Forward => row.status # "SUSPENDED" /\ target # "SUSPENDED"
    BY DEF Forward
  <1> QED
    BY <1>1, <1>2, <1>3, <1>4 DEF ReachedOf, MayBecome

\* An action writes the row of one instrument, with its versions.
Writes(i, row, vs) ==
    /\ instrument' = [instrument EXCEPT ![i] = row]
    /\ versions' = [versions EXCEPT ![i] = vs]
    /\ Len(vs) = row.version
    /\ row.status = "SUSPENDED" => row.suspendedFrom # "NONE"

\* It decides about no other, and leaves the rest well typed.
Decides(i) ==
    /\ decisions' \subseteq DecisionRows /\ promotions' \subseteq Events
    /\ missed' \in [Instruments -> BOOLEAN]
    /\ decisions \subseteq decisions'
    /\ \A d \in decisions' : d \in decisions \/ d.issue = i

\* An action on one instrument leaves the papers of the others as they are.
LEMMA PaperStep ==
    ASSUME Paper, NEW i \in Instruments,
           NEW row \in InstrumentRows, NEW vs \in Seq(VersionRows),
           Writes(i, row, vs), Decides(i), PaperOf(i)'
    PROVE  Paper'
  <1> USE DEF Writes, Decides
  <1>1. /\ instrument'[i] = row /\ versions'[i] = vs /\ Created(i)'
        /\ \A j \in Instruments : j # i =>
              instrument'[j] = instrument[j] /\ versions'[j] = versions[j]
    BY ListingAssumption DEF Paper, PaperTypes, Created
  <1>2. PaperTypes'
    <2>1. /\ instrument' \in [Instruments -> InstrumentRows \cup {None}]
          /\ versions' \in [Instruments -> Seq(VersionRows)]
      BY DEF Paper, PaperTypes
    <2>2. \A j \in Instruments :
             /\ Len(versions'[j]) = IF Created(j)' THEN instrument'[j].version ELSE 0
             /\ Created(j)' /\ Status(j)' = "SUSPENDED" => instrument'[j].suspendedFrom # "NONE"
      BY <1>1 DEF Paper, PaperTypes, Created, Status
    <2> QED
      BY <2>1, <2>2 DEF PaperTypes
  <1>3. \A d \in decisions' : Created(d.issue)'
    <2> TAKE d \in decisions'
    <2>1. d.issue \in Instruments
      BY DEF DecisionRows
    <2> QED
      BY <1>1, <2>1 DEF Paper, Created
  <1>4. ASSUME NEW j \in Instruments, j # i, Created(j)' PROVE PaperOf(j)'
    <2>1. PaperOf(j) /\ instrument'[j] = instrument[j] /\ versions'[j] = versions[j]
      BY <1>1, <1>4 DEF Paper, Created
    <2>2. \A d : d.issue = j => (d \in decisions' <=> d \in decisions)
      BY <1>4
    <2>3. \A v : Endorsers(j, v)' = Endorsers(j, v)
      BY <2>1, <2>2 DEF Endorsers
    <2>4. OnlyCurrent(j)' /\ Hashed(j)'
      BY <2>1 DEF PaperOf, OnlyCurrent, Hashed, Current
    <2>5. Decided(j)'
      BY <2>1, <2>2 DEF PaperOf, Decided, Current
    <2>6. InStep(j)'
      BY <2>1, <2>3 DEF PaperOf, InStep, Current, Reached, Status
    <2> QED
      BY <2>4, <2>5, <2>6 DEF PaperOf
  <1> QED
    BY <1>2, <1>3, <1>4 DEF Paper

LEMMA SetVersionIs ==
    ASSUME PaperTypes, NEW i \in Instruments, Created(i), NEW r \in VersionRows,
           SetVersion(i, r)
    PROVE  \E vs \in Seq(VersionRows) :
              /\ versions' = [versions EXCEPT ![i] = vs]
              /\ Len(vs) = Len(versions[i])
              /\ \A v \in 1..Len(versions[i]) :
                    vs[v] = IF v = instrument[i].version THEN r ELSE versions[i][v]
  <1> DEFINE vs == [versions[i] EXCEPT ![instrument[i].version] = r]
  <1>1. /\ versions[i] \in Seq(VersionRows)
        /\ instrument[i].version \in 1..Len(versions[i])
    BY RowParts
  <1>2. /\ vs \in Seq(VersionRows) /\ Len(vs) = Len(versions[i])
        /\ \A v \in 1..Len(versions[i]) :
              vs[v] = IF v = instrument[i].version THEN r ELSE versions[i][v]
    BY <1>1, ExceptSeq
  <1>3. versions' = [versions EXCEPT ![i] = vs]
    BY DEF SetVersion, PaperTypes
  <1> HIDE DEF vs
  <1> QED
    BY <1>2, <1>3

\* PaperOf, of a row, its versions, the current one and the decisions.
PaperSays(i, row, vs, cur, D) ==
    /\ cur = vs[row.version]
    /\ \A v \in 1..row.version :
          vs[v].published <=> v = row.version /\ cur.state = "APPROVED"
    /\ cur.state \in {"SUBMITTED", "APPROVED"} =>
          /\ IsComplete(cur.passport)
          /\ cur.hash = HashPassport(i, row.terms, row.version, cur.passport)
          /\ row.hash = cur.hash
    /\ \A d \in D : d.issue = i =>
          /\ d.version <= row.version
          /\ d.version = row.version => cur.state # "DRAFT" /\ d.hash = cur.hash
    /\ ReachedOf(row) = "DRAFT" => row.version = 1 /\ cur.state = "DRAFT"
    /\ ReachedOf(row) \notin BeforeApproval => cur.state = "APPROVED"
    /\ cur.state = "APPROVED" =>
          Cardinality({d.operator : d \in {d \in D :
              /\ d.issue = i /\ d.version = row.version
              /\ d.decision = "APPROVE" /\ d.hash = cur.hash}}) >= 2

\* What a step may make of a row with its versions: whoever is past the draft keeps
\* terms and texts, and so does a draft that is not written.
Course(i, row, vs) ==
    /\ ~Created(i) => ReachedOf(row) = "DRAFT" /\ saves'[i] # saves[i]
    /\ Created(i) => LET old == instrument[i] IN
          /\ row.version >= old.version
          /\ ReachedOf(old) # "DRAFT" \/ saves'[i] = saves[i] =>
                /\ row.terms = old.terms
                /\ \A v \in 1..old.version : vs[v].passport = versions[i][v].passport
          /\ \A v \in 1..old.version : vs[v].state = "DRAFT" => versions[i][v].state = "DRAFT"
          /\ ReachedOf(row) = ReachedOf(old) \/ <<ReachedOf(old), ReachedOf(row)>> \in Forward
          /\ row.status = "APPROVED" => old.status \in {"APPROVED", "UNDER_REVIEW"}

\* A step with the papers of at most one instrument.
Courses ==
    /\ Paper'
    /\ \A i \in Instruments :
          IF Created(i)' THEN Course(i, instrument'[i], versions'[i]) ELSE ~Created(i)

LEMMA SameCourse ==
    ASSUME PaperTypes, NEW i \in Instruments, instrument'[i] = instrument[i],
           versions'[i] = versions[i]
    PROVE  IF Created(i)' THEN Course(i, instrument'[i], versions'[i]) ELSE ~Created(i)
  <1>1. Created(i) => instrument[i].version \in Nat
    BY ListingAssumption DEF PaperTypes, Created, InstrumentRows
  <1> QED
    BY <1>1 DEF Course, Created

LEMMA PaperAfter ==
    ASSUME Paper, NEW i \in Instruments,
           NEW row \in InstrumentRows, NEW vs \in Seq(VersionRows), NEW cur,
           Writes(i, row, vs), Decides(i), PaperSays(i, row, vs, cur, decisions'),
           Course(i, row, vs)
    PROVE  Courses
  <1>1. instrument'[i] = row /\ versions'[i] = vs
    BY DEF Paper, PaperTypes, Writes
  <1>2. Current(i)' = cur /\ Reached(i)' = ReachedOf(row)
    BY <1>1 DEF Current, Reached, Status, ReachedOf, PaperSays
  <1>3. OnlyCurrent(i)'
    BY <1>1, <1>2 DEF OnlyCurrent, PaperSays
  <1>4. Hashed(i)'
    BY <1>1, <1>2 DEF Hashed, PaperSays
  <1>5. Decided(i)'
    BY <1>1, <1>2 DEF Decided, PaperSays
  <1>6. InStep(i)'
    <2>1. Endorsers(i, instrument[i].version)' =
             {d.operator : d \in {d \in decisions' :
                  /\ d.issue = i /\ d.version = row.version
                  /\ d.decision = "APPROVE" /\ d.hash = cur.hash}}
      BY <1>1 DEF Endorsers, PaperSays
    <2> QED
      BY <1>1, <1>2, <2>1 DEF InStep, PaperSays
  <1>7. Paper'
    BY <1>3, <1>4, <1>5, <1>6, PaperStep DEF PaperOf
  <1>8. ASSUME NEW j \in Instruments
        PROVE  IF Created(j)' THEN Course(j, instrument'[j], versions'[j]) ELSE ~Created(j)
    <2>1. CASE j = i
      BY <1>1, <2>1, ListingAssumption DEF Created
    <2>2. CASE j # i
      <3>1. instrument'[j] = instrument[j] /\ versions'[j] = versions[j]
        BY <2>2 DEF Paper, PaperTypes, Writes
      <3> QED
        BY <3>1, SameCourse DEF Paper
    <2> QED
      BY <2>1, <2>2
  <1> QED
    BY <1>7, <1>8 DEF Courses

\* And before a step.
LEMMA PaperBefore ==
    ASSUME Paper, NEW i \in Instruments, Created(i)
    PROVE  PaperSays(i, instrument[i], versions[i], Current(i), decisions)
  <1>1. PaperOf(i) /\ Reached(i) = ReachedOf(instrument[i])
        /\ Current(i) = versions[i][instrument[i].version]
    BY RowParts DEF Paper, Current
  <1>2. Endorsers(i, instrument[i].version) =
             {d.operator : d \in {d \in decisions :
                  /\ d.issue = i /\ d.version = instrument[i].version
                  /\ d.decision = "APPROVE" /\ d.hash = Current(i).hash}}
    BY <1>1 DEF Endorsers
  <1>3. OnlyCurrent(i) /\ Hashed(i) /\ Decided(i) /\ InStep(i)
    BY <1>1 DEF PaperOf
  <1> QED
    BY <1>1, <1>2, <1>3 DEF OnlyCurrent, Hashed, Decided, InStep, PaperSays

LEMMA CreateDraftPaper ==
    ASSUME Paper, NEW i \in Instruments, NEW u \in Issuers, NEW t \in Terms,
           NEW p \in Passports, CreateDraft(i, u, t, p), saves'[i] # saves[i]
    PROVE  Courses
  <1>1. PICK row, cur : row = NewInstrument(u, t) /\ cur = NewVersion(p)
    OBVIOUS
  <1>2. PICK vs : vs = <<cur>>
    OBVIOUS
  <1>3. row \in InstrumentRows /\ cur \in VersionRows
    BY <1>1, ListingAssumption DEF NewInstrument, NewVersion, InstrumentRows, VersionRows,
       VersionStates, Statuses, Suspendable
  <1>4. vs \in Seq(VersionRows) /\ Len(vs) = 1 /\ vs[1] = cur
    BY <1>2, <1>3
  <1>5. /\ row.status = "DRAFT" /\ row.version = 1 /\ row.hash = None
        /\ cur.state = "DRAFT" /\ cur.published = FALSE
    BY <1>1 DEF NewInstrument, NewVersion
  <1>6. /\ instrument' = [instrument EXCEPT ![i] = row]
        /\ versions' = [versions EXCEPT ![i] = vs]
        /\ UNCHANGED <<decisions, promotions, missed>> /\ ~Created(i)
    BY <1>1, <1>2 DEF CreateDraft, SetInstrument
  <1>7. Writes(i, row, vs)
    BY <1>4, <1>5, <1>6 DEF Writes
  <1>8. Decides(i) /\ \A d \in decisions' : d.issue # i
    BY <1>6 DEF Paper, PaperTypes, Decides
  <1>9. PaperSays(i, row, vs, cur, decisions')
    BY <1>4, <1>5, <1>8 DEF PaperSays, ReachedOf, BeforeApproval
  <1>10. Course(i, row, vs)
    BY <1>5, <1>6 DEF Course, ReachedOf
  <1> QED
    BY <1>3, <1>4, <1>7, <1>8, <1>9, <1>10, PaperAfter

LEMMA UpdateDraftPaper ==
    ASSUME Paper, NEW i \in Instruments, NEW u, NEW v, NEW t \in Terms,
           NEW p \in Passports, UpdateDraft(i, u, v, t, p),
           saves'[i] # saves[i]
    PROVE  Courses
  <1>0. /\ PaperTypes /\ Created(i) /\ Status(i) = "DRAFT" /\ Current(i).state = "DRAFT"
        /\ PaperSays(i, instrument[i], versions[i], Current(i), decisions)
    BY PaperBefore DEF Paper, UpdateDraft, MaySave
  <1>1. PICK row, cur : /\ row = [instrument[i] EXCEPT !.terms = t]
                        /\ cur = [Current(i) EXCEPT !.passport = p]
    OBVIOUS
  <1>2. /\ row \in InstrumentRows /\ row.version = instrument[i].version
        /\ row.status = "DRAFT" /\ ReachedOf(row) = "DRAFT" /\ ReachedOf(instrument[i]) = "DRAFT"
    BY <1>0, <1>1, RowParts DEF InstrumentRows, Status, ReachedOf
  <1>3. /\ cur \in VersionRows /\ cur.state = "DRAFT"
        /\ cur.published = Current(i).published
    BY <1>0, <1>1, RowParts DEF VersionRows
  <1>4. SetVersion(i, cur) /\ instrument' = [instrument EXCEPT ![i] = row]
        /\ UNCHANGED <<decisions, promotions, missed>>
    BY <1>1 DEF UpdateDraft, SetInstrument
  <1>5. PICK vs \in Seq(VersionRows) :
              /\ versions' = [versions EXCEPT ![i] = vs]
              /\ Len(vs) = row.version
              /\ \A k \in 1..row.version :
                    vs[k] = IF k = row.version THEN cur ELSE versions[i][k]
    BY <1>0, <1>2, <1>3, <1>4, SetVersionIs, RowParts
  <1>6. row.version \in 1..row.version
    BY <1>0, <1>2, RowParts
  <1>7. Writes(i, row, vs) /\ Decides(i)
    BY <1>0, <1>2, <1>4, <1>5 DEF Writes, Decides, PaperTypes
  <1>8. PaperSays(i, row, vs, cur, decisions')
    BY <1>0, <1>2, <1>3, <1>4, <1>5, <1>6 DEF PaperSays, BeforeApproval
  <1>9. Course(i, row, vs)
    <2>1. \A k \in 1..instrument[i].version :
             vs[k].state = "DRAFT" => versions[i][k].state = "DRAFT"
      BY <1>0, <1>2, <1>3, <1>5 DEF Current
    <2>2. row.version = instrument[i].version /\ instrument[i].version \in Nat
      BY <1>0, <1>2, RowParts, ListingAssumption DEF InstrumentRows
    <2> QED
      BY <1>0, <1>2, <2>1, <2>2 DEF Course
  <1> QED
    BY <1>2, <1>5, <1>7, <1>8, <1>9, PaperAfter

LEMMA SubmitPaper ==
    ASSUME Paper, NEW i \in Instruments, NEW u, NEW v, Submit(i, u, v)
    PROVE  Courses
  <1>0. /\ PaperTypes /\ Created(i) /\ Current(i).state = "DRAFT"
        /\ Status(i) \in {"DRAFT", "UNDER_REVIEW"} /\ v = instrument[i].version
        /\ IsComplete(Current(i).passport)
        /\ PaperSays(i, instrument[i], versions[i], Current(i), decisions)
    BY PaperBefore DEF Paper, Submit, MaySubmit
  <1>1. PICK hash : hash = HashPassport(i, instrument[i].terms, v, Current(i).passport)
    OBVIOUS
  <1>2. PICK hashed, cur : /\ hashed = [instrument[i] EXCEPT !.hash = hash]
                           /\ cur = [Current(i) EXCEPT !.state = "SUBMITTED", !.hash = hash]
    OBVIOUS
  <1>3. PICK row : row = IF Status(i) = "DRAFT" THEN Become(hashed, "UNDER_REVIEW") ELSE hashed
    OBVIOUS
  <1>4. hash \in Hashes
    BY <1>0, <1>1, RowParts DEF HashPassport, Hashes, InstrumentRows, VersionRows
  <1>5. /\ hashed \in InstrumentRows /\ hashed.version = instrument[i].version
        /\ hashed.terms = instrument[i].terms /\ hashed.status = Status(i) /\ hashed.hash = hash
    BY <1>0, <1>2, <1>4, RowParts DEF InstrumentRows, Status
  <1>6. /\ row \in InstrumentRows /\ row.version = instrument[i].version
        /\ row.terms = instrument[i].terms /\ row.status = "UNDER_REVIEW" /\ row.hash = hash
    <2>1. CASE Status(i) = "DRAFT"
      BY <1>3, <1>5, <2>1 DEF Become, InstrumentRows, Statuses, Suspendable
    <2>2. CASE Status(i) = "UNDER_REVIEW"
      BY <1>3, <1>5, <2>2
    <2> QED
      BY <1>0, <2>1, <2>2
  <1>7. /\ cur \in VersionRows /\ cur.state = "SUBMITTED" /\ cur.hash = hash
        /\ cur.passport = Current(i).passport /\ cur.published = Current(i).published
    BY <1>0, <1>2, <1>4, RowParts DEF VersionRows, VersionStates
  <1>8. /\ SetVersion(i, cur) /\ UNCHANGED <<decisions, promotions, missed>>
        /\ instrument' = [instrument EXCEPT ![i] = row]
    BY <1>0, <1>1, <1>2, <1>3 DEF Submit, SetInstrument, TransitionWithin
  <1>9. PICK vs \in Seq(VersionRows) :
              /\ versions' = [versions EXCEPT ![i] = vs]
              /\ Len(vs) = row.version
              /\ \A k \in 1..row.version :
                    vs[k] = IF k = row.version THEN cur ELSE versions[i][k]
    BY <1>0, <1>6, <1>7, <1>8, SetVersionIs, RowParts
  <1>10. row.version \in 1..row.version
    BY <1>0, <1>6, RowParts
  <1>11. Writes(i, row, vs) /\ Decides(i)
    BY <1>0, <1>6, <1>8, <1>9 DEF Writes, Decides, PaperTypes
  <1>12. PaperSays(i, row, vs, cur, decisions')
    BY <1>0, <1>1, <1>6, <1>7, <1>8, <1>9, <1>10 DEF PaperSays, BeforeApproval, ReachedOf
  <1>13. Course(i, row, vs)
    <2>1. \/ ReachedOf(row) = ReachedOf(instrument[i])
          \/ <<ReachedOf(instrument[i]), ReachedOf(row)>> \in Forward
      BY <1>0, <1>6 DEF ReachedOf, Forward, Status
    <2>2. \A k \in 1..row.version :
             /\ vs[k].passport = versions[i][k].passport
             /\ vs[k].state = "DRAFT" => versions[i][k].state = "DRAFT"
      BY <1>6, <1>7, <1>9 DEF Current
    <2>3. row.version >= instrument[i].version
      BY <1>0, <1>6, RowParts
    <2> QED
      BY <1>0, <1>6, <2>1, <2>2, <2>3 DEF Course, Status
  <1> QED
    BY <1>6, <1>9, <1>11, <1>12, <1>13, PaperAfter

LEMMA RevisePaper ==
    ASSUME Paper, NEW i \in Instruments, NEW p \in Passports, RevisePassport(i, p)
    PROVE  Courses
  <1>0. /\ PaperTypes /\ Created(i) /\ Current(i).state = "RETURNED"
        /\ Status(i) = "UNDER_REVIEW" /\ instrument[i].version < MaxVersion
        /\ PaperSays(i, instrument[i], versions[i], Current(i), decisions)
    BY PaperBefore DEF Paper, RevisePassport
  <1>1. PICK row, cur :
           /\ row = [instrument[i] EXCEPT !.version = instrument[i].version + 1, !.hash = None]
           /\ cur = NewVersion(p)
    OBVIOUS
  <1>2. PICK vs : vs = Append(versions[i], cur)
    OBVIOUS
  <1>3. /\ instrument[i] \in InstrumentRows /\ instrument[i].version \in Nat
        /\ Len(versions[i]) = instrument[i].version /\ versions[i] \in Seq(VersionRows)
    BY <1>0, RowParts
  <1>4. /\ row \in InstrumentRows /\ row.version = instrument[i].version + 1
        /\ row.status = "UNDER_REVIEW"
    <2>1. instrument[i].version + 1 \in 1..MaxVersion
      BY <1>0, <1>3, ListingAssumption
    <2> QED
      BY <1>0, <1>1, <1>3, <2>1 DEF InstrumentRows, Status
  <1>5. /\ cur \in VersionRows /\ cur.state = "DRAFT" /\ cur.published = FALSE
    BY <1>1 DEF NewVersion, VersionRows, VersionStates
  <1>6. /\ vs \in Seq(VersionRows) /\ Len(vs) = row.version /\ vs[row.version] = cur
        /\ \A k \in 1..instrument[i].version : vs[k] = versions[i][k]
    BY <1>2, <1>3, <1>4, <1>5, AppendProperties
  <1>7. /\ instrument' = [instrument EXCEPT ![i] = row]
        /\ versions' = [versions EXCEPT ![i] = vs]
        /\ UNCHANGED <<decisions, promotions, missed>>
    BY <1>0, <1>1, <1>2 DEF RevisePassport, SetInstrument, PaperTypes
  <1>8. Writes(i, row, vs) /\ Decides(i)
    BY <1>0, <1>4, <1>6, <1>7 DEF Writes, Decides, PaperTypes
  <1>9. PaperSays(i, row, vs, cur, decisions')
    <2>1. \A k \in 1..row.version : vs[k].published <=> k = row.version /\ cur.state = "APPROVED"
      <3> TAKE k \in 1..row.version
      <3>1. CASE k = row.version
        BY <1>5, <1>6, <3>1
      <3>2. CASE k # row.version
        <4>1. k \in 1..instrument[i].version
          BY <1>3, <1>4, <3>2
        <4>2. versions[i][k].published <=> k = instrument[i].version /\ Current(i).state = "APPROVED"
          BY <1>0, <4>1 DEF PaperSays
        <4> QED
          BY <1>0, <1>6, <3>2, <4>1, <4>2
      <3> QED
        BY <3>1, <3>2
    <2>2. \A d \in decisions' : d.issue = i =>
             /\ d.version <= row.version
             /\ d.version = row.version => cur.state # "DRAFT" /\ d.hash = cur.hash
      <3>1. \A d \in decisions' : d.issue = i => d.version \in Nat
                                                /\ d.version <= instrument[i].version
        BY <1>0, <1>7, ListingAssumption DEF PaperSays, PaperTypes, DecisionRows
      <3> QED
        BY <1>3, <1>4, <3>1
    <2> QED
      BY <1>4, <1>5, <1>6, <2>1, <2>2 DEF PaperSays, BeforeApproval, ReachedOf
  <1>10. Course(i, row, vs)
    <2>1. row.terms = instrument[i].terms
      BY <1>1, <1>3 DEF InstrumentRows
    <2>2. row.version >= instrument[i].version
      BY <1>3, <1>4
    <2> QED
      BY <1>0, <1>4, <1>6, <2>1, <2>2 DEF Course, ReachedOf, Status
  <1> QED
    BY <1>4, <1>6, <1>8, <1>9, <1>10, PaperAfter

LEMMA ApprovePaper ==
    ASSUME Paper, NEW i \in Instruments, NEW o \in Operators, Approve(i, o)
    PROVE  Courses
  <1>0. /\ PaperTypes /\ Created(i) /\ Current(i).state = "SUBMITTED"
        /\ Status(i) = "UNDER_REVIEW"
        /\ PaperSays(i, instrument[i], versions[i], Current(i), decisions)
    BY PaperBefore DEF Paper, Approve, InReview
  <1>1. PICK one : one = Decision(i, o, "APPROVE")
    OBVIOUS
  <1>2. /\ instrument[i] \in InstrumentRows /\ Current(i) \in VersionRows
        /\ instrument[i].version \in 1..MaxVersion
        /\ versions[i] \in Seq(VersionRows) /\ Len(versions[i]) = instrument[i].version
    BY <1>0, RowParts DEF InstrumentRows
  <1>3. /\ one \in DecisionRows /\ one.issue = i /\ one.version = instrument[i].version
        /\ one.hash = Current(i).hash
    BY <1>1, <1>2 DEF Decision, DecisionRows, VersionRows
  <1>4. decisions' = decisions \cup {one} /\ UNCHANGED <<promotions, missed>>
    BY <1>1 DEF Approve
  <1>5. Decides(i)
    BY <1>0, <1>3, <1>4 DEF Decides, PaperTypes
  <1>6. \A d \in decisions' : d.issue = i =>
           /\ d.version <= instrument[i].version
           /\ d.version = instrument[i].version => d.hash = Current(i).hash
    BY <1>0, <1>2, <1>3, <1>4 DEF PaperSays
  <1>7. CASE UNCHANGED <<instrument, versions>>
    <2>1. Writes(i, instrument[i], versions[i])
      BY <1>0, <1>2, <1>7 DEF Writes, PaperTypes, Status
    <2>2. PaperSays(i, instrument[i], versions[i], Current(i), decisions')
      BY <1>0, <1>6 DEF PaperSays
    <2>3. Course(i, instrument[i], versions[i])
      BY <1>0, <1>2 DEF Course
    <2> QED
      BY <1>2, <1>5, <2>1, <2>2, <2>3, PaperAfter
  <1>8. CASE /\ Cardinality(Approvals(i, decisions')) >= 2
             /\ SetVersion(i, [Current(i) EXCEPT !.state = "APPROVED", !.published = TRUE])
             /\ TransitionWithin(i, "APPROVED", instrument[i])
    <2>1. PICK row, cur :
             /\ row = Become(instrument[i], "APPROVED")
             /\ cur = [Current(i) EXCEPT !.state = "APPROVED", !.published = TRUE]
      OBVIOUS
    <2>2. /\ row \in InstrumentRows /\ row.version = instrument[i].version
          /\ row.terms = instrument[i].terms /\ row.status = "APPROVED"
          /\ row.hash = instrument[i].hash
      BY <1>2, <2>1 DEF Become, InstrumentRows, Statuses, Suspendable
    <2>3. /\ cur \in VersionRows /\ cur.state = "APPROVED" /\ cur.hash = Current(i).hash
          /\ cur.passport = Current(i).passport /\ cur.published = TRUE
      BY <1>2, <2>1 DEF VersionRows, VersionStates
    <2>4. SetVersion(i, cur) /\ instrument' = [instrument EXCEPT ![i] = row]
      BY <1>8, <2>1 DEF TransitionWithin, SetInstrument
    <2>5. PICK vs \in Seq(VersionRows) :
                /\ versions' = [versions EXCEPT ![i] = vs]
                /\ Len(vs) = row.version
                /\ \A k \in 1..row.version :
                      vs[k] = IF k = row.version THEN cur ELSE versions[i][k]
      BY <1>0, <1>2, <2>2, <2>3, <2>4, SetVersionIs
    <2>6. row.version \in 1..row.version
      BY <1>2, <2>2
    <2>7. Writes(i, row, vs)
      BY <2>2, <2>4, <2>5 DEF Writes
    <2>8. Approvals(i, decisions') =
             {d.operator : d \in {d \in decisions' :
                  /\ d.issue = i /\ d.version = row.version
                  /\ d.decision = "APPROVE" /\ d.hash = cur.hash}}
      BY <1>6, <2>2, <2>3 DEF Approvals
    <2>9. PaperSays(i, row, vs, cur, decisions')
      <3>1. \A k \in 1..row.version : vs[k].published <=> k = row.version
        BY <1>0, <2>2, <2>3, <2>5, <2>6 DEF PaperSays
      <3>2. /\ IsComplete(cur.passport) /\ row.hash = cur.hash
            /\ cur.hash = HashPassport(i, row.terms, row.version, cur.passport)
        BY <1>0, <2>2, <2>3 DEF PaperSays
      <3> QED
        BY <1>6, <1>8, <2>2, <2>3, <2>5, <2>6, <2>8, <3>1, <3>2 DEF PaperSays, ReachedOf
    <2>10. Course(i, row, vs)
      <3>1. <<ReachedOf(instrument[i]), ReachedOf(row)>> \in Forward
        BY <1>0, <2>2 DEF ReachedOf, Forward, Status
      <3>2. \A k \in 1..row.version :
               /\ vs[k].passport = versions[i][k].passport
               /\ vs[k].state = "DRAFT" => versions[i][k].state = "DRAFT"
        BY <2>2, <2>3, <2>5 DEF Current
      <3> QED
        BY <1>0, <1>2, <2>2, <3>1, <3>2 DEF Course, Status
    <2> QED
      BY <1>5, <2>2, <2>5, <2>7, <2>9, <2>10, PaperAfter
  <1> QED
    BY <1>7, <1>8 DEF Approve

LEMMA DismissPaper ==
    ASSUME Paper, NEW i \in Instruments, NEW o \in Operators,
           NEW d \in {"REJECT", "RETURN_FOR_REVISION"}, Dismiss(i, o, d)
    PROVE  Courses
  <1>0. /\ PaperTypes /\ Created(i) /\ Current(i).state = "SUBMITTED"
        /\ Status(i) = "UNDER_REVIEW"
        /\ PaperSays(i, instrument[i], versions[i], Current(i), decisions)
    BY PaperBefore DEF Paper, Dismiss, InReview
  <1>1. PICK one, cur :
           /\ one = Decision(i, o, d)
           /\ cur = [Current(i) EXCEPT !.state = IF d = "REJECT" THEN "REJECTED" ELSE "RETURNED"]
    OBVIOUS
  <1>2. PICK row : row = instrument[i]
    OBVIOUS
  <1>3. /\ row \in InstrumentRows /\ Current(i) \in VersionRows
        /\ row.version \in 1..MaxVersion /\ row.status = "UNDER_REVIEW"
        /\ versions[i] \in Seq(VersionRows) /\ Len(versions[i]) = row.version
    BY <1>0, <1>2, RowParts DEF InstrumentRows, Status
  <1>4. /\ one \in DecisionRows /\ one.issue = i /\ one.version = row.version
        /\ one.hash = Current(i).hash
    BY <1>1, <1>2, <1>3 DEF Decision, DecisionRows, VersionRows
  <1>5. /\ cur \in VersionRows /\ cur.state \in {"REJECTED", "RETURNED"}
        /\ cur.hash = Current(i).hash /\ cur.published = Current(i).published
    BY <1>1, <1>3 DEF VersionRows, VersionStates
  <1>6. /\ decisions' = decisions \cup {one} /\ UNCHANGED <<promotions, missed, instrument>>
        /\ SetVersion(i, cur)
    BY <1>1 DEF Dismiss
  <1>7. PICK vs \in Seq(VersionRows) :
              /\ versions' = [versions EXCEPT ![i] = vs]
              /\ Len(vs) = row.version
              /\ \A k \in 1..row.version :
                    vs[k] = IF k = row.version THEN cur ELSE versions[i][k]
    BY <1>0, <1>2, <1>3, <1>5, <1>6, SetVersionIs
  <1>8. row.version \in 1..row.version
    BY <1>3
  <1>9. Writes(i, row, vs) /\ Decides(i)
    BY <1>0, <1>2, <1>3, <1>4, <1>6, <1>7 DEF Writes, Decides, PaperTypes
  <1>10. PaperSays(i, row, vs, cur, decisions')
    <2>1. \A k \in 1..row.version : ~vs[k].published
      BY <1>0, <1>2, <1>5, <1>7, <1>8 DEF PaperSays
    <2>2. \A e \in decisions' : e.issue = i =>
             /\ e.version <= row.version
             /\ e.version = row.version => e.hash = cur.hash
      BY <1>0, <1>2, <1>3, <1>4, <1>5, <1>6 DEF PaperSays
    <2> QED
      BY <1>3, <1>5, <1>7, <1>8, <2>1, <2>2 DEF PaperSays, ReachedOf, BeforeApproval
  <1>11. Course(i, row, vs)
    <2>1. \A k \in 1..row.version :
             /\ vs[k].passport = versions[i][k].passport
             /\ vs[k].state = "DRAFT" => versions[i][k].state = "DRAFT"
      BY <1>1, <1>2, <1>3, <1>5, <1>7 DEF Current, VersionRows
    <2> QED
      BY <1>0, <1>2, <1>3, <2>1 DEF Course, Status
  <1> QED
    BY <1>3, <1>7, <1>9, <1>10, <1>11, PaperAfter

\* A change of status alone, along a way that begins after approval.
LEMMA BecomePaper ==
    ASSUME Paper, NEW i \in Instruments, Created(i), NEW target \in Statuses,
           target \notin {"UNDER_REVIEW", "APPROVED"},
           TransitionWithin(i, target, instrument[i]), UNCHANGED <<versions, decisions>>,
           promotions' \subseteq Events, missed' \in [Instruments -> BOOLEAN]
    PROVE  Courses
  <1>0. /\ PaperTypes
        /\ Status(i) = "SUSPENDED" => instrument[i].suspendedFrom # "NONE"
        /\ PaperSays(i, instrument[i], versions[i], Current(i), decisions)
        /\ instrument[i] \in InstrumentRows /\ versions[i] \in Seq(VersionRows)
        /\ Len(versions[i]) = instrument[i].version
    BY PaperBefore, RowParts DEF Paper, PaperTypes
  <1>1. PICK cur, row : cur = Current(i) /\ row = Become(instrument[i], target)
    OBVIOUS
  <1> /\ MayBecome(instrument[i], target) /\ instrument' = [instrument EXCEPT ![i] = row]
    BY <1>1 DEF TransitionWithin, SetInstrument
  <1>2. /\ row \in InstrumentRows /\ row.version = instrument[i].version
        /\ row.terms = instrument[i].terms /\ row.hash = instrument[i].hash
        /\ row.status = "SUSPENDED" => row.suspendedFrom # "NONE"
        /\ \/ ReachedOf(row) = ReachedOf(instrument[i])
           \/ /\ <<instrument[i].status, target>> \in Forward
              /\ ReachedOf(instrument[i]) = instrument[i].status
              /\ ReachedOf(row) = target
    BY <1>0, <1>1, BecomeParts DEF Status
  <1>3. \/ ReachedOf(row) = ReachedOf(instrument[i])
        \/ {ReachedOf(row), ReachedOf(instrument[i])} \cap BeforeApproval = {}
    BY <1>2 DEF Forward, BeforeApproval
  <1>4. Writes(i, row, versions[i]) /\ Decides(i)
    BY <1>0, <1>2 DEF Writes, Decides, PaperTypes
  <1>5. PaperSays(i, row, versions[i], cur, decisions')
    BY <1>0, <1>1, <1>2, <1>3 DEF PaperSays, BeforeApproval
  <1>6. Course(i, row, versions[i])
    <2>1. row.status # "APPROVED"
      BY <1>0, <1>1, BecomeParts DEF Status
    <2>2. row.version >= instrument[i].version
      BY <1>0, <1>2, RowParts
    <2> QED
      BY <1>2, <2>1, <2>2 DEF Course
  <1> QED
    BY <1>0, <1>2, <1>4, <1>5, <1>6, PaperAfter

LEMMA PaperUnchanged ==
    ASSUME Paper, UNCHANGED <<instrument, versions, decisions>>,
           promotions' \subseteq Events, missed' \in [Instruments -> BOOLEAN]
    PROVE  Courses
  <1>1. PaperTypes'
    BY DEF Paper, PaperTypes, Created, Status
  <1>2. \A d \in decisions' : Created(d.issue)'
    BY DEF Paper, Created
  <1>3. ASSUME NEW i \in Instruments, Created(i)' PROVE PaperOf(i)'
    <2>1. PaperOf(i)
      BY <1>3 DEF Paper, Created
    <2>2. \A v : Endorsers(i, v)' = Endorsers(i, v)
      BY DEF Endorsers
    <2> QED
      BY <2>1, <2>2 DEF PaperOf, OnlyCurrent, Hashed, Decided, InStep, Current, Reached, Status
  <1>4. Paper'
    BY <1>1, <1>2, <1>3 DEF Paper
  <1> QED
    BY <1>4, SameCourse DEF Courses, Paper

\* Who writes papers, and with what.
LEMMA ListingSteps ==
    ASSUME FormTypes, [Next]_allvars
    PROVE  \/ UNCHANGED <<instrument, versions, decisions, promotions, missed>>
           \/ \E i \in Drafts, u \in Issuers, t \in Terms, p \in Passports :
                 CreateDraft(i, u, t, p) /\ saves'[i] # saves[i]
           \/ \E i \in Drafts, u \in Issuers, v \in 1..MaxVersion, t \in Terms, p \in Passports :
                 UpdateDraft(i, u, v, t, p) /\ saves'[i] # saves[i]
           \/ \E i \in Drafts, u \in Issuers, v \in 1..MaxVersion : Submit(i, u, v)
           \/ \E i \in Instruments : InternalStep(i)
           \/ \E w \in Workers : ApplyCollateralReserved(w) \/ Crash(w)
  <1>1. CASE UNCHANGED allvars
    BY <1>1 DEF allvars, vars, listing
  <1>2. ASSUME NEW p \in Pages, NEW i \in Drafts, NEW answered \in BOOLEAN,
               SaveNew(p, i, answered)
        PROVE  \E u \in Issuers, t \in Terms, r \in Passports :
                  CreateDraft(i, u, t, r) /\ saves'[i] # saves[i]
    <2>1. page[p].saving \in SaveRequests /\ UserOf[p] \in Issuers
      BY <1>2, WizardAssumption DEF SaveNew, FormTypes, PageStates
    <2>2. saves'[i] # saves[i]
      BY <1>2, WizardAssumption DEF SaveNew, Written, FormTypes
    <2> QED
      BY <1>2, <2>1, <2>2 DEF SaveNew, SaveRequests, DraftRows
  <1>3. ASSUME NEW p \in Pages, NEW answered \in BOOLEAN, SaveAgain(p, answered)
        PROVE  \E i \in Drafts, u \in Issuers, v \in 1..MaxVersion, t \in Terms, r \in Passports :
                  UpdateDraft(i, u, v, t, r) /\ saves'[i] # saves[i]
    <2>1. page[p].saving \in SaveRequests /\ UserOf[p] \in Issuers
      BY <1>3, WizardAssumption DEF SaveAgain, FormTypes, PageStates
    <2>2. PICK i, v, t, r : /\ i = page[p].saving.id /\ v = page[p].saving.version
                            /\ t = page[p].saving.draft.terms /\ r = page[p].saving.draft.passport
      OBVIOUS
    <2>3. /\ i \in Drafts /\ v \in 1..MaxVersion /\ t \in Terms /\ r \in Passports
          /\ UpdateDraft(i, UserOf[p], v, t, r) /\ saves' = [saves EXCEPT ![i] = @ + 1]
      BY <1>3, <2>1, <2>2 DEF SaveAgain, SaveRequests, DraftRows, Written
    <2>4. saves'[i] # saves[i]
      BY <2>3, WizardAssumption DEF FormTypes
    <2> QED
      BY <2>1, <2>3, <2>4
  <1>4. ASSUME NEW p \in Pages, NEW answered \in BOOLEAN, Submitted(p, answered)
        PROVE  \E i \in Drafts, u \in Issuers, v \in 1..MaxVersion : Submit(i, u, v)
    <2>1. page[p].submitting \in SubmitRequests /\ UserOf[p] \in Issuers
      BY <1>4, WizardAssumption DEF Submitted, FormTypes, PageStates
    <2> QED
      BY <1>4, <2>1 DEF Submitted, SubmitRequests
  <1>5. ASSUME NEW p \in Pages,
               \/ \E id \in Drafts \cup {None} : Open(p, id)
               \/ Fetch(p) \/ Hydrate(p) \/ Save(p) \/ Sign(p)
               \/ \E s \in Sections : \E t \in Texts[s] : Type(p, s, t)
               \/ \E t \in Terms : ChooseTerms(p, t)
               \/ \E n \in 1..Review : ChooseStep(p, n)
               \/ SaveFails(p) \/ SubmitIncomplete(p) \/ SubmitFails(p)
        PROVE  UNCHANGED <<instrument, versions, decisions, promotions, missed>>
    BY <1>5 DEF vars, listing, Open, Fetch, Hydrate, Save, Sign, Type, ChooseTerms, ChooseStep,
       SaveFails, SubmitIncomplete, SubmitFails
  <1>6. ASSUME NEW p \in Pages, PageStep(p)
        PROVE  \/ UNCHANGED <<instrument, versions, decisions, promotions, missed>>
               \/ \E i \in Drafts, u \in Issuers, t \in Terms, r \in Passports :
                     CreateDraft(i, u, t, r) /\ saves'[i] # saves[i]
               \/ \E i \in Drafts, u \in Issuers, v \in 1..MaxVersion, t \in Terms,
                     r \in Passports : UpdateDraft(i, u, v, t, r) /\ saves'[i] # saves[i]
               \/ \E i \in Drafts, u \in Issuers, v \in 1..MaxVersion : Submit(i, u, v)
    BY <1>2, <1>3, <1>4, <1>5, <1>6 DEF PageStep
  <1>7. ASSUME NEW w \in Workers, WorkerStep(w)
        PROVE  \/ UNCHANGED <<instrument, versions, decisions, promotions, missed>>
               \/ ApplyCollateralReserved(w) \/ Crash(w)
    BY <1>7 DEF WorkerStep, Finish, listing
  <1> QED
    BY <1>1, <1>6, <1>7 DEF Next

LEMMA InternalPaper ==
    ASSUME Paper, NEW i \in Instruments, InternalStep(i)
    PROVE  Courses
  <1>1. ASSUME NEW r \in Revisions, RevisePassport(i, r) PROVE Courses
    BY <1>1, RevisePaper, WizardAssumption
  <1>2. ASSUME NEW o \in Operators,
               Approve(i, o) \/ Dismiss(i, o, "REJECT") \/ Dismiss(i, o, "RETURN_FOR_REVISION")
        PROVE  Courses
    BY <1>2, ApprovePaper, DismissPaper
  <1>3. ASSUME NEW target \in Statuses, Transition(i, target) PROVE Courses
    <2>1. /\ TransitionWithin(i, target, instrument[i]) /\ Created(i)
          /\ target \notin {"UNDER_REVIEW", "APPROVED"}
          /\ UNCHANGED <<versions, decisions, promotions, missed>>
      BY <1>3 DEF Transition
    <2>2. promotions' \subseteq Events /\ missed' \in [Instruments -> BOOLEAN]
      BY <2>1 DEF Paper, PaperTypes
    <2> QED
      BY <2>1, <2>2, BecomePaper
  <1>4. ASSUME NEW q \in 1..2, Mint(i, q) PROVE Courses
    BY <1>4, PaperUnchanged DEF Mint, listing, Paper, PaperTypes
  <1> QED
    BY <1>1, <1>2, <1>3, <1>4 DEF InternalStep

LEMMA WorkerPaper ==
    ASSUME HoldingTypes, Paper, NEW w \in Workers, ApplyCollateralReserved(w) \/ Crash(w),
           Created(InstrumentOf(w))
    PROVE  Courses
  <1>1. PICK i : i = InstrumentOf(w)
    OBVIOUS
  <1>2. stage[w] # "idle" /\ i \in Instruments /\ job[w] \in Events /\ Created(i)
    BY <1>1, JobParts DEF ApplyCollateralReserved, Crash
  <1>3. /\ promotions' \subseteq Events /\ missed' \in [Instruments -> BOOLEAN]
        /\ UNCHANGED <<versions, decisions>>
    BY <1>1, <1>2 DEF ApplyCollateralReserved, Crash, Paper, PaperTypes, IsReserve
  <1>4. CASE TransitionWithin(i, "COLLATERALIZED", instrument[i])
    BY <1>2, <1>3, <1>4, BecomePaper DEF Statuses, Suspendable
  <1>5. CASE UNCHANGED instrument
    BY <1>3, <1>5, PaperUnchanged
  <1> QED
    BY <1>1, <1>4, <1>5 DEF ApplyCollateralReserved, Crash

LEMMA PaperInit == Init => Paper
  <1> SUFFICES ASSUME Init PROVE Paper
    OBVIOUS
  <1>1. PaperTypes /\ \A i \in Instruments : ~Created(i)
    BY DEF Init, ListingInit, PaperTypes, Created
  <1> QED
    BY <1>1 DEF Paper, Init, ListingInit

LEMMA CoursesStep ==
    ASSUME HoldingTypes, Paper, Reports, FormTypes, [Next]_allvars
    PROVE  Courses
  <1>1. Drafts \subseteq Instruments
    BY WizardAssumption
  <1>2. CASE UNCHANGED <<instrument, versions, decisions, promotions, missed>>
    BY <1>2, PaperUnchanged DEF Paper, PaperTypes
  <1>3. ASSUME NEW i \in Drafts, NEW u \in Issuers, NEW t \in Terms, NEW p \in Passports,
               CreateDraft(i, u, t, p), saves'[i] # saves[i]
        PROVE  Courses
    BY <1>1, <1>3, CreateDraftPaper
  <1>4. ASSUME NEW i \in Drafts, NEW u \in Issuers, NEW v \in 1..MaxVersion, NEW t \in Terms,
               NEW p \in Passports, UpdateDraft(i, u, v, t, p), saves'[i] # saves[i]
        PROVE  Courses
    BY <1>1, <1>4, UpdateDraftPaper
  <1>5. ASSUME NEW i \in Drafts, NEW u \in Issuers, NEW v \in 1..MaxVersion, Submit(i, u, v)
        PROVE  Courses
    BY <1>1, <1>5, SubmitPaper
  <1>6. ASSUME NEW w \in Workers, ApplyCollateralReserved(w) \/ Crash(w) PROVE Courses
    <2>1. Created(InstrumentOf(w))
      BY <1>6 DEF Reports, ApplyCollateralReserved, Crash
    <2> QED
      BY <1>6, <2>1, WorkerPaper
  <1> QED
    BY <1>2, <1>3, <1>4, <1>5, <1>6, InternalPaper, ListingSteps

-----------------------------------------------------------------------------
(* Reports of coverage *)

LEMMA RequiredIs ==
    ASSUME PaperTypes, NEW i \in Instruments, Created(i)
    PROVE  Required(i) \in Nat /\ Required(i) > 0
  <1>1. instrument[i].terms \in Terms
    BY RowParts DEF InstrumentRows
  <1>2. SupplyCap[instrument[i].terms] \in Nat \ {0} /\ UnitPerToken[i] \in Nat \ {0}
    BY <1>1, ListingAssumption, CollateralAssumption
  <1>3. \A m, n \in Nat \ {0} : m * n \in Nat /\ m * n > 0
    OBVIOUS
  <1> QED
    BY <1>2, <1>3 DEF Required

LEMMA AvailableIs ==
    ASSUME HoldingTypes, NEW i \in Instruments
    PROVE  VerifiedAvailable(i) \in Nat
  BY SumsAreNatural DEF HoldingTypes, VerifiedAvailable, Behind

LEMMA CoveredOwes ==
    ASSUME HoldingTypes, Paper, Reports
    PROVE  CoveredIsPromoted
  <1> SUFFICES ASSUME NEW i \in Instruments, Created(i), Status(i) = "APPROVED", Covered(i)
               PROVE  Pending(i)
    BY DEF CoveredIsPromoted, Pending
  <1>1. VerifiedAvailable(i) > 0
    BY RequiredIs, AvailableIs DEF Covered, Paper
  <1> QED
    BY <1>1 DEF Reports, Owes

\* Who owes a report after a step that reserves nothing has owed it before.
LEMMA OwedBefore ==
    ASSUME HoldingTypes, HoldingTypes', Paper, Reports, Courses, NEW i \in Instruments,
           VerifiedAvailable(i)' <= VerifiedAvailable(i), Owes(i)'
    PROVE  Pending(i)
  <1>1. /\ VerifiedAvailable(i) \in Nat /\ VerifiedAvailable(i)' \in Nat
        /\ VerifiedAvailable(i)' > 0 /\ Created(i)'
    BY AvailableIs, SumsAreNatural DEF HoldingTypes, VerifiedAvailable, Behind, Owes
  <1>2. VerifiedAvailable(i) > 0 /\ Created(i)
    BY <1>1 DEF Reports
  <1>3. PICK row, vs : row = instrument'[i] /\ vs = versions'[i] /\ Course(i, row, vs)
    BY <1>1 DEF Courses
  <1>4. /\ Reached(i) = ReachedOf(instrument[i]) /\ Reached(i)' = ReachedOf(row)
        /\ Status(i)' = row.status
    BY <1>3 DEF Reached, ReachedOf, Status
  <1>5. CASE Reached(i)' \in BeforeApproval
    <2>1. Reached(i) \in BeforeApproval
      BY <1>2, <1>3, <1>4, <1>5 DEF Course, Forward, BeforeApproval
    <2> QED
      BY <1>2, <2>1 DEF Reports, Owes
  <1>6. CASE Status(i)' = "APPROVED" /\ Covered(i)'
    <2>1. CASE Status(i) = "UNDER_REVIEW"
      BY <1>2, <2>1 DEF Reports, Owes, Reached, BeforeApproval
    <2>2. CASE Status(i) = "APPROVED"
      <3>1. row.terms = instrument[i].terms
        BY <1>2, <1>3, <1>4, <2>2 DEF Course, Reached
      <3>2. Required(i)' = Required(i)
        BY <1>3, <3>1 DEF Required
      <3>3. Covered(i)
        BY <1>1, <1>2, <1>6, <3>2, RequiredIs DEF Covered, Paper
      <3> QED
        BY <1>2, <2>2, <3>3 DEF Reports, Owes
    <2> QED
      BY <1>2, <1>3, <1>4, <1>6, <2>1, <2>2 DEF Course, Status
  <1> QED
    BY <1>5, <1>6 DEF Owes

\* What is left to show of a step.
LEMMA ReportsAfter ==
    ASSUME HoldingTypes, HoldingTypes', Paper, Reports, Courses,
           \A w \in Workers : stage'[w] # "idle" => Created(InstrumentOf(w)'),
           \A e \in promotions' \ promotions :
              /\ Created(Says[e].instrument)'
              /\ Reached(Says[e].instrument)' \notin BeforeApproval \cup {"APPROVED"},
           \A i \in Instruments :
              \/ Pending(i)'
              \/ ~Owes(i)'
              \/ VerifiedAvailable(i)' <= VerifiedAvailable(i) /\ ~Pending(i),
           \A i \in Instruments : ~Created(i) =>
              VerifiedAvailable(i)' <= VerifiedAvailable(i)
    PROVE  Reports'
  <1>1. \A i \in Instruments : Created(i) => Created(i)'
    BY DEF Courses
  <1>2. \A w \in Workers : stage'[w] # "idle" => Created(InstrumentOf(w))'
    <2> TAKE w \in Workers
    <2>1. stage'[w] # "idle" => InstrumentOf(w)' \in Instruments
      BY CollateralAssumption DEF HoldingTypes, InstrumentOf, Changes
    <2> QED
      BY <1>1, <2>1 DEF Created, InstrumentOf
  <1>3. \A e \in promotions' :
           /\ Created(Says[e].instrument)'
           /\ Reached(Says[e].instrument)' \notin BeforeApproval \cup {"APPROVED"}
    <2> SUFFICES ASSUME NEW e \in promotions' PROVE
           /\ Created(Says[e].instrument)'
           /\ Reached(Says[e].instrument)' \notin BeforeApproval \cup {"APPROVED"}
      OBVIOUS
    <2>1. CASE e \in promotions
      <3>1. PICK i \in Instruments : i = Says[e].instrument
        BY <2>1, CollateralAssumption DEF Paper, PaperTypes, Changes
      <3>2. Created(i) /\ Reached(i) \notin BeforeApproval \cup {"APPROVED"}
        BY <2>1, <3>1 DEF Reports
      <3>3. Created(i)' /\ Course(i, instrument'[i], versions'[i])
        BY <3>2 DEF Courses
      <3>4. /\ Reached(i) = ReachedOf(instrument[i])
            /\ Reached(i)' = ReachedOf(instrument'[i])
        BY DEF Reached, ReachedOf, Status
      <3>5. Reached(i)' \notin BeforeApproval \cup {"APPROVED"}
        BY <3>2, <3>3, <3>4 DEF Course, Forward, BeforeApproval
      <3> QED
        BY <3>1, <3>3, <3>5 DEF Created, Reached, Status
    <2>2. CASE e \notin promotions
      BY <2>2
    <2> QED
      BY <2>1, <2>2
  <1>4. ASSUME NEW i \in Instruments PROVE Owes(i)' => Pending(i)'
    BY OwedBefore
  <1>5. ASSUME NEW i \in Instruments, ~Created(i)' PROVE VerifiedAvailable(i)' = 0
    <2>1. ~Created(i)
      BY <1>1, <1>5
    <2>2. VerifiedAvailable(i) = 0 /\ VerifiedAvailable(i)' \in Nat
      BY <2>1, SumsAreNatural DEF Reports, HoldingTypes, VerifiedAvailable, Behind
    <2> QED
      BY <2>1, <2>2
  <1> QED
    BY <1>2, <1>3, <1>4, <1>5 DEF Reports

\* Who does not work for the collateral ledger does not touch what is owed.
LEMMA ReportSteps ==
    ASSUME [Next]_allvars
    PROVE  \/ UNCHANGED <<book, calls, promotions, missed>>
           \/ \E w \in Workers :
                 \/ \E e \in Events : Created(Says[e].instrument) /\ Begin(w, e) /\ UNCHANGED listing
                 \/ CollateralStep(w) /\ UNCHANGED listing
                 \/ ApplyCollateralReserved(w) \/ Finish(w) \/ Crash(w)
  <1>1. CASE UNCHANGED allvars
    BY <1>1 DEF allvars, vars, listing
  <1>2. ASSUME NEW p \in Pages, PageStep(p)
        PROVE  UNCHANGED <<book, calls, promotions, missed>>
    BY <1>2 DEF PageStep, vars, listing, Open, Fetch, Hydrate, Save, Sign, Type, ChooseTerms,
       ChooseStep, SaveNew, SaveAgain, Submitted, SaveFails, SubmitIncomplete, SubmitFails,
       CreateDraft, UpdateDraft, Submit
  <1>3. ASSUME NEW i \in Instruments, InternalStep(i)
        PROVE  UNCHANGED <<book, calls, promotions, missed>>
    BY <1>3 DEF InternalStep, RevisePassport, Approve, Dismiss, Transition, Mint, listing
  <1> QED
    BY <1>1, <1>2, <1>3 DEF Next, WorkerStep

LEMMA QuietReports ==
    ASSUME HoldingTypes, HoldingTypes', Paper, Reports, Courses,
           UNCHANGED <<book, calls, promotions, missed>>
    PROVE  Reports'
  <1>1. UNCHANGED <<reserved, stage, job, promotions, missed>>
    BY DEF book, calls
  <1>2. \A i \in Instruments : VerifiedAvailable(i)' = VerifiedAvailable(i)
    BY <1>1 DEF VerifiedAvailable
  <1>3. \A i \in Instruments : VerifiedAvailable(i)' <= VerifiedAvailable(i)
    BY <1>2, AvailableIs
  <1>4. \A i \in Instruments : Pending(i) => Pending(i)'
    BY <1>1 DEF Pending, IsReserve, InstrumentOf
  <1>5. \A w \in Workers : stage'[w] # "idle" => Created(InstrumentOf(w)')
    BY <1>1 DEF Reports, InstrumentOf
  <1> QED
    BY <1>1, <1>3, <1>4, <1>5, ReportsAfter

\* Steps on the way to the change, which reserve nothing.
LEMMA WaitingReports ==
    ASSUME HoldingTypes, HoldingTypes', Paper, Reports, Courses, NEW w \in Workers,
           UNCHANGED listing, UNCHANGED reserved,
           \/ \E e \in Events : Created(Says[e].instrument) /\ Begin(w, e)
           \/ Replay(w) \/ LockInstrument(w) \/ LockAsset(w)
    PROVE  Reports'
  <1>1. /\ \A v \in Workers : v # w => stage'[v] = stage[v] /\ job'[v] = job[v]
        /\ stage[w] # "done"
        /\ (job'[w] = job[w] /\ stage[w] # "idle") \/ Created(Says[job'[w]].instrument)
    BY DEF HoldingTypes, Begin, Replay, LockInstrument, LockAsset, Go
  <1>2. \A i \in Instruments : VerifiedAvailable(i)' <= VerifiedAvailable(i)
    BY AvailableIs DEF VerifiedAvailable
  <1>3. ASSUME NEW i \in Instruments, Pending(i) PROVE Pending(i)'
    <2>1. CASE missed[i]
      BY <2>1 DEF listing, Pending
    <2>2. CASE \E v \in Workers : stage[v] = "done" /\ IsReserve(v) /\ InstrumentOf(v) = i
      <3>1. PICK v \in Workers : stage[v] = "done" /\ IsReserve(v) /\ InstrumentOf(v) = i
        BY <2>2
      <3>2. stage'[v] = "done" /\ job'[v] = job[v]
        BY <1>1, <3>1
      <3> QED
        BY <3>1, <3>2 DEF Pending, IsReserve, InstrumentOf
    <2> QED
      BY <1>3, <2>1, <2>2 DEF Pending
  <1>4. \A v \in Workers : stage'[v] # "idle" => Created(InstrumentOf(v)')
    BY <1>1 DEF Reports, InstrumentOf
  <1>5. UNCHANGED promotions
    BY DEF listing
  <1> QED
    BY <1>2, <1>3, <1>4, <1>5, ReportsAfter

LEMMA ChangeReports ==
    ASSUME Holdings, Holdings', Paper, Reports, Courses, NEW w \in Workers,
           UNCHANGED listing, Change(w)
    PROVE  Reports'
  <1>1. PICK a, i : a = AssetOf(w) /\ i = InstrumentOf(w)
    OBVIOUS
  <1>2. /\ stage[w] = "asset" /\ stage'[w] = "done" /\ UNCHANGED job
        /\ \A v \in Workers : v # w => stage'[v] = stage[v]
    BY DEF Change, Go, Holdings, HoldingTypes
  <1>3. QuantityOf(w) \in Nat /\ i \in Instruments /\ Created(i)
    BY <1>1, <1>2, JobParts DEF Holdings, Reports
  <1>4. /\ \A j \in Instruments : VerifiedAvailable(j) \in Nat
        /\ \A j \in Instruments : VerifiedAvailable(j)' = VerifiedAvailable(j) +
              IF j = i THEN reserved'[<<a, i>>] - reserved[<<a, i>>] ELSE 0
        /\ reserved'[<<a, i>>] \in Nat /\ reserved[<<a, i>>] \in Nat
        /\ ~IsReserve(w) => reserved'[<<a, i>>] = reserved[<<a, i>>] - QuantityOf(w)
    BY <1>1, ChangeWrites, AvailableIs DEF Holdings
  <1>5. \A j \in Instruments : j # i \/ ~IsReserve(w) =>
           VerifiedAvailable(j)' <= VerifiedAvailable(j)
    BY <1>3, <1>4
  <1>6. ASSUME NEW j \in Instruments, Pending(j) PROVE Pending(j)'
    <2>1. CASE missed[j]
      BY <2>1 DEF listing, Pending
    <2>2. CASE \E v \in Workers : stage[v] = "done" /\ IsReserve(v) /\ InstrumentOf(v) = j
      <3>1. PICK v \in Workers : stage[v] = "done" /\ IsReserve(v) /\ InstrumentOf(v) = j
        BY <2>2
      <3>2. stage'[v] = "done"
        BY <1>2, <3>1
      <3> QED
        BY <1>2, <3>1, <3>2 DEF Pending, IsReserve, InstrumentOf
    <2> QED
      BY <1>6, <2>1, <2>2 DEF Pending
  <1>7. IsReserve(w) => Pending(i)'
    BY <1>1, <1>2 DEF Pending, IsReserve, InstrumentOf
  <1>8. \A v \in Workers : stage'[v] # "idle" => Created(InstrumentOf(v)')
    BY <1>2 DEF Reports, InstrumentOf
  <1>9. UNCHANGED promotions
    BY DEF listing
  <1>10. HoldingTypes /\ HoldingTypes'
    BY DEF Holdings
  <1> QED
    BY <1>3, <1>5, <1>6, <1>7, <1>8, <1>9, <1>10, ReportsAfter

\* A call ends: by then its instrument owes nothing, or the report is missed.
LEMMA EndReports ==
    ASSUME HoldingTypes, HoldingTypes', Paper, Reports, Courses, NEW w \in Workers, End(w),
           NEW i \in Instruments, stage[w] # "idle", i = InstrumentOf(w),
           \A j \in Instruments : j # i => missed'[j] = missed[j],
           stage[w] = "done" /\ IsReserve(w) => missed'[i] \/ ~Owes(i)',
           missed[i] => missed'[i] \/ ~Owes(i)',
           promotions' \subseteq promotions \cup {job[w]},
           job[w] \in promotions' \ promotions =>
              Created(i)' /\ Reached(i)' \notin BeforeApproval \cup {"APPROVED"}
    PROVE  Reports'
  <1>1. /\ \A v \in Workers : v # w => stage'[v] = stage[v] /\ job'[v] = job[v]
        /\ stage'[w] = "idle" /\ UNCHANGED reserved
    BY DEF HoldingTypes, End, book
  <1>2. \A j \in Instruments : VerifiedAvailable(j)' <= VerifiedAvailable(j)
    BY <1>1, AvailableIs DEF VerifiedAvailable
  <1>3. ASSUME NEW j \in Instruments, Pending(j), Owes(j)' PROVE Pending(j)'
    <2>1. CASE missed[j]
      BY <1>3, <2>1 DEF Pending
    <2>2. CASE \E v \in Workers : stage[v] = "done" /\ IsReserve(v) /\ InstrumentOf(v) = j
      <3>1. PICK v \in Workers : stage[v] = "done" /\ IsReserve(v) /\ InstrumentOf(v) = j
        BY <2>2
      <3>2. CASE v = w
        BY <1>3, <3>1, <3>2 DEF Pending
      <3>3. CASE v # w
        <4>1. stage'[v] = "done" /\ job'[v] = job[v]
          BY <1>1, <3>1, <3>3
        <4> QED
          BY <3>1, <4>1 DEF Pending, IsReserve, InstrumentOf
      <3> QED
        BY <3>2, <3>3
    <2> QED
      BY <1>3, <2>1, <2>2 DEF Pending
  <1>4. \A v \in Workers : stage'[v] # "idle" => Created(InstrumentOf(v)')
    BY <1>1 DEF Reports, InstrumentOf
  <1>5. \A e \in promotions' \ promotions :
           /\ Created(Says[e].instrument)'
           /\ Reached(Says[e].instrument)' \notin BeforeApproval \cup {"APPROVED"}
    <2> SUFFICES ASSUME NEW e \in promotions' \ promotions PROVE
           /\ Created(Says[e].instrument)'
           /\ Reached(Says[e].instrument)' \notin BeforeApproval \cup {"APPROVED"}
      OBVIOUS
    <2>1. e = job[w] /\ Says[e].instrument = i
      BY DEF InstrumentOf
    <2> QED
      BY <2>1 DEF Created, Reached, Status
  <1> QED
    BY <1>2, <1>3, <1>4, <1>5, ReportsAfter

LEMMA ApplyReports ==
    ASSUME HoldingTypes, HoldingTypes', Paper, Reports, Courses, NEW w \in Workers,
           ApplyCollateralReserved(w)
    PROVE  Reports'
  <1>1. PICK i : i = InstrumentOf(w)
    OBVIOUS
  <1>2. /\ stage[w] = "done" /\ i \in Instruments /\ job[w] \in Events /\ End(w)
        /\ Created(i) /\ PaperTypes /\ UNCHANGED reserved
    BY <1>1, JobParts DEF ApplyCollateralReserved, Reports, Paper, End, book
  <1>3. CASE Status(i) # "APPROVED"
    <2>1. missed' = [missed EXCEPT ![i] = TRUE] /\ UNCHANGED <<instrument, promotions>>
      BY <1>1, <1>3 DEF ApplyCollateralReserved
    <2>2. missed'[i] /\ \A j \in Instruments : j # i => missed'[j] = missed[j]
      BY <1>2, <2>1 DEF PaperTypes
    <2> QED
      BY <1>1, <1>2, <2>1, <2>2, EndReports
  <1>4. CASE Status(i) = "APPROVED" /\ Covers(w)
    <2>1. /\ missed' = [missed EXCEPT ![i] = FALSE]
          /\ TransitionWithin(i, "COLLATERALIZED", instrument[i])
          /\ promotions' = promotions \cup {job[w]}
      BY <1>1, <1>4 DEF ApplyCollateralReserved
    <2>2. \A j \in Instruments : j # i => missed'[j] = missed[j]
      BY <1>2, <2>1 DEF PaperTypes
    <2>3. instrument'[i] = Become(instrument[i], "COLLATERALIZED")
      BY <1>2, <2>1 DEF PaperTypes, TransitionWithin, SetInstrument
    <2>4. Status(i)' = "COLLATERALIZED"
      BY <1>2, <2>3, RowParts DEF Become, InstrumentRows, Status
    <2>5. ~Owes(i)' /\ Reached(i)' \notin BeforeApproval \cup {"APPROVED"}
      BY <2>4 DEF Owes, Reached, BeforeApproval
    <2>6. Created(i)'
      BY <1>2 DEF Courses
    <2> QED
      BY <1>1, <1>2, <2>1, <2>2, <2>5, <2>6, EndReports
  <1>5. CASE Status(i) = "APPROVED" /\ ~Covers(w)
    <2>1. missed' = [missed EXCEPT ![i] = FALSE] /\ UNCHANGED <<instrument, promotions>>
      BY <1>1, <1>5 DEF ApplyCollateralReserved
    <2>2. \A j \in Instruments : j # i => missed'[j] = missed[j]
      BY <1>2, <2>1 DEF PaperTypes
    <2>3. ~Covered(i)'
      BY <1>1, <1>2, <1>5, <2>1 DEF Covers, Covered, Required, VerifiedAvailable
    <2>4. Status(i)' = "APPROVED"
      BY <1>5, <2>1 DEF Status
    <2>5. ~Owes(i)'
      BY <2>3, <2>4 DEF Owes, Reached, BeforeApproval
    <2> QED
      BY <1>1, <1>2, <2>1, <2>2, <2>5, EndReports
  <1> QED
    BY <1>3, <1>4, <1>5

LEMMA OtherEndReports ==
    ASSUME HoldingTypes, HoldingTypes', Paper, Reports, Courses, NEW w \in Workers,
           (Refuse(w) /\ UNCHANGED listing) \/ Finish(w) \/ Crash(w)
    PROVE  Reports'
  <1>1. PICK i : i = InstrumentOf(w)
    OBVIOUS
  <1>2. /\ stage[w] # "idle" /\ i \in Instruments /\ End(w) /\ PaperTypes
        /\ UNCHANGED <<instrument, promotions>>
    BY <1>1, JobParts DEF Refuse, Finish, Crash, listing, Paper
  <1>3. CASE Refuse(w) /\ UNCHANGED listing
    <2>1. stage[w] # "done" /\ UNCHANGED missed
      BY <1>3 DEF Refuse, listing
    <2> QED
      BY <1>1, <1>2, <2>1, EndReports
  <1>4. CASE Finish(w)
    <2>1. UNCHANGED missed /\ (IsReserve(w) => job[w] \in promotions)
      BY <1>4 DEF Finish, listing
    <2>2. IsReserve(w) => Reached(i) \notin BeforeApproval \cup {"APPROVED"}
      BY <1>1, <2>1 DEF Reports, InstrumentOf
    <2>3. IsReserve(w) => ~Owes(i)'
      BY <1>2, <2>2 DEF Owes, Reached, Status
    <2> QED
      BY <1>1, <1>2, <2>1, <2>3, EndReports
  <1>5. CASE Crash(w)
    <2>1. missed' = [missed EXCEPT ![i] = missed[i] \/ (stage[w] = "done" /\ IsReserve(w))]
      BY <1>1, <1>5 DEF Crash
    <2>2. /\ \A j \in Instruments : j # i => missed'[j] = missed[j]
          /\ missed'[i] = (missed[i] \/ (stage[w] = "done" /\ IsReserve(w)))
      BY <1>2, <2>1 DEF PaperTypes
    <2> QED
      BY <1>1, <1>2, <2>2, EndReports
  <1> QED
    BY <1>3, <1>4, <1>5

LEMMA ReportsStep ==
    ASSUME Holdings, Holdings', Paper, Reports, Courses, [Next]_allvars
    PROVE  Reports'
  <1>0. HoldingTypes /\ HoldingTypes'
    BY DEF Holdings
  <1>1. CASE UNCHANGED <<book, calls, promotions, missed>>
    BY <1>0, <1>1, QuietReports
  <1>2. ASSUME NEW w \in Workers, NEW e \in Events,
               Created(Says[e].instrument) /\ Begin(w, e) /\ UNCHANGED listing
        PROVE  Reports'
    BY <1>0, <1>2, WaitingReports DEF Begin, book
  <1>3. ASSUME NEW w \in Workers, CollateralStep(w) /\ UNCHANGED listing PROVE Reports'
    <2>1. CASE Change(w)
      BY <1>3, <2>1, ChangeReports
    <2>2. CASE Refuse(w)
      BY <1>0, <1>3, <2>2, OtherEndReports
    <2>3. CASE Replay(w) \/ LockInstrument(w) \/ LockAsset(w)
      BY <1>0, <1>3, <2>3, WaitingReports DEF Replay, LockInstrument, LockAsset, book
    <2> QED
      BY <1>3, <2>1, <2>2, <2>3 DEF CollateralStep
  <1>4. ASSUME NEW w \in Workers, ApplyCollateralReserved(w) \/ Finish(w) \/ Crash(w)
        PROVE  Reports'
    BY <1>0, <1>4, ApplyReports, OtherEndReports
  <1> QED
    BY <1>1, <1>2, <1>3, <1>4, ReportSteps

LEMMA ReportsInit == Init => Reports
  <1> SUFFICES ASSUME Init PROVE Reports
    OBVIOUS
  <1>1. \A i \in Instruments : ~Created(i) /\ VerifiedAvailable(i) = 0
    <2>1. \A i \in Instruments : \A p \in Assets \X {i} : reserved[p] = 0
      BY DEF Init, CollateralInit, Positions
    <2> QED
      BY <2>1, PositionsAreFinite, SumZero DEF Init, ListingInit, Created, VerifiedAvailable
  <1>2. promotions = {} /\ \A w \in Workers : stage[w] = "idle"
    BY DEF Init, ListingInit, CollateralInit
  <1> QED
    BY <1>1, <1>2 DEF Reports, Owes

-----------------------------------------------------------------------------
(* What the pages hold *)

LEMMA TextParts ==
    ASSUME NEW r \in Passports
    PROVE  /\ \A c \in Lines : BuildPassport(r, c) \in Passports
           /\ TextOf(r) \in Passports
  <1>1. \A s \in Sections : r[s] \in Seq(Lines)
    BY DEF Passports
  <1>2. \A t \in Seq(Lines), x \in Lines : Append(t, x) \in Seq(Lines)
    BY AppendProperties
  <1>3. \A t \in Seq(Lines) : t # Absent => <<Head(t)>> \in Seq(Lines)
    BY DEF Absent
  <1>4. \A c \in Lines : BuildPassport(r, c) \in Passports
    BY <1>1, <1>2, PassportAssumption DEF BuildPassport, Passports, Absent
  <1>5. TextOf(r) \in Passports
    BY <1>1, <1>3 DEF TextOf, Passports
  <1> QED
    BY <1>4, <1>5

LEMMA StoredIs ==
    ASSUME PaperTypes, NEW i \in Instruments, Created(i)
    PROVE  Stored(i) \in DraftRows /\ instrument[i].version \in 1..MaxVersion
  BY RowParts DEF Stored, Draft, DraftRows, InstrumentRows, VersionRows

LEMMA BuiltIs ==
    ASSUME NEW p \in Pages, page[p] \in PageStates
    PROVE  Build(p) \in DraftRows
  BY TextParts, WizardAssumption DEF Build, Draft, DraftRows, PageStates

\* The other pages stay as they are.
OnePage(p, r) ==
    /\ r \in PageStates
    /\ r.id # None => Created(r.id)'
    /\ r.loading => r.id # None
    /\ Set(p, r)
    /\ saves' \in [Instruments -> Nat]
    /\ sent' \in [Instruments -> Submissions \cup {None}]
    /\ clicks' \in Nat

LEMMA CreatedStays ==
    ASSUME Courses, NEW i \in Instruments, Created(i)
    PROVE  Created(i)'
  BY DEF Courses

LEMMA FormTypesAfter ==
    ASSUME FormTypes, Courses, NEW p \in Pages, NEW r, OnePage(p, r)
    PROVE  FormTypes'
  <1>1. page' = [page EXCEPT ![p] = r] /\ page \in [Pages -> PageStates \cup {None}]
    BY DEF OnePage, Set, FormTypes
  <1>2. page'[p] = r /\ \A q \in Pages : q # p => page'[q] = page[q]
    BY <1>1
  <1>3. page' \in [Pages -> PageStates \cup {None}]
    BY <1>1 DEF OnePage
  <1>4. ASSUME NEW q \in Pages, page'[q] # None
        PROVE  /\ page'[q].id # None => Created(page[q].id)'
               /\ page'[q].loading => page'[q].id # None
    <2>1. CASE q = p
      BY <1>2, <2>1 DEF OnePage, Created
    <2>2. CASE q # p
      <3>1. page'[q] = page[q] /\ page[q] \in PageStates
        BY <1>2, <1>4, <2>2 DEF FormTypes
      <3>2. page[q].id # None => page[q].id \in Instruments
        BY <3>1, WizardAssumption DEF PageStates
      <3>3. page[q].id # None => Created(page[q].id)'
        BY <1>4, <3>1, <3>2, CreatedStays DEF FormTypes, Created
      <3> QED
        BY <1>4, <3>1, <3>3 DEF FormTypes, Created
    <2> QED
      BY <2>1, <2>2
  <1> QED
    BY <1>3, <1>4 DEF OnePage, FormTypes

\* An action of a page, seen from the page.
LEMMA OpenTypes ==
    ASSUME FormTypes, Courses, NEW p \in Pages, NEW id \in Drafts \cup {None}, Open(p, id)
    PROVE  FormTypes'
  <1>1. NewPage(id) \in PageStates
    <2>1. [s \in Sections |-> Absent] \in Passports
      BY DEF Passports, Absent
    <2>2. 1 \in 1..MaxVersion /\ 1 \in 1..Review /\ DefaultTerms \in Terms
      BY ListingAssumption, PassportAssumption, WizardAssumption DEF Review
    <2> QED
      BY <2>1, <2>2 DEF NewPage, PageStates, Times
  <1>2. /\ NewPage(id).id = id /\ NewPage(id).loading = (id # None)
    BY DEF NewPage
  <1>3. id # None => Created(id)'
    BY CreatedStays, WizardAssumption DEF Open
  <1>4. OnePage(p, NewPage(id))
    BY <1>1, <1>2, <1>3 DEF Open, OnePage, FormTypes, Created
  <1> QED
    BY <1>4, FormTypesAfter

LEMMA LoadTypes ==
    ASSUME Paper, FormTypes, Courses, NEW p \in Pages, Fetch(p) \/ Hydrate(p)
    PROVE  FormTypes'
  <1>1. PICK r : r = page[p]
    OBVIOUS
  <1>2. r \in PageStates /\ r # None /\ UNCHANGED <<saves, sent, clicks>>
        /\ (r.id # None => Created(r.id)' /\ r.id \in Instruments)
    BY <1>1, CreatedStays, WizardAssumption DEF Fetch, Hydrate, Shown, FormTypes, PageStates
  <1>3. CASE Fetch(p)
    <2>1. r.id \in Instruments /\ Created(r.id)
      BY <1>1, <1>2, <1>3 DEF Fetch, FormTypes
    <2>2. PICK a : a = [version |-> instrument[r.id].version, draft |-> Stored(r.id),
                        at |-> saves[r.id]]
      OBVIOUS
    <2>3. a \in Answers
      BY <2>1, <2>2, StoredIs DEF Answers, Times, FormTypes, Paper
    <2>4. Set(p, [r EXCEPT !.fetched = a])
      BY <1>1, <1>3, <2>2 DEF Fetch
    <2>5. OnePage(p, [r EXCEPT !.fetched = a])
      BY <1>1, <1>2, <2>1, <2>3, <2>4 DEF OnePage, PageStates, FormTypes, Created
    <2> QED
      BY <2>5, FormTypesAfter
  <1>4. CASE Hydrate(p)
    <2>1. PICK a : a = r.fetched
      OBVIOUS
    <2>2. a \in Answers
      BY <1>1, <1>2, <1>4, <2>1 DEF Hydrate, PageStates
    <2>3. PICK f : f = [r EXCEPT
           !.loading = FALSE, !.fetched = None, !.version = a.version,
           !.terms = a.draft.terms, !.text = TextOf(a.draft.passport),
           !.edited = {}, !.base = a.draft, !.at = a.at]
      OBVIOUS
    <2>4. Set(p, f)
      BY <1>1, <1>4, <2>1, <2>3 DEF Hydrate
    <2>5. a.version \in 1..MaxVersion /\ a.draft \in DraftRows /\ a.at \in Times
          /\ a.draft.terms \in Terms /\ TextOf(a.draft.passport) \in Passports
      BY <2>2, TextParts DEF Answers, DraftRows
    <2>6. f \in PageStates /\ f.id = r.id /\ f.loading = FALSE
      BY <1>2, <2>3, <2>5 DEF PageStates
    <2>7. OnePage(p, f)
      BY <1>1, <1>2, <2>4, <2>6 DEF OnePage, FormTypes, Created
    <2> QED
      BY <2>7, FormTypesAfter
  <1> QED
    BY <1>3, <1>4

\* A page in the state r, which an action changes.
LEMMA PageIs ==
    ASSUME FormTypes, Courses, NEW p \in Pages, page[p] # None, NEW r, r = page[p]
    PROVE  /\ r \in PageStates
           /\ r.id # None => r.id \in Instruments /\ Created(r.id) /\ Created(r.id)'
           /\ r.loading => r.id # None
  <1>1. r \in PageStates
    BY DEF FormTypes
  <1>2. r.id # None => r.id \in Instruments
    BY <1>1, WizardAssumption DEF PageStates
  <1> QED
    BY <1>1, <1>2, CreatedStays DEF FormTypes

\* What the user does, and answers that leave the draft where it is.
LEMMA InputTypes ==
    ASSUME FormTypes, Courses, NEW p \in Pages,
           \/ Save(p) \/ Sign(p)
           \/ \E s \in Sections : \E t \in Texts[s] : Type(p, s, t)
           \/ \E t \in Terms : ChooseTerms(p, t)
           \/ \E n \in 1..Review : ChooseStep(p, n)
           \/ SaveFails(p) \/ SubmitIncomplete(p) \/ SubmitFails(p)
    PROVE  FormTypes'
  <1>1. PICK r : r = page[p]
    OBVIOUS
  <1>2. page[p] # None
    BY DEF Save, Sign, Type, ChooseTerms, ChooseStep, SaveFails, SubmitIncomplete, SubmitFails,
       Shown
  <1>3. /\ r \in PageStates
        /\ r.id # None => r.id \in Instruments /\ Created(r.id) /\ Created(r.id)'
        /\ r.loading => r.id # None
    BY <1>1, <1>2, PageIs
  <1>4. ASSUME NEW f \in PageStates, f.id = r.id, f.loading = r.loading, Set(p, f),
               UNCHANGED <<saves, sent>>, clicks' \in Nat
        PROVE  FormTypes'
    <2>1. OnePage(p, f)
      BY <1>3, <1>4 DEF OnePage, FormTypes, Created
    <2> QED
      BY <2>1, FormTypesAfter
  <1>5. CASE Save(p)
    <2>1. PICK q : q = [id |-> r.id, version |-> r.version, draft |-> Build(p),
                        edited |-> r.edited, at |-> r.at, loading |-> r.loading]
      OBVIOUS
    <2>2. PICK f : f = [r EXCEPT !.saving = q, !.edited = {}]
      OBVIOUS
    <2>3. q \in SaveRequests
      BY <1>1, <1>3, <2>1, BuiltIs DEF PageStates, SaveRequests
    <2>4. f \in PageStates /\ f.id = r.id /\ f.loading = r.loading
      BY <1>3, <2>2, <2>3 DEF PageStates
    <2>5. Set(p, f) /\ UNCHANGED <<saves, sent>> /\ clicks' \in Nat
      BY <1>1, <1>5, <2>1, <2>2 DEF Save, Click, FormTypes
    <2> QED
      BY <1>4, <2>4, <2>5
  <1>6. CASE Sign(p)
    <2>1. PICK q : q = [id |-> r.id, version |-> r.version, shown |-> Build(p),
                        base |-> r.base, at |-> r.at]
      OBVIOUS
    <2>2. PICK f : f = [r EXCEPT !.submitting = q]
      OBVIOUS
    <2>3. q \in SubmitRequests
      BY <1>1, <1>3, <1>6, <2>1, BuiltIs DEF PageStates, SubmitRequests, Sign
    <2>4. f \in PageStates /\ f.id = r.id /\ f.loading = r.loading
      BY <1>3, <2>2, <2>3 DEF PageStates
    <2>5. Set(p, f) /\ UNCHANGED <<saves, sent>> /\ clicks' \in Nat
      BY <1>1, <1>6, <2>1, <2>2 DEF Sign, FormTypes
    <2> QED
      BY <1>4, <2>4, <2>5
  <1>7. ASSUME NEW s \in Sections, NEW t \in Texts[s], Type(p, s, t) PROVE FormTypes'
    <2>1. PICK f : f = [r EXCEPT !.text[s] = t, !.edited = @ \cup {s}]
      OBVIOUS
    <2>2. t \in Seq(Lines)
      BY WizardAssumption
    <2>3. [r.text EXCEPT ![s] = t] \in Passports
      BY <1>3, <2>2 DEF PageStates, Passports
    <2>4. f \in PageStates /\ f.id = r.id /\ f.loading = r.loading
      BY <1>3, <2>1, <2>3 DEF PageStates
    <2>5. Set(p, f) /\ UNCHANGED <<saves, sent>>
      BY <1>1, <1>7, <2>1 DEF Type
    <2>6. clicks' \in Nat
      <3>1. Click
        BY <1>7 DEF Type
      <3> QED
        BY <3>1 DEF Click, FormTypes
    <2> QED
      BY <1>4, <2>4, <2>5, <2>6
  <1>8. ASSUME NEW t \in Terms, ChooseTerms(p, t) PROVE FormTypes'
    <2>1. PICK f : f = [r EXCEPT !.terms = t]
      OBVIOUS
    <2>2. f \in PageStates /\ f.id = r.id /\ f.loading = r.loading
      BY <1>3, <2>1 DEF PageStates
    <2>3. Set(p, f) /\ UNCHANGED <<saves, sent>> /\ clicks' \in Nat
      BY <1>1, <1>8, <2>1 DEF ChooseTerms, Click, FormTypes
    <2> QED
      BY <1>4, <2>2, <2>3
  <1>9. ASSUME NEW n \in 1..Review, ChooseStep(p, n) PROVE FormTypes'
    <2>1. PICK f : f = [r EXCEPT !.step = n]
      OBVIOUS
    <2>2. f \in PageStates /\ f.id = r.id /\ f.loading = r.loading
      BY <1>3, <2>1 DEF PageStates
    <2>3. Set(p, f) /\ UNCHANGED <<saves, sent>> /\ clicks' \in Nat
      BY <1>1, <1>9, <2>1 DEF ChooseStep, FormTypes
    <2> QED
      BY <1>4, <2>2, <2>3
  <1>10. CASE SaveFails(p)
    <2>1. PICK f : f = [r EXCEPT !.saving = None, !.edited = r.edited \cup r.saving.edited]
      OBVIOUS
    <2>2. r.saving.edited \subseteq Sections
      BY <1>1, <1>3, <1>10 DEF SaveFails, PageStates, SaveRequests
    <2>3. f \in PageStates /\ f.id = r.id /\ f.loading = r.loading
      BY <1>3, <2>1, <2>2 DEF PageStates
    <2>4. Set(p, f) /\ UNCHANGED <<saves, sent>> /\ clicks' \in Nat
      BY <1>1, <1>10, <2>1 DEF SaveFails, Unsaved, FormTypes
    <2> QED
      BY <1>4, <2>3, <2>4
  <1>11. CASE SubmitIncomplete(p)
    <2>1. PICK s \in MissingPassportFields(Current(r.submitting.id).passport) :
              Set(p, [r EXCEPT !.submitting = None, !.step = s])
      BY <1>1, <1>11 DEF SubmitIncomplete
    <2>2. PICK f : f = [r EXCEPT !.submitting = None, !.step = s]
      OBVIOUS
    <2>3. s \in 1..Review
      BY PassportAssumption DEF MissingPassportFields, Sections, Review
    <2>4. f \in PageStates /\ f.id = r.id /\ f.loading = r.loading
      BY <1>3, <2>2, <2>3 DEF PageStates
    <2>5. Set(p, f) /\ UNCHANGED <<saves, sent>> /\ clicks' \in Nat
      BY <1>11, <2>1, <2>2 DEF SubmitIncomplete, FormTypes
    <2> QED
      BY <1>4, <2>4, <2>5
  <1>12. CASE SubmitFails(p)
    <2>1. PICK f : f = [r EXCEPT !.submitting = None]
      OBVIOUS
    <2>2. f \in PageStates /\ f.id = r.id /\ f.loading = r.loading
      BY <1>3, <2>1 DEF PageStates
    <2>3. Set(p, f) /\ UNCHANGED <<saves, sent>> /\ clicks' \in Nat
      BY <1>1, <1>12, <2>1 DEF SubmitFails, FormTypes
    <2> QED
      BY <1>4, <2>2, <2>3
  <1> QED
    BY <1>5, <1>6, <1>7, <1>8, <1>9, <1>10, <1>11, <1>12

LEMMA WrittenTypes ==
    ASSUME FormTypes, Courses, NEW p \in Pages, NEW i \in Drafts, NEW answered \in BOOLEAN,
           page[p] # None, page[p].saving # None, Written(p, i, answered), Created(i)'
    PROVE  FormTypes'
  <1>1. PICK r, q : r = page[p] /\ q = r.saving
    OBVIOUS
  <1>2. /\ r \in PageStates
        /\ r.id # None => r.id \in Instruments /\ Created(r.id) /\ Created(r.id)'
        /\ r.loading => r.id # None
        /\ q \in SaveRequests
    BY <1>1, PageIs DEF PageStates
  <1>3. i \in Instruments /\ None \notin Drafts
    BY WizardAssumption
  <1>4. /\ saves[i] + 1 \in Times /\ saves' \in [Instruments -> Nat]
        /\ UNCHANGED <<sent, clicks>>
    BY <1>3 DEF Written, FormTypes, Times
  <1>5. PICK f, g :
           /\ f = [r EXCEPT
                      !.saving = None, !.id = i, !.version = q.version,
                      !.base = q.draft, !.at = saves[i] + 1,
                      !.edited = IF r.loading = q.loading THEN r.edited ELSE Sections,
                      !.step = IF r.step < Review THEN r.step + 1 ELSE r.step]
           /\ g = [r EXCEPT !.saving = None, !.edited = r.edited \cup q.edited]
    OBVIOUS
  <1>6. Set(p, f) \/ Set(p, g)
    BY <1>1, <1>5 DEF Written, Unsaved
  <1>7. g \in PageStates /\ g.id = r.id /\ g.loading = r.loading
    BY <1>2, <1>5 DEF PageStates, SaveRequests
  <1>8. f \in PageStates /\ f.id = i
    <2>1. r.step \in 1..Review /\ Review \in Nat
      BY <1>2, PassportAssumption DEF PageStates, Review
    <2>2. (IF r.step < Review THEN r.step + 1 ELSE r.step) \in 1..Review
      BY <2>1
    <2>3. q.version \in 1..MaxVersion /\ q.draft \in DraftRows
      BY <1>2 DEF SaveRequests
    <2>4. (IF r.loading = q.loading THEN r.edited ELSE Sections) \in SUBSET Sections
      BY <1>2 DEF PageStates
    <2>5. PICK v, d, t, e, n : /\ v = q.version /\ d = q.draft /\ t = saves[i] + 1
                               /\ e = (IF r.loading = q.loading THEN r.edited ELSE Sections)
                               /\ n = (IF r.step < Review THEN r.step + 1 ELSE r.step)
      OBVIOUS
    <2>6. /\ v \in 1..MaxVersion /\ d \in DraftRows /\ t \in Times /\ e \in SUBSET Sections
          /\ n \in 1..Review
      BY <1>4, <2>2, <2>3, <2>4, <2>5
    <2>7. f = [r EXCEPT !.saving = None, !.id = i, !.version = v, !.base = d, !.at = t,
                        !.edited = e, !.step = n]
      BY <1>5, <2>5
    <2> QED
      BY <1>2, <2>6, <2>7 DEF PageStates
  <1>9. ASSUME Set(p, g) PROVE OnePage(p, g)
    BY <1>2, <1>4, <1>7, <1>9 DEF OnePage, FormTypes, Created
  <1>10. ASSUME Set(p, f) PROVE OnePage(p, f)
    BY <1>2, <1>3, <1>4, <1>8, <1>10 DEF OnePage, FormTypes, Created
  <1> QED
    BY <1>6, <1>9, <1>10, FormTypesAfter

LEMMA SubmittedTypes ==
    ASSUME FormTypes, Courses, NEW p \in Pages, NEW answered \in BOOLEAN, Submitted(p, answered)
    PROVE  FormTypes'
  <1>1. PICK r, q : r = page[p] /\ q = r.submitting
    OBVIOUS
  <1>2. /\ r \in PageStates
        /\ r.id # None => r.id \in Instruments /\ Created(r.id) /\ Created(r.id)'
        /\ r.loading => r.id # None
        /\ q \in SubmitRequests
    BY <1>1, PageIs DEF PageStates, Submitted
  <1>3. PICK f : f = [r EXCEPT !.submitting = None, !.open = ~answered]
    OBVIOUS
  <1>4. f \in PageStates /\ f.id = r.id /\ f.loading = r.loading
    BY <1>2, <1>3 DEF PageStates
  <1>5. PICK c : c = [version |-> q.version, shown |-> q.shown,
                      clean |-> q.base = q.shown /\ q.at = saves[q.id]]
    OBVIOUS
  <1>6. c \in Submissions
    BY <1>2, <1>5 DEF SubmitRequests, Submissions
  <1>7. /\ Set(p, f) /\ sent' = [sent EXCEPT ![q.id] = c] /\ UNCHANGED <<saves, clicks>>
    BY <1>1, <1>3, <1>5 DEF Submitted
  <1>8. sent' \in [Instruments -> Submissions \cup {None}]
    BY <1>6, <1>7 DEF FormTypes
  <1>9. OnePage(p, f)
    BY <1>2, <1>4, <1>7, <1>8 DEF OnePage, FormTypes, Created
  <1> QED
    BY <1>9, FormTypesAfter

LEMMA CreatedAfter ==
    ASSUME PaperTypes, NEW i \in Instruments, NEW u \in Issuers, NEW t \in Terms, NEW r,
           CreateDraft(i, u, t, r)
    PROVE  Created(i)'
  <1>1. NewInstrument(u, t) # None
    <2>1. NewInstrument(u, t) \in InstrumentRows
      BY ListingAssumption DEF NewInstrument, InstrumentRows, Statuses, Suspendable
    <2> QED
      BY <2>1, ListingAssumption
  <1> QED
    BY <1>1 DEF CreateDraft, SetInstrument, PaperTypes, Created

LEMMA FormTypesStep ==
    ASSUME Paper, FormTypes, Courses, [Next]_allvars
    PROVE  FormTypes'
  <1>1. CASE UNCHANGED wizard
    <2>1. UNCHANGED <<page, saves, sent, clicks>>
      BY <1>1 DEF wizard
    <2>2. ASSUME NEW p \in Pages, page[p] # None, page[p].id # None PROVE Created(page[p].id)'
      <3>1. page[p].id \in Instruments /\ Created(page[p].id)
        BY <2>2, WizardAssumption DEF FormTypes, PageStates
      <3> QED
        BY <2>1, <3>1, CreatedStays DEF Created
    <2> QED
      BY <2>1, <2>2 DEF FormTypes, Created
  <1>2. ASSUME NEW p \in Pages, PageStep(p) PROVE FormTypes'
    <2>1. ASSUME NEW answered \in BOOLEAN, NEW i \in Drafts, SaveNew(p, i, answered)
          PROVE  FormTypes'
      <3>1. /\ page[p] # None /\ page[p].saving # None /\ Written(p, i, answered)
            /\ i \in Instruments
        BY <2>1, WizardAssumption DEF SaveNew
      <3>2. PICK u, d : u = UserOf[p] /\ d = page[p].saving.draft
        OBVIOUS
      <3>3. u \in Issuers /\ d \in DraftRows
        BY <3>1, <3>2, WizardAssumption DEF FormTypes, PageStates, SaveRequests
      <3>4. CreateDraft(i, u, d.terms, d.passport) /\ d.terms \in Terms
        BY <2>1, <3>2, <3>3 DEF SaveNew, DraftRows
      <3> QED
        BY <3>1, <3>3, <3>4, CreatedAfter, WrittenTypes DEF Paper
    <2>2. ASSUME NEW answered \in BOOLEAN, SaveAgain(p, answered) PROVE FormTypes'
      <3>1. PICK i : i = page[p].saving.id
        OBVIOUS
      <3>2. i \in Drafts /\ page[p] # None /\ page[p].saving # None
        BY <2>2, <3>1 DEF SaveAgain, FormTypes, PageStates, SaveRequests
      <3>3. Written(p, i, answered) /\ Created(i)
        BY <2>2, <3>1 DEF SaveAgain, UpdateDraft, MaySave
      <3> QED
        BY <3>2, <3>3, WrittenTypes, CreatedStays, WizardAssumption
    <2> QED
      BY <1>2, <2>1, <2>2, OpenTypes, LoadTypes, InputTypes, SubmittedTypes DEF PageStep
  <1> QED
    BY <1>1, <1>2 DEF Next, allvars

LEMMA FormTypesInit == Init => FormTypes
  BY DEF Init, FormTypes

-----------------------------------------------------------------------------
(* What holds of the listing *)

Records == Holdings /\ Paper /\ Reports /\ FormTypes

LEMMA RecordsStep == Records /\ [Next]_allvars => Records' /\ Courses
  <1> SUFFICES ASSUME Records, [Next]_allvars PROVE Records' /\ Courses
    OBVIOUS
  <1>1. Holdings'
    BY HoldingsStep DEF Records
  <1>2. Courses
    BY CoursesStep DEF Records, Holdings
  <1>3. Reports'
    BY <1>1, <1>2, ReportsStep DEF Records
  <1>4. FormTypes'
    BY <1>2, FormTypesStep DEF Records
  <1> QED
    BY <1>1, <1>2, <1>3, <1>4 DEF Records, Courses

LEMMA RecordsInvariant == Spec => []Records
  <1>1. Init => Records
    BY HoldingsInit, PaperInit, ReportsInit, FormTypesInit DEF Records
  <1> QED
    BY <1>1, RecordsStep, PTL DEF Spec

\* An approved instrument that is covered is promoted by a call under way, unless
\* a report of its coverage came too early or was lost.
THEOREM ListingCoveredIsPromoted == Spec => []CoveredIsPromoted
  <1>1. Records => CoveredIsPromoted
    BY CoveredOwes DEF Records, Holdings
  <1> QED
    BY <1>1, RecordsInvariant, PTL

\* At most the current version is published.
LEMMA OnMarketIs ==
    ASSUME Paper, NEW i \in Instruments, i \in OnMarket
    PROVE  /\ Created(i) /\ Current(i).state = "APPROVED"
           /\ Max(PublishedVersions(i)) = instrument[i].version
  <1>1. PICK v \in 1..Len(versions[i]) : versions[i][v].published
    BY DEF OnMarket, PublishedVersions
  <1>2. Created(i)
    <2>1. CASE ~Created(i)
      <3>1. Len(versions[i]) = 0
        BY <2>1 DEF Paper, PaperTypes
      <3> QED
        BY <1>1, <3>1
    <2> QED
      BY <2>1
  <1>3. /\ Len(versions[i]) = instrument[i].version /\ instrument[i].version \in Nat
        /\ instrument[i].version \in 1..Len(versions[i])
        /\ OnlyCurrent(i)
    BY <1>2, RowParts DEF Paper, PaperOf
  <1>4. Current(i).state = "APPROVED"
    BY <1>1, <1>3 DEF OnlyCurrent
  <1>5. PublishedVersions(i) = {instrument[i].version}
    BY <1>3, <1>4 DEF OnlyCurrent, PublishedVersions
  <1>6. \A n \in Nat : Max({n}) = n
    BY DEF Max
  <1> QED
    BY <1>2, <1>3, <1>4, <1>5, <1>6

\* Buyers are shown what two operators approved, word for word, and nothing gets
\* past review without it.
THEOREM ListingPublishedIsReviewed == Spec => []PublishedIsReviewed
  <1>1. ASSUME Paper PROVE PublishedIsReviewed
    <2>1. ASSUME NEW i \in OnMarket
          PROVE  LET p == PublicPassport(i) IN
                 /\ IsComplete(p.passport)
                 /\ p.hash = HashPassport(i, p.terms, p.version, p.passport)
                 /\ instrument[i].hash = p.hash
                 /\ Cardinality(Endorsers(i, p.version)) >= 2
      <3>1. /\ i \in Instruments /\ Created(i) /\ Current(i).state = "APPROVED"
            /\ Max(PublishedVersions(i)) = instrument[i].version
        BY <1>1, OnMarketIs DEF OnMarket
      <3>2. PICK p : p = PublicPassport(i)
        OBVIOUS
      <3>3. /\ p.terms = instrument[i].terms /\ p.version = instrument[i].version
            /\ p.passport = Current(i).passport /\ p.hash = Current(i).hash
        BY <3>1, <3>2 DEF PublicPassport, Current
      <3>4. PaperOf(i)
        BY <1>1, <3>1 DEF Paper
      <3> QED
        BY <3>1, <3>2, <3>3, <3>4 DEF PaperOf, Hashed, InStep
    <2>2. ASSUME NEW i \in Instruments, Created(i), Reached(i) \notin BeforeApproval
          PROVE  i \in OnMarket
      <3>1. /\ Current(i).state = "APPROVED" /\ OnlyCurrent(i)
            /\ instrument[i].version \in 1..Len(versions[i])
            /\ Len(versions[i]) = instrument[i].version
        BY <1>1, <2>2, RowParts DEF Paper, PaperOf, InStep
      <3>2. versions[i][instrument[i].version].published
        BY <3>1 DEF OnlyCurrent
      <3> QED
        BY <3>1, <3>2 DEF OnMarket, PublishedVersions
    <2> QED
      BY <2>1, <2>2 DEF PublishedIsReviewed
  <1>2. Records => PublishedIsReviewed
    BY <1>1 DEF Records
  <1> QED
    BY <1>2, RecordsInvariant, PTL

\* An action on one instrument leaves the others where they are.
LEMMA StuckElsewhere ==
    ASSUME PaperTypes, NEW i \in Instruments, Stuck(i),
           instrument'[i] = instrument[i], versions'[i] = versions[i]
    PROVE  Stuck(i)'
  BY DEF Stuck, Created, Current, Status

\* No action writes a rejected version, or leads out of the three suspensions.
LEMMA StuckStays ==
    ASSUME HoldingTypes, Paper, Reports, FormTypes, [Next]_allvars,
           NEW i \in Instruments, Stuck(i)
    PROVE  Stuck(i)'
  <1>1. PaperTypes /\ Drafts \subseteq Instruments
    BY WizardAssumption DEF Paper
  <1>2. ASSUME instrument'[i] = instrument[i], versions'[i] = versions[i]
        PROVE  Stuck(i)'
    BY <1>1, <1>2, StuckElsewhere
  <1>4. ASSUME NEW j \in Drafts, NEW u \in Issuers, NEW t \in Terms, NEW p \in Passports,
               CreateDraft(j, u, t, p)
        PROVE  Stuck(i)'
    BY <1>1, <1>2, <1>4 DEF CreateDraft, SetInstrument, PaperTypes, Stuck
  <1>5. ASSUME NEW j \in Drafts, NEW u \in Issuers, NEW v \in 1..MaxVersion, NEW t \in Terms,
               NEW p \in Passports, UpdateDraft(j, u, v, t, p)
        PROVE  Stuck(i)'
    <2>1. j # i
      BY <1>5 DEF UpdateDraft, MaySave, Stuck
    <2> QED
      BY <1>1, <1>2, <1>5, <2>1 DEF UpdateDraft, SetInstrument, SetVersion, PaperTypes
  <1>6. ASSUME NEW j \in Drafts, NEW u \in Issuers, NEW v \in 1..MaxVersion, Submit(j, u, v)
        PROVE  Stuck(i)'
    <2>1. j # i
      BY <1>6 DEF Submit, MaySubmit, Stuck
    <2> QED
      BY <1>1, <1>2, <1>6, <2>1 DEF Submit, SetInstrument, SetVersion, TransitionWithin, PaperTypes
  <1>7. ASSUME NEW j \in Instruments, InternalStep(j) PROVE Stuck(i)'
    <2>1. ASSUME NEW r \in Revisions, RevisePassport(j, r) PROVE Stuck(i)'
      <3>1. j # i
        BY <2>1 DEF RevisePassport, Stuck
      <3> QED
        BY <1>1, <1>2, <2>1, <3>1 DEF RevisePassport, SetInstrument, PaperTypes
    <2>2. ASSUME NEW o \in Operators, Approve(j, o) PROVE Stuck(i)'
      <3>1. j # i
        BY <2>2 DEF Approve, InReview, Stuck
      <3> QED
        BY <1>1, <1>2, <2>2, <3>1 DEF Approve, SetInstrument, SetVersion, TransitionWithin,
           PaperTypes
    <2>3. ASSUME NEW o \in Operators, NEW d, Dismiss(j, o, d) PROVE Stuck(i)'
      <3>1. j # i
        BY <2>3 DEF Dismiss, InReview, Stuck
      <3> QED
        BY <1>1, <1>2, <2>3, <3>1 DEF Dismiss, SetVersion, PaperTypes
    <2>4. ASSUME NEW target \in Statuses, Transition(j, target) PROVE Stuck(i)'
      <3>1. CASE j # i
        BY <1>1, <1>2, <2>4, <3>1 DEF Transition, TransitionWithin, SetInstrument, PaperTypes
      <3>2. CASE j = i
        <4>1. /\ Created(i) /\ MayBecome(instrument[i], target) /\ UNCHANGED versions
              /\ target \notin {"UNDER_REVIEW", "APPROVED", "COLLATERALIZED"}
              /\ instrument'[i] = Become(instrument[i], target)
          BY <1>1, <2>4, <3>2 DEF Transition, TransitionWithin, SetInstrument, PaperTypes
        <4>2. instrument[i] \in InstrumentRows
              /\ (Status(i) = "SUSPENDED" => instrument[i].suspendedFrom # "NONE")
          BY <1>1, <4>1 DEF PaperTypes, Created
        <4>3. Current(i).state = "REJECTED"
          BY <4>1 DEF Stuck, MayBecome, Status, Suspendable, Forward
        <4>4. /\ Become(instrument[i], target) \in InstrumentRows
              /\ Become(instrument[i], target).version = instrument[i].version
          BY <4>1, <4>2, BecomeParts DEF Status
        <4>5. Created(i)' /\ Current(i)' = Current(i)
          BY <4>1, <4>4, ListingAssumption DEF Created, Current
        <4> QED
          BY <4>3, <4>5 DEF Stuck
      <3> QED
        BY <3>1, <3>2
    <2>5. ASSUME NEW q \in 1..2, Mint(j, q) PROVE Stuck(i)'
      BY <1>2, <2>5 DEF Mint, listing
    <2> QED
      BY <1>7, <2>1, <2>2, <2>3, <2>4, <2>5 DEF InternalStep
  <1>8. ASSUME NEW w \in Workers, ApplyCollateralReserved(w) \/ Crash(w) PROVE Stuck(i)'
    <2>1. CASE UNCHANGED instrument
      BY <1>2, <1>8, <2>1 DEF ApplyCollateralReserved, Crash
    <2>2. PICK j : j = InstrumentOf(w)
      OBVIOUS
    <2>3. CASE Status(j) = "APPROVED" /\ TransitionWithin(j, "COLLATERALIZED", instrument[j])
      <3>1. j # i
        <4>1. CASE j = i
          <5>1. Current(i).state = "REJECTED" /\ Reached(i) = "APPROVED"
            BY <2>3, <4>1 DEF Stuck, Reached
          <5>2. PaperOf(i)
            BY DEF Paper, Stuck
          <5> QED
            BY <5>1, <5>2 DEF PaperOf, InStep, BeforeApproval
        <4> QED
          BY <4>1
      <3> QED
        BY <1>1, <1>2, <1>8, <2>3, <3>1 DEF TransitionWithin, SetInstrument, PaperTypes,
           ApplyCollateralReserved, Crash
    <2> QED
      BY <1>8, <2>1, <2>2, <2>3 DEF ApplyCollateralReserved, Crash
  <1>9. CASE UNCHANGED <<instrument, versions, decisions, promotions, missed>>
    BY <1>2, <1>9
  <1> QED
    BY <1>4, <1>5, <1>6, <1>7, <1>8, <1>9, ListingSteps

\* Who is rejected, or suspended from a status that no command names, stays so.
THEOREM ListingDeadEndsAreFinal == Spec => DeadEndsAreFinal
  <1>1. Records /\ [Next]_allvars => [\A i \in Instruments : Stuck(i) => Stuck(i)']_vars
    BY StuckStays DEF Records, Holdings
  <1> QED
    BY <1>1, RecordsInvariant, PTL DEF Spec, DeadEndsAreFinal

-----------------------------------------------------------------------------
(* What the pages know *)

SavesGrow == \A i \in Instruments : saves'[i] >= saves[i]

LEMMA CourseParts ==
    ASSUME Records, Records', Courses, SavesGrow, NEW i \in Instruments, Created(i)
    PROVE  /\ Created(i)'
           /\ instrument[i].version \in Nat /\ instrument'[i].version \in Nat
           /\ saves[i] \in Nat /\ saves'[i] \in Nat
           /\ instrument'[i].version >= instrument[i].version
           /\ saves'[i] >= saves[i]
           /\ saves'[i] = saves[i] /\ instrument'[i].version = instrument[i].version =>
                 Stored(i)' = Stored(i) /\ Current(i).passport' = Current(i).passport
  <1>1. Created(i)' /\ Course(i, instrument'[i], versions'[i])
    BY DEF Courses
  <1>2. /\ instrument[i].version \in 1..MaxVersion /\ instrument'[i].version \in 1..MaxVersion
        /\ instrument[i].version \in 1..instrument[i].version
    BY <1>1, ListingAssumption DEF Records, Paper, PaperTypes, Created, InstrumentRows
  <1>3. saves[i] \in Nat /\ saves'[i] \in Nat
    BY DEF Records, FormTypes
  <1>4. ASSUME saves'[i] = saves[i], instrument'[i].version = instrument[i].version
        PROVE  Stored(i)' = Stored(i) /\ Current(i).passport' = Current(i).passport
    BY <1>1, <1>2, <1>4 DEF Course, Stored, Draft, Current
  <1> QED
    BY <1>1, <1>2, <1>3, <1>4, ListingAssumption DEF Course, SavesGrow

LEMMA KnowsStays ==
    ASSUME Records, Records', Courses, SavesGrow,
           NEW i, NEW v \in 1..MaxVersion, NEW t \in Times
    PROVE  /\ Known(i, v, t) => Known(i, v, t)'
           /\ \A d : Knows(i, v, t, d) => Knows(i, v, t, d)'
           /\ Known(i, v, t) /\ t # None /\ IsNow(i, v, t)' =>
                 IsNow(i, v, t) /\ Current(i).passport' = Current(i).passport
  <1>1. CASE t = None
    BY <1>1 DEF Known, Knows
  <1>2. CASE t # None /\ Known(i, v, t)
    <2>1. t \in Nat /\ v \in Nat /\ i \in Instruments /\ Created(i)
          /\ i \in Drafts /\ v <= instrument[i].version /\ t <= saves[i]
      BY <1>2, WizardAssumption, ListingAssumption DEF Known, Times
    <2>2. /\ Created(i)' /\ v <= instrument'[i].version /\ t <= saves'[i]
      BY <2>1, CourseParts
    <2>3. Known(i, v, t)'
      BY <2>1, <2>2 DEF Known, Created
    <2>4. IsNow(i, v, t)' =>
             /\ IsNow(i, v, t) /\ Stored(i)' = Stored(i)
             /\ Current(i).passport' = Current(i).passport
      <3> SUFFICES ASSUME t = saves'[i], v = instrument'[i].version
                   PROVE  /\ IsNow(i, v, t) /\ Stored(i)' = Stored(i)
                          /\ Current(i).passport' = Current(i).passport
        BY DEF IsNow
      <3>1. t = saves[i] /\ v = instrument[i].version
        BY <2>1, CourseParts
      <3> QED
        BY <2>1, <3>1, CourseParts DEF IsNow
    <2>5. ASSUME NEW d, Knows(i, v, t, d) PROVE Knows(i, v, t, d)'
      BY <1>2, <2>3, <2>4, <2>5 DEF Knows
    <2> QED
      BY <2>3, <2>4, <2>5
  <1>3. CASE ~Known(i, v, t)
    BY <1>3 DEF Knows
  <1> QED
    BY <1>1, <1>2, <1>3

\* What a page knows it still knows after a step of others.
LEMMA FormKnowsStays ==
    ASSUME Records, Records', Courses, SavesGrow, NEW r \in PageStates, FormKnows(r)
    PROVE  FormKnows(r)'
  <1>1. r.version \in 1..MaxVersion /\ r.at \in Times
    BY DEF PageStates
  <1>2. Knows(r.id, r.version, r.at, r.base)'
    BY <1>1, KnowsStays DEF FormKnows
  <1>3. r.fetched # None => r.fetched.at # None /\
                            Knows(r.id, r.fetched.version, r.fetched.at, r.fetched.draft)'
    <2>1. r.fetched # None => r.fetched.version \in 1..MaxVersion /\ r.fetched.at \in Times
      BY DEF PageStates, Answers
    <2> QED
      BY <2>1, KnowsStays DEF FormKnows
  <1>4. r.submitting # None =>
           /\ Created(r.submitting.id)'
           /\ Knows(r.submitting.id, r.submitting.version, r.submitting.at, r.submitting.base)'
    <2>1. r.submitting # None =>
             /\ r.submitting.version \in 1..MaxVersion /\ r.submitting.at \in Times
             /\ r.submitting.id \in Instruments
      BY WizardAssumption DEF PageStates, SubmitRequests
    <2> QED
      BY <2>1, KnowsStays, CreatedStays DEF FormKnows
  <1> QED
    BY <1>2, <1>3, <1>4 DEF FormKnows

LEMMA SaveKnowsStays ==
    ASSUME Records, Records', Courses, SavesGrow, NEW r \in PageStates, SaveKnows(r)
    PROVE  SaveKnows(r)'
  <1>1. CASE r.saving = None
    BY <1>1 DEF SaveKnows
  <1>2. CASE r.saving # None
    <2>1. PICK q : q = r.saving
      OBVIOUS
    <2>2. q.version \in 1..MaxVersion /\ q.at \in Times
      BY <1>2, <2>1 DEF PageStates, SaveRequests
    <2>3. Known(q.id, q.version, q.at)
      BY <1>2, <2>1 DEF SaveKnows
    <2>4. Known(q.id, q.version, q.at)'
      BY <2>2, <2>3, KnowsStays
    <2>5. q.at # None /\ IsNow(q.id, q.version, q.at)' =>
             /\ IsNow(q.id, q.version, q.at)
             /\ Current(q.id).passport' = Current(q.id).passport
      BY <2>2, <2>3, KnowsStays
    <2>6. q.at # None /\ IsNow(q.id, q.version, q.at)' => \A s \in Sections \ q.edited :
             Kept(s, Current(q.id).passport[s], q.draft.passport[s], CurrencyOf[q.draft.terms])'
      BY <1>2, <2>1, <2>5 DEF SaveKnows, Kept
    <2> QED
      BY <1>2, <2>1, <2>4, <2>6 DEF SaveKnows
  <1> QED
    BY <1>1, <1>2

LEMMA TwoLines ==
    ASSUME NEW x \in Lines, NEW y \in Lines
    PROVE  Append(<<x>>, y) = <<x, y>>
  <1>1. <<x>> \in Seq(Lines) /\ <<x, y>> \in Seq(Lines) /\ Append(<<x>>, y) \in Seq(Lines)
    OBVIOUS
  <1>2. Len(Append(<<x>>, y)) = 2 /\ Append(<<x>>, y)[1] = x /\ Append(<<x>>, y)[2] = y
    OBVIOUS
  <1>3. Len(<<x, y>>) = 2 /\ \A k \in 1..2 : Append(<<x>>, y)[k] = <<x, y>>[k]
    BY <1>2
  <1> QED
    BY <1>1, <1>2, <1>3, SeqEqual

\* What a draft gets of the form, section by section.
LEMMA BuiltAt ==
    ASSUME NEW r, NEW s \in Sections, NEW c
    PROVE  BuildPassport(r, c)[s] =
               IF ~Filled(s, r[s]) THEN Absent
               ELSE IF s = Rights THEN Append(r[s], Disclosure)
               ELSE IF s = Economics THEN Append(r[s], c) ELSE r[s]
  BY DEF BuildPassport, CompletedSteps

\* A form that shows what was stored shows it still when it makes a draft.
LEMMA LoadedShows ==
    ASSUME NEW r \in Passports, NEW s \in Sections
    PROVE  Shows(s, TextOf(r), r)
  <1> SUFFICES ASSUME NEW c \in Lines
               PROVE  Kept(s, r[s], BuildPassport(TextOf(r), c)[s], c)
    BY DEF Shows
  <1>1. PICK t, x : t = TextOf(r)[s] /\ x = Head(r[s])
    OBVIOUS
  <1>2. r[s] \in Seq(Lines) /\ (r[s] # Absent => x \in Lines)
    BY <1>1 DEF Passports, Absent
  <1>3. BuildPassport(TextOf(r), c)[s] =
            IF ~Filled(s, t) THEN Absent
            ELSE IF s = Rights THEN Append(t, Disclosure)
            ELSE IF s = Economics THEN Append(t, c) ELSE t
    BY <1>1, BuiltAt
  <1>4. CASE r[s] = Absent
    <2>1. t = Absent
      BY <1>1, <1>4 DEF TextOf
    <2> QED
      BY <1>3, <1>4, <2>1 DEF Filled, Kept
  <1>5. CASE r[s] # Absent /\ s \in {Rights, Economics}
    <2>1. t = <<x>> /\ t # Absent
      BY <1>1, <1>5 DEF TextOf, Absent
    <2>2. CASE s = Rights
      <3>1. Filled(s, t) <=> x # Blank
        BY <2>1, <2>2 DEF Filled
      <3>2. Append(t, Disclosure) = <<x, Disclosure>>
        BY <1>2, <1>5, <2>1, TwoLines, PassportAssumption
      <3> QED
        BY <1>1, <1>3, <1>5, <2>2, <3>1, <3>2 DEF Kept
    <2>3. CASE s = Economics
      <3>1. s # Rights /\ Filled(s, t)
        BY <2>1, <2>3, PassportAssumption DEF Filled
      <3>2. Append(t, c) = <<x, c>>
        BY <1>2, <1>5, <2>1, TwoLines
      <3> QED
        BY <1>1, <1>3, <1>5, <2>3, <3>1, <3>2 DEF Kept
    <2> QED
      BY <1>5, <2>2, <2>3
  <1>6. CASE r[s] # Absent /\ s \notin {Rights, Economics}
    <2>1. t = r[s] /\ Filled(s, t)
      BY <1>1, <1>6 DEF TextOf, Filled
    <2> QED
      BY <1>3, <1>6, <2>1 DEF Kept
  <1> QED
    BY <1>4, <1>5, <1>6

\* The prices in a draft: a line of the form, and the currency.
LEMMA PricesAre ==
    ASSUME NEW r \in Passports, OneLine(r[Economics]), NEW c \in Lines, NEW after,
           after = BuildPassport(r, c)[Economics]
    PROVE  \/ r[Economics] = Absent /\ after = Absent
           \/ /\ r[Economics] # Absent /\ after # Absent
              /\ after = <<Head(r[Economics]), c>> /\ Head(after) = Head(r[Economics])
  <1>1. Economics \in Sections /\ Economics # Rights
    BY PassportAssumption DEF Sections
  <1>2. PICK t, x : t = r[Economics] /\ x = Head(t)
    OBVIOUS
  <1>3. after = IF t = Absent THEN Absent ELSE Append(t, c)
    BY <1>1, <1>2, BuiltAt DEF Filled
  <1>4. CASE t # Absent
    <2>1. t = <<x>> /\ x \in Lines
      BY <1>1, <1>2, <1>4 DEF OneLine, Passports, Absent
    <2>2. after = <<x, c>>
      BY <1>3, <1>4, <2>1, TwoLines
    <2> QED
      BY <1>2, <1>4, <2>2 DEF Absent
  <1> QED
    BY <1>2, <1>3, <1>4

\* A form shows the draft that it has made, also with another currency.
LEMMA SavedShows ==
    ASSUME NEW r \in Passports, OneLine(r[Economics]), NEW b \in Lines, NEW s \in Sections
    PROVE  Shows(s, r, BuildPassport(r, b))
  <1> SUFFICES ASSUME NEW c \in Lines
               PROVE  Kept(s, BuildPassport(r, b)[s], BuildPassport(r, c)[s], c)
    BY DEF Shows
  <1>1. CASE s = Economics
    BY <1>1, PricesAre DEF Kept
  <1>2. CASE s # Economics
    <2>1. \A x : BuildPassport(r, x)[s] =
              IF ~Filled(s, r[s]) THEN Absent
              ELSE IF s = Rights THEN Append(r[s], Disclosure) ELSE r[s]
      <3> TAKE x
      <3>1. BuildPassport(r, x)[s] =
                IF ~Filled(s, r[s]) THEN Absent
                ELSE IF s = Rights THEN Append(r[s], Disclosure)
                ELSE IF s = Economics THEN Append(r[s], x) ELSE r[s]
        BY BuiltAt
      <3> QED
        BY <1>2, <3>1
    <2> QED
      BY <2>1 DEF Kept
  <1> QED
    BY <1>1, <1>2

LEMMA SavedIsPriced ==
    ASSUME NEW r \in Passports, OneLine(r[Economics]), NEW t \in Terms
    PROVE  Priced(Draft(t, BuildPassport(r, CurrencyOf[t])))
  <1>1. PICK d : d = Draft(t, BuildPassport(r, CurrencyOf[t]))
    OBVIOUS
  <1>2. d.terms = t /\ d.passport = BuildPassport(r, CurrencyOf[t])
    BY <1>1 DEF Draft
  <1>3. CurrencyOf[t] \in Lines
    BY WizardAssumption
  <1>4. Priced(d)
    BY <1>2, <1>3, PricesAre DEF Priced
  <1> QED
    BY <1>1, <1>4

\* A new page, and one that gets the stored draft.
LEMMA NewKnows ==
    ASSUME NEW id \in Drafts \cup {None}
    PROVE  FormKnows(NewPage(id)) /\ SaveKnows(NewPage(id))
  <1>1. /\ NewPage(id).id = id /\ NewPage(id).at = None /\ NewPage(id).base = None
        /\ NewPage(id).version = 1 /\ NewPage(id).fetched = None
        /\ NewPage(id).saving = None /\ NewPage(id).submitting = None
    BY DEF NewPage
  <1>2. OneLine(NewPage(id).text[Economics])
    BY PassportAssumption DEF NewPage, OneLine, Sections
  <1> QED
    BY <1>1, <1>2 DEF FormKnows, SaveKnows, Knows, Known

LEMMA FetchKnows ==
    ASSUME Records, NEW r \in PageStates, FormKnows(r), SaveKnows(r), r.loading,
           r.id \in Drafts, Created(r.id), NEW a,
           a = [version |-> instrument[r.id].version, draft |-> Stored(r.id), at |-> saves[r.id]],
           NEW f, f = [r EXCEPT !.fetched = a]
    PROVE  FormKnows(f) /\ SaveKnows(f)
  <1>1. /\ f.fetched = a /\ f.id = r.id /\ f.loading = r.loading /\ f.version = r.version
        /\ f.at = r.at /\ f.base = r.base /\ f.text = r.text /\ f.edited = r.edited
        /\ f.saving = r.saving /\ f.submitting = r.submitting
    BY DEF PageStates
  <1>2. r.id \in Instruments /\ saves[r.id] \in Nat
    BY WizardAssumption DEF Records, FormTypes
  <1>3. Stored(r.id) \in DraftRows /\ instrument[r.id].version \in Nat
    BY <1>2, StoredIs, ListingAssumption DEF Records, Paper
  <1>4. a.at # None /\ Knows(r.id, a.version, a.at, a.draft)
    BY <1>2, <1>3, CollateralAssumption DEF Knows, Known, IsNow
  <1>5. InFlight(f) = InFlight(r)
    BY <1>1 DEF InFlight
  <1>6. FormKnows(f)
    BY <1>1, <1>4, <1>5 DEF FormKnows
  <1>7. SaveKnows(f)
    BY <1>1 DEF SaveKnows
  <1> QED
    BY <1>6, <1>7

LEMMA HydrateKnows ==
    ASSUME NEW r \in PageStates, FormKnows(r), SaveKnows(r), r.fetched # None,
           r.loading => r.id # None,
           NEW a, a = r.fetched,
           NEW f, f = [r EXCEPT
               !.loading = FALSE, !.fetched = None, !.version = a.version,
               !.terms = a.draft.terms, !.text = TextOf(a.draft.passport),
               !.edited = {}, !.base = a.draft, !.at = a.at]
    PROVE  FormKnows(f) /\ SaveKnows(f)
  <1>1. /\ f.fetched = None /\ f.id = r.id /\ f.loading = FALSE /\ f.version = a.version
        /\ f.at = a.at /\ f.base = a.draft /\ f.text = TextOf(a.draft.passport)
        /\ f.edited = {} /\ f.saving = r.saving /\ f.submitting = r.submitting
    BY DEF PageStates
  <1>2. /\ r.loading /\ r.id # None /\ a.at # None /\ Knows(r.id, a.version, a.at, a.draft)
    BY DEF FormKnows
  <1>3. a.draft.passport \in Passports
    BY DEF PageStates, Answers, DraftRows
  <1>4. /\ \A s \in Sections : Shows(s, f.text, f.base.passport)
        /\ OneLine(f.text[Economics])
    <2>1. \A s \in Sections : Shows(s, f.text, f.base.passport)
      BY <1>1, <1>3, LoadedShows
    <2>2. Economics \in Sections
      BY PassportAssumption DEF Sections
    <2>3. \A x : Head(<<x>>) = x
      OBVIOUS
    <2>4. PICK x : x = Head(a.draft.passport[Economics])
      OBVIOUS
    <2>5. f.text[Economics] = <<x>> \/ f.text[Economics] = Absent
      BY <1>1, <2>2, <2>4 DEF TextOf
    <2> QED
      BY <2>1, <2>3, <2>5 DEF OneLine
  <1>5. FormKnows(f)
    BY <1>1, <1>2, <1>4 DEF FormKnows
  <1>6. r.saving # None => r.saving.loading = TRUE
    BY <1>2 DEF SaveKnows, PageStates, SaveRequests
  <1>7. SaveKnows(f)
    BY <1>1, <1>6 DEF SaveKnows
  <1> QED
    BY <1>5, <1>7

LEMMA SavingKnows ==
    ASSUME Records, NEW r \in PageStates, FormKnows(r), r.saving = None,
           NEW d, d = Draft(r.terms, BuildPassport(r.text, CurrencyOf[r.terms])),
           NEW q, q = [id |-> r.id, version |-> r.version, draft |-> d,
                       edited |-> r.edited, at |-> r.at, loading |-> r.loading],
           NEW f, f = [r EXCEPT !.saving = q, !.edited = {}]
    PROVE  FormKnows(f) /\ SaveKnows(f)
  <1>0. q # None
    <2>1. q \in SaveRequests
      BY TextParts, WizardAssumption DEF PageStates, SaveRequests, DraftRows, Draft
    <2> QED
      BY <2>1, WizardAssumption
  <1>1. /\ f.fetched = r.fetched /\ f.id = r.id /\ f.loading = r.loading /\ f.version = r.version
        /\ f.at = r.at /\ f.base = r.base /\ f.text = r.text
        /\ f.edited = {} /\ f.saving = q /\ f.submitting = r.submitting
    BY DEF PageStates
  <1>2. /\ q.id = r.id /\ q.version = r.version /\ q.at = r.at /\ q.edited = r.edited
        /\ q.loading = r.loading /\ q.draft = d /\ d.terms = r.terms
        /\ d.passport = BuildPassport(r.text, CurrencyOf[r.terms])
    BY DEF Draft
  <1>3. f.edited \cup InFlight(f) = r.edited \cup InFlight(r)
    BY <1>0, <1>1, <1>2 DEF InFlight
  <1>4. FormKnows(f)
    BY <1>1, <1>3 DEF FormKnows
  <1>5. Known(q.id, q.version, q.at)
    BY <1>2 DEF FormKnows, Knows
  <1>6. ASSUME q.at # None, IsNow(q.id, q.version, q.at), NEW s \in Sections \ q.edited
        PROVE  Kept(s, Current(q.id).passport[s], q.draft.passport[s], CurrencyOf[q.draft.terms])
    <2>1. r.base = Stored(r.id)
      BY <1>2, <1>6 DEF FormKnows, Knows
    <2>2. r.base.passport = Current(q.id).passport
      BY <1>2, <2>1 DEF Stored, Draft
    <2>3. s \in Sections \ (r.edited \cup InFlight(r))
      BY <1>2, <1>6 DEF InFlight
    <2>4. CurrencyOf[r.terms] \in Lines
      BY WizardAssumption DEF PageStates
    <2> QED
      BY <1>2, <1>6, <2>2, <2>3, <2>4 DEF FormKnows, Shows
  <1>7. (\A s \in Sections : Shows(s, r.text, d.passport)) /\ Priced(d)
    <2>1. r.text \in Passports /\ r.terms \in Terms /\ OneLine(r.text[Economics])
      BY DEF PageStates, FormKnows
    <2>2. CurrencyOf[r.terms] \in Lines
      BY <2>1, WizardAssumption
    <2> QED
      BY <1>2, <2>1, <2>2, SavedShows, SavedIsPriced
  <1>8. SaveKnows(f)
    BY <1>1, <1>2, <1>5, <1>6, <1>7 DEF SaveKnows, FormKnows
  <1> QED
    BY <1>4, <1>8

\* Two states of a page that differ in nothing that these facts speak of.
LEMMA SameKnows ==
    ASSUME NEW r, NEW f, FormKnows(r), SaveKnows(r),
           f.id = r.id, f.version = r.version, f.at = r.at, f.base = r.base,
           f.loading = r.loading, f.fetched = r.fetched, f.saving = r.saving,
           f.text = r.text, f.edited = r.edited, f.submitting \in {r.submitting, None}
    PROVE  FormKnows(f) /\ SaveKnows(f)
  <1>1. InFlight(f) = InFlight(r)
    BY DEF InFlight
  <1>2. FormKnows(f)
    BY <1>1 DEF FormKnows
  <1>3. SaveKnows(f)
    BY DEF SaveKnows
  <1> QED
    BY <1>2, <1>3

LEMMA TypeKnows ==
    ASSUME NEW r \in PageStates, FormKnows(r), SaveKnows(r),
           NEW s \in Sections, NEW t \in Seq(Lines), s = Economics => OneLine(t),
           NEW f \in PageStates,
           f = [r EXCEPT !.text[s] = t, !.edited = @ \cup {s}]
    PROVE  FormKnows(f) /\ SaveKnows(f)
  <1>1. /\ f.fetched = r.fetched /\ f.id = r.id /\ f.loading = r.loading /\ f.version = r.version
        /\ f.at = r.at /\ f.base = r.base /\ f.saving = r.saving /\ f.submitting = r.submitting
        /\ f.edited = r.edited \cup {s}
    BY DEF PageStates
  <1>2. f.text = [r.text EXCEPT ![s] = t]
    BY DEF PageStates
  <1>3. r.text \in Passports /\ f.text \in Passports
    BY DEF PageStates
  <1>4. ASSUME NEW k \in Sections \ {s}, NEW d, Shows(k, r.text, d)
        PROVE  Shows(k, f.text, d)
    <2> SUFFICES ASSUME NEW c \in Lines PROVE Kept(k, d[k], BuildPassport(f.text, c)[k], c)
      BY DEF Shows
    <2>1. PICK t1, t2 : t1 = r.text /\ t2 = f.text
      OBVIOUS
    <2>2. t2[k] = t1[k]
      BY <1>2, <1>3, <2>1 DEF Passports
    <2>3. BuildPassport(t2, c)[k] = BuildPassport(t1, c)[k]
      BY ONLY <2>2, k \in Sections, BuiltAt
    <2> QED
      BY <1>4, <2>1, <2>3 DEF Shows
  <1>5. InFlight(f) = InFlight(r)
    BY <1>1 DEF InFlight
  <1>6. f.at # None => \A k \in Sections \ (f.edited \cup InFlight(f)) :
                          Shows(k, f.text, f.base.passport)
    BY <1>1, <1>4, <1>5 DEF FormKnows
  <1>7. OneLine(f.text[Economics])
    <2>1. Economics \in Sections
      BY PassportAssumption DEF Sections
    <2>2. f.text[Economics] = IF s = Economics THEN t ELSE r.text[Economics]
      BY <1>2, <1>3, <2>1 DEF Passports
    <2> QED
      BY <2>2 DEF FormKnows
  <1>8. FormKnows(f)
    BY <1>1, <1>6, <1>7 DEF FormKnows
  <1>9. SaveKnows(f)
    <2>1. ASSUME r.saving # None, r.loading = r.saving.loading, NEW k \in Sections \ f.edited
          PROVE  Shows(k, f.text, r.saving.draft.passport)
      BY <1>1, <1>4, <2>1 DEF SaveKnows
    <2> QED
      BY <1>1, <2>1 DEF SaveKnows
  <1> QED
    BY <1>8, <1>9

LEMMA UnsavedKnows ==
    ASSUME NEW r \in PageStates, FormKnows(r), r.saving # None,
           NEW f, f = [r EXCEPT !.saving = None, !.edited = r.edited \cup r.saving.edited]
    PROVE  FormKnows(f) /\ SaveKnows(f)
  <1>1. /\ f.fetched = r.fetched /\ f.id = r.id /\ f.loading = r.loading /\ f.version = r.version
        /\ f.at = r.at /\ f.base = r.base /\ f.saving = None /\ f.submitting = r.submitting
        /\ f.text = r.text /\ f.edited = r.edited \cup r.saving.edited
    BY DEF PageStates
  <1>2. f.edited \cup InFlight(f) = r.edited \cup InFlight(r)
    BY <1>1 DEF InFlight
  <1>3. FormKnows(f)
    BY <1>1, <1>2 DEF FormKnows
  <1>4. SaveKnows(f)
    BY <1>1 DEF SaveKnows
  <1> QED
    BY <1>3, <1>4

LEMMA SignKnows ==
    ASSUME NEW r \in PageStates, FormKnows(r), SaveKnows(r), r.id # None, Created(r.id),
           NEW q, q.id = r.id, q.version = r.version, q.base = r.base, q.at = r.at,
           NEW f, f = [r EXCEPT !.submitting = q]
    PROVE  FormKnows(f) /\ SaveKnows(f)
  <1>1. /\ f.fetched = r.fetched /\ f.id = r.id /\ f.loading = r.loading /\ f.version = r.version
        /\ f.at = r.at /\ f.base = r.base /\ f.saving = r.saving /\ f.submitting = q
        /\ f.text = r.text /\ f.edited = r.edited
    BY DEF PageStates
  <1>2. InFlight(f) = InFlight(r)
    BY <1>1 DEF InFlight
  <1>3. Created(q.id) /\ Knows(q.id, q.version, q.at, q.base)
    BY DEF FormKnows, Created
  <1>4. FormKnows(f)
    BY <1>1, <1>2, <1>3 DEF FormKnows
  <1>5. SaveKnows(f)
    BY <1>1 DEF SaveKnows
  <1> QED
    BY <1>4, <1>5

\* An action of one page that leaves the drafts alone: what it makes of its own
\* page it knows already, and so everybody does afterwards.
LEMMA PagesKnowAfter ==
    ASSUME Records, Records', Courses, SavesGrow, PagesKnow, NEW p \in Pages,
           NEW f, Set(p, f),
           f \in PageStates => \/ FormKnows(f) /\ SaveKnows(f)
                               \/ FormKnows(f)' /\ SaveKnows(f)'
    PROVE  PagesKnow'
  <1> SUFFICES ASSUME NEW q \in Pages, NEW r \in PageStates, r # None, page'[q] = r
               PROVE  FormKnows(r)' /\ SaveKnows(r)'
    BY DEF PagesKnow
  <1>1. CASE q = p
    <2>1. r = f
      BY <1>1 DEF Set, Records, FormTypes
    <2> QED
      BY <2>1, FormKnowsStays, SaveKnowsStays
  <1>2. CASE q # p
    <2>1. page[q] = r
      BY <1>2 DEF Set, Records, FormTypes
    <2>2. FormKnows(r) /\ SaveKnows(r)
      BY <2>1 DEF PagesKnow
    <2> QED
      BY <2>2, FormKnowsStays, SaveKnowsStays
  <1> QED
    BY <1>1, <1>2

LEMMA PageParts ==
    ASSUME Records, PagesKnow, NEW p \in Pages, page[p] # None, NEW r, r = page[p]
    PROVE  /\ r \in PageStates /\ FormKnows(r) /\ SaveKnows(r)
           /\ r.loading => r.id # None
           /\ r.id # None => r.id \in Drafts /\ Created(r.id)
  <1>1. r \in PageStates
    BY DEF Records, FormTypes
  <1> QED
    BY <1>1 DEF PagesKnow, Records, FormTypes, PageStates

LEMMA FormSteps ==
    ASSUME Records, Records', Courses, PagesKnow, NEW p \in Pages,
           \/ \E id \in Drafts \cup {None} : Open(p, id)
           \/ Fetch(p) \/ Hydrate(p) \/ Save(p) \/ Sign(p)
           \/ \E s \in Sections : \E t \in Texts[s] : Type(p, s, t)
           \/ \E t \in Terms : ChooseTerms(p, t)
           \/ \E n \in 1..Review : ChooseStep(p, n)
           \/ SaveFails(p) \/ SubmitIncomplete(p) \/ SubmitFails(p)
    PROVE  PagesKnow' /\ UNCHANGED <<sent, saves>>
  <1>1. UNCHANGED <<sent, saves>>
    BY DEF Open, Fetch, Hydrate, Save, Sign, Type, ChooseTerms, ChooseStep, SaveFails,
       SubmitIncomplete, SubmitFails
  <1>2. SavesGrow
    BY <1>1 DEF SavesGrow, Records, FormTypes
  <1>3. ASSUME NEW f, Set(p, f), FormKnows(f) /\ SaveKnows(f) PROVE PagesKnow'
    BY <1>2, <1>3, PagesKnowAfter
  <1>4. ASSUME NEW id \in Drafts \cup {None}, Open(p, id) PROVE PagesKnow'
    <2>1. Set(p, NewPage(id))
      BY <1>4 DEF Open
    <2> QED
      BY <1>3, <2>1, NewKnows
  <1>5. PICK r : r = page[p]
    OBVIOUS
  <1>6. ASSUME page[p] # None
        PROVE  /\ r \in PageStates /\ FormKnows(r) /\ SaveKnows(r)
               /\ r.loading => r.id # None
               /\ r.id # None => r.id \in Drafts /\ Created(r.id)
    BY <1>5, <1>6, PageParts
  <1>7. CASE Fetch(p)
    <2>1. PICK a, f : /\ a = [version |-> instrument[r.id].version, draft |-> Stored(r.id),
                              at |-> saves[r.id]]
                      /\ f = [r EXCEPT !.fetched = a]
      OBVIOUS
    <2>2. page[p] # None /\ r.loading /\ Set(p, f)
      BY <1>5, <1>7, <2>1 DEF Fetch, Shown
    <2>3. FormKnows(f) /\ SaveKnows(f)
      BY <1>6, <2>1, <2>2, FetchKnows
    <2> QED
      BY <1>1, <1>3, <2>2, <2>3
  <1>8. CASE Hydrate(p)
    <2>1. PICK a : a = r.fetched
      OBVIOUS
    <2>2. PICK f : f = [r EXCEPT
               !.loading = FALSE, !.fetched = None, !.version = a.version,
               !.terms = a.draft.terms, !.text = TextOf(a.draft.passport),
               !.edited = {}, !.base = a.draft, !.at = a.at]
      OBVIOUS
    <2>3. page[p] # None /\ r.fetched # None /\ Set(p, f)
      BY <1>5, <1>8, <2>1, <2>2 DEF Hydrate, Shown
    <2>4. FormKnows(f) /\ SaveKnows(f)
      BY <1>6, <2>1, <2>2, <2>3, HydrateKnows
    <2> QED
      BY <1>1, <1>3, <2>3, <2>4
  <1>9. CASE Save(p)
    <2>1. PICK d : d = Draft(r.terms, BuildPassport(r.text, CurrencyOf[r.terms]))
      OBVIOUS
    <2>2. PICK q : q = [id |-> r.id, version |-> r.version, draft |-> d,
                        edited |-> r.edited, at |-> r.at, loading |-> r.loading]
      OBVIOUS
    <2>3. PICK f : f = [r EXCEPT !.saving = q, !.edited = {}]
      OBVIOUS
    <2>4. page[p] # None /\ r.saving = None /\ Set(p, f)
      BY <1>5, <1>9, <2>1, <2>2, <2>3 DEF Save, Shown, Build
    <2>5. FormKnows(f) /\ SaveKnows(f)
      BY <1>6, <2>1, <2>2, <2>3, <2>4, SavingKnows
    <2> QED
      BY <1>1, <1>3, <2>4, <2>5
  <1>10. CASE Sign(p)
    <2>1. PICK q : q = [id |-> r.id, version |-> r.version, shown |-> Build(p),
                        base |-> r.base, at |-> r.at]
      OBVIOUS
    <2>2. PICK f : f = [r EXCEPT !.submitting = q]
      OBVIOUS
    <2>3. page[p] # None /\ r.id # None /\ Set(p, f)
      BY <1>5, <1>10, <2>1, <2>2 DEF Sign, Shown
    <2>4. q.id = r.id /\ q.version = r.version /\ q.base = r.base /\ q.at = r.at
      BY <2>1
    <2>5. FormKnows(f) /\ SaveKnows(f)
      BY <1>6, <2>2, <2>3, <2>4, SignKnows
    <2> QED
      BY <1>1, <1>3, <2>3, <2>5
  <1>11. ASSUME NEW s \in Sections, NEW t \in Texts[s], Type(p, s, t) PROVE PagesKnow'
    <2>1. PICK f : f = [r EXCEPT !.text[s] = t, !.edited = @ \cup {s}]
      OBVIOUS
    <2>2. page[p] # None /\ Set(p, f) /\ t \in Seq(Lines)
      BY <1>5, <1>11, <2>1, WizardAssumption DEF Type, Shown
    <2>3. s = Economics => OneLine(t)
      <3>1. \A x : Head(<<x>>) = x
        OBVIOUS
      <3> QED
        BY <1>11, <3>1, WizardAssumption DEF OneLine
    <2>4. f \in PageStates => FormKnows(f) /\ SaveKnows(f)
      BY <1>6, <2>1, <2>2, <2>3, TypeKnows
    <2> QED
      BY <1>2, <2>2, <2>4, PagesKnowAfter
  <1>12. CASE SaveFails(p)
    <2>1. PICK f : f = [r EXCEPT !.saving = None, !.edited = r.edited \cup r.saving.edited]
      OBVIOUS
    <2>2. page[p] # None /\ r.saving # None /\ Set(p, f)
      BY <1>5, <1>12, <2>1 DEF SaveFails, Unsaved
    <2>3. FormKnows(f) /\ SaveKnows(f)
      BY <1>6, <2>1, <2>2, UnsavedKnows
    <2> QED
      BY <1>1, <1>3, <2>2, <2>3
  <1>13. ASSUME page[p] # None, NEW f, Set(p, f),
                \/ \E t \in Terms : f = [r EXCEPT !.terms = t]
                \/ \E n : f = [r EXCEPT !.step = n]
                \/ f = [r EXCEPT !.submitting = None]
                \/ \E k : f = [r EXCEPT !.submitting = None, !.step = k]
         PROVE  PagesKnow'
    <2>1. /\ f.id = r.id /\ f.version = r.version /\ f.at = r.at /\ f.base = r.base
          /\ f.loading = r.loading /\ f.fetched = r.fetched /\ f.saving = r.saving
          /\ f.text = r.text /\ f.edited = r.edited /\ f.submitting \in {r.submitting, None}
      BY <1>6, <1>13 DEF PageStates
    <2>2. FormKnows(f) /\ SaveKnows(f)
      BY <1>6, <1>13, <2>1, SameKnows
    <2> QED
      BY <1>3, <1>13, <2>2
  <1>14. ASSUME NEW t \in Terms, ChooseTerms(p, t) PROVE PagesKnow'
    BY <1>5, <1>13, <1>14 DEF ChooseTerms, Shown
  <1>15. ASSUME NEW n \in 1..Review, ChooseStep(p, n) PROVE PagesKnow'
    BY <1>5, <1>13, <1>15 DEF ChooseStep, Shown
  <1>16. CASE SubmitIncomplete(p)
    <2>1. PICK n : Set(p, [r EXCEPT !.submitting = None, !.step = n])
      BY <1>5, <1>16 DEF SubmitIncomplete
    <2> QED
      BY <1>1, <1>13, <1>16, <2>1 DEF SubmitIncomplete
  <1>17. CASE SubmitFails(p)
    BY <1>1, <1>5, <1>13, <1>17 DEF SubmitFails
  <1> QED
    BY <1>1, <1>4, <1>7, <1>8, <1>9, <1>10, <1>11, <1>12, <1>14, <1>15, <1>16, <1>17

\* The server has written the draft that the page sent.
LEMMA WrittenKnows ==
    ASSUME Records, Records', Courses, PagesKnow, SavesGrow,
           NEW p \in Pages, NEW i \in Drafts, NEW answered \in BOOLEAN, NEW r, NEW q,
           r = page[p], q = r.saving, r # None, q # None, Written(p, i, answered),
           q.id \in {None, i}, Created(i)', Stored(i)' = q.draft, instrument'[i].version = q.version
    PROVE  PagesKnow'
  <1>1. /\ r \in PageStates /\ FormKnows(r) /\ SaveKnows(r)
        /\ r.loading => r.id # None
        /\ q \in SaveRequests
    BY PageParts DEF PageStates
  <1>2. FormKnows(r)'
    BY <1>1, FormKnowsStays
  <1>3. PICK f, g :
           /\ f = [r EXCEPT
                      !.saving = None, !.id = i, !.version = q.version,
                      !.base = q.draft, !.at = saves[i] + 1,
                      !.edited = IF r.loading = q.loading THEN r.edited ELSE Sections,
                      !.step = IF r.step < Review THEN r.step + 1 ELSE r.step]
           /\ g = [r EXCEPT !.saving = None, !.edited = r.edited \cup q.edited]
    OBVIOUS
  <1>4. Set(p, f) \/ Set(p, g)
    BY <1>3 DEF Written, Unsaved
  <1>5. CASE Set(p, g)
    <2>1. FormKnows(g) /\ SaveKnows(g)
      BY <1>1, <1>3, UnsavedKnows
    <2> QED
      BY <1>5, <2>1, PagesKnowAfter
  <1>6. CASE Set(p, f)
    <2>1. /\ f.fetched = r.fetched /\ f.id = i /\ f.loading = r.loading
          /\ f.version = q.version /\ f.at = saves[i] + 1 /\ f.base = q.draft
          /\ f.saving = None /\ f.submitting = r.submitting /\ f.text = r.text
          /\ f.edited = IF r.loading = q.loading THEN r.edited ELSE Sections
      BY <1>1, <1>3 DEF PageStates
    <2>2. /\ i \in Instruments /\ i # None /\ saves[i] \in Nat
          /\ saves'[i] = saves[i] + 1 /\ saves[i] + 1 # None
      BY WizardAssumption, CollateralAssumption DEF Written, Records, FormTypes
    <2>3. q.draft \in DraftRows /\ q.version \in Nat
      BY <1>1, ListingAssumption DEF SaveRequests
    <2>4. Knows(f.id, f.version, f.at, f.base)'
      BY <2>1, <2>2, <2>3 DEF Knows, Known, IsNow
    <2>5. \A s \in Sections \ f.edited : Shows(s, f.text, f.base.passport)
      BY <1>1, <2>1 DEF SaveKnows
    <2>6. f.fetched # None => f.fetched.at # None /\
             Knows(f.id, f.fetched.version, f.fetched.at, f.fetched.draft)'
      <3> SUFFICES ASSUME f.fetched # None
                   PROVE  f.fetched.at # None /\
                          Knows(f.id, f.fetched.version, f.fetched.at, f.fetched.draft)'
        OBVIOUS
      <3>1. r.id # None
        BY <1>1, <2>1 DEF FormKnows
      <3>2. r.id = f.id
        BY <1>1, <2>1, <3>1 DEF SaveKnows
      <3> QED
        BY <1>2, <2>1, <3>2 DEF FormKnows
    <2>7. FormKnows(f)'
      BY <1>1, <1>2, <2>1, <2>2, <2>4, <2>5, <2>6 DEF FormKnows, InFlight
    <2>8. SaveKnows(f)'
      BY <2>1 DEF SaveKnows
    <2> QED
      BY <1>6, <2>7, <2>8, PagesKnowAfter
  <1> QED
    BY <1>4, <1>5, <1>6

\* A save by an issuer who has the draft open.
LEMMA SaveAgainIs ==
    ASSUME Records, Courses, PagesKnow, NEW p \in Pages, NEW answered \in BOOLEAN,
           SaveAgain(p, answered),
           NEW r, NEW q, r = page[p], q = r.saving
    PROVE  /\ r # None /\ q # None /\ r \in PageStates /\ q \in SaveRequests
           /\ q.id \in Drafts /\ Written(p, q.id, answered)
           /\ Created(q.id) /\ instrument[q.id].version = q.version
           /\ Created(q.id)' /\ instrument'[q.id].version = q.version
           /\ Stored(q.id)' = q.draft
  <1>1. r # None /\ q # None /\ r \in PageStates /\ q \in SaveRequests
    BY PageParts DEF SaveAgain, PageStates
  <1>2. PICK d : d = q.draft
    OBVIOUS
  <1>3. /\ d \in DraftRows /\ d.terms \in Terms /\ d.passport \in Passports
        /\ d = [terms |-> d.terms, passport |-> d.passport]
    BY <1>1, <1>2 DEF SaveRequests, DraftRows
  <1>4. PICK i : i = q.id
    OBVIOUS
  <1>5. /\ i \in Drafts /\ i \in Instruments /\ Written(p, i, answered)
        /\ UpdateDraft(i, UserOf[p], q.version, d.terms, d.passport)
    BY <1>1, <1>2, <1>4, WizardAssumption DEF SaveAgain, SaveRequests
  <1>6. Created(i) /\ instrument[i].version = q.version /\ PaperTypes
    BY <1>5 DEF UpdateDraft, MaySave, Records, Paper
  <1>7. PICK c : c = [Current(i) EXCEPT !.passport = d.passport]
    OBVIOUS
  <1>8. SetVersion(i, c) /\ c \in VersionRows /\ c.passport = d.passport
    BY <1>3, <1>5, <1>6, <1>7, RowParts DEF UpdateDraft, VersionRows
  <1>9. /\ instrument'[i].version = q.version /\ instrument'[i].terms = d.terms
    BY <1>5, <1>6, RowParts DEF UpdateDraft, SetInstrument, PaperTypes, InstrumentRows
  <1>10. versions'[i][q.version] = c
    <2>1. PICK vs \in Seq(VersionRows) :
              /\ versions' = [versions EXCEPT ![i] = vs]
              /\ \A k \in 1..Len(versions[i]) :
                    vs[k] = IF k = instrument[i].version THEN c ELSE versions[i][k]
      BY <1>5, <1>6, <1>8, SetVersionIs
    <2>2. versions'[i] = vs /\ q.version \in 1..Len(versions[i])
      BY <1>5, <1>6, <2>1, RowParts DEF PaperTypes
    <2> QED
      BY <1>6, <2>1, <2>2
  <1>11. Stored(i)' = d
    BY <1>3, <1>8, <1>9, <1>10 DEF Stored, Draft, Current
  <1>12. Created(i)'
    BY <1>5, <1>6 DEF Courses
  <1> QED
    BY <1>1, <1>2, <1>4, <1>5, <1>6, <1>9, <1>11, <1>12

\* A first version that nobody writes keeps its prices and its terms.
LEMMA PriceStays ==
    ASSUME Records, Records', Courses, SavesGrow, PricesStay, NEW i \in Drafts,
           saves'[i] = saves[i], Created(i)', instrument'[i].version = 1
    PROVE  Priced(Stored(i))'
  <1>1. i \in Instruments
    BY WizardAssumption
  <1>2. Created(i)
    BY <1>1 DEF Courses, Course
  <1>3. instrument[i].version = 1
    <2>1. instrument[i].version \in 1..MaxVersion /\ instrument'[i].version >= instrument[i].version
      BY <1>1, <1>2, StoredIs, CourseParts DEF Records, Paper
    <2> QED
      BY <2>1, ListingAssumption
  <1>4. Stored(i)' = Stored(i) /\ Priced(Stored(i))
    BY <1>1, <1>2, <1>3, CourseParts DEF PricesStay
  <1> QED
    BY <1>4 DEF Priced

LEMMA SavingSteps ==
    ASSUME Records, Records', Courses, PagesKnow, NEW p \in Pages, NEW answered \in BOOLEAN,
           (\E i \in Drafts : SaveNew(p, i, answered)) \/ SaveAgain(p, answered)
    PROVE  PagesKnow' /\ SavesGrow /\ UNCHANGED sent /\ (PricesStay => PricesStay')
  <1>1. PICK r, q : r = page[p] /\ q = r.saving
    OBVIOUS
  <1>2. r # None /\ q # None /\ r \in PageStates /\ q \in SaveRequests
    BY <1>1, PageParts DEF SaveNew, SaveAgain, PageStates
  <1>3. PICK d : d = q.draft
    OBVIOUS
  <1>4. /\ d \in DraftRows /\ d.terms \in Terms /\ d.passport \in Passports
        /\ d = [terms |-> d.terms, passport |-> d.passport]
    BY <1>2, <1>3 DEF SaveRequests, DraftRows
  <1>5. ASSUME NEW i \in Drafts, Written(p, i, answered) PROVE SavesGrow /\ UNCHANGED sent
    BY <1>5, WizardAssumption DEF Written, SavesGrow, Records, FormTypes
  <1>6. ASSUME NEW i \in Drafts, Written(p, i, answered), Stored(i)' = d, PricesStay
        PROVE  PricesStay'
    <2>1. Priced(d)
      BY <1>1, <1>2, <1>3, PageParts DEF SaveKnows
    <2>2. SavesGrow /\ \A j \in Drafts \ {i} : saves'[j] = saves[j]
      BY <1>5, <1>6, WizardAssumption DEF Written, Records, FormTypes
    <2>3. Priced(Stored(i))'
      BY <1>6, <2>1 DEF Priced
    <2>4. ASSUME NEW j \in Drafts, Created(j)', instrument'[j].version = 1
          PROVE  Priced(Stored(j))'
      <3>1. CASE j = i
        BY <2>3, <3>1
      <3>2. CASE j # i
        BY <1>6, <2>2, <2>4, <3>2, PriceStays
      <3> QED
        BY <3>1, <3>2
    <2> QED
      BY <2>4 DEF PricesStay
  <1>7. ASSUME NEW i \in Drafts, SaveNew(p, i, answered)
        PROVE  PagesKnow' /\ SavesGrow /\ UNCHANGED sent /\ (PricesStay => PricesStay')
    <2>1. /\ i \in Instruments /\ q.id = None /\ Written(p, i, answered)
          /\ CreateDraft(i, UserOf[p], d.terms, d.passport)
      BY <1>1, <1>3, <1>7, WizardAssumption DEF SaveNew
    <2>2. Created(i)'
      BY <1>4, <2>1, CreatedAfter, WizardAssumption DEF Records, Paper
    <2>3. /\ instrument'[i] = NewInstrument(UserOf[p], d.terms)
          /\ versions'[i] = <<NewVersion(d.passport)>>
      BY <2>1 DEF CreateDraft, SetInstrument, Records, Paper, PaperTypes
    <2>4. instrument'[i].terms = d.terms /\ instrument'[i].version = 1
          /\ versions'[i][1].passport = d.passport
      BY <2>3 DEF NewInstrument, NewVersion
    <2>5. Stored(i)' = d
      BY <1>4, <2>4 DEF Stored, Draft, Current
    <2>6. q.version = 1
      BY <1>1, <1>2, <2>1, PageParts DEF SaveKnows
    <2> QED
      BY <1>1, <1>2, <1>3, <1>5, <1>6, <2>1, <2>2, <2>4, <2>5, <2>6, WrittenKnows
  <1>8. CASE SaveAgain(p, answered)
    <2>1. PICK i : i = q.id
      OBVIOUS
    <2>2. /\ i \in Drafts /\ Created(i)' /\ Stored(i)' = d /\ instrument'[i].version = q.version
          /\ Written(p, i, answered)
      BY <1>1, <1>2, <1>3, <1>8, <2>1, SaveAgainIs
    <2> QED
      BY <1>1, <1>2, <1>3, <1>5, <1>6, <2>1, <2>2, WrittenKnows
  <1> QED
    BY <1>7, <1>8

\* What has been submitted stays as it is, and so does what was shown then.
SentOf(i, c) == c # None =>
    /\ Created(i) /\ Reached(i) # "DRAFT"
    /\ c.version \in 1..instrument[i].version
    /\ c.version = instrument[i].version => Current(i).state # "DRAFT"
    /\ c.clean => /\ versions[i][c.version].passport = c.shown.passport
                  /\ instrument[i].terms = c.shown.terms

AllSent == \A i \in Instruments, c \in Submissions \cup {None} : sent[i] = c => SentOf(i, c)

LEMMA SentIs == FormTypes => (SentStays /\ SubmittedIsShown <=> AllSent)
  <1> SUFFICES ASSUME FormTypes PROVE SentStays /\ SubmittedIsShown <=> AllSent
    OBVIOUS
  <1>1. ASSUME NEW i \in Instruments, NEW c \in Submissions \cup {None}, sent[i] = c,
               SentStays, SubmittedIsShown
        PROVE  SentOf(i, c)
    <2>1. c # None => c.version \in Nat /\ c.version >= 1
      BY <1>1, ListingAssumption DEF Submissions
    <2> QED
      BY <1>1, <2>1 DEF SentStays, SubmittedIsShown, SentOf
  <1>2. ASSUME AllSent PROVE SentStays /\ SubmittedIsShown
    <2>1. \A i \in Instruments : SentOf(i, sent[i])
      BY <1>2 DEF AllSent, FormTypes
    <2> QED
      BY <2>1 DEF SentStays, SubmittedIsShown, SentOf
  <1> QED
    BY <1>1, <1>2 DEF AllSent

LEMMA SentOfStays ==
    ASSUME Records, Records', Courses, NEW i \in Instruments,
           NEW c \in Submissions \cup {None}, SentOf(i, c)
    PROVE  SentOf(i, c)'
  <1> SUFFICES ASSUME c # None PROVE SentOf(i, c)'
    BY DEF SentOf
  <1>1. /\ Created(i) /\ Reached(i) # "DRAFT" /\ c.version \in 1..instrument[i].version
        /\ c.version = instrument[i].version => Current(i).state # "DRAFT"
        /\ c.clean => /\ versions[i][c.version].passport = c.shown.passport
                      /\ instrument[i].terms = c.shown.terms
    BY DEF SentOf
  <1>2. Created(i)' /\ Course(i, instrument'[i], versions'[i])
    BY <1>1 DEF Courses
  <1>3. /\ Reached(i) = ReachedOf(instrument[i]) /\ Reached(i)' = ReachedOf(instrument'[i])
    BY DEF Reached, ReachedOf, Status
  <1>4. instrument[i].version \in Nat /\ instrument'[i].version \in Nat
    BY <1>1, <1>2, ListingAssumption DEF Records, Paper, PaperTypes, Created, InstrumentRows
  <1>5. instrument'[i].version >= instrument[i].version
    BY <1>1, <1>2 DEF Course
  <1>6. Reached(i)' # "DRAFT"
    BY <1>1, <1>2, <1>3 DEF Course, Forward
  <1>7. c.version = instrument'[i].version => Current(i)'.state # "DRAFT"
    BY <1>1, <1>2, <1>4, <1>5 DEF Course, Current
  <1>8. c.clean => /\ versions'[i][c.version].passport = c.shown.passport
                   /\ instrument'[i].terms = c.shown.terms
    BY <1>1, <1>2, <1>3 DEF Course
  <1> QED
    BY <1>1, <1>2, <1>4, <1>5, <1>6, <1>7, <1>8 DEF SentOf

LEMMA SentAfter ==
    ASSUME Records, Records', Courses, SentStays, SubmittedIsShown, UNCHANGED sent
    PROVE  SentStays' /\ SubmittedIsShown'
  <1>1. FormTypes /\ FormTypes'
    BY DEF Records
  <1>2. AllSent'
    BY <1>1, SentIs, SentOfStays DEF AllSent
  <1>3. FormTypes' => (SentStays' /\ SubmittedIsShown' <=> AllSent')
    BY SentIs, PTL
  <1> QED
    BY <1>1, <1>2, <1>3

LEMMA SubmittedKnows ==
    ASSUME Records, Records', Courses, PagesKnow, SentStays, SubmittedIsShown,
           NEW p \in Pages, NEW answered \in BOOLEAN, Submitted(p, answered)
    PROVE  PagesKnow' /\ SavesGrow /\ SentStays' /\ SubmittedIsShown'
  <1>0. FormTypes /\ FormTypes' /\ UNCHANGED saves
    BY DEF Records, Submitted
  <1>1. SavesGrow
    BY <1>0 DEF SavesGrow, FormTypes
  <1>2. PICK r, q : r = page[p] /\ q = r.submitting
    OBVIOUS
  <1>3. r # None /\ q # None
    BY <1>2 DEF Submitted
  <1>4. /\ r \in PageStates /\ FormKnows(r) /\ SaveKnows(r) /\ q \in SubmitRequests
    BY <1>2, <1>3, PageParts DEF PageStates
  <1>5. PagesKnow'
    <2>1. PICK f : f = [r EXCEPT !.submitting = None, !.open = ~answered]
      OBVIOUS
    <2>2. Set(p, f)
      BY <1>2, <2>1 DEF Submitted
    <2>3. /\ f.id = r.id /\ f.version = r.version /\ f.at = r.at /\ f.base = r.base
          /\ f.loading = r.loading /\ f.fetched = r.fetched /\ f.saving = r.saving
          /\ f.text = r.text /\ f.edited = r.edited /\ f.submitting \in {r.submitting, None}
      BY <1>4, <2>1 DEF PageStates
    <2>4. FormKnows(f) /\ SaveKnows(f)
      BY <1>4, <2>3, SameKnows
    <2> QED
      BY <1>1, <2>2, <2>4, PagesKnowAfter
  <1>6. PICK i, c : /\ i = q.id
                    /\ c = [version |-> q.version, shown |-> q.shown,
                            clean |-> q.base = q.shown /\ q.at = saves[q.id]]
    OBVIOUS
  <1>7. /\ i \in Instruments /\ sent' = [sent EXCEPT ![i] = c]
        /\ Submit(i, UserOf[p], q.version)
    BY <1>2, <1>4, <1>6, WizardAssumption DEF Submitted, SubmitRequests
  <1>8. /\ Created(i) /\ Current(i).state = "DRAFT" /\ q.version = instrument[i].version
        /\ Status(i) \in {"DRAFT", "UNDER_REVIEW"}
    BY <1>7 DEF Submit, MaySubmit
  <1>9. SentOf(i, c)'
    <2>1. PICK hash : hash = HashPassport(i, instrument[i].terms, q.version, Current(i).passport)
      OBVIOUS
    <2>2. PICK cur : cur = [Current(i) EXCEPT !.state = "SUBMITTED", !.hash = hash]
      OBVIOUS
    <2>3. PaperTypes /\ instrument[i] \in InstrumentRows /\ hash \in Hashes
      BY <1>7, <1>8, <2>1, RowParts DEF Records, Paper, HashPassport, Hashes, InstrumentRows,
         VersionRows
    <2>4. cur \in VersionRows /\ cur.state = "SUBMITTED"
      BY <1>7, <1>8, <2>2, <2>3, RowParts DEF VersionRows, VersionStates
    <2>5. SetVersion(i, cur)
      BY <1>7, <2>1, <2>2 DEF Submit
    <2>6. versions'[i][q.version].state = "SUBMITTED"
      <3>1. PICK vs \in Seq(VersionRows) :
                /\ versions' = [versions EXCEPT ![i] = vs]
                /\ \A k \in 1..Len(versions[i]) :
                      vs[k] = IF k = instrument[i].version THEN cur ELSE versions[i][k]
        BY <1>7, <1>8, <2>3, <2>4, <2>5, SetVersionIs
      <3>2. versions'[i] = vs /\ q.version \in 1..Len(versions[i])
        BY <1>7, <1>8, <2>3, <3>1, RowParts DEF PaperTypes
      <3> QED
        BY <1>8, <2>4, <3>1, <3>2
    <2>7. /\ instrument'[i].version = q.version /\ Status(i)' = "UNDER_REVIEW"
      <3>1. PICK row : row = [instrument[i] EXCEPT !.hash = hash]
        OBVIOUS
      <3>2. row.version = q.version /\ row.status = Status(i) /\ row \in InstrumentRows
        BY <1>8, <2>3, <3>1 DEF InstrumentRows, Status
      <3>3. instrument'[i] = row \/ instrument'[i] = Become(row, "UNDER_REVIEW")
        BY <1>7, <2>1, <2>3, <3>1 DEF Submit, SetInstrument, TransitionWithin, PaperTypes
      <3>4. Status(i) # "DRAFT" => instrument'[i] = row
        BY <1>7, <2>1, <2>3, <3>1 DEF Submit, SetInstrument, PaperTypes
      <3>5. Status(i) = "DRAFT" => instrument'[i] = Become(row, "UNDER_REVIEW")
        BY <1>7, <2>1, <2>3, <3>1 DEF Submit, SetInstrument, TransitionWithin, PaperTypes
      <3> QED
        BY <1>8, <3>2, <3>3, <3>4, <3>5 DEF Become, InstrumentRows, Status
    <2>8. Created(i)' /\ Course(i, instrument'[i], versions'[i])
      BY <1>7, <1>8 DEF Courses
    <2>9. q.version \in 1..q.version
      BY <1>4, ListingAssumption DEF SubmitRequests
    <2>10. /\ instrument'[i].terms = instrument[i].terms
           /\ versions'[i][q.version].passport = versions[i][q.version].passport
      BY <1>0, <1>8, <2>8, <2>9 DEF Course
    <2>11. ASSUME c.clean PROVE q.shown = Stored(i)
      <3>1. q.base = q.shown /\ q.at = saves[i]
        BY <1>6, <2>11
      <3>2. q.at # None
        BY <1>0, <1>7, <3>1, CollateralAssumption DEF FormTypes
      <3>3. Knows(i, q.version, q.at, q.base) /\ IsNow(i, q.version, q.at)
        BY <1>2, <1>3, <1>4, <1>6, <1>8, <3>1 DEF FormKnows, IsNow
      <3> QED
        BY <3>1, <3>2, <3>3 DEF Knows
    <2>12. ASSUME c.clean
           PROVE  /\ versions'[i][q.version].passport = q.shown.passport
                  /\ instrument'[i].terms = q.shown.terms
      BY <1>8, <2>10, <2>11, <2>12 DEF Stored, Draft, Current
    <2>13. Reached(i)' # "DRAFT"
      BY <2>7 DEF Reached
    <2>14. Current(i)'.state # "DRAFT"
      BY <2>6, <2>7 DEF Current
    <2> QED
      BY <1>6, <2>7, <2>8, <2>9, <2>12, <2>13, <2>14 DEF SentOf
  <1>10. AllSent'
    <2> SUFFICES ASSUME NEW j \in Instruments, NEW b \in Submissions \cup {None}, sent'[j] = b
                 PROVE  SentOf(j, b)'
      BY DEF AllSent
    <2>1. CASE j = i
      <3>1. b = c
        BY <1>0, <1>7, <2>1 DEF FormTypes
      <3> QED
        BY <1>9, <2>1, <3>1
    <2>2. CASE j # i
      <3>1. sent[j] = b
        BY <1>0, <1>7, <2>2 DEF FormTypes
      <3> QED
        BY <1>0, <3>1, SentIs, SentOfStays DEF AllSent
    <2> QED
      BY <2>1, <2>2
  <1>11. FormTypes' => (SentStays' /\ SubmittedIsShown' <=> AllSent')
    BY SentIs, PTL
  <1> QED
    BY <1>0, <1>1, <1>5, <1>10, <1>11

Everything == Records /\ Forms

LEMMA EverythingStep == Everything /\ [Next]_allvars => Everything'
  <1> SUFFICES ASSUME Everything, [Next]_allvars PROVE Everything'
    OBVIOUS
  <1>1. /\ Records /\ PagesKnow /\ PricesStay /\ SentStays /\ SubmittedIsShown
        /\ Records' /\ Courses
    BY RecordsStep DEF Everything, Forms
  <1>2. ASSUME UNCHANGED saves PROVE PricesStay'
    <2>1. SavesGrow /\ \A i \in Drafts : saves'[i] = saves[i]
      BY <1>2, <1>1 DEF SavesGrow, Records, FormTypes
    <2> QED
      BY <1>1, <2>1, PriceStays DEF PricesStay
  <1>3. CASE UNCHANGED wizard
    <2>1. UNCHANGED <<page, saves, sent>>
      BY <1>3 DEF wizard
    <2>2. SavesGrow
      BY <1>1, <2>1 DEF SavesGrow, Records, FormTypes
    <2>3. PagesKnow'
      BY <1>1, <2>1, <2>2, FormKnowsStays, SaveKnowsStays DEF PagesKnow
    <2> QED
      BY <1>2, <1>1, <2>1, <2>3, SentAfter DEF Everything, Forms, Records
  <1>4. ASSUME NEW p \in Pages, PageStep(p)
        PROVE  PagesKnow' /\ PricesStay' /\ SentStays' /\ SubmittedIsShown'
    <2>1. ASSUME NEW answered \in BOOLEAN,
                 (\E i \in Drafts : SaveNew(p, i, answered)) \/ SaveAgain(p, answered)
          PROVE  PagesKnow' /\ PricesStay' /\ SentStays' /\ SubmittedIsShown'
      BY <1>1, <2>1, SavingSteps, SentAfter
    <2>2. ASSUME NEW answered \in BOOLEAN, Submitted(p, answered)
          PROVE  PagesKnow' /\ PricesStay' /\ SentStays' /\ SubmittedIsShown'
      BY <1>2, <1>1, <2>2, SubmittedKnows DEF Submitted
    <2>3. ASSUME \/ \E id \in Drafts \cup {None} : Open(p, id)
                 \/ Fetch(p) \/ Hydrate(p) \/ Save(p) \/ Sign(p)
                 \/ \E s \in Sections : \E t \in Texts[s] : Type(p, s, t)
                 \/ \E t \in Terms : ChooseTerms(p, t)
                 \/ \E n \in 1..Review : ChooseStep(p, n)
                 \/ SaveFails(p) \/ SubmitIncomplete(p) \/ SubmitFails(p)
          PROVE  PagesKnow' /\ PricesStay' /\ SentStays' /\ SubmittedIsShown'
      BY <1>2, <1>1, <2>3, FormSteps, SentAfter
    <2> QED
      BY <1>4, <2>1, <2>2, <2>3 DEF PageStep
  <1>5. CASE \E p \in Pages : PageStep(p)
    BY <1>1, <1>4, <1>5 DEF Everything, Forms, Records
  <1> QED
    BY <1>3, <1>5 DEF Next, allvars

LEMMA EverythingInvariant == Spec => []Everything
  <1>1. Init => Records
    BY HoldingsInit, PaperInit, ReportsInit, FormTypesInit DEF Records
  <1>2. Init => Forms
    <2> SUFFICES ASSUME Init PROVE Forms
      OBVIOUS
    <2>1. /\ \A p \in Pages : page[p] = None
          /\ \A i \in Instruments : sent[i] = None
      BY DEF Init
    <2>2. \A i \in Drafts : ~Created(i)
      BY WizardAssumption DEF Init, ListingInit, Created
    <2> QED
      BY <2>1, <2>2, FormTypesInit DEF Forms, PagesKnow, PricesStay, SentStays, SubmittedIsShown
  <1> QED
    BY <1>1, <1>2, EverythingStep, PTL DEF Spec, Everything

\* What goes to review is what the issuer saw when he signed, if the page was saved
\* and nobody wrote the draft since; and it does not change afterwards.
THEOREM WizardSubmittedIsShown == Spec => []SubmittedIsShown
  <1>1. Everything => SubmittedIsShown
    BY DEF Everything, Forms
  <1> QED
    BY <1>1, EverythingInvariant, PTL

\* Of all steps, only those that write the draft that page p is saving count.
LEMMA TextSurvivesStep ==
    ASSUME Everything, Next, NEW p \in Pages, NEW i \in Drafts, NEW r, r = page[p].saving,
           page[p] # None, page'[p] # page[p], r # None, saves'[i] > saves[i], r.id = i
    PROVE  \/ r.at # saves[i]
           \/ Survives(Current(i).passport, Current(i)'.passport, Sections \ r.edited,
                       CurrencyOf[instrument[i].terms], CurrencyOf[r.draft.terms])
  <1>1. Records /\ PagesKnow /\ PricesStay /\ FormTypes /\ Courses
    BY RecordsStep DEF Everything, Forms
  <1>2. i \in Instruments /\ i # None /\ saves[i] \in Nat
    BY <1>1, WizardAssumption, CollateralAssumption DEF FormTypes
  <1>3. ~ UNCHANGED saves
    BY <1>2
  <1>4. PICK q \in Pages : PageStep(q)
    BY <1>3 DEF Next, wizard
  <1>5. PICK answered \in BOOLEAN :
            (\E j \in Drafts : SaveNew(q, j, answered)) \/ SaveAgain(q, answered)
    BY <1>3, <1>4 DEF PageStep, Open, Fetch, Hydrate, Type, ChooseTerms, ChooseStep, Save,
       SaveFails, Sign, Submitted, SubmitIncomplete, SubmitFails
  <1>6. q = p
    BY <1>1, <1>5 DEF SaveNew, SaveAgain, Written, Set, FormTypes
  <1>7. SaveAgain(p, answered)
    BY <1>2, <1>5, <1>6 DEF SaveNew
  <1>8. /\ r \in SaveRequests /\ Created(i) /\ instrument[i].version = r.version
        /\ Stored(i)' = r.draft
    BY <1>1, <1>7, SaveAgainIs
  <1>9. SaveKnows(page[p])
    BY <1>1, PageParts
  <1>10. Priced(Stored(i))
    <2>1. Status(i) = "DRAFT"
      BY <1>7 DEF SaveAgain, UpdateDraft, MaySave
    <2>2. InStep(i) /\ Reached(i) = "DRAFT"
      BY <1>1, <1>2, <1>8, <2>1 DEF Records, Paper, PaperOf, Reached
    <2> QED
      BY <1>1, <1>8, <2>2 DEF InStep, PricesStay
  <1>11. CASE r.at = saves[i]
    <2>1. r.at # None /\ IsNow(i, r.version, r.at)
      BY <1>2, <1>8, <1>11, CollateralAssumption DEF IsNow
    <2>2. PICK before, after, currency :
              /\ before = Current(i).passport /\ after = Current(i)'.passport
              /\ currency = CurrencyOf[r.draft.terms]
      OBVIOUS
    <2>3. after = r.draft.passport
      BY <1>8, <2>2 DEF Stored, Draft
    <2>4. \A s \in Sections \ r.edited : Kept(s, before[s], after[s], currency)
      BY <1>9, <2>1, <2>2, <2>3 DEF SaveKnows
    <2>5. before[Economics] # Absent =>
              before[Economics] = <<Head(before[Economics]), CurrencyOf[instrument[i].terms]>>
      BY <1>10, <2>2 DEF Priced, Stored, Draft
    <2> QED
      BY <2>2, <2>4, <2>5 DEF Kept, Survives
  <1> QED
    BY <1>11

\* A save changes only what has been typed since the page knew the draft, if
\* nobody else wrote it in between: but a claim shrinks to its first line, is lost
\* with its section when that line is blank, and prices get the draft's currency.
THEOREM WizardUntouchedTextSurvives == Spec => UntouchedTextSurvives
  <1> DEFINE Fine(p, i) ==
        LET r == page[p].saving IN
        page[p] # None /\ page'[p] # page[p] /\ r # None /\ saves'[i] > saves[i] /\ r.id = i =>
            \/ r.at # saves[i]
            \/ Survives(Current(i).passport, Current(i)'.passport, Sections \ r.edited,
                        CurrencyOf[instrument[i].terms], CurrencyOf[r.draft.terms])
  <1>1. ASSUME Everything, Next, NEW p \in Pages, NEW i \in Drafts PROVE Fine(p, i)
    <2>1. PICK r : r = page[p].saving
      OBVIOUS
    <2> QED
      BY <1>1, <2>1, TextSurvivesStep
  <1>2. Everything /\ [Next]_allvars => [\A p \in Pages, i \in Drafts : Fine(p, i)]_allvars
    BY <1>1
  <1> QED
    BY <1>2, EverythingInvariant, PTL DEF Spec, UntouchedTextSurvives

=============================================================================
