--------------------------------- MODULE Listing ---------------------------------
(***************************************************************************)
(* instrument-listing.service.ts: drafts, passport versions, review by two  *)
(* operators, suspension, and the promotion of an approved instrument when  *)
(* collateral covers it; mint.service.ts as far as collateral is concerned. *)
(* Every operation is one transaction that begins with SELECT ... FOR       *)
(* UPDATE of the instrument, so it is one step, taken while no call of the  *)
(* collateral ledger holds that row.  A refused operation changes nothing.  *)
(***************************************************************************)
EXTENDS Collateral, InstrumentLifecycle, Passport, FiniteSetsExt

CONSTANTS
    Issuers, Operators,
    Terms,        \* the fields of an instrument that a draft may set
    SupplyCap,    \* instrument.supply_cap under given terms
    MaxVersion    \* bound on passport versions

\* What the hash of a passport stands for, and the rows of instrument.
Hashes == Instruments \X Terms \X (1..MaxVersion) \X Passports
InstrumentRows == [status : Statuses, suspendedFrom : Suspendable \cup {"NONE"},
                   issuer : Issuers, terms : Terms, version : 1..MaxVersion,
                   hash : Hashes \cup {None}]

ASSUME ListingAssumption ==
    /\ SupplyCap \in [Terms -> Nat \ {0}]
    /\ MaxVersion \in Nat \ {0}
    /\ None \notin InstrumentRows

VARIABLES
    instrument,   \* rows of instrument
    versions,     \* rows of instrument_passport_versions
    decisions,    \* rows of instrument_review_decisions
    promotions,   \* source_event_id in instrument_status_transitions
    missed        \* history: the last report of coverage was lost or came too early

listing == <<instrument, versions, decisions, promotions, missed>>
vars == <<book, calls, supply, listing>>

Created(i) == instrument[i] # None
Status(i) == instrument[i].status
Current(i) == versions[i][instrument[i].version]

\* A version as it is inserted, by create or by revise.
NewVersion(p) == [passport |-> p, state |-> "DRAFT", hash |-> None, published |-> FALSE]
NewInstrument(u, t) == [status |-> "DRAFT", suspendedFrom |-> "NONE", issuer |-> u, terms |-> t,
                        version |-> 1, hash |-> None]

\* Writers of the current version, and of the row.
SetVersion(i, r) == versions' = [versions EXCEPT ![i][instrument[i].version] = r]
SetInstrument(i, r) == instrument' = [instrument EXCEPT ![i] = r]

\* transitionWithin: the status, with the event and the audit row it leaves.
TransitionWithin(i, target, row) ==
    /\ MayBecome(row, target)
    /\ SetInstrument(i, Become(row, target))

-----------------------------------------------------------------------------
(* The issuer *)

CreateDraft(i, u, t, p) ==
    /\ ~Created(i) /\ Parses(p)
    /\ SetInstrument(i, NewInstrument(u, t))
    /\ versions' = [versions EXCEPT ![i] = <<NewVersion(p)>>]
    /\ UNCHANGED <<book, calls, supply, decisions, promotions, missed>>

\* Seeded fault: a draft can still be saved while it is under review.
MaySaveLate(i, u, v) ==
    Created(i) /\ instrument[i].issuer = u /\ instrument[i].version = v

\* The version is compared but a save does not raise it.
MaySave(i, u, v) ==
    /\ Created(i) /\ InstrumentIsFree(i)
    /\ instrument[i].issuer = u
    /\ Status(i) = "DRAFT" /\ instrument[i].version = v
    /\ Current(i).state = "DRAFT"

UpdateDraft(i, u, v, t, p) ==
    /\ MaySave(i, u, v) /\ Parses(p)
    /\ SetInstrument(i, [instrument[i] EXCEPT !.terms = t])
    /\ SetVersion(i, [Current(i) EXCEPT !.passport = p])
    /\ UNCHANGED <<book, calls, supply, decisions, promotions, missed>>

MaySubmit(i, u, v) ==
    /\ Created(i) /\ InstrumentIsFree(i)
    /\ instrument[i].issuer = u /\ instrument[i].version = v
    /\ Status(i) \in {"DRAFT", "UNDER_REVIEW"}
    /\ Current(i).state = "DRAFT"

Submit(i, u, v) ==
    /\ MaySubmit(i, u, v) /\ IsComplete(Current(i).passport)
    /\ LET hash == HashPassport(i, instrument[i].terms, v, Current(i).passport)
           row == [instrument[i] EXCEPT !.hash = hash] IN
       /\ SetVersion(i, [Current(i) EXCEPT !.state = "SUBMITTED", !.hash = hash])
       /\ IF Status(i) = "DRAFT" THEN TransitionWithin(i, "UNDER_REVIEW", row)
                                 ELSE SetInstrument(i, row)
    /\ UNCHANGED <<book, calls, supply, decisions, promotions, missed>>

\* After a return; the command names neither issuer nor version.
RevisePassport(i, p) ==
    /\ Created(i) /\ InstrumentIsFree(i) /\ Parses(p)
    /\ Status(i) = "UNDER_REVIEW" /\ Current(i).state = "RETURNED"
    /\ instrument[i].version < MaxVersion
    /\ SetInstrument(i, [instrument[i] EXCEPT !.version = @ + 1, !.hash = None])
    /\ versions' = [versions EXCEPT ![i] = Append(@, NewVersion(p))]
    /\ UNCHANGED <<book, calls, supply, decisions, promotions, missed>>

-----------------------------------------------------------------------------
(* The operators *)

InReview(i) ==
    /\ Created(i) /\ InstrumentIsFree(i)
    /\ Status(i) = "UNDER_REVIEW" /\ Current(i).state = "SUBMITTED"

\* hash: what the operator decides about; the row has only the version.
Decision(i, o, d) == [issue |-> i, version |-> instrument[i].version, operator |-> o,
                      decision |-> d, hash |-> Current(i).hash]

\* Seeded fault: approvals of earlier versions count.
ApprovalsOfAnyVersion(i, D) ==
    {d.operator : d \in {d \in D : d.issue = i /\ d.decision = "APPROVE"}}

Approvals(i, D) ==
    {d.operator : d \in {d \in D : /\ d.issue = i /\ d.decision = "APPROVE"
                                   /\ d.version = instrument[i].version}}

Approve(i, o) ==
    LET after == decisions \cup {Decision(i, o, "APPROVE")} IN
    /\ InReview(i) /\ o \notin Approvals(i, decisions)
    /\ decisions' = after
    /\ IF Cardinality(Approvals(i, after)) >= 2
       THEN /\ SetVersion(i, [Current(i) EXCEPT !.state = "APPROVED", !.published = TRUE])
            /\ TransitionWithin(i, "APPROVED", instrument[i])
       ELSE UNCHANGED <<instrument, versions>>
    /\ UNCHANGED <<book, calls, supply, promotions, missed>>

\* d is REJECT or RETURN_FOR_REVISION.
Dismiss(i, o, d) ==
    /\ InReview(i)
    /\ decisions' = decisions \cup {Decision(i, o, d)}
    /\ SetVersion(i, [Current(i) EXCEPT !.state = IF d = "REJECT" THEN "REJECTED" ELSE "RETURNED"])
    /\ UNCHANGED <<book, calls, supply, instrument, promotions, missed>>

\* Seeded fault: any target is open to the internal command.
TransitionAnywhere(i, target) ==
    /\ Created(i) /\ InstrumentIsFree(i)
    /\ TransitionWithin(i, target, instrument[i])
    /\ UNCHANGED <<book, calls, supply, versions, decisions, promotions, missed>>

\* Suspending, resuming and moving on; three statuses have a way of their own.
Transition(i, target) ==
    /\ target \notin {"UNDER_REVIEW", "APPROVED", "COLLATERALIZED"}
    /\ Created(i) /\ InstrumentIsFree(i)
    /\ TransitionWithin(i, target, instrument[i])
    /\ UNCHANGED <<book, calls, supply, versions, decisions, promotions, missed>>

-----------------------------------------------------------------------------
(* Collateral and mint *)

Required(i) == SupplyCap[instrument[i].terms] * UnitPerToken[i]
Covered(i) == VerifiedAvailable(i) >= Required(i)

\* Seeded fault: the quantity of the event must cover the instrument alone.
CoversAlone(w) == QuantityOf(w) >= Required(InstrumentOf(w))

Covers(w) == Covered(InstrumentOf(w))

\* The portal reports the event it has had reserved.  A report that finds the
\* instrument in another status than APPROVED is forgotten.
ApplyCollateralReserved(w) ==
    LET i == InstrumentOf(w) IN
    /\ stage[w] = "done" /\ IsReserve(w) /\ InstrumentIsFree(i)
    /\ job[w] \notin promotions
    /\ IF Status(i) # "APPROVED"
       THEN missed' = [missed EXCEPT ![i] = TRUE] /\ UNCHANGED <<instrument, promotions>>
       ELSE /\ missed' = [missed EXCEPT ![i] = FALSE]
            /\ IF Covers(w)
               THEN /\ TransitionWithin(i, "COLLATERALIZED", instrument[i])
                    /\ promotions' = promotions \cup {job[w]}
               ELSE UNCHANGED <<instrument, promotions>>
    /\ End(w)
    /\ UNCHANGED <<versions, decisions>>

\* Nothing to report: a release, or an event that has promoted the instrument.
Finish(w) ==
    /\ stage[w] = "done" /\ (IsReserve(w) => job[w] \in promotions)
    /\ End(w)
    /\ UNCHANGED listing

\* The process dies, at worst between the change and the report.
Crash(w) ==
    /\ stage[w] # "idle"
    /\ missed' = [missed EXCEPT ![InstrumentOf(w)] = @ \/ (stage[w] = "done" /\ IsReserve(w))]
    /\ End(w)
    /\ UNCHANGED <<instrument, versions, decisions, promotions>>

Mint(i, q) ==
    /\ Created(i) /\ InstrumentIsFree(i)
    /\ Status(i) \in {"COLLATERALIZED", "ACTIVE"}
    /\ supply[i] + q <= SupplyCap[instrument[i].terms]
    /\ (supply[i] + q) * UnitPerToken[i] <= VerifiedAvailable(i)
    /\ supply' = [supply EXCEPT ![i] = @ + q]
    /\ UNCHANGED <<book, calls, listing>>

-----------------------------------------------------------------------------
(* Properties *)

\* What buyers see: the last published passport, with the terms of the instrument.
PublishedVersions(i) == {v \in 1..Len(versions[i]) : versions[i][v].published}
OnMarket == {i \in Instruments : PublishedVersions(i) # {}}
PublicPassport(i) ==
    LET v == Max(PublishedVersions(i)) IN
    [terms |-> instrument[i].terms, version |-> v,
     passport |-> versions[i][v].passport, hash |-> versions[i][v].hash]

\* Who approved exactly what version v says.
Endorsers(i, v) == {d.operator : d \in {d \in decisions :
    d.issue = i /\ d.version = v /\ d.decision = "APPROVE" /\ d.hash = versions[i][v].hash}}

BeforeApproval == {"DRAFT", "UNDER_REVIEW"}
Reached(i) == IF Status(i) = "SUSPENDED" THEN instrument[i].suspendedFrom ELSE Status(i)

\* What buyers are shown is what two different operators approved, word for word:
\* whatever is saved, returned, revised, suspended and resumed in between, a
\* published passport is complete, has the hash of the present text and terms,
\* and an instrument gets past review only with it.
PublishedIsReviewed ==
    /\ \A i \in OnMarket :
          LET p == PublicPassport(i) IN
          /\ IsComplete(p.passport)
          /\ p.hash = HashPassport(i, p.terms, p.version, p.passport)
          /\ instrument[i].hash = p.hash
          /\ Cardinality(Endorsers(i, p.version)) >= 2
    /\ \A i \in Instruments :
          Created(i) /\ Reached(i) \notin BeforeApproval => i \in OnMarket

\* An approved instrument that is covered is about to be promoted: it waits for
\* none but a worker that has its report to make, unless a report came before the
\* approval or died with its process, and only another call makes it again.
CoveredIsPromoted == \A i \in Instruments :
    Created(i) /\ Status(i) = "APPROVED" /\ Covered(i) =>
        \/ missed[i]
        \/ \E w \in Workers : stage[w] = "done" /\ IsReserve(w) /\ InstrumentOf(w) = i

\* Rejected, or suspended from one of the three statuses that no command names.
Stuck(i) == Created(i) /\
    \/ Current(i).state = "REJECTED"
    \/ /\ Status(i) = "SUSPENDED"
       /\ instrument[i].suspendedFrom \in {"UNDER_REVIEW", "APPROVED", "COLLATERALIZED"}

\* Who is rejected, or suspended in those statuses, stays so whatever anybody
\* does; instrument/README.md:8 says that suspension "restores" the prior status.
DeadEndsAreFinal == [][\A i \in Instruments : Stuck(i) => Stuck(i)']_vars
=============================================================================
