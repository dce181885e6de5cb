------------------------------ MODULE MCListing ------------------------------
(***************************************************************************)
(* IssuerWizard for TLC, from three places.  In one, no draft exists, and   *)
(* two tabs of an issuer write one.  In another, one tab comes back to a    *)
(* draft: one that waits for its last section and has a claim with a blank  *)
(* first line, or a complete one.  In the last, the pages are gone, and two *)
(* instruments that share an asset are about to be covered: one still under *)
(* review, the other suspended after its approval.                          *)
(***************************************************************************)
EXTENDS IssuerWizard, TLC

CONSTANTS o1, o2, w1, w2, p1, p2, alice, gold

MCInstruments == 1..3
MCDrafts == {1}
MCAssetQuantity == gold :> 3
MCUnitPerToken == 1 :> 1 @@ 2 :> 1 @@ 3 :> 2
Asks(k, i, q) == [kind |-> k, asset |-> gold, instrument |-> i, quantity |-> q]
MCEvents == 1..4
MCSays == <<Asks("RESERVE", 2, 1), Asks("RESERVE", 2, 1), Asks("RESERVE", 3, 2),
            Asks("RELEASE", 2, 1)>>
MCTerms == {"small", "large", "dollar"}
MCSupplyCap == "small" :> 1 @@ "large" :> 2 @@ "dollar" :> 1
MCCurrencyOf == "small" :> "kzt" @@ "large" :> "kzt" @@ "dollar" :> "usd"
MCUserOf == p1 :> alice @@ p2 :> alice
MCTexts == <<{<<"a", "b">>, <<" ", "b">>}, {<<"a">>}, {<<"a">>, <<"odd">>}>>
MCOdd == {<<"odd">>}
Whole == << <<"a", "law">>, <<"a", "kzt">>, <<"a">> >>
MCRevisions == {Whole}

\* The second place: a draft that its page has left, after a click at least.
Left == [NewPage(None) EXCEPT !.open = FALSE]
Begun == << <<" ", "b", "law">>, <<"a", "kzt">>, Absent >>
Resumed(draft) ==
    /\ CollateralInit
    /\ instrument = [i \in Instruments |-> IF i = 1 THEN NewInstrument(alice, "small") ELSE None]
    /\ versions = [i \in Instruments |-> IF i = 1 THEN <<NewVersion(draft)>> ELSE <<>>]
    /\ decisions = {} /\ promotions = {} /\ missed = [i \in Instruments |-> FALSE]
    /\ supply = [i \in Instruments |-> 0]
    /\ \E tab \in Pages : page = [p \in Pages |-> IF p = tab THEN None ELSE Left]
    /\ saves = [i \in Instruments |-> IF i = 1 THEN 1 ELSE 0]
    /\ sent = [i \in Instruments |-> None]
    /\ clicks = 1

\* The third place: the pages have been left.
MarketTerms == 2 :> "large" @@ 3 :> "small"
ForSale == {2, 3}
HashOf(i) == HashPassport(i, MarketTerms[i], 2, Whole)
First == [NewVersion(Whole) EXCEPT !.state = "RETURNED"]
Second(i) == [NewVersion(Whole) EXCEPT !.state = "SUBMITTED", !.hash = HashOf(i)]
Approval(i, o) == [issue |-> i, version |-> 2, operator |-> o, decision |-> "APPROVE",
                   hash |-> HashOf(i)]
Market ==
    /\ CollateralInit
    /\ instrument = [i \in Instruments |-> IF i \notin ForSale THEN None ELSE
           [NewInstrument(alice, MarketTerms[i]) EXCEPT
               !.status = IF i = 2 THEN "UNDER_REVIEW" ELSE "SUSPENDED",
               !.suspendedFrom = IF i = 2 THEN "NONE" ELSE "APPROVED",
               !.version = 2, !.hash = HashOf(i)]]
    /\ versions = [i \in Instruments |->
           IF i = 2 THEN <<First, Second(i)>>
           ELSE IF i = 3 THEN <<First, [Second(i) EXCEPT !.state = "APPROVED", !.published = TRUE]>>
           ELSE <<>>]
    /\ \E o \in Operators : decisions = {Approval(2, o), Approval(3, o1), Approval(3, o2)}
    /\ promotions = {} /\ missed = [i \in Instruments |-> FALSE]
    /\ supply = [i \in Instruments |-> 0]
    /\ page = [p \in Pages |-> Left]
    /\ saves = [i \in Instruments |-> 0]
    /\ sent = [i \in Instruments |-> None]
    /\ clicks = 0

MCSpec == (Init \/ Resumed(Begun) \/ Resumed(Whole) \/ Market) /\ [][Next]_allvars

\* Workers, operators, and tabs of one issuer, are alike.
Symmetry == {f @@ g @@ h : f \in Permutations({w1, w2}), g \in Permutations({p1, p2}),
                           h \in Permutations(Operators)}
=============================================================================
