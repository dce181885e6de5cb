----------------------------- MODULE MCSettlement -----------------------------
(***************************************************************************)
(* Two trades of one instrument in KZT.  Both sell from the same seller;    *)
(* the first has both fees and a residual, the second no buyer fee and no   *)
(* residual.  The seller's and the second buyer's account may be opened     *)
(* late.  The clearing accounts hold the commitments of both trades, so one *)
(* could be settled with the money of the other.                            *)
(***************************************************************************)
EXTENDS Settlement

\* 1 clearing cash, 2 clearing tokens, 3 fees, 4 residuals, 5 the seller's cash,
\* 6 and 7 the buyers' tokens.
MCAccounts == 1..7
MCOwner == <<"exchange", "exchange", "exchange", "exchange", "seller", "buyer1", "buyer2">>
MCPurpose == <<"RESERVED", "RESERVED", "FEE", "RESIDUAL", "AVAILABLE", "AVAILABLE", "AVAILABLE">>
MCNormalSide == [a \in MCAccounts |-> "DEBIT"]
MCDenomination == <<"KZT", "WHT", "KZT", "KZT", "KZT", "WHT", "WHT">>

MCTrades == 1..2
MCSellerCash == <<5, 5>>
MCBuyerToken == <<6, 7>>
MCFills == <<
    [price |-> 2, quantity |-> 2, buyerRate |-> 100000, sellerRate |-> 250000, buyerFee |-> 1],
    [price |-> 4, quantity |-> 1, buyerRate |-> 0, sellerRate |-> 250000, buyerFee |-> 0] >>
MCOpenFromStart == {1, 2, 3, 4, 6}

\* Of the first trade the operator lowers the price, or moves a unit of fee between the
\* parties, which leaves all sums of fees as they are; or turns a residual into a fee, or
\* moves a fee row between the parties, which no sum shows.
MCRowEdits == <<
    {Terms(1), [Terms(1) EXCEPT !.cash = 3],
     [Terms(1) EXCEPT !.buyerFee = 0, !.sellerFee = 2]},
    {} >>
MCFeeEdits == <<
    {Charges(1), [Charges(1) EXCEPT !.buyerFee = 1, !.buyerResidual = 0],
     [Charges(1) EXCEPT !.buyerFee = 1, !.sellerFee = 0]},
    {} >>

\* A trade over one minor unit: any seller rate above zero rounds up to a fee
\* of one, all of it residual, and nothing is left to pay.
TinyFills == <<
    [price |-> 1, quantity |-> 1, buyerRate |-> 100000, sellerRate |-> 100000, buyerFee |-> 1],
    [price |-> 4, quantity |-> 1, buyerRate |-> 0, sellerRate |-> 250000, buyerFee |-> 0] >>
NoEdits == <<{}, {}>>
=============================================================================
