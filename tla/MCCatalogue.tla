------------------------------ MODULE MCCatalogue ------------------------------
(* Small instances of Catalogue for TLC: promotions with and without a price    *)
(* for afterwards, one after another and one within another, a promotion's price *)
(* left in the credits, a price that is not given, and a model that the          *)
(* interface does not list.                                                      *)
EXTENDS Catalogue, TLC

CONSTANTS c1, c2

Plain(credits, real) ==
    [listed |-> TRUE, credits |-> credits, real |-> real, promotions |-> <<>>]
Promotion(factor, from, until) == [factor |-> factor, from |-> from, until |-> until]
FreeRule == Plain(0, 0)
PaidRule == Plain(2, 2)
UnpricedRule == Plain(NoPrice, 2)
UnlistedRule == [PaidRule EXCEPT !.listed = FALSE]
PromotionRule == [PaidRule EXCEPT !.promotions = <<Promotion(0, 2, 3)>>]
\* The vendor writes the price of the promotion into the credits.
FixedPromotionRule == [Plain(0, 2) EXCEPT !.promotions = <<Promotion(0, 0, 3)>>]
FixedDiscountRule == [Plain(1, 2) EXCEPT !.promotions = <<Promotion(1, 0, 3)>>]
\* One promotion follows another, and a lower one lies within a longer one.
TwoPromotionsRule == [PaidRule EXCEPT !.promotions = <<Promotion(0, 0, 2), Promotion(0, 3, 0)>>]
NestedRule == [PaidRule EXCEPT !.promotions = <<Promotion(1, 0, 0), Promotion(0, 2, 3)>>]

PaidOrFixed == {PaidRule, FixedPromotionRule}
FixedOrSeveral == {FixedPromotionRule, TwoPromotionsRule, NestedRule}
SeveralPromotions == FixedOrSeveral \cup {PaidRule}
AllRules == SeveralPromotions \cup
    {FreeRule, UnpricedRule, UnlistedRule, PromotionRule, FixedDiscountRule}
FreePackage == {0}

CallerSymmetry == Permutations(Callers)

\* The ledger is read only at a start, for a sample the cache does not have, and a
\* cache that has one never loses it; nothing reads when a probe was last sent.
LedgerWhileRead ==
    <<vendor, up, sources, cache,
      IF file # NoFile /\ file.usage.at > 0 THEN NoLedger ELSE ledger,
      requested, tasks, crashes>>
=============================================================================
