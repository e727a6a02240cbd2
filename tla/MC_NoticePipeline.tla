------------------------- MODULE MC_NoticePipeline -------------------------
(* A small instance of NoticePipeline for TLC: a lot, a conversion of all of *)
(* it, and an order that sells what is no longer there in two fills.        *)
EXTENDS NoticePipeline

Execution(order, side, amount, owned, conversion) ==
    [order |-> order, side |-> side, amount |-> amount, owned |-> owned, conversion |-> conversion]

OneRecord == {[key |-> <<"record", {}>>, at |-> 0]}

FourFills == 1..4
TwoFillSale ==
    <<Execution("a", "Buy", 2, TRUE, FALSE), Execution("c", "Sell", 2, FALSE, TRUE),
      Execution("b", "Sell", 1, TRUE, FALSE), Execution("b", "Sell", 1, TRUE, FALSE)>>
FirstThree == 1..3
=============================================================================
