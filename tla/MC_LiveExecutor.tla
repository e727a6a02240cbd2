-------------------------- MODULE MC_LiveExecutor --------------------------
(* Small instances of LiveExecutor for TLC. *)
EXTENDS LiveExecutor, TLC

CONSTANTS a, b, sa, n1, r1, r2, A, B, none

OneSymbol == {A}
TwoSymbols == {A, B}

\* two symbols: a Buy and the Sell that closes it, and a competing Buy
TradeLinks == {a, sa, b}
TradeBuys == {a, b}
TradeSymbolOf == (a :> A) @@ (sa :> A) @@ (b :> B)

\* one Buy and its Sell, with quantities, reasons and notes
NoNotes == {}
OneNote == {n1}
ExitLinks == {a, sa}
ExitBuys == {a}
ExitKeys == ExitLinks \cup OneNote
ExitSymbolOf == (a :> A) @@ (sa :> A)

NoControls == {}
AllControls == BOOLEAN \X BOOLEAN

OneReason == {r1}
TwoReasons == {r1, r2}
=============================================================================
