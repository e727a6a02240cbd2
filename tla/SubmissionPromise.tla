-------------------------- MODULE SubmissionPromise --------------------------
(***************************************************************************)
(* What the submission journal promises about market orders, with nothing  *)
(* about how: an intent is committed before its order can appear, an order *)
(* appears at most once and only while its own intent is unresolved, and   *)
(* an unresolved intent excludes every Buy and every order of its symbol.  *)
(***************************************************************************)
EXTENDS Naturals

CONSTANTS Links, Buys, SymbolOf

VARIABLES
    intent,     \* "none", then "unresolved", then "resolved"
    orders,     \* orders the exchange created for the link
    open        \* the orders that may still execute

vars == <<intent, orders, open>>

TypeOK ==
    /\ intent \in [Links -> {"none", "unresolved", "resolved"}]
    /\ orders \in [Links -> 0..1]
    /\ open \subseteq Links

Init ==
    /\ intent = [l \in Links |-> "none"]
    /\ orders = [l \in Links |-> 0]
    /\ open = {}

Excludes(m, l) == intent[m] = "unresolved" /\ (l \in Buys \/ SymbolOf[m] = SymbolOf[l])

Commit(l) ==
    /\ intent[l] = "none"
    /\ \A m \in Links : ~Excludes(m, l)
    /\ intent' = [intent EXCEPT ![l] = "unresolved"]
    /\ UNCHANGED <<orders, open>>

Place(l) ==
    /\ intent[l] = "unresolved" /\ orders[l] = 0
    /\ orders' = [orders EXCEPT ![l] = 1]
    /\ open' = open \cup {l}
    /\ UNCHANGED intent

Resolve(l) ==
    /\ intent[l] = "unresolved"
    /\ intent' = [intent EXCEPT ![l] = "resolved"]
    /\ UNCHANGED <<orders, open>>

Terminate(l) ==
    /\ l \in open
    /\ open' = open \ {l}
    /\ UNCHANGED <<intent, orders>>

Next == \E l \in Links : Commit(l) \/ Place(l) \/ Resolve(l) \/ Terminate(l)

Spec == Init /\ [][Next]_vars

=============================================================================
