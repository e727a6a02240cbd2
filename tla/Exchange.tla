------------------------------ MODULE Exchange ------------------------------
(***************************************************************************)
(* The Bybit Spot account, as the live executor uses it.  The exchange is  *)
(* not part of the repository: its behaviour is what bybit_private.py and  *)
(* the readers of its answers have to cope with.  A request may be lost,   *)
(* may be answered late or not at all, and may take effect after the       *)
(* client gave up on it; it is never duplicated by the network itself.     *)
(***************************************************************************)
EXTENDS Naturals, FiniteSets

CONSTANTS
    Links,      \* order link ids: one intended market order each
    Buys,       \* the links of Buy intents; the others are Sells
    Symbols,    \* traded Spot symbols
    SymbolOf    \* the symbol of each link

ASSUME LinksAssumption ==
    /\ IsFiniteSet(Links)
    /\ Buys \subseteq Links
    /\ SymbolOf \in [Links -> Symbols]

VARIABLES
    flight,     \* copies of the create request still travelling, per link
    accepted,   \* orders the exchange created, per link
    refused,    \* how the last copy was refused: "no", "stale" (10002), "denied"
    xstatus,    \* orderStatus of the created order
    exec,       \* executed quantity of the created order, in base units
    wallet      \* base coin inventory of each symbol

exchangeVars == <<flight, accepted, refused, xstatus, exec, wallet>>

Sells == Links \ Buys
Of(s) == {l \in Links : SymbolOf[l] = s}

Refusals == {"no", "stale", "denied"}
OpenStatus == {"New", "PartiallyFilled"}
ZeroFillStatus == {"Cancelled"}                    \* Cancelled, Rejected, Deactivated
FilledStatus == {"Filled", "PartiallyFilledCanceled"}
OrderStatus == {"none"} \cup OpenStatus \cup ZeroFillStatus \cup FilledStatus

ExchangeTypeOK ==
    /\ flight \in [Links -> Nat]
    /\ accepted \in [Links -> Nat]
    /\ refused \in [Links -> Refusals]
    /\ xstatus \in [Links -> OrderStatus]
    /\ exec \in [Links -> Nat]
    /\ wallet \in [Symbols -> Nat]

ExchangeInit ==
    /\ flight = [l \in Links |-> 0]
    /\ accepted = [l \in Links |-> 0]
    /\ refused = [l \in Links |-> "no"]
    /\ xstatus = [l \in Links |-> "none"]
    /\ exec = [l \in Links |-> 0]
    /\ wallet = [s \in Symbols |-> 0]

-----------------------------------------------------------------------------
(* The client's half: one POST of /v5/order/create. *)
PostRequest(l) ==
    /\ flight' = [flight EXCEPT ![l] = @ + 1]
    /\ refused' = [refused EXCEPT ![l] = "no"]
    /\ UNCHANGED <<accepted, xstatus, exec, wallet>>

(* The exchange's half. *)
Accept(l) ==
    /\ flight[l] > 0
    /\ flight' = [flight EXCEPT ![l] = @ - 1]
    /\ accepted' = [accepted EXCEPT ![l] = @ + 1]
    /\ xstatus' = [xstatus EXCEPT ![l] = "New"]
    /\ UNCHANGED <<refused, exec, wallet>>

Refuse(l, how) ==
    /\ flight[l] > 0
    /\ flight' = [flight EXCEPT ![l] = @ - 1]
    /\ refused' = [refused EXCEPT ![l] = how]
    /\ UNCHANGED <<accepted, xstatus, exec, wallet>>

LoseRequest(l) ==
    /\ flight[l] > 0
    /\ flight' = [flight EXCEPT ![l] = @ - 1]
    /\ UNCHANGED <<accepted, refused, xstatus, exec, wallet>>

(* One unit of the order executes; qty is the quantity the request asked for. *)
Fill(l, qty) ==
    /\ xstatus[l] \in OpenStatus
    /\ exec[l] < qty
    /\ l \in Sells => wallet[SymbolOf[l]] > 0
    /\ exec' = [exec EXCEPT ![l] = @ + 1]
    /\ wallet' = [wallet EXCEPT ![SymbolOf[l]] = IF l \in Buys THEN @ + 1 ELSE @ - 1]
    /\ xstatus' = [xstatus EXCEPT ![l] = IF exec[l] + 1 = qty THEN "Filled" ELSE "PartiallyFilled"]
    /\ UNCHANGED <<flight, accepted, refused>>

CancelRest(l) ==
    /\ xstatus[l] \in OpenStatus
    /\ xstatus' = [xstatus EXCEPT ![l] =
         IF exec[l] = 0 THEN "Cancelled" ELSE "PartiallyFilledCanceled"]
    /\ UNCHANGED <<flight, accepted, refused, exec, wallet>>

=============================================================================
