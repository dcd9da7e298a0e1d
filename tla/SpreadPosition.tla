--------------------------- MODULE SpreadPosition ---------------------------
(***************************************************************************)
(* What the life of one Bull Put spread promises, contract by contract and *)
(* without orders, threads or retries: the long put is bought first, the   *)
(* short one is sold while the whole long leg is held, it is bought back   *)
(* before the long leg is sold, and the books end the spread only on a     *)
(* position that fits.  A spread whose entry the books call failed has no  *)
(* short leg and gets none; what its long leg may still fill is all that   *)
(* can happen to it.  (README.md, "Safety Defaults"; docs/strategy-        *)
(* lifecycle.md.)                                                          *)
(***************************************************************************)
EXTENDS Naturals

CONSTANT Contracts   \* contracts of the spread

VARIABLES
    bought,   \* contracts bought to open the long leg
    short,    \* contracts sold to open the short leg
    back,     \* contracts the short leg was bought back by
    sold,     \* contracts of the long leg that were sold
    books     \* what the row says: open, or how the spread ended

pvars == <<bought, short, back, sold, books>>

PInit ==
    /\ bought = 0 /\ short = 0 /\ back = 0 /\ sold = 0
    /\ books = "open"

BuyLong ==
    /\ bought < Contracts
    /\ bought' = bought + 1
    /\ UNCHANGED <<short, back, sold, books>>

SellShort ==
    /\ books = "open"
    /\ bought = Contracts /\ sold = 0
    /\ short < Contracts
    /\ short' = short + 1
    /\ UNCHANGED <<bought, back, sold, books>>

BuyBack ==
    /\ books = "open"
    /\ short = Contracts /\ sold = 0
    /\ back < Contracts
    /\ back' = back + 1
    /\ UNCHANGED <<bought, short, sold, books>>

SellLong ==
    /\ books = "open"
    /\ bought = Contracts /\ short = back
    /\ sold < Contracts
    /\ sold' = sold + 1
    /\ UNCHANGED <<bought, short, back, books>>

End(how) ==
    /\ books = "open"
    /\ how = "entry_failed" => short = 0
    /\ how = "rolled_back" => short = 0 /\ sold = Contracts
    /\ how = "closed" => back = Contracts /\ sold = Contracts
    /\ books' = how
    /\ UNCHANGED <<bought, short, back, sold>>

PNext ==
    \/ BuyLong \/ SellShort \/ BuyBack \/ SellLong
    \/ \E how \in {"entry_failed", "rolled_back", "closed"} : End(how)

PSpec == PInit /\ [][PNext]_pvars
=============================================================================
