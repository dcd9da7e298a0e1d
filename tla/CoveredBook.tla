------------------------------ MODULE CoveredBook ------------------------------
(***************************************************************************)
(* What the book of covered calls promises about each trade, without       *)
(* requests, orders, parent actions or passes: a call is sold once, after  *)
(* its proposal was decided, into a lot that no other call needs, and for  *)
(* a roll only when the old call is bought back; a call is bought back     *)
(* after it was sold, or blindly, by a decided roll that was proposed      *)
(* without a look at its source; and the rows report only what happened.   *)
(* Whoever rejects a proposal gives up the lot of its call.                *)
(* (docs/strategy-lifecycle.md, "Covered Call Invariants".)                *)
(***************************************************************************)
EXTENDS Naturals, FiniteSets

CONSTANTS
    Opens,   \* proposals that sell a call
    Rolls,   \* proposals that replace one
    Source,  \* Source[r]: the proposal whose call the roll r replaces
    Lots     \* lots of shares to sell calls on

Proposals == Opens \cup Rolls

VARIABLES
    call,   \* call[p]: the sale of the proposal's call
    back,   \* proposals whose call was bought back
    books,  \* books[p]: the row of the proposal
    blind,  \* rolls that were proposed without a look at their source
    waived  \* proposals that were rejected at some time

bvars == <<call, back, books, blind, waived>>

Decided(p) == books[p] \notin {"none", "pending"}

\* The calls that need a lot: sold, or "offered" and still to be sold.
Held == {p \in Proposals \ (waived \cup back) : call[p] \in {"offered", "sold"}}

BInit ==
    /\ call = [p \in Proposals |-> "unsold"]
    /\ back = {}
    /\ books = [p \in Proposals |-> "none"]
    /\ blind = {}
    /\ waived = {}

\* A roll is proposed for a call that was sold, or blindly.
Propose(p) ==
    /\ books[p] = "none"
    /\ books' = [books EXCEPT ![p] = "pending"]
    /\ \/ /\ p \in Rolls => call[Source[p]] = "sold"
          /\ UNCHANGED blind
       \/ /\ p \in Rolls
          /\ blind' = blind \cup {p}
    /\ UNCHANGED <<call, back, waived>>

Decide(p, s) ==
    /\ books[p] # "none"
    /\ books' = [books EXCEPT ![p] = s]
    /\ waived' = IF s = "rejected" THEN waived \cup {p} ELSE waived
    /\ UNCHANGED <<call, back, blind>>

Sell(p) ==
    /\ call[p] = "unsold"
    /\ Decided(p)
    /\ p \in Rolls => Source[p] \in back
    /\ p \notin waived \cup back => Cardinality(Held) < Lots
    /\ \E c \in {"offered", "sold", "missed"} : call' = [call EXCEPT ![p] = c]
    /\ UNCHANGED <<back, books, blind, waived>>

Settle(p) ==
    /\ call[p] = "offered"
    /\ \E c \in {"sold", "missed"} : call' = [call EXCEPT ![p] = c]
    /\ UNCHANGED <<back, books, blind, waived>>

BuyBack(p) ==
    /\ p \notin back
    /\ call[p] = "sold" \/ \E r \in blind : Source[r] = p /\ Decided(r)
    /\ back' = back \cup {p}
    /\ UNCHANGED <<call, books, blind, waived>>

Report(p, s) ==
    /\ call[p] = "sold"
    /\ s # "executed" => p \in back
    /\ s = "rolled" => \E r \in Rolls : Source[r] = p /\ call[r] = "sold"
    /\ books' = [books EXCEPT ![p] = s]
    /\ UNCHANGED <<call, back, blind, waived>>

BNext == \E p \in Proposals :
    \/ Propose(p) \/ Sell(p) \/ Settle(p) \/ BuyBack(p)
    \/ \E s \in {"approved", "rejected"} : Decide(p, s)
    \/ \E s \in {"executed", "closed", "rolled"} : Report(p, s)

BSpec == BInit /\ [][BNext]_bvars
=============================================================================
