--------------------------- MODULE SettledMutation ---------------------------
(***************************************************************************)
(* What a settled intent is worth, without clock, calls, reads or evidence:*)
(* the broker may take its one order only while the intent still blocks the*)
(* account, and the intent is settled once, as persisted exactly if the    *)
(* broker has the order.  ExactlyOnceMutation, of a ledger that does not   *)
(* know the time, promises less: there an order may still arrive behind a  *)
(* rejection or a no-order resolution.  (docs/architecture.md, "Exact-Once *)
(* Trading Intent Ledger".)                                                *)
(***************************************************************************)
VARIABLES
    outcome,   \* "blocked", or a final outcome
    performed  \* the broker has the order

mvars == <<outcome, performed>>

FinalOutcomes == {"persisted", "rejected", "resolved_no_order"}

MInit == outcome = "blocked" /\ performed = FALSE

Perform ==
    /\ outcome = "blocked" /\ ~performed
    /\ performed' = TRUE
    /\ UNCHANGED outcome

Settle(final) ==
    /\ outcome = "blocked"
    /\ final = "persisted" <=> performed
    /\ outcome' = final
    /\ UNCHANGED performed

MNext == Perform \/ \E final \in FinalOutcomes : Settle(final)

MSpec == MInit /\ [][MNext]_mvars
=============================================================================
