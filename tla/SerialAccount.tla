----------------------------- MODULE SerialAccount -----------------------------
(***************************************************************************)
(* What the account gate and the composite actions promise about trading   *)
(* on one account, without workers, gates, rows or evidence: an action     *)
(* ventures one leg after the other, only while nothing else on the        *)
(* account is open; a leg settles as persisted if it has an order at the   *)
(* broker and as nothing if it has none; and an action ends once, with no  *)
(* leg open and a success only without a leg whose order was lost.         *)
(* (docs/architecture.md, "Exact-Once Trading Intent Ledger".)             *)
(***************************************************************************)
CONSTANT Actions   \* composite actions of the account

Legs == {"long_entry", "short_entry", "long_exit"}

VARIABLES
    deed,     \* deed[a]: "none", "open", or how the action ended
    outcome,  \* outcome[a][l]: "none", "open", or how the leg was settled
    sent      \* pairs <<a, l>> that have an order at the broker

svars == <<deed, outcome, sent>>

\* Nothing of a is open, and its orders are in the books.
Settled(a) ==
    \A l \in Legs :
      /\ outcome[a][l] # "open"
      /\ <<a, l>> \in sent => outcome[a][l] = "persisted"

OthersSettled(a) == \A b \in Actions \ {a} : Settled(b)

SInit ==
    /\ deed = [a \in Actions |-> "none"]
    /\ outcome = [a \in Actions |-> [l \in Legs |-> "none"]]
    /\ sent = {}

Begin(a) ==
    /\ deed[a] = "none"
    /\ deed' = [deed EXCEPT ![a] = "open"]
    /\ UNCHANGED <<outcome, sent>>

\* The short leg is sold behind the long one, which is sold again only when
\* the short one did not come about.
Follows(rows, l) ==
    /\ l # "long_entry" => rows["long_entry"] = "persisted"
    /\ l = "long_exit" => rows["short_entry"] \in {"persisted", "rejected"}

Venture(a, l) ==
    /\ deed[a] = "open"
    /\ OthersSettled(a)
    /\ \A m \in Legs : outcome[a][m] # "open"
    /\ outcome[a][l] = "none"
    /\ Follows(outcome[a], l)
    /\ outcome' = [outcome EXCEPT ![a][l] = "open"]
    /\ UNCHANGED <<deed, sent>>

Send(a, l) ==
    /\ outcome[a][l] = "open"
    /\ <<a, l>> \notin sent
    /\ OthersSettled(a)
    /\ sent' = sent \cup {<<a, l>>}
    /\ UNCHANGED <<deed, outcome>>

\* The last leg to settle ends an action of which an order was lost.
Settle(a, l, how) ==
    /\ outcome[a][l] = "open"
    /\ how = "persisted" <=> <<a, l>> \in sent
    /\ outcome' = [outcome EXCEPT ![a][l] = how]
    /\ deed' = IF \E m \in Legs : outcome'[a][m] = "resolved_no_order"
               THEN [deed EXCEPT ![a] = "rejected"] ELSE deed
    /\ UNCHANGED sent

\* The worker ends its action: refused before its first leg, or complete.
End(a, how) ==
    /\ deed[a] = "open"
    /\ \A l \in Legs : outcome[a][l] \notin {"open", "resolved_no_order"}
    /\ how = "rejected" => \A l \in Legs : outcome[a][l] = "none"
    /\ deed' = [deed EXCEPT ![a] = how]
    /\ UNCHANGED <<outcome, sent>>

SNext == \E a \in Actions :
    \/ Begin(a)
    \/ \E how \in {"persisted", "rejected"} : End(a, how)
    \/ \E l \in Legs :
         \/ Venture(a, l) \/ Send(a, l)
         \/ \E how \in {"persisted", "rejected", "resolved_no_order"} : Settle(a, l, how)

SSpec == SInit /\ [][SNext]_svars
=============================================================================
