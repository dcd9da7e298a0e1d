------------------------ MODULE ExactlyOnceMutation ------------------------
(***************************************************************************)
(* What the intent ledger promises the caller of a broker mutation, without*)
(* saying how: per idempotency key the mutation is opened at most once with*)
(* one payload, is performed at the broker at most once, and its local     *)
(* outcome is blocked until it settles for good.  Only a performed mutation*)
(* settles as "persisted".  (docs/architecture.md, "Exact-Once Trading     *)
(* Intent Ledger".)                                                        *)
(***************************************************************************)
CONSTANTS Keys, Orders, Payloads, NoPayload

VARIABLES
    payload,    \* payload[k]: what the key was opened with, or NoPayload
    performed,  \* performed[k]: the orders the broker holds for the key
    outcome     \* outcome[k]: "blocked", or a final outcome

evars == <<payload, performed, outcome>>

FinalOutcomes == {"persisted", "rejected", "resolved_no_order"}

EInit ==
    /\ payload = [k \in Keys |-> NoPayload]
    /\ performed = [k \in Keys |-> {}]
    /\ outcome = [k \in Keys |-> "blocked"]

Open(k, p) ==
    /\ payload[k] = NoPayload
    /\ payload' = [payload EXCEPT ![k] = p]
    /\ UNCHANGED <<performed, outcome>>

Perform(k, o) ==
    /\ payload[k] # NoPayload
    /\ performed[k] = {}
    /\ performed' = [performed EXCEPT ![k] = {o}]
    /\ UNCHANGED <<payload, outcome>>

Settle(k, final) ==
    /\ payload[k] # NoPayload
    /\ outcome[k] = "blocked"
    /\ final = "persisted" => performed[k] # {}
    /\ outcome' = [outcome EXCEPT ![k] = final]
    /\ UNCHANGED <<payload, performed>>

ENext == \E k \in Keys :
    \/ \E p \in Payloads : Open(k, p)
    \/ \E o \in Orders : Perform(k, o)
    \/ \E final \in FinalOutcomes : Settle(k, final)

ESpec == EInit /\ [][ENext]_evars
=============================================================================
