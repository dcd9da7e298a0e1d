---------------------------- MODULE CoveredCall ----------------------------
(***************************************************************************)
(* Covered calls on one underlying of one account.  A proposal sells a     *)
(* call against 100 shares (an opener), or buys such a call back and sells *)
(* a later one (a roll of its source).  API threads decide, execute,       *)
(* close, roll and continue; each trade prepares a parent action, asks the *)
(* account gate and the share reservation, submits through the ledger and  *)
(* records a run that links the order to the proposal.  The scheduler's    *)
(* pass refreshes the linked orders and brings the statuses up to date.    *)
(* Every status is written without comparing it with the one last read.    *)
(*                                                                         *)
(* application/services/covered_call_strategy.py,                          *)
(* application/services/covered_call/lifecycle.py, the decisions of        *)
(* application/services/strategy_experiments.py and the proposal rows of   *)
(* repositories/sqlalchemy_strategy_experiment_repository.py.  The ledger  *)
(* answers a leg's second submission with its first order (TradingIntents) *)
(* and settles parent actions (TradeActions): neither is repeated here.    *)
(***************************************************************************)
EXTENDS Integers, FiniteSets

CONSTANTS
    Opens,     \* proposals with action sell_covered_call
    Rolls,     \* proposals with action roll_covered_call
    Source,    \* Source[r]: the proposal whose call r buys back
    Lots,      \* lots of 100 shares the account holds; a call needs one
    Threads,   \* API worker threads
    Asked,     \* bound: Asked[w], the <<operation, proposal>> requests w serves
    MaxFaults  \* bound: crashes, lost answers, failing passes, posted rolls

Proposals == Opens \cup Rolls

ASSUME CoveredCallConstants ==
    /\ Opens \cap Rolls = {}
    /\ IsFiniteSet(Proposals)
    /\ Source \in [Rolls -> Proposals]
    /\ \A r \in Rolls : Source[r] # r
    /\ Lots \in Nat
    /\ MaxFaults \in Nat

VARIABLES
    status,   \* status[p]: the proposal row, "none" before it exists
    origin,   \* origin[r]: what has been looked at before roll r's row exists
    order,    \* order[p][l]: the order under the leg's idempotency key
    linked,   \* linked[p]: legs whose order some run of p names
    rollRun,  \* rollRun[r]: order ids in the latest roll run of r
    thread,   \* thread[w]: the request that thread w is serving
    parents,  \* proposals with a parent action that nobody serves any more
    pass,     \* duties left in the scheduler's current pass
    dropped,  \* history: proposals whose row was once rejected or expired
    faults    \* faults so far

vars == <<status, origin, order, linked, rollRun, thread, parents, pass, dropped,
          faults>>

Statuses == {"none", "pending", "approved", "executed", "closed", "rolled",
             "rejected"}
ActiveStatuses == {"pending", "approved", "executed"}

Legs == {"sell", "close", "buyback"}

\* "unknown": an unresolved intent whose order may exist; "void": no order.
OrderStates == {"none", "unknown", "working", "filled", "canceled", "void"}

\* "vetted": create_roll_proposal has found the source executed; "posted": the
\* row came in by POST /strategies/proposals, which looks at nothing.
Origins == {"none", "vetted", "posted"}

Operations == {"approve", "reject", "open", "close", "roll", "continue"}
Steps == {"decide", "prepare", "check", "survey", "cover", "sale", "record",
          "mark_source", "roll_source", "mark"}

\* held: the reservations read by a survey; result: what the order that
\* decides the proposal's status looked like to this request.
Requests == [at: Steps, op: Operations, p: Proposals,
             held: SUBSET Proposals, result: {"none", "sent", "filled"}]
Idle == [at |-> "idle"]

Duties == {"sale", "close", "roll", "source", "adopt"}

\* Rows, requests and the scheduler's pass only hold values of their types.
TypeOK ==
    /\ status \in [Proposals -> Statuses]
    /\ origin \in [Rolls -> Origins]
    /\ order \in [Proposals -> [Legs -> OrderStates]]
    /\ linked \in [Proposals -> SUBSET Legs]
    /\ rollRun \in [Rolls -> {"none", "buyback", "both"}]
    /\ thread \in [Threads -> Requests \cup {Idle}]
    /\ parents \subseteq Proposals
    /\ pass \subseteq Proposals \X Duties
    /\ dropped \subseteq Proposals
    /\ faults \in 0..MaxFaults

Init ==
    /\ status = [p \in Proposals |-> "none"]
    /\ origin = [r \in Rolls |-> "none"]
    /\ order = [p \in Proposals |-> [l \in Legs |-> "none"]]
    /\ linked = [p \in Proposals |-> {}]
    /\ rollRun = [r \in Rolls |-> "none"]
    /\ thread = [w \in Threads |-> Idle]
    /\ parents = {}
    /\ pass = {}
    /\ dropped = {}
    /\ faults = 0

-----------------------------------------------------------------------------
\* The calls and the shares under them.

\* The call of p was bought back, by its close or by a roll out of it.
Bought(p) ==
    \/ order[p]["close"] = "filled"
    \/ \E r \in Rolls : Source[r] = p /\ order[r]["buyback"] = "filled"

\* A call of p is short, or its sale may still fill, and it was not bought back.
\* (A posted roll may buy the call back before it is sold.)
Exposed(p) == order[p]["sell"] \in {"unknown", "working", "filled"} /\ ~Bought(p)

ActiveProposals == {p \in Proposals : status[p] \in ActiveStatuses}

\* The reservation of p's own sale leaves out p and the source of a roll.
Excluded(p) == {p} \cup (IF p \in Rolls THEN {Source[p]} ELSE {})

\* A reservation that counts sold calls only.
ReservationsSold(p) == {q \in Proposals : status[q] = "executed"} \ Excluded(p)

\* Reservations of other proposals, read first: one lot each.
Reservations(p) == ActiveProposals \ Excluded(p)

\* Working sales that no run of a reserved proposal names.
UnlinkedSales(held) ==
    {q \in Proposals : order[q]["sell"] = "working"
                       /\ ~(q \in held /\ "sell" \in linked[q])}

UnresolvedSales(held) ==
    {q \in Proposals \ held : order[q]["sell"] = "unknown"}

\* The code adds the short calls of the latest account snapshot.  That
\* snapshot may be older than every sale here, so they are left to Refuse.
ReservedLots(held) ==
    Cardinality(held) + Cardinality(UnlinkedSales(held))
    + Cardinality(UnresolvedSales(held))

-----------------------------------------------------------------------------
\* Threads and parent actions.

Prepared(w) == thread[w].at \notin {"idle", "decide", "prepare"}

\* A gate that misses the actions that are still being served.
UnblockedAlone(w) ==
    /\ parents = {}
    /\ \A p \in Proposals, l \in Legs : order[p][l] # "unknown"

\* No unresolved parent but w's own, and no unresolved order intent.
Unblocked(w) ==
    /\ parents = {}
    /\ \A v \in Threads \ {w} : ~Prepared(v)
    /\ \A p \in Proposals, l \in Legs : order[p][l] # "unknown"

\* Thread w goes on; what it held for an earlier step is of no more use.
MoveTo(w, at) == thread' = [thread EXCEPT ![w].at = at, ![w].held = {},
                                          ![w].result = "none"]
Release(w) == thread' = [thread EXCEPT ![w] = Idle]

\* Thread w stops with its parent action unresolved.
LeaveParent(w) ==
    /\ parents' = parents \cup {thread[w].p}
    /\ Release(w)

Fault ==
    /\ faults < MaxFaults
    /\ faults' = faults + 1

-----------------------------------------------------------------------------
\* Proposals and decisions.

\* A scan proposes an opener.  Nothing but the scan's own earlier read of
\* the active proposals keeps a second one out.
CreateProposal(p) ==
    /\ p \in Opens
    /\ status[p] = "none"
    /\ status' = [status EXCEPT ![p] = "pending"]
    /\ UNCHANGED <<origin, order, linked, rollRun, thread, parents, pass,
                   dropped, faults>>

\* create_roll_proposal tests the source first; a preview from market data and
\* two commits lie between the test and the insert.
VetRollSource(r) ==
    /\ r \in Rolls
    /\ status[r] = "none" /\ origin[r] = "none"
    /\ status[Source[r]] = "executed"
    /\ origin' = [origin EXCEPT ![r] = "vetted"]
    /\ UNCHANGED <<status, order, linked, rollRun, thread, parents, pass,
                   dropped, faults>>

\* The insert, whatever the source has become since.
CreateRollProposal(r) ==
    /\ r \in Rolls
    /\ status[r] = "none" /\ origin[r] = "vetted"
    /\ status' = [status EXCEPT ![r] = "pending"]
    /\ UNCHANGED <<origin, order, linked, rollRun, thread, parents, pass,
                   dropped, faults>>

\* The general endpoint inserts a roll of any proposal.  It is assumed that the
\* payload names an existing source and, as its old call, that source's call.
PostRollProposal(r) ==
    /\ r \in Rolls
    /\ status[r] = "none" /\ origin[r] = "none"
    /\ status[Source[r]] # "none"
    /\ status' = [status EXCEPT ![r] = "pending"]
    /\ origin' = [origin EXCEPT ![r] = "posted"]
    /\ Fault
    /\ UNCHANGED <<order, linked, rollRun, thread, parents, pass, dropped>>

\* A sale that accepts a proposal nobody has decided.
AcceptsUndecided(op) ==
    CASE op = "reject" -> {"pending", "approved"}
      [] op = "close" -> {"executed"}
      [] op = "open" -> {"pending", "approved"}
      [] op = "approve" -> {"pending"}
      [] OTHER -> {"approved"}

\* The statuses that an operation accepts.  It tests them on the row it read
\* first; a request that fails the test changes nothing.
Accepts(op) ==
    CASE op = "approve" -> {"pending"}
      [] op = "reject" -> {"pending", "approved"}
      [] op = "close" -> {"executed"}
      [] OTHER -> {"approved"}

Offered(op, p) ==
    CASE op = "open" -> p \in Opens
      [] op \in {"roll", "continue"} -> p \in Rolls
      [] OTHER -> TRUE

\* A request reads its proposal.
Read(w, op, p) ==
    /\ thread[w] = Idle
    /\ <<op, p>> \in Asked[w]
    /\ Offered(op, p)
    /\ status[p] \in Accepts(op)
    /\ thread' = [thread EXCEPT ![w] =
         [at |-> IF op \in {"approve", "reject"} THEN "decide" ELSE "prepare",
          op |-> op, p |-> p, held |-> {}, result |-> "none"]]
    /\ UNCHANGED <<status, origin, order, linked, rollRun, parents, pass,
                   dropped, faults>>

\* The decision is written, whatever the row has become since.  An approval
\* of a proposal that was past its expiry writes "expired", which stands
\* with "rejected" here: neither is ever active again by itself.
Decide(w) ==
    /\ thread[w].at = "decide"
    /\ \E s \in {"approved", "rejected"} :
         /\ s = "approved" => thread[w].op = "approve"
         /\ status' = [status EXCEPT ![thread[w].p] = s]
         /\ dropped' = IF s = "rejected" THEN dropped \cup {thread[w].p}
                       ELSE dropped
    /\ Release(w)
    /\ UNCHANGED <<origin, order, linked, rollRun, parents, pass, faults>>

-----------------------------------------------------------------------------
\* Authorization: the phase before the broker.

\* The parent action is committed before anything is authorized.
Prepare(w) ==
    /\ thread[w].at = "prepare"
    /\ MoveTo(w, "check")
    /\ UNCHANGED <<status, origin, order, linked, rollRun, parents, pass,
                   dropped, faults>>

\* An opener passes the account gate.
Gate(w) ==
    /\ thread[w].at = "check"
    /\ thread[w].op = "open"
    /\ Unblocked(w)
    /\ MoveTo(w, "survey")
    /\ UNCHANGED <<status, origin, order, linked, rollRun, parents, pass,
                   dropped, faults>>

\* The reservation of a sale, first read: the other active proposals.
Survey(w) ==
    /\ thread[w].at = "survey"
    /\ thread' = [thread EXCEPT ![w].at = "cover",
                                ![w].held = Reservations(thread[w].p)]
    /\ UNCHANGED <<status, origin, order, linked, rollRun, parents, pass,
                   dropped, faults>>

\* Second read: orders, intents and the snapshot.  One lot must be left.
Cover(w) ==
    /\ thread[w].at = "cover"
    /\ ReservedLots(thread[w].held) < Lots
    /\ MoveTo(w, "sale")
    /\ UNCHANGED <<status, origin, order, linked, rollRun, parents, pass,
                   dropped, faults>>

\* A continuation that does not wait for the fill of the buyback.
PreflightUnfilled(w) ==
    LET r == thread[w].p IN
    /\ thread[w].at = "check"
    /\ thread[w].op = "continue"
    /\ rollRun[r] # "none"
    /\ thread' = [thread EXCEPT
         ![w].at = IF rollRun[r] = "buyback" THEN "survey" ELSE "record",
         ![w].result = IF rollRun[r] = "buyback" THEN "none"
                       ELSE IF order[r]["sell"] = "filled" THEN "filled"
                       ELSE "sent"]
    /\ UNCHANGED <<status, origin, order, linked, rollRun, parents, pass,
                   dropped, faults>>

\* A roll may continue only with the orders of its latest run.  The buyback
\* is refreshed; a successor that was already sold is refreshed too.
Preflight(w) ==
    LET r == thread[w].p IN
    /\ thread[w].at = "check"
    /\ thread[w].op = "continue"
    /\ rollRun[r] # "none"
    /\ thread' = [thread EXCEPT
         ![w].at = IF order[r]["buyback"] = "filled" /\ rollRun[r] = "buyback"
                   THEN "survey" ELSE "record",
         ![w].result = IF \/ order[r]["buyback"] # "filled"
                          \/ rollRun[r] = "buyback"
                       THEN "none"
                       ELSE IF order[r]["sell"] = "filled" THEN "filled"
                       ELSE "sent"]
    /\ UNCHANGED <<status, origin, order, linked, rollRun, parents, pass,
                   dropped, faults>>

\* A check fails (gate, reservation, provenance, market data): the parent is
\* rejected.  Once a roll has bought back, its failing sale is recorded.
Refuse(w) ==
    /\ thread[w].at \in {"check", "survey", "cover"}
    /\ IF thread[w].op = "roll" /\ thread[w].at # "check"
       THEN MoveTo(w, "record")
       ELSE Release(w)
    /\ UNCHANGED <<status, origin, order, linked, rollRun, parents, pass,
                   dropped, faults>>

-----------------------------------------------------------------------------
\* Orders.

\* What follows the answer to a submitted leg.
Answered(w, leg, answer) ==
    IF answer \in {"void", "unknown"} THEN Idle
    ELSE IF leg = "buyback"
    THEN [thread[w] EXCEPT !.at = IF answer = "filled" THEN "survey"
                                  ELSE "record"]
    ELSE [thread[w] EXCEPT !.at = "record",
                           !.result = IF answer = "filled" THEN "filled"
                                      ELSE "sent"]

\* A leg is submitted: its first submission reaches the broker, a later one
\* returns the first one's order, or fails while that one is unknown or void.
Send(w, leg) ==
    LET p == thread[w].p
        first == order[p][leg] = "none" IN
    \E answer \in OrderStates \ {"none"} :
        /\ first => answer \in {"unknown", "working", "filled", "void"}
        /\ ~first => answer = order[p][leg]
        /\ IF first /\ answer = "unknown" THEN Fault ELSE UNCHANGED faults
        /\ order' = [order EXCEPT ![p][leg] = answer]
        /\ thread' = [thread EXCEPT ![w] = Answered(w, leg, answer)]
        /\ parents' = IF answer = "unknown" THEN parents \cup {p} ELSE parents
        /\ UNCHANGED <<status, origin, linked, rollRun, pass, dropped>>

\* A sell-to-open that was found covered.
SubmitSale(w) ==
    /\ thread[w].at = "sale"
    /\ Send(w, "sell")

SubmitClose(w) ==
    /\ thread[w].at = "check"
    /\ thread[w].op = "close"
    /\ Send(w, "close")

SubmitBuyback(w) ==
    /\ thread[w].at = "check"
    /\ thread[w].op = "roll"
    /\ Send(w, "buyback")

-----------------------------------------------------------------------------
\* Runs and statuses.

RunOfRoll(w) == IF thread[w].result = "none" THEN "buyback" ELSE "both"

\* The legs that the run of w's request names.
RunLegs(w) ==
    CASE thread[w].op = "open" -> {"sell"}
      [] thread[w].op = "close" -> {"close"}
      [] OTHER -> IF RunOfRoll(w) = "both" THEN {"buyback", "sell"}
                  ELSE {"buyback"}

\* The request is answered: its parent action is completed, or stays
\* unresolved when that write is lost.
Answer(w) ==
    \/ Release(w) /\ UNCHANGED <<parents, faults>>
    \/ LeaveParent(w) /\ Fault

\* The run of the request is inserted.  Only a fill changes a status.
Record(w) ==
    LET p == thread[w].p IN
    /\ thread[w].at = "record"
    /\ linked' = [linked EXCEPT ![p] = @ \cup RunLegs(w)]
    /\ rollRun' = IF thread[w].op \in {"roll", "continue"}
                  THEN [rollRun EXCEPT ![p] = RunOfRoll(w)] ELSE rollRun
    /\ IF thread[w].result = "filled"
       THEN /\ MoveTo(w, IF p \in Rolls /\ thread[w].op # "close"
                         THEN "mark_source" ELSE "mark")
            /\ UNCHANGED <<parents, faults>>
       ELSE Answer(w)
    /\ UNCHANGED <<status, origin, order, pass, dropped>>

\* _mark_roll_source_rolled reads the source; only an executed one is marked.
ReadSource(w) ==
    /\ thread[w].at = "mark_source"
    /\ MoveTo(w, IF status[Source[thread[w].p]] = "executed" THEN "roll_source"
                 ELSE "mark")
    /\ UNCHANGED <<status, origin, order, linked, rollRun, parents, pass,
                   dropped, faults>>

\* The mark is written over whatever the source has become since.
MarkSource(w) ==
    /\ thread[w].at = "roll_source"
    /\ status' = [status EXCEPT ![Source[thread[w].p]] = "rolled"]
    /\ MoveTo(w, "mark")
    /\ UNCHANGED <<origin, order, linked, rollRun, parents, pass, dropped,
                   faults>>

Mark(w) ==
    /\ thread[w].at = "mark"
    /\ status' = [status EXCEPT ![thread[w].p] =
                    IF thread[w].op = "close" THEN "closed" ELSE "executed"]
    /\ Answer(w)
    /\ UNCHANGED <<origin, order, linked, rollRun, pass, dropped>>

\* A crash, or a failed write after the order: the parent stays unresolved.
Fail(w) ==
    /\ Prepared(w)
    /\ Fault
    /\ LeaveParent(w)
    /\ UNCHANGED <<status, origin, order, linked, rollRun, pass, dropped>>

\* A parent without unknown children is settled.  Which parents are, and when,
\* is TradeActions' question: here any one may be, or may stay for ever.
SettleParent(p) ==
    /\ p \in parents
    /\ \A l \in Legs : order[p][l] # "unknown"
    /\ parents' = parents \ {p}
    /\ UNCHANGED <<status, origin, order, linked, rollRun, thread, pass,
                   dropped, faults>>

-----------------------------------------------------------------------------
\* The broker and the intent reconciler.

\* How an order moves by itself: it fills or ends unfilled, and an unknown
\* one is found, or resolved as no order.
OrderMoves == {<<"working", "filled">>, <<"working", "canceled">>,
               <<"unknown", "working">>, <<"unknown", "void">>}

OrderMove(p, l) ==
    /\ \E m \in OrderMoves :
         /\ order[p][l] = m[1]
         /\ order' = [order EXCEPT ![p][l] = m[2]]
    /\ UNCHANGED <<status, origin, linked, rollRun, thread, parents, pass,
                   dropped, faults>>

-----------------------------------------------------------------------------
\* The scheduler's reconciliation pass.

\* A pass that looks for working sales only.
DutiesNowSales ==
    {<<p, "sale">> : p \in {q \in Opens : status[q] = "approved"
                                          /\ "sell" \in linked[q]}}

\* What a pass that starts now has to do, by status and latest run.  A roll
\* whose latest run names no sale only has its buyback refreshed.
DutiesNow ==
    {<<p, "sale">> : p \in {q \in Opens : status[q] = "approved"
                                          /\ "sell" \in linked[q]}}
    \cup {<<p, "close">> : p \in {q \in Proposals : status[q] = "executed"
                                          /\ "close" \in linked[q]}}
    \cup {<<r, "roll">> : r \in {q \in Rolls : status[q] = "approved"
                                          /\ rollRun[q] = "both"}}

StartPass ==
    /\ pass = {}
    /\ DutiesNow # {}
    /\ pass' = DutiesNow
    /\ UNCHANGED <<status, origin, order, linked, rollRun, thread, parents,
                   dropped, faults>>

\* The pass has a loop over the proposals for the sales, one for the closes and
\* one for the rolls.
Loop(d) == CASE d = "sale" -> 1 [] d = "close" -> 2 [] OTHER -> 3

\* The pass comes to duty d of p once the loops before it are done.
Turn(p, d) ==
    /\ <<p, d>> \in pass
    /\ \A duty \in pass : Loop(d) <= Loop(duty[2])

\* A linked sale counts as executed before it fills.
RefreshSaleEarly(p) ==
    /\ Turn(p, "sale")
    /\ pass' = pass \ {<<p, "sale">>}
    /\ status' = [status EXCEPT ![p] = "executed"]
    /\ UNCHANGED <<origin, order, linked, rollRun, thread, parents, dropped,
                   faults>>

\* The sale of an opener is refreshed; a fill makes it executed.
RefreshSale(p) ==
    /\ Turn(p, "sale")
    /\ pass' = pass \ {<<p, "sale">>}
    /\ status' = IF order[p]["sell"] = "filled"
                 THEN [status EXCEPT ![p] = "executed"] ELSE status
    /\ UNCHANGED <<origin, order, linked, rollRun, thread, parents, dropped,
                   faults>>

\* The close of a proposal is refreshed; a fill makes it closed.
RefreshClose(p) ==
    /\ Turn(p, "close")
    /\ pass' = pass \ {<<p, "close">>}
    /\ status' = IF order[p]["close"] = "filled"
                 THEN [status EXCEPT ![p] = "closed"] ELSE status
    /\ UNCHANGED <<origin, order, linked, rollRun, thread, parents, dropped,
                   faults>>

\* Both orders of a roll are refreshed; once both are filled the source is
\* read, and marked next if it is executed.
RefreshRoll(r) ==
    LET done == order[r]["buyback"] = "filled" /\ order[r]["sell"] = "filled"
        next == IF status[Source[r]] = "executed" THEN "source" ELSE "adopt" IN
    /\ Turn(r, "roll")
    /\ pass' = (pass \ {<<r, "roll">>}) \cup (IF done THEN {<<r, next>>} ELSE {})
    /\ UNCHANGED <<status, origin, order, linked, rollRun, thread, parents,
                   dropped, faults>>

\* The source is marked rolled, whatever it has become since ...
RollSource(r) ==
    /\ Turn(r, "source")
    /\ pass' = (pass \ {<<r, "source">>}) \cup {<<r, "adopt">>}
    /\ status' = [status EXCEPT ![Source[r]] = "rolled"]
    /\ UNCHANGED <<origin, order, linked, rollRun, thread, parents, dropped,
                   faults>>

\* ... and then the roll itself becomes executed.
AdoptRoll(r) ==
    /\ Turn(r, "adopt")
    /\ pass' = pass \ {<<r, "adopt">>}
    /\ status' = [status EXCEPT ![r] = "executed"]
    /\ UNCHANGED <<origin, order, linked, rollRun, thread, parents, dropped,
                   faults>>

\* A refresh raises, or the process stops: the rest of the pass is lost.
AbortPass ==
    /\ pass # {}
    /\ Fault
    /\ pass' = {}
    /\ UNCHANGED <<status, origin, order, linked, rollRun, thread, parents,
                   dropped>>

Refresh(p) ==
    \/ RefreshSale(p) \/ RefreshClose(p)
    \/ RefreshRoll(p) \/ RollSource(p) \/ AdoptRoll(p)

-----------------------------------------------------------------------------
ThreadStep(w) ==
    \/ \E op \in Operations, p \in Proposals : Read(w, op, p)
    \/ Decide(w) \/ Prepare(w) \/ Gate(w) \/ Survey(w) \/ Cover(w)
    \/ Preflight(w) \/ Refuse(w)
    \/ SubmitSale(w) \/ SubmitClose(w) \/ SubmitBuyback(w)
    \/ Record(w) \/ ReadSource(w) \/ MarkSource(w) \/ Mark(w) \/ Fail(w)

Next ==
    \/ \E w \in Threads : ThreadStep(w)
    \/ \E p \in Proposals :
         \/ CreateProposal(p)
         \/ VetRollSource(p) \/ CreateRollProposal(p) \/ PostRollProposal(p)
         \/ SettleParent(p) \/ Refresh(p)
         \/ \E l \in Legs : OrderMove(p, l)
    \/ StartPass \/ AbortPass

Spec == Init /\ [][Next]_vars

\* The scheduler starts a pass every poll and walks through it.
FairSpec ==
    /\ Spec
    /\ WF_vars(StartPass)
    /\ WF_vars(\E p \in Proposals : Refresh(p))

-----------------------------------------------------------------------------
\* Correctness.

\* The calls that are short or may still be sold never need more lots than
\* the account holds, as long as the operator does not reject a proposal
\* whose sale was already authorized: between two sales each one reads the
\* other's reservation, a source drops out of a roll's reservation only when
\* its call was bought back, and no stale write takes an exposed proposal
\* out of the active ones (docs/strategy-lifecycle.md, "Covered shares").
CallsAreCovered ==
    Cardinality({p \in Proposals \ dropped : Exposed(p)}) <= Lots

\* A roll's new call is never sold before its old one is bought back, not by
\* a continuation or a replay of an earlier request either.
RollSellsBehindBuyback ==
    \A r \in Rolls :
        order[r]["sell"] # "none" => order[r]["buyback"] = "filled"

\* A status never runs ahead of the orders: whatever stale request or pass
\* wrote it last, executed means that the call was sold, closed that it was
\* bought back, and rolled that a successor was sold in its place.
StatusIsTruthful ==
    \A p \in Proposals :
        /\ status[p] \in {"executed", "closed", "rolled"} =>
               order[p]["sell"] = "filled"
        /\ status[p] = "closed" => order[p]["close"] = "filled"
        /\ status[p] = "rolled" =>
               \E r \in Rolls : Source[r] = p /\ order[r]["sell"] = "filled"

\* What the order of its sale says of a call.
CallState(sale) ==
    CASE sale = "filled" -> "sold"
      [] sale \in {"unknown", "working"} -> "offered"
      [] sale = "none" -> "unsold"
      [] OTHER -> "missed"

Calls == [p \in Proposals |-> CallState(order[p]["sell"])]
Back == {p \in Proposals : Bought(p)}
Blind == {r \in Rolls : origin[r] = "posted"}

Book == INSTANCE CoveredBook WITH
    call <- Calls, back <- Back, books <- status, blind <- Blind, waived <- dropped

\* With all their requests, replays, stale writes and passes the proposals
\* trade call by call as CoveredBook says: none is sold before its proposal
\* was decided, without a free lot, or ahead of the buyback it follows; none
\* is bought back before it was sold, unless by a roll that was posted without
\* a look at its source; and no row reports what did not happen
\* (docs/strategy-lifecycle.md, "Covered Call Invariants").
ImplementsBook == Book!BSpec

\* Two openers are never past the account gate together: each has committed
\* its own parent action before it looks for unresolved ones.
PastGate(w) ==
    thread[w].at \in Steps \ {"decide", "prepare", "check"}
    /\ thread[w].op = "open"
OneOpenerPastTheGate ==
    \A v, w \in Threads : PastGate(v) /\ PastGate(w) => v = w

\* The orders have outrun the status of p, and a run says which they are.
Outrun(p) ==
    \/ /\ p \in Opens /\ status[p] = "approved"
       /\ "sell" \in linked[p] /\ order[p]["sell"] = "filled"
    \/ /\ status[p] = "executed"
       /\ "close" \in linked[p] /\ order[p]["close"] = "filled"

\* Statuses that lag behind their linked orders all catch up, after a crash
\* between the run and the status write as well as after a stale write.
StatusCatchesUp ==
    (\E p \in Proposals : Outrun(p)) ~> (\A p \in Proposals : ~Outrun(p))
=============================================================================
