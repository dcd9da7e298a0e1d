------------------------- MODULE CoveredCallProofs -------------------------
(***************************************************************************)
(* The safety of covered calls for any number of proposals, rolls, lots    *)
(* and threads.  Statuses are written by stale requests, so the invariant  *)
(* leans on the orders instead: whether an order was sent, and a fill, are *)
(* never undone.  Each step of a request and each duty of a pass carries   *)
(* what its own reads have shown of the orders (ThreadInv, PassInv).       *)
(***************************************************************************)
EXTENDS CoveredCall, FiniteSetTheorems, TLAPS

Sent(p, l) == order[p][l] # "none"
FilledLeg(p, l) == order[p][l] = "filled"

\* The proposal was approved or rejected at some time.
Decided(p) == status[p] \notin {"none", "pending"}

\* What the orders tell of each other and of the rows.
OrderInv ==
    /\ \A p \in Proposals, l \in Legs : Sent(p, l) => Decided(p)
    /\ \A p \in Proposals : Sent(p, "close") => FilledLeg(p, "sell")
    /\ \A r \in Rolls : origin[r] = "vetted" => FilledLeg(Source[r], "sell")
    /\ \A r \in Rolls : status[r] # "none" => origin[r] # "none"

\* What request t has learned when it has come as far as t.at.
Learned(t) ==
    /\ status[t.p] # "none"
    /\ t.op \in {"approve", "reject"} \/ Decided(t.p)
    /\ t.at = "decide" <=> t.op \in {"approve", "reject"}
    /\ t.op = "open" => t.p \in Opens
    /\ t.op \in {"roll", "continue"} => t.p \in Rolls
    /\ t.op = "close" =>
         /\ t.at \in {"prepare", "check", "record", "mark"}
         /\ FilledLeg(t.p, "sell")
    /\ t.at \in {"survey", "cover", "sale"} /\ t.op # "open" =>
         FilledLeg(t.p, "buyback")
    /\ t.at \in {"mark_source", "roll_source"} => t.op \in {"roll", "continue"}
    /\ t.at = "roll_source" => FilledLeg(Source[t.p], "sell")
    /\ t.at # "record" => t.result = "none"
    /\ t.at \in {"mark_source", "roll_source", "mark"}
       \/ (t.at = "record" /\ t.result = "filled") =>
         FilledLeg(t.p, IF t.op = "close" THEN "close" ELSE "sell")

ThreadInv == \A w \in Threads : thread[w] # Idle => Learned(thread[w])

PassInv == \A p \in Proposals :
    /\ <<p, "sale">> \in pass => p \in Opens
    /\ <<p, "close">> \in pass => FilledLeg(p, "sell")
    /\ <<p, "roll">> \in pass => p \in Rolls
    /\ <<p, "source">> \in pass => /\ p \in Rolls /\ FilledLeg(p, "sell")
                                  /\ FilledLeg(Source[p], "sell")
    /\ <<p, "adopt">> \in pass => p \in Rolls /\ FilledLeg(p, "sell")

DroppedInv == \A p \in Proposals : status[p] = "rejected" => p \in dropped

CallsInv ==
    /\ TypeOK
    /\ OrderInv
    /\ ThreadInv
    /\ PassInv
    /\ DroppedInv
    /\ StatusIsTruthful
    /\ RollSellsBehindBuyback

\* Some request is about to sell the call of p: it has read the other
\* reservations and found a lot left.
Claims(w, p) ==
    /\ thread[w] # Idle
    /\ thread[w].p = p
    /\ \/ thread[w].at = "sale"
       \/ thread[w].at = "cover" /\ Cardinality(thread[w].held) < Lots

\* A call of p is exposed, or is going to be.
Committed(p) ==
    \/ Exposed(p)
    \/ /\ ~Sent(p, "sell") /\ ~Bought(p)
       /\ \E w \in Threads : Claims(w, p)

Claimants == {p \in Proposals \ dropped : Committed(p)}
CoverInv == Cardinality(Claimants) <= Lots
-----------------------------------------------------------------------------
\* Types.

\* A thread that is not idle serves a request.
LEMMA Busy ==
    ASSUME TypeOK, NEW w \in Threads, thread[w].at # "idle"
    PROVE  thread[w] \in Requests /\ thread[w] # Idle /\ thread[w].p \in Proposals
  BY DEF TypeOK, Idle, Requests

\* No request is idle.
LEMMA RequestsAreBusy == \A t \in Requests : t # Idle /\ t.at # "idle"
  BY DEF Idle, Requests, Steps

\* MoveTo leads to a request of the same operation, Release to none.
LEMMA MoveToRequest ==
    ASSUME TypeOK, NEW w \in Threads, thread[w] \in Requests,
           NEW at \in Steps, MoveTo(w, at)
    PROVE  /\ thread' \in [Threads -> Requests \cup {Idle}]
           /\ thread'[w] \in Requests
           /\ thread'[w].at = at
           /\ thread'[w].op = thread[w].op
           /\ thread'[w].p = thread[w].p
           /\ thread'[w].held = {}
           /\ thread'[w].result = "none"
           /\ \A v \in Threads : v # w => thread'[v] = thread[v]
  <1> DEFINE t == [thread[w] EXCEPT !.at = at, !.held = {}, !.result = "none"]
  <1>1. thread' = [thread EXCEPT ![w] = t]
    BY DEF MoveTo
  <1>2. /\ t \in Requests
        /\ t.at = at /\ t.op = thread[w].op /\ t.p = thread[w].p
        /\ t.held = {} /\ t.result = "none"
    BY DEF Requests
  <1>3. thread \in [Threads -> Requests \cup {Idle}]
    BY DEF TypeOK
  <1> HIDE DEF t
  <1> QED BY <1>1, <1>2, <1>3

\* Release frees one thread.
LEMMA ReleaseThread ==
    ASSUME TypeOK, NEW w \in Threads, Release(w)
    PROVE  /\ thread' \in [Threads -> Requests \cup {Idle}]
           /\ thread'[w] = Idle
           /\ \A v \in Threads : v # w => thread'[v] = thread[v]
  BY DEF TypeOK, Release

\* An answered request is recorded, goes on to survey, or is over.
LEMMA AnsweredRequest ==
    ASSUME NEW w \in Threads, thread[w] \in Requests, NEW l \in Legs,
           NEW a \in OrderStates, Answered(w, l, a) # Idle
    PROVE  LET t == Answered(w, l, a) IN
           /\ t \in Requests
           /\ t.op = thread[w].op /\ t.p = thread[w].p /\ t.held = thread[w].held
           /\ IF l = "buyback" /\ a = "filled" THEN t.at = "survey"
              ELSE t.at = "record"
           /\ IF l = "buyback" THEN t.result = thread[w].result
              ELSE t.result = IF a = "filled" THEN "filled" ELSE "sent"
  BY DEF Answered, Requests, Steps, Idle

\* How Send moves the orders and the threads.
LEMMA SendMoves ==
    ASSUME TypeOK, NEW w \in Threads, thread[w] \in Requests, NEW l \in Legs,
           Send(w, l)
    PROVE  \E a \in OrderStates \ {"none"} :
             /\ order' = [order EXCEPT ![thread[w].p][l] = a]
             /\ order' \in [Proposals -> [Legs -> OrderStates]]
             /\ ~Sent(thread[w].p, l) =>
                  a \in {"unknown", "working", "filled", "void"}
             /\ Sent(thread[w].p, l) => a = order[thread[w].p][l]
             /\ thread' \in [Threads -> Requests \cup {Idle}]
             /\ thread'[w] = Answered(w, l, a)
             /\ \A v \in Threads : v # w => thread'[v] = thread[v]
             /\ parents' \subseteq Proposals
             /\ faults' \in 0..MaxFaults
             /\ UNCHANGED <<status, origin, linked, rollRun, pass, dropped>>
  <1> DEFINE p == thread[w].p
  <1>0. p \in Proposals
    BY DEF Requests
  <1>1. PICK a \in OrderStates \ {"none"} :
             /\ order[p][l] = "none" => a \in {"unknown", "working", "filled", "void"}
             /\ order[p][l] # "none" => a = order[p][l]
             /\ IF order[p][l] = "none" /\ a = "unknown" THEN Fault ELSE UNCHANGED faults
             /\ order' = [order EXCEPT ![p][l] = a]
             /\ thread' = [thread EXCEPT ![w] = Answered(w, l, a)]
             /\ parents' = IF a = "unknown" THEN parents \cup {p} ELSE parents
             /\ UNCHANGED <<status, origin, linked, rollRun, pass, dropped>>
    BY DEF Send
  <1>2. Answered(w, l, a) \in Requests \cup {Idle}
    BY AnsweredRequest
  <1>3. thread' \in [Threads -> Requests \cup {Idle}] /\ thread'[w] = Answered(w, l, a)
        /\ \A v \in Threads : v # w => thread'[v] = thread[v]
    BY <1>1, <1>2 DEF TypeOK
  <1>4. order' \in [Proposals -> [Legs -> OrderStates]]
    BY <1>0, <1>1 DEF TypeOK
  <1>5. faults' \in 0..MaxFaults
    BY <1>1, CoveredCallConstants DEF TypeOK, Fault
  <1>6. parents' \subseteq Proposals
    BY <1>0, <1>1 DEF TypeOK
  <1> QED BY <1>1, <1>3, <1>4, <1>5, <1>6 DEF Sent

\* An answered parent, or one that is left, keeps the types.
LEMMA AnswerTypes ==
    ASSUME TypeOK, NEW w \in Threads, thread[w] \in Requests,
           Answer(w) \/ (LeaveParent(w) /\ Fault)
    PROVE  /\ thread' \in [Threads -> Requests \cup {Idle}]
           /\ thread'[w] = Idle
           /\ \A v \in Threads : v # w => thread'[v] = thread[v]
           /\ parents' \subseteq Proposals
           /\ faults' \in 0..MaxFaults
  <1>1. Release(w)
    BY DEF Answer, LeaveParent
  <1>2. thread[w].p \in Proposals
    BY DEF Requests
  <1>3. parents' \subseteq Proposals
    BY <1>2 DEF Answer, LeaveParent, TypeOK
  <1>4. faults' \in 0..MaxFaults
    BY CoveredCallConstants DEF Answer, Fault, TypeOK
  <1> QED BY <1>1, <1>3, <1>4, ReleaseThread

\* Every step keeps the types.
LEMMA TypesStay == TypeOK /\ [Next]_vars => TypeOK'
  <1> SUFFICES ASSUME TypeOK, [Next]_vars PROVE TypeOK'
    OBVIOUS
  <1>1. CASE UNCHANGED vars
    BY <1>1 DEF TypeOK, vars
  <1>2. ASSUME NEW w \in Threads, NEW op \in Operations, NEW p \in Proposals,
               Read(w, op, p)
        PROVE  TypeOK'
    <2> DEFINE t == [at |-> IF op \in {"approve", "reject"} THEN "decide" ELSE "prepare",
                     op |-> op, p |-> p, held |-> {}, result |-> "none"]
    <2>1. t \in Requests
      BY DEF Requests, Steps
    <2>2. thread' = [thread EXCEPT ![w] = t]
      BY <1>2 DEF Read
    <2> HIDE DEF t
    <2>3. thread' \in [Threads -> Requests \cup {Idle}]
      BY <2>1, <2>2 DEF TypeOK
    <2> QED BY <1>2, <2>3 DEF TypeOK, Read
  <1>3. ASSUME NEW w \in Threads, Decide(w) PROVE TypeOK'
    <2>1. thread[w] \in Requests /\ thread[w].p \in Proposals
      BY <1>3, Busy DEF Decide
    <2>2. thread' \in [Threads -> Requests \cup {Idle}]
      BY <1>3, ReleaseThread DEF Decide
    <2> QED BY <1>3, <2>1, <2>2 DEF TypeOK, Decide, Statuses
  <1>4. ASSUME NEW w \in Threads, Prepare(w) \/ Gate(w) \/ Cover(w)
        PROVE  TypeOK'
    <2>1. thread[w] \in Requests
      BY <1>4, Busy DEF Prepare, Gate, Cover
    <2>2. thread' \in [Threads -> Requests \cup {Idle}]
      BY <1>4, <2>1, MoveToRequest DEF Prepare, Gate, Cover, Steps
    <2> QED BY <1>4, <2>2 DEF TypeOK, Prepare, Gate, Cover
  <1>5. ASSUME NEW w \in Threads, Survey(w) PROVE TypeOK'
    <2>1. thread[w] \in Requests
      BY <1>5, Busy DEF Survey
    <2>2. Reservations(thread[w].p) \subseteq Proposals
      BY DEF Reservations, ActiveProposals
    <2>3. thread' \in [Threads -> Requests \cup {Idle}]
      BY <1>5, <2>1, <2>2 DEF TypeOK, Survey, Requests, Steps
    <2> QED BY <1>5, <2>3 DEF TypeOK, Survey
  <1>6. ASSUME NEW w \in Threads, Preflight(w) PROVE TypeOK'
    <2>1. thread[w] \in Requests
      BY <1>6, Busy DEF Preflight
    <2>2. thread' \in [Threads -> Requests \cup {Idle}]
      BY <1>6, <2>1 DEF TypeOK, Preflight, Requests, Steps
    <2> QED BY <1>6, <2>2 DEF TypeOK, Preflight
  <1>7. ASSUME NEW w \in Threads, Refuse(w) PROVE TypeOK'
    <2>1. thread[w] \in Requests
      BY <1>7, Busy DEF Refuse
    <2>2. thread' \in [Threads -> Requests \cup {Idle}]
      BY <1>7, <2>1, MoveToRequest, ReleaseThread DEF Refuse, Steps
    <2> QED BY <1>7, <2>2 DEF TypeOK, Refuse
  <1>8. ASSUME NEW w \in Threads, SubmitSale(w) \/ SubmitClose(w) \/ SubmitBuyback(w)
        PROVE  TypeOK'
    <2>1. thread[w] \in Requests
      BY <1>8, Busy DEF SubmitSale, SubmitClose, SubmitBuyback
    <2>2. \E l \in Legs : Send(w, l)
      BY <1>8 DEF SubmitSale, SubmitClose, SubmitBuyback, Legs
    <2> QED BY <2>1, <2>2, SendMoves DEF TypeOK
  <1>9. ASSUME NEW w \in Threads, Record(w) PROVE TypeOK'
    <2>1. thread[w] \in Requests /\ thread[w].p \in Proposals
      BY <1>9, Busy DEF Record
    <2>2. thread' \in [Threads -> Requests \cup {Idle}] /\ parents' \subseteq Proposals
          /\ faults' \in 0..MaxFaults
      BY <1>9, <2>1, MoveToRequest, AnswerTypes DEF Record, Steps, TypeOK
    <2>3. RunLegs(w) \subseteq Legs
      BY DEF RunLegs, Legs
    <2>4. linked' \in [Proposals -> SUBSET Legs]
      BY <1>9, <2>1, <2>3 DEF Record, TypeOK
    <2>5. rollRun' \in [Rolls -> {"none", "buyback", "both"}]
      BY <1>9, <2>1 DEF Record, TypeOK, RunOfRoll
    <2> QED BY <1>9, <2>2, <2>4, <2>5 DEF TypeOK, Record
  <1>10. ASSUME NEW w \in Threads, ReadSource(w) \/ MarkSource(w) PROVE TypeOK'
    <2>1. thread[w] \in Requests
      BY <1>10, Busy DEF ReadSource, MarkSource
    <2>2. thread' \in [Threads -> Requests \cup {Idle}]
      BY <1>10, <2>1, MoveToRequest DEF ReadSource, MarkSource, Steps
    <2>3. status' \in [Proposals -> Statuses]
      BY <1>10 DEF ReadSource, MarkSource, TypeOK, Statuses
    <2> QED BY <1>10, <2>2, <2>3 DEF TypeOK, ReadSource, MarkSource
  <1>11. ASSUME NEW w \in Threads, Mark(w) PROVE TypeOK'
    <2>1. thread[w] \in Requests /\ thread[w].p \in Proposals
      BY <1>11, Busy DEF Mark
    <2>2. status' \in [Proposals -> Statuses]
      BY <1>11 DEF Mark, TypeOK, Statuses
    <2> QED BY <1>11, <2>1, <2>2, AnswerTypes DEF TypeOK, Mark
  <1>12. ASSUME NEW w \in Threads, Fail(w) PROVE TypeOK'
    <2>1. thread[w] \in Requests
      BY <1>12, Busy DEF Fail, Prepared
    <2> QED BY <1>12, <2>1, AnswerTypes DEF TypeOK, Fail
  <1>13. ASSUME NEW p \in Proposals, CreateProposal(p) \/ CreateRollProposal(p)
         PROVE  TypeOK'
    BY <1>13 DEF TypeOK, CreateProposal, CreateRollProposal, Statuses
  <1>14. ASSUME NEW p \in Proposals, SettleParent(p) PROVE TypeOK'
    BY <1>14 DEF TypeOK, SettleParent
  <1>15. ASSUME NEW p \in Proposals, NEW l \in Legs, OrderMove(p, l) PROVE TypeOK'
    BY <1>15 DEF TypeOK, OrderMove, OrderMoves, OrderStates
  <1>16. ASSUME StartPass PROVE TypeOK'
    <2>1. DutiesNow \subseteq Proposals \X Duties
      BY DEF DutiesNow, Duties, Proposals
    <2> QED BY <1>16, <2>1 DEF TypeOK, StartPass
  <1>17. ASSUME AbortPass PROVE TypeOK'
    BY <1>17, CoveredCallConstants DEF TypeOK, AbortPass, Fault
  <1>18. ASSUME NEW p \in Proposals, RefreshSale(p) \/ RefreshClose(p) \/ AdoptRoll(p)
         PROVE  TypeOK'
    BY <1>18 DEF TypeOK, RefreshSale, RefreshClose, AdoptRoll, Statuses
  <1>19. ASSUME NEW p \in Proposals, RefreshRoll(p) \/ RollSource(p) PROVE TypeOK'
    <2>1. status' \in [Proposals -> Statuses]
      BY <1>19 DEF TypeOK, RefreshRoll, RollSource, Statuses
    <2>2. pass' \subseteq Proposals \X Duties
      BY <1>19 DEF TypeOK, RefreshRoll, RollSource, Duties
    <2> QED BY <1>19, <2>1, <2>2 DEF TypeOK, RefreshRoll, RollSource
  <1>20. ASSUME NEW r \in Proposals, VetRollSource(r) PROVE TypeOK'
    BY <1>20 DEF TypeOK, VetRollSource, Origins
  <1>21. ASSUME NEW r \in Proposals, PostRollProposal(r) PROVE TypeOK'
    <2>1. faults' \in 0..MaxFaults
      BY <1>21, CoveredCallConstants DEF TypeOK, PostRollProposal, Fault
    <2>2. origin' \in [Rolls -> Origins] /\ status' \in [Proposals -> Statuses]
      BY <1>21 DEF TypeOK, PostRollProposal, Origins, Statuses
    <2> QED BY <1>21, <2>1, <2>2 DEF TypeOK, PostRollProposal
  <1> QED BY <1>1, <1>2, <1>3, <1>4, <1>5, <1>6, <1>7, <1>8, <1>9, <1>10, <1>11,
             <1>12, <1>13, <1>14, <1>15, <1>16, <1>17, <1>18, <1>19, <1>20, <1>21
          DEF Next, ThreadStep, Refresh

\* The initial state has the types.
LEMMA TypesHold == Init => TypeOK
  <1>1. 0 \in 0..MaxFaults
    BY CoveredCallConstants
  <1> QED BY <1>1 DEF Init, TypeOK, Statuses, Origins, OrderStates

\* Rows, orders, requests and the pass only hold values of their types.
THEOREM TypeCorrect == Spec => []TypeOK
  <1> QED BY TypesHold, TypesStay, PTL DEF Spec
-----------------------------------------------------------------------------
\* What a step does to the orders.

\* Thread w is about to submit leg l of p.
Sends(w, p, l) ==
    /\ thread[w] # Idle /\ thread[w].p = p
    /\ \/ l = "sell" /\ thread[w].at = "sale"
       \/ l = "close" /\ thread[w].at = "check" /\ thread[w].op = "close"
       \/ l = "buyback" /\ thread[w].at = "check" /\ thread[w].op = "roll"

OrdersMoved == \A p \in Proposals, l \in Legs :
    \/ order'[p][l] = order[p][l]
    \/ <<order[p][l], order'[p][l]>> \in OrderMoves
    \/ /\ order[p][l] = "none"
       /\ order'[p][l] \in {"unknown", "working", "filled", "void"}
       /\ \E w \in Threads : Sends(w, p, l)

\* Orders are only created by the thread that submits them, and then move.
LEMMA OrdersMove == TypeOK /\ [Next]_vars => OrdersMoved
  <1> SUFFICES ASSUME TypeOK, [Next]_vars PROVE OrdersMoved
    OBVIOUS
  <1>1. CASE UNCHANGED order
    BY <1>1 DEF OrdersMoved
  <1>2. ASSUME NEW p \in Proposals, NEW l \in Legs, OrderMove(p, l)
        PROVE  OrdersMoved
    BY <1>2 DEF OrdersMoved, OrderMove, TypeOK, OrderMoves
  <1>3. ASSUME NEW w \in Threads, NEW l \in Legs, thread[w] \in Requests,
               Send(w, l), Sends(w, thread[w].p, l)
        PROVE  OrdersMoved
    <2> DEFINE q == thread[w].p
    <2>1. q \in Proposals
      BY <1>3 DEF Requests
    <2>2. PICK a \in OrderStates \ {"none"} :
             /\ order' = [order EXCEPT ![q][l] = a]
             /\ ~Sent(q, l) => a \in {"unknown", "working", "filled", "void"}
             /\ Sent(q, l) => a = order[q][l]
      BY <1>3 DEF Send, Sent
    <2>3. /\ order'[q][l] = a
          /\ \A p \in Proposals, k \in Legs :
               p # q \/ k # l => order'[p][k] = order[p][k]
      BY <2>1, <2>2 DEF TypeOK
    <2>4. CASE Sent(q, l)
      BY <2>2, <2>3, <2>4 DEF OrdersMoved
    <2>5. CASE ~Sent(q, l)
      BY <1>3, <2>2, <2>3, <2>5 DEF OrdersMoved, Sent
    <2> QED BY <2>4, <2>5
  <1>4. ASSUME NEW w \in Threads, SubmitSale(w) \/ SubmitClose(w) \/ SubmitBuyback(w)
        PROVE  OrdersMoved
    <2>1. thread[w] \in Requests /\ thread[w] # Idle
      BY <1>4, Busy DEF SubmitSale, SubmitClose, SubmitBuyback
    <2>2. \E l \in Legs : Send(w, l) /\ Sends(w, thread[w].p, l)
      BY <1>4, <2>1 DEF SubmitSale, SubmitClose, SubmitBuyback, Legs, Sends
    <2> QED BY <2>1, <2>2, <1>3
  <1> QED BY <1>1, <1>2, <1>4
          DEF vars, Next, ThreadStep, Refresh, Read, Decide, Prepare, Gate, Survey,
              Cover, Preflight, Refuse, Record, ReadSource, MarkSource, Mark,
              Fail, CreateProposal, VetRollSource, CreateRollProposal,
              PostRollProposal, SettleParent, RefreshSale, RefreshClose,
              RefreshRoll, RollSource, AdoptRoll, StartPass, AbortPass

\* What was sent stays sent, and a fill is never undone.
LEMMA FillsStay ==
    ASSUME OrdersMoved, NEW p \in Proposals, NEW l \in Legs
    PROVE  /\ Sent(p, l) => Sent(p, l)'
           /\ FilledLeg(p, l) => FilledLeg(p, l)'
  BY DEF OrdersMoved, OrderMoves, Sent, FilledLeg

-----------------------------------------------------------------------------
\* What a step does to the statuses.

StatusesMoved ==
  /\ dropped \subseteq dropped'
  /\ \A p \in Proposals :
       \/ status'[p] = status[p]
       \/ /\ status[p] = "none" /\ status'[p] = "pending"
          /\ p \in Rolls => origin'[p] # "none"
       \/ /\ status[p] # "none"
          /\ \/ status'[p] = "approved"
             \/ status'[p] = "rejected" /\ p \in dropped'
             \/ status'[p] = "executed" /\ FilledLeg(p, "sell")
             \/ status'[p] = "closed" /\ FilledLeg(p, "sell") /\ FilledLeg(p, "close")
             \/ /\ status'[p] = "rolled" /\ FilledLeg(p, "sell")
                /\ \E r \in Rolls : Source[r] = p /\ FilledLeg(r, "sell")

\* A source marked rolled was sold, and so was its roll.
LEMMA SourceMoves ==
    ASSUME TypeOK, OrderInv, NEW r \in Rolls,
           FilledLeg(r, "sell"), FilledLeg(Source[r], "sell"),
           status' = [status EXCEPT ![Source[r]] = "rolled"], UNCHANGED dropped
    PROVE  StatusesMoved
  <1>1. Source[r] \in Proposals /\ status[Source[r]] # "none"
    BY CoveredCallConstants DEF OrderInv, Sent, FilledLeg, Decided, Legs
  <1> QED BY <1>1 DEF StatusesMoved, TypeOK

\* Every status is written behind the orders that it tells of.
LEMMA StatusesMove ==
    TypeOK /\ OrderInv /\ ThreadInv /\ PassInv /\ [Next]_vars => StatusesMoved
  <1> SUFFICES ASSUME TypeOK, OrderInv, ThreadInv, PassInv, [Next]_vars
               PROVE  StatusesMoved
    OBVIOUS
  <1>1. CASE UNCHANGED <<status, dropped>>
    BY <1>1 DEF StatusesMoved
  <1>2. ASSUME NEW p \in Proposals, CreateProposal(p) \/ CreateRollProposal(p)
        PROVE  StatusesMoved
    BY <1>2, CoveredCallConstants
       DEF CreateProposal, CreateRollProposal, StatusesMoved, TypeOK
  <1>3. ASSUME NEW w \in Threads, Decide(w) PROVE StatusesMoved
    <2>1. thread[w].p \in Proposals /\ Learned(thread[w])
      BY <1>3, Busy DEF Decide, ThreadInv
    <2> QED BY <1>3, <2>1 DEF Decide, StatusesMoved, Learned, TypeOK
  <1>4. ASSUME NEW w \in Threads, MarkSource(w) PROVE StatusesMoved
    <2>1. thread[w].p \in Proposals /\ Learned(thread[w])
      BY <1>4, Busy DEF MarkSource, ThreadInv
    <2>2. /\ thread[w].p \in Rolls /\ FilledLeg(thread[w].p, "sell")
          /\ FilledLeg(Source[thread[w].p], "sell")
      BY <1>4, <2>1 DEF MarkSource, Learned
    <2> QED BY <1>4, <2>2, SourceMoves DEF MarkSource
  <1>5. ASSUME NEW w \in Threads, Mark(w) PROVE StatusesMoved
    <2>1. thread[w].p \in Proposals /\ Learned(thread[w])
      BY <1>5, Busy DEF Mark, ThreadInv
    <2> QED BY <1>5, <2>1 DEF Mark, StatusesMoved, Learned, TypeOK
  <1>6. ASSUME NEW p \in Proposals, RefreshSale(p) \/ RefreshClose(p) \/ AdoptRoll(p)
        PROVE  StatusesMoved
    <2>1. /\ FilledLeg(p, "sell") => status[p] # "none"
          /\ FilledLeg(p, "close") => status[p] # "none" /\ FilledLeg(p, "sell")
      BY DEF OrderInv, Sent, FilledLeg, Decided, Legs
    <2> QED BY <1>6, <2>1 DEF RefreshSale, RefreshClose, AdoptRoll, Turn,
               StatusesMoved, TypeOK, PassInv, FilledLeg
  <1>7. ASSUME NEW p \in Proposals, RollSource(p) PROVE StatusesMoved
    <2>1. p \in Rolls /\ FilledLeg(p, "sell") /\ FilledLeg(Source[p], "sell")
      BY <1>7 DEF RollSource, Turn, PassInv
    <2> QED BY <1>7, <2>1, SourceMoves DEF RollSource
  <1>8. ASSUME NEW w \in Threads, NEW l \in Legs, Send(w, l)
        PROVE  UNCHANGED <<status, dropped>>
    BY <1>8 DEF Send
  <1>9. ASSUME NEW r \in Proposals, PostRollProposal(r) PROVE StatusesMoved
    BY <1>9 DEF PostRollProposal, StatusesMoved, TypeOK
  <1> QED BY <1>1, <1>2, <1>3, <1>4, <1>5, <1>6, <1>7, <1>8, <1>9
          DEF vars, Next, ThreadStep, Refresh, Read, Prepare, Gate, Survey, Cover,
              Preflight, Refuse, SubmitSale, SubmitClose, SubmitBuyback, Legs,
              Record, ReadSource, Fail, VetRollSource, SettleParent, RefreshRoll,
              StartPass, AbortPass, OrderMove

\* The origin of a roll is settled once, before its row exists.
OriginsMoved == \A r \in Rolls :
    \/ origin'[r] = origin[r]
    \/ origin[r] = "none" /\ origin'[r] = "posted"
    \/ /\ origin[r] = "none" /\ origin'[r] = "vetted"
       /\ status[Source[r]] = "executed"

\* Only a look at the source, or a post, settles the origin of a roll.
LEMMA OriginsMove == TypeOK /\ [Next]_vars => OriginsMoved
  <1> SUFFICES ASSUME TypeOK, [Next]_vars PROVE OriginsMoved
    OBVIOUS
  <1>1. CASE UNCHANGED origin
    BY <1>1 DEF OriginsMoved
  <1>2. ASSUME NEW r \in Proposals, VetRollSource(r) \/ PostRollProposal(r)
        PROVE  OriginsMoved
    BY <1>2 DEF VetRollSource, PostRollProposal, OriginsMoved, TypeOK
  <1>3. ASSUME NEW w \in Threads, NEW l \in Legs, Send(w, l)
        PROVE  UNCHANGED origin
    BY <1>3 DEF Send
  <1> QED BY <1>1, <1>2, <1>3
          DEF vars, Next, ThreadStep, Refresh, Read, Decide, Prepare, Gate, Survey,
              Cover, Preflight, Refuse, SubmitSale, SubmitClose, SubmitBuyback,
              Legs, Record, ReadSource, MarkSource, Mark, Fail, CreateProposal,
              CreateRollProposal, SettleParent, OrderMove, RefreshSale,
              RefreshClose, RefreshRoll, RollSource, AdoptRoll, StartPass, AbortPass
-----------------------------------------------------------------------------
\* The invariant, part by part.

\* Every order stays behind a decision, and every vetted roll behind a sale.
LEMMA OrderInvStays ==
    CallsInv /\ OrdersMoved /\ StatusesMoved /\ OriginsMoved => OrderInv'
  <1> SUFFICES ASSUME CallsInv, OrdersMoved, StatusesMoved, OriginsMoved
               PROVE  OrderInv'
    OBVIOUS
  <1>1. \A p \in Proposals : Decided(p) => Decided(p)'
    BY DEF StatusesMoved, Decided
  <1>2. ASSUME NEW p \in Proposals, NEW l \in Legs, Sent(p, l)', ~Sent(p, l)
        PROVE  \E w \in Threads : Sends(w, p, l) /\ Learned(thread[w])
    BY <1>2 DEF OrdersMoved, OrderMoves, Sent, CallsInv, ThreadInv, Sends
  <1>3. \A p \in Proposals, l \in Legs : Sent(p, l)' => Decided(p)'
    <2> SUFFICES ASSUME NEW p \in Proposals, NEW l \in Legs, Sent(p, l)'
                 PROVE  Decided(p)
      BY <1>1
    <2>1. CASE Sent(p, l)
      BY <2>1 DEF CallsInv, OrderInv
    <2>2. CASE ~Sent(p, l)
      BY <1>2, <2>2 DEF Sends, Learned
    <2> QED BY <2>1, <2>2
  <1>4. \A p \in Proposals : Sent(p, "close")' => FilledLeg(p, "sell")'
    <2> SUFFICES ASSUME NEW p \in Proposals, Sent(p, "close")'
                 PROVE  FilledLeg(p, "sell")'
      OBVIOUS
    <2>0. "close" \in Legs /\ "sell" \in Legs
      BY DEF Legs
    <2>1. FilledLeg(p, "sell")
      BY <1>2, <2>0 DEF CallsInv, OrderInv, Sends, Learned
    <2> QED BY <2>0, <2>1, FillsStay
  <1>5. \A r \in Rolls : origin'[r] = "vetted" => FilledLeg(Source[r], "sell")'
    <2> SUFFICES ASSUME NEW r \in Rolls, origin'[r] = "vetted"
                 PROVE  FilledLeg(Source[r], "sell")'
      OBVIOUS
    <2>1. Source[r] \in Proposals /\ "sell" \in Legs
      BY CoveredCallConstants DEF Legs
    <2>2. FilledLeg(Source[r], "sell")
      BY <2>1 DEF OriginsMoved, CallsInv, OrderInv, StatusIsTruthful, FilledLeg
    <2> QED BY <2>1, <2>2, FillsStay
  <1>6. \A r \in Rolls : status'[r] # "none" => origin'[r] # "none"
    <2> SUFFICES ASSUME NEW r \in Rolls, status'[r] # "none"
                 PROVE  origin'[r] # "none"
      OBVIOUS
    <2>1. status[r] # "none" => origin[r] # "none"
      BY DEF CallsInv, OrderInv
    <2>2. status[r] # "none" \/ origin'[r] # "none"
      BY DEF StatusesMoved, Proposals
    <2> QED BY <2>1, <2>2 DEF OriginsMoved
  <1> QED BY <1>3, <1>4, <1>5, <1>6 DEF OrderInv

\* What a request has learned of the orders stays true while it waits.
LEMMA LearnedStays ==
    ASSUME OrdersMoved, StatusesMoved, NEW t \in Requests, Learned(t)
    PROVE  Learned(t)'
  <1>1. t.p \in Proposals
    BY DEF Requests
  <1>2. \A l \in Legs : FilledLeg(t.p, l) => FilledLeg(t.p, l)'
    BY <1>1, FillsStay
  <1>3. (status[t.p] # "none")' /\ (Decided(t.p) => Decided(t.p)')
    BY <1>1 DEF StatusesMoved, Learned, Decided
  <1>4. t.p \in Rolls /\ FilledLeg(Source[t.p], "sell")
          => FilledLeg(Source[t.p], "sell")'
    BY FillsStay, CoveredCallConstants DEF Legs
  <1>5. t.at = "roll_source" => t.p \in Rolls
    BY DEF Learned
  <1> QED BY <1>2, <1>3, <1>4, <1>5 DEF Learned, Legs

\* Rejected and expired rows are remembered as dropped.
LEMMA DroppedInvStays == DroppedInv /\ StatusesMoved => DroppedInv'
  BY DEF DroppedInv, StatusesMoved

\* A status still tells the truth about the orders after any write.
LEMMA TruthStays ==
    CallsInv /\ OrdersMoved /\ StatusesMoved => StatusIsTruthful'
  <1> SUFFICES ASSUME CallsInv, OrdersMoved, StatusesMoved, NEW p \in Proposals
               PROVE  /\ status'[p] \in {"executed", "closed", "rolled"} =>
                           FilledLeg(p, "sell")'
                      /\ status'[p] = "closed" => FilledLeg(p, "close")'
                      /\ status'[p] = "rolled" => \E r \in Rolls :
                           Source[r] = p /\ FilledLeg(r, "sell")'
    BY DEF StatusIsTruthful, FilledLeg
  <1>1. /\ status'[p] \in {"executed", "closed", "rolled"} => FilledLeg(p, "sell")
        /\ status'[p] = "closed" => FilledLeg(p, "close")
        /\ status'[p] = "rolled" => \E r \in Rolls : Source[r] = p /\ FilledLeg(r, "sell")
    BY DEF CallsInv, StatusIsTruthful, StatusesMoved, FilledLeg
  <1>2. \A q \in Proposals, l \in Legs : FilledLeg(q, l) => FilledLeg(q, l)'
    BY FillsStay
  <1> QED BY <1>1, <1>2 DEF Legs, Proposals

\* A roll's sale is submitted by a request that has seen its buyback filled.
LEMMA RollSalesStay ==
    CallsInv /\ OrdersMoved => RollSellsBehindBuyback'
  <1> SUFFICES ASSUME CallsInv, OrdersMoved, NEW r \in Rolls, Sent(r, "sell")'
               PROVE  FilledLeg(r, "buyback")'
    BY DEF RollSellsBehindBuyback, Sent, FilledLeg
  <1>1. r \in Proposals /\ r \notin Opens /\ "sell" \in Legs /\ "buyback" \in Legs
    BY CoveredCallConstants DEF Proposals, Legs
  <1>2. CASE Sent(r, "sell")
    BY <1>1, <1>2, FillsStay DEF CallsInv, RollSellsBehindBuyback, Sent, FilledLeg
  <1>3. CASE ~Sent(r, "sell")
    <2>1. PICK w \in Threads : Sends(w, r, "sell")
      BY <1>1, <1>3 DEF OrdersMoved, OrderMoves, Sent
    <2>2. FilledLeg(r, "buyback")
      BY <1>1, <2>1 DEF Sends, CallsInv, ThreadInv, Learned
    <2> QED BY <1>1, <2>2, FillsStay
  <1> QED BY <1>2, <1>3

\* A duty of the pass stays what it was when the pass took it up.
LEMMA PassInvStays ==
    CallsInv /\ [Next]_vars /\ OrdersMoved => PassInv'
  <1> SUFFICES ASSUME CallsInv, [Next]_vars, OrdersMoved PROVE PassInv'
    OBVIOUS
  <1>0. \A r \in Rolls : Source[r] \in Proposals
    BY CoveredCallConstants
  <1>1. \A q \in Proposals : FilledLeg(q, "sell") => FilledLeg(q, "sell")'
    BY FillsStay DEF Legs
  <1>2. ASSUME pass' \subseteq pass PROVE PassInv'
    BY <1>0, <1>1, <1>2 DEF CallsInv, PassInv
  <1>3. CASE StartPass
    <2>1. pass' = DutiesNow
      BY <1>3 DEF StartPass
    <2>2. \A p \in Proposals :
            /\ <<p, "sale">> \in DutiesNow => p \in Opens
            /\ <<p, "close">> \in DutiesNow => status[p] = "executed"
            /\ <<p, "roll">> \in DutiesNow => p \in Rolls
            /\ <<p, "source">> \notin DutiesNow /\ <<p, "adopt">> \notin DutiesNow
      BY DEF DutiesNow
    <2> QED BY <1>1, <2>1, <2>2 DEF PassInv, CallsInv, StatusIsTruthful, FilledLeg
  <1>4. ASSUME NEW r \in Proposals, RefreshRoll(r) PROVE PassInv'
    <2>1. r \in Rolls
      BY <1>4 DEF RefreshRoll, Turn, CallsInv, PassInv
    <2>2. \/ pass' \subseteq pass
          \/ FilledLeg(r, "sell") /\ pass' \subseteq pass \cup {<<r, "adopt">>}
          \/ /\ FilledLeg(r, "sell") /\ status[Source[r]] = "executed"
             /\ pass' \subseteq pass \cup {<<r, "source">>}
      BY <1>4 DEF RefreshRoll, FilledLeg
    <2>3. status[Source[r]] = "executed" => FilledLeg(Source[r], "sell")
      BY <1>0, <2>1 DEF CallsInv, StatusIsTruthful, FilledLeg
    <2> QED BY <1>0, <1>1, <1>2, <2>1, <2>2, <2>3 DEF CallsInv, PassInv
  <1>6. ASSUME NEW r \in Proposals, RollSource(r) PROVE PassInv'
    <2>1. /\ r \in Rolls /\ FilledLeg(r, "sell")
          /\ pass' \subseteq pass \cup {<<r, "adopt">>}
      BY <1>6 DEF RollSource, Turn, CallsInv, PassInv
    <2> QED BY <1>0, <1>1, <2>1 DEF CallsInv, PassInv
  <1>5. ASSUME NEW w \in Threads, NEW l \in Legs, Send(w, l)
        PROVE  pass' = pass
    BY <1>5 DEF Send
  <1> QED BY <1>2, <1>3, <1>4, <1>5, <1>6
          DEF vars, Next, ThreadStep, Refresh, Read, Decide, Prepare, Gate, Survey,
              Cover, Preflight, Refuse, SubmitSale, SubmitClose, SubmitBuyback,
              Legs, Record, ReadSource, MarkSource, Mark, Fail, CreateProposal,
              VetRollSource, CreateRollProposal, PostRollProposal, SettleParent,
              OrderMove, RefreshSale, RefreshClose, AdoptRoll, AbortPass

\* A request that reads its proposal knows of the row's status.
LEMMA ReadLearns ==
    ASSUME CallsInv, NEW w \in Threads, NEW op \in Operations, NEW p \in Proposals,
           Read(w, op, p), NEW t \in Requests, thread'[w] = t
    PROVE  Learned(t)
  <1>1. t = [at |-> IF op \in {"approve", "reject"} THEN "decide" ELSE "prepare",
             op |-> op, p |-> p, held |-> {}, result |-> "none"]
    BY DEF CallsInv, TypeOK, Read
  <1>2. status[p] \in Accepts(op) /\ Offered(op, p)
    BY DEF Read
  <1>3. /\ status[p] # "none" /\ (op = "close" => status[p] = "executed")
        /\ op \in {"approve", "reject"} \/ Decided(p)
    BY <1>2 DEF Accepts, Operations, Decided
  <1>4. (op = "open" => p \in Opens) /\ (op \in {"roll", "continue"} => p \in Rolls)
    BY <1>2 DEF Offered
  <1>5. op = "close" => FilledLeg(p, "sell")
    BY <1>3 DEF CallsInv, StatusIsTruthful, FilledLeg
  <1> QED BY <1>1, <1>3, <1>4, <1>5 DEF Learned

\* A request that moves on without an order knows what it needs to know.
LEMMA MoveLearns ==
    ASSUME CallsInv, NEW w \in Threads, NEW t \in Requests, thread'[w] = t,
           \/ Prepare(w) \/ Gate(w) \/ Survey(w) \/ Cover(w) \/ Preflight(w)
           \/ Refuse(w) \/ Record(w) \/ ReadSource(w) \/ MarkSource(w)
    PROVE  Learned(t)
  <1>0. t # Idle
    BY RequestsAreBusy
  <1>1. thread[w] \in Requests /\ Learned(thread[w]) /\ thread[w].p \in Proposals
    BY Busy DEF CallsInv, ThreadInv, Prepare, Gate, Survey, Cover, Preflight, Refuse,
                Record, ReadSource, MarkSource
  <1>2. TypeOK
    BY DEF CallsInv
  <1>3. CASE Prepare(w)
    BY <1>1, <1>2, <1>3, MoveToRequest DEF Prepare, Steps, Learned, Requests, Operations
  <1>4. CASE Gate(w)
    BY <1>1, <1>2, <1>4, MoveToRequest DEF Gate, Steps, Learned
  <1>5. CASE Cover(w)
    BY <1>1, <1>2, <1>5, MoveToRequest DEF Cover, Steps, Learned
  <1>6. CASE Survey(w)
    <2>1. t = [thread[w] EXCEPT !.at = "cover", !.held = Reservations(thread[w].p)]
      BY <1>2, <1>6 DEF Survey, TypeOK
    <2>2. /\ t.at = "cover" /\ t.op = thread[w].op /\ t.p = thread[w].p
          /\ t.result = thread[w].result
      BY <1>1, <2>1 DEF Requests
    <2> QED BY <1>1, <1>6, <2>2 DEF Survey, Learned
  <1>7. CASE Preflight(w)
    <2> DEFINE r == thread[w].p
               done == order[r]["buyback"] = "filled"
    <2>1. /\ t.at = (IF done /\ rollRun[r] = "buyback" THEN "survey" ELSE "record")
          /\ t.result = (IF ~done \/ rollRun[r] = "buyback" THEN "none"
                         ELSE IF order[r]["sell"] = "filled" THEN "filled" ELSE "sent")
          /\ t.op = thread[w].op /\ t.p = r
      BY <1>1, <1>2, <1>7 DEF Preflight, TypeOK, Requests
    <2> QED BY <1>1, <1>7, <2>1 DEF Preflight, Learned, FilledLeg
  <1>8. CASE Refuse(w)
    <2>1. MoveTo(w, "record") /\ thread[w].op = "roll"
      BY <1>0, <1>2, <1>8, ReleaseThread DEF Refuse
    <2> QED BY <1>1, <1>2, <2>1, MoveToRequest DEF Steps, Learned
  <1>9. CASE Record(w)
    <2> DEFINE r == thread[w].p
    <2>1. /\ thread[w].at = "record"
          /\ thread[w].result = "filled"
          /\ MoveTo(w, IF r \in Rolls /\ thread[w].op # "close" THEN "mark_source"
                       ELSE "mark")
      BY <1>0, <1>1, <1>2, <1>9, AnswerTypes DEF Record
    <2>2. /\ t.at = (IF r \in Rolls /\ thread[w].op # "close" THEN "mark_source" ELSE "mark")
          /\ t.op = thread[w].op /\ t.p = r /\ t.result = "none"
      BY <1>1, <1>2, <2>1, MoveToRequest DEF Steps
    <2>3. r \in Rolls => r \notin Opens
      BY CoveredCallConstants
    <2>4. thread[w].op \in Operations
      BY <1>1 DEF Requests
    <2> QED BY <1>1, <2>1, <2>2, <2>3, <2>4 DEF Learned, Operations
  <1>10. CASE MarkSource(w)
    BY <1>1, <1>2, <1>10, MoveToRequest DEF MarkSource, Steps, Learned
  <1>11. CASE ReadSource(w)
    <2> DEFINE source == Source[thread[w].p]
               at == IF status[source] = "executed" THEN "roll_source" ELSE "mark"
    <2>1. thread[w].at = "mark_source" /\ MoveTo(w, at)
      BY <1>11 DEF ReadSource
    <2>2. t.at = at /\ t.op = thread[w].op /\ t.p = thread[w].p /\ t.result = "none"
      BY <1>1, <1>2, <2>1, MoveToRequest DEF Steps
    <2>3. thread[w].p \in Rolls
      BY <1>1, <2>1 DEF Learned
    <2>4. at = "roll_source" => FilledLeg(source, "sell")
      BY <2>3, CoveredCallConstants DEF CallsInv, StatusIsTruthful, FilledLeg
    <2>5. at \in {"roll_source", "mark"}
      OBVIOUS
    <2> HIDE DEF at
    <2> QED BY <1>1, <2>1, <2>2, <2>4, <2>5 DEF Learned
  <1> QED BY <1>3, <1>4, <1>5, <1>6, <1>7, <1>8, <1>9, <1>10, <1>11

\* A request that has submitted a leg has seen the order's answer.
LEMMA SendLearns ==
    ASSUME CallsInv, NEW w \in Threads, NEW t \in Requests, thread'[w] = t,
           SubmitSale(w) \/ SubmitClose(w) \/ SubmitBuyback(w),
           OrdersMoved, StatusesMoved
    PROVE  Learned(t)'
  <1>0. t # Idle /\ TypeOK
    BY RequestsAreBusy DEF CallsInv
  <1>1. thread[w] \in Requests /\ Learned(thread[w]) /\ thread[w].p \in Proposals
    BY <1>0, Busy DEF CallsInv, ThreadInv, SubmitSale, SubmitClose, SubmitBuyback
  <1> DEFINE q == thread[w].p
  <1>2. /\ status'[q] # "none" /\ (Decided(q) => status'[q] \notin {"none", "pending"})
        /\ \A l \in Legs : FilledLeg(q, l) => order'[q][l] = "filled"
    <2>1. status'[q] # "none" /\ (Decided(q) => status'[q] \notin {"none", "pending"})
      BY <1>1 DEF StatusesMoved, Learned, Decided
    <2> QED BY <1>1, <2>1 DEF OrdersMoved, OrderMoves, FilledLeg
  <1>3. ASSUME NEW l \in Legs, Send(w, l)
        PROVE  \E a \in OrderStates : t = Answered(w, l, a) /\ order'[q][l] = a
    <2>1. PICK a \in OrderStates : /\ order' = [order EXCEPT ![q][l] = a]
                                   /\ thread' = [thread EXCEPT ![w] = Answered(w, l, a)]
      BY <1>3 DEF Send
    <2> QED BY <1>0, <1>1, <2>1 DEF TypeOK
  <1>4. ASSUME NEW l \in Legs, NEW a \in OrderStates, t = Answered(w, l, a)
        PROVE  /\ t.op = thread[w].op /\ t.p = q
               /\ IF l = "buyback" /\ a = "filled" THEN t.at = "survey" ELSE t.at = "record"
               /\ IF l = "buyback" THEN t.result = thread[w].result
                  ELSE t.result = IF a = "filled" THEN "filled" ELSE "sent"
    BY <1>0, <1>1, <1>4, AnsweredRequest
  <1>5. CASE SubmitSale(w)
    <2>1. thread[w].at = "sale" /\ Send(w, "sell") /\ "sell" \in Legs
      BY <1>5 DEF SubmitSale, Legs
    <2>2. PICK a \in OrderStates : t = Answered(w, "sell", a) /\ order'[q]["sell"] = a
      BY <1>3, <2>1
    <2>3. /\ t.op = thread[w].op /\ t.p = q /\ t.at = "record"
          /\ t.result = "filled" => order'[q]["sell"] = "filled"
      BY <1>4, <2>1, <2>2
    <2>4. t.op \notin {"approve", "reject", "close"}
      BY <1>1, <2>1, <2>3 DEF Learned
    <2> QED BY <1>1, <1>2, <2>3, <2>4 DEF Learned, Decided, FilledLeg
  <1>6. CASE SubmitClose(w)
    <2>1. thread[w].op = "close" /\ Send(w, "close") /\ "close" \in Legs /\ "sell" \in Legs
      BY <1>6 DEF SubmitClose, Legs
    <2>2. PICK a \in OrderStates : t = Answered(w, "close", a) /\ order'[q]["close"] = a
      BY <1>3, <2>1
    <2>3. /\ t.op = "close" /\ t.p = q /\ t.at = "record"
          /\ t.result = "filled" => order'[q]["close"] = "filled"
      BY <1>4, <2>1, <2>2
    <2> QED BY <1>1, <1>2, <2>1, <2>3 DEF Learned, Decided, FilledLeg
  <1>7. CASE SubmitBuyback(w)
    <2>1. /\ thread[w].op = "roll" /\ thread[w].at = "check"
          /\ Send(w, "buyback") /\ "buyback" \in Legs
      BY <1>7 DEF SubmitBuyback, Legs
    <2>2. PICK a \in OrderStates : t = Answered(w, "buyback", a) /\ order'[q]["buyback"] = a
      BY <1>3, <2>1
    <2>3. /\ t.op = "roll" /\ t.p = q
          /\ IF a = "filled" THEN t.at = "survey" ELSE t.at = "record"
          /\ t.result = thread[w].result
      BY <1>4, <2>1, <2>2
    <2>4. t.result = "none"
      BY <1>1, <2>1, <2>3 DEF Learned
    <2> QED BY <1>1, <1>2, <2>1, <2>2, <2>3, <2>4 DEF Learned, Decided, FilledLeg
  <1> QED BY <1>5, <1>6, <1>7

\* A step of one thread leaves the other threads alone.
LEMMA OthersWait ==
    ASSUME TypeOK, [Next]_vars, NEW v \in Threads, thread'[v] # thread[v]
    PROVE  /\ ThreadStep(v)
           /\ \A u \in Threads : u # v => thread'[u] = thread[u]
  <1>1. ASSUME NEW w \in Threads, ThreadStep(w)
        PROVE  \A u \in Threads : u # w => thread'[u] = thread[u]
    <2>1. ASSUME NEW at, MoveTo(w, at)
          PROVE  \A u \in Threads : u # w => thread'[u] = thread[u]
      BY <2>1 DEF MoveTo, TypeOK
    <2>2. ASSUME Release(w)
          PROVE  \A u \in Threads : u # w => thread'[u] = thread[u]
      BY <2>2, ReleaseThread
    <2>3. CASE Prepare(w) \/ Gate(w) \/ Cover(w) \/ ReadSource(w) \/ MarkSource(w)
      BY <2>1, <2>3 DEF Prepare, Gate, Cover, ReadSource, MarkSource
    <2>4. CASE Refuse(w) \/ Record(w)
      BY <2>1, <2>2, <2>4 DEF Refuse, Record, Answer, LeaveParent
    <2>5. CASE Decide(w) \/ Mark(w) \/ Fail(w)
      BY <2>2, <2>5 DEF Decide, Mark, Fail, Answer, LeaveParent
    <2>6. CASE Survey(w) \/ Preflight(w)
      BY <2>6 DEF Survey, Preflight, TypeOK
    <2>7. CASE SubmitSale(w) \/ SubmitClose(w) \/ SubmitBuyback(w)
      BY <2>7 DEF SubmitSale, SubmitClose, SubmitBuyback, Send, TypeOK
    <2>8. ASSUME NEW op \in Operations, NEW p \in Proposals, Read(w, op, p)
          PROVE  \A u \in Threads : u # w => thread'[u] = thread[u]
      BY <2>8 DEF Read, TypeOK
    <2> QED BY <1>1, <2>3, <2>4, <2>5, <2>6, <2>7, <2>8 DEF ThreadStep
  <1>2. PICK w \in Threads : ThreadStep(w)
    BY DEF vars, Next, Refresh, CreateProposal, VetRollSource, CreateRollProposal,
           PostRollProposal, SettleParent, OrderMove, RefreshSale, RefreshClose,
           RefreshRoll, RollSource, AdoptRoll, StartPass, AbortPass
  <1> QED BY <1>1, <1>2

\* Every request knows what it needs to know after every step.
LEMMA ThreadInvStays ==
    CallsInv /\ [Next]_vars /\ OrdersMoved /\ StatusesMoved /\ TypeOK' => ThreadInv'
  <1> SUFFICES ASSUME CallsInv, [Next]_vars, OrdersMoved, StatusesMoved, TypeOK',
                      NEW w \in Threads, NEW t \in Requests, thread'[w] = t
               PROVE  Learned(t)'
    BY DEF ThreadInv, TypeOK, Learned
  <1>0. t # Idle /\ TypeOK
    BY RequestsAreBusy DEF CallsInv
  <1>1. ASSUME Learned(t) PROVE Learned(t)'
    BY <1>1, LearnedStays
  <1>2. CASE thread[w] = t
    BY <1>0, <1>1, <1>2 DEF CallsInv, ThreadInv
  <1>3. CASE thread[w] # t
    <2>1. ThreadStep(w)
      BY <1>0, <1>3, OthersWait
    <2>2. ASSUME NEW op \in Operations, NEW p \in Proposals, Read(w, op, p)
          PROVE  Learned(t)'
      BY <1>1, <2>2, ReadLearns
    <2>3. CASE \/ Prepare(w) \/ Gate(w) \/ Survey(w) \/ Cover(w) \/ Preflight(w)
               \/ Refuse(w) \/ Record(w) \/ ReadSource(w) \/ MarkSource(w)
      BY <1>1, <2>3, MoveLearns
    <2>4. CASE SubmitSale(w) \/ SubmitClose(w) \/ SubmitBuyback(w)
      BY <2>4, SendLearns
    <2>5. CASE Decide(w) \/ Mark(w) \/ Fail(w)
      BY <1>0, <2>5, ReleaseThread DEF Decide, Mark, Fail, Answer, LeaveParent
    <2> QED BY <2>1, <2>2, <2>3, <2>4, <2>5 DEF ThreadStep
  <1> QED BY <1>2, <1>3

\* The invariant holds at first.
LEMMA CallsInvHolds == Init => CallsInv
  <1> SUFFICES ASSUME Init PROVE CallsInv
    OBVIOUS
  <1>1. TypeOK
    BY TypesHold
  <1>2. \A p \in Proposals, l \in Legs : ~Sent(p, l) /\ ~FilledLeg(p, l)
    BY DEF Init, Sent, FilledLeg
  <1>3. \A r \in Rolls : r \in Proposals
    BY DEF Proposals
  <1>4. OrderInv
    BY <1>2, <1>3 DEF Init, OrderInv, Legs
  <1>5. ThreadInv /\ PassInv /\ DroppedInv /\ StatusIsTruthful
    BY DEF Init, ThreadInv, PassInv, DroppedInv, StatusIsTruthful
  <1>6. RollSellsBehindBuyback
    BY <1>2, <1>3 DEF RollSellsBehindBuyback, Sent, Legs
  <1> QED BY <1>1, <1>4, <1>5, <1>6 DEF CallsInv

\* Every step keeps the invariant.
LEMMA CallsInvStays == CallsInv /\ [Next]_vars => CallsInv'
  <1> SUFFICES ASSUME CallsInv, [Next]_vars PROVE CallsInv'
    OBVIOUS
  <1>1. TypeOK' /\ OrdersMoved /\ StatusesMoved /\ OriginsMoved
    BY TypesStay, OrdersMove, StatusesMove, OriginsMove DEF CallsInv
  <1> QED BY <1>1, OrderInvStays, ThreadInvStays, PassInvStays, DroppedInvStays,
             TruthStays, RollSalesStay DEF CallsInv

\* The invariant holds always.
LEMMA CallsInvariant == Spec => []CallsInv
  <1> QED BY CallsInvHolds, CallsInvStays, PTL DEF Spec

\* For any number of proposals, threads and stale writers, a status never
\* runs ahead of the orders of its proposal.
THEOREM Truthful == Spec => []StatusIsTruthful
  <1>1. CallsInv => StatusIsTruthful
    BY DEF CallsInv
  <1> QED BY <1>1, CallsInvariant, PTL

\* No roll sells its new call before its old one is bought back.
THEOREM RollsBuyFirst == Spec => []RollSellsBehindBuyback
  <1>1. CallsInv => RollSellsBehindBuyback
    BY DEF CallsInv
  <1> QED BY <1>1, CallsInvariant, PTL
-----------------------------------------------------------------------------
\* The account gate.

\* An opener gets past the gate only while nothing else is unresolved.
LEMMA EnterGate ==
    ASSUME TypeOK, NEW w \in Threads, ThreadStep(w), PastGate(w)'
    PROVE  PastGate(w) \/ Unblocked(w)
  <1>0. thread'[w] # Idle /\ thread'[w].op = "open"
        /\ thread'[w].at \notin {"decide", "prepare", "check"}
    BY DEF PastGate, Idle, Steps
  <1>1. ASSUME NEW op \in Operations, NEW p \in Proposals, Read(w, op, p)
        PROVE  FALSE
    BY <1>0, <1>1 DEF Read, TypeOK
  <1>2. CASE Decide(w) \/ Mark(w) \/ Fail(w)
    BY <1>0, <1>2, ReleaseThread DEF Decide, Mark, Fail, Answer, LeaveParent
  <1>3. CASE Prepare(w)
    BY <1>0, <1>3, Busy, MoveToRequest DEF Prepare, Steps
  <1>4. CASE Gate(w)
    BY <1>4 DEF Gate
  <1>5. ASSUME thread[w].at \in {"survey", "cover", "sale", "record", "mark_source",
                                "roll_source"},
               thread[w].op = "open"
        PROVE  PastGate(w)
    BY <1>5 DEF PastGate, Steps
  <1>6. CASE Cover(w) \/ ReadSource(w) \/ MarkSource(w)
    <2>1. thread[w].op = thread'[w].op
      BY <1>6, Busy, MoveToRequest DEF Cover, ReadSource, MarkSource, Steps
    <2> QED BY <1>0, <1>5, <1>6, <2>1 DEF Cover, ReadSource, MarkSource
  <1>7. CASE Survey(w) \/ Preflight(w)
    <2>1. thread[w] \in Requests
      BY <1>7, Busy DEF Survey, Preflight
    <2>2. thread[w].op = thread'[w].op
      BY <1>7, <2>1 DEF Survey, Preflight, TypeOK, Requests
    <2> QED BY <1>0, <1>5, <1>7, <2>2 DEF Survey, Preflight
  <1>8. CASE Refuse(w)
    BY <1>0, <1>8, Busy, ReleaseThread, MoveToRequest DEF Refuse, Steps
  <1>9. CASE Record(w)
    <2>1. thread[w] \in Requests
      BY <1>9, Busy DEF Record
    <2>2. \E at \in Steps : MoveTo(w, at)
      BY <1>0, <1>9, <2>1, AnswerTypes DEF Record, Steps
    <2>3. thread[w].op = thread'[w].op
      BY <2>1, <2>2, MoveToRequest
    <2> QED BY <1>0, <1>5, <1>9, <2>3 DEF Record
  <1>10. CASE SubmitSale(w) \/ SubmitClose(w) \/ SubmitBuyback(w)
    <2>1. thread[w] \in Requests
      BY <1>10, Busy DEF SubmitSale, SubmitClose, SubmitBuyback
    <2>2. PICK l \in Legs : Send(w, l)
      BY <1>10 DEF SubmitSale, SubmitClose, SubmitBuyback, Legs
    <2>3. PICK a \in OrderStates : thread'[w] = Answered(w, l, a)
      BY <2>1, <2>2 DEF Send, TypeOK
    <2>4. thread[w].op = thread'[w].op
      BY <1>0, <2>1, <2>3, AnsweredRequest
    <2> QED BY <1>0, <1>5, <1>10, <2>4 DEF SubmitSale, SubmitClose, SubmitBuyback
  <1> QED BY <1>1, <1>2, <1>3, <1>4, <1>6, <1>7, <1>8, <1>9, <1>10 DEF ThreadStep

\* Of two openers past the gate, one passed it while the other was prepared.
LEMMA GateStays ==
    TypeOK /\ OneOpenerPastTheGate /\ [Next]_vars => OneOpenerPastTheGate'
  <1> SUFFICES ASSUME TypeOK, OneOpenerPastTheGate, [Next]_vars,
                      NEW v \in Threads, NEW w \in Threads, v # w,
                      PastGate(v)', PastGate(w)'
               PROVE  FALSE
    BY DEF OneOpenerPastTheGate
  <1>1. ASSUME NEW a \in Threads, NEW b \in Threads, a # b, PastGate(a)', PastGate(b)',
               thread'[a] # thread[a]
        PROVE  FALSE
    <2>1. ThreadStep(a) /\ thread'[b] = thread[b]
      BY <1>1, OthersWait
    <2>2. PastGate(b)
      BY <1>1, <2>1 DEF PastGate
    <2>3. Prepared(b)
      BY <2>2 DEF PastGate, Prepared, Steps
    <2>4. PastGate(a) \/ Unblocked(a)
      BY <1>1, <2>1, EnterGate
    <2> QED BY <1>1, <2>2, <2>3, <2>4 DEF Unblocked, OneOpenerPastTheGate
  <1>2. CASE thread'[v] = thread[v] /\ thread'[w] = thread[w]
    BY <1>2 DEF PastGate, OneOpenerPastTheGate
  <1> QED BY <1>1, <1>2

\* Two openers are never past the account gate at once, however many threads
\* serve requests and however their steps interleave.
THEOREM OneOpener == Spec => []OneOpenerPastTheGate
  <1>1. Init => OneOpenerPastTheGate
    BY DEF Init, OneOpenerPastTheGate, PastGate, Idle, Steps
  <1> QED BY <1>1, GateStays, TypesHold, TypesStay, PTL DEF Spec

-----------------------------------------------------------------------------
\* The shares under the calls.

\* A committed proposal that was never dropped is an active one.
LEMMA CommittedIsActive ==
    ASSUME CallsInv, NEW p \in Proposals \ dropped, Committed(p)
    PROVE  p \in ActiveProposals
  <1>1. status[p] # "none"
    <2>1. CASE Exposed(p)
      BY <2>1 DEF Exposed, CallsInv, OrderInv, Sent, Decided, Legs
    <2>2. CASE \E w \in Threads : Claims(w, p)
      BY <2>2 DEF Claims, CallsInv, ThreadInv, Learned
    <2> QED BY <2>1, <2>2 DEF Committed
  <1>2. status[p] # "rejected"
    BY DEF CallsInv, DroppedInv
  <1>3. status[p] # "closed"
    <2> SUFFICES ASSUME status[p] = "closed" PROVE FALSE
      OBVIOUS
    <2>1. order[p]["sell"] = "filled" /\ order[p]["close"] = "filled"
      BY DEF CallsInv, StatusIsTruthful
    <2> QED BY <2>1 DEF Committed, Exposed, Bought, Sent
  <1>4. status[p] # "rolled"
    <2> SUFFICES ASSUME status[p] = "rolled" PROVE FALSE
      OBVIOUS
    <2>1. order[p]["sell"] = "filled"
          /\ \E r \in Rolls : Source[r] = p /\ order[r]["buyback"] = "filled"
      BY DEF CallsInv, StatusIsTruthful, RollSellsBehindBuyback
    <2> QED BY <2>1 DEF Committed, Exposed, Bought, Sent
  <1> QED BY <1>1, <1>2, <1>3, <1>4
          DEF ActiveProposals, ActiveStatuses, CallsInv, TypeOK, Statuses

\* The source of a roll that may sell was bought back.
LEMMA SourceIsBought ==
    ASSUME CallsInv, NEW w \in Threads, Survey(w), thread[w].p \in Rolls
    PROVE  ~Committed(Source[thread[w].p])
  <1> DEFINE r == thread[w].p
  <1>1. Learned(thread[w]) /\ thread[w].at = "survey"
    BY Busy DEF Survey, CallsInv, ThreadInv
  <1>2. FilledLeg(r, "buyback")
    BY <1>1, CoveredCallConstants DEF Learned
  <1> QED BY <1>2 DEF Committed, Exposed, Bought, FilledLeg

\* A sale whose reservations were found to leave a lot.
Counted(w, p) ==
    /\ Survey(w) /\ thread[w].p = p
    /\ Cardinality(Reservations(p)) < Lots

\* A set of proposals is finite, and no larger than a set that contains it.
LEMMA ProposalSets ==
    ASSUME NEW S \in SUBSET Proposals
    PROVE  /\ IsFiniteSet(S) /\ Cardinality(S) \in Nat
           /\ \A T \in SUBSET S : Cardinality(T) <= Cardinality(S)
  BY CoveredCallConstants, FS_Subset, FS_CardinalityType

\* What was read as free stays so: a claim to sell begins with a survey.
LEMMA ClaimsBegin ==
    ASSUME CallsInv, [Next]_vars, NEW w \in Threads, NEW p \in Proposals, Claims(w, p)'
    PROVE  Claims(w, p) \/ Counted(w, p)
  <1>0. /\ thread'[w] # Idle /\ thread'[w].p = p /\ TypeOK
        /\ \/ thread'[w].at = "sale"
           \/ thread'[w].at = "cover" /\ Cardinality(thread'[w].held) < Lots
    BY DEF Claims, CallsInv
  <1>1. CASE thread'[w] = thread[w]
    BY <1>0, <1>1 DEF Claims
  <1>2. CASE thread'[w] # thread[w]
    <2>1. ThreadStep(w)
      BY <1>0, <1>2, OthersWait
    <2>2. CASE Cover(w)
      <3>1. thread[w] \in Requests /\ thread[w] # Idle
        BY <1>0, <2>2, Busy DEF Cover
      <3>2. thread[w].p = p
        BY <1>0, <2>2, <3>1, MoveToRequest DEF Cover, Steps
      <3> DEFINE held == thread[w].held
      <3>3. held \in SUBSET Proposals
        BY <3>1 DEF Requests
      <3>4. UnlinkedSales(held) \in SUBSET Proposals
            /\ UnresolvedSales(held) \in SUBSET Proposals
        BY DEF UnlinkedSales, UnresolvedSales
      <3>5. Cardinality(held) \in Nat /\ Cardinality(UnlinkedSales(held)) \in Nat
            /\ Cardinality(UnresolvedSales(held)) \in Nat
        BY <3>3, <3>4, ProposalSets
      <3>6. Cardinality(held) < Lots
        BY <2>2, <3>5, CoveredCallConstants DEF Cover, ReservedLots
      <3> QED BY <2>2, <3>1, <3>2, <3>6 DEF Claims, Cover
    <2>3. CASE Survey(w)
      <3>1. thread[w] \in Requests
        BY <1>0, <2>3, Busy DEF Survey
      <3>2. /\ thread'[w].at = "cover" /\ thread'[w].p = thread[w].p
            /\ thread'[w].held = Reservations(thread[w].p)
        BY <1>0, <2>3, <3>1 DEF Survey, TypeOK, Requests
      <3> QED BY <1>0, <2>3, <3>2 DEF Counted
    <2>4. ASSUME NEW op \in Operations, NEW q \in Proposals, Read(w, op, q)
          PROVE  FALSE
      BY <1>0, <2>4 DEF Read, TypeOK
    <2>5. CASE Decide(w) \/ Mark(w) \/ Fail(w)
      BY <1>0, <2>5, ReleaseThread DEF Decide, Mark, Fail, Answer, LeaveParent
    <2>6. CASE Prepare(w) \/ Gate(w) \/ ReadSource(w) \/ MarkSource(w)
      BY <1>0, <2>6, Busy, MoveToRequest
         DEF Prepare, Gate, ReadSource, MarkSource, Steps
    <2>7. CASE Preflight(w)
      <3>1. thread[w] \in Requests
        BY <1>0, <2>7, Busy DEF Preflight
      <3>2. thread'[w].at \in {"survey", "record"}
        BY <1>0, <2>7, <3>1 DEF Preflight, TypeOK, Requests
      <3> QED BY <1>0, <3>2
    <2>8. CASE Refuse(w) \/ Record(w)
      <3>1. thread[w] \in Requests
        BY <1>0, <2>8, Busy DEF Refuse, Record
      <3>2. \E at \in {"record", "mark_source", "mark"} : MoveTo(w, at)
        BY <1>0, <2>8, <3>1, ReleaseThread DEF Refuse, Record, Answer, LeaveParent
      <3> QED BY <1>0, <3>1, <3>2, MoveToRequest DEF Steps
    <2>9. CASE SubmitSale(w) \/ SubmitClose(w) \/ SubmitBuyback(w)
      <3>1. thread[w] \in Requests
        BY <1>0, <2>9, Busy DEF SubmitSale, SubmitClose, SubmitBuyback
      <3>2. PICK l \in Legs : Send(w, l)
        BY <2>9 DEF SubmitSale, SubmitClose, SubmitBuyback, Legs
      <3>3. PICK a \in OrderStates : thread'[w] = Answered(w, l, a)
        BY <1>0, <3>1, <3>2 DEF Send, TypeOK
      <3>4. thread'[w].at \in {"survey", "record"}
        BY <1>0, <3>1, <3>3, AnsweredRequest
      <3> QED BY <1>0, <3>4
    <2> QED BY <2>1, <2>2, <2>3, <2>4, <2>5, <2>6, <2>7, <2>8, <2>9 DEF ThreadStep
  <1> QED BY <1>1, <1>2

\* A proposal becomes committed only by a survey that leaves it a lot.
LEMMA CommitmentsBegin ==
    ASSUME CallsInv, [Next]_vars, NEW p \in Proposals, Committed(p)'
    PROVE  Committed(p) \/ \E w \in Threads : Counted(w, p)
  <1>1. OrdersMoved
    BY OrdersMove DEF CallsInv
  <1>2. "sell" \in Legs /\ "close" \in Legs /\ "buyback" \in Legs
        /\ \A r \in Rolls : r \in Proposals
    BY DEF Legs, Proposals
  <1>3. ~Bought(p)
    <2>1. ~Bought(p)'
      BY DEF Committed, Exposed
    <2> QED BY <1>1, <1>2, <2>1, FillsStay DEF Bought, FilledLeg
  <1>4. CASE Exposed(p)'
    <2>1. CASE ~Sent(p, "sell")
      <3>1. PICK w \in Threads : Sends(w, p, "sell")
        BY <1>1, <1>2, <1>4, <2>1 DEF OrdersMoved, OrderMoves, Sent, Exposed
      <3> QED BY <1>3, <2>1, <3>1 DEF Sends, Committed, Claims
    <2>2. CASE Sent(p, "sell")
      <3>1. order[p]["sell"] \in {"unknown", "working", "filled"}
        BY <1>1, <1>2, <1>4, <2>2 DEF OrdersMoved, OrderMoves, Sent, Exposed
      <3> QED BY <1>3, <3>1 DEF Exposed, Committed
    <2> QED BY <2>1, <2>2
  <1>5. CASE ~Sent(p, "sell")' /\ \E w \in Threads : Claims(w, p)'
    <2>1. ~Sent(p, "sell")
      BY <1>1, <1>2, <1>5, FillsStay
    <2>2. \E w \in Threads : Claims(w, p) \/ Counted(w, p)
      BY <1>5, ClaimsBegin
    <2> QED BY <1>3, <2>1, <2>2 DEF Committed
  <1> QED BY <1>4, <1>5 DEF Committed

\* The committed proposals never outnumber the lots: the last one to read the
\* reservations has counted all the others.
LEMMA CoverStays == CallsInv /\ CoverInv /\ [Next]_vars => CoverInv'
  <1> SUFFICES ASSUME CallsInv, CoverInv, [Next]_vars
               PROVE  Cardinality(Claimants') <= Lots
    BY DEF CoverInv
  <1>0. dropped \subseteq dropped' /\ Lots \in Nat
    BY StatusesMove, CoveredCallConstants DEF CallsInv, StatusesMoved
  <1>1. CASE \A p \in Proposals : Committed(p)' => Committed(p)
    <2>1. Claimants' \subseteq Claimants /\ Claimants \in SUBSET Proposals
      BY <1>0, <1>1 DEF Claimants
    <2>2. Cardinality(Claimants') <= Cardinality(Claimants)
          /\ Cardinality(Claimants) \in Nat /\ Cardinality(Claimants') \in Nat
      BY <2>1, ProposalSets
    <2> QED BY <1>0, <2>2 DEF CoverInv
  <1>2. CASE \E p \in Proposals, w \in Threads : Counted(w, p)
    <2>1. PICK p \in Proposals, w \in Threads : Counted(w, p)
      BY <1>2
    <2> DEFINE R == Reservations(p)
    <2>2. Survey(w) /\ thread[w].p = p /\ Cardinality(R) < Lots
      BY <2>1 DEF Counted
    <2>3. \A q \in Proposals : q # p /\ Committed(q)' => Committed(q)
      <3> SUFFICES ASSUME NEW q \in Proposals, q # p, Committed(q)', ~Committed(q)
                   PROVE  FALSE
        OBVIOUS
      <3>1. PICK v \in Threads : Counted(v, q)
        BY CommitmentsBegin
      <3>2. Survey(v) /\ thread[v].p = q /\ TypeOK
        BY <3>1 DEF Counted, CallsInv
      <3>3. v # w
        BY <2>2, <3>2
      <3>4. thread'[v] # thread[v] /\ thread'[w] # thread[w]
        <4>1. ASSUME NEW u \in Threads, Survey(u) PROVE thread'[u] # thread[u]
          <5>1. thread[u] \in Requests /\ thread[u].at = "survey"
            BY <3>2, <4>1, Busy DEF Survey
          <5>2. thread'[u].at = "cover"
            BY <3>2, <4>1, <5>1 DEF Survey, TypeOK, Requests
          <5> QED BY <5>1, <5>2
        <4> QED BY <2>2, <3>2, <4>1
      <3> QED BY <3>2, <3>3, <3>4, OthersWait
    <2>4. R \in SUBSET Proposals /\ p \notin R
      BY DEF Reservations, ActiveProposals, Excluded
    <2>5. IsFiniteSet(R) /\ Cardinality(R) \in Nat
      BY <2>4, ProposalSets
    <2>6. Claimants' \subseteq R \cup {p}
      <3> SUFFICES ASSUME NEW q \in Claimants', q # p PROVE q \in R
        OBVIOUS
      <3>1. q \in Proposals \ dropped /\ Committed(q)
        BY <1>0, <2>3 DEF Claimants
      <3>2. q \in ActiveProposals
        BY <3>1, CommittedIsActive
      <3>3. q \notin Excluded(p)
        BY <2>2, <3>1, SourceIsBought DEF Excluded
      <3> QED BY <3>2, <3>3 DEF Reservations
    <2>7. Cardinality(R \cup {p}) = Cardinality(R) + 1
      BY <2>4, <2>5, FS_AddElement
    <2>8. R \cup {p} \in SUBSET Proposals
      BY <2>4
    <2>9. Cardinality(Claimants') <= Cardinality(R \cup {p})
          /\ Cardinality(Claimants') \in Nat
      BY <2>6, <2>8, ProposalSets
    <2> QED BY <1>0, <2>2, <2>5, <2>7, <2>9
  <1> QED BY <1>1, <1>2, CommitmentsBegin

\* Nobody claims a share at first.
LEMMA CoverHolds == Init => CoverInv
  <1> SUFFICES ASSUME Init PROVE CoverInv
    OBVIOUS
  <1>1. \A p \in Proposals : ~Committed(p)
    BY DEF Init, Committed, Exposed, Claims, Legs, Idle
  <1>2. Claimants = {}
    BY <1>1 DEF Claimants
  <1> QED BY <1>2, FS_EmptySet, CoveredCallConstants DEF CoverInv

\* For any number of proposals, rolls, lots and threads, the calls that are
\* short or may still be sold never need more lots than the account holds,
\* apart from proposals that were rejected while they were being sold.
THEOREM Covered == Spec => []CallsAreCovered
  <1>1. CoverInv => CallsAreCovered
    <2> DEFINE S == {p \in Proposals \ dropped : Exposed(p)}
    <2>1. S \subseteq Claimants /\ Claimants \in SUBSET Proposals
      BY DEF Claimants, Committed
    <2>2. Cardinality(S) <= Cardinality(Claimants) /\ Cardinality(S) \in Nat
          /\ Cardinality(Claimants) \in Nat
      BY <2>1, ProposalSets
    <2> QED BY <2>2, CoveredCallConstants DEF CoverInv, CallsAreCovered
  <1> QED BY <1>1, CoverHolds, CoverStays, CallsInvHolds, CallsInvStays, PTL DEF Spec
-----------------------------------------------------------------------------
\* The book.

\* A step moves one order, writes the row of one proposal, or posts a roll.
OneOrder ==
    /\ UNCHANGED <<status, dropped, Blind>>
    /\ \E p \in Proposals, l \in Legs : \A q \in Proposals, k \in Legs :
         q # p \/ k # l => order'[q][k] = order[q][k]

OneRow ==
    /\ UNCHANGED <<order, origin>>
    /\ \E p \in Proposals, s \in Statuses :
         /\ status' = [status EXCEPT ![p] = s]
         /\ dropped' = IF s = "rejected" THEN dropped \cup {p} ELSE dropped

\* No step touches two orders, two rows, or an order and a row.
LEMMA OneThingMoves ==
    TypeOK /\ ThreadInv /\ PassInv /\ [Next]_vars =>
      \/ OneOrder \/ OneRow \/ (\E r \in Rolls : PostRollProposal(r))
      \/ UNCHANGED <<order, status, dropped, Blind>>
  <1> DEFINE Still == UNCHANGED <<order, status, dropped, Blind>>
  <1> SUFFICES ASSUME TypeOK, ThreadInv, PassInv, [Next]_vars
               PROVE  OneOrder \/ OneRow \/ (\E r \in Rolls : PostRollProposal(r))
                      \/ Still
    OBVIOUS
  <1>1. UNCHANGED <<order, status, dropped, origin>> => Still
    BY DEF Blind
  <1>2. ASSUME NEW p \in Proposals, CreateProposal(p) \/ CreateRollProposal(p)
        PROVE  OneRow
    BY <1>2 DEF CreateProposal, CreateRollProposal, OneRow, Statuses
  <1>3. ASSUME NEW r \in Proposals, VetRollSource(r) PROVE Still
    BY <1>3 DEF VetRollSource, Blind, TypeOK
  <1>4. ASSUME NEW r \in Proposals, PostRollProposal(r)
        PROVE  \E q \in Rolls : PostRollProposal(q)
    BY <1>4 DEF PostRollProposal
  <1>5. ASSUME NEW w \in Threads, Decide(w) PROVE OneRow
    <2>1. thread[w].p \in Proposals
      BY <1>5, Busy DEF Decide
    <2> QED BY <1>5, <2>1 DEF Decide, OneRow, Statuses
  <1>6. ASSUME NEW w \in Threads, MarkSource(w) PROVE OneRow
    <2>1. Learned(thread[w])
      BY <1>6, Busy DEF MarkSource, ThreadInv
    <2>2. Source[thread[w].p] \in Proposals
      BY <1>6, <2>1, CoveredCallConstants DEF MarkSource, Learned
    <2> QED BY <1>6, <2>2 DEF MarkSource, OneRow, Statuses
  <1>7. ASSUME NEW w \in Threads, Mark(w) PROVE OneRow
    <2>1. thread[w].p \in Proposals
      BY <1>7, Busy DEF Mark
    <2> QED BY <1>7, <2>1 DEF Mark, OneRow, Statuses
  <1>8. ASSUME NEW p \in Proposals, RefreshSale(p) \/ RefreshClose(p) \/ AdoptRoll(p)
        PROVE  OneRow \/ UNCHANGED <<order, status, dropped, origin>>
    BY <1>8 DEF RefreshSale, RefreshClose, AdoptRoll, OneRow, Statuses
  <1>9. ASSUME NEW p \in Proposals, RollSource(p) PROVE OneRow
    <2>1. Source[p] \in Proposals
      BY <1>9, CoveredCallConstants DEF RollSource, Turn, PassInv
    <2> QED BY <1>9, <2>1 DEF RollSource, OneRow, Statuses
  <1>10. ASSUME NEW w \in Threads, NEW l \in Legs, thread[w] \in Requests, Send(w, l)
         PROVE  OneOrder
    <2>1. thread[w].p \in Proposals
      BY <1>10 DEF Requests
    <2> QED BY <1>10, <2>1 DEF Send, OneOrder, Blind, TypeOK
  <1>11. ASSUME NEW w \in Threads, SubmitSale(w) \/ SubmitClose(w) \/ SubmitBuyback(w)
         PROVE  OneOrder
    BY <1>10, <1>11, Busy DEF SubmitSale, SubmitClose, SubmitBuyback, Legs
  <1>12. ASSUME NEW p \in Proposals, NEW l \in Legs, OrderMove(p, l)
         PROVE  OneOrder
    BY <1>12 DEF OrderMove, OneOrder, Blind, TypeOK
  <1> HIDE DEF Still
  <1> QED BY <1>1, <1>2, <1>3, <1>4, <1>5, <1>6, <1>7, <1>8, <1>9, <1>11, <1>12
          DEF vars, Next, ThreadStep, Refresh, Read, Prepare, Gate, Survey, Cover,
              Preflight, Refuse, Record, ReadSource, Fail, SettleParent,
              RefreshRoll, StartPass, AbortPass

\* What the order of a sale makes of a call.
LEMMA CallStates ==
    ASSUME NEW sale \in OrderStates
    PROVE  /\ CallState(sale) \in {"unsold", "offered", "sold", "missed"}
           /\ CallState(sale) = "unsold" <=> sale = "none"
           /\ CallState(sale) = "offered" <=> sale \in {"unknown", "working"}
           /\ CallState(sale) = "sold" <=> sale = "filled"
  BY DEF CallState, OrderStates

\* A call is sold, or offered, when the order of its sale says so.
LEMMA CallsRead ==
    ASSUME TypeOK, NEW p \in Proposals
    PROVE  /\ Calls[p] = "unsold" <=> order[p]["sell"] = "none"
           /\ Calls[p] = "offered" <=> order[p]["sell"] \in {"unknown", "working"}
           /\ Calls[p] = "sold" <=> order[p]["sell"] = "filled"
  <1>1. order[p]["sell"] \in OrderStates
    BY DEF TypeOK, Legs
  <1> QED BY <1>1, CallStates DEF Calls

\* The calls that need a lot are the exposed ones.
LEMMA HeldIsExposed ==
    ASSUME TypeOK
    PROVE  Book!Held = {p \in Proposals \ dropped : Exposed(p)}
  BY CallsRead DEF Book!Held, Book!Proposals, Proposals, Exposed, Back

\* The book counts as this module does.
LEMMA SameCount == \A S : Book!Cardinality(S) = Cardinality(S)
  BY DEF Cardinality, Book!Cardinality

\* A call whose sale was not yet sent leaves a lot to the one that sells it.
LEMMA SaleHasALot ==
    ASSUME CallsInv, CoverInv, NEW p \in Proposals \ dropped, Committed(p), ~Exposed(p)
    PROVE  Cardinality(Book!Held) < Lots
  <1> DEFINE E == Book!Held
  <1>1. E \in SUBSET Proposals /\ p \notin E /\ E \cup {p} \subseteq Claimants
        /\ Claimants \in SUBSET Proposals
    BY HeldIsExposed DEF CallsInv, Claimants, Committed
  <1>2. IsFiniteSet(E) /\ Cardinality(E) \in Nat /\ Cardinality(Claimants) \in Nat
        /\ Cardinality(E \cup {p}) <= Cardinality(Claimants)
    BY <1>1, ProposalSets
  <1>3. Cardinality(E \cup {p}) = Cardinality(E) + 1
    BY <1>1, <1>2, FS_AddElement
  <1> QED BY <1>2, <1>3, CoveredCallConstants DEF CoverInv

\* The first order of a sale is the book's sale.
LEMMA SaleIsSell ==
    ASSUME CallsInv, CoverInv, OrdersMoved, OneOrder, TypeOK', NEW p \in Proposals,
           order[p]["sell"] = "none", order'[p]["sell"] # "none",
           \A q \in Proposals, k \in Legs :
             q # p \/ k # "sell" => order'[q][k] = order[q][k]
    PROVE  Book!Sell(p)
  <1>0. TypeOK /\ "sell" \in Legs /\ "close" \in Legs /\ "buyback" \in Legs
        /\ \A r \in Rolls : r \in Proposals
    BY DEF CallsInv, Legs, Proposals
  <1>1. PICK w \in Threads : Sends(w, p, "sell")
    BY <1>0 DEF OrdersMoved, OrderMoves
  <1>2. thread[w] # Idle /\ thread[w].p = p /\ thread[w].at = "sale"
        /\ Learned(thread[w])
    BY <1>1 DEF Sends, CallsInv, ThreadInv
  <1>3. p \notin dropped \cup Back => Book!Cardinality(Book!Held) < Lots
    <2> SUFFICES ASSUME p \notin dropped, ~Bought(p)
                 PROVE  Cardinality(Book!Held) < Lots
      BY SameCount DEF Back
    <2>1. ~Exposed(p) /\ Committed(p)
      BY <1>2 DEF Exposed, Committed, Claims, Sent
    <2> QED BY <2>1, SaleHasALot
  <1>4. Book!Decided(p)
    BY <1>2 DEF Learned, Decided, Book!Decided
  <1>5. p \in Rolls => Source[p] \in Back
    <2> SUFFICES ASSUME p \in Rolls PROVE Source[p] \in Back
      OBVIOUS
    <2>1. p \notin Opens /\ Source[p] \in Proposals
      BY CoveredCallConstants
    <2>2. FilledLeg(p, "buyback")
      BY <1>2, <2>1 DEF Learned
    <2> QED BY <2>1, <2>2 DEF Back, Bought, FilledLeg
  <1>6. UNCHANGED <<Back, status, Blind, dropped>>
    BY <1>0 DEF OneOrder, Back, Bought
  <1> DEFINE c == CallState(order'[p]["sell"])
  <1>7. order'[p]["sell"] \in OrderStates /\ order'[p]["sell"] # "none"
    BY <1>0 DEF TypeOK
  <1>8. c \in {"offered", "sold", "missed"}
    BY <1>7, CallStates
  <1>9. Calls' = [Calls EXCEPT ![p] = c]
    BY <1>0 DEF Calls
  <1>10. Calls[p] = "unsold"
    BY <1>0, CallsRead
  <1> HIDE DEF c
  <1> QED BY <1>3, <1>4, <1>5, <1>6, <1>8, <1>9, <1>10 DEF Book!Sell

\* A sale that was still open settles.
LEMMA SaleSettles ==
    ASSUME CallsInv, OrdersMoved, OneOrder, TypeOK', NEW p \in Proposals,
           order[p]["sell"] # "none", order'[p]["sell"] # order[p]["sell"],
           \A q \in Proposals, k \in Legs :
             q # p \/ k # "sell" => order'[q][k] = order[q][k]
    PROVE  UNCHANGED Back /\ (Book!Settle(p) \/ UNCHANGED Calls)
  <1>0. TypeOK /\ "sell" \in Legs /\ "close" \in Legs /\ "buyback" \in Legs
        /\ \A r \in Rolls : r \in Proposals
    BY DEF CallsInv, Legs, Proposals
  <1>1. <<order[p]["sell"], order'[p]["sell"]>> \in OrderMoves
    BY <1>0 DEF OrdersMoved
  <1>2. UNCHANGED <<Back, status, Blind, dropped>>
    BY <1>0 DEF OneOrder, Back, Bought
  <1>3. Calls[p] = "offered"
    BY <1>0, <1>1, CallsRead DEF OrderMoves
  <1> DEFINE c == CallState(order'[p]["sell"])
  <1>4. c \in {"offered", "sold", "missed"}
    BY <1>1, CallStates DEF OrderMoves, OrderStates
  <1>5. Calls' = [Calls EXCEPT ![p] = c]
    BY <1>0 DEF Calls
  <1> HIDE DEF c
  <1>6. CASE c = "offered"
    BY <1>2, <1>3, <1>5, <1>6 DEF Calls
  <1>7. CASE c \in {"sold", "missed"}
    BY <1>2, <1>3, <1>5, <1>7 DEF Book!Settle
  <1> QED BY <1>2, <1>4, <1>6, <1>7

\* A call that becomes bought back was sold, or a blind roll bought it back.
LEMMA BuybackOfOne ==
    ASSUME CallsInv, CallsInv', OneOrder, NEW t \in Proposals,
           \A q \in Proposals : order'[q]["sell"] = order[q]["sell"],
           \A q \in Proposals : q # t => Bought(q)' = Bought(q),
           Bought(t) => Bought(t)'
    PROVE  UNCHANGED Calls /\ (Book!BuyBack(t) \/ UNCHANGED Back)
  <1>1. UNCHANGED <<Calls, status, Blind, dropped>>
    BY DEF OneOrder, Calls
  <1>2. CASE Bought(t)' = Bought(t)
    BY <1>1, <1>2 DEF Back
  <1>3. CASE Bought(t)' # Bought(t)
    <2>1. Bought(t)' /\ ~Bought(t)
      BY <1>3 DEF Bought
    <2>2. t \notin Back /\ Back' = Back \cup {t}
      BY <2>1 DEF Back
    <2>3. order[t]["sell"] = "filled" \/ \E r \in Blind : Source[r] = t /\ Decided(r)
      <3>1. OrderInv /\ OrderInv' /\ TypeOK
        BY DEF CallsInv
      <3>2. CASE order'[t]["close"] = "filled"
        BY <3>1, <3>2 DEF OrderInv, Sent, FilledLeg
      <3>3. ASSUME NEW r \in Rolls, Source[r] = t, order'[r]["buyback"] = "filled"
            PROVE  order[t]["sell"] = "filled" \/ (r \in Blind /\ Decided(r))
        <4>1. r \in Proposals /\ "buyback" \in Legs
          BY DEF Proposals, Legs
        <4>2. Decided(r)
          BY <1>1, <3>1, <3>3, <4>1 DEF OrderInv, Sent, Decided
        <4>3. origin[r] \in {"vetted", "posted"}
          BY <3>1, <4>2 DEF OrderInv, Decided, TypeOK, Origins
        <4> QED BY <3>1, <3>3, <4>2, <4>3 DEF OrderInv, FilledLeg, Blind
      <3> QED BY <2>1, <3>2, <3>3 DEF Bought
    <2>4. order[t]["sell"] = "filled" => Calls[t] = "sold"
      BY CallsRead DEF CallsInv
    <2> QED BY <1>1, <2>2, <2>3, <2>4 DEF Book!BuyBack, Book!Decided, Decided
  <1> QED BY <1>2, <1>3

\* An exit order buys back one call at most.
LEMMA ExitBuysBack ==
    ASSUME CallsInv, CallsInv', OrdersMoved, OneOrder, NEW p \in Proposals,
           NEW l \in {"close", "buyback"},
           \A q \in Proposals, k \in Legs :
             q # p \/ k # l => order'[q][k] = order[q][k]
    PROVE  UNCHANGED Calls
           /\ ((\E t \in Proposals : Book!BuyBack(t)) \/ UNCHANGED Back)
  <1>0. "sell" \in Legs /\ "close" \in Legs /\ "buyback" \in Legs
        /\ \A r \in Rolls : r \in Proposals /\ Source[r] \in Proposals
    BY CoveredCallConstants DEF Legs, Proposals
  <1>1. \A q \in Proposals : order'[q]["sell"] = order[q]["sell"]
    BY <1>0
  <1>2. \A q \in Proposals : Bought(q) => Bought(q)'
    BY <1>0, FillsStay DEF Bought, FilledLeg
  <1> DEFINE t == IF l = "buyback" /\ p \in Rolls THEN Source[p] ELSE p
  <1>3. t \in Proposals
    BY <1>0
  <1>4. \A q \in Proposals : q # t => Bought(q)' = Bought(q)
    BY <1>0 DEF Bought
  <1> HIDE DEF t
  <1> QED BY <1>1, <1>2, <1>3, <1>4, BuybackOfOne

\* A posted roll is proposed blindly.
LEMMA PostIsProposed ==
    ASSUME TypeOK, NEW r \in Rolls, PostRollProposal(r)
    PROVE  Book!Propose(r)
  <1>1. UNCHANGED <<Calls, Back, dropped>>
    BY DEF PostRollProposal, Calls, Back, Bought
  <1>2. Blind' = Blind \cup {r}
    BY DEF PostRollProposal, Blind, TypeOK
  <1> QED BY <1>1, <1>2 DEF PostRollProposal, Book!Propose

\* A row that is written reports what has happened, or is decided anew.
LEMMA RowIsReported ==
    ASSUME CallsInv, StatusesMoved, OneRow
    PROVE  Book!BNext \/ UNCHANGED Book!bvars
  <1>0. TypeOK
    BY DEF CallsInv
  <1>1. UNCHANGED <<order, origin, Calls, Back, Blind>>
    BY DEF OneRow, Calls, Back, Bought, Blind
  <1>2. PICK p \in Proposals, s \in Statuses :
          /\ status' = [status EXCEPT ![p] = s]
          /\ dropped' = IF s = "rejected" THEN dropped \cup {p} ELSE dropped
    BY DEF OneRow
  <1>3. status'[p] = s
    BY <1>0, <1>2 DEF TypeOK
  <1>4. p \in Book!Proposals
    BY DEF Book!Proposals, Proposals
  <1>5. CASE s = status[p]
    <2>1. status' = status
      BY <1>0, <1>2, <1>5 DEF TypeOK
    <2>2. dropped' = dropped
      BY <1>2, <1>5 DEF CallsInv, DroppedInv
    <2> QED BY <1>1, <2>1, <2>2 DEF Book!bvars
  <1>6. CASE s = "pending" /\ s # status[p]
    <2>1. status[p] = "none"
      BY <1>3, <1>6 DEF StatusesMoved
    <2>2. ASSUME p \in Rolls
          PROVE  Calls[Source[p]] = "sold" \/ p \in Blind
      <3>1. origin[p] # "none" /\ Source[p] \in Proposals
        BY <1>1, <1>3, <1>6, <2>2, CoveredCallConstants DEF StatusesMoved
      <3>2. origin[p] \in {"vetted", "posted"}
        BY <1>0, <2>2, <3>1 DEF TypeOK, Origins
      <3>3. origin[p] = "vetted" => order[Source[p]]["sell"] = "filled"
        BY <2>2 DEF CallsInv, OrderInv, FilledLeg
      <3> QED BY <1>0, <2>2, <3>1, <3>2, <3>3, CallsRead DEF Blind
    <2>3. Book!Propose(p)
      <3>1. p \in Blind => p \in Rolls /\ Blind' = Blind \cup {p}
        BY <1>1 DEF Blind
      <3> QED BY <1>1, <1>2, <1>6, <2>1, <2>2, <3>1 DEF Book!Propose
    <2> QED BY <1>4, <2>3 DEF Book!BNext
  <1>7. CASE s \in {"approved", "rejected"} /\ s # status[p]
    <2>1. status[p] # "none"
      BY <1>3, <1>7 DEF StatusesMoved
    <2>2. Book!Decide(p, s)
      BY <1>1, <1>2, <1>7, <2>1 DEF Book!Decide
    <2> QED BY <1>4, <1>7, <2>2 DEF Book!BNext
  <1>8. CASE s \in {"executed", "closed", "rolled"} /\ s # status[p]
    <2>1. /\ order[p]["sell"] = "filled"
          /\ s = "closed" => order[p]["close"] = "filled"
          /\ s = "rolled" => \E r \in Rolls : Source[r] = p /\ order[r]["sell"] = "filled"
      BY <1>3, <1>8 DEF StatusesMoved, FilledLeg
    <2>2. s = "rolled" => \E r \in Rolls : /\ Source[r] = p
                                           /\ order[r]["sell"] = "filled"
                                           /\ order[r]["buyback"] = "filled"
      BY <2>1 DEF CallsInv, RollSellsBehindBuyback
    <2>3. s # "executed" => p \in Back
      BY <1>8, <2>1, <2>2 DEF Back, Bought
    <2>4. Calls[p] = "sold"
      BY <1>0, <2>1, CallsRead
    <2>5. s = "rolled" => \E r \in Rolls : Source[r] = p /\ Calls[r] = "sold"
      BY <1>0, <2>2, CallsRead DEF Proposals
    <2>6. dropped' = dropped
      BY <1>2, <1>8
    <2>7. Book!Report(p, s)
      BY <1>1, <1>2, <2>3, <2>4, <2>5, <2>6 DEF Book!Report
    <2> QED BY <1>4, <1>8, <2>7 DEF Book!BNext
  <1>9. CASE s = "none" /\ s # status[p]
    BY <1>3, <1>9 DEF StatusesMoved
  <1> QED BY <1>5, <1>6, <1>7, <1>8, <1>9 DEF Statuses

\* Every step is a step of the book, or leaves it alone.
LEMMA BookStep ==
    CallsInv /\ CoverInv /\ [Next]_vars => [Book!BNext]_Book!bvars
  <1> SUFFICES ASSUME CallsInv, CoverInv, [Next]_vars
               PROVE  Book!BNext \/ UNCHANGED Book!bvars
    OBVIOUS
  <1>1. CallsInv' /\ TypeOK /\ TypeOK' /\ OrdersMoved /\ StatusesMoved
    BY CallsInvStays, OrdersMove, StatusesMove DEF CallsInv
  <1>2. CASE UNCHANGED <<order, status, dropped, Blind>>
    BY <1>2 DEF Book!bvars, Calls, Back, Bought
  <1>3. CASE OneRow
    BY <1>1, <1>3, RowIsReported
  <1>4. CASE \E r \in Rolls : PostRollProposal(r)
    <2>1. PICK r \in Rolls : PostRollProposal(r)
      BY <1>4
    <2>2. Book!Propose(r) /\ r \in Book!Proposals
      BY <1>1, <2>1, PostIsProposed DEF Book!Proposals
    <2> QED BY <2>2 DEF Book!BNext
  <1>5. CASE OneOrder
    <2>0. UNCHANGED <<status, dropped, Blind>> /\ Proposals = Book!Proposals
      BY <1>5 DEF OneOrder, Proposals, Book!Proposals
    <2>1. PICK p \in Proposals, l \in Legs : \A q \in Proposals, k \in Legs :
            q # p \/ k # l => order'[q][k] = order[q][k]
      BY <1>5 DEF OneOrder
    <2>2. CASE order'[p][l] = order[p][l]
      <3>1. \A q \in Proposals, k \in Legs : order'[q][k] = order[q][k]
        BY <2>1, <2>2
      <3>2. UNCHANGED Calls
        BY <3>1 DEF Calls, Legs
      <3>3. UNCHANGED Back
        BY <3>1 DEF Back, Bought, Legs, Proposals
      <3> QED BY <2>0, <3>2, <3>3 DEF Book!bvars
    <2>3. CASE l = "sell" /\ order'[p][l] # order[p][l] /\ order[p][l] = "none"
      <3>1. Book!Sell(p)
        BY <1>1, <1>5, <2>1, <2>3, SaleIsSell
      <3> QED BY <2>0, <3>1 DEF Book!BNext
    <2>4. CASE l = "sell" /\ order'[p][l] # order[p][l] /\ order[p][l] # "none"
      <3>1. UNCHANGED Back /\ (Book!Settle(p) \/ UNCHANGED Calls)
        BY <1>1, <1>5, <2>1, <2>4, SaleSettles
      <3> QED BY <2>0, <3>1 DEF Book!BNext, Book!bvars
    <2>5. CASE l \in {"close", "buyback"}
      <3>1. UNCHANGED Calls
            /\ ((\E t \in Proposals : Book!BuyBack(t)) \/ UNCHANGED Back)
        BY <1>1, <1>5, <2>1, <2>5, ExitBuysBack
      <3> QED BY <2>0, <3>1 DEF Book!BNext, Book!bvars
    <2> QED BY <2>2, <2>3, <2>4, <2>5 DEF Legs
  <1>6. ThreadInv /\ PassInv
    BY DEF CallsInv
  <1> QED BY <1>1, <1>2, <1>3, <1>4, <1>5, <1>6, OneThingMoves

\* For any number of proposals, rolls, lots and threads, the requests, passes
\* and orders of covered calls implement the book: whatever the interleaving,
\* the crashes, the posts and the stale writes, every change of a call or a row
\* is one that the book allows in the state it is in.
THEOREM CallsImplementBook == Spec => ImplementsBook
  <1>1. Init => Book!BInit
    <2> SUFFICES ASSUME Init PROVE Book!BInit
      OBVIOUS
    <2>1. \A p \in Proposals, l \in Legs : order[p][l] = "none"
      BY DEF Init
    <2>2. Calls = [p \in Proposals |-> "unsold"]
      BY <2>1 DEF Calls, CallState, Legs
    <2>3. Back = {} /\ Blind = {}
      BY <2>1 DEF Init, Back, Blind, Bought, Legs, Proposals
    <2> QED BY <2>2, <2>3 DEF Init, Book!BInit, Book!Proposals, Proposals
  <1> QED BY <1>1, CoverHolds, CoverStays, CallsInvHolds, CallsInvStays, BookStep, PTL
          DEF Spec, ImplementsBook, Book!BSpec
=============================================================================
