------------------------ MODULE BullPutSpreadProofs ------------------------
(***************************************************************************)
(* The safety of a spread for any number of contracts, rungs, recoveries   *)
(* and closers.  The invariant follows the positions in the order in which *)
(* they may come into being: the short leg is sold only behind a filled    *)
(* long order, one rung at a time; a rollback is sent only when no rung of *)
(* the short leg can fill any more; an exit only when the short leg was    *)
(* sold, and the sale of the long leg only when it was bought back.  What  *)
(* makes each step safe is stable: an order that is filled or canceled     *)
(* stays so, and nobody creates the intent of a key whose time has passed. *)
(***************************************************************************)
EXTENDS BullPutSpread, WellFoundedInduction, TLAPS

EntryLegs == {"long_entry", "short_entry"}
Active == {"submit", "calling", "link", "await"}
EntryStatuses == {"entry_pending_long", "entry_pending_short", "entry_failed",
                  "rolled_back", "rollback_failed"}

LongHeld == \E n \in Attempts : order[<<"long_entry", n>>].state = "filled"
ShortSold == \E n \in Attempts : order[<<"short_entry", n>>].state = "filled"

\* Thread t works on an order of the leg.
AtLeg(t, leg) == at[t] # None /\ at[t][1] = leg

\* The order of the key has no part in any position, now or later.
Settled(k) ==
    \/ intent[k] \in {"none", "rejected"}
    \/ intent[k] = "persisted" /\ order[k].state = "canceled" /\ order[k].done = 0

OrderInv ==
    \A k \in Keys :
      /\ order[k].state = "none" => order[k].done = 0
      /\ order[k].state = "working" => order[k].done < Contracts
      /\ order[k].state = "filled" => order[k].done = Contracts
      /\ order[k].state # "none" => intent[k] \in {"open", "persisted"}
      /\ intent[k] = "persisted" => order[k].state # "none"

ThreadInv ==
    /\ \A t \in Threads :
         /\ pc[t] \in Active <=> at[t] # None
         /\ pc[t] = "calling" => intent[at[t]] # "none"
         /\ pc[t] \in {"link", "await"} => intent[at[t]] = "persisted"
         /\ at[t] # None /\ at[t][1] \in {"rollback", "long_exit"} => at[t][2] = 0
    /\ pc[Opener] # "decide"
    /\ at[Opener] # None => at[Opener][1] \in EntryLegs \cup {"rollback"}
    /\ \A t \in Closers : at[t] # None => at[t][1] \in {"short_exit", "long_exit"}

OnceInv ==
    \A n \in Attempts : n # 0 =>
      intent[<<"rollback", n>>] = "none" /\ intent[<<"long_exit", n>>] = "none"

RungInv ==
    \A f \in EntryLegs, r, n \in Attempts : at[Opener] = <<f, r>> =>
      /\ n # r => Settled(<<f, n>>)
      /\ n > r => intent[<<f, n>>] = "none"

FirstInv ==
    AtLeg(Opener, "long_entry") => \A n \in Attempts : intent[<<"short_entry", n>>] = "none"

UniqueInv ==
    \A f \in EntryLegs : ~AtLeg(Opener, f) =>
      \E r \in Attempts : \A n \in Attempts : n # r => Settled(<<f, n>>)

HedgeInv ==
    (AtLeg(Opener, "short_entry") \/ \E n \in Attempts : intent[<<"short_entry", n>>] # "none")
      => LongHeld

RollbackInv ==
    (AtLeg(Opener, "rollback") \/ \E n \in Attempts : intent[<<"rollback", n>>] # "none")
      => /\ \A n \in Attempts : Settled(<<"short_entry", n>>)
         /\ ~AtLeg(Opener, "short_entry")
         /\ ~AtLeg(Opener, "long_entry")

ExitInv ==
    /\ \A t \in Closers : pc[t] # "idle" => ShortSold
    /\ \A n \in Attempts : intent[<<"short_exit", n>>] # "none" => ShortSold
    /\ \A t \in Closers : AtLeg(t, "long_exit") => BoughtBack
    /\ \A n \in Attempts : intent[<<"long_exit", n>>] # "none" => BoughtBack

\* What a row with this status says of the orders.
Truthful(r) ==
    /\ r.status \notin EntryStatuses => ShortSold
    /\ r.status \in {"exit_pending_long", "closed"} => BoughtBack
    /\ r.status = "closed" => order[<<"long_exit", 0>>].state = "filled"
    /\ r.status = "rolled_back" => order[<<"rollback", 0>>].state = "filled"

PhaseInv ==
    row.status \in EntryStatuses =>
      /\ \A t \in Closers : pc[t] = "idle"
      /\ \A n \in Attempts : intent[<<"short_exit", n>>] = "none"

CopyInv ==
    /\ at[Opener] # None /\ fresh \cap {Opener, Entry} # {} =>
         row.status = IF at[Opener][1] = "long_entry" THEN "entry_pending_long"
                      ELSE "entry_pending_short"
    /\ \A t \in Closers \cap fresh : pc[t] # "idle" => row.status \notin Finished

ReplaceInv ==
    \A m, n \in Attempts :
      m < n /\ (intent[<<"short_exit", n>>] # "none" \/ \E t \in Closers : at[t] = <<"short_exit", n>>)
        => order[<<"short_exit", m>>].state = "canceled"

OrdersInv == OrderInv /\ ThreadInv /\ OnceInv
EntryInv == RungInv /\ FirstInv /\ UniqueInv /\ HedgeInv /\ RollbackInv
CloseInv == ExitInv /\ Truthful(row) /\ PhaseInv /\ CopyInv /\ ReplaceInv

SpreadInv == TypeOK /\ OrdersInv /\ EntryInv /\ CloseInv

-----------------------------------------------------------------------------
(* Facts about keys, snapshots and updates.                                *)

\* Keys are pairs of a leg and an attempt, and None is not one.
LEMMA KeyFacts ==
    /\ None \notin Keys
    /\ \A leg \in Legs, n \in Attempts : <<leg, n>> \in Keys
    /\ \A k \in Keys : k = <<k[1], k[2]>> /\ k[1] \in Legs /\ k[2] \in Attempts
    /\ \A f \in Fields : f \in Legs
    /\ Attempts \subseteq Nat /\ 0 \in Attempts
<1>1. Attempts \subseteq Nat /\ 0 \in Attempts
  BY SpreadConstants DEF Attempts
<1>3. None \notin Keys
  BY SpreadConstants
<1>4. \A leg \in Legs, n \in Attempts : <<leg, n>> \in Keys
  BY DEF Keys
<1>5. \A k \in Keys : k = <<k[1], k[2]>> /\ k[1] \in Legs /\ k[2] \in Attempts
  BY DEF Keys
<1>6. \A f \in Fields : f \in Legs
  BY DEF Legs
<1>7. QED  BY <1>1, <1>3, <1>4, <1>5, <1>6

\* What a snapshot says of a filled or dead order is true and stays true.
LEMMA SnapshotFacts ==
    ASSUME TypeOK, NEW k \in Keys, NEW s \in Snapshots(k)
    PROVE  /\ s \in [state : OrderStates, done : 0..Contracts]
           /\ s.state \in {"filled", "canceled", "none"} => s = order[k]
<1>1. order[k] \in [state : OrderStates, done : 0..Contracts]
  BY DEF TypeOK
<1>2. CASE s = order[k]
  BY <1>1, <1>2
<1>3. CASE s # order[k]
  <2>1. PICK q \in 0..order[k].done : s = [state |-> "working", done |-> q]
    BY <1>3 DEF Snapshots
  <2>2. q \in 0..Contracts
    BY <1>1, <2>1, SpreadConstants
  <2>3. QED  BY <2>1, <2>2 DEF OrderStates
<1>4. QED  BY <1>2, <1>3

\* What a thread has waited for is a snapshot of the order it works on, which
\* is persisted.
LEMMA AwaitedFacts ==
    ASSUME TypeOK, OrdersInv, NEW t \in Threads, NEW leg, NEW s \in Awaited(t, leg)
    PROVE  /\ pc[t] = "await" /\ AtLeg(t, leg) /\ at[t] \in Keys
           /\ intent[at[t]] = "persisted"
           /\ s \in Snapshots(at[t])
           /\ s.state \in {"filled", "canceled"} => s = order[at[t]]
           /\ s.state \in OrderStates /\ s.done \in 0..Contracts
<1>1. pc[t] = "await" /\ at[t][1] = leg /\ s \in Snapshots(at[t])
  BY DEF Awaited
<1>2. at[t] # None /\ intent[at[t]] = "persisted"
  BY <1>1 DEF OrdersInv, ThreadInv, Active
<1>3. at[t] \in Keys
  BY <1>2 DEF TypeOK
<1>4. QED  BY <1>1, <1>2, <1>3, SnapshotFacts DEF AtLeg

\* Threads, copies and legs are told apart.
LEMMA ThreadFacts ==
    /\ Opener \in Threads /\ Opener \notin Closers /\ Closers \subseteq Threads
    /\ \A t \in Threads : t # Opener => t \in Closers
    /\ Opener \in Copies /\ Entry \in Copies /\ Threads \subseteq Copies
BY SpreadConstants DEF Threads, Copies

-----------------------------------------------------------------------------
(* What a step does to the orders and to their intents.                    *)

OrderMove(k) ==
    \/ order'[k] = order[k]
    \/ /\ order[k].state = "none"
       /\ intent[k] = "open"
       /\ order'[k] = [state |-> "working", done |-> 0]
    \/ /\ order[k].state = "working"
       /\ order'[k] \in [state : {"working", "filled", "canceled"}, done : 0..Contracts]
       /\ order'[k].state = "working" => order'[k].done < Contracts
       /\ order'[k].state = "filled" => order'[k].done = Contracts

IntentMove(k) ==
    \/ intent'[k] = intent[k]
    \/ /\ intent[k] = "none" /\ intent'[k] = "open"
       /\ \E t \in Threads : pc[t] = "submit" /\ at[t] = k /\ at'[t] = k
    \/ /\ intent[k] \in {"open", "persisted"} /\ intent'[k] = "persisted"
       /\ order[k].state # "none" /\ order' = order
    \/ /\ intent[k] \in {"open", "rejected"} /\ intent'[k] = "rejected"
       /\ order[k].state = "none" /\ order' = order

Moves ==
    /\ order' \in [Keys -> [state : OrderStates, done : 0..Contracts]]
    /\ intent' \in [Keys -> {"none", "open", "persisted", "rejected"}]
    /\ order' = order \/ intent' = intent
    /\ \A k \in Keys : OrderMove(k) /\ IntentMove(k)

\* Steps that leave orders and intents alone.
LEMMA StillMoves ==
    ASSUME TypeOK, order' = order, intent' = intent
    PROVE  Moves
BY DEF Moves, OrderMove, IntentMove, TypeOK

\* The broker works on one order.
LEMMA BrokerMoves ==
    ASSUME TypeOK, OrdersInv, NEW k \in Keys, Broker(k)
    PROVE  Moves
<1>1. order[k] \in [state : OrderStates, done : 0..Contracts]
  BY DEF TypeOK
<1>2. order' \in [Keys -> [state : OrderStates, done : 0..Contracts]] /\ OrderMove(k)
  <2>1. CASE BrokerAccepts(k)
    <3>1. order[k].done = 0
      BY <2>1 DEF BrokerAccepts, OrdersInv, OrderInv
    <3>2. order' = [order EXCEPT ![k] = [state |-> "working", done |-> 0]]
      <4>1. [order[k] EXCEPT !.state = "working"] = [state |-> "working", done |-> 0]
        BY <1>1, <3>1
      <4>2. order' = [order EXCEPT ![k] = [order[k] EXCEPT !.state = "working"]]
        BY <2>1 DEF BrokerAccepts
      <4>3. QED  BY <4>1, <4>2
    <3>3. QED  BY <2>1, <3>2, SpreadConstants DEF BrokerAccepts, TypeOK, OrderMove, OrderStates
  <2>2. CASE BrokerFills(k)
    <3>1. order[k].done < Contracts
      BY <2>2 DEF BrokerFills, OrdersInv, OrderInv
    <3> DEFINE new == [state |-> IF order[k].done + 1 = Contracts THEN "filled" ELSE "working",
                       done |-> order[k].done + 1]
    <3>2. order' = [order EXCEPT ![k] = new]
      BY <2>2 DEF BrokerFills
    <3>3. new \in [state : {"working", "filled"}, done : 0..Contracts]
      BY <1>1, <3>1, SpreadConstants
    <3>4. new.state = "working" => new.done < Contracts
      BY <1>1, <3>1, SpreadConstants
    <3>5. new.state = "filled" => new.done = Contracts
      OBVIOUS
    <3>6. order'[k] = new /\ order' \in [Keys -> [state : OrderStates, done : 0..Contracts]]
      BY <3>2, <3>3 DEF TypeOK, OrderStates
    <3> HIDE DEF new
    <3>7. QED  BY <2>2, <3>3, <3>4, <3>5, <3>6 DEF BrokerFills, OrderMove
  <2>3. CASE BrokerCancels(k)
    <3>1. order' = [order EXCEPT ![k] = [state |-> "canceled", done |-> order[k].done]]
      <4>1. [order[k] EXCEPT !.state = "canceled"] = [state |-> "canceled", done |-> order[k].done]
        BY <1>1
      <4>2. order' = [order EXCEPT ![k] = [order[k] EXCEPT !.state = "canceled"]]
        BY <2>3 DEF BrokerCancels
      <4>3. QED  BY <4>1, <4>2
    <3>2. QED  BY <2>3, <1>1, <3>1 DEF BrokerCancels, TypeOK, OrderMove, OrderStates
  <2>4. QED  BY <2>1, <2>2, <2>3 DEF Broker
<1>3. intent' = intent
  BY DEF Broker, BrokerAccepts, BrokerFills, BrokerCancels
<1>4. \A j \in Keys : j # k => order'[j] = order[j]
  BY DEF Broker, BrokerAccepts, BrokerFills, BrokerCancels, TypeOK
<1>5. QED  BY <1>2, <1>3, <1>4 DEF Moves, OrderMove, IntentMove, TypeOK

\* One intent changes and the orders do not.
LEMMA IntentMoves ==
    ASSUME TypeOK, order' = order, NEW k \in Keys,
           NEW new \in {"none", "open", "persisted", "rejected"},
           intent' = [intent EXCEPT ![k] = new], IntentMove(k)
    PROVE  Moves
<1>1. \A j \in Keys : j # k => intent'[j] = intent[j]
  BY DEF TypeOK
<1>2. QED  BY <1>1 DEF Moves, OrderMove, IntentMove, TypeOK

\* The submission of an order.
LEMMA SubmitMoves ==
    ASSUME TypeOK, OrdersInv, NEW t \in Threads, SubmitStep(t)
    PROVE  Moves
<1>1. CASE SubmitNew(t)
  <2>1. at[t] \in Keys
    BY <1>1 DEF SubmitNew, OrdersInv, ThreadInv, Active, TypeOK
  <2>2. IntentMove(at[t])
    BY <1>1, <2>1 DEF SubmitNew, IntentMove, TypeOK
  <2>3. QED  BY <1>1, <2>1, <2>2, IntentMoves DEF SubmitNew
<1>2. CASE CallReturns(t)
  <2>1. at[t] \in Keys /\ intent[at[t]] # "none"
    BY <1>2 DEF CallReturns, OrdersInv, ThreadInv, Active, TypeOK
  <2>2. order' = order
    BY <1>2 DEF CallReturns
  <2>3. CASE intent' = intent
    BY <2>2, <2>3, StillMoves
  <2>4. CASE order[at[t]].state # "none" /\ intent' = [intent EXCEPT ![at[t]] = "persisted"]
    <3>1. IntentMove(at[t])
      BY <2>1, <2>2, <2>4 DEF IntentMove, OrdersInv, OrderInv, TypeOK
    <3>2. QED  BY <2>1, <2>2, <2>4, <3>1, IntentMoves
  <2>5. CASE order[at[t]].state = "none" /\ intent' = [intent EXCEPT ![at[t]] = "rejected"]
    <3>1. IntentMove(at[t])
      BY <2>1, <2>2, <2>5 DEF IntentMove, OrdersInv, OrderInv, TypeOK
    <3>2. QED  BY <2>1, <2>2, <2>5, <3>1, IntentMoves
  <2>6. QED  BY <1>2, <2>3, <2>4, <2>5 DEF CallReturns
<1>3. CASE SubmitReplay(t) \/ LinkOrder(t)
  BY <1>3, StillMoves DEF SubmitReplay, LinkOrder
<1>4. QED  BY <1>1, <1>2, <1>3 DEF SubmitStep

\* Every step moves orders and intents this way.
LEMMA StepMoves ==
    ASSUME TypeOK, OrdersInv, Next
    PROVE  Moves
<1>1. ASSUME NEW k \in Keys, Broker(k)  PROVE Moves
  BY <1>1, BrokerMoves
<1>2. ASSUME NEW k \in Keys, Reconcile(k)  PROVE Moves
  <2>1. IntentMove(k)
    BY <1>2 DEF Reconcile, IntentMove, TypeOK
  <2>2. QED  BY <1>2, <2>1, IntentMoves DEF Reconcile
<1>3. ASSUME NEW k \in Keys, ResolveNoOrder(k)  PROVE Moves
  <2>1. IntentMove(k)
    BY <1>3 DEF ResolveNoOrder, IntentMove, TypeOK
  <2>2. QED  BY <1>3, <2>1, IntentMoves DEF ResolveNoOrder
<1>4. ASSUME NEW k \in Keys, Relink(k)  PROVE Moves
  BY <1>4, StillMoves DEF Relink
<1>5. CASE RefreshSpread \/ Crash
  BY <1>5, StillMoves DEF RefreshSpread, Crash
<1>6. CASE OpenerStep
  <2>1. CASE SubmitStep(Opener)
    BY <2>1, SubmitMoves, ThreadFacts
  <2>2. CASE LongEntryFilled \/ ShortEntryFilled \/ EntryUnclear \/ NextRung
    BY <2>2, StillMoves DEF LongEntryFilled, ShortEntryFilled, EntryUnclear, NextRung
  <2>3. CASE LongEntryUnfilled \/ ShortEntryUnfilled \/ RollbackEnds
    BY <2>3, StillMoves DEF LongEntryUnfilled, ShortEntryUnfilled, RollbackEnds
  <2>4. QED  BY <1>6, <2>1, <2>2, <2>3 DEF OpenerStep
<1>7. ASSUME NEW t \in Closers, CloserStep(t)  PROVE Moves
  <2>1. CASE SubmitStep(t)
    BY <2>1, SubmitMoves, ThreadFacts
  <2>2. CASE MonitorSpread(t) \/ DecideExit(t) \/ RecoverClose(t)
    BY <2>2, StillMoves DEF MonitorSpread, DecideExit, RecoverClose
  <2>3. CASE ShortExitFilled(t) \/ ShortExitUnfilled(t) \/ ShortExitUnclear(t)
    BY <2>3, StillMoves DEF ShortExitFilled, ShortExitUnfilled, ShortExitUnclear
  <2>4. CASE LongExitEnds(t) \/ GivesUp(t)
    BY <2>4, StillMoves DEF LongExitEnds, GivesUp
  <2>5. QED  BY <1>7, <2>1, <2>2, <2>3, <2>4 DEF CloserStep
<1>8. QED  BY <1>1, <1>2, <1>3, <1>4, <1>5, <1>6, <1>7 DEF Next

-----------------------------------------------------------------------------
(* What such a step keeps.                                                 *)

\* Filled and canceled orders stay as they are, an intent once created stays,
\* and a persisted one stays persisted.
LEMMA OrdersStay ==
    ASSUME Moves, NEW k \in Keys
    PROVE  /\ order[k].state \in {"filled", "canceled"} => order'[k] = order[k]
           /\ intent[k] # "none" => intent'[k] # "none"
           /\ intent[k] = "persisted" => intent'[k] = "persisted"
<1>1. OrderMove(k) /\ IntentMove(k)
  BY DEF Moves
<1>2. QED  BY <1>1 DEF OrderMove, IntentMove

\* So the positions that guards rest on stay.
LEMMA PositionsStay ==
    ASSUME Moves
    PROVE  /\ LongHeld => LongHeld'
           /\ ShortSold => ShortSold'
           /\ BoughtBack => BoughtBack'
<1>1. \A leg \in Legs, n \in Attempts :
        order[<<leg, n>>].state = "filled" => order'[<<leg, n>>].state = "filled"
  BY OrdersStay, KeyFacts
<1>2. "long_entry" \in Legs /\ "short_entry" \in Legs /\ "short_exit" \in Legs
  BY DEF Legs, Fields
<1>3. QED  BY <1>1, <1>2 DEF LongHeld, ShortSold, BoughtBack

\* A settled order stays settled, and an intent that does not exist is not
\* created, while no thread works on the key.
LEMMA SettledStays ==
    ASSUME Moves, NEW k \in Keys, \A t \in Threads : at[t] # k
    PROVE  /\ Settled(k) => Settled(k)'
           /\ intent[k] = "none" => intent'[k] = "none"
<1>1. OrderMove(k) /\ IntentMove(k)
  BY DEF Moves
<1>2. QED  BY <1>1 DEF OrderMove, IntentMove, Settled

\* The same of an order that is canceled without a fill or refused.
LEMMA DeadStays ==
    ASSUME Moves, NEW k \in Keys, Settled(k), intent[k] # "none"
    PROVE  Settled(k)'
<1>1. OrderMove(k) /\ IntentMove(k)
  BY DEF Moves
<1>2. QED  BY <1>1 DEF OrderMove, IntentMove, Settled

\* The invariant of the orders is kept.
LEMMA OrderInvStays ==
    ASSUME TypeOK, OrderInv, Moves
    PROVE  OrderInv'
<1>1. SUFFICES ASSUME NEW k \in Keys
               PROVE  /\ order'[k].state = "none" => order'[k].done = 0
                      /\ order'[k].state = "working" => order'[k].done < Contracts
                      /\ order'[k].state = "filled" => order'[k].done = Contracts
                      /\ order'[k].state # "none" => intent'[k] \in {"open", "persisted"}
                      /\ intent'[k] = "persisted" => order'[k].state # "none"
  BY DEF OrderInv
<1>2. OrderMove(k) /\ IntentMove(k) /\ (order' = order \/ intent' = intent)
  BY DEF Moves
<1>3. /\ order[k].state = "none" => order[k].done = 0
      /\ order[k].state = "working" => order[k].done < Contracts
      /\ order[k].state = "filled" => order[k].done = Contracts
      /\ order[k].state # "none" => intent[k] \in {"open", "persisted"}
      /\ intent[k] = "persisted" => order[k].state # "none"
  BY DEF OrderInv
<1>4. CASE intent' = intent
  BY <1>2, <1>3, <1>4, SpreadConstants DEF OrderMove
<1>5. CASE order' = order
  BY <1>2, <1>3, <1>5 DEF IntentMove
<1>6. QED  BY <1>2, <1>4, <1>5

-----------------------------------------------------------------------------
(* What a step does to the row.                                            *)

RowType(r) ==
    /\ r \in [status : Statuses, link : [Fields -> Keys \cup {None}],
              warn : Warnings, close : BOOLEAN]
    /\ \A f \in Fields : r.link[f] = None \/ r.link[f][1] = f
                           \/ (f = "long_exit" /\ r.link[f][1] = "rollback")

\* The new row says what is true, a spread that was opened stays so, and a
\* finished one stays finished.
RowMove ==
    /\ RowType(row')
    /\ Truthful(row')
    /\ row.status \notin EntryStatuses => row'.status \notin EntryStatuses
    /\ row.status \in Finished => row'.status = row.status

\* Rows that differ in the status, in the warning or in should_close.
LEMMA RowTypeFacts ==
    ASSUME RowType(row)
    PROVE  /\ \A st \in Statuses :
                RowType([row EXCEPT !.status = st]) /\ [row EXCEPT !.status = st].status = st
           /\ \A st \in Statuses, w \in Warnings :
                /\ RowType([row EXCEPT !.status = st, !.warn = w])
                /\ [row EXCEPT !.status = st, !.warn = w].status = st
           /\ \A b \in BOOLEAN :
                RowType([row EXCEPT !.close = b]) /\ [row EXCEPT !.close = b].status = row.status
           /\ \A st \in Statuses, w \in Warnings, b \in BOOLEAN :
                /\ RowType([row EXCEPT !.status = st, !.warn = w, !.close = b])
                /\ [row EXCEPT !.status = st, !.warn = w, !.close = b].status = st
           /\ \A w \in Warnings :
                RowType([row EXCEPT !.warn = w]) /\ [row EXCEPT !.warn = w].status = row.status
<1>1. ASSUME NEW st \in Statuses
      PROVE  RowType([row EXCEPT !.status = st]) /\ [row EXCEPT !.status = st].status = st
  BY DEF RowType
<1>2. ASSUME NEW st \in Statuses, NEW w \in Warnings
      PROVE  /\ RowType([row EXCEPT !.status = st, !.warn = w])
             /\ [row EXCEPT !.status = st, !.warn = w].status = st
  BY DEF RowType
<1>3. ASSUME NEW b \in BOOLEAN
      PROVE  RowType([row EXCEPT !.close = b]) /\ [row EXCEPT !.close = b].status = row.status
  BY DEF RowType
<1>4. ASSUME NEW st \in Statuses, NEW w \in Warnings, NEW b \in BOOLEAN
      PROVE  /\ RowType([row EXCEPT !.status = st, !.warn = w, !.close = b])
             /\ [row EXCEPT !.status = st, !.warn = w, !.close = b].status = st
  BY DEF RowType
<1>5. ASSUME NEW w \in Warnings
      PROVE  RowType([row EXCEPT !.warn = w]) /\ [row EXCEPT !.warn = w].status = row.status
  BY DEF RowType
<1>6. QED  BY <1>1, <1>2, <1>3, <1>4, <1>5

\* A linked order goes to the column of its leg.
LEMMA LinkTypeFacts ==
    ASSUME RowType(row), NEW k \in Keys
    PROVE  /\ RowType([row EXCEPT !.link[Field(k)] = k])
           /\ RowType(Linked(k))
           /\ Linked(k).status = IF k[1] = "short_exit" THEN "exit_pending_short"
                                 ELSE IF k[1] = "long_exit" THEN "exit_pending_long"
                                 ELSE row.status
<1> DEFINE link == [row.link EXCEPT ![Field(k)] = k]
           st == IF k[1] = "short_exit" THEN "exit_pending_short"
                 ELSE IF k[1] = "long_exit" THEN "exit_pending_long"
                 ELSE row.status
<1>1. Field(k) \in Fields /\ (k[1] = Field(k) \/ (Field(k) = "long_exit" /\ k[1] = "rollback"))
  BY KeyFacts DEF Field, Fields, Legs
<1>2. link \in [Fields -> Keys \cup {None}]
  BY <1>1 DEF RowType
<1>3. \A f \in Fields : link[f] = None \/ link[f][1] = f
                          \/ (f = "long_exit" /\ link[f][1] = "rollback")
  BY <1>1 DEF RowType
<1>4. st \in Statuses
  BY DEF RowType, Statuses
<1>5. [row EXCEPT !.link[Field(k)] = k] = [row EXCEPT !.link = link]
  OBVIOUS
<1>6. Linked(k) = [row EXCEPT !.link = link, !.status = st]
  BY DEF Linked
<1> HIDE DEF link, st
<1>7. RowType([row EXCEPT !.link = link])
  BY <1>2, <1>3 DEF RowType
<1>8. /\ RowType([row EXCEPT !.link = link, !.status = st])
      /\ [row EXCEPT !.link = link, !.status = st].status = st
  BY <1>2, <1>3, <1>4 DEF RowType
<1>9. QED  BY <1>5, <1>6, <1>7, <1>8 DEF st

\* An update is made from a fresh copy, which is then the only one, or raises
\* and changes nothing.
LEMMA UpdateFacts ==
    ASSUME NEW c, NEW new, TryUpdate(c, new)
    PROVE  \/ c \in fresh /\ row' = new /\ fresh' = {c}
           \/ c \notin fresh /\ row' = row /\ fresh' = fresh
BY DEF TryUpdate, Update, UpdateRaises

\* What the snapshot of a linked order tells: a filled one is the order.
LEMMA LinkedFacts ==
    ASSUME TypeOK, NEW f \in Fields, NEW s \in LinkedSnapshots(f), s.state = "filled"
    PROVE  /\ row.link[f] \in Keys
           /\ row.link[f][1] = f \/ (f = "long_exit" /\ row.link[f][1] = "rollback")
           /\ order[row.link[f]].state = "filled"
<1>1. row.link[f] # None
  BY DEF LinkedSnapshots, NoOrder
<1>2. row.link[f] \in Keys
  BY <1>1 DEF TypeOK
<1>3. s = order[row.link[f]]
  BY <1>1, <1>2, SnapshotFacts DEF LinkedSnapshots
<1>4. QED  BY <1>1, <1>2, <1>3 DEF TypeOK

\* A filled order in the column of the exit of the long leg is the rollback,
\* and then the short leg was never sold, or it is the exit, and then the
\* short leg was bought back.
LEMMA LongExitFacts ==
    ASSUME TypeOK, OrdersInv, EntryInv, CloseInv,
           NEW s \in LinkedSnapshots("long_exit"), s.state = "filled"
    PROVE  \/ order[<<"rollback", 0>>].state = "filled" /\ ~ShortSold
           \/ order[<<"long_exit", 0>>].state = "filled" /\ BoughtBack /\ ShortSold
<1> DEFINE k == row.link["long_exit"]
<1>1. k \in Keys /\ k[1] \in {"long_exit", "rollback"} /\ order[k].state = "filled"
  BY LinkedFacts DEF Fields
<1>2. k = <<k[1], k[2]>> /\ k[2] \in Attempts
  BY <1>1, KeyFacts
<1>3. intent[k] # "none"
  BY <1>1 DEF OrdersInv, OrderInv
<1> HIDE DEF k
<1>4. CASE k[1] = "rollback"
  <2>1. k = <<"rollback", 0>>
    BY <1>2, <1>3, <1>4 DEF OrdersInv, OnceInv
  <2>2. \A n \in Attempts : Settled(<<"short_entry", n>>)
    BY <1>2, <1>3, <1>4 DEF EntryInv, RollbackInv
  <2>3. ~ShortSold
    <3>1. \A n \in Attempts : <<"short_entry", n>> \in Keys
      BY KeyFacts DEF Legs, Fields
    <3>2. QED  BY <2>2, <3>1 DEF ShortSold, Settled, OrdersInv, OrderInv
  <2>4. QED  BY <1>1, <2>1, <2>3
<1>5. CASE k[1] = "long_exit"
  <2>1. k = <<"long_exit", 0>>
    BY <1>2, <1>3, <1>5 DEF OrdersInv, OnceInv
  <2>2. BoughtBack
    BY <1>2, <1>3, <1>5 DEF CloseInv, ExitInv
  <2>3. ShortSold
    <3>1. PICK n \in Attempts : order[<<"short_exit", n>>].state = "filled"
      BY <2>2 DEF BoughtBack
    <3>2. <<"short_exit", n>> \in Keys
      BY KeyFacts DEF Legs, Fields
    <3>3. QED  BY <3>1, <3>2 DEF OrdersInv, OrderInv, CloseInv, ExitInv
  <2>4. QED  BY <1>1, <2>1, <2>2, <2>3
<1>6. QED  BY <1>1, <1>4, <1>5

\* A spread that still counts as an entry has no exit.
LEMMA EntryHasNoExit ==
    ASSUME TypeOK, OrdersInv, CloseInv, row.status \in EntryStatuses
    PROVE  ~BoughtBack
<1>1. \A n \in Attempts : intent[<<"short_exit", n>>] = "none" /\ <<"short_exit", n>> \in Keys
  BY KeyFacts DEF CloseInv, PhaseInv, Legs, Fields
<1>2. QED  BY <1>1 DEF BoughtBack, OrdersInv, OrderInv

\* A refresh moves the row as the orders say.
LEMMA RefreshMovesRow ==
    ASSUME TypeOK, OrdersInv, EntryInv, CloseInv, row' \in RefreshedRows
    PROVE  /\ RowMove
           /\ row'.link = row.link
<1>1. PICK s \in LinkedStates : row' = Refreshed(s)
  BY DEF RefreshedRows
<1> DEFINE le == s.long_entry
           se == s.short_entry
           sx == s.short_exit
           lx == s.long_exit
           next == Transition(row.status, s)
           warn == Warning(next.status, sx, next.manual)
<1>2. row' = [row EXCEPT !.status = next.status, !.warn = warn]
  BY <1>1 DEF Refreshed
<1>3. row.status \in Statuses
  BY DEF TypeOK
<1>4. /\ le \in LinkedSnapshots("long_entry") /\ se \in LinkedSnapshots("short_entry")
      /\ sx \in LinkedSnapshots("short_exit") /\ lx \in LinkedSnapshots("long_exit")
  BY DEF LinkedStates
<1>5. /\ next.status \in Statuses
      /\ next.status = "open" => \/ row.status = "open"
                                 \/ row.status = "exit_pending_short"
                                 \/ row.status = "entry_pending_short" /\ se.state = "filled"
      /\ next.status = "exit_pending_short" => row.status = "exit_pending_short"
      /\ next.status = "exit_pending_long" =>
           row.status = "exit_pending_long" \/ (row.status = "exit_pending_short" /\ sx.state = "filled")
      /\ next.status = "closed" =>
           row.status = "closed" \/ (row.status = "exit_pending_long" /\ lx.state = "filled")
      /\ next.status = "rolled_back" =>
           \/ row.status = "rolled_back"
           \/ row.status \in {"entry_pending_short", "rollback_failed"} /\ lx.state = "filled"
      /\ row.status \in Finished => next.status = row.status
      /\ row.status \notin EntryStatuses => next.status \notin EntryStatuses
  BY <1>3 DEF Transition, Filled, Dead, Statuses, Finished, EntryStatuses
<1>6. warn \in Warnings
  <2>1. row.warn \in Warnings
    BY DEF TypeOK
  <2>2. QED  BY <2>1 DEF Warning, Warnings
<1> HIDE DEF next, warn, le, se, sx, lx
<1>7. RowType(row)
  BY DEF TypeOK, RowType
<1>8. RowType(row')
  BY <1>2, <1>5, <1>6, <1>7, RowTypeFacts
<1>9. row'.status = next.status /\ row'.link = row.link
  BY <1>2, <1>7 DEF RowType
<1>10. next.status \notin EntryStatuses => ShortSold
  <2>1. CASE row.status \notin EntryStatuses
    BY <2>1 DEF CloseInv, Truthful
  <2>2. CASE row.status \in EntryStatuses /\ se.state = "filled"
    <3>1. PICK k \in Keys : k[1] = "short_entry" /\ order[k].state = "filled"
      BY <1>4, <2>2, LinkedFacts DEF Fields
    <3>2. QED  BY <3>1, KeyFacts DEF ShortSold
  <2>3. QED  BY <1>5, <2>1, <2>2 DEF EntryStatuses, Statuses
<1>11. next.status \in {"exit_pending_long", "closed"} => BoughtBack
  <2>1. CASE row.status \in {"exit_pending_long", "closed"}
    BY <2>1 DEF CloseInv, Truthful
  <2>2. CASE sx.state = "filled"
    <3>1. PICK k \in Keys : k[1] = "short_exit" /\ order[k].state = "filled"
      BY <1>4, <2>2, LinkedFacts DEF Fields
    <3>2. QED  BY <3>1, KeyFacts DEF BoughtBack
  <2>3. QED  BY <1>5, <2>1, <2>2
<1>12. next.status = "closed" => order[<<"long_exit", 0>>].state = "filled"
  <2>1. CASE row.status = "closed"
    BY <2>1 DEF CloseInv, Truthful
  <2>2. CASE row.status = "exit_pending_long" /\ lx.state = "filled"
    <3>1. ShortSold
      BY <2>2 DEF CloseInv, Truthful, EntryStatuses
    <3>2. QED  BY <1>4, <2>2, <3>1, LongExitFacts
  <2>3. QED  BY <1>5, <2>1, <2>2
<1>13. next.status = "rolled_back" => order[<<"rollback", 0>>].state = "filled"
  <2>1. CASE row.status = "rolled_back"
    BY <2>1 DEF CloseInv, Truthful
  <2>2. CASE row.status \in {"entry_pending_short", "rollback_failed"} /\ lx.state = "filled"
    BY <1>4, <2>2, LongExitFacts, EntryHasNoExit DEF EntryStatuses
  <2>3. QED  BY <1>5, <2>1, <2>2
<1>14. Truthful(row')
  BY <1>9, <1>10, <1>11, <1>12, <1>13 DEF Truthful
<1>15. QED  BY <1>5, <1>8, <1>9, <1>14 DEF RowMove

-----------------------------------------------------------------------------
(* The row and the copies of it.                                           *)

RowAndCopies == RowMove /\ CopyInv'

\* A row that keeps its status.
LEMMA SameStatus ==
    ASSUME RowType(row'), CloseInv, row'.status = row.status
    PROVE  RowMove
BY DEF RowMove, CloseInv, Truthful

\* The row of an entry may go to any status of an entry that is not rolled
\* back.
LEMMA EntryStatus ==
    ASSUME RowType(row'), row.status \in EntryStatuses \ Finished,
           row'.status \in EntryStatuses \ {"rolled_back"}
    PROVE  RowMove
BY DEF RowMove, Truthful, EntryStatuses

\* The row stays, and no thread begins.
LEMMA NothingWritten ==
    ASSUME TypeOK, CloseInv, row' = row, fresh' \subseteq fresh,
           \/ at'[Opener] = None
           \/ /\ at[Opener] # None
              /\ at'[Opener][1] = "long_entry" <=> at[Opener][1] = "long_entry",
           \A t \in Closers : pc'[t] # "idle" => pc[t] # "idle"
    PROVE  RowAndCopies
<1>1. RowType(row')
  BY DEF TypeOK, RowType
<1>2. CopyInv'
  BY DEF CloseInv, CopyInv
<1>3. QED  BY <1>1, <1>2, SameStatus DEF RowAndCopies

\* The opener writes for the last time.
LEMMA OpenerWrites ==
    ASSUME RowMove, fresh' \subseteq {Opener, Entry}, at'[Opener] = None
    PROVE  RowAndCopies
BY SpreadConstants DEF RowAndCopies, CopyInv

\* A closer writes.
LEMMA CloserWrites ==
    ASSUME RowMove, NEW t \in Closers, fresh' \subseteq {t},
           pc'[t] = "idle" \/ row'.status \notin Finished
    PROVE  RowAndCopies
BY SpreadConstants DEF RowAndCopies, CopyInv

\* A fresh copy of the opener is the row of an entry.
LEMMA OpenerCopyFacts ==
    ASSUME CloseInv, at[Opener] # None, fresh \cap {Opener, Entry} # {}
    PROVE  /\ row.status \in EntryStatuses \ Finished
           /\ row.status = IF at[Opener][1] = "long_entry" THEN "entry_pending_long"
                           ELSE "entry_pending_short"
BY DEF CloseInv, CopyInv, EntryStatuses, Finished

\* A submission that raises.
LEMMA RaisesRow ==
    ASSUME TypeOK, OrdersInv, CloseInv, NEW t \in Threads, at[t] # None, SubmitRaises(t)
    PROVE  RowAndCopies
<1>1. RowType(row)
  BY DEF TypeOK, RowType
<1>2. CASE t # Opener
  <2>1. row' = row /\ fresh' = fresh /\ at' = [at EXCEPT ![t] = None] /\ pc' = [pc EXCEPT ![t] = "idle"]
    BY <1>2 DEF SubmitRaises, Rest, GotoLeg, Goto
  <2>2. at'[Opener] = at[Opener] /\ \A u \in Closers : pc'[u] # "idle" => pc[u] # "idle"
    BY <1>2, <2>1, ThreadFacts DEF TypeOK
  <2>3. at'[Opener] = None \/ at[Opener] # None
    BY <2>2
  <2>4. QED  BY <2>1, <2>2, <2>3, NothingWritten
<1>3. CASE t = Opener
  <2>1. at' = [at EXCEPT ![Opener] = None] /\ pc' = [pc EXCEPT ![Opener] = "stopped"]
    BY <1>3 DEF SubmitRaises, Stop, GotoLeg, Goto
  <2>2. at'[Opener] = None /\ \A u \in Closers : pc'[u] = pc[u]
    BY <2>1, ThreadFacts DEF TypeOK
  <2>3. CASE row' = row /\ fresh' = fresh
    BY <2>2, <2>3, NothingWritten
  <2>4. CASE Opener \in fresh /\ row' = Marked(WithStatus("rollback_failed")) /\ fresh' = {Opener}
    <3> DEFINE r == [row EXCEPT !.status = "rollback_failed", !.warn = "review"]
    <3>1. row' = r
      BY <2>4 DEF Marked, WithStatus
    <3>2. RowType(row') /\ row'.status = "rollback_failed"
      <4>1. "rollback_failed" \in Statuses /\ "review" \in Warnings
        BY DEF Statuses, Warnings
      <4>2. RowType(r) /\ r.status = "rollback_failed"
        BY <1>1, <4>1, RowTypeFacts
      <4>3. QED  BY <3>1, <4>2
    <3>3. RowMove
      BY <1>3, <2>4, <3>2, EntryStatus, OpenerCopyFacts DEF EntryStatuses
    <3>4. QED  BY <2>2, <2>4, <3>3, OpenerWrites
  <2>5. CASE Entry \in fresh /\ row' = Marked(row) /\ fresh' = {Entry}
    <3>1. RowType(row') /\ row'.status = row.status
      BY <1>1, <2>5, RowTypeFacts DEF Marked, Warnings
    <3>2. QED  BY <2>2, <2>5, <3>1, SameStatus, OpenerWrites
  <2>6. QED  BY <1>3, <2>3, <2>4, <2>5, UpdateFacts DEF SubmitRaises
<1>4. QED  BY <1>2, <1>3

\* A submission that is refused.
LEMMA RefusedRow ==
    ASSUME TypeOK, OrdersInv, CloseInv, NEW t \in Threads, at[t] # None, SubmitRefused(t)
    PROVE  RowAndCopies
<1>1. RowType(row)
  BY DEF TypeOK, RowType
<1>2. CASE SubmitRaises(t)
  BY <1>2, RaisesRow
<1>3. CASE /\ t = Opener
           /\ at[t][1] = "long_entry"
           /\ TryUpdate(Entry, WithStatus("entry_failed"))
           /\ IF Entry \in fresh THEN Rest(t) ELSE Stop(t)
  <2>1. at'[Opener] = None /\ \A u \in Closers : pc'[u] = pc[u]
    BY <1>3, ThreadFacts DEF TypeOK, Rest, Stop, GotoLeg, Goto
  <2>2. CASE row' = row /\ fresh' = fresh
    BY <2>1, <2>2, NothingWritten
  <2>3. CASE Entry \in fresh /\ row' = WithStatus("entry_failed") /\ fresh' = {Entry}
    <3>1. RowType(row') /\ row'.status = "entry_failed"
      BY <1>1, <2>3, RowTypeFacts DEF WithStatus, Statuses
    <3>2. RowMove
      BY <1>3, <2>3, <3>1, EntryStatus, OpenerCopyFacts DEF EntryStatuses
    <3>3. QED  BY <2>1, <2>3, <3>2, OpenerWrites
  <2>4. QED  BY <1>3, <2>2, <2>3, UpdateFacts
<1>4. CASE /\ t = Opener
           /\ at[t][1] = "short_entry"
           /\ GotoLeg(t, "submit", <<"rollback", 0>>)
           /\ fresh' = (IF Entry \in fresh THEN fresh ELSE fresh \ {Opener})
           /\ row' = row
  <2>1. at'[Opener] = <<"rollback", 0>> /\ \A u \in Closers : pc'[u] = pc[u]
    BY <1>4, ThreadFacts DEF TypeOK, GotoLeg, Goto
  <2>2. fresh' \subseteq fresh /\ at'[Opener][1] # "long_entry"
    BY <1>4, <2>1
  <2>3. QED  BY <1>4, <2>1, <2>2, NothingWritten
<1>5. QED  BY <1>2, <1>3, <1>4 DEF SubmitRefused

\* The steps of a submission.
LEMMA SubmitRow ==
    ASSUME TypeOK, OrdersInv, EntryInv, CloseInv, NEW t \in Threads, SubmitStep(t)
    PROVE  RowAndCopies
<1>1. RowType(row)
  BY DEF TypeOK, RowType
<1>2. pc[t] \in Active /\ at[t] # None /\ at[t] \in Keys
  <2>1. pc[t] \in Active
    BY DEF SubmitStep, SubmitNew, SubmitReplay, CallReturns, LinkOrder, Active
  <2>2. QED  BY <2>1 DEF OrdersInv, ThreadInv, TypeOK
<1>3. ASSUME row' = row, fresh' = fresh, at' = at, NEW x, pc' = [pc EXCEPT ![t] = x]
      PROVE  RowAndCopies
  <2>1. \A u \in Closers : pc'[u] # "idle" => pc[u] # "idle"
    BY <1>2, <1>3, ThreadFacts DEF TypeOK, Active
  <2>2. at'[Opener] = None \/ at[Opener] # None
    BY <1>3
  <2>3. QED  BY <1>3, <2>1, <2>2, NothingWritten
<1>4. CASE SubmitNew(t)
  BY <1>3, <1>4 DEF SubmitNew, Goto
<1>5. CASE SubmitReplay(t)
  <2>1. CASE Goto(t, "link") /\ UNCHANGED <<row, fresh, at>>
    BY <1>3, <2>1 DEF Goto
  <2>2. QED  BY <1>2, <1>5, <2>1, RaisesRow, RefusedRow DEF SubmitReplay
<1>6. CASE CallReturns(t)
  <2>1. CASE Goto(t, "link") /\ UNCHANGED <<row, fresh, at>>
    BY <1>3, <2>1 DEF Goto
  <2>2. QED  BY <1>2, <1>6, <2>1, RaisesRow, RefusedRow DEF CallReturns
<1>7. CASE LinkOrder(t)
  <2> DEFINE k == at[t]
  <2>1. CASE Update(t, Linked(k)) /\ Goto(t, "await") /\ UNCHANGED at
    <3>1. t \in fresh /\ row' = Linked(k) /\ fresh' = {t} /\ at' = at /\ pc' = [pc EXCEPT ![t] = "await"]
      BY <2>1 DEF Update, Goto
    <3>2. RowType(row') /\ row'.status = IF k[1] = "short_exit" THEN "exit_pending_short"
                                         ELSE IF k[1] = "long_exit" THEN "exit_pending_long"
                                         ELSE row.status
      BY <1>1, <1>2, <3>1, LinkTypeFacts
    <3>3. CASE t = Opener
      <4>1. row'.status = row.status
        BY <1>2, <3>2, <3>3 DEF OrdersInv, ThreadInv, EntryLegs
      <4>2. RowMove
        BY <3>2, <4>1, SameStatus
      <4>3. CopyInv'
        <5>1. at'[Opener] = at[Opener] /\ fresh' \cap Closers = {}
          BY <3>1, <3>3, SpreadConstants
        <5>2. QED  BY <1>2, <3>1, <3>3, <4>1, <5>1, OpenerCopyFacts DEF CopyInv
      <4>4. QED  BY <4>2, <4>3 DEF RowAndCopies
    <3>4. CASE t # Opener
      <4>1. t \in Closers
        BY <3>4, ThreadFacts
      <4>2. row'.status = IF k[1] = "short_exit" THEN "exit_pending_short" ELSE "exit_pending_long"
        BY <1>2, <3>2, <4>1 DEF OrdersInv, ThreadInv
      <4>3. ShortSold /\ (k[1] = "long_exit" => BoughtBack)
        BY <1>2, <4>1 DEF CloseInv, ExitInv, AtLeg, Active
      <4>4. row.status \notin Finished
        BY <1>2, <3>1, <4>1 DEF CloseInv, CopyInv, Active
      <4>5. RowMove
        BY <3>2, <4>1, <4>2, <4>3, <4>4, <1>2
           DEF RowMove, Truthful, EntryStatuses, OrdersInv, ThreadInv
      <4>6. row'.status \notin Finished
        BY <4>2 DEF Finished
      <4>7. QED  BY <3>1, <4>1, <4>5, <4>6, CloserWrites
    <3>5. QED  BY <3>3, <3>4
  <2>2. CASE t = Opener /\ TryUpdate(Entry, Marked(Linked(k))) /\ Stop(t) /\ k[1] # "rollback"
    <3>1. at'[Opener] = None /\ \A u \in Closers : pc'[u] = pc[u]
      BY <2>2, ThreadFacts DEF TypeOK, Stop, GotoLeg, Goto
    <3>2. CASE row' = row /\ fresh' = fresh
      BY <3>1, <3>2, NothingWritten
    <3>3. CASE row' = Marked(Linked(k)) /\ fresh' = {Entry}
      <4>1. RowType(Linked(k)) /\ Linked(k).status = row.status
        <5>1. k[1] \notin {"short_exit", "long_exit"}
          BY <1>2, <2>2 DEF OrdersInv, ThreadInv, EntryLegs
        <5>2. QED  BY <1>1, <1>2, <5>1, LinkTypeFacts
      <4>2. RowType(row') /\ row'.status = row.status
        BY <3>3, <4>1 DEF Marked, RowType, Warnings
      <4>3. QED  BY <3>1, <3>3, <4>2, SameStatus, OpenerWrites
    <3>4. QED  BY <2>2, <3>2, <3>3, UpdateFacts
  <2>3. CASE UNCHANGED <<row, fresh>> /\ (IF t = Opener THEN Stop(t) ELSE Rest(t))
    <3>1. \A u \in Closers : pc'[u] # "idle" => pc[u] # "idle"
      BY <2>3, ThreadFacts DEF TypeOK, Stop, Rest, GotoLeg, Goto
    <3>2. at'[Opener] = None \/ (at'[Opener] = at[Opener] /\ at[Opener] # None)
      BY <2>3, ThreadFacts DEF TypeOK, Stop, Rest, GotoLeg, Goto
    <3>3. QED  BY <2>3, <3>1, <3>2, NothingWritten
  <2>4. QED  BY <1>7, <2>1, <2>2, <2>3 DEF LinkOrder
<1>8. QED  BY <1>4, <1>5, <1>6, <1>7 DEF SubmitStep

\* The opener between two submissions.
LEMMA OpenerRow ==
    ASSUME TypeOK, OrdersInv, EntryInv, CloseInv, OpenerStep
    PROVE  RowAndCopies
<1>1. RowType(row)
  BY DEF TypeOK, RowType
<1>2. ASSUME UNCHANGED <<row, fresh>>, NEW x, NEW k, GotoLeg(Opener, x, k),
             k = None \/ (at[Opener] # None /\ (k[1] = "long_entry" <=> at[Opener][1] = "long_entry"))
      PROVE  RowAndCopies
  <2>1. at'[Opener] = k /\ \A u \in Closers : pc'[u] = pc[u]
    BY <1>2, ThreadFacts DEF TypeOK, GotoLeg, Goto
  <2>2. QED  BY <1>2, <2>1, NothingWritten
<1>3. ASSUME NEW x, GotoLeg(Opener, x, None), NEW new, TryUpdate(Opener, new), RowType(new),
             Opener \in fresh /\ row' = new => RowMove
      PROVE  RowAndCopies
  <2>1. at'[Opener] = None /\ \A u \in Closers : pc'[u] = pc[u]
    BY <1>3, ThreadFacts DEF TypeOK, GotoLeg, Goto
  <2>2. CASE Opener \in fresh /\ row' = new /\ fresh' = {Opener}
    BY <1>3, <2>1, <2>2, OpenerWrites
  <2>3. CASE UNCHANGED <<row, fresh>>
    BY <1>2, <1>3, <2>3
  <2>4. QED  BY <1>3, <2>2, <2>3, UpdateFacts
<1>4. CASE SubmitStep(Opener)
  BY <1>4, SubmitRow, ThreadFacts
<1>5. CASE LongEntryFilled
  <2>1. at[Opener] # None
    BY <1>5, AwaitedFacts, ThreadFacts DEF LongEntryFilled, AtLeg
  <2>2. CASE /\ Opener \in fresh /\ row' = WithStatus("entry_pending_short")
             /\ fresh' = {Opener, Entry} /\ GotoLeg(Opener, "submit", <<"short_entry", 0>>)
    <3>1. RowType(row') /\ row'.status = "entry_pending_short"
      BY <1>1, <2>2, RowTypeFacts DEF WithStatus, Statuses
    <3>2. RowMove
      BY <2>1, <2>2, <3>1, EntryStatus, OpenerCopyFacts DEF EntryStatuses
    <3>3. at'[Opener] = <<"short_entry", 0>>
      BY <2>2, ThreadFacts DEF GotoLeg, TypeOK
    <3>4. CopyInv'
      BY <2>2, <3>1, <3>3, SpreadConstants DEF CopyInv
    <3>5. QED  BY <3>2, <3>4 DEF RowAndCopies
  <2>3. CASE UpdateRaises(Opener) /\ Stop(Opener)
    BY <1>2, <2>3 DEF UpdateRaises, Stop
  <2>4. QED  BY <1>5, <2>2, <2>3 DEF LongEntryFilled
<1>6. CASE ShortEntryFilled
  <2>1. ShortSold /\ at[Opener] # None
    <3>1. PICK s \in Awaited(Opener, "short_entry") : s.state = "filled"
      BY <1>6 DEF ShortEntryFilled, Filled
    <3>2. AtLeg(Opener, "short_entry") /\ at[Opener] \in Keys /\ order[at[Opener]].state = "filled"
      BY <3>1, AwaitedFacts, ThreadFacts
    <3>3. QED  BY <3>2, KeyFacts DEF ShortSold, AtLeg
  <2>2. RowType(WithStatus("open")) /\ WithStatus("open").status = "open"
    BY <1>1, RowTypeFacts DEF WithStatus, Statuses
  <2>3. ASSUME Opener \in fresh, row' = WithStatus("open")  PROVE RowMove
    BY <2>1, <2>2, <2>3, OpenerCopyFacts DEF RowMove, Truthful, EntryStatuses
  <2>4. QED  BY <1>3, <1>6, <2>2, <2>3 DEF ShortEntryFilled
<1>7. CASE EntryUnclear
  <2>1. at[Opener] # None
    BY <1>7, AwaitedFacts, ThreadFacts DEF EntryUnclear, EntryAwaited, AtLeg
  <2>2. QED  BY <1>7, <2>1, RaisesRow, ThreadFacts DEF EntryUnclear
<1>8. CASE NextRung
  <2>1. at[Opener] # None
    BY <1>8, AwaitedFacts, ThreadFacts DEF NextRung, EntryAwaited, AtLeg
  <2>2. QED  BY <1>2, <1>8, <2>1 DEF NextRung
<1>9. CASE LongEntryUnfilled
  <2>1. at[Opener] # None
    BY <1>9, AwaitedFacts, ThreadFacts DEF LongEntryUnfilled, AtLeg
  <2>2. RowType(WithStatus("entry_failed")) /\ WithStatus("entry_failed").status = "entry_failed"
    BY <1>1, RowTypeFacts DEF WithStatus, Statuses
  <2>3. ASSUME Opener \in fresh, row' = WithStatus("entry_failed")  PROVE RowMove
    BY <2>1, <2>2, <2>3, EntryStatus, OpenerCopyFacts DEF EntryStatuses
  <2>4. QED  BY <1>3, <1>9, <2>2, <2>3 DEF LongEntryUnfilled, Rest, Stop
<1>10. CASE ShortEntryUnfilled
  <2>1. AtLeg(Opener, "short_entry")
    BY <1>10, AwaitedFacts, ThreadFacts DEF ShortEntryUnfilled
  <2>2. QED  BY <1>2, <1>10, <2>1 DEF ShortEntryUnfilled, AtLeg
<1>11. CASE RollbackEnds
  <2>1. PICK s \in Awaited(Opener, "rollback") :
          \/ /\ TryUpdate(Opener, IF Filled(s) THEN WithStatus("rolled_back")
                                  ELSE Marked(WithStatus("rollback_failed")))
             /\ IF Filled(s) /\ Opener \in fresh THEN Rest(Opener) ELSE Stop(Opener)
          \/ Stop(Opener) /\ UNCHANGED <<row, fresh>>
    BY <1>11 DEF RollbackEnds
  <2>2. AtLeg(Opener, "rollback") /\ at[Opener] \in Keys
        /\ (s.state = "filled" => order[at[Opener]].state = "filled")
    BY AwaitedFacts, ThreadFacts
  <2>3. at[Opener] = <<"rollback", 0>>
    BY <2>2, KeyFacts, ThreadFacts DEF AtLeg, OrdersInv, ThreadInv
  <2> DEFINE new == IF Filled(s) THEN WithStatus("rolled_back") ELSE Marked(WithStatus("rollback_failed"))
  <2>4. RowType(new) /\ new.status = IF Filled(s) THEN "rolled_back" ELSE "rollback_failed"
    <3>1. RowType(WithStatus("rolled_back")) /\ WithStatus("rolled_back").status = "rolled_back"
      BY <1>1, RowTypeFacts DEF WithStatus, Statuses
    <3>2. /\ RowType(Marked(WithStatus("rollback_failed")))
          /\ Marked(WithStatus("rollback_failed")).status = "rollback_failed"
      <4> DEFINE r == [row EXCEPT !.status = "rollback_failed", !.warn = "review"]
      <4>1. Marked(WithStatus("rollback_failed")) = r
        BY DEF WithStatus, Marked
      <4>2. "rollback_failed" \in Statuses /\ "review" \in Warnings
        BY DEF Statuses, Warnings
      <4>3. RowType(r) /\ r.status = "rollback_failed"
        BY <1>1, <4>2, RowTypeFacts
      <4>4. QED  BY <4>1, <4>3
    <3>4. CASE Filled(s)
      BY <3>1, <3>4
    <3>5. CASE ~Filled(s)
      BY <3>2, <3>5
    <3>6. QED  BY <3>4, <3>5
  <2>5. ASSUME Opener \in fresh, row' = new  PROVE RowMove
    BY <2>2, <2>3, <2>4, <2>5, OpenerCopyFacts DEF RowMove, Truthful, EntryStatuses, Filled, AtLeg
  <2>6. CASE TryUpdate(Opener, new) /\ (Rest(Opener) \/ Stop(Opener))
    <3> HIDE DEF new
    <3>1. QED  BY <1>3, <2>4, <2>5, <2>6 DEF Rest, Stop
  <2>7. CASE Stop(Opener) /\ UNCHANGED <<row, fresh>>
    BY <1>2, <2>7 DEF Stop
  <2>8. QED  BY <2>1, <2>6, <2>7
<1>12. QED
  BY <1>4, <1>5, <1>6, <1>7, <1>8, <1>9, <1>10, <1>11 DEF OpenerStep

\* A closer between two submissions.
LEMMA CloserRow ==
    ASSUME TypeOK, OrdersInv, EntryInv, CloseInv, NEW t \in Closers, CloserStep(t)
    PROVE  RowAndCopies
<1>1. RowType(row)
  BY DEF TypeOK, RowType
<1>2. ASSUME UNCHANGED <<row, fresh>>, NEW x, NEW k, GotoLeg(t, x, k), pc[t] # "idle"
      PROVE  RowAndCopies
  <2>1. at'[Opener] = at[Opener] /\ \A u \in Closers : pc'[u] # "idle" => pc[u] # "idle"
    BY <1>2, ThreadFacts DEF TypeOK, GotoLeg, Goto
  <2>2. at'[Opener] = None \/ at[Opener] # None
    BY <2>1
  <2>3. QED  BY <1>2, <2>1, <2>2, NothingWritten
<1>3. ASSUME Rest(t), NEW new, TryUpdate(t, new), RowType(new), pc[t] # "idle",
             t \in fresh /\ row' = new => RowMove
      PROVE  RowAndCopies
  <2>1. pc'[t] = "idle"
    BY <1>3, ThreadFacts DEF TypeOK, Rest, GotoLeg, Goto
  <2>2. CASE t \in fresh /\ row' = new /\ fresh' = {t}
    BY <1>3, <2>1, <2>2, CloserWrites
  <2>3. CASE UNCHANGED <<row, fresh>>
    BY <1>2, <1>3, <2>3 DEF Rest
  <2>4. QED  BY <1>3, <2>2, <2>3, UpdateFacts
<1>4. ASSUME pc[t] # "idle", t \in fresh, RowType(row'),
             row'.status \in {"open", "exit_pending_short"} \/ row'.status = row.status
      PROVE  RowMove
  <2>1. ShortSold /\ row.status \notin Finished
    BY <1>4 DEF CloseInv, ExitInv, CopyInv
  <2>2. CASE row'.status = row.status
    BY <1>4, <2>2, SameStatus
  <2>3. CASE row'.status \in {"open", "exit_pending_short"}
    BY <1>4, <2>1, <2>3 DEF RowMove, Truthful, EntryStatuses
  <2>4. QED  BY <1>4, <2>2, <2>3
<1>5. CASE MonitorSpread(t)
  <2>1. RowMove /\ fresh' = {t} /\ row'.status \in {"exit_pending_long", "open"}
    BY <1>5, RefreshMovesRow DEF MonitorSpread
  <2>2. QED  BY <2>1, CloserWrites DEF Finished
<1>6. CASE DecideExit(t)
  <2>1. pc[t] = "decide"
    BY <1>6 DEF DecideExit
  <2>2. CASE \E must \in BOOLEAN : Update(t, [row EXCEPT !.close = must])
    <3>1. PICK must \in BOOLEAN : Update(t, [row EXCEPT !.close = must])
      BY <2>2
    <3>2. t \in fresh /\ row' = [row EXCEPT !.close = must] /\ fresh' = {t}
      BY <3>1 DEF Update
    <3>3. RowType(row') /\ row'.status = row.status
      BY <1>1, <3>2, RowTypeFacts
    <3>4. RowMove
      BY <3>3, SameStatus
    <3>5. row.status \notin Finished
      BY <2>1, <3>2 DEF CloseInv, CopyInv
    <3>6. QED  BY <3>2, <3>3, <3>4, <3>5, CloserWrites
  <2>3. CASE UpdateRaises(t) /\ Rest(t)
    BY <1>2, <2>1, <2>3 DEF UpdateRaises, Rest
  <2>4. QED  BY <1>6, <2>2, <2>3 DEF DecideExit
<1>7. CASE RecoverClose(t)
  <2>1. row' = row /\ row.status = "open" /\ fresh' = fresh \cup {t}
    BY <1>7 DEF RecoverClose
  <2>2. RowMove
    BY <1>1, <2>1, SameStatus
  <2>3. at'[Opener] = at[Opener] /\ fresh' \cap {Opener, Entry} = fresh \cap {Opener, Entry}
    BY <1>7, <2>1, SpreadConstants, ThreadFacts DEF RecoverClose, GotoLeg, TypeOK
  <2>4. CopyInv'
    BY <2>1, <2>3 DEF CloseInv, CopyInv, Finished
  <2>5. QED  BY <2>2, <2>4 DEF RowAndCopies
<1>8. CASE SubmitStep(t)
  BY <1>8, SubmitRow, ThreadFacts
<1>9. CASE ShortExitFilled(t)
  <2>1. pc[t] # "idle"
    BY <1>9, AwaitedFacts, ThreadFacts DEF ShortExitFilled
  <2>2. QED  BY <1>2, <1>9, <2>1 DEF ShortExitFilled
<1>10. CASE ShortExitUnfilled(t)
  <2>1. pc[t] # "idle"
    BY <1>10, AwaitedFacts, ThreadFacts DEF ShortExitUnfilled
  <2>2. PICK new \in {[row EXCEPT !.status = "open"],
                      [row EXCEPT !.status = "open", !.warn = "close_order"],
                      [row EXCEPT !.status = "open", !.close = FALSE]} :
          TryUpdate(t, new) /\ Rest(t)
    BY <1>10 DEF ShortExitUnfilled, WithStatus
  <2>3. RowType(new) /\ new.status = "open"
    <3>1. "open" \in Statuses /\ "close_order" \in Warnings /\ row.warn \in Warnings
      BY <1>1 DEF RowType, Statuses, Warnings
    <3>2. CASE new = [row EXCEPT !.status = "open", !.close = FALSE]
      BY <1>1, <3>1, <3>2 DEF RowType
    <3>3. CASE new = [row EXCEPT !.status = "open"]
      BY <1>1, <3>1, <3>3, RowTypeFacts
    <3>4. CASE new = [row EXCEPT !.status = "open", !.warn = "close_order"]
      BY <1>1, <3>1, <3>4, RowTypeFacts
    <3>5. QED  BY <2>2, <3>2, <3>3, <3>4
  <2>4. t \in fresh /\ row' = new => RowMove
    BY <1>4, <2>1, <2>3
  <2>5. QED  BY <1>3, <2>1, <2>2, <2>3, <2>4
<1>11. CASE ShortExitUnclear(t)
  <2>1. pc[t] # "idle"
    BY <1>11, AwaitedFacts, ThreadFacts DEF ShortExitUnclear
  <2>2. PICK new \in {[row EXCEPT !.warn = "review"],
                      [row EXCEPT !.status = "exit_pending_short", !.warn = "close_order"],
                      [row EXCEPT !.status = "exit_pending_short", !.warn = "none",
                                  !.close = @ /\ row.warn = "close_order"]} :
          TryUpdate(t, new) /\ Rest(t)
    BY <1>11 DEF ShortExitUnclear, WithStatus, Marked
  <2>3. RowType(new) /\ new.status \in {row.status, "exit_pending_short"}
    <3>1. /\ "exit_pending_short" \in Statuses
          /\ "close_order" \in Warnings /\ "none" \in Warnings /\ "review" \in Warnings
      BY DEF Statuses, Warnings
    <3>2. CASE new = [row EXCEPT !.warn = "review"]
      BY <1>1, <3>1, <3>2, RowTypeFacts
    <3>3. CASE new = [row EXCEPT !.status = "exit_pending_short", !.warn = "close_order"]
      BY <1>1, <3>1, <3>3, RowTypeFacts
    <3>4. CASE new = [row EXCEPT !.status = "exit_pending_short", !.warn = "none",
                                 !.close = @ /\ row.warn = "close_order"]
      <4>1. PICK b \in BOOLEAN :
              new = [row EXCEPT !.status = "exit_pending_short", !.warn = "none", !.close = b]
        <5>1. CASE row.close /\ row.warn = "close_order"
          BY <3>4, <5>1
        <5>2. CASE ~(row.close /\ row.warn = "close_order")
          BY <3>4, <5>2
        <5>3. QED  BY <5>1, <5>2
      <4> DEFINE r == [row EXCEPT !.status = "exit_pending_short", !.warn = "none", !.close = b]
      <4>2. \A st \in Statuses, w \in Warnings, c \in BOOLEAN :
              /\ RowType([row EXCEPT !.status = st, !.warn = w, !.close = c])
              /\ [row EXCEPT !.status = st, !.warn = w, !.close = c].status = st
        BY <1>1, RowTypeFacts
      <4>3. RowType(r) /\ r.status = "exit_pending_short"
        BY <3>1, <4>2
      <4>4. QED  BY <4>1, <4>3
    <3>5. QED  BY <2>2, <3>2, <3>3, <3>4
  <2>4. t \in fresh /\ row' = new => RowMove
    BY <1>4, <2>1, <2>3
  <2>5. QED  BY <1>3, <2>1, <2>2, <2>3, <2>4
<1>12. CASE LongExitEnds(t)
  <2>1. PICK s \in Awaited(t, "long_exit") :
          TryUpdate(t, IF s.state = "filled" THEN WithStatus("closed")
                       ELSE Marked(WithStatus("exit_pending_long")))
    BY <1>12 DEF LongExitEnds, Filled
  <2>2. /\ pc[t] # "idle" /\ AtLeg(t, "long_exit") /\ at[t] \in Keys
        /\ s.state = "filled" => order[at[t]].state = "filled"
    BY AwaitedFacts, ThreadFacts
  <2>3. at[t] = <<"long_exit", 0>>
    BY <2>2, KeyFacts, ThreadFacts DEF AtLeg, OrdersInv, ThreadInv
  <2>4. BoughtBack /\ ShortSold
    BY <2>2 DEF CloseInv, ExitInv
  <2>5. t \in fresh => row.status \notin Finished
    BY <2>2 DEF CloseInv, CopyInv
  <2>6. PICK new : /\ TryUpdate(t, new) /\ RowType(new)
                   /\ \/ s.state = "filled" /\ new.status = "closed"
                      \/ new.status = "exit_pending_long"
    <3>1. CASE s.state = "filled"
      <4>1. RowType(WithStatus("closed")) /\ WithStatus("closed").status = "closed"
        BY <1>1, RowTypeFacts DEF WithStatus, Statuses
      <4>2. QED  BY <2>1, <3>1, <4>1
    <3>2. CASE s.state # "filled"
      <4> DEFINE r == [row EXCEPT !.status = "exit_pending_long", !.warn = "review"]
      <4>1. "exit_pending_long" \in Statuses /\ "review" \in Warnings
        BY DEF Statuses, Warnings
      <4>2. RowType(r) /\ r.status = "exit_pending_long"
        BY <1>1, <4>1, RowTypeFacts
      <4>3. Marked(WithStatus("exit_pending_long")) = r
        BY DEF Marked, WithStatus
      <4> HIDE DEF r
      <4>4. TryUpdate(t, r)
        BY <2>1, <3>2, <4>3
      <4>5. QED  BY <4>2, <4>4
    <3>3. QED  BY <3>1, <3>2
  <2>7. ASSUME t \in fresh, row' = new  PROVE RowMove
    BY <2>2, <2>3, <2>4, <2>5, <2>6, <2>7 DEF RowMove, Truthful, EntryStatuses
  <2>8. QED  BY <1>3, <1>12, <2>2, <2>6, <2>7 DEF LongExitEnds
<1>13. CASE GivesUp(t)
  BY <1>2, <1>13 DEF GivesUp, Rest
<1>14. QED
  BY <1>5, <1>6, <1>7, <1>8, <1>9, <1>10, <1>11, <1>12, <1>13 DEF CloserStep

\* Every step leaves a row that says what is true, and copies that are fresh
\* only where it matters.
LEMMA StepRow ==
    ASSUME TypeOK, OrdersInv, EntryInv, CloseInv, Next
    PROVE  RowAndCopies
<1>1. RowType(row)
  BY DEF TypeOK, RowType
<1>2. CASE OpenerStep
  BY <1>2, OpenerRow
<1>3. ASSUME NEW t \in Closers, CloserStep(t)  PROVE RowAndCopies
  BY <1>3, CloserRow
<1>4. CASE RefreshSpread
  BY <1>4, RefreshMovesRow DEF RefreshSpread, RowAndCopies, CopyInv
<1>5. CASE Crash
  <2>1. at'[Opener] = None /\ \A u \in Closers : pc'[u] = pc[u]
    BY <1>5, ThreadFacts DEF Crash, GotoLeg, Goto, TypeOK
  <2>2. QED  BY <1>5, <2>1, NothingWritten DEF Crash
<1>6. ASSUME NEW k \in Keys, Broker(k) \/ Reconcile(k) \/ ResolveNoOrder(k)  PROVE RowAndCopies
  <2>1. UNCHANGED <<row, fresh, pc, at>>
    BY <1>6 DEF Broker, BrokerAccepts, BrokerFills, BrokerCancels, Reconcile, ResolveNoOrder
  <2>2. RowMove /\ CopyInv'
    BY <1>1, <2>1, SameStatus DEF CloseInv, CopyInv
  <2>3. QED  BY <2>2 DEF RowAndCopies
<1>7. ASSUME NEW k \in Keys, Relink(k)  PROVE RowAndCopies
  <2>1. fresh' = {}
    BY <1>7 DEF Relink
  <2>2. RowType(row') /\ row'.status = row.status
    <3>1. CASE row' = [row EXCEPT !.warn = "conflict"]
      BY <1>1, <3>1, RowTypeFacts DEF Warnings
    <3>2. CASE row' = [Marked(row) EXCEPT !.link[Field(k)] = k]
      <4> DEFINE r == [row EXCEPT !.link[Field(k)] = k]
      <4>1. RowType(r) /\ r.status = row.status
        BY <1>1, LinkTypeFacts DEF RowType
      <4>2. row' = [r EXCEPT !.warn = "review"]
        BY <1>1, <3>2 DEF Marked, RowType
      <4> HIDE DEF r
      <4>3. QED  BY <4>1, <4>2 DEF RowType, Warnings
    <3>3. QED  BY <1>7, <3>1, <3>2 DEF Relink
  <2>3. QED  BY <2>1, <2>2, SameStatus DEF RowAndCopies, CopyInv
<1>8. QED  BY <1>2, <1>3, <1>4, <1>5, <1>6, <1>7 DEF Next

-----------------------------------------------------------------------------
(* Where a step takes the threads.                                         *)

Places == {"idle", "decide", "submit", "calling", "link", "await", "opened",
           "stopped", "crashed"}

Still(t) == pc'[t] = pc[t] /\ at'[t] = at[t]

\* The thread goes on with its order.
Advances(t) ==
    /\ at'[t] = at[t] /\ at[t] # None
    /\ pc'[t] \in {"calling", "link", "await"}
    /\ pc'[t] = "calling" => intent'[at[t]] # "none"
    /\ pc'[t] # "calling" => intent'[at[t]] = "persisted"

OpenerMove ==
    \/ Still(Opener) \/ Advances(Opener)
    \/ at'[Opener] = None /\ pc'[Opener] \in {"idle", "opened", "stopped", "crashed"}
    \/ /\ pc'[Opener] = "submit" /\ at[Opener] # None
       /\ \/ /\ at'[Opener] = <<"short_entry", 0>>
             /\ at[Opener][1] = "long_entry"
             /\ order[at[Opener]].state = "filled"
          \/ /\ at'[Opener] = <<at[Opener][1], at[Opener][2] + 1>>
             /\ at[Opener][1] \in EntryLegs
             /\ at[Opener][2] + 1 \in Attempts
             /\ Settled(at[Opener]) /\ intent[at[Opener]] # "none"
          \/ /\ at'[Opener] = <<"rollback", 0>>
             /\ at[Opener][1] = "short_entry"
             /\ \E k \in Keys : at[Opener] = k /\ Settled(k)'

CloserMove(t) ==
    \/ Still(t) \/ Advances(t)
    \/ at'[t] = None /\ pc'[t] = "idle"
    \/ at'[t] = None /\ pc'[t] = "decide" /\ pc[t] = "idle" /\ row'.status = "open"
    \/ /\ pc'[t] = "submit" /\ at'[t] = <<"long_exit", 0>>
       /\ \/ pc[t] = "idle" /\ row'.status = "exit_pending_long"
          \/ pc[t] # "idle" /\ BoughtBack
    \/ pc'[t] = "submit" /\ at'[t] = <<"short_exit", 0>> /\ pc[t] = "decide"
    \/ /\ pc'[t] = "submit" /\ pc[t] = "idle" /\ row'.status = "open"
       /\ \E n \in Attempts : /\ n + 1 \in Attempts
                               /\ at'[t] = <<"short_exit", n + 1>>
                               /\ order[<<"short_exit", n>>].state = "canceled"

ThreadsMove ==
    /\ pc' \in [Threads -> Places]
    /\ at' \in [Threads -> Keys \cup {None}]
    /\ OpenerMove
    /\ \A t \in Closers : CloserMove(t)

\* Nobody moves.
LEMMA NobodyGoes ==
    ASSUME TypeOK, pc' = pc, at' = at
    PROVE  ThreadsMove
BY DEF ThreadsMove, OpenerMove, CloserMove, Still, TypeOK, Places

\* One thread moves.
LEMMA OneGoes ==
    ASSUME TypeOK, NEW t \in Threads, NEW x \in Places, NEW k \in Keys \cup {None},
           GotoLeg(t, x, k)
    PROVE  /\ pc' \in [Threads -> Places] /\ at' \in [Threads -> Keys \cup {None}]
           /\ pc'[t] = x /\ at'[t] = k
           /\ \A u \in Threads : u # t => Still(u)
           /\ t = Opener /\ OpenerMove => ThreadsMove
           /\ t # Opener /\ CloserMove(t) => ThreadsMove
<1>1. /\ pc' \in [Threads -> Places] /\ at' \in [Threads -> Keys \cup {None}]
      /\ pc'[t] = x /\ at'[t] = k
      /\ \A u \in Threads : u # t => Still(u)
  BY DEF GotoLeg, Goto, TypeOK, Places, Still
<1>2. ASSUME t = Opener, OpenerMove  PROVE ThreadsMove
  BY <1>1, <1>2, ThreadFacts DEF ThreadsMove, CloserMove
<1>3. ASSUME t # Opener, CloserMove(t)  PROVE ThreadsMove
  <2>1. OpenerMove
    BY <1>1, <1>3, ThreadFacts DEF OpenerMove
  <2>2. \A u \in Closers : CloserMove(u)
    BY <1>1, <1>3, ThreadFacts DEF CloserMove
  <2>3. QED  BY <1>1, <2>1, <2>2 DEF ThreadsMove
<1>4. QED  BY <1>1, <1>2, <1>3

\* A thread that stays at its order.
LEMMA AtItsOrder ==
    ASSUME TypeOK, NEW t \in Threads, NEW x, Goto(t, x), UNCHANGED at
    PROVE  GotoLeg(t, x, at[t])
BY DEF GotoLeg, Goto, TypeOK

\* A thread that gives up.
LEMMA OneRests ==
    ASSUME TypeOK, NEW t \in Threads, Rest(t) \/ (t = Opener /\ Stop(t))
    PROVE  ThreadsMove
<1>1. CASE Rest(t)
  <2>1. pc'[t] = "idle" /\ at'[t] = None
    BY <1>1, OneGoes DEF Rest, Places
  <2>2. (t = Opener => OpenerMove) /\ (t # Opener => CloserMove(t))
    BY <2>1 DEF OpenerMove, CloserMove
  <2>3. QED  BY <1>1, <2>2, OneGoes DEF Rest, Places
<1>2. CASE t = Opener /\ Stop(t)
  <2>1. pc'[t] = "stopped" /\ at'[t] = None
    BY <1>2, OneGoes DEF Stop, Places
  <2>2. OpenerMove
    BY <1>2, <2>1 DEF OpenerMove
  <2>3. QED  BY <1>2, <2>2, OneGoes DEF Stop, Places
<1>3. QED  BY <1>1, <1>2

\* A thread that goes on with its order.
LEMMA OneAdvances ==
    ASSUME TypeOK, NEW t \in Threads, NEW x \in {"calling", "link", "await"},
           Goto(t, x), UNCHANGED at, at[t] # None,
           intent'[at[t]] # "none", x # "calling" => intent'[at[t]] = "persisted"
    PROVE  ThreadsMove
<1>1. GotoLeg(t, x, at[t]) /\ x \in Places /\ at[t] \in Keys \cup {None}
  BY AtItsOrder DEF Places, TypeOK
<1>2. Advances(t)
  BY <1>1, OneGoes DEF Advances
<1>3. QED  BY <1>1, <1>2, OneGoes DEF OpenerMove, CloserMove

\* A submission that raises.
LEMMA RaisesGoes ==
    ASSUME TypeOK, NEW t \in Threads, SubmitRaises(t)
    PROVE  ThreadsMove
<1>1. CASE t # Opener
  BY <1>1, OneRests DEF SubmitRaises
<1>2. CASE t = Opener
  <2>1. Stop(t)
    BY <1>2 DEF SubmitRaises
  <2>2. QED  BY <1>2, <2>1, OneRests
<1>3. QED  BY <1>1, <1>2

\* A submission that is refused.
LEMMA RefusedGoes ==
    ASSUME TypeOK, NEW t \in Threads, at[t] # None, intent'[at[t]] = "rejected", SubmitRefused(t)
    PROVE  ThreadsMove
<1>1. CASE SubmitRaises(t)
  BY <1>1, RaisesGoes
<1>2. CASE t = Opener /\ (Rest(t) \/ Stop(t))
  BY <1>2, OneRests
<1>3. CASE t = Opener /\ at[t][1] = "short_entry" /\ GotoLeg(t, "submit", <<"rollback", 0>>)
  <2>1. <<"rollback", 0>> \in Keys /\ "submit" \in Places
    BY KeyFacts DEF Legs, Places
  <2>2. PICK k \in Keys : at[Opener] = k
    BY <1>3 DEF TypeOK
  <2>3. Settled(k)'
    BY <1>3, <2>2 DEF Settled
  <2>4. pc'[Opener] = "submit" /\ at'[Opener] = <<"rollback", 0>>
    BY <1>3, <2>1, OneGoes
  <2>5. OpenerMove
    BY <1>3, <2>2, <2>3, <2>4 DEF OpenerMove
  <2>6. QED  BY <1>3, <2>1, <2>5, OneGoes
<1>4. QED  BY <1>1, <1>2, <1>3 DEF SubmitRefused

\* The steps of a submission.
LEMMA SubmitGoes ==
    ASSUME TypeOK, OrdersInv, NEW t \in Threads, SubmitStep(t)
    PROVE  ThreadsMove
<1>1. pc[t] \in Active /\ at[t] # None /\ at[t] \in Keys
  <2>1. pc[t] \in Active
    BY DEF SubmitStep, SubmitNew, SubmitReplay, CallReturns, LinkOrder, Active
  <2>2. QED  BY <2>1 DEF OrdersInv, ThreadInv, TypeOK
<1>2. CASE SubmitNew(t)
  <2>1. Goto(t, "calling") /\ UNCHANGED at /\ intent'[at[t]] # "none"
    BY <1>1, <1>2 DEF SubmitNew, TypeOK
  <2>2. QED  BY <1>1, <2>1, OneAdvances
<1>3. CASE SubmitReplay(t)
  <2>1. CASE intent[at[t]] = "persisted" /\ Goto(t, "link") /\ UNCHANGED at
    BY <1>1, <1>3, <2>1, OneAdvances DEF SubmitReplay
  <2>2. CASE intent[at[t]] = "rejected" /\ SubmitRefused(t)
    BY <1>1, <1>3, <2>2, RefusedGoes DEF SubmitReplay
  <2>3. QED  BY <1>3, <2>1, <2>2, RaisesGoes DEF SubmitReplay
<1>4. CASE CallReturns(t)
  <2>1. CASE intent' = [intent EXCEPT ![at[t]] = "persisted"] /\ Goto(t, "link") /\ UNCHANGED at
    <3>1. intent'[at[t]] = "persisted"
      BY <1>1, <2>1 DEF TypeOK
    <3>2. QED  BY <1>1, <2>1, <3>1, OneAdvances
  <2>2. CASE intent' = [intent EXCEPT ![at[t]] = "rejected"] /\ SubmitRefused(t)
    <3>1. intent'[at[t]] = "rejected"
      BY <1>1, <2>2 DEF TypeOK
    <3>2. QED  BY <1>1, <2>2, <3>1, RefusedGoes
  <2>3. QED  BY <1>4, <2>1, <2>2, RaisesGoes DEF CallReturns
<1>5. CASE LinkOrder(t)
  <2>1. CASE Goto(t, "await") /\ UNCHANGED at
    <3>1. intent'[at[t]] = "persisted"
      BY <1>5 DEF LinkOrder, OrdersInv, ThreadInv
    <3>2. QED  BY <1>1, <2>1, <3>1, OneAdvances
  <2>2. CASE Rest(t) \/ (t = Opener /\ Stop(t))
    BY <2>2, OneRests
  <2>3. QED  BY <1>5, <2>1, <2>2 DEF LinkOrder
<1>6. QED  BY <1>2, <1>3, <1>4, <1>5 DEF SubmitStep

\* The opener between two submissions.
LEMMA OpenerGoes ==
    ASSUME TypeOK, OrdersInv, OpenerStep
    PROVE  ThreadsMove
<1> USE ThreadFacts
<1>1. /\ "submit" \in Places /\ "opened" \in Places /\ None \in Keys \cup {None}
      /\ <<"rollback", 0>> \in Keys /\ <<"short_entry", 0>> \in Keys
  BY KeyFacts DEF Places, Legs, Fields
<1>2. CASE SubmitStep(Opener)
  BY <1>2, SubmitGoes
<1>3. CASE LongEntryFilled
  <2>1. PICK s \in Awaited(Opener, "long_entry") : s.state = "filled"
    BY <1>3 DEF LongEntryFilled, Filled
  <2>2. AtLeg(Opener, "long_entry") /\ order[at[Opener]].state = "filled"
    BY <2>1, AwaitedFacts
  <2>3. CASE GotoLeg(Opener, "submit", <<"short_entry", 0>>)
    <3>1. pc'[Opener] = "submit" /\ at'[Opener] = <<"short_entry", 0>>
      BY <1>1, <2>3, OneGoes
    <3>2. OpenerMove
      BY <2>2, <3>1 DEF OpenerMove, AtLeg
    <3>3. QED  BY <1>1, <2>3, <3>2, OneGoes
  <2>4. CASE Stop(Opener)
    BY <2>4, OneRests
  <2>5. QED  BY <1>3, <2>3, <2>4 DEF LongEntryFilled
<1>4. CASE ShortEntryFilled
  <2>1. CASE GotoLeg(Opener, "opened", None)
    <3>1. pc'[Opener] = "opened" /\ at'[Opener] = None
      BY <1>1, <2>1, OneGoes
    <3>2. OpenerMove
      BY <3>1 DEF OpenerMove
    <3>3. QED  BY <1>1, <2>1, <3>2, OneGoes
  <2>2. CASE GotoLeg(Opener, "stopped", None)
    BY <2>2, OneRests DEF Stop
  <2>3. QED  BY <1>4, <2>1, <2>2 DEF ShortEntryFilled
<1>5. CASE EntryUnclear
  BY <1>5, RaisesGoes DEF EntryUnclear
<1>6. CASE NextRung
  <2>1. PICK s \in EntryAwaited : Dead(s)
    BY <1>6 DEF NextRung
  <2>2. /\ at[Opener] # None /\ at[Opener] \in Keys /\ at[Opener][1] \in EntryLegs
        /\ intent[at[Opener]] = "persisted" /\ s = order[at[Opener]]
    <3>1. CASE s \in Awaited(Opener, "long_entry")
      BY <2>1, <3>1, AwaitedFacts DEF AtLeg, EntryLegs, Dead
    <3>2. CASE s \in Awaited(Opener, "short_entry")
      BY <2>1, <3>2, AwaitedFacts DEF AtLeg, EntryLegs, Dead
    <3>3. QED  BY <2>1, <3>1, <3>2 DEF EntryAwaited
  <2>3. Settled(at[Opener])
    BY <2>1, <2>2 DEF Settled, Dead
  <2> DEFINE k == <<at[Opener][1], at[Opener][2] + 1>>
  <2>4. k \in Keys /\ at[Opener][2] + 1 \in Attempts
    <3>1. at[Opener][2] + 1 \in Attempts
      BY <1>6, <2>2, KeyFacts, SpreadConstants DEF NextRung, Attempts
    <3>2. QED  BY <2>2, <3>1, KeyFacts
  <2>5. GotoLeg(Opener, "submit", k)
    BY <1>6 DEF NextRung
  <2>6. pc'[Opener] = "submit" /\ at'[Opener] = k
    BY <1>1, <2>4, <2>5, OneGoes
  <2>7. OpenerMove
    BY <2>2, <2>3, <2>4, <2>6 DEF OpenerMove
  <2> HIDE DEF k
  <2>8. QED  BY <1>1, <2>4, <2>5, <2>7, OneGoes
<1>7. CASE LongEntryUnfilled
  BY <1>7, OneRests DEF LongEntryUnfilled
<1>8. CASE ShortEntryUnfilled
  <2>1. PICK s \in Awaited(Opener, "short_entry") : Dead(s)
    BY <1>8 DEF ShortEntryUnfilled
  <2>2. /\ AtLeg(Opener, "short_entry") /\ s = order[at[Opener]]
        /\ intent[at[Opener]] = "persisted"
    BY <2>1, AwaitedFacts DEF Dead
  <2>3. PICK k \in Keys : at[Opener] = k
    BY <2>2 DEF AtLeg, TypeOK
  <2>4. Settled(k)'
    BY <1>8, <2>1, <2>2, <2>3 DEF Settled, Dead, ShortEntryUnfilled
  <2>5. GotoLeg(Opener, "submit", <<"rollback", 0>>)
    BY <1>8 DEF ShortEntryUnfilled
  <2>6. pc'[Opener] = "submit" /\ at'[Opener] = <<"rollback", 0>>
    BY <1>1, <2>5, OneGoes
  <2>7. OpenerMove
    BY <2>2, <2>3, <2>4, <2>6 DEF OpenerMove, AtLeg
  <2>8. QED  BY <1>1, <2>5, <2>7, OneGoes
<1>9. CASE RollbackEnds
  BY <1>9, OneRests DEF RollbackEnds
<1>10. QED
  BY <1>2, <1>3, <1>4, <1>5, <1>6, <1>7, <1>8, <1>9 DEF OpenerStep

\* A closer between two submissions.
LEMMA CloserGoes ==
    ASSUME TypeOK, OrdersInv, NEW t \in Closers, CloserStep(t)
    PROVE  ThreadsMove
<1>1. /\ "submit" \in Places /\ "decide" \in Places /\ t \in Threads /\ t # Opener
      /\ <<"long_exit", 0>> \in Keys /\ <<"short_exit", 0>> \in Keys
  BY KeyFacts, ThreadFacts DEF Places, Legs, Fields
<1>2. pc[t] = "idle" => at[t] = None
  BY <1>1 DEF OrdersInv, ThreadInv, Active
<1>3. ASSUME NEW k \in Keys, GotoLeg(t, "submit", k),
             pc'[t] = "submit" /\ at'[t] = k => CloserMove(t)
      PROVE  ThreadsMove
  BY <1>1, <1>3, OneGoes
<1>4. CASE MonitorSpread(t)
  <2>1. CASE row'.status = "exit_pending_long" /\ GotoLeg(t, "submit", <<"long_exit", 0>>)
    <3>1. pc'[t] = "submit" /\ at'[t] = <<"long_exit", 0>> => CloserMove(t)
      BY <1>4, <2>1 DEF MonitorSpread, CloserMove
    <3>2. QED  BY <1>1, <1>3, <2>1, <3>1
  <2>2. CASE row'.status = "open" /\ Goto(t, "decide") /\ UNCHANGED at
    <3>1. GotoLeg(t, "decide", None)
      BY <1>1, <1>2, <1>4, <2>2, AtItsOrder DEF MonitorSpread
    <3>2. pc'[t] = "decide" /\ at'[t] = None
      BY <1>1, <3>1, OneGoes
    <3>3. CloserMove(t)
      BY <1>4, <2>2, <3>2 DEF CloserMove, MonitorSpread
    <3>4. QED  BY <1>1, <3>1, <3>3, OneGoes
  <2>3. QED  BY <1>4, <2>1, <2>2 DEF MonitorSpread
<1>5. CASE DecideExit(t)
  <2>1. CASE GotoLeg(t, "submit", <<"short_exit", 0>>)
    <3>1. pc'[t] = "submit" /\ at'[t] = <<"short_exit", 0>> => CloserMove(t)
      BY <1>5 DEF DecideExit, CloserMove
    <3>2. QED  BY <1>1, <1>3, <2>1, <3>1
  <2>2. CASE Rest(t)
    BY <1>1, <2>2, OneRests
  <2>3. QED  BY <1>5, <2>1, <2>2 DEF DecideExit
<1>6. CASE RecoverClose(t)
  <2>1. PICK n \in Attempts :
          /\ row.link["short_exit"] = <<"short_exit", n>>
          /\ \E s \in Snapshots(<<"short_exit", n>>) : s.state = "canceled"
          /\ n < MaxAttempt
          /\ GotoLeg(t, "submit", <<"short_exit", n + 1>>)
    BY <1>6 DEF RecoverClose
  <2>2. <<"short_exit", n>> \in Keys /\ <<"short_exit", n + 1>> \in Keys /\ n + 1 \in Attempts
    <3>1. n + 1 \in Attempts
      BY <2>1, SpreadConstants DEF Attempts
    <3>2. QED  BY <3>1, KeyFacts DEF Legs, Fields
  <2>3. order[<<"short_exit", n>>].state = "canceled"
    BY <2>1, <2>2, SnapshotFacts
  <2>4. pc[t] = "idle" /\ row'.status = "open"
    BY <1>6 DEF RecoverClose
  <2>5. pc'[t] = "submit" /\ at'[t] = <<"short_exit", n + 1>> => CloserMove(t)
    BY <2>2, <2>3, <2>4 DEF CloserMove
  <2>6. QED  BY <1>3, <2>1, <2>2, <2>5
<1>7. CASE SubmitStep(t)
  BY <1>1, <1>7, SubmitGoes
<1>8. CASE ShortExitFilled(t)
  <2>1. PICK s \in Awaited(t, "short_exit") : s.state = "filled"
    BY <1>8 DEF ShortExitFilled, Filled
  <2>2. pc[t] # "idle" /\ AtLeg(t, "short_exit") /\ at[t] \in Keys /\ order[at[t]].state = "filled"
    BY <1>1, <2>1, AwaitedFacts
  <2>3. BoughtBack
    BY <2>2, KeyFacts DEF BoughtBack, AtLeg
  <2>4. pc'[t] = "submit" /\ at'[t] = <<"long_exit", 0>> => CloserMove(t)
    BY <2>2, <2>3 DEF CloserMove
  <2>5. QED  BY <1>1, <1>3, <1>8, <2>4 DEF ShortExitFilled
<1>9. CASE ShortExitUnfilled(t) \/ ShortExitUnclear(t) \/ LongExitEnds(t) \/ GivesUp(t)
  BY <1>1, <1>9, OneRests DEF ShortExitUnfilled, ShortExitUnclear, LongExitEnds, GivesUp
<1>10. QED
  BY <1>4, <1>5, <1>6, <1>7, <1>8, <1>9 DEF CloserStep

\* Every step moves the threads this way.
LEMMA StepThreads ==
    ASSUME TypeOK, OrdersInv, Next
    PROVE  ThreadsMove
<1>1. CASE OpenerStep
  BY <1>1, OpenerGoes
<1>2. ASSUME NEW t \in Closers, CloserStep(t)  PROVE ThreadsMove
  BY <1>2, CloserGoes
<1>3. CASE RefreshSpread
  BY <1>3, NobodyGoes DEF RefreshSpread
<1>4. CASE Crash
  <2>1. GotoLeg(Opener, "crashed", None) /\ "crashed" \in Places
    BY <1>4 DEF Crash, Places
  <2>2. pc'[Opener] = "crashed" /\ at'[Opener] = None
    BY <2>1, OneGoes, ThreadFacts
  <2>3. OpenerMove
    BY <2>2 DEF OpenerMove
  <2>4. QED  BY <2>1, <2>3, OneGoes, ThreadFacts
<1>5. ASSUME NEW k \in Keys, Broker(k) \/ Reconcile(k) \/ ResolveNoOrder(k) \/ Relink(k)
      PROVE  ThreadsMove
  BY <1>5, NobodyGoes
     DEF Broker, BrokerAccepts, BrokerFills, BrokerCancels, Reconcile, ResolveNoOrder, Relink
<1>6. QED  BY <1>1, <1>2, <1>3, <1>4, <1>5 DEF Next

-----------------------------------------------------------------------------
(* The invariants of the orders, the rungs and the exits.                  *)

\* A thread stands at the order of its place, and its intent exists.
LEMMA ThreadInvStays ==
    ASSUME TypeOK, OrdersInv, Moves, ThreadsMove
    PROVE  ThreadInv'
<1> DEFINE Good(t) ==
             /\ pc'[t] \in Active <=> at'[t] # None
             /\ pc'[t] = "calling" => intent'[at'[t]] # "none"
             /\ pc'[t] \in {"link", "await"} => intent'[at'[t]] = "persisted"
             /\ at'[t] # None /\ at'[t][1] \in {"rollback", "long_exit"} => at'[t][2] = 0
<1>1. ASSUME NEW t \in Threads, Still(t) \/ Advances(t)
      PROVE  Good(t)
  <2>1. /\ pc[t] \in Active <=> at[t] # None
        /\ pc[t] = "calling" => intent[at[t]] # "none"
        /\ pc[t] \in {"link", "await"} => intent[at[t]] = "persisted"
        /\ at[t] # None /\ at[t][1] \in {"rollback", "long_exit"} => at[t][2] = 0
    BY DEF OrdersInv, ThreadInv
  <2>2. CASE Advances(t)
    BY <2>1, <2>2 DEF Advances, Active
  <2>3. CASE Still(t) /\ at[t] # None
    <3>1. at[t] \in Keys
      BY <2>3 DEF TypeOK
    <3>2. /\ intent[at[t]] # "none" => intent'[at[t]] # "none"
          /\ intent[at[t]] = "persisted" => intent'[at[t]] = "persisted"
      BY <3>1, OrdersStay
    <3>3. QED  BY <2>1, <2>3, <3>2 DEF Still
  <2>4. CASE Still(t) /\ at[t] = None
    BY <2>1, <2>4 DEF Still, Active
  <2>5. QED  BY <1>1, <2>2, <2>3, <2>4
<1>2. Good(Opener) /\ pc'[Opener] # "decide"
      /\ (at'[Opener] # None => at'[Opener][1] \in EntryLegs \cup {"rollback"})
  <2>1. pc[Opener] # "decide" /\ (at[Opener] # None => at[Opener][1] \in EntryLegs \cup {"rollback"})
    BY DEF OrdersInv, ThreadInv
  <2>2. CASE Still(Opener) \/ Advances(Opener)
    BY <1>1, <2>1, <2>2, ThreadFacts DEF Still, Advances
  <2>3. CASE at'[Opener] = None /\ pc'[Opener] \in {"idle", "opened", "stopped", "crashed"}
    BY <2>3 DEF Active
  <2>4. ASSUME pc'[Opener] = "submit", NEW k \in Keys, at'[Opener] = k,
               k[1] \in EntryLegs \/ k = <<"rollback", 0>>
        PROVE  Good(Opener) /\ pc'[Opener] # "decide"
               /\ at'[Opener][1] \in EntryLegs \cup {"rollback"}
    <3>1. at'[Opener] # None
      BY <2>4, KeyFacts
    <3>2. QED  BY <2>4, <3>1 DEF Active, EntryLegs
  <2>5. CASE pc'[Opener] = "submit" /\ at'[Opener] = <<"short_entry", 0>>
    BY <2>4, <2>5, KeyFacts DEF EntryLegs, Legs, Fields
  <2>6. CASE pc'[Opener] = "submit" /\ at'[Opener] = <<"rollback", 0>>
    BY <2>4, <2>6, KeyFacts DEF Legs
  <2>7. CASE /\ pc'[Opener] = "submit" /\ at'[Opener] = <<at[Opener][1], at[Opener][2] + 1>>
             /\ at[Opener][1] \in EntryLegs /\ at[Opener][2] + 1 \in Attempts
    <3> DEFINE k == <<at[Opener][1], at[Opener][2] + 1>>
    <3>1. k \in Keys /\ k[1] \in EntryLegs
      BY <2>7, KeyFacts DEF EntryLegs, Legs, Fields
    <3> HIDE DEF k
    <3>2. QED  BY <2>4, <2>7, <3>1 DEF k
  <2>8. QED  BY <2>2, <2>3, <2>5, <2>6, <2>7 DEF ThreadsMove, OpenerMove
<1>3. ASSUME NEW t \in Closers
      PROVE  Good(t) /\ (at'[t] # None => at'[t][1] \in {"short_exit", "long_exit"})
  <2>1. t \in Threads /\ (at[t] # None => at[t][1] \in {"short_exit", "long_exit"})
    BY ThreadFacts DEF OrdersInv, ThreadInv
  <2>2. CASE Still(t) \/ Advances(t)
    BY <1>1, <2>1, <2>2 DEF Still, Advances
  <2>3. CASE at'[t] = None /\ pc'[t] \in {"idle", "decide"}
    BY <2>3 DEF Active
  <2>4. CASE pc'[t] = "submit" /\ at'[t] = <<"long_exit", 0>>
    <3>1. at'[t] # None
      BY <2>4, KeyFacts DEF Legs, Fields
    <3>2. QED  BY <2>4, <3>1 DEF Active
  <2>5. CASE pc'[t] = "submit" /\ \E n \in Attempts : at'[t] = <<"short_exit", n>>
    <3>1. at'[t] # None
      BY <2>5, KeyFacts DEF Legs, Fields
    <3>2. QED  BY <2>5, <3>1 DEF Active
  <2>6. QED
    BY <2>2, <2>3, <2>4, <2>5, KeyFacts DEF ThreadsMove, CloserMove
<1>4. QED  BY <1>2, <1>3, ThreadFacts DEF ThreadInv

\* The intent of an entry or a rollback is created by the opener, the one of
\* an exit by a closer, while it stands at the key.
LEMMA CreatedBy ==
    ASSUME TypeOK, OrdersInv, Moves, NEW k \in Keys, intent[k] = "none", intent'[k] # "none"
    PROVE  /\ k[1] \in EntryLegs \cup {"rollback"} => at[Opener] = k /\ at'[Opener] = k
           /\ k[1] \in {"short_exit", "long_exit"} =>
                \E t \in Closers : pc[t] = "submit" /\ at[t] = k
           /\ k[1] \in {"rollback", "long_exit"} => k[2] = 0
<1>1. PICK t \in Threads : pc[t] = "submit" /\ at[t] = k /\ at'[t] = k
  BY DEF Moves, IntentMove
<1>2. at[t] # None
  BY <1>1, KeyFacts
<1>3. k[1] \in {"rollback", "long_exit"} => k[2] = 0
  BY <1>1, <1>2 DEF OrdersInv, ThreadInv
<1>4. CASE t = Opener
  BY <1>1, <1>2, <1>3, <1>4 DEF OrdersInv, ThreadInv, EntryLegs
<1>5. CASE t # Opener
  BY <1>1, <1>2, <1>3, <1>5, ThreadFacts DEF OrdersInv, ThreadInv, EntryLegs
<1>6. QED  BY <1>4, <1>5

\* Only the opener stands at orders of the entry or of the rollback.
LEMMA EntryKeyFacts ==
    ASSUME TypeOK, OrdersInv, Moves, NEW k \in Keys, k[1] \in EntryLegs \cup {"rollback"},
           at[Opener] # k
    PROVE  /\ Settled(k) => Settled(k)'
           /\ intent[k] = "none" => intent'[k] = "none"
<1>1. \A t \in Threads : at[t] # k
  <2>1. SUFFICES ASSUME NEW t \in Threads, at[t] = k  PROVE FALSE
    OBVIOUS
  <2>2. t \in Closers /\ at[t] # None
    BY <2>1, ThreadFacts, KeyFacts
  <2>3. QED  BY <2>1, <2>2 DEF OrdersInv, ThreadInv, EntryLegs
<1>2. QED  BY <1>1, SettledStays

\* A rollback or a sale of the long leg has one key.
LEMMA OnceInvStays ==
    ASSUME TypeOK, OrdersInv, Moves
    PROVE  OnceInv'
<1>1. SUFFICES ASSUME NEW leg \in {"rollback", "long_exit"}, NEW n \in Attempts, n # 0
               PROVE  intent'[<<leg, n>>] = "none"
  BY DEF OnceInv
<1> DEFINE k == <<leg, n>>
<1>2. k \in Keys /\ k[1] = leg /\ k[2] = n
  BY KeyFacts DEF Legs, Fields
<1>3. intent[k] = "none"
  BY <1>1 DEF OrdersInv, OnceInv
<1> HIDE DEF k
<1>4. intent'[k] = "none"
  BY <1>1, <1>2, <1>3, CreatedBy
<1>5. QED  BY <1>4 DEF k

\* Keys of the entry legs and the rollback.
LEMMA EntryKeys ==
    \A f \in EntryLegs \cup {"rollback"}, n \in Attempts :
      <<f, n>> \in Keys /\ <<f, n>>[1] = f /\ <<f, n>>[2] = n
BY KeyFacts DEF EntryLegs, Legs, Fields

\* While the opener has not sold the long leg again, it is at one rung: the
\* others are settled, the later ones not yet sent.
LEMMA RungInvStays ==
    ASSUME TypeOK, OrdersInv, EntryInv, Moves, ThreadsMove
    PROVE  RungInv'
<1>1. SUFFICES ASSUME NEW f \in EntryLegs, NEW r \in Attempts, NEW n \in Attempts,
                      at'[Opener] = <<f, r>>
               PROVE  /\ n # r => Settled(<<f, n>>)'
                      /\ n > r => intent'[<<f, n>>] = "none"
  BY DEF RungInv
<1>2. /\ <<f, n>> \in Keys /\ <<f, n>>[1] = f /\ <<f, r>> \in Keys /\ <<f, r>> # None
      /\ <<f, r>>[1] = f /\ <<f, r>>[2] = r /\ f # "rollback"
  BY EntryKeys, KeyFacts DEF EntryLegs
<1>3. ASSUME at[Opener] # <<f, n>>
      PROVE  /\ Settled(<<f, n>>) => Settled(<<f, n>>)'
             /\ intent[<<f, n>>] = "none" => intent'[<<f, n>>] = "none"
  BY <1>2, <1>3, EntryKeyFacts
<1>4. CASE at[Opener] = <<f, r>>
  <2>1. (n # r => Settled(<<f, n>>)) /\ (n > r => intent[<<f, n>>] = "none")
    BY <1>4 DEF EntryInv, RungInv
  <2>2. n # r => at[Opener] # <<f, n>>
    BY <1>4
  <2>3. n > r => n # r
    BY KeyFacts
  <2>4. QED  BY <1>3, <2>1, <2>2, <2>3
<1>5. CASE at'[Opener] = <<"short_entry", 0>> /\ AtLeg(Opener, "long_entry")
  <2>1. f = "short_entry"
    BY <1>1, <1>5
  <2>2. intent[<<f, n>>] = "none" /\ at[Opener] # <<f, n>>
    BY <1>2, <1>5, <2>1 DEF EntryInv, FirstInv, AtLeg
  <2>3. QED  BY <1>3, <2>2 DEF Settled
<1>6. CASE /\ at'[Opener] = <<at[Opener][1], at[Opener][2] + 1>>
           /\ at[Opener] # None /\ at[Opener][1] \in EntryLegs
           /\ Settled(at[Opener]) /\ intent[at[Opener]] # "none"
  <2> DEFINE q == at[Opener][2]
  <2>1. at[Opener] \in Keys /\ at[Opener] = <<f, q>> /\ q \in Attempts /\ r = q + 1
    <3>1. at[Opener] \in Keys
      BY <1>6, ThreadFacts DEF TypeOK
    <3>2. at[Opener] = <<at[Opener][1], q>> /\ q \in Attempts
      BY <3>1, KeyFacts
    <3>3. <<f, r>> = <<at[Opener][1], q + 1>>
      BY <1>1, <1>6
    <3>4. f = at[Opener][1] /\ r = q + 1
      BY <3>3
    <3>5. QED  BY <3>1, <3>2, <3>4
  <2>2. (n # q => Settled(<<f, n>>)) /\ (n > q => intent[<<f, n>>] = "none")
    BY <2>1 DEF EntryInv, RungInv
  <2>3. CASE n = q
    <3>1. Settled(<<f, n>>)'
      BY <1>2, <1>6, <2>1, <2>3, DeadStays
    <3>2. ~(n > r)
      BY <2>1, <2>3, KeyFacts
    <3>3. QED  BY <3>1, <3>2
  <2>4. CASE n # q
    <3>1. at[Opener] # <<f, n>>
      BY <2>1, <2>4
    <3>2. n > r => n > q
      BY <2>1, KeyFacts
    <3>3. QED  BY <1>3, <2>2, <2>4, <3>1, <3>2
  <2>5. QED  BY <2>3, <2>4
<1>7. CASE at'[Opener] = at[Opener]
  BY <1>1, <1>4, <1>7
<1>8. at'[Opener] # None /\ at'[Opener] # <<"rollback", 0>>
  BY <1>1, <1>2
<1>9. QED
  BY <1>5, <1>6, <1>7, <1>8 DEF ThreadsMove, OpenerMove, Still, Advances, AtLeg

\* Behind the opener every leg of the entry has one order at most, and the
\* short leg none before the long one is bought.
LEMMA FirstInvStays ==
    ASSUME TypeOK, OrdersInv, EntryInv, Moves, ThreadsMove
    PROVE  FirstInv'
<1>1. SUFFICES ASSUME at'[Opener] # None, at'[Opener][1] = "long_entry", NEW n \in Attempts
               PROVE  intent'[<<"short_entry", n>>] = "none"
  BY DEF FirstInv, AtLeg
<1>2. <<"short_entry", n>> \in Keys /\ <<"short_entry", n>>[1] = "short_entry"
  BY EntryKeys DEF EntryLegs
<1>3. AtLeg(Opener, "long_entry")
  BY <1>1 DEF ThreadsMove, OpenerMove, Still, Advances, AtLeg
<1>4. intent[<<"short_entry", n>>] = "none"
  BY <1>3 DEF EntryInv, FirstInv
<1>5. at[Opener] # <<"short_entry", n>>
  BY <1>2, <1>3 DEF AtLeg
<1>6. QED  BY <1>2, <1>4, <1>5, EntryKeyFacts DEF EntryLegs

LEMMA UniqueInvStays ==
    ASSUME TypeOK, OrdersInv, EntryInv, Moves, ThreadsMove
    PROVE  UniqueInv'
<1>1. SUFFICES ASSUME NEW f \in EntryLegs, ~AtLeg(Opener, f)'
               PROVE  \E r \in Attempts : \A n \in Attempts : n # r => Settled(<<f, n>>)'
  BY DEF UniqueInv
<1>2. PICK r \in Attempts : /\ \A n \in Attempts : n # r => Settled(<<f, n>>)
                            /\ AtLeg(Opener, f) => at[Opener] = <<f, r>>
  <2>1. CASE AtLeg(Opener, f)
    <3>1. at[Opener] = <<f, at[Opener][2]>> /\ at[Opener][2] \in Attempts
      BY <2>1, KeyFacts, ThreadFacts DEF AtLeg, TypeOK
    <3>2. QED  BY <3>1 DEF EntryInv, RungInv
  <2>2. CASE ~AtLeg(Opener, f)
    BY <2>2 DEF EntryInv, UniqueInv
  <2>3. QED  BY <2>1, <2>2
<1>3. ASSUME NEW n \in Attempts, n # r  PROVE Settled(<<f, n>>)'
  <2>1. <<f, n>> \in Keys /\ <<f, n>>[1] = f /\ <<f, n>> # None /\ <<f, n>> # <<f, r>>
    BY <1>3, EntryKeys, KeyFacts
  <2>2. at[Opener] # <<f, n>>
    BY <1>2, <2>1 DEF AtLeg
  <2>3. QED  BY <1>2, <1>3, <2>1, <2>2, EntryKeyFacts
<1>4. QED  BY <1>3

\* The short leg is only sent behind a filled long order.
LEMMA HedgeInvStays ==
    ASSUME TypeOK, OrdersInv, EntryInv, Moves, ThreadsMove
    PROVE  HedgeInv'
<1>1. LongHeld => LongHeld'
  BY PositionsStay
<1>2. CASE AtLeg(Opener, "short_entry") \/ \E n \in Attempts : intent[<<"short_entry", n>>] # "none"
  BY <1>1, <1>2 DEF EntryInv, HedgeInv
<1>3. CASE /\ ~AtLeg(Opener, "short_entry")
           /\ \A n \in Attempts : intent[<<"short_entry", n>>] = "none"
  <2>1. \A n \in Attempts : intent'[<<"short_entry", n>>] = "none"
    <3>1. SUFFICES ASSUME NEW n \in Attempts  PROVE intent'[<<"short_entry", n>>] = "none"
      OBVIOUS
    <3>2. /\ <<"short_entry", n>> \in Keys /\ <<"short_entry", n>>[1] = "short_entry"
          /\ <<"short_entry", n>> # None
      BY EntryKeys, KeyFacts DEF EntryLegs
    <3>3. at[Opener] # <<"short_entry", n>>
      BY <1>3, <3>2 DEF AtLeg
    <3>4. QED  BY <1>3, <3>2, <3>3, EntryKeyFacts DEF EntryLegs
  <2>2. ASSUME at'[Opener] # None, at'[Opener][1] = "short_entry"  PROVE LongHeld'
    <3>1. at[Opener][1] = "long_entry" /\ at[Opener] # None /\ order[at[Opener]].state = "filled"
      BY <1>3, <2>2 DEF ThreadsMove, OpenerMove, Still, Advances, AtLeg
    <3>2. at[Opener] = <<"long_entry", at[Opener][2]>> /\ at[Opener][2] \in Attempts
      BY <3>1, KeyFacts, ThreadFacts DEF TypeOK
    <3>3. LongHeld
      BY <3>1, <3>2 DEF LongHeld
    <3>4. QED  BY <1>1, <3>3
  <2>3. QED  BY <2>1, <2>2 DEF HedgeInv, AtLeg
<1>4. QED  BY <1>2, <1>3

\* A rollback is only sent when no rung of the short leg can fill any more.
LEMMA RollbackInvStays ==
    ASSUME TypeOK, OrdersInv, EntryInv, Moves, ThreadsMove
    PROVE  RollbackInv'
<1>1. ASSUME NEW n \in Attempts
      PROVE  /\ <<"short_entry", n>> \in Keys /\ <<"short_entry", n>>[1] = "short_entry"
             /\ <<"rollback", n>> \in Keys /\ <<"rollback", n>>[1] = "rollback"
             /\ <<"rollback", n>> # None /\ <<"short_entry", n>> # None
  BY EntryKeys, KeyFacts DEF EntryLegs
<1>2. CASE AtLeg(Opener, "rollback") \/ \E n \in Attempts : intent[<<"rollback", n>>] # "none"
  <2>1. /\ \A n \in Attempts : Settled(<<"short_entry", n>>)
        /\ ~AtLeg(Opener, "short_entry") /\ ~AtLeg(Opener, "long_entry")
    BY <1>2 DEF EntryInv, RollbackInv
  <2>2. ASSUME NEW n \in Attempts  PROVE Settled(<<"short_entry", n>>)'
    <3>1. at[Opener] # <<"short_entry", n>>
      BY <1>1, <2>1 DEF AtLeg
    <3>2. QED  BY <1>1, <2>1, <3>1, EntryKeyFacts DEF EntryLegs
  <2>3. ~AtLeg(Opener, "short_entry")' /\ ~AtLeg(Opener, "long_entry")'
    BY <2>1 DEF ThreadsMove, OpenerMove, Still, Advances, AtLeg, EntryLegs
  <2>4. QED  BY <2>2, <2>3 DEF RollbackInv
<1>3. CASE /\ ~AtLeg(Opener, "rollback")
           /\ \A n \in Attempts : intent[<<"rollback", n>>] = "none"
  <2>1. ASSUME NEW n \in Attempts  PROVE intent'[<<"rollback", n>>] = "none"
    <3>1. at[Opener] # <<"rollback", n>>
      BY <1>1, <1>3 DEF AtLeg
    <3>2. QED  BY <1>1, <1>3, <3>1, EntryKeyFacts
  <2>2. CASE AtLeg(Opener, "rollback")'
    <3>1. PICK k \in Keys : at[Opener] = k /\ k[1] = "short_entry" /\ Settled(k)'
      BY <1>3, <2>2 DEF ThreadsMove, OpenerMove, Still, Advances, AtLeg, EntryLegs
    <3>2. at'[Opener] = <<"rollback", 0>>
      BY <1>3, <2>2, <3>1 DEF ThreadsMove, OpenerMove, Still, Advances, AtLeg, EntryLegs
    <3>3. PICK r \in Attempts : k = <<"short_entry", r>>
      BY <3>1, KeyFacts
    <3>4. ASSUME NEW n \in Attempts, n # r  PROVE Settled(<<"short_entry", n>>)'
      <4>1. at[Opener] # <<"short_entry", n>>
        BY <3>1, <3>3, <3>4
      <4>2. Settled(<<"short_entry", n>>)
        BY <3>1, <3>3, <3>4 DEF EntryInv, RungInv, EntryLegs
      <4>3. QED  BY <1>1, <4>1, <4>2, EntryKeyFacts DEF EntryLegs
    <3>5. \A n \in Attempts : Settled(<<"short_entry", n>>)'
      BY <3>1, <3>3, <3>4
    <3>6. ~AtLeg(Opener, "short_entry")' /\ ~AtLeg(Opener, "long_entry")'
      BY <2>2 DEF AtLeg
    <3>7. QED  BY <3>5, <3>6 DEF RollbackInv
  <2>3. CASE ~AtLeg(Opener, "rollback")'
    BY <2>1, <2>3 DEF RollbackInv
  <2>4. QED  BY <2>2, <2>3
<1>4. QED  BY <1>2, <1>3

\* Keys of the exits.
LEMMA ExitKeys ==
    \A f \in {"short_exit", "long_exit"}, n \in Attempts :
      <<f, n>> \in Keys /\ <<f, n>>[1] = f /\ <<f, n>>[2] = n /\ <<f, n>> # None
BY KeyFacts DEF Legs, Fields

\* Closers only work on a spread whose short leg was sold, and sell the long
\* leg only when the short one was bought back.
LEMMA ExitInvStays ==
    ASSUME TypeOK, OrdersInv, CloseInv, Moves, ThreadsMove, RowMove
    PROVE  ExitInv'
<1>1. (ShortSold => ShortSold') /\ (BoughtBack => BoughtBack')
  BY PositionsStay
<1>2. /\ row'.status \notin EntryStatuses => ShortSold
      /\ row'.status \in {"exit_pending_long", "closed"} => BoughtBack
  BY DEF RowMove, Truthful
<1>3. ASSUME NEW t \in Closers, pc'[t] # "idle"  PROVE ShortSold
  <2>1. CASE pc[t] # "idle"
    BY <2>1 DEF CloseInv, ExitInv
  <2>2. CASE pc[t] = "idle"
    <3>1. at[t] = None
      BY <2>2, ThreadFacts DEF OrdersInv, ThreadInv, Active
    <3>2. row'.status \in {"open", "exit_pending_long"}
      BY <1>3, <2>2, <3>1 DEF ThreadsMove, CloserMove, Still, Advances
    <3>3. QED  BY <1>2, <3>2 DEF EntryStatuses
  <2>3. QED  BY <2>1, <2>2
<1>4. ASSUME NEW t \in Closers, AtLeg(t, "long_exit")'  PROVE BoughtBack
  <2>1. CASE AtLeg(t, "long_exit")
    BY <2>1 DEF CloseInv, ExitInv
  <2>2. CASE ~AtLeg(t, "long_exit")
    <3>1. at'[t] # None /\ at'[t][1] = "long_exit"
      BY <1>4 DEF AtLeg
    <3>2. at'[t] # at[t]
      BY <2>2, <3>1 DEF AtLeg
    <3>3. \A n : at'[t] # <<"short_exit", n>>
      BY <3>1
    <3>4. (pc[t] = "idle" /\ row'.status = "exit_pending_long") \/ BoughtBack
      BY <3>1, <3>2, <3>3 DEF ThreadsMove, CloserMove, Still, Advances
    <3>5. QED  BY <1>2, <3>4
  <2>3. QED  BY <2>1, <2>2
<1>5. ASSUME NEW f \in {"short_exit", "long_exit"}, NEW n \in Attempts, intent'[<<f, n>>] # "none"
      PROVE  ShortSold /\ (f = "long_exit" => BoughtBack)
  <2>1. CASE intent[<<f, n>>] # "none"
    <3>1. CASE f = "short_exit"
      BY <2>1, <3>1 DEF CloseInv, ExitInv
    <3>2. CASE f = "long_exit"
      <4>1. BoughtBack
        BY <2>1, <3>2 DEF CloseInv, ExitInv
      <4>2. PICK m \in Attempts : order[<<"short_exit", m>>].state = "filled"
        BY <4>1 DEF BoughtBack
      <4>3. intent[<<"short_exit", m>>] # "none"
        BY <4>2, ExitKeys DEF OrdersInv, OrderInv
      <4>4. QED  BY <4>1, <4>3 DEF CloseInv, ExitInv
    <3>3. QED  BY <3>1, <3>2
  <2>2. CASE intent[<<f, n>>] = "none"
    <3>1. PICK t \in Closers : pc[t] = "submit" /\ at[t] = <<f, n>>
      BY <1>5, <2>2, ExitKeys, CreatedBy
    <3>2. at[t] # None /\ at[t][1] = f
      BY <3>1, ExitKeys
    <3>3. QED  BY <3>1, <3>2 DEF CloseInv, ExitInv, AtLeg
  <2>3. QED  BY <2>1, <2>2
<1>6. QED  BY <1>1, <1>3, <1>4, <1>5 DEF ExitInv

\* While a spread counts as an entry nobody closes it.
LEMMA PhaseInvStays ==
    ASSUME TypeOK, OrdersInv, CloseInv, Moves, ThreadsMove, RowMove
    PROVE  PhaseInv'
<1>1. SUFFICES ASSUME row'.status \in EntryStatuses
               PROVE  /\ \A t \in Closers : pc'[t] = "idle"
                      /\ \A n \in Attempts : intent'[<<"short_exit", n>>] = "none"
  BY DEF PhaseInv
<1>2. /\ \A t \in Closers : pc[t] = "idle"
      /\ \A n \in Attempts : intent[<<"short_exit", n>>] = "none"
  BY <1>1 DEF RowMove, CloseInv, PhaseInv
<1>3. ASSUME NEW t \in Closers  PROVE pc'[t] = "idle"
  <2>1. pc[t] = "idle" /\ at[t] = None
    BY <1>2, ThreadFacts DEF OrdersInv, ThreadInv, Active
  <2>2. row'.status \notin {"open", "exit_pending_long"}
    BY <1>1 DEF EntryStatuses
  <2>3. QED  BY <2>1, <2>2 DEF ThreadsMove, CloserMove, Still, Advances
<1>4. ASSUME NEW n \in Attempts  PROVE intent'[<<"short_exit", n>>] = "none"
  <2>1. SUFFICES ASSUME intent'[<<"short_exit", n>>] # "none"  PROVE FALSE
    OBVIOUS
  <2>2. PICK t \in Closers : pc[t] = "submit"
    BY <1>2, <2>1, ExitKeys, CreatedBy
  <2>3. QED  BY <1>2, <2>2
<1>5. QED  BY <1>3, <1>4

\* A closing order is only replaced when it is canceled.
LEMMA ReplaceInvStays ==
    ASSUME TypeOK, OrdersInv, CloseInv, Moves, ThreadsMove
    PROVE  ReplaceInv'
<1> DEFINE Sent(n) == intent[<<"short_exit", n>>] # "none" \/ \E t \in Closers : at[t] = <<"short_exit", n>>
<1>1. SUFFICES ASSUME NEW m \in Attempts, NEW n \in Attempts, m < n,
                      \/ intent'[<<"short_exit", n>>] # "none"
                      \/ \E t \in Closers : at'[t] = <<"short_exit", n>>
               PROVE  order'[<<"short_exit", m>>].state = "canceled"
  BY DEF ReplaceInv
<1>2. SUFFICES order[<<"short_exit", m>>].state = "canceled"
  BY OrdersStay, ExitKeys
<1>3. ASSUME NEW p \in Attempts, Sent(p), m < p  PROVE order[<<"short_exit", m>>].state = "canceled"
  BY <1>3 DEF CloseInv, ReplaceInv
<1>4. CASE Sent(n)
  BY <1>1, <1>3, <1>4
<1>5. CASE ~Sent(n)
  <2>1. intent'[<<"short_exit", n>>] = "none"
    BY <1>5, ExitKeys, CreatedBy
  <2>2. PICK t \in Closers : at'[t] = <<"short_exit", n>> /\ at[t] # <<"short_exit", n>>
    BY <1>1, <1>5, <2>1
  <2>3. n # 0
    BY <1>1, KeyFacts
  <2>4. PICK p \in Attempts : <<"short_exit", n>> = <<"short_exit", p + 1>>
                              /\ order[<<"short_exit", p>>].state = "canceled"
    <3>1. <<"short_exit", n>> # None /\ <<"short_exit", n>> # <<"short_exit", 0>>
          /\ <<"short_exit", n>> # <<"long_exit", 0>>
      BY <2>3, ExitKeys
    <3>2. QED  BY <2>2, <3>1 DEF ThreadsMove, CloserMove, Still, Advances
  <2>5. n = p + 1
    BY <2>4
  <2>6. CASE m = p
    BY <2>4, <2>6
  <2>7. CASE m # p
    <3>1. m < p
      BY <1>1, <2>5, <2>7, KeyFacts
    <3>2. Sent(p)
      BY <2>4, ExitKeys DEF OrdersInv, OrderInv
    <3>3. QED  BY <1>3, <3>1, <3>2
  <2>8. QED  BY <2>6, <2>7
<1>6. QED  BY <1>4, <1>5

-----------------------------------------------------------------------------
(* The theorems.                                                           *)

\* The invariant holds when the entry begins.
LEMMA InitInv == Init => SpreadInv
<1> SUFFICES ASSUME Init  PROVE SpreadInv
  OBVIOUS
<1>1. /\ \A k \in Keys : order[k] = [state |-> "none", done |-> 0] /\ intent[k] = "none"
      /\ \A t \in Closers : pc[t] = "idle" /\ at[t] = None
      /\ pc[Opener] = "submit" /\ at[Opener] = <<"long_entry", 0>>
      /\ row.status = "entry_pending_long" /\ fresh = {Opener, Entry}
  BY ThreadFacts DEF Init
<1>2. <<"long_entry", 0>> \in Keys /\ <<"long_entry", 0>> # None
  BY EntryKeys, KeyFacts DEF EntryLegs
<1>3. TypeOK
  <2>1. order \in [Keys -> [state : OrderStates, done : 0..Contracts]]
    BY SpreadConstants DEF Init, OrderStates
  <2>2. RowType(row)
    BY DEF Init, RowType, Statuses, Warnings
  <2>3. fresh \subseteq Copies
    BY <1>1, ThreadFacts
  <2>4. /\ pc \in [Threads -> {"idle", "decide", "submit", "calling", "link", "await",
                              "opened", "stopped", "crashed"}]
        /\ at \in [Threads -> Keys \cup {None}]
    BY <1>2 DEF Init
  <2>5. intent \in [Keys -> {"none", "open", "persisted", "rejected"}]
    BY DEF Init
  <2>6. QED  BY <2>1, <2>2, <2>3, <2>4, <2>5 DEF TypeOK, RowType
<1>4. OrdersInv
  <2>1. OrderInv
    BY <1>1 DEF OrderInv
  <2>2. ThreadInv
    BY <1>1, <1>2, ThreadFacts DEF ThreadInv, Active, EntryLegs
  <2>3. OnceInv
    BY <1>1, EntryKeys, ExitKeys DEF OnceInv
  <2>4. QED  BY <2>1, <2>2, <2>3 DEF OrdersInv
<1>5. EntryInv
  <2>1. \A f \in EntryLegs \cup {"rollback"}, n \in Attempts :
          intent[<<f, n>>] = "none" /\ Settled(<<f, n>>)
    BY <1>1, EntryKeys DEF Settled
  <2>2. RungInv /\ FirstInv
    BY <2>1 DEF RungInv, FirstInv, EntryLegs
  <2>3. UniqueInv
    BY <2>1, KeyFacts DEF UniqueInv
  <2>4. HedgeInv /\ RollbackInv
    <3>1. ~AtLeg(Opener, "short_entry") /\ ~AtLeg(Opener, "rollback")
      BY <1>1 DEF AtLeg
    <3>2. QED  BY <2>1, <3>1 DEF HedgeInv, RollbackInv, EntryLegs
  <2>5. QED  BY <2>2, <2>3, <2>4 DEF EntryInv
<1>6. CloseInv
  <2>1. \A f \in {"short_exit", "long_exit"}, n \in Attempts : intent[<<f, n>>] = "none"
    BY <1>1, ExitKeys
  <2>2. ExitInv /\ PhaseInv /\ ReplaceInv
    BY <1>1, <2>1, ExitKeys DEF ExitInv, PhaseInv, ReplaceInv, AtLeg
  <2>3. Truthful(row)
    BY <1>1 DEF Truthful, EntryStatuses
  <2>4. CopyInv
    BY <1>1 DEF CopyInv
  <2>5. QED  BY <2>2, <2>3, <2>4 DEF CloseInv
<1>7. QED  BY <1>3, <1>4, <1>5, <1>6 DEF SpreadInv

\* Copies of the row are held by threads.
LEMMA FreshStays ==
    ASSUME TypeOK, Next
    PROVE  fresh' \subseteq Copies
<1> USE ThreadFacts
<1>1. fresh \subseteq Copies
  BY DEF TypeOK
<1>2. ASSUME NEW c \in Copies, NEW new, TryUpdate(c, new)  PROVE fresh' \subseteq Copies
  BY <1>1, <1>2, UpdateFacts
<1>3. ASSUME NEW t \in Threads, SubmitRaises(t)  PROVE fresh' \subseteq Copies
  <2>1. CASE t # Opener
    BY <1>1, <1>3, <2>1 DEF SubmitRaises
  <2>2. CASE t = Opener /\ at[t][1] = "rollback"
    BY <1>2, <1>3, <2>2 DEF SubmitRaises
  <2>3. CASE t = Opener /\ at[t][1] # "rollback"
    BY <1>2, <1>3, <2>3 DEF SubmitRaises
  <2>4. QED  BY <2>1, <2>2, <2>3
<1>4. ASSUME NEW t \in Threads, SubmitRefused(t)  PROVE fresh' \subseteq Copies
  BY <1>1, <1>2, <1>3, <1>4 DEF SubmitRefused
<1>5. ASSUME NEW t \in Threads, SubmitStep(t)  PROVE fresh' \subseteq Copies
  <2>1. CASE SubmitNew(t) \/ SubmitReplay(t) \/ CallReturns(t)
    BY <1>1, <1>3, <1>4, <2>1 DEF SubmitNew, SubmitReplay, CallReturns
  <2>2. CASE LinkOrder(t)
    BY <1>1, <1>2, <2>2 DEF LinkOrder, TryUpdate
  <2>3. QED  BY <1>5, <2>1, <2>2 DEF SubmitStep
<1>6. CASE OpenerStep
  <2>1. CASE LongEntryFilled
    BY <1>1, <2>1 DEF LongEntryFilled, UpdateRaises
  <2>2. CASE ShortEntryFilled \/ LongEntryUnfilled
    BY <1>2, <2>2 DEF ShortEntryFilled, LongEntryUnfilled
  <2>3. CASE EntryUnclear \/ NextRung \/ ShortEntryUnfilled
    BY <1>1, <1>3, <2>3 DEF EntryUnclear, NextRung, ShortEntryUnfilled
  <2>4. CASE RollbackEnds
    BY <1>1, <1>2, <2>4 DEF RollbackEnds
  <2>5. QED  BY <1>5, <1>6, <2>1, <2>2, <2>3, <2>4 DEF OpenerStep
<1>7. ASSUME NEW t \in Closers, CloserStep(t)  PROVE fresh' \subseteq Copies
  <2>1. CASE MonitorSpread(t) \/ RecoverClose(t) \/ ShortExitFilled(t) \/ GivesUp(t)
    BY <1>1, <2>1 DEF MonitorSpread, RecoverClose, ShortExitFilled, GivesUp
  <2>2. CASE DecideExit(t)
    BY <1>1, <2>2 DEF DecideExit, Update, UpdateRaises
  <2>3. CASE ShortExitUnfilled(t) \/ ShortExitUnclear(t) \/ LongExitEnds(t)
    BY <1>2, <2>3 DEF ShortExitUnfilled, ShortExitUnclear, LongExitEnds
  <2>4. QED  BY <1>5, <1>7, <2>1, <2>2, <2>3 DEF CloserStep
<1>8. CASE RefreshSpread \/ Crash
  BY <1>1, <1>8 DEF RefreshSpread, Crash
<1>9. ASSUME NEW k \in Keys, Broker(k) \/ Reconcile(k) \/ ResolveNoOrder(k) \/ Relink(k)
      PROVE  fresh' \subseteq Copies
  BY <1>1, <1>9
     DEF Broker, BrokerAccepts, BrokerFills, BrokerCancels, Reconcile, ResolveNoOrder, Relink
<1>10. QED  BY <1>6, <1>7, <1>8, <1>9 DEF Next

\* Every step keeps it and moves the row as RowMove says.
LEMMA StepInv ==
    ASSUME SpreadInv, Next
    PROVE  SpreadInv' /\ RowMove
<1> USE DEF SpreadInv
<1>1. Moves /\ ThreadsMove
  BY StepMoves, StepThreads
<1>2. RowMove /\ CopyInv'
  BY StepRow DEF RowAndCopies
<1>3. fresh' \subseteq Copies
  BY FreshStays
<1>4. OrdersInv'
  BY <1>1, OrderInvStays, ThreadInvStays, OnceInvStays DEF OrdersInv
<1>5. EntryInv'
  BY <1>1, RungInvStays, FirstInvStays, UniqueInvStays, HedgeInvStays, RollbackInvStays DEF EntryInv
<1>6. Truthful(row)'
  BY <1>1, <1>2, PositionsStay, OrdersStay, EntryKeys, ExitKeys, KeyFacts DEF RowMove, Truthful
<1>7. CloseInv'
  BY <1>1, <1>2, <1>6, ExitInvStays, PhaseInvStays, ReplaceInvStays DEF CloseInv
<1>8. TypeOK'
  BY <1>1, <1>2, <1>3 DEF TypeOK, Moves, ThreadsMove, RowMove, RowType, Places
<1>9. QED  BY <1>2, <1>4, <1>5, <1>7, <1>8

\* It speaks of nothing but the variables.
LEMMA SpreadKept ==
    ASSUME SpreadInv, UNCHANGED vars
    PROVE  SpreadInv'
<1>1. /\ order' = order /\ intent' = intent /\ row' = row
      /\ fresh' = fresh /\ pc' = pc /\ at' = at
  BY DEF vars
<1>2. \A k : Settled(k)' <=> Settled(k)
  BY <1>1 DEF Settled
<1>3. (LongHeld' <=> LongHeld) /\ (ShortSold' <=> ShortSold) /\ (BoughtBack' <=> BoughtBack)
  BY <1>1 DEF LongHeld, ShortSold, BoughtBack
<1>4. TypeOK'
  BY <1>1 DEF SpreadInv, TypeOK
<1>5. OrdersInv'
  BY <1>1 DEF SpreadInv, OrdersInv, OrderInv, ThreadInv, OnceInv
<1>6. RungInv' /\ FirstInv' /\ UniqueInv'
  BY <1>1, <1>2 DEF SpreadInv, EntryInv, RungInv, FirstInv, UniqueInv, AtLeg
<1>7. HedgeInv' /\ RollbackInv'
  BY <1>1, <1>2, <1>3 DEF SpreadInv, EntryInv, HedgeInv, RollbackInv, AtLeg
<1>8. ExitInv' /\ PhaseInv' /\ ReplaceInv'
  BY <1>1, <1>3 DEF SpreadInv, CloseInv, ExitInv, PhaseInv, ReplaceInv, AtLeg
<1>9. Truthful(row)' /\ CopyInv'
  BY <1>1, <1>3 DEF SpreadInv, CloseInv, Truthful, CopyInv
<1>10. QED  BY <1>4, <1>5, <1>6, <1>7, <1>8, <1>9 DEF SpreadInv, EntryInv, CloseInv

\* The invariant is one of the specification.
LEMMA Invariant == Spec => []SpreadInv
<1>1. SpreadInv /\ [Next]_vars => SpreadInv'
  BY SpreadKept, StepInv
<1>2. QED  BY InitInv, <1>1, PTL DEF Spec

\* An order that works or has executed has an intent and is not settled.
LEMMA LiveFacts ==
    ASSUME OrderInv, NEW k \in Keys, Live(k)
    PROVE  intent[k] # "none" /\ ~Settled(k)
BY DEF OrderInv, Live, Settled

\* Rows, orders and threads hold values of their types in every state.
THEOREM TypeCorrect == Spec => []TypeOK
<1>1. SpreadInv => TypeOK
  BY DEF SpreadInv
<1>2. QED  BY Invariant, <1>1, PTL

\* While a short put may be sold the long leg is held, for every number of
\* contracts, rungs, recoveries and concurrent monitors.
THEOREM Hedged == Spec => []ShortIsHedged
<1>1. ASSUME SpreadInv  PROVE ShortIsHedged
  <2>1. SUFFICES ASSUME NEW n \in Attempts, Live(<<"short_entry", n>>)
                 PROVE  /\ \E m \in Attempts : order[<<"long_entry", m>>].state = "filled"
                        /\ \A k \in {<<"rollback", 0>>, <<"long_exit", 0>>} : Live(k) => BoughtBack
    BY DEF ShortIsHedged
  <2>2. intent[<<"short_entry", n>>] # "none" /\ ~Settled(<<"short_entry", n>>)
    BY <1>1, <2>1, LiveFacts, EntryKeys DEF SpreadInv, OrdersInv, EntryLegs
  <2>3. LongHeld
    BY <1>1, <2>2 DEF SpreadInv, EntryInv, HedgeInv
  <2>4. ~Live(<<"rollback", 0>>)
    <3>1. SUFFICES ASSUME Live(<<"rollback", 0>>)  PROVE FALSE
      OBVIOUS
    <3>2. intent[<<"rollback", 0>>] # "none" /\ 0 \in Attempts
      BY <1>1, <3>1, LiveFacts, EntryKeys, KeyFacts DEF SpreadInv, OrdersInv
    <3>3. QED  BY <1>1, <2>2, <3>2 DEF SpreadInv, EntryInv, RollbackInv
  <2>5. Live(<<"long_exit", 0>>) => BoughtBack
    <3>1. SUFFICES ASSUME Live(<<"long_exit", 0>>)  PROVE BoughtBack
      OBVIOUS
    <3>2. intent[<<"long_exit", 0>>] # "none" /\ 0 \in Attempts
      BY <1>1, <3>1, LiveFacts, ExitKeys, KeyFacts DEF SpreadInv, OrdersInv
    <3>3. QED  BY <1>1, <3>2 DEF SpreadInv, CloseInv, ExitInv
  <2>6. QED  BY <2>3, <2>4, <2>5 DEF LongHeld
<1>2. QED  BY Invariant, <1>1, PTL

\* A leg is opened by one order and sold by one, and the short leg is not
\* bought back by two.
LEMMA OneOrderHolds == SpreadInv => OneOrderPerLeg
<1> SUFFICES ASSUME SpreadInv  PROVE OneOrderPerLeg
  OBVIOUS
<1>1. OrderInv
  BY DEF SpreadInv, OrdersInv
<1>2. ASSUME NEW f \in EntryLegs, NEW m \in Attempts, NEW n \in Attempts,
             Live(<<f, m>>), Live(<<f, n>>)
      PROVE  m = n
  <2>1. ~Settled(<<f, m>>) /\ ~Settled(<<f, n>>)
    BY <1>1, <1>2, LiveFacts, EntryKeys
  <2>2. PICK r \in Attempts : \A p \in Attempts : p # r => Settled(<<f, p>>)
    <3>1. CASE AtLeg(Opener, f)
      <4>1. at[Opener] = <<f, at[Opener][2]>> /\ at[Opener][2] \in Attempts
        BY <3>1, KeyFacts, ThreadFacts DEF AtLeg, SpreadInv, TypeOK
      <4>2. QED  BY <4>1 DEF SpreadInv, EntryInv, RungInv
    <3>2. CASE ~AtLeg(Opener, f)
      BY <3>2 DEF SpreadInv, EntryInv, UniqueInv
    <3>3. QED  BY <3>1, <3>2
  <2>3. QED  BY <2>1, <2>2
<1>3. ~(Live(<<"rollback", 0>>) /\ Live(<<"long_exit", 0>>))
  <2>1. SUFFICES ASSUME Live(<<"rollback", 0>>), Live(<<"long_exit", 0>>)  PROVE FALSE
    OBVIOUS
  <2>2. 0 \in Attempts /\ intent[<<"rollback", 0>>] # "none" /\ intent[<<"long_exit", 0>>] # "none"
    BY <1>1, <2>1, LiveFacts, EntryKeys, ExitKeys, KeyFacts
  <2>3. \A p \in Attempts : Settled(<<"short_entry", p>>)
    BY <2>2 DEF SpreadInv, EntryInv, RollbackInv
  <2>4. BoughtBack
    BY <2>2 DEF SpreadInv, CloseInv, ExitInv
  <2>5. PICK p \in Attempts : order[<<"short_exit", p>>].state = "filled"
    BY <2>4 DEF BoughtBack
  <2>6. ShortSold
    BY <1>1, <2>5, ExitKeys DEF OrderInv, SpreadInv, CloseInv, ExitInv
  <2>7. PICK q \in Attempts : order[<<"short_entry", q>>].state = "filled"
    BY <2>6 DEF ShortSold
  <2>8. <<"short_entry", q>> \in Keys
    BY EntryKeys DEF EntryLegs
  <2>9. QED  BY <1>1, <2>3, <2>7, <2>8 DEF OrderInv, Settled
<1>4. ASSUME NEW m \in Attempts, NEW n \in Attempts, m < n
      PROVE  ~({order[<<"short_exit", m>>].state, order[<<"short_exit", n>>].state}
                 \subseteq {"working", "filled"})
  <2>1. SUFFICES ASSUME order[<<"short_exit", n>>].state \in {"working", "filled"}
                 PROVE  order[<<"short_exit", m>>].state = "canceled"
    OBVIOUS
  <2>2. intent[<<"short_exit", n>>] # "none"
    BY <1>1, <2>1, ExitKeys DEF OrderInv
  <2>3. QED  BY <1>4, <2>2 DEF SpreadInv, CloseInv, ReplaceInv
<1>5. ASSUME NEW m \in Attempts, NEW n \in Attempts,
             {order[<<"short_exit", m>>].state, order[<<"short_exit", n>>].state}
               \subseteq {"working", "filled"}
      PROVE  m = n
  <2>1. ~(m < n) /\ ~(n < m)
    BY <1>4, <1>5
  <2>2. QED  BY <2>1, KeyFacts
<1>6. QED  BY <1>2, <1>3, <1>5 DEF OneOrderPerLeg, EntryLegs

\* So it is in every state.
THEOREM OneOrder == Spec => []OneOrderPerLeg
BY Invariant, OneOrderHolds, PTL

\* A spread that is closed or rolled back in the books has no position left.
THEOREM Flat == Spec => []FlatWhenFinished
<1>1. ASSUME SpreadInv  PROVE FlatWhenFinished
  <2>1. Truthful(row) /\ OrderInv
    BY <1>1 DEF SpreadInv, CloseInv, OrdersInv
  <2>2. CASE row.status = "rolled_back"
    <3>1. order[<<"rollback", 0>>].state = "filled" /\ 0 \in Attempts
      BY <2>1, <2>2, KeyFacts DEF Truthful
    <3>2. intent[<<"rollback", 0>>] # "none"
      BY <2>1, <3>1, EntryKeys DEF OrderInv
    <3>3. \A n \in Attempts : Settled(<<"short_entry", n>>)
      BY <1>1, <3>1, <3>2 DEF SpreadInv, EntryInv, RollbackInv
    <3>4. \A n \in Attempts : ~Live(<<"short_entry", n>>)
      BY <2>1, <3>3, LiveFacts, EntryKeys DEF EntryLegs
    <3>5. QED  BY <2>2, <3>1, <3>4 DEF FlatWhenFinished
  <2>3. CASE row.status # "rolled_back"
    BY <2>1, <2>3 DEF FlatWhenFinished, Truthful
  <2>4. QED  BY <2>2, <2>3
<1>2. QED  BY Invariant, <1>1, PTL

\* A finished spread is never opened again, whoever writes and whatever it
\* has read before.
THEOREM Final == Spec => FinishedIsFinal
<1>1. ASSUME SpreadInv, [Next]_vars  PROVE [row.status \in Finished => row'.status = row.status]_vars
  BY <1>1, StepInv DEF RowMove, vars
<1>2. QED  BY Invariant, <1>1, PTL DEF Spec, FinishedIsFinal

-----------------------------------------------------------------------------
(* The spread as a position: two more facts about its books and its entry. *)

Early == {"entry_pending_long", "entry_failed"}

\* A spread that waits for its long leg, or failed to get one, has sent
\* nothing else.
EarlyInv ==
    row.status \in Early =>
      /\ \A n \in Attempts :
           intent[<<"short_entry", n>>] = "none" /\ intent[<<"rollback", n>>] = "none"
      /\ ~AtLeg(Opener, "short_entry") /\ ~AtLeg(Opener, "rollback")

\* What is rolled back was bought.
HeldInv ==
    (AtLeg(Opener, "rollback") \/ \E n \in Attempts : intent[<<"rollback", n>>] # "none")
      => LongHeld

PositionInv == SpreadInv /\ EarlyInv /\ HeldInv

\* No step takes the row back to these statuses, nor lets the opener begin
\* the short leg in one.
EarlyMove ==
    row'.status \in Early =>
      /\ row.status \in Early
      /\ AtLeg(Opener, "short_entry")' => AtLeg(Opener, "short_entry")

\* A row that keeps its status, or gets another one, while the opener does
\* not begin the short leg.
LEMMA NotEarly ==
    ASSUME row' = row \/ row'.status = row.status \/ row'.status \notin Early,
           AtLeg(Opener, "short_entry")' => AtLeg(Opener, "short_entry")
    PROVE  EarlyMove
BY DEF EarlyMove

\* Only a filled long leg is followed by the short one.
LEMMA OpenerRests ==
    ASSUME TypeOK, NEW x, NEW k, GotoLeg(Opener, x, k)
    PROVE  at'[Opener] = k
BY ThreadFacts DEF TypeOK, GotoLeg, Goto

\* A submission of the opener that raises or is refused.
LEMMA RefusedNotEarly ==
    ASSUME TypeOK, OrdersInv, CloseInv, at[Opener] # None,
           SubmitRaises(Opener) \/ SubmitRefused(Opener)
    PROVE  EarlyMove
<1>1. RowType(row)
  BY DEF TypeOK, RowType
<1>2. CASE SubmitRaises(Opener)
  <2>1. ~AtLeg(Opener, "short_entry")'
    <3>1. at'[Opener] = None
      BY <1>2, OpenerRests DEF SubmitRaises, Stop
    <3>2. QED  BY <3>1 DEF AtLeg
  <2>2. \/ row' = row
        \/ row' = Marked(WithStatus("rollback_failed"))
        \/ row' = Marked(row)
    BY <1>2, UpdateFacts DEF SubmitRaises
  <2>3. row' = row \/ row'.status = row.status \/ row'.status = "rollback_failed"
    <3>1. [row EXCEPT !.status = "rollback_failed", !.warn = "review"].status = "rollback_failed"
      <4>1. "rollback_failed" \in Statuses /\ "review" \in Warnings
        BY DEF Statuses, Warnings
      <4>2. QED  BY <1>1, <4>1, RowTypeFacts
    <3>2. [row EXCEPT !.warn = "review"].status = row.status
      BY <1>1, RowTypeFacts DEF Warnings
    <3>3. Marked(WithStatus("rollback_failed"))
            = [row EXCEPT !.status = "rollback_failed", !.warn = "review"]
      BY DEF Marked, WithStatus
    <3>4. QED  BY <2>2, <3>1, <3>2, <3>3 DEF Marked
  <2>4. QED  BY <2>1, <2>3, NotEarly DEF Early
<1>3. CASE /\ at[Opener][1] = "long_entry"
           /\ TryUpdate(Entry, WithStatus("entry_failed"))
           /\ IF Entry \in fresh THEN Rest(Opener) ELSE Stop(Opener)
  <2>1. ~AtLeg(Opener, "short_entry")'
    <3>1. at'[Opener] = None
      BY <1>3, OpenerRests DEF Rest, Stop
    <3>2. QED  BY <3>1 DEF AtLeg
  <2>2. CASE Entry \in fresh
    <3>1. row.status = "entry_pending_long"
      BY <1>3, <2>2, OpenerCopyFacts
    <3>2. QED  BY <2>1, <3>1 DEF EarlyMove, Early
  <2>3. CASE Entry \notin fresh
    BY <1>3, <2>1, <2>3, UpdateFacts, NotEarly
  <2>4. QED  BY <2>2, <2>3
<1>4. CASE row' = row /\ GotoLeg(Opener, "submit", <<"rollback", 0>>)
  <2>1. at'[Opener] = <<"rollback", 0>>
    BY <1>4, OpenerRests
  <2>2. ~AtLeg(Opener, "short_entry")'
    BY <2>1 DEF AtLeg
  <2>3. QED  BY <1>4, <2>2, NotEarly
<1>5. QED  BY <1>2, <1>3, <1>4 DEF SubmitRefused

\* The submission of an order by the opener.
LEMMA SubmitNotEarly ==
    ASSUME TypeOK, OrdersInv, CloseInv, SubmitStep(Opener)
    PROVE  EarlyMove
<1>1. RowType(row)
  BY DEF TypeOK, RowType
<1>2. at[Opener] # None /\ at[Opener] \in Keys /\ at[Opener][1] \notin {"short_exit", "long_exit"}
  <2>1. pc[Opener] \in Active
    BY DEF SubmitStep, SubmitNew, SubmitReplay, CallReturns, LinkOrder, Active
  <2>2. at[Opener] # None /\ at[Opener] \in Keys
    BY <2>1, ThreadFacts DEF OrdersInv, ThreadInv, TypeOK
  <2>3. QED  BY <2>2 DEF OrdersInv, ThreadInv, EntryLegs
<1>3. ASSUME UNCHANGED at, row' = row \/ row'.status = row.status  PROVE EarlyMove
  BY <1>3, NotEarly DEF AtLeg
<1>4. CASE SubmitNew(Opener)
  BY <1>3, <1>4 DEF SubmitNew
<1>5. CASE SubmitReplay(Opener)
  BY <1>2, <1>3, <1>5, RefusedNotEarly DEF SubmitReplay
<1>6. CASE CallReturns(Opener)
  BY <1>2, <1>3, <1>6, RefusedNotEarly DEF CallReturns
<1>7. CASE LinkOrder(Opener)
  <2>1. Linked(at[Opener]).status = row.status /\ RowType(Linked(at[Opener]))
    BY <1>1, <1>2, LinkTypeFacts
  <2>2. CASE Update(Opener, Linked(at[Opener])) /\ UNCHANGED at
    BY <1>3, <2>1, <2>2 DEF Update
  <2>3. CASE TryUpdate(Entry, Marked(Linked(at[Opener]))) /\ Stop(Opener)
    <3>1. Marked(Linked(at[Opener])).status = row.status
      BY <2>1 DEF Marked, RowType
    <3>2. row' = row \/ row'.status = row.status
      BY <2>3, <3>1, UpdateFacts
    <3>3. at'[Opener] = None
      BY <2>3, OpenerRests DEF Stop
    <3>4. QED  BY <3>2, <3>3, NotEarly DEF AtLeg
  <2>4. CASE row' = row /\ Stop(Opener)
    <3>1. at'[Opener] = None
      BY <2>4, OpenerRests DEF Stop
    <3>2. QED  BY <2>4, <3>1, NotEarly DEF AtLeg
  <2>5. QED  BY <1>7, <2>2, <2>3, <2>4 DEF LinkOrder
<1>8. QED  BY <1>4, <1>5, <1>6, <1>7 DEF SubmitStep

\* The opener between two submissions.
LEMMA OpenerNotEarly ==
    ASSUME TypeOK, OrdersInv, CloseInv, OpenerStep
    PROVE  EarlyMove
<1>1. RowType(row)
  BY DEF TypeOK, RowType
<1>2. ASSUME NEW x, NEW k, GotoLeg(Opener, x, k), k = None \/ k[1] # "short_entry" \/ AtLeg(Opener, "short_entry"),
             row' = row \/ row'.status = row.status \/ row'.status \notin Early
      PROVE  EarlyMove
  <2>1. at'[Opener] = k
    BY <1>2, OpenerRests
  <2>2. QED  BY <1>2, <2>1, NotEarly DEF AtLeg
<1>3. CASE SubmitStep(Opener)
  BY <1>3, SubmitNotEarly
<1>4. CASE LongEntryFilled
  <2>1. CASE row' = WithStatus("entry_pending_short")
    <3>1. row'.status = "entry_pending_short"
      BY <1>1, <2>1, RowTypeFacts DEF WithStatus, Statuses
    <3>2. QED  BY <3>1 DEF EarlyMove, Early
  <2>2. CASE UpdateRaises(Opener) /\ Stop(Opener)
    BY <1>2, <2>2 DEF UpdateRaises, Stop
  <2>3. QED  BY <1>4, <2>1, <2>2 DEF LongEntryFilled
<1>5. CASE ShortEntryFilled
  <2>1. WithStatus("open").status = "open"
    BY <1>1, RowTypeFacts DEF WithStatus, Statuses
  <2>2. row' = row \/ row'.status \notin Early
    BY <1>5, <2>1, UpdateFacts DEF ShortEntryFilled, Early
  <2>3. QED  BY <1>2, <1>5, <2>2 DEF ShortEntryFilled
<1>6. CASE EntryUnclear
  <2>1. at[Opener] # None
    BY <1>6, AwaitedFacts, ThreadFacts DEF EntryUnclear, EntryAwaited, AtLeg
  <2>2. QED  BY <1>6, <2>1, RefusedNotEarly DEF EntryUnclear
<1>7. CASE NextRung
  <2>1. at[Opener] # None
    BY <1>7, AwaitedFacts, ThreadFacts DEF NextRung, EntryAwaited, AtLeg
  <2>2. CASE at[Opener][1] = "short_entry"
    BY <1>2, <1>7, <2>1, <2>2 DEF NextRung, AtLeg
  <2>3. CASE at[Opener][1] # "short_entry"
    BY <1>2, <1>7, <2>3 DEF NextRung
  <2>4. QED  BY <2>2, <2>3
<1>8. CASE LongEntryUnfilled
  <2>1. at[Opener] # None /\ at[Opener][1] = "long_entry"
    BY <1>8, AwaitedFacts, ThreadFacts DEF LongEntryUnfilled, AtLeg
  <2>2. at'[Opener] = None
    BY <1>8, OpenerRests DEF LongEntryUnfilled, Rest, Stop
  <2>3. CASE Opener \in fresh
    <3>1. row.status = "entry_pending_long"
      BY <2>1, <2>3, OpenerCopyFacts
    <3>2. QED  BY <2>2, <3>1 DEF EarlyMove, Early, AtLeg
  <2>4. CASE Opener \notin fresh
    <3>1. row' = row
      BY <1>8, <2>4, UpdateFacts DEF LongEntryUnfilled
    <3>2. QED  BY <2>2, <3>1, NotEarly DEF AtLeg
  <2>5. QED  BY <2>3, <2>4
<1>9. CASE ShortEntryUnfilled
  BY <1>2, <1>9 DEF ShortEntryUnfilled
<1>10. CASE RollbackEnds
  <2>1. WithStatus("rolled_back").status = "rolled_back"
    BY <1>1, RowTypeFacts DEF WithStatus, Statuses
  <2>2. Marked(WithStatus("rollback_failed")).status = "rollback_failed"
    <3>1. [row EXCEPT !.status = "rollback_failed", !.warn = "review"].status = "rollback_failed"
      <4>1. "rollback_failed" \in Statuses /\ "review" \in Warnings
        BY DEF Statuses, Warnings
      <4>2. QED  BY <1>1, <4>1, RowTypeFacts
    <3>2. Marked(WithStatus("rollback_failed"))
            = [row EXCEPT !.status = "rollback_failed", !.warn = "review"]
      BY DEF Marked, WithStatus
    <3>3. QED  BY <3>1, <3>2
  <2>3. row' = row \/ row'.status \in {"rolled_back", "rollback_failed"}
    BY <1>10, <2>1, <2>2, UpdateFacts DEF RollbackEnds
  <2>4. at'[Opener] = None
    BY <1>10, OpenerRests DEF RollbackEnds, Rest, Stop
  <2>5. QED  BY <2>3, <2>4, NotEarly DEF AtLeg, Early
<1>11. QED
  BY <1>3, <1>4, <1>5, <1>6, <1>7, <1>8, <1>9, <1>10 DEF OpenerStep

\* Every step.
LEMMA StepNotEarly ==
    ASSUME SpreadInv, Next
    PROVE  EarlyMove
<1> USE DEF SpreadInv
<1>1. RowMove
  BY StepInv
<1>2. ASSUME AtLeg(Opener, "short_entry")' => AtLeg(Opener, "short_entry"),
             row.status \notin Early => row'.status \notin Early
      PROVE  EarlyMove
  BY <1>2 DEF EarlyMove
<1>3. ASSUME row' \in RefreshedRows, row.status \notin Early  PROVE row'.status \notin Early
  <2>1. PICK s \in LinkedStates : row' = Refreshed(s)
    BY <1>3 DEF RefreshedRows
  <2> DEFINE next == Transition(row.status, s)
             warn == Warning(next.status, s.short_exit, next.manual)
  <2>2. row.status \in Statuses
    BY DEF TypeOK
  <2>3. next.status \notin Early
    BY <1>3, <2>2 DEF Transition, Statuses, Early
  <2>4. row' = [row EXCEPT !.status = next.status, !.warn = warn]
    BY <2>1 DEF Refreshed
  <2> HIDE DEF next, warn
  <2>5. row'.status = next.status
    BY <2>4 DEF TypeOK
  <2>6. QED  BY <2>3, <2>5
<1>4. CASE OpenerStep
  BY <1>4, OpenerNotEarly
<1>5. ASSUME NEW t \in Closers, CloserStep(t)  PROVE EarlyMove
  <2>1. at'[Opener] = at[Opener]
    <3>1. t # Opener /\ Opener \in Threads /\ at \in [Threads -> Keys \cup {None}]
      BY ThreadFacts DEF TypeOK
    <3> DEFINE Stays == at'[Opener] = at[Opener]
    <3>2. \A next, k : GotoLeg(t, next, k) => Stays
      BY <3>1 DEF GotoLeg
    <3>3. Rest(t) => Stays
      BY <3>2 DEF Rest
    <3>4. Stop(t) => Stays
      BY <3>2 DEF Stop
    <3>5. UNCHANGED at => Stays
      OBVIOUS
    <3> HIDE DEF Stays
    <3>6. ASSUME SubmitStep(t)  PROVE Stays
      <4>1. SubmitRaises(t) => Stays
        BY <3>3, <3>4 DEF SubmitRaises
      <4>2. SubmitRefused(t) => Stays
        BY <3>1, <4>1 DEF SubmitRefused
      <4>3. SubmitNew(t) => Stays
        BY <3>5 DEF SubmitNew
      <4>4. SubmitReplay(t) => Stays
        BY <3>5, <4>1, <4>2 DEF SubmitReplay
      <4>5. CallReturns(t) => Stays
        BY <3>5, <4>1, <4>2 DEF CallReturns
      <4>6. LinkOrder(t) => Stays
        BY <3>3, <3>4, <3>5 DEF LinkOrder
      <4>7. QED  BY <3>6, <4>3, <4>4, <4>5, <4>6 DEF SubmitStep
    <3>7. MonitorSpread(t) => Stays
      BY <3>2, <3>5 DEF MonitorSpread
    <3>8. DecideExit(t) => Stays
      BY <3>2, <3>3 DEF DecideExit
    <3>9. RecoverClose(t) => Stays
      BY <3>2 DEF RecoverClose
    <3>10. ShortExitFilled(t) => Stays
      BY <3>2 DEF ShortExitFilled
    <3>11. ShortExitUnfilled(t) => Stays
      BY <3>2, <3>3, <3>5 DEF ShortExitUnfilled
    <3>12. ShortExitUnclear(t) \/ LongExitEnds(t) \/ GivesUp(t) => Stays
      BY <3>3 DEF ShortExitUnclear, LongExitEnds, GivesUp
    <3>13. Stays
      BY <1>5, <3>6, <3>7, <3>8, <3>9, <3>10, <3>11, <3>12 DEF CloserStep
    <3>14. QED  BY <3>13 DEF Stays
  <2>2. row.status \notin Early => row'.status \notin Early
    <3>1. CASE row.status \notin EntryStatuses
      BY <1>1, <3>1 DEF RowMove, EntryStatuses, Early
    <3>2. CASE row.status \in EntryStatuses
      <4>1. pc[t] = "idle" /\ at[t] = None
        BY <3>2, ThreadFacts DEF CloseInv, PhaseInv, OrdersInv, ThreadInv, Active
      <4>2. t \in Threads
        BY ThreadFacts
      <4>3. ~SubmitStep(t) /\ ~DecideExit(t) /\ ~GivesUp(t)
        BY <4>1 DEF SubmitStep, SubmitNew, SubmitReplay, CallReturns, LinkOrder, DecideExit, GivesUp
      <4>4. ~ShortExitFilled(t) /\ ~ShortExitUnfilled(t) /\ ~ShortExitUnclear(t) /\ ~LongExitEnds(t)
        BY <4>1, <4>2, AwaitedFacts
           DEF ShortExitFilled, ShortExitUnfilled, ShortExitUnclear, LongExitEnds
      <4>5. MonitorSpread(t) \/ RecoverClose(t)
        BY <1>5, <4>3, <4>4 DEF CloserStep
      <4>6. QED  BY <4>5 DEF MonitorSpread, RecoverClose, Early
    <3>3. QED  BY <3>1, <3>2
  <2>3. QED  BY <1>2, <2>1, <2>2 DEF AtLeg
<1>6. CASE RefreshSpread
  BY <1>2, <1>3, <1>6 DEF RefreshSpread, AtLeg
<1>7. CASE Crash
  <2>1. at'[Opener] = None /\ row' = row
    BY <1>7, OpenerRests DEF Crash
  <2>2. QED  BY <2>1, NotEarly DEF AtLeg
<1>8. ASSUME NEW k \in Keys, Broker(k) \/ Reconcile(k) \/ ResolveNoOrder(k)  PROVE EarlyMove
  <2>1. row' = row /\ at' = at
    BY <1>8 DEF Broker, BrokerAccepts, BrokerFills, BrokerCancels, Reconcile, ResolveNoOrder
  <2>2. QED  BY <2>1, NotEarly DEF AtLeg
<1>9. ASSUME NEW k \in Keys, Relink(k)  PROVE EarlyMove
  <2>1. row'.status = row.status /\ at' = at
    BY <1>9 DEF Relink, Marked, TypeOK
  <2>2. QED  BY <2>1, NotEarly DEF AtLeg
<1>10. QED  BY <1>4, <1>5, <1>6, <1>7, <1>8, <1>9 DEF Next

\* Both facts are kept.
LEMMA PositionStep ==
    ASSUME PositionInv, [Next]_vars
    PROVE  PositionInv'
<1> USE DEF PositionInv
<1>1. CASE UNCHANGED vars
  <2>1. SpreadInv'
    BY <1>1, SpreadKept
  <2>2. /\ order' = order /\ intent' = intent /\ row' = row /\ at' = at
    BY <1>1 DEF vars
  <2>3. EarlyInv' /\ HeldInv'
    BY <2>2 DEF EarlyInv, HeldInv, AtLeg, LongHeld
  <2>4. QED  BY <2>1, <2>3
<1>2. CASE Next
  <2>1. SpreadInv' /\ EarlyMove /\ Moves /\ ThreadsMove
    BY <1>2, StepInv, StepNotEarly, StepMoves, StepThreads DEF SpreadInv
  <2>2. ASSUME NEW f \in {"short_entry", "rollback"}, NEW n \in Attempts,
               intent[<<f, n>>] = "none", ~AtLeg(Opener, f)
        PROVE  intent'[<<f, n>>] = "none"
    <3>1. <<f, n>> \in Keys /\ <<f, n>>[1] = f /\ <<f, n>> # None
      BY EntryKeys, KeyFacts DEF EntryLegs
    <3>2. at[Opener] # <<f, n>>
      BY <2>2, <3>1 DEF AtLeg
    <3>3. QED  BY <2>1, <2>2, <3>1, <3>2, EntryKeyFacts DEF SpreadInv, EntryLegs
  <2>3. AtLeg(Opener, "rollback")' => AtLeg(Opener, "rollback") \/ AtLeg(Opener, "short_entry")
    <3>1. ASSUME AtLeg(Opener, "rollback")', ~AtLeg(Opener, "rollback")
          PROVE  AtLeg(Opener, "short_entry")
      <4>1. PICK k \in Keys : at[Opener] = k /\ k[1] = "short_entry"
        BY <2>1, <3>1 DEF ThreadsMove, OpenerMove, Still, Advances, AtLeg, EntryLegs
      <4>2. QED  BY <4>1, KeyFacts DEF AtLeg
    <3>2. QED  BY <3>1
  <2>4. EarlyInv'
    <3>1. SUFFICES ASSUME row'.status \in Early
                   PROVE  /\ \A n \in Attempts : /\ intent'[<<"short_entry", n>>] = "none"
                                                 /\ intent'[<<"rollback", n>>] = "none"
                          /\ ~AtLeg(Opener, "short_entry")' /\ ~AtLeg(Opener, "rollback")'
      BY DEF EarlyInv
    <3>2. /\ \A n \in Attempts :
               intent[<<"short_entry", n>>] = "none" /\ intent[<<"rollback", n>>] = "none"
          /\ ~AtLeg(Opener, "short_entry") /\ ~AtLeg(Opener, "rollback")
      BY <2>1, <3>1 DEF EarlyMove, EarlyInv
    <3>3. QED  BY <2>1, <2>2, <2>3, <3>1, <3>2 DEF EarlyMove
  <2>5. HeldInv'
    <3>1. LongHeld => LongHeld'
      BY <2>1, PositionsStay
    <3>2. CASE AtLeg(Opener, "rollback") \/ \E n \in Attempts : intent[<<"rollback", n>>] # "none"
      BY <3>1, <3>2 DEF HeldInv
    <3>3. CASE AtLeg(Opener, "short_entry")
      BY <3>1, <3>3 DEF SpreadInv, EntryInv, HedgeInv, HeldInv
    <3>4. QED  BY <2>2, <2>3, <3>1, <3>2, <3>3 DEF HeldInv
  <2>6. QED  BY <2>1, <2>4, <2>5
<1>3. QED  BY <1>1, <1>2

-----------------------------------------------------------------------------
(* The spread implements the abstract position.                            *)

\* A set of naturals has a least element.
LEMMA LeastNatural ==
    ASSUME NEW T, T \subseteq Nat, T # {}
    PROVE  \E x \in T : \A y \in T : x <= y
<1>1. IsWellFoundedOn(OpToRel(<, Nat), Nat)
  BY NatLessThanWellFounded
<1>2. PICK x \in T : \A y \in T : <<y, x>> \notin OpToRel(<, Nat)
  BY <1>1, WFMin
<1>3. \A y \in T : ~(y < x)
  BY <1>2 DEF OpToRel
<1>4. QED  BY <1>3

\* Of some orders one has executed the most.
LEMMA MostExecuted ==
    ASSUME NEW keys, keys # {}, NEW o, \A k \in keys : o[k].done \in 0..Contracts
    PROVE  \E best \in keys : \A k \in keys : o[k].done <= o[best].done
<1> DEFINE T == {Contracts - o[k].done : k \in keys}
<1>1. \A k \in keys : Contracts - o[k].done \in Nat
  BY SpreadConstants
<1>2. T \subseteq Nat /\ T # {}
  BY <1>1
<1> HIDE DEF T
<1>3. PICK x \in T : \A y \in T : x <= y
  BY <1>2, LeastNatural
<1>4. PICK best \in keys : x = Contracts - o[best].done
  BY DEF T
<1>5. ASSUME NEW k \in keys  PROVE o[k].done <= o[best].done
  <2>1. Contracts - o[best].done <= Contracts - o[k].done
    BY <1>3, <1>4 DEF T
  <2>2. QED  BY <2>1, SpreadConstants
<1>6. QED  BY <1>5

\* That is the number of the contracts.
LEMMA ExecutedFacts ==
    ASSUME TypeOK, NEW keys \in SUBSET Keys, keys # {}
    PROVE  /\ \E k \in keys : Executed(keys) = order[k].done
           /\ \A k \in keys : order[k].done <= Executed(keys)
           /\ Executed(keys) \in 0..Contracts
<1>1. \A k \in keys : order[k].done \in 0..Contracts
  BY DEF TypeOK
<1>2. PICK best \in keys : \A k \in keys : order[k].done <= order[best].done
  BY <1>1, MostExecuted
<1>3. Executed(keys) \in {order[k].done : k \in keys}
      /\ \A k \in keys : order[k].done <= Executed(keys)
  BY <1>2 DEF Executed
<1>4. QED  BY <1>1, <1>3

\* Which number that is.
LEMMA ExecutedIs ==
    ASSUME TypeOK, NEW keys \in SUBSET Keys, NEW k \in keys,
           \A j \in keys : order[j].done <= order[k].done
    PROVE  Executed(keys) = order[k].done
<1>1. PICK j \in keys : Executed(keys) = order[j].done
  BY ExecutedFacts
<1>2. order[k].done <= Executed(keys)
  BY ExecutedFacts
<1>3. order[k].done \in Nat /\ order[j].done \in Nat
  BY SpreadConstants DEF TypeOK
<1>4. QED  BY <1>1, <1>2, <1>3

\* The same in the next state.
LEMMA ExecutedPrimed ==
    ASSUME TypeOK', NEW keys \in SUBSET Keys, NEW k \in keys,
           \A j \in keys : order'[j].done <= order'[k].done
    PROVE  Executed(keys)' = order'[k].done
<1>1. order'[k].done \in {order'[j].done : j \in keys}
  OBVIOUS
<1>2. /\ Executed(keys)' \in {order'[j].done : j \in keys}
      /\ \A j \in keys : order'[j].done <= Executed(keys)'
  BY <1>1 DEF Executed
<1>3. \A j \in keys : order'[j].done \in Nat
  BY SpreadConstants DEF TypeOK
<1>4. QED  BY <1>2, <1>3

\* Its type in the next state.
LEMMA ExecutedTyped ==
    ASSUME TypeOK', NEW keys \in SUBSET Keys, keys # {}
    PROVE  Executed(keys)' \in 0..Contracts
<1>1. PICK best \in keys : \A k \in keys : order'[k].done <= order'[best].done
  BY MostExecuted DEF TypeOK
<1>2. Executed(keys)' = order'[best].done
  BY <1>1, ExecutedPrimed
<1>3. QED  BY <1>2 DEF TypeOK

\* A filled order has executed all contracts.
LEMMA ExecutedFull ==
    ASSUME TypeOK, OrderInv, NEW keys \in SUBSET Keys, NEW k \in keys, order[k].state = "filled"
    PROVE  Executed(keys) = Contracts
<1>1. order[k].done = Contracts
  BY DEF OrderInv
<1>2. \A j \in keys : order[j].done <= Contracts
  BY SpreadConstants DEF TypeOK
<1>3. QED  BY <1>1, <1>2, ExecutedIs

\* Orders that executed nothing.
LEMMA ExecutedNothing ==
    ASSUME TypeOK, NEW keys \in SUBSET Keys, keys # {}, \A k \in keys : order[k].done = 0
    PROVE  Executed(keys) = 0
BY ExecutedFacts

\* The keys of the legs.
LEMMA RungFacts ==
    /\ \A f \in Legs : Rungs(f) \subseteq Keys /\ Rungs(f) # {}
                       /\ \A n \in Attempts : <<f, n>> \in Rungs(f)
    /\ \A f \in Legs : \A k \in Rungs(f) : k[1] = f /\ \E n \in Attempts : k = <<f, n>>
    /\ Sales \subseteq Keys /\ Sales # {}
    /\ {"long_entry", "short_entry", "short_exit"} \subseteq Legs
<1>1. \A f \in Legs : Rungs(f) \subseteq Keys /\ Rungs(f) # {}
                      /\ \A n \in Attempts : <<f, n>> \in Rungs(f)
  <2>1. SUFFICES ASSUME NEW f \in Legs
                 PROVE  /\ Rungs(f) \subseteq Keys /\ Rungs(f) # {}
                        /\ \A n \in Attempts : <<f, n>> \in Rungs(f)
    OBVIOUS
  <2>2. \A n \in Attempts : <<f, n>> \in Rungs(f)
    BY DEF Rungs
  <2>3. Rungs(f) \subseteq Keys
    BY DEF Rungs, Keys
  <2>4. QED  BY <2>2, <2>3, KeyFacts
<1>2. \A f \in Legs : \A k \in Rungs(f) : k[1] = f /\ \E n \in Attempts : k = <<f, n>>
  BY DEF Rungs
<1>3. Sales \subseteq Keys /\ Sales # {}
  BY EntryKeys, ExitKeys, KeyFacts DEF Sales
<1>4. QED  BY <1>1, <1>2, <1>3 DEF Legs, Fields

\* A fill executes one contract more, if it is of the order that has executed
\* the most.
LEMMA FillFacts ==
    ASSUME TypeOK, TypeOK', NEW k \in Keys, BrokerFills(k), NEW keys \in SUBSET Keys, keys # {}
    PROVE  /\ k \notin keys => Executed(keys)' = Executed(keys)
           /\ k \in keys => Executed(keys)' \in {Executed(keys), Executed(keys) + 1}
<1>1. order'[k].done = order[k].done + 1 /\ \A j \in Keys : j # k => order'[j] = order[j]
  BY DEF BrokerFills, TypeOK
<1>2. \A j \in Keys : order[j].done \in Nat /\ order'[j].done \in Nat
  BY SpreadConstants DEF TypeOK
<1>3. PICK a \in keys : Executed(keys) = order[a].done
  BY ExecutedFacts
<1>4. \A j \in keys : order[j].done <= order[a].done
  BY <1>3, ExecutedFacts
<1>5. CASE k \notin keys \/ (k # a /\ order[k].done < order[a].done)
  <2>1. order'[a].done = order[a].done /\ \A j \in keys : order'[j].done <= order'[a].done
    BY <1>1, <1>2, <1>4, <1>5
  <2>2. Executed(keys)' = order'[a].done
    BY <2>1, ExecutedPrimed
  <2>3. QED  BY <1>3, <2>1, <2>2
<1>6. CASE k \in keys /\ ~(k # a /\ order[k].done < order[a].done)
  <2>1. order[k].done = order[a].done
    BY <1>2, <1>4, <1>6
  <2>2. \A j \in keys : order'[j].done <= order'[k].done
    BY <1>1, <1>2, <1>4, <2>1
  <2>3. Executed(keys)' = order'[k].done
    BY <1>6, <2>2, ExecutedPrimed
  <2>4. QED  BY <1>1, <1>3, <1>6, <2>1, <2>3
<1>7. QED  BY <1>5, <1>6

\* What the invariant says of the positions of the legs.
LEMMA LegFacts ==
    ASSUME PositionInv
    PROVE  /\ LongHeld => Executed(Rungs("long_entry")) = Contracts
           /\ ShortSold => Executed(Rungs("short_entry")) = Contracts /\ LongHeld
           /\ BoughtBack => Executed(Rungs("short_exit")) = Contracts /\ ShortSold
           /\ \A n \in Attempts : intent[<<"short_exit", n>>] # "none" => ShortSold
           /\ \A n \in Attempts : intent[<<"long_exit", n>>] # "none" => BoughtBack
           /\ \A n \in Attempts : intent[<<"rollback", n>>] # "none" =>
                /\ LongHeld /\ ~ShortSold
                /\ Executed(Rungs("short_entry")) = 0 /\ Executed(Rungs("short_exit")) = 0
<1> USE DEF PositionInv, SpreadInv
<1>1. OrderInv
  BY DEF OrdersInv
<1>2. ASSUME NEW f \in {"long_entry", "short_entry", "short_exit"}, NEW n \in Attempts,
             order[<<f, n>>].state = "filled"
      PROVE  Executed(Rungs(f)) = Contracts /\ intent[<<f, n>>] # "none"
  <2>1. Rungs(f) \subseteq Keys /\ <<f, n>> \in Rungs(f)
    BY RungFacts
  <2>2. Executed(Rungs(f)) = Contracts
    BY <1>1, <1>2, <2>1, ExecutedFull
  <2>3. QED  BY <1>1, <1>2, <2>1, <2>2 DEF OrderInv
<1>3. \A n \in Attempts : intent[<<"short_exit", n>>] # "none" => ShortSold
  BY DEF CloseInv, ExitInv
<1>4. LongHeld => Executed(Rungs("long_entry")) = Contracts
  BY <1>2 DEF LongHeld
<1>5. ShortSold => Executed(Rungs("short_entry")) = Contracts /\ LongHeld
  BY <1>2 DEF ShortSold, EntryInv, HedgeInv
<1>6. BoughtBack => Executed(Rungs("short_exit")) = Contracts /\ ShortSold
  BY <1>2, <1>3 DEF BoughtBack
<1>7. ASSUME NEW n \in Attempts, intent[<<"rollback", n>>] # "none"
      PROVE  /\ LongHeld /\ ~ShortSold
             /\ Executed(Rungs("short_entry")) = 0 /\ Executed(Rungs("short_exit")) = 0
  <2>1. LongHeld
    BY <1>7 DEF HeldInv
  <2>2. \A m \in Attempts : Settled(<<"short_entry", m>>)
    BY <1>7 DEF EntryInv, RollbackInv
  <2>3. \A m \in Attempts : order[<<"short_entry", m>>].done = 0
                            /\ order[<<"short_entry", m>>].state # "filled"
    BY <1>1, <2>2, EntryKeys DEF Settled, OrderInv, EntryLegs
  <2>4. ~ShortSold
    BY <2>3 DEF ShortSold
  <2>5. \A m \in Attempts : order[<<"short_exit", m>>].done = 0
    BY <1>1, <1>3, <2>4, ExitKeys DEF OrderInv
  <2>6. Executed(Rungs("short_entry")) = 0
    <3>1. \A k \in Rungs("short_entry") : order[k].done = 0
      BY <2>3, RungFacts
    <3>2. QED  BY <3>1, ExecutedNothing, RungFacts
  <2>7. Executed(Rungs("short_exit")) = 0
    <3>1. \A k \in Rungs("short_exit") : order[k].done = 0
      BY <2>5, RungFacts
    <3>2. QED  BY <3>1, ExecutedNothing, RungFacts
  <2>8. QED  BY <2>1, <2>4, <2>6, <2>7
<1>8. \A n \in Attempts : intent[<<"long_exit", n>>] # "none" => BoughtBack
  BY DEF CloseInv, ExitInv
<1>9. QED  BY <1>3, <1>4, <1>5, <1>6, <1>7, <1>8

\* What has been sold of the long leg.
LEMMA SaleFacts ==
    ASSUME PositionInv
    PROVE  /\ Executed(Sales) # 0 => \/ intent[<<"rollback", 0>>] # "none"
                                     \/ intent[<<"long_exit", 0>>] # "none"
           /\ \A k \in Sales : order[k].state = "filled" => Executed(Sales) = Contracts
           /\ \A k \in Keys : k[1] \in {"rollback", "long_exit"} /\ intent[k] # "none" => k \in Sales
<1> USE DEF PositionInv, SpreadInv
<1>1. OrderInv /\ OnceInv
  BY DEF OrdersInv
<1>2. PICK k \in Sales : Executed(Sales) = order[k].done
  BY ExecutedFacts, RungFacts
<1>3. Executed(Sales) # 0 => intent[k] # "none"
  BY <1>1, <1>2, RungFacts DEF OrderInv
<1>4. \A j \in Sales : order[j].state = "filled" => Executed(Sales) = Contracts
  BY <1>1, ExecutedFull, RungFacts
<1>5. ASSUME NEW j \in Keys, j[1] \in {"rollback", "long_exit"}, intent[j] # "none"
      PROVE  j \in Sales
  <2>1. j = <<j[1], j[2]>> /\ j[2] \in Attempts
    BY KeyFacts
  <2>2. j[2] = 0
    BY <1>1, <1>5, <2>1 DEF OnceInv
  <2>3. QED  BY <1>5, <2>1, <2>2 DEF Sales
<1>6. QED  BY <1>2, <1>3, <1>4, <1>5 DEF Sales

\* While an order of the short leg, or a sale, works, the books are open.
LEMMA BooksFacts ==
    ASSUME PositionInv, NEW k \in Keys, k[1] # "long_entry", order[k].state = "working"
    PROVE  row.status \notin Finished
<1> USE DEF PositionInv, SpreadInv
<1>1. OrderInv /\ Truthful(row) /\ 0 \in Attempts
  BY KeyFacts DEF OrdersInv, CloseInv
<1>2. k = <<k[1], k[2]>> /\ k[2] \in Attempts /\ k[1] \in {"short_entry", "short_exit", "rollback", "long_exit"}
  BY KeyFacts DEF Legs, Fields
<1>3. intent[k] # "none" /\ ~Settled(k)
  BY <1>1 DEF OrderInv, Settled
<1>4. CASE row.status = "closed"
  <2>1. BoughtBack /\ ShortSold /\ order[<<"long_exit", 0>>].state = "filled"
    BY <1>1, <1>4, LegFacts DEF Truthful
  <2>2. intent[<<"long_exit", 0>>] # "none"
    BY <1>1, <2>1, ExitKeys DEF OrderInv
  <2>3. CASE k[1] = "short_entry"
    <3>1. PICK n \in Attempts : order[<<"short_entry", n>>].state = "filled"
      BY <2>1 DEF ShortSold
    <3>2. Live(k) /\ Live(<<"short_entry", n>>) /\ k[2] # n
      BY <1>1, <1>2, <2>3, <3>1, EntryKeys, SpreadConstants DEF Live, OrderInv, EntryLegs
    <3>3. QED  BY <1>2, <2>3, <3>2, OneOrderHolds DEF OneOrderPerLeg
  <2>4. CASE k[1] = "short_exit"
    <3>1. PICK n \in Attempts : order[<<"short_exit", n>>].state = "filled"
      BY <2>1 DEF BoughtBack
    <3>2. {order[<<"short_exit", n>>].state, order[<<"short_exit", k[2]>>].state}
            \subseteq {"working", "filled"}
      BY <1>2, <2>4, <3>1
    <3>3. n = k[2]
      BY <1>2, <3>2, OneOrderHolds DEF OneOrderPerLeg
    <3>4. QED  BY <1>2, <2>4, <3>1, <3>3
  <2>5. CASE k[1] = "rollback"
    BY <1>2, <1>3, <2>1, <2>5, LegFacts
  <2>6. CASE k[1] = "long_exit"
    <3>1. k = <<"long_exit", 0>>
      BY <1>3, <2>6, SaleFacts DEF Sales
    <3>2. QED  BY <2>1, <3>1
  <2>7. QED  BY <1>2, <2>3, <2>4, <2>5, <2>6
<1>5. CASE row.status = "rolled_back"
  <2>1. order[<<"rollback", 0>>].state = "filled"
    BY <1>1, <1>5 DEF Truthful
  <2>2. intent[<<"rollback", 0>>] # "none"
    BY <1>1, <2>1, EntryKeys DEF OrderInv
  <2>3. ~ShortSold /\ \A n \in Attempts : Settled(<<"short_entry", n>>)
    BY <1>1, <2>2, LegFacts DEF EntryInv, RollbackInv
  <2>4. ~BoughtBack
    BY <2>3, LegFacts
  <2>5. k[1] \notin {"short_entry", "short_exit", "long_exit"}
    BY <1>2, <1>3, <2>3, <2>4, LegFacts
  <2>6. k = <<"rollback", 0>>
    BY <1>2, <1>3, <2>5, SaleFacts DEF Sales
  <2>7. QED  BY <2>1, <2>6
<1>6. CASE row.status = "entry_failed"
  <2>1. \A n \in Attempts : intent[<<"short_entry", n>>] = "none" /\ intent[<<"rollback", n>>] = "none"
    BY <1>6 DEF EarlyInv, Early
  <2>2. ~ShortSold
    BY <1>1, <2>1, EntryKeys DEF ShortSold, OrderInv, EntryLegs
  <2>3. ~BoughtBack
    BY <2>2, LegFacts
  <2>4. QED  BY <1>2, <1>3, <2>1, <2>2, <2>3, LegFacts
<1>7. QED  BY <1>4, <1>5, <1>6 DEF Finished

\* Nothing else executes an order.
LEMMA OnlyFillsExecute ==
    ASSUME TypeOK, Next, \A k \in Keys : ~BrokerFills(k)
    PROVE  \A k \in Keys : order'[k].done = order[k].done
<1>1. CASE order' = order
  BY <1>1
<1>2. ASSUME NEW j \in Keys, BrokerAccepts(j) \/ BrokerCancels(j)
      PROVE  \A k \in Keys : order'[k].done = order[k].done
  BY <1>2 DEF BrokerAccepts, BrokerCancels, TypeOK
<1>3. CASE OpenerStep
  BY <1>1, <1>3
     DEF OpenerStep, SubmitStep, SubmitNew, SubmitReplay, CallReturns, LinkOrder, LongEntryFilled,
         ShortEntryFilled, EntryUnclear, NextRung, LongEntryUnfilled, ShortEntryUnfilled, RollbackEnds
<1>4. ASSUME NEW t \in Closers, CloserStep(t)  PROVE order' = order
  BY <1>4
     DEF CloserStep, MonitorSpread, DecideExit, RecoverClose, SubmitStep, SubmitNew, SubmitReplay,
         CallReturns, LinkOrder, ShortExitFilled, ShortExitUnfilled, ShortExitUnclear, LongExitEnds,
         GivesUp
<1>5. CASE RefreshSpread \/ Crash \/ \E k \in Keys : Reconcile(k) \/ ResolveNoOrder(k) \/ Relink(k)
  BY <1>1, <1>5 DEF RefreshSpread, Crash, Reconcile, ResolveNoOrder, Relink
<1>6. QED  BY <1>1, <1>2, <1>3, <1>4, <1>5 DEF Next, Broker

\* A fill buys or sells a contract of the position, or shows in it no more.
LEMMA FillMovesPosition ==
    ASSUME PositionInv, PositionInv', NEW k \in Keys, BrokerFills(k)
    PROVE  [Position!PNext]_(Position!pvars)
<1> USE DEF PositionInv, SpreadInv
<1> DEFINE bought == Executed(Rungs("long_entry"))
           short == Executed(Rungs("short_entry"))
           back == Executed(Rungs("short_exit"))
           sold == Executed(Sales)
           books == IF row.status \in Finished THEN row.status ELSE "open"
<1>1. /\ order[k].state = "working" /\ row' = row
      /\ k = <<k[1], k[2]>> /\ k[2] \in Attempts /\ 0 \in Attempts
      /\ k[1] \in {"long_entry", "short_entry", "short_exit", "rollback", "long_exit"}
      /\ intent[k] # "none" /\ ~Settled(k)
  BY KeyFacts DEF BrokerFills, Legs, Fields, OrdersInv, OrderInv, Settled
<1>2. /\ {bought, short, back, sold} \subseteq 0..Contracts
      /\ {bought', short', back', sold'} \subseteq 0..Contracts
  <2>1. {bought, short, back, sold} \subseteq 0..Contracts
    BY ExecutedFacts, RungFacts
  <2>2. {bought', short', back', sold'} \subseteq 0..Contracts
    BY ExecutedTyped, RungFacts
  <2>3. QED  BY <2>1, <2>2
<1>3. /\ k[1] # "long_entry" => bought' = bought
      /\ k[1] # "short_entry" => short' = short
      /\ k[1] # "short_exit" => back' = back
      /\ k[1] \notin {"rollback", "long_exit"} => sold' = sold
  <2>1. \A f \in Legs : k[1] # f => k \notin Rungs(f)
    BY RungFacts
  <2>2. k[1] \notin {"rollback", "long_exit"} => k \notin Sales
    BY DEF Sales
  <2>3. QED  BY <2>1, <2>2, FillFacts, RungFacts
<1>4. /\ k[1] = "long_entry" => bought' \in {bought, bought + 1}
      /\ k[1] = "short_entry" => short' \in {short, short + 1}
      /\ k[1] = "short_exit" => back' \in {back, back + 1}
      /\ k[1] \in {"rollback", "long_exit"} => sold' \in {sold, sold + 1}
  <2>1. \A f \in Legs : k[1] = f => k \in Rungs(f)
    BY <1>1, RungFacts
  <2>2. k[1] \in {"rollback", "long_exit"} => k \in Sales
    BY <1>1, SaleFacts
  <2>3. QED  BY <2>1, <2>2, FillFacts, RungFacts
<1>5. books' = books /\ (k[1] # "long_entry" => books = "open")
  BY <1>1, BooksFacts
<1>6. k[1] \in {"short_entry", "short_exit"} => bought = Contracts
  <2>1. CASE k[1] = "short_entry"
    <3>1. LongHeld
      BY <1>1, <2>1 DEF EntryInv, HedgeInv
    <3>2. QED  BY <3>1, LegFacts
  <2>2. CASE k[1] = "short_exit"
    BY <1>1, <2>2, LegFacts
  <2>3. QED  BY <2>1, <2>2
<1>7. k[1] = "short_entry" => sold = 0
  <2>1. SUFFICES ASSUME k[1] = "short_entry", sold # 0  PROVE FALSE
    OBVIOUS
  <2>2. CASE intent[<<"rollback", 0>>] # "none"
    BY <1>1, <2>1, <2>2 DEF EntryInv, RollbackInv
  <2>3. CASE intent[<<"long_exit", 0>>] # "none"
    <3>1. ShortSold
      BY <1>1, <2>3, LegFacts
    <3>2. PICK n \in Attempts : order[<<"short_entry", n>>].state = "filled"
      BY <3>1 DEF ShortSold
    <3>3. Live(k) /\ Live(<<"short_entry", n>>) /\ k[2] # n
      BY <1>1, <2>1, <3>2, EntryKeys, SpreadConstants DEF Live, OrdersInv, OrderInv, EntryLegs
    <3>4. QED  BY <1>1, <2>1, <3>3, OneOrderHolds DEF OneOrderPerLeg
  <2>4. QED  BY <2>1, <2>2, <2>3, SaleFacts
<1>8. k[1] = "short_exit" /\ back # Contracts => short = Contracts /\ sold = 0
  <2>1. SUFFICES ASSUME k[1] = "short_exit", back # Contracts  PROVE short = Contracts /\ sold = 0
    OBVIOUS
  <2>2. ShortSold /\ short = Contracts
    BY <1>1, <2>1, LegFacts
  <2>3. intent[<<"rollback", 0>>] = "none"
    BY <1>1, <2>2, LegFacts
  <2>4. intent[<<"long_exit", 0>>] = "none"
    BY <1>1, <2>1, LegFacts
  <2>5. QED  BY <2>2, <2>3, <2>4, SaleFacts
<1>9. k[1] \in {"rollback", "long_exit"} => bought = Contracts /\ short = back
  <2>1. CASE k[1] = "rollback"
    BY <1>1, <2>1, LegFacts
  <2>2. CASE k[1] = "long_exit"
    BY <1>1, <2>2, LegFacts
  <2>3. QED  BY <2>1, <2>2
<1> HIDE DEF bought, short, back, sold, books
<1>10. CASE k[1] = "long_entry"
  <2>1. CASE bought' = bought
    <3>1. UNCHANGED <<bought, short, back, sold, books>>
      BY <1>3, <1>5, <1>10, <2>1
    <3>2. QED  BY <3>1 DEF Position!pvars, bought, short, back, sold, books
  <2>2. CASE bought' = bought + 1
    <3>1. bought < Contracts /\ UNCHANGED <<short, back, sold, books>>
      BY <1>2, <1>3, <1>5, <1>10, <2>2, SpreadConstants
    <3>2. Position!BuyLong
      BY <2>2, <3>1 DEF Position!BuyLong, bought, short, back, sold, books
    <3>3. QED  BY <3>2 DEF Position!PNext
  <2>3. QED  BY <1>4, <1>10, <2>1, <2>2
<1>11. CASE k[1] = "short_entry"
  <2>1. CASE short' = short
    <3>1. UNCHANGED <<bought, short, back, sold, books>>
      BY <1>3, <1>5, <1>11, <2>1
    <3>2. QED  BY <3>1 DEF Position!pvars, bought, short, back, sold, books
  <2>2. CASE short' = short + 1
    <3>1. /\ short < Contracts /\ bought = Contracts /\ sold = 0 /\ books = "open"
          /\ UNCHANGED <<bought, back, sold, books>>
      BY <1>2, <1>3, <1>5, <1>6, <1>7, <1>11, <2>2, SpreadConstants
    <3>2. Position!SellShort
      BY <2>2, <3>1 DEF Position!SellShort, bought, short, back, sold, books
    <3>3. QED  BY <3>2 DEF Position!PNext
  <2>3. QED  BY <1>4, <1>11, <2>1, <2>2
<1>12. CASE k[1] = "short_exit"
  <2>1. CASE back' = back
    <3>1. UNCHANGED <<bought, short, back, sold, books>>
      BY <1>3, <1>5, <1>12, <2>1
    <3>2. QED  BY <3>1 DEF Position!pvars, bought, short, back, sold, books
  <2>2. CASE back' = back + 1
    <3>1. back < Contracts
      BY <1>2, <2>2, SpreadConstants
    <3>2. /\ short = Contracts /\ sold = 0 /\ books = "open"
          /\ UNCHANGED <<bought, short, sold, books>>
      BY <1>3, <1>5, <1>8, <1>12, <3>1, SpreadConstants
    <3>3. Position!BuyBack
      BY <2>2, <3>1, <3>2 DEF Position!BuyBack, bought, short, back, sold, books
    <3>4. QED  BY <3>3 DEF Position!PNext
  <2>3. QED  BY <1>4, <1>12, <2>1, <2>2
<1>13. CASE k[1] \in {"rollback", "long_exit"}
  <2>1. CASE sold' = sold
    <3>1. UNCHANGED <<bought, short, back, sold, books>>
      BY <1>3, <1>5, <1>13, <2>1
    <3>2. QED  BY <3>1 DEF Position!pvars, bought, short, back, sold, books
  <2>2. CASE sold' = sold + 1
    <3>1. /\ sold < Contracts /\ bought = Contracts /\ short = back /\ books = "open"
          /\ UNCHANGED <<bought, short, back, books>>
      BY <1>2, <1>3, <1>5, <1>9, <1>13, <2>2, SpreadConstants
    <3>2. Position!SellLong
      BY <2>2, <3>1 DEF Position!SellLong, bought, short, back, sold, books
    <3>3. QED  BY <3>2 DEF Position!PNext
  <2>3. QED  BY <1>4, <1>13, <2>1, <2>2
<1>14. QED  BY <1>1, <1>10, <1>11, <1>12, <1>13

\* Every other step leaves the position alone, and ends the books only on one
\* that fits.
LEMMA BooksMovePosition ==
    ASSUME PositionInv, PositionInv', RowMove,
           \A k \in Keys : order'[k].done = order[k].done
    PROVE  [Position!PNext]_(Position!pvars)
<1> USE DEF PositionInv, SpreadInv
<1> DEFINE bought == Executed(Rungs("long_entry"))
           short == Executed(Rungs("short_entry"))
           back == Executed(Rungs("short_exit"))
           sold == Executed(Sales)
           books == IF row.status \in Finished THEN row.status ELSE "open"
<1>1. ASSUME NEW keys \in SUBSET Keys, keys # {}  PROVE Executed(keys)' = Executed(keys)
  <2>1. PICK k \in keys : Executed(keys) = order[k].done
    BY <1>1, ExecutedFacts
  <2>2. \A j \in keys : order'[j].done <= order'[k].done
    BY <1>1, <2>1, ExecutedFacts
  <2>3. Executed(keys)' = order'[k].done
    BY <1>1, <2>2, ExecutedPrimed
  <2>4. QED  BY <1>1, <2>1, <2>3
<1>2. UNCHANGED <<bought, short, back, sold>>
  BY <1>1, RungFacts
<1>3. CASE row.status \in Finished \/ row'.status \notin Finished
  <2>1. books' = books
    BY <1>3 DEF RowMove
  <2> HIDE DEF bought, short, back, sold, books
  <2>2. UNCHANGED <<bought, short, back, sold, books>>
    BY <1>2, <2>1
  <2>3. QED  BY <2>2 DEF Position!pvars, bought, short, back, sold, books
<1>4. CASE row.status \notin Finished /\ row'.status \in Finished
  <2> DEFINE how == row'.status
  <2>1. books = "open" /\ books' = how /\ how \in {"entry_failed", "rolled_back", "closed"}
    BY <1>4 DEF Finished
  <2>2. Truthful(row')
    BY DEF RowMove
  <2>3. how = "entry_failed" => short = 0
    <3>1. SUFFICES ASSUME how = "entry_failed"  PROVE short = 0
      OBVIOUS
    <3>2. \A n \in Attempts : intent'[<<"short_entry", n>>] = "none"
      BY <3>1 DEF EarlyInv, Early
    <3>3. \A n \in Attempts : order'[<<"short_entry", n>>].done = 0
      BY <3>2, EntryKeys DEF OrdersInv, OrderInv, EntryLegs
    <3>4. \A k \in Rungs("short_entry") : order[k].done = 0
      BY <3>3, RungFacts
    <3>5. QED  BY <3>4, ExecutedNothing, RungFacts
  <2>4. how = "rolled_back" => short = 0 /\ sold = Contracts
    <3>1. SUFFICES ASSUME how = "rolled_back"  PROVE short = 0 /\ sold = Contracts
      OBVIOUS
    <3>2. order[<<"rollback", 0>>].state = "filled" /\ 0 \in Attempts
      BY <2>2, <3>1, KeyFacts DEF Truthful
    <3>3. intent[<<"rollback", 0>>] # "none"
      BY <3>2, EntryKeys DEF OrdersInv, OrderInv
    <3>4. QED  BY <3>2, <3>3, LegFacts, SaleFacts DEF Sales
  <2>5. how = "closed" => back = Contracts /\ sold = Contracts
    <3>1. SUFFICES ASSUME how = "closed"  PROVE back = Contracts /\ sold = Contracts
      OBVIOUS
    <3>2. BoughtBack /\ order[<<"long_exit", 0>>].state = "filled"
      BY <2>2, <3>1 DEF Truthful
    <3>3. QED  BY <3>2, LegFacts, SaleFacts DEF Sales
  <2> HIDE DEF bought, short, back, sold, books, how
  <2>6. Position!End(how)
    BY <1>2, <2>1, <2>3, <2>4, <2>5 DEF Position!End, bought, short, back, sold, books
  <2>7. QED  BY <2>1, <2>6 DEF Position!PNext
<1>5. QED  BY <1>3, <1>4

\* With all its orders, threads, retries and refreshes a spread trades as one
\* that buys its long leg, sells the short one, buys it back and sells the
\* long leg, contract by contract and in no other order, and ends its books
\* once, on a position that fits.
THEOREM SpreadImplementsPosition == Spec => ImplementsPosition
<1>1. Init => PositionInv /\ Position!PInit
  <2>1. SUFFICES ASSUME Init  PROVE PositionInv /\ Position!PInit
    OBVIOUS
  <2>2. SpreadInv
    BY <2>1, InitInv
  <2>3. /\ \A k \in Keys : order[k].done = 0 /\ intent[k] = "none"
        /\ row.status = "entry_pending_long" /\ at[Opener] = <<"long_entry", 0>>
    BY <2>1, ThreadFacts DEF Init
  <2>4. ~AtLeg(Opener, "short_entry") /\ ~AtLeg(Opener, "rollback")
    BY <2>3 DEF AtLeg
  <2>5. EarlyInv /\ HeldInv
    BY <2>3, <2>4, EntryKeys DEF EarlyInv, HeldInv, EntryLegs
  <2>6. /\ Executed(Rungs("long_entry")) = 0 /\ Executed(Rungs("short_entry")) = 0
        /\ Executed(Rungs("short_exit")) = 0 /\ Executed(Sales) = 0
    <3>1. ASSUME NEW keys \in SUBSET Keys, keys # {}  PROVE Executed(keys) = 0
      BY <2>2, <2>3, <3>1, ExecutedNothing DEF SpreadInv
    <3>2. QED  BY <3>1, RungFacts
  <2>7. row.status \notin Finished
    BY <2>3 DEF Finished
  <2>8. QED  BY <2>2, <2>5, <2>6, <2>7 DEF PositionInv, Position!PInit
<1>2. PositionInv /\ [Next]_vars => PositionInv' /\ [Position!PNext]_(Position!pvars)
  <2>1. SUFFICES ASSUME PositionInv, [Next]_vars
                 PROVE  PositionInv' /\ [Position!PNext]_(Position!pvars)
    OBVIOUS
  <2>2. PositionInv'
    BY <2>1, PositionStep
  <2>3. CASE UNCHANGED vars
    <3>1. RowMove /\ \A k \in Keys : order'[k].done = order[k].done
      BY <2>1, <2>3 DEF vars, RowMove, PositionInv, SpreadInv, CloseInv, Truthful, TypeOK, RowType
    <3>2. QED  BY <2>1, <2>2, <3>1, BooksMovePosition
  <2>4. ASSUME NEW k \in Keys, BrokerFills(k)
        PROVE  [Position!PNext]_(Position!pvars)
    BY <2>1, <2>2, <2>4, FillMovesPosition
  <2>5. CASE Next /\ \A k \in Keys : ~BrokerFills(k)
    <3>1. RowMove
      BY <2>1, <2>5, StepInv DEF PositionInv
    <3>2. \A k \in Keys : order'[k].done = order[k].done
      BY <2>1, <2>5, OnlyFillsExecute DEF PositionInv, SpreadInv
    <3>3. QED  BY <2>1, <2>2, <3>1, <3>2, BooksMovePosition
  <2>6. QED  BY <2>1, <2>2, <2>3, <2>4, <2>5
<1>3. QED  BY <1>1, <1>2, PTL DEF Spec, ImplementsPosition, Position!PSpec

=============================================================================
