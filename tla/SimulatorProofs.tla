--------------------------- MODULE SimulatorProofs ---------------------------
(* Proofs about Simulator, for any number of requests and refunds, and for     *)
(* every amount.                                                               *)
EXTENDS Simulator, SumTheorems, TLAPS

-----------------------------------------------------------------------------
(* The money. *)

\* An order whose status says that money moved announced just that, once.
MoneyInv ==
    /\ "status" \in DOMAIN order
    /\ order.status \in CheckoutStatus
    /\ IF order.status \in {"succeeded", "canceled"}
       THEN \E amount : outcomes = <<[status |-> order.status, amount |-> amount]>>
       ELSE outcomes = <<>>

\* Where a status can be reached from.
LEMMA MoneyIsFinal ==
    ASSUME NEW s \in CheckoutStatus, NEW t \in Transitions(s)
    PROVE  t \in CheckoutStatus /\ s \notin {"succeeded", "canceled"}
<1>1. CASE s = "open"
  BY <1>1 DEF Transitions, CheckoutStatus
<1>2. CASE s = "declined"
  BY <1>2 DEF Transitions, CheckoutStatus
<1>3. CASE s = "processing"
  BY <1>3 DEF Transitions, CheckoutStatus
<1>4. CASE s = "requires_capture"
  BY <1>4 DEF Transitions, CheckoutStatus
<1>5. CASE s \in {"succeeded", "canceled", "expired"}
  BY <1>5 DEF Transitions
<1> QED BY <1>1, <1>2, <1>3, <1>4, <1>5 DEF CheckoutStatus

\* Whatever the fields an action writes first, the state machine decides.
LEMMA MoneyStep ==
    ASSUME MoneyInv, NEW fields, "status" \notin DOMAIN fields, NEW status,
           UpdateThenTransition(fields, status)
    PROVE  MoneyInv'
<1>1. PICK updated : updated = Updated(fields)
  OBVIOUS
<1>2. /\ "status" \in DOMAIN updated /\ updated.status = order.status
      /\ DOMAIN updated = DOMAIN order
  BY <1>1 DEF MoneyInv, Updated
<1>3. CASE status \in Transitions(order.status)
  <2>1. order' = [updated EXCEPT !.status = status]
    BY <1>1, <1>3 DEF UpdateThenTransition
  <2>2. "status" \in DOMAIN order' /\ order'.status = status
    BY <1>2, <2>1
  <2>3. status \in CheckoutStatus /\ outcomes = <<>>
    BY <1>3, MoneyIsFinal DEF MoneyInv
  <2>4. CASE status \in {"succeeded", "canceled"}
    <3>1. PICK amount : amount = order'.amount_received
      OBVIOUS
    <3>2. outcomes' = <<[status |-> status, amount |-> amount]>>
      BY <1>3, <2>2, <2>3, <2>4, <3>1 DEF UpdateThenTransition, Outcome
    <3> QED BY <2>2, <2>3, <2>4, <3>2 DEF MoneyInv
  <2>5. CASE status \notin {"succeeded", "canceled"}
    <3>1. outcomes' = <<>>
      BY <1>3, <2>3, <2>5 DEF UpdateThenTransition
    <3> QED BY <2>2, <2>3, <2>5, <3>1 DEF MoneyInv
  <2> QED BY <2>4, <2>5
<1>4. CASE status \notin Transitions(order.status)
  <2>1. order' = updated /\ outcomes' = outcomes
    BY <1>1, <1>4 DEF UpdateThenTransition
  <2> QED BY <1>2, <2>1 DEF MoneyInv
<1> QED BY <1>3, <1>4

LEMMA MoneyNext ==
    ASSUME MoneyInv, [Next]_vars
    PROVE  MoneyInv'
<1> DEFINE tried == [has_payment_intent |-> TRUE]
           held == [has_payment_intent |-> TRUE, amount_capturable |-> Amount]
           paid == [has_payment_intent |-> TRUE, amount_received |-> Amount]
           freed == [amount_capturable |-> 0]
           settled == [amount_received |-> Amount]
<1>1. CASE Decline \/ PayDelayed
  <2>1. \E status : UpdateThenTransition(tried, status)
    BY <1>1 DEF Decline, PayDelayed, Submit
  <2> QED BY <2>1, MoneyStep
<1>2. CASE Pay
  <2>1. \E status : UpdateThenTransition(held, status) \/ UpdateThenTransition(paid, status)
    BY <1>2 DEF Pay, Submit
  <2> QED BY <2>1, MoneyStep
<1>3. CASE ExpireSession \/ FailDelayed
  <2>1. \E status : UpdateThenTransition(<<>>, status)
    BY <1>3 DEF ExpireSession, FailDelayed
  <2>2. "status" \notin DOMAIN <<>>
    OBVIOUS
  <2> QED BY <2>1, <2>2, MoneyStep
<1>4. CASE ExpireAuth \/ \E q \in Request : FinishCancel(q)
  <2>1. UpdateThenTransition(freed, "canceled")
    BY <1>4 DEF ExpireAuth, FinishCancel
  <2> QED BY <2>1, MoneyStep
<1>5. CASE SettleDelayed
  <2>1. UpdateThenTransition(settled, "succeeded")
    BY <1>5 DEF SettleDelayed
  <2> QED BY <2>1, MoneyStep
<1>6. ASSUME NEW q \in Request, FinishCapture(q) PROVE MoneyInv'
  <2>1. PICK amount :
          UpdateThenTransition([amount_received |-> amount, amount_capturable |-> 0],
                               "succeeded")
    BY <1>6 DEF FinishCapture
  <2> DEFINE captured == [amount_received |-> amount, amount_capturable |-> 0]
  <2>2. "status" \notin DOMAIN captured
    OBVIOUS
  <2> QED BY <2>1, <2>2, MoneyStep
<1>7. CASE SetRefundMode
  <2>1. /\ "status" \in DOMAIN order' /\ order'.status = order.status
        /\ outcomes' = outcomes
    BY <1>7 DEF SetRefundMode, MoneyInv
  <2> QED BY <2>1 DEF MoneyInv
<1>8. CASE \/ \E q \in Request : BeginCapture(q) \/ BeginCancel(q)
           \/ \E r \in Refund : CreateRefund(r) \/ CancelRefund(r) \/ FailRefund(r)
           \/ UNCHANGED vars
  <2>1. UNCHANGED <<order, outcomes>>
    BY <1>8 DEF BeginCapture, BeginCancel, Begin, CreateRefund, CancelRefund,
       FailRefund, vars
  <2> QED BY <2>1 DEF MoneyInv
<1> QED BY <1>1, <1>2, <1>3, <1>4, <1>5, <1>6, <1>7, <1>8 DEF Next

LEMMA MoneyInit ==
    ASSUME Init
    PROVE  MoneyInv
BY DEF Init, MoneyInv, NewOrder, CheckoutStatus

\* However many captures, cancellations and ops actions race, the money moves once.
THEOREM MoneyMovesOnce == Spec => []OneMoneyOutcome
<1>1. Spec => []MoneyInv
  BY MoneyInit, MoneyNext, PTL DEF Spec
<1>2. MoneyInv => OneMoneyOutcome
  <2> SUFFICES ASSUME MoneyInv PROVE OneMoneyOutcome
    OBVIOUS
  <2>1. CASE order.status \in {"succeeded", "canceled"}
    <3>1. PICK amount : outcomes = <<[status |-> order.status, amount |-> amount]>>
      BY <2>1 DEF MoneyInv
    <3>2. Len(outcomes) = 1 /\ outcomes # <<>> /\ outcomes[1].status = order.status
      BY <3>1
    <3> QED BY <2>1, <3>2 DEF OneMoneyOutcome
  <2>2. CASE order.status \notin {"succeeded", "canceled"}
    <3>1. outcomes = <<>> /\ Len(outcomes) = 0
      BY <2>2 DEF MoneyInv
    <3> QED BY <2>2, <3>1 DEF OneMoneyOutcome
  <2> QED BY <2>1, <2>2
<1> QED BY <1>1, <1>2, PTL

-----------------------------------------------------------------------------
(* The refunds. *)

RefundInv ==
    /\ DOMAIN refund = Refund
    /\ told \in [Refund -> Seq(RefundStatus)]
    /\ \A r \in Refund : refund[r] # None => refund[r].amount \in Int
    /\ RefundEventsLegal

\* The events of a refund that is created, or goes on, tell its life.
LEMMA SetRefundStep ==
    ASSUME RefundInv, NEW r \in Refund, NEW amount \in Int,
           NEW statuses, SetRefund(r, amount, statuses),
           \/ refund[r] = None /\ statuses \in {<<"requires_action">>, <<"pending", "succeeded">>}
           \/ \E status \in DeadStatus :
                /\ refund[r] # None /\ statuses = <<status>>
                /\ status \in RefundTransitions(refund[r].status)
    PROVE  RefundInv'
<1> DEFINE last == statuses[Len(statuses)]
<1>10. PICK old : old = told[r]
  OBVIOUS
<1>11. PICK new : new = told'[r]
  OBVIOUS
<1>1. /\ refund' = [refund EXCEPT ![r] = [amount |-> amount, status |-> last]]
      /\ told' = [told EXCEPT ![r] = old \o statuses]
  BY <1>10 DEF SetRefund
<1>2. /\ statuses \in Seq(RefundStatus) /\ Len(statuses) \in 1..2
      /\ last \in RefundStatus
  <2>1. CASE statuses = <<"requires_action">>
    BY <2>1 DEF RefundStatus, InFlightStatus
  <2>2. CASE statuses = <<"pending", "succeeded">>
    BY <2>2 DEF RefundStatus, InFlightStatus
  <2>3. CASE \E status \in DeadStatus : statuses = <<status>>
    BY <2>3 DEF RefundStatus
  <2> QED BY <2>1, <2>2, <2>3
<1>3. /\ refund'[r] = [amount |-> amount, status |-> last] /\ new = old \o statuses
      /\ old \in Seq(RefundStatus) /\ new \in Seq(RefundStatus)
      /\ \A q \in Refund : q # r => refund'[q] = refund[q] /\ told'[q] = told[q]
      /\ DOMAIN refund' = Refund /\ told' \in [Refund -> Seq(RefundStatus)]
  BY <1>10, <1>11, <1>1, <1>2 DEF RefundInv
<1>4. refund'[r] # None
  BY <1>2, <1>3, NoRefundAssumption
<1>5. new # <<>> /\ new[Len(new)] = last
  <2>1. Len(new) = Len(old) + Len(statuses) /\ Len(old) \in Nat
    BY <1>2, <1>3
  <2>2. Len(new) \in Nat \ {0} /\ Len(new) - Len(old) = Len(statuses)
    BY <1>2, <2>1
  <2>3. new[Len(new)] = statuses[Len(statuses)]
    BY <1>2, <1>3, <2>1, <2>2
  <2> QED BY <2>2, <2>3
\* The other refunds' histories are as they were.
<1> DEFINE Legal(now, history) ==
              /\ now = None <=> history = <<>>
              /\ now # None => /\ history[1] \in InFlightStatus
                               /\ history[Len(history)] = now.status
              /\ \A i \in 2..Len(history) :
                    history[i] \in RefundTransitions(history[i - 1])
<1>6. SUFFICES Legal(refund'[r], new)
  <2>1. \A q \in Refund : Legal(refund[q], told[q])
    BY DEF RefundInv, RefundEventsLegal
  <2>2. \A q \in Refund : Legal(refund'[q], told'[q])
    BY <1>11, <1>3, <1>6, <2>1
  <2>3. RefundEventsLegal'
    BY <2>2 DEF RefundEventsLegal
  <2>4. ASSUME NEW q \in Refund, refund'[q] # None PROVE refund'[q].amount \in Int
    <3>1. CASE q = r
      BY <1>3, <3>1
    <3>2. CASE q # r
      BY <1>3, <2>4, <3>2 DEF RefundInv
    <3> QED BY <3>1, <3>2
  <2> QED BY <1>3, <2>3, <2>4 DEF RefundInv
<1>7. CASE refund[r] = None
  <2>1. old = <<>>
    BY <1>10, <1>7 DEF RefundInv, RefundEventsLegal
  <2>2. new = statuses
    BY <1>2, <1>3, <2>1
  <2>3. /\ new[1] \in InFlightStatus
        /\ \A i \in 2..Len(new) : new[i] \in RefundTransitions(new[i - 1])
    BY <1>7, <2>2 DEF InFlightStatus, RefundTransitions
  <2> QED BY <1>3, <1>4, <1>5, <2>3
<1>8. CASE refund[r] # None
  <2>1. PICK status \in DeadStatus :
          statuses = <<status>> /\ status \in RefundTransitions(refund[r].status)
    BY <1>8
  <2>2. /\ old # <<>> /\ old[1] \in InFlightStatus /\ old[Len(old)] = refund[r].status
        /\ \A i \in 2..Len(old) : old[i] \in RefundTransitions(old[i - 1])
    BY <1>10, <1>8 DEF RefundInv, RefundEventsLegal
  <2>3. /\ Len(new) = Len(old) + 1 /\ Len(old) \in Nat \ {0}
        /\ new[Len(new)] = status
        /\ \A i \in 1..Len(old) : new[i] = old[i]
    BY <1>3, <2>1, <2>2
  <2>4. ASSUME NEW i \in 2..Len(new) PROVE new[i] \in RefundTransitions(new[i - 1])
    <3>1. CASE i \in 2..Len(old)
      <4>1. new[i] = old[i] /\ new[i - 1] = old[i - 1]
        BY <2>3, <3>1
      <4> QED BY <2>2, <3>1, <4>1
    <3>2. CASE i = Len(new)
      <4>1. new[i] = status /\ new[i - 1] = refund[r].status
        BY <2>2, <2>3, <3>2
      <4> QED BY <2>1, <4>1
    <3> QED BY <2>3, <3>1, <3>2
  <2>5. new[1] \in InFlightStatus
    BY <2>2, <2>3
  <2> QED BY <1>3, <1>4, <1>5, <2>4, <2>5
<1> QED BY <1>7, <1>8

LEMMA RefundNext ==
    ASSUME RefundInv, [Next]_vars
    PROVE  RefundInv'
<1>1. ASSUME NEW r \in Refund, CreateRefund(r) PROVE RefundInv'
  <2>1. PICK statuses : statuses = IF order.refund_mode = "requires_action"
                                   THEN <<"requires_action">>
                                   ELSE <<"pending", "succeeded">>
    OBVIOUS
  <2>2. refund[r] = None /\ \E amount \in Int : SetRefund(r, amount, statuses)
    BY <1>1, <2>1 DEF CreateRefund
  <2> QED BY <2>1, <2>2, SetRefundStep
<1>2. ASSUME NEW r \in Refund, CancelRefund(r) \/ FailRefund(r) PROVE RefundInv'
  <2>1. PICK status \in DeadStatus :
          /\ refund[r] # None /\ status \in RefundTransitions(refund[r].status)
          /\ SetRefund(r, refund[r].amount, <<status>>)
    BY <1>2 DEF CancelRefund, FailRefund, Live, RefundTransitions, DeadStatus
  <2>2. PICK statuses : statuses = <<status>>
    OBVIOUS
  <2>3. PICK amount \in Int : amount = refund[r].amount
    BY <2>1 DEF RefundInv
  <2>4. SetRefund(r, amount, statuses)
    BY <2>1, <2>2, <2>3
  <2> QED BY <2>1, <2>2, <2>4, SetRefundStep
<1>3. CASE \/ Decline \/ PayDelayed \/ Pay \/ ExpireSession
           \/ \E q \in Request :
                BeginCapture(q) \/ FinishCapture(q) \/ BeginCancel(q) \/ FinishCancel(q)
           \/ ExpireAuth \/ FailDelayed \/ SettleDelayed \/ SetRefundMode
           \/ UNCHANGED vars
  <2>1. UNCHANGED <<refund, told>>
    BY <1>3 DEF Decline, PayDelayed, Pay, Submit, ExpireSession, BeginCapture,
       FinishCapture, BeginCancel, FinishCancel, Begin, ExpireAuth, FailDelayed,
       SettleDelayed, SetRefundMode, vars
  <2> QED BY <2>1 DEF RefundInv, RefundEventsLegal
<1> QED BY <1>1, <1>2, <1>3 DEF Next

LEMMA RefundInit ==
    ASSUME Init
    PROVE  RefundInv
<1>1. /\ DOMAIN refund = Refund /\ told \in [Refund -> Seq(RefundStatus)]
      /\ \A r \in Refund : refund[r] = None /\ told[r] = <<>>
  <2>1. <<>> \in Seq(RefundStatus)
    OBVIOUS
  <2> QED BY <2>1 DEF Init
<1>2. \A i \in 2..Len(<<>>) : FALSE
  OBVIOUS
<1> QED BY <1>1, <1>2 DEF RefundInv, RefundEventsLegal

\* Written without a state machine, the refunds of an order still live legal lives.
THEOREM RefundsLiveLegally == Spec => []RefundEventsLegal
<1>1. Spec => []RefundInv
  BY RefundInit, RefundNext, PTL DEF Spec
<1>2. RefundInv => RefundEventsLegal
  BY DEF RefundInv
<1> QED BY <1>1, <1>2, PTL

-----------------------------------------------------------------------------
(* The balance: what was authorized, captured and returned. *)

OrderOK ==
    /\ DOMAIN order = {"owner", "capture_method", "status", "has_payment_intent",
                       "amount_capturable", "amount_received", "refund_mode"}
    /\ order.status \in CheckoutStatus
    /\ order.capture_method \in {"automatic", "manual"}
    /\ order.has_payment_intent \in BOOLEAN
    /\ order.amount_capturable \in {0, Amount}
    /\ order.amount_received \in 0..Amount
    /\ order.refund_mode \in {"", "requires_action"}

RequestsOK == request \in [Request -> [op : {"none", "capture", "cancel", "done"},
                                       amount_capturable : {0, Amount}]]

RefundsOK ==
    /\ DOMAIN refund = Refund
    /\ \A r \in Refund : refund[r] # None =>
         refund[r].amount \in 1..Amount /\ refund[r].status \in RefundStatus
    /\ IsFiniteSet(Live)
    /\ LiveTotal <= Amount

BalanceInv == OrderOK /\ RequestsOK /\ RefundsOK

\* Whatever the simulator writes to an order is of the right type.
LEMMA OrderStep ==
    ASSUME OrderOK, NEW fields, NEW status, UpdateThenTransition(fields, status),
           DOMAIN fields \subseteq {"has_payment_intent", "amount_capturable",
                                    "amount_received"},
           "has_payment_intent" \in DOMAIN fields => fields.has_payment_intent \in BOOLEAN,
           "amount_capturable" \in DOMAIN fields =>
               fields.amount_capturable \in {0, Amount},
           "amount_received" \in DOMAIN fields => fields.amount_received \in 0..Amount
    PROVE  OrderOK'
<1>1. PICK updated : updated = Updated(fields)
  OBVIOUS
<1>2. /\ DOMAIN updated = DOMAIN order
      /\ updated.status = order.status
      /\ updated.capture_method = order.capture_method
      /\ updated.refund_mode = order.refund_mode
      /\ updated.has_payment_intent \in BOOLEAN
      /\ updated.amount_capturable \in {0, Amount}
      /\ updated.amount_received \in 0..Amount
  BY <1>1 DEF OrderOK, Updated
<1>3. CASE status \in Transitions(order.status)
  <2>1. order' = [updated EXCEPT !.status = status]
    BY <1>1, <1>3 DEF UpdateThenTransition
  <2>2. status \in CheckoutStatus
    BY <1>3, MoneyIsFinal DEF OrderOK
  <2> QED BY <1>2, <2>1, <2>2 DEF OrderOK
<1>4. CASE status \notin Transitions(order.status)
  <2>1. order' = updated
    BY <1>1, <1>4 DEF UpdateThenTransition
  <2> QED BY <1>2, <2>1 DEF OrderOK
<1> QED BY <1>3, <1>4

LEMMA TotalIsNatural ==
    ASSUME RefundsOK, NEW S \in SUBSET Live
    PROVE  IsFiniteSet(S) /\ TotalOf(S) \in Nat
<1>1. IsFiniteSet(S)
  BY FS_Subset DEF RefundsOK
<1>2. PICK f : f = [r \in S |-> refund[r].amount]
  OBVIOUS
<1>3. \A r \in S : f[r] \in Nat
  BY <1>2 DEF RefundsOK, Live
<1>4. SumFunctionOnSet(f, S) \in Nat
  BY <1>1, <1>3, SumIsNatural
<1> QED BY <1>1, <1>2, <1>4 DEF TotalOf

\* Counting a refund that was not counted.
LEMMA TotalWith ==
    ASSUME RefundsOK, NEW S \in SUBSET Live, NEW r \in Live, r \notin S
    PROVE  TotalOf(S \cup {r}) = refund[r].amount + TotalOf(S)
<1>1. IsFiniteSet(S)
  BY TotalIsNatural
<1>2. PICK more : more = S \cup {r}
  OBVIOUS
<1>3. PICK f : f = [q \in more |-> refund[q].amount]
  OBVIOUS
<1>4. PICK g : g = [q \in S |-> refund[q].amount]
  OBVIOUS
<1>5. /\ f[r] = refund[r].amount
      /\ \A q \in S : f[q] = g[q]
      /\ \A q \in S \cup {r} : f[q] \in Nat
  BY <1>2, <1>3, <1>4 DEF RefundsOK, Live
<1>6. SumFunctionOnSet(f, S \cup {r}) = f[r] + SumFunctionOnSet(f, S)
  BY <1>1, <1>5, SumWith
<1>7. SumFunctionOnSet(f, S) = SumFunctionOnSet(g, S)
  BY <1>1, <1>5, SumOfSame
<1>8. TotalOf(S) = SumFunctionOnSet(g, S)
  BY <1>4 DEF TotalOf
<1>9. TotalOf(more) = SumFunctionOnSet(f, more)
  BY <1>3 DEF TotalOf
<1> QED BY <1>2, <1>5, <1>6, <1>7, <1>8, <1>9

\* Refunds whose amounts stay add up as before.
LEMMA TotalKept ==
    ASSUME RefundsOK, NEW S \in SUBSET Live,
           \A q \in S : refund'[q].amount = refund[q].amount
    PROVE  TotalOf(S)' = TotalOf(S)
<1>1. IsFiniteSet(S)
  BY TotalIsNatural
<1>2. PICK f : f = [q \in S |-> refund'[q].amount]
  OBVIOUS
<1>3. PICK g : g = [q \in S |-> refund[q].amount]
  OBVIOUS
<1>4. \A q \in S : f[q] = g[q]
  BY <1>2, <1>3
<1>5. SumFunctionOnSet(f, S) = SumFunctionOnSet(g, S)
  BY <1>1, <1>4, SumOfSame
<1>6. TotalOf(S)' = SumFunctionOnSet(f, S) /\ TotalOf(S) = SumFunctionOnSet(g, S)
  BY <1>2, <1>3 DEF TotalOf
<1> QED BY <1>5, <1>6

\* A refund is created within the balance, or a live one dies.
LEMMA RefundsStep ==
    ASSUME RefundsOK, NEW r \in Refund, NEW amount \in 1..Amount,
           NEW status \in RefundStatus,
           refund' = [refund EXCEPT ![r] = [amount |-> amount, status |-> status]],
           \/ r \notin Live /\ status \notin DeadStatus /\ amount + LiveTotal <= Amount
           \/ r \in Live /\ status \in DeadStatus
    PROVE  RefundsOK'
<1>1. /\ DOMAIN refund' = Refund
      /\ refund'[r] = [amount |-> amount, status |-> status]
      /\ \A q \in Refund : q # r => refund'[q] = refund[q]
  BY DEF RefundsOK
<1>2. refund'[r] # None
  <2>1. refund'[r] \in [amount : Int, status : RefundStatus]
    BY <1>1, AmountAssumption
  <2> QED BY <2>1, NoRefundAssumption
<1>3. \A q \in Refund : refund'[q] # None =>
        refund'[q].amount \in 1..Amount /\ refund'[q].status \in RefundStatus
  BY <1>1 DEF RefundsOK
<1>4. Live \in SUBSET Live /\ Live \subseteq Refund /\ Amount \in Nat /\ LiveTotal = TotalOf(Live)
  BY AmountAssumption DEF Live, LiveTotal
<1>5. IsFiniteSet(Live) /\ LiveTotal \in Nat /\ LiveTotal <= Amount
  BY <1>4, TotalIsNatural DEF RefundsOK
<1>6. CASE r \notin Live /\ status \notin DeadStatus /\ amount + LiveTotal <= Amount
  <2>1. Live' = Live \cup {r}
    BY <1>1, <1>2, <1>6 DEF Live
  <2>2. IsFiniteSet(Live')
    BY <1>5, <2>1, FS_AddElement
  <2>3. LiveTotal' = amount + LiveTotal
    <3>1. PICK S : S = Live
      OBVIOUS
    <3>2. PICK more : more = S \cup {r}
      OBVIOUS
    <3>3. PICK f : f = [q \in more |-> refund'[q].amount]
      OBVIOUS
    <3>4. PICK g : g = [q \in S |-> refund[q].amount]
      OBVIOUS
    <3>5. /\ f[r] = amount /\ r \notin S
          /\ \A q \in S : f[q] = g[q]
          /\ \A q \in S \cup {r} : f[q] \in Nat
      <4>1. \A q \in S : q # r /\ q \in Refund /\ refund[q].amount \in 1..Amount
        BY <1>6, <3>1 DEF Live, RefundsOK
      <4> QED BY <1>1, <1>6, <3>1, <3>2, <3>3, <3>4, <4>1
    <3>6. SumFunctionOnSet(f, S \cup {r}) = f[r] + SumFunctionOnSet(f, S)
      BY <1>5, <3>1, <3>5, SumWith
    <3>7. SumFunctionOnSet(f, S) = SumFunctionOnSet(g, S)
      BY <1>5, <3>1, <3>5, SumOfSame
    <3>8. LiveTotal' = SumFunctionOnSet(f, more)
      BY <2>1, <3>1, <3>2, <3>3 DEF LiveTotal, TotalOf
    <3>9. LiveTotal = SumFunctionOnSet(g, S)
      BY <3>1, <3>4 DEF LiveTotal, TotalOf
    <3> QED BY <3>2, <3>5, <3>6, <3>7, <3>8, <3>9
  <2> QED BY <1>1, <1>3, <1>6, <2>2, <2>3 DEF RefundsOK
<1>7. CASE r \in Live /\ status \in DeadStatus
  <2>1. PICK S : S = Live \ {r}
    OBVIOUS
  <2>2. /\ Live' = S /\ S \in SUBSET Live /\ r \notin S
        /\ Live = S \cup {r}
        /\ \A q \in S : refund'[q].amount = refund[q].amount
    BY <1>1, <1>2, <1>7, <2>1 DEF Live
  <2>3. IsFiniteSet(S) /\ TotalOf(S) \in Nat
    BY <2>2, TotalIsNatural
  <2>4. LiveTotal = refund[r].amount + TotalOf(S)
    <3>1. TotalOf(S \cup {r}) = refund[r].amount + TotalOf(S)
      BY <1>7, <2>2, TotalWith
    <3>2. LiveTotal = TotalOf(S \cup {r})
      BY <1>4, <2>2
    <3> QED BY <3>1, <3>2
  <2>5. LiveTotal' = TotalOf(S)
    <3>1. TotalOf(S)' = TotalOf(S)
      BY <2>2, TotalKept
    <3>2. LiveTotal' = TotalOf(S)'
      BY <2>2 DEF LiveTotal, TotalOf
    <3> QED BY <3>1, <3>2
  <2>6. refund[r].amount \in Nat
    BY <1>7 DEF Live, RefundsOK
  <2>7. LiveTotal' <= Amount
    BY <1>4, <1>5, <2>3, <2>4, <2>5, <2>6
  <2> QED BY <1>1, <1>3, <2>2, <2>3, <2>7 DEF RefundsOK
<1> QED BY <1>6, <1>7

LEMMA RefundsSame ==
    ASSUME RefundsOK, UNCHANGED refund
    PROVE  RefundsOK'
BY DEF RefundsOK, Live, LiveTotal, TotalOf

LEMMA RequestsSame ==
    ASSUME RequestsOK, UNCHANGED request
    PROVE  RequestsOK'
BY DEF RequestsOK

LEMMA RequestEnds ==
    ASSUME RequestsOK, NEW q \in Request, End(q)
    PROVE  RequestsOK'
BY DEF RequestsOK, End

\* A request keeps the amount it read, which is within the authorization.
LEMMA RequestBegins ==
    ASSUME OrderOK, RequestsOK, NEW q \in Request, BeginCapture(q) \/ BeginCancel(q)
    PROVE  RequestsOK'
<1>1. PICK op \in {"capture", "cancel"} :
        request' = [request EXCEPT ![q] =
                      [op |-> op, amount_capturable |-> order.amount_capturable]]
  BY DEF BeginCapture, BeginCancel, Begin
<1>2. order.amount_capturable \in {0, Amount}
  BY DEF OrderOK
<1> QED BY <1>1, <1>2 DEF RequestsOK

\* Refunds are bounded by what was received, and that by what was authorized.
LEMMA CreateRefundStep ==
    ASSUME OrderOK, RefundsOK, NEW r \in Refund, CreateRefund(r)
    PROVE  RefundsOK'
<1>1. PICK amount \in 1..order.amount_received - AlreadyRefunded :
           SetRefund(r, amount, IF order.refund_mode = "requires_action"
                                THEN <<"requires_action">>
                                ELSE <<"pending", "succeeded">>)
  BY DEF CreateRefund
<1>2. PICK status \in RefundStatus \ DeadStatus :
           refund' = [refund EXCEPT ![r] = [amount |-> amount, status |-> status]]
  <2>1. CASE order.refund_mode = "requires_action"
    BY <1>1, <2>1 DEF SetRefund, RefundStatus, InFlightStatus, DeadStatus
  <2>2. CASE order.refund_mode # "requires_action"
    BY <1>1, <2>2 DEF SetRefund, RefundStatus, InFlightStatus, DeadStatus
  <2> QED BY <2>1, <2>2
<1>3. Live \in SUBSET Live /\ LiveTotal = TotalOf(Live)
  BY DEF LiveTotal
<1>4. LiveTotal \in Nat
  BY <1>3, TotalIsNatural
<1>5. /\ Amount \in Nat /\ order.amount_received \in 0..Amount
      /\ amount \in 1..order.amount_received - LiveTotal
  BY <1>1, AmountAssumption DEF OrderOK, AlreadyRefunded
<1>6. amount \in 1..Amount /\ amount + LiveTotal <= Amount
  BY <1>4, <1>5
<1>7. r \notin Live
  BY DEF CreateRefund, Live
<1> QED BY <1>2, <1>6, <1>7, RefundsStep

LEMMA EndRefundStep ==
    ASSUME RefundsOK, NEW r \in Refund, CancelRefund(r) \/ FailRefund(r)
    PROVE  RefundsOK'
<1>1. PICK status \in DeadStatus :
        /\ r \in Live
        /\ refund' = [refund EXCEPT ![r] = [amount |-> refund[r].amount, status |-> status]]
  <2>1. CASE CancelRefund(r)
    BY <2>1 DEF CancelRefund, SetRefund, DeadStatus
  <2>2. CASE FailRefund(r)
    <3>1. refund[r] # None /\ refund[r].status \notin DeadStatus
      BY <2>2 DEF FailRefund, RefundTransitions, DeadStatus
    <3> QED BY <2>2, <3>1 DEF FailRefund, SetRefund, DeadStatus, Live
  <2> QED BY <2>1, <2>2
<1>2. refund[r].amount \in 1..Amount
  BY <1>1 DEF RefundsOK, Live
<1>3. status \in RefundStatus
  BY DEF RefundStatus
<1> QED BY <1>1, <1>2, <1>3, RefundsStep

LEMMA BalanceNext ==
    ASSUME BalanceInv, [Next]_vars
    PROVE  BalanceInv'
<1> DEFINE tried == [has_payment_intent |-> TRUE]
           held == [has_payment_intent |-> TRUE, amount_capturable |-> Amount]
           paid == [has_payment_intent |-> TRUE, amount_received |-> Amount]
           freed == [amount_capturable |-> 0]
           settled == [amount_received |-> Amount]
<1> USE AmountAssumption DEF BalanceInv
<1>1. CASE Decline \/ PayDelayed
  <2>1. \E status : UpdateThenTransition(tried, status)
    BY <1>1 DEF Decline, PayDelayed, Submit
  <2>2. UNCHANGED <<refund, request>>
    BY <1>1 DEF Decline, PayDelayed, Submit
  <2> QED BY <2>1, <2>2, OrderStep, RefundsSame, RequestsSame
<1>2. CASE Pay
  <2>1. \E status : UpdateThenTransition(held, status) \/ UpdateThenTransition(paid, status)
    BY <1>2 DEF Pay, Submit
  <2>2. UNCHANGED <<refund, request>>
    BY <1>2 DEF Pay, Submit
  <2>3. OrderOK'
    <3>1. ASSUME NEW status, UpdateThenTransition(held, status) PROVE OrderOK'
      BY <3>1, OrderStep
    <3>2. ASSUME NEW status, UpdateThenTransition(paid, status) PROVE OrderOK'
      <4>1. Amount \in 0..Amount
        OBVIOUS
      <4>2. paid.has_payment_intent = TRUE /\ paid.amount_received = Amount
        OBVIOUS
      <4>3. DOMAIN paid = {"has_payment_intent", "amount_received"}
        OBVIOUS
      <4> HIDE DEF paid
      <4> QED BY <3>2, <4>1, <4>2, <4>3, OrderStep
    <3> QED BY <2>1, <3>1, <3>2
  <2> QED BY <2>2, <2>3, RefundsSame, RequestsSame
<1>3. CASE ExpireSession \/ FailDelayed
  <2>1. \E status : UpdateThenTransition(<<>>, status)
    BY <1>3 DEF ExpireSession, FailDelayed
  <2>2. UNCHANGED <<refund, request>>
    BY <1>3 DEF ExpireSession, FailDelayed
  <2>3. DOMAIN <<>> = {}
    OBVIOUS
  <2> QED BY <2>1, <2>2, <2>3, OrderStep, RefundsSame, RequestsSame
<1>4. CASE ExpireAuth
  <2>1. UpdateThenTransition(freed, "canceled") /\ UNCHANGED <<refund, request>>
    BY <1>4 DEF ExpireAuth
  <2> QED BY <2>1, OrderStep, RefundsSame, RequestsSame
<1>5. CASE SettleDelayed
  <2>1. UpdateThenTransition(settled, "succeeded") /\ UNCHANGED <<refund, request>>
    BY <1>5 DEF SettleDelayed
  <2> QED BY <2>1, OrderStep, RefundsSame, RequestsSame
<1>6. ASSUME NEW q \in Request, FinishCancel(q) PROVE BalanceInv'
  <2>1. UpdateThenTransition(freed, "canceled") /\ End(q) /\ UNCHANGED refund
    BY <1>6 DEF FinishCancel
  <2> QED BY <2>1, OrderStep, RefundsSame, RequestEnds
<1>7. ASSUME NEW q \in Request, FinishCapture(q) PROVE BalanceInv'
  <2>1. PICK amount \in CaptureAmounts(q) :
          UpdateThenTransition([amount_received |-> amount, amount_capturable |-> 0],
                               "succeeded")
    BY <1>7 DEF FinishCapture
  <2>2. PICK captured : captured = [amount_received |-> amount, amount_capturable |-> 0]
    OBVIOUS
  <2>3. amount \in 0..Amount
    <3>1. request[q].amount_capturable \in {0, Amount}
      BY DEF RequestsOK
    <3> QED BY <3>1 DEF CaptureAmounts
  <2>4. UpdateThenTransition(captured, "succeeded") /\ End(q) /\ UNCHANGED refund
    BY <1>7, <2>1, <2>2 DEF FinishCapture
  <2>5. OrderOK'
    BY <2>2, <2>3, <2>4, OrderStep
  <2> QED BY <2>4, <2>5, RefundsSame, RequestEnds
<1>8. ASSUME NEW q \in Request, BeginCapture(q) \/ BeginCancel(q) PROVE BalanceInv'
  <2>1. UNCHANGED <<order, refund>>
    BY <1>8 DEF BeginCapture, BeginCancel, Begin
  <2>2. OrderOK'
    BY <2>1 DEF OrderOK
  <2> QED BY <1>8, <2>1, <2>2, RequestBegins, RefundsSame
<1>9. ASSUME NEW r \in Refund, CreateRefund(r) \/ CancelRefund(r) \/ FailRefund(r)
      PROVE  BalanceInv'
  <2>1. UNCHANGED <<order, request>>
    BY <1>9 DEF CreateRefund, CancelRefund, FailRefund
  <2>2. OrderOK'
    BY <2>1 DEF OrderOK
  <2> QED BY <1>9, <2>1, <2>2, CreateRefundStep, EndRefundStep, RequestsSame
<1>10. CASE SetRefundMode
  <2>1. OrderOK' /\ UNCHANGED <<refund, request>>
    BY <1>10 DEF SetRefundMode, OrderOK
  <2> QED BY <2>1, RefundsSame, RequestsSame
<1>11. CASE UNCHANGED vars
  <2>1. OrderOK' /\ UNCHANGED <<refund, request>>
    BY <1>11 DEF vars, OrderOK
  <2> QED BY <2>1, RefundsSame, RequestsSame
<1> QED BY <1>1, <1>2, <1>3, <1>4, <1>5, <1>6, <1>7, <1>8, <1>9, <1>10, <1>11 DEF Next

LEMMA BalanceInit ==
    ASSUME Init
    PROVE  BalanceInv
<1>1. OrderOK
  <2>1. PICK capture_method \in {"automatic", "manual"} :
          order = [f \in DOMAIN NewOrder(None, capture_method) \cup {"refund_mode"} |->
                     IF f = "refund_mode" THEN ""
                     ELSE NewOrder(None, capture_method)[f]]
    BY DEF Init
  <2>2. DOMAIN NewOrder(None, capture_method) =
          {"owner", "capture_method", "status", "has_payment_intent",
           "amount_capturable", "amount_received"}
    BY DEF NewOrder
  <2>3. /\ DOMAIN order = {"owner", "capture_method", "status", "has_payment_intent",
                           "amount_capturable", "amount_received", "refund_mode"}
        /\ order.status = "open" /\ order.capture_method = capture_method
        /\ order.has_payment_intent = FALSE /\ order.refund_mode = ""
        /\ order.amount_capturable = 0 /\ order.amount_received = 0
    BY <2>1, <2>2 DEF NewOrder
  <2>4. "open" \in CheckoutStatus /\ 0 \in 0..Amount
    BY AmountAssumption DEF CheckoutStatus
  <2> QED BY <2>3, <2>4 DEF OrderOK
<1>2. RequestsOK
  BY DEF Init, RequestsOK
<1>3. RefundsOK
  <2>1. Live = {} /\ DOMAIN refund = Refund /\ \A r \in Refund : refund[r] = None
    BY DEF Init, Live
  <2>2. PICK f : f = [r \in {} |-> refund[r].amount]
    OBVIOUS
  <2>3. SumFunctionOnSet(f, {}) = 0
    BY SumOfNothing
  <2>4. LiveTotal = 0
    BY <2>1, <2>2, <2>3 DEF LiveTotal, TotalOf
  <2> QED BY <2>1, <2>4, FS_EmptySet, AmountAssumption DEF RefundsOK
<1> QED BY <1>1, <1>2, <1>3 DEF BalanceInv

LEMMA BalanceAlways == Spec => []BalanceInv
BY BalanceInit, BalanceNext, PTL DEF Spec

\* The order, the requests and the refunds keep to their types.
THEOREM SimulatorTypeCorrect == Spec => []TypeOK
<1>1. Spec => []RefundInv
  BY RefundInit, RefundNext, PTL DEF Spec
<1>2. BalanceInv /\ RefundInv => TypeOK
  <2> SUFFICES ASSUME BalanceInv, RefundInv PROVE TypeOK
    OBVIOUS
  <2>1. ASSUME NEW r \in Refund, NEW i \in DOMAIN told[r]
        PROVE  told[r][i] \in RefundStatus
    <3>1. told[r] \in Seq(RefundStatus)
      BY DEF RefundInv
    <3> QED BY <3>1
  <2> QED BY <2>1 DEF TypeOK, BalanceInv, OrderOK, RequestsOK, RefundsOK
<1> QED BY <1>1, <1>2, BalanceAlways, PTL

\* However captures, cancellations and the ops endpoint race, the refunds that
\* stand add up to no more than the buyer authorized.
THEOREM RefundsStayWithinAuthorization == Spec => []RefundsWithinAuthorization
<1>1. BalanceInv => RefundsWithinAuthorization
  BY DEF BalanceInv, RefundsOK, RefundsWithinAuthorization
<1> QED BY <1>1, BalanceAlways, PTL
=============================================================================
