--------------------------- MODULE MomentumProofs ---------------------------
(***************************************************************************)
(* For every set of instruments, prices and returns, every window and      *)
(* every venue: the safety of the Stage 3 execution state machine, and     *)
(* what it promises.  It follows the targets decided (TargetFollower), in  *)
(* the engine the runner uses it is on target in time and its audit finds  *)
(* nothing, and the accounting-only replay of its decisions trades alike.  *)
(***************************************************************************)
EXTENDS DecisionReplay, SequenceTheorems, TLAPS

SameSide(p, q) == (p >= 0 /\ q >= 0) \/ (p <= 0 /\ q <= 0)
Within(q, size) == -size <= q /\ q <= size
Left(o) == o.qty - o.filled
LastOrder(s) == s.orders[Len(s.orders)]

(* What the venue has still to tell the strategy of a fill: one position   *)
(* event, with the fill event before it or already delivered.              *)
Due(s) == IF s.inbox = <<>> THEN 0 ELSE s.inbox[Len(s.inbox)].apply
InboxOK(s) ==
  /\ s.inbox \in {<<>>, <<[apply |-> Due(s)]>>, <<[apply |-> 0], [apply |-> Due(s)]>>}
  /\ SameSide(s.position, Booked(s))

(* An order at work is a leg that stays on one side, within the tick.      *)
WorkingOK(s, size, o) ==
  /\ Left(o) # 0 /\ Within(o.qty, size)
  /\ SameSide(Booked(s), Booked(s) + Left(o)) /\ Within(Booked(s) + Left(o), size)

DatesOK(o, ts) == InWindow(o.expected) /\ o.decision < o.expected /\ o.expected <= ts

OrdersOK(s, size, ts) ==
  \A k \in DOMAIN s.orders :
    /\ DatesOK(s.orders[k], ts)
    /\ Submitted(s.orders[k]) => WorkingOK(s, size, s.orders[k])

OneWorking(s) ==
  \A j, k \in DOMAIN s.orders :
    Submitted(s.orders[j]) /\ Submitted(s.orders[k]) => j = k

LegsOfOne(o, p) == o.leg = "reversal_close" /\ p.leg = "reversal_open"
EachOnce(s) ==
  \A j, k \in DOMAIN s.orders :
    j < k /\ s.orders[j].decision = s.orders[k].decision =>
      LegsOfOne(s.orders[j], s.orders[k])

(* The pending decision is the latest one, and waits for the next open.    *)
PendingOK(s, ts, done) ==
  s.pending # None =>
    /\ s.reversal = None /\ s.pending.target = s.goal
    /\ InWindow(s.pending.ts) /\ NextBarOpen(s.pending.ts) < EvaluationEnd
    /\ IF IsOpen(ts) THEN ~done /\ s.pending.ts = ts - 1 ELSE done /\ s.pending.ts = ts
    /\ \A k \in DOMAIN s.orders : s.orders[k].decision < s.pending.ts

(* The last bar of the window has closed.                                  *)
WindowOver(ts, done) == ts >= EvaluationEnd \/ (ts = EvaluationEnd - 1 /\ done)

(* A reversal is about its last order, the close, and the latest decision; *)
(* the close aims at flat.                                                 *)
ReversalOK(s, ts, done) ==
  s.reversal # None =>
    /\ s.reversal.latest.target = s.goal
    /\ InWindow(s.reversal.latest.ts) /\ s.reversal.latest.ts <= ts
    /\ s.orders # <<>> /\ s.reversal.closeOrder = Len(s.orders)
    /\ LastOrder(s).leg = "reversal_close"
    /\ LastOrder(s).decision <= s.reversal.latest.ts
    /\ \A j \in DOMAIN s.orders :
         j # Len(s.orders) => /\ s.orders[j].decision < s.reversal.latest.ts
                              /\ ~Submitted(s.orders[j])
    /\ Submitted(LastOrder(s)) => Booked(s) + Left(LastOrder(s)) = 0
    /\ LastOrder(s).status = "filled" => Booked(s) = 0
    /\ s.reversal.phase = "flat_confirmed" => LastOrder(s).status = "filled"
    /\ ~s.error /\ WindowOver(ts, done) => NextBarOpen(s.reversal.latest.ts) >= EvaluationEnd

(* The strategy's state of an instrument at ts, with ticks of the given    *)
(* size, before or after (done) the event of that instant.                 *)
Sound(s, size, ts, done) ==
  /\ s \in BookType
  /\ Within(Booked(s), size) /\ Within(s.goal, size)
  /\ InboxOK(s) /\ OrdersOK(s, size, ts) /\ OneWorking(s) /\ EachOnce(s)
  /\ PendingOK(s, ts, done) /\ ReversalOK(s, ts, done)

SoundInv ==
  /\ TypeOK
  /\ \A i \in Instruments : Sound(book[i], capacity[i], clock, i \in served)

-----------------------------------------------------------------------------
(* Signs and sizes. *)

(* The product tells the side. *)
LEMMA SideOfProduct ==
  ASSUME NEW p \in Int, NEW q \in Int
  PROVE  /\ SameSide(p, q) <=> p * q >= 0
         /\ Reversing(p, q) <=> ~SameSide(p, q)
BY DEF SameSide, Reversing

(* The leg toward a target stays on the position's side, within the        *)
(* larger of the two.                                                      *)
LEMMA LegIsSafe ==
  ASSUME NEW s, NEW target \in Int, NEW size \in Nat, s.position \in Int,
         Within(s.position, size), Within(target, size)
  PROVE  LET q == LegQuantity(s, target) IN
         /\ q \in Int /\ Within(q, size) /\ Within(s.position + q, size)
         /\ SameSide(s.position, s.position + q)
         /\ Reversing(s.position, target) => s.position + q = 0 /\ q # 0
         /\ ~Reversing(s.position, target) => s.position + q = target
<1>1. CASE Reversing(s.position, target)
  BY <1>1, SideOfProduct DEF LegQuantity, Within, SameSide
<1>2. CASE ~Reversing(s.position, target)
  BY <1>2, SideOfProduct DEF LegQuantity, Within, SameSide
<1>3. QED
  BY <1>1, <1>2

(* A whole number of increments. *)
LEMMA UnitsType ==
  ASSUME NEW close \in Prices
  PROVE  Units(close) \in Nat
<1>1. close \in Nat \ {0} /\ TargetNotional \in Nat
  BY MomentumAssumption
<1>2. TargetNotional \div close \in Nat
  BY <1>1, Z3
<1>3. QED
  BY <1>2 DEF Units

(* A target never exceeds what the notional buys. *)
LEMMA TargetFits ==
  ASSUME NEW close \in Prices, NEW signal
  PROVE  TargetQuantity(signal, close) \in Int /\ Within(TargetQuantity(signal, close), Units(close))
BY UnitsType DEF TargetQuantity, Within

(* The parity of an instant. *)
LEMMA Parity ==
  ASSUME NEW ts \in Nat
  PROVE  /\ IsOpen(ts) <=> ~IsOpen(ts + 1)
         /\ IsOpen(ts) => ts # EvaluationEnd - 1
BY MomentumAssumption, WindowAssumption DEF IsOpen

-----------------------------------------------------------------------------
(* What the building blocks do to the record of an instrument. *)

NewOrder(leg, qty, d, ts) ==
  [leg |-> leg, qty |-> qty, filled |-> 0, status |-> "submitted",
   decision |-> d.ts, expected |-> ts, onTime |-> TRUE]

(* t is s with one order more. *)
Appended(s, t, o) ==
  /\ t \in BookType /\ o \in OrderType
  /\ t = [s EXCEPT !.orders = t.orders]
  /\ Len(t.orders) = Len(s.orders) + 1
  /\ DOMAIN t.orders = DOMAIN s.orders \cup {Len(t.orders)}
  /\ Len(t.orders) \notin DOMAIN s.orders
  /\ \A k \in DOMAIN s.orders : k \in 1..Len(s.orders) /\ t.orders[k] = s.orders[k]
  /\ t.orders[Len(t.orders)] = o

(* A submission appends one working order and touches nothing else.        *)
LEMMA SubmitAppends ==
  ASSUME NEW s \in BookType, NEW leg \in {"direct", "reversal_close", "reversal_open"},
         NEW qty \in Int, NEW d \in DecisionType, NEW ts \in Nat,
         NEW t, t = Submit(s, leg, qty, d, ts)
  PROVE  Appended(s, t, NewOrder(leg, qty, d, ts))
<1> DEFINE o == NewOrder(leg, qty, d, ts)
<1>1. o \in OrderType
  BY DEF OrderType, DecisionType, NewOrder
<1>2. s.orders \in Seq(OrderType)
  BY DEF BookType
<1>3. t.orders = Append(s.orders, o) /\ t = [s EXCEPT !.orders = t.orders]
  BY DEF Submit, BookType, NewOrder
<1> HIDE DEF o
<1>4. t.orders \in Seq(OrderType) /\ Len(t.orders) = Len(s.orders) + 1
  BY <1>1, <1>2, <1>3
<1>5. t \in BookType
  BY <1>3, <1>4 DEF BookType
<1>6. DOMAIN s.orders = 1..Len(s.orders) /\ DOMAIN t.orders = 1..Len(t.orders)
      /\ Len(s.orders) \in Nat
  BY <1>2, <1>4
<1>7. \A k \in 1..Len(s.orders) : t.orders[k] = s.orders[k]
  BY <1>1, <1>2, <1>3
<1>8. t.orders[Len(t.orders)] = o
  BY <1>1, <1>2, <1>3, <1>4
<1>9. QED
  BY <1>1, <1>3, <1>4, <1>5, <1>6, <1>7, <1>8 DEF o, Appended

(* Orders are numbered from 1. *)
LEMMA OrdersOfBook ==
  ASSUME NEW s \in BookType
  PROVE  /\ Len(s.orders) \in Nat /\ DOMAIN s.orders = 1..Len(s.orders)
         /\ \A k \in DOMAIN s.orders : s.orders[k] \in OrderType
         /\ s.orders # <<>> => Len(s.orders) \in DOMAIN s.orders
<1>1. s.orders \in Seq(OrderType)
  BY DEF BookType
<1>2. QED
  BY <1>1, ElementOfSeq, EmptySeq, LenProperties

(* The position with what is due, in each state of the inbox. *)
LEMMA BookedOf ==
  ASSUME NEW s \in BookType, InboxOK(s)
  PROVE  /\ Due(s) \in Int /\ Booked(s) = s.position + Due(s) /\ Booked(s) \in Int
         /\ s.inbox = <<>> => Booked(s) = s.position
<1>1. s.inbox \in Seq([apply : Int]) /\ s.position \in Int
  BY DEF BookType
<1>2. CASE s.inbox = <<>>
  BY <1>1, <1>2 DEF Due, Booked
<1>3. CASE s.inbox # <<>>
  <2> DEFINE n == Len(s.inbox)
  <2>0. n \in 1..Len(s.inbox)
    BY <1>1, <1>3, EmptySeq
  <2>1. s.inbox[n] \in [apply : Int]
    BY <1>1, <2>0, ElementOfSeq
  <2>2. QED
    BY <1>1, <1>3, <2>1 DEF Due, Booked
<1>4. QED
  BY <1>2, <1>3

(* The parts of Sound that a submission keeps. *)
LedgerOK(s, size, ts) ==
  /\ s \in BookType /\ Within(Booked(s), size)
  /\ InboxOK(s) /\ OrdersOK(s, size, ts) /\ OneWorking(s) /\ EachOnce(s)

(* A new order beside settled ones: a leg from the booked position that    *)
(* does not cross zero, of a decision newer than theirs, or the opening    *)
(* leg of the decision whose closing leg they end with.                    *)
LEMMA SubmitKeepsLedger ==
  ASSUME NEW s, NEW size \in Nat, NEW ts \in Nat, LedgerOK(s, size, ts), ~UnsettledOrders(s),
         NEW leg \in {"direct", "reversal_close", "reversal_open"},
         NEW qty \in Int, NEW d \in DecisionType,
         qty # 0, Within(qty, size), SameSide(Booked(s), Booked(s) + qty),
         Within(Booked(s) + qty, size), InWindow(ts), d.ts < ts,
         \A k \in DOMAIN s.orders :
           \/ s.orders[k].decision < d.ts
           \/ s.orders[k].leg = "reversal_close" /\ leg = "reversal_open",
         NEW t, t = Submit(s, leg, qty, d, ts)
  PROVE  LedgerOK(t, size, ts) /\ Booked(t) = Booked(s)
<1> DEFINE n == Len(t.orders)
           o == NewOrder(leg, qty, d, ts)
<1>1. s \in BookType
  BY DEF LedgerOK
<1>2. /\ t \in BookType /\ o \in OrderType
      /\ t = [s EXCEPT !.orders = t.orders]
      /\ n = Len(s.orders) + 1
      /\ DOMAIN t.orders = DOMAIN s.orders \cup {n}
      /\ n \notin DOMAIN s.orders
      /\ \A k \in DOMAIN s.orders : k \in 1..Len(s.orders) /\ t.orders[k] = s.orders[k]
      /\ t.orders[n] = o
  <2>1. Appended(s, t, o)
    BY <1>1, SubmitAppends
  <2>2. QED
    BY <2>1 DEF Appended
<1>2a. o.decision = d.ts /\ o.expected = ts /\ o.leg = leg /\ o.qty = qty /\ o.filled = 0
  BY DEF NewOrder
<1> HIDE DEF o, n
<1>3. t.inbox = s.inbox /\ t.position = s.position
  BY <1>1, <1>2 DEF BookType
<1>4. Booked(t) = Booked(s) /\ Due(t) = Due(s)
  BY <1>3 DEF Booked, Due
<1>5. InboxOK(t)
  BY <1>3, <1>4 DEF InboxOK, LedgerOK
<1>6. \A k \in DOMAIN s.orders : ~Submitted(t.orders[k])
  BY <1>2 DEF UnsettledOrders
<1>7. DatesOK(o, ts)
  BY <1>2a DEF DatesOK, DecisionType
<1>8. WorkingOK(t, size, o)
  BY <1>4, <1>2a DEF WorkingOK, Left
<1>9. OrdersOK(t, size, ts)
  BY <1>2, <1>6, <1>7, <1>8 DEF OrdersOK, LedgerOK
<1>10. OneWorking(t)
  BY <1>2, <1>6 DEF OneWorking
<1>11. EachOnce(t)
  <2> SUFFICES ASSUME NEW j \in DOMAIN t.orders, NEW k \in DOMAIN t.orders, j < k,
                      t.orders[j].decision = t.orders[k].decision
               PROVE  LegsOfOne(t.orders[j], t.orders[k])
    BY DEF EachOnce
  <2>1. CASE k \in DOMAIN s.orders
    <3>1. j \in DOMAIN s.orders
      BY <1>1, <1>2, <2>1, OrdersOfBook
    <3>2. QED
      BY <1>2, <2>1, <3>1 DEF EachOnce, LedgerOK
  <2>2. CASE k = n
    <3>1. j \in DOMAIN s.orders
      BY <1>2, <2>2
    <3>2. s.orders[j] \in OrderType
      BY <1>1, <3>1, OrdersOfBook
    <3>3. QED
      BY <1>2, <1>2a, <2>2, <3>1, <3>2, SMTT(30) DEF LegsOfOne, OrderType, DecisionType
  <2>3. QED
    BY <1>2, <2>1, <2>2
<1>12. QED
  BY <1>2, <1>4, <1>5, <1>9, <1>10, <1>11 DEF LedgerOK

Sides(s, t) == t.position = s.position /\ t.inbox = s.inbox /\ t.orders = s.orders

(* The ledger is about the position, the orders and the inbox only.        *)
LEMMA LedgerOfFields ==
  ASSUME NEW s, NEW size \in Nat, NEW ts \in Nat, NEW t \in BookType, Sides(s, t)
  PROVE  /\ LedgerOK(s, size, ts) => LedgerOK(t, size, ts)
         /\ Booked(t) = Booked(s) /\ UnsettledOrders(t) = UnsettledOrders(s)
<1>1. Booked(t) = Booked(s) /\ Due(t) = Due(s)
  BY DEF Booked, Due, Sides
<1>2. UnsettledOrders(t) = UnsettledOrders(s)
  BY DEF UnsettledOrders, Sides
<1>3. InboxOK(s) => InboxOK(t)
  BY <1>1 DEF InboxOK, Sides
<1>4. OrdersOK(s, size, ts) => OrdersOK(t, size, ts)
  BY <1>1 DEF OrdersOK, WorkingOK, Sides
<1>5. OneWorking(s) => OneWorking(t)
  BY DEF OneWorking, Sides
<1>6. EachOnce(s) => EachOnce(t)
  BY DEF EachOnce, Sides
<1>7. QED
  BY <1>1, <1>2, <1>3, <1>4, <1>5, <1>6 DEF LedgerOK

(* Soundness as the ledger and what is decided of it.                      *)
LEMMA SoundParts ==
  ASSUME NEW s, NEW size, NEW ts, NEW done
  PROVE  Sound(s, size, ts, done) <=>
           /\ LedgerOK(s, size, ts) /\ Within(s.goal, size)
           /\ PendingOK(s, ts, done) /\ ReversalOK(s, ts, done)
BY DEF Sound, LedgerOK

-----------------------------------------------------------------------------
(* The callbacks. *)

(* The opening leg of a reversal whose position is flat.                   *)
LEMMA OpenKeepsSound ==
  ASSUME NEW s, NEW size \in Nat, NEW ts \in Nat, NEW done \in BOOLEAN, NEW price,
         Sound(s, size, ts, done), s.reversal # None, s.reversal.phase = "flat_confirmed",
         ~s.error
  PROVE  Sound(SubmitReversalOpen(s, ts, price), size, ts, done)
<1> DEFINE d == s.reversal.latest
           u == Submit(s, "reversal_open", d.target, d, ts)
<1>1. /\ s \in BookType /\ LedgerOK(s, size, ts) /\ Within(s.goal, size)
      /\ s.pending = None /\ ReversalOK(s, ts, done) /\ PendingOK(s, ts, done)
  BY SoundParts DEF PendingOK, LedgerOK
<1>2. s.reversal \in ReversalType /\ d \in DecisionType
  BY <1>1 DEF BookType, ReversalType
<1>3. /\ d.target = s.goal /\ InWindow(d.ts) /\ d.ts <= ts
      /\ Len(s.orders) \in DOMAIN s.orders
      /\ LastOrder(s).leg = "reversal_close" /\ LastOrder(s).status = "filled" /\ Booked(s) = 0
      /\ \A j \in DOMAIN s.orders : j # Len(s.orders) => s.orders[j].decision < d.ts
      /\ LastOrder(s).decision <= d.ts
  BY <1>1, OrdersOfBook DEF ReversalOK
<1>4. ASSUME NEW t, LedgerOK(t, size, ts), t.goal = s.goal, t.pending = None
      PROVE  Sound(EndReversal(t), size, ts, done)
  <2> DEFINE e == EndReversal(t)
  <2>1. t \in BookType
    BY <1>4 DEF LedgerOK
  <2>2. e \in BookType /\ Sides(t, e) /\ e.reversal = None /\ e.goal = s.goal
        /\ e.pending = t.pending
    BY <1>4, <2>1 DEF EndReversal, BookType, Sides
  <2>3. LedgerOK(e, size, ts)
    BY <1>4, <2>2, LedgerOfFields
  <2>4. PendingOK(e, ts, done) /\ ReversalOK(e, ts, done)
    BY <1>4, <2>2 DEF PendingOK, ReversalOK
  <2>5. Within(e.goal, size)
    BY <1>1, <2>2
  <2> HIDE DEF e
  <2>6. QED
    BY <2>3, <2>4, <2>5, SoundParts DEF e
<1>5. CASE ~OpensInWindow(d)
  BY <1>1, <1>4, <1>5 DEF SubmitReversalOpen
<1>6. CASE OpensInWindow(d) /\ (ts <= d.ts \/ UnsettledOrders(s) \/ s.position # 0)
  BY <1>6 DEF SubmitReversalOpen
<1>7. CASE /\ OpensInWindow(d) /\ ~(ts <= d.ts \/ UnsettledOrders(s) \/ s.position # 0)
           /\ d.target = 0
  BY <1>1, <1>4, <1>7 DEF SubmitReversalOpen
<1>8. CASE /\ OpensInWindow(d) /\ ~(ts <= d.ts \/ UnsettledOrders(s) \/ s.position # 0)
           /\ d.target # 0 /\ ~MeetsMinimumOrder(Abs(d.target), price)
  <2> DEFINE e == [s EXCEPT !.error = TRUE]
  <2>1. e \in BookType /\ Sides(s, e) /\ e.error /\ e.goal = s.goal /\ e.pending = s.pending
        /\ e.reversal = s.reversal
    BY <1>1 DEF BookType, Sides
  <2>2. Sound(e, size, ts, done)
    BY <1>1, <2>1, LedgerOfFields, SoundParts DEF PendingOK, ReversalOK, LastOrder, Sides
  <2>3. QED
    BY <1>8, <2>2 DEF SubmitReversalOpen
<1>9. CASE /\ OpensInWindow(d) /\ ~(ts <= d.ts \/ UnsettledOrders(s) \/ s.position # 0)
           /\ d.target # 0 /\ MeetsMinimumOrder(Abs(d.target), price)
  <2>1. d.target \in Int /\ d.ts \in Nat /\ d.ts < ts /\ ~UnsettledOrders(s)
    BY <1>2, <1>9 DEF DecisionType
  <2>2. InWindow(ts)
    BY <1>1, <1>3, <1>9, <2>1, MomentumAssumption
       DEF InWindow, OpensInWindow, NextBarOpen, ReversalOK, WindowOver
  <2>3. \A k \in DOMAIN s.orders :
          \/ s.orders[k].decision < d.ts
          \/ s.orders[k].leg = "reversal_close" /\ "reversal_open" = "reversal_open"
    BY <1>3 DEF LastOrder
  <2>4. Within(d.target, size) /\ SameSide(Booked(s), Booked(s) + d.target)
        /\ Within(Booked(s) + d.target, size)
    BY <1>1, <1>3, <2>1 DEF Within, SameSide
  <2>5. LedgerOK(u, size, ts)
    BY <1>1, <1>2, <1>9, <2>1, <2>2, <2>3, <2>4, SubmitKeepsLedger
  <2>6. u.goal = s.goal /\ u.pending = None
    BY <1>1 DEF Submit, BookType
  <2>7. Sound(EndReversal(u), size, ts, done)
    BY <1>4, <2>5, <2>6
  <2>8. QED
    BY <1>9, <2>7 DEF SubmitReversalOpen
<1>10. QED
  BY <1>5, <1>6, <1>7, <1>8, <1>9

(* The leg of the pending decision, from a settled book.                   *)
LEMMA ExecuteKeepsSound ==
  ASSUME NEW s, NEW size \in Nat, NEW ts \in Nat, NEW price \in Prices,
         Sound(s, size, ts, FALSE), IsOpen(ts), InWindow(ts), ~s.error, s.inbox = <<>>,
         s.pending # None
  PROVE  Sound(ExecutePending(s, ts, price), size, ts, TRUE)
<1> DEFINE d == s.pending
           p == [s EXCEPT !.pending = None]
           qty == LegQuantity(s, d.target)
<1>1. /\ s \in BookType /\ LedgerOK(s, size, ts) /\ Within(s.goal, size) /\ InboxOK(s)
      /\ PendingOK(s, ts, FALSE)
  BY SoundParts DEF LedgerOK
<1>2. d \in DecisionType /\ d.target \in Int /\ d.ts \in Nat /\ s.position \in Int
  BY <1>1 DEF BookType, DecisionType
<1>3. /\ s.reversal = None /\ d.target = s.goal /\ d.ts = ts - 1 /\ ts = NextBarOpen(d.ts)
      /\ InWindow(d.ts) /\ \A k \in DOMAIN s.orders : s.orders[k].decision < d.ts
  BY <1>1, <1>2 DEF PendingOK, NextBarOpen
<1>4. Booked(s) = s.position
  BY <1>1, BookedOf
<1>5. p \in BookType /\ Sides(s, p) /\ p.pending = None /\ p.reversal = None /\ p.goal = s.goal
      /\ ~p.error
  BY <1>1, <1>3 DEF BookType, Sides
<1>6. LedgerOK(p, size, ts) /\ Booked(p) = Booked(s) /\ UnsettledOrders(p) = UnsettledOrders(s)
  BY <1>1, <1>5, LedgerOfFields
<1> HIDE DEF p, qty
(* Without a reversal there is nothing more to say. *)
<1>7. ASSUME NEW t, LedgerOK(t, size, ts), t.pending = None, t.reversal = None, t.goal = s.goal
      PROVE  Sound(t, size, ts, TRUE)
  BY <1>1, <1>7, SoundParts DEF PendingOK, ReversalOK
<1>8. CASE ~FreeToOrder(s)
  <2> DEFINE e == [p EXCEPT !.missed = TRUE]
  <2>1. e \in BookType /\ Sides(p, e) /\ e.pending = None /\ e.reversal = None /\ e.goal = s.goal
    BY <1>5 DEF BookType, Sides
  <2>2. LedgerOK(e, size, ts)
    BY <1>6, <2>1, LedgerOfFields
  <2>3. Sound(e, size, ts, TRUE)
    BY <1>7, <2>1, <2>2
  <2>4. QED
    BY <1>3, <1>8, <2>3 DEF ExecutePending, p
<1>9. CASE FreeToOrder(s) /\ (qty = 0 \/ ~MeetsMinimumOrder(Abs(qty), price))
  <2>1. Sound(p, size, ts, TRUE)
    BY <1>5, <1>6, <1>7
  <2>2. QED
    BY <1>3, <1>9, <2>1 DEF ExecutePending, p, qty
<1>10. CASE FreeToOrder(s) /\ ~(qty = 0 \/ ~MeetsMinimumOrder(Abs(qty), price))
  <2>1. /\ qty \in Int /\ qty # 0 /\ Within(qty, size) /\ Within(Booked(p) + qty, size)
        /\ SameSide(Booked(p), Booked(p) + qty) /\ ~UnsettledOrders(p) /\ d.ts < ts
        /\ Reversing(s.position, d.target) => Booked(p) + qty = 0
    <3>1. Within(s.position, size) /\ Within(d.target, size)
      BY <1>1, <1>3, <1>4 DEF LedgerOK
    <3>2. QED
      BY <1>2, <1>3, <1>4, <1>6, <1>10, <3>1, LegIsSafe DEF FreeToOrder, qty
  <2>2. ASSUME NEW leg \in {"direct", "reversal_close", "reversal_open"},
               NEW u, u = Submit(p, leg, qty, d, ts)
        PROVE  /\ LedgerOK(u, size, ts) /\ Booked(u) = Booked(p)
               /\ u \in BookType /\ u.pending = None /\ u.reversal = None /\ u.goal = s.goal
               /\ Appended(p, u, NewOrder(leg, qty, d, ts))
    <3>1. \A k \in DOMAIN p.orders : p.orders[k].decision < d.ts
      BY <1>3, <1>5 DEF Sides
    <3>2. LedgerOK(u, size, ts) /\ Booked(u) = Booked(p)
      BY <1>2, <1>6, <2>1, <2>2, <3>1, SubmitKeepsLedger
    <3>3. Appended(p, u, NewOrder(leg, qty, d, ts))
      BY <1>2, <1>5, <2>1, <2>2, SubmitAppends
    <3>4. QED
      BY <1>5, <3>2, <3>3 DEF Appended, BookType
  <2>3. CASE ~Reversing(s.position, d.target)
    <3> DEFINE u == Submit(p, "direct", qty, d, ts)
    <3>1. Sound(u, size, ts, TRUE)
      BY <1>7, <2>2
    <3>2. QED
      BY <1>3, <1>10, <2>3, <3>1 DEF ExecutePending, p, qty
  <2>4. CASE Reversing(s.position, d.target)
    <3> DEFINE u == Submit(p, "reversal_close", qty, d, ts)
               r == [phase |-> "closing", latest |-> d, price |-> price,
                     closeOrder |-> Len(s.orders) + 1]
               e == [u EXCEPT !.reversal = r]
               o == NewOrder("reversal_close", qty, d, ts)
    <3>1. /\ LedgerOK(u, size, ts) /\ Booked(u) = Booked(p) /\ u \in BookType
          /\ u.pending = None /\ u.goal = s.goal /\ Appended(p, u, o)
      BY <2>2
    <3>2. r \in ReversalType
      BY <1>1, <1>2, OrdersOfBook DEF ReversalType
    <3>3. /\ e \in BookType /\ Sides(u, e) /\ e.pending = None /\ e.goal = s.goal
          /\ e.reversal = r
      BY <3>1, <3>2 DEF BookType, Sides
    <3>4. LedgerOK(e, size, ts) /\ Booked(e) = Booked(p)
      BY <3>1, <3>3, LedgerOfFields
    <3>5. /\ LastOrder(e) = o /\ Len(e.orders) = Len(s.orders) + 1 /\ e.orders # <<>>
          /\ \A j \in DOMAIN e.orders :
               j # Len(e.orders) => j \in DOMAIN s.orders /\ e.orders[j] = s.orders[j]
      <4>1. e.orders = u.orders /\ Len(e.orders) \in DOMAIN e.orders
        BY <3>1, <3>3 DEF Sides, Appended
      <4>2. QED
        BY <1>5, <3>1, <4>1 DEF Appended, Sides, LastOrder
    <3>6. /\ r.latest = d /\ r.closeOrder = Len(s.orders) + 1 /\ r.phase = "closing"
          /\ o.leg = "reversal_close" /\ o.decision = d.ts /\ Left(o) = qty
          /\ o.status = "submitted"
      BY <2>1 DEF NewOrder, Left
    <3> HIDE DEF r, o, e
    <3>7. WindowOver(ts, TRUE) => FALSE
      BY MomentumAssumption, Parity DEF WindowOver, InWindow
    <3>8. ReversalOK(e, ts, TRUE)
      <4>1. d.target = e.goal /\ InWindow(d.ts) /\ d.ts <= ts
        BY <1>2, <1>3, <2>1, <3>3
      <4>2. \A j \in DOMAIN e.orders :
              j # Len(e.orders) => e.orders[j].decision < d.ts /\ ~Submitted(e.orders[j])
        BY <1>3, <1>6, <2>1, <3>5 DEF UnsettledOrders
      <4>3. Booked(e) + Left(o) = 0 /\ o.decision <= d.ts
        BY <1>2, <2>1, <2>4, <3>4, <3>6
      <4>4. QED
        BY <3>3, <3>5, <3>6, <3>7, <4>1, <4>2, <4>3 DEF ReversalOK, Submitted
    <3>9. Sound(e, size, ts, TRUE)
      BY <1>1, <3>3, <3>4, <3>8, SoundParts DEF PendingOK
    <3>10. QED
      BY <1>3, <1>10, <2>4, <3>9 DEF ExecutePending, p, qty, e, r
  <2>5. QED
    BY <2>3, <2>4
<1>11. QED
  BY <1>8, <1>9, <1>10

(* What the opening leg leaves alone.                                      *)
LEMMA OpenLeaves ==
  ASSUME NEW s \in BookType, NEW ts \in Nat, NEW price, NEW t, t = SubmitReversalOpen(s, ts, price)
  PROVE  /\ t.pending = s.pending /\ t.goal = s.goal /\ t.position = s.position
         /\ t.inbox = s.inbox /\ t.missed = s.missed
BY DEF SubmitReversalOpen, EndReversal, Submit, BookType

(* Without a pending decision the open of a bar needs nothing more.        *)
LEMMA OpenWithoutPending ==
  ASSUME NEW s, NEW size \in Nat, NEW ts \in Nat, Sound(s, size, ts, FALSE), IsOpen(ts),
         s.pending = None
  PROVE  Sound(s, size, ts, TRUE)
<1>1. WindowOver(ts, TRUE) <=> WindowOver(ts, FALSE)
  BY Parity DEF WindowOver
<1>2. ReversalOK(s, ts, TRUE)
  BY <1>1 DEF Sound, ReversalOK
<1>3. QED
  BY <1>2, SoundParts DEF PendingOK

(* The open of a bar.                                                      *)
LEMMA TradeKeepsSound ==
  ASSUME NEW s, NEW size \in Nat, NEW ts \in Nat, NEW price \in Prices,
         Sound(s, size, ts, FALSE), IsOpen(ts), ~s.error, s.inbox = <<>>
  PROVE  Sound(OnTrade(s, ts, price), size, ts, TRUE)
<1>1. s \in BookType
  BY DEF Sound
<1>2. CASE ~InWindow(ts)
  <2>1. s.pending = None
    BY <1>1, <1>2, MomentumAssumption
       DEF Sound, PendingOK, InWindow, NextBarOpen, BookType, DecisionType
  <2>2. QED
    BY <1>2, <2>1, OpenWithoutPending DEF OnTrade
<1>3. CASE InWindow(ts) /\ s.reversal # None /\ s.reversal.phase = "flat_confirmed"
  <2> DEFINE t == SubmitReversalOpen(s, ts, price)
  <2>1. t.pending = None
    BY <1>1, <1>3, OpenLeaves DEF Sound, PendingOK
  <2>2. Sound(t, size, ts, FALSE)
    BY <1>3, OpenKeepsSound
  <2> HIDE DEF t
  <2>3. Sound(t, size, ts, TRUE)
    BY <2>1, <2>2, OpenWithoutPending
  <2>4. QED
    BY <1>3, <2>1, <2>3 DEF OnTrade, AdvanceConfirmedReversal, ExecutePending, t
<1>4. CASE InWindow(ts) /\ ~(s.reversal # None /\ s.reversal.phase = "flat_confirmed")
  <2>1. CASE s.pending = None
    BY <1>4, <2>1, OpenWithoutPending DEF OnTrade, AdvanceConfirmedReversal, ExecutePending
  <2>2. CASE s.pending # None
    BY <1>4, <2>2, ExecuteKeepsSound DEF OnTrade, AdvanceConfirmedReversal
  <2>3. QED
    BY <2>1, <2>2
<1>5. QED
  BY <1>2, <1>3, <1>4

(* A larger tick asks nothing more of the orders.                          *)
LEMMA LargerTick ==
  ASSUME NEW s, NEW size \in Nat, NEW larger \in Nat, size <= larger, NEW ts \in Nat,
         LedgerOK(s, size, ts)
  PROVE  LedgerOK(s, larger, ts)
<1>1. s \in BookType /\ InboxOK(s) /\ Booked(s) \in Int
  BY BookedOf DEF LedgerOK
<1>2. ASSUME NEW q \in Int, Within(q, size) PROVE Within(q, larger)
  BY <1>2 DEF Within
<1>3. OrdersOK(s, larger, ts)
  <2> SUFFICES ASSUME NEW k \in DOMAIN s.orders
               PROVE  /\ DatesOK(s.orders[k], ts)
                      /\ Submitted(s.orders[k]) => WorkingOK(s, larger, s.orders[k])
    BY DEF OrdersOK
  <2>1. s.orders[k].qty \in Int /\ Left(s.orders[k]) \in Int
    BY <1>1, OrdersOfBook, SMTT(30) DEF OrderType, Left
  <2>2. QED
    BY <1>1, <1>2, <2>1 DEF LedgerOK, OrdersOK, WorkingOK
<1>4. QED
  BY <1>1, <1>2, <1>3 DEF LedgerOK

(* A decision: to the reversal, to the next open, or to nothing.           *)
LEMMA DecisionKeepsSound ==
  ASSUME NEW s, NEW size \in Nat, NEW ts \in Nat, NEW d \in DecisionType, NEW close,
         Sound(s, size, ts, FALSE), ~IsOpen(ts), InWindow(ts), ~s.error,
         d.ts = ts, Within(d.target, size)
  PROVE  Sound(QueueDecision(s, d, close), size, ts, TRUE)
<1> DEFINE g == [s EXCEPT !.goal = d.target]
<1>1. /\ s \in BookType /\ LedgerOK(s, size, ts) /\ PendingOK(s, ts, FALSE)
      /\ ReversalOK(s, ts, FALSE)
  BY SoundParts DEF LedgerOK
<1>2. s.pending = None
  BY <1>1 DEF PendingOK
<1>3. /\ g \in BookType /\ Sides(s, g) /\ g.pending = None /\ g.reversal = s.reversal
      /\ g.goal = d.target
  BY <1>1, <1>2 DEF BookType, DecisionType, Sides
<1> HIDE DEF g
<1>4. CASE s.reversal # None
  <2> DEFINE t == ReplaceTarget(g, d)
  <2>1. s.reversal \in ReversalType
    BY <1>1, <1>4 DEF BookType
  <2>2. t.reversal = [s.reversal EXCEPT !.latest = d] /\ t.reversal \in ReversalType
    BY <1>3, <2>1 DEF ReplaceTarget, BookType, ReversalType
  <2>3. /\ t \in BookType /\ Sides(s, t) /\ t.pending = None /\ t.goal = d.target
    BY <1>3, <2>2 DEF ReplaceTarget, BookType, Sides
  <2>4. LedgerOK(t, size, ts) /\ Booked(t) = Booked(s)
    BY <1>1, <2>3, LedgerOfFields
  <2>5. /\ t.reversal.latest = d /\ t.reversal.closeOrder = s.reversal.closeOrder
        /\ t.reversal.phase = s.reversal.phase
    BY <2>1, <2>2 DEF ReversalType
  <2> HIDE DEF t
  <2>6. \A k \in DOMAIN t.orders : t.orders[k].decision < ts
    BY <1>1, <2>3, OrdersOfBook DEF LedgerOK, OrdersOK, DatesOK, OrderType, Sides
  <2>7. WindowOver(ts, TRUE) => NextBarOpen(d.ts) >= EvaluationEnd
    BY MomentumAssumption DEF WindowOver, InWindow, NextBarOpen
  <2>8. ReversalOK(t, ts, TRUE)
    <3>1. Len(t.orders) \in DOMAIN t.orders
      BY <1>1, <1>4, <2>3, OrdersOfBook DEF ReversalOK, Sides
    <3>2. LastOrder(t) = LastOrder(s) /\ LastOrder(t).decision <= ts
      <4>1. LastOrder(t).decision \in Nat /\ LastOrder(t).decision < ts
        BY <2>3, <2>6, <3>1, OrdersOfBook DEF LastOrder, OrderType
      <4>2. QED
        BY <2>3, <4>1 DEF LastOrder, Sides
    <3>3. /\ t.orders # <<>> /\ s.reversal.closeOrder = Len(t.orders)
          /\ \A j \in DOMAIN t.orders : j # Len(t.orders) => ~Submitted(t.orders[j])
          /\ LastOrder(t).leg = "reversal_close"
          /\ Submitted(LastOrder(t)) => Booked(t) + Left(LastOrder(t)) = 0
          /\ LastOrder(t).status = "filled" => Booked(t) = 0
          /\ s.reversal.phase = "flat_confirmed" => LastOrder(t).status = "filled"
      BY <1>1, <1>4, <2>3, <2>4, <3>2 DEF ReversalOK, Sides
    <3>4. ts <= ts /\ t.reversal.latest.target = t.goal /\ t.reversal.latest.ts = ts
      BY <2>3, <2>5
    <3>5. QED
      BY <2>5, <2>6, <2>7, <3>2, <3>3, <3>4 DEF ReversalOK
  <2>9. Sound(t, size, ts, TRUE)
    BY <2>3, <2>4, <2>8, SoundParts DEF PendingOK
  <2>10. QED
    BY <1>4, <2>9 DEF QueueDecision, g, t
<1>5. ASSUME s.reversal = None, NEW t \in BookType, Sides(s, t), t.reversal = None,
             t.goal = d.target, t.pending \in {None, d},
             t.pending = None \/ NextBarOpen(d.ts) < EvaluationEnd
      PROVE  Sound(t, size, ts, TRUE)
  <2>1. LedgerOK(t, size, ts)
    BY <1>1, <1>5, LedgerOfFields
  <2>2. PendingOK(t, ts, TRUE)
    <3>1. \A k \in DOMAIN t.orders : t.orders[k].decision < ts
      BY <1>5, <2>1, OrdersOfBook DEF LedgerOK, OrdersOK, DatesOK, OrderType
    <3>2. QED
      BY <1>5, <3>1 DEF PendingOK
  <2>3. QED
    BY <1>5, <2>1, <2>2, SoundParts DEF ReversalOK
<1>6. CASE s.reversal = None
  <2>1. Sides(s, [g EXCEPT !.pending = d]) /\ [g EXCEPT !.pending = d] \in BookType
        /\ [g EXCEPT !.pending = d].pending = d /\ [g EXCEPT !.pending = d].goal = d.target
        /\ [g EXCEPT !.pending = d].reversal = None
    BY <1>3, <1>6 DEF BookType, Sides
  <2>2. Sound(g, size, ts, TRUE)
    BY <1>3, <1>5, <1>6
  <2>3. NextBarOpen(d.ts) < EvaluationEnd => Sound([g EXCEPT !.pending = d], size, ts, TRUE)
    BY <1>5, <1>6, <2>1
  <2>4. CASE NextBarOpen(d.ts) >= EvaluationEnd
    <3>1. ~(NextBarOpen(d.ts) < EvaluationEnd)
      BY <2>4, MomentumAssumption DEF NextBarOpen, DecisionType
    <3>2. QueueDecision(s, d, close) = g
      BY <1>6, <2>4, <3>1 DEF QueueDecision, g
    <3>3. QED
      BY <2>2, <3>2
  <2>5. CASE ~(NextBarOpen(d.ts) >= EvaluationEnd)
    <3>1. NextBarOpen(d.ts) < EvaluationEnd
      BY <2>5, MomentumAssumption DEF NextBarOpen, DecisionType
    <3>2. QueueDecision(s, d, close) \in {g, [g EXCEPT !.pending = d]}
      BY <1>6, <2>5, <3>1 DEF QueueDecision, g
    <3>3. QED
      BY <2>2, <2>3, <3>1, <3>2
  <2>6. QED
    BY <2>4, <2>5
<1>7. QED
  BY <1>4, <1>6

(* The close of a bar: a decision, a stop, or nothing outside the window.  *)
LEMMA BarKeepsSound ==
  ASSUME NEW s, NEW size \in Nat, NEW larger \in Nat, NEW ts \in Nat, NEW close \in Prices,
         NEW ret \in Returns \cup {None},
         Sound(s, size, ts, FALSE), ~IsOpen(ts), ~s.error,
         size <= larger, Units(close) <= larger
  PROVE  Sound(OnBar(s, ts, ret, close), larger, ts, TRUE)
<1> DEFINE d == [ts |-> ts, target |-> TargetQuantity(MomentumSignal(ret), close)]
           e == [s EXCEPT !.error = TRUE]
<1>1. d \in DecisionType /\ d.ts = ts /\ Within(d.target, larger)
  BY TargetFits, UnitsType DEF DecisionType, Within
<1>2. s \in BookType /\ s.goal \in Int /\ s.pending = None
  BY DEF Sound, BookType, PendingOK
<1>3. Sound(s, larger, ts, FALSE)
  <2>1. LedgerOK(s, size, ts) /\ Within(s.goal, size) /\ ReversalOK(s, ts, FALSE)
        /\ PendingOK(s, ts, FALSE)
    BY SoundParts
  <2>2. LedgerOK(s, larger, ts) /\ Within(s.goal, larger)
    BY <1>2, <2>1, LargerTick DEF Within
  <2>3. QED
    BY <2>1, <2>2, SoundParts
<1>4. CASE ~InWindow(ts)
  <2>1. ReversalOK(s, ts, TRUE)
    BY <1>2, <1>3, <1>4, MomentumAssumption
       DEF Sound, ReversalOK, WindowOver, InWindow, BookType, ReversalType, DecisionType
  <2>2. Sound(s, larger, ts, TRUE)
    BY <1>2, <1>3, <2>1 DEF Sound, PendingOK
  <2>3. QED
    BY <1>4, <2>2 DEF OnBar
<1>5. Sound(e, larger, ts, TRUE)
  <2>1. /\ e \in BookType /\ Sides(s, e) /\ e.pending = None /\ e.reversal = s.reversal
        /\ e.goal = s.goal /\ e.error
    BY <1>2 DEF BookType, Sides
  <2> HIDE DEF e
  <2>2. LedgerOK(e, larger, ts) /\ Booked(e) = Booked(s)
    BY <1>3, <2>1, LedgerOfFields, SoundParts
  <2>3. ReversalOK(e, ts, TRUE)
    BY <1>3, <2>1, <2>2 DEF Sound, ReversalOK, Sides, LastOrder
  <2>4. QED
    BY <1>3, <2>1, <2>2, <2>3, SoundParts DEF PendingOK
<1>6. CASE InWindow(ts)
  <2>1. Sound(QueueDecision(s, d, close), larger, ts, TRUE)
    BY <1>1, <1>3, <1>6, DecisionKeepsSound
  <2>2. QED
    BY <1>5, <1>6, <2>1 DEF OnBar
<1>7. QED
  BY <1>4, <1>6

(* The next instant begins when every event of this one is out.            *)
LEMMA InstantKeepsSound ==
  ASSUME NEW s, NEW size \in Nat, NEW ts \in Nat, Sound(s, size, ts, TRUE)
  PROVE  Sound(s, size, ts + 1, FALSE)
<1>1. s \in BookType /\ EvaluationEnd \in Nat
  BY MomentumAssumption DEF Sound
<1>2. OrdersOK(s, size, ts + 1)
  BY <1>1, OrdersOfBook DEF Sound, OrdersOK, DatesOK, OrderType
<1>3. PendingOK(s, ts + 1, FALSE)
  BY <1>1, Parity DEF Sound, PendingOK
<1>4. ReversalOK(s, ts + 1, FALSE)
  <2> SUFFICES ASSUME s.reversal # None PROVE ReversalOK(s, ts + 1, FALSE)
    BY DEF ReversalOK
  <2>1. s.reversal.latest.ts \in Nat
    BY <1>1 DEF BookType, ReversalType, DecisionType
  <2>2. WindowOver(ts + 1, FALSE) => WindowOver(ts, TRUE)
    BY <1>1 DEF WindowOver
  <2>3. ReversalOK(s, ts, TRUE)
    BY DEF Sound
  <2>4. s.reversal.latest.ts <= ts + 1
    BY <2>1, <2>3 DEF ReversalOK
  <2>5. QED
    BY <2>2, <2>3, <2>4 DEF ReversalOK
<1>5. QED
  BY <1>2, <1>3, <1>4 DEF Sound

-----------------------------------------------------------------------------
(* The venue. *)

Toward(q, left) == (0 < q /\ q <= left) \/ (left <= q /\ q < 0)

(* One order of the list is replaced by a later state of itself.           *)
Replaced(s, t, k, o) ==
  /\ t \in BookType /\ o \in OrderType
  /\ Len(t.orders) = Len(s.orders) /\ DOMAIN t.orders = DOMAIN s.orders
  /\ t.orders[k] = o
  /\ \A j \in DOMAIN s.orders : j # k => t.orders[j] = s.orders[j]
  /\ t.reversal = s.reversal /\ t.pending = s.pending /\ t.goal = s.goal
  /\ t.error = s.error /\ t.missed = s.missed

(* A step of the venue on the order at work keeps the state sound when it  *)
(* keeps the order's identity and moves the position with it.              *)
LEMMA VenueKeepsSound ==
  ASSUME NEW s, NEW size \in Nat, NEW ts \in Nat, NEW done \in BOOLEAN,
         Sound(s, size, ts, done), NEW k \in DOMAIN s.orders, Submitted(s.orders[k]),
         NEW o, NEW t, Replaced(s, t, k, o), InboxOK(t), Within(Booked(t), size),
         o.leg = s.orders[k].leg, o.decision = s.orders[k].decision,
         o.expected = s.orders[k].expected,
         Submitted(o) => WorkingOK(t, size, o),
         Submitted(o) => Booked(t) + Left(o) = Booked(s) + Left(s.orders[k]),
         o.status = "filled" => Booked(t) = Booked(s) + Left(s.orders[k])
  PROVE  Sound(t, size, ts, done)
<1>1. /\ s \in BookType /\ OneWorking(s) /\ OrdersOK(s, size, ts) /\ EachOnce(s)
      /\ PendingOK(s, ts, done) /\ ReversalOK(s, ts, done)
  BY DEF Sound
<1>2. \A j \in DOMAIN s.orders : j # k => ~Submitted(s.orders[j])
  BY <1>1 DEF OneWorking
<1>3. OrdersOK(t, size, ts)
  BY <1>1, <1>2 DEF OrdersOK, DatesOK, Replaced
<1>4. OneWorking(t)
  BY <1>2 DEF OneWorking, Replaced
<1>5. \A j \in DOMAIN s.orders :
        /\ t.orders[j].leg = s.orders[j].leg
        /\ t.orders[j].decision = s.orders[j].decision
  BY DEF Replaced
<1>6. EachOnce(t)
  BY <1>1, <1>5 DEF EachOnce, LegsOfOne, Replaced
<1>7. PendingOK(t, ts, done)
  BY <1>1, <1>5 DEF PendingOK, Replaced
<1>8. ReversalOK(t, ts, done)
  <2> SUFFICES ASSUME s.reversal # None PROVE ReversalOK(t, ts, done)
    BY DEF ReversalOK, Replaced
  <2>1. k = Len(s.orders) /\ Len(t.orders) = k /\ LastOrder(t) = o /\ t.orders # <<>>
    BY <1>1 DEF ReversalOK, Replaced, LastOrder
  <2>2. Submitted(o) => Booked(t) + Left(o) = 0
    BY <1>1, <2>1 DEF ReversalOK, LastOrder
  <2>3. o.status = "filled" => Booked(t) = 0
    BY <1>1, <2>1 DEF ReversalOK, LastOrder
  <2>4. s.reversal.phase = "closing"
    BY <1>1, <2>1 DEF ReversalOK, LastOrder, Submitted, BookType, ReversalType
  <2>5. \A j \in DOMAIN t.orders :
          j # k => t.orders[j].decision < s.reversal.latest.ts /\ ~Submitted(t.orders[j])
    BY <1>1, <2>1 DEF ReversalOK, Replaced
  <2>6. /\ o.leg = "reversal_close" /\ o.decision <= s.reversal.latest.ts
    BY <1>1, <2>1 DEF ReversalOK, LastOrder
  <2>7. QED
    BY <1>1, <2>1, <2>2, <2>3, <2>4, <2>5, <2>6 DEF ReversalOK, Replaced
<1>9. QED
  BY <1>1, <1>3, <1>4, <1>6, <1>7, <1>8 DEF Sound, Replaced

(* An order with part or all of it filled is still an order.               *)
LEMMA FilledOrderType ==
  ASSUME NEW o \in OrderType, NEW q \in Int, NEW tick \in Nat
  PROVE  LET p == FilledOrder(o, q, tick) IN
         /\ p \in OrderType
         /\ p.leg = o.leg /\ p.decision = o.decision /\ p.expected = o.expected
         /\ p.qty = o.qty /\ Left(p) = Left(o) - q
         /\ p.status = IF q = Left(o) THEN "filled" ELSE o.status
<1> DEFINE f == o.filled + q
           st == IF q = Left(o) THEN "filled" ELSE o.status
           b == o.onTime /\ clock = o.expected /\ Abs(o.qty) <= tick
           p == [o EXCEPT !.filled = f, !.status = st, !.onTime = b]
<1>1. FilledOrder(o, q, tick) = p
  BY DEF FilledOrder, Left
<1>2. f \in Int /\ st \in {"submitted", "filled", "rejected", "canceled"}
  BY DEF OrderType
<1>3. b \in BOOLEAN
  OBVIOUS
<1>2a. o.qty \in Int /\ o.filled \in Int
  BY DEF OrderType
<1> HIDE DEF f, st, b
<1>2b. p \in OrderType /\ p.filled = f /\ p.status = st /\ p.leg = o.leg /\ p.decision = o.decision
      /\ p.expected = o.expected /\ p.qty = o.qty
  BY <1>2, <1>3 DEF OrderType
<1>4. p \in OrderType /\ p.status = st /\ p.leg = o.leg /\ p.decision = o.decision
      /\ p.expected = o.expected /\ p.qty = o.qty /\ Left(p) = Left(o) - q
  BY <1>2a, <1>2b DEF Left, f
<1>5. QED
  BY <1>1, <1>4 DEF st

FillOutcome(s, t, k, q, cached, tick) ==
  /\ Replaced(s, t, k, FilledOrder(s.orders[k], q, tick))
  /\ t.position = (IF cached THEN s.position + q ELSE s.position)
  /\ t.inbox = <<[apply |-> 0], [apply |-> IF cached THEN 0 ELSE q]>>

(* A fill of part or all of an order at work.                              *)
LEMMA FillDoes ==
  ASSUME NEW s \in BookType, NEW k \in DOMAIN s.orders,
         NEW q \in Int, NEW cached \in BOOLEAN, NEW tick \in Nat, NEW t,
         t = Filled(s, k, q, cached, tick)
  PROVE  FillOutcome(s, t, k, q, cached, tick)
<1> DEFINE o == s.orders[k]
           p == FilledOrder(o, q, tick)
<1>1. s.orders \in Seq(OrderType) /\ o \in OrderType /\ k \in 1..Len(s.orders)
  BY OrdersOfBook DEF BookType
<1>2. p \in OrderType
  BY <1>1, FilledOrderType
<1>3. t = [s EXCEPT !.orders = t.orders, !.position = t.position, !.inbox = t.inbox]
      /\ t.orders = [s.orders EXCEPT ![k] = p]
  BY DEF Filled, BookType
<1>4. t.orders \in Seq(OrderType) /\ Len(t.orders) = Len(s.orders)
      /\ \A j \in 1..Len(s.orders) : t.orders[j] = IF j = k THEN p ELSE s.orders[j]
  BY <1>1, <1>2, <1>3, ExceptSeq
<1> HIDE DEF p
<1>5. DOMAIN t.orders = 1..Len(t.orders) /\ DOMAIN s.orders = 1..Len(s.orders)
  BY <1>1, <1>4
<1>6. /\ t.position = (IF cached THEN s.position + q ELSE s.position)
      /\ t.inbox = <<[apply |-> 0], [apply |-> IF cached THEN 0 ELSE q]>>
      /\ t.reversal = s.reversal /\ t.pending = s.pending /\ t.goal = s.goal
      /\ t.error = s.error /\ t.missed = s.missed
  BY DEF Filled, BookType
<1>7. t.position \in Int /\ t.inbox \in Seq([apply : Int])
  BY <1>6 DEF BookType
<1>8. t \in BookType
  BY <1>3, <1>4, <1>7 DEF BookType
<1>9. QED
  BY <1>1, <1>2, <1>4, <1>5, <1>6, <1>8 DEF Replaced, FillOutcome, p

(* A fill toward the end of an order at work, from a settled inbox.        *)
LEMMA FillKeepsSound ==
  ASSUME NEW s, NEW size \in Nat, NEW ts \in Nat, NEW done \in BOOLEAN,
         Sound(s, size, ts, done), s.inbox = <<>>,
         NEW k \in DOMAIN s.orders, Submitted(s.orders[k]),
         NEW q \in Int, Toward(q, Left(s.orders[k])), NEW cached \in BOOLEAN, NEW tick \in Nat, NEW t,
         t = Filled(s, k, q, cached, tick)
  PROVE  /\ Sound(t, size, ts, done) /\ Booked(t) = Booked(s) + q
         /\ SameSide(s.position, t.position)
<1> DEFINE o == s.orders[k]
           p == FilledOrder(o, q, tick)
<1>1. /\ s \in BookType /\ o \in OrderType /\ s.position \in Int /\ Booked(s) = s.position
      /\ Within(Booked(s), size) /\ WorkingOK(s, size, o) /\ Left(o) \in Int
  <2>1. s \in BookType /\ InboxOK(s) /\ Within(Booked(s), size) /\ OrdersOK(s, size, ts)
    BY DEF Sound
  <2>2. o \in OrderType /\ s.position \in Int
    BY <2>1, OrdersOfBook DEF BookType
  <2>3. Left(o) \in Int
    BY <2>2 DEF OrderType, Left
  <2>4. QED
    BY <2>1, <2>2, <2>3, BookedOf DEF OrdersOK
<1>2. /\ Replaced(s, t, k, p)
      /\ t.position = (IF cached THEN s.position + q ELSE s.position)
      /\ t.inbox = <<[apply |-> 0], [apply |-> IF cached THEN 0 ELSE q]>>
  <2>1. FillOutcome(s, t, k, q, cached, tick)
    BY <1>1, FillDoes
  <2>2. QED
    BY <2>1 DEF FillOutcome
<1>3. /\ p \in OrderType /\ p.leg = o.leg /\ p.decision = o.decision /\ p.expected = o.expected
      /\ p.qty = o.qty /\ Left(p) = Left(o) - q
      /\ p.status = (IF q = Left(o) THEN "filled" ELSE o.status)
  BY <1>1, FilledOrderType
<1> HIDE DEF p
<1>4. /\ t.inbox # <<>> /\ t.inbox[Len(t.inbox)].apply = (IF cached THEN 0 ELSE q)
  BY <1>2
<1>5. Booked(t) = s.position + q /\ Due(t) = (IF cached THEN 0 ELSE q)
  BY <1>1, <1>2, <1>4 DEF Booked, Due
<1>6. SameSide(s.position, s.position + q) /\ Within(s.position + q, size)
  BY <1>1 DEF WorkingOK, SameSide, Within, Toward
<1>7. InboxOK(t)
  <2>1. SameSide(t.position, Booked(t))
    BY <1>1, <1>2, <1>5, <1>6 DEF SameSide
  <2>2. t.inbox = <<[apply |-> 0], [apply |-> Due(t)]>>
    BY <1>2, <1>5
  <2>3. QED
    BY <2>1, <2>2 DEF InboxOK
<1>8. Submitted(p) => q # Left(o)
  BY <1>3 DEF Submitted
<1>9. Submitted(p) => WorkingOK(t, size, p)
  BY <1>1, <1>3, <1>5, <1>8, SMTT(30) DEF WorkingOK, SameSide, Within, Toward
<1>10. /\ Submitted(p) => Booked(t) + Left(p) = Booked(s) + Left(o)
       /\ p.status = "filled" => Booked(t) = Booked(s) + Left(o)
  BY <1>1, <1>3, <1>5 DEF Submitted
<1>11. Sound(t, size, ts, done)
  BY <1>2, <1>3, <1>5, <1>6, <1>7, <1>9, <1>10, VenueKeepsSound
<1>12. SameSide(s.position, t.position)
  BY <1>1, <1>2, <1>6 DEF SameSide
<1>13. QED
  BY <1>1, <1>5, <1>11, <1>12

(* The quantities the venue fills lie toward the end of the order.         *)
LEMMA FillQuantity ==
  ASSUME NEW left \in Int, left # 0,
         NEW q \in {left} \cup (IF venue = "prompt" \/ Abs(left) = 1 THEN {}
                                ELSE {IF left > 0 THEN 1 ELSE -1})
  PROVE  q \in Int /\ Toward(q, left) /\ (venue = "prompt" => q = left)
BY DEF Abs, Toward

Rejected(s, k) == [s EXCEPT !.orders[k].status = "rejected"]

(* A rejection leaves the position as it is.                               *)
LEMMA RejectKeepsSound ==
  ASSUME NEW s, NEW size \in Nat, NEW ts \in Nat, NEW done \in BOOLEAN,
         Sound(s, size, ts, done), NEW k \in DOMAIN s.orders, Submitted(s.orders[k]),
         NEW t, t = Rejected(s, k)
  PROVE  Sound(t, size, ts, done) /\ Booked(t) = Booked(s) /\ t.position = s.position
<1> DEFINE o == s.orders[k]
           p == [o EXCEPT !.status = "rejected"]
<1>1. s \in BookType /\ s.orders \in Seq(OrderType) /\ o \in OrderType /\ k \in 1..Len(s.orders)
  BY OrdersOfBook DEF Sound, BookType
<1>2. /\ p \in OrderType /\ ~Submitted(p) /\ p.status # "filled" /\ p.leg = o.leg
      /\ p.decision = o.decision /\ p.expected = o.expected
  BY <1>1 DEF OrderType, Submitted
<1>3. t = [s EXCEPT !.orders = t.orders] /\ t.orders = [s.orders EXCEPT ![k] = p]
  BY <1>1 DEF BookType, Rejected
<1>4. t.orders \in Seq(OrderType) /\ Len(t.orders) = Len(s.orders)
      /\ \A j \in 1..Len(s.orders) : t.orders[j] = IF j = k THEN p ELSE s.orders[j]
  BY <1>1, <1>2, <1>3, ExceptSeq
<1> HIDE DEF p
<1>5. DOMAIN t.orders = 1..Len(t.orders) /\ DOMAIN s.orders = 1..Len(s.orders)
  BY <1>1, <1>4
<1>6. /\ t.position = s.position /\ t.inbox = s.inbox /\ t.reversal = s.reversal
      /\ t.pending = s.pending /\ t.goal = s.goal /\ t.error = s.error /\ t.missed = s.missed
  BY <1>1, <1>3 DEF BookType
<1>7. t \in BookType
  BY <1>1, <1>3, <1>4 DEF BookType
<1>8. Replaced(s, t, k, p)
  BY <1>1, <1>2, <1>4, <1>5, <1>6, <1>7 DEF Replaced
<1>9. Booked(t) = Booked(s) /\ InboxOK(t) /\ Within(Booked(t), size)
  BY <1>6 DEF Booked, InboxOK, Due, Sound
<1>10. Sound(t, size, ts, done)
  BY <1>2, <1>8, <1>9, VenueKeepsSound
<1>11. QED
  BY <1>6, <1>9, <1>10

(* The next event of the inbox, before the strategy looks at the reversal. *)
Observed(s) == [s EXCEPT !.inbox = Tail(@), !.position = @ + Head(s.inbox).apply]

(* An event moves the position to what is booked, or not at all.           *)
LEMMA ObservedKeepsSound ==
  ASSUME NEW s, NEW size \in Nat, NEW ts \in Nat, NEW done \in BOOLEAN,
         Sound(s, size, ts, done), s.inbox # <<>>, NEW u, u = Observed(s)
  PROVE  /\ Sound(u, size, ts, done) /\ Booked(u) = Booked(s)
         /\ u.position \in {s.position, Booked(s)} /\ SameSide(s.position, u.position)
         /\ u.orders = s.orders /\ u.pending = s.pending /\ u.reversal = s.reversal
         /\ u.goal = s.goal /\ u.error = s.error /\ u.missed = s.missed
         /\ u.inbox = Tail(s.inbox)
<1>1. s \in BookType /\ InboxOK(s) /\ s.position \in Int
  BY DEF Sound, BookType
<1>2. Due(s) \in Int /\ Booked(s) = s.position + Due(s) /\ SameSide(s.position, Booked(s))
  BY <1>1, BookedOf DEF InboxOK
<1>3. /\ u.inbox = Tail(s.inbox) /\ u.position = s.position + Head(s.inbox).apply
      /\ u = [s EXCEPT !.inbox = u.inbox, !.position = u.position]
  BY <1>1 DEF Observed, BookType
<1>4. /\ u.position \in Int /\ u.inbox \in Seq([apply : Int])
      /\ Booked(u) = Booked(s) /\ InboxOK(u) /\ u.position \in {s.position, Booked(s)}
      /\ SameSide(s.position, u.position)
  <2>1. CASE s.inbox = <<[apply |-> Due(s)]>>
    <3>1. u.inbox = <<>> /\ u.position = s.position + Due(s)
      BY <1>3, <2>1
    <3>2. QED
      BY <1>1, <1>2, <3>1 DEF Booked, InboxOK, SameSide, Due
  <2>2. CASE s.inbox = <<[apply |-> 0], [apply |-> Due(s)]>>
    <3>1. u.inbox = <<[apply |-> Due(s)]>> /\ u.position = s.position
      BY <1>1, <1>3, <2>2
    <3>2. Due(u) = Due(s) /\ Booked(u) = Booked(s)
      BY <1>2, <3>1 DEF Booked, Due
    <3>3. QED
      BY <1>1, <1>2, <3>1, <3>2 DEF InboxOK, SameSide
  <2>3. QED
    BY <1>1, <2>1, <2>2 DEF InboxOK
<1>5. /\ u \in BookType /\ u.orders = s.orders /\ u.pending = s.pending
      /\ u.reversal = s.reversal /\ u.goal = s.goal /\ u.error = s.error
      /\ u.missed = s.missed
  BY <1>1, <1>3, <1>4 DEF BookType
<1>6. OrdersOK(u, size, ts)
  BY <1>4, <1>5 DEF Sound, OrdersOK, WorkingOK
<1>7. OneWorking(u) /\ EachOnce(u) /\ PendingOK(u, ts, done) /\ ReversalOK(u, ts, done)
  <2>1. OneWorking(u)
    BY <1>5 DEF Sound, OneWorking
  <2>2. EachOnce(u)
    BY <1>5 DEF Sound, EachOnce
  <2>3. PendingOK(u, ts, done)
    BY <1>5 DEF Sound, PendingOK
  <2>4. ReversalOK(u, ts, done)
    BY <1>4, <1>5 DEF Sound, ReversalOK, LastOrder
  <2>5. QED
    BY <2>1, <2>2, <2>3, <2>4
<1>8. QED
  BY <1>3, <1>4, <1>5, <1>6, <1>7 DEF Sound

Confirmed(s) == [s EXCEPT !.reversal.phase = "flat_confirmed"]

(* A flat book is confirmed only by the filled close order.                *)
LEMMA ConfirmKeepsSound ==
  ASSUME NEW s, NEW size \in Nat, NEW ts \in Nat, NEW done \in BOOLEAN,
         Sound(s, size, ts, done), Closing(s), FlatConfirmed(s),
         NEW w, w = Confirmed(s)
  PROVE  /\ Sound(w, size, ts, done) /\ w.reversal # None
         /\ w.reversal.phase = "flat_confirmed" /\ w.reversal.latest = s.reversal.latest
         /\ w.orders = s.orders /\ w.pending = s.pending /\ w.position = s.position
         /\ w.inbox = s.inbox /\ w.goal = s.goal /\ w.error = s.error /\ w.missed = s.missed
<1>1. s \in BookType /\ s.reversal \in ReversalType
  BY DEF Sound, BookType, Closing
<1>2. /\ w.reversal = [s.reversal EXCEPT !.phase = "flat_confirmed"]
      /\ w.reversal \in ReversalType /\ w = [s EXCEPT !.reversal = w.reversal]
      /\ w.reversal.latest = s.reversal.latest
      /\ w.reversal.closeOrder = s.reversal.closeOrder
  BY <1>1 DEF BookType, ReversalType, Confirmed
<1>3. w \in BookType /\ Sides(s, w) /\ w.pending = s.pending /\ w.goal = s.goal
      /\ w.error = s.error /\ w.missed = s.missed /\ w.reversal.phase = "flat_confirmed"
  BY <1>1, <1>2 DEF BookType, ReversalType, Sides
<1>4. LedgerOK(w, size, ts) /\ Booked(w) = Booked(s)
  BY <1>3, LedgerOfFields, SoundParts
<1>5. w.pending = None
  BY <1>3 DEF Sound, PendingOK, Closing
<1>6. LastOrder(s).status = "filled" /\ LastOrder(w) = LastOrder(s)
  BY <1>3 DEF Sound, ReversalOK, FlatConfirmed, LastOrder, Closing, Sides
<1>7. ReversalOK(w, ts, done)
  BY <1>2, <1>3, <1>4, <1>6 DEF Sound, ReversalOK, Closing, Sides
<1>8. Sound(w, size, ts, done)
  BY <1>3, <1>4, <1>5, <1>7, SoundParts DEF PendingOK
<1>9. QED
  BY <1>2, <1>3, <1>8, NoneAssumption DEF Sides

(* The strategy after the next event of its inbox.                         *)
LEMMA DeliverKeepsSound ==
  ASSUME NEW s, NEW size \in Nat, NEW done \in BOOLEAN, clock \in Nat,
         Sound(s, size, clock, done), s.inbox # <<>>, ~s.error, NEW t, t = Delivered(s)
  PROVE  Sound(t, size, clock, done) /\ SameSide(s.position, t.position)
<1>1. s \in BookType
  BY DEF Sound
<1> PICK u : u = Observed(s)
  OBVIOUS
<1>2. t = ObserveReversalConfirmation(u, clock)
  BY DEF Delivered, Observed
<1>3. /\ Sound(u, size, clock, done) /\ SameSide(s.position, u.position)
      /\ u.error = s.error
  BY ObservedKeepsSound
<1>4. u \in BookType /\ ~u.error
  BY <1>3 DEF Sound
<1>5. CASE ~(Closing(u) /\ FlatConfirmed(u))
  BY <1>2, <1>3, <1>5 DEF ObserveReversalConfirmation
<1>6. CASE Closing(u) /\ FlatConfirmed(u)
  <2> PICK w : w = Confirmed(u)
    OBVIOUS
  <2>1. /\ Sound(w, size, clock, done) /\ w.reversal # None
        /\ w.reversal.phase = "flat_confirmed" /\ w.error = u.error
        /\ w.position = u.position
    BY <1>3, <1>6, ConfirmKeepsSound
  <2>2. ~w.error /\ w \in BookType
    BY <1>4, <2>1 DEF Sound
  <2>3. Sound(SubmitReversalOpen(w, clock, u.reversal.price), size, clock, done)
    BY <2>1, <2>2, OpenKeepsSound
  <2>4. t = SubmitReversalOpen(w, clock, u.reversal.price)
    BY <1>2, <1>6 DEF ObserveReversalConfirmation, Confirmed
  <2>5. t.position = u.position
    BY <2>1, <2>2, <2>4, OpenLeaves
  <2>6. QED
    BY <1>3, <2>3, <2>4, <2>5
<1>7. QED
  BY <1>5, <1>6

(* The end of the run cancels what is still at work.                       *)
LEMMA StopKeepsSound ==
  ASSUME NEW s, NEW size \in Nat, NEW ts \in Nat, NEW done \in BOOLEAN,
         Sound(s, size, ts, done), NEW t, t = Stopped(s)
  PROVE  /\ Sound(t, size, ts, done) /\ Booked(t) = Booked(s) /\ t.position = s.position
         /\ ~UnsettledOrders(t) /\ (~UnsettledOrders(s) => t = s)
<1> DEFINE settled(o) == IF Submitted(o) THEN [o EXCEPT !.status = "canceled"] ELSE o
           os == [k \in DOMAIN s.orders |-> settled(s.orders[k])]
<1>1. /\ s \in BookType /\ s.orders \in Seq(OrderType) /\ Len(s.orders) \in Nat
      /\ DOMAIN s.orders = 1..Len(s.orders)
      /\ \A k \in DOMAIN s.orders : s.orders[k] \in OrderType
  BY OrdersOfBook DEF Sound, BookType
<1>2. t = [s EXCEPT !.orders = os]
  BY <1>1 DEF Stopped, BookType
<1>3. ASSUME NEW o \in OrderType
      PROVE  /\ settled(o) \in OrderType /\ ~Submitted(settled(o))
             /\ settled(o).leg = o.leg /\ settled(o).decision = o.decision
             /\ settled(o).expected = o.expected
             /\ settled(o).status = "filled" <=> o.status = "filled"
  BY DEF OrderType, Submitted
<1> HIDE DEF settled
<1>4. os \in [1..Len(s.orders) -> OrderType]
  BY <1>1, <1>3
<1>5. os \in Seq(OrderType) /\ Len(os) = Len(s.orders)
  BY <1>1, <1>4
<1>6. /\ t \in BookType /\ t.orders = os /\ t.position = s.position /\ t.inbox = s.inbox
      /\ t.reversal = s.reversal /\ t.pending = s.pending /\ t.goal = s.goal
      /\ t.error = s.error
  BY <1>1, <1>2, <1>5 DEF BookType
<1>7. /\ DOMAIN t.orders = DOMAIN s.orders /\ Len(t.orders) = Len(s.orders)
      /\ \A k \in DOMAIN s.orders :
           /\ ~Submitted(t.orders[k]) /\ t.orders[k].leg = s.orders[k].leg
           /\ t.orders[k].decision = s.orders[k].decision
           /\ t.orders[k].expected = s.orders[k].expected
           /\ t.orders[k].status = "filled" <=> s.orders[k].status = "filled"
  BY <1>1, <1>3, <1>5, <1>6
<1>8. Booked(t) = Booked(s) /\ Due(t) = Due(s)
  BY <1>6 DEF Booked, Due
<1> HIDE DEF os
<1>9. InboxOK(t) /\ OrdersOK(t, size, ts) /\ OneWorking(t)
  <2>1. InboxOK(t)
    BY <1>6, <1>8 DEF Sound, InboxOK
  <2>2. OrdersOK(t, size, ts)
    BY <1>7 DEF Sound, OrdersOK, DatesOK
  <2>3. OneWorking(t)
    BY <1>7 DEF OneWorking
  <2>4. QED
    BY <2>1, <2>2, <2>3
<1>10. EachOnce(t)
  BY <1>7 DEF Sound, EachOnce, LegsOfOne
<1>11. PendingOK(t, ts, done)
  BY <1>6, <1>7 DEF Sound, PendingOK
<1>12. ReversalOK(t, ts, done)
  <2> SUFFICES ASSUME s.reversal # None PROVE ReversalOK(t, ts, done)
    BY <1>6 DEF ReversalOK
  <2>1. ReversalOK(s, ts, done) /\ Len(s.orders) \in DOMAIN s.orders
    BY <1>1, OrdersOfBook DEF Sound, ReversalOK
  <2>2. /\ LastOrder(t).leg = LastOrder(s).leg /\ LastOrder(t).decision = LastOrder(s).decision
        /\ ~Submitted(LastOrder(t))
        /\ LastOrder(t).status = "filled" <=> LastOrder(s).status = "filled"
    BY <1>7, <2>1 DEF LastOrder
  <2>3. t.orders # <<>>
    BY <1>1, <1>6, <1>7, <2>1
  <2>4. \A j \in DOMAIN t.orders :
          j # Len(t.orders) => /\ t.orders[j].decision < s.reversal.latest.ts
                               /\ ~Submitted(t.orders[j])
    BY <1>7, <2>1 DEF ReversalOK
  <2>5. /\ s.reversal.closeOrder = Len(t.orders)
        /\ LastOrder(t).status = "filled" => Booked(t) = 0
    BY <1>7, <1>8, <2>1, <2>2 DEF ReversalOK
  <2>6. QED
    BY <1>6, <2>1, <2>2, <2>3, <2>4, <2>5 DEF ReversalOK
<1>13. ~UnsettledOrders(t)
  BY <1>7 DEF UnsettledOrders
<1>14. ~UnsettledOrders(s) => t = s
  <2> SUFFICES ASSUME ~UnsettledOrders(s) PROVE t = s
    OBVIOUS
  <2>1. os = s.orders
    <3>1. \A k \in DOMAIN s.orders : settled(s.orders[k]) = s.orders[k]
      BY DEF UnsettledOrders, settled
    <3>2. \A k \in 1..Len(s.orders) : os[k] = s.orders[k]
      BY <1>1, <3>1 DEF os
    <3>3. QED
      BY <1>1, <1>5, <3>2, SeqEqual
  <2>2. QED
    BY <1>1, <1>2, <2>1 DEF BookType
<1>15. QED
  BY <1>6, <1>8, <1>9, <1>10, <1>11, <1>12, <1>13, <1>14 DEF Sound

-----------------------------------------------------------------------------
(* The steps. *)

(* A step on the book of one instrument keeps the others and their state.  *)
LEMMA OneBook ==
  ASSUME SoundInv, NEW i \in Instruments, NEW t, book' = [book EXCEPT ![i] = t],
         NEW size \in Nat, capacity' = [capacity EXCEPT ![i] = size],
         UNCHANGED <<venue, clock, outcome>>, served' \in {served, served \cup {i}},
         Sound(t, size, clock, i \in served')
  PROVE  SoundInv'
<1>1. book'[i] = t /\ \A j \in Instruments : j # i => book'[j] = book[j]
  BY DEF SoundInv, TypeOK
<1>2. capacity'[i] = size /\ \A j \in Instruments : j # i => capacity'[j] = capacity[j]
  BY DEF SoundInv, TypeOK
<1>3. t \in BookType
  BY DEF Sound
<1>4. TypeOK'
  BY <1>3 DEF SoundInv, TypeOK
<1>5. \A j \in Instruments : Sound(book'[j], capacity'[j], clock', j \in served')
  <2> SUFFICES ASSUME NEW j \in Instruments
               PROVE  Sound(book'[j], capacity'[j], clock', j \in served')
    OBVIOUS
  <2>1. CASE j = i
    BY <1>1, <1>2, <2>1
  <2>2. CASE j # i
    <3>1. Sound(book[j], capacity[j], clock, j \in served)
      BY DEF SoundInv
    <3>2. (j \in served') <=> (j \in served)
      BY <2>2
    <3>3. CASE j \in served
      BY <1>1, <1>2, <2>2, <3>1, <3>2, <3>3
    <3>4. CASE j \notin served
      BY <1>1, <1>2, <2>2, <3>1, <3>2, <3>4
    <3>5. QED
      BY <3>3, <3>4
  <2>3. QED
    BY <2>1, <2>2
<1>6. QED
  BY <1>4, <1>5 DEF SoundInv

(* A step leaves every position on its side.                               *)
SameSides == \A i \in Instruments : SameSide(book[i].position, book'[i].position)

(* So it does when it moves one position on its side.                      *)
LEMMA OneSide ==
  ASSUME SoundInv, NEW i \in Instruments, NEW t, book' = [book EXCEPT ![i] = t],
         SameSide(book[i].position, t.position)
  PROVE  SameSides
<1>1. \A j \in Instruments : book[j].position \in Int
  BY DEF SoundInv, TypeOK, BookType
<1>2. book'[i] = t /\ \A j \in Instruments : j # i => book'[j] = book[j]
  BY DEF SoundInv, TypeOK
<1>3. QED
  BY <1>1, <1>2 DEF SameSides, SameSide

(* A step on the book of one instrument whose ticks keep their size.       *)
LEMMA OneBookSameTick ==
  ASSUME SoundInv, NEW i \in Instruments, NEW t, book' = [book EXCEPT ![i] = t],
         UNCHANGED <<venue, clock, capacity, outcome>>,
         served' \in {served, served \cup {i}},
         Sound(t, capacity[i], clock, i \in served')
  PROVE  SoundInv'
<1>1. capacity[i] \in Nat /\ capacity' = [capacity EXCEPT ![i] = capacity[i]]
  BY DEF SoundInv, TypeOK
<1>2. QED
  BY <1>1, OneBook

(* What is known of an instrument whose event of the instant is not out.   *)
LEMMA BeforeEvent ==
  ASSUME SoundInv, MarketReady, NEW i \in Instruments, i \notin served
  PROVE  /\ Sound(book[i], capacity[i], clock, FALSE) /\ capacity[i] \in Nat
         /\ clock \in Nat /\ ~book[i].error /\ book[i].inbox = <<>> /\ book[i] \in BookType
<1>1. (i \in served) = FALSE
  OBVIOUS
<1>2. Sound(book[i], capacity[i], clock, i \in served)
  BY DEF SoundInv
<1>3. Sound(book[i], capacity[i], clock, FALSE)
  BY <1>1, <1>2
<1>4. QED
  BY <1>3 DEF MarketReady, Ready, SoundInv, TypeOK

(* Its state is sound in the instant's second half once the event is out.  *)
LEMMA AfterEvent ==
  ASSUME NEW i, NEW s, NEW size, NEW ts, i \in served', Sound(s, size, ts, TRUE)
  PROVE  Sound(s, size, ts, i \in served')
<1>1. (i \in served') = TRUE
  OBVIOUS
<1>2. QED
  BY <1>1

(* The open of a bar may submit orders but moves no position.              *)
LEMMA TradeLeaves ==
  ASSUME NEW s \in BookType, NEW ts \in Nat, NEW price, NEW t, t = OnTrade(s, ts, price)
  PROVE  t.position = s.position /\ t.inbox = s.inbox /\ t.goal = s.goal
BY DEF OnTrade, ExecutePending, AdvanceConfirmedReversal, SubmitReversalOpen,
       EndReversal, Submit, BookType

(* The open of a bar: no half-told fill, no leg across zero.               *)
LEMMA TradeStep ==
  ASSUME SoundInv, NEW i \in Instruments, NEW price \in Prices, Trade(i, price)
  PROVE  SoundInv' /\ SameSides
<1> PICK t : t = OnTrade(book[i], clock, price)
  OBVIOUS
<1>1. /\ Sound(book[i], capacity[i], clock, FALSE) /\ capacity[i] \in Nat /\ clock \in Nat
      /\ IsOpen(clock) /\ ~book[i].error /\ book[i].inbox = <<>> /\ book[i] \in BookType
  BY BeforeEvent DEF Trade
<1>2. Sound(t, capacity[i], clock, TRUE)
  BY <1>1, TradeKeepsSound
<1>3. t.position = book[i].position
  BY <1>1, TradeLeaves
<1>4. /\ book' = [book EXCEPT ![i] = t] /\ served' = served \cup {i}
      /\ UNCHANGED <<venue, clock, capacity, outcome>>
  BY DEF Trade
<1>5. Sound(t, capacity[i], clock, i \in served')
  BY <1>2, <1>4, AfterEvent
<1>6. SoundInv'
  BY <1>4, <1>5, OneBookSameTick
<1>7. SameSide(book[i].position, t.position)
  BY <1>1, <1>3 DEF SameSide, BookType
<1>8. QED
  BY <1>4, <1>6, <1>7, OneSide

(* A decision changes neither the position nor the orders.                 *)
LEMMA DecisionLeaves ==
  ASSUME NEW s \in BookType, NEW d \in DecisionType, NEW close, NEW t,
         t = QueueDecision(s, d, close)
  PROVE  t.position = s.position /\ t.inbox = s.inbox /\ t.orders = s.orders
         /\ t.goal = d.target /\ t.error = s.error /\ t.missed = s.missed
<1>1. NextBarOpen(d.ts) >= EvaluationEnd <=> ~(NextBarOpen(d.ts) < EvaluationEnd)
  BY MomentumAssumption DEF NextBarOpen, DecisionType
<1>2. CASE s.reversal # None
  BY <1>2 DEF QueueDecision, ReplaceTarget, BookType
<1>3. CASE s.reversal = None /\ NextBarOpen(d.ts) >= EvaluationEnd
  BY <1>1, <1>3 DEF QueueDecision, BookType
<1>4. CASE s.reversal = None /\ NextBarOpen(d.ts) < EvaluationEnd
  BY <1>1, <1>4 DEF QueueDecision, BookType
<1>5. QED
  BY <1>1, <1>2, <1>3, <1>4

(* Nor does the close of a bar.                                            *)
LEMMA BarLeaves ==
  ASSUME NEW s \in BookType, NEW ts \in Nat, NEW ret \in Returns \cup {None}, NEW close \in Prices, NEW t,
         t = OnBar(s, ts, ret, close)
  PROVE  t.position = s.position /\ t.inbox = s.inbox /\ t.orders = s.orders
<1> PICK d : d = [ts |-> ts, target |-> TargetQuantity(MomentumSignal(ret), close)]
  OBVIOUS
<1>1. d \in DecisionType
  BY TargetFits DEF DecisionType
<1>2. t \in {s, [s EXCEPT !.error = TRUE], QueueDecision(s, d, close)}
  BY DEF OnBar
<1>3. QED
  BY <1>1, <1>2, DecisionLeaves DEF BookType

(* The close of a bar: the ticks to come are as large as its target.       *)
LEMMA BarStep ==
  ASSUME SoundInv, NEW i \in Instruments, NEW close \in Prices,
         NEW ret \in Returns \cup {None}, BarClose(i, ret, close)
  PROVE  SoundInv' /\ SameSides
<1> PICK t : t = OnBar(book[i], clock, ret, close)
  OBVIOUS
<1> DEFINE size == NextCapacity(i, close)
<1>1. /\ Sound(book[i], capacity[i], clock, FALSE) /\ capacity[i] \in Nat /\ clock \in Nat
      /\ ~IsOpen(clock) /\ ~book[i].error /\ book[i].inbox = <<>> /\ book[i] \in BookType
  BY BeforeEvent DEF BarClose
<1>2. size \in Nat /\ capacity[i] <= size /\ Units(close) <= size
  BY <1>1, UnitsType DEF NextCapacity
<1>3. /\ book' = [book EXCEPT ![i] = t] /\ served' = served \cup {i}
      /\ capacity' = [capacity EXCEPT ![i] = size] /\ UNCHANGED <<venue, clock, outcome>>
  BY DEF BarClose
<1> HIDE DEF size
<1>4. Sound(t, size, clock, TRUE)
  BY <1>1, <1>2, BarKeepsSound
<1>5. Sound(t, size, clock, i \in served')
  BY <1>3, <1>4, AfterEvent
<1>6. SoundInv'
  BY <1>2, <1>3, <1>5, OneBook
<1>7. t.position = book[i].position
  <2>1. book[i] \in BookType /\ clock \in Nat
    BY <1>1
  <2>2. QED
    BY <2>1, BarLeaves
<1>8. SameSide(book[i].position, t.position)
  BY <1>1, <1>7 DEF SameSide, BookType
<1>9. QED
  BY <1>3, <1>6, <1>8, OneSide

(* A step that leaves the books as they are.                               *)
LEMMA BooksUnchanged ==
  ASSUME SoundInv, UNCHANGED book
  PROVE  SameSides
BY DEF SoundInv, TypeOK, BookType, SameSides, SameSide

(* Time moves on when every instrument has had its event.                  *)
LEMMA InstantStep ==
  ASSUME SoundInv, NextInstant
  PROVE  SoundInv' /\ SameSides
<1>1. ASSUME NEW j \in Instruments
      PROVE  Sound(book'[j], capacity'[j], clock', j \in served')
  <2>1. (j \in served) = TRUE /\ (j \in served') = FALSE
    BY DEF NextInstant
  <2>2. Sound(book[j], capacity[j], clock, j \in served) /\ capacity[j] \in Nat /\ clock \in Nat
    BY DEF SoundInv, TypeOK
  <2>3. Sound(book[j], capacity[j], clock, TRUE)
    BY <2>1, <2>2
  <2>4. Sound(book[j], capacity[j], clock + 1, FALSE)
    BY <2>2, <2>3, InstantKeepsSound
  <2>5. Sound(book'[j], capacity'[j], clock', FALSE)
    BY <2>4 DEF NextInstant
  <2>6. QED
    BY <2>1, <2>5
<1>2. TypeOK'
  BY DEF NextInstant, SoundInv, TypeOK
<1>3. QED
  BY <1>1, <1>2, BooksUnchanged DEF SoundInv, NextInstant

(* What is sound is so before or after the event of the instant.           *)
LEMMA EventFlag ==
  ASSUME NEW i, NEW s, NEW size, NEW ts, Sound(s, size, ts, i \in served)
  PROVE  \E done \in BOOLEAN : Sound(s, size, ts, done)
<1>1. CASE i \in served
  <2>1. (i \in served) = TRUE
    BY <1>1
  <2>2. QED
    BY <2>1
<1>2. CASE i \notin served
  <2>1. (i \in served) = FALSE
    BY <1>2
  <2>2. QED
    BY <2>1
<1>3. QED
  BY <1>1, <1>2

(* What either keeps is kept.                                              *)
LEMMA FlagKept ==
  ASSUME NEW i, NEW s, NEW size, NEW ts, NEW t, Sound(s, size, ts, i \in served),
         \A done \in BOOLEAN : Sound(s, size, ts, done) => Sound(t, size, ts, done)
  PROVE  Sound(t, size, ts, i \in served)
<1>1. CASE i \in served
  <2>1. (i \in served) = TRUE
    BY <1>1
  <2>2. QED
    BY <2>1
<1>2. CASE i \notin served
  <2>1. (i \in served) = FALSE
    BY <1>2
  <2>2. QED
    BY <2>1
<1>3. QED
  BY <1>1, <1>2

(* A fill moves a position toward the end of a leg on its side.            *)
LEMMA FillStep ==
  ASSUME SoundInv, NEW i \in Instruments, NEW k \in DOMAIN book[i].orders, Fill(i, k)
  PROVE  SoundInv' /\ SameSides
<1> DEFINE o == book[i].orders[k]
<1>1. /\ Sound(book[i], capacity[i], clock, i \in served) /\ clock \in Nat
      /\ book[i].inbox = <<>> /\ Submitted(o) /\ capacity[i] \in Nat
  BY DEF SoundInv, TypeOK, Fill, Ready
<1>2. ASSUME NEW done, Sound(book[i], capacity[i], clock, done)
      PROVE  Left(o) \in Int /\ Left(o) # 0
  <2>1. o \in OrderType /\ WorkingOK(book[i], capacity[i], o)
    BY <1>1, <1>2, OrdersOfBook DEF Sound, OrdersOK
  <2>2. QED
    BY <2>1 DEF WorkingOK, OrderType, Left
<1>3. PICK q \in {Left(o)} \cup (IF venue = "prompt" \/ Abs(Left(o)) = 1 THEN {}
                                 ELSE {IF Left(o) > 0 THEN 1 ELSE -1}),
           cached \in BOOLEAN :
        book' = [book EXCEPT ![i] = Filled(@, k, q, cached, capacity[i])]
  BY DEF Fill, Left
<1>4. q \in Int /\ Toward(q, Left(o))
  BY <1>1, <1>2, <1>3, FillQuantity
<1> PICK t : t = Filled(book[i], k, q, cached, capacity[i])
  OBVIOUS
<1>5. ASSUME NEW done \in BOOLEAN, Sound(book[i], capacity[i], clock, done)
      PROVE  Sound(t, capacity[i], clock, done) /\ SameSide(book[i].position, t.position)
  <2>1. clock \in Nat /\ capacity[i] \in Nat /\ book[i].inbox = <<>>
        /\ Submitted(book[i].orders[k])
    BY <1>1
  <2>2. QED
    BY <1>4, <1>5, <2>1, FillKeepsSound, SMTT(30)
<1>6. Sound(t, capacity[i], clock, i \in served) /\ SameSide(book[i].position, t.position)
  <2>1. \E done \in BOOLEAN : Sound(book[i], capacity[i], clock, done)
    BY <1>1, EventFlag
  <2>2. SameSide(book[i].position, t.position)
    BY <1>5, <2>1
  <2>3. Sound(t, capacity[i], clock, i \in served)
    BY <1>1, <1>5, FlagKept
  <2>4. QED
    BY <2>2, <2>3
<1>7. book' = [book EXCEPT ![i] = t] /\ UNCHANGED <<venue, clock, served, capacity, outcome>>
  BY <1>3 DEF Fill
<1>8. SoundInv'
  BY <1>6, <1>7, OneBookSameTick
<1>9. QED
  BY <1>6, <1>7, <1>8, OneSide

(* An event tells the strategy of the fill, and may open the second leg.   *)
LEMMA DeliverStep ==
  ASSUME SoundInv, NEW i \in Instruments, Deliver(i)
  PROVE  SoundInv' /\ SameSides
<1> PICK t : t = Delivered(book[i])
  OBVIOUS
<1>1. /\ Sound(book[i], capacity[i], clock, i \in served) /\ clock \in Nat
      /\ book[i].inbox # <<>> /\ ~book[i].error /\ capacity[i] \in Nat
  BY DEF SoundInv, TypeOK, Deliver
<1>2. ASSUME NEW done \in BOOLEAN, Sound(book[i], capacity[i], clock, done)
      PROVE  Sound(t, capacity[i], clock, done) /\ SameSide(book[i].position, t.position)
  BY <1>1, <1>2, DeliverKeepsSound
<1>3. Sound(t, capacity[i], clock, i \in served) /\ SameSide(book[i].position, t.position)
  <2>1. \E done \in BOOLEAN : Sound(book[i], capacity[i], clock, done)
    BY <1>1, EventFlag
  <2>2. SameSide(book[i].position, t.position)
    BY <1>2, <2>1
  <2>3. Sound(t, capacity[i], clock, i \in served)
    BY <1>1, <1>2, FlagKept
  <2>4. QED
    BY <2>2, <2>3
<1>4. book' = [book EXCEPT ![i] = t] /\ UNCHANGED <<venue, clock, served, capacity, outcome>>
  BY DEF Deliver
<1>5. SoundInv'
  BY <1>3, <1>4, OneBookSameTick
<1>6. QED
  BY <1>3, <1>4, <1>5, OneSide

(* A rejection frees the strategy to decide anew from where it stands.     *)
LEMMA RejectStep ==
  ASSUME SoundInv, NEW i \in Instruments, NEW k \in DOMAIN book[i].orders, Reject(i, k)
  PROVE  SoundInv' /\ SameSides
<1> PICK t : t = Rejected(book[i], k)
  OBVIOUS
<1>1. /\ Sound(book[i], capacity[i], clock, i \in served) /\ clock \in Nat
      /\ Submitted(book[i].orders[k]) /\ capacity[i] \in Nat /\ book[i].position \in Int
  BY DEF SoundInv, TypeOK, Reject, BookType
<1>2. ASSUME NEW done \in BOOLEAN, Sound(book[i], capacity[i], clock, done)
      PROVE  Sound(t, capacity[i], clock, done) /\ t.position = book[i].position
  BY <1>1, <1>2, RejectKeepsSound
<1>3. Sound(t, capacity[i], clock, i \in served) /\ t.position = book[i].position
  <2>1. \E done \in BOOLEAN : Sound(book[i], capacity[i], clock, done)
    BY <1>1, EventFlag
  <2>2. t.position = book[i].position
    BY <1>2, <2>1
  <2>3. Sound(t, capacity[i], clock, i \in served)
    BY <1>1, <1>2, FlagKept
  <2>4. QED
    BY <2>2, <2>3
<1>4. book' = [book EXCEPT ![i] = t] /\ UNCHANGED <<venue, clock, served, capacity, outcome>>
  BY DEF Reject, Rejected
<1>5. SoundInv'
  BY <1>3, <1>4, OneBookSameTick
<1>6. SameSide(book[i].position, t.position)
  BY <1>1, <1>3 DEF SameSide
<1>7. QED
  BY <1>4, <1>5, <1>6, OneSide

(* The end of the data.                                                    *)
LEMMA StopStep ==
  ASSUME SoundInv, OnStop
  PROVE  SoundInv' /\ SameSides
<1>1. ASSUME NEW j \in Instruments
      PROVE  /\ Sound(book'[j], capacity'[j], clock', j \in served')
             /\ book'[j] \in BookType /\ SameSide(book[j].position, book'[j].position)
  <2> PICK t : t = Stopped(book[j])
    OBVIOUS
  <2>1. /\ Sound(book[j], capacity[j], clock, j \in served) /\ clock \in Nat
        /\ capacity[j] \in Nat /\ book[j].position \in Int
    BY DEF SoundInv, TypeOK, BookType
  <2>2. ASSUME NEW done \in BOOLEAN, Sound(book[j], capacity[j], clock, done)
        PROVE  Sound(t, capacity[j], clock, done) /\ t.position = book[j].position
    BY <2>1, <2>2, StopKeepsSound
  <2>3. Sound(t, capacity[j], clock, j \in served) /\ t.position = book[j].position
    <3>1. \E done \in BOOLEAN : Sound(book[j], capacity[j], clock, done)
      BY <2>1, EventFlag
    <3>2. t.position = book[j].position
      BY <2>2, <3>1
    <3>3. Sound(t, capacity[j], clock, j \in served)
      BY <2>1, <2>2, FlagKept
    <3>4. QED
      BY <3>2, <3>3
  <2>4. book'[j] = t /\ UNCHANGED <<clock, capacity, served>>
    BY DEF OnStop
  <2>5. t \in BookType
    BY <2>3 DEF Sound
  <2>6. QED
    BY <2>1, <2>3, <2>4, <2>5 DEF SameSide
<1>2. TypeOK'
  BY <1>1 DEF OnStop, SoundInv, TypeOK
<1>3. QED
  BY <1>1, <1>2 DEF SoundInv, SameSides

(* A step of the runner leaves the books alone.                            *)
LEMMA RunnerStep ==
  ASSUME SoundInv, UNCHANGED <<venue, clock, served, capacity, book>>,
         outcome' \in {outcome, "accepted", "failed"}
  PROVE  SoundInv' /\ SameSides
<1>1. TypeOK'
  BY DEF SoundInv, TypeOK
<1>2. QED
  BY <1>1, BooksUnchanged DEF SoundInv

(* The first state.                                                        *)
LEMMA SoundInit == Init => SoundInv
<1> SUFFICES ASSUME Init PROVE SoundInv
  OBVIOUS
<1>1. Idle \in BookType /\ Idle.orders = <<>> /\ Idle.inbox = <<>> /\ Idle.position = 0
      /\ Idle.goal = 0 /\ Idle.pending = None /\ Idle.reversal = None
  BY DEF Idle, BookType
<1>2. Booked(Idle) = 0 /\ InboxOK(Idle) /\ Within(0, 1)
  BY <1>1 DEF Booked, InboxOK, SameSide, Within
<1>3. DOMAIN Idle.orders = {}
  BY <1>1
<1>4. Sound(Idle, 1, 0, FALSE)
  BY <1>1, <1>2, <1>3
     DEF Sound, OrdersOK, OneWorking, EachOnce, PendingOK, ReversalOK
<1>5. ASSUME NEW j \in Instruments
      PROVE  Sound(book[j], capacity[j], clock, j \in served)
  <2>1. (j \in served) = FALSE /\ book[j] = Idle /\ capacity[j] = 1 /\ clock = 0
    BY DEF Init
  <2>2. QED
    BY <1>4, <2>1
<1>6. TypeOK
  BY <1>1 DEF Init, TypeOK
<1>7. QED
  BY <1>5, <1>6 DEF SoundInv

(* Every step keeps the state sound and no position crosses zero.          *)
LEMMA SoundNext == SoundInv /\ [Next]_vars => SoundInv' /\ SameSides
<1> SUFFICES ASSUME SoundInv, [Next]_vars PROVE SoundInv' /\ SameSides
  OBVIOUS
<1>1. ASSUME NEW i \in Instruments, NEW price \in Prices, Trade(i, price)
      PROVE  SoundInv' /\ SameSides
  BY <1>1, TradeStep
<1>2. ASSUME NEW i \in Instruments, NEW price \in Prices, NEW ret \in Returns \cup {None},
             BarClose(i, ret, price)
      PROVE  SoundInv' /\ SameSides
  BY <1>2, BarStep
<1>3. CASE NextInstant
  BY <1>3, InstantStep
<1>4. CASE Settle
  <2>1. ASSUME NEW i \in Instruments, Deliver(i) PROVE SoundInv' /\ SameSides
    BY <2>1, DeliverStep
  <2>2. ASSUME NEW i \in Instruments, NEW k \in DOMAIN book[i].orders, Fill(i, k)
        PROVE  SoundInv' /\ SameSides
    BY <2>2, FillStep
  <2>3. ASSUME NEW i \in Instruments, NEW k \in DOMAIN book[i].orders, Reject(i, k)
        PROVE  SoundInv' /\ SameSides
    BY <2>3, RejectStep
  <2>4. QED
    BY <1>4, <2>1, <2>2, <2>3 DEF Settle
<1>5. CASE OnStop
  BY <1>5, StopStep
<1>6. CASE CollectReports \/ StrategyError
  BY <1>6, RunnerStep DEF CollectReports, StrategyError
<1>7. CASE UNCHANGED vars
  BY <1>7, RunnerStep DEF vars
<1>8. QED
  BY <1>1, <1>2, <1>3, <1>4, <1>5, <1>6, <1>7 DEF Next

-----------------------------------------------------------------------------
(* What the strategy never does. *)

(* Every reachable state is sound.                                         *)
LEMMA AlwaysSound == Spec => []SoundInv
<1>1. Init => SoundInv
  BY SoundInit
<1>2. SoundInv /\ [Next]_vars => SoundInv'
  BY SoundNext
<1>3. QED
  BY <1>1, <1>2, PTL DEF Spec

(* A decision pending and a reversal in progress exclude each other.       *)
LEMMA SoundPending == SoundInv => PendingXorReversal
BY DEF SoundInv, Sound, PendingOK, PendingXorReversal

(* Orders of one instrument are at work one at a time.                     *)
LEMMA SoundOneOrder == SoundInv => OneOrderAtATime
BY DEF SoundInv, Sound, OneWorking, OneOrderAtATime

(* A decision is executed at most once.                                    *)
LEMMA SoundOnce == SoundInv => ExecutedOnce
<1> SUFFICES ASSUME SoundInv, NEW i \in Instruments,
                    NEW j \in DOMAIN book[i].orders, NEW k \in DOMAIN book[i].orders,
                    j < k, book[i].orders[j].decision = book[i].orders[k].decision
             PROVE  /\ book[i].orders[j].leg = "reversal_close"
                    /\ book[i].orders[k].leg = "reversal_open"
  BY DEF ExecutedOnce
<1>1. EachOnce(book[i])
  BY DEF SoundInv, Sound
<1>2. QED
  BY <1>1 DEF EachOnce, LegsOfOne

(* Orders are submitted in the window, after their decision.               *)
LEMMA SoundWindow == SoundInv => OrdersInWindow
BY DEF SoundInv, Sound, OrdersOK, DatesOK, OrdersInWindow

(* Orders at work fit the tick.                                            *)
LEMMA SoundTick == SoundInv => OrderFitsTick
<1> SUFFICES ASSUME SoundInv, NEW i \in Instruments, NEW k \in DOMAIN book[i].orders,
                    Submitted(book[i].orders[k])
             PROVE  Abs(book[i].orders[k].qty) <= capacity[i]
  BY DEF OrderFitsTick
<1>1. /\ OrdersOK(book[i], capacity[i], clock) /\ book[i] \in BookType /\ capacity[i] \in Nat
  BY DEF SoundInv, Sound, TypeOK
<1>2. Within(book[i].orders[k].qty, capacity[i]) /\ book[i].orders[k].qty \in Int
  BY <1>1, OrdersOfBook DEF OrdersOK, WorkingOK, OrderType
<1>3. QED
  BY <1>1, <1>2 DEF Within, Abs

(* The variables keep their types: whatever the venue does, the strategy's *)
(* records hold decisions, orders and positions and nothing else.          *)
THEOREM MomentumTypeCorrect == Spec => []TypeOK
<1>1. SoundInv => TypeOK
  BY DEF SoundInv
<1>2. QED
  BY <1>1, AlwaysSound, PTL

(* Never two orders of an instrument at work, however slow the venue is    *)
(* and however many decisions queue up behind an order.                    *)
THEOREM OneOrderAtWork == Spec => []OneOrderAtATime
BY SoundOneOrder, AlwaysSound, PTL

(* A queued decision and a reversal in progress exclude each other.        *)
THEOREM PendingOrReversal == Spec => []PendingXorReversal
BY SoundPending, AlwaysSound, PTL

(* Every decision is executed at most once, by one direct order or by the  *)
(* two legs of a reversal.                                                 *)
THEOREM NoDecisionTwice == Spec => []ExecutedOnce
BY SoundOnce, AlwaysSound, PTL

(* Orders are submitted inside the evaluation window and after their       *)
(* decision, also the ones a late fill releases.                           *)
THEOREM OrdersInsideWindow == Spec => []OrdersInWindow
BY SoundWindow, AlwaysSound, PTL

(* No order asks for more than the tick it executes on offers.             *)
THEOREM OrdersFitTheirTick == Spec => []OrderFitsTick
BY SoundTick, AlwaysSound, PTL

(* No step of the strategy or the venue takes a position through zero.     *)
THEOREM FlatInBetween == Spec => NeverThroughZero
<1>1. SoundInv /\ SoundInv' /\ SameSides
        => \A i \in Instruments : book[i].position * book'[i].position >= 0
  <2> SUFFICES ASSUME SoundInv, SoundInv', SameSides, NEW i \in Instruments
               PROVE  book[i].position * book'[i].position >= 0
    OBVIOUS
  <2>1. book[i].position \in Int /\ book'[i].position \in Int
    BY DEF SoundInv, TypeOK, BookType
  <2>2. QED
    BY <2>1, SideOfProduct DEF SameSides
<1>2. SoundInv /\ [Next]_vars
        => [\A i \in Instruments : book[i].position * book'[i].position >= 0]_vars
  BY <1>1, SoundNext
<1>3. QED
  BY <1>2, AlwaysSound, PTL DEF Spec, NeverThroughZero

-----------------------------------------------------------------------------
(* A step of the backtest with its replay is a step of the backtest.       *)
LEMMA ReplayStepIsBacktestStep == [ReplayNext]_both => [Next]_vars
BY DEF ReplayNext, both, vars, Next, ReplayTrade, ReplayBarClose, ReplayInstant,
       ReplayDeliver, ReplayFill, ReplayStop

(* The replay only watches: the backtest beside it is the backtest, so all *)
(* that is proved of it holds there too.                                   *)
THEOREM ReplayOnlyWatches == FairSpec => Spec
<1>1. ReplayInit => Init
  BY DEF ReplayInit
<1>2. QED
  BY <1>1, ReplayStepIsBacktestStep, PTL DEF FairSpec, Spec

-----------------------------------------------------------------------------
(* What the strategy promises. *)

(* Where the target wants the position next.                               *)
NextStop(s) == IF Reversing(Booked(s), s.goal) THEN 0 ELSE s.goal

(* The steps of TargetFollower, of one instrument. *)
Decides(s, t) == /\ Booked(t) = Booked(s) /\ WorkingOf(t) = WorkingOf(s) /\ t.goal \in Int
Commits(s, t) == /\ Booked(t) = Booked(s) /\ t.goal = s.goal /\ WorkingOf(s) = None
                 /\ NextStop(s) # Booked(s) /\ WorkingOf(t) = NextStop(s)
Settles(s, t) == /\ t.goal = s.goal /\ WorkingOf(s) # None
                 /\ Booked(t) \in Target!Between(Booked(s), WorkingOf(s))
                 /\ WorkingOf(t) = IF Booked(t) = WorkingOf(s) THEN None ELSE WorkingOf(s)
Drops(s, t) == /\ Booked(t) = Booked(s) /\ t.goal = s.goal
               /\ WorkingOf(t) \in {None, WorkingOf(s)}

-----------------------------------------------------------------------------
(* The order at work. *)

(* Nothing is sent exactly when nothing is unsettled.                      *)
LEMMA NothingSent ==
  ASSUME NEW s
  PROVE  Sent(s) = {} <=> ~UnsettledOrders(s)
BY DEF Sent, UnsettledOrders

(* The order at work is the only one.                                      *)
LEMMA WorkingIs ==
  ASSUME NEW s \in BookType, OneWorking(s), InboxOK(s),
         NEW k \in DOMAIN s.orders, Submitted(s.orders[k])
  PROVE  /\ WorkingOf(s) = Booked(s) + Left(s.orders[k])
         /\ WorkingOf(s) # None /\ WorkingOf(s) \in Int
<1> DEFINE c == CHOOSE j \in Sent(s) : TRUE
<1>1. k \in Sent(s)
  BY DEF Sent
<1>2. c \in Sent(s)
  BY <1>1
<1>3. c = k
  BY <1>2 DEF Sent, OneWorking
<1>4. s.orders[k].qty \in Int /\ s.orders[k].filled \in Int
  BY OrdersOfBook DEF OrderType
<1>5. Booked(s) \in Int
  BY BookedOf
<1>6. WorkingOf(s) = Booked(s) + s.orders[k].qty - s.orders[k].filled
  BY <1>1, <1>3 DEF WorkingOf
<1> HIDE DEF c
<1>7. QED
  BY <1>4, <1>5, <1>6, MomentumAssumption DEF Left

(* The order at work depends on the orders and on what is booked only.     *)
LEMMA WorkingOfFields ==
  ASSUME NEW s, NEW t, t.orders = s.orders, Booked(t) = Booked(s)
  PROVE  WorkingOf(t) = WorkingOf(s)
BY DEF WorkingOf, Sent

(* An order appended to settled ones is the order at work.                 *)
LEMMA AppendedWorks ==
  ASSUME NEW s \in BookType, ~UnsettledOrders(s), InboxOK(s),
         NEW t \in BookType, NEW o \in OrderType, Submitted(o), o.filled = 0,
         t.orders = Append(s.orders, o), Booked(t) = Booked(s)
  PROVE  WorkingOf(s) = None /\ WorkingOf(t) = Booked(s) + o.qty
<1>1. s.orders \in Seq(OrderType) /\ Len(s.orders) \in Nat
  BY OrdersOfBook DEF BookType
<1>2. /\ Len(t.orders) = Len(s.orders) + 1 /\ t.orders[Len(t.orders)] = o
      /\ DOMAIN t.orders = 1..(Len(s.orders) + 1)
      /\ \A k \in 1..Len(s.orders) : t.orders[k] = s.orders[k]
  BY <1>1
<1>3. \A k \in 1..Len(s.orders) : ~Submitted(s.orders[k])
  BY <1>1 DEF UnsettledOrders
<1>4. Sent(s) = {}
  BY NothingSent
<1>5. Sent(t) = {Len(t.orders)}
  BY <1>1, <1>2, <1>3 DEF Sent
<1>6. WorkingOf(t) = Booked(t) + o.qty - o.filled
  <2>1. (CHOOSE j \in Sent(t) : TRUE) = Len(t.orders)
    BY <1>5
  <2>2. QED
    BY <1>2, <1>5, <2>1 DEF WorkingOf
<1>7. Booked(s) \in Int /\ o.qty \in Int
  BY BookedOf DEF OrderType
<1>8. WorkingOf(s) = None
  BY <1>4 DEF WorkingOf
<1>9. QED
  BY <1>6, <1>7, <1>8

-----------------------------------------------------------------------------
(* What the callbacks do to the order at work. *)

(* The opening leg is submitted whole, from flat, or not at all.           *)
LEMMA OpenCases ==
  ASSUME NEW s \in BookType, NEW ts \in Nat, NEW price, s.reversal # None, NEW t,
         t = SubmitReversalOpen(s, ts, price)
  PROVE  \/ t.orders = s.orders
         \/ /\ ~UnsettledOrders(s) /\ s.position = 0 /\ s.reversal.latest.target # 0
            /\ s.reversal.latest.ts < ts
            /\ t.orders = Append(s.orders, NewOrder("reversal_open", s.reversal.latest.target,
                                                    s.reversal.latest, ts))
<1> DEFINE d == s.reversal.latest
           o == NewOrder("reversal_open", d.target, d, ts)
<1>1. CASE \/ ~OpensInWindow(d) \/ ts <= d.ts \/ UnsettledOrders(s) \/ s.position # 0
           \/ d.target = 0 \/ ~MeetsMinimumOrder(Abs(d.target), price)
  BY <1>1 DEF SubmitReversalOpen, EndReversal, BookType
<1>2. CASE ~(\/ ~OpensInWindow(d) \/ ts <= d.ts \/ UnsettledOrders(s) \/ s.position # 0
             \/ d.target = 0 \/ ~MeetsMinimumOrder(Abs(d.target), price))
  <2>1. t = EndReversal(Submit(s, "reversal_open", d.target, d, ts))
    BY <1>2 DEF SubmitReversalOpen
  <2>2. t.orders = Append(s.orders, o)
    BY <2>1 DEF EndReversal, Submit, NewOrder, BookType
  <2>3. d.ts \in Nat
    BY DEF BookType, ReversalType, DecisionType
  <2>4. QED
    BY <1>2, <2>2, <2>3
<1>3. QED
  BY <1>1, <1>2

(* The leg of a pending decision is submitted whole, or not at all.        *)
LEMMA ExecuteCases ==
  ASSUME NEW s \in BookType, NEW ts \in Nat, NEW price, NEW t,
         t = ExecutePending(s, ts, price)
  PROVE  \/ t.orders = s.orders
         \/ /\ s.pending # None /\ ~UnsettledOrders(s) /\ ts = NextBarOpen(s.pending.ts)
            /\ LegQuantity(s, s.pending.target) # 0
            /\ \E leg \in {"direct", "reversal_close"} :
                 t.orders = Append(s.orders, NewOrder(leg, LegQuantity(s, s.pending.target),
                                                      s.pending, ts))
<1> DEFINE d == s.pending
           p == [s EXCEPT !.pending = None]
           qty == LegQuantity(s, d.target)
<1>1. CASE \/ s.pending = None \/ s.error \/ ts # NextBarOpen(d.ts) \/ ~FreeToOrder(s)
           \/ qty = 0 \/ ~MeetsMinimumOrder(Abs(qty), price)
  BY <1>1 DEF ExecutePending, BookType
<1>2. CASE ~(\/ s.pending = None \/ s.error \/ ts # NextBarOpen(d.ts) \/ ~FreeToOrder(s)
             \/ qty = 0 \/ ~MeetsMinimumOrder(Abs(qty), price))
  <2>1. CASE ~Reversing(s.position, d.target)
    <3>1. t = Submit(p, "direct", qty, d, ts)
      BY <1>2, <2>1 DEF ExecutePending
    <3>2. t.orders = Append(s.orders, NewOrder("direct", qty, d, ts))
      BY <3>1 DEF Submit, NewOrder, BookType
    <3>3. QED
      BY <1>2, <3>2 DEF FreeToOrder
  <2>2. CASE Reversing(s.position, d.target)
    <3>1. t.orders = Submit(p, "reversal_close", qty, d, ts).orders
      BY <1>2, <2>2 DEF ExecutePending, Submit, BookType
    <3>2. t.orders = Append(s.orders, NewOrder("reversal_close", qty, d, ts))
      BY <3>1 DEF Submit, NewOrder, BookType
    <3>3. QED
      BY <1>2, <3>2 DEF FreeToOrder
  <2>3. QED
    BY <2>1, <2>2
<1>3. QED
  BY <1>1, <1>2

(* A new order is one of the orders.                                       *)
LEMMA NewOrderIs ==
  ASSUME NEW leg \in {"direct", "reversal_close", "reversal_open"}, NEW qty \in Int,
         NEW d \in DecisionType, NEW ts \in Nat, NEW o, o = NewOrder(leg, qty, d, ts)
  PROVE  /\ o \in OrderType /\ Submitted(o) /\ o.filled = 0 /\ o.qty = qty /\ o.leg = leg
         /\ o.expected = ts /\ o.decision = d.ts /\ o.onTime /\ Left(o) = qty
BY DEF NewOrder, OrderType, DecisionType, Submitted, Left

(* The opening leg of a reversal goes to the target.                       *)
LEMMA OpenCommits ==
  ASSUME NEW s, NEW size \in Nat, NEW ts \in Nat, NEW done \in BOOLEAN, NEW price,
         Sound(s, size, ts, done), s.reversal # None, s.reversal.phase = "flat_confirmed",
         ~s.error, NEW t, t = SubmitReversalOpen(s, ts, price)
  PROVE  Commits(s, t) \/ Drops(s, t)
<1> DEFINE d == s.reversal.latest
           o == NewOrder("reversal_open", d.target, d, ts)
<1>1. s \in BookType /\ InboxOK(s) /\ OneWorking(s) /\ ReversalOK(s, ts, done)
  BY DEF Sound
<1>2. d \in DecisionType /\ d.target \in Int
  BY <1>1 DEF BookType, ReversalType, DecisionType
<1>3. Booked(s) = 0 /\ d.target = s.goal
  BY <1>1 DEF ReversalOK
<1>4. t.goal = s.goal /\ t.position = s.position /\ t.inbox = s.inbox
  BY <1>1, OpenLeaves
<1>5. Booked(t) = Booked(s)
  BY <1>4 DEF Booked
<1>6. Sound(t, size, ts, done)
  BY OpenKeepsSound
<1>7. t \in BookType
  BY <1>6 DEF Sound
<1>8. CASE t.orders = s.orders
  BY <1>4, <1>5, <1>8, WorkingOfFields DEF Drops
<1>9. CASE /\ ~UnsettledOrders(s) /\ d.target # 0 /\ t.orders = Append(s.orders, o)
  <2>1. o \in OrderType /\ Submitted(o) /\ o.filled = 0 /\ o.qty = d.target
    BY <1>2, NewOrderIs
  <2>2. WorkingOf(s) = None /\ WorkingOf(t) = Booked(s) + o.qty
    BY <1>1, <1>5, <1>7, <1>9, <2>1, AppendedWorks
  <2>3. NextStop(s) = d.target
    BY <1>2, <1>3, SideOfProduct DEF NextStop, Reversing
  <2>4. QED
    BY <1>2, <1>3, <1>4, <1>5, <1>9, <2>1, <2>2, <2>3 DEF Commits
<1>10. QED
  BY <1>1, <1>8, <1>9, OpenCases

(* The leg of a pending decision goes to the target, or to flat first.     *)
LEMMA ExecuteCommits ==
  ASSUME NEW s, NEW size \in Nat, NEW ts \in Nat, NEW price \in Prices,
         Sound(s, size, ts, FALSE), IsOpen(ts), InWindow(ts), ~s.error, s.inbox = <<>>,
         s.pending # None, NEW t, t = ExecutePending(s, ts, price)
  PROVE  Commits(s, t) \/ Drops(s, t)
<1> DEFINE d == s.pending
           qty == LegQuantity(s, d.target)
<1>1. s \in BookType /\ InboxOK(s) /\ OneWorking(s) /\ PendingOK(s, ts, FALSE)
  BY DEF Sound
<1>2. d \in DecisionType /\ d.target \in Int /\ s.position \in Int /\ Booked(s) = s.position
  BY <1>1, BookedOf DEF BookType, DecisionType
<1>3. d.target = s.goal
  BY <1>1 DEF PendingOK
<1>4. t.goal = s.goal /\ t.position = s.position /\ t.inbox = s.inbox
  BY <1>1 DEF ExecutePending, Submit, BookType
<1>5. Booked(t) = Booked(s)
  BY <1>4 DEF Booked
<1>6. Sound(t, size, ts, TRUE)
  BY ExecuteKeepsSound
<1>7. t \in BookType
  BY <1>6 DEF Sound
<1>8. CASE t.orders = s.orders
  BY <1>4, <1>5, <1>8, WorkingOfFields DEF Drops
<1>9. ASSUME ~UnsettledOrders(s), qty # 0, NEW leg \in {"direct", "reversal_close"},
             t.orders = Append(s.orders, NewOrder(leg, qty, d, ts))
      PROVE  Commits(s, t)
  <2>1. qty \in Int /\ s.position + qty = NextStop(s)
    BY <1>2, <1>3 DEF LegQuantity, NextStop
  <2> HIDE DEF qty
  <2> PICK o : o = NewOrder(leg, qty, d, ts)
    OBVIOUS
  <2>2. o \in OrderType /\ Submitted(o) /\ o.filled = 0 /\ o.qty = qty
    BY <1>2, <2>1, NewOrderIs
  <2>3. WorkingOf(s) = None /\ WorkingOf(t) = Booked(s) + o.qty
    BY <1>1, <1>5, <1>7, <1>9, <2>2, AppendedWorks
  <2>4. QED
    BY <1>2, <1>4, <1>5, <1>9, <2>1, <2>2, <2>3 DEF Commits
<1>10. QED
  <2>1. \/ t.orders = s.orders
        \/ /\ ~UnsettledOrders(s) /\ qty # 0
           /\ \E leg \in {"direct", "reversal_close"} :
                t.orders = Append(s.orders, NewOrder(leg, qty, d, ts))
    BY <1>1, ExecuteCases
  <2>2. QED
    BY <1>8, <1>9, <2>1

(* Nothing happens at all.                                                 *)
LEMMA NothingDrops ==
  ASSUME NEW s
  PROVE  Drops(s, s)
BY DEF Drops

(* The open of a bar. *)
LEMMA TradeFollows ==
  ASSUME NEW s, NEW size \in Nat, NEW ts \in Nat, NEW price \in Prices,
         Sound(s, size, ts, FALSE), IsOpen(ts), ~s.error, s.inbox = <<>>,
         NEW t, t = OnTrade(s, ts, price)
  PROVE  Commits(s, t) \/ Drops(s, t)
<1>1. CASE ~InWindow(ts)
  BY <1>1, NothingDrops DEF OnTrade
<1>2. CASE InWindow(ts) /\ s.reversal # None /\ s.reversal.phase = "flat_confirmed"
  <2> PICK u : u = SubmitReversalOpen(s, ts, price)
    OBVIOUS
  <2>1. Commits(s, u) \/ Drops(s, u)
    BY <1>2, OpenCommits
  <2>2. s \in BookType /\ s.pending = None
    BY <1>2 DEF Sound, PendingOK
  <2>3. u.pending = None
    BY <2>2, OpenLeaves
  <2>4. t = u
    BY <1>2, <2>3 DEF OnTrade, AdvanceConfirmedReversal, ExecutePending
  <2>5. QED
    BY <2>1, <2>4
<1>3. CASE InWindow(ts) /\ ~(s.reversal # None /\ s.reversal.phase = "flat_confirmed")
  <2>1. t = ExecutePending(s, ts, price)
    BY <1>3 DEF OnTrade, AdvanceConfirmedReversal
  <2>2. CASE s.pending = None
    BY <2>1, <2>2, NothingDrops DEF ExecutePending
  <2>3. CASE s.pending # None
    BY <1>3, <2>1, <2>3, ExecuteCommits
  <2>4. QED
    BY <2>2, <2>3
<1>4. QED
  BY <1>1, <1>2, <1>3

(* The close of a bar. *)
LEMMA BarFollows ==
  ASSUME NEW s \in BookType, NEW ts \in Nat, NEW ret \in Returns \cup {None},
         NEW close \in Prices, NEW t, t = OnBar(s, ts, ret, close)
  PROVE  Decides(s, t)
<1> PICK d : d = [ts |-> ts, target |-> TargetQuantity(MomentumSignal(ret), close)]
  OBVIOUS
<1>1. d \in DecisionType /\ d.target \in Int /\ s.goal \in Int
  BY TargetFits DEF DecisionType, BookType
<1>2. t \in {s, [s EXCEPT !.error = TRUE], QueueDecision(s, d, close)}
  BY DEF OnBar
<1>3. t.goal \in Int
  BY <1>1, <1>2, DecisionLeaves DEF BookType
<1>4. t.position = s.position /\ t.inbox = s.inbox /\ t.orders = s.orders
  BY BarLeaves
<1>5. Booked(t) = Booked(s)
  BY <1>4 DEF Booked
<1>6. QED
  BY <1>3, <1>4, <1>5, WorkingOfFields DEF Decides

(* A fill. *)
LEMMA FillFollows ==
  ASSUME NEW s, NEW size \in Nat, NEW ts \in Nat, NEW done \in BOOLEAN,
         Sound(s, size, ts, done), s.inbox = <<>>,
         NEW k \in DOMAIN s.orders, Submitted(s.orders[k]),
         NEW q \in Int, Toward(q, Left(s.orders[k])), NEW cached \in BOOLEAN,
         NEW tick \in Nat, NEW t, t = Filled(s, k, q, cached, tick)
  PROVE  Settles(s, t)
<1> DEFINE o == s.orders[k]
           p == FilledOrder(o, q, tick)
<1>1. s \in BookType /\ InboxOK(s) /\ OneWorking(s) /\ o \in OrderType
  BY OrdersOfBook DEF Sound
<1>2. Booked(s) \in Int /\ Left(o) \in Int
  BY <1>1, BookedOf DEF OrderType, Left
<1>3. WorkingOf(s) = Booked(s) + Left(o) /\ WorkingOf(s) # None
  BY <1>1, WorkingIs
<1>4. Replaced(s, t, k, p)
  <2>1. FillOutcome(s, t, k, q, cached, tick)
    BY <1>1, FillDoes
  <2>2. QED
    BY <2>1 DEF FillOutcome
<1>5. Sound(t, size, ts, done) /\ Booked(t) = Booked(s) + q
  BY FillKeepsSound
<1>6. p.status = (IF q = Left(o) THEN "filled" ELSE o.status) /\ Left(p) = Left(o) - q
  BY <1>1, FilledOrderType
<1> HIDE DEF p
<1>7. t \in BookType /\ InboxOK(t) /\ OneWorking(t) /\ t.goal = s.goal
  BY <1>4, <1>5 DEF Sound, Replaced
<1>8. Booked(t) \in Target!Between(Booked(s), WorkingOf(s))
  BY <1>2, <1>3, <1>5 DEF Target!Between, Toward
<1>9. CASE q = Left(o)
  <2>1. Sent(t) = {}
    BY <1>1, <1>4, <1>6, <1>9, SMTT(30) DEF Sent, Replaced, OneWorking, Submitted
  <2>2. WorkingOf(t) = None /\ Booked(t) = WorkingOf(s)
    BY <1>3, <1>5, <1>9, <2>1 DEF WorkingOf
  <2>3. QED
    BY <1>3, <1>7, <1>8, <2>2 DEF Settles
<1>10. CASE q # Left(o)
  <2>1. Submitted(p) /\ k \in DOMAIN t.orders /\ t.orders[k] = p
    BY <1>4, <1>6, <1>10 DEF Submitted, Replaced
  <2>2. WorkingOf(t) = Booked(t) + Left(p)
    BY <1>7, <2>1, WorkingIs
  <2>3. WorkingOf(t) = WorkingOf(s) /\ Booked(t) # WorkingOf(s)
    BY <1>2, <1>3, <1>5, <1>6, <1>10, <2>2
  <2>4. QED
    BY <1>3, <1>7, <1>8, <2>3 DEF Settles
<1>11. QED
  BY <1>9, <1>10

(* An event delivered: the strategy may send the opening leg.              *)
LEMMA DeliverFollows ==
  ASSUME NEW s, NEW size \in Nat, NEW done \in BOOLEAN, clock \in Nat,
         Sound(s, size, clock, done), s.inbox # <<>>, ~s.error, NEW t, t = Delivered(s)
  PROVE  Commits(s, t) \/ Drops(s, t)
<1> PICK u : u = Observed(s)
  OBVIOUS
<1>1. t = ObserveReversalConfirmation(u, clock)
  BY DEF Delivered, Observed
<1>2. /\ Sound(u, size, clock, done) /\ Booked(u) = Booked(s) /\ u.error = s.error
      /\ u.orders = s.orders /\ u.goal = s.goal
  BY ObservedKeepsSound
<1>3. WorkingOf(u) = WorkingOf(s) /\ NextStop(u) = NextStop(s)
  BY <1>2, WorkingOfFields DEF NextStop
<1>4. CASE ~(Closing(u) /\ FlatConfirmed(u))
  BY <1>1, <1>2, <1>3, <1>4 DEF ObserveReversalConfirmation, Drops
<1>5. CASE Closing(u) /\ FlatConfirmed(u)
  <2> PICK w : w = Confirmed(u)
    OBVIOUS
  <2>1. /\ Sound(w, size, clock, done) /\ w.reversal # None /\ w.error = u.error
        /\ w.reversal.phase = "flat_confirmed" /\ w.position = u.position /\ w.goal = u.goal
        /\ w.orders = u.orders /\ w.inbox = u.inbox
    <3>1. Sound(u, size, clock, done) /\ Closing(u) /\ FlatConfirmed(u) /\ w = Confirmed(u)
      BY <1>2, <1>5
    <3>2. /\ Sound(w, size, clock, done) /\ w.reversal # None
          /\ w.reversal.phase = "flat_confirmed" /\ w.reversal.latest = u.reversal.latest
          /\ w.orders = u.orders /\ w.pending = u.pending /\ w.position = u.position
          /\ w.inbox = u.inbox /\ w.goal = u.goal /\ w.error = u.error /\ w.missed = u.missed
      BY ONLY <3>1, size \in Nat, clock \in Nat, done \in BOOLEAN, ConfirmKeepsSound
    <3>3. QED
      BY <3>2
  <2>2. Booked(w) = Booked(s) /\ WorkingOf(w) = WorkingOf(s) /\ NextStop(w) = NextStop(s)
    <3>1. Booked(w) = Booked(u)
      BY <2>1 DEF Booked
    <3>2. QED
      BY <1>2, <1>3, <2>1, <3>1, WorkingOfFields DEF NextStop
  <2>3. t = SubmitReversalOpen(w, clock, u.reversal.price)
    BY <1>1, <1>5 DEF ObserveReversalConfirmation, Confirmed
  <2>4. Commits(w, t) \/ Drops(w, t)
    BY <1>2, <2>1, <2>3, OpenCommits
  <2>5. w.goal = s.goal
    BY <1>2, <2>1
  <2>6. QED
    BY <2>2, <2>4, <2>5 DEF Commits, Drops
<1>6. QED
  BY <1>4, <1>5

(* A rejection drops the order at work.                                    *)
LEMMA RejectFollows ==
  ASSUME NEW s, NEW size \in Nat, NEW ts \in Nat, NEW done \in BOOLEAN,
         Sound(s, size, ts, done), NEW k \in DOMAIN s.orders, Submitted(s.orders[k]),
         NEW t, t = Rejected(s, k)
  PROVE  Drops(s, t)
<1>1. s \in BookType /\ OneWorking(s)
  BY DEF Sound
<1>2. /\ t.goal = s.goal /\ DOMAIN t.orders = DOMAIN s.orders
      /\ \A j \in DOMAIN s.orders : Submitted(t.orders[j]) => j # k /\ Submitted(s.orders[j])
  <2>1. s.orders[k] \in OrderType
    BY <1>1, OrdersOfBook
  <2>2. t.orders = [s.orders EXCEPT ![k].status = "rejected"] /\ t.goal = s.goal
    BY <1>1 DEF Rejected, BookType
  <2>3. QED
    BY <2>1, <2>2 DEF OrderType, Submitted
<1>3. Booked(t) = Booked(s)
  BY RejectKeepsSound
<1>4. Sent(t) = {}
  BY <1>1, <1>2 DEF Sent, OneWorking
<1>5. QED
  BY <1>2, <1>3, <1>4 DEF Drops, WorkingOf

(* The end of the run drops it too.                                        *)
LEMMA StopFollows ==
  ASSUME NEW s, NEW size \in Nat, NEW ts \in Nat, NEW done \in BOOLEAN,
         Sound(s, size, ts, done), NEW t, t = Stopped(s)
  PROVE  Drops(s, t)
<1>1. Booked(t) = Booked(s) /\ ~UnsettledOrders(t)
  BY StopKeepsSound
<1>2. t.goal = s.goal
  BY DEF Sound, Stopped, BookType
<1>3. QED
  BY <1>1, <1>2, NothingSent DEF Drops, WorkingOf

-----------------------------------------------------------------------------
(* The steps, to TargetFollower. *)

(* A function that differs at one place. *)
LEMMA ChangedAt ==
  ASSUME NEW S, NEW i \in S, NEW f, NEW g, NEW x,
         f = [j \in S |-> f[j]], g = [j \in S |-> g[j]],
         g[i] = x, \A j \in S : j # i => g[j] = f[j]
  PROVE  g = [f EXCEPT ![i] = x]
OBVIOUS

(* A step of one instrument is a step of its promise.                      *)
LEMMA OneFollows ==
  ASSUME TypeOK, NEW i \in Instruments, NEW t, book' = [book EXCEPT ![i] = t],
         \/ Decides(book[i], t) \/ Commits(book[i], t) \/ Settles(book[i], t)
         \/ Drops(book[i], t)
  PROVE  Target!Next
<1> DEFINE s == book[i]
<1>1. book'[i] = t /\ \A j \in Instruments : j # i => book'[j] = book[j]
  BY DEF TypeOK
<1>2. Positions' = [Positions EXCEPT ![i] = Booked(t)]
  <2>1. Positions' = [j \in Instruments |-> Booked(book'[j])]
    BY DEF Positions
  <2>2. Positions = [j \in Instruments |-> Positions[j]] /\ Positions' = [j \in Instruments |-> Positions'[j]]
    BY <2>1 DEF Positions
  <2>3. Positions'[i] = Booked(t) /\ \A j \in Instruments : j # i => Positions'[j] = Positions[j]
    BY <1>1, <2>1 DEF Positions
  <2>4. QED
    BY <2>2, <2>3, ChangedAt
<1>3. Goals' = [Goals EXCEPT ![i] = t.goal]
  <2>1. Goals' = [j \in Instruments |-> book'[j].goal]
    BY DEF Goals
  <2>2. Goals = [j \in Instruments |-> Goals[j]] /\ Goals' = [j \in Instruments |-> Goals'[j]]
    BY <2>1 DEF Goals
  <2>3. Goals'[i] = t.goal /\ \A j \in Instruments : j # i => Goals'[j] = Goals[j]
    BY <1>1, <2>1 DEF Goals
  <2>4. QED
    BY <2>2, <2>3, ChangedAt
<1>4. Workings' = [Workings EXCEPT ![i] = WorkingOf(t)]
  <2>1. Workings' = [j \in Instruments |-> WorkingOf(book'[j])]
    BY DEF Workings, WorkingOf, Sent, Booked
  <2>2. Workings = [j \in Instruments |-> Workings[j]] /\ Workings' = [j \in Instruments |-> Workings'[j]]
    BY <2>1 DEF Workings
  <2>3. Workings'[i] = WorkingOf(t) /\ \A j \in Instruments : j # i => Workings'[j] = Workings[j]
    BY <1>1, <2>1 DEF Workings
  <2>4. QED
    BY <2>2, <2>3, ChangedAt
<1>5. /\ Positions[i] = Booked(s) /\ Goals[i] = s.goal /\ Workings[i] = WorkingOf(s)
      /\ s.goal \in Int
  BY DEF Positions, Goals, Workings, TypeOK, BookType
<1>6. /\ Positions = [j \in Instruments |-> Positions[j]] /\ Goals = [j \in Instruments |-> Goals[j]]
      /\ Workings = [j \in Instruments |-> Workings[j]]
  BY DEF Positions, Goals, Workings
<1>7. Goals'[i] = t.goal /\ Positions'[i] = Booked(t) /\ Workings'[i] = WorkingOf(t)
  BY <1>2, <1>3, <1>4, <1>6
<1>8. CASE Decides(s, t)
  <2>1. Positions' = Positions /\ Workings' = Workings
    BY <1>2, <1>4, <1>5, <1>6, <1>8 DEF Decides
  <2>2. Target!Decide(i)
    BY <1>3, <1>7, <1>8, <2>1 DEF Target!Decide, Decides
  <2>3. QED
    BY <2>2 DEF Target!Next
<1>9. CASE Commits(s, t)
  <2>1. Positions' = Positions /\ Goals' = Goals
    BY <1>2, <1>3, <1>5, <1>6, <1>9 DEF Commits
  <2>2. Target!Leg(i) = NextStop(s)
    BY <1>5 DEF Target!Leg, NextStop, Reversing
  <2>3. Target!Commit(i)
    BY <1>4, <1>5, <1>9, <2>1, <2>2 DEF Target!Commit, Commits
  <2>4. QED
    BY <2>3 DEF Target!Next
<1>10. CASE Settles(s, t)
  <2>1. Goals' = Goals
    BY <1>3, <1>5, <1>6, <1>10 DEF Settles
  <2>2. Workings' = [Workings EXCEPT ![i] = IF Booked(t) = @ THEN None ELSE @]
    BY <1>4, <1>5, <1>10 DEF Settles
  <2>3. Target!Settle(i)
    BY <1>2, <1>5, <1>10, <2>1, <2>2 DEF Target!Settle, Settles
  <2>4. QED
    BY <2>3 DEF Target!Next
<1>11. CASE Drops(s, t)
  <2>1. Positions' = Positions /\ Goals' = Goals
    BY <1>2, <1>3, <1>5, <1>6, <1>11 DEF Drops
  <2>2. \A j \in Instruments : Workings'[j] \in {None, Workings[j]}
    BY <1>4, <1>5, <1>6, <1>11 DEF Drops
  <2>3. Workings' \in [Instruments -> {None} \cup {Workings[j] : j \in Instruments}]
    BY <1>4, <1>6, <2>2
  <2>4. Target!Drop
    BY <2>1, <2>2, <2>3 DEF Target!Drop
  <2>5. QED
    BY <2>4 DEF Target!Next
<1>12. QED
  BY <1>8, <1>9, <1>10, <1>11

(* The end of the run drops all orders at work at once.                    *)
LEMMA StopsFollow ==
  ASSUME SoundInv, OnStop
  PROVE  Target!Next
<1>1. ASSUME NEW j \in Instruments
      PROVE  book'[j] = Stopped(book[j]) /\ Drops(book[j], book'[j])
  <2> PICK t : t = Stopped(book[j])
    OBVIOUS
  <2>1. /\ Sound(book[j], capacity[j], clock, j \in served) /\ clock \in Nat
        /\ capacity[j] \in Nat
    BY DEF SoundInv, TypeOK
  <2>2. ASSUME NEW done \in BOOLEAN, Sound(book[j], capacity[j], clock, done)
        PROVE  Drops(book[j], t)
    BY <2>1, <2>2, StopFollows
  <2>3. Drops(book[j], t)
    <3>1. \E done \in BOOLEAN : Sound(book[j], capacity[j], clock, done)
      BY <2>1, EventFlag
    <3>2. QED
      BY <2>2, <3>1
  <2>4. book'[j] = t
    BY DEF OnStop
  <2>5. QED
    BY <2>3, <2>4
<1>2. Positions' = Positions /\ Goals' = Goals
  <2>1. /\ Positions' = [j \in Instruments |-> Booked(book'[j])]
        /\ Goals' = [j \in Instruments |-> book'[j].goal]
    BY DEF Positions, Goals
  <2>2. QED
    BY <1>1, <2>1 DEF Positions, Goals, Drops
<1>3. /\ Workings' = [j \in Instruments |-> Workings'[j]]
      /\ \A j \in Instruments : Workings'[j] \in {None, Workings[j]}
  BY <1>1 DEF Workings, Drops
<1>4. Workings' \in [Instruments -> {None} \cup {Workings[j] : j \in Instruments}]
  BY <1>3
<1>5. Target!Drop
  BY <1>2, <1>3, <1>4 DEF Target!Drop
<1>6. QED
  BY <1>5 DEF Target!Next

(* What holds of an instrument, whether its event of the instant is out    *)
(* or not.                                                                 *)
LEMMA EitherWay ==
  ASSUME SoundInv, NEW i \in Instruments
  PROVE  /\ \E done \in BOOLEAN : Sound(book[i], capacity[i], clock, done)
         /\ clock \in Nat /\ capacity[i] \in Nat /\ TypeOK
<1>1. Sound(book[i], capacity[i], clock, i \in served) /\ TypeOK
  BY DEF SoundInv
<1>2. QED
  BY <1>1, EventFlag DEF TypeOK

(* The market's steps of one instrument.                                   *)
LEMMA MarketFollows ==
  ASSUME SoundInv, NEW i \in Instruments, NEW price \in Prices,
         NEW ret \in Returns \cup {None}, Trade(i, price) \/ BarClose(i, ret, price)
  PROVE  Target!Next
<1>1. TypeOK
  BY DEF SoundInv
<1>2. /\ Sound(book[i], capacity[i], clock, FALSE) /\ capacity[i] \in Nat
      /\ clock \in Nat /\ ~book[i].error /\ book[i].inbox = <<>> /\ book[i] \in BookType
  BY BeforeEvent DEF Trade, BarClose
<1>3. CASE Trade(i, price)
  <2> PICK t : t = OnTrade(book[i], clock, price)
    OBVIOUS
  <2>1. book' = [book EXCEPT ![i] = t] /\ IsOpen(clock)
    BY <1>3 DEF Trade
  <2>2. Commits(book[i], t) \/ Drops(book[i], t)
    BY <1>2, <2>1, TradeFollows
  <2>3. QED
    BY <1>1, <2>1, <2>2, OneFollows
<1>4. CASE BarClose(i, ret, price)
  <2> PICK t : t = OnBar(book[i], clock, ret, price)
    OBVIOUS
  <2>1. book' = [book EXCEPT ![i] = t]
    BY <1>4 DEF BarClose
  <2>2. Decides(book[i], t)
    BY <1>2, BarFollows
  <2>3. QED
    BY <1>1, <2>1, <2>2, OneFollows
<1>5. QED
  BY <1>3, <1>4

(* The venue fills.                                                        *)
LEMMA FillsFollow ==
  ASSUME SoundInv, NEW i \in Instruments, NEW k \in DOMAIN book[i].orders, Fill(i, k)
  PROVE  Target!Next
<1> DEFINE o == book[i].orders[k]
<1>1. /\ \E done \in BOOLEAN : Sound(book[i], capacity[i], clock, done)
      /\ clock \in Nat /\ capacity[i] \in Nat /\ TypeOK
      /\ book[i].inbox = <<>> /\ Submitted(o)
  BY EitherWay DEF Fill, Ready
<1>2. Left(o) \in Int /\ Left(o) # 0
  <2> PICK done \in BOOLEAN : Sound(book[i], capacity[i], clock, done)
    BY <1>1
  <2>1. o \in OrderType /\ WorkingOK(book[i], capacity[i], o)
    BY <1>1, OrdersOfBook DEF Sound, OrdersOK
  <2>2. QED
    BY <2>1 DEF WorkingOK, OrderType, Left
<1>3. PICK q \in {Left(o)} \cup (IF venue = "prompt" \/ Abs(Left(o)) = 1 THEN {}
                                 ELSE {IF Left(o) > 0 THEN 1 ELSE -1}),
           cached \in BOOLEAN :
        book' = [book EXCEPT ![i] = Filled(@, k, q, cached, capacity[i])]
  BY DEF Fill, Left
<1>4. q \in Int /\ Toward(q, Left(o))
  BY <1>2, <1>3, FillQuantity
<1> PICK t : t = Filled(book[i], k, q, cached, capacity[i])
  OBVIOUS
<1>5. Settles(book[i], t)
  <2> PICK done \in BOOLEAN : Sound(book[i], capacity[i], clock, done)
    BY <1>1
  <2>1. clock \in Nat /\ capacity[i] \in Nat /\ book[i].inbox = <<>>
        /\ Submitted(book[i].orders[k])
    BY <1>1
  <2>2. QED
    BY <1>4, <2>1, FillFollows
<1>6. QED
  BY <1>1, <1>3, <1>5, OneFollows

(* The strategy is told, or its order is rejected.                         *)
LEMMA ReportsFollow ==
  ASSUME SoundInv, NEW i \in Instruments,
         Deliver(i) \/ \E k \in DOMAIN book[i].orders : Reject(i, k)
  PROVE  Target!Next
<1>1. /\ \E done \in BOOLEAN : Sound(book[i], capacity[i], clock, done)
      /\ clock \in Nat /\ capacity[i] \in Nat /\ TypeOK
  BY EitherWay
<1>2. CASE Deliver(i)
  <2> PICK t : t = Delivered(book[i])
    OBVIOUS
  <2>1. book' = [book EXCEPT ![i] = t] /\ book[i].inbox # <<>> /\ ~book[i].error
    BY <1>2 DEF Deliver
  <2>2. Commits(book[i], t) \/ Drops(book[i], t)
    BY <1>1, <2>1, DeliverFollows
  <2>3. QED
    BY <1>1, <2>1, <2>2, OneFollows
<1>3. ASSUME NEW k \in DOMAIN book[i].orders, Reject(i, k)
      PROVE  Target!Next
  <2> PICK t : t = Rejected(book[i], k)
    OBVIOUS
  <2>1. book' = [book EXCEPT ![i] = t] /\ Submitted(book[i].orders[k])
    BY <1>3 DEF Reject, Rejected
  <2>2. Drops(book[i], t)
    BY <1>1, <2>1, RejectFollows
  <2>3. QED
    BY <1>1, <2>1, <2>2, OneFollows
<1>4. QED
  BY <1>2, <1>3

(* Every step is a step of the promise, or leaves it alone.                *)
LEMMA TargetNext ==
  SoundInv /\ [Next]_vars => [Target!Next]_<<Positions, Goals, Workings>>
<1> SUFFICES ASSUME SoundInv, [Next]_vars
             PROVE  Target!Next \/ UNCHANGED <<Positions, Goals, Workings>>
  OBVIOUS
<1>1. ASSUME NEW i \in Instruments, NEW price \in Prices, Trade(i, price)
      PROVE  Target!Next
  BY <1>1, MarketFollows
<1>2. ASSUME NEW i \in Instruments, NEW price \in Prices, NEW ret \in Returns \cup {None},
             BarClose(i, ret, price)
      PROVE  Target!Next
  BY <1>2, MarketFollows
<1>3. CASE Settle
  BY <1>3, FillsFollow, ReportsFollow DEF Settle
<1>4. CASE OnStop
  BY <1>4, StopsFollow
<1>5. CASE UNCHANGED book
  <2>1. Positions' = [j \in Instruments |-> Booked(book'[j])]
    BY DEF Positions
  <2>2. Goals' = [j \in Instruments |-> book'[j].goal]
    BY DEF Goals
  <2>3. Workings' = [j \in Instruments |-> WorkingOf(book'[j])]
    BY DEF Workings
  <2>4. QED
    BY <1>5, <2>1, <2>2, <2>3 DEF Positions, Goals, Workings
<1>6. CASE NextInstant \/ CollectReports \/ StrategyError \/ UNCHANGED vars
  BY <1>5, <1>6 DEF NextInstant, CollectReports, StrategyError, vars
<1>7. QED
  BY <1>1, <1>2, <1>3, <1>4, <1>6 DEF Next

(* A new backtest promises flat.                                           *)
LEMMA TargetInit == Init => Target!Init
<1> SUFFICES ASSUME Init PROVE Target!Init
  OBVIOUS
<1>1. \A i \in Instruments : book[i] = Idle
  BY DEF Init
<1>2. Booked(Idle) = 0 /\ Idle.goal = 0 /\ Sent(Idle) = {}
  BY DEF Idle, Booked, Sent
<1>3. WorkingOf(Idle) = None
  BY <1>2 DEF WorkingOf
<1>4. QED
  BY <1>1, <1>2, <1>3 DEF Target!Init, Positions, Goals, Workings

(* The execution state machine follows the targets decided: whatever the   *)
(* venue does, the position moves only by the order at work, one at a      *)
(* time, each a single leg toward the latest target or to flat on the way. *)
THEOREM TargetFollowed == Spec => FollowsTarget
<1>1. Init => Target!Init
  BY TargetInit
<1>2. SoundInv /\ [Next]_vars => [Target!Next]_<<Positions, Goals, Workings>>
  BY TargetNext
<1>3. QED
  BY <1>1, <1>2, AlwaysSound, PTL DEF Spec, FollowsTarget, Target!Spec

-----------------------------------------------------------------------------
(* In the engine the runner uses. *)

PromptOrders(s, ts) ==
  \A k \in DOMAIN s.orders :
    /\ s.orders[k].status \in {"submitted", "filled"} /\ s.orders[k].onTime
    /\ Submitted(s.orders[k]) =>
         s.orders[k].expected = ts /\ IsOpen(ts) /\ s.orders[k].filled = 0

(* A reversal lasts no longer than its closing leg takes to be reported.   *)
PromptReversal(s, ts) ==
  s.reversal # None /\ ~s.error =>
    /\ s.reversal.phase = "closing" /\ IsOpen(ts) /\ s.reversal.latest.ts < ts
    /\ Submitted(LastOrder(s)) \/ s.inbox # <<>>

(* The leg the target needs next, too small to be an order at some price.  *)
NextLeg(s) == IF Reversing(Booked(s), s.goal) THEN Booked(s) ELSE s.goal - Booked(s)
TooSmall(s) == \E price \in Prices : ~MeetsMinimumOrder(Abs(NextLeg(s)), price)

(* The position is on target, or the order at work takes it there.         *)
OnTarget(s) ==
  \/ \E k \in DOMAIN s.orders :
       Submitted(s.orders[k]) /\ Booked(s) + Left(s.orders[k]) = s.goal
  \/ ~UnsettledOrders(s) /\ (Booked(s) = s.goal \/ TooSmall(s))

Heading(s, ts, done) ==
  \/ s.error \/ s.reversal # None \/ s.pending # None
  \/ OnTarget(s) \/ WindowOver(ts, done)

Prompt(s, ts, done) ==
  ~s.missed /\ PromptOrders(s, ts) /\ PromptReversal(s, ts) /\ Heading(s, ts, done)

(* Nothing is under way. *)
Quiet(s) == s.inbox = <<>> /\ s.reversal = None /\ ~UnsettledOrders(s) /\ ~s.error

(* A settled state has no reversal under way.                              *)
LEMMA SettledIsQuiet ==
  ASSUME NEW s, NEW size, NEW ts, NEW done, Sound(s, size, ts, done), PromptReversal(s, ts),
         s.inbox = <<>>, ~UnsettledOrders(s), ~s.error
  PROVE  Quiet(s)
<1>1. CASE s.reversal # None
  <2>1. Submitted(LastOrder(s))
    BY <1>1 DEF PromptReversal
  <2>2. Len(s.orders) \in DOMAIN s.orders
    BY <1>1, OrdersOfBook DEF Sound, ReversalOK
  <2>3. QED
    BY <2>1, <2>2 DEF UnsettledOrders, LastOrder
<1>2. QED
  BY <1>1 DEF Quiet

(* What the orders of settled states are.                                  *)
LEMMA QuietOrders ==
  ASSUME NEW s, NEW ts, NEW later, Quiet(s), PromptOrders(s, ts)
  PROVE  PromptOrders(s, later)
BY DEF Quiet, PromptOrders, UnsettledOrders

(* A new order for this open is prompt.                                    *)
LEMMA AppendedPrompt ==
  ASSUME NEW s \in BookType, NEW ts, PromptOrders(s, ts), IsOpen(ts), ~UnsettledOrders(s),
         NEW o \in OrderType, Submitted(o), o.filled = 0, o.onTime, o.expected = ts,
         NEW t \in BookType, t.orders = Append(s.orders, o)
  PROVE  PromptOrders(t, ts) /\ LastOrder(t) = o /\ Len(t.orders) \in DOMAIN t.orders
<1>1. s.orders \in Seq(OrderType) /\ Len(s.orders) \in Nat
  BY OrdersOfBook DEF BookType
<1>2. /\ Len(t.orders) = Len(s.orders) + 1 /\ t.orders[Len(t.orders)] = o
      /\ DOMAIN t.orders = 1..(Len(s.orders) + 1) /\ DOMAIN s.orders = 1..Len(s.orders)
      /\ \A k \in 1..Len(s.orders) : t.orders[k] = s.orders[k]
  BY <1>1
<1>3. \A k \in DOMAIN t.orders : k \in DOMAIN s.orders \/ k = Len(t.orders)
  BY <1>1, <1>2
<1>4. QED
  BY <1>1, <1>2, <1>3 DEF PromptOrders, LastOrder, Submitted

(* The minimum is met by no smaller order.                                 *)
LEMMA SmallerFails ==
  ASSUME NEW p \in Nat, NEW q \in Nat, p <= q, NEW price \in Prices,
         ~MeetsMinimumOrder(q, price)
  PROVE  ~MeetsMinimumOrder(p, price)
<1>1. price \in Nat /\ MinQuantity \in Nat /\ MinNotional \in Nat
  BY MomentumAssumption
<1>2. p * price <= q * price
  <2>1. (q - p) * price >= 0
    BY <1>1
  <2>2. (q - p) * price = q * price - p * price
    BY <1>1
  <2>3. p * price \in Nat /\ q * price \in Nat
    BY <1>1
  <2>4. QED
    BY <2>1, <2>2, <2>3
<1>3. p * price \in Nat /\ q * price \in Nat
  BY <1>1
<1>4. QED
  BY <1>1, <1>2, <1>3 DEF MeetsMinimumOrder

(* The open of a bar sends the whole next leg, at once, or it is too       *)
(* small.                                                                  *)
LEMMA PromptExecute ==
  ASSUME NEW s, NEW size \in Nat, NEW ts \in Nat, NEW price \in Prices,
         Sound(s, size, ts, FALSE), Prompt(s, ts, FALSE), Quiet(s), IsOpen(ts),
         s.pending # None, NEW t, t = ExecutePending(s, ts, price)
  PROVE  Prompt(t, ts, TRUE)
<1> DEFINE d == s.pending
           p == [s EXCEPT !.pending = None]
<1>1. s \in BookType /\ InboxOK(s) /\ PendingOK(s, ts, FALSE) /\ Booked(s) = s.position
      /\ s.position \in Int /\ s.goal \in Int /\ s.reversal = None
  BY BookedOf DEF Sound, Quiet, BookType
<1>2. d \in DecisionType /\ d.target = s.goal /\ d.ts = ts - 1 /\ InWindow(d.ts) /\ d.ts \in Nat
  BY <1>1 DEF PendingOK, BookType, DecisionType
<1>3. ts = NextBarOpen(d.ts) /\ InWindow(ts)
  BY <1>1, <1>2, MomentumAssumption DEF PendingOK, NextBarOpen, InWindow
<1>4. Sound(t, size, ts, TRUE)
  BY <1>3, ExecuteKeepsSound DEF Quiet
<1>5. t \in BookType
  BY <1>4 DEF Sound
<1> PICK qty : qty = LegQuantity(s, s.goal)
  OBVIOUS
<1>6. qty \in Int /\ Abs(qty) = Abs(NextLeg(s))
      /\ (qty = 0 => Booked(s) = s.goal)
      /\ (Reversing(s.position, s.goal) \/ s.position + qty = s.goal)
  BY <1>1 DEF LegQuantity, NextLeg, Abs, Reversing
<1>7. /\ t.inbox = s.inbox /\ t.position = s.position /\ t.goal = s.goal /\ ~t.missed
      /\ ~t.error /\ Booked(t) = Booked(s)
  <2>1. t.inbox = s.inbox /\ t.position = s.position /\ t.goal = s.goal /\ ~t.missed /\ ~t.error
    BY <1>1, <1>2, <1>3
       DEF ExecutePending, Submit, BookType, Quiet, FreeToOrder, Prompt
  <2>2. QED
    BY <2>1 DEF Booked
<1>8. CASE qty = 0 \/ ~MeetsMinimumOrder(Abs(qty), price)
  <2>1. t = p
    BY <1>1, <1>2, <1>3, <1>8 DEF ExecutePending, Quiet, FreeToOrder
  <2>2. t.orders = s.orders /\ t.reversal = None
    BY <1>1, <2>1 DEF BookType
  <2>3. ~UnsettledOrders(t)
    BY <2>2 DEF Quiet, UnsettledOrders
  <2>4. Booked(t) = t.goal \/ TooSmall(t)
    BY <1>6, <1>7, <1>8 DEF TooSmall, NextLeg
  <2>5. QED
    BY <1>7, <2>2, <2>3, <2>4, ZenonT(60) DEF Prompt, PromptOrders, PromptReversal, Heading, OnTarget
<1>9. CASE qty # 0 /\ MeetsMinimumOrder(Abs(qty), price)
  <2> PICK leg \in {"direct", "reversal_close"} :
        /\ t.orders = Append(s.orders, NewOrder(leg, qty, d, ts))
        /\ leg = "direct" <=> ~Reversing(s.position, s.goal)
        /\ leg = "direct" => t.reversal = None
        /\ leg = "reversal_close" => t.reversal.phase = "closing" /\ t.reversal.latest = d
                                     /\ t.reversal # None
    <3>1. CASE ~Reversing(s.position, s.goal)
      <4>1. t = Submit(p, "direct", qty, d, ts)
        BY <1>1, <1>2, <1>3, <1>9, <3>1 DEF ExecutePending, Quiet, FreeToOrder
      <4>2. t.orders = Append(s.orders, NewOrder("direct", qty, d, ts)) /\ t.reversal = None
        BY <1>1, <4>1 DEF Submit, NewOrder, BookType
      <4>3. QED
        BY <3>1, <4>2
    <3>2. CASE Reversing(s.position, s.goal)
      <4>1. t = [Submit(p, "reversal_close", qty, d, ts) EXCEPT !.reversal =
                  [phase |-> "closing", latest |-> d, price |-> price,
                   closeOrder |-> Len(s.orders) + 1]]
        BY <1>1, <1>2, <1>3, <1>9, <3>2 DEF ExecutePending, Quiet, FreeToOrder
      <4>2. /\ t.orders = Append(s.orders, NewOrder("reversal_close", qty, d, ts))
            /\ t.reversal = [phase |-> "closing", latest |-> d, price |-> price,
                             closeOrder |-> Len(s.orders) + 1]
        BY <1>1, <4>1 DEF Submit, NewOrder, BookType
      <4>3. t.reversal \in ReversalType
        BY <1>1, <1>2, <4>2, OrdersOfBook DEF ReversalType
      <4>4. QED
        BY <3>2, <4>2, <4>3, NoneAssumption
    <3>3. QED
      BY <3>1, <3>2
  <2> PICK o : o = NewOrder(leg, qty, d, ts)
    OBVIOUS
  <2>1. /\ o \in OrderType /\ Submitted(o) /\ o.filled = 0 /\ o.onTime /\ o.expected = ts
        /\ Left(o) = qty
    BY <1>2, <1>6, NewOrderIs
  <2>2. PromptOrders(t, ts) /\ LastOrder(t) = o /\ Len(t.orders) \in DOMAIN t.orders
    BY <1>1, <1>5, <2>1, AppendedPrompt DEF Prompt, Quiet
  <2>3. PromptReversal(t, ts)
    BY <1>2, <2>1, <2>2 DEF PromptReversal
  <2>4. Heading(t, ts, TRUE)
    <3>1. CASE leg = "direct"
      <4>1. Booked(t) + Left(o) = t.goal
        BY <1>1, <1>6, <1>7, <2>1, <3>1
      <4>2. QED
        BY <2>1, <2>2, <4>1 DEF Heading, OnTarget, LastOrder
    <3>2. CASE leg = "reversal_close"
      BY <3>2 DEF Heading
    <3>3. QED
      BY <3>1, <3>2
  <2>5. QED
    BY <1>7, <2>2, <2>3, <2>4 DEF Prompt
<1>10. QED
  BY <1>8, <1>9

(* The open of a bar.                                                      *)
LEMMA PromptTrade ==
  ASSUME NEW s, NEW size \in Nat, NEW ts \in Nat, NEW price \in Prices,
         Sound(s, size, ts, FALSE), Prompt(s, ts, FALSE), Quiet(s), IsOpen(ts),
         NEW t, t = OnTrade(s, ts, price)
  PROVE  Prompt(t, ts, TRUE)
<1>1. CASE t = s /\ s.pending = None
  <2>1. Heading(s, ts, TRUE)
    BY Parity DEF Prompt, Heading, WindowOver
  <2>2. QED
    BY <1>1, <2>1 DEF Prompt
<1>2. CASE s.pending = None
  BY <1>1, <1>2 DEF OnTrade, AdvanceConfirmedReversal, ExecutePending, Quiet
<1>3. CASE s.pending # None
  <2>1. InWindow(ts)
    BY <1>3, MomentumAssumption
       DEF Sound, PendingOK, InWindow, NextBarOpen, BookType, DecisionType
  <2>2. t = ExecutePending(s, ts, price)
    BY <2>1 DEF OnTrade, AdvanceConfirmedReversal, Quiet
  <2>3. QED
    BY <1>3, <2>2, PromptExecute
<1>4. QED
  BY <1>2, <1>3

(* The close of a bar, as the decision d of the same target.               *)
LEMMA PromptDecision ==
  ASSUME NEW s, NEW size \in Nat, NEW ts \in Nat, NEW close \in Prices, NEW d \in DecisionType,
         Sound(s, size, ts, FALSE), Prompt(s, ts, FALSE), Quiet(s), ~IsOpen(ts),
         InWindow(ts), d.ts = ts, NEW t, t = QueueDecision(s, d, close)
  PROVE  Prompt(t, ts, TRUE)
<1>1. s \in BookType /\ s.reversal = None /\ s.pending = None /\ s.inbox = <<>>
      /\ s.position \in Int /\ Booked(s) = s.position /\ d.target \in Int
  BY BookedOf DEF Sound, PendingOK, Quiet, BookType, DecisionType
<1>2. /\ t.position = s.position /\ t.inbox = s.inbox /\ t.orders = s.orders
      /\ t.goal = d.target /\ t.error = s.error /\ t.missed = s.missed
  BY <1>1, DecisionLeaves
<1>3. Booked(t) = s.position /\ ~UnsettledOrders(t)
  BY <1>1, <1>2 DEF Booked, Quiet, UnsettledOrders
<1>4. NextBarOpen(d.ts) >= EvaluationEnd <=> ~(NextBarOpen(d.ts) < EvaluationEnd)
  BY MomentumAssumption DEF NextBarOpen, DecisionType
<1>5. t.reversal = None
  BY <1>1, <1>4 DEF QueueDecision, BookType
<1>6. Heading(t, ts, TRUE)
  <2> DEFINE delta == Abs(d.target - s.position)
  <2>1. CASE NextBarOpen(d.ts) >= EvaluationEnd
    <3>1. WindowOver(ts, TRUE)
      BY <2>1, MomentumAssumption DEF WindowOver, InWindow, NextBarOpen
    <3>2. QED
      BY <3>1 DEF Heading
  <2>2. CASE NextBarOpen(d.ts) < EvaluationEnd /\ delta # 0 /\ MeetsMinimumOrder(delta, close)
    <3>1. t.pending = d
      BY <1>1, <1>4, <2>2 DEF QueueDecision, BookType
    <3>2. QED
      BY <3>1, NoneAssumption DEF Heading
  <2>3. CASE delta = 0
    <3>1. Booked(t) = t.goal
      BY <1>1, <1>2, <1>3, <2>3 DEF Abs
    <3>2. QED
      BY <1>3, <3>1 DEF Heading, OnTarget
  <2>4. CASE ~MeetsMinimumOrder(delta, close)
    <3>1. Abs(NextLeg(t)) \in Nat /\ delta \in Nat /\ Abs(NextLeg(t)) <= delta
      BY <1>1, <1>2, <1>3, SideOfProduct DEF NextLeg, Abs, SameSide
    <3> HIDE DEF delta
    <3>2. ~MeetsMinimumOrder(Abs(NextLeg(t)), close)
      BY <2>4, <3>1, SmallerFails
    <3>3. QED
      BY <1>3, <3>2 DEF Heading, OnTarget, TooSmall
  <2>5. QED
    BY <1>4, <2>1, <2>2, <2>3, <2>4
<1>7. QED
  BY <1>2, <1>5, <1>6 DEF Prompt, PromptOrders, PromptReversal

(* An error excuses the strategy from its target.                          *)
LEMMA PromptError ==
  ASSUME NEW s \in BookType, NEW ts, NEW done, Prompt(s, ts, done),
         NEW t, t = [s EXCEPT !.error = TRUE], NEW now
  PROVE  Prompt(t, ts, now)
<1>1. t.error /\ t.orders = s.orders /\ t.missed = s.missed
  BY DEF BookType
<1>2. QED
  BY <1>1 DEF Prompt, PromptOrders, PromptReversal, Heading

(* The close of a bar.                                                     *)
LEMMA PromptBar ==
  ASSUME NEW s, NEW size \in Nat, NEW ts \in Nat, NEW close \in Prices,
         NEW ret \in Returns \cup {None},
         Sound(s, size, ts, FALSE), Prompt(s, ts, FALSE), Quiet(s), ~IsOpen(ts),
         NEW t, t = OnBar(s, ts, ret, close)
  PROVE  Prompt(t, ts, TRUE)
<1> PICK d : d = [ts |-> ts, target |-> TargetQuantity(MomentumSignal(ret), close)]
  OBVIOUS
<1>1. s \in BookType /\ d \in DecisionType /\ d.ts = ts
  BY TargetFits DEF Sound, DecisionType
<1>2. CASE ~InWindow(ts)
  <2>1. t = s
    BY <1>2 DEF OnBar
  <2>2. Heading(s, ts, TRUE)
    BY MomentumAssumption DEF Prompt, Heading, WindowOver
  <2>3. QED
    BY <2>1, <2>2 DEF Prompt
<1>3. CASE t = [s EXCEPT !.error = TRUE]
  BY <1>1, <1>3, PromptError
<1>4. CASE InWindow(ts) /\ t = QueueDecision(s, d, close)
  BY <1>1, <1>4, PromptDecision
<1>5. QED
  BY <1>2, <1>3, <1>4 DEF OnBar

(* The next instant.                                                       *)
LEMMA PromptNextInstant ==
  ASSUME NEW s, NEW ts \in Nat, Prompt(s, ts, TRUE), Quiet(s)
  PROVE  Prompt(s, ts + 1, FALSE)
<1>1. WindowOver(ts, TRUE) => WindowOver(ts + 1, FALSE)
  BY MomentumAssumption DEF WindowOver
<1>2. QED
  BY <1>1, QuietOrders DEF Prompt, Quiet, PromptReversal, Heading

(* A fill of all that is left reaches the order's target on its own tick.  *)
LEMMA PromptFill ==
  ASSUME NEW s, NEW size \in Nat, NEW done \in BOOLEAN, clock \in Nat,
         Sound(s, size, clock, done), Prompt(s, clock, done), s.inbox = <<>>,
         NEW k \in DOMAIN s.orders, Submitted(s.orders[k]), NEW cached \in BOOLEAN,
         NEW t, t = Filled(s, k, Left(s.orders[k]), cached, size)
  PROVE  Prompt(t, clock, done) /\ ~UnsettledOrders(t)
<1> PICK q : q = Left(s.orders[k])
  OBVIOUS
<1> PICK o : o = s.orders[k]
  OBVIOUS
<1> PICK p : p = FilledOrder(o, q, size)
  OBVIOUS
<1>1. /\ s \in BookType /\ InboxOK(s) /\ OneWorking(s) /\ o \in OrderType
      /\ WorkingOK(s, size, o)
  BY OrdersOfBook DEF Sound, OrdersOK
<1>2. q \in Int /\ q # 0 /\ Within(o.qty, size) /\ o.qty \in Int /\ Toward(q, Left(o))
  BY <1>1 DEF OrderType, Left, WorkingOK, Toward
<1>3. FillOutcome(s, t, k, q, cached, size)
  BY <1>1, <1>2, FillDoes
<1>4. Replaced(s, t, k, p) /\ t.inbox # <<>>
  BY <1>3 DEF FillOutcome
<1>5. Booked(t) = Booked(s) + q
  BY <1>2, FillKeepsSound
<1>6. p.status = "filled" /\ p.onTime
  <2>1. p.status = "filled"
    BY <1>1 DEF FilledOrder, OrderType, Left
  <2>2. clock = o.expected /\ o.onTime
    BY DEF Prompt, PromptOrders
  <2>3. Abs(o.qty) <= size
    BY <1>2 DEF Within, Abs
  <2>4. QED
    BY <1>1, <2>1, <2>2, <2>3 DEF FilledOrder, OrderType
<1>7. PromptOrders(t, clock) /\ ~UnsettledOrders(t)
  <2>1. \A j \in DOMAIN s.orders : j # k => ~Submitted(s.orders[j])
    BY <1>1 DEF OneWorking
  <2>2. QED
    BY <1>4, <1>6, <2>1
       DEF Prompt, PromptOrders, UnsettledOrders, Replaced, Submitted
<1>8. PromptReversal(t, clock)
  BY <1>4 DEF Prompt, PromptReversal, Replaced
<1>9. Heading(t, clock, done)
  <2>1. CASE OnTarget(s)
    <3>1. \A j \in DOMAIN s.orders : Submitted(s.orders[j]) => j = k
      BY <1>1 DEF OneWorking
    <3>2. Booked(s) + q = s.goal
      BY <2>1, <3>1 DEF OnTarget, UnsettledOrders
    <3>3. QED
      BY <1>4, <1>5, <1>7, <3>2 DEF Heading, OnTarget, Replaced
  <2>2. CASE ~OnTarget(s)
    BY <1>4, <2>2 DEF Prompt, Heading, Replaced
  <2>3. QED
    BY <2>1, <2>2
<1>10. QED
  BY <1>4, <1>7, <1>8, <1>9 DEF Prompt, Replaced

(* The opening leg goes out in the same instant, whole, unless it is too   *)
(* small (an error) or the window is over.                                 *)
LEMMA PromptOpen ==
  ASSUME NEW s, NEW size \in Nat, NEW ts \in Nat, NEW done \in BOOLEAN, NEW price,
         Sound(s, size, ts, done), PromptOrders(s, ts), ~s.missed, ~s.error,
         s.reversal # None, s.reversal.phase = "flat_confirmed",
         IsOpen(ts), s.reversal.latest.ts < ts, ~UnsettledOrders(s), s.position = 0,
         Booked(s) = 0, NEW t, t = SubmitReversalOpen(s, ts, price)
  PROVE  Prompt(t, ts, done)
<1> DEFINE d == s.reversal.latest
<1>1. s \in BookType /\ s.reversal \in ReversalType /\ d \in DecisionType
      /\ d.target = s.goal /\ d.target \in Int /\ InWindow(d.ts) /\ d.ts \in Nat
  BY DEF Sound, ReversalOK, BookType, ReversalType, DecisionType
<1>2. t.goal = s.goal /\ t.position = s.position /\ t.inbox = s.inbox /\ t.missed = s.missed
  BY <1>1, OpenLeaves
<1>3. Booked(t) = 0
  BY <1>2 DEF Booked
<1>4. Sound(t, size, ts, done)
  BY OpenKeepsSound
<1>5. t \in BookType
  BY <1>4 DEF Sound
<1>6. ~(ts <= d.ts)
  BY <1>1
<1>7. CASE ~OpensInWindow(d) \/ d.target = 0
  <2>1. t = EndReversal(s)
    BY <1>6, <1>7 DEF SubmitReversalOpen
  <2>2. t.orders = s.orders /\ t.reversal = None
    BY <1>1, <2>1 DEF EndReversal, BookType
  <2>3. ~UnsettledOrders(t)
    BY <2>2 DEF UnsettledOrders
  <2>4. Heading(t, ts, done)
    <3>1. CASE d.target = 0
      BY <1>1, <1>2, <1>3, <2>3, <3>1 DEF Heading, OnTarget
    <3>2. CASE ~OpensInWindow(d)
      <4>1. WindowOver(ts, done)
        BY <1>1, <3>2, MomentumAssumption DEF OpensInWindow, NextBarOpen, WindowOver
      <4>2. QED
        BY <4>1 DEF Heading
    <3>3. QED
      BY <1>7, <3>1, <3>2
  <2>5. QED
    BY <1>2, <2>2, <2>4 DEF Prompt, PromptOrders, PromptReversal
<1>8. CASE /\ OpensInWindow(d) /\ d.target # 0
           /\ ~MeetsMinimumOrder(Abs(d.target), price)
  <2>1. t = [s EXCEPT !.error = TRUE]
    BY <1>6, <1>8 DEF SubmitReversalOpen
  <2>2. t.orders = s.orders /\ t.error
    BY <1>1, <2>1 DEF BookType
  <2>3. QED
    BY <1>2, <2>2 DEF Prompt, PromptOrders, PromptReversal, Heading
<1>9. CASE /\ OpensInWindow(d) /\ d.target # 0
           /\ MeetsMinimumOrder(Abs(d.target), price)
  <2> PICK o : o = NewOrder("reversal_open", d.target, d, ts)
    OBVIOUS
  <2>1. t = EndReversal(Submit(s, "reversal_open", d.target, d, ts))
    BY <1>6, <1>9 DEF SubmitReversalOpen
  <2>2. t.orders = Append(s.orders, o) /\ t.reversal = None
    BY <1>1, <2>1 DEF EndReversal, Submit, NewOrder, BookType
  <2>3. /\ o \in OrderType /\ Submitted(o) /\ o.filled = 0 /\ o.onTime /\ o.expected = ts
        /\ Left(o) = d.target
    BY <1>1, NewOrderIs
  <2>4. PromptOrders(t, ts) /\ LastOrder(t) = o /\ Len(t.orders) \in DOMAIN t.orders
    BY <1>1, <1>5, <2>2, <2>3, AppendedPrompt
  <2>5. Booked(t) + Left(o) = t.goal
    BY <1>1, <1>2, <1>3, <2>3
  <2>6. Heading(t, ts, done)
    BY <2>3, <2>4, <2>5 DEF Heading, OnTarget, LastOrder
  <2>7. QED
    BY <1>2, <2>2, <2>4, <2>6 DEF Prompt, PromptReversal
<1>10. QED
  BY <1>7, <1>8, <1>9

(* An event delivered: the last one of a closing leg confirms the book is  *)
(* flat.                                                                   *)
LEMMA PromptDeliver ==
  ASSUME NEW s, NEW size \in Nat, NEW done \in BOOLEAN, clock \in Nat,
         Sound(s, size, clock, done), Prompt(s, clock, done), s.inbox # <<>>, ~s.error,
         NEW t, t = Delivered(s)
  PROVE  Prompt(t, clock, done)
<1> PICK u : u = Observed(s)
  OBVIOUS
<1>1. t = ObserveReversalConfirmation(u, clock)
  BY DEF Delivered, Observed
<1>2. /\ Sound(u, size, clock, done) /\ Booked(u) = Booked(s) /\ u.error = s.error
      /\ u.orders = s.orders /\ u.goal = s.goal /\ u.pending = s.pending
      /\ u.reversal = s.reversal /\ u.missed = s.missed
  BY ObservedKeepsSound
<1>3. u \in BookType /\ InboxOK(u) /\ ReversalOK(u, clock, done)
  BY <1>2 DEF Sound
<1>4. PromptOrders(u, clock) /\ (~UnsettledOrders(u) <=> ~UnsettledOrders(s))
  BY <1>2 DEF Prompt, PromptOrders, UnsettledOrders
<1>5. Heading(u, clock, done)
  <2>1. OnTarget(s) => OnTarget(u)
    <3>1. NextLeg(u) = NextLeg(s)
      BY <1>2 DEF NextLeg
    <3>2. QED
      BY <1>2, <1>4, <3>1 DEF OnTarget, TooSmall
  <2>2. QED
    BY <1>2, <2>1 DEF Prompt, Heading
<1>6. CASE u.reversal = None
  BY <1>1, <1>2, <1>4, <1>5, <1>6
     DEF ObserveReversalConfirmation, Closing, Prompt, PromptReversal
<1>7. CASE u.reversal # None
  <2>1. /\ u.reversal.phase = "closing" /\ IsOpen(clock) /\ u.reversal.latest.ts < clock
        /\ Closing(u)
    BY <1>2, <1>7 DEF Prompt, PromptReversal, Closing
  <2>2. /\ Len(u.orders) \in DOMAIN u.orders /\ u.reversal.closeOrder = Len(u.orders)
        /\ \A j \in DOMAIN u.orders : j # Len(u.orders) => ~Submitted(u.orders[j])
        /\ LastOrder(u).status = "filled" => Booked(u) = 0
    BY <1>3, <1>7, OrdersOfBook DEF ReversalOK
  <2>3. CASE ~FlatConfirmed(u)
    <3>1. Submitted(LastOrder(u)) \/ u.inbox # <<>>
      <4> SUFFICES ASSUME ~Submitted(LastOrder(u)), u.inbox = <<>> PROVE FALSE
        OBVIOUS
      <4>1. LastOrder(u).status = "filled"
        BY <1>4, <2>2 DEF PromptOrders, LastOrder, Submitted
      <4>2. u.position = 0
        BY <1>3, <2>2, <4>1, BookedOf
      <4>3. ~UnsettledOrders(u)
        BY <2>2 DEF UnsettledOrders, LastOrder
      <4>4. QED
        BY <2>2, <2>3, <4>1, <4>2, <4>3 DEF FlatConfirmed, LastOrder
    <3>2. t = u
      BY <1>1, <2>3 DEF ObserveReversalConfirmation
    <3>3. QED
      BY <1>2, <1>4, <1>5, <2>1, <3>1, <3>2 DEF Prompt, PromptReversal
  <2>4. CASE FlatConfirmed(u)
    <3> PICK w : w = Confirmed(u)
      OBVIOUS
    <3>1. /\ Sound(w, size, clock, done) /\ w.reversal # None /\ w.error = u.error
          /\ w.reversal.phase = "flat_confirmed" /\ w.position = u.position
          /\ w.reversal.latest = u.reversal.latest
          /\ w.orders = u.orders /\ w.inbox = u.inbox /\ w.missed = u.missed
      BY <1>2, <2>1, <2>4, ConfirmKeepsSound
    <3>2. t = SubmitReversalOpen(w, clock, u.reversal.price)
      BY <1>1, <2>1, <2>4 DEF ObserveReversalConfirmation, Confirmed
    <3>3. ~UnsettledOrders(w) /\ w.position = 0
      BY <2>4, <3>1 DEF FlatConfirmed, UnsettledOrders
    <3>4. Booked(w) = 0
      <4>1. LastOrder(u).status = "filled"
        BY <2>2, <2>4 DEF FlatConfirmed, LastOrder
      <4>2. Booked(w) = Booked(u)
        BY <3>1 DEF Booked
      <4>3. QED
        BY <2>2, <4>1, <4>2
    <3>5. PromptOrders(w, clock) /\ ~w.missed /\ ~w.error
      BY <1>2, <1>4, <3>1 DEF Prompt, PromptOrders
    <3>6. IsOpen(clock) /\ w.reversal.latest.ts < clock
      BY <2>1, <3>1
    <3>7. QED
      BY <3>1, <3>2, <3>3, <3>4, <3>5, <3>6, PromptOpen
  <2>5. QED
    BY <2>3, <2>4
<1>8. QED
  BY <1>6, <1>7

-----------------------------------------------------------------------------
(* The runner's engine, step by step. *)

PromptBooks ==
  /\ \A i \in Instruments : Prompt(book[i], clock, i \in served)
  /\ clock > LastTs => \A i \in Instruments : Quiet(book[i])
  /\ outcome = "failed" => \E i \in Instruments : book[i].error

PromptInv ==
  /\ SoundInv
  /\ outcome \in {"stopped", "accepted"} => clock > LastTs
  /\ venue = "prompt" => PromptBooks

(* The event of an instant that has been delivered, or not.                *)
LEMMA PromptFlag ==
  ASSUME NEW i, NEW s, NEW size, NEW ts, Sound(s, size, ts, i \in served),
         Prompt(s, ts, i \in served), NEW t,
         \A done \in BOOLEAN :
           Sound(s, size, ts, done) /\ Prompt(s, ts, done) => Prompt(t, ts, done)
  PROVE  Prompt(t, ts, i \in served)
<1>1. CASE i \in served
  <2>1. (i \in served) = TRUE
    BY <1>1
  <2>2. QED
    BY <2>1
<1>2. CASE i \notin served
  <2>1. (i \in served) = FALSE
    BY <1>2
  <2>2. QED
    BY <2>1
<1>3. QED
  BY <1>1, <1>2

(* The market speaks only when every instrument is quiet.                  *)
LEMMA MarketQuiet ==
  ASSUME PromptInv, venue = "prompt", MarketReady, NEW i \in Instruments
  PROVE  Quiet(book[i])
<1>1. Sound(book[i], capacity[i], clock, i \in served) /\ PromptReversal(book[i], clock)
  BY DEF PromptInv, PromptBooks, SoundInv, Prompt
<1>2. book[i].inbox = <<>> /\ ~UnsettledOrders(book[i]) /\ ~book[i].error
  BY DEF MarketReady, Ready
<1>3. QED
  BY <1>1, <1>2, SettledIsQuiet

(* A step of one instrument before the data ends.                          *)
LEMMA PromptOneBook ==
  ASSUME PromptInv, SoundInv', venue = "prompt", clock <= LastTs, outcome = "running",
         NEW i \in Instruments, NEW t, book' = [book EXCEPT ![i] = t],
         UNCHANGED <<venue, clock, outcome>>, served' \in {served, served \cup {i}},
         Prompt(t, clock, i \in served')
  PROVE  PromptInv'
<1>1. TypeOK /\ clock \in Nat /\ LastTs \in Nat
  BY MomentumAssumption DEF PromptInv, SoundInv, TypeOK
<1>2. book'[i] = t /\ \A j \in Instruments : j # i => book'[j] = book[j]
  BY <1>1 DEF TypeOK
<1>3. ASSUME NEW j \in Instruments PROVE Prompt(book'[j], clock', j \in served')
  <2>1. CASE j = i
    BY <1>2, <2>1
  <2>2. CASE j # i
    <3>1. Prompt(book[j], clock, j \in served)
      BY DEF PromptInv, PromptBooks
    <3>2. (j \in served') <=> (j \in served)
      BY <2>2
    <3>3. CASE j \in served
      BY <1>2, <2>2, <3>1, <3>2, <3>3
    <3>4. CASE j \notin served
      BY <1>2, <2>2, <3>1, <3>2, <3>4
    <3>5. QED
      BY <3>3, <3>4
  <2>3. QED
    BY <2>1, <2>2
<1>4. ~(clock' > LastTs) /\ outcome' = "running"
  BY <1>1
<1>5. QED
  BY <1>3, <1>4 DEF PromptInv, PromptBooks

(* What is known of a prompt instrument whose event is not out.            *)
LEMMA PromptBefore ==
  ASSUME PromptInv, venue = "prompt", MarketReady, NEW i \in Instruments, i \notin served
  PROVE  /\ Sound(book[i], capacity[i], clock, FALSE) /\ Prompt(book[i], clock, FALSE)
         /\ Quiet(book[i]) /\ capacity[i] \in Nat /\ clock \in Nat
<1>1. (i \in served) = FALSE /\ Prompt(book[i], clock, i \in served) /\ SoundInv
  BY DEF PromptInv, PromptBooks
<1>2. Prompt(book[i], clock, FALSE)
  BY <1>1
<1>3. Quiet(book[i])
  BY MarketQuiet
<1>4. QED
  BY <1>1, <1>2, <1>3, BeforeEvent

(* The open of a bar.                                                      *)
LEMMA PromptTradeStep ==
  ASSUME PromptInv, venue = "prompt", NEW i \in Instruments, NEW price \in Prices,
         Trade(i, price)
  PROVE  PromptInv'
<1> PICK t : t = OnTrade(book[i], clock, price)
  OBVIOUS
<1>1. /\ MarketReady /\ IsOpen(clock) /\ i \notin served /\ clock <= LastTs
      /\ outcome = "running" /\ book' = [book EXCEPT ![i] = t] /\ served' = served \cup {i}
      /\ UNCHANGED <<venue, clock, outcome>>
  BY DEF Trade, MarketReady, Ready
<1>2. Prompt(t, clock, TRUE)
  <2>1. /\ Sound(book[i], capacity[i], clock, FALSE) /\ Prompt(book[i], clock, FALSE)
        /\ Quiet(book[i]) /\ capacity[i] \in Nat /\ clock \in Nat
    BY <1>1, PromptBefore
  <2>2. QED
    BY <1>1, <2>1, PromptTrade
<1>3. (i \in served') = TRUE
  BY <1>1
<1>4. Prompt(t, clock, i \in served')
  BY <1>2, <1>3
<1>5. SoundInv'
  BY TradeStep DEF PromptInv
<1>6. QED
  BY <1>1, <1>4, <1>5, PromptOneBook

(* The close of a bar.                                                     *)
LEMMA PromptBarStep ==
  ASSUME PromptInv, venue = "prompt", NEW i \in Instruments, NEW close \in Prices,
         NEW ret \in Returns \cup {None}, BarClose(i, ret, close)
  PROVE  PromptInv'
<1> PICK t : t = OnBar(book[i], clock, ret, close)
  OBVIOUS
<1>1. /\ MarketReady /\ ~IsOpen(clock) /\ i \notin served /\ clock <= LastTs
      /\ outcome = "running" /\ book' = [book EXCEPT ![i] = t] /\ served' = served \cup {i}
      /\ UNCHANGED <<venue, clock, outcome>>
  BY DEF BarClose, MarketReady, Ready
<1>2. Prompt(t, clock, TRUE)
  <2>1. /\ Sound(book[i], capacity[i], clock, FALSE) /\ Prompt(book[i], clock, FALSE)
        /\ Quiet(book[i]) /\ capacity[i] \in Nat /\ clock \in Nat
    BY <1>1, PromptBefore
  <2>2. QED
    BY <1>1, <2>1, PromptBar
<1>3. (i \in served') = TRUE
  BY <1>1
<1>4. Prompt(t, clock, i \in served')
  BY <1>2, <1>3
<1>5. SoundInv'
  BY BarStep DEF PromptInv
<1>6. QED
  BY <1>1, <1>4, <1>5, PromptOneBook

(* The venue fills all that is left.                                       *)
LEMMA PromptFillStep ==
  ASSUME PromptInv, venue = "prompt", NEW i \in Instruments,
         NEW k \in DOMAIN book[i].orders, Fill(i, k)
  PROVE  PromptInv'
<1> PICK q : q = Left(book[i].orders[k])
  OBVIOUS
<1>1. /\ Sound(book[i], capacity[i], clock, i \in served) /\ clock \in Nat
      /\ Prompt(book[i], clock, i \in served) /\ capacity[i] \in Nat
      /\ book[i].inbox = <<>> /\ Submitted(book[i].orders[k])
      /\ clock <= LastTs /\ outcome = "running"
  BY DEF PromptInv, PromptBooks, SoundInv, TypeOK, Fill, Ready
<1>2. PICK cached \in BOOLEAN :
        book' = [book EXCEPT ![i] = Filled(@, k, q, cached, capacity[i])]
  BY DEF Fill, Left
<1> PICK t : t = Filled(book[i], k, q, cached, capacity[i])
  OBVIOUS
<1>3. ASSUME NEW done \in BOOLEAN, Sound(book[i], capacity[i], clock, done),
             Prompt(book[i], clock, done)
      PROVE  Prompt(t, clock, done)
  <2>1. clock \in Nat /\ capacity[i] \in Nat /\ book[i].inbox = <<>>
        /\ Submitted(book[i].orders[k])
    BY <1>1
  <2>2. QED
    BY <1>3, <2>1, PromptFill
<1>4. Prompt(t, clock, i \in served)
  BY <1>1, <1>3, PromptFlag
<1>5. SoundInv'
  BY FillStep DEF PromptInv
<1>6. /\ book' = [book EXCEPT ![i] = t] /\ served' = served
      /\ UNCHANGED <<venue, clock, outcome>>
  BY <1>2 DEF Fill
<1>7. QED
  BY <1>1, <1>4, <1>5, <1>6, PromptOneBook

(* An event reaches the strategy.                                          *)
LEMMA PromptDeliverStep ==
  ASSUME PromptInv, venue = "prompt", NEW i \in Instruments, Deliver(i)
  PROVE  PromptInv'
<1> PICK t : t = Delivered(book[i])
  OBVIOUS
<1>1. /\ Sound(book[i], capacity[i], clock, i \in served) /\ clock \in Nat
      /\ Prompt(book[i], clock, i \in served) /\ capacity[i] \in Nat
      /\ book[i].inbox # <<>> /\ ~book[i].error /\ outcome = "running"
  BY DEF PromptInv, PromptBooks, SoundInv, TypeOK, Deliver
<1>2. clock <= LastTs
  BY <1>1, MomentumAssumption DEF PromptInv, PromptBooks, Quiet
<1>3. ASSUME NEW done \in BOOLEAN, Sound(book[i], capacity[i], clock, done),
             Prompt(book[i], clock, done)
      PROVE  Prompt(t, clock, done)
  <2>1. clock \in Nat /\ capacity[i] \in Nat /\ book[i].inbox # <<>> /\ ~book[i].error
    BY <1>1
  <2>2. QED
    BY <1>3, <2>1, PromptDeliver
<1>4. Prompt(t, clock, i \in served)
  BY <1>1, <1>3, PromptFlag
<1>5. SoundInv'
  BY DeliverStep DEF PromptInv
<1>6. /\ book' = [book EXCEPT ![i] = t] /\ served' = served
      /\ UNCHANGED <<venue, clock, outcome>>
  BY DEF Deliver
<1>7. QED
  BY <1>1, <1>2, <1>4, <1>5, <1>6, PromptOneBook

(* The next instant.                                                       *)
LEMMA PromptInstantStep ==
  ASSUME PromptInv, venue = "prompt", NextInstant
  PROVE  PromptInv'
<1>1. /\ MarketReady /\ served = Instruments /\ clock' = clock + 1 /\ served' = {}
      /\ UNCHANGED <<venue, book, outcome>> /\ outcome = "running"
  BY DEF NextInstant, MarketReady, Ready
<1>2. SoundInv' /\ clock \in Nat
  BY InstantStep DEF PromptInv, SoundInv, TypeOK
<1>3. ASSUME NEW j \in Instruments
      PROVE  Prompt(book'[j], clock', j \in served') /\ Quiet(book'[j])
  <2>1. (j \in served) = TRUE /\ (j \in served') = FALSE
    BY <1>1
  <2>2. Prompt(book[j], clock, j \in served)
    BY DEF PromptInv, PromptBooks
  <2>3. Quiet(book[j])
    BY <1>1, MarketQuiet
  <2>4. Prompt(book[j], clock + 1, FALSE)
    BY <1>2, <2>1, <2>2, <2>3, PromptNextInstant
  <2>5. Prompt(book'[j], clock', FALSE)
    BY <1>1, <2>4
  <2>6. QED
    BY <1>1, <2>1, <2>3, <2>5
<1>4. QED
  BY <1>1, <1>2, <1>3 DEF PromptInv, PromptBooks

(* The audit finds nothing in a quiet book.                                *)
LEMMA AuditPasses ==
  ASSUME NEW s, NEW size \in Nat, NEW ts \in Nat, NEW done, Sound(s, size, ts, done),
         Prompt(s, ts, done), Quiet(s)
  PROVE  RequireExecutionContract(s) /\ s.reversal = None
<1>1. \A k \in DOMAIN s.orders : ~Submitted(s.orders[k])
  BY DEF Quiet, UnsettledOrders
<1>2. QED
  BY <1>1
     DEF RequireExecutionContract, Quiet, Prompt, PromptOrders, Sound, OrdersOK, DatesOK,
         Submitted

(* The end of the run and its audit.                                       *)
LEMMA PromptRunnerStep ==
  ASSUME PromptInv, OnStop \/ CollectReports \/ StrategyError \/ UNCHANGED vars
  PROVE  PromptInv'
<1>1. SoundInv'
  BY SoundNext DEF PromptInv, Next
<1>2. CASE OnStop
  <2>1. ASSUME venue = "prompt", NEW j \in Instruments PROVE book'[j] = book[j]
    <3>1. Sound(book[j], capacity[j], clock, j \in served) /\ clock \in Nat /\ capacity[j] \in Nat
      BY DEF PromptInv, SoundInv, TypeOK
    <3>2. \E done \in BOOLEAN : Sound(book[j], capacity[j], clock, done)
      BY <3>1, EventFlag
    <3>3. ~UnsettledOrders(book[j])
      BY <1>2, <2>1 DEF PromptInv, PromptBooks, Quiet, OnStop
    <3> PICK t : t = Stopped(book[j])
      OBVIOUS
    <3>4. t = book[j]
      BY <3>1, <3>2, <3>3, StopKeepsSound
    <3>5. QED
      BY <1>2, <3>4 DEF OnStop
  <2>2. UNCHANGED <<venue, clock, served>> /\ outcome' = "stopped" /\ clock > LastTs
    BY <1>2 DEF OnStop
  <2>3. ASSUME venue = "prompt" PROVE PromptBooks'
    BY <2>1, <2>2, <2>3 DEF PromptInv, PromptBooks
  <2>4. QED
    BY <1>1, <2>2, <2>3 DEF PromptInv
<1>3. CASE CollectReports
  <2>1. /\ UNCHANGED <<venue, clock, served, book>> /\ clock > LastTs
        /\ outcome' \in {"accepted", "failed"}
    BY <1>3 DEF CollectReports, PromptInv
  <2>2. ASSUME venue = "prompt" PROVE outcome' = "accepted"
    <3>1. ASSUME NEW j \in Instruments
          PROVE  RequireExecutionContract(book[j]) /\ book[j].reversal = None
      <4>1. /\ Sound(book[j], capacity[j], clock, j \in served) /\ clock \in Nat
            /\ Prompt(book[j], clock, j \in served) /\ capacity[j] \in Nat /\ Quiet(book[j])
        BY <2>1, <2>2 DEF PromptInv, PromptBooks, SoundInv, TypeOK
      <4>2. QED
        BY <4>1, AuditPasses
    <3>2. QED
      BY <1>3, <3>1 DEF CollectReports
  <2>3. QED
    BY <1>1, <2>1, <2>2 DEF PromptInv, PromptBooks
<1>4. CASE StrategyError
  BY <1>1, <1>4 DEF StrategyError, PromptInv, PromptBooks
<1>5. CASE UNCHANGED vars
  BY <1>1, <1>5 DEF vars, PromptInv, PromptBooks
<1>6. QED
  BY <1>2, <1>3, <1>4, <1>5

(* Other venues promise less.                                              *)
LEMMA PromptOtherVenue ==
  ASSUME PromptInv, [Next]_vars, venue # "prompt"
  PROVE  PromptInv'
<1>1. SoundInv' /\ venue' = venue
  BY SoundNext
     DEF PromptInv, Next, Trade, BarClose, NextInstant, Settle, Deliver, Fill, Reject,
         OnStop, CollectReports, StrategyError, vars
<1>2. outcome' \in {"stopped", "accepted"} => clock' > LastTs
  <2>1. CASE \/ \E i \in Instruments, price \in Prices :
                  \/ Trade(i, price)
                  \/ \E ret \in Returns \cup {None} : BarClose(i, ret, price)
             \/ NextInstant \/ Settle
    BY <2>1 DEF Trade, BarClose, NextInstant, Settle, Deliver, Fill, Reject,
                MarketReady, Ready
  <2>2. CASE OnStop \/ CollectReports \/ StrategyError \/ UNCHANGED vars
    BY <2>2 DEF OnStop, CollectReports, StrategyError, vars, PromptInv
  <2>3. QED
    BY <2>1, <2>2 DEF Next
<1>3. QED
  BY <1>1, <1>2 DEF PromptInv

(* Every step.                                                             *)
LEMMA PromptNext == PromptInv /\ [Next]_vars => PromptInv'
<1> SUFFICES ASSUME PromptInv, [Next]_vars, venue = "prompt" PROVE PromptInv'
  BY PromptOtherVenue
<1>1. ASSUME NEW i \in Instruments, NEW price \in Prices, Trade(i, price)
      PROVE  PromptInv'
  BY <1>1, PromptTradeStep
<1>2. ASSUME NEW i \in Instruments, NEW price \in Prices, NEW ret \in Returns \cup {None},
             BarClose(i, ret, price)
      PROVE  PromptInv'
  BY <1>2, PromptBarStep
<1>3. CASE NextInstant
  BY <1>3, PromptInstantStep
<1>4. CASE Settle
  <2>1. ASSUME NEW i \in Instruments, Deliver(i) PROVE PromptInv'
    BY <2>1, PromptDeliverStep
  <2>2. ASSUME NEW i \in Instruments, NEW k \in DOMAIN book[i].orders, Fill(i, k)
        PROVE  PromptInv'
    BY <2>2, PromptFillStep
  <2>3. ASSUME NEW i \in Instruments, NEW k \in DOMAIN book[i].orders, Reject(i, k)
        PROVE  PromptInv'
    BY <2>3 DEF Reject
  <2>4. QED
    BY <1>4, <2>1, <2>2, <2>3 DEF Settle
<1>5. CASE OnStop \/ CollectReports \/ StrategyError \/ UNCHANGED vars
  BY <1>5, PromptRunnerStep
<1>6. QED
  BY <1>1, <1>2, <1>3, <1>4, <1>5 DEF Next

(* The first state.                                                        *)
LEMMA PromptInit == Init => PromptInv
<1> SUFFICES ASSUME Init PROVE PromptInv
  OBVIOUS
<1>1. /\ DOMAIN Idle.orders = {} /\ Idle.inbox = <<>> /\ Idle.goal = 0 /\ Idle.position = 0
      /\ ~Idle.missed /\ ~Idle.error /\ Idle.reversal = None
  BY DEF Idle
<1>2. Booked(Idle) = 0 /\ ~UnsettledOrders(Idle)
  BY <1>1 DEF Booked, UnsettledOrders
<1>3. Prompt(Idle, 0, FALSE) /\ Quiet(Idle)
  BY <1>1, <1>2
     DEF Prompt, PromptOrders, PromptReversal, Heading, OnTarget, Quiet
<1>4. ASSUME NEW j \in Instruments
      PROVE  Prompt(book[j], clock, j \in served) /\ Quiet(book[j])
  <2>1. (j \in served) = FALSE /\ book[j] = Idle /\ clock = 0
    BY DEF Init
  <2>2. QED
    BY <1>3, <2>1
<1>5. QED
  BY <1>4, SoundInit DEF PromptInv, PromptBooks, Init

(* Every reachable state.                                                  *)
LEMMA AlwaysPrompt == Spec => []PromptInv
BY PromptInit, PromptNext, PTL DEF Spec

(* On target between opens.                                                *)
LEMMA PromptTracks == PromptInv => TracksTarget
<1> SUFFICES ASSUME PromptInv, venue = "prompt", Ready, ~IsOpen(clock), InWindow(clock),
                    NEW i \in Instruments, i \notin served,
                    NEW s, s = book[i], NEW leg,
                    leg = (IF Reversing(s.position, s.goal) THEN s.position
                           ELSE s.goal - s.position),
                    \A price \in Prices : MeetsMinimumOrder(Abs(leg), price)
             PROVE  s.position = s.goal
  BY DEF TracksTarget
<1>1. /\ Sound(s, capacity[i], clock, i \in served) /\ Prompt(s, clock, i \in served)
      /\ (i \in served) = FALSE /\ s.inbox = <<>> /\ ~s.error /\ clock \in Nat
  BY DEF PromptInv, PromptBooks, SoundInv, Ready, TypeOK
<1>2. Sound(s, capacity[i], clock, FALSE) /\ Prompt(s, clock, FALSE)
  BY <1>1
<1>3. s \in BookType /\ Booked(s) = s.position
  BY <1>1, <1>2, BookedOf DEF Sound
<1>4. s.reversal = None /\ s.pending = None /\ ~UnsettledOrders(s) /\ ~WindowOver(clock, FALSE)
  BY <1>1, <1>2, MomentumAssumption
     DEF Prompt, PromptReversal, PromptOrders, Sound, PendingOK, UnsettledOrders, WindowOver,
         InWindow
<1>5. Booked(s) = s.goal \/ TooSmall(s)
  <2>1. OnTarget(s)
    BY <1>1, <1>2, <1>4 DEF Prompt, Heading
  <2>2. QED
    BY <1>4, <2>1 DEF OnTarget, UnsettledOrders
<1>6. NextLeg(s) = leg
  BY <1>3 DEF NextLeg
<1>7. QED
  BY <1>3, <1>5, <1>6 DEF TooSmall

(* In the engine the runner uses, the audit after the run never fails: a   *)
(* run that is not accepted is one whose strategy raised.                  *)
THEOREM AuditOfPromptRun == Spec => []PromptRunAccepted
<1>1. PromptInv => PromptRunAccepted
  BY DEF PromptInv, PromptBooks, PromptRunAccepted
<1>2. QED
  BY <1>1, AlwaysPrompt, PTL

(* In the same engine the position has reached the last target when the    *)
(* next bar closes, unless the leg it needs is too small for an order at   *)
(* some price.                                                             *)
THEOREM TargetReached == Spec => []TracksTarget
BY PromptTracks, AlwaysPrompt, PTL

-----------------------------------------------------------------------------
(* The replay beside the backtest. *)

(* Where settling all that is under way leaves an instrument: the order at *)
(* work filled and every event delivered, then the opening leg as well.    *)
FinOrder(o) == IF Submitted(o) THEN [o EXCEPT !.filled = o.qty, !.status = "filled"] ELSE o
FinOrders(s) == [k \in DOMAIN s.orders |-> FinOrder(s.orders[k])]
Aim(s) == IF Sent(s) = {} THEN Booked(s) ELSE WorkingOf(s)
Fin(s) == [s EXCEPT !.orders = FinOrders(s), !.position = Aim(s), !.inbox = <<>>]
Completed(s, ts) == Fin(ObserveReversalConfirmation(Fin(s), ts))

(* A strategy that raised waits for no closing leg.                        *)
Stuck(s) == s.error => ~Closing(s)

(* Nothing is left to finish of a settled record. *)
LEMMA FinOfSettled ==
  ASSUME NEW s \in BookType, ~UnsettledOrders(s)
  PROVE  Fin(s) = [s EXCEPT !.position = Booked(s), !.inbox = <<>>]
<1>1. s.orders \in Seq(OrderType) /\ DOMAIN s.orders = 1..Len(s.orders) /\ Len(s.orders) \in Nat
  BY OrdersOfBook DEF BookType
<1>2. FinOrders(s) = [k \in DOMAIN s.orders |-> s.orders[k]]
  BY DEF FinOrders, FinOrder, UnsettledOrders
<1>3. FinOrders(s) = s.orders
  BY <1>1, <1>2
<1>4. Aim(s) = Booked(s)
  BY NothingSent DEF Aim
<1>5. QED
  BY <1>3, <1>4 DEF Fin, BookType

(* What finishing leaves. *)
LEMMA FinFields ==
  ASSUME NEW s \in BookType, InboxOK(s), OneWorking(s), NEW f, f = Fin(s)
  PROVE  /\ f \in BookType /\ ~UnsettledOrders(f) /\ f.inbox = <<>> /\ Booked(f) = f.position
         /\ f.position = Aim(s) /\ f.orders = FinOrders(s)
         /\ f.pending = s.pending /\ f.reversal = s.reversal
         /\ f.goal = s.goal /\ f.error = s.error /\ f.missed = s.missed
         /\ DOMAIN f.orders = DOMAIN s.orders
<1>1. s.orders \in Seq(OrderType) /\ DOMAIN s.orders = 1..Len(s.orders) /\ Len(s.orders) \in Nat
  BY OrdersOfBook DEF BookType
<1>2. \A k \in DOMAIN s.orders : FinOrder(s.orders[k]) \in OrderType
                                 /\ ~Submitted(FinOrder(s.orders[k]))
  BY OrdersOfBook, ZenonT(60) DEF FinOrder, OrderType, Submitted
<1>3. FinOrders(s) \in Seq(OrderType) /\ DOMAIN FinOrders(s) = DOMAIN s.orders
      /\ \A k \in DOMAIN s.orders : ~Submitted(FinOrders(s)[k])
  BY <1>1, <1>2 DEF FinOrders
<1>4. Aim(s) \in Int
  <2>1. CASE Sent(s) = {}
    BY <2>1, BookedOf DEF Aim
  <2>2. CASE Sent(s) # {}
    BY <2>2, WorkingIs DEF Aim, Sent
  <2>3. QED
    BY <2>1, <2>2
<1>5. <<>> \in Seq([apply : Int])
  OBVIOUS
<1>6. /\ f.orders = FinOrders(s) /\ f.position = Aim(s) /\ f.inbox = <<>>
      /\ f.pending = s.pending /\ f.reversal = s.reversal
      /\ f.goal = s.goal /\ f.error = s.error /\ f.missed = s.missed
  BY DEF Fin, BookType
<1>7. f \in BookType
  BY <1>3, <1>4, <1>5 DEF Fin, BookType
<1>8. ~UnsettledOrders(f)
  BY <1>3, <1>6 DEF UnsettledOrders
<1>9. Booked(f) = f.position
  BY <1>4, <1>6 DEF Booked
<1>10. QED
  BY <1>3, <1>6, <1>7, <1>8, <1>9

(* Finishing twice is finishing once.                                      *)
LEMMA FinAgain ==
  ASSUME NEW s \in BookType, InboxOK(s), OneWorking(s)
  PROVE  Fin(Fin(s)) = Fin(s)
<1> PICK f : f = Fin(s)
  OBVIOUS
<1>1. f \in BookType /\ ~UnsettledOrders(f) /\ f.inbox = <<>> /\ Booked(f) = f.position
  BY FinFields
<1>2. Fin(f) = [f EXCEPT !.position = f.position, !.inbox = f.inbox]
  BY <1>1, FinOfSettled
<1>3. QED
  BY <1>1, <1>2 DEF BookType

Nearer(s, t) == Fin(t) = Fin(s) /\ t.error = s.error

(* A fill of all that is left is on the way there.                         *)
LEMMA FillOnTheWay ==
  ASSUME NEW s, NEW size \in Nat, NEW done \in BOOLEAN, clock \in Nat,
         Sound(s, size, clock, done), Prompt(s, clock, done), s.inbox = <<>>,
         NEW k \in DOMAIN s.orders, Submitted(s.orders[k]), NEW cached \in BOOLEAN,
         NEW t, t = Filled(s, k, Left(s.orders[k]), cached, size)
  PROVE  Nearer(s, t)
<1> PICK q : q = Left(s.orders[k])
  OBVIOUS
<1> PICK o : o = s.orders[k]
  OBVIOUS
<1> PICK p : p = FilledOrder(o, q, size)
  OBVIOUS
<1>1. /\ s \in BookType /\ InboxOK(s) /\ OneWorking(s) /\ o \in OrderType
      /\ WorkingOK(s, size, o)
  BY OrdersOfBook DEF Sound, OrdersOK
<1>2. q \in Int /\ q # 0 /\ Within(o.qty, size) /\ o.qty \in Int /\ Toward(q, Left(o))
  BY <1>1 DEF OrderType, Left, WorkingOK, Toward
<1>3. FillOutcome(s, t, k, q, cached, size)
  BY <1>1, <1>2, FillDoes
<1>4. Replaced(s, t, k, p)
  BY <1>3 DEF FillOutcome
<1>5. Booked(t) = Booked(s) + q /\ Sound(t, size, clock, done)
  BY <1>2, FillKeepsSound
<1>6. ~UnsettledOrders(t) /\ t \in BookType
  BY <1>5, PromptFill DEF Sound
<1>7. p = FinOrder(o)
  <2>1. clock = o.expected /\ o.onTime /\ o.filled = 0
    BY DEF Prompt, PromptOrders
  <2>2. Abs(o.qty) <= size
    BY <1>2 DEF Within, Abs
  <2>3. q = o.qty /\ q = o.qty - o.filled
    BY <1>2, <2>1 DEF Left
  <2>4. p = [o EXCEPT !.filled = 0 + o.qty, !.status = "filled", !.onTime = TRUE]
    BY <1>1, <2>1, <2>2, <2>3 DEF FilledOrder, OrderType
  <2>5. FinOrder(o) = [o EXCEPT !.filled = o.qty, !.status = "filled"]
    BY DEF FinOrder
  <2>6. o.onTime = TRUE /\ 0 + o.qty = o.qty
    BY <1>1, <1>2, <2>1 DEF OrderType
  <2>7. [o EXCEPT !.filled = o.qty, !.status = "filled", !.onTime = TRUE]
          = [o EXCEPT !.filled = o.qty, !.status = "filled"]
    BY <1>1, <2>6 DEF OrderType
  <2>8. QED
    BY <2>4, <2>5, <2>6, <2>7
<1>8. t.orders = FinOrders(s)
  <2>1. /\ t.orders \in Seq(OrderType) /\ DOMAIN t.orders = 1..Len(t.orders)
        /\ DOMAIN t.orders = DOMAIN s.orders
    BY <1>4, <1>6, OrdersOfBook DEF BookType, Replaced
  <2>2. \A j \in DOMAIN s.orders : t.orders[j] = FinOrder(s.orders[j])
    BY <1>1, <1>4, <1>7 DEF Replaced, OneWorking, FinOrder
  <2>3. t.orders = [j \in DOMAIN t.orders |-> t.orders[j]]
    BY <2>1
  <2>4. QED
    BY <2>1, <2>2, <2>3 DEF FinOrders
<1>9. Aim(s) = Booked(t)
  <2>1. WorkingOf(s) = Booked(s) + q
    BY <1>1, WorkingIs
  <2>2. QED
    BY <1>5, <2>1 DEF Aim, Sent
<1>10. Fin(t) = [t EXCEPT !.position = Booked(t), !.inbox = <<>>]
  BY <1>6, FinOfSettled
<1>11. /\ t.pending = s.pending /\ t.reversal = s.reversal /\ t.goal = s.goal
       /\ t.error = s.error /\ t.missed = s.missed
  BY <1>4 DEF Replaced
<1>12. Fin(t) = Fin(s)
  BY <1>1, <1>6, <1>8, <1>9, <1>10, <1>11, ZenonT(60) DEF Fin, BookType
<1>13. QED
  BY <1>11, <1>12 DEF Nearer

(* So is an event on its own.                                              *)
LEMMA EventOnTheWay ==
  ASSUME NEW s, NEW size \in Nat, NEW ts \in Nat, NEW done \in BOOLEAN,
         Sound(s, size, ts, done), s.inbox # <<>>, NEW u, u = Observed(s)
  PROVE  Fin(u) = Fin(s)
<1>1. /\ Sound(u, size, ts, done) /\ Booked(u) = Booked(s) /\ u.orders = s.orders
      /\ u.pending = s.pending /\ u.reversal = s.reversal
      /\ u.goal = s.goal /\ u.error = s.error /\ u.missed = s.missed
  BY ObservedKeepsSound
<1>2. u \in BookType /\ s \in BookType
  BY <1>1 DEF Sound
<1>3. FinOrders(u) = FinOrders(s) /\ Aim(u) = Aim(s)
  BY <1>1, WorkingOfFields DEF FinOrders, Aim, Sent
<1>4. QED
  BY <1>1, <1>2, <1>3, ZenonT(60) DEF Fin, BookType

Drained(s) == [s EXCEPT !.inbox = <<>>]

(* An error leaves the inbox as it is. *)
LEMMA ErrorDrained ==
  ASSUME NEW s \in BookType
  PROVE  [Drained(s) EXCEPT !.error = TRUE] = Drained([s EXCEPT !.error = TRUE])
BY DEF Drained, BookType

(* The opening leg does not look at the inbox.                             *)
LEMMA OpenIgnoresInbox ==
  ASSUME NEW s \in BookType, NEW ts, NEW price, s.reversal # None
  PROVE  SubmitReversalOpen(Drained(s), ts, price) = Drained(SubmitReversalOpen(s, ts, price))
<1> PICK x : x = Drained(s)
  OBVIOUS
<1>1. /\ x.position = s.position /\ x.orders = s.orders /\ x.reversal = s.reversal
      /\ x = [s EXCEPT !.inbox = <<>>]
  BY DEF Drained, BookType
<1>2. UnsettledOrders(x) <=> UnsettledOrders(s)
  BY <1>1 DEF UnsettledOrders
<1> PICK d : d = s.reversal.latest
  OBVIOUS
<1>3. CASE ~OpensInWindow(d) \/ (~(ts <= d.ts \/ UnsettledOrders(s) \/ s.position # 0) /\ d.target = 0)
  <2>1. SubmitReversalOpen(x, ts, price) = EndReversal(x)
    BY <1>1, <1>2, <1>3 DEF SubmitReversalOpen
  <2>2. SubmitReversalOpen(s, ts, price) = EndReversal(s)
    BY <1>3 DEF SubmitReversalOpen
  <2>3. EndReversal(x) = Drained(EndReversal(s))
    BY <1>1 DEF EndReversal, Drained, BookType
  <2>4. QED
    BY <2>1, <2>2, <2>3
<1>4. CASE OpensInWindow(d) /\ (ts <= d.ts \/ UnsettledOrders(s) \/ s.position # 0)
  <2>1. SubmitReversalOpen(x, ts, price) = x
    BY <1>1, <1>2, <1>4 DEF SubmitReversalOpen
  <2>2. SubmitReversalOpen(s, ts, price) = s
    BY <1>4 DEF SubmitReversalOpen
  <2>3. QED
    BY <2>1, <2>2
<1>5. CASE /\ OpensInWindow(d) /\ ~(ts <= d.ts \/ UnsettledOrders(s) \/ s.position # 0)
           /\ d.target # 0 /\ ~MeetsMinimumOrder(Abs(d.target), price)
  <2>1. SubmitReversalOpen(x, ts, price) = [x EXCEPT !.error = TRUE]
    BY <1>1, <1>2, <1>5 DEF SubmitReversalOpen
  <2>2. SubmitReversalOpen(s, ts, price) = [s EXCEPT !.error = TRUE]
    BY <1>5 DEF SubmitReversalOpen
  <2>3. [Drained(s) EXCEPT !.error = TRUE] = Drained([s EXCEPT !.error = TRUE])
    BY ErrorDrained
  <2>4. QED
    BY <2>1, <2>2, <2>3
<1>6. CASE /\ OpensInWindow(d) /\ ~(ts <= d.ts \/ UnsettledOrders(s) \/ s.position # 0)
           /\ d.target # 0 /\ MeetsMinimumOrder(Abs(d.target), price)
  <2>1. SubmitReversalOpen(x, ts, price) = EndReversal(Submit(x, "reversal_open", d.target, d, ts))
    BY <1>1, <1>2, <1>6 DEF SubmitReversalOpen
  <2>2. SubmitReversalOpen(s, ts, price) = EndReversal(Submit(s, "reversal_open", d.target, d, ts))
    BY <1>6 DEF SubmitReversalOpen
  <2>3. EndReversal(Submit(x, "reversal_open", d.target, d, ts))
          = Drained(EndReversal(Submit(s, "reversal_open", d.target, d, ts)))
    BY <1>1 DEF EndReversal, Submit, Drained, BookType
  <2>4. QED
    BY <2>1, <2>2, <2>3
<1>7. QED
  BY <1>3, <1>4, <1>5, <1>6

(* After the opening leg a confirmed reversal is over or has raised.       *)
LEMMA OpenEnds ==
  ASSUME NEW s \in BookType, NEW ts, NEW price, s.reversal # None,
         s.reversal.phase = "flat_confirmed", NEW t, t = SubmitReversalOpen(s, ts, price)
  PROVE  ~Closing(t)
BY DEF SubmitReversalOpen, EndReversal, Submit, BookType, Closing

(* So is an event that sends the opening leg.                              *)
LEMMA DeliverOnTheWay ==
  ASSUME NEW s, NEW size \in Nat, NEW done \in BOOLEAN, clock \in Nat,
         Sound(s, size, clock, done), Prompt(s, clock, done), s.inbox # <<>>, ~s.error,
         NEW t, t = Delivered(s)
  PROVE  Completed(t, clock) = Completed(s, clock) /\ Stuck(t)
<1> PICK u : u = Observed(s)
  OBVIOUS
<1>1. t = ObserveReversalConfirmation(u, clock)
  BY DEF Delivered, Observed
<1>2. /\ Sound(u, size, clock, done) /\ Booked(u) = Booked(s) /\ u.error = s.error
      /\ u.orders = s.orders /\ u.reversal = s.reversal
  BY ObservedKeepsSound
<1>3. u \in BookType /\ InboxOK(u) /\ ReversalOK(u, clock, done) /\ OneWorking(u)
  BY <1>2 DEF Sound
<1>4. Fin(u) = Fin(s)
  BY EventOnTheWay
<1>5. CASE ~(Closing(u) /\ FlatConfirmed(u))
  <2>1. t = u
    BY <1>1, <1>5 DEF ObserveReversalConfirmation
  <2>2. QED
    BY <1>2, <1>4, <2>1 DEF Completed, Stuck
<1>6. CASE Closing(u) /\ FlatConfirmed(u)
  <2> PICK w : w = Confirmed(u)
    OBVIOUS
  <2> PICK f : f = Fin(u)
    OBVIOUS
  <2> PICK price : price = u.reversal.price
    OBVIOUS
  <2>1. /\ Sound(w, size, clock, done) /\ w.reversal # None /\ w.error = u.error
        /\ w.reversal.phase = "flat_confirmed" /\ w.position = u.position
        /\ w.orders = u.orders /\ w.inbox = u.inbox
    BY <1>2, <1>6, ConfirmKeepsSound
  <2>2. w \in BookType
    BY <2>1 DEF Sound
  <2>3. t = SubmitReversalOpen(w, clock, price)
    BY <1>1, <1>6 DEF ObserveReversalConfirmation, Confirmed
  <2>4. ~UnsettledOrders(u) /\ u.position = 0 /\ Booked(u) = 0
    <3>1. LastOrder(u).status = "filled"
      BY <1>3, <1>6 DEF FlatConfirmed, LastOrder, ReversalOK, Closing
    <3>2. QED
      BY <1>3, <1>6, <3>1 DEF FlatConfirmed, ReversalOK, Closing
  <2>5. f = Drained(u)
    <3>1. f = [u EXCEPT !.position = u.position, !.inbox = <<>>]
      BY <1>3, <2>4, FinOfSettled
    <3>2. QED
      BY <1>3, <3>1 DEF Drained, BookType
  <2>6. /\ f.reversal = u.reversal /\ f.orders = u.orders /\ f.position = u.position
    BY <1>3, <2>5 DEF Drained, BookType
  <2>7. Closing(f) /\ FlatConfirmed(f)
    BY <1>6, <2>6 DEF Closing, FlatConfirmed, UnsettledOrders
  <2>8. Confirmed(f) = Drained(w)
    BY <1>3, <2>5 DEF Confirmed, Drained, BookType
  <2>9. ObserveReversalConfirmation(f, clock) = Drained(t)
    <3>1. ObserveReversalConfirmation(f, clock) = SubmitReversalOpen(Confirmed(f), clock, price)
      BY <2>6, <2>7 DEF ObserveReversalConfirmation, Confirmed
    <3>2. SubmitReversalOpen(Drained(w), clock, price) = Drained(SubmitReversalOpen(w, clock, price))
      BY <2>1, <2>2, OpenIgnoresInbox
    <3>3. QED
      BY <2>3, <2>8, <3>1, <3>2
  <2>10. Completed(s, clock) = Fin(Drained(t))
    BY <1>4, <2>9 DEF Completed
  <2>11. Sound(t, size, clock, done)
    BY DeliverKeepsSound
  <2>12. t \in BookType /\ InboxOK(t) /\ OneWorking(t)
    BY <2>11 DEF Sound
  <2>13. t.position = 0 /\ Booked(t) = 0
    <3>1. t.position = u.position /\ t.inbox = u.inbox
      BY <2>1, <2>2, <2>3, OpenLeaves
    <3>2. QED
      BY <2>4, <3>1 DEF Booked
  <2>14. Fin(Drained(t)) = Fin(t)
    <3> PICK x : x = Drained(t)
      OBVIOUS
    <3>1. /\ x.orders = t.orders /\ x.position = t.position /\ x.inbox = <<>>
          /\ x = [t EXCEPT !.inbox = <<>>]
      BY <2>12 DEF Drained, BookType
    <3>2. Booked(x) = Booked(t)
      BY <2>13, <3>1 DEF Booked
    <3>3. FinOrders(x) = FinOrders(t) /\ Aim(x) = Aim(t)
      BY <3>1, <3>2, WorkingOfFields DEF FinOrders, Aim, Sent
    <3>4. QED
      BY <2>12, <3>1, <3>3 DEF Fin, BookType
  <2>15. ~Closing(t)
    BY <2>1, <2>2, <2>3, OpenEnds
  <2>16. ObserveReversalConfirmation(Fin(t), clock) = Fin(t)
    <3> PICK y : y = Fin(t)
      OBVIOUS
    <3>1. y.reversal = t.reversal
      BY <2>12, FinFields
    <3>2. QED
      BY <2>15, <3>1 DEF ObserveReversalConfirmation, Closing
  <2>17. Completed(t, clock) = Fin(t)
    BY <2>12, <2>16, FinAgain DEF Completed
  <2>18. QED
    BY <2>10, <2>14, <2>15, <2>17 DEF Stuck
<1>7. QED
  BY <1>5, <1>6

(* A quiet state is complete.                                              *)
LEMMA QuietIsComplete ==
  ASSUME NEW s \in BookType, InboxOK(s), Quiet(s), NEW ts
  PROVE  Completed(s, ts) = s
<1>1. Fin(s) = s
  <2>1. Fin(s) = [s EXCEPT !.position = s.position, !.inbox = s.inbox]
    BY FinOfSettled, BookedOf DEF Quiet
  <2>2. QED
    BY <2>1 DEF BookType
<1>2. ObserveReversalConfirmation(s, ts) = s
  BY DEF ObserveReversalConfirmation, Closing, Quiet
<1>3. QED
  BY <1>1, <1>2 DEF Completed

(* An error stays.                                                         *)
LEMMA ErrorIsComplete ==
  ASSUME NEW s \in BookType, InboxOK(s), OneWorking(s), s.error, Stuck(s), NEW ts
  PROVE  Completed(s, ts).error
<1> PICK f : f = Fin(s)
  OBVIOUS
<1>1. f.error /\ f.reversal = s.reversal
  BY FinFields
<1>2. ObserveReversalConfirmation(f, ts) = f
  BY <1>1 DEF ObserveReversalConfirmation, Closing, Stuck
<1>3. Completed(s, ts) = f
  BY <1>2, FinAgain DEF Completed
<1>4. QED
  BY <1>1, <1>3

(* The open of a bar raises nothing in a quiet strategy.                   *)
LEMMA TradeNeverRaises ==
  ASSUME NEW s, NEW size \in Nat, NEW ts \in Nat, NEW price \in Prices,
         Sound(s, size, ts, FALSE), Quiet(s), IsOpen(ts), NEW t, t = OnTrade(s, ts, price)
  PROVE  ~t.error
<1>1. s \in BookType /\ PendingOK(s, ts, FALSE)
  BY DEF Sound
<1>2. t \in {s, ExecutePending(s, ts, price)}
  BY DEF OnTrade, AdvanceConfirmedReversal, Quiet
<1>3. s.pending # None => ts = NextBarOpen(s.pending.ts)
  BY <1>1 DEF PendingOK, NextBarOpen, BookType, DecisionType
<1>4. ~ExecutePending(s, ts, price).error
  BY <1>1, <1>3 DEF ExecutePending, Submit, BookType, Quiet
<1>5. QED
  BY <1>2, <1>4 DEF Quiet

(* The close of a bar raises only where no reversal is under way.          *)
LEMMA BarRaises ==
  ASSUME NEW s \in BookType, NEW ts \in Nat, NEW ret \in Returns \cup {None},
         NEW close \in Prices, Quiet(s), NEW t, t = OnBar(s, ts, ret, close)
  PROVE  t.error => InWindow(ts) /\ t = [s EXCEPT !.error = TRUE] /\ ~Closing(t)
<1> PICK d : d = [ts |-> ts, target |-> TargetQuantity(MomentumSignal(ret), close)]
  OBVIOUS
<1>1. d \in DecisionType
  BY TargetFits DEF DecisionType
<1>2. ~QueueDecision(s, d, close).error
  BY <1>1, DecisionLeaves DEF Quiet
<1>3. ~s.error /\ ~Closing([s EXCEPT !.error = TRUE])
  BY DEF Quiet, Closing, BookType
<1>4. CASE ~InWindow(ts)
  BY <1>3, <1>4 DEF OnBar
<1>5. CASE InWindow(ts)
  BY <1>2, <1>3, <1>5 DEF OnBar
<1>6. QED
  BY <1>4, <1>5

(* The replay, given the decision of the backtest, does as the backtest.   *)
LEMMA ReplayBarSame ==
  ASSUME NEW s \in BookType, NEW ts \in Nat, NEW ret \in Returns \cup {None},
         NEW close \in Prices, Quiet(s), NEW t, t = OnBar(s, ts, ret, close)
  PROVE  OnReplayBar(s, ts, IF t.error THEN None ELSE [ts |-> ts, target |-> t.goal], close) = t
<1> PICK d : d = [ts |-> ts, target |-> TargetQuantity(MomentumSignal(ret), close)]
  OBVIOUS
<1>1. d \in DecisionType
  BY TargetFits DEF DecisionType
<1>2. d # None
  BY <1>1, NoneAssumption
<1>3. CASE ~InWindow(ts)
  BY <1>3 DEF OnBar, OnReplayBar
<1>4. CASE InWindow(ts) /\ t.error
  <2>1. t = [s EXCEPT !.error = TRUE]
    BY <1>4, BarRaises
  <2>2. QED
    BY <1>4, <2>1 DEF OnReplayBar
<1>5. CASE InWindow(ts) /\ ~t.error
  <2>1. t = QueueDecision(s, d, close)
    <3>1. [s EXCEPT !.error = TRUE].error
      BY DEF BookType
    <3>2. QED
      BY <1>5, <3>1 DEF OnBar
  <2>2. t.goal = d.target
    BY <1>1, <2>1, DecisionLeaves
  <2>3. [ts |-> ts, target |-> t.goal] = d
    BY <2>2
  <2>4. QED
    BY <1>2, <1>5, <2>1, <2>3 DEF OnReplayBar
<1>6. QED
  BY <1>3, <1>4, <1>5

-----------------------------------------------------------------------------
(* The two engines, step by step. *)

Twin(i) ==
  /\ Sound(replay[i], capacity[i], clock, i \in served)
  /\ Prompt(replay[i], clock, i \in served)
  /\ Stuck(book[i]) /\ Stuck(replay[i])
  /\ Completed(replay[i], clock) = Completed(book[i], clock)

ReplayBooks ==
  /\ replay \in [Instruments -> BookType]
  /\ \A i \in Instruments : Twin(i)
  /\ clock > LastTs => \A i \in Instruments : Quiet(replay[i])

ReplayInv == PromptInv /\ (Replaying => ReplayBooks)

(* When both engines are done with an event they agree.                    *)
LEMMA Together ==
  ASSUME ReplayInv, Replaying, MarketReady, ReplayReady
  PROVE  replay = book /\ \A i \in Instruments : Quiet(book[i])
<1>1. TypeOK /\ venue = "prompt" /\ ReplayBooks /\ PromptInv
  BY DEF ReplayInv, Replaying, PromptInv, SoundInv
<1>2. ASSUME NEW i \in Instruments PROVE replay[i] = book[i] /\ Quiet(book[i])
  <2>1. Quiet(book[i])
    BY <1>1, MarketQuiet
  <2>2. /\ Sound(replay[i], capacity[i], clock, i \in served)
        /\ PromptReversal(replay[i], clock)
    BY <1>1 DEF ReplayBooks, Twin, Prompt
  <2>3. Quiet(replay[i])
    BY <2>2, SettledIsQuiet DEF ReplayReady
  <2>4. /\ book[i] \in BookType /\ InboxOK(book[i])
        /\ replay[i] \in BookType /\ InboxOK(replay[i])
    <3>1. Sound(book[i], capacity[i], clock, i \in served)
      BY <1>1 DEF PromptInv, SoundInv
    <3>2. QED
      BY <2>2, <3>1 DEF Sound
  <2>5. Completed(replay[i], clock) = Completed(book[i], clock)
    BY <1>1 DEF ReplayBooks, Twin
  <2>6. QED
    BY <2>1, <2>3, <2>4, <2>5, QuietIsComplete
<1>3. QED
  BY <1>1, <1>2 DEF ReplayBooks, TypeOK

(* A step that takes both to the same state.                               *)
LEMMA StillTogether ==
  ASSUME PromptInv', venue' = "prompt", replay' = book',
         \A i \in Instruments : Stuck(book'[i])
  PROVE  ReplayInv'
<1>1. SoundInv' /\ PromptBooks' /\ TypeOK'
  BY DEF PromptInv, SoundInv
<1>2. ASSUME NEW i \in Instruments PROVE Twin(i)'
  <2>1. /\ Sound(book'[i], capacity'[i], clock', i \in served')
        /\ Prompt(book'[i], clock', i \in served')
    BY <1>1 DEF SoundInv, PromptBooks
  <2>2. replay'[i] = book'[i]
    OBVIOUS
  <2>3. Sound(replay'[i], capacity'[i], clock', i \in served')
    BY <2>1, <2>2
  <2>4. Prompt(replay'[i], clock', i \in served')
    BY <2>1, <2>2
  <2>5. Completed(replay'[i], clock') = Completed(book'[i], clock')
    BY <2>2
  <2>6. QED
    BY <2>2, <2>3, <2>4, <2>5 DEF Twin
<1>3. ReplayBooks'
  BY <1>1, <1>2 DEF ReplayBooks, PromptBooks, TypeOK
<1>4. QED
  BY <1>3 DEF ReplayInv

(* The strategies that do not change stay as they were.                    *)
LEMMA StuckElsewhere ==
  ASSUME ReplayInv, Replaying, NEW i \in Instruments, NEW t, Stuck(t),
         book' = [book EXCEPT ![i] = t]
  PROVE  \A j \in Instruments : Stuck(book'[j])
<1>1. TypeOK /\ ReplayBooks
  BY DEF ReplayInv, PromptInv, SoundInv
<1>2. book'[i] = t /\ \A j \in Instruments : j # i => book'[j] = book[j]
  BY <1>1 DEF TypeOK
<1>3. QED
  BY <1>1, <1>2 DEF ReplayBooks, Twin

(* The open of a bar, to both.                                             *)
LEMMA ReplayTradeStep ==
  ASSUME ReplayInv, PromptInv', Replaying, NEW i \in Instruments, NEW price \in Prices,
         ReplayTrade(i, price)
  PROVE  ReplayInv'
<1>1. /\ MarketReady /\ ReplayReady /\ IsOpen(clock) /\ i \notin served /\ venue' = venue
      /\ Trade(i, price)
  BY DEF ReplayTrade, Trade
<1>2. replay = book /\ Quiet(book[i])
  BY <1>1, Together
<1> PICK t : t = OnTrade(book[i], clock, price)
  OBVIOUS
<1>3. book' = [book EXCEPT ![i] = t] /\ replay' = book'
  BY <1>2 DEF ReplayTrade, Trade
<1>4. PromptInv /\ venue = "prompt"
  BY DEF ReplayInv, Replaying
<1>5. Stuck(t)
  <2>1. /\ Sound(book[i], capacity[i], clock, FALSE) /\ capacity[i] \in Nat /\ clock \in Nat
    BY <1>1, <1>4, PromptBefore
  <2>2. ~t.error
    BY <1>1, <1>2, <2>1, TradeNeverRaises
  <2>3. QED
    BY <2>2 DEF Stuck
<1>6. \A j \in Instruments : Stuck(book'[j])
  BY <1>3, <1>5, StuckElsewhere
<1>7. QED
  BY <1>1, <1>3, <1>4, <1>6, StillTogether

(* The close of a bar: the replay is given the decision just made.         *)
LEMMA ReplayBarStep ==
  ASSUME ReplayInv, PromptInv', Replaying, NEW i \in Instruments, NEW close \in Prices,
         NEW ret \in Returns \cup {None}, ReplayBarClose(i, ret, close)
  PROVE  ReplayInv'
<1>1. /\ MarketReady /\ ReplayReady /\ i \notin served /\ venue' = venue
      /\ BarClose(i, ret, close)
  BY DEF ReplayBarClose, BarClose
<1>2. replay = book /\ Quiet(book[i])
  BY <1>1, Together
<1> PICK t : t = OnBar(book[i], clock, ret, close)
  OBVIOUS
<1>3. PromptInv /\ venue = "prompt" /\ TypeOK
  BY DEF ReplayInv, Replaying, PromptInv, SoundInv
<1>4. book[i] \in BookType /\ clock \in Nat
  BY <1>3 DEF TypeOK
<1>5. book' = [book EXCEPT ![i] = t]
  BY DEF ReplayBarClose, BarClose
<1>6. FrozenDecision(i) = IF t.error THEN None ELSE [ts |-> clock, target |-> t.goal]
  <2>1. book'[i] = t
    BY <1>3, <1>5 DEF TypeOK
  <2>2. QED
    BY <2>1 DEF FrozenDecision
<1>7. OnReplayBar(book[i], clock, FrozenDecision(i), close) = t
  <2>1. OnReplayBar(book[i], clock, IF t.error THEN None ELSE [ts |-> clock, target |-> t.goal],
                    close) = t
    BY <1>2, <1>4, ReplayBarSame
  <2>2. QED
    BY <1>6, <2>1
<1>8. replay' = book'
  BY <1>2, <1>5, <1>7 DEF ReplayBarClose
<1>9. Stuck(t)
  BY <1>2, <1>4, BarRaises DEF Stuck
<1>10. \A j \in Instruments : Stuck(book'[j])
  BY <1>5, <1>9, StuckElsewhere
<1>11. QED
  BY <1>1, <1>3, <1>8, <1>10, StillTogether

(* The next instant, and the end of the run, for both.                     *)
LEMMA ReplayClockStep ==
  ASSUME ReplayInv, PromptInv', Replaying, ReplayInstant \/ ReplayStop
  PROVE  ReplayInv'
<1>1. PromptInv /\ venue = "prompt" /\ TypeOK /\ ReplayBooks
  BY DEF ReplayInv, Replaying, PromptInv, SoundInv
<1>2. \A i \in Instruments : Stuck(book[i])
  BY <1>1 DEF ReplayBooks, Twin
<1>3. CASE ReplayInstant
  <2>1. MarketReady /\ ReplayReady /\ UNCHANGED <<venue, book, replay>>
    BY <1>3 DEF ReplayInstant, NextInstant
  <2>2. replay' = book'
    BY <2>1, Together
  <2>3. QED
    BY <1>1, <1>2, <2>1, <2>2, StillTogether
<1>4. CASE ReplayStop
  <2>1. /\ Ready /\ ReplayReady /\ clock > LastTs /\ venue' = venue /\ OnStop
        /\ book' = [i \in Instruments |-> Stopped(book[i])]
        /\ replay' = [i \in Instruments |-> Stopped(replay[i])]
    BY <1>4 DEF ReplayStop, OnStop
  <2>2. ASSUME NEW i \in Instruments PROVE replay[i] = book[i] /\ Quiet(book[i])
    <3>1. Quiet(book[i]) /\ Quiet(replay[i])
      BY <1>1, <2>1 DEF PromptInv, PromptBooks, ReplayBooks
    <3>2. Sound(book[i], capacity[i], clock, i \in served) /\ Twin(i)
      BY <1>1 DEF PromptInv, SoundInv, ReplayBooks
    <3>3. /\ book[i] \in BookType /\ InboxOK(book[i])
          /\ replay[i] \in BookType /\ InboxOK(replay[i])
      BY <3>2 DEF Sound, Twin
    <3>4. QED
      BY <3>1, <3>2, <3>3, QuietIsComplete DEF Twin
  <2>3. replay' = book'
    BY <2>1, <2>2
  <2>4. ASSUME NEW i \in Instruments PROVE ~book'[i].error
    <3>1. book'[i] = [book[i] EXCEPT !.orders = book'[i].orders]
      BY <1>1, <2>1 DEF Stopped, TypeOK, BookType
    <3>2. QED
      BY <1>1, <2>2, <3>1 DEF Quiet, TypeOK, BookType
  <2>5. \A i \in Instruments : Stuck(book'[i])
    BY <2>4 DEF Stuck
  <2>6. QED
    BY <1>1, <2>1, <2>3, <2>5, StillTogether
<1>5. QED
  BY <1>3, <1>4

(* One engine settles one instrument of its own, in the same instant.      *)
LEMMA ReplayOneSide ==
  ASSUME ReplayInv, PromptInv', Replaying, UNCHANGED <<venue, clock, served, capacity>>,
         replay' \in [Instruments -> BookType],
         \A i \in Instruments :
           /\ Sound(replay'[i], capacity[i], clock, i \in served)
           /\ Prompt(replay'[i], clock, i \in served)
           /\ Stuck(book'[i]) /\ Stuck(replay'[i])
           /\ Completed(book'[i], clock) = Completed(book[i], clock)
           /\ Completed(replay'[i], clock) = Completed(replay[i], clock)
           /\ Quiet(replay[i]) => Quiet(replay'[i])
  PROVE  ReplayInv'
<1>1. ReplayBooks
  BY DEF ReplayInv
<1>2. ASSUME NEW i \in Instruments PROVE Twin(i)'
  <2>1. /\ Completed(replay'[i], clock') = Completed(book'[i], clock')
        /\ capacity'[i] = capacity[i] /\ clock' = clock /\ served' = served
    BY <1>1 DEF ReplayBooks, Twin
  <2>2. Sound(replay'[i], capacity'[i], clock', i \in served')
    BY <2>1
  <2>3. Prompt(replay'[i], clock', i \in served')
    BY <2>1
  <2>4. QED
    BY <2>1, <2>2, <2>3 DEF Twin
<1>3. ReplayBooks'
  BY <1>1, <1>2 DEF ReplayBooks
<1>4. QED
  BY <1>3 DEF ReplayInv

(* Both hold before or after the event of the instant.                     *)
LEMMA BothFlags ==
  ASSUME NEW i, NEW s, NEW size, NEW ts, Sound(s, size, ts, i \in served),
         Prompt(s, ts, i \in served)
  PROVE  \E done \in BOOLEAN : Sound(s, size, ts, done) /\ Prompt(s, ts, done)
<1>1. CASE i \in served
  <2>1. (i \in served) = TRUE
    BY <1>1
  <2>2. QED
    BY <2>1
<1>2. CASE i \notin served
  <2>1. (i \in served) = FALSE
    BY <1>2
  <2>2. QED
    BY <2>1
<1>3. QED
  BY <1>1, <1>2

(* The backtest's engine settles.                                          *)
LEMMA ReplaySettleStep ==
  ASSUME ReplayInv, PromptInv', Replaying, Settle, UNCHANGED replay
  PROVE  ReplayInv'
<1>1. PromptInv /\ venue = "prompt" /\ TypeOK /\ ReplayBooks
  BY DEF ReplayInv, Replaying, PromptInv, SoundInv
<1>2. ASSUME NEW i \in Instruments, NEW t, book' = [book EXCEPT ![i] = t], Stuck(t),
             Completed(t, clock) = Completed(book[i], clock),
             UNCHANGED <<venue, clock, served, capacity>>
      PROVE  ReplayInv'
  <2>1. book'[i] = t /\ \A j \in Instruments : j # i => book'[j] = book[j]
    BY <1>1, <1>2 DEF TypeOK
  <2>2. \A j \in Instruments : Stuck(book'[j])
    BY <1>2, StuckElsewhere
  <2>3. ASSUME NEW j \in Instruments
        PROVE  Completed(book'[j], clock) = Completed(book[j], clock)
    BY <1>2, <2>1
  <2>4. \A j \in Instruments : Twin(j) /\ replay'[j] = replay[j]
    BY <1>1 DEF ReplayBooks
  <2>5. replay' \in [Instruments -> BookType]
    BY <1>1 DEF ReplayBooks
  <2>6. QED
    BY <1>2, <2>2, <2>3, <2>4, <2>5, ReplayOneSide DEF Twin
<1>3. ASSUME NEW i \in Instruments, Deliver(i) PROVE ReplayInv'
  <2> PICK t : t = Delivered(book[i])
    OBVIOUS
  <2>1. /\ book' = [book EXCEPT ![i] = t] /\ book[i].inbox # <<>> /\ ~book[i].error
        /\ UNCHANGED <<venue, clock, served, capacity>>
    BY <1>3 DEF Deliver
  <2>2. /\ Sound(book[i], capacity[i], clock, i \in served) /\ clock \in Nat
        /\ Prompt(book[i], clock, i \in served) /\ capacity[i] \in Nat
    BY <1>1 DEF PromptInv, PromptBooks, SoundInv, TypeOK
  <2>3. \E done \in BOOLEAN :
          Sound(book[i], capacity[i], clock, done) /\ Prompt(book[i], clock, done)
    BY <2>2, BothFlags
  <2>4. Completed(t, clock) = Completed(book[i], clock) /\ Stuck(t)
    BY <2>1, <2>2, <2>3, DeliverOnTheWay
  <2>5. QED
    BY <1>2, <2>1, <2>4
<1>4. ASSUME NEW i \in Instruments, NEW k \in DOMAIN book[i].orders, Fill(i, k)
      PROVE  ReplayInv'
  <2> PICK q : q = Left(book[i].orders[k])
    OBVIOUS
  <2>1. /\ Sound(book[i], capacity[i], clock, i \in served) /\ clock \in Nat
        /\ Prompt(book[i], clock, i \in served) /\ capacity[i] \in Nat
        /\ book[i].inbox = <<>> /\ Submitted(book[i].orders[k]) /\ ~book[i].error
    BY <1>1, <1>4 DEF PromptInv, PromptBooks, SoundInv, TypeOK, Fill, Ready
  <2>2. PICK cached \in BOOLEAN :
          book' = [book EXCEPT ![i] = Filled(@, k, q, cached, capacity[i])]
    BY <1>1, <1>4 DEF Fill, Left
  <2> PICK t : t = Filled(book[i], k, q, cached, capacity[i])
    OBVIOUS
  <2>3. \E done \in BOOLEAN :
          Sound(book[i], capacity[i], clock, done) /\ Prompt(book[i], clock, done)
    BY <2>1, BothFlags
  <2>4. Nearer(book[i], t)
    <3> PICK done \in BOOLEAN :
          Sound(book[i], capacity[i], clock, done) /\ Prompt(book[i], clock, done)
      BY <2>3
    <3>1. clock \in Nat /\ capacity[i] \in Nat /\ book[i].inbox = <<>>
          /\ Submitted(book[i].orders[k])
      BY <2>1
    <3>2. QED
      BY <3>1, FillOnTheWay
  <2>5. Completed(t, clock) = Completed(book[i], clock) /\ Stuck(t)
    BY <2>1, <2>4 DEF Completed, Stuck, Nearer
  <2>6. book' = [book EXCEPT ![i] = t] /\ UNCHANGED <<venue, clock, served, capacity>>
    BY <1>4, <2>2 DEF Fill
  <2>7. QED
    BY <1>2, <2>5, <2>6
<1>5. ASSUME NEW i \in Instruments, NEW k \in DOMAIN book[i].orders, Reject(i, k)
      PROVE  ReplayInv'
  BY <1>1, <1>5 DEF Reject
<1>6. QED
  BY <1>3, <1>4, <1>5 DEF Settle

(* The replay's engine settles.                                            *)
LEMMA ReplayOwnStep ==
  ASSUME ReplayInv, PromptInv', Replaying, ReplayDeliver \/ ReplayFill
  PROVE  ReplayInv'
<1>1. PromptInv /\ venue = "prompt" /\ TypeOK /\ ReplayBooks
  BY DEF ReplayInv, Replaying, PromptInv, SoundInv
<1>2. ASSUME NEW i \in Instruments, NEW t, replay' = [replay EXCEPT ![i] = t], Stuck(t),
             Sound(t, capacity[i], clock, i \in served), Prompt(t, clock, i \in served),
             Completed(t, clock) = Completed(replay[i], clock), ~Quiet(replay[i]),
             UNCHANGED <<venue, clock, served, capacity, book>>
      PROVE  ReplayInv'
  <2>1. replay'[i] = t /\ \A j \in Instruments : j # i => replay'[j] = replay[j]
    BY <1>1, <1>2 DEF ReplayBooks
  <2>2. replay' \in [Instruments -> BookType]
    BY <1>1, <1>2 DEF ReplayBooks, Sound
  <2>3. ASSUME NEW j \in Instruments
        PROVE  /\ Sound(replay'[j], capacity[j], clock, j \in served)
               /\ Prompt(replay'[j], clock, j \in served)
               /\ Stuck(book'[j]) /\ Stuck(replay'[j])
               /\ Completed(book'[j], clock) = Completed(book[j], clock)
               /\ Completed(replay'[j], clock) = Completed(replay[j], clock)
               /\ Quiet(replay[j]) => Quiet(replay'[j])
    <3>1. Twin(j) /\ book'[j] = book[j]
      BY <1>1, <1>2 DEF ReplayBooks
    <3>2. CASE j = i
      BY <1>2, <2>1, <3>1, <3>2 DEF Twin
    <3>3. CASE j # i
      BY <2>1, <3>1, <3>3 DEF Twin
    <3>4. QED
      BY <3>2, <3>3
  <2>4. QED
    BY <1>2, <2>2, <2>3, ReplayOneSide
<1>3. CASE ReplayDeliver
  <2> PICK i \in Instruments :
        /\ ~replay[i].error /\ replay[i].inbox # <<>>
        /\ replay' = [replay EXCEPT ![i] = Delivered(@)]
    BY <1>3 DEF ReplayDeliver
  <2> PICK t : t = Delivered(replay[i])
    OBVIOUS
  <2>1. /\ Sound(replay[i], capacity[i], clock, i \in served) /\ clock \in Nat
        /\ Prompt(replay[i], clock, i \in served) /\ capacity[i] \in Nat
    BY <1>1 DEF ReplayBooks, Twin, TypeOK
  <2>2. \E done \in BOOLEAN :
          Sound(replay[i], capacity[i], clock, done) /\ Prompt(replay[i], clock, done)
    BY <2>1, BothFlags
  <2>3. Completed(t, clock) = Completed(replay[i], clock) /\ Stuck(t)
    BY <2>1, <2>2, DeliverOnTheWay
  <2>4. ASSUME NEW done \in BOOLEAN, Sound(replay[i], capacity[i], clock, done)
        PROVE  Sound(t, capacity[i], clock, done)
    BY <2>1, <2>4, DeliverKeepsSound
  <2>5. ASSUME NEW done \in BOOLEAN, Sound(replay[i], capacity[i], clock, done),
               Prompt(replay[i], clock, done)
        PROVE  Prompt(t, clock, done)
    BY <2>1, <2>5, PromptDeliver
  <2>6. Sound(t, capacity[i], clock, i \in served)
    BY <2>1, <2>4, FlagKept
  <2>7. Prompt(t, clock, i \in served)
    BY <2>1, <2>5, PromptFlag
  <2>8. replay' = [replay EXCEPT ![i] = t] /\ ~Quiet(replay[i])
        /\ UNCHANGED <<venue, clock, served, capacity, book>>
    BY <1>3 DEF ReplayDeliver, Quiet, vars
  <2>9. QED
    BY <1>2, <2>3, <2>6, <2>7, <2>8
<1>4. CASE ReplayFill
  <2>1a. PICK i \in Instruments, cached \in BOOLEAN :
        \E k \in DOMAIN replay[i].orders :
          /\ Submitted(replay[i].orders[k])
          /\ replay' = [replay EXCEPT ![i] =
               Filled(@, k, @.orders[k].qty, cached, capacity[i])]
    BY <1>4 DEF ReplayFill
  <2>1b. PICK k \in DOMAIN replay[i].orders :
        /\ Submitted(replay[i].orders[k])
        /\ replay' = [replay EXCEPT ![i] =
             Filled(@, k, @.orders[k].qty, cached, capacity[i])]
    BY <2>1a
  <2>0. replay[i].inbox = <<>> /\ ~replay[i].error
    BY <1>4 DEF ReplayFill
  <2>1. /\ Sound(replay[i], capacity[i], clock, i \in served) /\ clock \in Nat
        /\ Prompt(replay[i], clock, i \in served) /\ capacity[i] \in Nat
        /\ replay[i] \in BookType
    BY <1>1 DEF ReplayBooks, Twin, TypeOK
  <2> PICK q : q = Left(replay[i].orders[k])
    OBVIOUS
  <2>2. q = replay[i].orders[k].qty
    <3>1. replay[i].orders[k].filled = 0 /\ replay[i].orders[k].qty \in Int
      BY <2>1, <2>1b, OrdersOfBook DEF Prompt, PromptOrders, OrderType
    <3>2. QED
      BY <3>1 DEF Left
  <2> PICK t : t = Filled(replay[i], k, q, cached, capacity[i])
    OBVIOUS
  <2>3. \E done \in BOOLEAN :
          Sound(replay[i], capacity[i], clock, done) /\ Prompt(replay[i], clock, done)
    BY <2>1, BothFlags
  <2>3a. clock \in Nat /\ capacity[i] \in Nat /\ replay[i].inbox = <<>>
         /\ Submitted(replay[i].orders[k])
    BY <2>0, <2>1, <2>1b
  <2>4. Nearer(replay[i], t)
    <3> PICK done \in BOOLEAN :
          Sound(replay[i], capacity[i], clock, done) /\ Prompt(replay[i], clock, done)
      BY <2>3
    <3>1. QED
      BY <2>3a, FillOnTheWay
  <2>5. Completed(t, clock) = Completed(replay[i], clock) /\ Stuck(t)
    BY <2>0, <2>4 DEF Completed, Stuck, Nearer
  <2>6. ASSUME NEW done \in BOOLEAN, Sound(replay[i], capacity[i], clock, done)
        PROVE  Sound(t, capacity[i], clock, done)
    <3>1. /\ OrdersOK(replay[i], capacity[i], clock)
          /\ replay[i].orders[k] \in OrderType
      BY <2>1, <2>6, OrdersOfBook DEF Sound
    <3>2. q \in Int /\ Toward(q, Left(replay[i].orders[k]))
      BY <2>3a, <3>1 DEF OrdersOK, WorkingOK, OrderType, Left, Toward
    <3>3. QED
      BY <2>3a, <2>6, <3>2, FillKeepsSound
  <2>7. ASSUME NEW done \in BOOLEAN, Sound(replay[i], capacity[i], clock, done),
               Prompt(replay[i], clock, done)
        PROVE  Prompt(t, clock, done)
    BY <2>3a, <2>7, PromptFill
  <2>8. Sound(t, capacity[i], clock, i \in served)
    BY <2>1, <2>6, FlagKept
  <2>9. Prompt(t, clock, i \in served)
    BY <2>1, <2>7, PromptFlag
  <2>10. replay' = [replay EXCEPT ![i] = t]
    BY <2>1b, <2>2
  <2>11. ~Quiet(replay[i]) /\ UNCHANGED <<venue, clock, served, capacity, book>>
    BY <1>4, <2>3a DEF ReplayFill, Quiet, UnsettledOrders, vars
  <2>12. QED
    BY <1>2, <2>5, <2>8, <2>9, <2>10, <2>11
<1>5. QED
  BY <1>3, <1>4

(* Steps that change neither strategy.                                     *)
LEMMA ReplayRunnerStep ==
  ASSUME ReplayInv, PromptInv', UNCHANGED <<venue, clock, served, capacity, book, replay>>
  PROVE  ReplayInv'
<1>1. ASSUME NEW i \in Instruments, Twin(i) PROVE Twin(i)'
  BY <1>1 DEF Twin
<1>2. QED
  BY <1>1 DEF ReplayInv, Replaying, ReplayBooks

(* Every step.                                                             *)
LEMMA ReplayKept == ReplayInv /\ [ReplayNext]_both => ReplayInv'
<1> SUFFICES ASSUME ReplayInv, [ReplayNext]_both PROVE ReplayInv'
  OBVIOUS
<1>1. [Next]_vars
  BY ReplayStepIsBacktestStep
<1>2. PromptInv'
  BY <1>1, PromptNext DEF ReplayInv
<1>3. venue' = venue
  BY <1>1 DEF Next, Trade, BarClose, NextInstant, Settle, Deliver, Fill, Reject,
              OnStop, CollectReports, StrategyError, vars
<1>4. CASE ~Replaying
  BY <1>2, <1>3, <1>4 DEF ReplayInv, Replaying
<1>5. CASE Replaying
  <2>1. ASSUME NEW i \in Instruments, NEW price \in Prices, ReplayTrade(i, price)
        PROVE  ReplayInv'
    BY <1>2, <1>5, <2>1, ReplayTradeStep
  <2>2. ASSUME NEW i \in Instruments, NEW price \in Prices, NEW ret \in Returns \cup {None},
               ReplayBarClose(i, ret, price)
        PROVE  ReplayInv'
    BY <1>2, <1>5, <2>2, ReplayBarStep
  <2>3. CASE ReplayInstant \/ ReplayStop
    BY <1>2, <1>5, <2>3, ReplayClockStep
  <2>4. CASE ReplayDeliver \/ ReplayFill
    BY <1>2, <1>5, <2>4, ReplayOwnStep
  <2>5. CASE Settle /\ UNCHANGED replay
    BY <1>2, <1>5, <2>5, ReplaySettleStep
  <2>6. CASE (CollectReports \/ StrategyError) /\ UNCHANGED replay
    BY <1>2, <2>6, ReplayRunnerStep DEF CollectReports, StrategyError
  <2>7. CASE UNCHANGED both
    BY <1>2, <2>7, ReplayRunnerStep DEF both, vars
  <2>8. QED
    BY <2>1, <2>2, <2>3, <2>4, <2>5, <2>6, <2>7 DEF ReplayNext
<1>6. QED
  BY <1>4, <1>5

(* The first state.                                                        *)
LEMMA ReplayInitOK == ReplayInit => ReplayInv
<1> SUFFICES ASSUME ReplayInit PROVE ReplayInv
  OBVIOUS
<1>1. Init /\ PromptInv /\ TypeOK /\ SoundInv
  BY PromptInit, SoundInit DEF ReplayInit, SoundInv
<1>2. replay = book
  BY DEF ReplayInit, Init
<1>3. ASSUME Replaying, NEW i \in Instruments PROVE Twin(i) /\ Quiet(book[i])
  <2>1. /\ Sound(book[i], capacity[i], clock, i \in served)
        /\ Prompt(book[i], clock, i \in served)
    BY <1>1, <1>3 DEF SoundInv, PromptInv, PromptBooks, Replaying
  <2>2. book[i] = Idle
    BY <1>1 DEF Init
  <2>3. ~Idle.error /\ Idle.inbox = <<>> /\ Idle.reversal = None /\ DOMAIN Idle.orders = {}
    BY DEF Idle
  <2>4. Stuck(Idle) /\ Quiet(Idle)
    BY <2>3 DEF Stuck, Quiet, UnsettledOrders
  <2>5. QED
    BY <1>2, <2>1, <2>2, <2>4 DEF Twin
<1>4. QED
  BY <1>1, <1>2, <1>3 DEF ReplayInv, ReplayBooks, TypeOK

(* What the replay promises.                                               *)
LEMMA ReplayAgrees == ReplayInv => ReplayTradesAlike
<1> SUFFICES ASSUME ReplayInv, Replaying PROVE ReplayTradesAlike
  BY DEF ReplayTradesAlike
<1>1. PromptInv /\ venue = "prompt" /\ TypeOK /\ ReplayBooks
  BY DEF ReplayInv, Replaying, PromptInv, SoundInv
<1>2. MarketReady /\ ReplayReady => replay = book
  BY Together
<1>3. ASSUME NEW i \in Instruments, Settled(book[i]), Settled(replay[i])
      PROVE  replay[i].error = book[i].error
  <2>1. Sound(book[i], capacity[i], clock, i \in served) /\ Twin(i)
        /\ PromptReversal(book[i], clock)
    BY <1>1 DEF PromptInv, PromptBooks, SoundInv, ReplayBooks, Prompt
  <2>2. /\ book[i] \in BookType /\ InboxOK(book[i]) /\ OneWorking(book[i])
        /\ replay[i] \in BookType /\ InboxOK(replay[i]) /\ OneWorking(replay[i])
        /\ Stuck(book[i]) /\ Stuck(replay[i])
        /\ Completed(replay[i], clock) = Completed(book[i], clock)
    BY <2>1 DEF Sound, Twin
  <2>3. /\ Sound(replay[i], capacity[i], clock, i \in served)
        /\ PromptReversal(replay[i], clock)
    BY <2>1 DEF Twin, Prompt
  <2>4. /\ ~book[i].error => Quiet(book[i]) /\ Completed(book[i], clock) = book[i]
        /\ ~replay[i].error => Quiet(replay[i]) /\ Completed(replay[i], clock) = replay[i]
    <3>1. ~book[i].error => Quiet(book[i])
      BY <1>3, <2>1, SettledIsQuiet DEF Settled
    <3>2. ~replay[i].error => Quiet(replay[i])
      BY <1>3, <2>3, SettledIsQuiet DEF Settled
    <3>3. QED
      BY <2>2, <3>1, <3>2, QuietIsComplete
  <2>5. /\ book[i].error => Completed(book[i], clock).error
        /\ replay[i].error => Completed(replay[i], clock).error
    BY <2>2, ErrorIsComplete
  <2>6. book[i].error \in BOOLEAN /\ replay[i].error \in BOOLEAN
    BY <2>2 DEF BookType
  <2>7. book[i].error <=> replay[i].error
    BY <2>2, <2>4, <2>5
  <2>8. QED
    BY <2>6, <2>7
<1>4. ASSUME outcome = "accepted", NEW i \in Instruments
      PROVE  RequireExecutionContract(replay[i]) /\ replay[i].reversal = None
  <2>1. /\ Sound(replay[i], capacity[i], clock, i \in served)
        /\ Prompt(replay[i], clock, i \in served) /\ Quiet(replay[i])
        /\ clock \in Nat /\ capacity[i] \in Nat
    BY <1>1, <1>4 DEF ReplayBooks, Twin, PromptInv, TypeOK
  <2>2. QED
    BY <2>1, AuditPasses
<1>5. QED
  BY <1>2, <1>3, <1>4 DEF ReplayTradesAlike

(* The accounting-only replay trades exactly as the backtest did, in       *)
(* whatever order its own engine reports fills and positions, raises where *)
(* the backtest raised, and passes the same audit.                         *)
THEOREM ReplayIsTheBacktest == FairSpec => []ReplayTradesAlike
<1>1. FairSpec => []ReplayInv
  BY ReplayInitOK, ReplayKept, PTL DEF FairSpec
<1>2. QED
  BY <1>1, ReplayAgrees, PTL

=============================================================================
