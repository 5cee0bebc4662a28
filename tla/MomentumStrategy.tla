-------------------------- MODULE MomentumStrategy --------------------------
(***************************************************************************)
(* The Stage 3 execution state machine (Stage3MomentumStrategy) inside one *)
(* Nautilus backtest, from the first bar to the runner's audit.            *)
(*                                                                         *)
(* Time is counted in half hours: a bar opens at every even instant and    *)
(* closes at the odd one after it, so the open of the next bar is one      *)
(* instant after a close.  Each open is published as a trade tick (the     *)
(* only instant an order may execute), each close as a bar (the only       *)
(* instant a decision is made).  Three parties take turns: the data feed,  *)
(* the strategy's callbacks, and the venue that settles orders.            *)
(*                                                                         *)
(* Venue is how the external matching engine behaves: "prompt" settles     *)
(* every order before the next market event and fills it completely (the   *)
(* backtest engine without latency), "any" settles any time later, in      *)
(* parts, or rejects.                                                      *)
(***************************************************************************)
EXTENDS Integers, Sequences

CONSTANTS Instruments,     \* the traded perpetuals
          Prices,          \* the prices a bar opens or closes at
          Returns,         \* the 24h returns a ready feature row carries
          Threshold,       \* the return above which the signal is not flat
          TargetNotional,  \* what a position is worth when it is opened
          MinQuantity, MinNotional,          \* the instrument's order floors
          EvaluationStart, EvaluationEnd,    \* the half-open evaluation window
          LastTs,          \* bound: the instant the data ends
          None

ASSUME MomentumAssumption ==
  /\ Prices \subseteq Nat \ {0} /\ Returns \subseteq Int /\ Threshold \in Nat
  /\ TargetNotional \in Nat /\ MinQuantity \in Nat \ {0} /\ MinNotional \in Nat
  /\ EvaluationStart \in Nat /\ EvaluationEnd \in Nat /\ LastTs \in Nat
  /\ None \notin Int

(* Windows begin and end on the hour. *)
ASSUME WindowAssumption == EvaluationEnd % 2 = 0

VARIABLES venue,     \* how the matching engine behaves, fixed for a run
          clock,     \* the instant of the market events being delivered
          served,    \* the instruments whose event of this instant is out
          capacity,  \* the size the next open tick of an instrument offers
          book,      \* per instrument: the strategy's state and its orders
          outcome    \* running, stopped, accepted or failed

vars == <<venue, clock, served, capacity, book, outcome>>

IsOpen(ts) == ts % 2 = 0
InWindow(ts) == EvaluationStart <= ts /\ ts < EvaluationEnd
NextBarOpen(ts) == ts + 1
Abs(q) == IF q < 0 THEN -q ELSE q

-----------------------------------------------------------------------------
(* Signals, sizes and order floors. *)

MomentumSignal(ret) == IF ret > Threshold THEN "long"
                       ELSE IF ret < -Threshold THEN "short" ELSE "flat"

(* The whole increments the notional buys at the close. *)
Units(close) == TargetNotional \div close

TargetQuantity(signal, close) ==
  CASE signal = "long" -> Units(close)
    [] signal = "short" -> -Units(close)
    [] OTHER -> 0

MeetsMinimumOrder(qty, price) == qty >= MinQuantity /\ qty * price >= MinNotional

Reversing(current, target) == current * target < 0

-----------------------------------------------------------------------------
(* The strategy's state of one instrument, and the callbacks as functions  *)
(* on it: a callback runs to its end before anything else happens.         *)

Idle == [position |-> 0, orders |-> <<>>, pending |-> None, reversal |-> None,
         goal |-> 0, missed |-> FALSE, error |-> FALSE, inbox |-> <<>>]

Submitted(o) == o.status = "submitted"
UnsettledOrders(s) == \E k \in DOMAIN s.orders : Submitted(s.orders[k])

(* A market order for one leg of decision d, meant to fill at ts. *)
Submit(s, leg, qty, d, ts) ==
  [s EXCEPT !.orders = Append(@,
     [leg |-> leg, qty |-> qty, filled |-> 0, status |-> "submitted",
      decision |-> d.ts, expected |-> ts, onTime |-> TRUE])]

ReplaceAndQueue(s, d) ==                     \* mutant: the decision queues too
  [s EXCEPT !.reversal.latest = d, !.pending = d]
KeepTarget(s, d) == s                        \* mutant: the first target stays
ReplaceTarget(s, d) == [s EXCEPT !.reversal.latest = d]

QueueDecision(s, d, close) ==
  LET g == [s EXCEPT !.goal = d.target]
      delta == Abs(d.target - s.position)
  IN CASE s.reversal # None -> ReplaceTarget(g, d)
       [] s.reversal = None /\ NextBarOpen(d.ts) >= EvaluationEnd -> g
       [] s.reversal = None /\ NextBarOpen(d.ts) < EvaluationEnd ->
            IF UnsettledOrders(s) \/ (delta # 0 /\ MeetsMinimumOrder(delta, close))
            THEN [g EXCEPT !.pending = d] ELSE g

OpensAnyTime(d) == TRUE                      \* mutant: the window's end ignored
OpensInWindow(d) == NextBarOpen(d.ts) < EvaluationEnd

EndOpening(s) == [s EXCEPT !.reversal.phase = "opening"]  \* mutant: kept around
EndNothing(s) == s                           \* mutant: not popped
EndReversal(s) == [s EXCEPT !.reversal = None]

(* The second leg of a reversal: opened only once the book is flat, at the *)
(* latest decision's target, and only after that decision.                 *)
SubmitReversalOpen(s, ts, price) ==
  LET d == s.reversal.latest IN
  IF ~OpensInWindow(d) THEN EndReversal(s)
  ELSE IF ts <= d.ts \/ UnsettledOrders(s) \/ s.position # 0 THEN s
  ELSE IF d.target = 0 THEN EndReversal(s)
  ELSE IF ~MeetsMinimumOrder(Abs(d.target), price) THEN [s EXCEPT !.error = TRUE]
  ELSE EndReversal(Submit(s, "reversal_open", d.target, d, ts))

AdvanceConfirmedReversal(s, ts, price) ==
  IF s.reversal # None /\ s.reversal.phase = "flat_confirmed"
  THEN SubmitReversalOpen(s, ts, price) ELSE s

WholeDelta(s, target) == target - s.position \* mutant: through zero at once
LegQuantity(s, target) ==
  IF Reversing(s.position, target) THEN -s.position ELSE target - s.position

FreeAlways(s) == TRUE                        \* mutant: the cache not asked
FreeToOrder(s) == ~UnsettledOrders(s)

(* The pending decision at the open it was made for: one order toward its  *)
(* target, or, when the target is on the other side, one order to flat.    *)
ExecutePending(s, ts, price) ==
  LET d == s.pending
      p == [s EXCEPT !.pending = None]
      qty == LegQuantity(s, d.target)
  IN IF s.pending = None \/ s.error THEN s
     ELSE IF ts # NextBarOpen(d.ts) THEN [p EXCEPT !.error = TRUE]
     ELSE IF ~FreeToOrder(s) THEN [p EXCEPT !.missed = TRUE]
     ELSE IF qty = 0 \/ ~MeetsMinimumOrder(Abs(qty), price) THEN p
     ELSE IF ~Reversing(s.position, d.target) THEN Submit(p, "direct", qty, d, ts)
     ELSE [Submit(p, "reversal_close", qty, d, ts) EXCEPT !.reversal =
             [phase |-> "closing", latest |-> d, price |-> price,
              closeOrder |-> Len(s.orders) + 1]]

OnTrade(s, ts, price) ==
  IF InWindow(ts)
  THEN ExecutePending(AdvanceConfirmedReversal(s, ts, price), ts, price)
  ELSE s

(* A feature row that is not ready, or a size the instrument cannot trade, *)
(* stops the run.                                                          *)
OnBar(s, ts, ret, close) ==
  LET signal == MomentumSignal(ret) IN
  CASE ~InWindow(ts) -> s
    [] InWindow(ts) ->
         IF ret = None \/ (signal # "flat" /\ Units(close) < MinQuantity)
         THEN [s EXCEPT !.error = TRUE]
         ELSE QueueDecision(s, [ts |-> ts, target |-> TargetQuantity(signal, close)],
                            close)

FlatByOrder(s) == /\ s.orders[s.reversal.closeOrder].status = "filled"
                  /\ s.position = 0 /\ s.inbox # <<>>  \* mutant: fill event only
FlatConfirmed(s) == /\ ~UnsettledOrders(s)
                    /\ s.orders[s.reversal.closeOrder].status = "filled"
                    /\ s.position = 0

(* Called by every fill and position event: the first one that finds the   *)
(* close order filled and the position gone confirms the book is flat.     *)
Closing(s) == s.reversal # None /\ s.reversal.phase = "closing"
ConfirmOnly(s, ts) ==                        \* mutant: waits for the next open
  IF Closing(s) /\ FlatConfirmed(s)
  THEN [s EXCEPT !.reversal.phase = "flat_confirmed"] ELSE s
ObserveReversalConfirmation(s, ts) ==
  IF Closing(s) /\ FlatConfirmed(s)
  THEN SubmitReversalOpen([s EXCEPT !.reversal.phase = "flat_confirmed"], ts,
                          s.reversal.price)
  ELSE s

LastCapacity(i, close) == Units(close)       \* mutant: forgets larger targets
NextCapacity(i, close) ==
  IF capacity[i] < Units(close) THEN Units(close) ELSE capacity[i]

-----------------------------------------------------------------------------
Init ==
  /\ venue \in {"prompt", "any"}
  /\ clock = 0 /\ served = {} /\ outcome = "running"
  /\ capacity = [i \in Instruments |-> 1]
  /\ book = [i \in Instruments |-> Idle]

(* Every callback of a settlement returns before the next event. *)
Ready == /\ outcome = "running"
         /\ \A i \in Instruments : ~book[i].error /\ book[i].inbox = <<>>

(* The prompt engine settles all orders before it delivers more data. *)
MarketReady == /\ Ready /\ clock <= LastTs
               /\ venue = "prompt" =>
                    \A i \in Instruments : ~UnsettledOrders(book[i])

(* The open of a bar, published as a trade tick. *)
Trade(i, price) ==
  /\ MarketReady /\ IsOpen(clock) /\ i \notin served
  /\ served' = served \cup {i}
  /\ book' = [book EXCEPT ![i] = OnTrade(@, clock, price)]
  /\ UNCHANGED <<venue, clock, capacity, outcome>>

(* The close of a bar: a decision, and the size of the ticks to come. *)
BarClose(i, ret, close) ==
  /\ MarketReady /\ ~IsOpen(clock) /\ i \notin served
  /\ served' = served \cup {i}
  /\ book' = [book EXCEPT ![i] = OnBar(@, clock, ret, close)]
  /\ capacity' = [capacity EXCEPT ![i] = NextCapacity(i, close)]
  /\ UNCHANGED <<venue, clock, outcome>>

NextInstant ==
  /\ MarketReady /\ served = Instruments
  /\ clock' = clock + 1 /\ served' = {}
  /\ UNCHANGED <<venue, capacity, book, outcome>>

(* An order after the engine fills q of it on a tick of the given size.    *)
FilledOrder(o, q, size) ==
  [o EXCEPT !.filled = @ + q,
            !.status = IF q = o.qty - o.filled THEN "filled" ELSE @,
            !.onTime = @ /\ clock = o.expected /\ Abs(o.qty) <= size]

(* What the engine leaves of s when it fills q of order k.  The order is   *)
(* updated at once; the position either with it or when its own event is   *)
(* published.                                                              *)
Filled(s, k, q, cached, size) ==
  [s EXCEPT !.orders[k] = FilledOrder(@, q, size),
            !.position = IF cached THEN @ + q ELSE @,
            !.inbox = <<[apply |-> 0], [apply |-> IF cached THEN 0 ELSE q]>>]

(* The venue fills an order, wholly or in part, at the price the audit     *)
(* expects when it does so on the tick the order was sent for and within   *)
(* its size.                                                               *)
Fill(i, k) ==
  /\ Ready /\ clock <= LastTs
  /\ k \in DOMAIN book[i].orders /\ Submitted(book[i].orders[k])
  /\ LET left == book[i].orders[k].qty - book[i].orders[k].filled
     IN \E q \in {left} \cup (IF venue = "prompt" \/ Abs(left) = 1 THEN {}
                              ELSE {IF left > 0 THEN 1 ELSE -1}),
           cached \in BOOLEAN :
          book' = [book EXCEPT ![i] = Filled(@, k, q, cached, capacity[i])]
  /\ UNCHANGED <<venue, clock, served, capacity, outcome>>

(* on_order_filled, on_position_changed and on_position_closed: the        *)
(* strategy after the next event of its inbox.                             *)
Delivered(s) ==
  LET e == Head(s.inbox) IN
  ObserveReversalConfirmation(
    [s EXCEPT !.inbox = Tail(@), !.position = @ + e.apply], clock)

Deliver(i) ==
  /\ outcome = "running" /\ ~book[i].error /\ book[i].inbox # <<>>
  /\ book' = [book EXCEPT ![i] = Delivered(@)]
  /\ UNCHANGED <<venue, clock, served, capacity, outcome>>

Reject(i, k) ==
  /\ Ready /\ venue = "any" /\ clock <= LastTs
  /\ k \in DOMAIN book[i].orders /\ Submitted(book[i].orders[k])
  /\ book' = [book EXCEPT ![i].orders[k].status = "rejected"]
  /\ UNCHANGED <<venue, clock, served, capacity, outcome>>

(* on_stop cancels what is still unsettled when the data has ended. *)
Stopped(s) ==
  [s EXCEPT !.orders = [k \in DOMAIN @ |->
     IF Submitted(@[k]) THEN [@[k] EXCEPT !.status = "canceled"] ELSE @[k]]]

OnStop ==
  /\ Ready /\ clock > LastTs
  /\ book' = [i \in Instruments |-> Stopped(book[i])]
  /\ outcome' = "stopped"
  /\ UNCHANGED <<venue, clock, served, capacity>>

(* The runner's audit of the fills, and of the terminal state. *)
RequireExecutionContract(s) ==
  /\ ~s.missed
  /\ \A k \in DOMAIN s.orders :
       /\ s.orders[k].status = "filled" /\ s.orders[k].onTime
       /\ s.orders[k].decision < s.orders[k].expected

CollectReports ==
  /\ outcome = "stopped"
  /\ outcome' = IF \A i \in Instruments :
                     RequireExecutionContract(book[i]) /\ book[i].reversal = None
                THEN "accepted" ELSE "failed"
  /\ UNCHANGED <<venue, clock, served, capacity, book>>

(* A callback that raised ends the run. *)
StrategyError ==
  /\ outcome = "running" /\ \E i \in Instruments : book[i].error
  /\ outcome' = "failed"
  /\ UNCHANGED <<venue, clock, served, capacity, book>>

Settle == \E i \in Instruments :
            \/ Deliver(i)
            \/ \E k \in DOMAIN book[i].orders : Fill(i, k) \/ Reject(i, k)

Next ==
  \/ \E i \in Instruments, price \in Prices :
       \/ Trade(i, price)
       \/ \E ret \in Returns \cup {None} : BarClose(i, ret, price)
  \/ NextInstant \/ Settle \/ OnStop \/ CollectReports \/ StrategyError

Spec == Init /\ [][Next]_vars
-----------------------------------------------------------------------------
(* A decision waiting for its open, and a reversal in progress. *)
DecisionType == [ts : Nat, target : Int]
ReversalType == [phase : {"closing", "flat_confirmed"}, latest : DecisionType,
                 price : Prices, closeOrder : Nat \ {0}]
(* None is neither. *)
ASSUME NoneAssumption == None \notin DecisionType \cup ReversalType

OrderType == [leg : {"direct", "reversal_close", "reversal_open"}, qty : Int,
              filled : Int, status : {"submitted", "filled", "rejected", "canceled"},
              decision : Nat, expected : Nat, onTime : BOOLEAN]
BookType == [position : Int, orders : Seq(OrderType),
             pending : DecisionType \cup {None}, reversal : ReversalType \cup {None},
             goal : Int, missed : BOOLEAN, error : BOOLEAN,
             inbox : Seq([apply : Int])]

(* The types of the variables. *)
TypeOK ==
  /\ venue \in {"prompt", "any"}
  /\ clock \in Nat /\ served \subseteq Instruments
  /\ capacity \in [Instruments -> Nat]
  /\ book \in [Instruments -> BookType]
  /\ outcome \in {"running", "stopped", "accepted", "failed"}

(* The strategy never has two orders of an instrument at work: every place *)
(* that submits one checks the cache for unsettled orders first, also when *)
(* the venue is slow and decisions queue up behind an order.               *)
OneOrderAtATime ==
  \A i \in Instruments : \A j, k \in DOMAIN book[i].orders :
    Submitted(book[i].orders[j]) /\ Submitted(book[i].orders[k]) => j = k

(* A decision never waits for its open while a reversal is in progress: it *)
(* replaces the reversal's target instead, so on_trade cannot act twice.   *)
PendingXorReversal ==
  \A i \in Instruments : book[i].pending = None \/ book[i].reversal = None

(* A decision is executed at most once, and with one direct order or with  *)
(* the legs of a reversal, never both.                                     *)
ExecutedOnce ==
  \A i \in Instruments : \A j, k \in DOMAIN book[i].orders :
    LET o == book[i].orders[j]
        p == book[i].orders[k]
    IN j < k /\ o.decision = p.decision =>
         o.leg = "reversal_close" /\ p.leg = "reversal_open"

(* Every order is submitted inside the evaluation window and after its     *)
(* decision, even when a close fills late: the last decision of the window *)
(* cancels the opening leg.                                                *)
OrdersInWindow ==
  \A i \in Instruments : \A k \in DOMAIN book[i].orders :
    /\ InWindow(book[i].orders[k].expected)
    /\ book[i].orders[k].decision < book[i].orders[k].expected

(* An order never asks for more than the tick it executes on offers, so it *)
(* fills at the open's price: the tick carries the largest target of the   *)
(* bars closed before it.                                                  *)
OrderFitsTick ==
  \A i \in Instruments : \A k \in DOMAIN book[i].orders :
    Submitted(book[i].orders[k]) => Abs(book[i].orders[k].qty) <= capacity[i]

(* With the engine the runner uses, the audit after the run never fails:   *)
(* a run that is not accepted is one whose strategy raised.                *)
PromptRunAccepted ==
  venue = "prompt" /\ outcome = "failed" => \E i \in Instruments : book[i].error

(* With the same engine the position has reached the last target by the    *)
(* time the next bar closes, unless the leg it needed is too small to be   *)
(* an order at some price.                                                 *)
TracksTarget ==
  venue = "prompt" /\ Ready /\ ~IsOpen(clock) /\ InWindow(clock) =>
    \A i \in Instruments \ served :
      LET s == book[i]
          leg == IF Reversing(s.position, s.goal) THEN s.position
                 ELSE s.goal - s.position
      IN (\A price \in Prices : MeetsMinimumOrder(Abs(leg), price)) =>
           s.position = s.goal

(* No step takes a position from one side of the market to the other: a    *)
(* reversal passes through flat, whatever was decided in between.          *)
NeverThroughZero ==
  [][\A i \in Instruments : book[i].position * book'[i].position >= 0]_vars

(* What is booked of the position, also before its event is delivered, and *)
(* where the order at work takes it.                                       *)
Sent(s) == {k \in DOMAIN s.orders : Submitted(s.orders[k])}
Booked(s) == s.position + (IF s.inbox = <<>> THEN 0 ELSE s.inbox[Len(s.inbox)].apply)
WorkingOf(s) ==
  IF Sent(s) = {} THEN None
  ELSE LET o == s.orders[CHOOSE k \in Sent(s) : TRUE] IN Booked(s) + o.qty - o.filled

Positions == [i \in Instruments |-> Booked(book[i])]
Goals == [i \in Instruments |-> book[i].goal]
Workings == [i \in Instruments |-> WorkingOf(book[i])]

(* Each order is one leg toward the latest decision's target.              *)
Target == INSTANCE TargetFollower WITH
  position <- Positions, goal <- Goals, working <- Workings
FollowsTarget == Target!Spec

(* A reversal is finished, whichever of its events comes first, unless the *)
(* strategy raised; a venue that leaves it half done fails the run.        *)
ReversalEnds ==
  \A i \in Instruments :
    book[i].reversal # None
      ~> (\/ book[i].reversal = None \/ book[i].error
          \/ (venue = "any" /\ outcome = "failed"))
=============================================================================
