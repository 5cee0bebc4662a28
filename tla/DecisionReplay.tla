--------------------------- MODULE DecisionReplay ---------------------------
(***************************************************************************)
(* A backtest and the accounting-only replay of its decisions              *)
(* (Stage3DecisionReplayStrategy): the same data goes through an engine of *)
(* its own, with other fees or funding, to a strategy that takes each      *)
(* decision from the backtest instead of its features.                     *)
(*                                                                         *)
(* The replay runs after the backtest. The two share nothing but the data  *)
(* and the decisions, so here they run side by side: each event goes to    *)
(* both, and a decision is replayed when it is made.  Orders settle in     *)
(* each engine on its own.  Only a prompt backtest is replayed: the        *)
(* runner's audit accepts no other.                                        *)
(***************************************************************************)
EXTENDS MomentumStrategy

VARIABLE replay      \* per instrument: the replay's strategy and its orders

both == <<vars, replay>>

Replaying == venue = "prompt"

(* The replay's engine has delivered and settled all of the last event. *)
ReplayReady ==
  \A i \in Instruments :
    replay[i].inbox = <<>> /\ ~replay[i].error /\ ~UnsettledOrders(replay[i])

ReplayInit == Init /\ replay = [i \in Instruments |-> Idle]

(* The decision the backtest made at this bar, if it made one. *)
FrozenDecision(i) == IF book'[i].error THEN None ELSE [ts |-> clock, target |-> book'[i].goal]

(* A bar of the evaluation must have its decision. *)
OnReplayBar(s, ts, source, close) ==
  CASE ~InWindow(ts) -> s
    [] InWindow(ts) -> IF source = None THEN [s EXCEPT !.error = TRUE]
                       ELSE QueueDecision(s, source, close)

ReplayTrade(i, price) ==
  /\ ReplayReady /\ Trade(i, price)
  /\ replay' = IF Replaying THEN [replay EXCEPT ![i] = OnTrade(@, clock, price)] ELSE replay

ReplayBarClose(i, ret, close) ==
  /\ ReplayReady /\ BarClose(i, ret, close)
  /\ replay' = IF Replaying
               THEN [replay EXCEPT ![i] = OnReplayBar(@, clock, FrozenDecision(i), close)]
               ELSE replay

ReplayInstant == ReplayReady /\ NextInstant /\ UNCHANGED replay

(* The replay's engine publishes the next of its events. *)
ReplayDeliver ==
  /\ \E i \in Instruments :
       /\ ~replay[i].error /\ replay[i].inbox # <<>>
       /\ replay' = [replay EXCEPT ![i] = Delivered(@)]
  /\ UNCHANGED vars

(* The replay's engine fills an order, completely. *)
ReplayFill ==
  /\ \A i \in Instruments : replay[i].inbox = <<>> /\ ~replay[i].error
  /\ \E i \in Instruments, cached \in BOOLEAN : \E k \in DOMAIN replay[i].orders :
       /\ Submitted(replay[i].orders[k])
       /\ replay' = [replay EXCEPT ![i] =
            Filled(@, k, @.orders[k].qty, cached, capacity[i])]
  /\ UNCHANGED vars

ReplayStop == ReplayReady /\ OnStop /\ replay' = [i \in Instruments |-> Stopped(replay[i])]

ReplayNext ==
  \/ (Settle \/ CollectReports \/ StrategyError) /\ UNCHANGED replay
  \/ ReplayInstant \/ ReplayDeliver \/ ReplayFill \/ ReplayStop
  \/ \E i \in Instruments, price \in Prices :
       \/ ReplayTrade(i, price)
       \/ \E ret \in Returns \cup {None} : ReplayBarClose(i, ret, price)

(* engine.run consumes all the data it was given, then stops the strategy. *)
FairSpec == ReplayInit /\ [][ReplayNext]_both /\ WF_both(ReplayNext)

-----------------------------------------------------------------------------
Settled(s) == s.error \/ (s.inbox = <<>> /\ ~UnsettledOrders(s))

(* The replay trades exactly as the backtest did, although fills and       *)
(* positions may be reported to it in another order: fees and funding are  *)
(* all that a scenario changes, which is what the comparison of the        *)
(* scenarios and the doubled fee of the accounting fixtures rest on.       *)
ReplayTradesAlike ==
  /\ Replaying /\ MarketReady /\ ReplayReady => replay = book
  /\ Replaying => \A i \in Instruments :
       Settled(book[i]) /\ Settled(replay[i]) => replay[i].error = book[i].error
  /\ Replaying /\ outcome = "accepted" =>
       \A i \in Instruments :
         RequireExecutionContract(replay[i]) /\ replay[i].reversal = None
=============================================================================
