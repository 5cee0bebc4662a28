--------------------------- MODULE TargetFollower ---------------------------
(***************************************************************************)
(* What the Stage 3 execution state machine promises of an instrument's    *)
(* position: it moves only by the order at work, one at a time, each of    *)
(* them a single leg toward the target decided last, and to flat first     *)
(* when that target is on the other side of the market.                    *)
(***************************************************************************)
EXTENDS Integers

CONSTANTS Instruments, None

VARIABLES position,   \* what is held, signed
          goal,       \* the target decided last
          working     \* the position the order at work aims at, or None

Leg(i) == IF position[i] * goal[i] < 0 THEN 0 ELSE goal[i]

Between(a, b) == IF a < b THEN a..b ELSE b..a

Init == /\ position = [i \in Instruments |-> 0]
        /\ goal = [i \in Instruments |-> 0]
        /\ working = [i \in Instruments |-> None]

Decide(i) == /\ goal' = [goal EXCEPT ![i] = goal'[i]] /\ goal'[i] \in Int
             /\ UNCHANGED <<position, working>>

Commit(i) == /\ working[i] = None /\ Leg(i) # position[i]
             /\ working' = [working EXCEPT ![i] = Leg(i)]
             /\ UNCHANGED <<position, goal>>

Settle(i) == /\ working[i] # None
             /\ \E p \in Between(position[i], working[i]) :
                  /\ position' = [position EXCEPT ![i] = p]
                  /\ working' = [working EXCEPT ![i] = IF p = @ THEN None ELSE @]
             /\ UNCHANGED goal

Drop == /\ working' \in [Instruments -> {None} \cup {working[i] : i \in Instruments}]
        /\ \A i \in Instruments : working'[i] \in {None, working[i]}
        /\ UNCHANGED <<position, goal>>

Next == Drop \/ \E i \in Instruments : Decide(i) \/ Commit(i) \/ Settle(i)

Spec == Init /\ [][Next]_<<position, goal, working>>
=============================================================================
