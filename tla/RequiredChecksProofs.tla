------------------------ MODULE RequiredChecksProofs ------------------------
(***************************************************************************)
(* The strict check gate passes only what was green, for every workflow,   *)
(* every length of a rollup and every limit of the bounded list.           *)
(***************************************************************************)
EXTENDS RequiredChecks, SequenceTheorems, TLAPS

Items == [name : Names, state : Conclusions \cup {"QUEUED"}]

Succeeded(items) == \A k \in DOMAIN items : items[k].state \in {"SUCCESS", "NEUTRAL"}

(* What LiveGreen says of the live PR, of a frozen one. *)
FrozenGreen(items, base) ==
  /\ Succeeded(items)
  /\ RequiredChecksAt(base) # {}
  /\ RequiredChecksAt(base) \subseteq {items[k].name : k \in DOMAIN items}

Snapshot(o) ==
  /\ o = [head |-> o.head, base |-> o.base, items |-> o.items, required |-> o.required]
  /\ o.items \in Seq(Items)

(* A running operation's rollup was live when it began, so that a green one *)
(* is in the history, and its policy is that of its own base.               *)
OpInv ==
  op # None =>
    /\ Snapshot(op)
    /\ FrozenGreen(op.items, op.base) => [head |-> op.head, base |-> op.base] \in green
    /\ op.required # None => /\ op.required = RequiredChecksAt(op.base)
                             /\ RequiredChecksAt(op.base) # {}

GateInv == /\ jobs \subseteq Names /\ rollup \in Seq(Items)
           /\ OpInv /\ PassedWhileGreen

(* Only a success or a neutral conclusion counts as a success. *)
LEMMA SuccessCategory ==
  ASSUME NEW s, Category(s) = "success" PROVE s \in {"SUCCESS", "NEUTRAL"}
  BY DEF Category

(* A bounded list keeps items of the list, at their places. *)
LEMMA BoundedKeeps ==
  ASSUME NEW items \in Seq(Items), NEW k \in DOMAIN Bounded(items)
  PROVE  k \in DOMAIN items /\ Bounded(items)[k] = items[k]
<1> DEFINE n == IF Len(items) < ListLimit THEN Len(items) ELSE ListLimit
<1>1. n \in Nat /\ n <= Len(items)
  BY ChecksAssumption DEF ChecksAssumption
<1>2. Bounded(items) = SubSeq(items, 1, n)
  BY DEF Bounded
<1>3. k \in 1..n /\ SubSeq(items, 1, n)[k] = items[k]
  BY <1>1, <1>2
<1> QED
  BY <1>1, <1>2, <1>3

(* A check that changes its state leaves a rollup of items. *)
LEMMA StateChanged ==
  ASSUME NEW items \in Seq(Items), NEW k \in DOMAIN items,
         NEW s \in Conclusions \cup {"QUEUED"}
  PROVE  [items EXCEPT ![k].state = s] \in Seq(Items)
<1> DEFINE item == [items[k] EXCEPT !.state = s]
<1>1. items[k] \in Items
  BY ElementOfSeq
<1>2. item \in Items
  BY <1>1 DEF Items
<1>3. [items EXCEPT ![k] = item] \in Seq(Items)
  BY <1>2, ExceptSeq
<1> QED
  BY <1>3

(* What passes the gate is green by the policy it was judged with. *)
LEMMA GatePassesGreen ==
  ASSUME NEW items \in Seq(Items), NEW required, EvaluatePrChecks(items, required)
  PROVE  /\ Succeeded(items)
         /\ required \subseteq {items[k].name : k \in DOMAIN items}
<1>1. ASSUME NEW k \in DOMAIN items PROVE items[k].state \in {"SUCCESS", "NEUTRAL"}
  <2>1. Category(items[k].state) = "success"
    BY <1>1 DEF EvaluatePrChecks, Counts
  <2> QED
    BY <2>1, SuccessCategory
<1>2. DOMAIN ObservedCategories(items)
        = {Bounded(items)[k].name : k \in DOMAIN Bounded(items)}
  BY DEF ObservedCategories
<1>3. {Bounded(items)[k].name : k \in DOMAIN Bounded(items)}
        \subseteq {items[k].name : k \in DOMAIN items}
  BY BoundedKeeps
<1>4. required \subseteq DOMAIN ObservedCategories(items)
  BY DEF EvaluatePrChecks
<1> QED
  BY <1>1, <1>2, <1>3, <1>4 DEF Succeeded

-----------------------------------------------------------------------------
LEMMA GateInit == Init => GateInv
  BY DEF Init, GateInv, OpInv, PassedWhileGreen

(* Whatever happens outside keeps the rollup's type and loses no history. *)
LEMMA OutsideKeeps == GateInv /\ Outside => GateInv'
<1> SUFFICES ASSUME GateInv, Outside PROVE GateInv'
  OBVIOUS
<1>1. jobs' \subseteq Names /\ rollup' \in Seq(Items)
  <2>1. CASE CheckStarts
    BY <2>1 DEF CheckStarts, GateInv, Items
  <2>2. CASE CheckFinishes
    <3>1. PICK k \in DOMAIN rollup, s \in Conclusions :
            rollup' = [rollup EXCEPT ![k].state = s]
      BY <2>2 DEF CheckFinishes
    <3> QED
      BY <2>2, <3>1, StateChanged DEF CheckFinishes, GateInv
  <2>3. CASE CheckReruns
    <3>1. PICK k \in DOMAIN rollup : rollup' = [rollup EXCEPT ![k].state = "QUEUED"]
      BY <2>3 DEF CheckReruns
    <3> QED
      BY <2>3, <3>1, StateChanged DEF CheckReruns, GateInv
  <2>4. CASE Push
    BY <2>4 DEF Push, GateInv
  <2>5. CASE MainAdvances
    BY <2>5 DEF MainAdvances, GateInv
  <2> QED
    BY <2>1, <2>2, <2>3, <2>4, <2>5 DEF Outside
<1>2. green \subseteq green' /\ op' = op /\ passed' = passed
  BY DEF Outside
<1>3. OpInv'
  BY <1>2 DEF GateInv, OpInv, Snapshot, FrozenGreen, Succeeded
<1>4. PassedWhileGreen'
  BY <1>2 DEF GateInv, PassedWhileGreen
<1> QED
  BY <1>1, <1>3, <1>4 DEF GateInv

(* The snapshot takes the rollup and the history at one moment. *)
LEMMA AcquireKeeps == GateInv /\ Acquire => GateInv'
<1> SUFFICES ASSUME GateInv, Acquire PROVE GateInv'
  OBVIOUS
<1>1. Snapshot(op') /\ op'.required = None /\ op'.items = rollup
        /\ op'.head = head /\ op'.base = main
  BY DEF Acquire, Snapshot, GateInv
<1>2. FrozenGreen(rollup, main) => [head |-> head, base |-> main] \in green'
  BY DEF Acquire, NowGreen, LiveGreen, FrozenGreen, Succeeded
<1>3. OpInv'
  BY <1>1, <1>2 DEF OpInv, FrozenGreen, Succeeded, Snapshot
<1> QED
  BY <1>3 DEF GateInv, Acquire, PassedWhileGreen

(* The policy bound is that of the snapshot's base. *)
LEMMA BindKeeps == GateInv /\ BindRequiredChecks => GateInv'
<1> SUFFICES ASSUME GateInv, BindRequiredChecks PROVE GateInv'
  OBVIOUS
<1>1. Snapshot(op) /\ op # None
        /\ (FrozenGreen(op.items, op.base) => [head |-> op.head, base |-> op.base] \in green)
  BY DEF GateInv, OpInv, BindRequiredChecks
<1>2. OpInv'
  <2>1. CASE PolicySource(op) = {}
    BY <2>1 DEF BindRequiredChecks, OpInv
  <2>2. CASE PolicySource(op) # {}
    <3>1. op' = [head |-> op.head, base |-> op.base, items |-> op.items,
                 required |-> RequiredChecksAt(op.base)]
      BY <1>1, <2>2 DEF BindRequiredChecks, Snapshot, PolicySource
    <3>2. Snapshot(op') /\ op'.items = op.items /\ op'.base = op.base
            /\ op'.head = op.head /\ op'.required = RequiredChecksAt(op.base)
      BY <1>1, <3>1 DEF Snapshot
    <3>3. green' = green
      BY DEF BindRequiredChecks
    <3> QED
      BY <1>1, <2>2, <3>2, <3>3
      DEF OpInv, Snapshot, FrozenGreen, Succeeded, PolicySource
  <2> QED
    BY <2>1, <2>2
<1> QED
  BY <1>2 DEF GateInv, BindRequiredChecks, PassedWhileGreen

(* A gate that passes has judged a green rollup by its own base's policy. *)
LEMMA EvaluateKeeps == GateInv /\ Evaluate => GateInv'
<1> SUFFICES ASSUME GateInv, Evaluate PROVE GateInv'
  OBVIOUS
<1>1. op # None /\ op.required = RequiredChecksAt(op.base)
        /\ RequiredChecksAt(op.base) # {} /\ op.items \in Seq(Items)
  BY DEF GateInv, OpInv, Evaluate, Snapshot
<1>2. EvaluatePrChecks(op.items, op.required)
        => [head |-> op.head, base |-> op.base] \in green
  BY <1>1, GatePassesGreen DEF FrozenGreen, GateInv, OpInv
<1>3. PassedWhileGreen'
  BY <1>2 DEF Evaluate, PassedWhileGreen
<1> QED
  BY <1>3 DEF GateInv, Evaluate, OpInv

LEMMA GateStep == GateInv /\ [Next]_vars => GateInv'
<1> SUFFICES ASSUME GateInv, [Next]_vars PROVE GateInv'
  OBVIOUS
<1>1. CASE UNCHANGED vars
  BY <1>1 DEF vars, GateInv, OpInv, Snapshot, FrozenGreen, Succeeded, PassedWhileGreen
<1> QED
  BY <1>1, OutsideKeeps, AcquireKeeps, BindKeeps, EvaluateKeeps DEF Next

(* The strict check gate never passes a head and base that were not green   *)
(* at one moment since the operation began (PassedWhileGreen), however many *)
(* checks there are and whatever main's workflows require.                  *)
THEOREM GateIsSound == Spec => []PassedWhileGreen
<1>1. GateInv => PassedWhileGreen
  BY DEF GateInv
<1> QED
  BY <1>1, GateInit, GateStep, PTL DEF Spec
=============================================================================
