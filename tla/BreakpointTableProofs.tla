------------------------- MODULE BreakpointTableProofs -------------------------
(***************************************************************************)
(* Proof that Proctl implements BreakpointTable's SpecWithLoss            *)
(* (BreakpointTableWithLoss) for every program, exits included.           *)
(*                                                                         *)
(* Break and Clear are BreakpointTable's Set and Unset.  ThreadContext.    *)
(* Step's step over a software breakpoint Clears it and Breaks it again   *)
(* through the current thread, which leaves the covered addresses as they *)
(* were when the current thread is still alive after the single step.     *)
(* When it is not, the deferred Break fails, the address is no longer     *)
(* covered and the driver call returns with that error in the same step:  *)
(* BreakpointTable's Lose.  Every other step leaves the tables alone, and *)
(* is a stutter or a Toggle of BreakpointTable.                           *)
(***************************************************************************)
EXTENDS ProctlProofs

(* The addresses a breakpoint state covers.                                *)
Covered(s) == {x \in Addr : HasBP(s, x)}

(* Setting a breakpoint on an uncovered address covers it, and nothing    *)
(* else changes.                                                           *)
LEMMA AfterSetCovered ==
  ASSUME NEW s \in BPType, BPOK(s), NEW a \in Addr, ~HasBP(s, a)
  PROVE  Covered(AfterSet(s, a)) = Covered(s) \cup {a}
<1> DEFINE n == s.ctr + 1
<1>1. n # 0
  BY DEF BPType
<1>2. CASE FreeSlots(s.hw) # {}
  <2> DEFINE k == LowestFree(s.hw)
             h2 == [s.hw EXCEPT ![k] = [addr |-> a, id |-> n, temp |-> FALSE]]
  <2>1. k \in Slots /\ s.hw[k].id = 0
    BY <1>2, LowestFreeSlot DEF FreeSlots
  <2>2. AfterSet(s, a) = BPState(h2, s.sw, s.mem, n)
    BY <1>2 DEF AfterSet
  <2>3. \A x \in Addr : HWAt(h2, x) <=> HWAt(s.hw, x) \/ x = a
    BY <1>1, <2>1 DEF HWAt, BPType
  <2>. QED  BY <2>2, <2>3 DEF Covered, HasBP, BPState
<1>3. CASE FreeSlots(s.hw) = {}
  <2> DEFINE w2 == [s.sw EXCEPT ![a] = [id |-> n, temp |-> FALSE, orig |-> s.mem[a]]]
  <2>1. AfterSet(s, a) = BPState(s.hw, w2, [s.mem EXCEPT ![a] = TrapByte], n)
    BY <1>3 DEF AfterSet
  <2>2. \A x \in Addr : SwAt(w2, x) <=> SwAt(s.sw, x) \/ x = a
    BY <1>1 DEF SwAt, BPType
  <2>3. AfterSet(s, a).hw = s.hw /\ AfterSet(s, a).sw = w2
    BY <2>1 DEF BPState
  <2>4. \A x \in Addr : HasBP(AfterSet(s, a), x) <=> HasBP(s, x) \/ x = a
    BY <2>2, <2>3 DEF HasBP
  <2>. QED  BY <2>4 DEF Covered
<1>. QED  BY <1>2, <1>3

(* Clearing a covered address uncovers it, and nothing else changes: no   *)
(* other breakpoint shares its address (OneBreakpointPerAddress).         *)
LEMMA AfterClearCovered ==
  ASSUME NEW s \in BPType, BPOK(s), NEW a \in Addr, HasBP(s, a)
  PROVE  Covered(AfterClear(s, a)) = Covered(s) \ {a}
<1>1. CASE HWAt(s.hw, a)
  <2>1. AfterClear(s, a) = BPState(ClearSlots(s.hw, a), s.sw, s.mem, s.ctr)
    BY <1>1 DEF AfterClear
  <2>2. ~SwAt(s.sw, a)
    BY <1>1 DEF HWAt, BPOK
  <2>3. \A x \in Addr : HWAt(ClearSlots(s.hw, a), x) <=> HWAt(s.hw, x) /\ x # a
    BY DEF HWAt, ClearSlots, NoHw, BPType
  <2>. QED  BY <2>1, <2>2, <2>3 DEF Covered, HasBP, BPState
<1>2. CASE ~HWAt(s.hw, a)
  <2>1. AfterClear(s, a) =
          BPState(s.hw, [s.sw EXCEPT ![a] = NoSw],
                  [s.mem EXCEPT ![a] = s.sw[a].orig], s.ctr)
    BY <1>2 DEF AfterClear
  <2>2. \A x \in Addr : SwAt([s.sw EXCEPT ![a] = NoSw], x) <=> SwAt(s.sw, x) /\ x # a
    BY DEF SwAt, NoSw, BPType
  <2>. QED  BY <1>2, <2>1, <2>2 DEF Covered, HasBP, BPState
<1>. QED  BY <1>1, <1>2

-----------------------------------------------------------------------------
(* A step that leaves the covered addresses alone is a BreakpointTable   *)
(* stutter, or a Toggle when a driver call starts or returns.             *)
LEMMA KeepCovered ==
  ASSUME Covered(BP') = Covered(BP)
  PROVE  [BT!Next]_BT!vars
<1>1. CASE (ctl' = "idle") = (ctl = "idle")
  BY <1>1 DEF BT!vars, Covered
<1>2. CASE (ctl' = "idle") # (ctl = "idle")
  <2>1. BT!Toggle
    BY <1>2 DEF BT!Toggle, Covered
  <2>. QED  BY <2>1 DEF BT!Next
<1>. QED  BY <1>1, <1>2

(* ThreadContext.Continue or Step of a thread leaves the covered addresses *)
(* as they were when the current thread survives it: the step over a      *)
(* software breakpoint Clears it and Breaks it again.                     *)
LEMMA ThreadOpCovered ==
  ASSUME Inv, NEW t \in Tid, NEW mode, NEW ret, ThreadOp(t, mode, ret), cur \in live'
  PROVE  Covered(BP') = Covered(BP)
<1> DEFINE a == pc[t] - 1
           s1 == AfterClear(BP, a)
<1>1. BP \in BPType /\ BPOK(BP)
  BY InvParts
<1>2. CASE ~Stopped(t) \/ (SwAt(sw, a) /\ ~Stopped(cur)) \/ (Stopped(t) /\ ~SwAt(sw, a))
  <2>1. UNCHANGED <<hw, sw, mem, nextID>>
    BY <1>2, Zenon DEF ThreadOp, target
  <2>. QED  BY <2>1 DEF BP
<1>3. CASE Stopped(t) /\ SwAt(sw, a) /\ Stopped(cur)
  <2>1. IF cur \in live' THEN SetBP(AfterSet(s1, a)) ELSE SetBP(s1)
    BY <1>3, Zenon DEF ThreadOp
  <2>2. a \in Addr /\ HasBP(BP, a) /\ SwAt(BP.sw, a)
    BY <1>3 DEF SwAt, HasBP, BP, BPState
  <2>3. s1 \in BPType /\ BPOK(s1) /\ ~HasBP(s1, a)
    BY <1>1, <2>2, AfterClearOK
  <2>4. BP' = AfterSet(s1, a)
    BY <2>1, <2>2, <2>3, AfterSetOK, SetBPEffect
  <2>5. Covered(s1) = Covered(BP) \ {a}
    BY <1>1, <2>2, AfterClearCovered
  <2>6. Covered(AfterSet(s1, a)) = Covered(s1) \cup {a}
    BY <2>2, <2>3, AfterSetCovered
  <2>7. a \in Covered(BP)
    BY <2>2 DEF Covered
  <2>. QED  BY <2>4, <2>5, <2>6, <2>7
<1>. QED  BY <1>2, <1>3

(* When the current thread dies during the single step over the software *)
(* breakpoint at a, the deferred Break fails: a is uncovered, and the      *)
(* driver call returns to the user with the error in the same step.        *)
LEMMA ThreadOpLoss ==
  ASSUME Inv, NEW t \in Tid, NEW mode, NEW ret, ThreadOp(t, mode, ret),
         cur \notin live', ctl # "idle"
  PROVE  [BT!NextWithLoss]_BT!vars
<1> DEFINE a == pc[t] - 1
           s1 == AfterClear(BP, a)
<1>1. BP \in BPType /\ BPOK(BP)
  BY InvParts
<1>2. CASE ~Stopped(t) \/ (SwAt(sw, a) /\ ~Stopped(cur)) \/ (Stopped(t) /\ ~SwAt(sw, a))
  <2>1. UNCHANGED <<hw, sw, mem, nextID>>
    BY <1>2, Zenon DEF ThreadOp, target
  <2>2. [BT!Next]_BT!vars
    BY <2>1, KeepCovered DEF BP
  <2>. QED  BY <2>2 DEF BT!NextWithLoss
<1>3. CASE Stopped(t) /\ SwAt(sw, a) /\ Stopped(cur)
  <2>0. /\ IF cur \in live' THEN SetBP(AfterSet(s1, a)) ELSE SetBP(s1)
        /\ Return(cur \in live', ret)
    BY <1>3, Zenon DEF ThreadOp
  <2>1. SetBP(s1) /\ ctl' = "idle"
    BY <2>0 DEF Return
  <2>2. a \in Addr /\ HasBP(BP, a)
    BY <1>3 DEF SwAt, HasBP, BP, BPState
  <2>3. s1 \in BPType /\ BPOK(s1)
    BY <1>1, <2>2, AfterClearOK
  <2>4. BP' = s1
    BY <2>1, <2>3, SetBPEffect
  <2>5. Covered(BP') = Covered(BP) \ {a} /\ a \in Covered(BP)
    BY <1>1, <2>2, <2>4, AfterClearCovered DEF Covered
  <2>6. ctl' = "idle"
    BY <2>1
  <2>7. BT!Lose(a)
    BY <2>5, <2>6 DEF BT!Lose, Covered
  <2>. QED  BY <2>2, <2>7 DEF BT!NextWithLoss
<1>. QED  BY <1>2, <1>3

(* A ThreadOp of a driver call is a BreakpointTable step: a stutter or a  *)
(* Toggle when the current thread survives it, a Lose when it does not.  *)
LEMMA ThreadOpRefines ==
  ASSUME Inv, NEW t \in Tid, NEW mode, NEW ret, ThreadOp(t, mode, ret), ctl # "idle"
  PROVE  [BT!NextWithLoss]_BT!vars
<1>1. CASE cur \in live'
  <2>1. [BT!Next]_BT!vars
    BY <1>1, ThreadOpCovered, KeepCovered
  <2>. QED  BY <2>1 DEF BT!NextWithLoss
<1>2. CASE cur \notin live'
  BY <1>2, ThreadOpLoss
<1>. QED  BY <1>1, <1>2

(* Every step of Proctl is a step of BreakpointTable's SpecWithLoss or a *)
(* stutter: Break and Clear are Set and Unset, the steps over a           *)
(* breakpoint keep the covered addresses or lose one as the call returns, *)
(* and all the other steps leave the tables alone.                        *)
LEMMA StepRefines ==
  ASSUME Inv, [Next]_vars
  PROVE  [BT!NextWithLoss]_BT!vars
<1>1. BP \in BPType /\ BPOK(BP)
  BY InvParts
<1>2. ASSUME UNCHANGED <<hw, sw, mem, nextID>> PROVE [BT!NextWithLoss]_BT!vars
  <2>1. BP' = BP
    BY <1>2 DEF BP
  <2>. QED  BY <2>1, KeepCovered DEF BT!NextWithLoss
<1>3. ASSUME NEW a \in Addr, Break(a) PROVE [BT!NextWithLoss]_BT!vars
  <2>1. ~HasBP(BP, a) /\ ctl = "idle" /\ ctl' = ctl /\ SetBP(AfterSet(BP, a))
    BY <1>3 DEF Break, ctlVars
  <2>2. BP' = AfterSet(BP, a)
    BY <1>1, <2>1, AfterSetOK, SetBPEffect
  <2>3. Covered(BP') = Covered(BP) \cup {a} /\ a \notin Covered(BP)
    BY <1>1, <2>1, <2>2, AfterSetCovered DEF Covered
  <2>4. BT!Set(a)
    BY <2>1, <2>3 DEF BT!Set, Covered
  <2>. QED  BY <2>4 DEF BT!Next, BT!NextWithLoss
<1>4. ASSUME NEW a \in Addr, Clear(a) PROVE [BT!NextWithLoss]_BT!vars
  <2>1. HasBP(BP, a) /\ ctl = "idle" /\ ctl' = ctl /\ SetBP(AfterClear(BP, a))
    BY <1>4 DEF Clear, ctlVars
  <2>2. BP' = AfterClear(BP, a)
    BY <1>1, <2>1, AfterClearOK, SetBPEffect
  <2>3. Covered(BP') = Covered(BP) \ {a} /\ a \in Covered(BP)
    BY <1>1, <2>1, <2>2, AfterClearCovered DEF Covered
  <2>4. BT!Unset(a)
    BY <2>1, <2>3 DEF BT!Unset, Covered
  <2>. QED  BY <2>4 DEF BT!Next, BT!NextWithLoss
<1>5. ASSUME \/ \E t \in Tid : ContinueThread(t) \/ StepThread(t)
             \/ CloneChild \/ CloneParent \/ RtStep
      PROVE  [BT!NextWithLoss]_BT!vars
  <2>1. child \in Tid /\ wpid \in Tid
    BY DEF Inv, TypeOK
  <2>2. CASE \E t \in Tid : ContinueThread(t)
    BY <2>2, ThreadOpRefines DEF ContinueThread
  <2>3. CASE \E t \in Tid : StepThread(t)
    <3>1. PICK t \in Tid : StepThread(t)
      BY <2>3
    <3>2. \/ ThreadOp(t, "stop", "step") /\ ctl # "idle"
          \/ UNCHANGED <<hw, sw, mem, nextID>>
      BY <3>1 DEF StepThread, target
    <3>. QED  BY <1>2, <3>2, ThreadOpRefines
  <2>4. CASE CloneChild \/ CloneParent \/ RtStep
    <3>1. /\ ctl # "idle"
          /\ \/ ThreadOp(child, "run1", "cloneparent")
             \/ ThreadOp(wpid, "run1", "wait")
             \/ ThreadOp(wpid, "stop", "rtstep")
      BY <2>4 DEF CloneChild, CloneParent, RtStep
    <3>. QED  BY <2>1, <3>1, ThreadOpRefines
  <2>. QED  BY <1>5, <2>2, <2>3, <2>4
<1>6. ASSUME NEW t \in Tid, Execute(t) \/ DeliverStop(t) \/ ChildStarts(t)
      PROVE  [BT!NextWithLoss]_BT!vars
  BY <1>2, <1>6 DEF Execute, DeliverStop, ChildStarts, dbpVars
<1>7. ASSUME \/ Continue \/ ContinueRun \/ \E t \in Tid : WaitEvent(t)
             \/ CloneWait \/ Dispatch \/ RtDone \/ Step \/ StepDone
             \/ \E t \in Tid : SwitchThread(t)
             \/ RequestManualStop \/ UNCHANGED vars
      PROVE  [BT!NextWithLoss]_BT!vars
  <2>1. UNCHANGED <<hw, sw, mem, nextID>>
    BY <1>7 DEF Continue, ContinueRun, WaitEvent, CloneWait, Dispatch, RtDone,
                Step, StepDone, SwitchThread, RequestManualStop,
                vars, target, ghost, dbpVars, ctlVars
  <2>. QED  BY <1>2, <2>1
<1>. QED  BY <1>3, <1>4, <1>5, <1>6, <1>7 DEF Next

(* For every program, exits included, and every number of threads and    *)
(* hardware slots, the breakpoint set the user sees changes only by Break *)
(* and Clear while no driver call runs, or loses the one breakpoint that  *)
(* ThreadContext.Step steps over when the current thread dies in that     *)
(* single step, in the step where the driver call returns the error of    *)
(* the failed deferred Break.                                              *)
THEOREM RefinementWithLoss == Spec => BreakpointTableWithLoss
<1>1. Init => BT!Init
  BY DEF Init, BT!Init, Covered, HasBP, HWAt, SwAt, BP, BPState, NoHw, NoSw
<1>2. Inv /\ [Next]_vars => Inv'
  BY NextInv DEF Inv
<1>3. Inv /\ [Next]_vars => [BT!NextWithLoss]_BT!vars
  BY StepRefines
<1>. QED  BY <1>1, <1>2, <1>3, InitInv, PTL
          DEF Spec, BreakpointTableWithLoss, BT!SpecWithLoss
=============================================================================
