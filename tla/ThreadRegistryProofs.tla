------------------------- MODULE ThreadRegistryProofs -------------------------
(***************************************************************************)
(* Proof that the thread registry only ever holds threads the kernel     *)
(* created, and that CurrentThread is registered, for every program,      *)
(* thread set and number of hardware slots, exits included.              *)
(*                                                                         *)
(* The kernel creates threads only by clone, one per step, and names the   *)
(* child in the PtraceGetEventMsg value.  addThread registers that child  *)
(* (trapWait's clone branch and the ESRCH wait), and dbp.CurrentThread     *)
(* changes only in SwitchThread, after its lookup, and in Continue's       *)
(* dispatch, to the registered thread trapWait returned.  The inductive    *)
(* invariant BornInv says that every registered thread, every event       *)
(* message and the child being added were created, and that the current   *)
(* thread is registered.                                                   *)
(***************************************************************************)
EXTENDS ProctlProofs

BornInv ==
  /\ threads \subseteq born /\ cur \in threads
  /\ eventMsg \in [Tid -> born] /\ child \in born

(* A step of the target: the threads created grow by at most one, and     *)
(* every event message still names a created thread.                     *)
BornStep ==
  /\ eventMsg' \in [Tid -> born']
  /\ \/ born' = born
     \/ \E c \in Tid \ born : born' = born \cup {c}

(* An instruction creates at most a clone child, and names it.            *)
LEMMA InstructionBorn ==
  ASSUME eventMsg \in [Tid -> born],
         NEW t \in Tid, NEW p, NEW m, NEW h, NEW mode,
         Instruction(t, p, m, h, mode)
  PROVE  BornStep
<1>1. \/ UNCHANGED <<born, eventMsg>>
      \/ \E c \in Tid \ born : /\ born' = born \cup {c}
                               /\ eventMsg' = [eventMsg EXCEPT ![t] = c]
  BY Zenon DEF Instruction
<1>. QED  BY <1>1 DEF BornStep

(* So does a singleStep.                                                   *)
LEMMA SingleStepBorn ==
  ASSUME eventMsg \in [Tid -> born],
         NEW t \in Tid, NEW p, NEW m, NEW h, NEW mode,
         SingleStep(t, p, m, h, mode)
  PROVE  BornStep
<1>1. CASE sigstop[t]
  <2>1. UNCHANGED <<born, eventMsg>>
    BY <1>1, Zenon DEF SingleStep
  <2>. QED  BY <2>1 DEF BornStep
<1>2. CASE ~sigstop[t]
  BY <1>2, InstructionBorn DEF SingleStep
<1>. QED  BY <1>1, <1>2

(* And so does ThreadContext.Continue or Step of a thread.                 *)
LEMMA ThreadOpBorn ==
  ASSUME eventMsg \in [Tid -> born],
         NEW t \in Tid, NEW mode, NEW ret, ThreadOp(t, mode, ret)
  PROVE  BornStep
<1> DEFINE a == pc[t] - 1
           s1 == AfterClear(BP, a)
<1>1. CASE ~Stopped(t) \/ (SwAt(sw, a) /\ ~Stopped(cur))
  <2>1. UNCHANGED target
    BY <1>1, Zenon DEF ThreadOp
  <2>. QED  BY <2>1 DEF BornStep, target
<1>2. CASE Stopped(t) /\ ~SwAt(sw, a)
  <2>1. IF mode = "run1"
        THEN /\ Resume(t)
             /\ UNCHANGED <<live, born, pc, rf, sigstop, eventMsg, ghost>>
        ELSE SingleStep(t, pc[t], mem, hw, "stop")
    BY <1>2, Zenon DEF ThreadOp
  <2>2. CASE mode = "run1"
    <3>1. UNCHANGED <<born, eventMsg>>
      BY <2>1, <2>2
    <3>. QED  BY <3>1 DEF BornStep
  <2>3. CASE mode # "run1"
    BY <2>1, <2>3, SingleStepBorn
  <2>. QED  BY <2>2, <2>3
<1>3. CASE Stopped(t) /\ SwAt(sw, a) /\ Stopped(cur)
  <2>1. SingleStep(t, a, s1.mem, s1.hw, mode)
    BY <1>3, Zenon DEF ThreadOp
  <2>. QED  BY <2>1, SingleStepBorn
<1>. QED  BY <1>1, <1>2, <1>3

(* Attach or Launch registers every thread and makes one of them current. *)
LEMMA InitBorn == Init => BornInv
<1> SUFFICES ASSUME Init PROVE BornInv
  OBVIOUS
<1>1. /\ born = InitTids /\ threads = InitTids
      /\ cur \in InitTids /\ eventMsg = [u \in Tid |-> Main] /\ child = Main
  BY Zenon DEF Init
<1>. QED  BY <1>1, TidAssumption DEF BornInv

(* Every step keeps BornInv.                                               *)
LEMMA NextBorn ==
  ASSUME TypeOK, BornInv, [Next]_vars
  PROVE  BornInv'
<1>1. eventMsg \in [Tid -> born]
  BY DEF BornInv
<1>2. ASSUME BornStep, UNCHANGED <<threads, cur, child>>
      PROVE  BornInv'
  BY <1>2 DEF BornInv, BornStep
<1>3. ASSUME NEW t \in Tid, Execute(t) \/ DeliverStop(t) \/ ChildStarts(t)
      PROVE  BornInv'
  <2>1. CASE Execute(t)
    BY <1>1, <1>2, <2>1, InstructionBorn DEF Execute, dbpVars, ctlVars
  <2>2. CASE DeliverStop(t) \/ ChildStarts(t)
    BY <1>1, <1>2, <2>2 DEF DeliverStop, ChildStarts, BornStep, dbpVars, ctlVars
  <2>. QED  BY <1>3, <2>1, <2>2
<1>4. ASSUME \/ \E t \in Tid : ContinueThread(t) \/ StepThread(t)
             \/ CloneChild \/ CloneParent \/ RtStep
      PROVE  BornInv'
  <2>1. UNCHANGED <<threads, cur, child>>
    BY <1>4 DEF ContinueThread, StepThread, CloneChild, CloneParent, RtStep
  <2>2. CASE \E t \in Tid : ContinueThread(t)
    <3>1. PICK t \in Tid : ContinueThread(t)
      BY <2>2
    <3>. QED  BY <1>1, <1>2, <2>1, <3>1, ThreadOpBorn DEF ContinueThread
  <2>3. CASE \E t \in Tid : StepThread(t)
    <3>1. PICK t \in Tid : StepThread(t)
      BY <2>3
    <3>2. ThreadOp(t, "stop", "step") \/ UNCHANGED target
      BY <3>1 DEF StepThread
    <3>3. BornStep
      BY <1>1, <3>2, ThreadOpBorn DEF BornStep, target
    <3>. QED  BY <1>2, <2>1, <3>3
  <2>4. CASE CloneChild \/ CloneParent \/ RtStep
    <3>1. \/ ThreadOp(child, "run1", "cloneparent")
          \/ ThreadOp(wpid, "run1", "wait")
          \/ ThreadOp(wpid, "stop", "rtstep")
      BY <2>4 DEF CloneChild, CloneParent, RtStep
    <3>2. child \in Tid /\ wpid \in Tid
      BY DEF TypeOK
    <3>. QED  BY <1>1, <1>2, <2>1, <3>1, <3>2, ThreadOpBorn
  <2>. QED  BY <1>4, <2>2, <2>3, <2>4
<1>5. ASSUME NEW t \in Tid, WaitEvent(t) PROVE BornInv'
  <2>1. UNCHANGED <<born, eventMsg, cur>>
    BY <1>5 DEF WaitEvent
  <2>2. /\ threads \subseteq threads' /\ threads' \subseteq threads \cup {eventMsg[t]}
        /\ child' \in {child, eventMsg[t]}
    BY <1>5 DEF WaitEvent, AddThread
  <2>. QED  BY <1>1, <2>1, <2>2 DEF BornInv
<1>6. ASSUME CloneWait PROVE BornInv'
  <2>1. /\ UNCHANGED <<born, eventMsg, cur, child>>
        /\ threads \subseteq threads' /\ threads' \subseteq threads \cup {child}
    BY <1>6 DEF CloneWait, AddThread, Fail, Return
  <2>. QED  BY <2>1 DEF BornInv
<1>7. ASSUME Dispatch \/ \E t \in Tid : SwitchThread(t) PROVE BornInv'
  <2>1. /\ UNCHANGED <<born, eventMsg, threads, child>>
        /\ cur' \in threads
    BY <1>7 DEF Dispatch, SwitchThread, target, ctlVars
  <2>. QED  BY <2>1 DEF BornInv
<1>8. ASSUME \/ Continue \/ ContinueRun \/ RtDone \/ Step \/ StepDone
             \/ \E a \in Addr : Break(a) \/ Clear(a)
             \/ RequestManualStop \/ UNCHANGED vars
      PROVE  BornInv'
  <2>1. UNCHANGED <<born, eventMsg, threads, cur, child>>
    BY <1>8 DEF Continue, ContinueRun, RtDone, Step, StepDone, Break, Clear,
                RequestManualStop, vars, target, ghost, dbpVars, ctlVars
  <2>. QED  BY <2>1 DEF BornInv
<1>. QED  BY <1>3, <1>4, <1>5, <1>6, <1>7, <1>8 DEF Next

(* Every registered thread was created and CurrentThread is always        *)
(* registered, for every instance.                                         *)
THEOREM RegistryInvariant == Spec => []BornInv
BY InitBorn, NextBorn, TypeCorrect, PTL DEF Spec
=============================================================================
