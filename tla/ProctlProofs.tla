---------------------------- MODULE ProctlProofs ----------------------------
(***************************************************************************)
(* Proofs, for every value of the constants, of the type invariant of     *)
(* Proctl and of its two breakpoint-table invariants.                      *)
(*                                                                         *)
(* The breakpoint tables and the target memory are handled as one record   *)
(* s = BP (hw, sw, mem, ctr): Break, Clear and the step over a software    *)
(* breakpoint in ThreadContext.Step all compute the next table with        *)
(* AfterSet and AfterClear, so the two lemmas about those operators carry  *)
(* the whole argument.                                                     *)
(***************************************************************************)
EXTENDS Proctl, TLAPS

(* The type of a breakpoint state.                                         *)
BPType == [hw : [Slots -> HwRec], sw : [Addr -> SwRec],
           mem : [Addr -> {Orig, TrapByte}], ctr : Nat]

(* BreakpointsInMemory and OneBreakpointPerAddress of a breakpoint state.  *)
BPOK(s) ==
  /\ \A a \in Addr :
       /\ s.sw[a].id # 0 <=> s.mem[a] = TrapByte
       /\ s.sw[a].id # 0 => s.sw[a].orig = Orig
  /\ \A i \in Slots :
       s.hw[i].id # 0 =>
         /\ ~SwAt(s.sw, s.hw[i].addr)
         /\ \A j \in Slots \ {i} : s.hw[j].id # 0 => s.hw[j].addr # s.hw[i].addr

(* The variable tuples are only shorthand in UNCHANGED.                   *)
USE DEF vars, target, ghost, dbpVars, ctlVars

(* BPOK of the current tables is the conjunction of the two invariants.   *)
LEMMA BPOKDef ==
  BPOK(BP) <=> BreakpointsInMemory /\ OneBreakpointPerAddress
BY DEF BPOK, BP, BPState, BreakpointsInMemory, OneBreakpointPerAddress

-----------------------------------------------------------------------------
(* A breakpoint state built from its fields has the type of its fields.   *)
LEMMA BPStateType ==
  ASSUME NEW h \in [Slots -> HwRec], NEW w \in [Addr -> SwRec],
         NEW m \in [Addr -> {Orig, TrapByte}], NEW n \in Nat
  PROVE  BPState(h, w, m, n) \in BPType
BY DEF BPState, BPType

(* The slot setBreakpoint takes exists when one is free: there are at    *)
(* most four slots, so the least free one is found by cases.              *)
LEMMA LowestFreeSlot ==
  ASSUME NEW h, FreeSlots(h) # {}
  PROVE  /\ LowestFree(h) \in FreeSlots(h)
         /\ \A j \in FreeSlots(h) : LowestFree(h) <= j
<1>1. FreeSlots(h) \subseteq 0 .. 3
  BY HWAssumption DEF FreeSlots, Slots
<1>2. \E x \in FreeSlots(h) : \A y \in FreeSlots(h) : x <= y
  <2>1. CASE 0 \in FreeSlots(h)
    BY <1>1, <2>1
  <2>2. CASE 0 \notin FreeSlots(h) /\ 1 \in FreeSlots(h)
    BY <1>1, <2>2
  <2>3. CASE 0 \notin FreeSlots(h) /\ 1 \notin FreeSlots(h) /\ 2 \in FreeSlots(h)
    BY <1>1, <2>3
  <2>4. CASE 0 \notin FreeSlots(h) /\ 1 \notin FreeSlots(h) /\ 2 \notin FreeSlots(h)
    BY <1>1, <2>4
  <2>. QED  BY <2>1, <2>2, <2>3, <2>4
<1>. QED  BY <1>2 DEF LowestFree

(* setBreakpoint on an address no breakpoint covers keeps both invariants *)
(* whichever slot LowestFree picks: the new record covers an address that *)
(* no other slot and no map entry covers.                                  *)
LEMMA AfterSetOK ==
  ASSUME NEW s \in BPType, BPOK(s), NEW a \in Addr, ~HasBP(s, a)
  PROVE  /\ AfterSet(s, a) \in BPType
         /\ BPOK(AfterSet(s, a))
<1> DEFINE n == s.ctr + 1
<1>1. n \in Nat /\ s.mem[a] \in {Orig, TrapByte}
  BY DEF BPType
<1>2. CASE FreeSlots(s.hw) # {}
  <2> DEFINE r == [addr |-> a, id |-> n, temp |-> FALSE]
             h2 == [s.hw EXCEPT ![LowestFree(s.hw)] = r]
  <2>1. AfterSet(s, a) = BPState(h2, s.sw, s.mem, n)
    BY <1>2 DEF AfterSet
  <2>2. r \in HwRec
    BY <1>1 DEF HwRec
  <2>3. /\ h2 \in [Slots -> HwRec]
        /\ \A j \in Slots : h2[j] = IF j = LowestFree(s.hw) THEN r ELSE s.hw[j]
    <3>1. s.hw \in [Slots -> HwRec]
      BY DEF BPType
    <3>2. LowestFree(s.hw) \in Slots
      BY <1>2, LowestFreeSlot DEF FreeSlots
    <3>. QED  BY <2>2, <3>1, <3>2
  <2>4. BPOK(BPState(h2, s.sw, s.mem, n))
    BY <2>3 DEF BPType, BPOK, BPState, HasBP, HWAt, SwAt
  <2>5. s.sw \in [Addr -> SwRec] /\ s.mem \in [Addr -> {Orig, TrapByte}]
    BY DEF BPType
  <2>6. BPState(h2, s.sw, s.mem, n) \in BPType
    BY <1>1, <2>3, <2>5 DEF BPState, BPType
  <2>. QED  BY <2>1, <2>4, <2>6
<1>3. CASE FreeSlots(s.hw) = {}
  <2> DEFINE w2 == [s.sw EXCEPT ![a] = [id |-> n, temp |-> FALSE, orig |-> s.mem[a]]]
             m2 == [s.mem EXCEPT ![a] = TrapByte]
  <2>1. AfterSet(s, a) = BPState(s.hw, w2, m2, n)
    BY <1>3 DEF AfterSet
  <2>2. s.mem[a] = Orig
    BY DEF BPType, BPOK, HasBP, SwAt
  <2>3. w2 \in [Addr -> SwRec] /\ m2 \in [Addr -> {Orig, TrapByte}]
    BY <1>1 DEF BPType, SwRec
  <2>4. BPOK(BPState(s.hw, w2, m2, n))
    BY <2>2, AddrAssumption DEF BPType, BPOK, BPState, HasBP, HWAt, SwAt
  <2>5. s.hw \in [Slots -> HwRec]
    BY DEF BPType
  <2>6. BPState(s.hw, w2, m2, n) \in BPType
    BY <1>1, <2>3, <2>5 DEF BPState, BPType
  <2>. QED  BY <2>1, <2>4, <2>6
<1>. QED  BY <1>2, <1>3

-----------------------------------------------------------------------------
(* clearBreakpoint on a covered address keeps both invariants.  When a    *)
(* software breakpoint covers the address, OneBreakpointPerAddress rules  *)
(* out a hardware one there, so the original byte is written back and the *)
(* address is left uncovered: the re-arm in ThreadContext.Step may Break  *)
(* it again.                                                              *)
LEMMA AfterClearOK ==
  ASSUME NEW s \in BPType, BPOK(s), NEW a \in Addr, HasBP(s, a)
  PROVE  /\ AfterClear(s, a) \in BPType
         /\ BPOK(AfterClear(s, a))
         /\ AfterClear(s, a).ctr = s.ctr
         /\ SwAt(s.sw, a) => ~HasBP(AfterClear(s, a), a)
<1>1. CASE HWAt(s.hw, a)
  <2>1. AfterClear(s, a) = BPState(ClearSlots(s.hw, a), s.sw, s.mem, s.ctr)
    BY <1>1 DEF AfterClear
  <2>2. ClearSlots(s.hw, a) \in [Slots -> HwRec]
    BY DEF ClearSlots, NoHw, HwRec, BPType
  <2>3. BPOK(BPState(ClearSlots(s.hw, a), s.sw, s.mem, s.ctr))
    BY DEF BPType, BPOK, BPState, ClearSlots, NoHw, SwAt
  <2>4. ~SwAt(s.sw, a)
    BY <1>1 DEF BPType, BPOK, HWAt
  <2>. QED  BY <2>1, <2>2, <2>3, <2>4, BPStateType DEF BPType, BPState
<1>2. CASE ~HWAt(s.hw, a)
  <2> DEFINE w2 == [s.sw EXCEPT ![a] = NoSw]
             m2 == [s.mem EXCEPT ![a] = s.sw[a].orig]
  <2>1. AfterClear(s, a) = BPState(s.hw, w2, m2, s.ctr)
    BY <1>2 DEF AfterClear
  <2>2. s.sw[a].id # 0 /\ s.sw[a].orig = Orig
    BY <1>2 DEF BPType, BPOK, HasBP, SwAt
  <2>3. w2 \in [Addr -> SwRec] /\ m2 \in [Addr -> {Orig, TrapByte}]
    BY <2>2 DEF BPType, NoSw, SwRec
  <2>4. BPOK(BPState(s.hw, w2, m2, s.ctr))
    BY <2>2 DEF BPType, BPOK, BPState, NoSw, SwAt, Orig, TrapByte
  <2>5. ~HasBP(BPState(s.hw, w2, m2, s.ctr), a)
    BY <1>2 DEF BPType, BPState, NoSw, HasBP, SwAt
  <2>. QED  BY <2>1, <2>3, <2>4, <2>5, BPStateType DEF BPType, BPState
<1>. QED  BY <1>1, <1>2

-----------------------------------------------------------------------------
(* The type of the variables of the traced process and of the ghost.       *)
TargetOK ==
  /\ live \subseteq Tid /\ born \subseteq Tid
  /\ tstate \in [Tid -> ThreadStates]
  /\ pc \in [Tid -> PCVal]
  /\ rf \in [Tid -> BOOLEAN]
  /\ sigstop \in [Tid -> BOOLEAN]
  /\ event \in [Tid -> Events]
  /\ eventMsg \in [Tid -> Tid]
  /\ expect \in [Tid -> SUBSET Addr]
  /\ diverged \subseteq Tid

Modes == {"run", "stop", "run1"}

(* The state and pending status a thread ends an instruction in are typed. *)
LEMMA EndsType ==
  ASSUME NEW ev \in Events, NEW mode \in Modes
  PROVE  EndState(ev, mode) \in ThreadStates /\ EndEvent(ev, mode) \in Events
BY DEF EndState, EndEvent, ThreadStates, Events, Modes

(* One instruction of t, started at any pc value, keeps the target typed. *)
LEMMA InstructionType ==
  ASSUME TargetOK, NEW t \in Tid, NEW p \in PCVal,
         NEW m \in [Addr -> {Orig, TrapByte}], NEW h \in [Slots -> HwRec],
         NEW mode \in Modes,
         Instruction(t, p, m, h, mode)
  PROVE  TargetOK'
<1>1. /\ EndState("trap", mode) \in ThreadStates /\ EndEvent("trap", mode) \in Events
      /\ EndState("none", mode) \in ThreadStates /\ EndEvent("none", mode) \in Events
      /\ EndState("clone", mode) \in ThreadStates /\ EndEvent("clone", mode) \in Events
      /\ EndEvent("exit", mode) \in Events
  BY EndsType DEF Events
<1>2. p \in Addr => p + 1 \in PCVal /\ Succ[p] \subseteq PCVal
  BY AddrAssumption DEF PCVal
<1>3. CASE TrapAt(m, p)
  BY <1>1, <1>2, <1>3 DEF Instruction, TrapAt, Ends, TargetOK
<1>4. CASE ~TrapAt(m, p) /\ HWAt(h, p) /\ ~rf[t]
  <2>1. /\ rf' = [rf EXCEPT ![t] = TRUE] /\ pc' = [pc EXCEPT ![t] = p]
        /\ Ends(t, "trap", mode)
        /\ UNCHANGED <<live, born, eventMsg, expect, diverged, sigstop>>
    BY <1>4, Zenon DEF Instruction, TrapAt
  <2>. QED  BY <1>1, <2>1 DEF Ends, TargetOK
<1>5. CASE ~TrapAt(m, p) /\ ~(HWAt(h, p) /\ ~rf[t]) /\ p \notin Addr
  BY <1>1, <1>5 DEF Instruction, TrapAt, Ends, TargetOK
<1>6. CASE ~TrapAt(m, p) /\ ~(HWAt(h, p) /\ ~rf[t]) /\ p \in Addr
  <2>1. Succ[p] \subseteq Addr /\ Succ[p] \subseteq PCVal
    BY <1>2, <1>6, AddrAssumption
  <2>0. /\ Retire(t, p) /\ rf' = [rf EXCEPT ![t] = FALSE] /\ UNCHANGED sigstop
    BY <1>6, Zenon DEF Instruction, TrapAt
  <2>2. expect' \in [Tid -> SUBSET Addr] /\ diverged' \subseteq Tid
        /\ rf' \in [Tid -> BOOLEAN] /\ sigstop' \in [Tid -> BOOLEAN]
    BY <2>0, <2>1 DEF Retire, TargetOK
  <2>3. CASE \/ Kind[p] \in {"op", "int3"}
             \/ Kind[p] = "clone" /\ born = Tid
    BY <1>1, <1>6, <2>1, <2>2, <2>3 DEF Instruction, TrapAt, Ends, TargetOK
  <2>4. CASE Kind[p] = "clone" /\ born # Tid
    <3>1. PICK c \in Tid \ born, q \in Succ[p] :
            /\ born' = born \cup {c} /\ live' = live \cup {c}
            /\ pc' = [pc EXCEPT ![t] = q, ![c] = q]
            /\ eventMsg' = [eventMsg EXCEPT ![t] = c]
            /\ tstate' = [tstate EXCEPT ![t] = EndState("clone", mode), ![c] = "new"]
            /\ event' = [event EXCEPT ![t] = EndEvent("clone", mode)]
      BY <1>6, <2>4, Zenon DEF Instruction, TrapAt
    <3>2. q \in PCVal
      BY <2>1, <3>1
    <3>. QED  BY <1>1, <2>2, <3>1, <3>2 DEF TargetOK, ThreadStates
  <2>5. CASE Kind[p] = "exit" /\ t # Main
    BY <1>1, <1>6, <2>2, <2>5 DEF Instruction, TrapAt, Ends, TargetOK, ThreadStates
  <2>6. CASE Kind[p] = "exit" /\ t = Main
    <3>1. /\ live' = {}
          /\ tstate' = [u \in Tid |-> IF u \in live THEN "dead" ELSE tstate[u]]
          /\ event' = [u \in Tid |-> IF u = Main THEN EndEvent("exit", mode)
                                    ELSE IF u \in live THEN "exit" ELSE event[u]]
          /\ pc' = [pc EXCEPT ![t] = p] /\ UNCHANGED <<born, eventMsg>>
      BY <1>6, <2>6, Zenon DEF Instruction, TrapAt
    <3>2. event' \in [Tid -> Events]
      BY <1>1, <3>1 DEF TargetOK, Events
    <3>. QED  BY <1>6, <2>2, <3>1, <3>2, AddrAssumption DEF TargetOK, ThreadStates, PCVal
  <2>. QED  BY <2>3, <2>4, <2>5, <2>6, <1>6, AddrAssumption
<1>. QED  BY <1>3, <1>4, <1>5, <1>6

(* So does a singleStep, which may consume a pending SIGSTOP instead.      *)
LEMMA SingleStepType ==
  ASSUME TargetOK, NEW t \in Tid, NEW p \in PCVal,
         NEW m \in [Addr -> {Orig, TrapByte}], NEW h \in [Slots -> HwRec],
         NEW mode \in Modes,
         SingleStep(t, p, m, h, mode)
  PROVE  TargetOK'
<1>1. CASE sigstop[t]
  <2>1. /\ sigstop' = [sigstop EXCEPT ![t] = FALSE] /\ pc' = [pc EXCEPT ![t] = p]
        /\ Ends(t, "none", mode)
        /\ UNCHANGED <<live, born, rf, eventMsg, expect, diverged>>
    BY <1>1, Zenon DEF SingleStep
  <2>2. EndState("none", mode) \in ThreadStates /\ EndEvent("none", mode) \in Events
    BY EndsType DEF Events
  <2>. QED  BY <2>1, <2>2 DEF Ends, TargetOK
<1>2. CASE ~sigstop[t]
  BY <1>2, InstructionType DEF SingleStep
<1>. QED  BY <1>1, <1>2

-----------------------------------------------------------------------------
(* The inductive invariant: the type invariant and the two breakpoint     *)
(* invariants.  Neither breakpoint invariant is inductive alone: the step *)
(* over a software breakpoint needs OneBreakpointPerAddress to know that   *)
(* Clear takes the software branch and writes the original byte back,     *)
(* which BreakpointsInMemory needs to hold of the stashed byte.            *)
Inv == TypeOK /\ BreakpointsInMemory /\ OneBreakpointPerAddress

(* The invariant split into the target's types and the breakpoint state.  *)
LEMMA InvParts ==
  ASSUME Inv
  PROVE  TargetOK /\ BP \in BPType /\ BPOK(BP)
<1>1. TargetOK
  BY DEF Inv, TypeOK, TargetOK
<1>2. BP \in BPType
  BY DEF Inv, TypeOK, BPType, BP, BPState
<1>3. BPOK(BP)
  BY BPOKDef DEF Inv
<1>. QED  BY <1>1, <1>2, <1>3

(* Writing a breakpoint state back through SetBP makes it the new state.  *)
LEMMA SetBPEffect ==
  ASSUME NEW s \in BPType, SetBP(s)
  PROVE  BP' = s
BY DEF SetBP, BP, BPState, BPType

(* A call that fails returns to the user in phase "idle"; one that        *)
(* succeeds goes on at ret.                                                *)
LEMMA ReturnType ==
  ASSUME NEW ok \in BOOLEAN, NEW ret \in Phases, running \in BOOLEAN, Return(ok, ret)
  PROVE  ctl' \in {ret, "idle"} /\ ctl' \in Phases /\ running' \in BOOLEAN
<1>1. CASE ok
  <2>1. ctl' = ret /\ running' = running
    BY <1>1, Zenon DEF Return
  <2>. QED  BY <2>1
<1>2. CASE ~ok
  <2>1. ctl' = "idle" /\ running' = FALSE
    BY <1>2, Zenon DEF Return
  <2>. QED  BY <2>1 DEF Phases
<1>. QED  BY <1>1, <1>2

(* What a ThreadContext.Step or .Continue leaves of the invariant; the     *)
(* caller's own UNCHANGED gives the rest.                                   *)
LEMMA ThreadOpOK ==
  ASSUME Inv, NEW t \in Tid, NEW mode \in {"stop", "run1"}, NEW ret \in Phases,
         ThreadOp(t, mode, ret)
  PROVE  /\ TargetOK'
         /\ BP' \in BPType /\ BPOK(BP')
         /\ ctl' \in Phases /\ running' \in BOOLEAN
<1> DEFINE a == pc[t] - 1
           s1 == AfterClear(BP, a)
<1>1. TargetOK /\ BP \in BPType /\ BPOK(BP)
  BY InvParts
<1>2. running \in BOOLEAN
  BY DEF Inv, TypeOK
<1>4. CASE ~Stopped(t) \/ (SwAt(sw, a) /\ ~Stopped(cur))
  <2>1. Return(FALSE, "idle") /\ UNCHANGED <<target, ghost, hw, sw, nextID>>
    BY <1>4, Zenon DEF ThreadOp, Fail
  <2>2. TargetOK' /\ BP' = BP
    BY <1>1, <2>1 DEF TargetOK, BP
  <2>3. "idle" \in Phases
    BY DEF Phases
  <2>. QED  BY <1>1, <1>2, <2>1, <2>2, <2>3, ReturnType
<1>5. CASE Stopped(t) /\ ~SwAt(sw, a)
  <2>1. /\ UNCHANGED <<mem, hw, sw, nextID>> /\ Return(TRUE, ret)
        /\ IF mode = "run1"
           THEN /\ Resume(t)
                /\ UNCHANGED <<live, born, pc, rf, sigstop, eventMsg, ghost>>
           ELSE SingleStep(t, pc[t], mem, hw, "stop")
    BY <1>5, Zenon DEF ThreadOp
  <2>2. BP' = BP
    BY <2>1 DEF BP
  <2>3. TargetOK'
    <3>1. CASE mode = "run1"
      <4>1. /\ tstate' = [tstate EXCEPT ![t] = "run"]
            /\ event' = [event EXCEPT ![t] = "none"]
            /\ UNCHANGED <<live, born, pc, rf, sigstop, eventMsg, expect, diverged>>
        BY <2>1, <3>1, Zenon DEF Resume
      <4>2. tstate' \in [Tid -> ThreadStates] /\ event' \in [Tid -> Events]
        BY <1>1, <4>1 DEF TargetOK, ThreadStates, Events
      <4>. QED  BY <1>1, <4>1, <4>2 DEF TargetOK
    <3>2. CASE mode # "run1"
      <4>1. SingleStep(t, pc[t], mem, hw, "stop")
        BY <2>1, <3>2
      <4>2. pc[t] \in PCVal /\ mem \in [Addr -> {Orig, TrapByte}] /\ hw \in [Slots -> HwRec]
        BY <1>1 DEF TargetOK, BPType, BP, BPState
      <4>3. "stop" \in Modes
        BY DEF Modes
      <4>. QED  BY <1>1, <4>1, <4>2, <4>3, SingleStepType
    <3>. QED  BY <3>1, <3>2
  <2>4. ctl' \in Phases /\ running' \in BOOLEAN
    BY <1>2, <2>1, ReturnType
  <2>. QED  BY <1>1, <2>2, <2>3, <2>4
<1>6. CASE Stopped(t) /\ SwAt(sw, a) /\ Stopped(cur)
  <2>1. /\ SingleStep(t, a, s1.mem, s1.hw, mode)
        /\ IF cur \in live' THEN SetBP(AfterSet(s1, a)) ELSE SetBP(s1)
        /\ Return(cur \in live', ret)
    BY <1>6, Zenon DEF ThreadOp
  <2>2. a \in Addr /\ a \in PCVal
    BY <1>6 DEF SwAt, PCVal
  <2>3. HasBP(BP, a) /\ SwAt(BP.sw, a)
    BY <1>6 DEF HasBP, BP, BPState
  <2>4. /\ s1 \in BPType /\ BPOK(s1)
        /\ ~HasBP(s1, a)
    BY <1>1, <2>2, <2>3, AfterClearOK
  <2>5. AfterSet(s1, a) \in BPType /\ BPOK(AfterSet(s1, a))
    BY <2>2, <2>4, AfterSetOK
  <2>6. TargetOK'
    <3>1. s1.mem \in [Addr -> {Orig, TrapByte}] /\ s1.hw \in [Slots -> HwRec]
      BY <2>4 DEF BPType
    <3>. QED  BY <1>1, <2>1, <2>2, <3>1, SingleStepType DEF Modes
  <2>7. BP' \in BPType /\ BPOK(BP')
    <3>1. CASE cur \in live'
      <4>1. SetBP(AfterSet(s1, a))
        BY <2>1, <3>1
      <4>. QED  BY <4>1, <2>5, SetBPEffect
    <3>2. CASE cur \notin live'
      <4>1. SetBP(s1)
        BY <2>1, <3>2
      <4>. QED  BY <4>1, <2>4, SetBPEffect
    <3>. QED  BY <3>1, <3>2
  <2>8. ctl' \in Phases /\ running' \in BOOLEAN
    <3>1. (cur \in live') \in BOOLEAN
      OBVIOUS
    <3>. QED  BY <1>2, <2>1, <3>1, ReturnType
  <2>. QED  BY <2>6, <2>7, <2>8
<1>. QED  BY <1>4, <1>5, <1>6

-----------------------------------------------------------------------------
(* The invariant after a step, from its parts.                             *)
LEMMA InvFromParts ==
  ASSUME TargetOK', BP' \in BPType, BPOK(BP'),
         threads' \subseteq Tid, cur' \in Tid, running' \in BOOLEAN,
         halt' \in BOOLEAN, ctl' \in Phases, todo' \subseteq Tid,
         wpid' \in Tid, child' \in Tid, nstep' \in 0 .. 2
  PROVE  Inv'
<1>1. BP' = BPState(hw', sw', mem', nextID')
  BY DEF BP
<1>2. /\ hw' \in [Slots -> HwRec] /\ sw' \in [Addr -> SwRec]
      /\ mem' \in [Addr -> {Orig, TrapByte}] /\ nextID' \in Nat
  BY <1>1 DEF BPType, BPState
<1>3. BreakpointsInMemory' /\ OneBreakpointPerAddress'
  BY <1>1, Zenon DEF BPOK, BPState, BreakpointsInMemory, OneBreakpointPerAddress
<1>4. TypeOK'
  BY <1>2 DEF TypeOK, TargetOK
<1>. QED  BY <1>3, <1>4 DEF Inv

(* HaltThreads only sets pending SIGSTOPs.                                 *)
LEMMA HaltThreadsType ==
  ASSUME TargetOK, HaltThreads
  PROVE  sigstop' \in [Tid -> BOOLEAN]
BY DEF HaltThreads, TargetOK

(* A thread of the target executing, taking a SIGSTOP or starting as a    *)
(* clone child keeps the invariant; none of them touches the tables.     *)
LEMMA ThreadStep ==
  ASSUME Inv, NEW t \in Tid,
         Execute(t) \/ DeliverStop(t) \/ ChildStarts(t)
  PROVE  Inv'
<1>1. TargetOK /\ BP \in BPType /\ BPOK(BP)
  BY InvParts
<1>2. BP' = BP
  BY DEF Execute, DeliverStop, ChildStarts, BP, dbpVars
<1>3. TargetOK'
  <2>1. CASE Execute(t)
    <3>1. Instruction(t, pc[t], mem, hw, "run")
      BY <2>1 DEF Execute
    <3>2. pc[t] \in PCVal /\ mem \in [Addr -> {Orig, TrapByte}] /\ hw \in [Slots -> HwRec]
      BY <1>1 DEF TargetOK, BPType, BP, BPState
    <3>3. "run" \in Modes
      BY DEF Modes
    <3>. QED  BY <1>1, <3>1, <3>2, <3>3, InstructionType
  <2>2. CASE DeliverStop(t) \/ ChildStarts(t)
    BY <1>1, <2>2 DEF DeliverStop, ChildStarts, TargetOK, ThreadStates, Events, ghost
  <2>. QED  BY <2>1, <2>2
<1>. QED
  BY <1>1, <1>2, <1>3, InvFromParts
     DEF Execute, DeliverStop, ChildStarts, Inv, TypeOK, dbpVars, ctlVars

(* The controller actions that call ThreadContext.Step or .Continue.      *)
LEMMA ThreadOpCallers ==
  ASSUME Inv,
         \/ \E t \in Tid : ContinueThread(t) \/ StepThread(t)
         \/ CloneChild \/ CloneParent \/ RtStep
  PROVE  Inv'
<1>1. TargetOK /\ BP \in BPType /\ BPOK(BP)
  BY InvParts
<1>2. /\ threads \subseteq Tid /\ cur \in Tid /\ halt \in BOOLEAN
      /\ todo \subseteq Tid /\ wpid \in Tid /\ child \in Tid /\ nstep \in 0 .. 2
  BY DEF Inv, TypeOK
<1>3. "cont" \in Phases /\ "cloneparent" \in Phases /\ "wait" \in Phases
      /\ "rtstep" \in Phases /\ "step" \in Phases
  BY DEF Phases
<1>4. CASE \E t \in Tid : ContinueThread(t)
  BY <1>2, <1>3, <1>4, ThreadOpOK, InvFromParts DEF ContinueThread
<1>5. CASE \E t \in Tid : StepThread(t)
  <2>1. PICK t \in Tid : StepThread(t)
    BY <1>5
  <2>2. CASE pc[t] \in Blocking
    <3>1. UNCHANGED <<target, ghost, hw, sw, nextID, ctl, running>>
      BY <2>1, <2>2 DEF StepThread
    <3>2. TargetOK' /\ BP' = BP
      BY <1>1, <3>1 DEF TargetOK, BP, target, ghost
    <3>. QED  BY <1>1, <1>2, <2>1, <3>1, <3>2, InvFromParts DEF StepThread, Inv, TypeOK
  <2>3. CASE pc[t] \notin Blocking
    BY <1>2, <1>3, <2>1, <2>3, ThreadOpOK, InvFromParts DEF StepThread
  <2>. QED  BY <2>2, <2>3
<1>6. CASE CloneChild \/ CloneParent
  BY <1>2, <1>3, <1>6, ThreadOpOK, InvFromParts DEF CloneChild, CloneParent
<1>7. CASE RtStep
  BY <1>2, <1>3, <1>7, ThreadOpOK, InvFromParts DEF RtStep
<1>. QED  BY <1>4, <1>5, <1>6, <1>7

(* The types of the controller's variables.                                *)
CtlOK ==
  /\ threads \subseteq Tid /\ cur \in Tid /\ halt \in BOOLEAN /\ running \in BOOLEAN
  /\ todo \subseteq Tid /\ wpid \in Tid /\ child \in Tid /\ nstep \in 0 .. 2
  /\ ctl \in Phases

(* The invariant after a step, from the types of the controller.          *)
LEMMA InvFromCtl ==
  ASSUME TargetOK', BP' \in BPType, BPOK(BP'), CtlOK'
  PROVE  Inv'
BY InvFromParts DEF CtlOK

(* The controller actions that leave the breakpoint tables alone.         *)
LEMMA ControllerSteps ==
  ASSUME Inv,
         \/ Continue \/ ContinueRun \/ \E t \in Tid : WaitEvent(t)
         \/ CloneWait \/ Dispatch \/ RtDone \/ Step \/ StepDone
         \/ \E t \in Tid : SwitchThread(t)
         \/ RequestManualStop
  PROVE  Inv'
<1>1. TargetOK /\ BP \in BPType /\ BPOK(BP)
  BY InvParts
<1>2. CtlOK
  BY DEF Inv, TypeOK, CtlOK
<1>3. CASE Continue \/ ContinueRun \/ Step \/ StepDone \/ \E t \in Tid : SwitchThread(t)
  <2>1. BP' = BP /\ TargetOK'
    BY <1>1, <1>3 DEF Continue, ContinueRun, Step, StepDone, SwitchThread,
                      BP, TargetOK, target, ghost
  <2>2. CtlOK'
    BY <1>2, <1>3 DEF Continue, ContinueRun, Step, StepDone, SwitchThread, CtlOK, Phases
  <2>. QED  BY <1>1, <2>1, <2>2, InvFromCtl
<1>4. CASE \E t \in Tid : WaitEvent(t)
  <2>1. PICK t \in Tid : WaitEvent(t)
    BY <1>4
  <2>2. BP' = BP /\ TargetOK'
    BY <1>1, <2>1 DEF WaitEvent, BP, TargetOK, Events, ghost
  <2>3. eventMsg[t] \in Tid
    BY <1>1 DEF TargetOK
  <2>4. /\ ctl' \in Phases /\ threads' \subseteq Tid /\ running' \in BOOLEAN
        /\ wpid' \in Tid /\ child' \in Tid
    BY <1>2, <2>1, <2>3 DEF WaitEvent, AddThread, CtlOK, Phases
  <2>5. CtlOK'
    BY <1>2, <2>1, <2>4 DEF WaitEvent, CtlOK
  <2>. QED  BY <1>1, <2>2, <2>5, InvFromCtl
<1>5. CASE CloneWait
  <2>1. BP' = BP /\ TargetOK'
    BY <1>1, <1>2, <1>5 DEF CloneWait, BP, TargetOK, Events, ghost
  <2>2. CtlOK'
    BY <1>2, <1>5 DEF CloneWait, AddThread, Fail, Return, CtlOK, Phases
  <2>. QED  BY <1>1, <2>1, <2>2, InvFromCtl
<1>6. CASE Dispatch \/ RtDone
  <2>1. sigstop' \in [Tid -> BOOLEAN]
    <3>1. CASE Dispatch
      <4>1. HaltThreads \/ UNCHANGED sigstop
        BY <3>1, Zenon DEF Dispatch
      <4>. QED  BY <1>1, <4>1, HaltThreadsType DEF TargetOK
    <3>2. CASE RtDone
      BY <1>1, <3>2, HaltThreadsType DEF RtDone
    <3>. QED  BY <1>6, <3>1, <3>2
  <2>2. BP' = BP /\ TargetOK'
    BY <1>1, <1>6, <2>1 DEF Dispatch, RtDone, BP, TargetOK, ghost
  <2>3. CtlOK'
    <3>1. CASE Dispatch
      <4>1. /\ cur' = wpid /\ UNCHANGED <<threads, halt, todo, wpid, child>>
            /\ \/ ctl' = "rtstep" /\ nstep' = 0 /\ running' = running
               \/ ctl' = "idle" /\ running' = FALSE /\ nstep' = nstep
        BY <3>1, Zenon DEF Dispatch
      <4>2. ctl' \in Phases /\ running' \in BOOLEAN /\ nstep' \in 0 .. 2
        <5>1. CASE ctl' = "rtstep" /\ nstep' = 0 /\ running' = running
          BY <1>2, <5>1 DEF CtlOK, Phases
        <5>2. CASE ctl' = "idle" /\ running' = FALSE /\ nstep' = nstep
          BY <1>2, <5>2 DEF CtlOK, Phases
        <5>. QED  BY <4>1, <5>1, <5>2
      <4>. QED  BY <1>2, <4>1, <4>2 DEF CtlOK
    <3>2. CASE RtDone
      BY <1>2, <3>2 DEF RtDone, CtlOK, Phases
    <3>. QED  BY <1>6, <3>1, <3>2
  <2>. QED  BY <1>1, <2>2, <2>3, InvFromCtl
<1>7. CASE RequestManualStop
  <2>1. BP' = BP /\ TargetOK'
    BY <1>1, <1>7 DEF RequestManualStop, BP, TargetOK, ghost
  <2>2. CtlOK'
    BY <1>2, <1>7 DEF RequestManualStop, CtlOK
  <2>. QED  BY <1>1, <2>1, <2>2, InvFromCtl
<1>. QED  BY <1>3, <1>4, <1>5, <1>6, <1>7

(* Break and Clear rewrite the tables through AfterSet and AfterClear.    *)
LEMMA BreakClear ==
  ASSUME Inv, NEW a \in Addr, Break(a) \/ Clear(a)
  PROVE  Inv'
<1>1. TargetOK /\ BP \in BPType /\ BPOK(BP)
  BY InvParts
<1>2. /\ threads \subseteq Tid /\ cur \in Tid /\ halt \in BOOLEAN /\ running \in BOOLEAN
      /\ todo \subseteq Tid /\ wpid \in Tid /\ child \in Tid /\ nstep \in 0 .. 2
      /\ ctl \in Phases
  BY DEF Inv, TypeOK
<1>3. TargetOK'
  BY <1>1 DEF Break, Clear, TargetOK, ghost
<1>4. CASE Break(a)
  <2>1. AfterSet(BP, a) \in BPType /\ BPOK(AfterSet(BP, a))
    BY <1>1, <1>4, AfterSetOK DEF Break
  <2>2. BP' = AfterSet(BP, a)
    BY <1>4, <2>1, SetBPEffect DEF Break
  <2>. QED  BY <1>2, <1>3, <1>4, <2>1, <2>2, InvFromParts DEF Break, ctlVars
<1>5. CASE Clear(a)
  <2>1. AfterClear(BP, a) \in BPType /\ BPOK(AfterClear(BP, a))
    BY <1>1, <1>5, AfterClearOK DEF Clear
  <2>2. BP' = AfterClear(BP, a)
    BY <1>5, <2>1, SetBPEffect DEF Clear
  <2>. QED  BY <1>2, <1>3, <1>5, <2>1, <2>2, InvFromParts DEF Clear, ctlVars
<1>. QED  BY <1>4, <1>5

-----------------------------------------------------------------------------
(* Attach and Launch leave the tables empty and the text unpatched.       *)
LEMMA InitInv == Init => Inv
<1> SUFFICES ASSUME Init PROVE Inv
  OBVIOUS
<1>1. Addr \subseteq PCVal /\ InitTids \subseteq Tid /\ Main \in Tid
  BY TidAssumption DEF PCVal
<1>2. TargetOK
  BY <1>1 DEF Init, TargetOK, ThreadStates, Events
<1>3. /\ hw \in [Slots -> HwRec] /\ sw \in [Addr -> SwRec]
      /\ mem \in [Addr -> {Orig, TrapByte}] /\ nextID \in Nat
  BY DEF Init, NoHw, NoSw, HwRec, SwRec
<1>4. BreakpointsInMemory /\ OneBreakpointPerAddress
  BY DEF Init, NoHw, NoSw, SwAt, Orig, TrapByte, BreakpointsInMemory, OneBreakpointPerAddress
<1>5. CtlOK
  <2>1. /\ threads = InitTids /\ cur \in InitTids /\ running = FALSE /\ halt = FALSE
        /\ ctl = "idle" /\ todo = {} /\ wpid = Main /\ child = Main /\ nstep = 0
    BY Zenon DEF Init
  <2>2. threads \subseteq Tid /\ cur \in Tid /\ todo \subseteq Tid /\ wpid \in Tid /\ child \in Tid
    BY <1>1, <2>1
  <2>3. nstep \in 0 .. 2
    BY <2>1
  <2>5. halt \in BOOLEAN /\ running \in BOOLEAN
    BY <2>1, Zenon
  <2>4. ctl \in Phases
    BY <2>1 DEF Phases
  <2>. QED  BY <2>2, <2>3, <2>4, <2>5 DEF CtlOK
<1>. QED  BY <1>2, <1>3, <1>4, <1>5 DEF Inv, TypeOK, TargetOK, CtlOK

(* Every step of the target or of the controller keeps the invariant.    *)
LEMMA NextInv == Inv /\ [Next]_vars => Inv'
<1> SUFFICES ASSUME Inv, [Next]_vars PROVE Inv'
  OBVIOUS
<1>1. CASE Next
  BY <1>1, ThreadStep, ThreadOpCallers, ControllerSteps, BreakClear DEF Next
<1>2. CASE UNCHANGED vars
  BY <1>2 DEF vars, target, ghost, dbpVars, ctlVars, Inv, TypeOK,
               BreakpointsInMemory, OneBreakpointPerAddress, SwAt
<1>. QED  BY <1>1, <1>2

(* Type correctness of the whole model: every variable keeps its type     *)
(* through every driver call, wait-status branch and target step.          *)
THEOREM TypeCorrect == Spec => []TypeOK
<1>1. Inv => TypeOK
  BY DEF Inv
<1>. QED  BY <1>1, InitInv, NextInv, PTL DEF Spec

(* For every program, thread set and number of hardware slots, the trap   *)
(* bytes in memory are exactly the software breakpoints, each stashing the *)
(* program's own byte, and no address is covered twice: Break, Clear and   *)
(* the Clear/singleStep/re-Break of ThreadContext.Step on any thread never *)
(* leave a stray int3 in the text.                                         *)
THEOREM BreakpointSafety ==
  Spec => [](BreakpointsInMemory /\ OneBreakpointPerAddress)
<1>1. Inv => BreakpointsInMemory /\ OneBreakpointPerAddress
  BY DEF Inv
<1>. QED  BY <1>1, InitInv, NextInv, PTL DEF Spec

(* In particular no two breakpoints ever cover one address: Break's       *)
(* BreakpointExists check and the Clear before Step's re-arm never let a  *)
(* hardware slot and a software breakpoint, or two slots, share it.       *)
THEOREM OneBreakpoint == Spec => []OneBreakpointPerAddress
BY BreakpointSafety, PTL

-----------------------------------------------------------------------------
(* The registry.  RunningThreadsRegistered is made inductive by what the  *)
(* controller's position inside a driver call says about the threads it   *)
(* is about to continue: the rest of a loop over dbp.Threads, the thread  *)
(* trapWait returned, and the clone child addThread stored.                *)
Busy(u) == (u \in live /\ tstate[u] = "run") \/ event[u] \in {"trap", "clone"}

CtlReg ==
  /\ ctl \in {"cont", "step"} => todo \subseteq threads
  /\ ctl \in {"clonewait", "clonechild", "cloneparent", "dispatch", "rtstep"}
       => wpid \in threads
  /\ ctl = "clonechild" => child \in threads

RegInv == RunningThreadsRegistered /\ CtlReg

(* RunningThreadsRegistered in terms of Busy, now and after a step.        *)
LEMMA RegDef ==
  RunningThreadsRegistered <=> \A u \in Tid : Busy(u) => u \in threads
BY DEF RunningThreadsRegistered, Busy

(* The same after a step.                                                 *)
LEMMA RegDefPrime ==
  RunningThreadsRegistered' <=> \A u \in Tid : Busy(u)' => u \in threads'
BY DEF RunningThreadsRegistered, Busy

(* An instruction of t neither starts another thread running (a clone    *)
(* child is "new" until its first stop) nor gives one a trap or clone     *)
(* status.                                                                 *)
LEMMA InstructionOthers ==
  ASSUME TargetOK, NEW t \in Tid, NEW p \in PCVal,
         NEW m \in [Addr -> {Orig, TrapByte}], NEW h \in [Slots -> HwRec],
         NEW mode \in Modes,
         Instruction(t, p, m, h, mode)
  PROVE  \A u \in Tid \ {t} : Busy(u)' => Busy(u)
<1> SUFFICES ASSUME NEW u \in Tid \ {t}, Busy(u)' PROVE Busy(u)
  OBVIOUS
<1>1. CASE TrapAt(m, p) \/ (~TrapAt(m, p) /\ HWAt(h, p) /\ ~rf[t])
        \/ (~TrapAt(m, p) /\ ~(HWAt(h, p) /\ ~rf[t]) /\ p \notin Addr)
  BY <1>1 DEF Instruction, Ends, Busy, TargetOK
<1>2. CASE ~TrapAt(m, p) /\ ~(HWAt(h, p) /\ ~rf[t]) /\ p \in Addr
  <2>1. CASE \/ Kind[p] \in {"op", "int3"}
             \/ Kind[p] = "clone" /\ born = Tid
    BY <1>2, <2>1 DEF Instruction, TrapAt, Ends, Busy, TargetOK
  <2>2. CASE Kind[p] = "clone" /\ born # Tid
    BY <1>2, <2>2 DEF Instruction, TrapAt, Ends, Busy, TargetOK
  <2>3. CASE Kind[p] = "exit"
    BY <1>2, <2>3 DEF Instruction, TrapAt, Ends, Busy, TargetOK
  <2>. QED  BY <1>2, <2>1, <2>2, <2>3, AddrAssumption
<1>. QED  BY <1>1, <1>2

(* A singleStep of t, with or without a pending SIGSTOP, makes no other  *)
(* thread busy.                                                            *)
LEMMA SingleStepOthers ==
  ASSUME TargetOK, NEW t \in Tid, NEW p \in PCVal,
         NEW m \in [Addr -> {Orig, TrapByte}], NEW h \in [Slots -> HwRec],
         NEW mode \in Modes,
         SingleStep(t, p, m, h, mode)
  PROVE  \A u \in Tid \ {t} : Busy(u)' => Busy(u)
<1>1. CASE sigstop[t]
  BY <1>1 DEF SingleStep, Ends, Busy, TargetOK
<1>2. CASE ~sigstop[t]
  BY <1>2, InstructionOthers DEF SingleStep
<1>. QED  BY <1>1, <1>2

(* A thread single-stepped in mode "stop" is left stopped with no status  *)
(* pending, or gone.                                                       *)
LEMMA SingleStepSelf ==
  ASSUME TargetOK, NEW t \in Tid, NEW p \in PCVal,
         NEW m \in [Addr -> {Orig, TrapByte}], NEW h \in [Slots -> HwRec],
         SingleStep(t, p, m, h, "stop")
  PROVE  ~Busy(t)'
<1>1. EndState("trap", "stop") = "stop" /\ EndEvent("trap", "stop") = "none"
      /\ EndState("none", "stop") = "stop" /\ EndEvent("none", "stop") = "none"
      /\ EndState("clone", "stop") = "stop" /\ EndEvent("clone", "stop") = "none"
      /\ EndEvent("exit", "stop") = "none"
  BY DEF EndState, EndEvent
<1>2. CASE sigstop[t]
  BY <1>1, <1>2 DEF SingleStep, Ends, Busy, TargetOK
<1>3. CASE ~sigstop[t]
  <2>1. Instruction(t, p, m, h, "stop")
    BY <1>3 DEF SingleStep
  <2>2. CASE TrapAt(m, p) \/ (~TrapAt(m, p) /\ HWAt(h, p) /\ ~rf[t])
          \/ (~TrapAt(m, p) /\ ~(HWAt(h, p) /\ ~rf[t]) /\ p \notin Addr)
    BY <1>1, <2>1, <2>2 DEF Instruction, Ends, Busy, TargetOK
  <2>3. CASE ~TrapAt(m, p) /\ ~(HWAt(h, p) /\ ~rf[t]) /\ p \in Addr
    <3>1. CASE Kind[p] # "exit"
      BY <1>1, <2>1, <2>3, <3>1 DEF Instruction, TrapAt, Ends, Busy, TargetOK
    <3>2. CASE Kind[p] = "exit"
      BY <1>1, <2>1, <2>3, <3>2 DEF Instruction, TrapAt, Ends, Busy, TargetOK
    <3>. QED  BY <3>1, <3>2
  <2>. QED  BY <2>2, <2>3
<1>. QED  BY <1>2, <1>3

(* ThreadContext.Step leaves its thread stopped, and .Continue resumes   *)
(* only the registered thread it is called on.                            *)
LEMMA ThreadOpReg ==
  ASSUME Inv, RunningThreadsRegistered,
         NEW t \in Tid, NEW mode \in {"stop", "run1"}, NEW ret \in Phases,
         ThreadOp(t, mode, ret),
         mode = "run1" => t \in threads,
         threads' = threads
  PROVE  /\ RunningThreadsRegistered'
         /\ ctl' \in {ret, "idle"}
<1> DEFINE a == pc[t] - 1
           s1 == AfterClear(BP, a)
<1>1. TargetOK /\ BP \in BPType /\ BPOK(BP)
  BY InvParts
<1>2. \A u \in Tid : Busy(u) => u \in threads
  BY RegDef
<1>3. ctl' \in {ret, "idle"}
  BY DEF ThreadOp, Fail, Return
<1>4. SUFFICES \A u \in Tid : Busy(u)' => u \in threads'
  BY <1>3, RegDefPrime
<1>5. CASE ~Stopped(t) \/ (SwAt(sw, a) /\ ~Stopped(cur))
  <2>1. UNCHANGED target
    BY <1>5 DEF ThreadOp
  <2>. QED  BY <1>2, <2>1 DEF Busy, target
<1>6. CASE Stopped(t) /\ ~SwAt(sw, a) /\ mode = "run1"
  <2>1. Resume(t) /\ UNCHANGED <<live, born, pc, rf, sigstop, eventMsg, ghost>>
    BY <1>6 DEF ThreadOp
  <2>. QED  BY <1>1, <1>2, <1>6, <2>1 DEF Resume, Busy, TargetOK
<1>7. CASE Stopped(t) /\ ~SwAt(sw, a) /\ mode = "stop"
  <2>1. SingleStep(t, pc[t], mem, hw, "stop")
    BY <1>7 DEF ThreadOp
  <2>2. pc[t] \in PCVal /\ mem \in [Addr -> {Orig, TrapByte}] /\ hw \in [Slots -> HwRec]
    BY <1>1 DEF TargetOK, BPType, BP, BPState
  <2>3. \A u \in Tid \ {t} : Busy(u)' => Busy(u)
    <3>1. "stop" \in Modes
      BY DEF Modes
    <3>. QED  BY <1>1, <2>1, <2>2, <3>1, SingleStepOthers
  <2>4. ~Busy(t)'
    BY <1>1, <2>1, <2>2, SingleStepSelf
  <2>. QED  BY <1>2, <2>3, <2>4
<1>8. CASE Stopped(t) /\ SwAt(sw, a) /\ Stopped(cur)
  <2>1. SingleStep(t, a, s1.mem, s1.hw, mode)
    BY <1>8 DEF ThreadOp
  <2>2. a \in PCVal /\ s1 \in BPType
    <3>1. a \in Addr /\ HasBP(BP, a)
      BY <1>8 DEF SwAt, HasBP, BP, BPState
    <3>. QED  BY <1>1, <3>1, AfterClearOK DEF PCVal
  <2>3. s1.mem \in [Addr -> {Orig, TrapByte}] /\ s1.hw \in [Slots -> HwRec]
    BY <2>2 DEF BPType
  <2>6. \A u \in Tid \ {t} : Busy(u)' => Busy(u)
    <3>1. mode \in Modes
      BY DEF Modes
    <3>. QED  BY <1>1, <2>1, <2>2, <2>3, <3>1, SingleStepOthers
  <2>4. \A u \in Tid \ {t} : Busy(u)' => u \in threads'
    BY <1>2, <2>6
  <2>5. Busy(t)' => t \in threads'
    BY <1>1, <2>1, <2>2, <2>3, SingleStepSelf
  <2>. QED  BY <2>4, <2>5
<1>. QED  BY <1>5, <1>6, <1>7, <1>8

(* Every step keeps the registry invariant: the clone branch of trapWait *)
(* stores the child before continuing it, and every thread a driver loop  *)
(* or trapWait hands to ThreadContext.Continue is registered.              *)
LEMMA NextReg == Inv /\ RegInv /\ [Next]_vars => RegInv'
<1> SUFFICES ASSUME Inv, RegInv, [Next]_vars PROVE RegInv'
  OBVIOUS
<1>1. TargetOK /\ BP \in BPType /\ BPOK(BP)
  BY InvParts
<1>2. \A u \in Tid : Busy(u) => u \in threads
  BY RegDef DEF RegInv
<1>0. CtlReg /\ RunningThreadsRegistered
  BY DEF RegInv
<1>20. wpid \in Tid /\ child \in Tid
  BY DEF Inv, TypeOK
<1>3. ASSUME NEW t \in Tid, Execute(t) \/ DeliverStop(t) \/ ChildStarts(t)
      PROVE  RegInv'
  <2>1. \A u \in Tid \ {t} : Busy(u)' => Busy(u)
    <3>1. CASE Execute(t)
      <4>1. Instruction(t, pc[t], mem, hw, "run")
        BY <3>1 DEF Execute
      <4>2. pc[t] \in PCVal /\ mem \in [Addr -> {Orig, TrapByte}] /\ hw \in [Slots -> HwRec]
        BY <1>1 DEF TargetOK, BPType, BP, BPState
      <4>3. "run" \in Modes
        BY DEF Modes
      <4>. QED  BY <1>1, <4>1, <4>2, <4>3, InstructionOthers
    <3>2. CASE DeliverStop(t) \/ ChildStarts(t)
      BY <1>1, <3>2 DEF DeliverStop, ChildStarts, Busy, TargetOK
    <3>. QED  BY <1>3, <3>1, <3>2
  <2>2. Busy(t)' => t \in threads
    <3>1. CASE Execute(t) \/ DeliverStop(t)
      BY <1>2, <3>1 DEF Execute, DeliverStop, Busy
    <3>2. CASE ChildStarts(t)
      BY <1>1, <3>2 DEF ChildStarts, Busy, TargetOK
    <3>. QED  BY <1>3, <3>1, <3>2
  <2>3. UNCHANGED <<threads, ctl, todo, wpid, child>>
    BY <1>3 DEF Execute, DeliverStop, ChildStarts
  <2>4. RunningThreadsRegistered'
    BY <1>2, <2>1, <2>2, <2>3, RegDefPrime
  <2>. QED  BY <1>0, <2>3, <2>4 DEF RegInv, CtlReg
<1>4. ASSUME NEW t \in Tid, ContinueThread(t) PROVE RegInv'
  <2>1. t \in threads /\ todo \subseteq threads /\ "cont" \in Phases
    BY <1>0, <1>4 DEF ContinueThread, CtlReg, Phases
  <2>2. RunningThreadsRegistered' /\ ctl' \in {"cont", "idle"}
    BY <1>0, <1>4, <2>1, ThreadOpReg DEF ContinueThread
  <2>. QED  BY <1>4, <2>1, <2>2 DEF ContinueThread, RegInv, CtlReg
<1>5. ASSUME NEW t \in Tid, StepThread(t) PROVE RegInv'
  <2>1. todo \subseteq threads /\ todo' \subseteq todo /\ threads' = threads
    BY <1>0, <1>5 DEF StepThread, CtlReg
  <2>2. CASE pc[t] \in Blocking
    <3>1. UNCHANGED <<live, tstate, event, ctl>>
      BY <1>5, <2>2 DEF StepThread
    <3>2. RunningThreadsRegistered'
      BY <1>2, <2>1, <3>1, RegDefPrime DEF Busy
    <3>. QED  BY <1>5, <2>1, <3>1, <3>2 DEF StepThread, RegInv, CtlReg
  <2>3. CASE pc[t] \notin Blocking
    <3>1. ThreadOp(t, "stop", "step") /\ "step" \in Phases
      BY <1>5, <2>3 DEF StepThread, Phases
    <3>2. RunningThreadsRegistered' /\ ctl' \in {"step", "idle"}
      BY <1>0, <1>5, <2>1, <3>1, ThreadOpReg
    <3>. QED  BY <1>5, <2>1, <3>2 DEF StepThread, RegInv, CtlReg
  <2>. QED  BY <2>2, <2>3
<1>6. CASE CloneChild \/ CloneParent \/ RtStep
  <2>1. CASE CloneChild
    <3>1. child \in threads /\ wpid \in threads /\ "cloneparent" \in Phases
      BY <1>0, <2>1 DEF CloneChild, CtlReg, Phases
    <3>2. RunningThreadsRegistered' /\ ctl' \in {"cloneparent", "idle"}
      BY <1>0, <1>20, <2>1, <3>1, ThreadOpReg DEF CloneChild
    <3>. QED  BY <2>1, <3>1, <3>2 DEF CloneChild, RegInv, CtlReg
  <2>2. CASE CloneParent
    <3>1. wpid \in threads /\ "wait" \in Phases
      BY <1>0, <2>2 DEF CloneParent, CtlReg, Phases
    <3>2. RunningThreadsRegistered' /\ ctl' \in {"wait", "idle"}
      BY <1>0, <1>20, <2>2, <3>1, ThreadOpReg DEF CloneParent
    <3>. QED  BY <2>2, <3>1, <3>2 DEF CloneParent, RegInv, CtlReg
  <2>3. CASE RtStep
    <3>1. wpid \in threads /\ "rtstep" \in Phases
      BY <1>0, <2>3 DEF RtStep, CtlReg, Phases
    <3>2. RunningThreadsRegistered' /\ ctl' \in {"rtstep", "idle"}
      BY <1>0, <1>20, <2>3, <3>1, ThreadOpReg DEF RtStep
    <3>. QED  BY <2>3, <3>1, <3>2 DEF RtStep, RegInv, CtlReg
  <2>. QED  BY <1>6, <2>1, <2>2, <2>3
<1>7. ASSUME NEW t \in Tid, WaitEvent(t) PROVE RegInv'
  <2>1. event[t] \in {"trap", "clone"} => t \in threads
    BY <1>2 DEF Busy
  <2>2. \A u \in Tid : Busy(u)' => Busy(u)
    BY <1>7 DEF WaitEvent, Busy
  <2>3. threads \subseteq threads'
    BY <1>7 DEF WaitEvent, AddThread
  <2>4. RunningThreadsRegistered'
    BY <1>2, <2>2, <2>3, RegDefPrime
  <2>5. CtlReg'
    <3>1. CASE event[t] = "clone"
      <4>1. /\ wpid' = t /\ child' = eventMsg[t] /\ UNCHANGED todo
            /\ \/ ctl' = "clonechild" /\ threads' = threads \cup {eventMsg[t]}
               \/ ctl' = "clonewait"
        BY <1>7, <3>1, Zenon DEF WaitEvent, AddThread
      <4>. QED  BY <2>1, <2>3, <3>1, <4>1 DEF CtlReg
    <3>2. CASE event[t] = "trap"
      <4>1. ctl' = "dispatch" /\ wpid' = t /\ UNCHANGED todo
        BY <1>7, <3>2, Zenon DEF WaitEvent
      <4>. QED  BY <2>1, <2>3, <3>2, <4>1 DEF CtlReg
    <3>3. CASE event[t] \notin {"trap", "clone"}
      <4>1. /\ ctl' \in {"exited", "idle", ctl} /\ ctl = "wait"
            /\ UNCHANGED <<threads, todo, wpid, child>>
        BY <1>7, <3>3, Zenon DEF WaitEvent
      <4>. QED  BY <4>1 DEF CtlReg
    <3>. QED  BY <3>1, <3>2, <3>3
  <2>. QED  BY <2>4, <2>5 DEF RegInv
<1>8. CASE CloneWait \/ Dispatch \/ RtDone \/ Continue \/ ContinueRun \/ Step \/ StepDone
  <2>1. UNCHANGED <<live, tstate>> /\ \A u \in Tid : event'[u] \in {event[u], "none"}
    BY <1>1, <1>8 DEF CloneWait, Dispatch, RtDone, Continue, ContinueRun, Step, StepDone,
                      TargetOK
  <2>2. threads \subseteq threads'
    BY <1>8 DEF CloneWait, AddThread, Dispatch, RtDone, Continue, ContinueRun, Step, StepDone
  <2>3. RunningThreadsRegistered'
    BY <1>2, <2>1, <2>2, RegDefPrime DEF Busy
  <2>4. CtlReg'
    <3>1. CASE CloneWait
      BY <1>0, <3>1 DEF CloneWait, AddThread, Fail, Return, CtlReg
    <3>2. CASE Dispatch
      <4>1. ctl' \in {"rtstep", "idle"} /\ wpid \in threads /\ UNCHANGED <<threads, wpid>>
        BY <3>2, Zenon DEF Dispatch
      <4>. QED  BY <4>1 DEF CtlReg
    <3>3. CASE Continue \/ Step
      BY <3>3 DEF Continue, Step, CtlReg
    <3>4. CASE RtDone \/ ContinueRun \/ StepDone
      BY <3>4 DEF RtDone, ContinueRun, StepDone, CtlReg
    <3>. QED  BY <1>8, <3>1, <3>2, <3>3, <3>4
  <2>. QED  BY <2>3, <2>4 DEF RegInv
<1>9. ASSUME NEW a \in Addr, Break(a) \/ Clear(a) PROVE RegInv'
  <2>1. UNCHANGED <<live, tstate, event, threads, ctl, todo, wpid, child>>
    BY <1>9 DEF Break, Clear
  <2>. QED  BY <1>0, <2>1 DEF RegInv, RunningThreadsRegistered, CtlReg
<1>10. ASSUME NEW t \in Tid, SwitchThread(t) PROVE RegInv'
  <2>1. UNCHANGED <<live, tstate, event, threads, ctl, todo, wpid, child>>
    BY <1>10 DEF SwitchThread
  <2>. QED  BY <1>0, <2>1 DEF RegInv, RunningThreadsRegistered, CtlReg
<1>11. CASE RequestManualStop
  <2>1. UNCHANGED <<live, tstate, event, threads, ctl, todo, wpid, child>>
    BY <1>11 DEF RequestManualStop
  <2>. QED  BY <1>0, <2>1 DEF RegInv, RunningThreadsRegistered, CtlReg
<1>12. CASE UNCHANGED vars
  <2>1. UNCHANGED <<live, tstate, event, threads, ctl, todo, wpid, child>>
    BY <1>12
  <2>. QED  BY <1>0, <2>1 DEF RegInv, RunningThreadsRegistered, CtlReg
<1>. QED  BY <1>3, <1>4, <1>5, <1>6, <1>7, <1>8, <1>9, <1>10, <1>11, <1>12 DEF Next

(* In the states Attach and Launch leave, the threads that exist are the  *)
(* registered ones and all are stopped.                                    *)
LEMMA InitReg == Init => RegInv
<1> SUFFICES ASSUME Init PROVE RegInv
  OBVIOUS
<1>1. /\ live = InitTids /\ threads = InitTids /\ ctl = "idle"
      /\ event = [u \in Tid |-> "none"]
  BY Zenon DEF Init
<1>. QED  BY <1>1 DEF RegInv, RunningThreadsRegistered, CtlReg

(* For every program and thread set: every thread that runs, or has a     *)
(* trap or clone status pending, is in dbp.Threads, so the clone branch    *)
(* of trapWait never lets a new thread run unregistered and Continue's     *)
(* lookup of the thread trapWait returns never fails.                      *)
THEOREM ThreadsRegistered == Spec => []RunningThreadsRegistered
<1>1. Inv /\ RegInv => RunningThreadsRegistered
  BY DEF RegInv
<1>2. Inv /\ RegInv /\ [Next]_vars => (Inv /\ RegInv)'
  BY NextInv, NextReg
<1>. QED  BY <1>1, <1>2, InitInv, InitReg, PTL DEF Spec

=============================================================================
