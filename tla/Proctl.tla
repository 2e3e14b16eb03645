------------------------------- MODULE Proctl -------------------------------
(***************************************************************************)
(* The process-control core of the debugger (package proctl, ptrace host). *)
(*                                                                         *)
(* Two kinds of actors interleave:                                         *)
(*  - the threads of the traced process, which execute instructions, hit  *)
(*    software traps (int3 bytes the debugger wrote) or hardware          *)
(*    breakpoints, clone new threads, exit, and take delivery of SIGSTOP; *)
(*  - the single-threaded debugger controller (DebuggedProcess), whose    *)
(*    driver calls Continue and Step are loops over the thread registry   *)
(*    and a wait loop (trapWait), and whose RequestManualStop may be      *)
(*    called at any moment from a signal handler.                         *)
(* Every ptrace request that needs a thread in signal-delivery-stop        *)
(* fails (ESRCH) when that thread is running or gone.  Breakpoints are    *)
(* written through the CURRENT thread (Break/Clear use CurrentThread.Id). *)
(*                                                                         *)
(* The ghost variables expect/diverged record whether the debugger ever   *)
(* makes a thread execute an instruction that the program's own control   *)
(* flow could not have executed next (the debugger must be transparent).  *)
(***************************************************************************)
EXTENDS Naturals, FiniteSets

CONSTANTS
  Tid,       \* kernel thread ids the target may ever use
  Main,      \* the thread whose id is the process id (dbp.Pid)
  InitTids,  \* threads present when Attach/Launch returns
  Addr,      \* instruction start addresses of the target's text
  Succ,      \* Succ[a]: the addresses control may reach after executing a
  Kind,      \* Kind[a]: "op", "int3", "clone" or "exit"
  RtFunc,    \* PCs p with GoSymTable.PCToFunc(p).Name = "runtime.breakpoint"
  Blocking,  \* PCs at which th.blocked() holds
  NumHW      \* number of hardware breakpoint slots (len(dbp.HWBreakPoints))

ASSUME TidAssumption ==
  /\ Main \in InitTids
  /\ InitTids \subseteq Tid
ASSUME AddrAssumption ==
  /\ Addr \subseteq Nat \ {0}
  /\ Succ \in [Addr -> SUBSET Addr]
  /\ Kind \in [Addr -> {"op", "int3", "clone", "exit"}]
  /\ \A a \in Addr : Kind[a] = "int3" => Succ[a] = {a + 1}
(* HWBreakPoints is an array of four slots; a model may use fewer.      *)
ASSUME HWAssumption == NumHW \in 0 .. 4

(* The byte at an address: the program's own, or the trap byte 0xCC.      *)
Orig == "orig"
TrapByte == "trap"

(* Values the PC of a thread can take: instruction starts, and the byte   *)
(* after one (where a thread stands after executing a trap byte).         *)
PCVal == Addr \cup {a + 1 : a \in Addr}

Slots == 0 .. NumHW - 1

(* A breakpoint record; id 0 marks an empty hardware slot or map entry.   *)
HwRec == [addr : Addr \cup {0}, id : Nat, temp : BOOLEAN]
SwRec == [id : Nat, temp : BOOLEAN, orig : {Orig, TrapByte}]
NoHw == [addr |-> 0, id |-> 0, temp |-> FALSE]
NoSw == [id |-> 0, temp |-> FALSE, orig |-> Orig]

(* Wait statuses a thread can have pending for the tracer.                *)
Events == {"none", "trap", "stop", "clone", "exit"}

ThreadStates == {"run", "stop", "new", "dead"}

Phases == {"idle", "cont", "wait", "clonewait", "clonechild", "cloneparent",
           "dispatch", "rtstep", "step", "exited"}

VARIABLES
  \* --- the traced process (kernel view) ---
  live,      \* threads that exist
  born,      \* threads ever created (thread ids are not reused)
  tstate,    \* "run", "stop" (ptrace stop), "new" (clone child before its first stop), "dead"
  pc,        \* program counter of each thread
  rf,        \* resume flag: the hardware breakpoint at pc has just fired
  sigstop,   \* a SIGSTOP is pending for the thread
  event,     \* the wait status the thread has pending for the tracer
  eventMsg,  \* PtraceGetEventMsg: the new thread of a pending clone event
  mem,       \* the byte at each instruction address
  \* --- ghost: transparency of the debugger ---
  expect,    \* expect[t]: the instructions t may execute next in program order
  diverged,  \* threads that executed an instruction out of program order
  \* --- DebuggedProcess ---
  hw,        \* HWBreakPoints
  sw,        \* BreakPoints (software), indexed by address
  nextID,    \* breakpointIDCounter
  threads,   \* DOMAIN of Threads
  cur,       \* CurrentThread.Id
  running,   \* running
  halt,      \* halt
  \* --- controller position inside a driver call ---
  ctl,       \* which loop of which call the controller is in
  todo,      \* threads the current loop over dbp.Threads has still to visit
  wpid,      \* the thread whose wait status is being handled
  child,     \* the cloned thread being added by the clone branch of trapWait
  nstep      \* single-steps done out of runtime.breakpoint

target == <<live, born, tstate, pc, rf, sigstop, event, eventMsg, mem>>
ghost == <<expect, diverged>>
dbpVars == <<hw, sw, nextID, threads, cur, running, halt>>
ctlVars == <<ctl, todo, wpid, child, nstep>>
vars == <<target, ghost, dbpVars, ctlVars>>

-----------------------------------------------------------------------------
(* Helpers over the breakpoint tables (setBreakpoint and clearBreakpoint   *)
(* are not in this source tree; they follow the spec: a free hardware     *)
(* slot is preferred, else the original byte is stashed and a trap byte   *)
(* written).  A breakpoint state is a record so that Step can compose     *)
(* Clear and Break in one action.                                         *)

BPState(h, w, m, n) == [hw |-> h, sw |-> w, mem |-> m, ctr |-> n]
BP == BPState(hw, sw, mem, nextID)
SetBP(s) == /\ hw' = s.hw /\ sw' = s.sw /\ mem' = s.mem /\ nextID' = s.ctr

HWAt(h, p) == \E i \in Slots : h[i].id # 0 /\ h[i].addr = p
SwAt(s, p) == p \in Addr /\ s[p].id # 0
(* Variant of HasBP that forgets the hardware slots (mutant).             *)
HasBPSoftwareOnly(s, a) == SwAt(s.sw, a)

HasBP(s, a) == HWAt(s.hw, a) \/ SwAt(s.sw, a)

FreeSlots(h) == {i \in Slots : h[i].id = 0}
LowestFree(h) == CHOOSE i \in FreeSlots(h) : \A j \in FreeSlots(h) : i <= j

AfterSet(s, a) ==
  LET n == s.ctr + 1 IN
  IF FreeSlots(s.hw) # {}
  THEN BPState([s.hw EXCEPT ![LowestFree(s.hw)] = [addr |-> a, id |-> n, temp |-> FALSE]],
               s.sw, s.mem, n)
  ELSE BPState(s.hw, [s.sw EXCEPT ![a] = [id |-> n, temp |-> FALSE, orig |-> s.mem[a]]],
               [s.mem EXCEPT ![a] = TrapByte], n)

(* The hardware slots with every breakpoint at a removed.                 *)
ClearSlots(h, a) == [i \in Slots |-> IF h[i].addr = a THEN NoHw ELSE h[i]]

(* Variant of AfterClear that drops the map entry without writing the    *)
(* original byte back (mutant).                                          *)
AfterClearKeepsByte(s, a) ==
  IF HWAt(s.hw, a)
  THEN BPState(ClearSlots(s.hw, a), s.sw, s.mem, s.ctr)
  ELSE BPState(s.hw, [s.sw EXCEPT ![a] = NoSw], s.mem, s.ctr)

AfterClear(s, a) ==
  IF HWAt(s.hw, a)
  THEN BPState(ClearSlots(s.hw, a), s.sw, s.mem, s.ctr)
  ELSE BPState(s.hw, [s.sw EXCEPT ![a] = NoSw], [s.mem EXCEPT ![a] = s.sw[a].orig], s.ctr)

(* A ptrace request on t succeeds only when t is in signal-delivery-stop. *)
Stopped(t) == t \in live /\ tstate[t] = "stop"

-----------------------------------------------------------------------------
(* The target executing one instruction.  Retire records, in the ghost    *)
(* variables, that t executed the instruction at its pc.                  *)

Retire(t, p) ==
  /\ expect' = [expect EXCEPT ![t] = Succ[p]]
  /\ diverged' = IF p \in expect[t] THEN diverged ELSE diverged \cup {t}

(* How t ends after its next instruction raised wait status ev.  mode    *)
(* "run": t was running freely and the stop is reported to the tracer;    *)
(* mode "stop" or "run1": a PTRACE_SINGLESTEP whose stop the singleStep    *)
(* wait(t) consumes, after which t is left stopped ("stop") or resumed     *)
(* ("run1").                                                               *)
EndState(ev, mode) == CASE mode = "stop"                  -> "stop"
                        [] mode = "run1"                  -> "run"
                        [] mode = "run" /\ ev = "none"    -> "run"
                        [] mode = "run" /\ ev # "none"    -> "stop"
EndEvent(ev, mode) == IF mode = "run" THEN ev ELSE "none"

Ends(t, ev, mode) ==
  /\ tstate' = [tstate EXCEPT ![t] = EndState(ev, mode)]
  /\ event' = [event EXCEPT ![t] = EndEvent(ev, mode)]

TrapAt(m, p) == p \in Addr /\ m[p] = TrapByte

(* The effect of t's next instruction, at p, with memory m and debug      *)
(* registers h.                                                            *)
Instruction(t, p, m, h, mode) ==
  /\ \/ /\ TrapAt(m, p)                                 \* software trap
        /\ pc' = [pc EXCEPT ![t] = p + 1]
        /\ Ends(t, "trap", mode)
        /\ UNCHANGED <<live, born, rf, eventMsg, ghost>>
     \/ /\ ~TrapAt(m, p) /\ HWAt(h, p) /\ ~rf[t]        \* hardware breakpoint
        /\ rf' = [rf EXCEPT ![t] = TRUE]
        /\ pc' = [pc EXCEPT ![t] = p]
        /\ Ends(t, "trap", mode)
        /\ UNCHANGED <<live, born, eventMsg, ghost>>
     \/ /\ ~TrapAt(m, p) /\ ~(HWAt(h, p) /\ ~rf[t])
        /\ p \notin Addr                                \* not an instruction start
        /\ diverged' = diverged \cup {t}
        /\ pc' = [pc EXCEPT ![t] = p]
        /\ Ends(t, "none", mode)
        /\ UNCHANGED <<live, born, rf, eventMsg, expect>>
     \/ /\ ~TrapAt(m, p) /\ ~(HWAt(h, p) /\ ~rf[t])
        /\ p \in Addr
        /\ Retire(t, p)
        /\ rf' = [rf EXCEPT ![t] = FALSE]
        /\ \/ /\ \/ Kind[p] \in {"op", "int3"}
                 \/ Kind[p] = "clone" /\ born = Tid     \* clone fails: no id left
              /\ \E q \in Succ[p] : pc' = [pc EXCEPT ![t] = q]
              /\ Ends(t, IF Kind[p] = "int3" THEN "trap" ELSE "none", mode)
              /\ UNCHANGED <<live, born, eventMsg>>
           \/ /\ Kind[p] = "clone"                      \* PTRACE_EVENT_CLONE
              /\ \E c \in Tid \ born, q \in Succ[p] :
                   /\ born' = born \cup {c}
                   /\ live' = live \cup {c}
                   /\ pc' = [pc EXCEPT ![t] = q, ![c] = q]
                   /\ eventMsg' = [eventMsg EXCEPT ![t] = c]
                   /\ tstate' = [tstate EXCEPT ![t] = EndState("clone", mode),
                                               ![c] = "new"]
                   /\ event' = [event EXCEPT ![t] = EndEvent("clone", mode)]
           \/ /\ Kind[p] = "exit" /\ t # Main           \* the thread exits
              /\ live' = live \ {t}
              /\ tstate' = [tstate EXCEPT ![t] = "dead"]
              /\ event' = [event EXCEPT ![t] = EndEvent("exit", mode)]
              /\ pc' = [pc EXCEPT ![t] = p]
              /\ UNCHANGED <<born, eventMsg>>
           \/ /\ Kind[p] = "exit" /\ t = Main           \* exit_group: every
              /\ live' = {}                             \* traced thread dies
              /\ tstate' = [u \in Tid |-> IF u \in live THEN "dead" ELSE tstate[u]]
              /\ event' = [u \in Tid |-> IF u = Main THEN EndEvent("exit", mode)
                                        ELSE IF u \in live THEN "exit" ELSE event[u]]
              /\ pc' = [pc EXCEPT ![t] = p]
              /\ UNCHANGED <<born, eventMsg>>
  /\ UNCHANGED sigstop

(* PTRACE_SINGLESTEP of the stopped thread t, from p, and the wait(t)     *)
(* after it (singleStep).  A pending SIGSTOP is delivered instead of the  *)
(* step and consumed by the wait.                                          *)
SingleStep(t, p, m, h, mode) ==
  \/ /\ sigstop[t]
     /\ sigstop' = [sigstop EXCEPT ![t] = FALSE]
     /\ pc' = [pc EXCEPT ![t] = p]
     /\ Ends(t, "none", mode)
     /\ UNCHANGED <<live, born, rf, eventMsg, ghost>>
  \/ /\ ~sigstop[t]
     /\ Instruction(t, p, m, h, mode)

-----------------------------------------------------------------------------
(* Actions of the traced threads.                                          *)

(* A running thread executes its next instruction.                         *)
Execute(t) ==
  /\ t \in live /\ tstate[t] = "run"
  /\ Instruction(t, pc[t], mem, hw, "run")
  /\ UNCHANGED <<mem, dbpVars, ctlVars>>

(* A pending SIGSTOP stops a running thread; the stop is reported.        *)
DeliverStop(t) ==
  /\ t \in live /\ tstate[t] = "run" /\ sigstop[t]
  /\ sigstop' = [sigstop EXCEPT ![t] = FALSE]
  /\ tstate' = [tstate EXCEPT ![t] = "stop"]
  /\ event' = [event EXCEPT ![t] = "stop"]
  /\ UNCHANGED <<live, born, pc, rf, eventMsg, mem, ghost, dbpVars, ctlVars>>

(* A new clone child, traced through PTRACE_O_TRACECLONE, enters its first *)
(* stop with SIGSTOP.                                                      *)
ChildStarts(c) ==
  /\ c \in live /\ tstate[c] = "new"
  /\ tstate' = [tstate EXCEPT ![c] = "stop"]
  /\ event' = [event EXCEPT ![c] = "stop"]
  /\ UNCHANGED <<live, born, pc, rf, sigstop, eventMsg, mem, ghost, dbpVars, ctlVars>>

-----------------------------------------------------------------------------
(* Thread-level operations of ThreadContext (threads.go).                  *)

(* PTRACE_CONT of t (thread.resume): a pending wait status is dropped.     *)
Resume(t) ==
  /\ tstate' = [tstate EXCEPT ![t] = "run"]
  /\ event' = [event EXCEPT ![t] = "none"]

(* How a call of the controller ends: on success it goes on at phase ret; *)
(* an error returns to the user, and run's deferred function clears       *)
(* running.                                                               *)
Return(ok, ret) ==
  IF ok THEN ctl' = ret /\ UNCHANGED running
        ELSE ctl' = "idle" /\ running' = FALSE
Fail == Return(FALSE, "idle")

(* Variant of ThreadOp whose deferred function does not Break the       *)
(* breakpoint again (mutant).                                             *)
ThreadOpNoRearm(t, mode, ret) ==
  LET a  == pc[t] - 1
      s1 == AfterClear(BP, a)
  IN
  \/ /\ ~Stopped(t)
     /\ Fail
     /\ UNCHANGED <<target, ghost, hw, sw, nextID>>
  \/ /\ Stopped(t) /\ ~SwAt(sw, a)
     /\ IF mode = "run1"
        THEN /\ Resume(t)
             /\ UNCHANGED <<live, born, pc, rf, sigstop, eventMsg, ghost>>
        ELSE SingleStep(t, pc[t], mem, hw, "stop")
     /\ UNCHANGED <<mem, hw, sw, nextID>>
     /\ Return(TRUE, ret)
  \/ /\ Stopped(t) /\ SwAt(sw, a) /\ ~Stopped(cur)
     /\ Fail
     /\ UNCHANGED <<target, ghost, hw, sw, nextID>>
  \/ /\ Stopped(t) /\ SwAt(sw, a) /\ Stopped(cur)
     /\ SingleStep(t, a, s1.mem, s1.hw, mode)
     /\ SetBP(s1)
     /\ Return(TRUE, ret)

(* ThreadContext.Step (mode "stop") and ThreadContext.Continue (mode      *)
(* "run1") of thread t, returning to phase ret.  When a software          *)
(* breakpoint covers pc - 1, Step Clears it through the current thread,   *)
(* SetPCs back to its address, singleSteps, and Breaks it again through   *)
(* the current thread in a deferred function whose result becomes the     *)
(* result of Step; Continue resumes the thread only if Step succeeded.    *)
ThreadOp(t, mode, ret) ==
  LET a  == pc[t] - 1
      s1 == AfterClear(BP, a)
  IN
  \/ /\ ~Stopped(t)                                    \* Registers() fails
     /\ Fail
     /\ UNCHANGED <<target, ghost, hw, sw, nextID>>
  \/ /\ Stopped(t) /\ ~SwAt(sw, a)
     /\ IF mode = "run1"
        THEN /\ Resume(t)
             /\ UNCHANGED <<live, born, pc, rf, sigstop, eventMsg, ghost>>
        ELSE SingleStep(t, pc[t], mem, hw, "stop")
     /\ UNCHANGED <<mem, hw, sw, nextID>>
     /\ Return(TRUE, ret)
  \/ /\ Stopped(t) /\ SwAt(sw, a) /\ ~Stopped(cur)     \* Clear fails
     /\ Fail
     /\ UNCHANGED <<target, ghost, hw, sw, nextID>>
  \/ /\ Stopped(t) /\ SwAt(sw, a) /\ Stopped(cur)
     /\ SingleStep(t, a, s1.mem, s1.hw, mode)
     /\ IF cur \in live' THEN SetBP(AfterSet(s1, a)) ELSE SetBP(s1)
     /\ Return(cur \in live', ret)

(* DebuggedProcess.Halt: th.Halt() for each registered thread in map      *)
(* order.  A thread already in trace stop (stopped()) is left alone, a    *)
(* running one is sent SIGSTOP.  An exited thread whose status wait4 has  *)
(* not yet reaped is a zombie: tgkill on it succeeds and the signal goes  *)
(* nowhere.  Once reaped (no status pending), tgkill fails and ends the   *)
(* loop, so only some of the running threads may be signalled.           *)
HaltThreads ==
  LET up     == {t \in threads \cap live : tstate[t] = "run"}
      reaped == {t \in threads \ live : event[t] = "none"}
  IN \E S \in SUBSET up :
       /\ reaped = {} => S = up
       /\ sigstop' = [t \in Tid |-> sigstop[t] \/ t \in S]

(* Variant of AddThread that never stores the thread in dbp.Threads      *)
(* (mutant).                                                              *)
AddThreadUnstored(c) == threads' = threads

(* addThread(tid, false) on a thread already in trace stop.                *)
AddThread(c) == threads' = threads \cup {c}

-----------------------------------------------------------------------------
(* The controller: the driver calls and the loops inside them.            *)

(* Continue, first loop: thread.Continue() for every registered thread.   *)
Continue ==
  /\ ctl = "idle"
  /\ ctl' = "cont" /\ todo' = threads
  /\ UNCHANGED <<target, ghost, dbpVars, wpid, child, nstep>>

ContinueThread(t) ==
  /\ ctl = "cont" /\ t \in todo
  /\ ThreadOp(t, "run1", "cont")
  /\ todo' = todo \ {t}
  /\ UNCHANGED <<threads, cur, halt, wpid, child, nstep>>

(* Continue, then run(fn): running is set and halt cleared.               *)
ContinueRun ==
  /\ ctl = "cont" /\ todo = {}
  /\ running' = TRUE /\ halt' = FALSE /\ ctl' = "wait"
  /\ UNCHANGED <<target, ghost, hw, sw, nextID, threads, cur, todo, wpid, child, nstep>>

(* Variant of WaitEvent that tests the SIGSTOP against ~halt (mutant).   *)
WaitEventHaltInverted(t) ==
  /\ ctl = "wait" /\ event[t] # "none"
  /\ event' = [event EXCEPT ![t] = "none"]
  /\ \/ /\ event[t] = "exit" /\ t = Main
        /\ ctl' = "exited" /\ running' = FALSE
        /\ UNCHANGED <<threads, wpid, child>>
     \/ /\ event[t] = "clone"
        /\ wpid' = t /\ child' = eventMsg[t]
        /\ \/ /\ Stopped(eventMsg[t])
              /\ AddThread(eventMsg[t]) /\ ctl' = "clonechild"
           \/ /\ ~Stopped(eventMsg[t])
              /\ ctl' = "clonewait" /\ UNCHANGED threads
        /\ UNCHANGED running
     \/ /\ event[t] = "trap"
        /\ ctl' = "dispatch" /\ wpid' = t
        /\ UNCHANGED <<threads, child, running>>
     \/ /\ event[t] = "stop" /\ ~halt
        /\ ctl' = "idle" /\ running' = FALSE
        /\ UNCHANGED <<threads, wpid, child>>
     \/ /\ \/ event[t] = "stop" /\ halt
           \/ event[t] = "exit" /\ t # Main
        /\ UNCHANGED <<ctl, threads, wpid, child, running>>
  /\ UNCHANGED <<live, born, tstate, pc, rf, sigstop, eventMsg, mem, ghost,
                 hw, sw, nextID, cur, halt, todo, nstep>>

(* trapWait(dbp, -1): wait4 reaps the pending status of some thread t.    *)
WaitEvent(t) ==
  /\ ctl = "wait" /\ event[t] # "none"
  /\ event' = [event EXCEPT ![t] = "none"]
  /\ \/ /\ event[t] = "exit" /\ t = Main              \* ProcessExitedError
        /\ ctl' = "exited" /\ running' = FALSE
        /\ UNCHANGED <<threads, wpid, child>>
     \/ /\ event[t] = "clone"                         \* add the child, continue both
        /\ wpid' = t /\ child' = eventMsg[t]
        /\ \/ /\ Stopped(eventMsg[t])
              /\ AddThread(eventMsg[t]) /\ ctl' = "clonechild"
           \/ /\ ~Stopped(eventMsg[t])
              /\ ctl' = "clonewait" /\ UNCHANGED threads  \* SetOptions: ESRCH
        /\ UNCHANGED running
     \/ /\ event[t] = "trap"                          \* a SIGTRAP
        /\ ctl' = "dispatch" /\ wpid' = t
        /\ UNCHANGED <<threads, child, running>>
     \/ /\ event[t] = "stop" /\ halt                  \* ManualStopError, swallowed by run
        /\ ctl' = "idle" /\ running' = FALSE
        /\ UNCHANGED <<threads, wpid, child>>
     \/ /\ \/ event[t] = "stop" /\ ~halt              \* ignored: wait again
           \/ event[t] = "exit" /\ t # Main
        /\ UNCHANGED <<ctl, threads, wpid, child, running>>
  /\ UNCHANGED <<live, born, tstate, pc, rf, sigstop, eventMsg, mem, ghost,
                 hw, sw, nextID, cur, halt, todo, nstep>>

(* Variant of CloneWait that waits on the cloning thread instead of the  *)
(* child (mutant).                                                        *)
CloneWaitParent ==
  /\ ctl = "clonewait" /\ event[wpid] # "none"
  /\ event' = [event EXCEPT ![wpid] = "none"]
  /\ AddThread(child) /\ ctl' = "clonechild"
  /\ UNCHANGED <<live, born, tstate, pc, rf, sigstop, eventMsg, mem, ghost,
                 hw, sw, nextID, cur, running, halt, todo, wpid, child, nstep>>

(* addThread after SetOptions failed with ESRCH: wait(tid) for the new    *)
(* thread's first stop, then SetOptions again.                            *)
CloneWait ==
  /\ ctl = "clonewait" /\ event[child] # "none"
  /\ event' = [event EXCEPT ![child] = "none"]
  /\ \/ /\ event[child] # "exit"
        /\ AddThread(child) /\ ctl' = "clonechild" /\ UNCHANGED running
     \/ /\ event[child] = "exit"                     \* SetOptions fails again
        /\ Fail /\ UNCHANGED threads
  /\ UNCHANGED <<live, born, tstate, pc, rf, sigstop, eventMsg, mem, ghost,
                 hw, sw, nextID, cur, halt, todo, wpid, child, nstep>>

(* th.Continue() of the new thread, then of the thread that cloned it.    *)
CloneChild ==
  /\ ctl = "clonechild"
  /\ ThreadOp(child, "run1", "cloneparent")
  /\ UNCHANGED <<threads, cur, halt, todo, wpid, child, nstep>>

CloneParent ==
  /\ ctl = "cloneparent"
  /\ ThreadOp(wpid, "run1", "wait")
  /\ UNCHANGED <<threads, cur, halt, todo, wpid, child, nstep>>

(* Continue's fn after trapWait returned wpid: make it the current        *)
(* thread, then recognise the trap by its pc.  Its "could not find        *)
(* thread" error path is dead (RunningThreadsRegistered: a trap comes only *)
(* from a registered thread), and so are the Temp tests: only Next, not    *)
(* modelled, sets temporary breakpoints.                                   *)
Dispatch ==
  LET p == pc[wpid] IN
  /\ ctl = "dispatch" /\ wpid \in threads
  /\ cur' = wpid
  /\ \/ /\ p \in RtFunc                               \* runtime.breakpoint
        /\ ctl' = "rtstep" /\ nstep' = 0
        /\ UNCHANGED <<running, sigstop>>
     \/ /\ p \notin RtFunc
        /\ \/ /\ HWAt(hw, p) \/ SwAt(sw, p - 1)       \* dbp.Halt()
              /\ HaltThreads
           \/ /\ ~HWAt(hw, p) /\ ~SwAt(sw, p - 1)       \* unrecognized breakpoint
              /\ UNCHANGED sigstop
        /\ ctl' = "idle" /\ running' = FALSE
        /\ UNCHANGED nstep
  /\ UNCHANGED <<live, born, tstate, pc, rf, event, eventMsg, mem, ghost,
                 hw, sw, nextID, threads, halt, todo, wpid, child>>

(* Variant of RtStep whose loop runs while i <= 2 (mutant).               *)
RtStepThrice ==
  /\ ctl = "rtstep" /\ nstep <= 2
  /\ ThreadOp(wpid, "stop", "rtstep")
  /\ nstep' = nstep + 1
  /\ UNCHANGED <<threads, cur, halt, todo, wpid, child>>

(* Two thread.Step()s out of runtime.breakpoint, then dbp.Halt().         *)
RtStep ==
  /\ ctl = "rtstep" /\ nstep < 2
  /\ ThreadOp(wpid, "stop", "rtstep")
  /\ nstep' = nstep + 1
  /\ UNCHANGED <<threads, cur, halt, todo, wpid, child>>

RtDone ==
  /\ ctl = "rtstep" /\ nstep = 2
  /\ HaltThreads
  /\ ctl' = "idle" /\ running' = FALSE
  /\ UNCHANGED <<live, born, tstate, pc, rf, event, eventMsg, mem, ghost,
                 hw, sw, nextID, threads, cur, halt, todo, wpid, child, nstep>>

(* Step: inside run, th.Step() for every registered thread not blocked.   *)
Step ==
  /\ ctl = "idle"
  /\ ctl' = "step" /\ todo' = threads /\ running' = TRUE /\ halt' = FALSE
  /\ UNCHANGED <<target, ghost, hw, sw, nextID, threads, cur, wpid, child, nstep>>

StepThread(t) ==
  /\ ctl = "step" /\ t \in todo
  /\ todo' = todo \ {t}
  /\ \/ /\ pc[t] \in Blocking                          \* th.blocked(): skipped
        /\ UNCHANGED <<target, ghost, hw, sw, nextID, ctl, running>>
     \/ /\ pc[t] \notin Blocking
        /\ ThreadOp(t, "stop", "step")
  /\ UNCHANGED <<threads, cur, halt, wpid, child, nstep>>

StepDone ==
  /\ ctl = "step" /\ todo = {}
  /\ ctl' = "idle" /\ running' = FALSE
  /\ UNCHANGED <<target, ghost, hw, sw, nextID, threads, cur, halt, todo, wpid, child, nstep>>

(* Break(addr): setBreakpoint through the current thread.  It fails, and  *)
(* changes nothing, if a breakpoint covers addr or the thread cannot be   *)
(* ptraced.                                                               *)
Break(a) ==
  /\ ctl = "idle"
  /\ ~HasBP(BP, a) /\ Stopped(cur)
  /\ SetBP(AfterSet(BP, a))
  /\ UNCHANGED <<live, born, tstate, pc, rf, sigstop, event, eventMsg, ghost,
                 threads, cur, running, halt, ctlVars>>

(* Clear(addr): clearBreakpoint through the current thread.              *)
Clear(a) ==
  /\ ctl = "idle"
  /\ HasBP(BP, a) /\ Stopped(cur)
  /\ SetBP(AfterClear(BP, a))
  /\ UNCHANGED <<live, born, tstate, pc, rf, sigstop, event, eventMsg, ghost,
                 threads, cur, running, halt, ctlVars>>

SwitchThread(t) ==
  /\ ctl = "idle" /\ t \in threads
  /\ cur' = t
  /\ UNCHANGED <<target, ghost, hw, sw, nextID, threads, running, halt, ctlVars>>

(* RequestManualStop, from the signal handler, at any time: halt is set,  *)
(* th.Halt() is called on every registered thread (errors ignored) and    *)
(* running is cleared.                                                    *)
RequestManualStop ==
  /\ ctl # "exited"
  /\ halt' = TRUE /\ running' = FALSE
  /\ sigstop' = [t \in Tid |-> sigstop[t] \/
                   (t \in threads \cap live /\ tstate[t] = "run")]
  /\ UNCHANGED <<live, born, tstate, pc, rf, event, eventMsg, mem, ghost,
                 hw, sw, nextID, threads, cur, ctlVars>>

-----------------------------------------------------------------------------
(* After Attach or Launch: every thread stopped and registered, no        *)
(* breakpoints, the current thread the first one added.                   *)
Init ==
  /\ live = InitTids /\ born = InitTids
  /\ tstate = [t \in Tid |-> IF t \in InitTids THEN "stop" ELSE "new"]
  /\ pc \in [Tid -> Addr]
  /\ \A t \in Tid \ InitTids : pc[t] = CHOOSE a \in Addr : TRUE
  /\ rf = [t \in Tid |-> FALSE]
  /\ sigstop = [t \in Tid |-> FALSE]
  /\ event = [t \in Tid |-> "none"]
  /\ eventMsg = [t \in Tid |-> Main]
  /\ mem = [a \in Addr |-> Orig]
  /\ expect = [t \in Tid |-> {pc[t]}]
  /\ diverged = {}
  /\ hw = [i \in Slots |-> NoHw]
  /\ sw = [a \in Addr |-> NoSw]
  /\ nextID = 0
  /\ threads = InitTids
  /\ cur \in InitTids
  /\ running = FALSE /\ halt = FALSE
  /\ ctl = "idle" /\ todo = {} /\ wpid = Main /\ child = Main /\ nstep = 0

Next ==
  \/ \E t \in Tid : Execute(t) \/ DeliverStop(t) \/ ChildStarts(t)
  \/ Continue \/ ContinueRun
  \/ \E t \in Tid : ContinueThread(t) \/ WaitEvent(t) \/ StepThread(t)
  \/ CloneWait \/ CloneChild \/ CloneParent
  \/ Dispatch \/ RtStep \/ RtDone
  \/ Step \/ StepDone
  \/ \E a \in Addr : Break(a) \/ Clear(a)
  \/ \E t \in Tid : SwitchThread(t)
  \/ RequestManualStop

Spec == Init /\ [][Next]_vars

(* The fairness the code justifies.  The kernel schedules every runnable  *)
(* thread and delivers a pending signal, and a new clone child reaches    *)
(* its first stop.  The controller is one goroutine that never blocks     *)
(* except in wait4, so once it is inside a driver call it keeps taking its *)
(* steps: the thread loops, run, the wait once a status is pending, the    *)
(* clone handling and the trap dispatch.  The user's calls (Continue,     *)
(* Step, Break, Clear, SwitchThread) and RequestManualStop need not       *)
(* happen.                                                                 *)
Fairness ==
  /\ \A t \in Tid : WF_vars(Execute(t)) /\ WF_vars(DeliverStop(t))
                    /\ WF_vars(ChildStarts(t))
  /\ WF_vars(\E t \in Tid : ContinueThread(t))
  /\ WF_vars(\E t \in Tid : StepThread(t))
  /\ WF_vars(\E t \in Tid : WaitEvent(t))
  /\ WF_vars(ContinueRun) /\ WF_vars(StepDone)
  /\ WF_vars(CloneWait) /\ WF_vars(CloneChild) /\ WF_vars(CloneParent)
  /\ WF_vars(Dispatch) /\ WF_vars(RtStep) /\ WF_vars(RtDone)

FairSpec == Spec /\ Fairness

-----------------------------------------------------------------------------
(* Properties.                                                             *)

TypeOK ==
  /\ live \subseteq Tid /\ born \subseteq Tid
  /\ tstate \in [Tid -> ThreadStates]
  /\ pc \in [Tid -> PCVal]
  /\ rf \in [Tid -> BOOLEAN]
  /\ sigstop \in [Tid -> BOOLEAN]
  /\ event \in [Tid -> Events]
  /\ eventMsg \in [Tid -> Tid]
  /\ mem \in [Addr -> {Orig, TrapByte}]
  /\ expect \in [Tid -> SUBSET Addr]
  /\ diverged \subseteq Tid
  /\ hw \in [Slots -> HwRec]
  /\ sw \in [Addr -> SwRec]
  /\ nextID \in Nat
  /\ threads \subseteq Tid /\ cur \in Tid
  /\ running \in BOOLEAN /\ halt \in BOOLEAN
  /\ ctl \in Phases /\ todo \subseteq Tid
  /\ wpid \in Tid /\ child \in Tid /\ nstep \in 0 .. 2

(* The trap bytes in target memory are exactly the software breakpoints,  *)
(* and each software breakpoint holds the program's own byte: no step     *)
(* over a breakpoint (Clear, singleStep, deferred Break through the       *)
(* current thread), on any thread, leaves a stray int3 in the text or     *)
(* stashes a trap byte as the original.                                   *)
BreakpointsInMemory ==
  \A a \in Addr :
    /\ sw[a].id # 0 <=> mem[a] = TrapByte
    /\ sw[a].id # 0 => sw[a].orig = Orig

(* At most one breakpoint covers an address: never two hardware slots,    *)
(* never a hardware and a software one (Break's BreakpointExists check,   *)
(* and Step's Clear before its re-arm).                                   *)
OneBreakpointPerAddress ==
  \A i \in Slots :
    hw[i].id # 0 =>
      /\ ~SwAt(sw, hw[i].addr)
      /\ \A j \in Slots \ {i} : hw[j].id # 0 => hw[j].addr # hw[i].addr

(* Every thread that runs, or whose trap or clone status is pending, is   *)
(* in the registry (dbp.Threads): the clone branch of trapWait adds the    *)
(* new thread before it continues it, so Continue's lookup of the thread  *)
(* trapWait returns ("could not find thread") never fails.                 *)
RunningThreadsRegistered ==
  \A t \in Tid :
    (t \in live /\ tstate[t] = "run") \/ event[t] \in {"trap", "clone"}
      => t \in threads

(* The debugger is transparent: no thread ever executes an instruction    *)
(* its program could not have executed next.  Continue and Step rewind    *)
(* the PC to pc - 1 whenever a software breakpoint covers pc - 1, whether *)
(* or not the thread stopped on it, and Clear does not rewind a thread    *)
(* that stopped on the breakpoint it removes.                             *)
ProgramOrder == diverged = {}

(* The id of the breakpoint covering a, in breakpoint state s.            *)
IdAt(s, a) ==
  IF SwAt(s.sw, a) THEN s.sw[a].id
  ELSE LET i == CHOOSE i \in Slots : s.hw[i].id # 0 /\ s.hw[i].addr = a
       IN s.hw[i].id

(* A breakpoint keeps its id for as long as it stays (the spec's "stable  *)
(* integer ID"): stepping a thread over a software breakpoint Clears it   *)
(* and Breaks it again, which takes a fresh id from the counter.          *)
StableBreakpointIds ==
  [][\A a \in Addr : HasBP(BP, a) /\ HasBP(BP', a) => IdAt(BP, a) = IdAt(BP', a)]_vars

(* The controller is back with the user, or has seen the process exit.    *)
Returned == ctl \in {"idle", "exited"}

(* Adding a clone child whose SetOptions failed with ESRCH terminates:    *)
(* addThread waits for the child's first stop (proctl_linux.go 66-77),    *)
(* and then both threads are continued and trapWait waits again, or the   *)
(* call fails back to the user.                                           *)
CloneHandled ==
  ctl \in {"clonewait", "clonechild", "cloneparent"} ~> (ctl = "wait" \/ Returned)

(* A registered thread is running and has a SIGSTOP on its way.          *)
Signalled == \E t \in threads \cap live : tstate[t] = "run" /\ sigstop[t]

(* A manual stop that signalled a running registered thread brings the    *)
(* controller back (the spec: wait_event is cancellable by                *)
(* RequestManualStop).  run clears halt when it starts, and trapWait      *)
(* ignores a SIGSTOP while halt is clear.                                  *)
ManualStopHonoured == (halt /\ Signalled) ~> Returned

(* A manual stop requested while trapWait waits, that signalled a running *)
(* thread, ends the wait: the SIGSTOP reaches trapWait with halt set      *)
(* (ManualStopError), or an earlier trap or exit returns first.  (With no *)
(* thread running the request is a no-op, as the spec allows.)            *)
StopCancelsWait == (ctl = "wait" /\ halt /\ Signalled) ~> Returned

(* Every thread the kernel creates in the traced process ends up in the   *)
(* registry unless it dies (the spec's Thread Registry: clone events      *)
(* found by the wait are added, also when they come during a single-step). *)
(* singleStep's wait(tid) reaps the PTRACE_EVENT_CLONE stop of the thread *)
(* it steps and drops it, so the child is never added.                     *)
ClonesRegistered ==
  \A t \in Tid : t \in live ~> (t \in threads \/ t \notin live)

(* The controller calls dbp.Halt() now: Continue's dispatch of a trap on  *)
(* one of its breakpoints, or the end of the runtime.breakpoint steps.    *)
HaltCase ==
  \/ /\ ctl = "dispatch" /\ pc[wpid] \notin RtFunc
     /\ HWAt(hw, pc[wpid]) \/ SwAt(sw, pc[wpid] - 1)
  \/ ctl = "rtstep" /\ nstep = 2

(* dbp.Halt() stops the whole process: when the controller returns to the *)
(* user after it, every registered thread still running has a SIGSTOP on  *)
(* its way (the spec: Halt issues halt to every live thread).  The loop   *)
(* returns at the first th.Halt() error, and a thread that exited stays   *)
(* in dbp.Threads, so once its exit is reaped tgkill on it fails and the  *)
(* threads after it in map order are never signalled.                     *)
HaltStopsAll ==
  [][HaltCase /\ ctl' = "idle" =>
       \A t \in threads \cap live : tstate[t] = "run" => sigstop'[t]]_vars

-----------------------------------------------------------------------------
(* Refinement.  The breakpoint engine seen from the user: the addresses   *)
(* covered by a hardware or software breakpoint, and whether the          *)
(* controller is back with the user.                                      *)
BT == INSTANCE BreakpointTable WITH bps  <- {a \in Addr : HasBP(BP, a)},
                                    idle <- (ctl = "idle")

(* Proctl implements BreakpointTable: only Break and Clear change which   *)
(* addresses are covered, one at a time and between driver calls; every  *)
(* step over a breakpoint inside Continue or Step (Clear, singleStep, the *)
(* deferred re-Break through the current thread) puts back what it took. *)
BreakpointTableRefined == BT!Spec

(* With exits: every change of the breakpoint set the user sees is a     *)
(* Break or a Clear while no driver call runs, or the loss of the one     *)
(* breakpoint ThreadContext.Step was stepping over, in the step where the *)
(* deferred Break through a dead current thread fails and the driver call *)
(* returns that error.                                                     *)
BreakpointTableWithLoss == BT!SpecWithLoss

=============================================================================
