----------------------------- MODULE DarwinHost -----------------------------
(* The Mach-task host of proctl (src/unnamed/part_000 lines 1-236): the    *)
(* controller waits on one port set that aggregates the exception port,   *)
(* the task's notification port and the receive interrupt.  Threads are   *)
(* never reported by a clone event: the registry learns of them only by   *)
(* polling the task's thread list (updateThreadList) after an exception.  *)
(* The shared driver code of proctl.go is kept as far as it touches the   *)
(* registry and CurrentThread; breakpoints and registers are left out.    *)
EXTENDS Naturals, FiniteSets

CONSTANTS
  Port,       \* thread ports of the target
  InitPorts,  \* the threads of the task when the debugger attaches
  NIL,        \* a nil *ThreadContext
  Faults      \* whether thread_count and get_threads may fail on a live task

ASSUME PortAssumption ==
  /\ InitPorts \subseteq Port /\ InitPorts # {} /\ NIL \notin Port
  /\ Faults \in BOOLEAN

VARIABLES
  task,     \* ports of the task's live threads
  born,     \* ports ever used by the task
  queue,    \* threads suspended in an exception whose message is not yet received
  dead,     \* the task is gone and its notification message is pending
  threads,  \* DOMAIN dbp.Threads
  cur,      \* dbp.CurrentThread.Id, or NIL
  ctl,      \* the controller: "idle", "wait" (in trapWait), "exited", "panic"
  ret       \* the port trapWait returned last, or NIL

vars == <<task, born, queue, dead, threads, cur, ctl, ret>>

TypeOK ==
  /\ task \subseteq Port /\ born \subseteq Port /\ queue \subseteq Port
  /\ dead \in BOOLEAN
  /\ threads \subseteq Port /\ cur \in Port \cup {NIL}
  /\ ctl \in {"idle", "wait", "exited", "panic"} /\ ret \in Port \cup {NIL}

(* newDebugProcess ends with updateThreadList: every thread of the task is *)
(* added, and the first one added becomes CurrentThread.                   *)
Init ==
  /\ task = InitPorts /\ born = InitPorts /\ queue = {}
  /\ dead = FALSE
  /\ threads = InitPorts /\ cur \in InitPorts
  /\ ctl = "idle" /\ ret = NIL

-----------------------------------------------------------------------------
(* The target.                                                             *)

Spawn(p) ==
  /\ ~dead /\ p \in Port \ born
  /\ task' = task \cup {p} /\ born' = born \cup {p}
  /\ UNCHANGED <<queue, dead, threads, cur, ctl, ret>>

(* A thread takes an exception (a breakpoint trap): it is suspended and    *)
(* its message is queued on the exception port.                            *)
Raise(p) ==
  /\ p \in task \ queue
  /\ queue' = queue \cup {p}
  /\ UNCHANGED <<task, born, dead, threads, cur, ctl, ret>>

(* A thread that is not suspended in an exception exits; the last one's   *)
(* exit is the task's.                                                     *)
ThreadExit(p) ==
  /\ p \in task \ queue /\ Cardinality(task) > 1
  /\ task' = task \ {p}
  /\ UNCHANGED <<born, queue, dead, threads, cur, ctl, ret>>

(* The task dies (exit or kill): every thread goes, the exception         *)
(* messages already queued stay queued, and the notification is sent.     *)
TaskExit ==
  /\ ~dead
  /\ task' = {} /\ dead' = TRUE
  /\ UNCHANGED <<born, queue, threads, cur, ctl, ret>>

-----------------------------------------------------------------------------
(* The controller.                                                         *)

(* The outcomes of updateThreadList, as records of the registry and        *)
(* CurrentThread it leaves and whether it failed.  thread_count fails (-1) *)
(* on a dead task, and under Faults thread_count or get_threads may fail;  *)
(* the registry is then untouched.  Otherwise every port of the list not   *)
(* yet in dbp.Threads goes through addThread, which never fails here and   *)
(* makes the first thread it adds CurrentThread when that is nil.  Nothing *)
(* is ever removed.                                                        *)
Updates == [thr : SUBSET Port, cur : Port \cup {NIL}, err : BOOLEAN]

(* A mutant of UpdateThreadList: the !ok test of its loop inverted, so    *)
(* only ports already in dbp.Threads go to addThread, which returns them   *)
(* unchanged; no new thread is ever registered.                            *)
UpdateThreadListInverted(r) ==
  \/ /\ Faults \/ dead
     /\ r = [thr |-> threads, cur |-> cur, err |-> TRUE]
  \/ /\ ~dead /\ ~r.err
     /\ r.thr = threads /\ r.cur = cur

UpdateThreadList(r) ==
  \/ /\ Faults \/ dead
     /\ r = [thr |-> threads, cur |-> cur, err |-> TRUE]
  \/ /\ ~dead /\ ~r.err
     /\ r.thr = threads \cup task
     /\ IF cur = NIL /\ task \ threads # {}
          THEN r.cur \in task \ threads
          ELSE r.cur = cur

(* Continue's thread loop resumes every registered thread; it fails at a   *)
(* registered thread that is gone (its Registers call fails), and then     *)
(* the call returns before run, a step that changes no state.  Otherwise   *)
(* run sets running and enters fn, whose first call is trapWait.           *)
Continue ==
  /\ ctl = "idle" /\ threads \subseteq task
  /\ ctl' = "wait" /\ ret' = NIL
  /\ UNCHANGED <<task, born, queue, dead, threads, cur>>

(* trapWait: a signal to the debugger interrupted the receive             *)
(* (ManualStopError, which run swallows), or the receive failed (port 0,   *)
(* an error).  Either way the call returns to the user; the error value is *)
(* not kept.                                                               *)
WaitNoPort ==
  /\ ctl = "wait"
  /\ ctl' = "idle"
  /\ UNCHANGED <<task, born, queue, dead, threads, cur, ret>>

(* trapWait: the notification port fired; wait4 reaps the process and the *)
(* call returns ProcessExitedError (or wait4's error).                     *)
WaitNotified ==
  /\ ctl = "wait" /\ dead
  /\ ctl' = "exited"
  /\ UNCHANGED <<task, born, queue, dead, threads, cur, ret>>

(* A mutant of WaitException: CurrentThread is switched to               *)
(* dbp.Threads[p] before updateThreadList runs, whose addThread then makes *)
(* the first new thread current when the switch left it nil.               *)
WaitExceptionSwitchFirst(p) ==
  /\ ctl = "wait" /\ p \in queue
  /\ queue' = queue \ {p} /\ ret' = p
  /\ threads' = IF Faults \/ dead THEN threads ELSE threads \cup task
  /\ LET c1 == IF p \in threads THEN p ELSE NIL
     IN  \/ /\ c1 # NIL \/ Faults \/ dead \/ task \subseteq threads
            /\ cur' = c1
         \/ /\ c1 = NIL /\ ~dead
            /\ cur' \in task \ threads
  /\ ctl' = IF cur = NIL THEN "panic" ELSE "idle"
  /\ UNCHANGED <<task, born, dead>>

(* trapWait: the exception port fired for thread p.  updateThreadList runs *)
(* and its error is ignored; CurrentThread.Id is then read (a nil pointer  *)
(* dereference when CurrentThread is nil) and, when it is not p,           *)
(* CurrentThread becomes dbp.Threads[p], nil when p is not registered.     *)
(* Continue's fn then looks p up: not found is an error, found is the trap *)
(* dispatch; either way the call returns to the user.                      *)
WaitException(p) ==
  /\ ctl = "wait" /\ p \in queue
  /\ queue' = queue \ {p} /\ ret' = p
  /\ \E r \in Updates :
       /\ UpdateThreadList(r)
       /\ threads' = r.thr
       /\ IF r.cur = NIL
            THEN ctl' = "panic" /\ cur' = NIL
            ELSE /\ ctl' = "idle"
                 /\ cur' = IF p = r.cur THEN r.cur
                           ELSE IF p \in r.thr THEN p ELSE NIL
  /\ UNCHANGED <<task, born, dead>>

(* Break, Clear, Registers and CurrentPC go through dbp.CurrentThread; with *)
(* CurrentThread nil they dereference nil.  With a thread they change      *)
(* nothing this module keeps, so that case is a stutter.                    *)
UseCurrent ==
  /\ ctl = "idle" /\ cur = NIL
  /\ ctl' = "panic"
  /\ UNCHANGED <<task, born, queue, dead, threads, cur, ret>>

Next ==
  \/ \E p \in Port : Spawn(p) \/ Raise(p) \/ ThreadExit(p) \/ WaitException(p)
  \/ TaskExit
  \/ Continue \/ WaitNoPort \/ WaitNotified \/ UseCurrent

Spec == Init /\ [][Next]_vars

-----------------------------------------------------------------------------
(* Properties.                                                             *)

(* Polled discovery (spec: the registry reconciles with the kernel's      *)
(* thread set on every wait): when trapWait returns the port of a thread   *)
(* of a live task, even one spawned since the last poll, that thread is in *)
(* dbp.Threads and is the current thread, so Continue's lookup finds it.   *)
ExceptionFound ==
  [][ctl = "wait" /\ ~dead /\ ret' \in Port
       => ret' \in threads' /\ cur' = ret']_vars

(* The spec's registry invariant: once a thread is known, CurrentThread is *)
(* a registered thread and never nil.  trapWait ignores updateThreadList's *)
(* error and assigns dbp.Threads[port] to CurrentThread.                    *)
CurrentThreadPresent == threads # {} => cur \in threads

(* No nil dereference while the target lives: when thread_count and        *)
(* get_threads do not fail, trapWait's read of CurrentThread.Id and the    *)
(* accessors that go through CurrentThread (Break, Registers, CurrentPC)   *)
(* crash the debugger only after the task has died, when an exception     *)
(* queued before the death names a thread no poll registered.  It needs    *)
(* every poll to register the threads spawned since the last one.          *)
NoPanicWhileAlive == ctl = "panic" => dead
=============================================================================
