# Formal model of the proctl process-control core

This directory holds a TLA+ model of package `proctl` (`src/proctl/proctl.go`,
`src/proctl/proctl_linux.go`, and the `ThreadContext` code and the Mach-task
host in `src/unnamed/part_000`). It also holds TLC configurations that model-check the model on
small instances, and TLAPS proofs of its main invariants for every instance.

## The system and its parts

The debugger (a `DebuggedProcess`) controls a traced process through ptrace.
Two kinds of actors interleave:

* **The threads of the traced process.** They execute instructions, hit int3
  bytes the debugger wrote or hardware breakpoints, clone new threads, exit,
  and take delivery of SIGSTOP.
* **The controller.** It is single-threaded. Its driver calls `Continue` and `Step`
  are loops over the thread registry `dbp.Threads`, followed by a wait loop
  (`trapWait`). `RequestManualStop` may run at any moment, since a signal
  handler calls it.

The ptrace host (Linux) learns of threads from clone events. The Mach host
(darwin) waits on one port set and learns of threads by polling the task's
thread list.

Every ptrace request that needs a thread in signal-delivery-stop fails when
that thread is running or gone. `Break` and `Clear` go through the *current*
thread. `ThreadContext.Step` steps a thread over a software breakpoint at
`pc-1` in four moves:

1. it clears the breakpoint;
2. it rewinds the pc;
3. it single-steps;
4. it re-arms the breakpoint with `Break` in a deferred function.

## Modules

| module | contents |
|---|---|
| `Proctl.tla` | The model: constants, state, one action per operation, `Spec`, properties. |
| `MCProctl.tla` | Small programs and the id bound for TLC. |
| `ProctlProofs.tla` | TLAPS proofs of `TypeOK`, the two breakpoint invariants and `RunningThreadsRegistered`. |
| `BreakpointTable.tla` | The abstract promise of the breakpoint engine: a set of covered addresses that only the user's `Break`/`Clear` change, and only while no driver call runs (`Spec`); `SpecWithLoss` also allows a driver call to lose one covered address in the step in which it returns to the user (`Lose`). |
| `DarwinHost.tla`, `MCDarwinHost.tla` | The Mach-task host (part_000 lines 1-236): `trapWait` on the port set, `updateThreadList` and `addThread` with `CurrentThread`, and the driver steps that touch the registry. |
| `DarwinHostProofs.tla` | TLAPS proofs that, without failing thread-list calls, polled discovery registers every trapping thread and no nil `CurrentThread` is dereferenced while the task lives. |
| `ThreadRegistryProofs.tla` | TLAPS proof that the registry holds only threads the kernel created and that `CurrentThread` is registered, for every program, exits included. |
| `BreakpointTableProofs.tla` | TLAPS proof that `Proctl` implements `BreakpointTable`'s `SpecWithLoss` for every program, exits included. |

### State

| variables | code |
|---|---|
| `live`, `born`, `tstate`, `pc`, `rf`, `sigstop`, `event`, `eventMsg`, `mem` | The kernel's view of the target: thread existence, ptrace stop, pc, the hardware resume flag, a pending SIGSTOP, the pending wait status, the `PtraceGetEventMsg` value, and the text bytes (original or 0xCC). |
| `hw`, `sw`, `nextID` | `HWBreakPoints`, `BreakPoints`, `breakpointIDCounter` |
| `threads`, `cur`, `running`, `halt` | `DOMAIN Threads`, `CurrentThread.Id`, `running`, `halt` |
| `ctl`, `todo`, `wpid`, `child`, `nstep` | The controller's position inside a driver call: which loop it is in, the threads still to visit, the thread `trapWait` returned, the clone child being added, and the steps taken out of `runtime.breakpoint`. |
| `expect`, `diverged` | Ghost: the instructions each thread may execute next in program order, and the threads that ever left it. |

### Actions and code

`PROJECT.json` ("map") gives the exact lines behind each definition. The main
correspondences:

* **Break and Clear** (`Break`, `Clear`). They compute the next tables and memory with
  `AfterSet` and `AfterClear`, which take a free hardware slot first and
  otherwise stash the original byte and write 0xCC. `setBreakpoint` and
  `clearBreakpoint` are not in this source tree, so these two follow the spec.
* **ThreadContext.Continue and ThreadContext.Step** (`ThreadOp`, part_000 290-342).
  `ThreadOp` models the whole call as one action:
  * `Registers()` fails when the thread is not stopped;
  * the `Clear` through the current thread may fail;
  * otherwise Clear, `SetPC` back to the breakpoint, single-step and re-`Break`
    happen together, and the call then resumes the thread for Continue.
* **Continue** is split into the steps the controller takes between waits:
  * `Continue` and `ContinueThread` are the thread loop;
  * `ContinueRun` is `run`;
  * `WaitEvent`, `CloneWait`, `CloneChild` and `CloneParent` are `trapWait` and `addThread`;
  * `Dispatch`, `RtStep` and `RtDone` are the trap dispatch of `Continue`'s `fn`.
* **Step** is `Step`, `StepThread` and `StepDone`, with blocked threads skipped.
* **SwitchThread** and **RequestManualStop** have an action each.
* **`Return`** models every error return through `run`: the call goes back to
  the user with `running` cleared.
* **Target actions** (`Execute`, `DeliverStop`, `ChildStarts`). The kernel's side: an
  instruction traps, hits a hardware breakpoint, clones, exits, or runs
  normally, and a pending SIGSTOP stops a running thread.

Three branches of the code are left out because they are dead under this model:
* The "already registered" early return of `addThread`. A clone child is new.
* `Continue`'s "could not find thread" error. `RunningThreadsRegistered` (proved) shows a trap always comes from a registered thread.
* The `Temp` tests. Only `Next`, which is not modelled, sets temporary breakpoints.

### The darwin host

On the Mach host, no clone event exists. The registry learns of new threads
only when `trapWait` receives an exception message and calls
`updateThreadList`, which adds every port of the task's thread list. Its
`addThread` makes the first thread added current if `CurrentThread` is nil.

`DarwinHost.tla` keeps this control and nothing of breakpoints or registers.
* **Target.** `Spawn`, `Raise` (a thread takes an exception and is suspended
  with its message queued), `ThreadExit` (never of a suspended thread) and
  `TaskExit` (all threads go, queued messages stay, the notification is sent).
* **Controller.** `Continue` is the thread loop and `run`. It is enabled only
  while every registered thread is alive; otherwise the loop's error return
  changes nothing.
* **`trapWait`.** `WaitNoPort` is the interrupted or failed receive,
  `WaitNotified` is the notification port, and `WaitException(p)` is the
  exception port. `WaitException` covers the whole of its case: the poll, whose
  error is ignored; the nil-dereferencing read of `CurrentThread.Id`; the switch
  to `dbp.Threads[p]`; and `Continue`'s lookup.
* **`UseCurrent`.** `Break`, `Clear` and `Registers` reach a nil `CurrentThread`.
* **`Faults`.** Says whether `thread_count` and `get_threads` (C code outside this tree)
  may fail on a live task. On a dead task `thread_count` fails either way.

## Runs

| run | cfg | checks | shows |
|---|---|---|---|
| core_pass | `MCProctl.cfg` | `BreakpointsInMemory`, `OneBreakpointPerAddress`, `RunningThreadsRegistered`, `BreakpointTableRefined` | A three-instruction loop containing a clone, started with one thread, with one hardware slot and the id counter bounded at 2. Every interleaving keeps the text and the tables consistent and every running thread registered, and refines `BreakpointTable`. Search covers 1.2 M distinct states. |
| rt_pass | `MCProctl_Rt.cfg` | `TypeOK`, `BreakpointTableWithLoss` | Two threads, `runtime.breakpoint` at pc 2 (which is also a blocked pc), a stray int3, thread exit and exit_group. This run exercises the `runtime.breakpoint` path, the unrecognized-breakpoint error, Step's skipping of blocked threads, and the controller stopping after the process exits. There is no hardware slot, so every breakpoint is a software one and Step steps over it. A thread can exit during that step. Every change of the covered set is still a `Break` or `Clear` between driver calls, or the loss of the one stepped-over breakpoint in the very step where the driver call returns the failed `Break`'s error. The loss is never silent and never happens in the middle of a call. Search covers 1.1 M distinct states. |
| program_order | `MCProctl_ProgramOrder.cfg` | `ProgramOrder` | A violation: after Break(a), Step (the thread executes the int3), Clear(a) and Step, the thread executes from a+1, inside the restored instruction. |
| stable_ids | `MCProctl_StableBreakpointIds.cfg` | `StableBreakpointIds` | A violation: stepping a thread over a software breakpoint re-arms it with a new id. |

| live_pass | `MCProctl_Live.cfg` | `CloneHandled` | Under `FairSpec`: three thread ids, two started, a program of a clone followed by exit, so that a clone child may exit before its first stop. Every clone event is finished by `addThread`, through the wait on the child, its registration and the continuing of both threads, or through the error return when the child is gone. |
| stop_pass | `MCProctl_StopCancelsWait.cfg` | `StopCancelsWait` | Under `FairSpec`, core program: when `trapWait` is blocked, `halt` is set and a running thread has a SIGSTOP pending, control always returns to the user. |
| manual_stop | `MCProctl_ManualStop.cfg` | `ManualStopHonoured` | A violation: a `RequestManualStop` during `Continue`'s thread loop is erased by `run` (`dbp.halt = false`), and the later SIGSTOP is ignored, so the call never returns. |
| clones_registered | `MCProctl_ClonesRegistered.cfg` | `ClonesRegistered` | A violation: a clone during the single step of `ThreadContext.Step` is taken by that step's wait, and the child is never added to `dbp.Threads`. Continue and Step only resume registered threads, so the child stays frozen in its first SIGSTOP stop. |
| halt_stops_all | `MCProctl_HaltStopsAll.cfg` | `HaltStopsAll` | A violation: a thread exits, `trapWait` reaps its status but leaves it in `dbp.Threads`, then a breakpoint is hit; `Halt`'s tgkill fails on the reaped thread (on an unreaped zombie it would still succeed) and returns before signalling the live ones, and `Continue` returns with threads running. |
| refinement | `MCProctl_Refinement.cfg` | `BreakpointTableRefined` | A violation: the current thread is stepped over its own breakpoint and exits during the single step; the deferred `Break` through the dead current thread fails and the breakpoint is gone (Step returns that error). |
| darwin_pass | `MCDarwinHost.cfg` | `NoPanicWhileAlive`, `ExceptionFound` | With `Faults = FALSE`: three ports, one thread at attach, so that two threads can spawn and trap before a poll (1174 states). Every port `trapWait` returns while the task lives is registered and becomes `CurrentThread`. The controller reaches a nil `CurrentThread` only after the task has died: an exception queued before the death names a thread no poll registered. |
| darwin_current | `MCDarwinHost_Current.cfg` | `CurrentThreadPresent` | A violation with `Faults = TRUE`: a thread spawned since the last poll traps, the poll fails, and its error is dropped. `CurrentThread` becomes `dbp.Threads[port]`, which is nil. |

core_pass also checks `BreakpointTableRefined`: with no exits in its program,
every step maps to a `BreakpointTable` step or a stutter under
`bps <- {a : HasBP(BP, a)}`, `idle <- (ctl = "idle")`. With exits that
refinement fails (the refinement run). rt_pass checks, under the same mapping,
the weaker `SpecWithLoss`: its `Lose(a)` needs a driver call in progress and
ends it (`idle' = TRUE`). A successful `ThreadOp` returns to a controller phase
other than `idle`, so a step that both drops an address and returns to the user
is an error return.

The violations are reported as findings in `PROJECT.json`.

**Bounds.**
* Two thread ids are enough for a clone, for a second thread trapping while the
  current one is stepped, and for the current thread differing from the stepped one.
* One hardware slot makes the second breakpoint a software one, so both kinds
  and the slot-full fallback are reached.
* `MaxID` bounds `breakpointIDCounter` (the `IdBound` constraint). Each step over a
  software breakpoint takes a fresh id, so the counter has no natural bound.
  With 2, two breakpoints, or one breakpoint re-armed once, are reached.

**Deadlock.** `RequestManualStop` is always enabled while the process exists,
so core_pass checks deadlock. In rt_pass the process may exit, after which
the controller does nothing more, so that cfg says `CHECK_DEADLOCK FALSE`.

**Fairness.** `FairSpec == Spec /\ Fairness` is used by the liveness runs. It asks for
weak fairness of:
* the target's actions per thread (`Execute`, `DeliverStop`, `ChildStarts`). The kernel
  schedules every runnable thread and delivers a pending signal.
* every internal step of the controller (the loops, `run`, `trapWait`,
  `addThread`, the dispatch). The controller is one goroutine and blocks only in `wait4`.

The user's calls (`Break`, `Clear`, `Continue`, `Step`, `SwitchThread`,
`RequestManualStop`) get no fairness: nothing forces a user to act. The
liveness cfgs bound `MaxID` at 0 or 1 with one hardware slot, so that the
`IdBound` constraint never cuts a fair step and no violation is spurious.
`StopCancelsWait` is only checked on the program without exits. With exits,
the one thread holding the SIGSTOP may exit, and the wait then rightly
continues. The liveness cfgs say `CHECK_DEADLOCK FALSE`, because the process may exit.

**Exit and clone model.** `exit_group` ends every live thread. The main
thread gets the exit status, and the other threads get a plain exit event. A
clone child that exits before its first stop makes `addThread`'s second
`SetOptions` fail, and `CloneWait` then takes the error return.

**Mutants.** Each property of a passing run is broken by a plausible bug in
the code it is about:
* writing the original byte back is skipped on Clear (`AfterClearKeepsByte`);
* the hardware slots are ignored in the exists check (`HasBPSoftwareOnly`);
* the clone child is never stored (`AddThreadUnstored`);
* the `runtime.breakpoint` step loop runs `i <= 2` (`RtStepThrice`);
* the deferred re-`Break` is dropped from `ThreadContext.Step`, and Step
  reports success (`ThreadOpNoRearm`; it breaks both `BreakpointTableRefined`
  and `BreakpointTableWithLoss`);
* `addThread` waits on the parent instead of the child (`CloneWaitParent`);
* the `halt` test on SIGSTOP in `trapWait` is inverted (`WaitEventHaltInverted`);
* the darwin `trapWait` switches `CurrentThread` before polling the thread list
  (`WaitExceptionSwitchFirst`);
* the `!ok` test of darwin `updateThreadList` is inverted, so no new thread
  is registered (`UpdateThreadListInverted`).

## What is proved

`ProctlProofs.tla` proves, for every value of the constants allowed by
`TidAssumption`, `AddrAssumption` and `HWAssumption` (at most four hardware
slots, as `HWBreakPoints [4]*BreakPoint`):

* `TypeCorrect`: `Spec => []TypeOK`.
* `BreakpointSafety`: `Spec => [](BreakpointsInMemory /\ OneBreakpointPerAddress)`.
* `ThreadsRegistered`: `Spec => []RunningThreadsRegistered`.
* `OneBreakpoint`: `Spec => []OneBreakpointPerAddress`.

`BreakpointTableProofs.tla` proves `RefinementWithLoss`:
`Spec => BreakpointTableWithLoss`, for every program, exits included.
* **Initial states.** `Init` maps to `BreakpointTable`'s `Init`.
* **Steps.** Every `Next` step maps to a `Set`, an `Unset`, a `Toggle`, a
  `Lose` or a stutter (`StepRefines`). `Break` and `Clear` are `Set` and
  `Unset` (`AfterSetCovered`, `AfterClearCovered`). For a `ThreadOp` of a
  driver call, the proof splits on whether the current thread is alive after
  the single step (`ThreadOpRefines`):
  * if it is, the Clear and the re-Break leave the covered set as it was
    (`ThreadOpCovered`), and the step is a stutter or a `Toggle` (`KeepCovered`);
  * if it is not, the re-Break fails. The cleared address is uncovered, and
    `Return(FALSE, ...)` puts the controller back to `idle` in that step. The
    step is `Lose(a)` (`ThreadOpLoss`). Every caller of `ThreadOp` is in a
    phase other than `idle`, so a driver call was in progress.

  The only invariant needed is `Inv` from `ProctlProofs`, which gives
  `OneBreakpointPerAddress`. That is why clearing an address uncovers it.

The strict `BreakpointTableRefined` is only model-checked: core_pass has no
exits, and the refinement run shows it false with exits.

**The argument for the first two.** `Inv == TypeOK /\ BreakpointsInMemory /\
OneBreakpointPerAddress` is inductive as it stands. The tables and memory are
handled as one record `BP`, and two lemmas carry the step over a breakpoint:
* `AfterSetOK`: setting a breakpoint on an uncovered address keeps both invariants.
* `AfterClearOK`: clearing a covered address keeps both invariants. When a software breakpoint was cleared, it also leaves the address uncovered.

These let `ThreadOp`'s Clear, single-step and re-Break be proved in one step.
`LowestFree` is shown to pick a free slot by cases on the at most four slots.

**The argument for the third.** `RunningThreadsRegistered` is not inductive on
its own. A thread about to be continued by `ContinueThread`, `CloneChild`,
`CloneParent` or `RtStep` is not yet running, so nothing in the property
says it is registered. `RegInv` adds what the controller's position implies:
* inside the Continue and Step loops, `todo` is in the registry;
* in the clone, dispatch and `runtime.breakpoint` phases, `wpid` is registered;
* while the child is continued, so is `child`.

`RegInv` was first checked with TLC as an invariant of both passing configurations.

`DarwinHostProofs.tla` proves `Discovery`: under `~Faults`,
`Spec => ExceptionFound` for every set of ports. The inductive invariant `Inv` has three parts:
* while the task lives, every thread with a queued exception is alive;
* while the task lives, `CurrentThread` is registered;
* inside `trapWait`, no port has been returned yet.

From it, lemma `UpdateLive` shows that the poll adds the trapping thread and
keeps `CurrentThread`. The switch then makes that thread current. `Inv` was
checked with TLC on the darwin_pass instance before it was proved.

`DarwinHostProofs.tla` also proves `NoPanicAlive`: under `~Faults`,
`Spec => []NoPanicWhileAlive`. `NoPanicWhileAlive` is not inductive alone,
because a step into the panic state from a live task must be ruled out.
That is `Inv` again:
* `UpdateLive` gives a poll result with the old, non-nil `CurrentThread`;
* `UseCurrent` needs `cur = NIL`, which `Inv` excludes while the task lives.

So `Inv /\ NoPanicWhileAlive` is the inductive invariant. Under `Faults` the
property is false (the darwin_current trace continues to a panic).

`DarwinHostProofs.tla` also proves `DarwinTypeCorrect`: `Spec => []TypeOK`
for the darwin host, with no assumption on `Faults`.

`ThreadRegistryProofs.tla` proves, for every value of the constants and
with exits, `RegistryInvariant`: `Spec => []BornInv`.

`BornInv` has four parts:
* the registry is a subset of the created threads;
* `cur` is registered;
* every event message names a created thread;
* so does the clone child being added.

The message and child conjuncts are needed because `addThread` registers the
thread named by `PtraceGetEventMsg`. Nothing here says a thread is alive,
so exits do not matter. The step lemmas `InstructionBorn`, `SingleStepBorn`
and `ThreadOpBorn` say that an instruction, a single step or a thread continue
creates at most one thread.

## Only model-checked, and not modelled

**Only model-checked.**
* Every invariant of the passing runs, and `BreakpointTableWithLoss`, has a
  theorem above. `BreakpointTableRefined` (core_pass, no exits) is only
  model-checked.
* The violated properties are only shown by TLC's runs.
* The liveness properties (`CloneHandled`, `StopCancelsWait`) are out of the prover's
  reach, as are fairness and `ENABLED`.
* No recursive operators are used.

**Not modelled:**
* `Next`. It depends on DWARF line tables, FDEs and a return address read from the
  stack, and it is the only source of temporary breakpoints.
* `FindLocation` and its `ByLocation` callers. They are string and symbol-table
  lookups.
* `LoadInformation` and the debug-info parsers. They are I/O.
* The ptrace attach and `/proc` scan of `Attach` and `Launch`. Only the state they
  leave is modelled.
* Parts of the darwin host:
  * `Halt`: `thread_suspend` lives in `threads_darwin`, outside this tree, and the loop has the shape of the Linux `Halt` that `Proctl` models;
  * `LoadInformation`, `findExecutable` and the parsers;
  * the split of `thread_count` and `get_threads` into two calls (the model polls atomically). The hazards that split raises are listed in `PROJECT.json`.
* The data race between `RequestManualStop` (from the signal goroutine) and
  `addThread` on `dbp.Threads`. `RequestManualStop` is an atomic step here. A
  Go map race ends in a runtime crash, which is not a state the model could
  continue from.
