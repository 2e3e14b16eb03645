------------------------------ MODULE MCProctl ------------------------------
(* A small target for model checking Proctl: two thread ids (the second   *)
(* one created by a clone), a loop of three instructions of which one is  *)
(* the clone syscall, one hardware slot so that software breakpoints are  *)
(* used too.                                                               *)
EXTENDS Proctl, TLC

CONSTANTS t1, t2, t3,
  MaxID   \* bound on breakpointIDCounter

MCTid == {t1, t2}
MCTid3 == {t1, t2, t3}
MCAddr == {1, 2, 3}
MCSucc == (1 :> {2}) @@ (2 :> {3}) @@ (3 :> {1})
MCKind == (1 :> "op") @@ (2 :> "clone") @@ (3 :> "op")

(* The same loop with two-byte instructions: the byte after a trap byte  *)
(* is never an instruction start.                                         *)
MCAddrWide == {1, 3, 5}
MCSuccWide == (1 :> {3}) @@ (3 :> {5}) @@ (5 :> {1})
MCKindWide == (1 :> "op") @@ (3 :> "clone") @@ (5 :> "op")

(* Two threads from the start; runtime.breakpoint's int3 at 1 (its next  *)
(* instruction, 2, belongs to that function), a loop that a thread may    *)
(* leave through a stray int3 at 3 (no breakpoint of the debugger's) and  *)
(* the exit at 4 (a thread exit, or exit_group for Main).                 *)
MCAddrRt == {1, 2, 3, 4}
MCSuccRt == (1 :> {2}) @@ (2 :> {1, 3}) @@ (3 :> {4}) @@ (4 :> {})
MCKindRt == (1 :> "int3") @@ (2 :> "op") @@ (3 :> "int3") @@ (4 :> "exit")

(* A loop 1 -> 2 -> 1 that a thread leaves through the exit at 3: a thread *)
(* exit, or exit_group for Main.                                          *)
MCAddrExit == {1, 2, 3}
MCSuccExit == (1 :> {2}) @@ (2 :> {1, 3}) @@ (3 :> {})
MCKindExit == (1 :> "op") @@ (2 :> "op") @@ (3 :> "exit")

(* A clone followed by the exit: a second thread may clone a third while  *)
(* Main reaches the exit_group.                                            *)
MCAddrCloneExit == {1, 2}
MCSuccCloneExit == (1 :> {2}) @@ (2 :> {})
MCKindCloneExit == (1 :> "clone") @@ (2 :> "exit")

(* Bound on breakpointIDCounter: every step over a software breakpoint    *)
(* takes a fresh id, so the counter is cut off here.                      *)
IdBound == nextID <= MaxID
=============================================================================
