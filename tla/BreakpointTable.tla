--------------------------- MODULE BreakpointTable ---------------------------
(* What the breakpoint engine promises its user: the set of addresses a   *)
(* breakpoint covers changes only by a Break or a Clear of the user, one  *)
(* address at a time, while the process is stopped and no driver call    *)
(* (Continue, Step) runs.  A driver call may take breakpoints out and put *)
(* them back (stepping over one), but what the user sees after it is what *)
(* it saw before.                                                          *)
CONSTANT Addr

VARIABLES
  bps,   \* the addresses covered by a breakpoint
  idle   \* no driver call is in progress

vars == <<bps, idle>>

TypeOK == bps \subseteq Addr /\ idle \in BOOLEAN

Init == bps = {} /\ idle = TRUE

(* Break(a) of an address no breakpoint covers.                           *)
Set(a) ==
  /\ idle /\ a \notin bps
  /\ bps' = bps \cup {a}
  /\ UNCHANGED idle

(* Clear(a) of a covered address.                                          *)
Unset(a) ==
  /\ idle /\ a \in bps
  /\ bps' = bps \ {a}
  /\ UNCHANGED idle

(* A driver call starts, or returns to the user.                          *)
Toggle ==
  /\ idle' = ~idle
  /\ UNCHANGED bps

Next == (\E a \in Addr : Set(a) \/ Unset(a)) \/ Toggle

Spec == Init /\ [][Next]_vars

(* The weaker promise the engine keeps when a thread can exit: a driver  *)
(* call that steps over the breakpoint at a may lose it, but only in the  *)
(* step in which the call returns to the user (with the error of the     *)
(* failed Break), never silently in the middle of a call.                *)
Lose(a) ==
  /\ ~idle /\ a \in bps
  /\ bps' = bps \ {a}
  /\ idle' = TRUE

NextWithLoss == Next \/ \E a \in Addr : Lose(a)

SpecWithLoss == Init /\ [][NextWithLoss]_vars
=============================================================================
