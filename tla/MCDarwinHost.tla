---------------------------- MODULE MCDarwinHost ----------------------------
(* Instance of the darwin host for TLC: three thread ports, one thread at  *)
(* attach, so that two threads can be spawned and trap before a poll.      *)
EXTENDS DarwinHost

CONSTANTS p1, p2, p3

MCPort == {p1, p2, p3}
MCInitPorts == {p1}
=============================================================================
