-------------------------- MODULE DarwinHostProofs --------------------------
(* Proofs about the darwin host for every set of ports: when the mach      *)
(* thread-list calls do not fail, polling the task's thread list after     *)
(* each exception keeps CurrentThread registered while the task lives, and *)
(* every trap trapWait returns comes from a registered thread.             *)
EXTENDS DarwinHost, TLAPS

(* The inductive invariant.  While the task lives, a thread with a queued *)
(* exception is alive (it is suspended and cannot exit) and CurrentThread *)
(* is a registered thread; inside trapWait no port has been returned yet.  *)
Inv ==
  /\ TypeOK
  /\ ctl = "wait" => ret = NIL
  /\ ~dead => queue \subseteq task /\ cur \in threads

(* Init establishes the invariant: newDebugProcess registers the threads  *)
(* and picks the current one among them.                                   *)
LEMMA InitInv == Init => Inv
BY PortAssumption DEF Init, Inv, TypeOK

(* What updateThreadList leaves on a live task when the thread-list calls *)
(* succeed: the registry grows by the task's threads, and a registered    *)
(* CurrentThread stays.                                                    *)
LEMMA UpdateLive ==
  ASSUME ~Faults, ~dead, TypeOK, cur \in threads,
         NEW r \in Updates, UpdateThreadList(r)
  PROVE  r.thr = threads \cup task /\ r.cur = cur
<1>1. ~r.err /\ r.thr = threads \cup task
  BY DEF UpdateThreadList
<1>2. cur # NIL
  BY PortAssumption DEF TypeOK
<1>3. r.cur = cur
  BY <1>1, <1>2 DEF UpdateThreadList
<1>. QED BY <1>1, <1>3

(* Each step keeps the invariant when the thread-list calls do not fail.  *)
LEMMA NextInv ==
  ASSUME ~Faults, Inv, [Next]_vars
  PROVE  Inv'
<1>. USE DEF Inv, TypeOK
<1>1. CASE \E p \in Port : Spawn(p)
  BY <1>1 DEF Spawn
<1>2. CASE \E p \in Port : Raise(p)
  BY <1>2 DEF Raise
<1>3. CASE \E p \in Port : ThreadExit(p)
  BY <1>3 DEF ThreadExit
<1>4. CASE \E p \in Port : WaitException(p)
  <2>1. PICK p \in Port : WaitException(p)
    BY <1>4
  <2>2. PICK r \in Updates :
          /\ UpdateThreadList(r)
          /\ threads' = r.thr
          /\ IF r.cur = NIL
               THEN ctl' = "panic" /\ cur' = NIL
               ELSE /\ ctl' = "idle"
                    /\ cur' = IF p = r.cur THEN r.cur
                              ELSE IF p \in r.thr THEN p ELSE NIL
    BY <2>1 DEF WaitException
  <2>3. /\ queue' = queue \ {p} /\ ret' = p /\ p \in queue
        /\ UNCHANGED <<task, born, dead>>
    BY <2>1 DEF WaitException
  <2>4. r.thr \subseteq Port /\ r.cur \in Port \cup {NIL}
    BY DEF Updates
  <2>5. TypeOK'
    BY <2>2, <2>3, <2>4
  <2>6. ctl' # "wait"
    BY <2>2
  <2>7. CASE dead
    BY <2>3, <2>5, <2>6, <2>7
  <2>8. CASE ~dead
    <3>1. r.thr = threads \cup task /\ r.cur = cur
      BY <2>2, <2>8, UpdateLive
    <3>2. p \in r.thr /\ cur \in r.thr /\ cur # NIL
      BY <2>3, <2>8, <3>1, PortAssumption
    <3>3. cur' \in threads'
      BY <2>2, <3>1, <3>2
    <3>. QED BY <2>3, <2>5, <2>6, <2>8, <3>3
  <2>. QED BY <2>7, <2>8
<1>5. CASE TaskExit
  BY <1>5 DEF TaskExit
<1>6. CASE Continue
  BY <1>6 DEF Continue
<1>7. CASE WaitNoPort
  BY <1>7 DEF WaitNoPort
<1>8. CASE WaitNotified
  BY <1>8 DEF WaitNotified
<1>9. CASE UseCurrent
  BY <1>9 DEF UseCurrent
<1>10. CASE UNCHANGED vars
  BY <1>10 DEF vars
<1>. QED BY <1>1, <1>2, <1>3, <1>4, <1>5, <1>6, <1>7, <1>8, <1>9, <1>10 DEF Next

(* Without failing thread-list calls, the invariant holds in every state. *)
THEOREM DiscoveryInvariant == ASSUME ~Faults PROVE Spec => []Inv
BY InitInv, NextInv, PTL DEF Spec

(* Polled discovery, for every instance: when the thread-list calls do    *)
(* not fail, every port trapWait returns while the task lives is a         *)
(* registered thread and becomes CurrentThread (ExceptionFound).           *)
THEOREM Discovery == ASSUME ~Faults PROVE Spec => ExceptionFound
<1>1. ASSUME Inv, [Next]_vars
      PROVE  [ctl = "wait" /\ ~dead /\ ret' \in Port
                => ret' \in threads' /\ cur' = ret']_vars
  <2>1. SUFFICES ASSUME ctl = "wait", ~dead, ret' \in Port
                 PROVE  ret' \in threads' /\ cur' = ret'
    OBVIOUS
  <2>2. ret = NIL /\ NIL \notin Port /\ cur \in threads /\ queue \subseteq task
    BY <1>1, <2>1, PortAssumption DEF Inv
  <2>3. ret' # ret
    BY <2>1, <2>2
  <2>4. PICK p \in Port : WaitException(p)
    <3>1. ~\E q \in Port : Spawn(q) \/ Raise(q) \/ ThreadExit(q)
      BY <2>3 DEF Spawn, Raise, ThreadExit
    <3>2. ~TaskExit /\ ~WaitNoPort /\ ~WaitNotified /\ ~UseCurrent
      BY <2>3 DEF TaskExit, WaitNoPort, WaitNotified, UseCurrent
    <3>3. ~Continue /\ ~UNCHANGED vars
      BY <2>1, <2>2, <2>3 DEF Continue, vars
    <3>. QED BY <1>1, <3>1, <3>2, <3>3 DEF Next
  <2>5. PICK r \in Updates :
          /\ UpdateThreadList(r)
          /\ threads' = r.thr
          /\ IF r.cur = NIL
               THEN ctl' = "panic" /\ cur' = NIL
               ELSE /\ ctl' = "idle"
                    /\ cur' = IF p = r.cur THEN r.cur
                              ELSE IF p \in r.thr THEN p ELSE NIL
    BY <2>4 DEF WaitException
  <2>6. ret' = p /\ p \in queue
    BY <2>4 DEF WaitException
  <2>7. r.thr = threads \cup task /\ r.cur = cur
    BY <1>1, <2>1, <2>2, <2>5, UpdateLive DEF Inv
  <2>8. r.cur # NIL /\ p \in r.thr
    BY <1>1, <2>2, <2>6, <2>7 DEF Inv, TypeOK
  <2>9. cur' = p
    BY <2>5, <2>8
  <2>. QED BY <2>5, <2>6, <2>8, <2>9
<1>. QED BY <1>1, DiscoveryInvariant, PTL DEF Spec, ExceptionFound

(* A step into the panic state needs a nil CurrentThread on a live task,  *)
(* which the invariant rules out: updateThreadList keeps a registered      *)
(* CurrentThread, and UseCurrent's nil is not a registered port.  Once the *)
(* task is dead it stays dead.                                             *)
LEMMA NextNoPanic ==
  ASSUME ~Faults, Inv, NoPanicWhileAlive, [Next]_vars
  PROVE  NoPanicWhileAlive'
<1>. USE DEF NoPanicWhileAlive
<1>1. CASE \E p \in Port : Spawn(p) \/ Raise(p) \/ ThreadExit(p)
  BY <1>1 DEF Spawn, Raise, ThreadExit
<1>2. CASE \E p \in Port : WaitException(p)
  <2>1. PICK p \in Port : WaitException(p)
    BY <1>2
  <2>2. PICK r \in Updates :
          /\ UpdateThreadList(r)
          /\ IF r.cur = NIL THEN ctl' = "panic" ELSE ctl' = "idle"
    BY <2>1 DEF WaitException
  <2>3. UNCHANGED dead
    BY <2>1 DEF WaitException
  <2>4. CASE dead
    BY <2>3, <2>4
  <2>5. CASE ~dead
    <3>1. cur \in threads /\ TypeOK
      BY <2>5 DEF Inv
    <3>2. r.cur = cur /\ cur # NIL
      BY <2>2, <2>5, <3>1, UpdateLive, PortAssumption DEF TypeOK
    <3>. QED  BY <2>2, <3>2
  <2>. QED  BY <2>4, <2>5
<1>3. CASE TaskExit
  BY <1>3 DEF TaskExit
<1>4. CASE Continue \/ WaitNoPort \/ WaitNotified
  BY <1>4 DEF Continue, WaitNoPort, WaitNotified
<1>5. CASE UseCurrent
  <2>1. cur = NIL /\ UNCHANGED dead
    BY <1>5 DEF UseCurrent
  <2>2. dead
    BY <2>1, PortAssumption DEF Inv, TypeOK
  <2>. QED  BY <2>1, <2>2
<1>6. CASE UNCHANGED vars
  BY <1>6 DEF vars
<1>. QED  BY <1>1, <1>2, <1>3, <1>4, <1>5, <1>6 DEF Next

(* NoPanicWhileAlive for every instance: when thread_count and get_threads *)
(* do not fail, no nil CurrentThread is dereferenced while the task lives. *)
THEOREM NoPanicAlive == ASSUME ~Faults PROVE Spec => []NoPanicWhileAlive
<1>1. Init => NoPanicWhileAlive
  BY DEF Init, NoPanicWhileAlive
<1>2. Inv /\ NoPanicWhileAlive /\ [Next]_vars => Inv' /\ NoPanicWhileAlive'
  BY NextInv, NextNoPanic
<1>. QED  BY <1>1, <1>2, InitInv, PTL DEF Spec


(* Type correctness needs no assumption on Faults: a failed poll leaves    *)
(* the registry as it was, and trapWait's switch only ever stores a port   *)
(* of the list or nil.                                                     *)
LEMMA NextType ==
  ASSUME TypeOK, [Next]_vars
  PROVE  TypeOK'
<1>. USE DEF TypeOK
<1>1. CASE \E p \in Port : WaitException(p)
  <2>1. PICK p \in Port : WaitException(p)
    BY <1>1
  <2>2. PICK r \in Updates :
          /\ threads' = r.thr
          /\ IF r.cur = NIL
               THEN ctl' = "panic" /\ cur' = NIL
               ELSE /\ ctl' = "idle"
                    /\ cur' = IF p = r.cur THEN r.cur
                              ELSE IF p \in r.thr THEN p ELSE NIL
    BY <2>1 DEF WaitException
  <2>3. r.thr \subseteq Port /\ r.cur \in Port \cup {NIL}
    BY DEF Updates
  <2>. QED  BY <2>1, <2>2, <2>3 DEF WaitException
<1>2. CASE \E p \in Port : Spawn(p) \/ Raise(p) \/ ThreadExit(p)
  BY <1>2 DEF Spawn, Raise, ThreadExit
<1>3. CASE TaskExit \/ Continue \/ WaitNoPort \/ WaitNotified \/ UseCurrent
  BY <1>3 DEF TaskExit, Continue, WaitNoPort, WaitNotified, UseCurrent
<1>4. CASE UNCHANGED vars
  BY <1>4 DEF vars
<1>. QED  BY <1>1, <1>2, <1>3, <1>4 DEF Next

(* Every reachable state of the darwin host is typed, whether or not the  *)
(* thread-list calls may fail.                                             *)
THEOREM DarwinTypeCorrect == Spec => []TypeOK
<1>1. Init => TypeOK
  BY PortAssumption DEF Init, TypeOK
<1>. QED  BY <1>1, NextType, PTL DEF Spec

=============================================================================
