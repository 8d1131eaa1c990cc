------------------------- MODULE ForkServerProofs -------------------------
(***************************************************************************)
(* Proofs about ForkServer for every process limit and every number of     *)
(* connections.  TypeOK and WaitNeverBlocks together are inductive: each   *)
(* exit brings a zombie and at most one new signal, each delivery moves a  *)
(* signal into the handler, each wait takes one zombie for it.             *)
(***************************************************************************)
EXTENDS ForkServer, TLAPS

IInv == TypeOK /\ WaitNeverBlocks

\* The pending bit of SIGCHLD (server.c:61-65) counts as zero or one signal.
LEMMA OneValue == ASSUME NEW b \in BOOLEAN PROVE One(b) \in {0, 1}
  BY DEF One

\* run_server starts with no process, no zombie and no pending signal.
LEMMA InitIInv == Init => IInv
  <1> SUFFICES ASSUME Init PROVE IInv
    OBVIOUS
  <1>1. /\ One(pending) = 0 /\ One(handler) = 0 /\ ~handler
        /\ handler \in BOOLEAN /\ pending \in BOOLEAN
    BY Zenon DEF Init, One
  <1>2. loop \in {"accept", "fork", "stopped"}
    BY Zenon DEF Init
  <1>3. live = 0 /\ zombies = 0 /\ backlog = 0 /\ arrived = 0
    BY Zenon DEF Init
  <1>4. TypeOK
    BY <1>1, <1>2, <1>3, ProcsAssumption DEF TypeOK
  <1>5. WaitNeverBlocks
    BY <1>1, <1>3 DEF WaitNeverBlocks, Leaked
  <1> QED BY <1>4, <1>5 DEF IInv

\* Every step preserves the invariant and never lowers the leak.
LEMMA StepIInv ==
    ASSUME IInv, Next
    PROVE  IInv' /\ Leaked' >= Leaked
  <1>1. CASE Arrive
    BY <1>1, ProcsAssumption DEF Arrive, IInv, TypeOK, WaitNeverBlocks, Leaked, One
  <1>2. CASE Accept
    BY <1>2, ProcsAssumption DEF Accept, IInv, TypeOK, WaitNeverBlocks, Leaked, One
  <1>3. CASE AcceptFails
    BY <1>3, ProcsAssumption DEF AcceptFails, IInv, TypeOK, WaitNeverBlocks, Leaked, One
  <1>4. CASE Fork
    BY <1>4, ProcsAssumption DEF Fork, IInv, TypeOK, WaitNeverBlocks, Leaked, One
  <1>5. CASE ForkFails
    BY <1>5, ProcsAssumption DEF ForkFails, IInv, TypeOK, WaitNeverBlocks, Leaked, One
  <1>6. CASE ChildExit
    BY <1>6, ProcsAssumption DEF ChildExit, IInv, TypeOK, WaitNeverBlocks, Leaked, One
  <1>7. CASE Deliver
    <2>1. /\ One(pending) = 1 /\ One(handler) = 0 /\ One(pending)' = 0 /\ One(handler)' = 1
          /\ handler' \in BOOLEAN /\ pending' \in BOOLEAN
      BY <1>7, Zenon DEF Deliver, One
    <2>2. UNCHANGED <<loop, live, zombies, backlog, arrived>>
      BY <1>7 DEF Deliver
    <2> QED BY <2>1, <2>2 DEF IInv, TypeOK, WaitNeverBlocks, Leaked
  <1>8. CASE Reap
    <2>1. handler /\ ~handler' /\ handler' \in BOOLEAN
      BY <1>8, Zenon DEF Reap
    <2>2. One(handler) = 1 /\ One(handler)' = 0
      BY <2>1, Zenon DEF One
    <2>3. zombies > 0 /\ zombies \in Nat
      BY <2>1 DEF IInv, TypeOK, WaitNeverBlocks
    <2>4. zombies' = zombies - 1 /\ UNCHANGED <<loop, pending, live, backlog, arrived>>
      BY <1>8, <2>3 DEF Reap
    <2>5. One(pending)' = One(pending) /\ One(pending) \in {0, 1}
      BY <2>4, OneValue, Zenon DEF IInv, TypeOK
    <2>6. Leaked >= 0
      BY DEF IInv, WaitNeverBlocks
    <2>7. Leaked' = (zombies - 1) - One(pending) - 0 /\ Leaked = zombies - One(pending) - 1
      BY <2>2, <2>4, <2>5, Zenon DEF Leaked
    <2>8. Leaked' = Leaked /\ Leaked \in Int
      BY <2>3, <2>5, <2>7
    <2>9. zombies' \in Nat /\ live' + zombies' <= MaxProcs /\ live' \in Nat
      BY <2>3, <2>4, ProcsAssumption DEF IInv, TypeOK
    <2>10. /\ loop' \in {"accept", "fork", "stopped"} /\ pending' \in BOOLEAN
           /\ backlog' \in Nat /\ arrived' \in 0 .. MaxConns
      BY <2>4, Zenon DEF IInv, TypeOK
    <2>11. TypeOK'
      BY <2>1, <2>9, <2>10, Zenon DEF TypeOK
    <2>12. WaitNeverBlocks'
      <3>1. Leaked' >= 0
        BY <2>6, <2>8
      <3> QED BY <2>1, <3>1, Zenon DEF WaitNeverBlocks
    <2>13. Leaked' >= Leaked
      BY <2>8
    <2> QED BY <2>11, <2>12, <2>13, Zenon DEF IInv
  <1> QED BY <1>1, <1>2, <1>3, <1>4, <1>5, <1>6, <1>7, <1>8 DEF Next

\* A step that leaves the server alone preserves the invariant.
LEMMA StutterIInv == IInv /\ UNCHANGED vars => IInv'
  BY DEF IInv, TypeOK, WaitNeverBlocks, Leaked, One, vars

\* Every reachable state satisfies the invariant.
THEOREM Invariance == Spec => []IInv
  <1>1. IInv /\ [Next]_vars => IInv'
    BY StepIInv, StutterIInv
  <1> QED BY InitIInv, <1>1, PTL DEF Spec

\* The process counts stay within the kernel's limit.
THEOREM TypeCorrect == Spec => []TypeOK
  <1>1. IInv => TypeOK
    BY DEF IInv
  <1> QED BY Invariance, <1>1, PTL

\* reaper's wait always finds a zombie: the handler never blocks the accept
\* loop behind a running transfer.
THEOREM HandlerSafe == Spec => []WaitNeverBlocks
  <1>1. IInv => WaitNeverBlocks
    BY DEF IInv
  <1> QED BY Invariance, <1>1, PTL

\* No step of the server ever reaps a zombie whose signal was merged.
THEOREM LeakPermanent == Spec => LeakIsForever
  <1>1. IInv /\ [Next]_vars => [Leaked' >= Leaked]_vars
    BY StepIInv
  <1> QED BY Invariance, <1>1, PTL DEF Spec, LeakIsForever
===========================================================================
