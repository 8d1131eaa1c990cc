---------------------------- MODULE ForkServer ----------------------------
(***************************************************************************)
(* The parent process of the server: run_server accepts a connection and   *)
(* forks a child for it, and reaper, the SIGCHLD handler, waits for one    *)
(* child per signal (server/server.c).                                     *)
(*                                                                         *)
(* The kernel is modelled as the code uses it: a signal that is already    *)
(* pending is not queued a second time; SIGCHLD is blocked while its own   *)
(* handler runs (sigaction without SA_NODEFER); accept is restarted        *)
(* (SA_RESTART), so the handler may run at any point of the loop; fork     *)
(* fails when MaxProcs processes, zombies included, exist.  Children are   *)
(* alike and are counted.  A child may run for ever (see FileTransfer).    *)
(***************************************************************************)
EXTENDS Integers

CONSTANTS MaxProcs,     \* children the kernel lets the server have
          MaxConns      \* bound: connections that arrive

ASSUME ProcsAssumption == MaxProcs \in Nat \ {0} /\ MaxConns \in Nat

VARIABLES
    loop,         \* "accept", "fork" (accepted, not yet forked), "stopped"
    handler,      \* reaper is running in the parent
    pending,      \* SIGCHLD is pending
    live,         \* children running
    zombies,      \* children that exited and were not waited for
    backlog,      \* connections waiting to be accepted
    arrived       \* connections that have arrived so far

vars == <<loop, handler, pending, live, zombies, backlog, arrived>>

Init ==
    /\ loop = "accept"
    /\ handler = FALSE /\ pending = FALSE
    /\ live = 0 /\ zombies = 0
    /\ backlog = 0 /\ arrived = 0

\* A client connects; the kernel completes the connection and queues it.
Arrive ==
    /\ loop # "stopped" /\ arrived < MaxConns
    /\ arrived' = arrived + 1
    /\ backlog' = backlog + 1
    /\ UNCHANGED <<loop, handler, pending, live, zombies>>

\* accept returns a connection.
Accept ==
    /\ loop = "accept" /\ ~handler /\ backlog > 0
    /\ backlog' = backlog - 1
    /\ loop' = "fork"
    /\ UNCHANGED <<handler, pending, live, zombies, arrived>>

\* accept fails (not with EINTR): run_server returns and the process ends.
AcceptFails ==
    /\ loop = "accept" /\ ~handler
    /\ loop' = "stopped"
    /\ UNCHANGED <<handler, pending, live, zombies, backlog, arrived>>

\* fork succeeds; the parent closes its copy of the connection.
Fork ==
    /\ loop = "fork" /\ ~handler /\ live + zombies < MaxProcs
    /\ live' = live + 1
    /\ loop' = "accept"
    /\ UNCHANGED <<handler, pending, zombies, backlog, arrived>>

\* fork fails: run_server returns, the server is gone.
ForkFails ==
    /\ loop = "fork" /\ ~handler /\ live + zombies >= MaxProcs
    /\ loop' = "stopped"
    /\ UNCHANGED <<handler, pending, live, zombies, backlog, arrived>>

\* Faulty variant: exited children are not kept as zombies (SA_NOCLDWAIT) and
\* reaper waits all the same.
ChildExitNoZombie ==
    /\ live > 0 /\ loop # "stopped"
    /\ live' = live - 1
    /\ pending' = TRUE
    /\ UNCHANGED <<loop, handler, zombies, backlog, arrived>>

\* A child exits: it becomes a zombie and SIGCHLD becomes pending, whether
\* or not it was pending already.
ChildExit ==
    /\ live > 0 /\ loop # "stopped"
    /\ live' = live - 1
    /\ zombies' = zombies + 1
    /\ pending' = TRUE
    /\ UNCHANGED <<loop, handler, backlog, arrived>>

\* The pending signal is delivered: the parent enters reaper.
Deliver ==
    /\ pending /\ ~handler /\ loop # "stopped"
    /\ pending' = FALSE
    /\ handler' = TRUE
    /\ UNCHANGED <<loop, live, zombies, backlog, arrived>>

\* Faulty variant: the handler waits in a loop until no child is left.
ReapAll ==
    /\ handler /\ live = 0
    /\ zombies' = 0
    /\ handler' = FALSE
    /\ UNCHANGED <<loop, pending, live, backlog, arrived>>

\* wait(&wstatus) takes one zombie and the handler returns.  With children
\* running and no zombie it would block the parent; with neither it fails.
Reap ==
    /\ handler /\ (zombies > 0 \/ live = 0)
    /\ zombies' = IF zombies > 0 THEN zombies - 1 ELSE 0
    /\ handler' = FALSE
    /\ UNCHANGED <<loop, pending, live, backlog, arrived>>

Next == \/ Arrive \/ Accept \/ AcceptFails \/ Fork \/ ForkFails
        \/ ChildExit \/ Deliver \/ Reap

\* The parent is scheduled and the kernel delivers pending signals.  Nothing
\* obliges a child to exit, a client to connect or accept to fail.
Spec == /\ Init /\ [][Next]_vars
        /\ WF_vars(Accept) /\ WF_vars(Fork \/ ForkFails)
        /\ WF_vars(Deliver) /\ WF_vars(Reap)

---------------------------------------------------------------------------
One(b) == IF b THEN 1 ELSE 0

\* Type correctness of the parent's state and of the process counts.
TypeOK ==
    /\ loop \in {"accept", "fork", "stopped"}
    /\ handler \in BOOLEAN /\ pending \in BOOLEAN
    /\ live \in Nat /\ zombies \in Nat
    /\ live + zombies <= MaxProcs
    /\ backlog \in Nat /\ arrived \in 0 .. MaxConns

\* Zombies whose signal was merged with an earlier one: those that neither
\* the pending signal nor the running handler will wait for.
Leaked == zombies - One(pending) - One(handler)

\* There is a zombie for every signal in progress, however exits, deliveries
\* and waits interleave: the wait in reaper never blocks the parent behind a
\* child that is still transferring (server.c:30), and never fails.
WaitNeverBlocks ==
    /\ Leaked >= 0
    /\ handler => zombies > 0

\* A zombie that was leaked stays: the accept loop never waits for children
\* by itself, and every later exit brings one zombie for one wait.
LeakIsForever == [][Leaked' >= Leaked]_vars

\* reaper always returns, and a connection in the queue is served unless the
\* server has stopped: neither a signal in the middle of the loop nor a
\* child that never exits holds the parent up.
ParentResponsive ==
    /\ handler ~> ~handler
    /\ backlog > 0 ~> (backlog = 0 \/ loop = "stopped")

---------------------------------------------------------------------------
(* What a comment in the repository says and the code does not do.         *)

\* server.c:59, "because we are going to have children, arrange to cleanup
\* children": a child that exits is waited for.
ChildrenCleanedUp == zombies > 0 ~> (zombies = 0 \/ loop = "stopped")
===========================================================================
