-------------------------------- MODULE Master --------------------------------
(***************************************************************************)
(* The master process after its start: ngx_master_process_cycle and        *)
(* ngx_spawn_process of proc/ngx_process_cycle.cxx, with the signal        *)
(* handlers of signal/ngx_signal.cxx that interrupt it.                    *)
(*                                                                         *)
(* The kernel keeps at most one instance of each signal, and hands it over *)
(* as soon as it is not blocked.  The signals are represented by three:    *)
(* CHLD, TERM for all those the handler only logs (SIGHUP, SIGINT, SIGTERM,*)
(* SIGQUIT, SIGIO), and USR1 for those that are blocked during the start   *)
(* but have no handler (SIGUSR1, SIGUSR2, SIGALRM): they kill.             *)
(*                                                                         *)
(* A handler is one step, except when it loops.  While it runs its own     *)
(* signal is blocked (SA_NODEFER is not set), the others may interrupt it, *)
(* and the mask is restored when it returns.                               *)
(***************************************************************************)
EXTENDS Integers, FiniteSets

CONSTANT ProcessNums     \* WorkerProcesses of the configuration

ASSUME ProcessNumsAssumption == ProcessNums \in Nat

Workers == 0..(ProcessNums - 1)

Signals == {"CHLD", "TERM", "USR1"}

VARIABLES
  child,     \* child[w]: worker w as the kernel knows it
  i,         \* the number of the next worker to start
  pending,   \* signals sent to the master and not yet delivered
  blocked,   \* sigprocmask has blocked the ten signals
  outer,     \* the signal whose handler sigsuspend waits for, or "none"
  spin,      \* the handler of SIGCHLD is in its loop
  errno,     \* "EINTR", "ECHILD", or "other" for any other value
  ngx_reap,  \* set by the handler, read by nobody
  mpc,       \* where the main flow is
  shared     \* history: how many workers ended while a SIGCHLD was pending already

sigVars == <<pending, blocked, outer, spin>>
vars == <<child, i, sigVars, errno, ngx_reap, mpc, shared>>

Running == {w \in Workers : child[w] = "running"}
Zombies == {w \in Workers : child[w] = "zombie"}
Reaped  == {w \in Workers : child[w] = "reaped"}

Init ==
  /\ child = [w \in Workers |-> "none"]
  /\ i = 0
  /\ pending = {} /\ blocked = FALSE /\ outer = "none" /\ spin = FALSE
  /\ errno = "other"
  /\ ngx_reap = FALSE
  /\ mpc = "start"
  /\ shared = 0

-----------------------------------------------------------------------------
(* The mask of the signals *)

\* Mutant: SIGCHLD is not added.
BlockedSet_WithoutChild == Signals \ {"CHLD"}

\* The ten signals "not wanted while this function runs".
BlockedSet == Signals

\* Mutant: the set is not emptied.
SuspendSet_StillFull == Signals

\* The mask while sigsuspend waits.
SuspendSet == {}

\* What is blocked now.  Until sigsuspend returns, its mask and the signal that has
\* ended the wait; a handler that loops blocks its own signal.
Mask ==
  LET ofFlow == IF mpc \in {"suspend", "awake"} THEN SuspendSet \cup {outer}
                ELSE IF blocked THEN BlockedSet ELSE {}
  IN  ofFlow \cup {s \in {"CHLD"} : spin}

\* What is written to the log may fail, and leave another error number.
AfterLog == {errno, "other"}

-----------------------------------------------------------------------------
(* The main flow, when no handler interrupts it *)

\* sigprocmask may fail, which is logged; then the start goes on without it.
BlockSignals ==
  /\ mpc = "start"
  /\ \/ blocked' = TRUE /\ errno' \in AfterLog
     \/ blocked' = FALSE /\ errno' = "other"
  /\ mpc' = "spawn"
  /\ UNCHANGED <<child, i, outer>>

\* Mutant: one process too many.
MoreToSpawn_OneTooMany == i <= ProcessNums

MoreToSpawn == i < ProcessNums

\* ngx_spawn_process.  The result of fork() is logged, and used by nobody.
Fork ==
  /\ mpc = "spawn" /\ MoreToSpawn
  /\ \/ child' = [child EXCEPT ![i] = "running"] /\ UNCHANGED errno
     \/ child' = [child EXCEPT ![i] = "failed"] /\ errno' = "other"
  /\ i' = i + 1
  /\ UNCHANGED <<blocked, outer, mpc>>

\* sigsuspend(&set): all spawned, or after sleep(1), which a handler cuts short.
Suspend ==
  /\ \/ mpc = "spawn" /\ ~MoreToSpawn /\ UNCHANGED errno
     \/ mpc = "sleep" /\ errno' \in {errno, "EINTR"}
  /\ mpc' = "suspend"
  /\ UNCHANGED <<child, i, blocked, outer>>

\* sigsuspend returns with the handler that ended its wait.  Other signals that can
\* be delivered come before.
Resume ==
  /\ mpc = "awake"
  /\ pending \subseteq Mask
  /\ outer' = "none"
  /\ errno' = "EINTR"
  /\ mpc' = "sleep"
  /\ UNCHANGED <<child, i, blocked>>

MainFlow ==
  /\ ~spin
  /\ BlockSignals \/ Fork \/ Suspend \/ Resume
  /\ UNCHANGED <<pending, spin, ngx_reap, shared>>

-----------------------------------------------------------------------------
(* The handler *)

\* Mutant: errno does not tell that no child is left.
WaitPid_NoErrno(e) ==
  /\ IF Zombies = {}
       THEN UNCHANGED child
       ELSE \E w \in Zombies : child' = [child EXCEPT ![w] = "reaped"]
  /\ errno' = e

\* waitpid(-1, &status, WNOHANG), with errno = e before.
WaitPid(e) ==
  /\ IF Zombies = {}
       THEN UNCHANGED child
       ELSE \E w \in Zombies : child' = [child EXCEPT ![w] = "reaped"]
  /\ errno' = IF Zombies \cup Running = {} THEN "ECHILD" ELSE e

\* A signal is delivered to its handler, in normal flow, in sigsuspend, which then waits
\* for the end of this handler, or in another handler.
Deliver(s) ==
  /\ mpc # "dead"
  /\ s \in pending \ Mask
  /\ pending' = pending \ {s}
  /\ IF mpc = "suspend" THEN mpc' = "awake" /\ outer' = s ELSE UNCHANGED <<mpc, outer>>
  /\ UNCHANGED <<i, blocked, shared>>

\* A signal that is only logged.
LogSignal ==
  /\ Deliver("TERM")
  /\ errno' \in AfterLog
  /\ UNCHANGED <<child, spin, ngx_reap>>

\* The default action of a signal without handler.
Killed ==
  /\ mpc # "dead"
  /\ "USR1" \in pending \ Mask
  /\ pending' = pending \ {"USR1"}
  /\ mpc' = "dead"
  /\ UNCHANGED <<child, i, blocked, outer, spin, errno, ngx_reap, shared>>

\* Mutant: pid, never assigned, is tested before waitpid is called.
ReapChild_TestsFirst ==
  /\ Deliver("CHLD")
  /\ ngx_reap' = TRUE
  /\ errno' \in AfterLog
  /\ UNCHANGED <<child, spin>>

\* SIGCHLD: ngx_process_get_status.  The result of waitpid is not assigned to pid.
\* Unless the uninitialised pid happens to be -1, the function returns after one
\* call.  If it is -1, the function looks at errno, which a successful waitpid has
\* not set: the EINTR of an earlier sigsuspend makes it call again.
ReapChild ==
  /\ Deliver("CHLD")
  /\ ngx_reap' = TRUE
  /\ \E e \in AfterLog : WaitPid(e)
  /\ \E pid \in {-1, 0} : spin' = (pid = -1 /\ errno' = "EINTR")

\* One more turn of the handler's loop.
Spin ==
  /\ mpc # "dead" /\ spin
  /\ WaitPid(errno)
  /\ spin' = (errno' = "EINTR")
  /\ UNCHANGED <<i, pending, blocked, outer, ngx_reap, mpc, shared>>

-----------------------------------------------------------------------------
(* The environment: workers end, and anyone may send a signal. *)

Exit(w) ==
  /\ child[w] = "running"
  /\ child' = [child EXCEPT ![w] = "zombie"]
  /\ pending' = pending \cup {"CHLD"}
  /\ shared' = IF "CHLD" \in pending THEN shared + 1 ELSE shared
  /\ UNCHANGED <<i, blocked, outer, spin, errno, ngx_reap, mpc>>

Kill(s) ==
  /\ mpc # "dead"
  /\ pending' = pending \cup {s}
  /\ UNCHANGED <<child, i, blocked, outer, spin, errno, ngx_reap, mpc, shared>>

MasterSteps == MainFlow \/ LogSignal \/ Killed \/ ReapChild \/ Spin

Dead == mpc = "dead" /\ UNCHANGED vars

Next ==
  \/ MasterSteps
  \/ \E w \in Workers : Exit(w)
  \/ \E s \in Signals : Kill(s)
  \/ Dead

Spec == Init /\ [][Next]_vars

\* Signals are delivered, handlers run on, and sleep(1) ends.  Each handler is
\* finite, and signals do not come faster than they are handled for ever: the main flow,
\* which they interrupt, goes on.  Nothing makes a worker end or a signal come.
FairSpec ==
  /\ Spec
  /\ SF_vars(MainFlow)
  /\ WF_vars(LogSignal) /\ WF_vars(Killed) /\ WF_vars(ReapChild) /\ WF_vars(Spin)

-----------------------------------------------------------------------------
\* The type invariant.
TypeOK ==
  /\ child \in [Workers -> {"none", "running", "failed", "zombie", "reaped"}]
  /\ i \in 0..ProcessNums
  /\ pending \subseteq Signals
  /\ blocked \in BOOLEAN /\ spin \in BOOLEAN
  /\ outer \in Signals \cup {"none"}
  /\ errno \in {"EINTR", "ECHILD", "other"}
  /\ ngx_reap \in BOOLEAN
  /\ mpc \in {"start", "spawn", "suspend", "awake", "sleep", "dead"}
  /\ shared \in Nat

\* When sigprocmask has succeeded, no signal disturbs the master while it starts its
\* workers: no handler runs, no child is reaped, and no signal kills it before the last
\* worker is started.
SpawnUndisturbed ==
  [][mpc = "spawn" /\ blocked =>
       /\ mpc' \in {"spawn", "suspend"}
       /\ ngx_reap' = ngx_reap /\ ~spin'
       /\ Reaped' = Reaped]_vars

\* Each SIGCHLD reaps a worker, if one is there to be reaped: the zombies that are
\* left, apart from one that a pending SIGCHLD announces, are no more than the workers
\* whose end shared the SIGCHLD of another.
LeftoverShared ==
  Cardinality(Zombies) <= shared + Cardinality(pending \cap {"CHLD"})

\* When workers end, at least one of them is reaped, even if all ended before the
\* master first waited for signals (or the master dies).
FirstReaped == (Zombies # {}) ~> (Reaped # {} \/ mpc = "dead")

\* The handler that loops on a stale errno comes to an end when no worker runs (or the
\* master dies in it).
SpinEnds == (spin /\ Running = {}) ~> (~spin \/ mpc = "dead")

\* The comment in ngx_process_get_status: the second turn of its loop calls waitpid
\* again, which then returns 0, "no child to reap".  So no zombie is left when the
\* master waits and no SIGCHLD is on its way.
AllReaped ==
  mpc = "suspend" /\ "CHLD" \notin pending => Zombies = {}
=============================================================================
