----------------------------- MODULE Supervisor -----------------------------
(***************************************************************************)
(* The life of the alarm4pi daemon: main() of alarm4pi.c, its SIGINT and   *)
(* SIGTERM handler, and the functions of proc_helper.c that create, reap,  *)
(* restart and wait for child processes.                                   *)
(*                                                                         *)
(* The kernel's side (process table, pending signals, SIGCHLD) is modelled *)
(* from how the code uses it.  The polling thread is only "running",       *)
(* "stalled" in an upload or "ended" here; module Polling models what it   *)
(* does.                                                                   *)
(*                                                                         *)
(* Atomicity: the handler runs on a thread of the daemon, and no step of   *)
(* main() is taken while it runs (after the polling thread has ended there *)
(* is no other thread, before that main() is blocked in pthread_join).     *)
(* The steps of main() are cut wherever a signal that arrives in between   *)
(* makes a difference: between fork() and the store of its result, between *)
(* waitpid() and the store of -1, between a test of the exit flag and the  *)
(* fork it allows.                                                         *)
(***************************************************************************)
EXTENDS Integers, FiniteSets

CONSTANTS
    Pids,           \* process IDs the kernel may give to children
    NoPid,          \* the value -1 of a slot of Child_process_ids
    Group,          \* the value 0: kill(0, sig) signals the process group
    MaxRetries,     \* MAX_CHILD_PROC_EXEC_RETRIES (3 in the code)
    MaxStops,       \* bound: SIGTERM/SIGINT sent from outside
    MaxForkErrors   \* bound: fork() calls that fail

ASSUME PidsAssumption == NoPid \notin Pids /\ Group \notin Pids /\ NoPid # Group
ASSUME BoundsAssumption ==
    MaxRetries \in Nat /\ MaxStops \in Nat /\ MaxForkErrors \in Nat

Slots == 1..2       \* MAX_NUM_CHILD_PROCESSES

VARIABLES
    mpc,            \* where main() is
    ids,            \* Child_process_ids
    num,            \* num_child_processes, the n_processes of the helpers
    newpid,         \* what fork() returned and is not stored yet
    ind,            \* proc_ind of exec_exited_child_processes
    nrun,           \* n_run_procs of exec_exited_child_processes
    reaped,         \* wait_ret of update_child_processes_state
    retries,        \* exec_retries_left
    thread,         \* the polling thread: "none", "run", "stalled" or "ended"
    exitFlag,       \* Exit_daemon_loop
    hnd,            \* progress of exit_deamon_handler in the daemon: "none",
                    \* "kill", "flag", or "stuck" in its log message
    sigterm,        \* SIGTERM (or SIGINT) pending for the daemon
    blocked,        \* SIGCHLD is blocked in the main thread
    sigchld,        \* SIGCHLD pending for the daemon
    kind,           \* what program a process is: "none" if the PID is free
    st,             \* state of each process
    copy,           \* the child's own copy of Child_process_ids until exec
    pend,           \* children with a SIGTERM pending
    nsig, nerr,     \* signals sent and forks failed (bounds)
    restarts,       \* history: children stored by exec_exited_child_processes
    stray           \* history: a SIGTERM was sent to a PID that was not a child

mainVars == <<mpc, ids, num, newpid, ind, nrun, reaped, retries, thread>>
sigVars  == <<exitFlag, hnd, sigterm, blocked, sigchld>>
procVars == <<kind, st, copy, pend>>
histVars == <<nsig, nerr, restarts, stray>>
supervisorVars == <<mainVars, sigVars, procVars, histVars>>

NoCopy == [i \in Slots |-> NoPid]

MainPlaces == {"fork", "record", "tunnel", "init_polling", "join", "block",
               "reap", "mark", "loop", "sigwait", "exec", "store",
               "finish", "done"}

\* A child is "new" before it has stored fork()'s 0 in its copy of the array
\* (only the restarted ones do so), "pre" until it calls execvp, then "run".
\* It is "zombie" until waitpid() returns it.
States == {"gone", "new", "pre", "run", "zombie"}
Alive(p) == st[p] \in {"new", "pre", "run"}

\* Type correctness of the process table, the PIDs kept and the counters.
SupervisorTypes ==
    /\ mpc \in MainPlaces
    /\ ids \in [Slots -> Pids \union {NoPid}]
    /\ num \in 0..1
    /\ newpid \in Pids \union {NoPid}
    /\ ind \in 1..2
    /\ nrun \in 0..1
    /\ reaped \in Pids \union {NoPid}
    /\ retries \in 0..MaxRetries
    /\ thread \in {"none", "run", "stalled", "ended"}
    /\ hnd \in {"none", "kill", "flag", "stuck"}
    /\ kind \in [Pids -> {"none", "web", "tunnel"}]
    /\ st \in [Pids -> States]
    /\ copy \in [Pids -> [Slots -> Pids \union {NoPid, Group}]]
    /\ pend \subseteq Pids
    /\ nsig \in 0..MaxStops /\ nerr \in 0..MaxForkErrors
    /\ restarts \in Nat
    /\ exitFlag \in BOOLEAN /\ sigterm \in BOOLEAN
    /\ blocked \in BOOLEAN /\ sigchld \in BOOLEAN /\ stray \in BOOLEAN

\* The state once open_log_files(), set_signal_handler() and the UPnP calls
\* are done: a signal before that ends the process by the default action.
SupervisorInit ==
    /\ mpc = "fork" /\ ids = NoCopy /\ num = 0 /\ newpid = NoPid
    /\ ind = 1 /\ nrun = 0 /\ reaped = NoPid
    /\ retries = MaxRetries /\ thread = "none"
    /\ exitFlag = FALSE /\ hnd = "none" /\ sigterm = FALSE
    /\ blocked = FALSE /\ sigchld = FALSE
    /\ kind = [p \in Pids |-> "none"] /\ st = [p \in Pids |-> "gone"]
    /\ copy = [p \in Pids |-> NoCopy] /\ pend = {}
    /\ nsig = 0 /\ nerr = 0 /\ restarts = 0 /\ stray = FALSE

-----------------------------------------------------------------------------
(* Processes and signals, as the kernel provides them. *)

\* fork() succeeds with PID p: the child starts in state s with a copy of the
\* parent's array.
ForkChild(p, k, s) ==
    /\ kind[p] = "none"
    /\ kind' = [kind EXCEPT ![p] = k]
    /\ st' = [st EXCEPT ![p] = s]
    /\ copy' = [copy EXCEPT ![p] = ids]

\* fork() fails with EAGAIN or ENOMEM.
ForkError == nerr < MaxForkErrors /\ nerr' = nerr + 1

\* kill(t, SIGTERM) for every t of T, on top of the signals already pending.
\* A PID that is not a child any more may have been given to an unrelated
\* process.
Kill(T, pending) ==
    LET hit == IF Group \in T THEN Pids ELSE T
    IN /\ pend' = pending \union {p \in hit \intersect Pids : Alive(p)}
       /\ stray' = (stray \/ \E p \in T \intersect Pids : kind[p] = "none")
       /\ sigterm' = (sigterm \/ Group \in T)

\* SIGTERM to every process of a list, whatever its length: the handler always
\* passes the whole array.
kill_processes(process_ids, pending) ==
    Kill({process_ids[i] : i \in Slots} \ {NoPid}, pending)

\* A child ends: by itself, because it crashed, or because execvp failed.
\* SIGCHLD stays pending only while it is blocked: its default action is to
\* be ignored.
ChildEnds(p) ==
    /\ Alive(p)
    /\ st' = [st EXCEPT ![p] = "zombie"]
    /\ copy' = [copy EXCEPT ![p] = NoCopy]
    /\ pend' = pend \ {p}
    /\ sigchld' = (sigchld \/ blocked)
    /\ UNCHANGED <<mainVars, exitFlag, hnd, sigterm, blocked, kind, histVars>>

\* A program that has been executed has the default action for SIGTERM.
ChildTerminated(p) == p \in pend /\ st[p] = "run" /\ ChildEnds(p)

\* The restarted child stores fork()'s result, 0, in its copy of the slot.
ChildStoresZero(p) ==
    /\ st[p] = "new" /\ p \notin pend
    /\ st' = [st EXCEPT ![p] = "pre"]
    /\ copy' = [copy EXCEPT ![p][1] = Group]
    /\ UNCHANGED <<mainVars, sigVars, kind, pend, histVars>>

\* execvp: a pending signal is taken before the call, by the handler.
ChildExecs(p) ==
    /\ st[p] = "pre" /\ p \notin pend
    /\ st' = [st EXCEPT ![p] = "run"]
    /\ copy' = [copy EXCEPT ![p] = NoCopy]
    /\ UNCHANGED <<mainVars, sigVars, kind, pend, histVars>>

\* Until execvp the child runs the daemon's handler on its own copy of the
\* array and of the flag, and survives.
ChildHandlesTerm(p) ==
    /\ p \in pend /\ st[p] \in {"new", "pre"}
    /\ kill_processes(copy[p], pend \ {p})
    /\ UNCHANGED <<mainVars, exitFlag, hnd, blocked, sigchld, kind, st, copy,
                   nsig, nerr, restarts>>

\* kill <pid>: the daemon alone gets the signal.
SignalDaemon ==
    /\ nsig < MaxStops /\ mpc # "done"
    /\ nsig' = nsig + 1 /\ sigterm' = TRUE
    /\ UNCHANGED <<mainVars, exitFlag, hnd, blocked, sigchld, procVars, nerr,
                   restarts, stray>>

\* systemctl stop: every process of the service gets the signal.
StopService ==
    /\ nsig < MaxStops /\ mpc # "done"
    /\ nsig' = nsig + 1 /\ sigterm' = TRUE
    /\ pend' = pend \union {p \in Pids : Alive(p)}
    /\ UNCHANGED <<mainVars, exitFlag, hnd, blocked, sigchld, kind, st, copy,
                   nerr, restarts, stray>>

-----------------------------------------------------------------------------
(* The daemon's handler.  A signal that arrives while it runs waits.        *)

\* A thread that may be inside localtime(), for a message of its own, when the
\* signal interrupts it: not main() while it waits for the other thread or a signal.
MayBeLogging == mpc \notin {"join", "sigwait"} \/ thread = "run"

\* The handler writes its message first.  localtime() takes a lock: if the handler
\* has interrupted the thread that holds it, it never gets on, nor does the thread.
HandlerStarts ==
    /\ sigterm /\ hnd = "none" /\ mpc # "done"
    /\ hnd' = "kill" \/ (MayBeLogging /\ hnd' = "stuck")
    /\ sigterm' = FALSE
    /\ UNCHANGED <<mainVars, exitFlag, blocked, sigchld, procVars, histVars>>

HandlerKills ==
    /\ hnd = "kill" /\ hnd' = "flag"
    /\ kill_processes(ids, pend)
    /\ UNCHANGED <<mainVars, exitFlag, blocked, sigchld, kind, st, copy, nsig,
                   nerr, restarts>>

\* The flag is set last.  sigtimedwait() is not restarted after a handler: if
\* the handler interrupted it, it fails with EINTR and the loop starts over.
HandlerSetsFlag ==
    /\ hnd = "flag" /\ hnd' = "none"
    /\ exitFlag' = TRUE
    /\ mpc' \in IF mpc = "sigwait" THEN {"sigwait", "loop"} ELSE {mpc}
    /\ UNCHANGED <<ids, num, newpid, ind, nrun, reaped, retries, thread,
                   sigterm, blocked, sigchld, procVars, histVars>>

exit_deamon_handler == HandlerStarts \/ HandlerKills \/ HandlerSetsFlag

-----------------------------------------------------------------------------
(* main() up to the end of the polling thread.                              *)

\* run_background_command_out_log(): main() keeps the PID in a local variable.
ForkWebServer ==
    /\ mpc = "fork"
    /\ \/ \E p \in Pids : /\ ForkChild(p, "web", "pre")
                          /\ newpid' = p /\ mpc' = "record"
                          /\ UNCHANGED nerr
       \/ /\ ForkError
          /\ mpc' = "init_polling"
          /\ UNCHANGED <<newpid, kind, st, copy>>
    /\ UNCHANGED <<ids, num, ind, nrun, reaped, retries, thread, sigVars,
                   pend, nsig, restarts, stray>>

RecordWebServer ==
    /\ mpc = "record" /\ mpc' = "tunnel"
    /\ ids' = [ids EXCEPT ![num + 1] = newpid] /\ num' = num + 1
    /\ newpid' = NoPid
    /\ UNCHANGED <<ind, nrun, reaped, retries, thread, sigVars, procVars,
                   histVars>>

\* run_background_command_out_array(): the PID is not put in the list.
ForkTunneling ==
    /\ mpc = "tunnel" /\ mpc' = "init_polling"
    /\ \/ \E p \in Pids : ForkChild(p, "tunnel", "pre") /\ UNCHANGED nerr
       \/ ForkError /\ UNCHANGED <<kind, st, copy>>
    /\ UNCHANGED <<ids, num, newpid, ind, nrun, reaped, retries, thread,
                   sigVars, pend, nsig, restarts, stray>>

\* init_polling() creates the thread or fails before or at pthread_create.
InitPolling ==
    /\ mpc = "init_polling"
    /\ \/ thread' = "run" /\ mpc' = "join"
       \/ mpc' = "block" /\ UNCHANGED thread
    /\ UNCHANGED <<ids, num, newpid, ind, nrun, reaped, retries, sigVars,
                   procVars, histVars>>

\* The upload of a photo, curl_easy_perform() in owncloud.c, has no timeout: the
\* thread may never come back from it.
PollingThreadStalls ==
    /\ thread = "run" /\ hnd # "stuck"
    /\ thread' = "stalled"
    /\ UNCHANGED <<mpc, ids, num, newpid, ind, nrun, reaped, retries, sigVars,
                   procVars, histVars>>

\* The loop of polling_thread() sees the flag (if main() waits for the thread, a
\* handler that is stuck has interrupted the thread).
PollingThreadEnds ==
    /\ thread = "run" /\ exitFlag /\ hnd # "stuck"
    /\ thread' = "ended"
    /\ UNCHANGED <<mpc, ids, num, newpid, ind, nrun, reaped, retries, sigVars,
                   procVars, histVars>>

WaitPollingEnd ==
    /\ mpc = "join" /\ thread = "ended"
    /\ mpc' = "block"
    /\ UNCHANGED <<ids, num, newpid, ind, nrun, reaped, retries, thread,
                   sigVars, procVars, histVars>>

-----------------------------------------------------------------------------
(* wait_child_processes() and the functions it calls.                       *)

\* Mutant of BlockSigchld: the children that ended earlier are not looked for.
BlockSigchld_NoFirstLook ==
    /\ mpc = "block" /\ mpc' = "loop"
    /\ blocked' = TRUE
    /\ UNCHANGED <<ids, num, newpid, ind, nrun, reaped, retries, thread,
                   exitFlag, hnd, sigterm, sigchld, procVars, histVars>>

\* SIGCHLD is blocked before the children that ended earlier are looked for.
BlockSigchld ==
    /\ mpc = "block" /\ mpc' = "reap"
    /\ blocked' = TRUE
    /\ UNCHANGED <<ids, num, newpid, ind, nrun, reaped, retries, thread,
                   exitFlag, hnd, sigterm, sigchld, procVars, histVars>>

\* One turn of the loop of update_child_processes_state(): waitpid(-1, WNOHANG)
\* frees the PID of some zombie.
Waitpid(p) ==
    /\ mpc = "reap" /\ st[p] = "zombie"
    /\ kind' = [kind EXCEPT ![p] = "none"]
    /\ st' = [st EXCEPT ![p] = "gone"]
    /\ \/ /\ \E i \in 1..num : ids[i] = p
          /\ reaped' = p /\ mpc' = "mark"
       \/ /\ \A i \in 1..num : ids[i] # p
          /\ UNCHANGED <<reaped, mpc>>
    /\ UNCHANGED <<ids, num, newpid, ind, nrun, retries, thread, sigVars, copy,
                   pend, histVars>>

\* Mutant of MarkDead: the slot keeps the PID.
MarkDead_KeepsPid ==
    /\ mpc = "mark" /\ mpc' = "reap"
    /\ reaped' = NoPid
    /\ UNCHANGED <<ids, num, newpid, ind, nrun, retries, thread, sigVars,
                   procVars, histVars>>

\* process_ids[n_child] = -1, after the log message.
MarkDead ==
    /\ mpc = "mark" /\ mpc' = "reap"
    /\ ids' = [i \in Slots |-> IF i <= num /\ ids[i] = reaped THEN NoPid ELSE ids[i]]
    /\ reaped' = NoPid
    /\ UNCHANGED <<num, newpid, ind, nrun, retries, thread, sigVars, procVars,
                   histVars>>

\* waitpid() returns 0, or fails with ECHILD.
ReapDone ==
    /\ mpc = "reap" /\ mpc' = "loop"
    /\ \A p \in Pids : st[p] # "zombie"
    /\ UNCHANGED <<ids, num, newpid, ind, nrun, reaped, retries, thread,
                   sigVars, procVars, histVars>>

count_running_child_processes == Cardinality({i \in 1..num : ids[i] # NoPid})

\* Mutants of Waiting: the flag ends the loop although a child still runs; the
\* flag is not looked at.
Waiting_LeavesOnFlag ==
    ~exitFlag /\ (count_running_child_processes > 0 \/ retries > 0)
Waiting_IgnoresFlag == count_running_child_processes > 0 \/ retries > 0

\* The condition of the while loop.
Waiting == count_running_child_processes > 0 \/ (~exitFlag /\ retries > 0)

LoopTest ==
    /\ mpc = "loop"
    /\ \/ Waiting /\ mpc' = "sigwait" /\ UNCHANGED <<blocked, sigchld>>
       \/ ~Waiting /\ mpc' = "finish" /\ blocked' = FALSE /\ sigchld' = FALSE
    /\ UNCHANGED <<ids, num, newpid, ind, nrun, reaped, retries, thread,
                   exitFlag, hnd, sigterm, procVars, histVars>>

SigchldReceived ==
    /\ mpc = "sigwait" /\ sigchld
    /\ sigchld' = FALSE /\ mpc' = "reap"
    /\ UNCHANGED <<ids, num, newpid, ind, nrun, reaped, retries, thread,
                   exitFlag, hnd, sigterm, blocked, procVars, histVars>>

\* EAGAIN after exec_retry_per seconds without a SIGCHLD.
SigwaitTimeout ==
    /\ mpc = "sigwait" /\ ~sigchld
    /\ IF ~exitFlag /\ retries > 0
       THEN mpc' = "exec" /\ ind' = 1 /\ nrun' = 0
       ELSE mpc' = "loop" /\ UNCHANGED <<ind, nrun>>
    /\ UNCHANGED <<ids, num, newpid, reaped, retries, thread, sigVars,
                   procVars, histVars>>

\* exec_exited_child_processes(): a slot that is -1 is run again.  The failure
\* of fork() sets n_run_procs to -1 and then adds 1 to it.
RestartSlot ==
    /\ mpc = "exec" /\ ind <= num /\ ids[ind] = NoPid
    /\ \/ \E p \in Pids : /\ ForkChild(p, "web", "new")
                          /\ newpid' = p /\ mpc' = "store"
                          /\ UNCHANGED <<ind, nrun, nerr>>
       \/ /\ ForkError
          /\ nrun' = 0 /\ ind' = ind + 1
          /\ UNCHANGED <<mpc, newpid, kind, st, copy>>
    /\ UNCHANGED <<ids, num, reaped, retries, thread, sigVars, pend, nsig,
                   restarts, stray>>

StoreRestarted ==
    /\ mpc = "store" /\ mpc' = "exec"
    /\ ids' = [ids EXCEPT ![ind] = newpid]
    /\ newpid' = NoPid /\ nrun' = nrun + 1 /\ ind' = ind + 1
    /\ restarts' = restarts + 1
    /\ UNCHANGED <<num, reaped, retries, thread, sigVars, procVars, nsig, nerr, stray>>

SkipSlot ==
    /\ mpc = "exec" /\ ind <= num /\ ids[ind] # NoPid
    /\ ind' = ind + 1
    /\ UNCHANGED <<mpc, ids, num, newpid, nrun, reaped, retries, thread,
                   sigVars, procVars, histVars>>

\* Back in wait_child_processes(): the retry is counted if one was made.
RestartsDone ==
    /\ mpc = "exec" /\ ind > num
    /\ mpc' = "loop"
    /\ retries' = IF nrun > 0 THEN retries - 1 ELSE retries
    /\ ind' = 1 /\ nrun' = 0
    /\ UNCHANGED <<ids, num, newpid, reaped, thread, sigVars, procVars,
                   histVars>>

\* deinit_polling(), the UPnP calls, close_log_files() and the return of main().
Finish ==
    /\ mpc = "finish" /\ mpc' = "done"
    /\ UNCHANGED <<ids, num, newpid, ind, nrun, reaped, retries, thread,
                   sigVars, procVars, histVars>>

update_child_processes_state == (\E p \in Pids : Waitpid(p)) \/ MarkDead \/ ReapDone

exec_exited_child_processes == RestartSlot \/ StoreRestarted \/ SkipSlot

wait_child_processes ==
    \/ BlockSigchld \/ update_child_processes_state \/ LoopTest
    \/ SigchldReceived \/ SigwaitTimeout \/ exec_exited_child_processes
    \/ RestartsDone

MainStep ==
    /\ hnd = "none"
    /\ \/ ForkWebServer \/ RecordWebServer \/ ForkTunneling \/ InitPolling
       \/ WaitPollingEnd \/ wait_child_processes \/ Finish

-----------------------------------------------------------------------------

ChildStep(p) ==
    ChildEnds(p) \/ ChildStoresZero(p) \/ ChildExecs(p) \/ ChildHandlesTerm(p)

\* The daemon is gone, and its children may still run; or it hangs.
Hangs == hnd = "stuck" \/ (mpc = "join" /\ thread = "stalled")
Terminated == (mpc = "done" \/ Hangs) /\ UNCHANGED supervisorVars

SupervisorNext ==
    \/ MainStep \/ exit_deamon_handler \/ PollingThreadStalls \/ PollingThreadEnds
    \/ \E p \in Pids : ChildStep(p)
    \/ SignalDaemon \/ StopService \/ Terminated

SupervisorSpec == SupervisorInit /\ [][SupervisorNext]_supervisorVars

\* Every thread that can run does run, a timeout expires, a pending signal is
\* delivered, a forked child gets to its execvp, and a program that got
\* SIGTERM with the default action ends.  No other child has to end, no signal
\* has to be sent.  The polling thread ends unless it has stalled: that an upload
\* comes back is not assumed.
SupervisorFairness ==
    /\ WF_supervisorVars(MainStep) /\ WF_supervisorVars(exit_deamon_handler)
    /\ WF_supervisorVars(PollingThreadEnds)
    /\ \A p \in Pids : /\ WF_supervisorVars(ChildTerminated(p))
                       /\ WF_supervisorVars(ChildStoresZero(p) \/ ChildExecs(p))
                       /\ WF_supervisorVars(ChildHandlesTerm(p))

FairSpec == SupervisorSpec /\ SupervisorFairness

-----------------------------------------------------------------------------
(* Safety.                                                                  *)

\* Every PID in Child_process_ids is a child that has not been reaped, so that
\* the handler may signal it, except between the waitpid() that reaps it and
\* the store of -1 (update_child_processes_state, proc_helper.c:290-305).
PidsOwned ==
    \A i \in Slots : \/ ids[i] = NoPid
                     \/ kind[ids[i]] = "web"
                     \/ mpc = "mark" /\ ids[i] = reaped

\* A SIGTERM goes to a PID that is not a child of the daemon only while the main
\* thread is between waitpid() and the store of -1, or from a child that has not
\* reached execvp and still runs the handler on the array it inherited: the
\* handler is safe everywhere else in main().
StrayOnlyInWindow ==
    [][(stray' /\ ~stray) => \/ mpc = "mark"
                            \/ \E p \in Pids : st[p] \in {"new", "pre"}]_supervisorVars

\* The daemon never has two web servers, running or not yet reaped: a restart
\* forks one only when the previous one is reaped (they share camera and port).
OneWebServer ==
    \A p, q \in Pids : kind[p] = "web" /\ kind[q] = "web" => p = q

\* No lost wake-up: when wait_child_processes() goes to sleep, every child
\* that has ended and was not reaped has left SIGCHLD pending.
NoLostWakeup ==
    mpc = "sigwait" /\ (\E p \in Pids : st[p] = "zombie") => sigchld

\* When main() is past wait_child_processes() no web server is left, whatever
\* the order in which signals, exits and restarts came.
NothingLeftBehind ==
    mpc \in {"finish", "done"} => \A p \in Pids : kind[p] # "web"

\* The restarts that were made and the ones that are left always add up to
\* MAX_CHILD_PROC_EXEC_RETRIES (one more between the store of a restarted
\* child and the update of exec_retries_left).
RetryBudget ==
    restarts + retries = IF nrun > 0 THEN MaxRetries + 1 ELSE MaxRetries

-----------------------------------------------------------------------------
(* The strengthening that makes the safety properties inductive.            *)

\* A web server that was not reaped is in the first slot or is about to be put
\* there, never both; the second slot is not used.
SlotInv ==
    /\ ids[2] = NoPid
    /\ num = 0 \/ mpc \in {"fork", "record"} => ids[1] = NoPid
    /\ mpc \in {"fork", "record"} => num = 0
    /\ newpid # NoPid <=> mpc \in {"record", "store"}
    /\ newpid # NoPid => kind[newpid] = "web" /\ ids[1] = NoPid
    /\ \A p \in Pids : kind[p] = "web" => p = ids[1] \/ p = newpid
    /\ mpc = "mark" => reaped \in Pids /\ ids[1] = reaped /\ kind[reaped] = "none"
    /\ mpc \in {"finish", "done"} => ids[1] = NoPid

\* While SIGCHLD is blocked and the last look for zombies is over, a zombie
\* has left the signal pending.
WakeInv ==
    /\ blocked <=> mpc \in {"reap", "mark", "loop", "sigwait", "exec", "store"}
    /\ mpc \in {"loop", "sigwait", "exec", "store"}
         => \A p \in Pids : st[p] = "zombie" => sigchld

RetryInv ==
    /\ nrun > 0 => mpc = "exec" /\ ind = 2
    /\ mpc \in {"exec", "store"} => retries > 0
    /\ mpc = "store" => ind = 1 /\ num = 1

TableInv == \A p \in Pids : kind[p] = "none" <=> st[p] = "gone"

SupervisorInv ==
    /\ SupervisorTypes /\ TableInv /\ SlotInv /\ PidsOwned
    /\ WakeInv /\ RetryInv /\ RetryBudget

-----------------------------------------------------------------------------
(* Liveness.                                                                *)

\* No child is between fork() and execvp, none is unrecorded, and main() is
\* not about to fork.
Settled ==
    /\ mpc \notin {"fork", "record", "tunnel", "exec", "store", "mark"}
    /\ \A p \in Pids : kind[p] = "web" => st[p] \in {"run", "zombie"}

\* A SIGTERM whose handler gets past its message in a settled state ends the
\* daemon: the children get SIGTERM, the polling thread sees the flag, the
\* children are reaped and main() returns; unless the polling thread is in an
\* upload that never ends (owncloud.c:264), or the handler of another signal is
\* stuck in localtime() (log_msgs.c:38).
SettledStopEnds ==
    (hnd = "kill" /\ Settled) ~> (mpc = "done" \/ thread = "stalled" \/ hnd = "stuck")

\* While wait_child_processes() runs, a recorded child that ended is run again
\* or the daemon is told to exit, has no retries left, or is stuck in the handler:
\* no exit is missed.
DeadChildRestarted ==
    (blocked /\ num = 1 /\ \E p \in Pids : kind[p] = "web" /\ st[p] = "zombie")
        ~> \/ exitFlag \/ retries = 0 \/ hnd = "stuck"
           \/ num = 1 /\ ids[1] # NoPid /\ Alive(ids[1])

\* Both kinds of signal are served: a SIGTERM in a settled state ends the daemon,
\* and the SIGCHLD of a child that ended while main() waits for children has it
\* run again (exit_deamon_handler(), wait_child_processes()); but for an upload
\* without end and a handler that is stuck.
SignalsServed == SettledStopEnds /\ DeadChildRestarted

=============================================================================
