------------------------------- MODULE Frame -------------------------------
(***************************************************************************)
(* The picture buffer of an input of MJPG-streamer (struct _input): the    *)
(* mutex db and the condition variable db_update around buf.  A consumer   *)
(* locks db, waits for db_update once, with no condition to look at again, *)
(* and copies the picture; a producer locks db, writes the picture,        *)
(* broadcasts and unlocks.  Spurious wakeups are left out.                 *)
(***************************************************************************)
CONSTANT Nobody

VARIABLES
    db,       \* the thread that holds the mutex, or Nobody
    asleep    \* the threads inside pthread_cond_wait()

frameVars == <<db, asleep>>

LockDb(t) == db = Nobody /\ db' = t /\ UNCHANGED asleep

UnlockDb(t) == db = t /\ db' = Nobody /\ UNCHANGED asleep

\* Lock and wait: nobody can get in between the two, so they are one step.
WaitFresh(t) == db = Nobody /\ asleep' = asleep \cup {t} /\ UNCHANGED db

\* pthread_cond_wait() returns with the mutex.
WakeUp(t) == t \notin asleep /\ LockDb(t)

\* Broadcast and unlock, which follow each other in every producer.
Publish(t) == db = t /\ db' = Nobody /\ asleep' = {}

=============================================================================
