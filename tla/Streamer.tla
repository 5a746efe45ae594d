------------------------------ MODULE Streamer ------------------------------
(***************************************************************************)
(* The web server that alarm4pi runs as a child: mjpg_streamer with        *)
(* input_libcamera.so and output_http.so.                                  *)
(*                                                                         *)
(* main() loads and starts the plugins and pauses; the camera thread turns *)
(* frames into pictures, and restarts the camera at another resolution     *)
(* when a snapshot is asked for; each HTTP client is a thread that waits   *)
(* for a fresh picture and copies it; SIGINT runs the handler inside       *)
(* main(), while the other threads go on.  Requests are parsed in module   *)
(* HttpServer: here a client thread has already chosen what it serves.     *)
(***************************************************************************)
EXTENDS Frame, Naturals

CONSTANTS
    Client,        \* the client threads
    NBuffers,      \* settings->buffercount
    MaxInterrupts  \* bound: SIGINTs

ASSUME StreamerAssumption ==
    /\ NBuffers \in Nat \ {0} /\ MaxInterrupts \in Nat
    /\ Nobody \notin Client /\ "worker" \notin Client /\ Nobody # "worker"

VARIABLES
    proc,          \* the process: "run", "exited" or "crashed"
    mpc,           \* where main() is
    hpc,           \* where signal_handler() is, "none" outside it
    nint,          \* SIGINTs received (bound)
    stop,          \* global.stop
    same,          \* the snapshot resolution is the resolution of the stream
    snap,          \* in->snapshot
    wpc,           \* where worker_thread() is
    switched,      \* is_switch
    still,         \* the camera is configured for a snapshot
    queued, ready, \* requests inside the camera, and in requestQueue
    context,       \* in->context: "none", "ok" or "deleted"
    buf,           \* in->buf: not allocated, what it holds, or freed
    cpc,           \* where each client is
    kind,          \* what it serves
    frame          \* what it has copied

mainVars   == <<proc, mpc, hpc, nint, stop, same>>
cameraVars == <<still, queued, ready>>
clientVars == <<cpc, kind, frame>>
vars == <<frameVars, mainVars, snap, wpc, switched, cameraVars, context, buf,
          clientVars>>

Kinds  == {"snapshot", "stream"}
Frames == {"none", "empty", "video", "still", "torn", "freed"}
MainPlaces ==
    {"load_in", "options_in", "camera_in", "settings_in", "load_out", "init_out", "run_in",
     "run_out", "pause"}
WorkerPlaces ==
    {"off", "start", "loop", "read", "lock", "write", "return", "s_stop", "s_start",
     "s_realloc", "b_stop", "b_start", "b_realloc", "close", "cleanup", "ended"}
ClientPlaces == {"idle", "ask", "head", "wait", "wake", "copying", "send"}

FlagsOK ==
    /\ stop \in BOOLEAN /\ same \in BOOLEAN /\ snap \in BOOLEAN
    /\ switched \in BOOLEAN /\ still \in BOOLEAN

\* Type correctness of the camera, the picture buffer and the clients.
TypeOK ==
    /\ FlagsOK
    /\ db \in Client \cup {"worker", Nobody} /\ asleep \subseteq Client
    /\ proc \in {"run", "exited", "crashed"} /\ mpc \in MainPlaces
    /\ hpc \in {"none", "in", "out", "destroy"} /\ nint \in 0..MaxInterrupts /\ wpc \in WorkerPlaces
    /\ queued \in 0..NBuffers /\ ready \in 0..NBuffers
    /\ context \in {"none", "ok", "deleted"} /\ buf \in Frames
    /\ cpc \in [Client -> ClientPlaces] /\ kind \in [Client -> Kinds]
    /\ frame \in [Client -> Frames]

\* The options are parsed and the handler registered; incnt is already 1.
Init ==
    /\ db = Nobody /\ asleep = {}
    /\ proc = "run" /\ mpc = "load_in" /\ hpc = "none" /\ nint = 0 /\ stop = FALSE
    /\ same = TRUE /\ snap = FALSE /\ wpc = "off" /\ switched = FALSE
    /\ still = FALSE /\ queued = 0 /\ ready = 0
    /\ context = "none" /\ buf = "none"
    /\ cpc = [c \in Client |-> "idle"] /\ kind = [c \in Client |-> "stream"]
    /\ frame = [c \in Client |-> "none"]

\* What a change of in->buf does to a client that is copying it.
TearCopies ==
    frame' = [c \in Client |-> IF cpc[c] = "copying" THEN "torn" ELSE frame[c]]

Running == proc = "run"

\* The process ends, and its threads and its memory with it.
End(how) ==
    /\ Running /\ proc' = how
    /\ db' = Nobody /\ asleep' = {}
    /\ mpc' = "pause" /\ hpc' = "none" /\ nint' = 0 /\ stop' = FALSE /\ same' = TRUE
    /\ snap' = FALSE /\ wpc' = "off" /\ switched' = FALSE
    /\ still' = FALSE /\ queued' = 0 /\ ready' = 0 /\ context' = "none" /\ buf' = "none"
    /\ cpc' = [c \in Client |-> "idle"] /\ kind' = [c \in Client |-> "stream"]
    /\ frame' = [c \in Client |-> "none"]

-----------------------------------------------------------------------------
(* main().  It does not run while the handler does.                         *)

MainAt(p) == Running /\ hpc = "none" /\ mpc = p

\* A step that only brings main() further.
Start(from, to) ==
    /\ MainAt(from) /\ mpc' = to
    /\ UNCHANGED <<frameVars, proc, hpc, nint, stop, same, snap, wpc, switched,
                   cameraVars, context, buf, clientVars>>

\* The mutex, the condition variable, dlopen() and dlsym().
LoadInput == Start("load_in", "options_in")

\* input_init() stores the context and parses the options: the resolutions.
input_init ==
    /\ MainAt("options_in") /\ mpc' = "camera_in" /\ context' = "ok" /\ same' \in BOOLEAN
    /\ UNCHANGED <<frameVars, proc, hpc, nint, stop, snap, wpc, switched, cameraVars,
                   buf, clientVars>>

\* The camera is acquired and configured,
initCamera == Start("camera_in", "settings_in")

\* and the controls and resolutions of the options are handed to it.
ApplySettings == Start("settings_in", "load_out")

LoadOutput == Start("load_out", "init_out")

output_init == Start("init_out", "run_in")

input_run ==
    /\ MainAt("run_in") /\ mpc' = "run_out" /\ wpc' = "start" /\ buf' = "empty"
    /\ UNCHANGED <<frameVars, proc, hpc, nint, stop, same, snap, switched, cameraVars,
                   context, clientVars>>

\* A plugin that cannot be loaded, an option it does not know, no camera, no
\* thread: the program exits.
PluginFails ==
    /\ hpc = "none" /\ mpc \notin {"run_out", "pause"}
    /\ End("exited")

output_run == Start("run_out", "pause")

-----------------------------------------------------------------------------
(* signal_handler(), on the thread of main().                               *)

\* The first thing the handler does is to set stop.
Interrupt ==
    /\ Running /\ hpc = "none" /\ nint < MaxInterrupts
    /\ hpc' = "in" /\ nint' = nint + 1 /\ stop' = TRUE
    /\ UNCHANGED <<frameVars, proc, mpc, same, snap, wpc, switched, cameraVars,
                   context, buf, clientVars>>

input_stop ==
    /\ Running /\ hpc = "in" /\ context = "ok"
    /\ hpc' = "out" /\ buf' = "freed" /\ TearCopies
    /\ UNCHANGED <<frameVars, proc, mpc, nint, stop, same, snap, wpc, switched,
                   cameraVars, context, cpc, kind>>

\* in[0].stop and out[0].stop are null until their plugin is loaded, input_stop()
\* follows in->context, which is null before input_init() and after the camera
\* thread has cleaned up, and before output_run() there is no thread to cancel.
HandlerCrashes ==
    /\ (hpc = "in" /\ context # "ok") \/ (hpc = "out" /\ mpc # "pause")
    /\ End("crashed")

\* output_stop() cancels the server thread; the client threads go on.
output_stop ==
    /\ Running /\ hpc = "out" /\ mpc = "pause" /\ hpc' = "destroy"
    /\ UNCHANGED <<frameVars, proc, mpc, nint, stop, same, snap, wpc, switched,
                   cameraVars, context, buf, clientVars>>

\* The condition variable and the mutex are destroyed, and the process exits (a second
\* later: what the threads do with the two in that second is not followed).
HandlerExits == hpc = "destroy" /\ asleep = {} /\ End("exited")

\* To destroy them while a client waits is undefined: the C library may block until
\* nobody waits any more, go on all the same, or crash.
DestroyedInUse ==
    /\ hpc = "destroy" /\ (asleep # {} \/ db # Nobody)
    /\ End("exited") \/ End("crashed")

-----------------------------------------------------------------------------
(* The camera and LibCamera.cpp.                                            *)

WorkerAt(p) == Running /\ wpc = p

\* A request completes: requestComplete() puts it into requestQueue.
requestComplete ==
    /\ Running /\ queued > 0
    /\ queued' = queued - 1 /\ ready' = ready + 1
    /\ UNCHANGED <<frameVars, mainVars, snap, wpc, switched, still, context, buf,
                   clientVars>>

\* startCamera() and startCapture(): every request is queued, NBuffers of them,
\* or one for a snapshot.
startCamera(from, to, config) ==
    /\ WorkerAt(from) /\ wpc' = to /\ still' = config
    /\ queued' = IF config THEN 1 ELSE NBuffers
    /\ UNCHANGED <<frameVars, mainVars, snap, switched, ready, context, buf, clientVars>>

\* If it fails the first time its result is not looked at, and VideoStream()
\* follows a null pointer; after a switch, or without memory for the new
\* resolution, the program exits.
CameraFails ==
    \/ WorkerAt("start") /\ End("crashed")
    \/ /\ wpc \in {"s_start", "s_realloc", "b_start", "b_realloc"}
       /\ End("exited")

\* stopCamera(): the requests are cancelled and requestQueue is emptied.
stopCamera(from, to) ==
    /\ WorkerAt(from) /\ wpc' = to
    /\ queued' = 0 /\ ready' = 0
    /\ UNCHANGED <<frameVars, mainVars, snap, switched, still, context, buf, clientVars>>

\* Mutant of switch_resolution: the thread forgets that it has switched.
switch_resolution_Forgets(from, to) ==
    /\ WorkerAt(from) /\ wpc' = to /\ TearCopies
    /\ snap' = IF from = "s_realloc" THEN FALSE ELSE snap
    /\ UNCHANGED <<frameVars, mainVars, switched, cameraVars, context, buf, cpc, kind>>

\* VideoStream() and the new buffer, which is the old one moved: the end of
\* switch_resolution().  db is not held.
switch_resolution(from, to) ==
    /\ WorkerAt(from) /\ wpc' = to /\ TearCopies
    /\ snap' = IF from = "s_realloc" THEN FALSE ELSE snap
    /\ switched' = (from = "s_realloc")
    /\ UNCHANGED <<frameVars, mainVars, cameraVars, context, buf, cpc, kind>>

-----------------------------------------------------------------------------
(* worker_thread().                                                         *)

\* The head of the loop.  A snapshot at another resolution than the stream's
\* restarts the camera; at the same one only the flag is cleared.
LoopTest ==
    /\ WorkerAt("loop")
    /\ \/ stop /\ wpc' = "close" /\ UNCHANGED snap
       \/ ~stop /\ snap /\ ~same /\ wpc' = "s_stop" /\ UNCHANGED snap
       \/ ~stop /\ snap /\ same /\ wpc' = "read" /\ snap' = FALSE
       \/ ~stop /\ ~snap /\ wpc' = "read" /\ UNCHANGED snap
    /\ UNCHANGED <<frameVars, mainVars, switched, cameraVars, context, buf,
                   clientVars>>

\* An empty queue is not waited for: the thread goes round the loop.
readFrame ==
    /\ WorkerAt("read")
    /\ \/ ready = 0 /\ wpc' = "loop" /\ UNCHANGED ready
       \/ ready > 0 /\ wpc' = "lock" /\ ready' = ready - 1
    /\ UNCHANGED <<frameVars, mainVars, snap, switched, still, queued, context, buf,
                   clientVars>>

LockBuffer ==
    /\ WorkerAt("lock") /\ wpc' = "write" /\ LockDb("worker")
    /\ UNCHANGED <<mainVars, snap, switched, cameraVars, context, buf, clientVars>>

\* compress_image_to_jpeg() into in->buf, broadcast and unlock.  A client that
\* copies at this moment gets parts of two pictures.
WritePicture ==
    /\ WorkerAt("write") /\ buf # "freed" /\ wpc' = "return"
    /\ buf' = IF still THEN "still" ELSE "video"
    /\ TearCopies /\ Publish("worker")
    /\ UNCHANGED <<mainVars, snap, switched, cameraVars, context, cpc, kind>>

\* The handler has freed the buffer: in->buf is null.
WriteFreed == WorkerAt("write") /\ buf = "freed" /\ End("crashed")

\* The request is queued again; after a snapshot the camera goes back.
returnFrameBuffer ==
    /\ WorkerAt("return")
    /\ wpc' = IF switched THEN "b_stop" ELSE "loop"
    /\ queued' = queued + 1
    /\ UNCHANGED <<frameVars, mainVars, snap, switched, still, ready, context, buf,
                   clientVars>>

worker_cleanup ==
    /\ WorkerAt("cleanup") /\ wpc' = "ended" /\ context' = "deleted"
    /\ UNCHANGED <<frameVars, mainVars, snap, switched, cameraVars, buf,
                   clientVars>>

ToSnapshot ==
    \/ stopCamera("s_stop", "s_start") \/ startCamera("s_start", "s_realloc", TRUE)
    \/ switch_resolution("s_realloc", "read")

BackToStream ==
    \/ stopCamera("b_stop", "b_start") \/ startCamera("b_start", "b_realloc", FALSE)
    \/ switch_resolution("b_realloc", "loop")

worker_thread ==
    \/ startCamera("start", "loop", FALSE)
    \/ LoopTest \/ readFrame \/ LockBuffer \/ WritePicture \/ WriteFreed
    \/ returnFrameBuffer \/ ToSnapshot \/ BackToStream
    \/ stopCamera("close", "cleanup") \/ worker_cleanup

-----------------------------------------------------------------------------
(* The client threads of output_http.                                       *)

\* A thread that has ended keeps nothing.
ClientStep(c, from, to) ==
    /\ Running /\ cpc[c] = from /\ cpc' = [cpc EXCEPT ![c] = to]
    /\ kind' = IF to = "idle" THEN [kind EXCEPT ![c] = "stream"] ELSE kind

\* client_thread() has parsed a request.
Request(c, k) ==
    /\ Running /\ mpc = "pause"
    /\ cpc[c] = "idle"
    /\ cpc' = [cpc EXCEPT ![c] = IF k = "stream" THEN "head" ELSE "ask"]
    /\ kind' = [kind EXCEPT ![c] = k]
    /\ UNCHANGED <<frameVars, mainVars, snap, wpc, switched, cameraVars, context,
                   buf, frame>>

AskSnapshot(c) ==
    /\ ClientStep(c, "ask", "wait") /\ snap' = TRUE
    /\ UNCHANGED <<frameVars, mainVars, wpc, switched, cameraVars, context, buf,
                   frame>>

\* The head of a stream is written, and the test of its loop: also after each
\* frame.
StreamHead(c) ==
    /\ ClientStep(c, "head", IF stop THEN "idle" ELSE "wait")
    /\ UNCHANGED <<frameVars, mainVars, snap, wpc, switched, cameraVars, context,
                   buf, frame>>

WriteFails(c) ==
    /\ \E p \in {"head", "send"} : ClientStep(c, p, "idle")
    /\ frame' = [frame EXCEPT ![c] = "none"]
    /\ UNCHANGED <<frameVars, mainVars, snap, wpc, switched, cameraVars, context,
                   buf>>

WaitPicture(c) ==
    /\ ClientStep(c, "wait", "wake") /\ WaitFresh(c)
    /\ UNCHANGED <<mainVars, snap, wpc, switched, cameraVars, context, buf, frame>>

\* Mutant of Woken: the copy is made after the unlock.
Woken_UnlocksEarly(c) ==
    /\ c \notin asleep /\ db = Nobody /\ ClientStep(c, "wake", "copying")
    /\ frame' = [frame EXCEPT ![c] = IF buf = "freed" THEN "torn" ELSE buf]
    /\ UNCHANGED <<frameVars, mainVars, snap, wpc, switched, cameraVars, context, buf>>

\* pthread_cond_wait() returns and the copy begins.
Woken(c) ==
    /\ ClientStep(c, "wake", "copying") /\ WakeUp(c)
    /\ frame' = [frame EXCEPT ![c] = IF buf = "freed" THEN "torn" ELSE buf]
    /\ UNCHANGED <<mainVars, snap, wpc, switched, cameraVars, context, buf>>

\* Mutant of NoMemory: the error path keeps the mutex.
NoMemory_KeepsLock(c) ==
    /\ ClientStep(c, "wake", "idle") /\ WakeUp(c)
    /\ UNCHANGED <<mainVars, snap, wpc, switched, cameraVars, context, buf, frame>>

\* There is no memory for the copy: unlock, and an error 500.
NoMemory(c) ==
    /\ ClientStep(c, "wake", "idle") /\ c \notin asleep /\ db = Nobody
    /\ UNCHANGED <<frameVars, mainVars, snap, wpc, switched, cameraVars, context, buf, frame>>

\* The end of memcpy(), and the unlock.
Copied(c) ==
    /\ ClientStep(c, "copying", "send") /\ UnlockDb(c)
    /\ UNCHANGED <<mainVars, snap, wpc, switched, cameraVars, context, buf, frame>>

Sent(c) ==
    /\ ClientStep(c, "send", IF kind[c] = "stream" THEN "head" ELSE "idle")
    /\ frame' = [frame EXCEPT ![c] = "none"]
    /\ UNCHANGED <<frameVars, mainVars, snap, wpc, switched, cameraVars, context,
                   buf>>

Step(c) ==
    \/ AskSnapshot(c) \/ StreamHead(c) \/ WaitPicture(c) \/ Woken(c)
    \/ Copied(c) \/ Sent(c)

-----------------------------------------------------------------------------
Main ==
    \/ LoadInput \/ input_init \/ initCamera \/ ApplySettings \/ LoadOutput
    \/ output_init \/ input_run \/ output_run

signal_handler == input_stop \/ HandlerCrashes \/ output_stop \/ HandlerExits

Next ==
    \/ Main \/ PluginFails \/ CameraFails \/ Interrupt \/ signal_handler \/ DestroyedInUse
    \/ requestComplete \/ worker_thread
    \/ \E c \in Client :
        Step(c) \/ NoMemory(c) \/ WriteFails(c) \/ \E k \in Kinds : Request(c, k)

Spec == Init /\ [][Next]_vars

\* Every thread and the camera run when they can, and a thread that waits for
\* the mutex gets it in the end.  Nobody need ask for anything, and the C library may
\* block for ever in the destruction of a condition variable that is waited for.
Fairness ==
    /\ WF_vars(Main) /\ WF_vars(signal_handler) /\ WF_vars(requestComplete)
    /\ WF_vars(worker_thread) /\ SF_vars(LockBuffer)
    /\ \A c \in Client :
        WF_vars(Step(c)) /\ SF_vars(WaitPicture(c)) /\ SF_vars(Woken(c))

FairSpec == Spec /\ Fairness

-----------------------------------------------------------------------------
(* Safety.                                                                  *)

\* No client is ever sent the memory of a buffer into which no picture has been
\* written yet, although it waits for the broadcast without looking at the size
\* again (send_snapshot, send_stream).
NoEmptyPicture == \A c \in Client : frame[c] # "empty"

\* A client gets one whole picture, never parts of two: the mutex protects every
\* access to the buffer except the change of resolution of the camera thread
\* and the shutdown, which reallocate and free the buffer without it.
PicturesWhole == (\E c \in Client : frame[c] = "torn") => ~same \/ stop

\* Every buffer of the camera is inside the camera, in requestQueue or in the
\* hands of the camera thread, so frames go on coming; after a change of
\* resolution there are as many buffers as the new configuration has, and none
\* of the old one.
BuffersKept ==
    LET buffers == IF still THEN 1 ELSE NBuffers IN
    /\ wpc \in {"loop", "read", "close"} => queued + ready = buffers
    /\ wpc \in {"lock", "write", "return"} => queued + ready = buffers - 1

\* is_switch tells how the camera is configured whenever the thread looks for a
\* frame: the stream is not left at the resolution of a snapshot.
SwitchKnown == wpc \in {"loop", "read", "return"} => switched = still

-----------------------------------------------------------------------------
(* Liveness.                                                                *)

Over == stop \/ ~Running

\* A client that asks for a snapshot stops waiting, whatever the other clients
\* do and however often the camera is restarted.  capturer.c waits for it.
SnapshotAnswered ==
    \A c \in Client :
        (kind[c] = "snapshot" /\ cpc[c] = "wait")
            ~> (cpc[c] = "send" \/ cpc[c] = "idle" \/ Over)

\* The camera goes back to the resolution of the stream after a snapshot.
StreamRestored == still ~> (~still \/ Over)

\* SIGINT ends the process, unless the handler comes to destroy the condition variable
\* while a client waits for it (mjpg_streamer.c:115).
InterruptEnds == (hpc # "none") ~> (~Running \/ (hpc = "destroy" /\ asleep # {}))

\* What the web server promises alarm4pi, which waits for each of them: a snapshot
\* is answered, the stream comes back after it, and SIGINT ends the process but for
\* a client that waits when the condition variable is destroyed.
StreamerServes == SnapshotAnswered /\ StreamRestored /\ InterruptEnds

\* A picture that is sent is one whole picture (send_snapshot, send_stream).
PicturesRight == NoEmptyPicture /\ PicturesWhole

\* No camera buffer is lost, and is_switch tells which configuration they belong to
\* (switch_resolution()).
CameraKept == TypeOK /\ BuffersKept /\ SwitchKnown

-----------------------------------------------------------------------------
(* What every step keeps: the inductive invariant behind the safety         *)
(* properties.                                                              *)

\* How many buffers the thread or the camera has at each place of worker_thread(),
\* also while the camera is being switched, and what it is configured for there.
BuffersEverywhere ==
    LET held == queued + ready
        buffers == IF still THEN 1 ELSE NBuffers
    IN  /\ wpc \in {"off", "start", "s_start", "b_start", "cleanup", "ended"} => held = 0
        /\ wpc \in {"lock", "write", "return"} => held = buffers - 1
        /\ wpc \in {"loop", "read", "close", "s_stop", "s_realloc", "b_stop", "b_realloc"}
               => held = buffers

\* The thread knows the configuration but between a restart and VideoStream().
SwitchEverywhere ==
    /\ wpc \in {"off", "start"} => switched = FALSE
    /\ wpc \in {"loop", "read", "lock", "write", "return"} => switched = still
    /\ wpc = "s_realloc" => still = TRUE
    /\ wpc = "b_realloc" => still = FALSE

\* The camera is only ever switched when the two resolutions differ.
SwitchedOnlyIfDifferent ==
    switched \/ wpc \in {"s_stop", "s_start", "s_realloc", "b_stop", "b_start", "b_realloc"}
        => ~same

\* Nothing runs before main() has started it, and only the handler frees in->buf.
StartOrder ==
    /\ mpc \notin {"run_out", "pause"} => wpc = "off"
    /\ mpc # "pause" => cpc = [c \in Client |-> "idle"]
    /\ hpc # "none" \/ buf = "freed" => stop
    /\ buf # "torn"

\* The mutex is the worker's while it writes and a client's while it copies.
MutexHeld ==
    /\ wpc = "write" => db = "worker"
    /\ \A c \in Client : cpc[c] = "copying" => db = c

\* A client that has been woken finds a picture, and has a copy only until it is
\* sent.
CopiesFresh ==
    /\ \A c \in Client : cpc[c] = "wake" /\ c \notin asleep => buf \notin {"none", "empty"}
    /\ \A c \in Client : cpc[c] \notin {"copying", "send"} => frame[c] = "none"

IndInv ==
    /\ TypeOK /\ BuffersEverywhere /\ SwitchEverywhere /\ SwitchedOnlyIfDifferent
    /\ StartOrder /\ MutexHeld /\ CopiesFresh /\ PicturesRight

=============================================================================
